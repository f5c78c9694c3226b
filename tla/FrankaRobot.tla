---------------------------- MODULE FrankaRobot ----------------------------
(***************************************************************************)
(* FrankaRobot: the operations of the robot as sequences of calls to its    *)
(* OPC UA server.  One thread at a time uses it (the worker's), so one      *)
(* operation is under way at a time; the server goes on by itself between   *)
(* any two calls.                                                           *)
(*                                                                          *)
(* The server is not in the repository.  What is said of it here is what    *)
(* FrankaRobot counts on: it grants a requested control token some time     *)
(* later or never, refuses to start a task while another one is active,     *)
(* reports a task with a delay, and the opcua_goto task drives to the pose  *)
(* it finds under "target_pose" when it begins to run.                      *)
(*                                                                          *)
(* Operations that only read (readStatus outside a move, readJointAngles,   *)
(* readCartesianPose, readTorque, readWrench, areBrakesOpen) change nothing *)
(* and have no action; setIntegerVariable is private and has no caller.     *)
(***************************************************************************)
EXTENDS Naturals

CONSTANTS Names,        \* the names of poses, that of the target included
          Target,       \* "target_pose"
          Poses,        \* poses as 4x4 matrices
          NoPose,       \* no pose, or one that is not finite or not normalised
          LastAttempt   \* number of the last look at the token, 10 in the code

ASSUME LastAttemptAssumption == LastAttempt \in Nat
ASSUME TargetAssumption == Target \in Names
ASSUME NoPoseAssumption == NoPose \notin Poses

(* The operations that are one method call with nothing around it.  *)
OneCall == {"connect", "disconnect", "openBrakes", "closeBrakes", "activateFCI",
            "deactivateFCI", "executeNamedTask", "stop", "releaseControl"}
Operations == OneCall \cup {"none", "requestControl", "move", "save"}

(* Where an operation's caller is: between two calls to the server.  *)
Places == {"idle", "call", "requestToken", "lookAtToken", "readPose", "replaceTarget",
           "startTask", "poll", "status", "stopLate", "stopAborted", "readCurrent",
           "convert", "replace", "back"}
TokenStates == {"free", "asked", "ours", "theirs"}
TaskStates == {"none", "starting", "running"}

VARIABLES
  at,            \* where in the operation its caller is
  op,            \* the operation
  name,          \* pose_id
  value,         \* the pose that is being moved to or saved
  attempt,       \* i of requestControl's loop
  task_started,
  late,          \* the deadline of the move has passed
  abort,         \* what should_abort would answer
  answer,        \* what the last operation returned
  (* the server *)
  token,         \* the control token: "free", "asked", "ours" or "theirs"
  poseMap,       \* the KeyPoseMap
  task,          \* the opcua_goto task: "none", "starting" or "running"
  destination,   \* where it drives to
  fault,         \* has_error of the ExecutionStatus
  position,      \* where the robot came to rest
  completed      \* history: the task started last has driven to its end

opVars == <<op, name, value>>
loopVars == <<attempt, task_started, late>>
taskVars == <<task, destination, fault, position, completed>>
serverVars == <<token, poseMap, taskVars>>
vars == <<at, opVars, loopVars, abort, answer, serverVars>>

Init ==
  /\ at = "idle" /\ op = "none" /\ name = Target /\ value = NoPose
  /\ attempt = 0 /\ task_started = FALSE /\ late = FALSE
  /\ abort = FALSE /\ answer = FALSE
  /\ token \in {"free", "theirs"}
  /\ poseMap \in [Names -> Poses \cup {NoPose}]
  /\ task = "none" /\ destination = NoPose /\ fault = FALSE
  /\ position = NoPose /\ completed = FALSE

Goto(from, to) == at = from /\ at' = to

Back(result) == at' = "back" /\ answer' = result

(* A method call fails before the server has seen it, or after: then the    *)
(* server has done what it was asked although the caller is told it failed. *)
CallMethod(effect, noEffect, onSuccess, onFailure) ==
  \/ effect /\ (onSuccess \/ onFailure)
  \/ noEffect /\ onFailure

-----------------------------------------------------------------------------
(* The beginning and the end of an operation.  *)

BeginCall(o) ==
  /\ Goto("idle", "call")
  /\ op' = o
  /\ UNCHANGED <<name, value, loopVars, abort, answer, serverVars>>

BeginRequestControl ==
  /\ Goto("idle", "requestToken")
  /\ op' = "requestControl"
  /\ UNCHANGED <<name, value, loopVars, abort, answer, serverVars>>

BeginMove(n) ==
  /\ Goto("idle", "readPose")
  /\ op' = "move" /\ name' = n
  /\ UNCHANGED <<value, loopVars, abort, answer, serverVars>>

BeginSaveCurrent(n) ==
  /\ Goto("idle", "readCurrent")
  /\ op' = "save" /\ name' = n
  /\ UNCHANGED <<value, loopVars, abort, answer, serverVars>>

BeginSaveExplicit(n, pose) ==
  /\ Goto("idle", "convert")
  /\ op' = "save" /\ name' = n /\ value' = pose
  /\ UNCHANGED <<loopVars, abort, answer, serverVars>>

Return ==
  /\ Goto("back", "idle")
  /\ op' = "none" /\ name' = Target /\ value' = NoPose
  /\ attempt' = 0 /\ task_started' = FALSE /\ late' = FALSE
  /\ UNCHANGED <<abort, answer, serverVars>>

-----------------------------------------------------------------------------
(* One call, and requestControl.  *)

StopTask ==
  /\ task' = "none"
  /\ UNCHANGED <<destination, fault, position, completed>>

(* One task at a time: StartTask is refused while another one is active.  For  *)
(* executeNamedTask it may be any task; nobody asks afterwards where it drove. *)
TaskStarted ==
  /\ task = "none" /\ task' = "starting"
  /\ completed' = FALSE
  /\ UNCHANGED <<destination, fault, position>>

FreeToken == token' = IF token = "theirs" THEN "theirs" ELSE "free"

CallOnce ==
  /\ at = "call"
  /\ CallMethod(/\ CASE op = "stop" -> StopTask
                     [] op = "executeNamedTask" -> TaskStarted
                     [] OTHER -> UNCHANGED taskVars
                /\ IF op = "releaseControl" THEN FreeToken ELSE UNCHANGED token,
                UNCHANGED <<taskVars, token>>,
                Back(TRUE), Back(FALSE))
  /\ UNCHANGED <<opVars, loopVars, abort, poseMap>>

RequestToken ==
  /\ at = "requestToken"
  /\ CallMethod(token' = IF token = "ours" THEN "ours" ELSE "asked",
                UNCHANGED token,
                at' = "lookAtToken" /\ UNCHANGED answer, Back(FALSE))
  /\ UNCHANGED <<opVars, loopVars, abort, poseMap, taskVars>>

(* Mutant of LookAtToken: one look too many.  *)
LookAtTokenOnceMore ==
  /\ at = "lookAtToken"
  /\ \/ token = "ours" /\ Back(TRUE) /\ UNCHANGED attempt
     \/ attempt > LastAttempt /\ Back(FALSE) /\ UNCHANGED attempt
     \/ attempt <= LastAttempt /\ attempt' = attempt + 1 /\ UNCHANGED <<at, answer>>
  /\ UNCHANGED <<opVars, task_started, late, abort, serverVars>>

(* The reading may fail, which counts as "not yet".  *)
LookAtToken ==
  /\ at = "lookAtToken"
  /\ \/ token = "ours" /\ Back(TRUE) /\ UNCHANGED attempt
     \/ attempt = LastAttempt /\ Back(FALSE) /\ UNCHANGED attempt
     \/ attempt < LastAttempt /\ attempt' = attempt + 1 /\ UNCHANGED <<at, answer>>
  /\ UNCHANGED <<opVars, task_started, late, abort, serverVars>>

-----------------------------------------------------------------------------
(* moveToNamedPose.  *)

(* Read(pose_id): an error, no output or not 16 numbers all end the move.  *)
ReadPose ==
  /\ at = "readPose"
  /\ \/ /\ poseMap[name] # NoPose
        /\ value' = poseMap[name]
        /\ at' = "replaceTarget" /\ UNCHANGED answer
     \/ Back(FALSE) /\ UNCHANGED value
  /\ UNCHANGED <<op, name, loopVars, abort, serverVars>>

(* Mutant of ReplaceTarget: whether Replace failed is not asked.  *)
ReplaceTargetUnchecked ==
  /\ Goto("replaceTarget", "startTask")
  /\ poseMap' = [poseMap EXCEPT ![Target] = value] \/ UNCHANGED poseMap
  /\ UNCHANGED <<opVars, loopVars, abort, answer, token, taskVars>>

ReplaceTarget ==
  /\ at = "replaceTarget"
  /\ CallMethod(poseMap' = [poseMap EXCEPT ![Target] = value],
                UNCHANGED poseMap,
                at' = "startTask" /\ UNCHANGED answer, Back(FALSE))
  /\ UNCHANGED <<opVars, loopVars, abort, token, taskVars>>

StartTask ==
  /\ at = "startTask"
  /\ CallMethod(TaskStarted, UNCHANGED taskVars,
                at' = "poll" /\ UNCHANGED answer, Back(FALSE))
  /\ UNCHANGED <<opVars, loopVars, abort, token, poseMap>>

(* The loop: the deadline, then should_abort, then the status.  *)
PollDeadline ==
  /\ late
  /\ Goto("poll", "stopLate")
  /\ UNCHANGED <<opVars, loopVars, abort, answer, serverVars>>

(* Mutant of PollAbort: should_abort is not asked.  *)
PollAbortNever ==
  /\ ~late
  /\ Goto("poll", "status")
  /\ UNCHANGED <<opVars, loopVars, abort, answer, serverVars>>

PollAbort ==
  /\ ~late
  /\ Goto("poll", IF abort THEN "stopAborted" ELSE "status")
  /\ UNCHANGED <<opVars, loopVars, abort, answer, serverVars>>

(* The status shows the task (is_running, or its name) once it runs.  *)
Active == task = "running"

PollStatus ==
  /\ at = "status"
  /\ \/ Back(FALSE) /\ UNCHANGED task_started   \* no status, or has_error
     \/ ~fault /\ Active /\ at' = "poll" /\ task_started' = TRUE /\ UNCHANGED answer
     \/ /\ ~fault /\ ~Active
        /\ IF task_started THEN Back(TRUE) ELSE at' = "poll" /\ UNCHANGED answer
        /\ UNCHANGED task_started
  /\ UNCHANGED <<opVars, attempt, late, abort, serverVars>>

(* stop() at the two ends of the loop that it has; its answer is ignored.  *)
StopMove ==
  /\ at \in {"stopLate", "stopAborted"}
  /\ CallMethod(StopTask, UNCHANGED taskVars, Back(FALSE), Back(FALSE))
  /\ UNCHANGED <<opVars, loopVars, abort, token, poseMap>>

-----------------------------------------------------------------------------
(* savePose, of the current pose and of a given one.  *)

ReadCurrent ==
  /\ at = "readCurrent"
  /\ \/ value' \in Poses \cup {NoPose} /\ at' = "convert" /\ UNCHANGED answer
     \/ Back(FALSE) /\ UNCHANGED value
  /\ UNCHANGED <<op, name, loopVars, abort, serverVars>>

(* fromPoseToVector rejects a pose that is not finite or not normalised.  *)
Convert ==
  /\ at = "convert"
  /\ IF value = NoPose THEN Back(FALSE) ELSE at' = "replace" /\ UNCHANGED answer
  /\ UNCHANGED <<opVars, loopVars, abort, serverVars>>

Replace ==
  /\ at = "replace"
  /\ CallMethod(poseMap' = [poseMap EXCEPT ![name] = value], UNCHANGED poseMap,
                Back(TRUE), Back(FALSE))
  /\ UNCHANGED <<opVars, loopVars, abort, token, taskVars>>

-----------------------------------------------------------------------------
(* What goes on meanwhile: the token, the task, the clock, the callers.  *)

TokenChanges ==
  /\ \/ token = "asked" /\ token' = "ours"
     \/ token = "ours" /\ token' = "theirs"
  /\ UNCHANGED <<at, opVars, loopVars, abort, answer, poseMap, taskVars>>

TaskRuns ==
  /\ task = "starting" /\ task' = "running"
  /\ destination' = poseMap[Target]
  /\ fault' = FALSE
  /\ UNCHANGED <<at, opVars, loopVars, abort, answer, token, poseMap, position, completed>>

TaskEnds ==
  /\ task = "running" /\ task' = "none"
  /\ position' = destination
  /\ completed' = TRUE
  /\ UNCHANGED <<at, opVars, loopVars, abort, answer, token, poseMap, destination, fault>>

TaskFails ==
  /\ task # "none" /\ task' = "none"
  /\ fault' = TRUE
  /\ UNCHANGED <<at, opVars, loopVars, abort, answer, token, poseMap, destination,
                 position, completed>>

(* Mutant of DeadlinePasses: the deadline is taken anew in each turn of the loop.  *)
DeadlineRenewed ==
  /\ at \in {"poll", "status"}
  /\ UNCHANGED vars

DeadlinePasses ==
  /\ at \in {"poll", "status"}
  /\ ~late /\ late' = TRUE
  /\ UNCHANGED <<at, opVars, attempt, task_started, abort, answer, serverVars>>

AbortChanges ==
  /\ abort' = ~abort
  /\ UNCHANGED <<at, opVars, loopVars, answer, serverVars>>

-----------------------------------------------------------------------------
Begin ==
  \/ \E o \in OneCall : BeginCall(o)
  \/ BeginRequestControl
  \/ \E n \in Names : BeginMove(n) \/ BeginSaveCurrent(n)
  \/ \E n \in Names, pose \in Poses \cup {NoPose} : BeginSaveExplicit(n, pose)

Continue ==
  \/ CallOnce \/ RequestToken \/ LookAtToken
  \/ ReadPose \/ ReplaceTarget \/ StartTask
  \/ PollDeadline \/ PollAbort \/ PollStatus \/ StopMove
  \/ ReadCurrent \/ Convert \/ Replace
  \/ Return

Server == TokenChanges \/ TaskRuns \/ TaskEnds \/ TaskFails

Next == Begin \/ Continue \/ Server \/ DeadlinePasses \/ AbortChanges

Spec == Init /\ [][Next]_vars

(* A call to the server takes at most the client's timeout, and the clock   *)
(* goes on.  Of the server nothing is assumed: it may never grant the token *)
(* and the task may never begin nor end.                                    *)
FairSpec == Spec /\ WF_vars(Continue) /\ WF_vars(DeadlinePasses)
-----------------------------------------------------------------------------
(* Every variable of the robot, of its operation and of the server holds a   *)
(* value of its type; the token is looked at LastAttempt + 1 times at most.   *)
TypeOK ==
  /\ at \in Places
  /\ op \in Operations
  /\ name \in Names
  /\ value \in Poses \cup {NoPose}
  /\ attempt \in 0..LastAttempt
  /\ task_started \in BOOLEAN /\ late \in BOOLEAN
  /\ abort \in BOOLEAN /\ answer \in BOOLEAN
  /\ token \in TokenStates
  /\ poseMap \in [Names -> Poses \cup {NoPose}]
  /\ task \in TaskStates
  /\ destination \in Poses \cup {NoPose}
  /\ fault \in BOOLEAN
  /\ position \in Poses \cup {NoPose}
  /\ completed \in BOOLEAN

(* A move that answers true has brought the robot to the pose that was stored *)
(* under the requested name: not to an older target, not half way, and not    *)
(* before the task had even begun - although the code only ever sees whether  *)
(* a task is active, and calls may fail on either side.                       *)
MoveReachesThePose ==
  op = "move" /\ at = "back" /\ answer => completed /\ position = value

(* The operations keep the contract OpcuaWorker relies on.  *)
Contract == INSTANCE RobotContract WITH
  phase <- CASE at = "idle" -> "none"
             [] at \in {"stopLate", "stopAborted", "back"} -> "back"
             [] at = "status" -> "read"
             [] at \in {"readPose", "replaceTarget", "startTask", "poll"} -> "poll"
             [] OTHER -> "call",
  answer <- IF at \in {"stopLate", "stopAborted"} THEN FALSE ELSE answer

(* Every operation is one of the contract's calls: it asks should_abort before *)
(* every look at the robot, and it comes back whatever the server does - the   *)
(* token's loop is bounded and the move's has a deadline.                      *)
KeepsContract == Contract!Spec

-----------------------------------------------------------------------------
(* A statement of the repository that the code does not keep.  *)

(* Once the task has driven to its end the next status ends the move: the      *)
(* worker reports "Pose reached" for it, and not a failure after the deadline. *)
CompletionEndsTheMove ==
  [][at = "status" /\ completed => at' # "poll"]_vars
=============================================================================
