------------------------ MODULE WorkerAndRobotProofs ------------------------
(***************************************************************************)
(* The worker and the robot together: the pair behaves as the worker alone   *)
(* and as the robot alone, so that what is proved of each holds of the two;   *)
(* a Stop answered Completed leaves the robot standing, and the stored poses   *)
(* are what the answers say.                                                  *)
(***************************************************************************)
EXTENDS WorkerAndRobot, OpcuaWorkerProofs

RP == INSTANCE FrankaRobotProofs WITH abort <- abort_requested

RobotCalls == {"connect", "requestControl", "releaseControl", "disconnectStopped",
               "disconnectFailed", "disconnect", "call", "poll"}

MovePlaces == {"readPose", "replaceTarget", "startTask", "poll", "status", "stopLate", "stopAborted"}

(* Which operation the robot is at, going by the place in it.  *)
OperationAt ==
  /\ at = "idle" => op = "none"
  /\ at = "call" => op \in Robot!OneCall
  /\ at \in {"requestToken", "lookAtToken"} => op = "requestControl"
  /\ at \in MovePlaces => op = "move"
  /\ at \in {"readCurrent", "convert", "replace"} => op = "save"

(* While an operation is under way the worker's thread stays at its call, and the *)
(* call made for a Stop is stop.                                                  *)
ThreadWaits ==
  at # "idle" =>
    /\ run_pc \in RobotCalls
    /\ run_pc = "call" /\ popped["worker"].type = "Stop" => op = "stop"

(* Nothing but an operation that moves the robot starts a task.  *)
Stands ==
  /\ standing => task = "none" /\ op \notin {"move", "executeNamedTask"}
  /\ op = "stop" /\ at = "back" /\ answer => task = "none"

Saved(n) == op = "save" /\ at = "back" /\ name = n

(* Between a save and its return the map is ahead of what the answers say.  *)
MapIsKnown ==
  \A n \in Names \ {Target} :
    /\ ~Saved(n) \/ (~answer /\ value = NoPose) => poseMap[n] \in known[n]
    /\ Saved(n) /\ answer => poseMap[n] = value /\ value # NoPose
    /\ Saved(n) /\ ~answer => poseMap[n] \in known[n] \cup {value}

(* The pose a move has read is one the answers know.  *)
GoalIsKnown ==
  \A n \in Names \ {Target} :
    op = "move" /\ name = n /\ (at \in MovePlaces \ {"readPose"} \/ (at = "back" /\ answer))
      => value \in known[n]

KnownOfNames == known = [n \in Names |-> known[n]]

(* Only what can be converted is saved.  *)
SavesOnlyPoses == at = "replace" => value # NoPose

PosesInv == MapIsKnown /\ GoalIsKnown /\ KnownOfNames /\ SavesOnlyPoses

SystemInv == OperationAt /\ ThreadWaits /\ Stands /\ PosesInv

-----------------------------------------------------------------------------
(* The two halves of a step.  *)

LEMMA WorkerStep == SystemNext => [Next]_vars
<1>1. RobotReturns => RunStep
  BY DEF RobotReturns, RunStep, RunConnect, RunRequestControl
<1>2. ThreadStep => RunStep
  BY DEF ThreadStep, RunStep
<1>3. CallerStep => Next
  BY DEF CallerStep, Next
<1>4. CallRobot \/ RobotGoesOn \/ ServerStep => UNCHANGED vars
  BY DEF CallRobot, RobotGoesOn, ServerStep
<1> QED
  BY <1>1, <1>2, <1>3, <1>4 DEF SystemNext, Thread, Next

LEMMA FrankaVars == UNCHANGED frankaVars => UNCHANGED <<at, op, name, value, attempt, task_started, late, answer, token, poseMap, task, destination, fault, position, completed, standing, known>>
BY DEF frankaVars, operationVars, serverVars, historyVars

LEMMA AbortToggles ==
  ASSUME abort_requested \in BOOLEAN, abort_requested' \in BOOLEAN, UNCHANGED frankaVars
  PROVE  [Robot!Next]_(Robot!vars)
<1>1. CASE abort_requested' = abort_requested
  BY <1>1, FrankaVars DEF Robot!vars, Robot!opVars, Robot!loopVars, Robot!serverVars, Robot!taskVars
<1>2. CASE abort_requested' = ~abort_requested
  BY <1>2, FrankaVars DEF Robot!Next, Robot!AbortChanges, Robot!opVars, Robot!loopVars,
     Robot!serverVars, Robot!taskVars
<1> QED
  BY <1>1, <1>2

LEMMA BeginsOperation == BeginOperation => Robot!Begin
<1>1. BeginOther => Robot!Begin
  BY DEF BeginOther, Robot!Begin, Robot!OneCall
<1> QED
  BY <1>1 DEF BeginOperation, BeginStop, Robot!Begin, Robot!OneCall

LEMMA RobotStep ==
  ASSUME abort_requested \in BOOLEAN, abort_requested' \in BOOLEAN, [SystemNext]_systemVars
  PROVE  [Robot!Next]_(Robot!vars)
<1>1. CASE CallRobot
  BY <1>1, BeginsOperation DEF CallRobot, Robot!Next
<1>2. CASE RobotGoesOn
  BY <1>2 DEF RobotGoesOn, Robot!Next
<1>3. CASE RobotReturns
  BY <1>3 DEF RobotReturns, Robot!Continue, Robot!Next
<1>4. CASE ServerStep
  BY <1>4 DEF ServerStep, Robot!Next
<1>5. CASE (ThreadStep \/ CallerStep) /\ UNCHANGED frankaVars
  BY <1>5, AbortToggles
<1>6. CASE UNCHANGED systemVars
  BY <1>6, AbortToggles DEF systemVars
<1> QED
  BY <1>1, <1>2, <1>3, <1>4, <1>5, <1>6 DEF SystemNext, Thread

(* The worker in this system is the one OpcuaWorker describes, so every theorem   *)
(* about it holds here: the safety half of ImplementsWorker.                       *)
THEOREM SystemIsAWorker == SystemSpec => Spec
<1>1. SystemInit => Init
  BY DEF SystemInit
<1>2. [SystemNext]_systemVars => [Next]_vars
  BY WorkerStep DEF systemVars
<1> QED
  BY <1>1, <1>2, PTL DEF SystemSpec, Spec

LEMMA WorkerInv == SystemSpec => [](TypeInv /\ LifeInv)
BY SystemIsAWorker, InvCorrect, PTL

(* The robot in this system is the one FrankaRobot describes, with the worker's    *)
(* flag for should_abort.                                                           *)
THEOREM SystemIsARobot == SystemSpec => Robot!Spec
<1>1. SystemInit => Robot!Init
  BY DEF SystemInit
<1>2. TypeInv => abort_requested \in BOOLEAN
  BY DEF TypeInv, TypeOK
<1>3. TypeInv' => abort_requested' \in BOOLEAN
  BY DEF TypeInv, TypeOK
<1>4. TypeInv /\ TypeInv' /\ [SystemNext]_systemVars => [Robot!Next]_(Robot!vars)
  BY <1>2, <1>3, RobotStep
<1> QED
  BY <1>1, <1>4, WorkerInv, PTL DEF SystemSpec, Robot!Spec

(* FrankaRobotProofs speaks of the same robot.  *)
LEMMA SameRobot ==
  /\ Robot!Init => RP!Init
  /\ [Robot!Next]_(Robot!vars) => [RP!Next]_(RP!vars)
BY DEF
   Robot!BeginCall, RP!BeginCall, Robot!BeginRequestControl, RP!BeginRequestControl,
   Robot!BeginMove, RP!BeginMove, Robot!BeginSaveCurrent, RP!BeginSaveCurrent,
   Robot!BeginSaveExplicit, RP!BeginSaveExplicit, Robot!Return, RP!Return, Robot!StopTask,
   RP!StopTask, Robot!TaskStarted, RP!TaskStarted, Robot!FreeToken, RP!FreeToken,
   Robot!CallOnce, RP!CallOnce, Robot!RequestToken, RP!RequestToken, Robot!LookAtToken,
   RP!LookAtToken, Robot!ReadPose, RP!ReadPose, Robot!ReplaceTarget, RP!ReplaceTarget,
   Robot!StartTask, RP!StartTask, Robot!PollDeadline, RP!PollDeadline, Robot!PollAbort,
   RP!PollAbort, Robot!Active, RP!Active, Robot!PollStatus, RP!PollStatus, Robot!StopMove,
   RP!StopMove, Robot!ReadCurrent, RP!ReadCurrent, Robot!Convert, RP!Convert, Robot!Replace,
   RP!Replace, Robot!TokenChanges, RP!TokenChanges, Robot!TaskRuns, RP!TaskRuns,
   Robot!TaskEnds, RP!TaskEnds, Robot!TaskFails, RP!TaskFails, Robot!DeadlinePasses,
   RP!DeadlinePasses, Robot!AbortChanges, RP!AbortChanges, Robot!Begin, RP!Begin,
   Robot!Continue, RP!Continue, Robot!Server, RP!Server, Robot!Next, RP!Next, Robot!CallMethod,
   RP!CallMethod, Robot!Goto, RP!Goto, Robot!Back, RP!Back, Robot!opVars, RP!opVars,
   Robot!loopVars, RP!loopVars, Robot!taskVars, RP!taskVars, Robot!serverVars, RP!serverVars,
   Robot!vars, RP!vars, Robot!OneCall, RP!OneCall, Robot!Init, RP!Init

LEMMA RobotMoves == SystemSpec => [](RP!TypeOK /\ RP!MoveInv)
<1>1. Robot!Init => RP!TypeOK /\ RP!MoveInv
  BY SameRobot, RobotAssumption, RP!TypeInit, RP!MoveInit DEF RobotAssumption
<1>2. RP!TypeOK /\ RP!MoveInv /\ [Robot!Next]_(Robot!vars) => (RP!TypeOK /\ RP!MoveInv)'
  BY SameRobot, RobotAssumption, RP!TypeStep, RP!MoveStep DEF RobotAssumption
<1> QED
  BY <1>1, <1>2, SystemIsARobot, PTL DEF Robot!Spec

(* Hence a Move of the worker that is answered Completed has reached the pose it    *)
(* was sent to, whatever the callers, the worker's thread and the server interleave. *)
THEOREM MovesArrive == SystemSpec => []Robot!MoveReachesThePose
<1>1. RP!MoveInv => Robot!MoveReachesThePose
  BY DEF RP!MoveInv, RP!Arrived, Robot!MoveReachesThePose
<1> QED
  BY <1>1, RobotMoves, PTL

-----------------------------------------------------------------------------
(* The invariant of the two.  *)

LEMMA OperationStep == OperationAt /\ [Robot!Next]_(Robot!vars) => OperationAt'
<1> SUFFICES ASSUME OperationAt, [Robot!Next]_(Robot!vars) PROVE OperationAt'
  OBVIOUS
<1> USE DEF OperationAt, MovePlaces, Robot!Goto, Robot!Back, Robot!CallMethod, Robot!opVars
<1>1. ASSUME NEW o \in Robot!OneCall, Robot!BeginCall(o) PROVE OperationAt'
  BY <1>1 DEF Robot!BeginCall
<1>2. CASE Robot!BeginRequestControl
  BY <1>2 DEF Robot!BeginRequestControl
<1>3. ASSUME NEW n \in Names, Robot!BeginMove(n) \/ Robot!BeginSaveCurrent(n) PROVE OperationAt'
  BY <1>3 DEF Robot!BeginMove, Robot!BeginSaveCurrent
<1>4. ASSUME NEW n \in Names, NEW pose \in Poses \cup {NoPose}, Robot!BeginSaveExplicit(n, pose)
      PROVE  OperationAt'
  BY <1>4 DEF Robot!BeginSaveExplicit
<1>5. CASE Robot!CallOnce \/ Robot!RequestToken \/ Robot!LookAtToken
  BY <1>5 DEF Robot!CallOnce, Robot!RequestToken, Robot!LookAtToken
<1>6. CASE Robot!ReadPose \/ Robot!ReplaceTarget \/ Robot!StartTask
  BY <1>6 DEF Robot!ReadPose, Robot!ReplaceTarget, Robot!StartTask
<1>7. CASE Robot!PollDeadline \/ Robot!PollAbort \/ Robot!PollStatus \/ Robot!StopMove
  BY <1>7 DEF Robot!PollDeadline, Robot!PollAbort, Robot!PollStatus, Robot!StopMove
<1>8. CASE Robot!ReadCurrent \/ Robot!Convert \/ Robot!Replace
  BY <1>8 DEF Robot!ReadCurrent, Robot!Convert, Robot!Replace
<1>9. CASE Robot!Return
  BY <1>9 DEF Robot!Return
<1>10. CASE Robot!Server \/ Robot!DeadlinePasses \/ Robot!AbortChanges \/ UNCHANGED Robot!vars
  BY <1>10 DEF Robot!Server, Robot!TokenChanges, Robot!TaskRuns, Robot!TaskEnds, Robot!TaskFails,
     Robot!DeadlinePasses, Robot!AbortChanges, Robot!vars
<1> QED
  BY <1>1, <1>2, <1>3, <1>4, <1>5, <1>6, <1>7, <1>8, <1>9, <1>10
     DEF Robot!Next, Robot!Begin, Robot!Continue

(* An operation that goes on stays the same one and is not over yet.  *)
LEMMA GoesOn ==
  ASSUME RobotGoesOn
  PROVE  at # "idle" /\ at' # "idle" /\ op' = op /\ name' = name
BY DEF RobotGoesOn, Robot!Continue, Robot!Goto, Robot!Back, Robot!CallMethod, Robot!opVars,
  Robot!CallOnce, Robot!RequestToken, Robot!LookAtToken, Robot!ReadPose, Robot!ReplaceTarget,
  Robot!StartTask, Robot!PollDeadline, Robot!PollAbort, Robot!PollStatus, Robot!StopMove,
  Robot!ReadCurrent, Robot!Convert, Robot!Replace, Robot!Return

(* A thread that is at a call to the robot is taken from there by nobody.  *)
LEMMA ThreadStays ==
  ASSUME TypeInv, LifeInv, run_pc \in RobotCalls, ThreadStep \/ CallerStep
  PROVE  run_pc' = run_pc /\ popped' = popped
<1>1. ~ThreadStep
  BY DEF ThreadStep, RobotCalls, RunGoto, RunCheckStopping, RunFail, RunFailNotify, RunReady,
     RunNotifyReady, RunDisconnected, RunNotifyStarters, RunDisconnectedNotify, RunPop,
     RunClearAbort, RunPushResult
<1>2. CASE RunWokenSpuriously
  BY <1>2 DEF RunWokenSpuriously, Manager!SpuriousWakeup
<1>3. ASSUME NEW c \in Callers, InCall(c) PROVE run_pc' = run_pc /\ popped' = popped
  <2>1. ~StartSpawn(c) /\ ~Join(c)
    BY DEF StartSpawn, Join, Goto, LifeInv, ThreadLife, RobotCalls
  <2>2. CASE StartConnecting(c) \/ StartWait(c) \/ EnterJoin(c) \/ StopStopping(c)
             \/ StopDisconnected(c) \/ StopNotify(c) \/ SetAbort(c)
    BY <2>2 DEF StartConnecting, StartWait, EnterJoin, StopStopping, StopDisconnected,
       StopNotify, SetAbort, dataVars, managerVars
  <2>3. CASE StopShutdown(c) \/ Enqueue(c) \/ EnqueuePriority(c)
    BY <2>3 DEF StopShutdown, Enqueue, EnqueuePriority, managerVars, Manager!Shutdown,
       Manager!Enqueue, Manager!EnqueuePriority
  <2> QED
    BY <1>3, <2>1, <2>2, <2>3 DEF InCall
<1>4. ASSUME NEW c \in Callers, SpuriousWakeup(c) \/ StartCheckThread(c) \/ StopCheckThread(c)
                                 \/ TryGetResult(c) \/ WaitAndPopResult(c)
      PROVE  run_pc' = run_pc /\ popped' = popped
  BY <1>4 DEF SpuriousWakeup, StartCheckThread, StopCheckThread, TryGetResult, WaitAndPopResult,
     dataVars, managerVars
<1>5. ASSUME NEW c \in Callers, NEW type, NEW queue, Submit(c, type, queue)
      PROVE  run_pc' = run_pc /\ popped' = popped
  BY <1>5 DEF Submit, managerVars
<1> QED
  BY <1>1, <1>2, <1>3, <1>4, <1>5 DEF CallerStep, Callers

LEMMA ThreadWaitsStep ==
  ASSUME TypeInv, LifeInv, OperationAt, ThreadWaits, [SystemNext]_systemVars
  PROVE  ThreadWaits'
<1>1. CASE CallRobot
  <2>1. run_pc' = run_pc /\ popped' = popped
    BY <1>1 DEF CallRobot, vars, dataVars, managerVars
  <2>2. run_pc \in RobotCalls
    BY <1>1 DEF CallRobot, BeginOperation, RobotCalls
  <2>3. run_pc = "call" /\ popped["worker"].type = "Stop" => op' = "stop"
    BY <1>1 DEF CallRobot, BeginOperation, BeginStop, Robot!BeginCall
  <2> QED
    BY <2>1, <2>2, <2>3 DEF ThreadWaits
<1>2. CASE RobotGoesOn
  BY <1>2, GoesOn DEF ThreadWaits, RobotGoesOn, vars, dataVars, managerVars
<1>3. CASE RobotReturns
  BY <1>3 DEF RobotReturns, Robot!Return, Robot!Goto, ThreadWaits
<1>4. CASE (ThreadStep \/ CallerStep) /\ UNCHANGED frankaVars
  BY <1>4, ThreadStays, FrankaVars DEF ThreadWaits
<1>5. CASE ServerStep
  BY <1>5 DEF ServerStep, ThreadWaits, vars, dataVars, managerVars, Robot!Server,
     Robot!TokenChanges, Robot!TaskRuns, Robot!TaskEnds, Robot!TaskFails, Robot!DeadlinePasses,
     Robot!opVars
<1>6. CASE UNCHANGED systemVars
  BY <1>6, FrankaVars DEF systemVars, vars, dataVars, managerVars, ThreadWaits
<1> QED
  BY <1>1, <1>2, <1>3, <1>4, <1>5, <1>6 DEF SystemNext, Thread

(* What the steps of an operation that goes on do to the task ...  *)
LEMMA TaskGoesOn ==
  ASSUME OperationAt, RobotGoesOn
  PROVE  /\ task = "none" /\ op \notin {"move", "executeNamedTask"} => task' = "none"
         /\ op = "stop" /\ at' = "back" /\ answer' => task' = "none"
<1> USE DEF RobotGoesOn, OperationAt, MovePlaces, Robot!Goto, Robot!Back, Robot!CallMethod,
            Robot!opVars, Robot!serverVars, Robot!taskVars
<1>1. CASE Robot!CallOnce
  BY <1>1 DEF Robot!CallOnce, Robot!StopTask, Robot!TaskStarted
<1>2. CASE Robot!RequestToken \/ Robot!LookAtToken
  BY <1>2 DEF Robot!RequestToken, Robot!LookAtToken
<1>3. CASE Robot!ReadPose \/ Robot!ReplaceTarget \/ Robot!StartTask
  BY <1>3 DEF Robot!ReadPose, Robot!ReplaceTarget, Robot!StartTask
<1>4. CASE Robot!PollDeadline \/ Robot!PollAbort \/ Robot!PollStatus \/ Robot!StopMove
  BY <1>4 DEF Robot!PollDeadline, Robot!PollAbort, Robot!PollStatus, Robot!StopMove
<1>5. CASE Robot!ReadCurrent \/ Robot!Convert \/ Robot!Replace
  BY <1>5 DEF Robot!ReadCurrent, Robot!Convert, Robot!Replace
<1> QED
  BY <1>1, <1>2, <1>3, <1>4, <1>5 DEF Robot!Continue, Robot!Return

(* ... and what a beginning and the server's own steps leave alone.  *)
LEMMA Begins ==
  ASSUME CallRobot
  PROVE  /\ at = "idle" /\ at' \in {"call", "requestToken", "readPose", "readCurrent", "convert"}
         /\ UNCHANGED <<answer, task, poseMap, known>>
BY DEF CallRobot, BeginOperation, BeginStop, BeginOther, Robot!BeginCall, Robot!BeginRequestControl,
  Robot!BeginMove, Robot!BeginSaveCurrent, Robot!BeginSaveExplicit, Robot!Goto,
  Robot!serverVars, Robot!taskVars

LEMMA ServerGoesOn ==
  ASSUME ServerStep
  PROVE  /\ UNCHANGED <<at, op, name, value, answer, poseMap, standing, known>>
         /\ task = "none" => task' = "none"
BY DEF ServerStep, historyVars, Robot!Server, Robot!TokenChanges, Robot!TaskRuns, Robot!TaskEnds,
  Robot!TaskFails, Robot!DeadlinePasses, Robot!opVars, Robot!serverVars, Robot!taskVars

LEMMA StandsStep ==
  ASSUME OperationAt, ThreadWaits, Stands, [SystemNext]_systemVars
  PROVE  Stands'
<1>1. CASE CallRobot
  BY <1>1, Begins DEF CallRobot, Stands
<1>2. CASE RobotGoesOn
  BY <1>2, GoesOn, TaskGoesOn DEF RobotGoesOn, historyVars, Stands
<1>3. CASE RobotReturns
  <2>1. at = "back" /\ at' = "idle" /\ op' = "none" /\ UNCHANGED task
    BY <1>3 DEF RobotReturns, Robot!Return, Robot!Goto, Robot!serverVars, Robot!taskVars
  <2>2. standing' => standing \/ (run_pc = "call" /\ popped["worker"].type = "Stop" /\ answer)
    BY <1>3 DEF RobotReturns
  <2> QED
    BY <2>1, <2>2 DEF Stands, ThreadWaits
<1>4. CASE (ThreadStep \/ CallerStep) /\ UNCHANGED frankaVars
  BY <1>4, FrankaVars DEF Stands
<1>5. CASE ServerStep
  BY <1>5, ServerGoesOn DEF Stands
<1>6. CASE UNCHANGED systemVars
  BY <1>6, FrankaVars DEF systemVars, Stands
<1> QED
  BY <1>1, <1>2, <1>3, <1>4, <1>5, <1>6 DEF SystemNext, Thread

-----------------------------------------------------------------------------
(* The stored poses.  *)

LEMMA PosesGoOn ==
  ASSUME RP!TypeOK, OperationAt, PosesInv, RobotGoesOn
  PROVE  PosesInv'
<1> USE DEF PosesInv, MapIsKnown, GoalIsKnown, KnownOfNames, SavesOnlyPoses, Saved,
            OperationAt, MovePlaces, RobotGoesOn, historyVars, Robot!Goto, Robot!Back,
            Robot!CallMethod, Robot!opVars, Robot!serverVars
<1>1. CASE Robot!CallOnce
  BY <1>1 DEF Robot!CallOnce, Robot!OneCall
<1>2. CASE Robot!RequestToken \/ Robot!LookAtToken
  BY <1>2 DEF Robot!RequestToken, Robot!LookAtToken
<1>3. CASE Robot!ReadPose
  BY <1>3 DEF Robot!ReadPose
<1>4. CASE Robot!ReplaceTarget
  BY <1>4, RobotAssumption DEF Robot!ReplaceTarget, RP!TypeOK
<1>5. CASE Robot!StartTask
  BY <1>5 DEF Robot!StartTask
<1>6. CASE Robot!PollDeadline \/ Robot!PollAbort \/ Robot!PollStatus \/ Robot!StopMove
  BY <1>6 DEF Robot!PollDeadline, Robot!PollAbort, Robot!PollStatus, Robot!StopMove
<1>7. CASE Robot!ReadCurrent \/ Robot!Convert
  BY <1>7 DEF Robot!ReadCurrent, Robot!Convert
<1>8. CASE Robot!Replace
  BY <1>8 DEF Robot!Replace, RP!TypeOK
<1> QED
  BY <1>1, <1>2, <1>3, <1>4, <1>5, <1>6, <1>7, <1>8 DEF Robot!Continue, Robot!Return

LEMMA PosesStep ==
  ASSUME RP!TypeOK, OperationAt, PosesInv, [SystemNext]_systemVars
  PROVE  PosesInv'
<1> USE DEF PosesInv, MapIsKnown, GoalIsKnown, KnownOfNames, SavesOnlyPoses, Saved
<1>1. CASE CallRobot
  BY <1>1, Begins DEF OperationAt, MovePlaces
<1>2. CASE RobotGoesOn
  BY <1>2, PosesGoOn
<1>3. CASE RobotReturns
  BY <1>3 DEF RobotReturns, Learn, Robot!Return, Robot!Goto, Robot!serverVars
<1>4. CASE (ThreadStep \/ CallerStep) /\ UNCHANGED frankaVars
  BY <1>4, FrankaVars
<1>5. CASE ServerStep
  BY <1>5, ServerGoesOn
<1>6. CASE UNCHANGED systemVars
  BY <1>6, FrankaVars DEF systemVars
<1> QED
  BY <1>1, <1>2, <1>3, <1>4, <1>5, <1>6 DEF SystemNext, Thread

LEMMA SystemInvInit == SystemInit => SystemInv
<1> SUFFICES ASSUME SystemInit PROVE SystemInv
  OBVIOUS
<1>1. at = "idle" /\ op = "none" /\ standing = FALSE /\ known = [n \in Names |-> {poseMap[n]}]
  BY DEF SystemInit, Robot!Init
<1>2. KnownOfNames
  BY <1>1 DEF KnownOfNames
<1>3. MapIsKnown /\ GoalIsKnown
  BY <1>1 DEF MapIsKnown, GoalIsKnown, Saved
<1> QED
  BY <1>1, <1>2, <1>3 DEF SystemInv, OperationAt, MovePlaces, ThreadWaits, Stands, PosesInv, SavesOnlyPoses

LEMMA SystemInvCorrect == SystemSpec => []SystemInv
<1> DEFINE Known == TypeInv /\ LifeInv /\ RP!TypeOK
<1>1. Known /\ Known' /\ SystemInv /\ [SystemNext]_systemVars => SystemInv'
  <2> SUFFICES ASSUME Known, Known', SystemInv, [SystemNext]_systemVars PROVE SystemInv'
    OBVIOUS
  <2>1. abort_requested \in BOOLEAN /\ abort_requested' \in BOOLEAN
    BY DEF TypeInv, TypeOK
  <2>2. OperationAt'
    BY <2>1, RobotStep, OperationStep DEF SystemInv
  <2>3. ThreadWaits' /\ Stands' /\ PosesInv'
    BY ThreadWaitsStep, StandsStep, PosesStep DEF SystemInv
  <2> QED
    BY <2>2, <2>3 DEF SystemInv
<1>2. SystemSpec => []Known
  BY WorkerInv, RobotMoves, PTL
<1> QED
  BY <1>1, <1>2, SystemInvInit, PTL DEF SystemSpec

(* A Stop that is answered Completed has stopped whatever ran, also the task of a    *)
(* Move that was given up, and nothing runs again until a command begins that moves   *)
(* the robot: whatever the callers do and whatever calls are lost.                     *)
THEOREM StoppedRobotStands == SystemSpec => []StopStops
<1>1. SystemInv => StopStops
  BY DEF SystemInv, Stands, StopStops
<1> QED
  BY <1>1, SystemInvCorrect, PTL

(* The stored poses are what the answers say, and a Move that is answered Completed   *)
(* went to one of them: for every set of names and poses, whatever calls fail on      *)
(* either side.                                                                        *)
THEOREM PosesAreAsAnswered == SystemSpec => []PosesAsAnswered
<1>1. SystemInv /\ RP!MoveInv => PosesAsAnswered
  BY DEF SystemInv, PosesInv, MapIsKnown, GoalIsKnown, Saved, OperationAt, MovePlaces,
     RP!MoveInv, RP!Arrived, PosesAsAnswered
<1> QED
  BY <1>1, SystemInvCorrect, RobotMoves, PTL
=============================================================================
