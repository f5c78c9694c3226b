--------------------------- MODULE WorkerAndRobot ---------------------------
(***************************************************************************)
(* The worker and the robot it owns.  OpcuaWorker sees each call to the      *)
(* robot as one step that answers true or false, FrankaRobot does not know    *)
(* who calls it; here the worker's thread stays at its call while the robot's *)
(* operation is under way, the callers and the server go on meanwhile, and    *)
(* the call returns what the operation has answered.  should_abort is the     *)
(* worker's abort_requested.                                                  *)
(*                                                                          *)
(* A command's name and pose are chosen when its execution begins.  An Other  *)
(* is one of openBrakes (which stands for the brakes and the FCI too),        *)
(* executeNamedTask and the two ways to save a pose.                          *)
(***************************************************************************)
EXTENDS OpcuaWorker

CONSTANTS Names, Target, Poses, NoPose, LastAttempt,  \* see FrankaRobot
          StoredPoses   \* bound: the pose maps the server may have at the beginning

(* What FrankaRobot assumes of its constants.  *)
ASSUME RobotAssumption == LastAttempt \in Nat /\ Target \in Names /\ NoPose \notin Poses

VARIABLES
  at, op, name, value, attempt, task_started, late, answer,
  token, poseMap, task, destination, fault, position, completed,
  (* history *)
  standing,   \* a Stop has been Completed and nothing begun since that moves
  known       \* what each stored pose can be, going by the answers alone

Robot == INSTANCE FrankaRobot WITH abort <- abort_requested

operationVars == <<at, op, name, value, attempt, task_started, late, answer>>
serverVars == <<token, poseMap, task, destination, fault, position, completed>>
historyVars == <<standing, known>>
frankaVars == <<operationVars, serverVars, historyVars>>
systemVars == <<vars, frankaVars>>

SystemInit ==
  /\ Init /\ Robot!Init /\ poseMap \in StoredPoses
  /\ standing = FALSE
  /\ known = [n \in Names |-> {poseMap[n]}]

-----------------------------------------------------------------------------
(* The worker's thread calls the robot ...  *)

(* Mutant of BeginStop: another case of the switch.  *)
BeginStopWrong == Robot!BeginCall("closeBrakes")

BeginStop == Robot!BeginCall("stop")

BeginOther ==
  \/ Robot!BeginCall("openBrakes")
  \/ Robot!BeginCall("executeNamedTask")
  \/ \E n \in Names : \/ Robot!BeginSaveCurrent(n)
                      \/ \E pose \in Poses \cup {NoPose} : Robot!BeginSaveExplicit(n, pose)

BeginOperation ==
  \/ run_pc = "connect" /\ Robot!BeginCall("connect")
  \/ run_pc = "requestControl" /\ Robot!BeginRequestControl
  \/ run_pc = "releaseControl" /\ Robot!BeginCall("releaseControl")
  \/ /\ run_pc \in {"disconnectStopped", "disconnectFailed", "disconnect"}
     /\ Robot!BeginCall("disconnect")
  \/ run_pc = "call" /\ popped["worker"].type = "Stop" /\ BeginStop
  \/ run_pc = "call" /\ popped["worker"].type = "Other" /\ BeginOther
  \/ run_pc = "poll" /\ \E n \in Names : Robot!BeginMove(n)

CallRobot ==
  /\ BeginOperation
  /\ standing' = (standing /\ op' \notin {"move", "executeNamedTask"})
  /\ UNCHANGED <<vars, known>>

(* ... whose operation goes on ...  *)
RobotGoesOn ==
  /\ at # "back" /\ Robot!Continue
  /\ UNCHANGED <<vars, historyVars>>

(* ... and returns.  A failed save may have stored its pose nevertheless.  *)
Learn ==
  LET kept == IF answer THEN {} ELSE known[name]
  IN  IF op = "save" /\ value # NoPose
      THEN known' = [known EXCEPT ![name] = kept \cup {value}]
      ELSE UNCHANGED known

RobotReturns ==
  /\ Robot!Return
  /\ \/ RunConnect /\ run_pc' = (IF answer THEN "checkStopping" ELSE "fail")
     \/ RunRequestControl /\ run_pc' = (IF answer THEN "ready" ELSE "disconnectFailed")
     \/ RunReleaseControl \/ RunDisconnect \/ RunCall \/ RunMoveFails
  /\ standing' = (standing \/ (run_pc = "call" /\ popped["worker"].type = "Stop" /\ answer))
  /\ Learn

-----------------------------------------------------------------------------
(* Every other step of the worker's thread and of its callers.  Bound: nobody   *)
(* starts a worker that was stopped; it would serve nothing, see ReadyMeansServing. *)
ThreadStep ==
  \/ RunCheckStopping \/ RunFail \/ RunFailNotify \/ RunReady \/ RunNotifyReady
  \/ RunDisconnected \/ RunNotifyStarters \/ RunDisconnectedNotify
  \/ RunPop \/ RunClearAbort \/ RunPushResult

CallerStep ==
  \/ RunWokenSpuriously
  \/ \E c \in Callers : InCall(c) \/ SpuriousWakeup(c)
  \/ ~shutdown_requested /\ \E c \in Starters : StartCheckThread(c)
  \/ \E c \in Stoppers : StopCheckThread(c)
  \/ \E c \in Submitters :
       \/ \E type \in NormalTypes : Submit(c, type, "normal")
       \/ \E type \in PriorityTypes : Submit(c, type, "priority")
  \/ \E c \in Collectors : TryGetResult(c) \/ WaitAndPopResult(c)

Thread == CallRobot \/ RobotGoesOn \/ RobotReturns \/ (ThreadStep /\ UNCHANGED frankaVars)

ServerStep == (Robot!Server \/ Robot!DeadlinePasses) /\ UNCHANGED <<vars, historyVars>>

SystemNext == Thread \/ (CallerStep /\ UNCHANGED frankaVars) \/ ServerStep

SystemSpec == SystemInit /\ [][SystemNext]_systemVars

(* The scheduler is fair, the client's calls return and the clock goes on.  That *)
(* a Move comes to its end is not assumed here.                                  *)
SystemFairSpec ==
  /\ SystemSpec
  /\ WF_systemVars(Thread)
  /\ WF_systemVars(Robot!DeadlinePasses /\ UNCHANGED <<vars, historyVars>>)
  /\ \A c \in Callers :
       /\ WF_systemVars(InCall(c) /\ UNCHANGED frankaVars)
       /\ WF_systemVars(CollectorStep(c) /\ UNCHANGED frankaVars)
-----------------------------------------------------------------------------
(* After a Stop that is answered Completed the robot stands until the worker     *)
(* begins a command that moves it: also when an earlier Move was given up with    *)
(* its task still running, because the status could not be read or because its    *)
(* own call of stop was lost.                                                      *)
StopStops == standing => task = "none"

(* The stored poses are what the answers say: one that was saved and answered      *)
(* Completed stays until the next save of its name, whatever Moves and failures     *)
(* come between, and a Move that is answered Completed has gone there. Not the       *)
(* target's own name, which every Move overwrites.                                   *)
PosesAsAnswered ==
  \A n \in Names \ {Target} :
    /\ at = "idle" => poseMap[n] \in known[n]
    /\ at = "back" /\ op = "move" /\ answer /\ name = n => position \in known[n]

(* With this robot the worker is the one OpcuaWorker describes, what it assumes    *)
(* included: every call returns, and a Move that is told "not yet" for ever ends -  *)
(* at its deadline - so that all that is shown of OpcuaWorker holds of the two.      *)
ImplementsWorker == FairSpec
=============================================================================
