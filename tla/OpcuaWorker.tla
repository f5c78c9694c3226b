---------------------------- MODULE OpcuaWorker ----------------------------
(***************************************************************************)
(* OpcuaWorker: the object that owns the robot and the thread that talks   *)
(* to it.  Its callers start and stop it, submit commands and collect      *)
(* results; its thread connects, takes control, executes the commands one  *)
(* by one and gives control and connection back.                           *)
(*                                                                         *)
(* One action is one critical section of mutex_, one operation of the      *)
(* command manager, one call to the robot, one access to abort_requested_, *)
(* or one notification: between any two of them another thread may run.    *)
(* Calls that return early and change nothing (start on a worker that is   *)
(* not disconnected, stop without a thread, an empty tryGetResult,         *)
(* status) have no action: their guards are the negations of the ones      *)
(* below.                                                                  *)
(*                                                                         *)
(* The robot is seen through IFranka: each call returns true or false,     *)
(* whatever it was.                                                        *)
(***************************************************************************)
EXTENDS Naturals, Sequences, FiniteSets, SequencesExt

CONSTANTS Starters,       \* the threads that may call start
          Stoppers,       \*   ... stop
          Submitters,     \*   ... enqueueCommand and enqueuePriority
          Collectors,     \*   ... waitAndPopResult and tryGetResult
          NormalTypes,    \* the types submitted with enqueueCommand
          PriorityTypes,  \*   ... with enqueuePriority
          Capacity,       \* command_capacity
          MaxCommands,    \* bound: how many commands are submitted
          NoCommand,      \* no command: std::nullopt
          NoResult        \* no result being made

(* OpenBrakes, CloseBrakes, ExecuteNamedTask, SaveCurrentPose,             *)
(* SaveExplicitPose, ActivateFci and DeactivateFci are "Other": executing  *)
(* them is one call that succeeds or fails.                                *)
CommandTypes == {"Move", "Stop", "Other"}

ASSUME TypesAssumption == NormalTypes \subseteq CommandTypes /\ PriorityTypes \subseteq CommandTypes
(* worker_thread_ is written without a lock: start has one caller at a time. *)
ASSUME OneStarter == \E c \in Starters : Starters = {c}
ASSUME MaxCommandsAssumption == MaxCommands \in Nat

Callers == Starters \cup Stoppers \cup Submitters \cup Collectors

Command == [id : 1..MaxCommands, type : CommandTypes]
(* A result names its command; that it says Completed or Failed changes     *)
(* nothing in the worker.                                                    *)
Result == 1..MaxCommands

(* What the manager assumes of its capacity and of std::nullopt.  *)
ASSUME ManagerAssumption == Capacity \in Nat \ {0} /\ NoCommand \notin Command

(* The manager's two queues.  *)
Queues == {"normal", "priority"}

WorkerStatus == {"Disconnected", "Connecting", "Ready", "Error", "Stopping"}

VARIABLES
  (* the command manager, see CommandManager *)
  command_queue, priority_queue, shutdown_requested, waiting, notified, popped,
  (* the members of the worker *)
  worker_state,
  abort_requested,
  result_queue,
  joinable,         \* worker_thread_.joinable()
  (* the robot, as far as the worker has used it *)
  connected,        \* connect succeeded and disconnect was not called since
  control,          \* requestControl succeeded, releaseControl was not called since
  (* the worker's thread *)
  run_pc,
  result,           \* the result executeCommand is making
  (* the callers *)
  pc,
  request,          \* the command a caller is submitting
  next_command_id,
  (* history *)
  accepted,         \* the commands each queue accepted, in order
  collected         \* the results handed to the callers, in order

managerVars == <<command_queue, priority_queue, shutdown_requested, waiting, notified, popped>>
robotVars == <<connected, control>>
submitVars == <<request, next_command_id, accepted>>
resultVars == <<result_queue, collected>>
lifeVars == <<worker_state, joinable, robotVars>>
dataVars == <<managerVars, abort_requested, result, submitVars, resultVars>>
vars == <<lifeVars, dataVars, run_pc, pc>>

Manager == INSTANCE CommandManager WITH
             Commands <- Command, Consumers <- {"worker"}

Init ==
  /\ Manager!Init
  /\ worker_state = "Disconnected"
  /\ abort_requested = FALSE
  /\ result_queue = <<>>
  /\ joinable = FALSE
  /\ connected = FALSE /\ control = FALSE
  /\ run_pc = "none"
  /\ result = NoResult
  /\ pc = [c \in Callers |-> "idle"]
  /\ request = [c \in Callers |-> NoCommand]
  /\ next_command_id = 1
  /\ accepted = [queue \in Queues |-> <<>>]
  /\ collected = <<>>

Goto(c, from, to) == pc[c] = from /\ pc' = [pc EXCEPT ![c] = to]

(* The sleepers of state_condition_ are the callers at "startAsleep", those *)
(* of result_condition_ the callers at "collectAsleep".                     *)
Asleep(l) == {c \in Callers : pc[c] = l}
OneWoken(l, awake) ==
  IF Asleep(l) = {} THEN {pc} ELSE {[pc EXCEPT ![c] = awake] : c \in Asleep(l)}
AllWoken(p, l, awake) == [c \in Callers |-> IF p[c] = l THEN awake ELSE p[c]]

(* Mutant of NotifyOneStarter: nobody is woken.  *)
NotifyNoStarter == UNCHANGED pc

NotifyOneStarter == pc' \in OneWoken("startAsleep", "startAwake")
NotifyStarters == pc' = AllWoken(pc, "startAsleep", "startAwake")
NotifyOneCollector == pc' \in OneWoken("collectAsleep", "collectAwake")
NotifyCollectors == pc' = AllWoken(pc, "collectAsleep", "collectAwake")
NotifyStartersAndCollectors ==
  pc' = AllWoken(AllWoken(pc, "startAsleep", "startAwake"), "collectAsleep", "collectAwake")

-----------------------------------------------------------------------------
(* start(), called by c.  *)

StartCheckThread(c) ==
  /\ ~joinable
  /\ Goto(c, "idle", "startLock")
  /\ UNCHANGED <<dataVars, lifeVars, run_pc>>

StartConnecting(c) ==
  /\ IF worker_state = "Disconnected"
     THEN Goto(c, "startLock", "startSpawn") /\ worker_state' = "Connecting"
     ELSE Goto(c, "startLock", "idle") /\ UNCHANGED worker_state
  /\ UNCHANGED <<dataVars, robotVars, joinable, run_pc>>

StartSpawn(c) ==
  /\ Goto(c, "startSpawn", "startAwake")
  /\ joinable' = TRUE
  /\ run_pc' = "connect"
  /\ UNCHANGED <<dataVars, robotVars, worker_state>>

(* The predicate of state_condition_, evaluated when the wait begins and    *)
(* after each wakeup, and what start does with the state it finds.          *)
StartWait(c) ==
  /\ \/ worker_state = "Connecting" /\ Goto(c, "startAwake", "startAsleep")
     \/ worker_state = "Error" /\ Goto(c, "startAwake", "startJoin")
     \/ worker_state \in {"Ready", "Stopping", "Disconnected"} /\ Goto(c, "startAwake", "idle")
  /\ UNCHANGED <<dataVars, lifeVars, run_pc>>

-----------------------------------------------------------------------------
(* std::thread::join, used by start after a failure and by stop.  It throws *)
(* when there is nothing to join or somebody is joining already; the caller *)
(* leaves with the exception.                                               *)

Joining == {c \in Callers : pc[c] \in {"startJoining", "stopJoining"}}

EnterJoin(c) ==
  /\ LET join(l) == IF joinable /\ Joining = {} THEN l ELSE "threw"
     IN  \/ Goto(c, "startJoin", join("startJoining"))
         \/ Goto(c, "stopJoin", join("stopJoining"))
  /\ UNCHANGED <<dataVars, lifeVars, run_pc>>

(* join returns when the thread has ended.  *)
Join(c) ==
  /\ run_pc = "ended"
  /\ \/ Goto(c, "startJoining", "idle")
     \/ Goto(c, "stopJoining", "stopDisconnected")
  /\ joinable' = FALSE
  /\ run_pc' = "none"
  /\ UNCHANGED <<dataVars, robotVars, worker_state>>

-----------------------------------------------------------------------------
(* stop(), called by c.  *)

(* Mutant of StopCheckThread: a stop without a thread is not told apart.  *)
StopUnchecked(c) ==
  /\ Goto(c, "idle", "stopLock")
  /\ UNCHANGED <<dataVars, lifeVars, run_pc>>

StopCheckThread(c) ==
  /\ joinable
  /\ Goto(c, "idle", "stopLock")
  /\ UNCHANGED <<dataVars, lifeVars, run_pc>>

(* Mutant of StopStopping: the final state at once.  *)
StopStoppingTooFar(c) ==
  /\ Goto(c, "stopLock", "stopShutdown")
  /\ worker_state' = "Disconnected"
  /\ UNCHANGED <<dataVars, robotVars, joinable, run_pc>>

StopStopping(c) ==
  /\ Goto(c, "stopLock", "stopShutdown")
  /\ worker_state' = "Stopping"
  /\ UNCHANGED <<dataVars, robotVars, joinable, run_pc>>

StopShutdown(c) ==
  /\ Goto(c, "stopShutdown", "stopJoin")
  /\ Manager!Shutdown
  /\ UNCHANGED <<lifeVars, submitVars, resultVars, abort_requested, run_pc, result>>

StopDisconnected(c) ==
  /\ Goto(c, "stopDisconnected", "stopNotify")
  /\ worker_state' = "Disconnected"
  /\ UNCHANGED <<dataVars, robotVars, joinable, run_pc>>

(* Mutant of StopNotify: the notification is missing.  *)
StopNotifyNobody(c) ==
  /\ Goto(c, "stopNotify", "idle")
  /\ UNCHANGED <<dataVars, lifeVars, run_pc>>

StopNotify(c) ==
  /\ pc[c] = "stopNotify"
  /\ pc' = AllWoken([pc EXCEPT ![c] = "idle"], "collectAsleep", "collectAwake")
  /\ UNCHANGED <<dataVars, lifeVars, run_pc>>

-----------------------------------------------------------------------------
(* enqueueCommand() and enqueuePriority(), called by c: look at the state,   *)
(* let go of the mutex, and only then submit.  The caller gives every        *)
(* command a number of its own; only those that pass the first look count    *)
(* towards MaxCommands.                                                      *)

Submit(c, type, queue) ==
  /\ worker_state = "Ready"
  /\ next_command_id <= MaxCommands
  /\ next_command_id' = next_command_id + 1
  /\ Goto(c, "idle", queue)
  /\ request' = [request EXCEPT ![c] = [id |-> next_command_id, type |-> type]]
  /\ UNCHANGED <<lifeVars, resultVars, managerVars, abort_requested, run_pc, result, accepted>>

Accept(c, queue) == accepted' = [accepted EXCEPT ![queue] = Append(@, request[c])]

Enqueue(c) ==
  /\ Goto(c, "normal", "idle")
  /\ \/ Manager!Enqueue(request[c]) /\ Accept(c, "normal")
     \/ ~Manager!CanEnqueue /\ UNCHANGED <<managerVars, accepted>>
  /\ UNCHANGED <<lifeVars, resultVars, abort_requested, run_pc, result, request, next_command_id>>

EnqueuePriority(c) ==
  /\ \/ /\ Manager!EnqueuePriority(request[c])
        /\ Accept(c, "priority")
        /\ Goto(c, "priority", IF request[c].type = "Stop" THEN "setAbort" ELSE "idle")
     \/ /\ ~Manager!CanEnqueuePriority
        /\ Goto(c, "priority", "idle")
        /\ UNCHANGED <<managerVars, accepted>>
  /\ UNCHANGED <<lifeVars, resultVars, abort_requested, run_pc, result, request, next_command_id>>

(* An accepted Stop raises the flag after it was pushed, with no lock held.  *)
SetAbort(c) ==
  /\ Goto(c, "setAbort", "idle")
  /\ abort_requested' = TRUE
  /\ UNCHANGED <<lifeVars, submitVars, resultVars, managerVars, run_pc, result>>

-----------------------------------------------------------------------------
(* waitAndPopResult() and tryGetResult(), called by c.  *)

PopResult ==
  /\ result_queue # <<>>
  /\ result_queue' = Tail(result_queue)
  /\ collected' = Append(collected, Head(result_queue))

TryGetResult(c) ==
  /\ pc[c] = "idle"
  /\ PopResult
  /\ UNCHANGED <<lifeVars, submitVars, managerVars, abort_requested, run_pc, result, pc>>

ResultsOver == worker_state \in {"Disconnected", "Error"}

WaitAndPopResult(c) ==
  /\ \E l \in {"idle", "collectAwake"} :
       \/ PopResult /\ Goto(c, l, "idle")
       \/ /\ result_queue = <<>>
          /\ Goto(c, l, IF ResultsOver THEN "idle" ELSE "collectAsleep")
          /\ UNCHANGED resultVars
  /\ UNCHANGED <<lifeVars, submitVars, managerVars, abort_requested, run_pc, result>>

(* The conditions of the worker may wake a caller that nobody notified.  *)
SpuriousWakeup(c) ==
  /\ \/ Goto(c, "startAsleep", "startAwake")
     \/ Goto(c, "collectAsleep", "collectAwake")
  /\ UNCHANGED <<dataVars, lifeVars, run_pc>>

-----------------------------------------------------------------------------
(* run(), the worker's thread.  *)

RunGoto(from, to) == run_pc = from /\ run_pc' = to

(* franka_->connect().  *)
RunConnect ==
  /\ \/ RunGoto("connect", "checkStopping") /\ connected' = TRUE
     \/ RunGoto("connect", "fail") /\ UNCHANGED connected
  /\ UNCHANGED <<dataVars, worker_state, joinable, control, pc>>

RunCheckStopping ==
  /\ RunGoto("checkStopping",
             IF worker_state = "Stopping" THEN "disconnectStopped" ELSE "requestControl")
  /\ UNCHANGED <<dataVars, lifeVars, pc>>

(* Mutant of RunRequestControl: a refusal does not disconnect.  *)
RunRequestControlStaysConnected ==
  /\ \/ RunGoto("requestControl", "ready") /\ control' = TRUE
     \/ RunGoto("requestControl", "fail") /\ UNCHANGED control
  /\ UNCHANGED <<dataVars, worker_state, joinable, connected, pc>>

(* franka_->requestControl(true).  *)
RunRequestControl ==
  /\ \/ RunGoto("requestControl", "ready") /\ control' = TRUE
     \/ RunGoto("requestControl", "disconnectFailed") /\ UNCHANGED control
  /\ UNCHANGED <<dataVars, worker_state, joinable, connected, pc>>

(* franka_->releaseControl(), whose answer is ignored.  *)
RunReleaseControl ==
  /\ RunGoto("releaseControl", "disconnect")
  /\ control' = FALSE
  /\ UNCHANGED <<dataVars, worker_state, joinable, connected, pc>>

(* franka_->disconnect(), on the three ways that lead to it.  *)
RunDisconnect ==
  /\ \/ RunGoto("disconnectStopped", "disconnectedNotify")
     \/ RunGoto("disconnectFailed", "fail")
     \/ RunGoto("disconnect", "disconnected")
  /\ connected' = FALSE
  /\ UNCHANGED <<dataVars, worker_state, joinable, control, pc>>

(* A failure is an Error, unless stop was called meanwhile.  *)
RunFail ==
  /\ RunGoto("fail", "failNotify")
  /\ worker_state' = IF worker_state = "Stopping" THEN "Stopping" ELSE "Error"
  /\ UNCHANGED <<dataVars, robotVars, joinable, pc>>

(* The two notifications after it, outside the mutex.  *)
RunFailNotify ==
  /\ \/ RunGoto("failNotify", "notifyCollectors") /\ NotifyOneStarter
     \/ RunGoto("notifyCollectors", "ended") /\ NotifyCollectors
  /\ UNCHANGED <<dataVars, lifeVars>>

(* Mutant of RunReady: a stop that came meanwhile is not looked for.  *)
RunReadyAnyway ==
  /\ RunGoto("ready", "notifyReady") /\ worker_state' = "Ready"
  /\ UNCHANGED <<dataVars, robotVars, joinable, pc>>

RunReady ==
  /\ IF worker_state = "Stopping"
     THEN RunGoto("ready", "releaseControl") /\ UNCHANGED worker_state
     ELSE RunGoto("ready", "notifyReady") /\ worker_state' = "Ready"
  /\ UNCHANGED <<dataVars, robotVars, joinable, pc>>

RunNotifyReady ==
  /\ RunGoto("notifyReady", "pop")
  /\ NotifyOneStarter
  /\ UNCHANGED <<dataVars, lifeVars>>

(* The normal end: the state, then the notifications outside the mutex.  *)
RunDisconnected ==
  /\ RunGoto("disconnected", "notifyStarters")
  /\ worker_state' = "Disconnected"
  /\ UNCHANGED <<dataVars, robotVars, joinable, pc>>

RunNotifyStarters ==
  /\ RunGoto("notifyStarters", "notifyCollectors")
  /\ NotifyStarters
  /\ UNCHANGED <<dataVars, lifeVars>>

(* The end after a stop during the connection: all three under the mutex.  *)
RunDisconnectedNotify ==
  /\ RunGoto("disconnectedNotify", "ended")
  /\ worker_state' = "Disconnected"
  /\ NotifyStartersAndCollectors
  /\ UNCHANGED <<dataVars, robotVars, joinable>>

-----------------------------------------------------------------------------
(* The loop of run(): waitAndPop, executeCommand, pushResult.  *)

Dispatch(command) ==
  IF command = NoCommand THEN "releaseControl"
  ELSE CASE command.type = "Stop"  -> "clearAbort"
         [] command.type = "Move"  -> "poll"
         [] command.type = "Other" -> "call"

RunPop ==
  /\ run_pc = "pop"
  /\ Manager!WaitAndPop("worker") \/ Manager!Resume("worker")
  /\ run_pc' = IF "worker" \in waiting' THEN "pop" ELSE Dispatch(popped'["worker"])
  /\ UNCHANGED <<lifeVars, submitVars, resultVars, abort_requested, result, pc>>

RunWokenSpuriously ==
  /\ Manager!SpuriousWakeup("worker")
  /\ UNCHANGED <<lifeVars, submitVars, resultVars, abort_requested, run_pc, result, pc>>

(* A Stop takes the flag down before it stops the robot.  *)
RunClearAbort ==
  /\ RunGoto("clearAbort", "call")
  /\ abort_requested' = FALSE
  /\ UNCHANGED <<lifeVars, submitVars, resultVars, managerVars, result, pc>>

(* The call to the robot, or to the pose storage, has returned.  *)
Finish == run_pc' = "push" /\ result' = popped["worker"].id

(* The one call a command other than a Move consists of.  *)
RunCall ==
  /\ run_pc = "call"
  /\ Finish
  /\ UNCHANGED <<lifeVars, submitVars, resultVars, managerVars, abort_requested, pc>>

(* moveToNamedPose: the body of its loop asks should_abort first ...  *)
RunPollAbort ==
  /\ run_pc = "poll"
  /\ IF abort_requested THEN Finish ELSE run_pc' = "read" /\ UNCHANGED result
  /\ UNCHANGED <<lifeVars, submitVars, resultVars, managerVars, abort_requested, pc>>

(* ... then reads how far the robot is: there, failed or not yet ...  *)
RunPollStatus ==
  /\ run_pc = "read"
  /\ Finish \/ (run_pc' = "poll" /\ UNCHANGED result)
  /\ UNCHANGED <<lifeVars, submitVars, resultVars, managerVars, abort_requested, pc>>

(* ... and the move fails when it cannot begin or its time is over.  *)
RunMoveFails ==
  /\ run_pc = "poll"
  /\ Finish
  /\ UNCHANGED <<lifeVars, submitVars, resultVars, managerVars, abort_requested, pc>>

RunPushResult ==
  /\ RunGoto("push", "pop")
  /\ result_queue' = Append(result_queue, result)
  /\ result' = NoResult
  /\ NotifyOneCollector
  /\ UNCHANGED <<lifeVars, submitVars, managerVars, abort_requested, collected>>

-----------------------------------------------------------------------------
RunStep ==
  \/ RunConnect \/ RunCheckStopping \/ RunRequestControl \/ RunReleaseControl
  \/ RunDisconnect \/ RunFail \/ RunFailNotify \/ RunReady \/ RunNotifyReady
  \/ RunDisconnected \/ RunNotifyStarters \/ RunDisconnectedNotify
  \/ RunPop \/ RunClearAbort \/ RunCall \/ RunPollAbort \/ RunPollStatus
  \/ RunMoveFails \/ RunPushResult

(* What a caller does once it is inside start, stop, enqueueCommand or       *)
(* enqueuePriority.                                                           *)
InCall(c) ==
  \/ StartConnecting(c) \/ StartSpawn(c) \/ StartWait(c) \/ EnterJoin(c) \/ Join(c)
  \/ StopStopping(c) \/ StopShutdown(c) \/ StopDisconnected(c) \/ StopNotify(c)
  \/ Enqueue(c) \/ EnqueuePriority(c) \/ SetAbort(c)

CollectorStep(c) == pc[c] = "collectAwake" /\ WaitAndPopResult(c)

Next ==
  \/ RunStep
  \/ RunWokenSpuriously
  \/ \E c \in Callers : InCall(c) \/ SpuriousWakeup(c)
  \/ \E c \in Starters : StartCheckThread(c)
  \/ \E c \in Stoppers : StopCheckThread(c)
  \/ \E c \in Submitters :
       \/ \E type \in NormalTypes : Submit(c, type, "normal")
       \/ \E type \in PriorityTypes : Submit(c, type, "priority")
  \/ \E c \in Collectors : TryGetResult(c) \/ WaitAndPopResult(c)

Spec == Init /\ [][Next]_vars

(* Every thread that can go on goes on: the scheduler is fair, no mutex is   *)
(* held across a blocking call, and every call to the robot returns.  A Move *)
(* that is told "not yet" again and again runs into its 60 s deadline, hence *)
(* the strong fairness.  Nobody is obliged to call the worker.               *)
FairSpec ==
  /\ Spec
  /\ WF_vars(RunStep)
  /\ SF_vars(RunMoveFails)
  /\ \A c \in Callers : WF_vars(InCall(c)) /\ WF_vars(CollectorStep(c))

-----------------------------------------------------------------------------
RunLocations ==
  {"none", "connect", "checkStopping", "disconnectStopped", "disconnectedNotify",
   "requestControl", "disconnectFailed", "fail", "failNotify", "notifyCollectors",
   "ready", "notifyReady", "pop", "clearAbort", "call", "poll", "read", "push",
   "releaseControl", "disconnect", "disconnected", "notifyStarters", "ended"}

CallLocations ==
  {"idle", "threw", "startLock", "startSpawn", "startAwake", "startAsleep",
   "startJoin", "startJoining", "stopLock", "stopShutdown", "stopJoin",
   "stopJoining", "stopDisconnected", "stopNotify", "normal", "priority",
   "setAbort", "collectAsleep", "collectAwake"}

(* Every variable of the worker, its thread and its callers holds a value of *)
(* its type, those of opcua_worker.hpp and the local ones of its methods.     *)
TypeOK ==
  /\ Manager!TypeOK
  /\ worker_state \in WorkerStatus
  /\ abort_requested \in BOOLEAN
  /\ result_queue \in Seq(Result)
  /\ joinable \in BOOLEAN
  /\ connected \in BOOLEAN /\ control \in BOOLEAN
  /\ run_pc \in RunLocations
  /\ result \in Result \cup {NoResult}
  /\ pc \in [Callers -> CallLocations]
  /\ request \in [Callers -> Command \cup {NoCommand}]
  /\ next_command_id \in 1..(MaxCommands + 1)
  /\ accepted \in [Queues -> Seq(Command)]
  /\ collected \in Seq(Result)

Executing == run_pc \in {"clearAbort", "call", "poll", "read", "push"}
Moving == run_pc \in {"poll", "read"}

(* The worker uses the robot only while it is connected and in control, and  *)
(* whichever way its thread ends - refused connection, refused control, stop  *)
(* at any moment - it has given back both before it reports the end, so that   *)
(* a later start never connects over a connection that is still open.           *)
RobotGivenBack ==
  /\ Executing => connected /\ control
  /\ run_pc = "connect" => ~connected
  /\ control => connected
  /\ (run_pc \in {"none", "ended"} \/ worker_state = "Error") => ~connected

(* The numbers of the commands that were taken from the manager, in order: of   *)
(* those that are answered and of the one in execution.                          *)
Taken == collected \o result_queue \o (IF Executing THEN <<popped["worker"].id>> ELSE <<>>)

(* Every accepted command is in exactly one place - its queue, in execution, *)
(* among the results - and the commands of a queue are answered in the order  *)
(* they were accepted: none is lost, executed twice or overtaken by a later    *)
(* one, whatever the submitters, the worker and the collectors interleave.     *)
(* Nothing else is answered.                                                    *)
AcceptedAccountedFor ==
  LET pending(queue) == IF queue = "normal" THEN command_queue ELSE priority_queue
      left(queue) == Len(accepted[queue]) - Len(pending(queue))
      IsAnswer(k, queue, i) == Taken[k] = accepted[queue][i].id
  IN  /\ \A queue \in Queues :
           /\ pending(queue) = SubSeq(accepted[queue], left(queue) + 1, Len(accepted[queue]))
           /\ \A i \in 1..left(queue) : \E k \in DOMAIN Taken : IsAnswer(k, queue, i)
           /\ \A i, j \in 1..left(queue), k, l \in DOMAIN Taken :
                IsAnswer(k, queue, i) /\ IsAnswer(l, queue, j) => (i < j <=> k < l)
      /\ \A k \in DOMAIN Taken :
           \E queue \in Queues : \E i \in 1..left(queue) : IsAnswer(k, queue, i)

(* A Move cannot miss a Stop: while a Stop whose enqueuePriority has returned *)
(* is still to be executed, a running Move finds abort_requested set - even    *)
(* though an earlier Stop clears the flag after later ones have set it.        *)
StopReachesMove ==
  \A i \in DOMAIN priority_queue :
    /\ Moving
    /\ priority_queue[i].type = "Stop"
    /\ ~ \E c \in Submitters : pc[c] = "setAbort" /\ request[c] = priority_queue[i]
    => abort_requested

(* Whoever is told by waitAndPopResult that the results are over is told the  *)
(* truth: while the state says Disconnected or Error no result is added.       *)
NoResultAfterTheEnd ==
  [][ResultsOver => Len(result_queue') <= Len(result_queue)]_vars

(* Although the state is checked under one mutex and the queue under another, *)
(* a command is accepted only by a worker whose thread will look at the queue  *)
(* again: never after its loop has ended, after a stop or on an old Ready.     *)
AcceptedWhileServing ==
  [][accepted' # accepted => (Executing \/ run_pc \in {"notifyReady", "pop"})]_vars

(* Once a stop has said so the worker does not become Ready any more, wherever   *)
(* between its last look at the state and its loop the stop overtakes it, before   *)
(* the shutdown and after it: whoever submits meanwhile is turned away.             *)
NotReadyUnderAStop ==
  \A c \in Stoppers :
    pc[c] \in {"stopShutdown", "stopJoin", "stopJoining"} => worker_state # "Ready"

(* start and stop return: no wakeup of state_condition_ is lost, though stop     *)
(* never notifies it, and the thread that is joined always ends. When both of      *)
(* them join it one leaves with an exception, which nothing in the code prevents;   *)
(* then the other one has joined the thread, and none is left behind.               *)
LifeCycleCallsReturn ==
  \A c \in Starters \cup Stoppers :
    pc[c] \in {"startLock", "stopLock"}
      ~> pc[c] = "idle" \/ (pc[c] = "threw" /\ ~joinable)

(* A caller asleep in waitAndPopResult does not outlive the worker: it wakes   *)
(* when the worker has ended, also when the worker failed under a stop and the  *)
(* last notification is stop's own.                                             *)
CollectorsReleased ==
  \A c \in Collectors :
    (pc[c] = "collectAsleep" /\ run_pc = "ended")
      ~> (pc[c] = "idle" \/ run_pc \notin {"ended", "none"} \/ \E d \in Callers : pc[d] = "threw")

(* An accepted command is answered, unless the queue is shut down first.       *)
AcceptedIsAnswered ==
  \A id \in 1..MaxCommands :
    (\E c \in ToSet(accepted["normal"] \o accepted["priority"]) : c.id = id)
      ~> (shutdown_requested \/ id \in ToSet(collected \o result_queue))

-----------------------------------------------------------------------------
(* The refinement mapping: the robot is held from requestControl to            *)
(* releaseControl, and an answer is given when its result is pushed, whether    *)
(* or not anybody collects it.                                                  *)
Service == INSTANCE CommandService WITH
  Commands <- Command,
  phase    <- worker_state,
  robot    <- control,
  pending  <- priority_queue \o command_queue,
  nUrgent  <- Len(priority_queue),
  closed   <- shutdown_requested,
  blocked  <- Manager!Blocked,
  received <- popped,
  busy     <- Executing,
  answers  <- collected \o result_queue

(* The worker behaves as the service does, whatever its thread, its callers and  *)
(* the manager's locks interleave: it enters each phase only from the phases and  *)
(* with the robot in hand as the service says, accepts nothing it will not look    *)
(* at, and has answered everything it took when it lets go of the robot -        *)
(* whenever the stop comes, also while it still connects.                          *)
ImplementsService == Service!Spec

-----------------------------------------------------------------------------
(* Statements of the repository that the code does not keep.  *)

(* A worker that reports Ready is connected and in control: "Control token     *)
(* acquisito: worker pronto a eseguire comandi".                                *)
ReadyMeansServing == worker_state = "Ready" => connected /\ control

(* A Move is interrupted only by a Stop that was submitted after it, as in     *)
(* StopInterruptsBlockingMove: a Stop that has been carried out leaves nothing  *)
(* behind that interrupts later Moves.                                          *)
AbortHasAStop ==
  Moving /\ abort_requested =>
    \E stop \in ToSet(accepted["priority"]) :
      stop.type = "Stop" /\ stop.id > popped["worker"].id
=============================================================================
