------------------------- MODULE OpcuaWorkerProofs -------------------------
(***************************************************************************)
(* The invariants of OpcuaWorker, for any callers and any capacity.         *)
(***************************************************************************)
EXTENDS OpcuaWorker, SequenceTheorems, FiniteSetTheorems, TLAPS

(* What is proved of every command manager holds of the worker's own.  *)
MP == INSTANCE CommandManagerProofs WITH Commands <- Command, Consumers <- {"worker"}

-----------------------------------------------------------------------------
(* The inductive invariant, in parts.                                       *)

(* Who is inside which call, and with what: a caller that submits has a      *)
(* command in hand, and only commands of the priority types go that way.     *)
CallersInPlace ==
  \A c \in Callers :
    /\ pc[c] \in {"startLock", "startSpawn", "startAwake", "startAsleep", "startJoin", "startJoining"}
         => c \in Starters
    /\ pc[c] \in {"normal", "priority", "setAbort"} => c \in Submitters /\ request[c] \in Command
    /\ pc[c] \in {"priority", "setAbort"} => request[c].type \in PriorityTypes

(* The thread executes the command it has taken.                              *)
ThreadInPlace ==
  /\ Executing => popped["worker"] \in Command
  /\ run_pc = "push" => result = popped["worker"].id
  /\ \A i \in 1..Len(priority_queue) : priority_queue[i].type \in PriorityTypes

ControlledAt == {"ready", "notifyReady", "pop", "clearAbort", "call", "poll", "read", "push", "releaseControl"}
ConnectedAt ==
  ControlledAt \cup {"checkStopping", "disconnectStopped", "requestControl", "disconnectFailed", "disconnect"}

(* The robot is connected, and under control, at fixed places of the thread.  *)
RobotAt ==
  /\ connected <=> run_pc \in ConnectedAt
  /\ control <=> run_pc \in ControlledAt

(* The thread's life as its callers see it: start writes the thread only when  *)
(* there is none, and an Error is not left behind by a thread that goes on.    *)
ThreadLife ==
  /\ joinable <=> run_pc # "none"
  /\ Manager!Blocked # {} => run_pc = "pop"
  /\ \A c \in Callers : pc[c] \in {"startLock", "startSpawn"} => run_pc = "none"
  /\ worker_state = "Error" =>
       /\ run_pc \in {"failNotify", "notifyCollectors", "ended", "none"}
       /\ \A c \in Callers : pc[c] # "startSpawn"

Serving == Executing \/ run_pc \in {"notifyReady", "pop"}

(* The states the worker can report at each place of its thread, as long as    *)
(* nobody has shut the queue down.                                             *)
PhaseAt(l) ==
  CASE l = "none" -> {"Disconnected", "Connecting", "Error", "Stopping"}
    [] l \in {"connect", "checkStopping", "requestControl", "disconnectFailed", "fail", "ready"}
         -> {"Connecting", "Stopping"}
    [] l \in {"notifyReady", "pop", "clearAbort", "call", "poll", "read", "push"} -> {"Ready", "Stopping"}
    [] l \in {"disconnectStopped", "disconnectedNotify", "releaseControl", "disconnect", "disconnected"}
         -> {"Stopping"}
    [] l = "failNotify" -> {"Error", "Stopping"}
    [] l = "notifyStarters" -> {"Disconnected", "Stopping"}
    [] l \in {"notifyCollectors", "ended"} -> {"Disconnected", "Error", "Stopping"}

(* Before the shutdown the state tells where the thread is, and the callers    *)
(* inside start, stop and the two enqueues can rely on what they have read.    *)
BeforeShutdown ==
  ~shutdown_requested =>
    /\ worker_state \in PhaseAt(run_pc)
    /\ \A c \in Callers :
         /\ pc[c] \in {"stopLock", "stopShutdown"} /\ run_pc = "none" => worker_state \in {"Error", "Stopping"}
         /\ pc[c] = "stopShutdown" => worker_state \in {"Stopping", "Disconnected"}
         /\ pc[c] = "startSpawn" => worker_state = "Connecting"
         /\ pc[c] \in {"startJoin", "startJoining"} =>
              /\ worker_state \in {"Error", "Stopping"}
              /\ run_pc \in {"failNotify", "notifyCollectors", "ended"}
         /\ pc[c] \in {"startAwake", "startAsleep"} => run_pc # "none"
         /\ pc[c] \in {"normal", "priority"} => Serving

(* After it the thread finishes the command in hand and takes no other, and a   *)
(* stop that has joined the thread has seen it finish.                          *)
AfterShutdown ==
  /\ \A c \in Callers :
       /\ pc[c] \in {"stopJoin", "stopJoining", "stopDisconnected", "stopNotify"} => shutdown_requested
       /\ pc[c] = "stopDisconnected" => ~Executing
  /\ Executing => worker_state \in {"Ready", "Stopping"}

TypeInv == TypeOK /\ CallersInPlace /\ ThreadInPlace
LifeInv == RobotAt /\ ThreadLife /\ BeforeShutdown /\ AfterShutdown

(* No two commands have the same number.  *)
NumbersAreUnique ==
  LET fresh == {c \in Callers : pc[c] \in {"normal", "priority"}}
  IN  /\ \A c \in fresh : request[c].id < next_command_id
      /\ \A c, d \in fresh : request[c].id = request[d].id => c = d
      /\ \A q \in Queues : \A i \in 1..Len(accepted[q]) :
           /\ accepted[q][i].id < next_command_id
           /\ \A c \in fresh : accepted[q][i].id # request[c].id
           /\ \A r \in Queues : \A j \in 1..Len(accepted[r]) :
                accepted[q][i].id = accepted[r][j].id => q = r /\ i = j

-----------------------------------------------------------------------------
(* The command manager inside the worker.                                   *)

LEMMA ManagerAssumptions ==
  Capacity \in Nat \ {0} /\ MP!IsFiniteSet({"worker"}) /\ NoCommand \notin Command
<1>1. <<"worker">> \in Seq({"worker"}) /\ 1 \in 1..Len(<<"worker">>) /\ <<"worker">>[1] = "worker"
  OBVIOUS
<1>2. \E seq \in Seq({"worker"}) : \A s \in {"worker"} : \E n \in 1..Len(seq) : seq[n] = s
  BY <1>1
<1>3. MP!IsFiniteSet({"worker"})
  BY <1>2 DEF MP!IsFiniteSet
<1> QED
  BY <1>3, ManagerAssumption

LEMMA SameManager == Manager!Next <=> MP!Next
BY DEF Manager!Next, MP!Next, Manager!Enqueue, MP!Enqueue, Manager!EnqueuePriority,
  MP!EnqueuePriority, Manager!Shutdown, MP!Shutdown, Manager!WaitAndPop, MP!WaitAndPop,
  Manager!Resume, MP!Resume, Manager!SpuriousWakeup, MP!SpuriousWakeup, Manager!TryPop, MP!TryPop,
  Manager!CanEnqueue, MP!CanEnqueue, Manager!CanEnqueuePriority, MP!CanEnqueuePriority,
  Manager!NotifyOne, MP!NotifyOne, Manager!NotifyAll, MP!NotifyAll, Manager!Blocked, MP!Blocked,
  Manager!Return, MP!Return, Manager!CanReturn, MP!CanReturn, Manager!PopFront, MP!PopFront,
  Manager!PopNothing, MP!PopNothing, Manager!Pending, MP!Pending

LEMMA ManagerType ==
  ASSUME Manager!TypeOK, [Manager!Next]_managerVars
  PROVE  Manager!TypeOK'
BY ManagerAssumptions, SameManager, MP!TypeStep DEF Manager!TypeOK, MP!TypeOK, managerVars, MP!vars

(* The four ways the thread's visit to waitAndPop can go on.  *)
Sleeps ==
  /\ ~shutdown_requested /\ command_queue = <<>> /\ priority_queue = <<>>
  /\ "worker" \in waiting' /\ Manager!Blocked' = {"worker"} /\ run_pc' = "pop"
  /\ UNCHANGED <<command_queue, priority_queue, popped>>

Leaves ==
  /\ shutdown_requested /\ Manager!Blocked' = {} /\ run_pc' = "releaseControl"
  /\ popped'["worker"] = NoCommand
  /\ UNCHANGED <<command_queue, priority_queue>>

Takes(command) ==
  /\ ~shutdown_requested /\ Manager!Blocked' = {}
  /\ command \in Command /\ popped'["worker"] = command
  /\ run_pc' \in {"clearAbort", "poll", "call"}
  /\ run_pc' = "poll" <=> command.type = "Move"

TakesUrgent ==
  /\ priority_queue # <<>> /\ Takes(Head(priority_queue))
  /\ priority_queue' = Tail(priority_queue) /\ UNCHANGED command_queue

TakesNormal ==
  /\ priority_queue = <<>> /\ command_queue # <<>> /\ Takes(Head(command_queue))
  /\ command_queue' = Tail(command_queue) /\ UNCHANGED priority_queue

LEMMA PopOutcome ==
  ASSUME Manager!TypeOK, RunPop
  PROVE  /\ run_pc = "pop" /\ UNCHANGED shutdown_requested
         /\ Sleeps \/ Leaves \/ TakesUrgent \/ TakesNormal
<1> USE ManagerAssumption
<1>1. /\ waiting \subseteq {"worker"} /\ notified \subseteq {"worker"} /\ waiting \cap notified = {}
      /\ shutdown_requested \in BOOLEAN /\ popped \in [{"worker"} -> Command \cup {NoCommand}]
      /\ command_queue \in Seq(Command) /\ priority_queue \in Seq(Command)
  BY DEF Manager!TypeOK
<1>2. UNCHANGED shutdown_requested
  BY DEF RunPop, Manager!WaitAndPop, Manager!Resume, Manager!Return
<1>3. CASE ~Manager!CanReturn
  <2>1. "worker" \in waiting' /\ UNCHANGED <<command_queue, priority_queue, popped>>
    BY <1>3 DEF RunPop, Manager!WaitAndPop, Manager!Resume, Manager!Return
  <2>2. Manager!Blocked' = {"worker"}
    BY <1>1, <1>3 DEF RunPop, Manager!WaitAndPop, Manager!Resume, Manager!Return, Manager!Blocked
  <2>3. ~shutdown_requested /\ command_queue = <<>> /\ priority_queue = <<>>
    BY <1>3 DEF Manager!CanReturn
  <2> QED
    BY <1>2, <2>1, <2>2, <2>3 DEF RunPop, Sleeps
<1>4. CASE Manager!CanReturn
  <2>1. Manager!Return("worker") /\ waiting' = {} /\ notified' = {}
    BY <1>1, <1>4 DEF RunPop, Manager!WaitAndPop, Manager!Resume, Manager!Blocked
  <2>2. run_pc' = Dispatch(popped'["worker"]) /\ Manager!Blocked' = {}
    BY <2>1 DEF RunPop, Manager!Blocked
  <2>3. CASE shutdown_requested
    BY <1>1, <1>2, <2>1, <2>2, <2>3 DEF RunPop, Leaves, Manager!Return, Manager!PopNothing, Dispatch
  <2>4. \A command \in Command :
          /\ popped'["worker"] = command =>
               /\ run_pc' \in {"clearAbort", "poll", "call"}
               /\ run_pc' = "poll" <=> command.type = "Move"
          /\ command # NoCommand
    BY <2>2 DEF Dispatch, Command, CommandTypes
  <2>5. CASE ~shutdown_requested /\ priority_queue # <<>>
    <3>1. Head(priority_queue) \in Command
      BY <1>1, <2>5
    <3>2. /\ popped'["worker"] = Head(priority_queue)
          /\ priority_queue' = Tail(priority_queue) /\ UNCHANGED command_queue
      BY <1>1, <2>1, <2>5 DEF Manager!Return, Manager!PopFront
    <3> QED
      BY <1>2, <2>2, <2>4, <2>5, <3>1, <3>2 DEF RunPop, TakesUrgent, Takes
  <2>6. CASE ~shutdown_requested /\ priority_queue = <<>>
    <3>1. /\ popped'["worker"] = Head(command_queue) /\ command_queue # <<>>
          /\ command_queue' = Tail(command_queue) /\ UNCHANGED priority_queue
      BY <1>1, <2>1, <2>6 DEF Manager!Return, Manager!PopFront
    <3>2. Head(command_queue) \in Command
      BY <1>1, <3>1
    <3> QED
      BY <1>2, <2>2, <2>4, <2>6, <3>1, <3>2 DEF RunPop, TakesNormal, Takes
  <2> QED
    BY <2>3, <2>5, <2>6
<1> QED
  BY <1>3, <1>4

-----------------------------------------------------------------------------
(* The notifications.  *)

(* A notification makes sleepers awake, and nothing else.  *)
Stays(c) ==
  \/ pc'[c] = pc[c]
  \/ pc[c] = "startAsleep" /\ pc'[c] = "startAwake"
  \/ pc[c] = "collectAsleep" /\ pc'[c] = "collectAwake"

LEMMA Notification ==
  ASSUME pc \in [Callers -> CallLocations],
         \/ NotifyOneStarter \/ NotifyStarters \/ NotifyOneCollector \/ NotifyCollectors
         \/ NotifyStartersAndCollectors
  PROVE  pc' \in [Callers -> CallLocations] /\ \A c \in Callers : Stays(c)
<1> USE DEF Stays, CallLocations
<1>1. CASE NotifyOneStarter
  BY <1>1 DEF NotifyOneStarter, OneWoken, Asleep
<1>2. CASE NotifyOneCollector
  BY <1>2 DEF NotifyOneCollector, OneWoken, Asleep
<1>3. CASE NotifyStarters \/ NotifyCollectors \/ NotifyStartersAndCollectors
  BY <1>3 DEF NotifyStarters, NotifyCollectors, NotifyStartersAndCollectors, AllWoken
<1> QED
  BY <1>1, <1>2, <1>3

-----------------------------------------------------------------------------
(* Types.  *)

(* What the worker does with its command manager the manager allows.  *)
LEMMA ManagerStep ==
  ASSUME TypeInv, [Next]_vars
  PROVE  [Manager!Next]_managerVars /\ Manager!TypeOK'
<1>1. [Manager!Next]_managerVars
  <2> SUFFICES ASSUME UNCHANGED managerVars => FALSE PROVE Manager!Next
    OBVIOUS
  <2> USE DEF dataVars, vars
  <2>1. ASSUME NEW c \in Callers, Enqueue(c) \/ EnqueuePriority(c) PROVE Manager!Next
    <3>1. request[c] \in Command
      BY <2>1 DEF TypeInv, CallersInPlace, Enqueue, EnqueuePriority, Goto
    <3>2. Manager!Enqueue(request[c]) \/ Manager!EnqueuePriority(request[c])
      BY <2>1 DEF Enqueue, EnqueuePriority
    <3> QED
      BY <3>1, <3>2 DEF Manager!Next
  <2>2. ASSUME NEW c \in Callers, StopShutdown(c) PROVE Manager!Next
    BY <2>2 DEF StopShutdown, Manager!Next
  <2>3. CASE RunPop \/ RunWokenSpuriously
    BY <2>3 DEF RunPop, RunWokenSpuriously, Manager!Next
  <2>4. ASSUME NEW c \in Callers, InCall(c) PROVE Manager!Next
    <3>1. Enqueue(c) \/ EnqueuePriority(c) \/ StopShutdown(c)
      BY <2>4 DEF InCall, StartConnecting, StartSpawn, StartWait, EnterJoin, Join, StopStopping,
        StopDisconnected, StopNotify, SetAbort
    <3> QED
      BY <2>1, <2>2, <3>1
  <2>5. CASE RunStep
    <3>1. RunPop
      BY <2>5 DEF RunStep, RunConnect, RunCheckStopping, RunRequestControl, RunReleaseControl,
        RunDisconnect, RunFail, RunFailNotify, RunReady, RunNotifyReady, RunDisconnected,
        RunNotifyStarters, RunDisconnectedNotify, RunClearAbort, RunCall, RunPollAbort,
        RunPollStatus, RunMoveFails, RunPushResult
    <3> QED
      BY <2>3, <3>1
  <2> QED
    BY <2>3, <2>4, <2>5 DEF Next, SpuriousWakeup, StartCheckThread, StopCheckThread, Submit,
      TryGetResult, WaitAndPopResult
<1>2. Manager!TypeOK
  BY DEF TypeInv, TypeOK
<1> QED
  BY <1>1, <1>2, ManagerType

(* The variables outside the manager.  *)
RestOK ==
  /\ worker_state \in WorkerStatus
  /\ abort_requested \in BOOLEAN
  /\ result_queue \in Seq(Result)
  /\ joinable \in BOOLEAN
  /\ connected \in BOOLEAN /\ control \in BOOLEAN
  /\ run_pc \in RunLocations
  /\ result \in Result \cup {NoResult}
  /\ pc \in [Callers -> CallLocations]
  /\ request \in [Callers -> Command \cup {NoCommand}]
  /\ next_command_id \in 1..(MaxCommands + 1)
  /\ accepted \in [Queues -> Seq(Command)]
  /\ collected \in Seq(Result)

InPlace == CallersInPlace /\ ThreadInPlace

LEMMA TypeParts == TypeOK <=> Manager!TypeOK /\ RestOK
BY DEF TypeOK, RestOK

LEMMA TypeInit == Init => TypeInv
<1> SUFFICES ASSUME Init PROVE TypeInv
  OBVIOUS
<1>1. Manager!TypeOK
  BY ManagerAssumptions, MP!TypeInit DEF Init, Manager!Init, MP!Init, Manager!TypeOK, MP!TypeOK
<1>2. RestOK
  <2>1. <<>> \in Seq(Result) /\ <<>> \in Seq(Command)
    BY EmptySeq
  <2>2. /\ pc \in [Callers -> CallLocations] /\ request \in [Callers -> Command \cup {NoCommand}]
        /\ accepted \in [Queues -> Seq(Command)]
    BY <2>1 DEF Init, CallLocations
  <2>3. next_command_id \in 1..(MaxCommands + 1)
    BY MaxCommandsAssumption DEF Init
  <2> QED
    BY <2>1, <2>2, <2>3 DEF Init, RestOK, WorkerStatus, RunLocations
<1>3. CallersInPlace /\ ThreadInPlace
  BY DEF Init, Manager!Init, Manager!Blocked, CallersInPlace, ThreadInPlace, Executing
<1> QED
  BY <1>1, <1>2, <1>3, TypeParts DEF TypeInv

(* A command that ends has a result with its number.  *)
LEMMA FinishType ==
  ASSUME TypeInv, Executing, Finish
  PROVE  result' \in Result /\ result' = popped["worker"].id
BY DEF TypeInv, ThreadInPlace, Finish, Command, Result

LEMMA AcceptType ==
  ASSUME accepted \in [Queues -> Seq(Command)], NEW queue \in Queues,
         NEW c \in Callers, request[c] \in Command, Accept(c, queue)
  PROVE  accepted' \in [Queues -> Seq(Command)]
<1>1. accepted[queue] \in Seq(Command)
  OBVIOUS
<1>2. Append(accepted[queue], request[c]) \in Seq(Command)
  BY <1>1, AppendProperties
<1> QED
  BY <1>2 DEF Accept

LEMMA TypeStep == TypeInv /\ [Next]_vars => TypeInv'
<1> SUFFICES ASSUME TypeInv, [Next]_vars PROVE RestOK' /\ InPlace'
  BY ManagerStep DEF TypeInv, InPlace, TypeOK, RestOK
<1> USE DEF dataVars, lifeVars, robotVars, submitVars, resultVars, managerVars
<1>a. Manager!TypeOK /\ RestOK /\ InPlace
  BY TypeParts DEF TypeInv, InPlace
<1> DEFINE PlacesKept ==
      /\ \A c \in Callers : Stays(c)
      /\ UNCHANGED <<request, popped, priority_queue, waiting, notified, result>>
      /\ run_pc # "pop" /\ ~Executing' /\ run_pc' # "push"
<1>b. ASSUME PlacesKept PROVE InPlace'
  BY <1>a, <1>b DEF InPlace, CallersInPlace, ThreadInPlace, Stays
<1>1. CASE RunConnect \/ RunCheckStopping \/ RunRequestControl \/ RunReleaseControl \/ RunDisconnect
           \/ RunFail \/ RunReady \/ RunDisconnected
  <2> USE DEF RunConnect, RunCheckStopping, RunRequestControl, RunReleaseControl, RunDisconnect,
        RunFail, RunReady, RunDisconnected, RunGoto
  <2>1. RestOK'
    <3>1. run_pc' \in RunLocations /\ worker_state' \in WorkerStatus
      BY <1>a, <1>1 DEF RestOK, RunLocations, WorkerStatus
    <3>2. connected' \in BOOLEAN /\ control' \in BOOLEAN
      BY <1>a, <1>1 DEF RestOK
    <3>3. UNCHANGED <<dataVars, joinable, pc>>
      BY <1>1
    <3> QED
      BY <1>a, <3>1, <3>2, <3>3 DEF RestOK
  <2>2. PlacesKept
    BY <1>1 DEF Stays, Executing
  <2> QED
    BY <1>b, <2>1, <2>2
<1>2. CASE RunFailNotify \/ RunNotifyReady \/ RunNotifyStarters \/ RunDisconnectedNotify
  <2> USE DEF RunFailNotify, RunNotifyReady, RunNotifyStarters, RunDisconnectedNotify, RunGoto
  <2>1. pc' \in [Callers -> CallLocations] /\ \A c \in Callers : Stays(c)
    BY <1>a, <1>2, Notification DEF RestOK
  <2>2. RestOK'
    BY <1>a, <1>2, <2>1 DEF RestOK, RunLocations, WorkerStatus
  <2>3. PlacesKept
    BY <1>2, <2>1 DEF Executing
  <2> QED
    BY <1>b, <2>2, <2>3
<1>3. CASE RunPop
  <2>1. run_pc = "pop" /\ (Sleeps \/ Leaves \/ TakesUrgent \/ TakesNormal)
    BY <1>a, <1>3, PopOutcome
  <2>2. RestOK'
    BY <1>a, <1>3, <2>1 DEF RunPop, RestOK, RunLocations, Sleeps, Leaves, TakesUrgent, TakesNormal, Takes
  <2>3. CallersInPlace'
    BY <1>a, <1>3 DEF RunPop, InPlace, CallersInPlace
  <2>4. \A i \in 1..Len(priority_queue') : priority_queue'[i].type \in PriorityTypes
    <3>1. CASE priority_queue' = priority_queue
      BY <1>a, <3>1 DEF InPlace, ThreadInPlace
    <3>2. CASE TakesUrgent
      <4>1. priority_queue \in Seq(Command)
        BY <1>a DEF Manager!TypeOK
      <4>2. /\ Len(priority_queue') = Len(priority_queue) - 1
            /\ \A i \in 1..Len(priority_queue') : priority_queue'[i] = priority_queue[i + 1]
        BY <3>2, <4>1, HeadTailProperties DEF TakesUrgent
      <4> QED
        BY <1>a, <4>1, <4>2 DEF InPlace, ThreadInPlace
    <3> QED
      BY <2>1, <3>1, <3>2 DEF Sleeps, Leaves, TakesNormal
  <2>5. ThreadInPlace'
    BY <1>a, <2>1, <2>4 DEF InPlace, ThreadInPlace, Executing, Sleeps, Leaves, TakesUrgent, TakesNormal, Takes
  <2> QED
    BY <2>2, <2>3, <2>5 DEF InPlace
<1>4. CASE RunClearAbort \/ RunCall \/ RunPollAbort \/ RunPollStatus \/ RunMoveFails
  <2> USE DEF RunClearAbort, RunCall, RunPollAbort, RunPollStatus, RunMoveFails, RunGoto
  <2>1. Executing /\ Executing' /\ run_pc' \in RunLocations /\ run_pc # "push"
    BY <1>4 DEF Executing, Finish, RunLocations
  <2>2. (result' = result /\ run_pc' # "push") \/ Finish
    BY <1>4
  <2>3. RestOK'
    BY <1>a, <1>4, <2>1, <2>2, FinishType DEF RestOK
  <2>4. InPlace'
    BY <1>a, <1>4, <2>1, <2>2, FinishType
      DEF InPlace, CallersInPlace, ThreadInPlace, Executing
  <2> QED
    BY <2>3, <2>4
<1>5. CASE RunPushResult
  <2>1. pc' \in [Callers -> CallLocations] /\ \A c \in Callers : Stays(c)
    BY <1>a, <1>5, Notification DEF RestOK, RunPushResult
  <2>2. result \in Result
    BY <1>a, <1>5 DEF InPlace, ThreadInPlace, RunPushResult, RunGoto, Executing, Command, Result
  <2>3. RestOK'
    BY <1>a, <1>5, <2>1, <2>2 DEF RestOK, RunPushResult, RunGoto, RunLocations
  <2>4. InPlace'
    BY <1>a, <1>5, <2>1 DEF RunPushResult, RunGoto, Executing, InPlace, CallersInPlace,
      ThreadInPlace, Stays
  <2> QED
    BY <2>3, <2>4
<1>6. CASE RunWokenSpuriously
  <2>1. RestOK' /\ CallersInPlace'
    BY <1>a, <1>6 DEF RunWokenSpuriously, Manager!SpuriousWakeup, RestOK, InPlace, CallersInPlace
  <2>2. ThreadInPlace'
    BY <1>a, <1>6 DEF RunWokenSpuriously, Manager!SpuriousWakeup, InPlace, ThreadInPlace,
      Manager!Blocked, Executing
  <2> QED
    BY <2>1, <2>2 DEF InPlace
<1> DEFINE ThreadKept == UNCHANGED <<priority_queue, popped, waiting, notified, run_pc, result>>
<1>c. ASSUME ThreadKept PROVE ThreadInPlace'
  BY <1>a, <1>c DEF InPlace, ThreadInPlace, Executing
<1>7. ASSUME NEW c \in Callers,
             \/ StartConnecting(c) \/ StartWait(c) \/ EnterJoin(c) \/ StopStopping(c)
             \/ StopDisconnected(c) \/ SetAbort(c) \/ SpuriousWakeup(c) \/ StopCheckThread(c)
      PROVE  RestOK' /\ InPlace'
  <2> USE DEF StartConnecting, StartWait, EnterJoin, StopStopping, StopDisconnected, SetAbort,
        SpuriousWakeup, StopCheckThread, Goto
  <2>1. RestOK'
    <3>1. pc' \in [Callers -> CallLocations]
      BY <1>a, <1>7 DEF RestOK, CallLocations
    <3>2. worker_state' \in WorkerStatus /\ abort_requested' \in BOOLEAN
      BY <1>a, <1>7 DEF RestOK, WorkerStatus
    <3>3. UNCHANGED <<result_queue, joinable, connected, control, run_pc, result, submitVars, collected>>
      BY <1>7
    <3> QED BY <1>a, <3>1, <3>2, <3>3 DEF RestOK
  <2>2. CallersInPlace'
    BY <1>a, <1>7 DEF RestOK, InPlace, CallersInPlace
  <2>3. ThreadInPlace'
    BY <1>c, <1>7
  <2> QED
    BY <2>1, <2>2, <2>3 DEF InPlace
<1>8. ASSUME NEW c \in Callers, StartSpawn(c) \/ Join(c) PROVE RestOK' /\ InPlace'
  <2> USE DEF StartSpawn, Join, Goto
  <2>1. RestOK'
    BY <1>a, <1>8 DEF RestOK, CallLocations, RunLocations
  <2>2. CallersInPlace'
    BY <1>a, <1>8 DEF RestOK, InPlace, CallersInPlace
  <2>3. ThreadInPlace'
    BY <1>a, <1>8 DEF InPlace, ThreadInPlace, Executing
  <2> QED
    BY <2>1, <2>2, <2>3 DEF InPlace
<1>9. ASSUME NEW c \in Callers, StopShutdown(c) PROVE RestOK' /\ InPlace'
  <2> USE DEF StopShutdown, Goto, Manager!Shutdown, Manager!NotifyAll
  <2>1. RestOK'
    BY <1>a, <1>9 DEF RestOK, CallLocations
  <2>2. CallersInPlace'
    BY <1>a, <1>9 DEF RestOK, InPlace, CallersInPlace
  <2>3. ThreadInPlace'
    BY <1>a, <1>9 DEF InPlace, ThreadInPlace, Executing
  <2> QED
    BY <2>1, <2>2, <2>3 DEF InPlace
<1>10. ASSUME NEW c \in Callers, StopNotify(c) PROVE RestOK' /\ InPlace'
  <2> USE DEF StopNotify, AllWoken
  <2>1. RestOK'
    BY <1>a, <1>10 DEF RestOK, CallLocations
  <2>2. CallersInPlace'
    BY <1>a, <1>10 DEF RestOK, InPlace, CallersInPlace
  <2>3. ThreadInPlace'
    BY <1>c, <1>10
  <2> QED
    BY <2>1, <2>2, <2>3 DEF InPlace
<1>11. ASSUME NEW c \in Callers, Enqueue(c) PROVE RestOK' /\ InPlace'
  <2> USE DEF Enqueue, Goto
  <2>1. request[c] \in Command
    BY <1>a, <1>11 DEF InPlace, CallersInPlace
  <2>2. accepted' \in [Queues -> Seq(Command)]
    BY <1>a, <1>11, <2>1, AcceptType DEF RestOK, Queues
  <2>3. RestOK'
    BY <1>a, <1>11, <2>2 DEF RestOK, CallLocations
  <2>4. CallersInPlace'
    BY <1>a, <1>11 DEF RestOK, InPlace, CallersInPlace
  <2>5. Manager!Blocked' = Manager!Blocked /\ UNCHANGED <<priority_queue, popped>>
    BY <1>11 DEF Manager!Enqueue, Manager!NotifyOne, Manager!Blocked
  <2>6. ThreadInPlace'
    BY <1>a, <1>11, <2>5 DEF InPlace, ThreadInPlace, Executing
  <2> QED
    BY <2>3, <2>4, <2>6 DEF InPlace
<1>12. ASSUME NEW c \in Callers, EnqueuePriority(c) PROVE RestOK' /\ InPlace'
  <2> USE DEF EnqueuePriority, Goto
  <2>1. request[c] \in Command /\ request[c].type \in PriorityTypes
    BY <1>a, <1>12 DEF InPlace, CallersInPlace
  <2>2. accepted' \in [Queues -> Seq(Command)]
    BY <1>a, <1>12, <2>1, AcceptType DEF RestOK, Queues
  <2>3. RestOK'
    BY <1>a, <1>12, <2>2 DEF RestOK, CallLocations
  <2>4. CallersInPlace'
    BY <1>a, <1>12, <2>1 DEF RestOK, InPlace, CallersInPlace
  <2>5. Manager!Blocked' = Manager!Blocked /\ UNCHANGED popped
    BY <1>12 DEF Manager!EnqueuePriority, Manager!NotifyOne, Manager!Blocked
  <2>6. \A i \in 1..Len(priority_queue') : priority_queue'[i].type \in PriorityTypes
    <3>1. CASE priority_queue' = Append(priority_queue, request[c])
      BY <1>a, <2>1, <3>1, AppendProperties DEF Manager!TypeOK, InPlace, ThreadInPlace
    <3>2. CASE priority_queue' = priority_queue
      BY <1>a, <3>2 DEF InPlace, ThreadInPlace
    <3> QED
      BY <1>12, <3>1, <3>2 DEF Manager!EnqueuePriority
  <2>7. ThreadInPlace'
    BY <1>a, <1>12, <2>5, <2>6 DEF InPlace, ThreadInPlace, Executing
  <2> QED
    BY <2>3, <2>4, <2>7 DEF InPlace
<1>13. ASSUME NEW c \in Starters, StartCheckThread(c) PROVE RestOK' /\ InPlace'
  <2>1. c \in Callers
    BY DEF Callers
  <2> USE DEF StartCheckThread, Goto
  <2>2. RestOK'
    BY <1>a, <1>13, <2>1 DEF RestOK, CallLocations
  <2>3. CallersInPlace'
    BY <1>a, <1>13, <2>1 DEF RestOK, InPlace, CallersInPlace
  <2> QED
    BY <1>c, <1>13, <2>2, <2>3 DEF InPlace
<1>14. ASSUME NEW c \in Submitters, NEW queue \in {"normal", "priority"}, NEW type \in CommandTypes,
              queue = "priority" => type \in PriorityTypes,
              Submit(c, type, queue)
       PROVE  RestOK' /\ InPlace'
  <2>1. c \in Callers
    BY DEF Callers
  <2> DEFINE command == [id |-> next_command_id, type |-> type]
  <2> USE DEF Submit, Goto
  <2>2. command \in Command /\ next_command_id' \in 1..(MaxCommands + 1)
    BY <1>a, <1>14, MaxCommandsAssumption DEF RestOK, Command
  <2>3. request' = [request EXCEPT ![c] = command]
    BY <1>14
  <2>4. command.type = type
    OBVIOUS
  <2> HIDE DEF command
  <2>5. RestOK'
    BY <1>a, <1>14, <2>1, <2>2, <2>3 DEF RestOK, CallLocations
  <2>6. CallersInPlace'
    BY <1>a, <1>14, <2>1, <2>2, <2>3, <2>4 DEF RestOK, InPlace, CallersInPlace
  <2> QED
    BY <1>c, <1>14, <2>5, <2>6 DEF InPlace
<1>15. ASSUME NEW c \in Collectors, TryGetResult(c) \/ WaitAndPopResult(c) PROVE RestOK' /\ InPlace'
  <2>1. c \in Callers
    BY DEF Callers
  <2> USE DEF TryGetResult, WaitAndPopResult, Goto
  <2>2. result_queue' \in Seq(Result) /\ collected' \in Seq(Result)
    <3>1. CASE PopResult
      <4>1. /\ result_queue \in Seq(Result) /\ result_queue # <<>> /\ collected \in Seq(Result)
            /\ result_queue' = Tail(result_queue) /\ collected' = Append(collected, Head(result_queue))
        BY <1>a, <3>1 DEF RestOK, PopResult
      <4>2. Head(result_queue) \in Result /\ Tail(result_queue) \in Seq(Result)
        BY <4>1, HeadTailProperties
      <4> QED
        BY <4>1, <4>2, AppendProperties
    <3>2. CASE UNCHANGED <<result_queue, collected>>
      BY <1>a, <3>2 DEF RestOK
    <3> QED
      BY <1>15, <3>1, <3>2
  <2>3. RestOK'
    BY <1>a, <1>15, <2>1, <2>2 DEF RestOK, CallLocations
  <2>4. CallersInPlace'
    BY <1>a, <1>15, <2>1 DEF RestOK, InPlace, CallersInPlace
  <2> QED
    BY <1>c, <1>15, <2>3, <2>4 DEF InPlace
<1>16. CASE UNCHANGED vars
  BY <1>a, <1>16 DEF vars, RestOK, InPlace, CallersInPlace, ThreadInPlace, Executing, Manager!Blocked
<1>17. CASE RunStep
  BY <1>1, <1>2, <1>3, <1>4, <1>5, <1>17 DEF RunStep
<1>18. ASSUME NEW c \in Callers, InCall(c) PROVE RestOK' /\ InPlace'
  BY <1>7, <1>8, <1>9, <1>10, <1>11, <1>12, <1>18 DEF InCall
<1>19. ASSUME NEW c \in Stoppers, StopCheckThread(c) PROVE RestOK' /\ InPlace'
  BY <1>7, <1>19 DEF Callers
<1>20. ASSUME NEW c \in Submitters,
              \/ \E type \in NormalTypes : Submit(c, type, "normal")
              \/ \E type \in PriorityTypes : Submit(c, type, "priority")
       PROVE  RestOK' /\ InPlace'
  BY <1>14, <1>20, TypesAssumption
<1> QED
  BY <1>6, <1>7, <1>13, <1>15, <1>16, <1>17, <1>18, <1>19, <1>20 DEF Next

(* Every variable keeps its type.  *)
THEOREM TypeCorrect == Spec => []TypeOK
<1>1. TypeInv => TypeOK
  BY DEF TypeInv
<1> QED
  BY <1>1, TypeInit, TypeStep, PTL DEF Spec

-----------------------------------------------------------------------------
(* The life of the worker.  *)

LEMMA OnlyStarter == \A c, d \in Starters : c = d
BY OneStarter

LEMMA LifeInit == Init => LifeInv
BY DEF Init, Manager!Init, Manager!Blocked, LifeInv, RobotAt, ThreadLife, BeforeShutdown, AfterShutdown,
  PhaseAt, ConnectedAt, ControlledAt, Executing

LEMMA LifeStep == TypeInv /\ LifeInv /\ [Next]_vars => LifeInv'
<1> SUFFICES ASSUME TypeInv, LifeInv, [Next]_vars PROVE LifeInv'
  OBVIOUS
<1> USE DEF dataVars, lifeVars, robotVars, submitVars, resultVars, managerVars
<1>a. /\ RestOK /\ CallersInPlace /\ ThreadInPlace /\ Manager!TypeOK
      /\ RobotAt /\ ThreadLife /\ BeforeShutdown /\ AfterShutdown
  BY TypeParts DEF TypeInv, LifeInv
<1>b. worker_state \in WorkerStatus /\ run_pc \in RunLocations /\ pc \in [Callers -> CallLocations]
  BY <1>a DEF RestOK
<1>1. CASE RunConnect \/ RunCheckStopping \/ RunRequestControl \/ RunReleaseControl \/ RunDisconnect
           \/ RunFail \/ RunReady \/ RunDisconnected
  <2> USE DEF RunConnect, RunCheckStopping, RunRequestControl, RunReleaseControl, RunDisconnect,
        RunFail, RunReady, RunDisconnected, RunGoto
  <2>1. RobotAt'
    BY <1>a, <1>1 DEF RobotAt, ConnectedAt, ControlledAt
  <2>2. ThreadLife'
    BY <1>a, <1>1 DEF ThreadLife, Manager!Blocked
  <2>3. BeforeShutdown'
    <3>a. ~shutdown_requested => worker_state \in PhaseAt(run_pc)
      BY <1>a DEF BeforeShutdown
    <3>1. ~shutdown_requested => worker_state' \in PhaseAt(run_pc')
      <4>1. CASE RunConnect \/ RunCheckStopping \/ RunRequestControl
        BY <3>a, <4>1 DEF PhaseAt
      <4>2. CASE RunReleaseControl \/ RunDisconnect
        BY <3>a, <4>2 DEF PhaseAt
      <4>3. CASE RunFail
        BY <3>a, <4>3 DEF PhaseAt
      <4>4. CASE RunReady
        BY <3>a, <4>4 DEF PhaseAt
      <4>5. CASE RunDisconnected
        BY <3>a, <4>5 DEF PhaseAt
      <4> QED
        BY <1>1, <4>1, <4>2, <4>3, <4>4, <4>5
    <3>2. /\ run_pc # "none" /\ run_pc' # "none" /\ ~Serving
          /\ run_pc \notin {"failNotify", "notifyCollectors", "ended"}
          /\ UNCHANGED <<pc, shutdown_requested>>
      BY <1>1 DEF Serving, Executing
    <3>3. \A c \in Callers : ~(pc[c] = "startSpawn")
      BY <1>a, <3>2 DEF ThreadLife
    <3>4. \A c \in Callers :
            ~shutdown_requested /\ pc[c] = "stopShutdown" => worker_state' \in {"Stopping", "Disconnected"}
      <4>1. ~shutdown_requested /\ run_pc \in {"fail", "ready"} => worker_state # "Disconnected"
        BY <3>a DEF PhaseAt
      <4> QED
        BY <1>a, <1>1, <4>1 DEF BeforeShutdown
    <3> HIDE DEF RunConnect, RunCheckStopping, RunRequestControl, RunReleaseControl, RunDisconnect,
          RunFail, RunReady, RunDisconnected
    <3>5. ~shutdown_requested => \A c \in Callers :
            pc[c] \notin {"startJoin", "startJoining", "normal", "priority"}
      BY <1>a, <3>2 DEF BeforeShutdown
    <3> QED
      BY <3>1, <3>2, <3>3, <3>4, <3>5 DEF BeforeShutdown
  <2>4. AfterShutdown'
    BY <1>a, <1>1 DEF AfterShutdown, Executing
  <2> QED
    BY <2>1, <2>2, <2>3, <2>4 DEF LifeInv
<1>2. CASE RunFailNotify \/ RunNotifyReady \/ RunNotifyStarters \/ RunDisconnectedNotify
  <2> USE DEF RunFailNotify, RunNotifyReady, RunNotifyStarters, RunDisconnectedNotify, RunGoto
  <2>a. \A c \in Callers : Stays(c)
    BY <1>b, <1>2, Notification
  <2>1. RobotAt'
    BY <1>a, <1>2 DEF RobotAt, ConnectedAt, ControlledAt
  <2>2. ThreadLife'
    BY <1>a, <1>2, <2>a DEF ThreadLife, Manager!Blocked, Stays
  <2>3. BeforeShutdown'
    BY <1>a, <1>2, <2>a DEF BeforeShutdown, PhaseAt, Serving, Executing, Stays
  <2>4. AfterShutdown'
    BY <1>a, <1>2, <2>a DEF AfterShutdown, Executing, Stays
  <2> QED
    BY <2>1, <2>2, <2>3, <2>4 DEF LifeInv
<1>3. CASE RunPop
  <2>a. /\ run_pc = "pop" /\ UNCHANGED shutdown_requested
        /\ Sleeps \/ Leaves \/ TakesUrgent \/ TakesNormal
    BY <1>a, <1>3, PopOutcome
  <2>b. UNCHANGED <<worker_state, joinable, connected, control, pc>>
    BY <1>3 DEF RunPop
  <2>c. run_pc' = "pop" \/ Leaves \/ (~shutdown_requested /\ run_pc' \in {"clearAbort", "poll", "call"})
    BY <2>a DEF Sleeps, TakesUrgent, TakesNormal, Takes
  <2>d. run_pc' = "pop" \/ Manager!Blocked' = {}
    BY <2>a DEF Sleeps, Leaves, TakesUrgent, TakesNormal, Takes
  <2>1. RobotAt'
    BY <1>a, <2>a, <2>b, <2>c DEF RobotAt, ConnectedAt, ControlledAt, Leaves
  <2>2. ThreadLife'
    BY <1>a, <2>a, <2>b, <2>c, <2>d DEF ThreadLife, Leaves
  <2>3. BeforeShutdown'
    BY <1>a, <2>a, <2>b, <2>c DEF BeforeShutdown, PhaseAt, Serving, Executing, Leaves
  <2>4. AfterShutdown'
    BY <1>a, <2>a, <2>b, <2>c DEF BeforeShutdown, AfterShutdown, PhaseAt, Executing, Leaves
  <2> QED
    BY <2>1, <2>2, <2>3, <2>4 DEF LifeInv
<1>4. CASE RunClearAbort \/ RunCall \/ RunPollAbort \/ RunPollStatus \/ RunMoveFails
  <2>a. Executing /\ Executing' /\ UNCHANGED <<lifeVars, pc, managerVars>>
    BY <1>4 DEF RunClearAbort, RunCall, RunPollAbort, RunPollStatus, RunMoveFails, RunGoto,
      Executing, Finish
  <2>1. RobotAt'
    BY <1>a, <2>a DEF RobotAt, ConnectedAt, ControlledAt, Executing
  <2>2. ThreadLife'
    BY <1>a, <2>a DEF ThreadLife, Executing, Manager!Blocked
  <2>3. BeforeShutdown'
    BY <1>a, <2>a DEF BeforeShutdown, PhaseAt, Serving, Executing
  <2>4. AfterShutdown'
    BY <1>a, <2>a DEF AfterShutdown
  <2> QED
    BY <2>1, <2>2, <2>3, <2>4 DEF LifeInv
<1>5. CASE RunPushResult
  <2>a. /\ \A c \in Callers : Stays(c)
        /\ run_pc = "push" /\ run_pc' = "pop" /\ UNCHANGED <<lifeVars, managerVars>>
    BY <1>b, <1>5, Notification DEF RunPushResult, RunGoto
  <2>1. RobotAt'
    BY <1>a, <2>a DEF RobotAt, ConnectedAt, ControlledAt
  <2>2. ThreadLife'
    BY <1>a, <2>a DEF ThreadLife, Manager!Blocked, Stays
  <2>3. BeforeShutdown'
    BY <1>a, <2>a DEF BeforeShutdown, PhaseAt, Serving, Executing, Stays
  <2>4. AfterShutdown'
    BY <1>a, <2>a DEF AfterShutdown, Executing, Stays
  <2> QED
    BY <2>1, <2>2, <2>3, <2>4 DEF LifeInv
<1> DEFINE ThreadKept == UNCHANGED <<lifeVars, run_pc, shutdown_requested, Manager!Blocked>>
<1>6. CASE RunWokenSpuriously
  <2>a. ThreadKept /\ UNCHANGED pc
    BY <1>6 DEF RunWokenSpuriously, Manager!SpuriousWakeup, Manager!Blocked
  <2> QED
    BY <1>a, <2>a DEF LifeInv, RobotAt, ThreadLife, BeforeShutdown, AfterShutdown, Serving, Executing
<1>7. ASSUME NEW c \in Callers,
             \/ StartWait(c) \/ EnterJoin(c) \/ SetAbort(c) \/ SpuriousWakeup(c)
             \/ StartCheckThread(c) \/ StopCheckThread(c)
      PROVE  LifeInv'
  <2> USE DEF StartWait, EnterJoin, SetAbort, SpuriousWakeup, StartCheckThread, StopCheckThread, Goto
  <2>a. ThreadKept
    BY <1>7 DEF Manager!Blocked
  <2>1. RobotAt' /\ ThreadLife'
    BY <1>a, <1>b, <1>7, <2>a DEF RobotAt, ThreadLife
  <2>2. BeforeShutdown'
    BY <1>a, <1>b, <1>7, <2>a DEF BeforeShutdown, ThreadLife, Serving, Executing
  <2>3. AfterShutdown'
    BY <1>a, <1>b, <1>7, <2>a DEF AfterShutdown, ThreadLife, Executing
  <2> QED
    BY <2>1, <2>2, <2>3 DEF LifeInv
<1>8. ASSUME NEW c \in Callers, StartConnecting(c) PROVE LifeInv'
  <2> USE DEF StartConnecting, Goto
  <2>a. c \in Starters /\ run_pc = "none"
    BY <1>a, <1>8 DEF CallersInPlace, ThreadLife
  <2>1. RobotAt'
    BY <1>a, <1>8 DEF RobotAt
  <2>2. ThreadLife'
    BY <1>a, <1>b, <1>8, <2>a DEF ThreadLife, Manager!Blocked
  <2>3. BeforeShutdown'
    BY <1>a, <1>b, <1>8, <2>a DEF BeforeShutdown, PhaseAt, Serving, Executing
  <2>4. AfterShutdown'
    BY <1>a, <1>b, <1>8, <2>a DEF AfterShutdown, Executing
  <2> QED
    BY <2>1, <2>2, <2>3, <2>4 DEF LifeInv
<1>9. ASSUME NEW c \in Callers, StartSpawn(c) PROVE LifeInv'
  <2> USE DEF StartSpawn, Goto
  <2>a. c \in Starters /\ run_pc = "none"
    BY <1>a, <1>9 DEF CallersInPlace, ThreadLife
  <2>b. \A d \in Callers : pc'[d] \notin {"startLock", "startSpawn", "startJoin", "startJoining"}
    BY <1>a, <1>b, <1>9, <2>a, OnlyStarter DEF CallersInPlace
  <2>1. RobotAt'
    BY <1>a, <1>9, <2>a DEF RobotAt, ConnectedAt, ControlledAt
  <2>2. ThreadLife'
    BY <1>a, <1>b, <1>9, <2>a, <2>b DEF ThreadLife, Manager!Blocked
  <2>3. BeforeShutdown'
    BY <1>a, <1>b, <1>9, <2>a, <2>b DEF BeforeShutdown, PhaseAt, Serving, Executing
  <2>4. AfterShutdown'
    BY <1>a, <1>b, <1>9, <2>a DEF AfterShutdown, Executing
  <2> QED
    BY <2>1, <2>2, <2>3, <2>4 DEF LifeInv
<1>10. ASSUME NEW c \in Callers, Join(c) PROVE LifeInv'
  <2> USE DEF Join, Goto
  <2>1. RobotAt'
    BY <1>a, <1>10 DEF RobotAt, ConnectedAt, ControlledAt
  <2>2. ThreadLife'
    BY <1>a, <1>b, <1>10 DEF ThreadLife, Manager!Blocked
  <2>3. BeforeShutdown'
    <3>1. CASE pc[c] = "startJoining"
      <4>1. ~shutdown_requested =>
              worker_state \in {"Error", "Stopping"} /\ worker_state \in PhaseAt("none")
        BY <1>a, <3>1 DEF BeforeShutdown, PhaseAt
      <4>2. \A d \in Callers : pc'[d] \notin {"startJoin", "startJoining", "startAwake", "startAsleep"}
        BY <1>a, <1>b, <1>10, <3>1, OnlyStarter DEF CallersInPlace
      <4>3. \A d \in Callers : pc[d] # "startSpawn"
        BY <1>a, <1>10 DEF ThreadLife
      <4>4. ~shutdown_requested => \A d \in Callers : pc[d] \notin {"normal", "priority"}
        BY <1>a, <1>10 DEF BeforeShutdown, Serving, Executing
      <4> QED
        BY <1>a, <1>b, <1>10, <3>1, <4>1, <4>2, <4>3, <4>4 DEF BeforeShutdown
    <3>2. CASE pc[c] = "stopJoining"
      BY <1>a, <1>10, <3>2 DEF BeforeShutdown, AfterShutdown
    <3> QED
      BY <1>10, <3>1, <3>2
  <2>4. AfterShutdown'
    BY <1>a, <1>b, <1>10 DEF AfterShutdown, Executing
  <2> QED
    BY <2>1, <2>2, <2>3, <2>4 DEF LifeInv
<1>11. ASSUME NEW c \in Callers, StopStopping(c) \/ StopDisconnected(c) PROVE LifeInv'
  <2> USE DEF StopStopping, StopDisconnected, Goto
  <2>1. RobotAt'
    BY <1>a, <1>11 DEF RobotAt
  <2>2. ThreadLife'
    BY <1>a, <1>b, <1>11 DEF ThreadLife, Manager!Blocked
  <2>3. BeforeShutdown'
    <3>1. CASE StopStopping(c)
      <4>1. "Stopping" \in PhaseAt(run_pc)
        BY <1>b DEF PhaseAt, RunLocations
      <4>2. ~shutdown_requested => \A d \in Callers : pc[d] # "startSpawn"
        BY <1>a, <3>1 DEF BeforeShutdown, ThreadLife
      <4> QED
        BY <1>a, <1>b, <3>1, <4>1, <4>2 DEF BeforeShutdown, Serving, Executing
    <3>2. CASE StopDisconnected(c)
      BY <1>a, <3>2 DEF BeforeShutdown, AfterShutdown
    <3> QED
      BY <1>11, <3>1, <3>2
  <2>4. AfterShutdown'
    BY <1>a, <1>b, <1>11 DEF AfterShutdown, Executing
  <2> QED
    BY <2>1, <2>2, <2>3, <2>4 DEF LifeInv
<1>12. ASSUME NEW c \in Callers, StopShutdown(c) PROVE LifeInv'
  <2> USE DEF StopShutdown, Goto
  <2>a. shutdown_requested' /\ Manager!Blocked' = Manager!Blocked
    BY <1>12 DEF Manager!Shutdown, Manager!NotifyAll, Manager!Blocked
  <2>1. RobotAt' /\ ThreadLife'
    BY <1>a, <1>b, <1>12, <2>a DEF RobotAt, ThreadLife
  <2>2. BeforeShutdown' /\ AfterShutdown'
    BY <1>a, <1>b, <1>12, <2>a DEF BeforeShutdown, AfterShutdown, Executing
  <2> QED
    BY <2>1, <2>2 DEF LifeInv
<1>13. ASSUME NEW c \in Callers, StopNotify(c) PROVE LifeInv'
  <2>a. ThreadKept /\ \A d \in Callers : Stays(d) \/ pc'[d] = "idle"
    BY <1>b, <1>13 DEF StopNotify, AllWoken, Stays, Manager!Blocked
  <2>1. RobotAt' /\ ThreadLife'
    BY <1>a, <2>a DEF RobotAt, ThreadLife, Stays
  <2>2. BeforeShutdown' /\ AfterShutdown'
    BY <1>a, <2>a DEF BeforeShutdown, AfterShutdown, Serving, Executing, Stays
  <2> QED
    BY <2>1, <2>2 DEF LifeInv
<1>14. ASSUME NEW c \in Callers, Enqueue(c) \/ EnqueuePriority(c) PROVE LifeInv'
  <2>a. ThreadKept
    BY <1>14 DEF Enqueue, EnqueuePriority, Manager!Enqueue, Manager!EnqueuePriority,
      Manager!NotifyOne, Manager!Blocked
  <2>b. \E l \in {"idle", "setAbort"} : pc' = [pc EXCEPT ![c] = l]
    BY <1>14 DEF Enqueue, EnqueuePriority, Goto
  <2>1. RobotAt' /\ ThreadLife'
    BY <1>a, <1>b, <2>a, <2>b DEF RobotAt, ThreadLife
  <2>2. BeforeShutdown' /\ AfterShutdown'
    BY <1>a, <1>b, <2>a, <2>b DEF BeforeShutdown, AfterShutdown, Serving, Executing
  <2> QED
    BY <2>1, <2>2 DEF LifeInv
<1>15. ASSUME NEW c \in Callers, NEW queue \in {"normal", "priority"}, NEW type, Submit(c, type, queue)
       PROVE  LifeInv'
  <2>a. ThreadKept /\ worker_state = "Ready" /\ pc' = [pc EXCEPT ![c] = queue]
    BY <1>15 DEF Submit, Goto, Manager!Blocked
  <2>b. ~shutdown_requested => Serving
    BY <1>a, <1>b, <2>a DEF BeforeShutdown, PhaseAt, RunLocations, Serving, Executing
  <2>1. RobotAt' /\ ThreadLife'
    BY <1>a, <1>b, <2>a DEF RobotAt, ThreadLife
  <2>2. BeforeShutdown' /\ AfterShutdown'
    BY <1>a, <1>b, <2>a, <2>b DEF BeforeShutdown, AfterShutdown, Serving, Executing
  <2> QED
    BY <2>1, <2>2 DEF LifeInv
<1>16. ASSUME NEW c \in Callers, TryGetResult(c) \/ WaitAndPopResult(c) PROVE LifeInv'
  <2>a. ThreadKept
    BY <1>16 DEF TryGetResult, WaitAndPopResult, Manager!Blocked
  <2>b. pc' = pc \/ \E l \in {"idle", "collectAsleep"} : pc' = [pc EXCEPT ![c] = l]
    BY <1>16 DEF TryGetResult, WaitAndPopResult, Goto
  <2>1. RobotAt' /\ ThreadLife'
    BY <1>a, <1>b, <2>a, <2>b DEF RobotAt, ThreadLife
  <2>2. BeforeShutdown' /\ AfterShutdown'
    BY <1>a, <1>b, <2>a, <2>b DEF BeforeShutdown, AfterShutdown, Serving, Executing
  <2> QED
    BY <2>1, <2>2 DEF LifeInv
<1>17. CASE UNCHANGED vars
  <2>a. ThreadKept /\ UNCHANGED pc
    BY <1>17 DEF vars, Manager!Blocked
  <2> QED
    BY <1>a, <2>a DEF LifeInv, RobotAt, ThreadLife, BeforeShutdown, AfterShutdown, Serving, Executing
<1>18. CASE RunStep
  BY <1>1, <1>2, <1>3, <1>4, <1>5, <1>18 DEF RunStep
<1>19. ASSUME NEW c \in Callers, InCall(c) PROVE LifeInv'
  BY <1>7, <1>8, <1>9, <1>10, <1>11, <1>12, <1>13, <1>14, <1>19 DEF InCall
<1>20. Starters \cup Stoppers \cup Submitters \cup Collectors \subseteq Callers
  BY DEF Callers
<1> QED
  BY <1>6, <1>7, <1>15, <1>16, <1>17, <1>18, <1>19, <1>20 DEF Next

LEMMA InvCorrect == Spec => [](TypeInv /\ LifeInv)
BY TypeInit, TypeStep, LifeInit, LifeStep, PTL DEF Spec

(* The worker uses the robot only while it is connected and in control, and has  *)
(* given back both when its thread ends or the worker reports an Error.           *)
THEOREM RobotIsGivenBack == Spec => []RobotGivenBack
<1>1. LifeInv => RobotGivenBack
  BY DEF LifeInv, RobotAt, ThreadLife, RobotGivenBack, Executing, ConnectedAt, ControlledAt
<1> QED
  BY <1>1, InvCorrect, PTL

-----------------------------------------------------------------------------
(* What a stop prevents.  With two threads that stop, the first may end while   *)
(* the second is still on its way, and a start between them begins anew: one      *)
(* thread that stops is assumed, as one that starts is.                            *)

StopPlaces == {"stopLock", "stopShutdown", "stopJoin", "stopJoining", "stopDisconnected", "stopNotify"}
UnderAStop(c) == pc[c] \in {"stopShutdown", "stopJoin", "stopJoining"}

(* The places at which a thread still has its last look at the state before it.  *)
NotYetServing == {"none", "connect", "checkStopping", "requestControl", "disconnectFailed", "fail", "ready"}

(* Only an Error makes start join, and the stop that follows it keeps the state     *)
(* for as long as nobody has looked at it: until the thread is joined by start, or   *)
(* has learnt that it must not serve.                                                *)
StopInv ==
  /\ \A c \in Callers :
       /\ pc[c] \in StopPlaces => c \in Stoppers
       /\ pc[c] \in {"startJoin", "startJoining"}
            => run_pc \in {"failNotify", "notifyCollectors", "ended", "none"}
  /\ \A c \in Callers : UnderAStop(c) =>
       /\ worker_state \in {"Stopping", "Disconnected"}
       /\ run_pc \in NotYetServing => worker_state = "Stopping"
       /\ \A d \in Callers : pc[d] \in {"startJoin", "startJoining"} => worker_state = "Stopping"

LEMMA StopStep ==
  ASSUME \A c, d \in Stoppers : c = d, TypeInv, LifeInv, StopInv, [Next]_vars
  PROVE  StopInv'
<1> USE DEF dataVars, lifeVars, robotVars, StopPlaces, UnderAStop
<1>a. /\ pc \in [Callers -> CallLocations] /\ CallersInPlace /\ ThreadLife /\ Manager!TypeOK
  BY TypeParts DEF TypeInv, LifeInv, RestOK
(* The steps of the thread, which notifies nobody ...  *)
<1>1. CASE RunConnect \/ RunCheckStopping \/ RunRequestControl \/ RunReleaseControl \/ RunDisconnect
           \/ RunFail \/ RunReady \/ RunDisconnected
  <2> USE DEF RunConnect, RunCheckStopping, RunRequestControl, RunReleaseControl, RunDisconnect,
        RunFail, RunReady, RunDisconnected, RunGoto
  <2>1. UNCHANGED pc /\ \A c \in Callers : pc[c] \notin {"startJoin", "startJoining"}
    BY <1>1 DEF StopInv
  <2>2. ASSUME NEW c \in Callers, UnderAStop(c)
        PROVE  worker_state' \in {"Stopping", "Disconnected"}
               /\ (run_pc' \in NotYetServing => worker_state' = "Stopping")
    <3>1. /\ worker_state \in {"Stopping", "Disconnected"}
          /\ run_pc \in NotYetServing => worker_state = "Stopping"
      BY <2>2 DEF StopInv
    <3> QED
      BY <1>1, <3>1 DEF NotYetServing
  <2> HIDE DEF RunConnect, RunCheckStopping, RunRequestControl, RunReleaseControl, RunDisconnect,
        RunFail, RunReady, RunDisconnected
  <2> QED
    BY <2>1, <2>2 DEF StopInv
(* ... or some, ...  *)
<1>2. CASE RunFailNotify \/ RunNotifyReady \/ RunNotifyStarters \/ RunDisconnectedNotify \/ RunPushResult
  <2> USE DEF RunFailNotify, RunNotifyReady, RunNotifyStarters, RunDisconnectedNotify, RunPushResult,
        RunGoto
  <2>1. \A c \in Callers : Stays(c)
    BY <1>a, <1>2, Notification
  <2>2. \A c \in Callers : pc'[c] \in StopPlaces \cup {"startJoin", "startJoining"} => pc'[c] = pc[c]
    BY <2>1 DEF Stays
  <2>3. /\ run_pc' \notin NotYetServing
        /\ worker_state' = worker_state \/ (worker_state' = "Disconnected" /\ run_pc = "disconnectedNotify")
        /\ run_pc \in {"failNotify", "notifyCollectors"}
             => run_pc' \in {"notifyCollectors", "ended"} /\ worker_state' = worker_state
        /\ run_pc # "ended" /\ run_pc # "none"
    BY <1>2 DEF NotYetServing
  <2> HIDE DEF RunFailNotify, RunNotifyReady, RunNotifyStarters, RunDisconnectedNotify, RunPushResult
  <2> QED
    BY <2>2, <2>3 DEF StopInv
(* ... and its loop.  *)
<1>3. CASE RunPop \/ RunClearAbort \/ RunCall \/ RunPollAbort \/ RunPollStatus \/ RunMoveFails
  <2>1. UNCHANGED <<worker_state, pc>>
    BY <1>3 DEF RunPop, RunClearAbort, RunCall, RunPollAbort, RunPollStatus, RunMoveFails
  <2>2. run_pc \in {"pop", "clearAbort", "call", "poll", "read"}
    BY <1>3 DEF RunPop, RunClearAbort, RunCall, RunPollAbort, RunPollStatus, RunMoveFails, RunGoto
  <2>3. run_pc' \in {"pop", "clearAbort", "call", "poll", "read", "push", "releaseControl"}
    BY <1>a, <1>3, PopOutcome DEF Sleeps, Leaves, TakesUrgent, TakesNormal, Takes, RunClearAbort,
      RunCall, RunPollAbort, RunPollStatus, RunMoveFails, RunGoto, Finish
  <2> QED
    BY <2>1, <2>2, <2>3 DEF StopInv, NotYetServing
(* The steps of start, ...  *)
<1>4. ASSUME NEW c \in Callers, StartConnecting(c) \/ StartWait(c) PROVE StopInv'
  <2> USE DEF StartConnecting, StartWait, Goto
  <2>1. \A d \in Callers : d # c => pc'[d] = pc[d]
    BY <1>a, <1>4
  <2>2. UNCHANGED run_pc /\ pc'[c] \in {"startSpawn", "startAsleep", "startJoin", "idle"}
    BY <1>a, <1>4
  <2>3. (\E d \in Callers : UnderAStop(d)) => UNCHANGED worker_state /\ pc'[c] # "startJoin"
    <3>1. pc[c] = "startLock" => run_pc = "none"
      BY <1>a DEF ThreadLife
    <3> QED
      BY <1>a, <1>4, <3>1 DEF StopInv, NotYetServing
  <2>4. pc'[c] = "startJoin" => run_pc \in {"failNotify", "notifyCollectors", "ended", "none"}
    BY <1>a, <1>4 DEF ThreadLife
  <2> HIDE DEF StartConnecting, StartWait
  <2> QED
    BY <2>1, <2>2, <2>3, <2>4 DEF StopInv
<1>5. ASSUME NEW c \in Callers, StartSpawn(c) PROVE StopInv'
  <2> USE DEF StartSpawn, Goto
  <2>1. c \in Starters /\ run_pc = "none"
    BY <1>a, <1>5 DEF CallersInPlace, ThreadLife
  <2>2. \A d \in Callers : pc'[d] \notin {"startJoin", "startJoining"}
    BY <1>a, <1>5, <2>1, OnlyStarter DEF CallersInPlace
  <2>3. \A d \in Callers : pc'[d] \in StopPlaces => pc'[d] = pc[d]
    BY <1>a, <1>5
  <2> QED
    BY <1>5, <2>1, <2>2, <2>3 DEF StopInv, NotYetServing
(* ... the joins, ...  *)
<1>6. ASSUME NEW c \in Callers, EnterJoin(c) PROVE StopInv'
  <2> USE DEF EnterJoin, Goto
  <2>1. /\ \A d \in Callers : d # c => pc'[d] = pc[d]
        /\ \/ pc'[c] = "threw"
           \/ pc[c] = "startJoin" /\ pc'[c] = "startJoining"
           \/ pc[c] = "stopJoin" /\ pc'[c] = "stopJoining"
        /\ UNCHANGED <<run_pc, worker_state>>
    BY <1>a, <1>6
  <2> QED
    BY <2>1 DEF StopInv
<1>7. ASSUME NEW c \in Callers, Join(c) PROVE StopInv'
  <2> USE DEF Join, Goto
  <2>1. /\ \A d \in Callers : d # c => pc'[d] = pc[d]
        /\ UNCHANGED worker_state /\ run_pc' = "none"
    BY <1>a, <1>7
  <2>2. CASE pc[c] = "startJoining"
    <3>1. pc'[c] = "idle"
      BY <1>a, <1>7, <2>2
    <3> QED
      BY <2>1, <2>2, <3>1 DEF StopInv
  <2>3. CASE pc[c] = "stopJoining"
    <3>1. pc'[c] = "stopDisconnected" /\ c \in Stoppers
      BY <1>a, <1>7, <2>3 DEF StopInv
    <3>2. \A d \in Callers : ~UnderAStop(d)'
      BY <2>1, <3>1 DEF StopInv
    <3> QED
      BY <2>1, <3>1, <3>2 DEF StopInv
  <2> QED
    BY <1>7, <2>2, <2>3
(* ... and those of stop.  *)
<1>8. ASSUME NEW c \in Callers, StopStopping(c) PROVE StopInv'
  BY <1>a, <1>8 DEF StopStopping, Goto, StopInv
<1>9. ASSUME NEW c \in Callers, StopDisconnected(c) PROVE StopInv'
  <2>1. \A d \in Callers : ~UnderAStop(d)'
    BY <1>a, <1>9 DEF StopDisconnected, Goto, StopInv
  <2> QED
    BY <1>a, <1>9, <2>1 DEF StopDisconnected, Goto, StopInv
<1>10. ASSUME NEW c \in Callers, StopShutdown(c) PROVE StopInv'
  BY <1>a, <1>10 DEF StopShutdown, Goto, StopInv
<1>11. ASSUME NEW c \in Callers, StopNotify(c) PROVE StopInv'
  <2>1. /\ \A d \in Callers : Stays(d) \/ pc'[d] = "idle"
        /\ UNCHANGED <<run_pc, worker_state>>
    BY <1>a, <1>11 DEF StopNotify, AllWoken, Stays
  <2> QED
    BY <2>1 DEF StopInv, Stays
(* Everything else leaves the state and the thread alone, and enters a stop only    *)
(* through its check.                                                                *)
<1>12. ASSUME UNCHANGED <<worker_state, run_pc>>,
              \A d \in Callers :
                \/ pc'[d] = pc[d]
                \/ pc'[d] = "stopLock" /\ d \in Stoppers
                \/ pc'[d] \notin StopPlaces \cup {"startJoin", "startJoining"}
       PROVE  StopInv'
  BY <1>12 DEF StopInv
<1>13. ASSUME NEW c \in Callers, Enqueue(c) \/ EnqueuePriority(c) \/ SetAbort(c) \/ SpuriousWakeup(c)
       PROVE  StopInv'
  BY <1>a, <1>12, <1>13 DEF Enqueue, EnqueuePriority, SetAbort, SpuriousWakeup, Goto
<1>14. ASSUME NEW c \in Starters, StartCheckThread(c) PROVE StopInv'
  BY <1>a, <1>12, <1>14 DEF StartCheckThread, Goto
<1>15. ASSUME NEW c \in Stoppers, StopCheckThread(c) PROVE StopInv'
  BY <1>a, <1>12, <1>15 DEF StopCheckThread, Goto
<1>16. ASSUME NEW c \in Submitters, NEW type, NEW queue \in {"normal", "priority"}, Submit(c, type, queue)
       PROVE  StopInv'
  BY <1>a, <1>12, <1>16 DEF Submit, Goto
<1>17. ASSUME NEW c \in Collectors, TryGetResult(c) \/ WaitAndPopResult(c) PROVE StopInv'
  BY <1>a, <1>12, <1>17 DEF TryGetResult, WaitAndPopResult, Goto
<1>18. CASE UNCHANGED vars \/ RunWokenSpuriously
  BY <1>12, <1>18 DEF RunWokenSpuriously, vars
<1>19. ASSUME RunStep PROVE StopInv'
  BY <1>1, <1>2, <1>3, <1>19 DEF RunStep
<1>20. ASSUME NEW c \in Callers, InCall(c) PROVE StopInv'
  BY <1>4, <1>5, <1>6, <1>7, <1>8, <1>9, <1>10, <1>11, <1>13, <1>20 DEF InCall
<1> QED
  BY <1>13, <1>14, <1>15, <1>16, <1>17, <1>18, <1>19, <1>20 DEF Next

(* With one thread that stops, a stop prevails from the moment it says so until   *)
(* it has joined the thread: whatever the connection, the starter and the            *)
(* submitters do meanwhile, the worker does not become Ready, before the shutdown     *)
(* and after it.                                                                      *)
THEOREM StopPrevails ==
  ASSUME \A c, d \in Stoppers : c = d
  PROVE  Spec => []NotReadyUnderAStop
<1>1. Init => StopInv
  BY DEF Init, StopInv, StopPlaces, UnderAStop
<1>2. TypeInv /\ LifeInv /\ StopInv /\ [Next]_vars => StopInv'
  BY StopStep
<1>3. StopInv => NotReadyUnderAStop
  BY DEF StopInv, UnderAStop, NotReadyUnderAStop, Callers
<1> QED
  BY <1>1, <1>2, <1>3, InvCorrect, PTL DEF Spec

-----------------------------------------------------------------------------
(* Which steps touch the results, and which the accepted commands.            *)

LEMMA ResultsChange ==
  ASSUME [Next]_vars, result_queue' # result_queue
  PROVE  RunPushResult \/ PopResult
<1> USE DEF vars, dataVars, resultVars
<1>1. ASSUME NEW c \in Callers, InCall(c) \/ SpuriousWakeup(c) PROVE FALSE
  BY <1>1 DEF InCall, SpuriousWakeup, StartConnecting, StartSpawn, StartWait, EnterJoin, Join, StopStopping,
    StopShutdown, StopDisconnected, StopNotify, Enqueue, EnqueuePriority, SetAbort
<1>2. CASE RunStep \/ RunWokenSpuriously
  BY <1>2 DEF RunStep, RunWokenSpuriously, RunConnect, RunCheckStopping, RunRequestControl,
    RunReleaseControl, RunDisconnect, RunFail, RunFailNotify, RunReady, RunNotifyReady, RunDisconnected,
    RunNotifyStarters, RunDisconnectedNotify, RunPop, RunClearAbort, RunCall, RunPollAbort,
    RunPollStatus, RunMoveFails
<1> QED
  BY <1>1, <1>2 DEF Next, StartCheckThread, StopCheckThread, Submit, TryGetResult, WaitAndPopResult

(* A command of the submitter c enters a queue.                               *)
Accepts(c, queue) ==
  /\ pc[c] = queue /\ ~shutdown_requested
  /\ Accept(c, queue)
  /\ \/ /\ queue = "normal" /\ Enqueue(c) /\ Manager!Enqueue(request[c])
        /\ pc' = [pc EXCEPT ![c] = "idle"]
        /\ command_queue' = Append(command_queue, request[c]) /\ UNCHANGED priority_queue
     \/ /\ queue = "priority" /\ EnqueuePriority(c) /\ Manager!EnqueuePriority(request[c])
        /\ pc' = [pc EXCEPT ![c] = IF request[c].type = "Stop" THEN "setAbort" ELSE "idle"]
        /\ priority_queue' = Append(priority_queue, request[c]) /\ UNCHANGED command_queue
  /\ UNCHANGED <<lifeVars, resultVars, abort_requested, run_pc, result, request, next_command_id, popped>>

LEMMA EnqueueOutcome ==
  ASSUME NEW c \in Callers, Enqueue(c) \/ EnqueuePriority(c)
  PROVE  \/ \E queue \in Queues : Accepts(c, queue)
         \/ /\ UNCHANGED <<managerVars, accepted, lifeVars, resultVars, abort_requested, run_pc, result,
                           request, next_command_id>>
            /\ pc[c] \in Queues /\ pc' = [pc EXCEPT ![c] = "idle"]
<1> USE DEF Queues, Goto
<1>1. ASSUME Enqueue(c), Manager!Enqueue(request[c]), Accept(c, "normal") PROVE Accepts(c, "normal")
  BY <1>1 DEF Accepts, Enqueue, Manager!Enqueue, Manager!CanEnqueue
<1>2. ASSUME EnqueuePriority(c), Manager!EnqueuePriority(request[c]), Accept(c, "priority"),
             Goto(c, "priority", IF request[c].type = "Stop" THEN "setAbort" ELSE "idle")
      PROVE  Accepts(c, "priority")
  BY <1>2 DEF Accepts, EnqueuePriority, Manager!EnqueuePriority, Manager!CanEnqueuePriority
<1>3. CASE Enqueue(c)
  BY <1>1, <1>3 DEF Enqueue
<1>4. CASE EnqueuePriority(c)
  BY <1>2, <1>4 DEF EnqueuePriority
<1> QED
  BY <1>3, <1>4

LEMMA AcceptedChanges ==
  ASSUME [Next]_vars, accepted' # accepted
  PROVE  \E c \in Callers, queue \in Queues : Accepts(c, queue)
<1> USE DEF vars, dataVars, submitVars
<1>1. ASSUME NEW c \in Callers, InCall(c) \/ SpuriousWakeup(c) PROVE Enqueue(c) \/ EnqueuePriority(c)
  BY <1>1 DEF InCall, SpuriousWakeup, StartConnecting, StartSpawn, StartWait, EnterJoin, Join, StopStopping,
    StopShutdown, StopDisconnected, StopNotify, SetAbort
<1>2. ASSUME RunStep \/ RunWokenSpuriously PROVE FALSE
  BY <1>2 DEF RunStep, RunWokenSpuriously, RunConnect, RunCheckStopping, RunRequestControl,
    RunReleaseControl, RunDisconnect, RunFail, RunFailNotify, RunReady, RunNotifyReady, RunDisconnected,
    RunNotifyStarters, RunDisconnectedNotify, RunPop, RunClearAbort, RunCall, RunPollAbort,
    RunPollStatus, RunMoveFails, RunPushResult
<1>3. \E c \in Callers : Enqueue(c) \/ EnqueuePriority(c)
  BY <1>1, <1>2 DEF Next, StartCheckThread, StopCheckThread, Submit, TryGetResult, WaitAndPopResult
<1> QED
  BY <1>3, EnqueueOutcome

(* While the state says Disconnected or Error, no result is added: what          *)
(* waitAndPopResult reads from the state is true of the thread.                   *)
THEOREM NoResultComesLate == Spec => NoResultAfterTheEnd
<1>1. ASSUME TypeInv, LifeInv, [Next]_vars, ResultsOver
      PROVE  Len(result_queue') <= Len(result_queue)
  <2>a. result_queue \in Seq(Result)
    BY <1>1 DEF TypeInv, TypeOK
  <2>1. CASE result_queue' = result_queue
    BY <2>a, <2>1, LenProperties
  <2>2. CASE RunPushResult
    BY <1>1, <2>2 DEF RunPushResult, RunGoto, LifeInv, AfterShutdown, Executing, ResultsOver
  <2>3. CASE PopResult
    <3>1. Len(Tail(result_queue)) = Len(result_queue) - 1 /\ Len(result_queue) \in Nat
      BY <2>a, <2>3, HeadTailProperties, LenProperties DEF PopResult
    <3> QED
      BY <2>3, <3>1 DEF PopResult
  <2> QED
    BY <1>1, <2>1, <2>2, <2>3, ResultsChange
<1>2. TypeInv /\ LifeInv /\ [Next]_vars
        => [ResultsOver => Len(result_queue') <= Len(result_queue)]_vars
  BY <1>1
<1> QED
  BY <1>2, InvCorrect, PTL DEF Spec, NoResultAfterTheEnd

(* A command is accepted only by a worker whose thread will look at the queue    *)
(* again, although state and queue are checked under different mutexes.           *)
THEOREM AcceptsOnlyWhileServing == Spec => AcceptedWhileServing
<1>1. ASSUME TypeInv, LifeInv, [Next]_vars, accepted' # accepted
      PROVE  Executing \/ run_pc \in {"notifyReady", "pop"}
  <2>1. PICK c \in Callers, queue \in Queues : Accepts(c, queue)
    BY <1>1, AcceptedChanges
  <2>2. pc[c] \in {"normal", "priority"} /\ ~shutdown_requested
    BY <2>1 DEF Accepts, Queues
  <2> QED
    BY <1>1, <2>2 DEF LifeInv, BeforeShutdown, Serving
<1>2. TypeInv /\ LifeInv /\ [Next]_vars
        => [accepted' # accepted => (Executing \/ run_pc \in {"notifyReady", "pop"})]_vars
  BY <1>1
<1> QED
  BY <1>2, InvCorrect, PTL DEF Spec, AcceptedWhileServing

-----------------------------------------------------------------------------
(* A Move and the Stops that overtake it.                                       *)

(* What a Move that is running can know of the Stops stays as it is.           *)
StopsKept ==
  /\ UNCHANGED <<priority_queue, abort_requested>> /\ (Moving' => Moving)
  /\ \A c \in Callers : pc[c] = "setAbort" => pc'[c] = "setAbort" /\ request'[c] = request[c]

LEMMA StopsStep ==
  ASSUME TypeInv, [Next]_vars
  PROVE  \/ \E c \in Callers : SetAbort(c)
         \/ \E c \in Callers : Accepts(c, "priority")
         \/ RunPop \/ RunClearAbort
         \/ StopsKept
<1> USE DEF dataVars, lifeVars, submitVars, managerVars
<1>a. pc \in [Callers -> CallLocations]
  BY DEF TypeInv, TypeOK
<1>1. ASSUME NEW c \in Callers,
             \/ StartConnecting(c) \/ StartSpawn(c) \/ StartWait(c) \/ EnterJoin(c) \/ Join(c)
             \/ StopStopping(c) \/ StopShutdown(c) \/ StopDisconnected(c) \/ SpuriousWakeup(c)
             \/ StartCheckThread(c) \/ StopCheckThread(c)
      PROVE  StopsKept
  BY <1>a, <1>1 DEF StopsKept, Moving, Goto, StartConnecting, StartSpawn, StartWait, EnterJoin, Join,
    StopStopping, StopShutdown, StopDisconnected, SpuriousWakeup, StartCheckThread, StopCheckThread,
    Manager!Shutdown
<1>2. ASSUME NEW c \in Callers, StopNotify(c) PROVE StopsKept
  BY <1>a, <1>2 DEF StopsKept, Moving, StopNotify, AllWoken
<1>3. ASSUME NEW c \in Callers, Enqueue(c) \/ EnqueuePriority(c)
      PROVE  Accepts(c, "priority") \/ StopsKept
  <2>1. CASE Accepts(c, "normal")
    BY <1>a, <2>1 DEF Accepts, StopsKept, Moving
  <2>2. CASE /\ UNCHANGED <<managerVars, accepted, lifeVars, resultVars, abort_requested, run_pc, result,
                           request, next_command_id>>
            /\ pc[c] \in Queues /\ pc' = [pc EXCEPT ![c] = "idle"]
    BY <1>a, <2>2 DEF StopsKept, Moving, Queues
  <2> QED
    BY <1>3, <2>1, <2>2, EnqueueOutcome DEF Queues
<1>4. ASSUME NEW c \in Callers, NEW queue \in Queues, NEW type, Submit(c, type, queue) PROVE StopsKept
  BY <1>a, <1>4 DEF StopsKept, Moving, Submit, Goto
<1>5. ASSUME NEW c \in Callers, TryGetResult(c) \/ WaitAndPopResult(c) PROVE StopsKept
  BY <1>a, <1>5 DEF StopsKept, Moving, TryGetResult, WaitAndPopResult, Goto
<1>6. CASE RunFailNotify \/ RunNotifyReady \/ RunNotifyStarters \/ RunDisconnectedNotify \/ RunPushResult
  <2>1. \A c \in Callers : Stays(c)
    BY <1>a, <1>6, Notification DEF RunFailNotify, RunNotifyReady, RunNotifyStarters, RunDisconnectedNotify,
      RunPushResult
  <2> QED
    BY <1>6, <2>1 DEF StopsKept, Moving, Stays, RunGoto, RunFailNotify, RunNotifyReady, RunNotifyStarters,
      RunDisconnectedNotify, RunPushResult
<1>7. CASE RunConnect \/ RunCheckStopping \/ RunRequestControl \/ RunReleaseControl \/ RunDisconnect
           \/ RunFail \/ RunReady \/ RunDisconnected \/ RunCall \/ RunPollAbort \/ RunPollStatus \/ RunMoveFails
           \/ RunWokenSpuriously
  BY <1>7 DEF StopsKept, Moving, RunGoto, Finish, RunConnect, RunCheckStopping, RunRequestControl,
    RunReleaseControl, RunDisconnect, RunFail, RunReady, RunDisconnected, RunCall, RunPollAbort,
    RunPollStatus, RunMoveFails, RunWokenSpuriously, Manager!SpuriousWakeup
<1>8. CASE UNCHANGED vars
  BY <1>8 DEF StopsKept, Moving, vars
<1>9. CASE RunStep
  BY <1>6, <1>7, <1>9 DEF RunStep
<1>10. ASSUME NEW c \in Callers, InCall(c)
       PROVE  SetAbort(c) \/ Accepts(c, "priority") \/ StopsKept
  BY <1>1, <1>2, <1>3, <1>10 DEF InCall
<1>11. Starters \cup Stoppers \cup Submitters \cup Collectors \subseteq Callers
  BY DEF Callers
<1> QED
  BY <1>1, <1>4, <1>5, <1>7, <1>8, <1>9, <1>10, <1>11 DEF Next, Queues

(* A running Move finds the flag set for every Stop that waits and whose       *)
(* submitter has returned, provided that no Move is submitted by priority: one   *)
(* between two Stops would start after the first has cleared the flag of both.    *)
THEOREM StopsAreSeen ==
  ASSUME "Move" \notin PriorityTypes
  PROVE  Spec => []StopReachesMove
<1>1. Init => StopReachesMove
  BY DEF Init, StopReachesMove, Moving
<1>2. ASSUME TypeInv, StopReachesMove, [Next]_vars PROVE StopReachesMove'
  <2>a. /\ CallersInPlace /\ ThreadInPlace /\ Manager!TypeOK /\ pc \in [Callers -> CallLocations]
        /\ priority_queue \in Seq(Command)
    BY <1>2 DEF TypeInv, TypeOK, Manager!TypeOK
  <2>1. ASSUME NEW c \in Callers, SetAbort(c) PROVE StopReachesMove'
    BY <2>1 DEF SetAbort, StopReachesMove
  <2>2. ASSUME NEW c \in Callers, Accepts(c, "priority") PROVE StopReachesMove'
    <3>1. /\ c \in Submitters /\ request[c] \in Command /\ pc[c] = "priority"
          /\ pc' = [pc EXCEPT ![c] = IF request[c].type = "Stop" THEN "setAbort" ELSE "idle"]
          /\ priority_queue' = Append(priority_queue, request[c])
          /\ UNCHANGED <<abort_requested, run_pc, request>>
      BY <2>a, <2>2 DEF Accepts, CallersInPlace
    <3> SUFFICES ASSUME NEW i \in 1..Len(priority_queue'), Moving', priority_queue'[i].type = "Stop",
                        ~ \E d \in Submitters : pc'[d] = "setAbort" /\ request'[d] = priority_queue'[i]
                 PROVE  abort_requested
      BY <2>a, <3>1, AppendProperties DEF StopReachesMove
    <3>2. CASE i = Len(priority_queue) + 1
      <4>1. priority_queue'[i] = request[c]
        BY <2>a, <3>1, <3>2, AppendProperties
      <4> QED
        BY <2>a, <3>1, <4>1
    <3>3. CASE i \in 1..Len(priority_queue)
      <4>1. priority_queue'[i] = priority_queue[i] /\ i \in DOMAIN priority_queue /\ Moving
        BY <2>a, <3>1, <3>3, AppendProperties DEF Moving
      <4>2. ~ \E d \in Submitters : pc[d] = "setAbort" /\ request[d] = priority_queue[i]
        BY <2>a, <3>1, <4>1 DEF Callers
      <4> QED
        BY <1>2, <4>1, <4>2 DEF StopReachesMove
    <3> QED
      BY <2>a, <3>1, <3>2, <3>3, AppendProperties
  <2>3. CASE RunPop
    <3>1. Sleeps \/ Leaves \/ TakesUrgent \/ TakesNormal
      BY <2>a, <2>3, PopOutcome
    <3>2. CASE TakesUrgent
      <4>1. Head(priority_queue).type \in PriorityTypes
        BY <2>a, <3>2, LenProperties DEF TakesUrgent, ThreadInPlace
      <4> QED
        BY <3>2, <4>1 DEF TakesUrgent, Takes, StopReachesMove, Moving
    <3>3. CASE Sleeps \/ Leaves
      BY <3>3 DEF Sleeps, Leaves, StopReachesMove, Moving
    <3>4. CASE TakesNormal
      BY <3>4 DEF TakesNormal, StopReachesMove
    <3> QED
      BY <3>1, <3>2, <3>3, <3>4
  <2>4. CASE RunClearAbort
    BY <2>4 DEF RunClearAbort, RunGoto, StopReachesMove, Moving
  <2>5. CASE StopsKept
    BY <1>2, <2>5 DEF StopsKept, StopReachesMove, Callers
  <2> QED
    BY <1>2, <2>1, <2>2, <2>3, <2>4, <2>5, StopsStep
<1> QED
  BY <1>1, <1>2, InvCorrect, PTL DEF Spec

-----------------------------------------------------------------------------
(* The accepted commands.                                                       *)

Pending == [queue \in Queues |-> IF queue = "normal" THEN command_queue ELSE priority_queue]
Left == [queue \in Queues |-> Len(accepted[queue]) - Len(Pending[queue])]
IsAnswer(k, queue, i) == Taken[k] = accepted[queue][i].id

(* A queue holds the last of the commands it accepted.                           *)
QueuesKept ==
  \A queue \in Queues :
    /\ Len(Pending[queue]) <= Len(accepted[queue])
    /\ \A i \in 1..Len(Pending[queue]) : Pending[queue][i] = accepted[queue][Left[queue] + i]

AllAnswered ==
  \A queue \in Queues : \A i \in 1..Left[queue] : \E k \in 1..Len(Taken) : IsAnswer(k, queue, i)

AnsweredInOrder ==
  \A queue \in Queues : \A i, j \in 1..Left[queue] : \A k, l \in 1..Len(Taken) :
    IsAnswer(k, queue, i) /\ IsAnswer(l, queue, j) => (i < j <=> k < l)

OnlyAcceptedAnswered ==
  \A k \in 1..Len(Taken) : \E queue \in Queues : \E i \in 1..Left[queue] : IsAnswer(k, queue, i)

AccountInv == QueuesKept /\ AllAnswered /\ AnsweredInOrder /\ OnlyAcceptedAnswered

LEMMA AccountTypes ==
  ASSUME TypeInv
  PROVE  /\ accepted \in [Queues -> Seq(Command)] /\ Pending \in [Queues -> Seq(Command)]
         /\ Taken \in Seq(Result)
<1>1. accepted \in [Queues -> Seq(Command)] /\ Pending \in [Queues -> Seq(Command)]
  BY DEF TypeInv, TypeOK, Manager!TypeOK, Pending
<1>2. collected \in Seq(Result) /\ result_queue \in Seq(Result)
  BY DEF TypeInv, TypeOK
<1>3. Executing => popped["worker"].id \in Result
  BY DEF TypeInv, ThreadInPlace, Command, Result
<1>4. (IF Executing THEN <<popped["worker"].id>> ELSE <<>>) \in Seq(Result)
  BY <1>3
<1> QED
  BY <1>1, <1>2, <1>4, ConcatProperties DEF Taken

(* What a step does to the queues, the accepted commands and the taken ones.     *)
QueueGets(queue, command) ==
  /\ command \in Command
  /\ accepted' = [accepted EXCEPT ![queue] = Append(@, command)]
  /\ Pending' = [Pending EXCEPT ![queue] = Append(@, command)]
  /\ Taken' = Taken

QueueGives(queue) ==
  /\ Pending[queue] # <<>>
  /\ Pending' = [Pending EXCEPT ![queue] = Tail(@)]
  /\ accepted' = accepted
  /\ Taken' = Append(Taken, Head(Pending[queue]).id)

QueuesStay == UNCHANGED <<accepted, Pending, Taken>>

(* The positions of what is left in a queue, and of the first of it.              *)
LEMMA Within ==
  ASSUME NEW a \in Nat, NEW p \in Nat, p <= a, NEW left, left = a - p, NEW i \in 1..p
  PROVE  left + i \in 1..a
OBVIOUS

LEMMA FirstWithin ==
  ASSUME NEW a \in Nat, NEW p \in Nat, p <= a, p >= 1, NEW left, left = a - p, NEW next, next = a - (p - 1)
  PROVE  left \in Nat /\ next = left + 1 /\ left + 1 \in 1..a
OBVIOUS

LEMMA GetsAccounted ==
  ASSUME TypeInv, AccountInv, NEW queue \in Queues, NEW command, QueueGets(queue, command)
  PROVE  AccountInv'
<1>a. /\ accepted \in [Queues -> Seq(Command)] /\ Pending \in [Queues -> Seq(Command)]
      /\ Taken \in Seq(Result)
  BY AccountTypes
<1>b. \A r \in Queues : /\ Left[r] = Len(accepted[r]) - Len(Pending[r])
                        /\ Left'[r] = Len(accepted'[r]) - Len(Pending'[r])
  BY DEF Left
<1>c. \A r \in Queues :
        /\ Len(accepted[r]) \in Nat /\ Len(Pending[r]) \in Nat /\ Len(Pending[r]) <= Len(accepted[r])
        /\ \A i \in 1..Len(Pending[r]) : Pending[r][i] = accepted[r][Left[r] + i]
  BY <1>a, LenProperties DEF AccountInv, QueuesKept
<1>d. \A r \in Queues \ {queue} : accepted'[r] = accepted[r] /\ Pending'[r] = Pending[r]
  BY <1>a DEF QueueGets
<1>e. /\ Len(accepted'[queue]) = Len(accepted[queue]) + 1 /\ Len(Pending'[queue]) = Len(Pending[queue]) + 1
      /\ \A i \in 1..Len(accepted[queue]) : accepted'[queue][i] = accepted[queue][i]
      /\ \A i \in 1..Len(Pending[queue]) : Pending'[queue][i] = Pending[queue][i]
      /\ accepted'[queue][Len(accepted[queue]) + 1] = command
      /\ Pending'[queue][Len(Pending[queue]) + 1] = command
  <2>1. accepted'[queue] = Append(accepted[queue], command) /\ Pending'[queue] = Append(Pending[queue], command)
    BY <1>a DEF QueueGets
  <2>2. accepted[queue] \in Seq(Command) /\ Pending[queue] \in Seq(Command) /\ command \in Command
    BY <1>a DEF QueueGets
  <2> QED
    BY <2>1, <2>2, AppendProperties
<1>1. \A r \in Queues : Left'[r] = Left[r] /\ Left[r] \in Nat
  <2> SUFFICES ASSUME NEW r \in Queues PROVE Left'[r] = Left[r] /\ Left[r] \in Nat
    OBVIOUS
  <2>1. Len(accepted[r]) \in Nat /\ Len(Pending[r]) \in Nat /\ Len(Pending[r]) <= Len(accepted[r])
    BY <1>c
  <2>2. /\ Left[r] = Len(accepted[r]) - Len(Pending[r])
        /\ Left'[r] = Len(accepted'[r]) - Len(Pending'[r])
    BY <1>b
  <2>3. CASE r = queue
    <3>1. Len(accepted'[r]) = Len(accepted[r]) + 1 /\ Len(Pending'[r]) = Len(Pending[r]) + 1
      BY <1>e, <2>3
    <3> QED
      BY <2>1, <2>2, <3>1
  <2>4. CASE r # queue
    <3>1. Len(accepted'[r]) = Len(accepted[r]) /\ Len(Pending'[r]) = Len(Pending[r])
      BY <1>d, <2>4
    <3> QED
      BY <2>1, <2>2, <3>1
  <2> QED
    BY <2>3, <2>4
<1>3. \A r \in Queues : \A i \in 1..Left[r] : accepted'[r][i] = accepted[r][i]
  <2> SUFFICES ASSUME NEW r \in Queues, NEW i \in 1..Left[r] PROVE accepted'[r][i] = accepted[r][i]
    OBVIOUS
  <2>1. /\ Len(accepted[r]) \in Nat /\ Len(Pending[r]) \in Nat
        /\ Left[r] = Len(accepted[r]) - Len(Pending[r])
    BY <1>b, <1>c
  <2>2. i \in 1..Len(accepted[r])
    BY <2>1
  <2> QED
    BY <1>d, <1>e, <2>2
<1>4. QueuesKept'
  <2>1. \A r \in Queues : Len(Pending'[r]) <= Len(accepted'[r])
    BY <1>c, <1>d, <1>e
  <2>2. ASSUME NEW r \in Queues, NEW i \in 1..Len(Pending'[r]), r # queue
        PROVE  Pending'[r][i] = accepted'[r][Left'[r] + i]
    BY <1>1, <1>c, <1>d, <2>2
  <2>3. ASSUME NEW i \in 1..Len(Pending[queue])
        PROVE  Pending'[queue][i] = accepted'[queue][Left'[queue] + i]
    <3>a. /\ Len(accepted[queue]) \in Nat /\ Len(Pending[queue]) \in Nat
          /\ Len(Pending[queue]) <= Len(accepted[queue])
          /\ Left[queue] = Len(accepted[queue]) - Len(Pending[queue])
      BY <1>b, <1>c
    <3>1. Left[queue] + i \in 1..Len(accepted[queue])
      BY <3>a, Within
    <3>2. accepted'[queue][Left[queue] + i] = accepted[queue][Left[queue] + i]
      BY <1>e, <3>1
    <3>3. Pending'[queue][i] = accepted[queue][Left[queue] + i]
      BY <1>c, <1>e
    <3>4. Left'[queue] = Left[queue]
      BY <1>1
    <3> QED
      BY <3>2, <3>3, <3>4
  <2>4. Pending'[queue][Len(Pending[queue]) + 1] = accepted'[queue][Left'[queue] + Len(Pending[queue]) + 1]
    <3>1. Left'[queue] + Len(Pending[queue]) + 1 = Len(accepted[queue]) + 1
      <4>1. /\ Len(accepted[queue]) \in Nat /\ Len(Pending[queue]) \in Nat
            /\ Left'[queue] = Len(accepted[queue]) - Len(Pending[queue])
        BY <1>1, <1>b, <1>c
      <4> QED
        BY <4>1
    <3> QED
      BY <1>e, <3>1
  <2>5. \A i \in 1..Len(Pending'[queue]) : Pending'[queue][i] = accepted'[queue][Left'[queue] + i]
    <3> SUFFICES ASSUME NEW i \in 1..Len(Pending'[queue])
                 PROVE  Pending'[queue][i] = accepted'[queue][Left'[queue] + i]
      OBVIOUS
    <3>1. CASE i = Len(Pending[queue]) + 1
      <4>1. Left'[queue] + i = Left'[queue] + Len(Pending[queue]) + 1
        <5>1. Left'[queue] \in Nat /\ Len(Pending[queue]) \in Nat
          BY <1>1, <1>c
        <5> QED
          BY <3>1, <5>1
      <4> QED
        BY <2>4, <3>1, <4>1
    <3>2. CASE i # Len(Pending[queue]) + 1
      <4>1. i \in 1..Len(Pending[queue])
        BY <1>c, <1>e, <3>2
      <4> QED
        BY <2>3, <4>1
    <3> QED
      BY <3>1, <3>2
  <2> QED
    BY <2>1, <2>2, <2>5 DEF QueuesKept
<1>6. Taken' = Taken
  BY DEF QueueGets
<1>5. \A k \in 1..Len(Taken), r \in Queues : \A i \in 1..Left[r] :
        (Taken'[k] = accepted'[r][i].id) <=> (Taken[k] = accepted[r][i].id)
  BY <1>3, <1>6
<1>7. AllAnswered'
  BY <1>1, <1>5, <1>6 DEF AllAnswered, AccountInv, IsAnswer
<1>8. AnsweredInOrder'
  BY <1>1, <1>5, <1>6 DEF AnsweredInOrder, AccountInv, IsAnswer
<1>9. OnlyAcceptedAnswered'
  BY <1>1, <1>5, <1>6 DEF OnlyAcceptedAnswered, AccountInv, IsAnswer
<1> QED
  BY <1>4, <1>7, <1>8, <1>9 DEF AccountInv

LEMMA GivesAccounted ==
  ASSUME TypeInv, AccountInv, NumbersAreUnique, NEW queue \in Queues, QueueGives(queue)
  PROVE  AccountInv'
<1> DEFINE id == Head(Pending[queue]).id
           n == Left[queue] + 1
           last == Len(Taken) + 1
<1>a. /\ accepted \in [Queues -> Seq(Command)] /\ Pending \in [Queues -> Seq(Command)]
      /\ Taken \in Seq(Result)
  BY AccountTypes
<1>b. \A r \in Queues : /\ Left[r] = Len(accepted[r]) - Len(Pending[r])
                        /\ Left'[r] = Len(accepted'[r]) - Len(Pending'[r])
  BY DEF Left
<1>c. \A r \in Queues :
        /\ Len(accepted[r]) \in Nat /\ Len(Pending[r]) \in Nat /\ Len(Pending[r]) <= Len(accepted[r])
        /\ \A i \in 1..Len(Pending[r]) : Pending[r][i] = accepted[r][Left[r] + i]
  BY <1>a, LenProperties DEF AccountInv, QueuesKept
<1>d. /\ accepted' = accepted
      /\ \A r \in Queues \ {queue} : Pending'[r] = Pending[r] /\ Left'[r] = Left[r]
  BY <1>a, <1>b DEF QueueGives
<1>e. /\ Len(Pending[queue]) >= 1 /\ Len(Pending'[queue]) = Len(Pending[queue]) - 1
      /\ \A i \in 1..Len(Pending'[queue]) : Pending'[queue][i] = Pending[queue][i + 1]
      /\ Head(Pending[queue]) = Pending[queue][1] /\ id \in Result
  <2>1. Pending'[queue] = Tail(Pending[queue]) /\ Pending[queue] # <<>> /\ Pending[queue] \in Seq(Command)
    BY <1>a DEF QueueGives
  <2>2. Head(Pending[queue]) \in Command
    BY <2>1, HeadTailProperties
  <2> QED
    BY <2>1, <2>2, HeadTailProperties, LenProperties DEF Command, Result
<1>f. /\ Left[queue] \in Nat /\ Left'[queue] = n /\ n \in 1..Len(accepted[queue])
      /\ accepted[queue][n].id = id
  <2>1. /\ Len(accepted[queue]) \in Nat /\ Len(Pending[queue]) \in Nat
        /\ Len(Pending[queue]) <= Len(accepted[queue]) /\ Len(Pending[queue]) >= 1
        /\ Left[queue] = Len(accepted[queue]) - Len(Pending[queue])
        /\ Left'[queue] = Len(accepted[queue]) - (Len(Pending[queue]) - 1)
    <3>1. Len(accepted'[queue]) = Len(accepted[queue]) /\ Len(Pending'[queue]) = Len(Pending[queue]) - 1
      BY <1>d, <1>e
    <3> QED
      BY <1>b, <1>c, <1>e, <3>1
  <2>2. 1 \in 1..Len(Pending[queue])
    BY <2>1
  <2>3. Pending[queue][1] = accepted[queue][Left[queue] + 1]
    BY <1>c, <2>2
  <2>4. Left[queue] \in Nat /\ Left'[queue] = Left[queue] + 1 /\ Left[queue] + 1 \in 1..Len(accepted[queue])
    BY <2>1, FirstWithin
  <2> QED
    BY <1>e, <2>3, <2>4
<1>g. /\ Len(Taken) \in Nat /\ Len(Taken') = last /\ Taken'[last] = id
      /\ \A k \in 1..Len(Taken) : Taken'[k] = Taken[k]
  <2>1. Taken' = Append(Taken, id)
    BY DEF QueueGives
  <2> QED
    BY <1>a, <1>e, <2>1, AppendProperties, LenProperties
<1> HIDE DEF id, n, last
(* The taken command is none of those that were taken before it.  *)
<1>h. \A r \in Queues : \A i \in 1..Left'[r] : accepted[r][i].id = id <=> r = queue /\ i = n
  <2> SUFFICES ASSUME NEW r \in Queues, NEW i \in 1..Left'[r]
               PROVE  accepted[r][i].id = id <=> r = queue /\ i = n
    OBVIOUS
  <2>1. i \in 1..Len(accepted[r])
    <3>1. CASE r = queue
      BY <1>f, <1>c, <3>1
    <3>2. CASE r # queue
      <4>1. /\ Len(accepted[r]) \in Nat /\ Len(Pending[r]) \in Nat
            /\ Left'[r] = Len(accepted[r]) - Len(Pending[r])
        BY <1>b, <1>c, <1>d, <3>2
      <4> QED
        BY <4>1
    <3> QED
      BY <3>1, <3>2
  <2> QED
    BY <1>f, <2>1 DEF NumbersAreUnique
<1>i. \A r \in Queues : \A i \in 1..Left'[r] : (r = queue /\ i = n) \/ i \in 1..Left[r]
  <2> SUFFICES ASSUME NEW r \in Queues, NEW i \in 1..Left'[r], ~(r = queue /\ i = n)
               PROVE  i \in 1..Left[r]
    OBVIOUS
  <2>1. CASE r = queue
    BY <1>f, <2>1 DEF n
  <2>2. CASE r # queue
    BY <1>d, <2>2
  <2> QED
    BY <2>1, <2>2
<1>j. \A r \in Queues : \A i \in 1..Left[r] : i \in 1..Left'[r] /\ ~(r = queue /\ i = n)
  <2> SUFFICES ASSUME NEW r \in Queues, NEW i \in 1..Left[r]
               PROVE  i \in 1..Left'[r] /\ ~(r = queue /\ i = n)
    OBVIOUS
  <2>1. CASE r = queue
    BY <1>f, <2>1 DEF n
  <2>2. CASE r # queue
    BY <1>d, <2>2
  <2> QED
    BY <2>1, <2>2
<1>k. \A k \in 1..Len(Taken') : k = last \/ k \in 1..Len(Taken)
  BY <1>g DEF last
<1>l. last \in 1..Len(Taken') /\ \A k \in 1..Len(Taken) : k \in 1..Len(Taken') /\ k # last /\ k < last
  BY <1>g DEF last
(* A number taken before was accepted before, so it is not the new one.  *)
<1>m. \A k \in 1..Len(Taken) : Taken'[k] # id
  <2> SUFFICES ASSUME NEW k \in 1..Len(Taken) PROVE Taken[k] # id
    BY <1>g
  <2>1. PICK r \in Queues : \E i \in 1..Left[r] : Taken[k] = accepted[r][i].id
    BY DEF AccountInv, OnlyAcceptedAnswered, IsAnswer
  <2> QED
    BY <1>h, <1>j, <2>1
<1>1. QueuesKept'
  <2>1. ASSUME NEW r \in Queues, r # queue
        PROVE  /\ Len(Pending'[r]) <= Len(accepted'[r])
               /\ \A i \in 1..Len(Pending'[r]) : Pending'[r][i] = accepted'[r][Left'[r] + i]
    BY <1>c, <1>d, <2>1
  <2>2. Len(Pending'[queue]) <= Len(accepted'[queue])
    <3>1. Len(Pending[queue]) \in Nat /\ Len(accepted[queue]) \in Nat /\ Len(Pending[queue]) <= Len(accepted[queue])
      BY <1>c
    <3> QED
      BY <1>d, <1>e, <3>1
  <2>3. ASSUME NEW i \in 1..Len(Pending'[queue])
        PROVE  Pending'[queue][i] = accepted'[queue][Left'[queue] + i]
    <3>1. Len(Pending[queue]) \in Nat /\ i + 1 \in 1..Len(Pending[queue])
      BY <1>c, <1>e, <2>3
    <3>2. Pending'[queue][i] = accepted[queue][Left[queue] + (i + 1)]
      BY <1>c, <1>e, <3>1
    <3>3. Left'[queue] + i = Left[queue] + (i + 1)
      BY <1>f DEF n
    <3> QED
      BY <1>d, <3>2, <3>3
  <2> QED
    BY <2>1, <2>2, <2>3 DEF QueuesKept
<1>2. AllAnswered'
  <2> SUFFICES ASSUME NEW r \in Queues, NEW i \in 1..Left'[r]
               PROVE  \E k \in 1..Len(Taken') : Taken'[k] = accepted'[r][i].id
    BY DEF AllAnswered, IsAnswer
  <2>1. CASE r = queue /\ i = n
    BY <1>d, <1>f, <1>g, <1>l, <2>1
  <2>2. CASE i \in 1..Left[r]
    <3>1. PICK k \in 1..Len(Taken) : Taken[k] = accepted[r][i].id
      BY <2>2 DEF AccountInv, AllAnswered, IsAnswer
    <3> QED
      BY <1>d, <1>g, <1>l, <3>1
  <2> QED
    BY <1>i, <2>1, <2>2
<1>3. AnsweredInOrder'
  <2> SUFFICES ASSUME NEW r \in Queues, NEW i \in 1..Left'[r], NEW j \in 1..Left'[r],
                      NEW k \in 1..Len(Taken'), NEW l \in 1..Len(Taken'),
                      Taken'[k] = accepted[r][i].id, Taken'[l] = accepted[r][j].id
               PROVE  i < j <=> k < l
    BY <1>d DEF AnsweredInOrder, IsAnswer
  <2>1. (r = queue /\ i = n <=> k = last) /\ (r = queue /\ j = n <=> l = last)
    BY <1>g, <1>h, <1>k, <1>m
  <2>2. CASE k = last /\ l = last
    BY <2>1, <2>2
  <2>3. CASE k = last /\ l # last
    <3>1. i = n /\ r = queue /\ j < n
      BY <1>f, <1>i, <2>1, <2>3 DEF n
    <3> QED
      BY <1>k, <1>l, <2>3, <3>1, <1>f
  <2>4. CASE k # last /\ l = last
    <3>1. j = n /\ r = queue /\ i < n
      BY <1>f, <1>i, <2>1, <2>4 DEF n
    <3> QED
      BY <1>k, <1>l, <2>4, <3>1
  <2>5. CASE k # last /\ l # last
    <3>1. i \in 1..Left[r] /\ j \in 1..Left[r] /\ k \in 1..Len(Taken) /\ l \in 1..Len(Taken)
      BY <1>i, <1>k, <2>1, <2>5
    <3>2. Taken[k] = accepted[r][i].id /\ Taken[l] = accepted[r][j].id
      BY <1>g, <3>1
    <3> QED
      BY <3>1, <3>2 DEF AccountInv, AnsweredInOrder, IsAnswer
  <2> QED
    BY <2>2, <2>3, <2>4, <2>5
<1>4. OnlyAcceptedAnswered'
  <2> SUFFICES ASSUME NEW k \in 1..Len(Taken')
               PROVE  \E r \in Queues : \E i \in 1..Left'[r] : Taken'[k] = accepted'[r][i].id
    BY DEF OnlyAcceptedAnswered, IsAnswer
  <2>1. CASE k = last
    <3>1. n \in 1..Left'[queue]
      BY <1>f DEF n
    <3> QED
      BY <1>d, <1>f, <1>g, <2>1, <3>1
  <2>2. CASE k \in 1..Len(Taken)
    <3>1. PICK r \in Queues : \E i \in 1..Left[r] : Taken[k] = accepted[r][i].id
      BY <2>2 DEF AccountInv, OnlyAcceptedAnswered, IsAnswer
    <3> QED
      BY <1>d, <1>g, <1>j, <2>2, <3>1
  <2> QED
    BY <1>k, <2>1, <2>2
<1> QED
  BY <1>1, <1>2, <1>3, <1>4 DEF AccountInv

(* No number is handed out or changes hands.                                     *)
NumbersKept ==
  /\ UNCHANGED <<accepted, next_command_id, request>>
  /\ \A c \in Callers : pc'[c] \in {"normal", "priority"} => pc'[c] = pc[c]

LEMMA StayLemma ==
  ASSUME UNCHANGED <<command_queue, priority_queue, accepted, collected, result_queue, popped>>,
         Executing' <=> Executing
  PROVE  QueuesStay
<1>1. Pending' = Pending
  BY DEF Pending
<1>2. Taken' = Taken
  <2>1. CASE Executing
    BY <2>1 DEF Taken
  <2>2. CASE ~Executing
    BY <2>2 DEF Taken
  <2> QED
    BY <2>1, <2>2
<1> QED
  BY <1>1, <1>2 DEF QueuesStay

LEMMA MoveToEnd ==
  ASSUME NEW S, NEW s \in Seq(S), NEW t \in Seq(S), t # <<>>
  PROVE  Append(s, Head(t)) \o Tail(t) = s \o t
OBVIOUS

LEMMA AddToEnd ==
  ASSUME NEW S, NEW s \in Seq(S), NEW t \in Seq(S), NEW e \in S
  PROVE  s \o Append(t, e) \o <<>> = s \o t \o <<e>>
OBVIOUS

LEMMA AccountStep ==
  ASSUME TypeInv, LifeInv, [Next]_vars
  PROVE  \/ \E c \in Callers, queue \in Queues : Accepts(c, queue) /\ QueueGets(queue, request[c])
         \/ (\E queue \in Queues : QueueGives(queue)) /\ NumbersKept
         \/ QueuesStay /\ NumbersKept
         \/ QueuesStay /\ \E c \in Submitters, queue \in Queues, type \in CommandTypes : Submit(c, type, queue)
<1> USE DEF dataVars, lifeVars, submitVars, managerVars, resultVars
<1>a. /\ pc \in [Callers -> CallLocations] /\ CallersInPlace /\ ThreadInPlace /\ Manager!TypeOK
      /\ accepted \in [Queues -> Seq(Command)] /\ Pending \in [Queues -> Seq(Command)]
      /\ collected \in Seq(Result) /\ result_queue \in Seq(Result)
  BY AccountTypes DEF TypeInv, TypeOK
<1>1. ASSUME NEW c \in Callers,
             \/ StartConnecting(c) \/ StartSpawn(c) \/ StartWait(c) \/ EnterJoin(c) \/ Join(c)
             \/ StopStopping(c) \/ StopShutdown(c) \/ StopDisconnected(c) \/ SpuriousWakeup(c)
             \/ StartCheckThread(c) \/ StopCheckThread(c) \/ SetAbort(c) \/ StopNotify(c)
      PROVE  QueuesStay /\ NumbersKept
  <2>1. NumbersKept
    <3>1. CASE StopNotify(c)
      BY <1>a, <3>1 DEF NumbersKept, StopNotify, AllWoken
    <3>2. CASE ~StopNotify(c)
      BY <1>a, <1>1, <3>2 DEF NumbersKept, Goto, StartConnecting, StartSpawn, StartWait, EnterJoin, Join,
        StopStopping, StopShutdown, StopDisconnected, SpuriousWakeup, StartCheckThread, StopCheckThread, SetAbort
    <3> QED
      BY <3>1, <3>2
  <2>2. UNCHANGED <<command_queue, priority_queue, accepted, collected, result_queue, popped>>
    BY <1>1 DEF StartConnecting, StartSpawn, StartWait, EnterJoin, Join, StopStopping, StopShutdown,
      StopDisconnected, SpuriousWakeup, StartCheckThread, StopCheckThread, SetAbort, StopNotify,
      Manager!Shutdown
  <2>3. run_pc' = run_pc \/ (run_pc \in {"none", "ended"} /\ run_pc' \in {"none", "connect"})
    BY <1>1 DEF LifeInv, ThreadLife, Goto, StartConnecting, StartSpawn, StartWait, EnterJoin, Join,
      StopStopping, StopShutdown, StopDisconnected, SpuriousWakeup, StartCheckThread, StopCheckThread,
      SetAbort, StopNotify
  <2>4. Executing' <=> Executing
    BY <2>3 DEF Executing
  <2> QED
    BY <2>1, <2>2, <2>4, StayLemma
<1>2. ASSUME NEW c \in Callers, Enqueue(c) \/ EnqueuePriority(c)
      PROVE  \/ \E queue \in Queues : Accepts(c, queue) /\ QueueGets(queue, request[c])
             \/ QueuesStay /\ NumbersKept
  <2>1. ASSUME NEW queue \in Queues, Accepts(c, queue) PROVE QueueGets(queue, request[c])
    <3>1. request[c] \in Command
      BY <1>a, <2>1 DEF Accepts, CallersInPlace, Queues
    <3>2. Executing' = Executing
      BY <2>1 DEF Accepts, Executing
    <3>3. Taken' = Taken
      BY <2>1, <3>2 DEF Accepts, Taken
    <3>4. Pending' = [Pending EXCEPT ![queue] = Append(@, request[c])]
      BY <2>1 DEF Accepts, Pending, Queues
    <3> QED
      BY <2>1, <3>1, <3>3, <3>4 DEF Accepts, Accept, QueueGets
  <2>2. CASE /\ UNCHANGED <<managerVars, accepted, lifeVars, resultVars, abort_requested, run_pc, result,
                           request, next_command_id>>
            /\ pc[c] \in Queues /\ pc' = [pc EXCEPT ![c] = "idle"]
    <3>1. Executing' <=> Executing
      BY <2>2 DEF Executing
    <3>2. NumbersKept
      BY <1>a, <2>2 DEF NumbersKept
    <3> QED
      BY <2>2, <3>1, <3>2, StayLemma
  <2> QED
    BY <1>2, <2>1, <2>2, EnqueueOutcome
<1>3. ASSUME NEW c \in Submitters, NEW queue \in Queues, NEW type \in CommandTypes, Submit(c, type, queue)
      PROVE  QueuesStay
  <2>1. Executing' <=> Executing
    BY <1>3 DEF Submit, Executing
  <2> QED
    BY <1>3, <2>1, StayLemma DEF Submit
<1>4. ASSUME NEW c \in Callers, TryGetResult(c) \/ WaitAndPopResult(c) PROVE QueuesStay /\ NumbersKept
  <2>1. NumbersKept
    BY <1>a, <1>4 DEF NumbersKept, TryGetResult, WaitAndPopResult, Goto
  <2>2. UNCHANGED <<command_queue, priority_queue, accepted, popped, run_pc>>
    BY <1>4 DEF TryGetResult, WaitAndPopResult
  <2>3. Executing' <=> Executing
    BY <2>2 DEF Executing
  <2>4. CASE PopResult
    <3>1. collected' \o result_queue' = collected \o result_queue
      <4>1. /\ collected' = Append(collected, Head(result_queue)) /\ result_queue' = Tail(result_queue)
            /\ result_queue # <<>>
        BY <2>4 DEF PopResult
      <4> QED
        BY <1>a, <4>1, MoveToEnd
    <3>2. Taken' = Taken
      <4>1. CASE Executing
        BY <2>2, <2>3, <3>1, <4>1 DEF Taken
      <4>2. CASE ~Executing
        BY <2>2, <2>3, <3>1, <4>2 DEF Taken
      <4> QED
        BY <4>1, <4>2
    <3>3. Pending' = Pending
      BY <2>2 DEF Pending
    <3> QED
      BY <2>1, <2>2, <3>2, <3>3 DEF QueuesStay
  <2>5. CASE UNCHANGED <<result_queue, collected>>
    BY <2>1, <2>2, <2>3, <2>5, StayLemma
  <2> QED
    BY <1>4, <2>4, <2>5 DEF TryGetResult, WaitAndPopResult
<1>5. CASE RunFailNotify \/ RunNotifyReady \/ RunNotifyStarters \/ RunDisconnectedNotify
  <2>1. \A c \in Callers : Stays(c)
    BY <1>a, <1>5, Notification DEF RunFailNotify, RunNotifyReady, RunNotifyStarters, RunDisconnectedNotify
  <2>2. NumbersKept
    BY <1>5, <2>1 DEF NumbersKept, Stays, RunFailNotify, RunNotifyReady, RunNotifyStarters,
      RunDisconnectedNotify
  <2>3. Executing' <=> Executing
    BY <1>5 DEF Executing, RunGoto, RunFailNotify, RunNotifyReady, RunNotifyStarters, RunDisconnectedNotify
  <2> QED
    BY <1>5, <2>2, <2>3, StayLemma DEF RunFailNotify, RunNotifyReady, RunNotifyStarters, RunDisconnectedNotify
<1>6. CASE RunConnect \/ RunCheckStopping \/ RunRequestControl \/ RunReleaseControl \/ RunDisconnect
           \/ RunFail \/ RunReady \/ RunDisconnected \/ RunCall \/ RunPollAbort \/ RunPollStatus \/ RunMoveFails
           \/ RunClearAbort
  <2>1. Executing' <=> Executing
    BY <1>6 DEF Executing, RunGoto, Finish, RunConnect, RunCheckStopping, RunRequestControl,
      RunReleaseControl, RunDisconnect, RunFail, RunReady, RunDisconnected, RunCall, RunPollAbort,
      RunPollStatus, RunMoveFails, RunClearAbort
  <2>2. UNCHANGED <<managerVars, submitVars, resultVars, pc>>
    BY <1>6 DEF RunConnect, RunCheckStopping, RunRequestControl, RunReleaseControl, RunDisconnect,
      RunFail, RunReady, RunDisconnected, RunCall, RunPollAbort, RunPollStatus, RunMoveFails, RunClearAbort
  <2> QED
    BY <2>1, <2>2, StayLemma DEF NumbersKept
<1>7. CASE RunPushResult
  <2>1. /\ \A c \in Callers : Stays(c)
        /\ run_pc = "push" /\ run_pc' = "pop" /\ result_queue' = Append(result_queue, result)
        /\ UNCHANGED <<managerVars, submitVars, collected>>
    BY <1>a, <1>7, Notification DEF RunPushResult, RunGoto
  <2>2. NumbersKept
    BY <2>1 DEF NumbersKept, Stays
  <2>3. Executing /\ ~Executing' /\ result = popped["worker"].id /\ popped["worker"].id \in Result
    BY <1>a, <2>1 DEF Executing, ThreadInPlace, Command, Result
  <2>4. collected \o Append(result_queue, result) \o <<>> = collected \o result_queue \o <<result>>
    BY <1>a, <2>3, AddToEnd
  <2>5. Taken' = Taken
    BY <2>1, <2>3, <2>4 DEF Taken
  <2>6. Pending' = Pending
    BY <2>1 DEF Pending
  <2> QED
    BY <2>1, <2>2, <2>5, <2>6 DEF QueuesStay
<1>8. CASE RunPop
  <2>1. run_pc = "pop" /\ (Sleeps \/ Leaves \/ TakesUrgent \/ TakesNormal)
    BY <1>a, <1>8, PopOutcome
  <2>2. UNCHANGED <<accepted, next_command_id, request, pc, collected, result_queue>> /\ NumbersKept
    BY <1>8 DEF RunPop, NumbersKept
  <2>3. CASE Sleeps \/ Leaves
    <3>1. ~Executing /\ ~Executing' /\ UNCHANGED <<command_queue, priority_queue>>
      BY <2>1, <2>3 DEF Sleeps, Leaves, Executing
    <3>2. Taken' = Taken /\ Pending' = Pending
      BY <2>2, <3>1 DEF Taken, Pending
    <3> QED
      BY <2>2, <3>2 DEF QueuesStay
  <2>4. ASSUME NEW command, Takes(command), command \in Command
        PROVE  Taken' = Append(Taken, command.id)
    <3>1. ~Executing /\ Executing' /\ popped'["worker"] = command
      BY <2>1, <2>4 DEF Takes, Executing
    <3>2. Taken = collected \o result_queue \o <<>> /\ Taken' = collected \o result_queue \o <<command.id>>
      BY <2>2, <3>1 DEF Taken
    <3>3. command.id \in Result
      BY <2>4 DEF Command, Result
    <3> QED
      BY <1>a, <3>2, <3>3
  <2>5. CASE TakesUrgent
    <3>1. Pending["priority"] = priority_queue /\ "priority" \in Queues
      BY DEF Pending, Queues
    <3>2. Pending' = [Pending EXCEPT !["priority"] = Tail(@)]
      BY <2>5 DEF TakesUrgent, Pending, Queues
    <3>3. Taken' = Append(Taken, Head(priority_queue).id)
      BY <2>4, <2>5 DEF TakesUrgent, Takes
    <3>4. QueueGives("priority")
      BY <2>2, <2>5, <3>1, <3>2, <3>3 DEF QueueGives, TakesUrgent
    <3> QED
      BY <2>2, <3>1, <3>4
  <2>6. CASE TakesNormal
    <3>1. Pending["normal"] = command_queue /\ "normal" \in Queues
      BY DEF Pending, Queues
    <3>2. Pending' = [Pending EXCEPT !["normal"] = Tail(@)]
      BY <2>6 DEF TakesNormal, Pending, Queues
    <3>3. Taken' = Append(Taken, Head(command_queue).id)
      BY <2>4, <2>6 DEF TakesNormal, Takes
    <3>4. QueueGives("normal")
      BY <2>2, <2>6, <3>1, <3>2, <3>3 DEF QueueGives, TakesNormal
    <3> QED
      BY <2>2, <3>1, <3>4
  <2> QED
    BY <2>1, <2>3, <2>5, <2>6
<1>9. CASE RunWokenSpuriously \/ UNCHANGED vars
  <2>1. UNCHANGED <<command_queue, priority_queue, popped, submitVars, resultVars, pc, run_pc>>
    BY <1>9 DEF vars, RunWokenSpuriously, Manager!SpuriousWakeup
  <2>2. Executing' <=> Executing
    BY <2>1 DEF Executing
  <2> QED
    BY <2>1, <2>2, StayLemma DEF NumbersKept
<1>10. CASE RunStep
  BY <1>5, <1>6, <1>7, <1>8, <1>10 DEF RunStep
<1>11. ASSUME NEW c \in Callers, InCall(c)
       PROVE  \/ \E queue \in Queues : Accepts(c, queue) /\ QueueGets(queue, request[c])
              \/ QueuesStay /\ NumbersKept
  BY <1>1, <1>2, <1>11 DEF InCall
<1>12. Starters \cup Stoppers \cup Submitters \cup Collectors \subseteq Callers
  BY DEF Callers
<1>13. ASSUME NEW c \in Submitters,
              \/ \E type \in NormalTypes : Submit(c, type, "normal")
              \/ \E type \in PriorityTypes : Submit(c, type, "priority")
       PROVE  QueuesStay /\ \E queue \in Queues, type \in CommandTypes : Submit(c, type, queue)
  BY <1>3, <1>13, TypesAssumption DEF Queues
<1> QED
  BY <1>1, <1>4, <1>9, <1>10, <1>11, <1>12, <1>13 DEF Next

LEMMA NumbersInit == Init => NumbersAreUnique /\ AccountInv
<1> SUFFICES ASSUME Init PROVE NumbersAreUnique /\ AccountInv
  OBVIOUS
<1>1. \A queue \in Queues : Pending[queue] = <<>> /\ accepted[queue] = <<>>
  BY DEF Init, Manager!Init, Pending
<1>2. Len(<<>>) = 0 /\ \A queue \in Queues : Left[queue] = 0
  BY <1>1 DEF Left
<1>3. Taken = <<>>
  BY DEF Init, Taken, Executing
<1>4. NumbersAreUnique
  BY <1>1 DEF Init, NumbersAreUnique
<1>5. AccountInv
  BY <1>1, <1>2, <1>3 DEF AccountInv, QueuesKept, AllAnswered, AnsweredInOrder, OnlyAcceptedAnswered
<1> QED
  BY <1>4, <1>5

LEMMA NumbersStep ==
  ASSUME TypeInv, LifeInv, NumbersAreUnique, [Next]_vars
  PROVE  NumbersAreUnique'
<1> DEFINE Fresh(c) == pc[c] \in {"normal", "priority"}
<1>a. /\ pc \in [Callers -> CallLocations] /\ CallersInPlace /\ next_command_id \in Nat
      /\ accepted \in [Queues -> Seq(Command)] /\ request \in [Callers -> Command \cup {NoCommand}]
      /\ \A queue \in Queues : \A i \in 1..Len(accepted[queue]) : accepted[queue][i].id \in Nat
      /\ \A c \in Callers : Fresh(c) => request[c].id \in Nat
  <2>1. \A command \in Command : command.id \in Nat
    BY MaxCommandsAssumption DEF Command
  <2>2. /\ pc \in [Callers -> CallLocations] /\ CallersInPlace /\ next_command_id \in Nat
        /\ accepted \in [Queues -> Seq(Command)] /\ request \in [Callers -> Command \cup {NoCommand}]
    BY MaxCommandsAssumption DEF TypeInv, TypeOK
  <2>3. ASSUME NEW queue \in Queues, NEW i \in 1..Len(accepted[queue]) PROVE accepted[queue][i] \in Command
    <3>1. accepted[queue] \in Seq(Command)
      BY <2>2
    <3> QED
      BY <3>1
  <2>4. \A c \in Callers : Fresh(c) => request[c] \in Command
    BY <2>2 DEF CallersInPlace
  <2> QED
    BY <2>1, <2>2, <2>3, <2>4
<1>b. /\ \A c \in Callers : Fresh(c) => request[c].id < next_command_id
      /\ \A c, d \in Callers : Fresh(c) /\ Fresh(d) /\ request[c].id = request[d].id => c = d
      /\ \A q \in Queues : \A i \in 1..Len(accepted[q]) :
           /\ accepted[q][i].id < next_command_id
           /\ \A c \in Callers : Fresh(c) => accepted[q][i].id # request[c].id
      /\ \A q, r \in Queues : \A i \in 1..Len(accepted[q]), j \in 1..Len(accepted[r]) :
           accepted[q][i].id = accepted[r][j].id => q = r /\ i = j
  BY DEF NumbersAreUnique
<1>1. ASSUME NEW c \in Callers, NEW queue \in Queues, Accepts(c, queue), QueueGets(queue, request[c])
      PROVE  NumbersAreUnique'
  <2>1. /\ Fresh(c) /\ \A d \in Callers : Fresh(d)' => Fresh(d) /\ d # c
        /\ UNCHANGED <<request, next_command_id>>
    BY <1>a, <1>1 DEF Accepts, Queues
  <2>2. \A q \in Queues : \A i \in 1..Len(accepted'[q]) :
          \/ i \in 1..Len(accepted[q]) /\ accepted'[q][i] = accepted[q][i]
          \/ q = queue /\ i = Len(accepted[q]) + 1 /\ accepted'[q][i] = request[c]
    <3> SUFFICES ASSUME NEW q \in Queues, NEW i \in 1..Len(accepted'[q])
                 PROVE  \/ i \in 1..Len(accepted[q]) /\ accepted'[q][i] = accepted[q][i]
                        \/ q = queue /\ i = Len(accepted[q]) + 1 /\ accepted'[q][i] = request[c]
      OBVIOUS
    <3>1. CASE q # queue
      BY <1>a, <1>1, <3>1 DEF QueueGets
    <3>2. CASE q = queue
      <4>1. accepted'[q] = Append(accepted[q], request[c]) /\ accepted[q] \in Seq(Command) /\ request[c] \in Command
        BY <1>a, <1>1, <3>2 DEF QueueGets
      <4> QED
        BY <3>2, <4>1, AppendProperties
    <3> QED
      BY <3>1, <3>2
  <2>3. \A d \in Callers : Fresh(d)' => request'[d].id < next_command_id'
    BY <1>b, <2>1
  <2>4. \A d, e \in Callers : Fresh(d)' /\ Fresh(e)' /\ request'[d].id = request'[e].id => d = e
    BY <1>b, <2>1
  <2>5. \A q \in Queues : \A i \in 1..Len(accepted'[q]) :
          /\ accepted'[q][i].id < next_command_id'
          /\ \A d \in Callers : Fresh(d)' => accepted'[q][i].id # request'[d].id
    BY <1>b, <2>1, <2>2
  <2>6. \A q, r \in Queues : \A i \in 1..Len(accepted'[q]), j \in 1..Len(accepted'[r]) :
          accepted'[q][i].id = accepted'[r][j].id => q = r /\ i = j
    <3> SUFFICES ASSUME NEW q \in Queues, NEW r \in Queues, NEW i \in 1..Len(accepted'[q]),
                        NEW j \in 1..Len(accepted'[r]), accepted'[q][i].id = accepted'[r][j].id
                 PROVE  q = r /\ i = j
      OBVIOUS
    <3>1. CASE i \in 1..Len(accepted[q]) /\ accepted'[q][i] = accepted[q][i]
      <4>1. accepted[q][i].id # request[c].id
        BY <1>b, <2>1, <3>1
      <4>2. j \in 1..Len(accepted[r]) /\ accepted'[r][j] = accepted[r][j]
        BY <2>2, <3>1, <4>1
      <4> QED
        BY <1>b, <3>1, <4>2
    <3>2. CASE q = queue /\ i = Len(accepted[q]) + 1 /\ accepted'[q][i] = request[c]
      <4>1. r = queue /\ j = Len(accepted[r]) + 1
        BY <1>b, <2>1, <2>2, <3>2
      <4> QED
        BY <3>2, <4>1
    <3> QED
      BY <2>2, <3>1, <3>2
  <2> QED
    BY <2>3, <2>4, <2>5, <2>6 DEF NumbersAreUnique
<1>2. ASSUME NumbersKept PROVE NumbersAreUnique'
  <2>1. \A d \in Callers : Fresh(d)' => Fresh(d)
    BY <1>2 DEF NumbersKept
  <2> QED
    BY <1>b, <1>2, <2>1 DEF NumbersKept, NumbersAreUnique
<1>3. ASSUME NEW c \in Submitters, NEW queue \in Queues, NEW type \in CommandTypes, Submit(c, type, queue)
      PROVE  NumbersAreUnique'
  <2>1. c \in Callers
    BY DEF Callers
  <2>2. /\ next_command_id' = next_command_id + 1 /\ accepted' = accepted
        /\ request'[c].id = next_command_id
        /\ \A d \in Callers : d # c => request'[d] = request[d] /\ (Fresh(d)' => Fresh(d))
    BY <1>a, <1>3, <2>1 DEF Submit, Goto
  <2>3. \A d \in Callers : Fresh(d)' => d = c \/ (Fresh(d) /\ request'[d] = request[d] /\ request[d].id < next_command_id)
    BY <1>b, <2>2
  <2>4. \A d \in Callers : Fresh(d)' => request'[d].id < next_command_id'
    BY <1>a, <2>2, <2>3
  <2>5. \A d, e \in Callers : Fresh(d)' /\ Fresh(e)' /\ request'[d].id = request'[e].id => d = e
    BY <1>a, <1>b, <2>2, <2>3
  <2>6. \A q \in Queues : \A i \in 1..Len(accepted'[q]) :
          /\ accepted'[q][i].id < next_command_id'
          /\ \A d \in Callers : Fresh(d)' => accepted'[q][i].id # request'[d].id
    BY <1>a, <1>b, <2>2, <2>3
  <2> QED
    BY <1>b, <2>2, <2>4, <2>5, <2>6 DEF NumbersAreUnique
<1> QED
  BY <1>1, <1>2, <1>3, AccountStep

LEMMA AccountInvStep ==
  ASSUME TypeInv, LifeInv, NumbersAreUnique, AccountInv, [Next]_vars
  PROVE  AccountInv'
<1>1. CASE QueuesStay
  <2>1. Left' = Left /\ Pending' = Pending /\ accepted' = accepted /\ Taken' = Taken
    BY <1>1 DEF QueuesStay, Left
  <2>2. QueuesKept'
    BY <2>1 DEF AccountInv, QueuesKept
  <2>3. AllAnswered'
    BY <2>1 DEF AccountInv, AllAnswered, IsAnswer
  <2>4. AnsweredInOrder'
    BY <2>1 DEF AccountInv, AnsweredInOrder, IsAnswer
  <2>5. OnlyAcceptedAnswered'
    BY <2>1 DEF AccountInv, OnlyAcceptedAnswered, IsAnswer
  <2> QED
    BY <2>2, <2>3, <2>4, <2>5 DEF AccountInv
<1> QED
  BY <1>1, GetsAccounted, GivesAccounted, AccountStep

LEMMA TailOf ==
  ASSUME NEW S, NEW s \in Seq(S), NEW t \in Seq(S), Len(t) <= Len(s),
         \A i \in 1..Len(t) : t[i] = s[(Len(s) - Len(t)) + i]
  PROVE  t = SubSeq(s, (Len(s) - Len(t)) + 1, Len(s))
<1> DEFINE left == Len(s) - Len(t)
<1>1. Len(s) \in Nat /\ Len(t) \in Nat /\ left \in Nat /\ left + 1 >= 1
  BY LenProperties
<1>2. SubSeq(s, left + 1, Len(s)) \in Seq(S) /\ Len(SubSeq(s, left + 1, Len(s))) = Len(t)
  BY <1>1
<1>3. \A i \in 1..Len(t) : SubSeq(s, left + 1, Len(s))[i] = s[left + i]
  BY <1>1
<1> QED
  BY <1>2, <1>3, SeqEqual

(* Every accepted command is in exactly one place and the commands of a queue    *)
(* are answered in the order they were accepted.                                  *)
THEOREM EveryCommandIsAccountedFor == Spec => []AcceptedAccountedFor
<1>1. ASSUME TypeInv, AccountInv PROVE AcceptedAccountedFor
  <2>1. /\ \A queue \in Queues :
             /\ Left[queue] = Len(accepted[queue]) - Len(Pending[queue])
             /\ Pending[queue] = IF queue = "normal" THEN command_queue ELSE priority_queue
        /\ DOMAIN Taken = 1..Len(Taken)
    BY <1>1, AccountTypes, LenProperties DEF Left, Pending
  <2>2. ASSUME NEW queue \in Queues
        PROVE  Pending[queue] = SubSeq(accepted[queue], Left[queue] + 1, Len(accepted[queue]))
    <3>1. accepted[queue] \in Seq(Command) /\ Pending[queue] \in Seq(Command)
      BY <1>1, AccountTypes
    <3>2. /\ Left[queue] = Len(accepted[queue]) - Len(Pending[queue])
          /\ Len(Pending[queue]) <= Len(accepted[queue])
          /\ \A i \in 1..Len(Pending[queue]) : Pending[queue][i] = accepted[queue][Left[queue] + i]
      BY <1>1, <2>1 DEF AccountInv, QueuesKept
    <3>3. Pending[queue] = SubSeq(accepted[queue], (Len(accepted[queue]) - Len(Pending[queue])) + 1,
                                  Len(accepted[queue]))
      BY <3>1, <3>2, TailOf
    <3> QED
      BY <3>2, <3>3
  <2> DEFINE pending(queue) == IF queue = "normal" THEN command_queue ELSE priority_queue
             left(queue) == Len(accepted[queue]) - Len(pending(queue))
  <2>3. \A queue \in Queues : pending(queue) = Pending[queue] /\ left(queue) = Left[queue]
    BY <2>1
  <2> HIDE DEF pending, left
  <2>4. \A queue \in Queues : \A i \in 1..left(queue) : \E k \in DOMAIN Taken :
          Taken[k] = accepted[queue][i].id
    BY <1>1, <2>1, <2>3 DEF AccountInv, AllAnswered, IsAnswer
  <2>5. \A queue \in Queues : \A i, j \in 1..left(queue), k, l \in DOMAIN Taken :
          Taken[k] = accepted[queue][i].id /\ Taken[l] = accepted[queue][j].id => (i < j <=> k < l)
    BY <1>1, <2>1, <2>3 DEF AccountInv, AnsweredInOrder, IsAnswer
  <2>6. \A k \in DOMAIN Taken : \E queue \in Queues : \E i \in 1..left(queue) :
          Taken[k] = accepted[queue][i].id
    BY <1>1, <2>1, <2>3 DEF AccountInv, OnlyAcceptedAnswered, IsAnswer
  <2>7. \A queue \in Queues :
          pending(queue) = SubSeq(accepted[queue], left(queue) + 1, Len(accepted[queue]))
    BY <2>2, <2>3
  <2> QED
    BY <2>4, <2>5, <2>6, <2>7, Zenon DEF AcceptedAccountedFor, pending, left
<1>2. Init => NumbersAreUnique /\ AccountInv
  BY NumbersInit
<1>3. TypeInv /\ LifeInv /\ NumbersAreUnique /\ AccountInv /\ [Next]_vars => NumbersAreUnique' /\ AccountInv'
  BY NumbersStep, AccountInvStep
<1> QED
  BY <1>1, <1>2, <1>3, InvCorrect, PTL DEF Spec

-----------------------------------------------------------------------------
(* The worker as a service.                                                     *)

(* The variables of the service.                                                 *)
Answers == collected \o result_queue
PendingLine == priority_queue \o command_queue

LEMMA ServiceStutters ==
  ASSUME UNCHANGED <<worker_state, control, shutdown_requested, Manager!Blocked, popped, Answers>>,
         UNCHANGED <<command_queue, priority_queue>>, Executing' <=> Executing
  PROVE  UNCHANGED Service!vars
<1>1. Executing' = Executing
  BY DEF Executing
<1> QED
  BY <1>1 DEF Service!vars, Service!channelVars, Answers

LEMMA ServiceInit == Init => Service!Init
<1> SUFFICES ASSUME Init PROVE Service!Init
  OBVIOUS
<1>1. <<>> \o <<>> = <<>> /\ Len(<<>>) = 0
  OBVIOUS
<1>2. Service!Line!Init
  BY <1>1 DEF Init, Manager!Init, Manager!Blocked, Service!Line!Init
<1>3. Executing = FALSE
  BY DEF Init, Executing
<1> QED
  BY <1>1, <1>2, <1>3 DEF Init, Service!Init

(* The thread's use of the queue, as the service's.                              *)
LEMMA ServicePop ==
  ASSUME TypeInv, TypeInv', LifeInv, RunPop
  PROVE  [Service!Next]_(Service!vars)
<1>a. /\ Manager!TypeOK /\ command_queue \in Seq(Command) /\ priority_queue \in Seq(Command)
      /\ popped \in [{"worker"} -> Command \cup {NoCommand}] /\ popped' \in [{"worker"} -> Command \cup {NoCommand}]
      /\ Manager!Blocked \subseteq {"worker"}
  BY DEF TypeInv, TypeOK, Manager!TypeOK, Manager!Blocked
<1>b. /\ run_pc = "pop" /\ UNCHANGED shutdown_requested
      /\ Sleeps \/ Leaves \/ TakesUrgent \/ TakesNormal
  BY <1>a, PopOutcome
<1>c. /\ UNCHANGED <<worker_state, control, result_queue, collected>> /\ control /\ ~Executing
      /\ Answers' = Answers
  BY <1>b DEF RunPop, lifeVars, robotVars, resultVars, LifeInv, RobotAt, ControlledAt, Executing, Answers
<1>d. Executing = FALSE
  BY <1>c DEF Executing
<1>1. CASE Sleeps
  <2>1. Executing' = Executing
    BY <1>b, <1>1 DEF Sleeps, Executing
  <2>2. CASE "worker" \in Manager!Blocked
    <3>1. UNCHANGED <<Manager!Blocked, popped, command_queue, priority_queue>>
      BY <1>a, <1>1, <2>2 DEF Sleeps
    <3> QED
      BY <1>b, <1>c, <2>1, <3>1, ServiceStutters
  <2>3. CASE "worker" \notin Manager!Blocked
    <3>1. Manager!Blocked' = Manager!Blocked \cup {"worker"} /\ UNCHANGED <<popped, command_queue, priority_queue>>
      BY <1>a, <1>1, <2>3 DEF Sleeps
    <3>2. PendingLine = <<>>
      BY <1>1 DEF Sleeps, PendingLine
    <3>3. Service!Line!Block("worker")
      BY <1>b, <1>1, <2>3, <3>1, <3>2 DEF Sleeps, Service!Line!Block, PendingLine
    <3>4. Service!Wait
      BY <1>c, <2>1, <3>3 DEF Service!Wait, Answers
    <3> QED
      BY <3>4 DEF Service!Next
  <2> QED
    BY <2>2, <2>3
<1>2. CASE Leaves
  <2>1. Executing' = Executing
    BY <1>b, <1>2 DEF Leaves, Executing
  <2>2. popped' = [popped EXCEPT !["worker"] = NoCommand] /\ Manager!Blocked' = Manager!Blocked \ {"worker"}
    BY <1>a, <1>2 DEF Leaves
  <2>3. Service!Line!LeaveEmptyHanded("worker")
    BY <1>b, <1>2, <2>2 DEF Leaves, Service!Line!LeaveEmptyHanded
  <2>4. Service!Wait
    BY <1>c, <2>1, <2>3 DEF Service!Wait, Answers
  <2> QED
    BY <2>4 DEF Service!Next
<1>3. ASSUME NEW command, Takes(command), PendingLine # <<>>, command = Head(PendingLine),
             PendingLine' = Tail(PendingLine),
             Len(priority_queue') = IF Len(priority_queue) = 0 THEN 0 ELSE Len(priority_queue) - 1
      PROVE  Service!Next
  <2>1. popped' = [popped EXCEPT !["worker"] = command] /\ Manager!Blocked' = Manager!Blocked \ {"worker"}
    BY <1>a, <1>3 DEF Takes
  <2>2. Service!Line!TakeFirst("worker")
    BY <1>b, <1>3, <2>1 DEF Service!Line!TakeFirst, PendingLine
  <2>3. Service!Line!Take("worker")
    BY <1>3, <2>1, <2>2 DEF Service!Line!Take, Takes
  <2>4. Executing' = TRUE
    BY <1>3 DEF Takes, Executing
  <2>5. Service!Take
    BY <1>c, <1>d, <2>3, <2>4 DEF Service!Take, Answers
  <2> QED
    BY <2>5 DEF Service!Next
<1>4. CASE TakesUrgent
  <2>1. priority_queue' = Tail(priority_queue) /\ command_queue' = command_queue /\ priority_queue # <<>>
    BY <1>4 DEF TakesUrgent
  <2>2. Head(PendingLine) = Head(priority_queue) /\ Tail(PendingLine) = Tail(priority_queue) \o command_queue
    BY <1>a, <2>1, MP!TakeFromLine DEF PendingLine
  <2>3. PendingLine # <<>> /\ Len(priority_queue) # 0 /\ Len(priority_queue') = Len(priority_queue) - 1
    BY <1>a, <2>1 DEF PendingLine
  <2> QED
    BY <1>3, <1>4, <2>1, <2>2, <2>3 DEF TakesUrgent, PendingLine
<1>5. CASE TakesNormal
  <2>1. /\ priority_queue' = priority_queue /\ command_queue' = Tail(command_queue)
        /\ priority_queue = <<>> /\ command_queue # <<>>
    BY <1>5 DEF TakesNormal
  <2>2. PendingLine = command_queue /\ PendingLine' = Tail(command_queue)
    BY <1>a, <2>1 DEF PendingLine
  <2>3. Len(priority_queue) = 0 /\ Len(priority_queue') = 0
    BY <2>1
  <2> QED
    BY <1>3, <1>5, <2>1, <2>2, <2>3 DEF TakesNormal
<1> QED
  BY <1>b, <1>1, <1>2, <1>4, <1>5

LEMMA ServiceAccepts ==
  ASSUME TypeInv, LifeInv, NEW c \in Callers, NEW queue \in Queues, Accepts(c, queue)
  PROVE  Service!Next
<1>a. /\ command_queue \in Seq(Command) /\ priority_queue \in Seq(Command) /\ request[c] \in Command
      /\ ~shutdown_requested /\ UNCHANGED <<worker_state, control, run_pc, shutdown_requested, popped, Answers>>
      /\ pc[c] \in {"normal", "priority"}
  BY DEF TypeInv, TypeOK, Manager!TypeOK, CallersInPlace, Accepts, Queues, Manager!Enqueue,
    Manager!EnqueuePriority, lifeVars, robotVars, resultVars, Answers
<1>b. Manager!Blocked' = Manager!Blocked
  BY DEF Accepts, Manager!Enqueue, Manager!EnqueuePriority, Manager!NotifyOne, Manager!Blocked
<1>c. worker_state \in {"Ready", "Stopping"} /\ control
  <2>1. worker_state \in PhaseAt(run_pc) /\ Serving
    BY <1>a DEF LifeInv, BeforeShutdown
  <2> QED
    BY <2>1 DEF LifeInv, RobotAt, ControlledAt, PhaseAt, Serving, Executing
<1>d. Executing' = Executing
  BY <1>a DEF Executing
<1>1. CASE queue = "normal"
  <2>1. /\ command_queue' = Append(command_queue, request[c]) /\ priority_queue' = priority_queue
        /\ Len(command_queue) < Capacity
    BY <1>1 DEF Accepts, Manager!Enqueue, Manager!CanEnqueue
  <2>2. PendingLine' = Append(PendingLine, request[c]) /\ Len(PendingLine) - Len(priority_queue) < Capacity
    <3>1. Len(PendingLine) - Len(priority_queue) = Len(command_queue)
      BY <1>a DEF PendingLine
    <3> QED
      BY <1>a, <2>1, <3>1, MP!AppendToLine DEF PendingLine
  <2>3. Service!Line!Put(request[c])
    BY <1>a, <1>b, <2>1, <2>2 DEF Service!Line!Put, PendingLine
  <2>4. Service!Accept(request[c])
    BY <1>a, <1>c, <1>d, <2>3 DEF Service!Accept, Answers
  <2> QED
    BY <1>a, <2>4 DEF Service!Next
<1>2. CASE queue = "priority"
  <2>1. /\ priority_queue' = Append(priority_queue, request[c]) /\ command_queue' = command_queue
        /\ Len(priority_queue) < Capacity
    BY <1>2 DEF Accepts, Manager!EnqueuePriority, Manager!CanEnqueuePriority
  <2>2. PendingLine' = SubSeq(PendingLine, 1, Len(priority_queue)) \o <<request[c]>>
                         \o SubSeq(PendingLine, Len(priority_queue) + 1, Len(PendingLine))
    <3>1. command_queue \in Seq(Command) /\ priority_queue \in Seq(Command) /\ request[c] \in Command
      BY <1>a
    <3>2. Append(priority_queue, request[c]) \o command_queue =
            SubSeq(priority_queue \o command_queue, 1, Len(priority_queue)) \o <<request[c]>>
            \o SubSeq(priority_queue \o command_queue, Len(priority_queue) + 1,
                      Len(priority_queue \o command_queue))
      BY <3>1, MP!InsertInLine, ManagerAssumptions, Zenon
    <3> QED
      BY <2>1, <3>2, Zenon DEF PendingLine
  <2>3. Len(priority_queue') = Len(priority_queue) + 1
    BY <1>a, <2>1
  <2>4. Service!Line!PutUrgent(request[c])
    BY <1>a, <1>b, <2>1, <2>2, <2>3, Zenon DEF Service!Line!PutUrgent, PendingLine
  <2>5. Service!Accept(request[c])
    BY <1>a, <1>c, <1>d, <2>4 DEF Service!Accept, Answers
  <2> QED
    BY <1>a, <2>5 DEF Service!Next
<1> QED
  BY <1>1, <1>2 DEF Queues

LEMMA ServiceStep ==
  ASSUME TypeInv, TypeInv', LifeInv, [Next]_vars
  PROVE  [Service!Next]_(Service!vars)
<1> USE DEF dataVars, lifeVars, robotVars, submitVars, resultVars, managerVars
<1>a. /\ RobotAt /\ ThreadLife /\ BeforeShutdown /\ AfterShutdown /\ worker_state \in WorkerStatus
      /\ collected \in Seq(Result) /\ result_queue \in Seq(Result) /\ run_pc \in RunLocations
  BY DEF LifeInv, TypeInv, TypeOK
<1> DEFINE QueueKept == UNCHANGED <<command_queue, priority_queue, shutdown_requested, Manager!Blocked, popped>>
           LineKept == UNCHANGED Service!channelVars
           RobotKept == UNCHANGED <<control, Answers>> /\ (Executing' <=> Executing)
<1>b. QueueKept => LineKept
  BY DEF Service!channelVars
<1>c. RobotKept => UNCHANGED <<control, Executing>> /\ (collected \o result_queue)' = collected \o result_queue
  BY DEF Executing, Answers
<1>d. QueueKept /\ RobotKept /\ UNCHANGED worker_state => UNCHANGED Service!vars
  BY ServiceStutters
<1>e. UNCHANGED managerVars => QueueKept
  BY DEF Manager!Blocked
<1>f. UNCHANGED resultVars => UNCHANGED Answers
  BY DEF Answers
<1> HIDE DEF QueueKept, LineKept, RobotKept
<1>1. ASSUME NEW c \in Callers, StartConnecting(c) PROVE [Service!Next]_(Service!vars)
  <2>1. /\ QueueKept /\ RobotKept /\ run_pc = "none" /\ ~control
    BY <1>a, <1>e, <1>f, <1>1 DEF StartConnecting, Goto, RobotKept, Executing, ThreadLife, RobotAt, ControlledAt
  <2>2. CASE worker_state = "Disconnected"
    <3>1. Service!Open
      BY <1>1, <1>b, <1>c, <2>1, <2>2 DEF StartConnecting, Service!Open, Service!Comes, LineKept
    <3> QED
      BY <3>1 DEF Service!Next
  <2>3. CASE worker_state # "Disconnected"
    BY <1>1, <1>d, <2>1, <2>3 DEF StartConnecting
  <2> QED
    BY <2>2, <2>3
<1>2. ASSUME NEW c \in Callers,
             \/ StartSpawn(c) \/ StartWait(c) \/ EnterJoin(c) \/ Join(c) \/ SpuriousWakeup(c)
             \/ StartCheckThread(c) \/ StopCheckThread(c) \/ SetAbort(c) \/ StopNotify(c)
      PROVE  UNCHANGED Service!vars
  <2>1. UNCHANGED <<managerVars, worker_state, control, resultVars>>
    BY <1>2 DEF StartSpawn, StartWait, EnterJoin, Join, SpuriousWakeup, StartCheckThread, StopCheckThread,
      SetAbort, StopNotify
  <2>2. run_pc' = run_pc \/ (run_pc \in {"none", "ended"} /\ run_pc' \in {"none", "connect"})
    BY <1>a, <1>2 DEF ThreadLife, Goto, StartSpawn, StartWait, EnterJoin, Join, SpuriousWakeup,
      StartCheckThread, StopCheckThread, SetAbort, StopNotify
  <2>3. RobotKept
    BY <1>f, <2>1, <2>2 DEF RobotKept, Executing
  <2> QED
    BY <1>d, <1>e, <2>1, <2>3
<1>3. ASSUME NEW c \in Callers, StopStopping(c) PROVE [Service!Next]_(Service!vars)
  <2>1. QueueKept /\ RobotKept
    BY <1>e, <1>f, <1>3 DEF StopStopping, RobotKept, Executing
  <2>2. CASE worker_state = "Stopping"
    BY <1>3, <1>d, <2>1, <2>2 DEF StopStopping
  <2>3. CASE worker_state # "Stopping"
    <3>1. Service!Close
      BY <1>3, <1>a, <1>b, <1>c, <2>1, <2>3 DEF StopStopping, WorkerStatus, Service!Close, Service!Comes, LineKept
    <3> QED
      BY <3>1 DEF Service!Next
  <2> QED
    BY <2>2, <2>3
<1>4. ASSUME NEW c \in Callers, StopShutdown(c) PROVE Service!Next
  <2>1. /\ shutdown_requested' = TRUE /\ Manager!Blocked' = Manager!Blocked
        /\ UNCHANGED <<command_queue, priority_queue, popped>>
    BY <1>4 DEF StopShutdown, Manager!Shutdown, Manager!NotifyAll, Manager!Blocked
  <2>2. Service!Line!Close
    BY <2>1 DEF Service!Line!Close
  <2>3. RobotKept /\ worker_state' = worker_state
    BY <1>f, <1>4 DEF StopShutdown, RobotKept, Executing
  <2>4. shutdown_requested \/ worker_state \in {"Stopping", "Disconnected"}
    BY <1>a, <1>4 DEF StopShutdown, Goto, BeforeShutdown
  <2>5. Service!Shut
    BY <1>c, <2>2, <2>3, <2>4 DEF Service!Shut
  <2> QED
    BY <2>5 DEF Service!Next
<1>5. ASSUME NEW c \in Callers, StopDisconnected(c) PROVE Service!Next
  <2>1. QueueKept /\ RobotKept /\ shutdown_requested
    BY <1>a, <1>e, <1>f, <1>5 DEF StopDisconnected, Goto, RobotKept, Executing, AfterShutdown
  <2>2. Service!Off
    BY <1>5, <1>b, <1>c, <2>1 DEF StopDisconnected, Service!Off, Service!Comes, LineKept
  <2> QED
    BY <2>2 DEF Service!Next
<1>6. ASSUME NEW c \in Callers, Enqueue(c) \/ EnqueuePriority(c) PROVE [Service!Next]_(Service!vars)
  <2>1. CASE /\ UNCHANGED <<managerVars, accepted, lifeVars, resultVars, abort_requested, run_pc, result,
                           request, next_command_id>>
            /\ pc[c] \in Queues /\ pc' = [pc EXCEPT ![c] = "idle"]
    <3>1. RobotKept
      BY <1>f, <2>1 DEF RobotKept, Executing
    <3> QED
      BY <1>d, <1>e, <2>1, <3>1
  <2> QED
    BY <1>6, <2>1, EnqueueOutcome, ServiceAccepts
<1>7. ASSUME NEW c \in Callers, NEW queue, NEW type, Submit(c, type, queue) PROVE UNCHANGED Service!vars
  <2>1. RobotKept
    BY <1>f, <1>7 DEF Submit, RobotKept, Executing
  <2> QED
    BY <1>d, <1>e, <1>7, <2>1 DEF Submit
<1>8. ASSUME NEW c \in Callers, TryGetResult(c) \/ WaitAndPopResult(c) PROVE UNCHANGED Service!vars
  <2>1. UNCHANGED <<managerVars, worker_state, control, run_pc>>
    BY <1>8 DEF TryGetResult, WaitAndPopResult
  <2>2. CASE PopResult
    <3>1. /\ collected' = Append(collected, Head(result_queue)) /\ result_queue' = Tail(result_queue)
          /\ result_queue # <<>>
      BY <2>2 DEF PopResult
    <3>2. Answers' = Answers
      BY <1>a, <3>1, MoveToEnd DEF Answers
    <3> QED
      BY <1>d, <1>e, <2>1, <3>2 DEF RobotKept, Executing
  <2>3. CASE UNCHANGED resultVars
    BY <1>d, <1>e, <1>f, <2>1, <2>3 DEF RobotKept, Executing
  <2> QED
    BY <1>8, <2>2, <2>3 DEF TryGetResult, WaitAndPopResult
<1>9. CASE RunConnect \/ RunCheckStopping \/ RunDisconnect \/ RunFailNotify \/ RunNotifyReady
           \/ RunNotifyStarters \/ RunClearAbort \/ RunCall \/ RunPollAbort \/ RunPollStatus \/ RunMoveFails
  <2>1. UNCHANGED <<managerVars, worker_state, control, resultVars>>
    BY <1>9 DEF RunConnect, RunCheckStopping, RunDisconnect, RunFailNotify, RunNotifyReady,
      RunNotifyStarters, RunClearAbort, RunCall, RunPollAbort, RunPollStatus, RunMoveFails
  <2>2. Executing' <=> Executing
    BY <1>9 DEF RunGoto, Finish, Executing, RunConnect, RunCheckStopping, RunDisconnect, RunFailNotify,
      RunNotifyReady, RunNotifyStarters, RunClearAbort, RunCall, RunPollAbort, RunPollStatus, RunMoveFails
  <2> QED
    BY <1>d, <1>e, <1>f, <2>1, <2>2 DEF RobotKept
<1>10. CASE RunRequestControl
  <2>1. /\ QueueKept /\ UNCHANGED <<worker_state, Answers>> /\ run_pc = "requestControl" /\ ~control
        /\ (Executing' <=> Executing)
    BY <1>a, <1>e, <1>f, <1>10 DEF RunRequestControl, RunGoto, RobotAt, ControlledAt, Executing
  <2>2. CASE control' = control
    BY <1>d, <2>1, <2>2 DEF RobotKept
  <2>3. CASE control' = TRUE
    <3>1. shutdown_requested \/ worker_state \in {"Connecting", "Stopping"}
      BY <1>a, <2>1 DEF BeforeShutdown, PhaseAt
    <3>2. Executing' = Executing
      BY <2>1 DEF Executing
    <3>3. Service!Hold
      BY <1>b, <2>1, <2>3, <3>1, <3>2 DEF Service!Hold, LineKept, Answers
    <3> QED
      BY <3>3 DEF Service!Next
  <2> QED
    BY <1>10, <2>2, <2>3 DEF RunRequestControl
<1>11. CASE RunReleaseControl
  <2>1. /\ QueueKept /\ UNCHANGED <<worker_state, Answers>> /\ run_pc = "releaseControl" /\ control /\ ~control'
        /\ control' = FALSE /\ ~Executing /\ ~Executing'
    BY <1>a, <1>e, <1>f, <1>11 DEF RunReleaseControl, RunGoto, RobotAt, ControlledAt, Executing
  <2>2. shutdown_requested \/ worker_state = "Stopping"
    BY <1>a, <2>1 DEF BeforeShutdown, PhaseAt
  <2>3. Executing' = Executing
    BY <2>1 DEF Executing
  <2>4. Service!Release
    BY <1>b, <2>1, <2>2, <2>3 DEF Service!Release, LineKept, Answers
  <2> QED
    BY <2>4 DEF Service!Next
<1>12. CASE RunFail
  <2>1. QueueKept /\ RobotKept /\ run_pc = "fail" /\ ~control
    BY <1>a, <1>e, <1>f, <1>12 DEF RunFail, RunGoto, RobotAt, ControlledAt, Executing, RobotKept
  <2>2. shutdown_requested \/ worker_state \in {"Connecting", "Stopping"}
    BY <1>a, <2>1 DEF BeforeShutdown, PhaseAt
  <2>3. CASE worker_state = "Stopping"
    BY <1>d, <1>12, <2>1, <2>3 DEF RunFail
  <2>4. CASE worker_state # "Stopping"
    <3>1. Service!Fail
      BY <1>12, <1>b, <1>c, <2>1, <2>2, <2>4 DEF RunFail, Service!Fail, Service!Comes, LineKept
    <3> QED
      BY <3>1 DEF Service!Next
  <2> QED
    BY <2>3, <2>4
<1>13. CASE RunReady
  <2>1. QueueKept /\ RobotKept /\ run_pc = "ready" /\ control
    BY <1>a, <1>e, <1>f, <1>13 DEF RunReady, RunGoto, RobotAt, ControlledAt, Executing, RobotKept
  <2>2. shutdown_requested \/ worker_state \in {"Connecting", "Stopping"}
    BY <1>a, <2>1 DEF BeforeShutdown, PhaseAt
  <2>3. CASE worker_state = "Stopping"
    BY <1>d, <1>13, <2>1, <2>3 DEF RunReady
  <2>4. CASE worker_state # "Stopping"
    <3>1. Service!Serve
      BY <1>13, <1>b, <1>c, <2>1, <2>2, <2>4 DEF RunReady, Service!Serve, Service!Comes, LineKept
    <3> QED
      BY <3>1 DEF Service!Next
  <2> QED
    BY <2>3, <2>4
<1>14. CASE RunDisconnected \/ RunDisconnectedNotify
  <2>1. /\ QueueKept /\ RobotKept /\ run_pc \in {"disconnected", "disconnectedNotify"} /\ ~control
        /\ worker_state' = "Disconnected"
    BY <1>a, <1>e, <1>f, <1>14 DEF RunDisconnected, RunDisconnectedNotify, RunGoto, RobotAt, ControlledAt,
      Executing, RobotKept
  <2>2. shutdown_requested \/ worker_state = "Stopping"
    BY <1>a, <2>1 DEF BeforeShutdown, PhaseAt
  <2>3. Service!Off
    BY <1>b, <1>c, <2>1, <2>2 DEF Service!Off, Service!Comes, LineKept
  <2> QED
    BY <2>3 DEF Service!Next
<1>15. CASE RunPushResult
  <2>1. /\ QueueKept /\ UNCHANGED <<worker_state, control, collected>> /\ run_pc = "push" /\ run_pc' = "pop"
        /\ result_queue' = Append(result_queue, result) /\ control
    BY <1>a, <1>e, <1>15 DEF RunPushResult, RunGoto, RobotAt, ControlledAt
  <2>2. result = popped["worker"].id /\ result \in Result
    BY <2>1 DEF TypeInv, ThreadInPlace, Executing, Command, Result
  <2>3. Executing = TRUE /\ Executing' = FALSE
    BY <2>1 DEF Executing
  <2>4. collected' \o result_queue' = Append(collected \o result_queue, popped["worker"].id)
    BY <1>a, <2>1, <2>2
  <2>5. Service!Answer
    BY <1>b, <2>1, <2>3, <2>4 DEF Service!Answer, LineKept
  <2> QED
    BY <2>5 DEF Service!Next
<1>16. CASE RunWokenSpuriously
  <2>1. QueueKept /\ UNCHANGED <<worker_state, control, run_pc, resultVars>>
    BY <1>16 DEF RunWokenSpuriously, Manager!SpuriousWakeup, Manager!Blocked, QueueKept
  <2> QED
    BY <1>d, <1>f, <2>1 DEF RobotKept, Executing
<1>17. CASE UNCHANGED vars
  <2>1. UNCHANGED <<managerVars, worker_state, control, run_pc, resultVars>>
    BY <1>17 DEF vars
  <2> QED
    BY <1>d, <1>e, <1>f, <2>1 DEF RobotKept, Executing
<1>18. CASE RunStep
  BY <1>9, <1>10, <1>11, <1>12, <1>13, <1>14, <1>15, <1>18, ServicePop DEF RunStep
<1>19. ASSUME NEW c \in Callers, InCall(c) PROVE [Service!Next]_(Service!vars)
  BY <1>1, <1>2, <1>3, <1>4, <1>5, <1>6, <1>19 DEF InCall
<1>20. Starters \cup Stoppers \cup Submitters \cup Collectors \subseteq Callers
  BY DEF Callers
<1> QED
  BY <1>2, <1>7, <1>8, <1>16, <1>17, <1>18, <1>19, <1>20 DEF Next

(* The worker behaves as the service, whatever its thread, its callers and the    *)
(* manager's locks interleave.                                                    *)
THEOREM WorkerIsAService == Spec => ImplementsService
<1>1. TypeInv /\ TypeInv' /\ LifeInv /\ [Next]_vars => [Service!Next]_(Service!vars)
  BY ServiceStep
<1> QED
  BY <1>1, ServiceInit, InvCorrect, PTL DEF Spec, ImplementsService, Service!Spec
=============================================================================
