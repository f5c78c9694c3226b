------------------------ MODULE NodeAndWorkerProofs ------------------------
(***************************************************************************)
(* The node with its worker: the pair takes the worker's steps and, seen     *)
(* through the numbers of the commands, the node's, so that what is proved    *)
(* of each holds of the two; and a stop that was read reaches the Move.        *)
(***************************************************************************)
EXTENDS NodeAndWorker, OpcuaWorkerProofs

InStart == {"startLock", "startSpawn", "startAwake", "startAsleep", "startJoin", "startJoining"}
InStop == {"stopJoin", "stopJoining", "stopDisconnected", "stopNotify"}

(* Where the node's thread is: from the constructor's end to the shutdown the    *)
(* queue is open and, until stop begins, the worker Ready.                        *)
NodeInPlace ==
  /\ node \in {"starting", "spinning", "ended", "failed"}
  /\ node = "starting" => pc[Main] \in InStart \cup {"idle"} /\ ~shutdown_requested
  /\ node = "spinning" =>
       /\ pc[Main] \in {"idle", "normal", "priority", "setAbort", "stopLock", "stopShutdown"}
       /\ ~shutdown_requested
       /\ pc[Main] # "stopShutdown" => worker_state = "Ready"
  /\ node = "failed" => pc[Main] \in {"idle", "threw"}
  /\ node = "ended" => pc[Main] \in InStop \cup {"idle", "threw"} /\ shutdown_requested
  /\ node \in {"starting", "failed"} => priority_queue = <<>> /\ command_queue = <<>>

(* What the worker has of a command is what the node has submitted with its     *)
(* number.                                                                       *)
Fits(c) ==
  c.id \in 1..Len(orders) /\ orders[c.id] \in Node!Command /\ c.type = WorkerType(orders[c.id].type)

OrdersFit ==
  /\ \A i \in 1..Len(priority_queue) : Fits(priority_queue[i])
  /\ \A i \in 1..Len(command_queue) : Fits(command_queue[i])
  /\ popped["worker"] # NoCommand => Fits(popped["worker"])
  /\ pc[Main] \in {"normal", "priority"} => Fits(request[Main])
  /\ pc[Main] = "normal" => request[Main].type # "Stop"

TopicInv ==
  /\ topic \in Seq(Texts) /\ messages \in 0..MaxMessages
  /\ orders \in Seq(Node!Command) /\ next_command_id = Len(orders) + 1
  /\ next_command_id + Len(topic) <= messages + 1

StopWaits ==
  /\ owed \in BOOLEAN
  /\ owed /\ node \in {"starting", "spinning"} => priority_queue # <<>> \/ pc[Main] = "priority"

SystemInv == NodeInPlace /\ OrdersFit /\ TopicInv /\ StopWaits

Alive == {"Connecting", "Ready", "Error"}

(* There is a thread to join from start until it is joined - by the start that    *)
(* failed, so that none is left when the constructor has thrown, or by stop.       *)
ThreadKept ==
  /\ pc[Main] # "threw"
  /\ node = "starting" =>
       IF pc[Main] \in {"idle", "startLock"} THEN worker_state = "Disconnected" ELSE worker_state \in Alive
  /\ joinable <=> \/ node = "starting" /\ pc[Main] \notin {"idle", "startLock", "startSpawn"}
                  \/ node = "spinning"
                  \/ pc[Main] \in {"stopJoin", "stopJoining"}

-----------------------------------------------------------------------------
LEMMA MainCalls ==
  /\ Main \in Callers /\ Main \in Starters /\ Main \in Stoppers /\ Main \in Submitters
  /\ Callers = {Main}
BY CallersAssumption DEF Callers

LEMMA TypesFit ==
  \A type : /\ WorkerType(type) \in CommandTypes
            /\ WorkerType(type) = "Stop" <=> type = "Stop"
            /\ type = "Stop" => QueueOf(type) = "priority" /\ WorkerType(type) \in PriorityTypes
            /\ type # "Stop" => QueueOf(type) = "normal" /\ WorkerType(type) \in NormalTypes
BY CallersAssumption DEF WorkerType, QueueOf, CommandTypes

(* The steps of the worker's thread other than RunPop leave the manager alone.   *)
LEMMA ThreadOutcome ==
  ASSUME TypeInv, RunStep
  PROVE  /\ UNCHANGED <<request, next_command_id, joinable>> /\ Stays(Main)
         /\ RunPop \/ (UNCHANGED managerVars /\ ~(run_pc = "pop" /\ run_pc' = "clearAbort"))
<1> USE MainCalls DEF dataVars, lifeVars, submitVars, managerVars
<1>1. pc \in [Callers -> CallLocations]
  BY DEF TypeInv, TypeOK
<1>2. CASE RunFailNotify \/ RunNotifyReady \/ RunNotifyStarters \/ RunDisconnectedNotify \/ RunPushResult
  <2>1. Stays(Main)
    BY <1>1, <1>2, Notification DEF RunFailNotify, RunNotifyReady, RunNotifyStarters,
      RunDisconnectedNotify, RunPushResult
  <2> QED
    BY <1>2, <2>1 DEF RunGoto, RunFailNotify, RunNotifyReady, RunNotifyStarters, RunDisconnectedNotify,
      RunPushResult
<1>3. CASE RunConnect \/ RunCheckStopping \/ RunRequestControl \/ RunReleaseControl \/ RunDisconnect
           \/ RunFail \/ RunReady \/ RunDisconnected \/ RunClearAbort \/ RunCall \/ RunPollAbort
           \/ RunPollStatus \/ RunMoveFails
  BY <1>3 DEF Stays, RunGoto, Finish, RunConnect, RunCheckStopping, RunRequestControl,
    RunReleaseControl, RunDisconnect, RunFail, RunReady, RunDisconnected, RunClearAbort, RunCall,
    RunPollAbort, RunPollStatus, RunMoveFails
<1>4. CASE RunPop
  BY <1>4 DEF Stays, RunPop
<1> QED
  BY <1>2, <1>3, <1>4 DEF RunStep

(* A worker that is Ready stays Ready until it is stopped.                       *)
LEMMA StaysReady ==
  ASSUME TypeInv, LifeInv, RunStep, ~shutdown_requested, worker_state = "Ready"
  PROVE  worker_state' = "Ready"
<1>1. run_pc \in {"notifyReady", "pop", "clearAbort", "call", "poll", "read", "push"}
  BY DEF LifeInv, BeforeShutdown, PhaseAt, TypeInv, TypeOK, RunLocations
<1> QED
  BY <1>1 DEF lifeVars, RunGoto, RunStep, RunConnect, RunCheckStopping, RunRequestControl, RunReleaseControl,
    RunDisconnect, RunFail, RunFailNotify, RunReady, RunNotifyReady, RunDisconnected,
    RunNotifyStarters, RunDisconnectedNotify, RunPop, RunClearAbort, RunCall, RunPollAbort,
    RunPollStatus, RunMoveFails, RunPushResult

(* And one that was not stopped only gets ready or fails.                         *)
LEMMA StaysAlive ==
  ASSUME TypeInv, LifeInv, RunStep, ~shutdown_requested, worker_state \in Alive
  PROVE  worker_state' \in Alive
<1>1. run_pc \notin {"none", "disconnectedNotify", "disconnected"}
  BY DEF LifeInv, BeforeShutdown, ThreadLife, PhaseAt, Alive, RunStep, RunGoto, RunConnect, RunCheckStopping,
    RunRequestControl, RunReleaseControl, RunDisconnect, RunFail, RunFailNotify, RunReady,
    RunNotifyReady, RunDisconnected, RunNotifyStarters, RunDisconnectedNotify, RunPop,
    RunClearAbort, RunCall, RunPollAbort, RunPollStatus, RunMoveFails, RunPushResult
<1> QED
  BY <1>1 DEF Alive, lifeVars, RunGoto, RunStep, RunConnect, RunCheckStopping, RunRequestControl,
    RunReleaseControl, RunDisconnect, RunFail, RunFailNotify, RunReady, RunNotifyReady,
    RunDisconnected, RunNotifyStarters, RunDisconnectedNotify, RunPop, RunClearAbort, RunCall,
    RunPollAbort, RunPollStatus, RunMoveFails, RunPushResult

(* A step of the system is one of the worker: no callback meets a worker that    *)
(* is not Ready.                                                                  *)
LEMMA WorkerStep ==
  ASSUME SystemInv, [SystemNext]_systemVars
  PROVE  [Next]_vars
<1> USE MainCalls
<1>1. CASE Callback
  <2>1. worker_state = "Ready"
    BY <1>1 DEF Callback, SystemInv, NodeInPlace
  <2>2. ASSUME NEW order \in Node!Meaning(Head(topic)),
               Submit(Main, WorkerType(order.type), QueueOf(order.type))
        PROVE  Next
    <3>1. CASE order.type = "Stop"
      BY <2>2, <3>1, TypesFit DEF Next
    <3>2. CASE order.type # "Stop"
      BY <2>2, <3>2, TypesFit DEF Next
    <3> QED BY <3>1, <3>2
  <2> QED BY <1>1, <2>1, <2>2 DEF Callback
<1>2. CASE BeginStart \/ BeginStop \/ InWorker \/ WorkerRuns \/ Wakeup
  BY <1>2 DEF BeginStart, BeginStop, InWorker, WorkerRuns, Wakeup, Next
<1>3. CASE PublishText
  BY <1>3 DEF PublishText
<1> QED
  BY <1>1, <1>2, <1>3 DEF SystemNext, systemVars

-----------------------------------------------------------------------------
(* The invariant is one.  *)

LEMMA SystemInvInit == SystemInit => SystemInv
<1> SUFFICES ASSUME SystemInit PROVE SystemInv
  OBVIOUS
<1> USE MainCalls, NodeAssumption DEF SystemInit, Init, Manager!Init
<1>1. NodeInPlace
  BY DEF NodeInPlace
<1>2. OrdersFit
  BY DEF OrdersFit
<1>3. TopicInv
  BY DEF TopicInv
<1>4. StopWaits
  BY DEF StopWaits
<1> QED
  BY <1>1, <1>2, <1>3, <1>4 DEF SystemInv

(* The commands keep fitting while the worker only moves them along.            *)
LEMMA OrdersStayFit ==
  ASSUME OrdersFit, UNCHANGED <<priority_queue, command_queue, popped, request, orders>>,
         pc'[Main] \in {"normal", "priority"} => pc'[Main] = pc[Main]
  PROVE  OrdersFit'
BY DEF OrdersFit, Fits

(* A callback adds the command to the orders and gives it to the worker.         *)
LEMMA CallbackStep ==
  ASSUME TypeInv, SystemInv, Callback
  PROVE  SystemInv'
<1> USE MainCalls, NodeAssumption
<1>1. /\ topic # <<>> /\ topic' = Tail(topic) /\ UNCHANGED <<node, messages>>
      /\ node = "spinning" /\ pc[Main] = "idle" /\ worker_state = "Ready"
      /\ topic \in Seq(Texts) /\ Head(topic) \in Texts
      /\ Len(topic) \in Nat /\ Len(topic') = Len(topic) - 1 /\ topic' \in Seq(Texts)
      /\ owed \in BOOLEAN
  <2>1. topic \in Seq(Texts)
    BY DEF SystemInv, TopicInv
  <2> QED BY <2>1 DEF Callback, SystemInv, NodeInPlace, StopWaits
<1>2. CASE UNCHANGED <<vars, owed, orders>>
  <2>1. UNCHANGED <<priority_queue, command_queue, popped, request, pc, worker_state,
                    shutdown_requested, next_command_id>>
    BY <1>2 DEF vars, dataVars, lifeVars, submitVars, managerVars
  <2>2. NodeInPlace' /\ OrdersFit' /\ StopWaits'
    BY <1>1, <1>2, <2>1, OrdersStayFit DEF SystemInv, NodeInPlace, StopWaits
  <2>3. TopicInv'
    BY <1>1, <1>2, <2>1 DEF SystemInv, TopicInv
  <2> QED BY <2>2, <2>3 DEF SystemInv
<1>3. ASSUME NEW order \in Node!Meaning(Head(topic)),
             Submit(Main, WorkerType(order.type), QueueOf(order.type)),
             orders' = Append(orders, Node!Numbered(order)), owed' = (owed \/ order.type = "Stop")
      PROVE  SystemInv'
  <2>1. /\ orders \in Seq(Node!Command) /\ next_command_id = Len(orders) + 1
        /\ Len(orders) \in Nat /\ next_command_id \in 1..MaxMessages
        /\ next_command_id + Len(topic) <= messages + 1 /\ messages \in 0..MaxMessages
    <3>1. orders \in Seq(Node!Command)
      BY DEF SystemInv, TopicInv
    <3>2. Len(topic) >= 1
      BY <1>1
    <3> QED BY <1>1, <3>1, <3>2 DEF SystemInv, TopicInv
  <2>2. /\ Node!Numbered(order) \in Node!Command /\ Node!Numbered(order).id = next_command_id
        /\ Node!Numbered(order).type = order.type
    <3>1. order \in Node!Orders
      BY <1>1 DEF Node!Orders
    <3> QED BY <2>1, <3>1 DEF Node!Numbered, Node!Command
  <2>3. /\ orders' \in Seq(Node!Command) /\ Len(orders') = Len(orders) + 1
        /\ \A k \in 1..Len(orders) : orders'[k] = orders[k]
        /\ orders'[next_command_id] = Node!Numbered(order)
    BY <1>3, <2>1, <2>2
  <2>4. /\ UNCHANGED <<priority_queue, command_queue, popped, worker_state, shutdown_requested>>
        /\ next_command_id' = next_command_id + 1 /\ pc'[Main] = QueueOf(order.type)
        /\ request'[Main] = [id |-> next_command_id, type |-> WorkerType(order.type)]
    BY <1>3 DEF Submit, Goto, TypeInv, TypeOK, lifeVars, managerVars
  <2>5. NodeInPlace'
    BY <1>1, <2>4, TypesFit DEF SystemInv, NodeInPlace
  <2>6. OrdersFit'
    <3>1. ASSUME NEW c, Fits(c) PROVE Fits(c)'
      <4>1. c.id \in 1..Len(orders) /\ c.id \in 1..Len(orders')
        BY <2>1, <2>3, <3>1 DEF Fits
      <4>2. orders'[c.id] = orders[c.id]
        BY <2>3, <4>1
      <4> QED BY <3>1, <4>1, <4>2 DEF Fits
    <3>2. Fits(request[Main])'
      <4>1. next_command_id \in 1..Len(orders')
        BY <2>1, <2>3
      <4> QED BY <2>2, <2>3, <2>4, <4>1 DEF Fits
    <3>3. \A i \in 1..Len(priority_queue') : Fits(priority_queue[i])'
      BY <2>4, <3>1 DEF SystemInv, OrdersFit
    <3>4. \A i \in 1..Len(command_queue') : Fits(command_queue[i])'
      BY <2>4, <3>1 DEF SystemInv, OrdersFit
    <3>5. popped'["worker"] # NoCommand => Fits(popped["worker"])'
      BY <2>4, <3>1 DEF SystemInv, OrdersFit
    <3>6. pc'[Main] = "normal" => request'[Main].type # "Stop"
      <4>1. request'[Main].type = WorkerType(order.type)
        BY <2>4
      <4>2. order.type = "Stop" => pc'[Main] = "priority"
        BY <2>4, TypesFit
      <4>3. order.type # "Stop" => WorkerType(order.type) # "Stop"
        BY TypesFit
      <4> QED BY <4>1, <4>2, <4>3
    <3> QED BY <3>2, <3>3, <3>4, <3>5, <3>6 DEF OrdersFit
  <2>7. TopicInv'
    BY <1>1, <2>1, <2>3, <2>4 DEF TopicInv
  <2>8. StopWaits'
    <3>1. owed' \in BOOLEAN
      BY <1>3
    <3>2. ASSUME owed' PROVE priority_queue' # <<>> \/ pc'[Main] = "priority"
      <4>1. CASE order.type = "Stop"
        BY <2>4, <4>1, TypesFit
      <4>2. CASE order.type # "Stop"
        <5>1. owed
          BY <1>3, <3>2, <4>2
        <5> QED BY <1>1, <2>4, <5>1 DEF SystemInv, StopWaits
      <4> QED BY <4>1, <4>2
    <3> QED BY <3>1, <3>2 DEF StopWaits
  <2> QED BY <2>5, <2>6, <2>7, <2>8 DEF SystemInv
<1> QED
  BY <1>1, <1>2, <1>3 DEF Callback

(* A call of the node's thread: start and stop move the node along, an enqueue   *)
(* puts the command in hand in its queue or leaves everything as it is.           *)
LEMMA InWorkerStep ==
  ASSUME TypeInv, LifeInv, SystemInv, InWorker
  PROVE  SystemInv'
<1> USE MainCalls DEF Goto
<1>1. /\ UNCHANGED <<topic, messages, owed, orders>> /\ InCall(Main) /\ owed \in BOOLEAN
      /\ pc \in [Callers -> CallLocations]
      /\ node' = CASE node = "starting" /\ pc'[Main] = "idle" -> Started
                   [] node = "starting" /\ pc'[Main] = "threw" -> "failed"
                   [] pc[Main] = "stopShutdown" -> "ended"
                   [] OTHER -> node
  BY DEF InWorker, SystemInv, StopWaits, TypeInv, TypeOK
<1>2. ASSUME UNCHANGED <<next_command_id>> PROVE TopicInv'
  BY <1>1, <1>2 DEF SystemInv, TopicInv
<1>3. ASSUME UNCHANGED <<priority_queue, command_queue, popped, request, next_command_id>>,
             pc'[Main] \notin {"normal", "priority"}, pc[Main] # "priority", NodeInPlace'
      PROVE  SystemInv'
  <2>1. node' \in {"starting", "spinning"} => node \in {"starting", "spinning"}
    BY <1>1 DEF SystemInv, NodeInPlace
  <2>2. StopWaits'
    BY <1>1, <1>3, <2>1 DEF SystemInv, StopWaits
  <2> QED BY <1>1, <1>2, <1>3, <2>2, OrdersStayFit DEF SystemInv
<1>4. ASSUME UNCHANGED dataVars
      PROVE  UNCHANGED <<priority_queue, command_queue, popped, request, next_command_id, shutdown_requested>>
  BY <1>4 DEF dataVars, submitVars, managerVars
<1>5. pc[Main] \in InStart => node = "starting"
  BY DEF SystemInv, NodeInPlace, InStart, InStop
<1>6. ASSUME pc[Main] \in InStart, pc'[Main] \in InStart \cup {"idle", "threw"},
             UNCHANGED dataVars, pc'[Main] = "idle" => UNCHANGED worker_state
      PROVE  SystemInv'
  <2>1. /\ node = "starting" /\ ~shutdown_requested /\ ~shutdown_requested'
        /\ priority_queue' = <<>> /\ command_queue' = <<>>
    BY <1>4, <1>5, <1>6 DEF SystemInv, NodeInPlace
  <2>2. node' = IF pc'[Main] = "idle" THEN Started ELSE IF pc'[Main] = "threw" THEN "failed" ELSE node
    BY <1>1, <1>6, <2>1 DEF InStart
  <2>3. NodeInPlace'
    BY <1>6, <2>1, <2>2 DEF NodeInPlace, InStart, Started
  <2> QED BY <1>3, <1>4, <1>6, <2>3 DEF InStart
<1>7. CASE StartConnecting(Main) \/ StartSpawn(Main) \/ StartWait(Main)
  BY <1>1, <1>6, <1>7 DEF StartConnecting, StartSpawn, StartWait, InStart, lifeVars
<1>8. CASE EnterJoin(Main) /\ pc[Main] = "startJoin"
  BY <1>1, <1>6, <1>8 DEF EnterJoin, InStart
<1>9. CASE Join(Main) /\ pc[Main] = "startJoining"
  BY <1>1, <1>6, <1>9 DEF Join, InStart
<1>10. CASE StopStopping(Main)
  <2>1. /\ pc[Main] = "stopLock" /\ pc'[Main] = "stopShutdown" /\ UNCHANGED dataVars
        /\ node = "spinning" /\ node' = "spinning"
    BY <1>1, <1>10 DEF StopStopping, SystemInv, NodeInPlace, InStart, InStop
  <2>2. NodeInPlace'
    BY <1>4, <2>1 DEF SystemInv, NodeInPlace
  <2> QED BY <1>3, <1>4, <2>1, <2>2
<1>11. CASE StopShutdown(Main)
  <2>1. /\ pc[Main] = "stopShutdown" /\ pc'[Main] = "stopJoin" /\ shutdown_requested'
        /\ UNCHANGED <<priority_queue, command_queue, popped, request, next_command_id>>
    BY <1>1, <1>11 DEF StopShutdown, Manager!Shutdown, submitVars
  <2>2. node' = "ended"
    BY <1>1, <2>1
  <2>3. NodeInPlace'
    BY <2>1, <2>2 DEF NodeInPlace, InStop
  <2> QED BY <1>3, <2>1, <2>3
<1>12. ASSUME pc[Main] \in InStop, pc'[Main] \in InStop \cup {"idle", "threw"}, UNCHANGED dataVars
       PROVE  SystemInv'
  <2>1. node = "ended" /\ node' = "ended" /\ shutdown_requested'
    BY <1>1, <1>4, <1>12 DEF SystemInv, NodeInPlace, InStart, InStop
  <2>2. NodeInPlace'
    BY <1>12, <2>1 DEF NodeInPlace
  <2> QED BY <1>3, <1>4, <1>12, <2>2 DEF InStop
<1>13. CASE (EnterJoin(Main) /\ pc[Main] = "stopJoin") \/ (Join(Main) /\ pc[Main] = "stopJoining")
            \/ StopDisconnected(Main)
  BY <1>1, <1>12, <1>13 DEF EnterJoin, Join, StopDisconnected, InStop
<1>14. CASE StopNotify(Main)
  BY <1>1, <1>12, <1>14 DEF StopNotify, AllWoken, InStop
<1>15. CASE SetAbort(Main)
  <2>1. /\ pc[Main] = "setAbort" /\ pc'[Main] = "idle" /\ node = "spinning" /\ node' = "spinning"
        /\ UNCHANGED <<priority_queue, command_queue, popped, request, next_command_id,
                       shutdown_requested, worker_state>>
    BY <1>1, <1>15 DEF SetAbort, SystemInv, NodeInPlace, InStart, InStop, lifeVars, submitVars, managerVars
  <2>2. NodeInPlace'
    BY <2>1 DEF SystemInv, NodeInPlace
  <2> QED BY <1>3, <2>1, <2>2
<1>16. CASE Enqueue(Main) \/ EnqueuePriority(Main)
  <2>1. /\ pc[Main] \in Queues /\ pc'[Main] \in {"idle", "setAbort"}
        /\ UNCHANGED <<popped, request, next_command_id, worker_state, shutdown_requested>>
    BY <1>1, <1>16, EnqueueOutcome DEF Accepts, Queues, managerVars, lifeVars, Manager!Enqueue,
      Manager!EnqueuePriority
  <2>2. node = "spinning" /\ node' = "spinning" /\ ~shutdown_requested /\ worker_state = "Ready"
    BY <1>1, <2>1 DEF SystemInv, NodeInPlace, InStart, InStop, Queues
  <2>3. NodeInPlace'
    BY <2>1, <2>2 DEF NodeInPlace
  <2>4. Fits(request[Main]) /\ request[Main] \in Command
    BY <2>1 DEF SystemInv, OrdersFit, Queues, TypeInv, CallersInPlace
  <2>5. priority_queue \in Seq(Command) /\ command_queue \in Seq(Command)
    BY DEF TypeInv, TypeOK, Manager!TypeOK
  <2>6. OrdersFit'
    <3>2. ASSUME UNCHANGED <<priority_queue, command_queue>> PROVE OrdersFit'
      BY <1>1, <2>1, <3>2, OrdersStayFit DEF SystemInv
    <3>3. CASE command_queue' = Append(command_queue, request[Main]) /\ UNCHANGED priority_queue
      <4>1. /\ Len(command_queue') = Len(command_queue) + 1
            /\ \A i \in 1..Len(command_queue') :
                 command_queue'[i] = IF i \in 1..Len(command_queue) THEN command_queue[i] ELSE request[Main]
        BY <2>4, <2>5, <3>3
      <4> QED BY <1>1, <2>1, <2>4, <3>3, <4>1 DEF SystemInv, OrdersFit, Fits
    <3>4. CASE priority_queue' = Append(priority_queue, request[Main]) /\ UNCHANGED command_queue
      <4>1. /\ Len(priority_queue') = Len(priority_queue) + 1
            /\ \A i \in 1..Len(priority_queue') :
                 priority_queue'[i] = IF i \in 1..Len(priority_queue) THEN priority_queue[i] ELSE request[Main]
        BY <2>4, <2>5, <3>4
      <4> QED BY <1>1, <2>1, <2>4, <3>4, <4>1 DEF SystemInv, OrdersFit, Fits
    <3> QED BY <1>16, <3>2, <3>3, <3>4, EnqueueOutcome DEF Accepts, managerVars
  <2>7. StopWaits'
    <3>1. CASE pc[Main] = "priority"
      <4>1. CASE Manager!EnqueuePriority(request[Main])
        BY <1>1, <2>4, <2>5, <4>1 DEF Manager!EnqueuePriority, StopWaits
      <4>2. CASE ~Manager!CanEnqueuePriority /\ UNCHANGED managerVars
        <5>1. Len(priority_queue) >= Capacity /\ Capacity \in Nat \ {0} /\ priority_queue' = priority_queue
          BY <2>2, <2>5, <4>2, ManagerAssumption DEF Manager!CanEnqueuePriority, managerVars
        <5> QED BY <1>1, <2>5, <5>1 DEF StopWaits
      <4> QED BY <1>16, <3>1, <4>1, <4>2 DEF Enqueue, EnqueuePriority
    <3>2. CASE pc[Main] = "normal"
      <4>1. UNCHANGED priority_queue
        BY <1>16, <3>2 DEF Enqueue, EnqueuePriority, Manager!Enqueue, managerVars
      <4> QED BY <1>1, <2>2, <3>2, <4>1 DEF SystemInv, StopWaits
    <3> QED BY <2>1, <3>1, <3>2 DEF Queues
  <2> QED BY <1>2, <2>1, <2>3, <2>6, <2>7 DEF SystemInv
<1>17. EnterJoin(Main) => pc[Main] \in {"startJoin", "stopJoin"}
  BY DEF EnterJoin
<1>18. Join(Main) => pc[Main] \in {"startJoining", "stopJoining"}
  BY DEF Join
<1> QED
  BY <1>1, <1>7, <1>8, <1>9, <1>10, <1>11, <1>13, <1>14, <1>15, <1>16, <1>17, <1>18 DEF InCall

(* A step of the worker's thread: it may take the first command of the line.      *)
LEMMA WorkerRunsStep ==
  ASSUME TypeInv, LifeInv, SystemInv, WorkerRuns
  PROVE  SystemInv'
<1> USE MainCalls
<1>1. /\ RunStep /\ owed' = (owed /\ ~(run_pc = "pop" /\ run_pc' = "clearAbort")) /\ owed \in BOOLEAN
      /\ UNCHANGED <<node, topic, messages, orders>>
  BY DEF WorkerRuns, topicVars, SystemInv, StopWaits
<1>2. UNCHANGED <<request, next_command_id>> /\ Stays(Main)
  BY <1>1, ThreadOutcome
<1>3. TopicInv'
  BY <1>1, <1>2 DEF SystemInv, TopicInv
<1>4. /\ pc'[Main] = pc[Main] \/ (pc[Main] = "startAsleep" /\ pc'[Main] = "startAwake")
      /\ pc[Main] \in {"normal", "priority"} <=> pc'[Main] \in {"normal", "priority"}
  BY <1>2 DEF Stays, SystemInv, NodeInPlace, InStart, InStop
<1>5. ASSUME UNCHANGED shutdown_requested,
             node \in {"starting", "failed"} => UNCHANGED <<priority_queue, command_queue>>
      PROVE  NodeInPlace'
  <2>1. ASSUME node = "spinning", worker_state = "Ready" PROVE worker_state' = "Ready"
    <3>1. ~shutdown_requested
      BY <2>1 DEF SystemInv, NodeInPlace
    <3> QED BY <1>1, <2>1, <3>1, StaysReady
  <2>2. NodeInPlace /\ UNCHANGED <<node, shutdown_requested>>
    BY <1>1, <1>5 DEF SystemInv
  <2>3. CASE pc'[Main] = pc[Main]
    BY <1>5, <2>1, <2>2, <2>3 DEF NodeInPlace
  <2>4. CASE pc[Main] = "startAsleep" /\ pc'[Main] = "startAwake"
    <3>1. node = "starting"
      BY <2>2, <2>4 DEF NodeInPlace, InStop
    <3> QED BY <1>5, <2>2, <2>4, <3>1 DEF NodeInPlace, InStart
  <2> QED BY <1>4, <2>3, <2>4
<1>6. CASE UNCHANGED managerVars
  <2>1. UNCHANGED <<priority_queue, command_queue, popped, shutdown_requested>>
    BY <1>6 DEF managerVars
  <2>2. NodeInPlace' /\ OrdersFit'
    BY <1>1, <1>2, <1>4, <1>5, <2>1, OrdersStayFit DEF SystemInv
  <2>3. StopWaits'
    BY <1>1, <1>4, <2>1 DEF SystemInv, StopWaits
  <2> QED BY <1>3, <2>2, <2>3 DEF SystemInv
<1>7. CASE RunPop
  <2>a. /\ Manager!TypeOK /\ priority_queue \in Seq(Command) /\ command_queue \in Seq(Command)
        /\ ThreadInPlace
    BY DEF TypeInv, TypeOK, Manager!TypeOK
  <2>1. /\ run_pc = "pop" /\ UNCHANGED <<shutdown_requested, pc>>
        /\ Sleeps \/ Leaves \/ TakesUrgent \/ TakesNormal
    BY <1>7, <2>a, PopOutcome DEF RunPop
  <2>2. CASE Sleeps \/ Leaves
    <3>1. UNCHANGED <<priority_queue, command_queue>> /\ (popped' = popped \/ popped'["worker"] = NoCommand)
      BY <2>2 DEF Sleeps, Leaves
    <3>2. OrdersFit'
      BY <1>1, <1>2, <2>1, <3>1 DEF SystemInv, OrdersFit, Fits
    <3>3. StopWaits'
      BY <1>1, <2>1, <3>1 DEF SystemInv, StopWaits
    <3> QED BY <1>3, <1>5, <2>1, <3>1, <3>2, <3>3 DEF SystemInv
  <2>3. CASE TakesUrgent
    <3>1. /\ priority_queue # <<>> /\ popped'["worker"] = priority_queue[1] /\ UNCHANGED command_queue
          /\ Len(priority_queue') = Len(priority_queue) - 1 /\ 1 \in 1..Len(priority_queue)
          /\ \A i \in 1..Len(priority_queue') :
               i + 1 \in 1..Len(priority_queue) /\ priority_queue'[i] = priority_queue[i + 1]
      BY <2>a, <2>3 DEF TakesUrgent, Takes
    <3>2. NodeInPlace'
      BY <1>5, <2>1, <3>1 DEF SystemInv, NodeInPlace
    <3>3. OrdersFit'
      BY <1>1, <1>2, <2>1, <3>1 DEF SystemInv, OrdersFit, Fits
    <3>4. ~owed'
      <4>1. priority_queue[1] \in Command /\ priority_queue[1].type = "Stop"
        BY <2>a, <3>1, CallersAssumption DEF ThreadInPlace
      <4>2. run_pc' = Dispatch(popped'["worker"])
        <5>1. "worker" \notin waiting'
          BY <2>3 DEF TakesUrgent, Takes, Manager!Blocked
        <5> QED BY <1>7, <5>1 DEF RunPop
      <4>3. run_pc' = "clearAbort"
        BY <3>1, <4>1, <4>2, ManagerAssumption DEF Dispatch
      <4> QED BY <1>1, <2>1, <4>3
    <3>5. StopWaits'
      BY <1>1, <3>4 DEF StopWaits
    <3> QED BY <1>3, <3>2, <3>3, <3>5 DEF SystemInv
  <2>4. CASE TakesNormal
    <3>1. /\ command_queue # <<>> /\ popped'["worker"] = command_queue[1] /\ UNCHANGED priority_queue
          /\ Len(command_queue') = Len(command_queue) - 1 /\ 1 \in 1..Len(command_queue)
          /\ \A i \in 1..Len(command_queue') :
               i + 1 \in 1..Len(command_queue) /\ command_queue'[i] = command_queue[i + 1]
      BY <2>a, <2>4 DEF TakesNormal, Takes
    <3>2. NodeInPlace'
      BY <1>5, <2>1, <3>1 DEF SystemInv, NodeInPlace
    <3>3. OrdersFit'
      BY <1>1, <1>2, <2>1, <3>1 DEF SystemInv, OrdersFit, Fits
    <3>4. StopWaits'
      BY <1>1, <2>1, <3>1 DEF SystemInv, StopWaits
    <3> QED BY <1>3, <3>2, <3>3, <3>4 DEF SystemInv
  <2> QED BY <2>1, <2>2, <2>3, <2>4
<1> QED
  BY <1>1, <1>6, <1>7, ThreadOutcome

LEMMA SystemInvStep ==
  ASSUME TypeInv, LifeInv, SystemInv, ThreadKept, [SystemNext]_systemVars
  PROVE  SystemInv'
<1> USE MainCalls DEF Goto
<1>a. pc \in [Callers -> CallLocations] /\ owed \in BOOLEAN
  BY DEF TypeInv, TypeOK, SystemInv, StopWaits
<1>1. ASSUME UNCHANGED <<priority_queue, command_queue, popped, request, next_command_id, shutdown_requested,
                         worker_state, nodeVars>>,
             \/ pc'[Main] = pc[Main]
             \/ pc[Main] = "startAsleep" /\ pc'[Main] = "startAwake"
             \/ node = "starting" /\ pc[Main] = "idle" /\ pc'[Main] = "startLock"
             \/ node = "spinning" /\ pc[Main] = "idle" /\ pc'[Main] = "stopLock"
      PROVE  SystemInv'
  <2>1. UNCHANGED <<node, topic, messages, owed, orders>>
    BY <1>1 DEF nodeVars, topicVars
  <2>2. NodeInPlace'
    BY <1>1, <2>1 DEF SystemInv, NodeInPlace, InStart, InStop
  <2>3. OrdersFit'
    BY <1>1, <2>1, OrdersStayFit DEF SystemInv
  <2>4. TopicInv' /\ StopWaits'
    BY <1>1, <2>1 DEF SystemInv, TopicInv, StopWaits
  <2> QED BY <2>2, <2>3, <2>4 DEF SystemInv
<1>2. CASE BeginStart \/ BeginStop
  <2>1. UNCHANGED <<priority_queue, command_queue, popped, request, next_command_id, shutdown_requested,
                    worker_state, nodeVars>>
    BY <1>2 DEF BeginStart, BeginStop, StartCheckThread, StopCheckThread, dataVars, lifeVars, submitVars,
      managerVars
  <2>2. \/ node = "starting" /\ pc[Main] = "idle" /\ pc'[Main] = "startLock"
        \/ node = "spinning" /\ pc[Main] = "idle" /\ pc'[Main] = "stopLock"
    BY <1>a, <1>2 DEF BeginStart, BeginStop, StartCheckThread, StopCheckThread, ThreadKept
  <2> QED BY <1>1, <2>1, <2>2
<1>3. CASE Wakeup
  <2>1. UNCHANGED <<priority_queue, command_queue, popped, request, next_command_id, shutdown_requested,
                    worker_state, nodeVars>>
    BY <1>3 DEF Wakeup, RunWokenSpuriously, SpuriousWakeup, Manager!SpuriousWakeup, dataVars, lifeVars,
      submitVars, managerVars
  <2>2. pc'[Main] = pc[Main] \/ (pc[Main] = "startAsleep" /\ pc'[Main] = "startAwake")
    BY <1>a, <1>3 DEF Wakeup, RunWokenSpuriously, SpuriousWakeup, SystemInv, NodeInPlace, InStart, InStop
  <2> QED BY <1>1, <2>1, <2>2
<1>4. CASE UNCHANGED systemVars
  <2>1. UNCHANGED <<priority_queue, command_queue, popped, request, next_command_id, shutdown_requested,
                    worker_state, nodeVars, pc>>
    BY <1>4 DEF systemVars, vars, dataVars, lifeVars, submitVars, managerVars
  <2> QED BY <1>1, <2>1
<1>5. CASE PublishText
  <2>1. /\ UNCHANGED <<priority_queue, command_queue, popped, request, next_command_id, shutdown_requested,
                       worker_state, pc, node, owed, orders>>
        /\ messages < MaxMessages /\ messages' = messages + 1
    BY <1>5 DEF PublishText, vars, dataVars, lifeVars, submitVars, managerVars
  <2>2. topic \in Seq(Texts) /\ topic' \in Seq(Texts) /\ Len(topic') <= Len(topic) + 1
        /\ Len(topic) \in Nat /\ Len(topic') \in Nat
    <3>1. PICK text \in Texts : topic' = Append(IF Len(topic) = Depth THEN Tail(topic) ELSE topic, text)
      BY <1>5 DEF PublishText, Node!Receive
    <3>2. topic \in Seq(Texts) /\ Depth \in Nat \ {0}
      BY NodeAssumption DEF SystemInv, TopicInv
    <3>3. CASE Len(topic) = Depth
      BY <3>1, <3>2, <3>3
    <3>4. CASE Len(topic) # Depth
      BY <3>1, <3>2, <3>4
    <3> QED BY <3>3, <3>4
  <2>3. NodeInPlace' /\ OrdersFit' /\ StopWaits'
    BY <1>a, <2>1, OrdersStayFit DEF SystemInv, NodeInPlace, StopWaits
  <2>4. TopicInv'
    BY <2>1, <2>2, NodeAssumption DEF SystemInv, TopicInv
  <2> QED BY <2>3, <2>4 DEF SystemInv
<1> QED
  BY <1>2, <1>3, <1>4, <1>5, CallbackStep, InWorkerStep, WorkerRunsStep DEF SystemNext

(* No step leaves the thread unjoined, or joins it twice.                          *)
LEMMA ThreadKeptStep ==
  ASSUME TypeInv, LifeInv, SystemInv, ThreadKept, [SystemNext]_systemVars
  PROVE  ThreadKept'
<1> USE MainCalls DEF Goto
<1>a. pc \in [Callers -> CallLocations] /\ joinable \in BOOLEAN /\ NodeInPlace
  BY DEF TypeInv, TypeOK, SystemInv
<1>1. ASSUME UNCHANGED <<joinable, worker_state, node>>,
             \/ pc'[Main] = pc[Main]
             \/ pc[Main] = "startAsleep" /\ pc'[Main] = "startAwake"
             \/ node = "starting" /\ pc[Main] = "idle" /\ pc'[Main] = "startLock"
             \/ node = "spinning" /\ pc'[Main] \notin {"threw", "stopJoin", "stopJoining"}
      PROVE  ThreadKept'
  BY <1>a, <1>1 DEF ThreadKept, NodeInPlace, InStop
<1>2. CASE BeginStart \/ BeginStop
  <2>1. UNCHANGED <<joinable, worker_state, node>>
    BY <1>2 DEF BeginStart, BeginStop, StartCheckThread, StopCheckThread, lifeVars, nodeVars, topicVars
  <2>2. \/ node = "starting" /\ pc[Main] = "idle" /\ pc'[Main] = "startLock"
        \/ node = "spinning" /\ pc'[Main] = "stopLock"
    BY <1>a, <1>2 DEF BeginStart, BeginStop, StartCheckThread, StopCheckThread, ThreadKept
  <2> QED BY <1>1, <2>1, <2>2
<1>3. CASE PublishText \/ UNCHANGED systemVars
  BY <1>1, <1>3 DEF PublishText, systemVars, nodeVars, topicVars, vars, lifeVars
<1>4. CASE Callback
  <2>1. UNCHANGED <<joinable, worker_state, node>> /\ node = "spinning" /\ pc[Main] = "idle"
    BY <1>4 DEF Callback, Submit, vars, lifeVars
  <2>2. pc'[Main] = "idle" \/ \E type : pc'[Main] = QueueOf(type)
    BY <1>a, <1>4, <2>1 DEF Callback, Submit, vars
  <2> QED BY <1>1, <2>1, <2>2 DEF QueueOf
<1>5. CASE Wakeup
  <2>1. UNCHANGED <<joinable, worker_state, node>>
    BY <1>5 DEF Wakeup, RunWokenSpuriously, SpuriousWakeup, lifeVars, nodeVars, topicVars
  <2>2. pc'[Main] = pc[Main] \/ (pc[Main] = "startAsleep" /\ pc'[Main] = "startAwake")
    BY <1>a, <1>5 DEF Wakeup, RunWokenSpuriously, SpuriousWakeup, NodeInPlace, InStart, InStop
  <2> QED BY <1>1, <2>1, <2>2
<1>6. CASE WorkerRuns
  <2>1. RunStep /\ UNCHANGED <<joinable, node>> /\ Stays(Main)
    BY <1>6, ThreadOutcome DEF WorkerRuns, topicVars
  <2>2. pc'[Main] = pc[Main] \/ (pc[Main] = "startAsleep" /\ pc'[Main] = "startAwake")
    BY <1>a, <2>1 DEF Stays, NodeInPlace, InStart, InStop
  <2>3. CASE node = "starting"
    <3>1. run_pc # "none"
      BY <2>1 DEF RunStep, RunGoto, RunConnect, RunCheckStopping, RunRequestControl, RunReleaseControl,
        RunDisconnect, RunFail, RunFailNotify, RunReady, RunNotifyReady, RunDisconnected,
        RunNotifyStarters, RunDisconnectedNotify, RunPop, RunClearAbort, RunCall, RunPollAbort,
        RunPollStatus, RunMoveFails, RunPushResult
    <3>2. joinable
      BY <3>1 DEF LifeInv, ThreadLife
    <3>3. pc[Main] \in InStart \cup {"idle"} /\ ~shutdown_requested
      BY <1>a, <2>3 DEF NodeInPlace
    <3>4. pc[Main] \notin {"idle", "startLock", "startSpawn"}
      BY <2>3, <3>2, <3>3 DEF ThreadKept, InStart
    <3>5. worker_state' \in Alive
      BY <2>1, <2>3, <3>3, <3>4, StaysAlive DEF ThreadKept
    <3> QED BY <2>1, <2>2, <2>3, <3>2, <3>4, <3>5 DEF ThreadKept
  <2>4. CASE node # "starting"
    BY <2>1, <2>2, <2>4 DEF ThreadKept
  <2> QED BY <2>3, <2>4
<1>7. CASE InWorker
  <2>1. /\ InCall(Main)
        /\ node' = CASE node = "starting" /\ pc'[Main] = "idle" -> Started
                     [] node = "starting" /\ pc'[Main] = "threw" -> "failed"
                     [] pc[Main] = "stopShutdown" -> "ended"
                     [] OTHER -> node
    BY <1>7 DEF InWorker
  <2>2. pc[Main] \in InStart => node = "starting" /\ ~shutdown_requested
    BY <1>a DEF NodeInPlace, InStart, InStop
  <2>3. pc[Main] \in InStop => node = "ended"
    BY <1>a DEF NodeInPlace, InStart, InStop
  <2>4. CASE StartConnecting(Main)
    <3>1. /\ pc[Main] = "startLock" /\ node = "starting" /\ worker_state = "Disconnected"
          /\ UNCHANGED joinable
      BY <2>2, <2>4 DEF StartConnecting, ThreadKept, InStart
    <3>2. pc'[Main] = "startSpawn" /\ worker_state' = "Connecting" /\ node' = "starting"
      BY <1>a, <2>1, <2>4, <3>1 DEF StartConnecting
    <3> QED BY <3>1, <3>2 DEF ThreadKept, Alive
  <2>5. CASE StartSpawn(Main)
    <3>1. /\ pc[Main] = "startSpawn" /\ pc'[Main] = "startAwake" /\ node = "starting"
          /\ joinable' /\ UNCHANGED worker_state
      BY <1>a, <2>2, <2>5 DEF StartSpawn, InStart
    <3>2. node' = "starting"
      BY <2>1, <3>1
    <3> QED BY <3>1, <3>2 DEF ThreadKept
  <2>6. CASE StartWait(Main)
    <3>1. pc[Main] = "startAwake" /\ node = "starting" /\ UNCHANGED <<joinable, worker_state>>
      BY <2>2, <2>6 DEF StartWait, InStart, lifeVars
    <3>2. worker_state \in Alive /\ joinable
      BY <3>1 DEF ThreadKept
    <3>3. CASE worker_state = "Ready"
      <4>1. pc'[Main] = "idle" /\ node' = "spinning"
        BY <1>a, <2>1, <2>6, <3>1, <3>3 DEF StartWait, Started
      <4> QED BY <3>1, <3>2, <4>1 DEF ThreadKept
    <3>4. CASE worker_state \in {"Connecting", "Error"}
      <4>1. pc'[Main] \in {"startAsleep", "startJoin"}
        BY <1>a, <2>6, <3>4 DEF StartWait
      <4>2. node' = "starting"
        BY <2>1, <3>1, <4>1
      <4> QED BY <3>1, <3>2, <4>1, <4>2 DEF ThreadKept
    <3> QED BY <3>2, <3>3, <3>4 DEF Alive
  <2>7. CASE EnterJoin(Main)
    <3>1. /\ pc[Main] \in {"startJoin", "stopJoin"} /\ UNCHANGED <<joinable, worker_state>>
      BY <2>7 DEF EnterJoin, lifeVars
    <3>2. joinable /\ Joining = {}
      BY <2>2, <3>1 DEF ThreadKept, Joining, InStart
    <3>3. CASE pc[Main] = "startJoin"
      <4>1. pc'[Main] = "startJoining" /\ node = "starting"
        BY <1>a, <2>2, <2>7, <3>2, <3>3 DEF EnterJoin, InStart
      <4>2. node' = "starting"
        BY <2>1, <3>3, <4>1
      <4> QED BY <3>1, <3>2, <3>3, <4>1, <4>2 DEF ThreadKept
    <3>4. CASE pc[Main] = "stopJoin"
      <4>1. pc'[Main] = "stopJoining" /\ node = "ended"
        BY <1>a, <2>3, <2>7, <3>2, <3>4 DEF EnterJoin, InStop
      <4>2. node' = "ended"
        BY <2>1, <3>4, <4>1
      <4> QED BY <3>1, <3>2, <4>1, <4>2 DEF ThreadKept
    <3> QED BY <3>1, <3>3, <3>4
  <2>8. CASE Join(Main)
    <3>1. ~joinable' /\ UNCHANGED worker_state
      BY <2>8 DEF Join
    <3>2. CASE pc[Main] = "startJoining"
      <4>1. pc'[Main] = "idle" /\ node = "starting" /\ ~shutdown_requested
        BY <1>a, <2>2, <2>8, <3>2 DEF Join, InStart
      <4>2. worker_state # "Ready"
        BY <3>2, <4>1 DEF LifeInv, BeforeShutdown
      <4>3. node' = "failed"
        BY <2>1, <3>2, <4>1, <4>2 DEF Started
      <4> QED BY <3>1, <4>1, <4>3 DEF ThreadKept
    <3>3. CASE pc[Main] = "stopJoining"
      <4>1. pc'[Main] = "stopDisconnected" /\ node = "ended"
        BY <1>a, <2>3, <2>8, <3>3 DEF Join, InStop
      <4>2. node' = "ended"
        BY <2>1, <3>3, <4>1
      <4> QED BY <3>1, <4>1, <4>2 DEF ThreadKept
    <3> QED BY <2>8, <3>2, <3>3 DEF Join
  <2>9. CASE StopStopping(Main)
    <3>1. pc[Main] = "stopLock" /\ pc'[Main] = "stopShutdown" /\ UNCHANGED joinable
      BY <1>a, <2>9 DEF StopStopping
    <3>2. node = "spinning" /\ node' = "spinning"
      BY <1>a, <2>1, <3>1 DEF NodeInPlace, InStart, InStop
    <3> QED BY <3>1, <3>2 DEF ThreadKept
  <2>10. CASE StopShutdown(Main)
    <3>1. pc[Main] = "stopShutdown" /\ pc'[Main] = "stopJoin" /\ UNCHANGED joinable
      BY <1>a, <2>10 DEF StopShutdown, lifeVars
    <3>2. node = "spinning" /\ node' = "ended"
      BY <1>a, <2>1, <3>1 DEF NodeInPlace, InStart, InStop
    <3> QED BY <3>1, <3>2 DEF ThreadKept
  <2>11. CASE StopDisconnected(Main) \/ StopNotify(Main)
    <3>1. /\ pc[Main] \in {"stopDisconnected", "stopNotify"} /\ pc'[Main] \in {"stopNotify", "idle"}
          /\ UNCHANGED joinable
      BY <1>a, <2>11 DEF StopDisconnected, StopNotify, AllWoken, lifeVars
    <3>2. node = "ended" /\ node' = "ended"
      BY <2>1, <2>3, <3>1 DEF InStop
    <3> QED BY <3>1, <3>2 DEF ThreadKept
  <2>12. CASE Enqueue(Main) \/ EnqueuePriority(Main) \/ SetAbort(Main)
    <3>1. /\ pc[Main] \in {"normal", "priority", "setAbort"} /\ pc'[Main] \in {"idle", "setAbort"}
          /\ UNCHANGED <<joinable, worker_state>>
      BY <1>a, <2>12 DEF Enqueue, EnqueuePriority, SetAbort, lifeVars
    <3>2. node = "spinning" /\ node' = "spinning"
      BY <1>a, <2>1, <3>1 DEF NodeInPlace, InStart, InStop
    <3> QED BY <1>1, <3>1, <3>2
  <2> QED
    BY <2>1, <2>4, <2>5, <2>6, <2>7, <2>8, <2>9, <2>10, <2>11, <2>12 DEF InCall
<1> QED
  BY <1>2, <1>3, <1>4, <1>5, <1>6, <1>7 DEF SystemNext

LEMMA SystemInvCorrect == SystemSpec => [](TypeInv /\ LifeInv /\ SystemInv /\ ThreadKept)
<1>1. SystemInit => ThreadKept
  BY MainCalls DEF SystemInit, Init, ThreadKept
<1>2. SystemInit => TypeInv /\ LifeInv /\ SystemInv
  BY SystemInvInit, TypeInit, LifeInit DEF SystemInit
<1>3. TypeInv /\ LifeInv /\ SystemInv /\ ThreadKept /\ [SystemNext]_systemVars
        => TypeInv' /\ LifeInv' /\ SystemInv' /\ ThreadKept'
  BY SystemInvStep, ThreadKeptStep, WorkerStep, TypeStep, LifeStep
<1> QED
  BY <1>1, <1>2, <1>3, PTL DEF SystemSpec

(* The node's constructor and the destructors of node and worker, which call stop   *)
(* one after the other, never throw at join.                                         *)
THEOREM NobodyEverThrows == SystemSpec => []NobodyThrows
<1>1. ThreadKept => NobodyThrows
  BY DEF ThreadKept, NobodyThrows
<1> QED
  BY <1>1, SystemInvCorrect, PTL

(* The worker in this system is the one OpcuaWorker describes - a callback never   *)
(* meets one that is not Ready - so every theorem about it holds here.             *)
THEOREM SystemIsAWorker == SystemSpec => Spec
<1>1. SystemInit => Init
  BY DEF SystemInit
<1>2. SystemInv /\ [SystemNext]_systemVars => [Next]_vars
  BY WorkerStep
<1> QED
  BY <1>1, <1>2, SystemInvCorrect, PTL DEF SystemSpec, Spec

(* A stop that a callback has read reaches the Move under way when the callback    *)
(* has returned.                                                                    *)
THEOREM HeardStopsAbort == SystemSpec => []HeardStopAborts
<1>1. "Move" \notin PriorityTypes
  BY CallersAssumption
<1>2. ASSUME TypeInv, SystemInv, StopReachesMove, owed, Moving, node = "spinning", pc[Main] = "idle"
      PROVE  abort_requested
  <2>1. priority_queue # <<>> /\ priority_queue \in Seq(Command) /\ ThreadInPlace
    BY <1>2 DEF SystemInv, StopWaits, TypeInv, TypeOK, Manager!TypeOK
  <2>2. 1 \in DOMAIN priority_queue /\ priority_queue[1].type = "Stop"
    BY <2>1, CallersAssumption DEF ThreadInPlace
  <2> QED BY <1>2, <2>2, CallersAssumption DEF StopReachesMove
<1>3. TypeInv /\ SystemInv /\ StopReachesMove => HeardStopAborts
  BY <1>2 DEF HeardStopAborts
<1>4. Spec => []StopReachesMove
  BY <1>1, StopsAreSeen
<1> QED
  BY <1>3, <1>4, SystemIsAWorker, SystemInvCorrect, PTL

-----------------------------------------------------------------------------
(* A line of worker commands seen through the numbers of the commands.            *)

Mapped(s, o) == [i \in DOMAIN s |-> o[s[i].id]]
Into(s, o, S) == \A i \in 1..Len(s) : o[s[i].id] \in S

LEMMA MappedLine ==
  ASSUME NEW C, NEW S, NEW o, NEW s \in Seq(C), Into(s, o, S)
  PROVE  /\ Mapped(s, o) \in Seq(S) /\ Len(Mapped(s, o)) = Len(s)
         /\ \A i \in 1..Len(s) : Mapped(s, o)[i] = o[s[i].id]
<1>1. DOMAIN s = 1..Len(s) /\ Len(s) \in Nat
  OBVIOUS
<1>2. Mapped(s, o) \in [1..Len(s) -> S]
  BY <1>1 DEF Mapped, Into
<1>3. Mapped(s, o) \in Seq(S) /\ Len(Mapped(s, o)) = Len(s)
  BY <1>1, <1>2
<1> QED BY <1>1, <1>3 DEF Mapped

LEMMA MappedAppend ==
  ASSUME NEW C, NEW S, NEW o, NEW s \in Seq(C), NEW c \in C,
         Into(s, o, S), o[c.id] \in S
  PROVE  Mapped(Append(s, c), o) = Append(Mapped(s, o), o[c.id])
<1> DEFINE t == Append(s, c)
           m == Append(Mapped(s, o), o[c.id])
<1>1. /\ t \in Seq(C) /\ Len(t) = Len(s) + 1 /\ Len(s) \in Nat
      /\ \A i \in 1..(Len(s) + 1) : t[i] = IF i \in 1..Len(s) THEN s[i] ELSE c
  OBVIOUS
<1>2. /\ Mapped(s, o) \in Seq(S) /\ Len(Mapped(s, o)) = Len(s)
      /\ \A i \in 1..Len(s) : Mapped(s, o)[i] = o[s[i].id]
  BY MappedLine
<1>3. /\ m \in Seq(S) /\ Len(m) = Len(s) + 1
      /\ \A i \in 1..(Len(s) + 1) : m[i] = IF i \in 1..Len(s) THEN o[s[i].id] ELSE o[c.id]
  BY <1>1, <1>2
<1> HIDE DEF t, m
<1>4. \A i \in 1..(Len(s) + 1) : o[t[i].id] = m[i]
  BY <1>1, <1>3
<1>5. DOMAIN t = 1..(Len(s) + 1) /\ m \in [1..(Len(s) + 1) -> S]
  BY <1>1, <1>3
<1>6. Mapped(t, o) = [i \in 1..(Len(s) + 1) |-> m[i]]
  BY <1>4, <1>5 DEF Mapped
<1> QED BY <1>5, <1>6 DEF t, m

LEMMA MappedConcat ==
  ASSUME NEW C, NEW S, NEW o, NEW s \in Seq(C), NEW t \in Seq(C),
         Into(s, o, S), Into(t, o, S)
  PROVE  Mapped(s \o t, o) = Mapped(s, o) \o Mapped(t, o)
<1> DEFINE u == s \o t
           m == Mapped(s, o) \o Mapped(t, o)
           n == Len(s) + Len(t)
<1>1. /\ u \in Seq(C) /\ Len(u) = n /\ Len(s) \in Nat /\ Len(t) \in Nat
      /\ \A i \in 1..n : u[i] = IF i <= Len(s) THEN s[i] ELSE t[i - Len(s)]
  BY ConcatProperties
<1>2. /\ Mapped(s, o) \in Seq(S) /\ Len(Mapped(s, o)) = Len(s)
      /\ \A i \in 1..Len(s) : Mapped(s, o)[i] = o[s[i].id]
  BY MappedLine
<1>3. /\ Mapped(t, o) \in Seq(S) /\ Len(Mapped(t, o)) = Len(t)
      /\ \A i \in 1..Len(t) : Mapped(t, o)[i] = o[t[i].id]
  BY MappedLine
<1>4. /\ m \in Seq(S) /\ Len(m) = n
      /\ \A i \in 1..n : m[i] = IF i <= Len(s) THEN Mapped(s, o)[i] ELSE Mapped(t, o)[i - Len(s)]
  <2> DEFINE f == Mapped(s, o)
             g == Mapped(t, o)
  <2>1. f \in Seq(S) /\ g \in Seq(S) /\ Len(f) = Len(s) /\ Len(g) = Len(t)
    BY <1>2, <1>3
  <2> HIDE DEF f, g
  <2>2. /\ f \o g \in Seq(S) /\ Len(f \o g) = Len(f) + Len(g)
        /\ \A i \in 1..(Len(f) + Len(g)) : (f \o g)[i] = IF i <= Len(f) THEN f[i] ELSE g[i - Len(f)]
    BY <2>1, ConcatProperties
  <2> QED BY <2>1, <2>2 DEF f, g
<1> HIDE DEF u, m
<1>5. ASSUME NEW i \in 1..n PROVE o[u[i].id] = m[i]
  <2>1. CASE i <= Len(s)
    BY <1>1, <1>2, <1>4, <2>1
  <2>2. CASE ~(i <= Len(s))
    <3>1. i - Len(s) \in 1..Len(t)
      BY <1>1, <2>2
    <3> QED BY <1>1, <1>3, <1>4, <2>2, <3>1
  <2> QED BY <2>1, <2>2
<1>6. DOMAIN u = 1..n /\ m \in [1..n -> S]
  BY <1>1, <1>4
<1>7. Mapped(u, o) = [i \in 1..n |-> m[i]]
  BY <1>5, <1>6 DEF Mapped
<1> QED BY <1>6, <1>7 DEF u, m

LEMMA MappedTail ==
  ASSUME NEW C, NEW S, NEW o, NEW s \in Seq(C), s # <<>>, Into(s, o, S)
  PROVE  /\ Mapped(s, o) # <<>> /\ Head(Mapped(s, o)) = o[s[1].id]
         /\ Mapped(Tail(s), o) = Tail(Mapped(s, o))
<1> DEFINE t == Tail(s)
           m == Tail(Mapped(s, o))
<1>1. /\ t \in Seq(C) /\ Len(t) = Len(s) - 1 /\ Len(s) \in Nat \ {0}
      /\ \A i \in 1..(Len(s) - 1) : t[i] = s[i + 1]
  OBVIOUS
<1>2. /\ Mapped(s, o) \in Seq(S) /\ Len(Mapped(s, o)) = Len(s)
      /\ \A i \in 1..Len(s) : Mapped(s, o)[i] = o[s[i].id]
  BY MappedLine
<1>3. /\ Mapped(s, o) # <<>> /\ Head(Mapped(s, o)) = Mapped(s, o)[1] /\ 1 \in 1..Len(s)
      /\ m \in Seq(S) /\ Len(m) = Len(s) - 1 /\ \A i \in 1..(Len(s) - 1) : m[i] = Mapped(s, o)[i + 1]
  BY <1>1, <1>2
<1> HIDE DEF t, m
<1>4. ASSUME NEW i \in 1..(Len(s) - 1) PROVE o[t[i].id] = m[i]
  <2>1. i + 1 \in 1..Len(s)
    BY <1>1
  <2> QED BY <1>1, <1>2, <1>3, <2>1
<1>5. DOMAIN t = 1..(Len(s) - 1) /\ m \in [1..(Len(s) - 1) -> S]
  BY <1>1, <1>3
<1>6. Mapped(t, o) = [i \in 1..(Len(s) - 1) |-> m[i]]
  BY <1>4, <1>5 DEF Mapped
<1> QED BY <1>2, <1>3, <1>5, <1>6 DEF t, m

(* The line of the worker is a line of the node's commands.                      *)
LEMMA LineMaps ==
  ASSUME TypeInv, SystemInv
  PROVE  /\ priority_queue \in Seq(Command) /\ command_queue \in Seq(Command)
         /\ Into(priority_queue, orders, Node!Command) /\ Into(command_queue, orders, Node!Command)
         /\ Waiting = Mapped(priority_queue, orders) \o Mapped(command_queue, orders)
         /\ Mapped(priority_queue, orders) \in Seq(Node!Command)
         /\ Mapped(command_queue, orders) \in Seq(Node!Command)
         /\ Len(Mapped(priority_queue, orders)) = Len(priority_queue)
         /\ Len(Mapped(command_queue, orders)) = Len(command_queue)
<1>1. priority_queue \in Seq(Command) /\ command_queue \in Seq(Command)
  BY DEF TypeInv, TypeOK, Manager!TypeOK
<1>2. Into(priority_queue, orders, Node!Command) /\ Into(command_queue, orders, Node!Command)
  BY DEF SystemInv, OrdersFit, Fits, Into
<1>3. Waiting = Mapped(priority_queue \o command_queue, orders)
  BY DEF Waiting, Line, Mapped
<1>4. Mapped(priority_queue \o command_queue, orders)
        = Mapped(priority_queue, orders) \o Mapped(command_queue, orders)
  BY <1>1, <1>2, MappedConcat
<1> QED BY <1>1, <1>2, <1>3, <1>4, MappedLine

(* A step that moves neither the node nor the line is a stutter of the node.      *)
LineStays == UNCHANGED <<priority_queue, command_queue, shutdown_requested, Manager!Blocked, popped>>

LEMMA LineStaying ==
  ASSUME LineStays, UNCHANGED orders
  PROVE  UNCHANGED Node!channelVars
<1>1. Waiting' = Waiting /\ Received' = Received
  BY DEF LineStays, Waiting, Line, Received
<1> QED
  BY <1>1 DEF LineStays, Node!channelVars

LEMMA NodeStutters ==
  ASSUME LineStays, UNCHANGED <<nodeVars, next_command_id>>, InHand' = InHand
  PROVE  UNCHANGED Node!vars
BY LineStaying DEF nodeVars, topicVars, Node!vars

LEMMA HandStays ==
  ASSUME UNCHANGED <<request, orders>>, pc[Main] \in {"normal", "priority"} <=> pc'[Main] \in {"normal", "priority"},
         pc[Main] \in {"normal", "priority"} => pc'[Main] = pc[Main]
  PROVE  InHand' = InHand
BY DEF InHand

(* The callback, seen from the node: the orders of the commands before stay what   *)
(* they are.                                                                        *)
LEMMA NodeCallback ==
  ASSUME TypeInv, SystemInv, Callback
  PROVE  Node!CommandCallback
<1> USE MainCalls
<1>1. /\ node = "spinning" /\ pc[Main] = "idle" /\ topic # <<>> /\ topic' = Tail(topic)
      /\ UNCHANGED <<node, messages>> /\ worker_state = "Ready"
  BY DEF Callback, SystemInv, NodeInPlace
<1>2. InHand = NoCommand
  BY <1>1 DEF InHand
<1>3. CASE Node!Meaning(Head(topic)) = {} /\ UNCHANGED <<vars, owed, orders>>
  <2>1. UNCHANGED <<priority_queue, command_queue, popped, waiting, notified, shutdown_requested, request, pc,
                    next_command_id>>
    BY <1>3 DEF vars, dataVars, lifeVars, submitVars, managerVars
  <2>2. LineStays /\ InHand' = InHand
    BY <1>3, <2>1 DEF LineStays, Manager!Blocked, InHand
  <2>3. UNCHANGED Node!channelVars
    BY <1>3, <2>2, LineStaying
  <2> QED BY <1>1, <1>2, <1>3, <2>1, <2>2, <2>3 DEF Node!CommandCallback
<1>4. ASSUME NEW order \in Node!Meaning(Head(topic)),
             Submit(Main, WorkerType(order.type), QueueOf(order.type)),
             orders' = Append(orders, Node!Numbered(order)), owed' = (owed \/ order.type = "Stop")
      PROVE  Node!CommandCallback
  <2>1. /\ UNCHANGED <<priority_queue, command_queue, popped, waiting, notified, shutdown_requested>>
        /\ next_command_id' = next_command_id + 1 /\ pc'[Main] = QueueOf(order.type)
        /\ request'[Main].id = next_command_id
    BY <1>4 DEF Submit, Goto, TypeInv, TypeOK, lifeVars, managerVars
  <2>2. orders \in Seq(Node!Command) /\ next_command_id = Len(orders) + 1 /\ Len(orders) \in Nat
    BY DEF SystemInv, TopicInv
  <2>3. /\ \A k \in 1..Len(orders) : orders'[k] = orders[k]
        /\ orders'[next_command_id] = Node!Numbered(order)
    BY <1>4, <2>2
  <2>4. InHand' = Node!Numbered(order)
    BY <2>1, <2>3 DEF InHand, QueueOf
  <2>5. Waiting' = Waiting
    <3>1. ASSUME NEW i \in DOMAIN Line PROVE orders'[Line[i].id] = orders[Line[i].id]
      <4>1. /\ priority_queue \in Seq(Command) /\ command_queue \in Seq(Command)
            /\ Len(priority_queue) \in Nat /\ Len(command_queue) \in Nat
        BY DEF TypeInv, TypeOK, Manager!TypeOK
      <4>2. /\ i \in 1..(Len(priority_queue) + Len(command_queue))
            /\ Line[i] = IF i <= Len(priority_queue) THEN priority_queue[i]
                         ELSE command_queue[i - Len(priority_queue)]
        BY <3>1, <4>1, ConcatProperties DEF Line
      <4>3. Fits(Line[i])
        <5>1. CASE i <= Len(priority_queue)
          BY <4>1, <4>2, <5>1 DEF SystemInv, OrdersFit
        <5>2. CASE ~(i <= Len(priority_queue))
          <6>1. i - Len(priority_queue) \in 1..Len(command_queue)
            BY <4>1, <4>2, <5>2
          <6> QED BY <4>2, <5>2, <6>1 DEF SystemInv, OrdersFit
        <5> QED BY <5>1, <5>2
      <4> QED BY <2>3, <4>3 DEF Fits
    <3>2. Line' = Line
      BY <2>1 DEF Line
    <3> QED BY <3>1, <3>2 DEF Waiting
  <2>6. Received' = Received
    <3>1. popped["worker"] # NoCommand => orders'[popped["worker"].id] = orders[popped["worker"].id]
      BY <2>3 DEF SystemInv, OrdersFit, Fits
    <3> QED BY <2>1, <3>1 DEF Received
  <2>7. UNCHANGED Node!channelVars
    BY <2>1, <2>5, <2>6 DEF Node!channelVars, Manager!Blocked
  <2> QED BY <1>1, <1>2, <1>4, <2>1, <2>4, <2>7 DEF Node!CommandCallback
<1> QED
  BY <1>1, <1>3, <1>4 DEF Callback

(* The end of an enqueue: the command in hand is handed on.                       *)
LEMMA NodeHandsOn ==
  ASSUME TypeInv, SystemInv, InWorker, Enqueue(Main) \/ EnqueuePriority(Main)
  PROVE  Node!CallWorker
<1> USE MainCalls
<1>a. /\ pc[Main] \in Queues /\ pc'[Main] \in {"idle", "setAbort"} /\ UNCHANGED <<next_command_id, shutdown_requested, popped>>
      /\ Manager!Blocked' = Manager!Blocked
  <2>1. pc \in [Callers -> CallLocations]
    BY DEF TypeInv, TypeOK
  <2> QED
    BY <2>1, EnqueueOutcome DEF Accepts, Queues, managerVars, Manager!Enqueue, Manager!EnqueuePriority,
      Manager!NotifyOne, Manager!Blocked
<1>b. /\ node = "spinning" /\ node' = node /\ ~shutdown_requested
      /\ UNCHANGED <<topic, messages, owed, orders>>
  BY <1>a DEF InWorker, SystemInv, NodeInPlace, InStart, InStop, Queues
<1>c. /\ InHand = orders[request[Main].id] /\ InHand \in Node!Command /\ InHand # NoCommand
      /\ InHand' = NoCommand /\ (InHand.type = "Stop" <=> pc[Main] = "priority")
      /\ request[Main] \in Command
  <2>1. Fits(request[Main]) /\ InHand = orders[request[Main].id] /\ InHand' = NoCommand
    BY <1>a DEF SystemInv, OrdersFit, Queues, InHand
  <2>2. InHand \in Node!Command /\ (InHand.type = "Stop" <=> request[Main].type = "Stop")
    BY <2>1, TypesFit DEF Fits
  <2>3. request[Main].type = "Stop" <=> pc[Main] = "priority"
    BY <1>a, CallersAssumption DEF SystemInv, OrdersFit, Queues, TypeInv, CallersInPlace
  <2>4. request[Main] \in Command
    BY <1>a DEF Queues, TypeInv, CallersInPlace
  <2> QED BY <2>1, <2>2, <2>3, <2>4, NodeAssumption
<1> DEFINE urgent == Mapped(priority_queue, orders)
           normal == Mapped(command_queue, orders)
<1>d. /\ priority_queue \in Seq(Command) /\ command_queue \in Seq(Command)
      /\ Into(priority_queue, orders, Node!Command) /\ Into(command_queue, orders, Node!Command)
      /\ Waiting = urgent \o normal /\ urgent \in Seq(Node!Command) /\ normal \in Seq(Node!Command)
      /\ Len(urgent) = Len(priority_queue) /\ Len(normal) = Len(command_queue)
      /\ Len(priority_queue) \in Nat /\ Len(command_queue) \in Nat /\ Len(Waiting) = Len(urgent) + Len(normal)
  <2>1. Waiting = urgent \o normal /\ urgent \in Seq(Node!Command) /\ normal \in Seq(Node!Command)
    BY LineMaps
  <2>2. Len(Waiting) = Len(urgent) + Len(normal)
    BY <2>1, ConcatProperties
  <2>3. priority_queue \in Seq(Command) /\ command_queue \in Seq(Command)
    BY LineMaps
  <2> QED BY <2>1, <2>2, <2>3, LineMaps
<1>e. Waiting' = Mapped(priority_queue' \o command_queue', orders)
  BY <1>b DEF Waiting, Line, Mapped
<1> HIDE DEF urgent, normal
<1>f. Received' = Received
  BY <1>a, <1>b DEF Received
<1>1. ASSUME UNCHANGED managerVars PROVE UNCHANGED Node!channelVars
  <2>1. LineStays
    BY <1>a, <1>1 DEF managerVars, LineStays
  <2> QED BY <1>b, <2>1, LineStaying
<1>2. CASE pc[Main] = "priority" /\ EnqueuePriority(Main)
  <2>1. CASE Manager!EnqueuePriority(request[Main])
    <3>1. /\ priority_queue' = Append(priority_queue, request[Main]) /\ command_queue' = command_queue
          /\ Len(priority_queue) < Capacity /\ Len(priority_queue') = Len(priority_queue) + 1
      BY <1>c, <1>d, <2>1 DEF Manager!EnqueuePriority, Manager!CanEnqueuePriority
    <3>2. Waiting' = Append(urgent, InHand) \o normal
      <4>1. Mapped(Append(priority_queue, request[Main]), orders) = Append(urgent, InHand)
        BY <1>c, <1>d, MappedAppend DEF urgent
      <4>2. /\ Append(priority_queue, request[Main]) \in Seq(Command)
            /\ Into(Append(priority_queue, request[Main]), orders, Node!Command)
        BY <1>c, <1>d DEF Into
      <4>3. Mapped(Append(priority_queue, request[Main]) \o command_queue, orders)
              = Mapped(Append(priority_queue, request[Main]), orders) \o normal
        <5> DEFINE longer == Append(priority_queue, request[Main])
        <5>1. longer \in Seq(Command) /\ Into(longer, orders, Node!Command)
          BY <4>2
        <5> HIDE DEF longer
        <5>2. Mapped(longer \o command_queue, orders) = Mapped(longer, orders) \o normal
          BY <1>d, <5>1, MappedConcat DEF normal
        <5> QED BY <5>2, Zenon DEF longer
      <4> QED BY <1>e, <3>1, <4>1, <4>3
    <3>3. Append(urgent, InHand) \o normal =
            SubSeq(Waiting, 1, Len(urgent)) \o <<InHand>> \o SubSeq(Waiting, Len(urgent) + 1, Len(Waiting))
      <4>1. urgent \in Seq(Node!Command) /\ normal \in Seq(Node!Command) /\ InHand \in Node!Command
        BY <1>c, <1>d
      <4>2. Append(urgent, InHand) \o normal =
              SubSeq(urgent \o normal, 1, Len(urgent)) \o <<InHand>>
              \o SubSeq(urgent \o normal, Len(urgent) + 1, Len(urgent \o normal))
        BY <4>1, MP!InsertInLine, ManagerAssumptions, Zenon
      <4>3. Waiting = urgent \o normal
        BY <1>d
      <4> QED BY <4>2, <4>3, Zenon
    <3>4. Node!Channel!PutUrgent(InHand)
      BY <1>a, <1>b, <1>d, <1>f, <3>1, <3>2, <3>3 DEF Node!Channel!PutUrgent
    <3>5. Node!HandOn(InHand)
      BY <1>2, <1>c, <3>1, <3>4 DEF Node!HandOn
    <3> QED BY <1>a, <1>b, <1>c, <3>5 DEF Node!CallWorker
  <2>2. CASE ~Manager!CanEnqueuePriority /\ UNCHANGED managerVars
    <3>1. ~(Len(priority_queue) < Capacity)
      BY <1>b, <2>2 DEF Manager!CanEnqueuePriority
    <3>2. Node!HandOn(InHand)
      BY <1>1, <1>2, <1>c, <2>2, <3>1 DEF Node!HandOn
    <3> QED BY <1>a, <1>b, <1>c, <3>2 DEF Node!CallWorker
  <2> QED BY <1>2, <2>1, <2>2 DEF EnqueuePriority
<1>3. CASE pc[Main] = "normal" /\ Enqueue(Main)
  <2>a. Len(Waiting) - Len(priority_queue) = Len(command_queue)
    BY <1>d
  <2>1. CASE Manager!Enqueue(request[Main])
    <3>1. /\ command_queue' = Append(command_queue, request[Main]) /\ priority_queue' = priority_queue
          /\ Len(command_queue) < Capacity
      BY <2>1 DEF Manager!Enqueue, Manager!CanEnqueue
    <3>2. Waiting' = urgent \o Append(normal, InHand)
      <4>1. Mapped(Append(command_queue, request[Main]), orders) = Append(normal, InHand)
        BY <1>c, <1>d, MappedAppend DEF normal
      <4>2. /\ Append(command_queue, request[Main]) \in Seq(Command)
            /\ Into(Append(command_queue, request[Main]), orders, Node!Command)
        BY <1>c, <1>d DEF Into
      <4>3. Mapped(priority_queue \o Append(command_queue, request[Main]), orders)
              = urgent \o Mapped(Append(command_queue, request[Main]), orders)
        <5> DEFINE longer == Append(command_queue, request[Main])
        <5>1. longer \in Seq(Command) /\ Into(longer, orders, Node!Command)
          BY <4>2
        <5> HIDE DEF longer
        <5>2. Mapped(priority_queue \o longer, orders) = urgent \o Mapped(longer, orders)
          BY <1>d, <5>1, MappedConcat DEF urgent
        <5> QED BY <5>2, Zenon DEF longer
      <4> QED BY <1>e, <3>1, <4>1, <4>3
    <3>3. Waiting' = Append(Waiting, InHand)
      BY <1>c, <1>d, <3>2, MP!AppendToLine, ManagerAssumptions
    <3>4. Node!Channel!Put(InHand)
      BY <1>a, <1>b, <1>f, <2>a, <3>1, <3>3 DEF Node!Channel!Put
    <3>5. Node!HandOn(InHand)
      BY <1>3, <1>c, <2>a, <3>1, <3>4 DEF Node!HandOn
    <3> QED BY <1>a, <1>b, <1>c, <3>5 DEF Node!CallWorker
  <2>2. CASE ~Manager!CanEnqueue /\ UNCHANGED managerVars
    <3>1. ~(Len(command_queue) < Capacity)
      BY <1>b, <2>2 DEF Manager!CanEnqueue
    <3>2. Node!HandOn(InHand)
      BY <1>1, <1>3, <1>c, <2>2, <2>a, <3>1 DEF Node!HandOn
    <3> QED BY <1>a, <1>b, <1>c, <3>2 DEF Node!CallWorker
  <2> QED BY <1>3, <2>1, <2>2 DEF Enqueue
<1>4. (Enqueue(Main) => pc[Main] = "normal") /\ (EnqueuePriority(Main) => pc[Main] = "priority")
  BY DEF Enqueue, EnqueuePriority, Goto
<1> QED
  BY <1>2, <1>3, <1>4

(* What the worker takes from its line is what the node's worker executes.        *)
LEMMA NodeTakes ==
  ASSUME TypeInv, SystemInv, WorkerRuns, RunPop, NEW command, Takes(command), Fits(command),
         node = "spinning", Waiting # <<>>, Head(Waiting) = orders[command.id],
         Waiting' = Tail(Waiting),
         Len(priority_queue') = IF Len(priority_queue) = 0 THEN 0 ELSE Len(priority_queue) - 1
  PROVE  Node!WorkerTakes
<1> USE MainCalls
<1>1. /\ popped'["worker"] = command /\ command # NoCommand /\ command \in Command
      /\ Manager!Blocked' = {} /\ ~shutdown_requested /\ run_pc = "pop" /\ UNCHANGED shutdown_requested
      /\ "worker" \notin waiting' /\ Manager!Blocked \subseteq {"worker"}
  BY ManagerAssumption, PopOutcome DEF Takes, Manager!Blocked, TypeInv, TypeOK, Manager!TypeOK
<1>2. run_pc' = "clearAbort" <=> command.type = "Stop"
  BY <1>1 DEF RunPop, Dispatch, Command, CommandTypes
<1>3. UNCHANGED <<node, topic, messages, orders, pc, request, next_command_id>>
      /\ owed' = (owed /\ run_pc' # "clearAbort")
  BY <1>1 DEF WorkerRuns, topicVars, RunPop, submitVars
<1>4. InHand' = InHand
  BY <1>3 DEF InHand
<1>5. /\ Received' = [w \in {"worker"} |-> orders[command.id]]
      /\ Received' = [Received EXCEPT !["worker"] = orders[command.id]]
  BY <1>1, <1>3 DEF Received
<1>6. Node!Channel!Take("worker")
  BY <1>1, <1>5 DEF Node!Channel!Take, Node!Channel!TakeFirst
<1>7. orders[command.id].type = "Stop" <=> command.type = "Stop"
  BY TypesFit DEF Fits
<1>8. owed' = (owed /\ Received'["worker"].type # "Stop")
  <2>1. Received'["worker"] = orders[command.id]
    BY <1>5
  <2>2. run_pc' # "clearAbort" <=> Received'["worker"].type # "Stop"
    BY <1>2, <1>7, <2>1
  <2> QED BY <1>3, <2>2, Zenon
<1> QED BY <1>3, <1>4, <1>6, <1>8, Zenon DEF Node!WorkerTakes

LEMMA NodePop ==
  ASSUME TypeInv, SystemInv, WorkerRuns, RunPop
  PROVE  [Node!Next]_(Node!vars)
<1> USE MainCalls
<1>a. /\ Manager!TypeOK /\ Manager!Blocked \subseteq {"worker"}
      /\ popped \in [{"worker"} -> Command \cup {NoCommand}] /\ popped' \in [{"worker"} -> Command \cup {NoCommand}]
  <2>1. TypeOK
    BY DEF TypeInv
  <2>2. popped' \in [{"worker"} -> Command \cup {NoCommand}]
    BY <2>1 DEF TypeOK, Manager!TypeOK, RunPop, Manager!WaitAndPop, Manager!Resume, Manager!Return,
      Manager!PopFront, Manager!PopNothing
  <2> QED BY <2>1, <2>2 DEF TypeOK, Manager!TypeOK, Manager!Blocked
<1>b. /\ run_pc = "pop" /\ UNCHANGED shutdown_requested
      /\ Sleeps \/ Leaves \/ TakesUrgent \/ TakesNormal
  BY <1>a, PopOutcome
<1>c. /\ UNCHANGED <<node, topic, messages, orders, pc, request, next_command_id>> /\ owed \in BOOLEAN
      /\ owed' = (owed /\ ~(run_pc = "pop" /\ run_pc' = "clearAbort"))
  BY DEF WorkerRuns, topicVars, RunPop, submitVars, SystemInv, StopWaits
<1>d. InHand' = InHand
  BY <1>c DEF InHand
<1> DEFINE urgent == Mapped(priority_queue, orders)
           normal == Mapped(command_queue, orders)
<1>e. /\ priority_queue \in Seq(Command) /\ command_queue \in Seq(Command)
      /\ Into(priority_queue, orders, Node!Command) /\ Into(command_queue, orders, Node!Command)
      /\ Waiting = urgent \o normal /\ urgent \in Seq(Node!Command) /\ normal \in Seq(Node!Command)
  BY LineMaps
<1>f. Waiting' = Mapped(priority_queue' \o command_queue', orders)
  BY <1>c DEF Waiting, Line, Mapped
<1>1. CASE Sleeps
  <2>1. /\ ~shutdown_requested /\ Manager!Blocked' = {"worker"} /\ owed' = owed
        /\ UNCHANGED <<command_queue, priority_queue, popped>>
        /\ priority_queue = <<>> /\ command_queue = <<>>
    BY <1>c, <1>1 DEF Sleeps
  <2>2. Waiting = <<>> /\ Waiting' = Waiting /\ Received' = Received
    BY <1>c, <2>1 DEF Waiting, Line, Received
  <2>3. CASE "worker" \in Manager!Blocked
    <3>1. LineStays
      BY <1>a, <1>b, <2>1, <2>3 DEF LineStays
    <3>2. UNCHANGED nodeVars
      BY <1>c, <2>1 DEF nodeVars, topicVars
    <3> QED BY <1>c, <1>d, <3>1, <3>2, NodeStutters
  <2>4. CASE "worker" \notin Manager!Blocked
    <3>1. Node!Channel!Block("worker")
      BY <1>a, <1>b, <2>1, <2>2, <2>4 DEF Node!Channel!Block
    <3> QED BY <1>c, <1>d, <2>1, <3>1 DEF Node!WorkerWaits, Node!Next
  <2> QED BY <2>3, <2>4
<1>2. CASE Leaves
  <2>1. /\ shutdown_requested /\ Manager!Blocked' = {} /\ owed' = owed
        /\ UNCHANGED <<command_queue, priority_queue>> /\ popped'["worker"] = NoCommand
    BY <1>c, <1>2 DEF Leaves
  <2>2. Waiting' = Waiting /\ Received' = [Received EXCEPT !["worker"] = NoCommand]
    BY <1>c, <2>1 DEF Waiting, Line, Received
  <2>3. Node!Channel!LeaveEmptyHanded("worker")
    BY <1>a, <1>b, <2>1, <2>2 DEF Node!Channel!LeaveEmptyHanded
  <2> QED BY <1>c, <1>d, <2>1, <2>3 DEF Node!WorkerWaits, Node!Next
<1>3. CASE TakesUrgent
  <2>1. /\ priority_queue # <<>> /\ Takes(priority_queue[1]) /\ priority_queue' = Tail(priority_queue)
        /\ command_queue' = command_queue /\ Len(priority_queue) \in Nat \ {0}
        /\ Len(priority_queue') = Len(priority_queue) - 1 /\ 1 \in 1..Len(priority_queue)
    BY <1>e, <1>3 DEF TakesUrgent
  <2>2. Fits(priority_queue[1]) /\ node = "spinning"
    BY <2>1 DEF SystemInv, OrdersFit, NodeInPlace, Takes
  <2>3. urgent # <<>> /\ Head(urgent) = orders[priority_queue[1].id]
        /\ Mapped(Tail(priority_queue), orders) = Tail(urgent)
    BY <1>e, <2>1, MappedTail
  <2>4. Tail(priority_queue) \in Seq(Command) /\ Into(Tail(priority_queue), orders, Node!Command)
    BY <1>e, <2>1 DEF Into
  <2>5. Mapped(Tail(priority_queue) \o command_queue, orders) = Mapped(Tail(priority_queue), orders) \o normal
    <3> DEFINE shorter == Tail(priority_queue)
    <3>1. shorter \in Seq(Command) /\ Into(shorter, orders, Node!Command)
      BY <2>4
    <3> HIDE DEF shorter
    <3>2. Mapped(shorter \o command_queue, orders) = Mapped(shorter, orders) \o normal
      BY <1>e, <3>1, MappedConcat
    <3> QED BY <3>2, Zenon DEF shorter
  <2> HIDE DEF urgent, normal
  <2>6. Head(urgent \o normal) = Head(urgent) /\ Tail(urgent \o normal) = Tail(urgent) \o normal
    BY <1>e, <2>3, MP!TakeFromLine, ManagerAssumptions
  <2>7. Waiting' = Tail(Waiting)
    <3>1. Waiting' = Mapped(Tail(priority_queue) \o command_queue, orders)
      BY <1>f, <2>1
    <3> QED BY <1>e, <2>3, <2>5, <2>6, <3>1, Zenon
  <2>8. Waiting # <<>> /\ Head(Waiting) = orders[priority_queue[1].id]
    <3>1. urgent \o normal # <<>>
      BY <1>e, <2>3
    <3> QED BY <1>e, <2>3, <2>6, <3>1, Zenon
  <2> QED BY <2>1, <2>2, <2>7, <2>8, NodeTakes DEF Node!Next
<1>4. CASE TakesNormal
  <2>1. /\ command_queue # <<>> /\ Takes(command_queue[1]) /\ command_queue' = Tail(command_queue)
        /\ priority_queue = <<>> /\ priority_queue' = <<>> /\ 1 \in 1..Len(command_queue)
        /\ Len(priority_queue) = 0 /\ Len(priority_queue') = 0
    BY <1>e, <1>4 DEF TakesNormal
  <2>2. Fits(command_queue[1]) /\ node = "spinning"
    BY <2>1 DEF SystemInv, OrdersFit, NodeInPlace, Takes
  <2>3. normal # <<>> /\ Head(normal) = orders[command_queue[1].id]
        /\ Mapped(Tail(command_queue), orders) = Tail(normal)
    BY <1>e, <2>1, MappedTail
  <2>4. Waiting = normal
    <3>1. urgent = <<>>
      BY <2>1 DEF Mapped
    <3> HIDE DEF urgent, normal
    <3> QED BY <1>e, <3>1
  <2>5. Waiting' = Tail(Waiting)
    <3>1. priority_queue' \o command_queue' = Tail(command_queue)
      BY <1>e, <2>1
    <3> QED BY <1>f, <2>3, <2>4, <3>1, Zenon
  <2> QED BY <2>1, <2>2, <2>3, <2>4, <2>5, NodeTakes DEF Node!Next
<1> QED
  BY <1>b, <1>1, <1>2, <1>3, <1>4

(* The node's thread in start, stop or an enqueue: the ends of the calls are the   *)
(* node's steps.                                                                    *)
LEMMA NodeInWorker ==
  ASSUME TypeInv, SystemInv, InWorker
  PROVE  [Node!Next]_(Node!vars)
<1> USE MainCalls DEF Goto
<1>1. /\ UNCHANGED <<topic, messages, owed, orders>> /\ InCall(Main)
      /\ pc \in [Callers -> CallLocations]
      /\ node' = CASE node = "starting" /\ pc'[Main] = "idle" -> Started
                   [] node = "starting" /\ pc'[Main] = "threw" -> "failed"
                   [] pc[Main] = "stopShutdown" -> "ended"
                   [] OTHER -> node
  BY DEF InWorker, TypeInv, TypeOK
<1>2. ASSUME UNCHANGED dataVars PROVE LineStays /\ UNCHANGED <<request, next_command_id>>
  BY <1>2 DEF dataVars, submitVars, managerVars, LineStays, Manager!Blocked
<1>3. ASSUME UNCHANGED dataVars, pc[Main] \in InStart, pc'[Main] \in InStart \cup {"idle", "threw"}
      PROVE  [Node!Next]_(Node!vars)
  <2>1. node = "starting"
    BY <1>3 DEF SystemInv, NodeInPlace, InStart, InStop
  <2>2. node' = IF pc'[Main] = "idle" THEN Started ELSE IF pc'[Main] = "threw" THEN "failed" ELSE node
    BY <1>1, <1>3, <2>1 DEF InStart
  <2>3. InHand' = InHand
    BY <1>3 DEF InHand, InStart
  <2>4. UNCHANGED <<topic, InHand, next_command_id, messages, owed, Node!channelVars>>
    BY <1>1, <1>2, <1>3, <2>3, LineStaying
  <2>5. CASE node' = node
    BY <2>4, <2>5 DEF Node!vars
  <2>6. CASE node' # node
    <3>1. node' \in {"spinning", "failed"}
      BY <2>2, <2>6 DEF Started
    <3> QED BY <2>1, <2>4, <3>1 DEF Node!Construct, Node!Next
  <2> QED BY <2>5, <2>6
<1>4. ASSUME LineStays, UNCHANGED <<request, next_command_id>>, node # "starting",
             pc[Main] \notin {"stopShutdown", "normal", "priority"}, pc'[Main] \notin {"normal", "priority"}
      PROVE  [Node!Next]_(Node!vars)
  <2>1. UNCHANGED nodeVars /\ InHand' = InHand
    BY <1>1, <1>4 DEF nodeVars, topicVars, InHand
  <2> QED BY <1>4, <2>1, NodeStutters
<1>5. node = "starting" => pc[Main] \in InStart \cup {"idle"}
  BY DEF SystemInv, NodeInPlace
<1>6. CASE StartConnecting(Main) \/ StartSpawn(Main) \/ StartWait(Main)
  BY <1>1, <1>3, <1>6 DEF StartConnecting, StartSpawn, StartWait, InStart
<1>7. CASE EnterJoin(Main)
  <2>1. CASE pc[Main] = "startJoin"
    BY <1>1, <1>3, <1>7, <2>1 DEF EnterJoin, InStart
  <2>2. CASE pc[Main] = "stopJoin"
    <3>1. pc'[Main] \in {"stopJoining", "threw"} /\ UNCHANGED dataVars
      BY <1>1, <1>7, <2>2 DEF EnterJoin
    <3> QED BY <1>2, <1>4, <1>5, <2>2, <3>1 DEF InStart
  <2> QED BY <1>7, <2>1, <2>2 DEF EnterJoin
<1>8. CASE Join(Main)
  <2>1. CASE pc[Main] = "startJoining"
    BY <1>1, <1>3, <1>8, <2>1 DEF Join, InStart
  <2>2. CASE pc[Main] = "stopJoining"
    <3>1. pc'[Main] = "stopDisconnected" /\ UNCHANGED dataVars
      BY <1>1, <1>8, <2>2 DEF Join
    <3> QED BY <1>2, <1>4, <1>5, <2>2, <3>1 DEF InStart
  <2> QED BY <1>8, <2>1, <2>2 DEF Join
<1>9. CASE StopStopping(Main) \/ StopDisconnected(Main) \/ StopNotify(Main)
  <2>1. /\ pc[Main] \in {"stopLock", "stopDisconnected", "stopNotify"} /\ UNCHANGED dataVars
        /\ pc'[Main] \in {"stopShutdown", "stopNotify", "idle"}
    BY <1>1, <1>9 DEF StopStopping, StopDisconnected, StopNotify, AllWoken
  <2> QED BY <1>2, <1>4, <1>5, <2>1 DEF InStart
<1>10. CASE SetAbort(Main)
  <2>1. /\ pc[Main] = "setAbort" /\ pc'[Main] = "idle" /\ LineStays /\ UNCHANGED <<request, next_command_id>>
    BY <1>1, <1>10 DEF SetAbort, submitVars, managerVars, LineStays, Manager!Blocked
  <2> QED BY <1>4, <1>5, <2>1 DEF InStart
<1>11. CASE StopShutdown(Main)
  <2>1. /\ pc[Main] = "stopShutdown" /\ pc'[Main] = "stopJoin" /\ UNCHANGED <<request, next_command_id>>
        /\ UNCHANGED <<priority_queue, command_queue, popped, Manager!Blocked>> /\ shutdown_requested'
    BY <1>1, <1>11 DEF StopShutdown, submitVars, Manager!Shutdown, Manager!NotifyAll, Manager!Blocked
  <2>2. node = "spinning" /\ node' = "ended"
    <3>1. node # "starting"
      BY <1>5, <2>1 DEF InStart
    <3> QED BY <1>1, <2>1, <3>1 DEF SystemInv, NodeInPlace, InStop
  <2>3. InHand = NoCommand /\ InHand' = InHand
    BY <2>1 DEF InHand
  <2>4. Waiting' = Waiting /\ Received' = Received
    BY <1>1, <2>1 DEF Waiting, Line, Received
  <2>5. Node!Channel!Close
    BY <2>1, <2>4 DEF Node!Channel!Close
  <2> QED BY <1>1, <2>1, <2>2, <2>3, <2>5 DEF Node!Destroy, Node!Next
<1>12. CASE Enqueue(Main) \/ EnqueuePriority(Main)
  BY <1>12, NodeHandsOn DEF Node!Next
<1> QED
  BY <1>1, <1>6, <1>7, <1>8, <1>9, <1>10, <1>11, <1>12 DEF InCall

(* Every step of the system is one of the node or none of its business.             *)
LEMMA NodeStep ==
  ASSUME TypeInv, SystemInv, [SystemNext]_systemVars
  PROVE  [Node!Next]_(Node!vars)
<1> USE MainCalls DEF Goto
<1>a. pc \in [Callers -> CallLocations]
  BY DEF TypeInv, TypeOK
<1>1. ASSUME LineStays, UNCHANGED <<nodeVars, request, next_command_id>>,
             \/ pc'[Main] = pc[Main]
             \/ pc[Main] \notin {"normal", "priority"} /\ pc'[Main] \notin {"normal", "priority"}
      PROVE  [Node!Next]_(Node!vars)
  <2>1. InHand' = InHand
    BY <1>1 DEF InHand, nodeVars
  <2> QED BY <1>1, <2>1, NodeStutters
<1>2. CASE BeginStart \/ BeginStop
  <2>1. /\ UNCHANGED <<dataVars, nodeVars>> /\ pc[Main] = "idle" /\ pc'[Main] \in {"startLock", "stopLock"}
    BY <1>a, <1>2 DEF BeginStart, BeginStop, StartCheckThread, StopCheckThread
  <2>2. LineStays /\ UNCHANGED <<request, next_command_id>>
    BY <2>1 DEF dataVars, submitVars, managerVars, LineStays, Manager!Blocked
  <2> QED BY <1>1, <2>1, <2>2
<1>3. CASE Wakeup /\ RunWokenSpuriously
  <2>1. Manager!Blocked' = Manager!Blocked
    BY <1>3 DEF RunWokenSpuriously, Manager!SpuriousWakeup, Manager!Blocked
  <2>2. LineStays /\ UNCHANGED <<request, next_command_id, pc, nodeVars>>
    BY <1>3, <2>1 DEF Wakeup, RunWokenSpuriously, Manager!SpuriousWakeup, submitVars, LineStays
  <2> QED BY <1>1, <2>2
<1>4. CASE Wakeup /\ SpuriousWakeup(Main)
  <2>1. /\ UNCHANGED <<dataVars, nodeVars>>
        /\ pc[Main] \notin {"normal", "priority"} /\ pc'[Main] \notin {"normal", "priority"}
    BY <1>a, <1>4 DEF Wakeup, SpuriousWakeup
  <2>2. LineStays /\ UNCHANGED <<request, next_command_id>>
    BY <2>1 DEF dataVars, submitVars, managerVars, LineStays, Manager!Blocked
  <2> QED BY <1>1, <2>1, <2>2
<1>5. CASE UNCHANGED systemVars
  <2>1. LineStays /\ UNCHANGED <<request, next_command_id, pc, nodeVars>>
    BY <1>5 DEF systemVars, vars, dataVars, submitVars, managerVars, LineStays, Manager!Blocked
  <2> QED BY <1>1, <2>1
<1>6. CASE PublishText
  <2>1. /\ LineStays /\ UNCHANGED <<request, next_command_id, pc, node, owed, orders>>
        /\ node = "spinning" /\ messages < MaxMessages /\ messages' = messages + 1
    BY <1>6 DEF PublishText, vars, dataVars, submitVars, managerVars, LineStays, Manager!Blocked
  <2>2. InHand' = InHand /\ UNCHANGED Node!channelVars
    BY <2>1, LineStaying DEF InHand
  <2> QED BY <1>6, <2>1, <2>2 DEF PublishText, Node!Publish, Node!Next
<1>7. CASE Callback
  BY <1>7, NodeCallback DEF Node!Next
<1>8. CASE WorkerRuns
  <2>1. CASE RunPop
    BY <1>8, <2>1, NodePop
  <2>2. CASE UNCHANGED managerVars /\ ~(run_pc = "pop" /\ run_pc' = "clearAbort")
    <3>1. RunStep
      BY <1>8 DEF WorkerRuns
    <3>2. UNCHANGED <<request, next_command_id>> /\ Stays(Main)
      BY <3>1, ThreadOutcome
    <3>3. owed \in BOOLEAN
      BY DEF SystemInv, StopWaits
    <3>4. UNCHANGED nodeVars
      BY <1>8, <2>2, <3>3 DEF WorkerRuns, nodeVars, topicVars
    <3>5. LineStays
      BY <2>2 DEF managerVars, LineStays, Manager!Blocked
    <3>6. \/ pc'[Main] = pc[Main]
          \/ pc[Main] \notin {"normal", "priority"} /\ pc'[Main] \notin {"normal", "priority"}
      BY <3>2 DEF Stays
    <3> QED BY <1>1, <3>2, <3>4, <3>5, <3>6
  <2> QED BY <1>8, <2>1, <2>2, ThreadOutcome DEF WorkerRuns
<1> QED
  BY <1>2, <1>3, <1>4, <1>5, <1>6, <1>7, <1>8, NodeInWorker DEF SystemNext, Wakeup

LEMMA NodeInit == SystemInit => Node!Init
<1> SUFFICES ASSUME SystemInit PROVE Node!Init
  OBVIOUS
<1> USE MainCalls DEF SystemInit, Init, Manager!Init
<1>1. Waiting = <<>> /\ Len(priority_queue) = 0
  BY DEF Waiting, Line
<1>2. InHand = NoCommand /\ Received = [t \in {"worker"} |-> NoCommand] /\ Manager!Blocked = {}
  BY DEF InHand, Received, Manager!Blocked
<1>3. Node!Channel!Init
  BY <1>1, <1>2 DEF Node!Channel!Init
<1> QED BY <1>2, <1>3 DEF Node!Init

(* The node with this worker is the node BridgeNode describes.                      *)
THEOREM SystemIsANode == SystemSpec => ImplementsNode
<1>1. TypeInv /\ SystemInv /\ [SystemNext]_systemVars => [Node!Next]_(Node!vars)
  BY NodeStep
<1> QED
  BY <1>1, NodeInit, SystemInvCorrect, PTL DEF SystemSpec, ImplementsNode, Node!Spec

=============================================================================
