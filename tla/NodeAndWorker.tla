---------------------------- MODULE NodeAndWorker ----------------------------
(***************************************************************************)
(* The bridge node and its worker.  BridgeNode sees the worker as a channel  *)
(* that serves from the constructor's end to the destructor's stop; here its  *)
(* thread starts, uses and stops the worker that OpcuaWorker describes, whose *)
(* start may fail and which refuses what comes while it is not Ready.         *)
(*                                                                          *)
(* A callback reads a text and looks at the worker's state in one step:        *)
(* nothing but a published text can come between that the one has to do with,  *)
(* and it does not matter to the other.                                         *)
(***************************************************************************)
EXTENDS OpcuaWorker

CONSTANTS Main,        \* the node's thread: it constructs, spins and destroys
          Texts, AnyText, Numbers, Depth, MaxMessages  \* see BridgeNode

VARIABLES
  node, topic, messages, owed,   \* see BridgeNode
  orders                         \* history: the command of each number

(* The worker as the node's channel: its commands are known by their numbers.  *)
Line == priority_queue \o command_queue
InHand == IF pc[Main] \in {"normal", "priority"} THEN orders[request[Main].id] ELSE NoCommand
Waiting == [i \in DOMAIN Line |-> orders[Line[i].id]]
Received ==
  [w \in {"worker"} |-> IF popped[w] = NoCommand THEN NoCommand ELSE orders[popped[w].id]]

Node == INSTANCE BridgeNode WITH
  hand     <- InHand,
  pending  <- Waiting,
  nUrgent  <- Len(priority_queue),
  closed   <- shutdown_requested,
  blocked  <- Manager!Blocked,
  received <- Received

(* The node is the worker's only caller, and asks for no results.  *)
ASSUME CallersAssumption ==
  /\ Starters = {Main} /\ Stoppers = {Main} /\ Submitters = {Main} /\ Collectors = {}
  /\ NormalTypes = {"Move", "Other"} /\ PriorityTypes = {"Stop"}
ASSUME NodeAssumption ==
  /\ Texts \cup AnyText \subseteq [keyword : Node!Keywords, rest : Seq(Node!Symbols)]
  /\ Numbers \in Nat \ {0} /\ Depth \in Nat \ {0}
  /\ MaxMessages \in Nat /\ MaxMessages <= MaxCommands
  /\ NoCommand \notin Node!Command

topicVars == <<node, topic, messages>>
nodeVars == <<topicVars, owed, orders>>
systemVars == <<vars, nodeVars>>

SystemInit ==
  /\ Init
  /\ node = "starting" /\ topic = <<>> /\ messages = 0 /\ owed = FALSE
  /\ orders = <<>>

-----------------------------------------------------------------------------
WorkerType(type) ==
  CASE type = "Stop" -> "Stop"
    [] type = "MoveToNamedPose" -> "Move"
    [] OTHER -> "Other"

(* Mutant of QueueOf: enqueuePriority is not used.  *)
QueueOfNormal(type) == "normal"

QueueOf(type) == IF type = "Stop" THEN "priority" ELSE "normal"

(* The constructor begins with start ...  *)
BeginStart ==
  /\ node = "starting" /\ StartCheckThread(Main)
  /\ UNCHANGED nodeVars

(* Mutant of Started: the answer of start is not looked at.  *)
StartedAnyway == "spinning"

(* ... and goes on if it returned true, with the state that start has found.  *)
Started == IF worker_state = "Ready" THEN "spinning" ELSE "failed"

(* Somebody publishes a text.  *)
PublishText ==
  /\ node = "spinning"
  /\ messages < MaxMessages /\ messages' = messages + 1
  /\ \E text \in Texts : Node!Receive(text)
  /\ UNCHANGED <<vars, node, owed, orders>>

(* The callback, up to the worker's mutex.  A worker that is not Ready refuses   *)
(* the command.                                                                   *)
Callback ==
  /\ node = "spinning" /\ pc[Main] = "idle"
  /\ topic # <<>> /\ topic' = Tail(topic)
  /\ \/ /\ Node!Meaning(Head(topic)) = {}
        /\ UNCHANGED <<vars, owed, orders>>
     \/ \E order \in Node!Meaning(Head(topic)) :
          /\ IF worker_state = "Ready"
             THEN Submit(Main, WorkerType(order.type), QueueOf(order.type))
             ELSE /\ next_command_id' = next_command_id + 1
                  /\ UNCHANGED <<lifeVars, managerVars, abort_requested, result, request, accepted,
                                 resultVars, run_pc, pc>>
          /\ orders' = Append(orders, Node!Numbered(order))
          /\ owed' = (owed \/ order.type = "Stop")
  /\ UNCHANGED <<node, messages>>

(* spin has returned, and the destructor stops the worker; the worker's own       *)
(* destructor does so again, also when the constructor has thrown.                 *)
BeginStop ==
  /\ node # "starting" /\ StopCheckThread(Main)
  /\ UNCHANGED nodeVars

(* The node's thread inside the worker.  *)
InWorker ==
  /\ InCall(Main)
  /\ node' = CASE node = "starting" /\ pc'[Main] = "idle" -> Started
               [] node = "starting" /\ pc'[Main] = "threw" -> "failed"
               [] pc[Main] = "stopShutdown" -> "ended"
               [] OTHER -> node
  /\ UNCHANGED <<topic, messages, owed, orders>>

(* The worker's thread.  *)
WorkerRuns ==
  /\ RunStep
  /\ owed' = (owed /\ ~(run_pc = "pop" /\ run_pc' = "clearAbort"))
  /\ UNCHANGED <<topicVars, orders>>

Wakeup ==
  /\ RunWokenSpuriously \/ SpuriousWakeup(Main)
  /\ UNCHANGED nodeVars

SystemNext ==
  \/ BeginStart \/ PublishText \/ Callback \/ BeginStop \/ InWorker \/ WorkerRuns \/ Wakeup

SystemSpec == SystemInit /\ [][SystemNext]_systemVars

(* Callbacks are called and both threads go on; a Move comes to its end, which    *)
(* WorkerAndRobot shows.                                                           *)
SystemFairSpec ==
  /\ SystemSpec
  /\ WF_systemVars(Callback) /\ WF_systemVars(InWorker) /\ WF_systemVars(WorkerRuns)
  /\ SF_systemVars(RunMoveFails /\ WorkerRuns)
-----------------------------------------------------------------------------
(* A stop that the callback has read reaches the Move under way as soon as the     *)
(* callback has returned: also when the worker refused the command, since then      *)
(* others are in its queue, and while the worker takes the flag down for one of      *)
(* them.                                                                              *)
HeardStopAborts == owed /\ Moving /\ node = "spinning" /\ pc[Main] = "idle" => abort_requested

(* With this worker the node is the one BridgeNode describes, which assumes that     *)
(* it is Ready from the constructor to the destructor and refuses a command only      *)
(* when its queue is full: that others are executed in order and none while a Stop     *)
(* waits holds of the two.                                                              *)
ImplementsNode == Node!Spec

(* And it is executed, or another one that was already waiting, unless the node is      *)
(* destroyed first.                                                                      *)
HeardStopIsExecuted == Node!StopIsHeard

(* Neither start nor stop throws at join: the thread is joined once, by the start     *)
(* that has failed or by the destructor of the node, and the worker's own destructor,  *)
(* which always comes after them, finds nothing to join.                                *)
NobodyThrows == pc[Main] # "threw"
=============================================================================
