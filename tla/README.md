# Formal model of the Franka OPC UA bridge

The ROS 2 package `franka_opcua_bridge` lets ROS programs command a Franka robot
through the robot's OPC UA server. A node reads text commands from a topic, a
worker thread executes them one after the other, a robot class turns each into
calls to the server, and a client class makes those calls with open62541. This
directory holds TLA+ models of these parts, TLC configurations that check them on
small instances, and proofs for TLAPS that hold for every instance.

    tlc -config WorkerLifeCycle.cfg MCOpcuaWorker.tla
    tlapm OpcuaWorkerProofs.tla          # and the other modules called *Proofs

`PROJECT.json` names, for every definition, the source lines it stands for; the
runs and what each shows; the mutants (deliberately wrong variants of a
definition, kept beside the right one, each of which breaks the property it is
listed with); the findings; the hazards; and the theorems.

## Inventory

All paths below are under `src/ros2_ws/src/franka_opcua_bridge/`.

| Component | State | Operations | Talks to | What is hard |
|---|---|---|---|---|
| Command manager, `src/franka_command_manager.cpp` | two bounded FIFO queues, shutdown flag, one mutex, one condition variable | `enqueue`, `enqueuePriority`, `waitAndPop`, `tryPop`, `shutdown`, `size` | called by every submitting thread and by the worker's thread | lost wakeups, limits, a shutdown that races submissions |
| Worker, `src/opcua_worker.cpp` | life-cycle state, abort flag, result queue, its thread; the robot and the command manager | `start`, `stop`, `enqueueCommand`, `enqueuePriority`, `waitAndPopResult`, `tryGetResult`; the thread's `run` | command manager, robot (`IFranka`, `IPoseStorage`), its callers | five states changed from two sides, three mutexes, an atomic flag set with no lock held, joins |
| Robot, `src/franka_robot.cpp` | none but the client; the state is the server's: control token, task, key-pose map | one method call each (brakes, FCI, tasks, stop, release), and `requestControl`, `moveToNamedPose`, `savePose` | protocol client; `should_abort` calls back into the worker | operations of several calls each of which may fail on either side, polling, deadlines |
| Protocol client, `src/opcua_client.cpp` | the client handle and its session | `connect`, `disconnect`, `callMethod`, `readValue`, `writeValue`, and the conversions between `Value` and `UA_Variant` | open62541, environment variables | many early returns, library objects to free on each, lost answers, values of other kinds than expected |
| Node, `src/franka_bridge_node.cpp` | subscription, command counter, the worker | constructor, `commandCallback` with its parser, destructor | the topic; the worker | limits (subscription, queues), text forms |
| State cache, `include/.../robot_state_cache.hpp` | last status, joints, pose, one mutex | `update*`, `get*` | nobody yet but its test | readings put together from two, older ones after newer ones |
| Fakes, `src/fake_test_version/` | logs and settable answers | those of the interfaces | tests | none |
| Generated types, `type_generate/` | - | - | build | none |

What makes each correct:

* Command manager: no command is lost, executed twice or overtaken except by a
  priority command; a waiting consumer is woken when there is something to do and
  when the manager is shut down; no queue exceeds its limit.
* Worker: what it accepted it answers, once and in order; a Stop reaches a running
  Move; whichever way its thread ends, control and connection are given back; every
  call of `start`, `stop` and `waitAndPopResult` comes back.
* Robot: a move answers true only at its pose; every operation ends although the
  server may not answer as hoped; a reading is what the server has reported, or
  recognisably nothing; what is saved is the pose the robot has.
* Worker and robot together: after a Stop no task runs; the stored poses are what
  the answers say.
* Client: no success is reported that was none; whichever library call fails - in the
  translation of a path, inside a conversion, at the server - nothing is leaked, freed
  twice or used after it was freed; values arrive as they were given.
* State cache: a get returns one whole reading, and never an older one than was seen.
* Node: a text is read as what it says; a stop is heard; the order is kept.

## Modules

    BridgeNode <==== NodeAndWorker ------------------------------+
        |                                                        v
        +----> PriorityChannel <==== CommandManager <---- OpcuaWorker ====> CommandService
                                                                 ^
                                                           WorkerAndRobot
                                                                 v
                                          RobotContract <==== FrankaRobot

                   RemoteCall <==== OpcuaClient <---- ClientReadings ----> RobotReadings
                                         |                                     |
                                         +-----------> ValueConversion <-------+
    RobotStateCache

`---->` is composition (the arrow leads to the part), `====>` refinement checked by a
run (the arrow leads to the abstract one). OpcuaWorker contains the very
CommandManager (INSTANCE, with the worker's thread as its only consumer) and sees the
robot as RobotContract says; WorkerAndRobot puts the very FrankaRobot in its place,
the worker's abort flag being what the robot's `should_abort` answers, and shows that
the pair is still the worker of OpcuaWorker. BridgeNode takes the worker for a
PriorityChannel that serves from the constructor's end to the destructor's stop;
NodeAndWorker puts the very OpcuaWorker under it, with the node's thread as its only
caller, and shows that the two are still the node of BridgeNode. FrankaRobot's
`CallMethod` is RemoteCall in one step, which OpcuaClient takes in many.

| Module | Stands for |
|---|---|
| CommandManager | `FrankaCommandManager`, one action per operation; `waitAndPop` is a step that returns or falls asleep and a step after a wakeup, spurious wakeups included |
| PriorityChannel | what the command manager promises: one line in service order, priority first; no queues, mutex or condition |
| OpcuaWorker | `OpcuaWorker`: a location for each caller (`pc`) and for the thread (`run_pc`); an action is one critical section, one call to the manager or the robot, one access to the abort flag or one notification |
| CommandService | what the worker promises: a service with the five states of `status()`, one line of commands (the PriorityChannel), one in hand, the answers so far, and the robot held or not |
| WorkerAndRobot | the two composed: the worker's thread stays at its call while the operation of FrankaRobot goes on step by step |
| RobotContract | what the worker takes for granted of `IFranka`: each call comes back with true or false, and a move asks `should_abort` before every look at the robot |
| FrankaRobot | `FrankaRobot`: `at` is the next call of the running operation; the server's token, task and pose map go on between any two calls |
| RemoteCall | one call of a method that is executed once or not at all and whose answer may be lost |
| OpcuaClient | `OpcuaClient`: one action per library call that can fail or that hands out objects; `at` is the place in the operation, `step` the place inside the translation of a path or a conversion; `held` counts, for each of 14 kinds of library objects (client, ids, path elements and names, response, arrays, variants, the conversions' temporaries), those handed out and not freed; `args` and `inputs`, `output` and `values` are what it converts, `built` the texts and numbers the next variant has so far, `lost` an allocation that failed and nobody looked at |
| ValueConversion | values and variants as data: the variant put around what `valueToUaVariant` has copied, which variants `UaVariantToValue` reads and as what |
| RobotReadings | the operations of FrankaRobot that only read, and the pose conversions, as operators on `readValue`'s two answers |
| ClientReadings | those operators on top of OpcuaClient, with the properties of the two together |
| RobotStateCache | `RobotStateCache`: each update and get as call, lock, one copy per part, unlock, return |
| BridgeNode | `FrankaBridgeNode` and `parseExplicitPoseCommand`; a callback is two steps, one that reads the text and one that calls the worker: in between texts arrive and the worker goes on |
| NodeAndWorker | the two composed: the node's thread in `start`, in the two enqueue calls and in `stop` is a caller of OpcuaWorker; what the node has in hand, its line and its last command are the worker's, seen through the numbers of the commands (`orders`) |
| CommandManagerProofs, OpcuaWorkerProofs, FrankaRobotProofs, WorkerAndRobotProofs, BridgeNodeProofs, NodeAndWorkerProofs, OpcuaClientProofs, RobotStateCacheProofs | the theorems about the module each is named after; OpcuaClientProofs also those about ClientReadings |
| MCOpcuaWorker, MCWorkerAndRobot, MCBridgeNode, MCNodeAndWorker, MCOpcuaClient | symmetry, the pose maps, texts, values and variants for the runs |

Variables have the names of the members and locals they stand for, without the
trailing underscore; variables marked *history* exist only for properties.
Early returns that change nothing have no action of their own: they are the
negations of the guards.

### What is abstracted

* A command is a number and one of the types Move, Stop and Other (everything that
  is a single call). A result is its command's number: whether it says Completed or
  Failed changes nothing in the worker.
* In FrankaRobot a pose is one value; `NoPose` stands for what is refused (not finite,
  not normalised, not 16 numbers).
* In RobotReadings a pose is its numbers. Quaternions are those whose rotation matrix
  has integers only - the 24 rotations that turn the axes into each other - so that
  the arithmetic is exact. What Eigen makes of a matrix that is no rotation is left
  open (any quaternion).
* A variant is its type, scalar or array, how a structure is packed in it (plain,
  decoded, encoded, and the encoded forms that are not whole), and its texts and
  numbers. A double is an integer, a text its part up to the first null character and
  whether something follows. An empty array of BOOLEAN, INT32 or STRING is not among
  the variants: the code reads its first element, which is undefined.
* A reading in RobotStateCache is the number of the polling round it was taken in, once
  for each part that is copied.
* The brakes and the FCI are not among the commands of WorkerAndRobot: each is one
  call, as `openBrakes` is.
* A command text is a keyword and symbols of three kinds (colon, number, other).
* Time passes by `DeadlinePasses` and by the number of looks at the token.
* Nothing is said of log output and of messages in results.

### What is assumed of code outside the repository

* Mutexes and condition variables do what C++ says, spurious wakeups included.
* The server grants a requested token some time or never; refuses to start a task
  while one is active; shows a task after a delay; shows `has_error` when a task
  fails; drives `opcua_goto` to the pose it finds under `target_pose` when it begins.
  A task that vanishes without `has_error` has driven to its end: this is what
  `moveToNamedPose` itself assumes, and MoveReachesThePose depends on it. Stopping the
  robot by hand, from another program, or at the controller, is not modelled.
* Calls of one session are executed in the order they were sent, and a call
  that timed out not after a later one.
* `start` has one caller at a time (assumption OneStarter): it writes
  `worker_thread_` without a lock.
* Only Stop is submitted with `enqueuePriority`, as the node does
  (`franka_bridge_node.cpp:196`).

## Runs

| Run | Instance | Shows |
|---|---|---|
| CommandManager | 3 consumers, 2 commands, queues of 2 | types and limits; a sleeping consumer always has a wakeup of its own for each pending command (NoLostWakeup); a shutdown wakes all; the manager implements PriorityChannel, liveness included |
| WorkerSubmitters | Moves and Stops, 2 submitters, 1 thread that starts and stops, 1 collector, 3 commands, queues of 2 | every accepted command is in exactly one place and answered in order; a Stop reaches the running Move; nobody is told "no more results" too early; nothing is accepted by a worker that will not look again |
| WorkerLifeCycle | 1 thread that starts and submits 2 commands, 1 that stops, 1 collector | control and connection given back on every path, before any later start connects; a worker that is being stopped does not become Ready, before the shutdown and after it (NotReadyUnderAStop); every call comes back, and one that throws leaves a joined thread; accepted commands are answered; the worker implements CommandService, whenever the stop comes |
| WorkerAndRobot | 1 thread that starts, submits 2 commands and stops; 2 names, 2 poses, 1 look at the token | after a Stop that is answered no task runs until the next command begins, also when an earlier Move has left its task running (StopStops); stored poses and completed Moves are what the answers say, lost answers included (PosesAsAnswered); worker and robot together are OpcuaWorker with its fairness (ImplementsWorker) |
| WorkerReady, WorkerAbort | the smallest that show it | findings, below |
| RobotMoves | 2 names, 2 poses, 2 looks at the token | a true answer means the pose was reached; FrankaRobot implements RobotContract, liveness included |
| RobotCompletion | 1 pose | finding, below |
| BridgeNode | every text of up to 7 symbols, poses of 2 numbers; 5 messages of 4 kinds, subscription of 2, queues of 2 | the parser agrees with a grammar that is stated without parsing, and writing a command down again gives the text it came from; a stop that was read stops the robot even if it was refused; the rest is executed in order |
| NodeAndWorker | a stop, a move, another command and a text that is none; 4 messages, subscription of 2, queues of 1 | a stop that was read has the abort flag up against the running Move once the callback has returned, refused or not (HeardStopAborts), and is executed or followed by the node's end (HeardStopIsExecuted); the thread is joined once, by a failed start or by the first of the two destructors (NobodyThrows); node and worker together are BridgeNode: the worker is Ready from the constructor to the destructor (ImplementsNode) |
| OpcuaClient | up to 2 arguments of 7 kinds and 2 results of 7 kinds; as read value, every packing, sizes right and wrong, all 24 rotations with a finite position and one that is not | whichever library call fails, each object is freed as often as it was handed out, none twice, and none is used afterwards or overwritten (EverythingIsFreed); `callMethod` implements RemoteCall; what the conversions have built, text by text and with allocations that fail, reads back as the value given (SentAsGiven); results come back as they are (ReceivedAsSent); no reading is made up (ReadingsAreReported); saving the current pose stores the matrix that was reported (SavedAsReported) |
| RobotStateCache | 1 poller, 2 readers, 2 fields of 2 parts, 3 rounds | the mutex is held by nobody but who copies; every get is atomic and readings never go back, across threads |

### Why these bounds

* A queue of 1 or 2 is full, empty and in between within three commands. Three
  consumers give two sleepers and one that takes what a notification was meant for.
* Three commands are what an abort needs at most: a Move, the Stop for it and a
  Stop or Move after it. WorkerSubmitters leaves the other commands to WorkerAndRobot:
  a Move that fails at its first look takes the same steps of the worker.
* A Stop after a Move, a Move after a Stop and a save before a Move are two commands
  each. (The safety of WorkerAndRobot was also checked with three commands, 2.7 million
  states, outside the time of a run.) A worker that was stopped is not started again in
  this run: it would serve nothing, as WorkerReady shows.
* Two arguments and two results have an order, a first that is converted and a second
  that fails. Two readers and three rounds let one reader be overtaken by the other and
  the poller twice.
* The token's loop needs a first and a last look; the key-pose map a stored pose,
  the target and another pose to tell an old target from the new.
* `name:x:y` has every position a field of the eight can have (first, inner, last);
  seven symbols leave room for one field more, and for empty ones everywhere.
* In NodeAndWorker queues of one are full after one command, and four messages are two
  stops, the second of which is refused, around a Move that runs and one that waits.
* The theorems do not depend on any of these.

The worker's and the node's runs switch deadlock checking off: a worker that ended
in Error, or was stopped with its callers idle and its commands used up, and a node
that was destroyed, really stop.

### Fairness

* CommandManager: a woken consumer runs. Nobody is obliged to submit or to wait.
* OpcuaWorker: the worker's thread and a caller inside a call go on; no mutex is
  held across a blocking call, and every call to the robot returns (RobotContract).
  A Move told "not yet" again and again runs into its 60 s deadline, hence strong
  fairness of that step. Stops do not overtake for ever because a run submits
  finitely many commands; the repository promises no fairness between the queues.
* WorkerAndRobot: the thread goes on, the clock goes on, the callers in a call go on.
  The strong fairness that OpcuaWorker assumes of the end of a Move is not assumed
  here: ImplementsWorker derives it from the robot's deadline.
* CommandService and RobotStateCache: safety only.
* FrankaRobot: the client's calls return (`config->timeout`, 10 s) and the clock
  goes on. Nothing is assumed of the server.
* OpcuaClient: library calls return. BridgeNode: the executor calls back, a callback
  returns and the worker executes.
* NodeAndWorker: the executor calls back, the node's thread in a call and the worker's
  thread go on, and a Move comes to its end (WorkerAndRobot shows that it does). The
  fairness of BridgeNode is not part of ImplementsNode, since TLC cannot evaluate ENABLED
  under this mapping; what it is there for, that a stop is executed, is checked here from
  the fairness of the threads (HeardStopIsExecuted).

## Findings

* **WorkerAbort** (`opcua_worker.cpp:164`). `enqueuePriority` raises the abort flag
  after it has pushed the Stop. If the worker pops and executes the Stop first, the
  flag goes up when there is no Stop any more, and interrupts every later Move until
  another Stop is executed.
* **WorkerReady** (`opcua_worker.cpp:106`). The manager's shutdown is never taken
  back: a worker that is stopped and started again connects, reports Ready and gives
  the robot back at once. `start` has returned true.
* **RobotCompletion** (`franka_robot.cpp:387`). A move that is over before a look at
  the status has shown its task is waited for until the deadline and reported failed.

Smaller observations, without a run:

* `tryPop` is there "per recuperare i comandi pendenti" (`franka_command_manager.cpp:81`)
  but only its tests call it: commands still queued at a stop stay there and get no
  result.
* A start whose connection fails and a stop that another thread calls meanwhile may
  both join the thread (`opcua_worker.cpp:87` and 108); one throws `std::system_error`,
  and LifeCycleCallsReturn says that the other has then joined the thread. The node has
  one thread for both calls, and cannot (NobodyThrows).
* With two threads that stop, one of them may join and write Disconnected while the other
  is still before its shutdown; a start in between makes the worker Ready again under the
  older stop. NotReadyUnderAStop is therefore about one thread that stops, which is what
  the node has.
* A stop that is ending writes Disconnected (`opcua_worker.cpp:111`) also over the state of
  a worker that another thread has started again meanwhile; this is why CommandService
  promises nothing of its state once the line is closed.
* Moves that were queued before a Stop run after it. A stop of the worker does not
  interrupt a running Move but waits for its end.
* A status that cannot be read ends a move without stopping its task; the next command
  is executed while the robot drives. A Stop still stops it (StopStops).
* When no memory is left for its numbers a pose is sent empty, as if it were converted,
  where the comment at `opcua_client.cpp:711` speaks of indicating the error; so are texts,
  alone or in a structure. `lost` marks these cases in the model, and SentAsGiven
  promises the value itself only without them. A text with a null character inside is
  sent up to that character (`opcua_client.cpp:332`). Likewise a path whose name could not
  be allocated is asked for with an empty name (`opcua_client.cpp:761`).
* When no memory is left for a path's elements their number is already set
  (`opcua_client.cpp:747`) and the path is cleared with that number and no elements
  (`opcua_client.cpp:755`). The model takes the library to bear this.
* `save_pose:...` is accepted with one colon behind its last number (stated in
  ReadsTheForms); results nobody collects are kept for ever, and the node never
  collects; Error is final for a worker; `isConnected` tells of the client object, not
  of its session; the state cache drops `active_task_id`, since it holds a RobotStatus.

## Proofs

TLAPS proves, for every value of the constants, the properties of the runs that are
named here; PROJECT.json has the list. A refinement is proved as far as its safety goes
(initial states and steps); what it says of liveness is left to TLC.

**CommandManagerProofs.** TypeCorrect (types and limits), NoWakeupIsLost,
ShutdownReleasesAll and ManagerIsAChannel. NoLostWakeup is not inductive alone. It needs
the types - waiting and notified consumers are different ones and finitely many, so that a
notification adds exactly one to the notified - and ShutdownReleases: after a shutdown a
woken consumer leaves with the commands still pending, which would break the count if
anybody still slept. Every step is a step of PriorityChannel or none: the two queues, one
behind the other, are the channel's line. Assumes a capacity of at least one (the
constructor throws otherwise), finitely many consumers, and that no command is NoCommand.

**OpcuaWorkerProofs.** All safety properties of the worker and WorkerIsAService, for any
callers, commands and capacity. The invariant has six parts, three about places and three
about what the mutexes do not protect together:

* CallersInPlace and ThreadInPlace: who submits has a command in hand, who executes one
  too. RobotAt: connection and control are held at fixed places of the thread - together
  they give RobotGivenBack.
* ThreadLife: `start` writes `worker_thread_` only when there is no thread (why one
  starter at a time is assumed), and a worker in Error has a thread that is ending.
* BeforeShutdown: until somebody shuts the queue down the state tells where the thread is,
  so that a submitter which has read Ready and let go of the mutex still finds a thread
  that serves (AcceptsOnlyWhileServing). AfterShutdown: from then on the thread finishes
  the command in hand, takes none, and a stop that writes Disconnected has joined it, so
  that no result follows (NoResultComesLate). The cut is the shutdown because after it a
  second start makes the state say anything (WorkerReady).

In StopsAreSeen the flag is taken down only by a Stop, before it is executed, and a Move
begins with no Stop in the queue, since all of them are served before it - unless Moves are
urgent too, which is the theorem's hypothesis: between two Stops an urgent Move would run
with the flag taken down by the first of them. The code would let a caller do that; the
node does not. EveryCommandIsAccountedFor rests on numbers that are used
once (NumbersAreUnique) and on AccountInv, which says of each queue that what is left of
it is the end of what was accepted, and of each number taken where it is; the four places
are one sequence (Taken), to which only popping adds. It is stated with positions and not
by filtering sequences: a filter is recursive, and neither prover can unfold it. The facts
about the manager are those of CommandManagerProofs, instantiated. WorkerIsAService goes
action by action: the service's Hold and Release are the two control calls, Take and Wait
are the pop, Answer is the push of a result.

StopPrevails (NotReadyUnderAStop) has an invariant of its own, StopInv: from the stop's
first critical section on the state says Stopping until the thread has had its last look
at it, and a start that joins does so only over a thread that has failed. It assumes one
thread that stops, and needs it: without that the two steps that join are not provable,
for the reason given among the observations.

**FrankaRobotProofs.** TypeCorrect (with the bound on the looks at the token), MoveCorrect:
a true answer means the pose was reached, and KeepsContractSafely. The invariant MoveInv
says why a move arrives: from the Replace to the end of the move the target stays the
move's own (TargetIsOurs), so the task drives there; a task that was seen and is not there
any more has either ended, at the pose, or failed, which shows (TaskIsOurs); no other
operation is taken for a move (OtherOperations). Assumes that `target_pose` is a name.

**WorkerAndRobotProofs.** The composed system takes only steps of OpcuaWorker
(SystemIsAWorker, the safety of ImplementsWorker) and only steps of FrankaRobot
(SystemIsARobot: a change of the worker's flag is its AbortChanges), so that the theorems
of both hold of it, MovesArrive among them. The second needs the worker's invariant. What
only the two together have is StoppedRobotStands and PosesAreAsAnswered. Their invariant
ties the two sides: the thread stays at its call while the operation goes on, which no
caller can change since `start` writes no thread over another (ThreadWaits, from
ThreadLife); the call made for a Stop is `stop`, and only a move or a named task starts a
task (Stands); between a save and its return the map is ahead of what the answers say
(MapIsKnown), and what a move has read the answers know (GoalIsKnown).

**BridgeNodeProofs.** TypeCorrect, OrderIsKept and StopsArePending. Numbers grow along the
topic, the urgent part of the line are its Stops, and the rest is sorted by number
(InLine). StopsArePending - once a stop was read a Stop is in the callback's hand or heads
the line until one is executed, also when this one was refused - is what StopIsHeard rests
on; that it is executed at last is for TLC. ReadsEveryText is about the parser, for texts of any length and
poses of any number of numbers. The ends of the fields are a set of positions; that a k-th
exists for every k up to its size, with no end between two neighbours, is NthOrder: the rank
of a position is an injection into as many numbers, hence onto them. So a field is what lies
between two neighbouring ends (EndsInOrder, FieldsBetween), which turns what the parser asks
of the fields into what InPoseForm says of the colons (FormIsRead). That the command is
written as the text it came from needs an induction over the fields, done as a search for
the first field that goes wrong (Least, FieldsAreWritten). Assumes a subscription and
queues that hold at least one and poses of at least one number.

**NodeAndWorkerProofs.** The composed system takes only steps of OpcuaWorker
(SystemIsAWorker) and only steps of BridgeNode (SystemIsANode, all of ImplementsNode), so
that what is proved of each holds of the two: OrderIsKept of the commands in the worker's
queues, StopsAreSeen of the node's stops. The first needs that a callback never finds a
worker that is not Ready, as OpcuaWorker has no call for a refused look at the state;
NodeInPlace says why: start has answered true only with the state Ready, which nothing but
`stop` changes (StaysReady, from BeforeShutdown), and `stop` is called by the thread that
would have to call back. The second maps a line of numbers to a line of orders: that a
command in the worker is the order of its number is OrdersFit, that an order once given is
not changed by later ones needs their numbers to grow (TopicInv), and that Append, Tail and
concatenation commute with the mapping is MappedAppend, MappedTail and MappedConcat.
HeardStopsAbort rests on StopWaits - while a stop is owed a Stop is in the priority queue or
on its way there; a full queue is not empty, so that a refusal leaves one - and on
StopsAreSeen. NobodyEverThrows needs to know when there is a thread to join (ThreadKept): from
`startSpawn` until `join`, in which the thread of the node is alone. That a constructor that
threw leaves no thread behind, so that the worker's own destructor returns at once, needs that
a start which did not find Ready has found Error and joined (StaysAlive: without a stop the
state only goes from Connecting to Ready or Error). Assumes what the code fixes: the node is the worker's only caller, Stops and
nothing else are urgent (CallersAssumption), and of the bounds that a number is left for
every message.

**OpcuaClientProofs.** ResourcesCorrect: an operation that ends has freed every library
object as often as it was handed out, whichever call failed, and none was freed twice or
used after that. ResourceInv says for each place and step what is held: by the operation
at its place (OperationHeld), by the translation of a path (PathHeld) and by the
conversion (ConversionHeld) at their steps, the client by its own state (ClientHeld); a
path is translated only over an open client, so that no disconnection comes between, and
no more texts of a structure are held than were copied. TypeCorrect, GivenIsSent and
ReceivedIsTold: BuiltInv says of the value in conversion that the texts copied so far are
the first ones of the value given (Filling), and of each variant made so far that it
carries the value at its index (Carries); of the results that each value is the conversion
of the variant at its index (Converted). ThereAndBack is the lemma they meet in: a variant
that carries a value reads back as that value, kind by kind. `lost` is part of the
invariant and not of the data: with it set nothing but the type is promised.
CallsAreRemoteCalls: PlaceInv says that a success was executed. Assumes of the data only
that values and variants have the shapes of `Value` and of what a `UA_Variant` can hold
(DataAssumption), texts and numbers being any.

The same module proves of ClientReadings ReadingsAreTrue: a reading that is not its default
comes from one whole variant of the right type and size; and SavedIsReported: reading a pose
and saving it stores the same sixteen numbers, for every position. That each of the 24 rotations has a
quaternion is shown by naming it, in 24 cases.

**RobotStateCacheProofs.** TypeCorrect (with: the mutex is never left locked) and
GetsAreWhole: every get returns one reading, put before it returned and not older than
what had been seen when it began. GetsAreAtomic speaks of a get that is over; the
invariant CacheInv of those still copying: only the holder of the mutex copies
(OneCopies), what is in a field has one round except where the poller is writing it
(FieldsAreCurrent), and what a reader has copied so far is still there
(CopiesAreCurrent). Assumes that readings have at least one part and that the poller is
no reader; two pollers could put an older reading after a newer one.

Only model-checked:

* Liveness, and with it the other half of the refinements: LifeCycleCallsReturn,
  CollectorsReleased, AcceptedIsAnswered, StopIsHeard, HeardStopIsExecuted, and the fairness in
  ImplementsChannel, KeepsContract, ImplementsWorker and IsARemoteCall. The provers have
  neither ENABLED nor fairness.

## Not modelled

* The fakes (`src/fake_test_version/`): test doubles with settable answers. They decide
  nothing the program does; the models let every answer come.
* Generated types, build files, containers: no logic of the program.
* Rounding: a pose is exact here, and `kTolerance` a yes or no. Rotations other than the
  24 of integers, and matrices that are no rotation, are out of TLC's reach.
* A lost session: the client has no handler for it; every later call fails, which the
  models let happen at any time.

## Plan

1. Done: CommandManager with its abstraction; OpcuaWorker and the service it implements;
   FrankaRobot with its contract; worker and robot composed; BridgeNode; OpcuaClient with
   conversions and readings; RobotStateCache.
2. Done: the proofs of every safety property that a run checks, and of the safety of every
   refinement.
3. Done: node and worker composed, and its theorems.
4. Left: node, worker and robot in one model, so that PosesAsAnswered and StopStops speak
   of the texts that were published. What is proved of the two pairs gives most of it.
