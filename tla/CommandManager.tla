--------------------------- MODULE CommandManager ---------------------------
(***************************************************************************)
(* FrankaCommandManager: the monitor between the threads that submit robot *)
(* commands and the thread that executes them.  Two bounded FIFO queues, a *)
(* shutdown flag, one mutex and one condition variable.                    *)
(*                                                                         *)
(* Every operation of the class holds mutex_ from its first to its last    *)
(* statement, so it is one atomic step; only waitAndPop gives the mutex up *)
(* in the middle, inside condition_.wait.  A consumer in there is either   *)
(* in waiting (asleep) or in notified (woken, yet to take the mutex back   *)
(* and to evaluate the predicate again).                                   *)
(*                                                                         *)
(* A rejected enqueue changes nothing; its condition is ~CanEnqueue or     *)
(* ~CanEnqueuePriority, which OpcuaWorker reads.                           *)
(***************************************************************************)
EXTENDS Naturals, Sequences, FiniteSets

CONSTANTS Commands,    \* the commands that may be submitted
          Consumers,   \* the threads that call waitAndPop or tryPop
          Capacity,    \* capacity_, the limit of each of the two queues
          NoCommand    \* std::nullopt

(* The constructor throws when capacity_ is zero.  *)
ASSUME CapacityAssumption == Capacity \in Nat \ {0}
ASSUME ConsumersAssumption == IsFiniteSet(Consumers)
ASSUME NoCommandAssumption == NoCommand \notin Commands

VARIABLES command_queue,       \* commands, oldest first
          priority_queue,      \* priority commands, oldest first
          shutdown_requested,  \* shutdown() was called; nothing resets it
          waiting,             \* consumers asleep on condition_
          notified,            \* consumers woken that have not run yet
          popped               \* what the last pop of a consumer returned

vars == <<command_queue, priority_queue, shutdown_requested, waiting,
          notified, popped>>

Blocked == waiting \cup notified

Pending == Len(command_queue) + Len(priority_queue)

Init ==
  /\ command_queue = <<>>
  /\ priority_queue = <<>>
  /\ shutdown_requested = FALSE
  /\ waiting = {}
  /\ notified = {}
  /\ popped = [t \in Consumers |-> NoCommand]

-----------------------------------------------------------------------------
(* The producers' side.  *)

(* Mutant of NotifyOne: nobody is woken.  *)
NotifyNobody == UNCHANGED <<waiting, notified>>

(* condition_.notify_one: any one sleeper, and nobody when there is none.  *)
NotifyOne ==
  \/ waiting = {} /\ UNCHANGED <<waiting, notified>>
  \/ \E t \in waiting :
       /\ waiting' = waiting \ {t}
       /\ notified' = notified \cup {t}

NotifyAll ==
  /\ waiting' = {}
  /\ notified' = notified \cup waiting

(* Mutants of CanEnqueue: one command too many; the shutdown is ignored.  *)
CanEnqueueOneMore == ~shutdown_requested /\ Len(command_queue) <= Capacity
CanEnqueueAlways == Len(command_queue) < Capacity

CanEnqueue == ~shutdown_requested /\ Len(command_queue) < Capacity

CanEnqueuePriority == ~shutdown_requested /\ Len(priority_queue) < Capacity

Enqueue(c) ==
  /\ CanEnqueue
  /\ command_queue' = Append(command_queue, c)
  /\ NotifyOne
  /\ UNCHANGED <<priority_queue, shutdown_requested, popped>>

EnqueuePriority(c) ==
  /\ CanEnqueuePriority
  /\ priority_queue' = Append(priority_queue, c)
  /\ NotifyOne
  /\ UNCHANGED <<command_queue, shutdown_requested, popped>>

Shutdown ==
  /\ shutdown_requested' = TRUE
  /\ NotifyAll
  /\ UNCHANGED <<command_queue, priority_queue, popped>>

-----------------------------------------------------------------------------
(* The consumers' side.  *)

(* The predicate condition_.wait waits for.  *)
CanReturn == command_queue # <<>> \/ priority_queue # <<>> \/ shutdown_requested

(* Mutant of PopFront: normal commands first.  *)
PopFrontNormalFirst(t) ==
  \/ /\ command_queue # <<>>
     /\ popped' = [popped EXCEPT ![t] = Head(command_queue)]
     /\ command_queue' = Tail(command_queue)
     /\ UNCHANGED priority_queue
  \/ /\ command_queue = <<>>
     /\ priority_queue # <<>>
     /\ popped' = [popped EXCEPT ![t] = Head(priority_queue)]
     /\ priority_queue' = Tail(priority_queue)
     /\ UNCHANGED command_queue

(* Priority commands first, each queue in its own order.  *)
PopFront(t) ==
  \/ /\ priority_queue # <<>>
     /\ popped' = [popped EXCEPT ![t] = Head(priority_queue)]
     /\ priority_queue' = Tail(priority_queue)
     /\ UNCHANGED command_queue
  \/ /\ priority_queue = <<>>
     /\ command_queue # <<>>
     /\ popped' = [popped EXCEPT ![t] = Head(command_queue)]
     /\ command_queue' = Tail(command_queue)
     /\ UNCHANGED priority_queue

(* Mutant of PopNothing: the queues are emptied.  *)
PopNothingDiscards(t) ==
  /\ popped' = [popped EXCEPT ![t] = NoCommand]
  /\ command_queue' = <<>>
  /\ priority_queue' = <<>>

PopNothing(t) ==
  /\ popped' = [popped EXCEPT ![t] = NoCommand]
  /\ UNCHANGED <<command_queue, priority_queue>>

(* waitAndPop once the predicate holds: after a shutdown the queues are not *)
(* looked at any more.                                                      *)
Return(t) ==
  /\ CanReturn
  /\ IF shutdown_requested THEN PopNothing(t) ELSE PopFront(t)
  /\ UNCHANGED shutdown_requested

(* waitAndPop called by t: return at once or fall asleep.  *)
WaitAndPop(t) ==
  /\ t \notin Blocked
  /\ \/ /\ Return(t)
        /\ UNCHANGED <<waiting, notified>>
     \/ /\ ~CanReturn
        /\ waiting' = waiting \cup {t}
        /\ UNCHANGED <<command_queue, priority_queue, shutdown_requested,
                       notified, popped>>

(* The wait of t evaluates its predicate again: another consumer may have  *)
(* been faster, and t goes back to sleep.                                  *)
Resume(t) ==
  /\ t \in notified
  /\ notified' = notified \ {t}
  /\ \/ Return(t) /\ UNCHANGED waiting
     \/ /\ ~CanReturn
        /\ waiting' = waiting \cup {t}
        /\ UNCHANGED <<command_queue, priority_queue, shutdown_requested, popped>>

(* A condition variable may wake a thread that nobody notified.  *)
SpuriousWakeup(t) ==
  /\ t \in waiting
  /\ waiting' = waiting \ {t}
  /\ notified' = notified \cup {t}
  /\ UNCHANGED <<command_queue, priority_queue, shutdown_requested, popped>>

(* tryPop does not look at shutdown_requested: it still hands out what was  *)
(* pending when shutdown was called.                                        *)
TryPop(t) ==
  /\ t \notin Blocked
  /\ \/ PopFront(t)
     \/ Pending = 0 /\ PopNothing(t)
  /\ UNCHANGED <<shutdown_requested, waiting, notified>>

-----------------------------------------------------------------------------
Next ==
  \/ \E c \in Commands : Enqueue(c) \/ EnqueuePriority(c)
  \/ Shutdown
  \/ \E t \in Consumers :
       WaitAndPop(t) \/ Resume(t) \/ SpuriousWakeup(t) \/ TryPop(t)

Spec == Init /\ [][Next]_vars

(* A thread that was woken gets the mutex in the end: no operation blocks   *)
(* while it holds it.  Nobody is obliged to submit, to shut down or to call *)
(* waitAndPop.                                                              *)
FairSpec == Spec /\ \A t \in Consumers : WF_vars(Resume(t))

-----------------------------------------------------------------------------
(* The variables hold values of their types, no queue exceeds the capacity *)
(* (the limits of enqueue and enqueuePriority) and a thread is not asleep   *)
(* and awake at once.                                                       *)
TypeOK ==
  /\ command_queue \in Seq(Commands)
  /\ priority_queue \in Seq(Commands)
  /\ Len(command_queue) <= Capacity
  /\ Len(priority_queue) <= Capacity
  /\ shutdown_requested \in BOOLEAN
  /\ waiting \subseteq Consumers
  /\ notified \subseteq Consumers
  /\ waiting \cap notified = {}
  /\ popped \in [Consumers -> Commands \cup {NoCommand}]

(* notify_one suffices although two queues and any number of consumers share *)
(* one condition variable: while somebody sleeps in waitAndPop, every        *)
(* pending command has a consumer of its own on the way to it.               *)
NoLostWakeup == waiting # {} => Pending <= Cardinality(notified)

(* Nobody sleeps in waitAndPop once shutdown was requested, and nobody falls *)
(* asleep afterwards: shutdown's notify_all reached everybody.               *)
ShutdownReleases == shutdown_requested => waiting = {}

-----------------------------------------------------------------------------
(* The refinement mapping: the priority queue is served before the other one, *)
(* and a consumer waits from the moment it falls asleep until it returns.     *)
Channel == INSTANCE PriorityChannel WITH
  pending  <- priority_queue \o command_queue,
  nUrgent  <- Len(priority_queue),
  closed   <- shutdown_requested,
  blocked  <- Blocked,
  received <- popped

(* The manager behaves as the channel does: service order, capacities, who   *)
(* waits and who is told about the shutdown, and that waiting consumers are   *)
(* served.                                                                    *)
ImplementsChannel == Channel!FairSpec
=============================================================================
