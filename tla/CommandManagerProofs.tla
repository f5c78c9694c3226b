------------------------ MODULE CommandManagerProofs ------------------------
(***************************************************************************)
(* The invariants of CommandManager hold for every set of commands, every  *)
(* finite set of consumers and every capacity.                             *)
(***************************************************************************)
EXTENDS CommandManager, SequenceTheorems, FiniteSetTheorems, TLAPS

(* Taking from the front leaves both queues typed and no longer than before, *)
(* and one command fewer is pending.                                          *)
LEMMA PopFrontLemma ==
  ASSUME TypeOK, NEW t \in Consumers, PopFront(t)
  PROVE  /\ command_queue' \in Seq(Commands)
         /\ priority_queue' \in Seq(Commands)
         /\ Len(command_queue') <= Capacity
         /\ Len(priority_queue') <= Capacity
         /\ popped' \in [Consumers -> Commands \cup {NoCommand}]
         /\ Pending' = Pending - 1
<1>1. CASE /\ priority_queue # <<>>
           /\ popped' = [popped EXCEPT ![t] = Head(priority_queue)]
           /\ priority_queue' = Tail(priority_queue)
           /\ UNCHANGED command_queue
  <2>1. /\ Head(priority_queue) \in Commands
        /\ Tail(priority_queue) \in Seq(Commands)
        /\ Len(Tail(priority_queue)) = Len(priority_queue) - 1
    BY <1>1, HeadTailProperties DEF TypeOK
  <2>2. Len(priority_queue) \in Nat /\ Len(command_queue) \in Nat
    BY LenProperties DEF TypeOK
  <2> QED BY <1>1, <2>1, <2>2, CapacityAssumption DEF TypeOK, Pending
<1>2. CASE /\ priority_queue = <<>>
           /\ command_queue # <<>>
           /\ popped' = [popped EXCEPT ![t] = Head(command_queue)]
           /\ command_queue' = Tail(command_queue)
           /\ UNCHANGED priority_queue
  <2>1. /\ Head(command_queue) \in Commands
        /\ Tail(command_queue) \in Seq(Commands)
        /\ Len(Tail(command_queue)) = Len(command_queue) - 1
    BY <1>2, HeadTailProperties DEF TypeOK
  <2>2. Len(priority_queue) \in Nat /\ Len(command_queue) \in Nat
    BY LenProperties DEF TypeOK
  <2> QED BY <1>2, <2>1, <2>2, CapacityAssumption DEF TypeOK, Pending
<1> QED BY <1>1, <1>2 DEF PopFront

(* What a returning waitAndPop does to the data: under a shutdown nothing is  *)
(* taken, otherwise one command is.                                           *)
LEMMA ReturnLemma ==
  ASSUME TypeOK, NEW t \in Consumers, Return(t)
  PROVE  /\ command_queue' \in Seq(Commands)
         /\ priority_queue' \in Seq(Commands)
         /\ Len(command_queue') <= Capacity
         /\ Len(priority_queue') <= Capacity
         /\ shutdown_requested' = shutdown_requested
         /\ popped' \in [Consumers -> Commands \cup {NoCommand}]
         /\ ~shutdown_requested => Pending' = Pending - 1
<1>1. CASE shutdown_requested
  BY <1>1 DEF Return, PopNothing, TypeOK
<1>2. CASE ~shutdown_requested
  BY <1>2, PopFrontLemma DEF Return
<1> QED BY <1>1, <1>2

(* notify_one and notify_all only move sleepers.  *)
LEMMA NotifyLemma ==
  ASSUME TypeOK, NotifyOne \/ NotifyAll
  PROVE  /\ waiting' \subseteq Consumers
         /\ notified' \subseteq Consumers
         /\ waiting' \cap notified' = {}
BY DEF TypeOK, NotifyOne, NotifyAll

LEMMA TypeInit == Init => TypeOK
<1> SUFFICES ASSUME Init PROVE TypeOK
  OBVIOUS
<1>1. /\ command_queue \in Seq(Commands) /\ priority_queue \in Seq(Commands)
      /\ Len(command_queue) = 0 /\ Len(priority_queue) = 0
  BY EmptySeq DEF Init
<1>2. popped \in [Consumers -> Commands \cup {NoCommand}]
  BY Zenon DEF Init
<1>3. waiting = {} /\ notified = {} /\ shutdown_requested \in BOOLEAN
  BY DEF Init
<1> QED BY <1>1, <1>2, <1>3, CapacityAssumption DEF TypeOK

LEMMA TypeStep == TypeOK /\ [Next]_vars => TypeOK'
<1> SUFFICES ASSUME TypeOK, [Next]_vars PROVE TypeOK'
  OBVIOUS
<1>1. ASSUME NEW c \in Commands, Enqueue(c) PROVE TypeOK'
  <2>1. Append(command_queue, c) \in Seq(Commands) /\ Len(Append(command_queue, c)) = Len(command_queue) + 1
    BY AppendProperties DEF TypeOK
  <2>2. Len(command_queue) + 1 <= Capacity
    BY <1>1, CapacityAssumption, LenProperties DEF Enqueue, CanEnqueue, TypeOK
  <2> QED BY <1>1, <2>1, <2>2, NotifyLemma DEF Enqueue, TypeOK
<1>2. ASSUME NEW c \in Commands, EnqueuePriority(c) PROVE TypeOK'
  <2>1. Append(priority_queue, c) \in Seq(Commands) /\ Len(Append(priority_queue, c)) = Len(priority_queue) + 1
    BY AppendProperties DEF TypeOK
  <2>2. Len(priority_queue) + 1 <= Capacity
    BY <1>2, CapacityAssumption, LenProperties DEF EnqueuePriority, CanEnqueuePriority, TypeOK
  <2> QED BY <1>2, <2>1, <2>2, NotifyLemma DEF EnqueuePriority, TypeOK
<1>3. CASE Shutdown
  BY <1>3, NotifyLemma DEF Shutdown, TypeOK
<1>4. ASSUME NEW t \in Consumers, WaitAndPop(t) PROVE TypeOK'
  <2>1. CASE Return(t) /\ UNCHANGED <<waiting, notified>>
    BY <2>1, ReturnLemma DEF TypeOK
  <2>2. CASE ~Return(t)
    BY <1>4, <2>2 DEF WaitAndPop, TypeOK, Blocked
  <2> QED BY <1>4, <2>1, <2>2 DEF WaitAndPop, Return
<1>5. ASSUME NEW t \in Consumers, Resume(t) PROVE TypeOK'
  <2>1. CASE Return(t) /\ UNCHANGED waiting
    BY <1>5, <2>1, ReturnLemma DEF Resume, TypeOK
  <2>2. CASE ~Return(t)
    BY <1>5, <2>2 DEF Resume, TypeOK
  <2> QED BY <1>5, <2>1, <2>2 DEF Resume, Return
<1>6. ASSUME NEW t \in Consumers, SpuriousWakeup(t) PROVE TypeOK'
  BY <1>6 DEF SpuriousWakeup, TypeOK
<1>7. ASSUME NEW t \in Consumers, TryPop(t) PROVE TypeOK'
  <2>1. CASE PopFront(t)
    BY <1>7, <2>1, PopFrontLemma DEF TryPop, TypeOK
  <2>2. CASE PopNothing(t)
    BY <1>7, <2>2 DEF TryPop, PopNothing, TypeOK
  <2> QED BY <1>7, <2>1, <2>2 DEF TryPop
<1>8. CASE UNCHANGED vars
  BY <1>8 DEF vars, TypeOK
<1> QED BY <1>1, <1>2, <1>3, <1>4, <1>5, <1>6, <1>7, <1>8 DEF Next

(* The variables keep their types and the queues their limit.  *)
THEOREM TypeCorrect == Spec => []TypeOK
<1>1. Init => TypeOK
  BY TypeInit
<1>2. TypeOK /\ [Next]_vars => TypeOK'
  BY TypeStep
<1> QED BY <1>1, <1>2, PTL DEF Spec

-----------------------------------------------------------------------------
(* NoLostWakeup and ShutdownReleases are inductive together with TypeOK: a   *)
(* notification moves one sleeper for one more command; a consumer that takes *)
(* the mutex back takes one command with it, or goes to sleep because there   *)
(* is none.                                                                   *)

LEMMA NotifyCounts ==
  ASSUME TypeOK, NotifyOne
  PROVE  \/ waiting' = {}
         \/ waiting # {} /\ Cardinality(notified') = Cardinality(notified) + 1
<1> SUFFICES ASSUME waiting # {}
             PROVE  Cardinality(notified') = Cardinality(notified) + 1
  BY DEF NotifyOne
<1>1. PICK t \in waiting : notified' = notified \cup {t}
  BY DEF NotifyOne
<1>2. t \notin notified /\ IsFiniteSet(notified)
  BY FS_Subset, ConsumersAssumption DEF TypeOK
<1> QED BY <1>1, <1>2, FS_AddElement

LEMMA Counts ==
  ASSUME TypeOK
  PROVE  /\ IsFiniteSet(notified)
         /\ Cardinality(notified) \in Nat
         /\ Pending \in Nat
         /\ Len(command_queue) \in Nat
         /\ Len(priority_queue) \in Nat
         /\ Pending = 0 <=> command_queue = <<>> /\ priority_queue = <<>>
<1>1. IsFiniteSet(notified)
  BY FS_Subset, ConsumersAssumption DEF TypeOK
<1>2. Len(command_queue) \in Nat /\ Len(priority_queue) \in Nat
  BY LenProperties DEF TypeOK
<1>3. /\ Len(command_queue) = 0 <=> command_queue = <<>>
      /\ Len(priority_queue) = 0 <=> priority_queue = <<>>
  BY EmptySeq DEF TypeOK
<1> QED BY <1>1, <1>2, <1>3, FS_CardinalityType DEF Pending

WakeupInv == NoLostWakeup /\ ShutdownReleases

LEMMA WakeupStep == TypeOK /\ TypeOK' /\ WakeupInv /\ [Next]_vars => WakeupInv'
<1> SUFFICES ASSUME TypeOK, TypeOK', NoLostWakeup, ShutdownReleases, [Next]_vars
             PROVE  NoLostWakeup' /\ ShutdownReleases'
  BY DEF WakeupInv
<1> USE Counts
<1>a. Cardinality(notified') \in Nat
  BY FS_Subset, FS_CardinalityType, ConsumersAssumption DEF TypeOK
<1>1. ASSUME NEW c \in Commands, Enqueue(c) PROVE NoLostWakeup' /\ ShutdownReleases'
  <2>1. Pending' = Pending + 1
    BY <1>1, AppendProperties DEF Enqueue, Pending, TypeOK
  <2>2. ~shutdown_requested'
    BY <1>1 DEF Enqueue, CanEnqueue
  <2> QED BY <1>1, <2>1, <2>2, NotifyCounts DEF Enqueue, NoLostWakeup, ShutdownReleases
<1>2. ASSUME NEW c \in Commands, EnqueuePriority(c) PROVE NoLostWakeup' /\ ShutdownReleases'
  <2>1. Pending' = Pending + 1
    BY <1>2, AppendProperties DEF EnqueuePriority, Pending, TypeOK
  <2>2. ~shutdown_requested'
    BY <1>2 DEF EnqueuePriority, CanEnqueuePriority
  <2> QED BY <1>2, <2>1, <2>2, NotifyCounts DEF EnqueuePriority, NoLostWakeup, ShutdownReleases
<1>3. CASE Shutdown
  BY <1>3 DEF Shutdown, NotifyAll, NoLostWakeup, ShutdownReleases
<1>4. ASSUME NEW t \in Consumers, WaitAndPop(t) PROVE NoLostWakeup' /\ ShutdownReleases'
  <2>1. CASE Return(t) /\ UNCHANGED <<waiting, notified>>
    BY <2>1, ReturnLemma DEF NoLostWakeup, ShutdownReleases
  <2>2. CASE ~CanReturn
    <3>1. Pending' = 0 /\ ~shutdown_requested'
      BY <1>4, <2>2 DEF WaitAndPop, Return, CanReturn, Pending
    <3> QED BY <1>a, <3>1 DEF NoLostWakeup, ShutdownReleases
  <2> QED BY <1>4, <2>1, <2>2 DEF WaitAndPop
<1>5. ASSUME NEW t \in Consumers, Resume(t) PROVE NoLostWakeup' /\ ShutdownReleases'
  <2>1. CASE Return(t) /\ UNCHANGED waiting
    <3>1. Cardinality(notified') = Cardinality(notified) - 1
      BY <1>5, FS_RemoveElement DEF Resume
    <3> QED BY <2>1, <3>1, ReturnLemma DEF NoLostWakeup, ShutdownReleases
  <2>2. CASE ~CanReturn
    <3>1. Pending' = 0 /\ ~shutdown_requested'
      BY <1>5, <2>2 DEF Resume, Return, CanReturn, Pending
    <3> QED BY <1>a, <3>1 DEF NoLostWakeup, ShutdownReleases
  <2> QED BY <1>5, <2>1, <2>2 DEF Resume
<1>6. ASSUME NEW t \in Consumers, SpuriousWakeup(t) PROVE NoLostWakeup' /\ ShutdownReleases'
  <2>1. t \notin notified /\ waiting' \subseteq waiting
    BY <1>6 DEF SpuriousWakeup, TypeOK
  <2>2. Cardinality(notified') = Cardinality(notified) + 1
    BY <1>6, <2>1, FS_AddElement DEF SpuriousWakeup
  <2> QED BY <1>6, <2>1, <2>2 DEF SpuriousWakeup, NoLostWakeup, ShutdownReleases, Pending
<1>7. ASSUME NEW t \in Consumers, TryPop(t) PROVE NoLostWakeup' /\ ShutdownReleases'
  <2>1. Pending' <= Pending
    BY <1>7, PopFrontLemma DEF TryPop, PopNothing, Pending
  <2>2. Pending' \in Nat
    BY LenProperties DEF TypeOK, Pending
  <2> QED BY <1>7, <2>1, <2>2 DEF TryPop, NoLostWakeup, ShutdownReleases
<1>8. CASE UNCHANGED vars
  BY <1>8 DEF vars, NoLostWakeup, ShutdownReleases, Pending
<1> QED BY <1>1, <1>2, <1>3, <1>4, <1>5, <1>6, <1>7, <1>8 DEF Next

LEMMA WakeupCorrect == Spec => []WakeupInv
<1>1. Init => WakeupInv
  BY DEF Init, WakeupInv, NoLostWakeup, ShutdownReleases
<1>2. TypeOK /\ TypeOK' /\ WakeupInv /\ [Next]_vars => WakeupInv'
  BY WakeupStep
<1> QED BY <1>1, <1>2, TypeCorrect, PTL DEF Spec

(* One notify_one for each command is enough, for any number of consumers.  *)
THEOREM NoWakeupIsLost == Spec => []NoLostWakeup
<1>1. WakeupInv => NoLostWakeup
  BY DEF WakeupInv
<1> QED BY <1>1, WakeupCorrect, PTL

(* After a shutdown nobody sleeps in waitAndPop any more.  *)
THEOREM ShutdownReleasesAll == Spec => []ShutdownReleases
<1>1. WakeupInv => ShutdownReleases
  BY DEF WakeupInv
<1> QED BY <1>1, WakeupCorrect, PTL

-----------------------------------------------------------------------------
(* The refinement: each step of the manager is a step of the channel, or none. *)

LEMMA AppendToLine ==
  ASSUME NEW S, NEW s \in Seq(S), NEW t \in Seq(S), NEW c \in S
  PROVE  s \o Append(t, c) = Append(s \o t, c)
OBVIOUS

LEMMA InsertInLine ==
  ASSUME NEW S, NEW s \in Seq(S), NEW t \in Seq(S), NEW c \in S
  PROVE  Append(s, c) \o t =
           SubSeq(s \o t, 1, Len(s)) \o <<c>> \o SubSeq(s \o t, Len(s) + 1, Len(s \o t))
<1>1. SubSeq(s \o t, 1, Len(s)) = s
  OBVIOUS
<1>2. SubSeq(s \o t, Len(s) + 1, Len(s \o t)) = t
  OBVIOUS
<1>3. Append(s, c) \o t = s \o <<c>> \o t
  OBVIOUS
<1> QED BY <1>1, <1>2, <1>3

LEMMA TakeFromLine ==
  ASSUME NEW S, NEW s \in Seq(S), NEW t \in Seq(S), s # <<>>
  PROVE  Head(s \o t) = Head(s) /\ Tail(s \o t) = Tail(s) \o t
OBVIOUS

LEMMA ChannelPopFront ==
  ASSUME TypeOK, NEW t \in Consumers, PopFront(t), UNCHANGED shutdown_requested
  PROVE  Channel!TakeFirst(t)
<1>1. CASE priority_queue # <<>>
  <2>1. /\ popped' = [popped EXCEPT ![t] = Head(priority_queue)]
        /\ priority_queue' = Tail(priority_queue) /\ command_queue' = command_queue
        /\ Len(Tail(priority_queue)) = Len(priority_queue) - 1 /\ Len(priority_queue) # 0
        /\ priority_queue \o command_queue # <<>>
    BY <1>1 DEF PopFront, TypeOK
  <2> QED BY <1>1, <2>1, TakeFromLine DEF Channel!TakeFirst, TypeOK
<1>2. CASE priority_queue = <<>>
  <2>1. /\ command_queue # <<>>
        /\ popped' = [popped EXCEPT ![t] = Head(command_queue)]
        /\ command_queue' = Tail(command_queue) /\ priority_queue' = <<>>
    BY <1>2 DEF PopFront
  <2>2. priority_queue \o command_queue = command_queue
    BY <1>2 DEF TypeOK
  <2>3. priority_queue' \o command_queue' = Tail(command_queue)
    BY <2>1 DEF TypeOK
  <2>4. Len(priority_queue) = 0 /\ Len(priority_queue') = 0
    BY <1>2, <2>1
  <2> QED BY <2>1, <2>2, <2>3, <2>4 DEF Channel!TakeFirst
<1> QED BY <1>1, <1>2

LEMMA ChannelReturn ==
  ASSUME TypeOK, NEW t \in Consumers, Return(t), Blocked' = Blocked \ {t}
  PROVE  Channel!Next
<1>1. CASE shutdown_requested
  <2>1. Channel!LeaveEmptyHanded(t)
    BY <1>1 DEF Return, PopNothing, Channel!LeaveEmptyHanded
  <2> QED BY <2>1 DEF Channel!Next
<1>2. CASE ~shutdown_requested
  <2>1. Channel!Take(t)
    BY <1>2, ChannelPopFront DEF Return, Channel!Take
  <2> QED BY <2>1 DEF Channel!Next
<1> QED BY <1>1, <1>2

LEMMA ChannelStep ==
  ASSUME TypeOK, TypeOK', [Next]_vars
  PROVE  [Channel!Next]_(Channel!vars)
<1>1. ASSUME NEW c \in Commands, Enqueue(c) PROVE Channel!Next
  <2>1. /\ ~shutdown_requested /\ Len(command_queue) < Capacity
        /\ command_queue' = Append(command_queue, c) /\ Blocked' = Blocked
        /\ UNCHANGED <<priority_queue, shutdown_requested, popped>>
    BY <1>1 DEF Enqueue, CanEnqueue, NotifyOne, Blocked
  <2>2. Len(priority_queue \o command_queue) - Len(priority_queue) = Len(command_queue)
    BY DEF TypeOK
  <2>3. priority_queue' \o command_queue' = Append(priority_queue \o command_queue, c)
    BY <2>1, AppendToLine DEF TypeOK
  <2>4. Channel!Put(c)
    BY <2>1, <2>2, <2>3 DEF Channel!Put
  <2> QED BY <2>4 DEF Channel!Next
<1>2. ASSUME NEW c \in Commands, EnqueuePriority(c) PROVE Channel!Next
  <2>1. /\ ~shutdown_requested /\ Len(priority_queue) < Capacity
        /\ priority_queue' = Append(priority_queue, c) /\ Blocked' = Blocked
        /\ UNCHANGED <<command_queue, shutdown_requested, popped>>
    BY <1>2 DEF EnqueuePriority, CanEnqueuePriority, NotifyOne, Blocked
  <2>2. Len(priority_queue') = Len(priority_queue) + 1
    BY <2>1 DEF TypeOK
  <2>3. command_queue \in Seq(Commands) /\ priority_queue \in Seq(Commands)
    BY DEF TypeOK
  <2>4. Append(priority_queue, c) \o command_queue =
          SubSeq(priority_queue \o command_queue, 1, Len(priority_queue)) \o <<c>>
          \o SubSeq(priority_queue \o command_queue, Len(priority_queue) + 1,
                    Len(priority_queue \o command_queue))
    BY <2>3, InsertInLine, Zenon
  <2>5. Channel!PutUrgent(c)
    BY <2>1, <2>2, <2>4, Zenon DEF Channel!PutUrgent
  <2> QED BY <2>5 DEF Channel!Next
<1>3. ASSUME Shutdown PROVE Channel!Next
  <2>1. Blocked' = Blocked
    BY <1>3 DEF Shutdown, NotifyAll, Blocked
  <2>2. Channel!Close
    BY <1>3, <2>1 DEF Shutdown, Channel!Close
  <2> QED BY <2>2 DEF Channel!Next
<1>4. ASSUME NEW t \in Consumers, WaitAndPop(t) PROVE Channel!Next
  <2>1. CASE Return(t) /\ UNCHANGED <<waiting, notified>>
    BY <1>4, <2>1, ChannelReturn DEF WaitAndPop, Blocked
  <2>2. CASE ~CanReturn
    <3>1. /\ t \notin Blocked /\ Blocked' = Blocked \cup {t} /\ ~shutdown_requested
          /\ UNCHANGED <<command_queue, priority_queue, shutdown_requested, popped>>
      BY <1>4, <2>2 DEF WaitAndPop, Return, CanReturn, Blocked
    <3>2. priority_queue \o command_queue = <<>>
      BY <2>2 DEF CanReturn
    <3>3. Channel!Block(t)
      BY <3>1, <3>2 DEF Channel!Block
    <3> QED BY <3>3 DEF Channel!Next
  <2> QED BY <1>4, <2>1, <2>2 DEF WaitAndPop
<1>5. ASSUME NEW t \in Consumers, Resume(t) PROVE [Channel!Next]_(Channel!vars)
  <2>1. CASE Return(t) /\ UNCHANGED waiting
    BY <1>5, <2>1, ChannelReturn DEF Resume, Blocked, TypeOK
  <2>2. CASE ~CanReturn
    <3>1. Blocked' = Blocked /\ UNCHANGED <<command_queue, priority_queue, shutdown_requested, popped>>
      BY <1>5, <2>2 DEF Resume, Return, Blocked
    <3> QED BY <3>1 DEF Channel!vars
  <2> QED BY <1>5, <2>1, <2>2 DEF Resume
<1>6. ASSUME NEW t \in Consumers, SpuriousWakeup(t) PROVE UNCHANGED Channel!vars
  BY <1>6 DEF SpuriousWakeup, Blocked, Channel!vars
<1>7. ASSUME NEW t \in Consumers, TryPop(t) PROVE Channel!Next
  <2>1. t \notin Blocked /\ Blocked' = Blocked /\ UNCHANGED shutdown_requested
    BY <1>7 DEF TryPop, Blocked
  <2>2. CASE PopFront(t)
    <3>1. Channel!TakeNow(t)
      BY <2>1, <2>2, ChannelPopFront DEF Channel!TakeNow
    <3> QED BY <3>1 DEF Channel!Next
  <2>3. CASE Pending = 0 /\ PopNothing(t)
    <3>1. priority_queue \o command_queue = <<>>
      BY <2>3, Counts
    <3>2. Channel!LeaveEmptyHanded(t)
      BY <2>1, <2>3, <3>1 DEF PopNothing, Channel!LeaveEmptyHanded
    <3> QED BY <3>2 DEF Channel!Next
  <2> QED BY <1>7, <2>2, <2>3 DEF TryPop
<1>8. CASE UNCHANGED vars
  BY <1>8 DEF vars, Blocked, Channel!vars
<1> QED BY <1>1, <1>2, <1>3, <1>4, <1>5, <1>6, <1>7, <1>8 DEF Next

(* The manager behaves as one line in service order that is closed once: the  *)
(* safety of ImplementsChannel.                                               *)
THEOREM ManagerIsAChannel == Spec => Channel!Spec
<1>1. Init => Channel!Init
  BY DEF Init, Channel!Init, Blocked
<1>2. TypeOK /\ TypeOK' /\ [Next]_vars => [Channel!Next]_(Channel!vars)
  BY ChannelStep
<1> QED BY <1>1, <1>2, TypeCorrect, PTL DEF Spec, Channel!Spec
=============================================================================
