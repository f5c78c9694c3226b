-------------------------- MODULE RobotStateCache --------------------------
(***************************************************************************)
(* RobotStateCache: the last readings of the robot, which one polling thread *)
(* updates and other threads get.  A reading is copied part by part - a       *)
(* status has five members, a pose seven numbers, joint angles an array of     *)
(* their own - with mutex_ held; a reading's parts are the number of the round *)
(* in which the polling thread has taken it.                                    *)
(*                                                                              *)
(* Nobody in the repository uses the cache but its test: the threads are those  *)
(* its comment and its test speak of.                                           *)
(***************************************************************************)
EXTENDS Naturals, FiniteSets

CONSTANTS Poller,     \* the thread that calls update*
          Readers,    \* the threads that call get*
          Fields,     \* status_, joint_angles_ and cartesian_pose_
          Parts,      \* how many parts a reading has
          MaxRounds,  \* bound: how often the poller updates
          Nobody

ASSUME PollerAssumption == Poller \notin Readers /\ Nobody \notin Readers \cup {Poller}
ASSUME BoundsAssumption == Parts \in Nat \ {0} /\ MaxRounds \in Nat

Threads == Readers \cup {Poller}
Rounds == 0..MaxRounds
Reading == [1..Parts -> Rounds]
Whole(round) == [k \in 1..Parts |-> round]

VARIABLES
  cache,     \* status_, joint_angles_ and cartesian_pose_; round 0 is the initial one
  mutex,     \* who holds mutex_
  pc,        \* where each thread is in its call
  field,     \* the field it updates or gets
  reading,   \* its argument or the copy it is making
  copied,    \* how many parts it has copied
  round,     \* the poller's last round
  (* history *)
  known,     \* the newest round a call that is over has put or seen, by field
  newest     \* known[field] when a thread's call began

vars == <<cache, mutex, pc, field, reading, copied, round, known, newest>>

Init ==
  /\ cache = [f \in Fields |-> Whole(0)]
  /\ mutex = Nobody
  /\ pc = [t \in Threads |-> "idle"]
  /\ field \in {[t \in Threads |-> f] : f \in Fields}
  /\ reading = [t \in Threads |-> Whole(0)]
  /\ copied = [t \in Threads |-> 0]
  /\ round = 0
  /\ known = [f \in Fields |-> 0]
  /\ newest = [t \in Threads |-> 0]

Goto(t, from, to) == pc[t] = from /\ pc' = [pc EXCEPT ![t] = to]

Call(t, f) ==
  /\ Goto(t, "idle", "lock")
  /\ field' = [field EXCEPT ![t] = f]
  /\ copied' = [copied EXCEPT ![t] = 0]
  /\ newest' = [newest EXCEPT ![t] = known[f]]
  /\ UNCHANGED <<cache, mutex, known>>

(* updateStatus, updateJointAngles, updateCartesianPose  *)
Update(f) ==
  /\ round < MaxRounds
  /\ round' = round + 1
  /\ reading' = [reading EXCEPT ![Poller] = Whole(round')]
  /\ Call(Poller, f)

(* getStatus, getJointAngles, getCartesianPose  *)
Get(t, f) == Call(t, f) /\ UNCHANGED <<reading, round>>

(* Mutant of Lock: without the lock_guard.  *)
LockNothing(t) ==
  /\ Goto(t, "lock", "copy")
  /\ UNCHANGED <<cache, mutex, field, reading, copied, round, known, newest>>

Lock(t) ==
  /\ mutex = Nobody
  /\ Goto(t, "lock", "copy")
  /\ mutex' = t
  /\ UNCHANGED <<cache, field, reading, copied, round, known, newest>>

(* The assignment to the member, or the copy that get returns: one part.  *)
Copy(t) ==
  /\ pc[t] = "copy" /\ copied[t] < Parts
  /\ copied' = [copied EXCEPT ![t] = @ + 1]
  /\ IF t = Poller
     THEN cache' = [cache EXCEPT ![field[t]][copied'[t]] = reading[t][copied'[t]]] /\ UNCHANGED reading
     ELSE reading' = [reading EXCEPT ![t][copied'[t]] = cache[field[t]][copied'[t]]] /\ UNCHANGED cache
  /\ UNCHANGED <<mutex, pc, field, round, known, newest>>

(* Mutant of Unlock: the lock is kept.  *)
UnlockNothing(t) ==
  /\ copied[t] = Parts
  /\ Goto(t, "copy", "back")
  /\ UNCHANGED <<cache, mutex, field, reading, copied, round, known, newest>>

Unlock(t) ==
  /\ copied[t] = Parts
  /\ Goto(t, "copy", "back")
  /\ mutex' = Nobody
  /\ UNCHANGED <<cache, field, reading, copied, round, known, newest>>

Return(t) ==
  /\ Goto(t, "back", "idle")
  /\ known' = [known EXCEPT ![field[t]] = IF @ < reading[t][1] THEN reading[t][1] ELSE @]
  /\ UNCHANGED <<cache, mutex, field, reading, copied, round, newest>>

InCall(t) == Lock(t) \/ Copy(t) \/ Unlock(t) \/ Return(t)

Next ==
  \/ \E f \in Fields : Update(f) \/ \E t \in Readers : Get(t, f)
  \/ \E t \in Threads : InCall(t)

Spec == Init /\ [][Next]_vars
-----------------------------------------------------------------------------
(* Every variable holds a value of its type, and mutex_ is held by nobody but a *)
(* thread that is copying: no call keeps it when it is over.                     *)
TypeOK ==
  /\ cache \in [Fields -> Reading]
  /\ mutex \in Threads \cup {Nobody}
  /\ mutex # Nobody => pc[mutex] = "copy"
  /\ pc \in [Threads -> {"idle", "lock", "copy", "back"}]
  /\ field \in [Threads -> Fields]
  /\ reading \in [Threads -> Reading]
  /\ copied \in [Threads -> 0..Parts]
  /\ round \in Rounds
  /\ known \in [Fields -> Rounds]
  /\ newest \in [Threads -> Rounds]

(* The cache is a register to its readers, whoever copies how slowly: what get   *)
(* returns is one reading of the robot, not the parts of two; it is not older    *)
(* than what was put, or seen by any thread, before get was called; and it was    *)
(* put.                                                                           *)
GetsAreAtomic ==
  \A t \in Readers : pc[t] = "back" =>
    /\ reading[t] \in {Whole(r) : r \in Rounds}
    /\ newest[t] <= reading[t][1] /\ reading[t][1] <= round
=============================================================================
