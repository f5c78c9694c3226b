----------------------- MODULE RobotStateCacheProofs -----------------------
(***************************************************************************)
(* Proofs about RobotStateCache, for any number of readers, fields, parts   *)
(* and rounds.                                                              *)
(***************************************************************************)
EXTENDS RobotStateCache, TLAPS

(* A thread that copies holds the mutex, and has copied nothing before.  *)
OneCopies ==
  /\ \A t \in Threads : pc[t] = "copy" => mutex = t
  /\ \A t \in Threads : pc[t] = "lock" => copied[t] = 0

(* What is in a field is not older than what anybody has seen of it, nor     *)
(* newer than the poller's last reading; and its parts are of one reading    *)
(* unless the poller is just copying, when those it has copied are its own.  *)
FieldsAreCurrent ==
  /\ reading[Poller] = Whole(round)
  /\ \A f \in Fields, k \in 1..Parts : known[f] <= cache[f][k] /\ cache[f][k] <= round
  /\ \A f \in Fields :
       \/ pc[Poller] = "copy" /\ field[Poller] = f
       \/ \A k \in 1..Parts : cache[f][k] = cache[f][1]
  /\ pc[Poller] = "copy" =>
       \A k \in 1..Parts : k <= copied[Poller] => cache[field[Poller]][k] = round
  /\ pc[Poller] = "back" => \A k \in 1..Parts : cache[field[Poller]][k] = round

(* What a thread has copied is in the field still, or was there.  *)
CopiesAreCurrent ==
  \A t \in Threads :
    /\ pc[t] # "idle" => newest[t] <= known[field[t]]
    /\ pc[t] = "copy" /\ t # Poller =>
         \A k \in 1..Parts : k <= copied[t] => reading[t][k] = cache[field[t]][k]
    /\ pc[t] = "back" => \A k \in 1..Parts :
         /\ reading[t][k] = reading[t][1]
         /\ newest[t] <= reading[t][k]
         /\ reading[t][k] <= cache[field[t]][k]

CacheInv == TypeOK /\ OneCopies /\ FieldsAreCurrent /\ CopiesAreCurrent

-----------------------------------------------------------------------------
(* The constants, as the proofs use them.  *)
LEMMA Constants ==
  /\ Parts \in Nat /\ 1 \in 1..Parts /\ MaxRounds \in Nat
  /\ Poller \in Threads /\ Poller # Nobody /\ Nobody \notin Threads
  /\ \A t \in Readers : t \in Threads /\ t # Poller
BY PollerAssumption, BoundsAssumption DEF Threads

LEMMA InitIsCorrect == Init => CacheInv
<1> SUFFICES ASSUME Init PROVE CacheInv
  OBVIOUS
<1>1. PICK f \in Fields : field = [t \in Threads |-> f]
  BY DEF Init
<1>2. \A r \in Rounds : Whole(r) \in Reading
  BY DEF Whole, Reading
<1>3. 0 \in Rounds
  BY Constants DEF Rounds
<1>4. TypeOK
  BY <1>1, <1>2, <1>3, Constants DEF Init, TypeOK
<1>5. OneCopies /\ CopiesAreCurrent
  BY DEF Init, OneCopies, CopiesAreCurrent
<1>6. FieldsAreCurrent
  BY Constants DEF Init, FieldsAreCurrent, Whole
<1>. QED
  BY <1>4, <1>5, <1>6 DEF CacheInv

-----------------------------------------------------------------------------
(* The type invariant.  *)

LEMMA TypeStep == TypeOK /\ [Next]_vars => TypeOK'
<1> SUFFICES ASSUME TypeOK, [Next]_vars PROVE TypeOK'
  OBVIOUS
<1> USE Constants
<1>1. ASSUME NEW f \in Fields, Update(f) PROVE TypeOK'
  <2>1. round' \in Rounds /\ Whole(round') \in Reading
    BY <1>1 DEF Update, TypeOK, Rounds, Whole, Reading
  <2>2. mutex = Nobody \/ mutex # Poller
    BY <1>1 DEF Update, Call, Goto, TypeOK
  <2>. QED
    BY <1>1, <2>1, <2>2 DEF Update, Call, Goto, TypeOK
<1>2. ASSUME NEW f \in Fields, NEW t \in Readers, Get(t, f) PROVE TypeOK'
  BY <1>2 DEF Get, Call, Goto, TypeOK
<1>3. ASSUME NEW t \in Threads, Lock(t) PROVE TypeOK'
  BY <1>3 DEF Lock, Goto, TypeOK
<1>4. ASSUME NEW t \in Threads, Copy(t) PROVE TypeOK'
  <2>1. copied'[t] \in 1..Parts /\ copied' \in [Threads -> 0..Parts]
    BY <1>4 DEF Copy, TypeOK
  <2>4. reading[t][copied'[t]] \in Rounds /\ cache[field[t]][copied'[t]] \in Rounds
    BY <2>1 DEF TypeOK, Reading
  <2>2. CASE t = Poller
    <3>1. cache' \in [Fields -> Reading]
      <4>1. cache' = [cache EXCEPT ![field[t]][copied'[t]] = reading[t][copied'[t]]]
        BY <1>4, <2>2 DEF Copy
      <4>2. cache \in [Fields -> Reading] /\ field[t] \in Fields
        BY DEF TypeOK
      <4> DEFINE row == [cache[field[t]] EXCEPT ![copied'[t]] = reading[t][copied'[t]]]
      <4>3. row \in Reading
        BY <2>1, <2>4, <4>2 DEF Reading
      <4>4. cache' = [cache EXCEPT ![field[t]] = row]
        BY <4>1
      <4>. HIDE DEF row
      <4>. QED
        BY <4>2, <4>3, <4>4
    <3>. QED
      BY <1>4, <2>1, <2>2, <3>1 DEF Copy, TypeOK
  <2>3. CASE t # Poller
    <3>1. reading' \in [Threads -> Reading]
      <4>1. reading' = [reading EXCEPT ![t][copied'[t]] = cache[field[t]][copied'[t]]]
        BY <1>4, <2>3 DEF Copy
      <4>2. reading \in [Threads -> Reading]
        BY DEF TypeOK
      <4> DEFINE row == [reading[t] EXCEPT ![copied'[t]] = cache[field[t]][copied'[t]]]
      <4>3. row \in Reading
        BY <2>1, <2>4, <4>2 DEF Reading
      <4>4. reading' = [reading EXCEPT ![t] = row]
        BY <4>1
      <4>. HIDE DEF row
      <4>. QED
        BY <4>2, <4>3, <4>4
    <3>2. UNCHANGED <<cache, mutex, pc, field, round, known, newest>>
      BY <1>4, <2>3 DEF Copy
    <3>. QED
      BY <2>1, <3>1, <3>2 DEF TypeOK
  <2>. QED
    BY <2>2, <2>3
<1>5. ASSUME NEW t \in Threads, Unlock(t) PROVE TypeOK'
  BY <1>5 DEF Unlock, Goto, TypeOK
<1>6. ASSUME NEW t \in Threads, Return(t) PROVE TypeOK'
  <2>1. reading[t][1] \in Rounds
    BY DEF TypeOK, Reading
  <2>. QED
    BY <1>6, <2>1 DEF Return, Goto, TypeOK
<1>7. CASE UNCHANGED vars
  BY <1>7 DEF vars, TypeOK
<1>. QED
  BY <1>1, <1>2, <1>3, <1>4, <1>5, <1>6, <1>7 DEF Next, InCall

(* Every variable keeps its type, and no call that is over holds mutex_.  *)
THEOREM TypeCorrect == Spec => []TypeOK
<1>1. Init => TypeOK
  BY InitIsCorrect DEF CacheInv
<1>. QED
  BY <1>1, TypeStep, PTL DEF Spec
-----------------------------------------------------------------------------
(* The invariant, action by action.  *)

(* What an update and a get have in common: a call begins, and the poller's    *)
(* reading is the one of the round.                                            *)
LEMMA CallStep ==
  ASSUME CacheInv, NEW t \in Threads, NEW f \in Fields, Call(t, f), round <= round', round' \in Rounds,
         \A u \in Threads : u # Poller => reading'[u] = reading[u],
         reading'[Poller] = Whole(round'),
         t # Poller => reading'[Poller] = reading[Poller] /\ round' = round
  PROVE  OneCopies' /\ FieldsAreCurrent' /\ CopiesAreCurrent'
<1> USE Constants DEF CacheInv
<1>1. /\ pc[t] = "idle" /\ pc'[t] = "lock" /\ field'[t] = f
      /\ newest'[t] = known[f] /\ copied'[t] = 0
      /\ UNCHANGED <<cache, mutex, known>>
      /\ \A u \in Threads : u # t =>
           /\ pc'[u] = pc[u] /\ field'[u] = field[u]
           /\ newest'[u] = newest[u] /\ copied'[u] = copied[u]
  BY DEF Call, Goto, TypeOK
<1>2. OneCopies'
  BY <1>1 DEF OneCopies
<1>3. \A g \in Fields, k \in 1..Parts : cache[g][k] \in Nat /\ round \in Nat /\ round' \in Nat
  BY SMTT(30) DEF TypeOK, Reading, Rounds
<1>4. FieldsAreCurrent'
  BY <1>1, <1>3 DEF FieldsAreCurrent
<1>5. ASSUME NEW u \in Threads, pc'[u] = "back" PROVE reading'[u] = reading[u]
  BY <1>1, <1>5
<1>6. known[f] \in Nat
  BY DEF TypeOK, Rounds
<1>7. CopiesAreCurrent'
  BY <1>1, <1>5, <1>6 DEF CopiesAreCurrent
<1>. QED
  BY <1>2, <1>4, <1>7

LEMMA LockStep ==
  ASSUME CacheInv, NEW t \in Threads, Lock(t)
  PROVE  OneCopies' /\ FieldsAreCurrent' /\ CopiesAreCurrent'
<1> USE Constants DEF CacheInv
<1>1. /\ pc[t] = "lock" /\ pc'[t] = "copy" /\ mutex' = t /\ copied[t] = 0
      /\ UNCHANGED <<cache, field, reading, copied, round, known, newest>>
      /\ \A u \in Threads : u # t => pc'[u] = pc[u] /\ pc[u] # "copy"
  BY DEF Lock, Goto, TypeOK, OneCopies
<1>2. OneCopies'
  BY <1>1 DEF OneCopies
<1>3. FieldsAreCurrent'
  BY <1>1 DEF FieldsAreCurrent
<1>4. CopiesAreCurrent'
  BY <1>1 DEF CopiesAreCurrent
<1>. QED
  BY <1>2, <1>3, <1>4

(* Only the poller's copying changes a field, and only with newer parts.  *)
LEMMA CopyStep ==
  ASSUME CacheInv, NEW t \in Threads, Copy(t)
  PROVE  OneCopies' /\ FieldsAreCurrent' /\ CopiesAreCurrent'
<1> USE Constants DEF CacheInv
<1> DEFINE n == copied[t] + 1
           f == field[t]
<1>1. /\ pc[t] = "copy" /\ mutex = t /\ f \in Fields /\ n \in 1..Parts
      /\ copied[t] \in Nat /\ copied'[t] = n
      /\ \A u \in Threads : u # t => copied'[u] = copied[u] /\ pc[u] # "copy"
      /\ UNCHANGED <<mutex, pc, field, round, known, newest>>
  BY DEF Copy, TypeOK, OneCopies
<1>2. OneCopies'
  BY <1>1 DEF OneCopies
<1>3. round \in Rounds /\ \A g \in Fields, k \in 1..Parts : known[g] \in Nat /\ cache[g][k] \in Rounds
  BY DEF TypeOK, Reading, Rounds
<1>4. \A r \in Rounds : r \in Nat
  BY DEF Rounds
<1>5. CASE t = Poller
  <2>1. cache' = [cache EXCEPT ![f][n] = round] /\ UNCHANGED reading
    BY <1>1, <1>5 DEF Copy, FieldsAreCurrent, Whole
  <2>2. \A g \in Fields, k \in 1..Parts :
          cache'[g][k] = IF g = f /\ k = n THEN round ELSE cache[g][k]
    <3>1. cache \in [Fields -> Reading] /\ cache[f] \in [1..Parts -> Rounds]
      BY <1>1 DEF TypeOK, Reading
    <3> DEFINE row == [cache[f] EXCEPT ![n] = round]
    <3>2. \A k \in 1..Parts : row[k] = IF k = n THEN round ELSE cache[f][k]
      BY <1>1, <3>1
    <3>3. cache' = [cache EXCEPT ![f] = row]
      BY <2>1
    <3>. HIDE DEF row
    <3>. QED
      BY <1>1, <3>1, <3>2, <3>3
  <2>3. FieldsAreCurrent'
    BY <1>1, <1>3, <1>4, <1>5, <2>1, <2>2 DEF FieldsAreCurrent
  <2>4. ASSUME NEW u \in Threads, NEW k \in 1..Parts, pc[u] = "back"
        PROVE  reading[u][k] <= cache'[field[u]][k]
    <3>1. field[u] \in Fields /\ reading[u][k] \in Nat
      BY <1>4 DEF TypeOK, Reading
    <3>2. reading[u][k] <= cache[field[u]][k] /\ cache[field[u]][k] <= round
      BY <2>4, <3>1 DEF CopiesAreCurrent, FieldsAreCurrent
    <3>. QED
      BY <1>3, <1>4, <2>2, <3>1, <3>2
  <2>5. CopiesAreCurrent'
    BY <1>1, <1>5, <2>1, <2>4 DEF CopiesAreCurrent
  <2>. QED
    BY <1>2, <2>3, <2>5
<1>6. CASE t # Poller
  <2>1. reading' = [reading EXCEPT ![t][n] = cache[f][n]] /\ UNCHANGED cache
    BY <1>1, <1>6 DEF Copy
  <2>2. \A u \in Threads, k \in 1..Parts :
          reading'[u][k] = IF u = t /\ k = n THEN cache[f][n] ELSE reading[u][k]
    <3>1. reading \in [Threads -> Reading] /\ reading[t] \in [1..Parts -> Rounds]
      BY DEF TypeOK, Reading
    <3> DEFINE row == [reading[t] EXCEPT ![n] = cache[f][n]]
    <3>2. \A k \in 1..Parts : row[k] = IF k = n THEN cache[f][n] ELSE reading[t][k]
      BY <1>1, <3>1
    <3>3. reading' = [reading EXCEPT ![t] = row]
      BY <2>1
    <3>. HIDE DEF row
    <3>. QED
      BY <1>1, <3>1, <3>2, <3>3
  <2>3. reading'[Poller] = reading[Poller]
    BY <1>6, <2>1 DEF TypeOK
  <2>4. FieldsAreCurrent'
    BY <1>1, <1>6, <2>1, <2>3 DEF FieldsAreCurrent
  <2>5. CopiesAreCurrent'
    BY <1>1, <1>6, <2>1, <2>2 DEF CopiesAreCurrent
  <2>. QED
    BY <1>2, <2>4, <2>5
<1>. QED
  BY <1>5, <1>6

LEMMA UnlockStep ==
  ASSUME CacheInv, NEW t \in Threads, Unlock(t)
  PROVE  OneCopies' /\ FieldsAreCurrent' /\ CopiesAreCurrent'
<1> USE Constants DEF CacheInv
<1> DEFINE f == field[t]
<1>1. /\ pc[t] = "copy" /\ pc'[t] = "back" /\ copied[t] = Parts /\ f \in Fields
      /\ UNCHANGED <<cache, field, reading, copied, round, known, newest>>
      /\ \A u \in Threads : u # t => pc'[u] = pc[u] /\ pc[u] # "copy"
  BY DEF Unlock, Goto, TypeOK, OneCopies
<1>2. OneCopies'
  BY <1>1 DEF OneCopies
<1>3. FieldsAreCurrent'
  BY <1>1 DEF FieldsAreCurrent
<1>4. newest[t] <= known[f] /\ known[f] \in Nat /\ newest[t] \in Nat
  BY <1>1 DEF CopiesAreCurrent, TypeOK, Rounds
<1>5. \A k \in 1..Parts : cache[f][k] \in Nat /\ known[f] <= cache[f][k]
  <2>1. cache[f] \in [1..Parts -> Rounds]
    BY <1>1 DEF TypeOK, Reading
  <2>. QED
    BY <1>1, <2>1 DEF FieldsAreCurrent, Rounds
<1>6. ASSUME NEW k \in 1..Parts
      PROVE  reading[t][k] = cache[f][k] /\ cache[f][k] = cache[f][1]
  <2>1. CASE t = Poller
    BY <1>1, <2>1 DEF FieldsAreCurrent, Whole
  <2>2. CASE t # Poller
    <3>1. pc[Poller] # "copy"
      BY <1>1, <2>2
    <3>. QED
      BY <1>1, <2>2, <3>1 DEF FieldsAreCurrent, CopiesAreCurrent
  <2>. QED
    BY <2>1, <2>2
<1>7. \A k \in 1..Parts : /\ reading[t][k] = reading[t][1]
                          /\ newest[t] <= reading[t][k] /\ reading[t][k] <= cache[f][k]
  BY <1>4, <1>5, <1>6
<1>8. CopiesAreCurrent'
  BY <1>1, <1>7 DEF CopiesAreCurrent
<1>. QED
  BY <1>2, <1>3, <1>8

LEMMA ReturnStep ==
  ASSUME CacheInv, NEW t \in Threads, Return(t)
  PROVE  OneCopies' /\ FieldsAreCurrent' /\ CopiesAreCurrent'
<1> USE Constants DEF CacheInv
<1> DEFINE f == field[t]
<1>1. /\ pc[t] = "back" /\ pc'[t] = "idle" /\ f \in Fields
      /\ UNCHANGED <<cache, mutex, field, reading, copied, round, newest>>
      /\ \A u \in Threads : u # t => pc'[u] = pc[u]
  BY DEF Return, Goto, TypeOK
<1>2. OneCopies'
  BY <1>1 DEF OneCopies
<1>3. /\ \A g \in Fields : known[g] \in Nat
      /\ \A u \in Threads : newest[u] \in Nat /\ field[u] \in Fields
      /\ reading[t][1] \in Nat
  BY DEF TypeOK, Reading, Rounds
<1>4. \A g \in Fields : known'[g] = IF g = f /\ known[f] < reading[t][1] THEN reading[t][1] ELSE known[g]
  BY <1>1 DEF Return, TypeOK
<1>5. \A k \in 1..Parts : reading[t][1] <= cache[f][k]
  BY <1>1 DEF CopiesAreCurrent
<1>6. FieldsAreCurrent'
  BY <1>1, <1>4, <1>5 DEF FieldsAreCurrent
<1>7. \A g \in Fields : known[g] <= known'[g] /\ known'[g] \in Nat
  BY <1>3, <1>4
<1>8. \A u \in Threads : pc'[u] # "idle" => newest[u] <= known'[field[u]]
  BY <1>1, <1>3, <1>7 DEF CopiesAreCurrent
<1>9. CopiesAreCurrent'
  BY <1>1, <1>8 DEF CopiesAreCurrent
<1>. QED
  BY <1>2, <1>6, <1>9

LEMMA CacheStep == CacheInv /\ [Next]_vars => CacheInv'
<1> SUFFICES ASSUME CacheInv, [Next]_vars PROVE CacheInv'
  OBVIOUS
<1>1. TypeOK'
  BY TypeStep DEF CacheInv
<1> DEFINE Rest == OneCopies /\ FieldsAreCurrent /\ CopiesAreCurrent
<1>2. ASSUME NEW f \in Fields, Update(f) PROVE Rest'
  <2>1. /\ round' = round + 1 /\ round \in Nat /\ round' \in Rounds
        /\ Call(Poller, f) /\ reading'[Poller] = Whole(round')
        /\ \A u \in Threads : u # Poller => reading'[u] = reading[u]
    BY <1>1, <1>2, Constants DEF Update, CacheInv, TypeOK, Rounds
  <2>2. round <= round'
    BY <2>1
  <2>. QED
    BY <2>1, <2>2, Constants, CallStep
<1>3. ASSUME NEW f \in Fields, NEW t \in Readers, Get(t, f) PROVE Rest'
  <2>1. UNCHANGED <<reading, round>> /\ Call(t, f) /\ round \in Rounds /\ round <= round
    BY <1>3 DEF Get, CacheInv, TypeOK, Rounds
  <2>2. reading[Poller] = Whole(round)
    BY DEF CacheInv, FieldsAreCurrent
  <2>. QED
    BY <2>1, <2>2, Constants, CallStep
<1>4. ASSUME NEW t \in Threads, InCall(t) PROVE Rest'
  BY <1>4, LockStep, CopyStep, UnlockStep, ReturnStep DEF InCall
<1>5. ASSUME UNCHANGED vars PROVE Rest'
  <2>1. OneCopies' /\ CopiesAreCurrent'
    BY <1>5 DEF vars, CacheInv, OneCopies, CopiesAreCurrent
  <2>2. FieldsAreCurrent'
    BY <1>5 DEF vars, CacheInv, FieldsAreCurrent, Whole
  <2>. QED
    BY <2>1, <2>2
<1>6. Rest'
  <2>. HIDE DEF Rest
  <2>. QED
    BY <1>2, <1>3, <1>4, <1>5 DEF Next
<1>. QED
  BY <1>1, <1>6 DEF CacheInv

(* Every get returns one whole reading, not older than what was put or seen     *)
(* before it was called, and one that was put.                                  *)
THEOREM GetsAreWhole == Spec => []GetsAreAtomic
<1>1. CacheInv => GetsAreAtomic
  <2> SUFFICES ASSUME CacheInv, NEW t \in Readers, pc[t] = "back"
               PROVE  /\ reading[t] \in {Whole(r) : r \in Rounds}
                      /\ newest[t] <= reading[t][1] /\ reading[t][1] <= round
    BY DEF GetsAreAtomic
  <2>1. t \in Threads /\ field[t] \in Fields /\ reading[t] \in [1..Parts -> Rounds]
    BY Constants DEF CacheInv, TypeOK, Reading
  <2>2. \A k \in 1..Parts : reading[t][k] = reading[t][1]
    BY <2>1 DEF CacheInv, CopiesAreCurrent
  <2>3. reading[t] = Whole(reading[t][1]) /\ reading[t][1] \in Rounds
    BY <2>1, <2>2, Constants DEF Whole
  <2>4. newest[t] <= reading[t][1] /\ reading[t][1] <= cache[field[t]][1]
    BY <2>1, Constants DEF CacheInv, CopiesAreCurrent
  <2>5. cache[field[t]][1] <= round /\ cache[field[t]][1] \in Nat /\ round \in Nat
    BY <2>1, Constants DEF CacheInv, FieldsAreCurrent, TypeOK, Reading, Rounds
  <2>6. reading[t][1] <= round
    BY <2>3, <2>4, <2>5 DEF Rounds
  <2>. QED
    BY <2>3, <2>4, <2>6
<1>. QED
  BY <1>1, InitIsCorrect, CacheStep, PTL DEF Spec
=============================================================================
