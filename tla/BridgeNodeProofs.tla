-------------------------- MODULE BridgeNodeProofs --------------------------
(***************************************************************************)
(* What the node hands to the worker, for any texts, any depth of the        *)
(* subscription and any capacity; and that it reads every text as it is      *)
(* meant.                                                                     *)
(***************************************************************************)
EXTENDS BridgeNode, SequenceTheorems, FiniteSetTheorems, FunctionTheorems, TLAPS

Types ==
  /\ node \in {"starting", "spinning", "ended", "failed"}
  /\ topic \in Seq(Texts) /\ Len(topic) <= Depth
  /\ messages \in 0..MaxMessages
  /\ owed \in BOOLEAN
  /\ hand \in Command \cup {NoCommand}
  /\ pending \in Seq(Command)
  /\ nUrgent \in 0..Len(pending) /\ nUrgent <= Capacity /\ Len(pending) - nUrgent <= Capacity
  /\ received \in [{"worker"} -> Command \cup {NoCommand}]

(* A number is used up with each text that was read.  *)
Counted == next_command_id \in Nat \ {0} /\ next_command_id + Len(topic) <= messages + 1

(* The Stops are in front; the others behind them are in the order of their    *)
(* numbers, which are their places in the topic, and before the one in hand.     *)
InLine ==
  /\ hand # NoCommand => hand.id + 1 = next_command_id
  /\ \A i \in DOMAIN pending :
       /\ pending[i].id < next_command_id /\ (hand # NoCommand => pending[i].id < hand.id)
       /\ pending[i].type = "Stop" <=> i <= nUrgent
  /\ \A i, j \in DOMAIN pending :
       nUrgent < i /\ i < j => pending[i].id < pending[j].id

StopInLine == owed => nUrgent > 0 \/ (hand # NoCommand /\ hand.type = "Stop")

NodeInv == Types /\ Counted /\ InLine /\ StopInLine

(* A command put behind the first k of a line.  *)
Inserted(s, k, c) == SubSeq(s, 1, k) \o <<c>> \o SubSeq(s, k + 1, Len(s))

LEMMA Insertion ==
  ASSUME NEW S, NEW s \in Seq(S), NEW k \in 0..Len(s), NEW c \in S
  PROVE  /\ Inserted(s, k, c) \in Seq(S) /\ Len(Inserted(s, k, c)) = Len(s) + 1
         /\ \A i \in 1..(Len(s) + 1) :
              Inserted(s, k, c)[i] = IF i <= k THEN s[i] ELSE IF i = k + 1 THEN c ELSE s[i - 1]
<1> DEFINE a == SubSeq(s, 1, k)
           b == SubSeq(s, k + 1, Len(s))
           d == a \o <<c>>
<1>1. Len(s) \in Nat /\ k \in Nat /\ k <= Len(s)
  OBVIOUS
<1>2. a \in Seq(S) /\ Len(a) = k /\ \A i \in 1..k : a[i] = s[i]
  OBVIOUS
<1>3. b \in Seq(S) /\ Len(b) = Len(s) - k /\ \A i \in 1..(Len(s) - k) : b[i] = s[k + i]
  OBVIOUS
<1>4. <<c>> \in Seq(S) /\ Len(<<c>>) = 1 /\ <<c>>[1] = c
  OBVIOUS
<1> HIDE DEF a, b
<1>5. d \in Seq(S) /\ Len(d) = k + 1 /\ \A i \in 1..(k + 1) : d[i] = IF i <= k THEN s[i] ELSE c
  BY <1>2, <1>4
<1> HIDE DEF d
<1>6. /\ d \o b \in Seq(S) /\ Len(d \o b) = Len(s) + 1
      /\ \A i \in 1..(Len(s) + 1) : (d \o b)[i] = IF i <= k + 1 THEN d[i] ELSE b[i - (k + 1)]
  <2>1. Len(d) + Len(b) = Len(s) + 1
    BY <1>1, <1>3, <1>5
  <2> QED BY <1>3, <1>5, <2>1, ConcatProperties
<1>7. ASSUME NEW i \in 1..(Len(s) + 1)
      PROVE  (d \o b)[i] = IF i <= k THEN s[i] ELSE IF i = k + 1 THEN c ELSE s[i - 1]
  <2>1. CASE i <= k + 1
    BY <1>1, <1>5, <1>6, <2>1
  <2>2. CASE ~(i <= k + 1)
    <3>1. i - (k + 1) \in 1..(Len(s) - k) /\ k + (i - (k + 1)) = i - 1
      BY <1>1, <2>2
    <3>2. (d \o b)[i] = b[i - (k + 1)] /\ b[i - (k + 1)] = s[k + (i - (k + 1))]
      BY <1>3, <1>6, <2>2, <3>1
    <3>3. ~(i <= k) /\ i # k + 1
      BY <1>1, <2>2
    <3> QED BY <3>1, <3>2, <3>3
  <2> QED BY <2>1, <2>2
<1> QED BY <1>6, <1>7 DEF Inserted, a, b, d

LEMMA NodeInit == Init => NodeInv
<1> SUFFICES ASSUME Init PROVE NodeInv
  OBVIOUS
<1>1. <<>> \in Seq(Texts) /\ <<>> \in Seq(Command) /\ Len(<<>>) = 0 /\ DOMAIN pending = {}
  BY DEF Init, Channel!Init
<1>2. Types
  <2>1. received \in [{"worker"} -> Command \cup {NoCommand}]
    BY DEF Init, Channel!Init
  <2>2. /\ nUrgent = 0 /\ Len(pending) = 0 /\ pending \in Seq(Command)
        /\ topic \in Seq(Texts) /\ Len(topic) = 0
    BY <1>1 DEF Init, Channel!Init
  <2>3. owed \in BOOLEAN /\ node = "starting" /\ messages = 0 /\ hand = NoCommand
    BY DEF Init
  <2> QED BY <2>1, <2>2, <2>3, BoundsAssumption DEF Types
<1> QED BY <1>1, <1>2 DEF Init, Channel!Init, NodeInv, Counted, InLine, StopInLine

(* What an order becomes when it is numbered.  *)
LEMMA NumberedOrder ==
  ASSUME next_command_id \in 1..MaxMessages, NEW text \in Texts, NEW order \in Meaning(text)
  PROVE  /\ Numbered(order) \in Command
         /\ Numbered(order).id = next_command_id /\ Numbered(order).type = order.type
<1>1. order \in Orders
  BY DEF Orders
<1> QED BY <1>1 DEF Numbered, Command

(* Handing on a command: the line with the command at its place, or the line   *)
(* as it was - then, if it is a Stop, another Stop is in it.                     *)
LEMMA HandingOn ==
  ASSUME NodeInv, hand # NoCommand, HandOn(hand),
         hand' = NoCommand, UNCHANGED <<next_command_id, owed>>
  PROVE  /\ InLine' /\ StopInLine' /\ received' = received
         /\ pending' \in Seq(Command)
         /\ nUrgent' \in 0..Len(pending')
         /\ nUrgent' <= Capacity /\ Len(pending') - nUrgent' <= Capacity
<1> DEFINE c == hand
<1>1. /\ pending \in Seq(Command) /\ nUrgent \in 0..Len(pending) /\ nUrgent <= Capacity
      /\ Len(pending) - nUrgent <= Capacity /\ Len(pending) \in Nat /\ Capacity \in Nat \ {0}
      /\ next_command_id \in Nat /\ MaxMessages \in Nat
  BY BoundsAssumption DEF NodeInv, Types, Counted
<1>2. /\ c \in Command /\ c.id \in Nat /\ c.id < next_command_id
      /\ \A i \in 1..Len(pending) :
           /\ pending[i].id \in Nat /\ pending[i].id < next_command_id /\ pending[i].id < c.id
           /\ (pending[i].type = "Stop" <=> i <= nUrgent)
  <2>1. c \in Command /\ \A i \in 1..Len(pending) : pending[i] \in Command
    BY <1>1 DEF NodeInv, Types
  <2>2. c.id \in Nat /\ \A i \in 1..Len(pending) : pending[i].id \in Nat
    BY <2>1, <1>1 DEF Command
  <2> QED BY <2>1, <2>2, <1>1 DEF NodeInv, InLine
<1>3. \A i, j \in 1..Len(pending) : nUrgent < i /\ i < j => pending[i].id < pending[j].id
  BY <1>1 DEF NodeInv, InLine
<1> HIDE DEF c
<1>4. CASE UNCHANGED channelVars
  <2>1. UNCHANGED <<pending, nUrgent, received>>
    BY <1>4 DEF channelVars
  <2>2. c.type = "Stop" => nUrgent > 0
    <3>1. ASSUME c.type = "Stop", nUrgent = 0 PROVE FALSE
      <4>1. Channel!PutUrgent(c)
        BY <1>1, <3>1 DEF HandOn, c
      <4> QED BY <1>1, <2>1, <3>1, <4>1 DEF Channel!PutUrgent
    <3> QED BY <1>1, <3>1
  <2>3. InLine'
    <3>1. DOMAIN pending = 1..Len(pending)
      BY <1>1
    <3> QED BY <1>2, <1>3, <2>1, <3>1 DEF InLine
  <2> QED BY <1>1, <2>1, <2>2, <2>3 DEF NodeInv, StopInLine, c
<1>5. CASE c.type = "Stop" /\ nUrgent < Capacity /\ Channel!PutUrgent(c)
  <2>1. /\ pending' = Inserted(pending, nUrgent, c) /\ nUrgent' = nUrgent + 1
        /\ received' = received
    BY <1>5 DEF Channel!PutUrgent, Inserted
  <2>2. /\ pending' \in Seq(Command) /\ Len(pending') = Len(pending) + 1
        /\ \A i \in 1..(Len(pending) + 1) :
             pending'[i] = IF i <= nUrgent THEN pending[i] ELSE IF i = nUrgent + 1 THEN c ELSE pending[i - 1]
    <3>1. /\ Inserted(pending, nUrgent, c) \in Seq(Command)
          /\ Len(Inserted(pending, nUrgent, c)) = Len(pending) + 1
          /\ \A i \in 1..(Len(pending) + 1) :
               Inserted(pending, nUrgent, c)[i] =
                 IF i <= nUrgent THEN pending[i] ELSE IF i = nUrgent + 1 THEN c ELSE pending[i - 1]
      BY <1>1, <1>2, Insertion
    <3> QED BY <2>1, <3>1
  <2>3. DOMAIN pending' = 1..(Len(pending) + 1)
    BY <2>2
  <2>4. ASSUME NEW i \in 1..(Len(pending) + 1)
        PROVE  pending'[i].id < next_command_id /\ (pending'[i].type = "Stop" <=> i <= nUrgent')
    <3>1. CASE i <= nUrgent
      BY <1>1, <1>2, <2>1, <2>2, <3>1
    <3>2. CASE i = nUrgent + 1
      <4>1. pending'[i] = c /\ i <= nUrgent'
        BY <1>1, <2>1, <2>2, <3>2
      <4>2. c.id < next_command_id /\ c.type = "Stop"
        BY <1>2, <1>5
      <4> QED BY <4>1, <4>2
    <3>3. CASE i > nUrgent + 1
      <4>1. i - 1 \in 1..Len(pending) /\ ~(i - 1 <= nUrgent) /\ pending'[i] = pending[i - 1]
        BY <1>1, <2>2, <3>3
      <4> QED BY <1>1, <1>2, <2>1, <3>3, <4>1
    <3> QED BY <1>1, <3>1, <3>2, <3>3
  <2>5. ASSUME NEW i \in 1..(Len(pending) + 1), NEW j \in 1..(Len(pending) + 1), nUrgent' < i, i < j
        PROVE  pending'[i].id < pending'[j].id
    <3>1. /\ i - 1 \in 1..Len(pending) /\ j - 1 \in 1..Len(pending) /\ nUrgent < i - 1 /\ i - 1 < j - 1
          /\ pending'[i] = pending[i - 1] /\ pending'[j] = pending[j - 1]
      BY <1>1, <2>1, <2>2, <2>5, SMTT(30)
    <3> QED BY <1>3, <3>1
  <2>6. InLine'
    <3>1. hand' = NoCommand /\ next_command_id' = next_command_id
      OBVIOUS
    <3> QED BY <2>3, <2>4, <2>5, <3>1 DEF InLine
  <2>7. nUrgent' > 0 /\ nUrgent' \in 0..Len(pending') /\ nUrgent' <= Capacity
        /\ Len(pending') - nUrgent' <= Capacity
    BY <1>1, <1>5, <2>1, <2>2
  <2>8. StopInLine'
    BY <2>7 DEF StopInLine
  <2> QED BY <2>1, <2>2, <2>6, <2>7, <2>8
<1>6. CASE c.type # "Stop" /\ Len(pending) - nUrgent < Capacity /\ Channel!Put(c)
  <2>1. pending' = Append(pending, c) /\ nUrgent' = nUrgent /\ received' = received
    BY <1>6 DEF Channel!Put
  <2>2. /\ pending' \in Seq(Command) /\ Len(pending') = Len(pending) + 1
        /\ \A i \in 1..Len(pending) : pending'[i] = pending[i]
        /\ pending'[Len(pending) + 1] = c
    BY <1>1, <1>2, <2>1
  <2>3. DOMAIN pending' = 1..(Len(pending) + 1)
    BY <2>2
  <2>4. ASSUME NEW i \in 1..(Len(pending) + 1)
        PROVE  pending'[i].id < next_command_id /\ (pending'[i].type = "Stop" <=> i <= nUrgent')
    <3>1. CASE i \in 1..Len(pending)
      BY <1>1, <1>2, <2>1, <2>2, <3>1
    <3>2. CASE i = Len(pending) + 1
      <4>1. pending'[i] = c /\ ~(i <= nUrgent')
        BY <1>1, <2>1, <2>2, <3>2
      <4>2. c.id < next_command_id /\ c.type # "Stop"
        BY <1>2, <1>6
      <4> QED BY <4>1, <4>2
    <3> QED BY <1>1, <3>1, <3>2
  <2>5. ASSUME NEW i \in 1..(Len(pending) + 1), NEW j \in 1..(Len(pending) + 1), nUrgent' < i, i < j
        PROVE  pending'[i].id < pending'[j].id
    <3>1. i \in 1..Len(pending) /\ pending'[i] = pending[i]
      BY <1>1, <2>2, <2>5
    <3>2. CASE j \in 1..Len(pending)
      BY <1>3, <2>1, <2>2, <2>5, <3>1, <3>2
    <3>3. CASE j = Len(pending) + 1
      BY <1>2, <2>2, <3>1, <3>3
    <3> QED BY <1>1, <3>2, <3>3
  <2>6. InLine'
    <3>1. hand' = NoCommand /\ next_command_id' = next_command_id
      OBVIOUS
    <3> QED BY <2>3, <2>4, <2>5, <3>1 DEF InLine
  <2>7. StopInLine'
    BY <1>6, <2>1 DEF NodeInv, StopInLine, c
  <2> QED BY <1>1, <1>6, <2>1, <2>2, <2>6, <2>7
<1> QED BY <1>4, <1>5, <1>6 DEF HandOn, c

LEMMA NodeStep == ASSUME NodeInv, [Next]_vars PROVE NodeInv'
<1> USE DEF NodeInv
<1>1. /\ topic \in Seq(Texts) /\ Len(topic) \in Nat /\ Len(topic) <= Depth /\ Depth \in Nat \ {0}
      /\ messages \in 0..MaxMessages /\ MaxMessages \in Nat
      /\ next_command_id \in Nat \ {0} /\ next_command_id + Len(topic) <= messages + 1
  BY BoundsAssumption DEF Types, Counted
<1>2. owed \in BOOLEAN
  BY DEF Types
<1>3. ASSUME UNCHANGED <<hand, next_command_id, owed, pending, nUrgent, received>>
      PROVE  InLine' /\ StopInLine'
  BY <1>3 DEF InLine, StopInLine
<1>4. CASE Construct
  BY <1>3, <1>4 DEF Construct, Types, Counted, channelVars
<1>5. ASSUME NEW text \in Texts, Publish(text) PROVE NodeInv'
  <2>1. /\ UNCHANGED <<node, hand, next_command_id, owed, pending, nUrgent, received>>
        /\ messages' = messages + 1 /\ messages < MaxMessages
    BY <1>5 DEF Publish, channelVars
  <2>2. /\ topic' \in Seq(Texts) /\ Len(topic') <= Depth /\ Len(topic') <= Len(topic) + 1
    <3>1. topic' = Append(IF Len(topic) = Depth THEN Tail(topic) ELSE topic, text)
      BY <1>5 DEF Publish, Receive
    <3>2. CASE Len(topic) = Depth
      BY <1>1, <3>1, <3>2
    <3>3. CASE Len(topic) # Depth
      BY <1>1, <3>1, <3>3
    <3> QED BY <3>2, <3>3
  <2>3. Types'
    BY <1>1, <2>1, <2>2 DEF Types
  <2>4. Counted'
    <3>1. Len(topic') \in Nat
      BY <2>2
    <3> QED BY <1>1, <2>1, <2>2, <3>1 DEF Counted
  <2> QED BY <1>3, <2>1, <2>3, <2>4
<1>6. CASE CommandCallback
  <2>1. /\ topic # <<>> /\ topic' = Tail(topic) /\ Head(topic) \in Texts
        /\ topic' \in Seq(Texts) /\ Len(topic') = Len(topic) - 1
        /\ UNCHANGED <<node, messages, pending, nUrgent, received>> /\ hand = NoCommand
    BY <1>1, <1>6 DEF CommandCallback, channelVars
  <2>2. CASE UNCHANGED <<hand, next_command_id, owed>>
    <3>1. Types'
      BY <1>1, <2>1, <2>2 DEF Types
    <3>2. Counted'
      BY <1>1, <2>1, <2>2 DEF Counted
    <3> QED BY <1>3, <2>1, <2>2, <3>1, <3>2
  <2>3. ASSUME NEW order \in Meaning(Head(topic)), hand' = Numbered(order),
               next_command_id' = next_command_id + 1, owed' = (owed \/ order.type = "Stop")
        PROVE  NodeInv'
    <3>1. /\ hand' \in Command /\ hand'.id = next_command_id /\ hand'.type = order.type
          /\ hand' # NoCommand
      <4>1. Len(topic) >= 1 /\ next_command_id \in 1..MaxMessages
        BY <1>1, <2>1
      <4>2. /\ Numbered(order) \in Command
            /\ Numbered(order).id = next_command_id /\ Numbered(order).type = order.type
        BY <2>1, <4>1, NumberedOrder
      <4> QED BY <2>3, <4>2, NoCommandAssumption
    <3>2. Types'
      <4>1. owed' \in BOOLEAN
        BY <2>3
      <4> QED BY <1>1, <2>1, <3>1, <4>1 DEF Types
    <3>3. Counted'
      BY <1>1, <2>1, <2>3 DEF Counted
    <3>4. InLine'
      <4>1. pending \in Seq(Command) /\ \A i \in DOMAIN pending : pending[i].id \in Nat
        <5>1. pending \in Seq(Command) /\ \A i \in DOMAIN pending : pending[i] \in Command
          BY DEF Types
        <5> QED BY <1>1, <5>1 DEF Command
      <4>2. \A i \in DOMAIN pending : pending[i].id < next_command_id
        BY DEF InLine
      <4>3. \A i \in DOMAIN pending : pending[i].id < next_command_id + 1
        BY <1>1, <4>1, <4>2
      <4> QED BY <2>1, <2>3, <3>1, <4>2, <4>3 DEF InLine
    <3>5. StopInLine'
      <4> SUFFICES ASSUME owed' PROVE nUrgent' > 0 \/ hand'.type = "Stop"
        BY <3>1 DEF StopInLine
      <4>1. owed \/ order.type = "Stop"
        BY <2>3
      <4> QED BY <2>1, <3>1, <4>1 DEF StopInLine
    <3> QED BY <3>2, <3>3, <3>4, <3>5
  <2> QED BY <1>6, <2>2, <2>3 DEF CommandCallback
<1>10. CASE CallWorker
  <2>1. /\ UNCHANGED <<node, topic, next_command_id, messages, owed>>
        /\ hand # NoCommand /\ hand' = NoCommand /\ HandOn(hand)
    BY <1>10 DEF CallWorker
  <2>2. /\ InLine' /\ StopInLine' /\ received' = received
        /\ pending' \in Seq(Command)
        /\ nUrgent' \in 0..Len(pending')
        /\ nUrgent' <= Capacity /\ Len(pending') - nUrgent' <= Capacity
    BY <2>1, HandingOn
  <2>3. Types' /\ Counted'
    BY <2>1, <2>2 DEF Types, Counted
  <2> QED BY <2>2, <2>3
<1>11. CASE WorkerWaits
  <2>1. /\ UNCHANGED <<node, topic, hand, next_command_id, messages, owed, pending, nUrgent>>
        /\ \/ received' = received
           \/ received' = [received EXCEPT !["worker"] = NoCommand]
    BY <1>11 DEF WorkerWaits, Channel!Block, Channel!LeaveEmptyHanded
  <2>2. received' \in [{"worker"} -> Command \cup {NoCommand}]
    BY <2>1 DEF Types
  <2> QED BY <2>1, <2>2 DEF Types, Counted, InLine, StopInLine
<1>7. CASE Destroy
  <2>1. /\ UNCHANGED <<topic, hand, next_command_id, messages, owed, pending, nUrgent, received>>
        /\ node' = "ended"
    BY <1>7 DEF Destroy, Channel!Close
  <2> QED BY <1>3, <2>1 DEF Types, Counted
<1>8. CASE WorkerTakes
  <2>1. /\ UNCHANGED <<node, topic, hand, next_command_id, messages>>
        /\ pending # <<>> /\ pending' = Tail(pending)
        /\ received' = [received EXCEPT !["worker"] = Head(pending)]
        /\ nUrgent' = IF nUrgent = 0 THEN 0 ELSE nUrgent - 1
    BY <1>8 DEF WorkerTakes, Channel!Take, Channel!TakeFirst
  <2>2. /\ pending \in Seq(Command) /\ nUrgent \in 0..Len(pending) /\ nUrgent <= Capacity
        /\ Len(pending) - nUrgent <= Capacity /\ Len(pending) \in Nat /\ Capacity \in Nat
    BY BoundsAssumption DEF Types
  <2>3. /\ Len(pending) > 0 /\ Head(pending) \in Command /\ Head(pending) = pending[1]
        /\ pending' \in Seq(Command) /\ Len(pending') = Len(pending) - 1
        /\ \A i \in 1..(Len(pending) - 1) : pending'[i] = pending[i + 1]
    BY <2>1, <2>2
  <2>4. received' \in [{"worker"} -> Command \cup {NoCommand}] /\ received'["worker"] = pending[1]
    BY <2>1, <2>3 DEF Types
  <2>5. owed' = (owed /\ pending[1].type # "Stop")
    BY <1>8, <2>4 DEF WorkerTakes
  <2>6. Types'
    <3>1. owed' \in BOOLEAN
      BY <2>5
    <3>2. nUrgent' \in 0..Len(pending') /\ nUrgent' <= Capacity /\ Len(pending') - nUrgent' <= Capacity
      BY <2>1, <2>2, <2>3
    <3> QED BY <2>1, <2>3, <2>4, <3>1, <3>2 DEF Types
  <2>7. InLine'
    <3>1. DOMAIN pending' = 1..(Len(pending) - 1)
      BY <2>3
    <3>2. ASSUME NEW i \in 1..(Len(pending) - 1)
          PROVE  /\ pending'[i].id < next_command_id
                 /\ hand # NoCommand => pending'[i].id < hand.id
                 /\ pending'[i].type = "Stop" <=> i <= nUrgent'
      <4>1. i + 1 \in DOMAIN pending /\ (i + 1 <= nUrgent <=> i <= nUrgent')
        BY <2>1, <2>2
      <4> QED BY <2>3, <4>1 DEF InLine
    <3>3. ASSUME NEW i \in 1..(Len(pending) - 1), NEW j \in 1..(Len(pending) - 1), nUrgent' < i, i < j
          PROVE  pending'[i].id < pending'[j].id
      <4>1. i + 1 \in DOMAIN pending /\ j + 1 \in DOMAIN pending /\ nUrgent < i + 1 /\ i + 1 < j + 1
        BY <2>1, <2>2, <3>3
      <4> QED BY <2>3, <4>1 DEF InLine
    <3> QED BY <2>1, <3>1, <3>2, <3>3 DEF InLine
  <2>8. StopInLine'
    <3>1. owed' => owed /\ pending[1].type # "Stop"
      BY <2>5
    <3>2. 1 \in DOMAIN pending /\ (pending[1].type # "Stop" => ~(nUrgent > 0))
      BY <2>2, <2>3 DEF InLine
    <3> QED BY <2>1, <3>1, <3>2 DEF StopInLine
  <2>9. Counted'
    BY <2>1 DEF Counted
  <2> QED BY <2>6, <2>7, <2>8, <2>9
<1>9. CASE UNCHANGED vars
  BY <1>3, <1>9 DEF vars, channelVars, Types, Counted
<1> QED
  BY <1>4, <1>5, <1>6, <1>7, <1>8, <1>9, <1>10, <1>11 DEF Next

LEMMA NodeInvCorrect == Spec => []NodeInv
BY NodeInit, NodeStep, PTL DEF Spec

(* The node's variables keep their types, and neither the subscription nor a      *)
(* queue of the worker is ever over its limit.                                     *)
THEOREM TypeCorrect == Spec => []TypeOK
<1>1. ASSUME NodeInv PROVE TypeOK
  <2>1. next_command_id \in 1..(MaxMessages + 1)
    <3>1. Len(topic) \in Nat
      BY <1>1 DEF NodeInv, Types
    <3> QED BY <1>1, <3>1, BoundsAssumption DEF NodeInv, Types, Counted
  <2>2. Len(pending) - nUrgent \in 0..Capacity /\ nUrgent \in 0..Capacity
    <3>1. Len(pending) \in Nat
      BY <1>1 DEF NodeInv, Types
    <3> QED BY <1>1, <3>1, BoundsAssumption DEF NodeInv, Types
  <2> QED BY <1>1, <2>1, <2>2 DEF NodeInv, Types, InLine, TypeOK
<1> QED BY <1>1, NodeInvCorrect, PTL

(* Commands other than Stop are executed in the order in which they were          *)
(* published, and none while a Stop waits, whatever is published and refused.      *)
THEOREM OrderIsKept == Spec => ExecutedInOrder
<1> DEFINE Kept ==
      received' # received =>
        LET taken == received'["worker"]
        IN  taken # NoCommand /\ taken.type # "Stop" =>
              \A i \in DOMAIN pending : pending[i].type # "Stop" /\ pending[i].id >= taken.id
<1>1. ASSUME NodeInv, [Next]_vars PROVE Kept
  <2> SUFFICES ASSUME received' # received, received'["worker"] # NoCommand,
                      received'["worker"].type # "Stop",
                      NEW i \in DOMAIN pending
               PROVE  pending[i].type # "Stop" /\ pending[i].id >= received'["worker"].id
    OBVIOUS
  <2>1. WorkerTakes
    <3>1. ASSUME CallWorker PROVE received' = received
      BY <3>1 DEF CallWorker, HandOn, Channel!Put, Channel!PutUrgent, channelVars
    <3>2. ASSUME WorkerWaits PROVE received' = received \/ received'["worker"] = NoCommand
      <4>1. received \in [{"worker"} -> Command \cup {NoCommand}]
        BY <1>1 DEF NodeInv, Types
      <4> QED BY <3>2, <4>1 DEF WorkerWaits, Channel!Block, Channel!LeaveEmptyHanded
    <3> QED
      BY <1>1, <3>1, <3>2 DEF CommandCallback, Next, vars, Construct, Publish, Destroy, channelVars, Channel!Close
  <2>2. /\ pending # <<>> /\ received' = [received EXCEPT !["worker"] = Head(pending)]
    BY <2>1 DEF WorkerTakes, Channel!Take, Channel!TakeFirst
  <2>3. /\ pending \in Seq(Command) /\ nUrgent \in 0..Len(pending) /\ Len(pending) \in Nat
        /\ received \in [{"worker"} -> Command \cup {NoCommand}]
    BY <1>1 DEF NodeInv, Types
  <2>4. received'["worker"] = pending[1] /\ 1 \in DOMAIN pending /\ i \in 1..Len(pending)
    BY <2>2, <2>3
  <2>5. nUrgent = 0
    BY <1>1, <2>3, <2>4 DEF NodeInv, InLine
  <2>6. pending[i].type # "Stop"
    BY <1>1, <2>4, <2>5 DEF NodeInv, InLine
  <2>7. pending[i].id \in Nat /\ (i = 1 \/ pending[1].id < pending[i].id) /\ pending[1].id \in Nat
    <3>1. pending[i] \in Command /\ pending[1] \in Command
      BY <2>3, <2>4
    <3>2. i = 1 \/ 1 < i
      BY <2>4
    <3> QED BY <1>1, <2>4, <2>5, <3>1, <3>2 DEF NodeInv, InLine, Command
  <2> QED BY <2>4, <2>6, <2>7
<1>2. Spec => [][Kept]_vars
  BY <1>1, NodeInvCorrect, PTL DEF Spec
<1> QED BY <1>2 DEF ExecutedInOrder

(* What StopIsHeard rests on: from the moment a stop is read until one is          *)
(* executed a Stop is in hand or among the pending commands, in front of all        *)
(* others - also when the worker has refused this one.                              *)
THEOREM StopsArePending ==
  Spec => [](owed => \/ hand # NoCommand /\ hand.type = "Stop"
                     \/ pending # <<>> /\ Head(pending).type = "Stop")
<1>1. ASSUME NodeInv, owed, ~(hand # NoCommand /\ hand.type = "Stop")
      PROVE  pending # <<>> /\ Head(pending).type = "Stop"
  <2>1. nUrgent > 0 /\ pending \in Seq(Command) /\ nUrgent \in 0..Len(pending)
    BY <1>1 DEF NodeInv, StopInLine, Types
  <2>2. pending # <<>> /\ 1 \in DOMAIN pending /\ Head(pending) = pending[1] /\ 1 <= nUrgent
    BY <2>1
  <2> QED BY <1>1, <2>2 DEF NodeInv, InLine
<1> QED BY <1>1, NodeInvCorrect, PTL

-----------------------------------------------------------------------------
(* The parser.  *)

(* The rank of a position is the number of members up to it: it orders the      *)
(* members like their values.                                                    *)
LEMMA RankOrder ==
  ASSUME NEW S \in SUBSET (Nat \ {0}), IsFiniteSet(S), NEW e \in S, NEW p \in Nat
  PROVE  /\ Rank(S, e) \in 1..Cardinality(S) /\ Rank(S, p) \in 0..Cardinality(S)
         /\ e <= p <=> Rank(S, e) <= Rank(S, p)
<1> DEFINE UpTo(q) == {j \in S : j <= q}
<1>1. ASSUME NEW q \in Nat
      PROVE  /\ IsFiniteSet(UpTo(q)) /\ Cardinality(UpTo(q)) \in Nat
             /\ Cardinality(UpTo(q)) <= Cardinality(S)
  <2>1. UpTo(q) \in SUBSET S
    OBVIOUS
  <2>2. IsFiniteSet(UpTo(q)) /\ Cardinality(UpTo(q)) <= Cardinality(S)
    BY <2>1, FS_Subset
  <2> QED BY <2>2, FS_CardinalityType
<1>2. Cardinality(S) \in Nat
  BY FS_CardinalityType
<1>3. e \in Nat /\ e \in UpTo(e) /\ \A j \in S : j \in Nat
  OBVIOUS
<1>4. Cardinality(UpTo(e)) # 0
  <2>1. UpTo(e) # {}
    BY <1>3
  <2> QED BY <1>1, <1>3, <2>1, FS_EmptySet
<1>5. ASSUME e <= p PROVE Cardinality(UpTo(e)) <= Cardinality(UpTo(p))
  <2>1. \A j \in S : j <= e => j <= p
    BY <1>3, <1>5
  <2>2. UpTo(e) \in SUBSET UpTo(p)
    BY <2>1
  <2>3. IsFiniteSet(UpTo(p))
    BY <1>1
  <2> QED BY <2>2, <2>3, FS_Subset
<1>6. ASSUME p < e PROVE Cardinality(UpTo(p)) < Cardinality(UpTo(e))
  <2>1. (\A j \in S : j <= p => j <= e) /\ ~(e <= p)
    BY <1>3, <1>6
  <2>2. UpTo(p) \in SUBSET UpTo(e) /\ e \notin UpTo(p)
    BY <2>1
  <2>3. Cardinality(UpTo(p)) <= Cardinality(UpTo(e)) /\ Cardinality(UpTo(e)) # Cardinality(UpTo(p))
    BY <1>1, <1>3, <2>2, FS_Subset
  <2> QED BY <1>1, <1>3, <2>3
<1>7. Rank(S, e) = Cardinality(UpTo(e)) /\ Rank(S, p) = Cardinality(UpTo(p))
  BY DEF Rank
<1>8. /\ Cardinality(UpTo(e)) \in Nat /\ Cardinality(UpTo(e)) <= Cardinality(S)
      /\ Cardinality(UpTo(p)) \in Nat /\ Cardinality(UpTo(p)) <= Cardinality(S)
  BY <1>1, <1>3
<1> HIDE DEF UpTo
<1> QED BY <1>2, <1>3, <1>4, <1>5, <1>6, <1>7, <1>8

(* Every rank up to the size of the set is the rank of a member.  *)
LEMMA EveryRank ==
  ASSUME NEW S \in SUBSET (Nat \ {0}), IsFiniteSet(S), NEW k \in 1..Cardinality(S)
  PROVE  \E e \in S : Rank(S, e) = k
<1> DEFINE n == Cardinality(S)
           rank == [e \in S |-> Rank(S, e)]
<1>1. n \in Nat
  BY FS_CardinalityType
<1>2. ASSUME NEW e \in S, NEW g \in S, Rank(S, e) = Rank(S, g) PROVE e = g
  <2>1. e \in Nat /\ g \in Nat
    OBVIOUS
  <2>2. Rank(S, e) \in Nat /\ Rank(S, g) \in Nat
    BY <1>1, <2>1, RankOrder
  <2>3. e <= g /\ g <= e
    BY <1>2, <2>1, <2>2, RankOrder
  <2> QED BY <2>1, <2>3
<1>3. rank \in [S -> 1..n]
  <2>1. \A e \in S : e \in Nat /\ Rank(S, e) \in 1..n
    BY RankOrder
  <2> QED BY <2>1
<1>4. \A e, g \in S : rank[e] = rank[g] => e = g
  BY <1>2
<1> HIDE DEF rank
<1>5. rank \in Injection(S, 1..n)
  BY <1>3, <1>4, Fun_IsInj
<1>6. IsFiniteSet(1..n) /\ Cardinality(1..n) = n
  BY <1>1, FS_Interval
<1>7. rank \in Surjection(S, 1..n)
  BY <1>5, <1>6, FS_Injection
<1>8. PICK e \in S : rank[e] = k
  BY <1>7 DEF Surjection
<1> QED BY <1>8 DEF rank

(* Nth lists the members in their order: the k-th has rank k, and what is not      *)
(* below it is from the k-th on.                                                   *)
LEMMA NthOrder ==
  ASSUME NEW S \in SUBSET (Nat \ {0}), IsFiniteSet(S)
  PROVE  /\ Cardinality(S) \in Nat /\ Nth(S, 0) = 0
         /\ \A k \in 1..Cardinality(S) :
              /\ Nth(S, k) \in S /\ Rank(S, Nth(S, k)) = k
              /\ \A p \in Nat : Nth(S, k) <= p <=> k <= Rank(S, p)
         /\ \A e \in S : Rank(S, e) \in 1..Cardinality(S) /\ Nth(S, Rank(S, e)) = e
         /\ \A p \in Nat : Rank(S, p) \in 0..Cardinality(S)
<1>1. Cardinality(S) \in Nat /\ S \subseteq Nat
  BY FS_CardinalityType
<1>2. Nth(S, 0) = 0
  BY DEF Nth
<1>3. ASSUME NEW k \in 1..Cardinality(S)
      PROVE  Nth(S, k) \in S /\ Rank(S, Nth(S, k)) = k
  <2>1. \E e \in S : Rank(S, e) = k
    BY EveryRank
  <2>2. Nth(S, k) = CHOOSE e \in S : Rank(S, e) = k
    BY <1>1 DEF Nth
  <2> QED BY <2>1, <2>2
<1>4. ASSUME NEW k \in 1..Cardinality(S), NEW p \in Nat
      PROVE  Nth(S, k) <= p <=> k <= Rank(S, p)
  <2>1. Nth(S, k) \in S /\ Rank(S, Nth(S, k)) = k
    BY <1>3
  <2>2. Nth(S, k) <= p <=> Rank(S, Nth(S, k)) <= Rank(S, p)
    BY <2>1, RankOrder
  <2> QED BY <2>1, <2>2
<1>5. ASSUME NEW e \in S
      PROVE  Rank(S, e) \in 1..Cardinality(S) /\ Nth(S, Rank(S, e)) = e
  <2>1. e \in Nat /\ Rank(S, e) \in 1..Cardinality(S)
    BY <1>1, RankOrder
  <2> DEFINE g == Nth(S, Rank(S, e))
  <2>2. g \in S /\ Rank(S, g) = Rank(S, e)
    BY <1>3, <2>1
  <2> HIDE DEF g
  <2>3. g \in Nat /\ Rank(S, e) <= Rank(S, g) /\ Rank(S, g) <= Rank(S, e)
    BY <1>1, <2>1, <2>2
  <2>4. e <= g /\ g <= e
    BY <2>1, <2>2, <2>3, RankOrder
  <2>5. g = e
    BY <2>1, <2>3, <2>4
  <2> QED BY <2>1, <2>5 DEF g
<1>6. ASSUME NEW p \in Nat PROVE Rank(S, p) \in 0..Cardinality(S)
  <2>1. CASE S = {}
    <3>1. {j \in S : j <= p} = {}
      BY <2>1
    <3> QED BY <1>1, <3>1, FS_EmptySet DEF Rank
  <2>2. CASE S # {}
    BY <2>2, RankOrder
  <2> QED BY <2>1, <2>2
<1> QED BY <1>1, <1>2, <1>3, <1>4, <1>5, <1>6

(* The first of a set of positions.  *)
LEMMA Least ==
  ASSUME NEW S \in SUBSET (Nat \ {0}), IsFiniteSet(S), S # {}
  PROVE  \E e \in S : \A g \in S : e <= g
<1> DEFINE e == Nth(S, 1)
<1>1. 1 \in 1..Cardinality(S)
  BY FS_CardinalityType, FS_EmptySet
<1>2. e \in S /\ Rank(S, e) = 1
  BY <1>1, NthOrder
<1> HIDE DEF e
<1>3. ASSUME NEW g \in S PROVE e <= g
  <2>1. g \in Nat /\ Rank(S, g) \in 1..Cardinality(S) /\ Cardinality(S) \in Nat
    BY NthOrder
  <2>2. Rank(S, e) <= Rank(S, g)
    BY <1>2, <2>1
  <2> QED BY <1>2, <2>1, <2>2, RankOrder
<1> QED BY <1>2, <1>3

(* The colons of a text.  *)
Colons(f) == {i \in DOMAIN f : f[i] = ":"}

(* What std::getline makes of a text is what is written between the colons of f:    *)
(* f is the text, or the text without the colon it ends with.                        *)
Splits(rest, f) ==
  /\ rest \in Seq(Symbols) /\ f \in Seq(Symbols) /\ Len(f) <= Len(rest)
  /\ \A i \in 1..Len(f) : rest[i] = f[i]
  /\ FieldEnds(rest) = Colons(f) \cup {Len(f) + 1}

(* The ends of the fields, in order: field k is what lies between two of them.       *)
LEMMA EndsInOrder ==
  ASSUME NEW rest, NEW f, Splits(rest, f)
  PROVE  LET S == FieldEnds(rest)
             n == Cardinality(S)
         IN  /\ n \in Nat \ {0} /\ n = Cardinality(Colons(f)) + 1
             /\ Nth(S, 0) = 0 /\ Nth(S, n) = Len(f) + 1
             /\ \A k \in 1..n :
                  /\ Nth(S, k - 1) \in 0..Len(f) /\ Nth(S, k) \in 1..(Len(f) + 1)
                  /\ Nth(S, k - 1) < Nth(S, k)
                  /\ \A p \in (Nth(S, k - 1) + 1)..(Nth(S, k) - 1) :
                       p \in 1..Len(f) /\ f[p] # ":"
             /\ \A k \in 1..(n - 1) : Nth(S, k) \in Colons(f)
             /\ \A i \in Colons(f) : \E k \in 1..(n - 1) : Nth(S, k) = i
             /\ \A p \in DOMAIN f \ Colons(f) :
                  \E k \in 1..n : p \in (Nth(S, k - 1) + 1)..(Nth(S, k) - 1)
<1> DEFINE S == FieldEnds(rest)
           L == Len(f)
           n == Cardinality(S)
<1>1. /\ f \in Seq(Symbols) /\ L \in Nat /\ DOMAIN f = 1..L
      /\ S = Colons(f) \cup {L + 1}
  BY DEF Splits
<1>2. /\ Colons(f) \in SUBSET (1..L) /\ IsFiniteSet(1..L) /\ L + 1 \notin Colons(f)
      /\ \A p \in 1..L : p \in Colons(f) <=> f[p] = ":"
  <2>1. IsFiniteSet(1..L)
    BY <1>1, FS_Interval
  <2> QED BY <1>1, <2>1 DEF Colons
<1> HIDE DEF S, L
<1>3. IsFiniteSet(Colons(f))
  BY <1>2, FS_Subset
<1>4. /\ IsFiniteSet(S) /\ n = Cardinality(Colons(f)) + 1
      /\ S \in SUBSET (Nat \ {0}) /\ S \subseteq 1..(L + 1) /\ L + 1 \in S
  <2>1. IsFiniteSet(S) /\ n = Cardinality(Colons(f)) + 1
    BY <1>1, <1>2, <1>3, FS_AddElement
  <2> QED BY <1>1, <1>2, <2>1
<1>5. Cardinality(Colons(f)) \in Nat
  BY <1>3, FS_CardinalityType
<1>6. n \in Nat \ {0}
  BY <1>4, <1>5
<1> HIDE DEF n
<1>7. /\ Nth(S, 0) = 0
      /\ \A k \in 1..n :
           /\ Nth(S, k) \in S /\ Rank(S, Nth(S, k)) = k
           /\ \A p \in Nat : Nth(S, k) <= p <=> k <= Rank(S, p)
      /\ \A e \in S : Rank(S, e) \in 1..n /\ Nth(S, Rank(S, e)) = e
      /\ \A p \in Nat : Rank(S, p) \in 0..n
  BY <1>4, NthOrder DEF n
<1>8. ASSUME NEW k \in 1..n
      PROVE  Nth(S, k) \in 1..(L + 1) /\ Nth(S, k) \in Nat /\ k \in Nat
  <2>1. Nth(S, k) \in 1..(L + 1)
    BY <1>4, <1>7
  <2>2. k \in Nat
    BY <1>6
  <2> QED BY <1>1, <2>1, <2>2
<1>9. ASSUME NEW k \in 1..n, NEW l \in 1..n PROVE k < l <=> Nth(S, k) < Nth(S, l)
  <2>1. /\ Nth(S, k) \in Nat /\ Nth(S, l) \in Nat /\ Rank(S, Nth(S, k)) = k
        /\ k \in Nat /\ l \in Nat
    BY <1>7, <1>8
  <2>2. Nth(S, l) <= Nth(S, k) <=> l <= Rank(S, Nth(S, k))
    BY <1>7, <2>1
  <2> QED BY <2>1, <2>2
<1>10. Nth(S, n) = L + 1
  <2> DEFINE q == Rank(S, L + 1)
  <2>1. q \in 1..n /\ Nth(S, q) = L + 1
    BY <1>4, <1>7
  <2> HIDE DEF q
  <2>2. n \in 1..n /\ Nth(S, n) \in 1..(L + 1)
    BY <1>6, <1>8
  <2>3. q < n => Nth(S, q) < Nth(S, n)
    BY <1>9, <2>1, <2>2
  <2>4. q = n
    BY <1>1, <1>6, <2>1, <2>2, <2>3
  <2> QED BY <2>1, <2>4
<1>11. ASSUME NEW k \in 1..n
       PROVE  Nth(S, k - 1) \in 0..L /\ Nth(S, k - 1) < Nth(S, k)
  <2>1. k \in Nat /\ Nth(S, k) \in 1..(L + 1)
    BY <1>8
  <2>2. CASE k = 1
    <3>1. Nth(S, k - 1) = 0
      BY <1>7, <2>2
    <3> QED BY <1>1, <2>1, <3>1
  <2>3. CASE k # 1
    <3>1. k - 1 \in 1..n /\ k - 1 < k
      BY <1>6, <2>1, <2>3
    <3>2. Nth(S, k - 1) \in 1..(L + 1) /\ Nth(S, k - 1) < Nth(S, k)
      BY <1>8, <1>9, <3>1
    <3> QED BY <1>1, <2>1, <3>2
  <2> QED BY <2>2, <2>3
<1>12. ASSUME NEW k \in 1..n, NEW p \in (Nth(S, k - 1) + 1)..(Nth(S, k) - 1)
       PROVE  p \in 1..L /\ f[p] # ":"
  <2>1. /\ Nth(S, k - 1) \in 0..L /\ Nth(S, k) \in 1..(L + 1)
        /\ k \in Nat
    BY <1>6, <1>8, <1>11
  <2>2. p \in 1..L /\ Nth(S, k - 1) < p /\ p < Nth(S, k)
    BY <1>1, <2>1
  <2>3. p \notin S
    <3> SUFFICES ASSUME p \in S PROVE FALSE
      OBVIOUS
    <3> DEFINE q == Rank(S, p)
    <3>1. q \in 1..n /\ Nth(S, q) = p
      BY <1>7
    <3> HIDE DEF q
    <3>2. q < k
      BY <1>9, <2>2, <3>1
    <3>3. k - 1 \in 1..n /\ (q = k - 1 \/ q < k - 1)
      BY <1>6, <2>1, <3>1, <3>2
    <3>4. q = k - 1 \/ Nth(S, q) < Nth(S, k - 1)
      BY <1>9, <3>1, <3>3
    <3> QED BY <1>1, <2>1, <2>2, <3>1, <3>4
  <2> QED BY <1>1, <1>2, <2>2, <2>3
<1>13. ASSUME NEW k \in 1..(n - 1) PROVE Nth(S, k) \in Colons(f)
  <2>1. k \in 1..n /\ n \in 1..n /\ k < n
    BY <1>6
  <2>2. Nth(S, k) \in S /\ Nth(S, k) \in 1..(L + 1) /\ Nth(S, k) < L + 1
    BY <1>7, <1>8, <1>9, <1>10, <2>1
  <2> QED BY <1>1, <2>2
<1>14. ASSUME NEW i \in Colons(f) PROVE \E k \in 1..(n - 1) : Nth(S, k) = i
  <2>1. i \in S /\ i # L + 1
    BY <1>1, <1>2
  <2>2. Rank(S, i) \in 1..n /\ Nth(S, Rank(S, i)) = i
    BY <1>7, <2>1
  <2>3. Rank(S, i) # n
    BY <1>10, <2>1, <2>2
  <2>4. Rank(S, i) \in 1..(n - 1)
    BY <1>6, <2>2, <2>3
  <2> QED BY <2>2, <2>4
<1>15. ASSUME NEW p \in DOMAIN f \ Colons(f)
       PROVE  \E k \in 1..n : p \in (Nth(S, k - 1) + 1)..(Nth(S, k) - 1)
  <2> DEFINE k == Rank(S, p) + 1
  <2>1. p \in Nat /\ p <= L /\ p \notin S /\ p > 0
    BY <1>1
  <2>2. Rank(S, p) \in 0..n /\ n \in 1..n
    BY <1>6, <1>7, <2>1
  <2>3. ~(Nth(S, n) <= p)
    BY <1>1, <1>10, <2>1
  <2>4. ~(n <= Rank(S, p))
    BY <1>7, <2>1, <2>2, <2>3
  <2>5. k \in 1..n /\ k - 1 = Rank(S, p) /\ k - 1 \in Nat
    BY <1>6, <2>2, <2>4
  <2>6. p < Nth(S, k)
    <3>1. ~(k <= Rank(S, p))
      BY <2>2, <2>5
    <3>2. ~(Nth(S, k) <= p)
      BY <1>7, <2>1, <2>5, <3>1
    <3> HIDE DEF k
    <3>3. Nth(S, k) \in Nat
      BY <1>8, <2>5
    <3> QED BY <2>1, <3>2, <3>3
  <2>7. Nth(S, k - 1) < p
    <3> HIDE DEF k
    <3>1. CASE k = 1
      BY <1>7, <2>1, <3>1
    <3>2. CASE k # 1
      <4>1. k - 1 \in 1..n /\ k - 1 <= Rank(S, p)
        BY <1>6, <2>5, <3>2
      <4>2. Nth(S, k - 1) <= p /\ Nth(S, k - 1) \in S /\ Nth(S, k - 1) \in Nat
        BY <1>7, <1>8, <2>1, <4>1
      <4> QED BY <2>1, <4>2
    <3> QED BY <3>1, <3>2
  <2> HIDE DEF k
  <2>8. p \in (Nth(S, k - 1) + 1)..(Nth(S, k) - 1)
    <3>1. Nth(S, k) \in Nat /\ Nth(S, k - 1) \in 0..L
      BY <1>8, <1>11, <2>5
    <3> QED BY <1>1, <2>1, <2>6, <2>7, <3>1
  <2> QED BY <2>5, <2>8
<1> QED
  BY <1>1, <1>4, <1>6, <1>7, <1>8, <1>10, <1>11, <1>12, <1>13, <1>14, <1>15 DEF S, L, n

(* The fields themselves.  *)
LEMMA FieldsBetween ==
  ASSUME NEW rest, NEW f, Splits(rest, f)
  PROVE  LET S == FieldEnds(rest)
             n == Cardinality(S)
         IN  /\ Len(Fields(rest)) = n /\ DOMAIN Fields(rest) = 1..n
             /\ Fields(rest) \in Seq(Seq(Symbols))
             /\ \A k \in 1..n :
                  /\ Fields(rest)[k] = SubSeq(rest, Nth(S, k - 1) + 1, Nth(S, k) - 1)
                  /\ Fields(rest)[k] # <<>> <=> Nth(S, k - 1) + 1 < Nth(S, k)
                  /\ IsNumber(Fields(rest)[k]) <=>
                       /\ Nth(S, k - 1) + 1 < Nth(S, k)
                       /\ \A p \in (Nth(S, k - 1) + 1)..(Nth(S, k) - 1) : f[p] = "9"
<1> DEFINE S == FieldEnds(rest)
           n == Cardinality(S)
           L == Len(f)
           field(k) == SubSeq(rest, Nth(S, k - 1) + 1, Nth(S, k) - 1)
<1>1. /\ rest \in Seq(Symbols) /\ L \in Nat /\ L <= Len(rest) /\ Len(rest) \in Nat
      /\ \A p \in 1..L : rest[p] = f[p] /\ rest[p] \in Symbols
  <2>1. /\ rest \in Seq(Symbols) /\ f \in Seq(Symbols) /\ L <= Len(rest)
        /\ \A p \in 1..L : rest[p] = f[p]
    BY DEF Splits
  <2>2. L \in Nat /\ Len(rest) \in Nat
    BY <2>1
  <2>3. \A p \in 1..L : p \in 1..Len(rest)
    BY <2>1, <2>2
  <2> QED BY <2>1, <2>2, <2>3, ElementOfSeq
<1>2. /\ n \in Nat
      /\ \A k \in 1..n :
           /\ Nth(S, k - 1) \in 0..L /\ Nth(S, k) \in 1..(L + 1) /\ Nth(S, k - 1) < Nth(S, k)
           /\ \A p \in (Nth(S, k - 1) + 1)..(Nth(S, k) - 1) : p \in 1..L
  BY EndsInOrder
<1>3. Fields(rest) = [k \in 1..n |-> field(k)]
  BY DEF Fields
<1> HIDE DEF S, n, L
<1>4. ASSUME NEW k \in 1..n
      PROVE  /\ field(k) \in Seq(Symbols)
             /\ field(k) # <<>> <=> Nth(S, k - 1) + 1 < Nth(S, k)
             /\ IsNumber(field(k)) <=>
                  /\ Nth(S, k - 1) + 1 < Nth(S, k)
                  /\ \A p \in (Nth(S, k - 1) + 1)..(Nth(S, k) - 1) : f[p] = "9"
  <2> DEFINE a == Nth(S, k - 1) + 1
             b == Nth(S, k) - 1
             s == SubSeq(rest, a, b)
  <2>1. a \in Int /\ b \in Int /\ a <= b + 1 /\ (a <= b <=> Nth(S, k - 1) + 1 < Nth(S, k))
    BY <1>1, <1>2
  <2>2. \A p \in a..b : p \in 1..L /\ rest[p] = f[p] /\ rest[p] \in Symbols
    BY <1>1, <1>2
  <2> HIDE DEF a, b
  <2>3. /\ s \in Seq(Symbols) /\ Len(s) = (IF a <= b THEN b - a + 1 ELSE 0)
        /\ \A i \in 1..(b - a + 1) : s[i] = rest[a + i - 1]
    BY <2>1, <2>2, SubSeqProperties
  <2> HIDE DEF s
  <2>4. s # <<>> <=> a <= b
    <3>1. Len(<<>>) = 0 /\ (Len(s) = 0 => s = <<>>)
      BY <2>3, EmptySeq
    <3> QED BY <2>1, <2>3, <3>1
  <2>5. ASSUME a <= b PROVE DOMAIN s = 1..(b - a + 1)
    BY <2>1, <2>3, <2>5, LenProperties
  <2>6. ASSUME a <= b PROVE (ToSet(s) = {"9"}) <=> \A p \in a..b : f[p] = "9"
    <3>1. ASSUME NEW p \in a..b
          PROVE  p - a + 1 \in 1..(b - a + 1) /\ s[p - a + 1] = f[p]
      <4>1. p - a + 1 \in 1..(b - a + 1) /\ a + (p - a + 1) - 1 = p
        BY <2>1
      <4> QED BY <2>2, <2>3, <4>1
    <3>2. ASSUME NEW i \in 1..(b - a + 1)
          PROVE  a + i - 1 \in a..b /\ s[i] = f[a + i - 1]
      <4>1. a + i - 1 \in a..b
        BY <2>1
      <4> QED BY <2>2, <2>3, <4>1
    <3>3. 1 \in 1..(b - a + 1)
      BY <2>1, <2>6
    <3>4. ASSUME ToSet(s) = {"9"}, NEW p \in a..b PROVE f[p] = "9"
      <4>1. p - a + 1 \in DOMAIN s
        BY <2>5, <2>6, <3>1
      <4>2. s[p - a + 1] \in ToSet(s)
        BY <4>1 DEF ToSet
      <4> QED BY <3>1, <3>4, <4>2
    <3>5. ASSUME \A p \in a..b : f[p] = "9" PROVE ToSet(s) = {"9"}
      <4>1. \A i \in DOMAIN s : s[i] = "9"
        BY <2>5, <2>6, <3>2, <3>5
      <4>2. 1 \in DOMAIN s
        BY <2>5, <2>6, <3>3
      <4> QED BY <4>1, <4>2 DEF ToSet
    <3> QED BY <3>4, <3>5
  <2>7. IsNumber(s) <=> a <= b /\ \A p \in a..b : f[p] = "9"
    BY <2>4, <2>6 DEF IsNumber
  <2> QED BY <2>1, <2>3, <2>4, <2>7 DEF a, b, s
<1> HIDE DEF field
<1>5. Fields(rest) \in [1..n -> Seq(Symbols)]
  BY <1>3, <1>4
<1>6. Len(Fields(rest)) = n /\ Fields(rest) \in Seq(Seq(Symbols)) /\ DOMAIN Fields(rest) = 1..n
  <2>1. Fields(rest) \in Seq(Seq(Symbols))
    BY <1>2, <1>5, SeqDef
  <2> QED BY <1>2, <1>5, <2>1, LenProperties
<1>7. \A k \in 1..n : Fields(rest)[k] = field(k)
  BY <1>3
<1> QED BY <1>4, <1>6, <1>7 DEF S, n, field

(* A text is taken for a pose if and only if it has the documented form.  *)
LEMMA FormIsRead ==
  ASSUME NEW rest, NEW f, Splits(rest, f)
  PROVE  ExplicitPose(rest) # {} <=> InPoseForm(f)
<1> DEFINE S == FieldEnds(rest)
           n == Cardinality(S)
           L == Len(f)
           fields == Fields(rest)
<1>1. /\ L \in Nat /\ DOMAIN f = 1..L /\ \A p \in 1..L : f[p] \in Symbols
      /\ Colons(f) \subseteq 1..L /\ \A p \in 1..L : p \in Colons(f) <=> f[p] = ":"
  <2>1. f \in Seq(Symbols)
    BY DEF Splits
  <2>2. L \in Nat /\ DOMAIN f = 1..L /\ \A p \in 1..L : f[p] \in Symbols
    BY <2>1, ElementOfSeq, LenProperties
  <2> QED BY <2>2 DEF Colons
<1>2. /\ n \in Nat \ {0} /\ n = Cardinality(Colons(f)) + 1
      /\ Nth(S, 0) = 0 /\ Nth(S, n) = L + 1
      /\ \A k \in 1..n :
           /\ Nth(S, k - 1) \in 0..L /\ Nth(S, k) \in 1..(L + 1)
           /\ Nth(S, k - 1) < Nth(S, k)
           /\ \A p \in (Nth(S, k - 1) + 1)..(Nth(S, k) - 1) : p \in 1..L /\ f[p] # ":"
      /\ \A k \in 1..(n - 1) : Nth(S, k) \in Colons(f)
      /\ \A i \in Colons(f) : \E k \in 1..(n - 1) : Nth(S, k) = i
      /\ \A p \in DOMAIN f \ Colons(f) :
           \E k \in 1..n : p \in (Nth(S, k - 1) + 1)..(Nth(S, k) - 1)
  BY EndsInOrder
<1>3. /\ Len(fields) = n
      /\ \A k \in 1..n :
           /\ fields[k] # <<>> <=> Nth(S, k - 1) + 1 < Nth(S, k)
           /\ IsNumber(fields[k]) <=>
                /\ Nth(S, k - 1) + 1 < Nth(S, k)
                /\ \A p \in (Nth(S, k - 1) + 1)..(Nth(S, k) - 1) : f[p] = "9"
  BY FieldsBetween, SMTT(30)
<1>4. Numbers \in Nat \ {0} /\ Cardinality(Colons(f)) \in Int
  <2>1. IsFiniteSet(Colons(f))
    <3>1. IsFiniteSet(1..L) /\ Colons(f) \in SUBSET (1..L)
      BY <1>1, FS_Interval
    <3> QED BY <3>1, FS_Subset
  <2>2. Cardinality(Colons(f)) \in Nat
    BY <2>1, FS_CardinalityType
  <2> QED BY <2>2, BoundsAssumption
<1>5. ExplicitPose(rest) # {} <=>
        n = Numbers + 1 /\ fields[1] # <<>> /\ \A k \in 2..n : IsNumber(fields[k])
  BY <1>3 DEF ExplicitPose
<1>6. InPoseForm(f) <=>
        /\ Cardinality(Colons(f)) = Numbers
        /\ \A i \in Colons(f) : i - 1 \in DOMAIN f \ Colons(f) /\ i + 1 \in DOMAIN f \ Colons(f)
        /\ \A i \in DOMAIN f : f[i] = "n" => \A j \in Colons(f) : i < j
  BY DEF InPoseForm, Colons
<1> HIDE DEF S, n, L, fields
<1>7. ASSUME NEW k \in 1..n, k # 1
      PROVE  k \in 2..n /\ k - 1 \in 1..n /\ k - 1 \in 1..(n - 1) /\ Nth(S, k - 1) \in Colons(f)
  <2>1. k \in 2..n /\ k - 1 \in 1..n /\ k - 1 \in 1..(n - 1)
    BY <1>2, <1>7
  <2> QED BY <1>2, <2>1
<1>8. ASSUME n = Numbers + 1, fields[1] # <<>>, \A k \in 2..n : IsNumber(fields[k])
      PROVE  InPoseForm(f)
  <2>1. \A k \in 1..n : Nth(S, k - 1) + 1 < Nth(S, k)
    <3> SUFFICES ASSUME NEW k \in 1..n PROVE Nth(S, k - 1) + 1 < Nth(S, k)
      OBVIOUS
    <3>1. CASE k = 1
      BY <1>3, <1>8, <3>1
    <3>2. CASE k # 1
      BY <1>3, <1>7, <1>8, <3>2
    <3> QED BY <3>1, <3>2
  <2>2. ASSUME NEW i \in Colons(f)
        PROVE  i - 1 \in DOMAIN f \ Colons(f) /\ i + 1 \in DOMAIN f \ Colons(f)
    <3>1. PICK k \in 1..(n - 1) : Nth(S, k) = i
      BY <1>2
    <3>2. k \in 1..n /\ k + 1 \in 1..n /\ (k + 1) - 1 = k /\ i \in 1..L
      BY <1>1, <1>2
    <3>3. i - 1 \in (Nth(S, k - 1) + 1)..(Nth(S, k) - 1)
      <4>1. /\ Nth(S, k - 1) + 1 < Nth(S, k) /\ Nth(S, k - 1) \in 0..L
            /\ Nth(S, k) \in 1..(L + 1)
        BY <1>2, <2>1, <3>2
      <4> QED BY <1>1, <3>1, <4>1
    <3>4. i + 1 \in (Nth(S, (k + 1) - 1) + 1)..(Nth(S, k + 1) - 1)
      <4>1. Nth(S, (k + 1) - 1) + 1 < Nth(S, k + 1) /\ Nth(S, k + 1) \in 1..(L + 1)
        BY <1>2, <2>1, <3>2
      <4>2. Nth(S, (k + 1) - 1) = i
        BY <3>1, <3>2
      <4> QED BY <1>1, <3>2, <4>1, <4>2
    <3>5. i - 1 \in 1..L /\ f[i - 1] # ":" /\ i + 1 \in 1..L /\ f[i + 1] # ":"
      BY <1>2, <3>2, <3>3, <3>4
    <3> QED BY <1>1, <3>5
  <2>3. ASSUME NEW p \in DOMAIN f, f[p] = "n", NEW j \in Colons(f) PROVE p < j
    <3>1. p \in DOMAIN f \ Colons(f) /\ p \in Nat /\ j \in Nat
      BY <1>1, <2>3
    <3>2. PICK k \in 1..n : p \in (Nth(S, k - 1) + 1)..(Nth(S, k) - 1)
      BY <1>2, <3>1
    <3>3. CASE k = 1
      <4>1. PICK l \in 1..(n - 1) : Nth(S, l) = j
        BY <1>2
      <4>2. j \notin (Nth(S, k - 1) + 1)..(Nth(S, k) - 1)
        BY <1>1, <1>2
      <4>3. Nth(S, k - 1) = 0 /\ Nth(S, k) \in 1..(L + 1) /\ j \in 1..L
        BY <1>1, <1>2, <3>3
      <4> QED BY <1>1, <3>1, <3>2, <4>2, <4>3
    <3>4. CASE k # 1
      <4>1. IsNumber(fields[k])
        BY <1>7, <1>8, <3>4
      <4>2. f[p] = "9"
        BY <1>3, <3>2, <4>1
      <4> QED BY <2>3, <4>2
    <3> QED BY <3>3, <3>4
  <2>4. Cardinality(Colons(f)) = Numbers
    BY <1>2, <1>4, <1>8
  <2> QED BY <1>6, <2>2, <2>3, <2>4
<1>9. ASSUME InPoseForm(f)
      PROVE  n = Numbers + 1 /\ fields[1] # <<>> /\ \A k \in 2..n : IsNumber(fields[k])
  <2>1. /\ Cardinality(Colons(f)) = Numbers
        /\ \A i \in Colons(f) : i - 1 \in DOMAIN f \ Colons(f) /\ i + 1 \in DOMAIN f \ Colons(f)
        /\ \A i \in DOMAIN f : f[i] = "n" => \A j \in Colons(f) : i < j
    BY <1>6, <1>9
  <2>2. n = Numbers + 1 /\ 1 \in 1..n /\ 1 \in 1..(n - 1)
    BY <1>2, <1>4, <2>1
  <2>3. fields[1] # <<>>
    <3>1. Nth(S, 1) \in Colons(f)
      BY <1>2, <2>2
    <3>2. Nth(S, 1) - 1 \in 1..L /\ Nth(S, 1) \in 1..L
      BY <1>1, <2>1, <3>1
    <3>3. Nth(S, 1 - 1) = 0
      BY <1>2
    <3>4. Nth(S, 1 - 1) + 1 < Nth(S, 1)
      BY <1>1, <3>2, <3>3
    <3> QED BY <1>3, <2>2, <3>4
  <2>4. ASSUME NEW k \in 2..n PROVE IsNumber(fields[k])
    <3>1. k \in 1..n /\ k # 1
      BY <1>2
    <3> DEFINE i == Nth(S, k - 1)
    <3>2. /\ i \in Colons(f) /\ i \in 1..L /\ i + 1 \in 1..L /\ f[i + 1] # ":"
          /\ Nth(S, k) \in 1..(L + 1) /\ i < Nth(S, k)
      <4>1. i \in Colons(f)
        BY <1>7, <3>1
      <4>2. i \in 1..L /\ i + 1 \in DOMAIN f \ Colons(f)
        BY <1>1, <2>1, <4>1
      <4> QED BY <1>1, <1>2, <3>1, <4>1, <4>2
    <3>3. i + 1 < Nth(S, k)
      <4>1. Nth(S, k) = L + 1 \/ Nth(S, k) \in Colons(f)
        <5>1. k = n \/ k \in 1..(n - 1)
          BY <1>2, <3>1
        <5> QED BY <1>2, <5>1
      <4>2. Nth(S, k) # i + 1
        BY <1>1, <3>2, <4>1
      <4> HIDE DEF i
      <4> QED BY <1>1, <3>2, <4>2
    <3>4. ASSUME NEW p \in (i + 1)..(Nth(S, k) - 1) PROVE f[p] = "9"
      <4>1. p \in 1..L /\ f[p] # ":"
        BY <1>2, <3>1
      <4>2. ~(p < i)
        BY <1>1, <3>2
      <4>3. f[p] # "n"
        BY <1>1, <2>1, <3>2, <4>1, <4>2
      <4>4. f[p] \in Symbols
        BY <1>1, <4>1
      <4> QED BY <4>1, <4>3, <4>4 DEF Symbols
    <3> QED BY <1>3, <3>1, <3>3, <3>4
  <2> QED BY <2>2, <2>3, <2>4
<1> QED BY <1>5, <1>8, <1>9

(* What the fields are of is what the command made of them is written as.  *)
LEMMA FieldsAreWritten ==
  ASSUME NEW rest, NEW f, Splits(rest, f), NEW order \in ExplicitPose(rest)
  PROVE  Written(order) = f
<1> DEFINE S == FieldEnds(rest)
           n == Cardinality(S)
           L == Len(f)
           fields == Fields(rest)
           m == Len(order.pose)
           upTo(k) == SubSeq(rest, 1, Nth(S, k + 1) - 1)
           next(g) == [k \in 0..m |-> IF k = 0 THEN order.parameter
                                      ELSE g[k - 1] \o <<":">> \o order.pose[k]]
           whole == [k \in 0..m |-> upTo(k)]
           any == CHOOSE g : g = next(g)
<1>1. /\ rest \in Seq(Symbols) /\ f \in Seq(Symbols) /\ L \in Nat /\ Len(rest) \in Nat
      /\ L <= Len(rest) /\ \A p \in 1..L : rest[p] = f[p]
      /\ \A p \in Colons(f) : p \in 1..L /\ f[p] = ":"
  <2>1. \A p \in Colons(f) : p \in 1..L /\ f[p] = ":"
    BY DEF Colons, Splits
  <2> QED BY <2>1 DEF Splits
<1>2. /\ n \in Nat \ {0} /\ Nth(S, 0) = 0 /\ Nth(S, n) = L + 1
      /\ \A k \in 1..n :
           /\ Nth(S, k - 1) \in 0..L /\ Nth(S, k) \in 1..(L + 1) /\ Nth(S, k - 1) < Nth(S, k)
      /\ \A k \in 1..(n - 1) : Nth(S, k) \in Colons(f)
  BY EndsInOrder
<1>3. /\ Len(fields) = n /\ fields \in Seq(Seq(Symbols)) 
      /\ \A k \in 1..n : fields[k] = SubSeq(rest, Nth(S, k - 1) + 1, Nth(S, k) - 1)
  BY FieldsBetween
<1>4. order.parameter = fields[1] /\ order.pose = Tail(fields)
  BY DEF ExplicitPose, Order
<1> HIDE DEF S, n, L, fields
<1>5. m = n - 1 /\ m \in Nat /\ \A k \in 1..m : order.pose[k] = fields[k + 1]
  <2>1. Len(Tail(fields)) = n - 1 /\ \A k \in 1..(n - 1) : Tail(fields)[k] = fields[k + 1]
    BY <1>2, <1>3
  <2> QED BY <1>2, <1>4, <2>1
<1> HIDE DEF m
<1>6. ASSUME NEW k \in 1..m
      PROVE  upTo(k) = (upTo(k - 1) \o <<":">>) \o order.pose[k]
  <2> DEFINE a == Nth(S, k)
             b == Nth(S, k + 1)
  <2>1. /\ k \in 1..n /\ k + 1 \in 1..n /\ k \in 1..(n - 1) /\ (k - 1) + 1 = k
        /\ (k + 1) - 1 = k
    BY <1>2, <1>5
  <2>2. /\ a \in 1..L /\ rest[a] = ":" /\ b \in 1..(L + 1) /\ a < b
    BY <1>1, <1>2, <2>1
  <2>3. order.pose[k] = SubSeq(rest, a + 1, b - 1) /\ upTo(k) = SubSeq(rest, 1, b - 1)
        /\ upTo(k - 1) = SubSeq(rest, 1, a - 1)
    BY <1>3, <1>5, <2>1
  <2> HIDE DEF a, b, upTo
  <2>4. /\ 1 \in 1..(Len(rest) + 1) /\ a \in 1..Len(rest) /\ a \in 0..Len(rest)
        /\ b - 1 \in a..Len(rest) /\ a \in 1..a
    BY <1>1, <2>2
  <2>5. SubSeq(rest, 1, a) \o SubSeq(rest, a + 1, b - 1) = SubSeq(rest, 1, b - 1)
    <3>1. a \in (1 - 1)..Len(rest)
      BY <2>4
    <3> QED BY <1>1, <2>4, <3>1, ConcatAdjacentSubSeq
  <2>6. SubSeq(rest, 1, a) = SubSeq(rest, 1, a - 1) \o <<":">>
    <3>1. 1 \in 1..Len(rest) /\ a \in 1..Len(rest)
      BY <1>1, <2>2
    <3> QED BY <1>1, <2>2, <3>1, SubSeqRecursiveSecond
  <2> QED BY <2>3, <2>5, <2>6
<1>7. upTo(0) = order.parameter
  <2>1. 1 \in 1..n /\ 0 + 1 = 1 /\ Nth(S, 1 - 1) + 1 = 1
    BY <1>2
  <2>2. fields[1] = SubSeq(rest, Nth(S, 1 - 1) + 1, Nth(S, 1) - 1)
    BY <1>3, <2>1
  <2> QED BY <1>4, <2>1, <2>2
<1> HIDE DEF upTo
<1>8. whole = next(whole)
  <2>1. ASSUME NEW k \in 0..m, k # 0
        PROVE  whole[k] = whole[k - 1] \o <<":">> \o order.pose[k]
    <3>1. k \in 1..m /\ k - 1 \in 0..m
      BY <1>5, <2>1
    <3> QED BY <1>6, <3>1
  <2>2. 0 \in 0..m => whole[0] = order.parameter
    BY <1>7
  <2> QED BY <2>1, <2>2
<1>9. any = next(any)
  <2> HIDE DEF next, whole
  <2> QED BY <1>8
<1>10. any[0] = upTo(0) /\ \A k \in 1..m : any[k] = (any[k - 1] \o <<":">>) \o order.pose[k]
  <2>1. \A k \in 0..m : any[k] = next(any)[k]
    BY <1>9
  <2> HIDE DEF any
  <2>2. 0 \in 0..m /\ \A k \in 1..m : k \in 0..m /\ k # 0
    BY <1>5
  <2> QED BY <1>7, <2>1, <2>2
<1> HIDE DEF any
<1>11. any[m] = upTo(m)
  <2> DEFINE wrong == {k \in 1..m : any[k] # upTo(k)}
  <2>1. wrong = {}
    <3> SUFFICES ASSUME wrong # {} PROVE FALSE
      OBVIOUS
    <3>1. wrong \in SUBSET (1..m) /\ IsFiniteSet(1..m)
      BY <1>5, FS_Interval
    <3>2. wrong \in SUBSET (Nat \ {0}) /\ IsFiniteSet(wrong)
      BY <1>5, <3>1, FS_Subset
    <3> HIDE DEF wrong
    <3>3. PICK k \in wrong : \A j \in wrong : k <= j
      BY <3>2, Least
    <3>4. k \in 1..m /\ k - 1 \notin wrong /\ (k - 1 = 0 \/ k - 1 \in 1..m)
      BY <1>5, <3>1, <3>3
    <3>5. any[k - 1] = upTo(k - 1)
      BY <1>10, <3>4 DEF wrong
    <3> QED BY <1>6, <1>10, <3>3, <3>4, <3>5 DEF wrong
  <2>2. \A k \in 1..m : any[k] = upTo(k)
    BY <2>1
  <2>3. CASE m = 0
    BY <1>10, <2>3
  <2>4. CASE m # 0
    <3>1. m \in Nat
      BY <1>5
    <3>2. m \in 1..m
      BY <2>4, <3>1
    <3> QED BY <2>2, <3>2
  <2> QED BY <2>3, <2>4
<1>12. Written(order) = any[m]
  BY DEF Written, m, any
<1>13. upTo(m) = f
  <2>1. upTo(m) = SubSeq(rest, 1, L)
    BY <1>1, <1>2, <1>5 DEF upTo
  <2>2. \A p \in 1..L : rest[p] \in Symbols
    BY <1>1, ElementOfSeq
  <2>3. /\ SubSeq(rest, 1, L) \in Seq(Symbols) /\ Len(SubSeq(rest, 1, L)) = L
        /\ \A i \in 1..L : SubSeq(rest, 1, L)[i] = f[i]
    <3>1. Len(SubSeq(rest, 1, L)) = L /\ SubSeq(rest, 1, L) \in Seq(Symbols)
      BY <1>1, <2>2, SubSeqProperties
    <3>2. \A i \in 1..(L - 1 + 1) : SubSeq(rest, 1, L)[i] = rest[1 + i - 1]
      BY <1>1, <2>2, SubSeqProperties
    <3> QED BY <1>1, <3>1, <3>2
  <2>4. SubSeq(rest, 1, L) = f
    BY <1>1, <2>3, SeqEqual DEF L
  <2> QED BY <2>1, <2>4
<1> QED BY <1>11, <1>12, <1>13

(* The three shapes of what follows save_pose: - nothing, the fields as they are       *)
(* written, and the fields with a colon behind the last.                               *)
LEMMA Shapes ==
  ASSUME NEW rest \in Seq(Symbols), rest # <<>>
  PROVE  /\ ~EndsWithColon(rest) => Splits(rest, rest)
         /\ EndsWithColon(rest) =>
              /\ Splits(rest, Front(rest)) /\ rest = Front(rest) \o <<":">>
              /\ ~InPoseForm(rest)
<1> DEFINE L == Len(rest)
           f == Front(rest)
<1>1. L \in Nat \ {0} /\ DOMAIN rest = 1..L /\ \A p \in 1..L : rest[p] \in Symbols
  BY EmptySeq, LenProperties, ElementOfSeq
<1>2. \A i \in 1..L : i \in FieldEnds(rest) <=> rest[i] = ":"
  BY <1>1 DEF FieldEnds
<1>3. /\ FieldEnds(rest) \subseteq 1..(L + 1)
      /\ L + 1 \in FieldEnds(rest) <=> rest[L] # ":"
  <2>1. ~(L + 1 <= L) /\ L + 1 \in 1..(L + 1)
    BY <1>1
  <2> QED BY <1>1, <2>1 DEF FieldEnds, Last
<1>4. EndsWithColon(rest) <=> rest[L] = ":"
  BY DEF EndsWithColon, Last
<1> HIDE DEF L
<1>5. \A i \in 1..(L + 1) : i \in 1..L \/ i = L + 1
  BY <1>1
<1>6. ASSUME ~EndsWithColon(rest) PROVE Splits(rest, rest)
  <2>1. FieldEnds(rest) = Colons(rest) \cup {L + 1}
    <3>1. Colons(rest) = {i \in 1..L : rest[i] = ":"}
      BY <1>1 DEF Colons
    <3> QED BY <1>2, <1>3, <1>4, <1>5, <1>6, <3>1
  <2> QED BY <1>1, <2>1 DEF Splits, L
<1>7. ASSUME EndsWithColon(rest)
      PROVE  Splits(rest, f) /\ rest = f \o <<":">> /\ ~InPoseForm(rest)
  <2>1. rest[L] = ":" /\ L \in 1..L /\ L + 1 \notin 1..L
    BY <1>1, <1>4, <1>7
  <2>2. f = SubSeq(rest, 1, L - 1)
    BY DEF Front, L
  <2>3. /\ f \in Seq(Symbols) /\ Len(f) = L - 1
        /\ \A i \in 1..(L - 1) : f[i] = rest[i]
    <3>1. \A i \in 1..(L - 1) : rest[i] \in Symbols
      BY <1>1
    <3>2. f \in Seq(Symbols) /\ Len(f) = (IF 1 <= L - 1 THEN (L - 1) - 1 + 1 ELSE 0)
      BY <1>1, <2>2, <3>1, SubSeqProperties
    <3>3. \A i \in 1..((L - 1) - 1 + 1) : f[i] = rest[1 + i - 1]
      BY <1>1, <2>2, <3>1, SubSeqProperties
    <3>4. /\ (L - 1) - 1 + 1 = L - 1 /\ \A i \in 1..(L - 1) : 1 + i - 1 = i
          /\ (IF 1 <= L - 1 THEN (L - 1) - 1 + 1 ELSE 0) = L - 1
      BY <1>1
    <3> QED BY <3>2, <3>3, <3>4
  <2> HIDE DEF f
  <2>4. DOMAIN f = 1..(L - 1) /\ Len(f) + 1 = L
    BY <1>1, <2>3, LenProperties
  <2>5. FieldEnds(rest) = Colons(f) \cup {L}
    <3>1. Colons(f) \subseteq 1..(L - 1) /\ \A i \in 1..(L - 1) : i \in Colons(f) <=> rest[i] = ":"
      BY <2>3, <2>4 DEF Colons
    <3>2. \A i \in 1..L : i \in 1..(L - 1) \/ i = L
      BY <1>1
    <3>3. \A i \in 1..(L - 1) : i \in 1..L
      BY <1>1
    <3>4. FieldEnds(rest) \subseteq 1..L
      BY <1>3, <1>5, <2>1
    <3> QED BY <1>2, <2>1, <3>1, <3>2, <3>3, <3>4
  <2>6. Splits(rest, f)
    <3>1. Len(f) <= Len(rest) /\ \A i \in 1..Len(f) : rest[i] = f[i]
      BY <1>1, <2>3 DEF L
    <3> QED BY <2>3, <2>4, <2>5, <3>1 DEF Splits, L
  <2>7. rest = f \o <<":">>
    <3>1. <<":">> \in Seq(Symbols) /\ Len(<<":">>) = 1 /\ <<":">>[1] = ":"
      BY DEF Symbols
    <3>2. /\ f \o <<":">> \in Seq(Symbols) /\ Len(f \o <<":">>) = L
          /\ \A i \in 1..L : (f \o <<":">>)[i] = IF i <= L - 1 THEN f[i] ELSE <<":">>[i - (L - 1)]
      <4> DEFINE c == <<":">>
      <4> HIDE DEF c
      <4>1. c \in Seq(Symbols) /\ Len(c) = 1
        BY <3>1 DEF c
      <4>2. /\ f \o c \in Seq(Symbols) /\ Len(f \o c) = Len(f) + Len(c)
            /\ \A i \in 1..(Len(f) + Len(c)) : (f \o c)[i] = IF i <= Len(f) THEN f[i] ELSE c[i - Len(f)]
        BY <2>3, <4>1, ConcatProperties
      <4>3. Len(f) + Len(c) = L
        BY <2>4, <4>1
      <4> QED BY <2>3, <4>2, <4>3 DEF c
    <3>3. \A i \in 1..L : (f \o <<":">>)[i] = rest[i]
      <4> SUFFICES ASSUME NEW i \in 1..L PROVE (f \o <<":">>)[i] = rest[i]
        OBVIOUS
      <4>1. CASE i <= L - 1
        BY <1>1, <2>3, <3>2, <4>1
      <4>2. CASE i = L
        <5>1. ~(L <= L - 1) /\ L - (L - 1) = 1
          BY <1>1
        <5> QED BY <2>1, <3>1, <3>2, <4>2, <5>1
      <4>3. i <= L - 1 \/ i = L
        BY <1>1
      <4> QED BY <4>1, <4>2, <4>3
    <3> QED BY <3>2, <3>3, SeqEqual DEF L
  <2>8. ~InPoseForm(rest)
    BY <1>1, <2>1 DEF InPoseForm
  <2> QED BY <2>6, <2>7, <2>8
<1> QED BY <1>6, <1>7

(* The callback understands every text of the documented forms and, up to one          *)
(* colon at the end, nothing else, and what it makes of a text is what the text says.   *)
LEMMA EveryText ==
  ASSUME NEW text \in [keyword : Keywords, rest : Seq(Symbols)]
  PROVE  /\ Meaning(text) # {} <=> NearlyInForm(text)
         /\ \A order \in Meaning(text) : text.rest \in {Written(order), Written(order) \o <<":">>}
<1> DEFINE rest == text.rest
           keyword == text.keyword
<1>1. rest \in Seq(Symbols) /\ keyword \in Keywords
  OBVIOUS
<1>2. /\ "move_to_pose:" \notin DOMAIN PlainType /\ "save_pose:" \notin DOMAIN PlainType
      /\ DOMAIN PlainType \subseteq Keywords
  BY DEF PlainType, Keywords
<1>3. HasColon(rest) <=> ":" \in ToSet(rest)
  BY DEF HasColon, ToSet
<1>4. ~InPoseForm(<<>>) /\ ~HasColon(<<>>)
  <2>1. DOMAIN <<>> = {}
    OBVIOUS
  <2>2. {i \in DOMAIN <<>> : <<>>[i] = ":"} = {}
    BY <2>1
  <2> QED BY <2>1, <2>2, FS_EmptySet, BoundsAssumption DEF InPoseForm, HasColon
<1>5. \A type, parameter : Written(Order(type, parameter, NoPose)) = parameter
  <2> SUFFICES ASSUME NEW type, NEW parameter
               PROVE  Written(Order(type, parameter, NoPose)) = parameter
    OBVIOUS
  <2> DEFINE order == Order(type, parameter, NoPose)
             next(g) == [k \in 0..0 |-> IF k = 0 THEN parameter
                                        ELSE g[k - 1] \o <<":">> \o NoPose[k]]
             any == CHOOSE g : g = next(g)
  <2>1. order.parameter = parameter /\ order.pose = NoPose /\ Len(NoPose) = 0
    BY DEF Order, NoPose
  <2>2. Written(order) = any[0]
    BY <2>1 DEF Written
  <2>3. [k \in 0..0 |-> parameter] = next([k \in 0..0 |-> parameter])
    OBVIOUS
  <2> HIDE DEF next
  <2>4. any = next(any)
    BY <2>3
  <2> HIDE DEF any
  <2>5. any[0] = parameter
    BY <2>4 DEF next
  <2> QED BY <2>2, <2>5
<1>6. CASE keyword \in DOMAIN PlainType /\ rest = <<>>
  <2>1. Meaning(text) = {Order(PlainType[keyword], <<>>, NoPose)}
    BY <1>2, <1>6 DEF Meaning
  <2>2. NearlyInForm(text)
    BY <1>6 DEF NearlyInForm, InForm
  <2> QED BY <1>5, <1>6, <2>1, <2>2
<1>7. CASE keyword = "move_to_pose:" /\ rest # <<>>
  <2>1. Meaning(text) = {Order("MoveToNamedPose", rest, NoPose)}
    BY <1>2, <1>7 DEF Meaning
  <2>2. NearlyInForm(text)
    BY <1>7 DEF NearlyInForm, InForm
  <2> QED BY <1>5, <2>1, <2>2
<1>8. CASE keyword = "save_pose:" /\ HasColon(rest)
  <2>1. Meaning(text) = ExplicitPose(rest) /\ rest # <<>>
    BY <1>2, <1>4, <1>8 DEF Meaning
  <2>2. NearlyInForm(text) <=>
          InPoseForm(rest) \/ (EndsWithColon(rest) /\ InPoseForm(Front(rest)))
    BY <1>2, <1>3, <1>8 DEF NearlyInForm, InForm
  <2>3. CASE ~EndsWithColon(rest)
    <3>1. Splits(rest, rest)
      BY <1>1, <2>1, <2>3, Shapes
    <3>2. ExplicitPose(rest) # {} <=> InPoseForm(rest)
      BY <3>1, FormIsRead
    <3>3. \A order \in ExplicitPose(rest) : Written(order) = rest
      BY <3>1, FieldsAreWritten
    <3> QED BY <2>1, <2>2, <2>3, <3>2, <3>3
  <2>4. CASE EndsWithColon(rest)
    <3>1. Splits(rest, Front(rest)) /\ rest = Front(rest) \o <<":">> /\ ~InPoseForm(rest)
      BY <1>1, <2>1, <2>4, Shapes
    <3>2. ExplicitPose(rest) # {} <=> InPoseForm(Front(rest))
      BY <3>1, FormIsRead
    <3>3. \A order \in ExplicitPose(rest) : Written(order) = Front(rest)
      BY <3>1, FieldsAreWritten
    <3>4. \A order \in ExplicitPose(rest) : rest = Written(order) \o <<":">>
      BY <3>1, <3>3
    <3>5. Meaning(text) # {} <=> NearlyInForm(text)
      BY <2>1, <2>2, <2>4, <3>1, <3>2
    <3> QED BY <2>1, <3>4, <3>5
  <2> QED BY <2>3, <2>4
<1>9. CASE keyword = "save_pose:" /\ rest # <<>> /\ ~HasColon(rest)
  <2>1. Meaning(text) = {Order("SaveCurrentPose", rest, NoPose)}
    BY <1>2, <1>9 DEF Meaning
  <2>2. NearlyInForm(text)
    BY <1>3, <1>9 DEF NearlyInForm, InForm
  <2> QED BY <1>5, <2>1, <2>2
<1>10. CASE \/ keyword \in DOMAIN PlainType /\ rest # <<>>
            \/ keyword = "move_to_pose:" /\ rest = <<>>
            \/ keyword = "save_pose:" /\ rest = <<>>
            \/ keyword = "other"
  <2>1. "other" \notin DOMAIN PlainType
    BY DEF PlainType
  <2>2. Meaning(text) = {}
    BY <1>2, <1>4, <1>10, <2>1 DEF Meaning
  <2>3. ~NearlyInForm(text)
    BY <1>2, <1>4, <1>10, <2>1 DEF NearlyInForm, InForm, EndsWithColon
  <2> QED BY <2>2, <2>3
<1> QED BY <1>1, <1>6, <1>7, <1>8, <1>9, <1>10 DEF Keywords

(* The parser is right about every text, of any length, and for any number of     *)
(* numbers in a pose: what TLC asks of the texts of seven symbols.                 *)
THEOREM ReadsEveryText == Spec => []ReadsTheForms
<1>1. \A text \in AnyText : text \in [keyword : Keywords, rest : Seq(Symbols)]
  BY TextsAssumption
<1>2. ReadsTheForms
  BY <1>1, EveryText DEF ReadsTheForms
<1> QED BY <1>2, PTL
=============================================================================
