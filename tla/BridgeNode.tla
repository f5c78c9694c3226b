----------------------------- MODULE BridgeNode -----------------------------
(***************************************************************************)
(* FrankaBridgeNode: reads text commands from a topic, one at a time, and   *)
(* hands them to the worker.  The node's thread is the only one that runs   *)
(* callbacks; while it is in one, texts go on arriving and the worker goes   *)
(* on executing, until the command is handed over.                           *)
(*                                                                         *)
(* The worker is seen through the channel its command manager implements    *)
(* (PriorityChannel; CommandManager is shown to refine it).  Between the    *)
(* constructor's start and the destructor's stop it is Ready, so a command  *)
(* is refused only when its queue is full (NodeAndWorker shows it).          *)
(*                                                                         *)
(* A text is the keyword it begins with and what follows it, a sequence of  *)
(* symbols: ":" , "9" for a character of a number, "n" for any other.  A    *)
(* field of nines is one that std::stod reads to its end and that is        *)
(* finite.                                                                  *)
(***************************************************************************)
EXTENDS Naturals, Sequences, FiniteSets, SequencesExt

CONSTANTS Texts,        \* the texts that may be published
          AnyText,      \* the texts a meaning is asked of, see ReadsTheForms
          Numbers,      \* how many numbers describe a pose, 7 in the code
          Depth,        \* depth of the subscription, 10 in the code
          Capacity,     \* of each queue of the worker, 5 in the code
          MaxMessages,  \* bound: how many texts are published
          NoCommand

Symbols == {":", "n", "9"}

(* The texts that are one word.  *)
PlainType == [open_brakes |-> "OpenBrakes", close_brakes |-> "CloseBrakes",
              activate_FCI |-> "ActivateFci", deactivate_FCI |-> "DeactivateFci",
              stop |-> "Stop"]
Keywords == DOMAIN PlainType \cup {"move_to_pose:", "save_pose:", "other"}

ASSUME TextsAssumption ==
  Texts \cup AnyText \subseteq [keyword : Keywords, rest : Seq(Symbols)]
ASSUME BoundsAssumption ==
  /\ Numbers \in Nat \ {0} /\ Depth \in Nat \ {0} /\ Capacity \in Nat \ {0}
  /\ MaxMessages \in Nat

VARIABLES
  node,             \* "starting", "spinning", "ended" or "failed"
  topic,            \* the subscription's messages, oldest first
  hand,             \* the command of the callback under way, else NoCommand
  next_command_id,
  messages,         \* bound's counter: how many texts were published
  owed,             \* history: a stop was read and none was executed since
  (* the worker, see PriorityChannel *)
  pending, nUrgent, closed, blocked, received

channelVars == <<pending, nUrgent, closed, blocked, received>>
vars == <<node, topic, hand, next_command_id, messages, owed, channelVars>>

Channel == INSTANCE PriorityChannel WITH Commands <- {}, Consumers <- {"worker"}

Init ==
  /\ node = "starting"
  /\ topic = <<>>
  /\ hand = NoCommand
  /\ next_command_id = 1
  /\ messages = 0
  /\ owed = FALSE
  /\ Channel!Init

-----------------------------------------------------------------------------
(* What a text means: a set of one command, or the empty set.  *)

NoPose == <<>>

Order(type, parameter, pose) == [type |-> type, parameter |-> parameter, pose |-> pose]

HasColon(rest) == \E i \in DOMAIN rest : rest[i] = ":"

(* std::getline with ':': a field ends at a colon or at the end, and there   *)
(* is none after a colon that is the last symbol.                             *)
FieldEnds(rest) ==
  {i \in 1..(Len(rest) + 1) :
     IF i <= Len(rest) THEN rest[i] = ":" ELSE rest # <<>> /\ Last(rest) # ":"}

(* The k-th position of a set of positions, 0 before the first.  *)
Rank(S, i) == Cardinality({j \in S : j <= i})
Nth(S, k) == IF k = 0 THEN 0 ELSE CHOOSE i \in S : Rank(S, i) = k

Fields(rest) ==
  LET ends == FieldEnds(rest)
  IN  [k \in 1..Cardinality(ends) |-> SubSeq(rest, Nth(ends, k - 1) + 1, Nth(ends, k) - 1)]

IsNumber(field) == field # <<>> /\ ToSet(field) = {"9"}

(* Mutant of ExplicitPose: fields after the last number are ignored.  *)
ExplicitPoseOrMore(rest) ==
  LET fields == Fields(rest)
  IN  IF /\ Len(fields) >= Numbers + 1
         /\ fields[1] # <<>>
         /\ \A k \in 2..(Numbers + 1) : IsNumber(fields[k])
      THEN {Order("SaveExplicitPose", fields[1], SubSeq(fields, 2, Numbers + 1))}
      ELSE {}

(* parseExplicitPoseCommand.  *)
ExplicitPose(rest) ==
  LET fields == Fields(rest)
  IN  IF /\ Len(fields) = Numbers + 1
         /\ fields[1] # <<>>
         /\ \A k \in 2..Len(fields) : IsNumber(fields[k])
      THEN {Order("SaveExplicitPose", fields[1], Tail(fields))}
      ELSE {}

Meaning(text) ==
  LET rest == text.rest
  IN  CASE text.keyword \in DOMAIN PlainType /\ rest = <<>> ->
             {Order(PlainType[text.keyword], <<>>, NoPose)}
        [] text.keyword = "move_to_pose:" /\ rest # <<>> ->
             {Order("MoveToNamedPose", rest, NoPose)}
        [] text.keyword = "save_pose:" /\ HasColon(rest) -> ExplicitPose(rest)
        [] text.keyword = "save_pose:" /\ rest # <<>> /\ ~HasColon(rest) ->
             {Order("SaveCurrentPose", rest, NoPose)}
        [] OTHER -> {}

(* The commands a node can make of texts.  *)
Orders == UNION {Meaning(text) : text \in Texts}
Command ==
  [id : 1..MaxMessages, type : {order.type : order \in Orders},
   parameter : {order.parameter : order \in Orders}, pose : {order.pose : order \in Orders}]

ASSUME NoCommandAssumption == NoCommand \notin Command

-----------------------------------------------------------------------------
(* The constructor: the worker first, then the subscription; it throws when   *)
(* the worker does not start.  What is published before is lost.               *)
Construct ==
  /\ node = "starting"
  /\ node' \in {"spinning", "failed"}
  /\ UNCHANGED <<topic, hand, next_command_id, messages, owed, channelVars>>

(* Mutant of Receive: the subscription keeps everything.  *)
ReceiveAll(text) == topic' = Append(topic, text)

(* A full subscription drops its oldest message.  *)
Receive(text) ==
  topic' = Append(IF Len(topic) = Depth THEN Tail(topic) ELSE topic, text)

(* Somebody publishes a text.  *)
Publish(text) ==
  /\ node = "spinning"
  /\ messages < MaxMessages /\ messages' = messages + 1
  /\ Receive(text)
  /\ UNCHANGED <<node, hand, next_command_id, owed, channelVars>>

(* Mutant of HandOn: the priority queue is not used.  *)
HandOnNormal(command) ==
  IF Len(pending) - nUrgent < Capacity
  THEN Channel!Put(command)
  ELSE UNCHANGED channelVars

(* Only a Stop goes to the priority queue.  A refusal is logged.  *)
HandOn(command) ==
  IF command.type = "Stop"
  THEN IF nUrgent < Capacity THEN Channel!PutUrgent(command) ELSE UNCHANGED channelVars
  ELSE IF Len(pending) - nUrgent < Capacity THEN Channel!Put(command)
       ELSE UNCHANGED channelVars

Numbered(order) ==
  [id |-> next_command_id, type |-> order.type, parameter |-> order.parameter, pose |-> order.pose]

(* The callback, up to its call to the worker.  The number is used up even if    *)
(* the worker refuses the command.                                               *)
CommandCallback ==
  /\ node = "spinning" /\ hand = NoCommand
  /\ topic # <<>> /\ topic' = Tail(topic)
  /\ \/ /\ Meaning(Head(topic)) = {}
        /\ UNCHANGED <<hand, next_command_id, owed>>
     \/ \E order \in Meaning(Head(topic)) :
          /\ hand' = Numbered(order)
          /\ next_command_id' = next_command_id + 1
          /\ owed' = (owed \/ order.type = "Stop")
  /\ UNCHANGED <<node, messages, channelVars>>

(* The rest of the callback.  *)
CallWorker ==
  /\ hand # NoCommand /\ hand' = NoCommand
  /\ HandOn(hand)
  /\ UNCHANGED <<node, topic, next_command_id, messages, owed>>

(* spin returns, which is not within a callback, and the destructor stops the   *)
(* worker.                                                                       *)
Destroy ==
  /\ node = "spinning" /\ node' = "ended"
  /\ hand = NoCommand
  /\ Channel!Close
  /\ UNCHANGED <<topic, hand, next_command_id, messages, owed>>

(* The worker executes one more command.  *)
WorkerTakes ==
  /\ node = "spinning"
  /\ Channel!Take("worker")
  /\ owed' = (owed /\ received'["worker"].type # "Stop")
  /\ UNCHANGED <<node, topic, hand, next_command_id, messages>>

(* It finds nothing to execute, or the end.  *)
WorkerWaits ==
  /\ Channel!Block("worker") \/ (closed /\ Channel!LeaveEmptyHanded("worker"))
  /\ UNCHANGED <<node, topic, hand, next_command_id, messages, owed>>

Next ==
  \/ Construct \/ CommandCallback \/ CallWorker \/ Destroy \/ WorkerTakes \/ WorkerWaits
  \/ \E text \in Texts : Publish(text)

Spec == Init /\ [][Next]_vars

(* The executor goes on calling back, callbacks return, and the worker goes on   *)
(* executing.                                                                    *)
FairSpec ==
  Spec /\ WF_vars(CommandCallback) /\ WF_vars(CallWorker) /\ WF_vars(WorkerTakes)
-----------------------------------------------------------------------------
(* Every variable holds a value of its type, and no queue is over its limit.  *)
TypeOK ==
  /\ node \in {"starting", "spinning", "ended", "failed"}
  /\ topic \in Seq(Texts) /\ Len(topic) <= Depth
  /\ next_command_id \in 1..(MaxMessages + 1)
  /\ messages \in 0..MaxMessages
  /\ owed \in BOOLEAN
  /\ nUrgent \in 0..Capacity /\ Len(pending) - nUrgent \in 0..Capacity
  /\ hand \in Command \cup {NoCommand}
  /\ pending \in Seq(Command)
  /\ \A i \in DOMAIN pending : pending[i].id < next_command_id

(* The documented form of save_pose with a pose, without parsing it: a name    *)
(* and Numbers numbers, separated by single colons.                             *)
InPoseForm(rest) ==
  LET colons == {i \in DOMAIN rest : rest[i] = ":"}
  IN  /\ Cardinality(colons) = Numbers
      /\ \A i \in colons : i - 1 \in DOMAIN rest \ colons /\ i + 1 \in DOMAIN rest \ colons
      /\ \A i \in DOMAIN rest : rest[i] = "n" => \A j \in colons : i < j

EndsWithColon(rest) == rest # <<>> /\ Last(rest) = ":"

InForm(text) ==
  LET rest == text.rest
  IN  \/ text.keyword \in DOMAIN PlainType /\ rest = <<>>
      \/ text.keyword = "move_to_pose:" /\ rest # <<>>
      \/ text.keyword = "save_pose:" /\ rest # <<>> /\ ":" \notin ToSet(rest)
      \/ text.keyword = "save_pose:" /\ InPoseForm(rest)

(* The same up to a colon too many at the end.  *)
NearlyInForm(text) ==
  \/ InForm(text)
  \/ /\ text.keyword = "save_pose:" /\ EndsWithColon(text.rest)
     /\ InPoseForm(Front(text.rest))

(* The text a command would be written as.  *)
Written(command) ==
  LET upTo[k \in 0..Len(command.pose)] ==
        IF k = 0 THEN command.parameter ELSE upTo[k - 1] \o <<":">> \o command.pose[k]
  IN  upTo[Len(command.pose)]

(* The callback understands every text of the documented forms, takes nothing   *)
(* else for a command - but for one colon after the last number, which getline   *)
(* does not see - and what it hands to the worker is what the text said: no       *)
(* field is lost, added or shifted. Meanings do not change, so it is enough to     *)
(* ask before the first text comes.                                                *)
ReadsTheForms ==
  node = "starting" =>
    \A text \in AnyText :
      /\ Meaning(text) # {} <=> NearlyInForm(text)
      /\ \A order \in Meaning(text) :
           text.rest \in {Written(order), Written(order) \o <<":">>}

(* A stop that the node reads makes the robot stop although the worker may       *)
(* refuse the command: then others are pending, and no other command can take    *)
(* their places.                                                                  *)
StopIsHeard == owed ~> (~owed \/ closed)

(* Commands other than Stop are executed in the order in which they were          *)
(* published, and none while a Stop waits.                                         *)
ExecutedInOrder ==
  [][received' # received =>
       LET taken == received'["worker"]
       IN  taken # NoCommand /\ taken.type # "Stop" =>
             \A i \in DOMAIN pending : pending[i].type # "Stop" /\ pending[i].id >= taken.id]_vars

=============================================================================
