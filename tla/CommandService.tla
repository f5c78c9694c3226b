-------------------------- MODULE CommandService --------------------------
(***************************************************************************)
(* What the OpcuaWorker promises to those who start it, submit commands and *)
(* stop it, without its thread, its locks and its notifications: a service   *)
(* that holds the robot from its opening to its end, accepts commands only    *)
(* while it will still look at the line, executes one at a time in the line's *)
(* order, answers each before it takes the next, and gives the robot back      *)
(* with nothing in hand.  Once the line is closed for good its phase promises   *)
(* nothing: a stop that is ending and a new start both write it.               *)
(***************************************************************************)
EXTENDS Naturals, Sequences

CONSTANTS Commands, Capacity, NoCommand

VARIABLES phase,    \* what status() answers
          robot,    \* the robot is held
          pending, nUrgent, closed, blocked, received,   \* see PriorityChannel
          busy,     \* the command received last is not answered yet
          answers   \* the numbers of the commands answered, in order

channelVars == <<pending, nUrgent, closed, blocked, received>>
vars == <<phase, robot, channelVars, busy, answers>>

Line == INSTANCE PriorityChannel WITH Consumers <- {"worker"}

Init ==
  /\ Line!Init
  /\ phase = "Disconnected" /\ robot = FALSE
  /\ busy = FALSE /\ answers = <<>>

(* A change of phase: its order counts until the line is closed.  *)
Comes(from, to) == (closed \/ phase \in from) /\ phase' = to

Open ==
  /\ Comes({"Disconnected"}, "Connecting") /\ ~robot
  /\ UNCHANGED <<robot, channelVars, busy, answers>>

Hold ==
  /\ closed \/ phase \in {"Connecting", "Stopping"}
  /\ ~robot
  /\ robot' = TRUE
  /\ UNCHANGED <<phase, channelVars, busy, answers>>

Serve ==
  /\ Comes({"Connecting"}, "Ready") /\ robot
  /\ UNCHANGED <<robot, channelVars, busy, answers>>

Fail ==
  /\ Comes({"Connecting"}, "Error") /\ ~robot
  /\ UNCHANGED <<robot, channelVars, busy, answers>>

(* Somebody wants it to end: first its phase says so, then the line closes.  *)
Close ==
  /\ Comes({"Disconnected", "Connecting", "Ready", "Error"}, "Stopping")
  /\ UNCHANGED <<robot, channelVars, busy, answers>>

Shut ==
  /\ closed \/ phase \in {"Stopping", "Disconnected"}
  /\ Line!Close
  /\ UNCHANGED <<phase, robot, busy, answers>>

Accept(c) ==
  /\ phase \in {"Ready", "Stopping"} /\ robot
  /\ Line!Put(c) \/ Line!PutUrgent(c)
  /\ UNCHANGED <<phase, robot, busy, answers>>

Wait ==
  /\ robot /\ ~busy
  /\ Line!Block("worker") \/ Line!LeaveEmptyHanded("worker")
  /\ UNCHANGED <<phase, robot, busy, answers>>

Take ==
  /\ robot /\ ~busy
  /\ Line!Take("worker")
  /\ busy' = TRUE
  /\ UNCHANGED <<phase, robot, answers>>

Answer ==
  /\ robot /\ busy
  /\ answers' = Append(answers, received["worker"].id)
  /\ busy' = FALSE
  /\ UNCHANGED <<phase, robot, channelVars>>

Release ==
  /\ robot /\ ~busy /\ (closed \/ phase = "Stopping")
  /\ robot' = FALSE
  /\ UNCHANGED <<phase, channelVars, busy, answers>>

Off ==
  /\ Comes({"Stopping"}, "Disconnected") /\ (closed \/ ~robot)
  /\ UNCHANGED <<robot, channelVars, busy, answers>>

Next ==
  \/ Open \/ Hold \/ Serve \/ Fail \/ Close \/ Shut
  \/ \E c \in Commands : Accept(c)
  \/ Wait \/ Take \/ Answer \/ Release \/ Off

Spec == Init /\ [][Next]_vars
=============================================================================
