-------------------------- MODULE PriorityChannel --------------------------
(***************************************************************************)
(* What FrankaCommandManager promises, without its two queues, its mutex   *)
(* and its condition variable: one line of pending commands in the order   *)
(* in which they will be served, urgent ones before normal ones and first  *)
(* come first served among equals; a consumer that waits is served as soon *)
(* as there is something to serve, and leaves empty-handed when the        *)
(* channel is closed.                                                      *)
(***************************************************************************)
EXTENDS Naturals, Sequences

CONSTANTS Commands, Consumers, Capacity, NoCommand

VARIABLES pending,   \* the commands not taken yet, in service order
          nUrgent,   \* how many of them, at the front, are urgent
          closed,    \* the channel serves no waiting consumer any more
          blocked,   \* the consumers that wait
          received   \* what each consumer received last

vars == <<pending, nUrgent, closed, blocked, received>>

Init ==
  /\ pending = <<>>
  /\ nUrgent = 0
  /\ closed = FALSE
  /\ blocked = {}
  /\ received = [t \in Consumers |-> NoCommand]

(* A normal command goes to the end of the line.  *)
Put(c) ==
  /\ ~closed
  /\ Len(pending) - nUrgent < Capacity
  /\ pending' = Append(pending, c)
  /\ UNCHANGED <<nUrgent, closed, blocked, received>>

(* An urgent one overtakes every normal one and no urgent one.  *)
PutUrgent(c) ==
  /\ ~closed
  /\ nUrgent < Capacity
  /\ pending' = SubSeq(pending, 1, nUrgent) \o <<c>>
                  \o SubSeq(pending, nUrgent + 1, Len(pending))
  /\ nUrgent' = nUrgent + 1
  /\ UNCHANGED <<closed, blocked, received>>

Close ==
  /\ closed' = TRUE
  /\ UNCHANGED <<pending, nUrgent, blocked, received>>

TakeFirst(t) ==
  /\ pending # <<>>
  /\ received' = [received EXCEPT ![t] = Head(pending)]
  /\ pending' = Tail(pending)
  /\ nUrgent' = IF nUrgent = 0 THEN 0 ELSE nUrgent - 1
  /\ UNCHANGED closed

(* A consumer, one that waited or one that did not have to, is served.  *)
Take(t) ==
  /\ ~closed
  /\ TakeFirst(t)
  /\ blocked' = blocked \ {t}

(* A consumer that does not want to wait is served even after the closing. *)
TakeNow(t) ==
  /\ t \notin blocked
  /\ TakeFirst(t)
  /\ UNCHANGED blocked

(* A consumer leaves with nothing: the channel is closed, or it is empty    *)
(* and the consumer did not want to wait.                                   *)
LeaveEmptyHanded(t) ==
  /\ closed \/ (t \notin blocked /\ pending = <<>>)
  /\ received' = [received EXCEPT ![t] = NoCommand]
  /\ blocked' = blocked \ {t}
  /\ UNCHANGED <<pending, nUrgent, closed>>

(* Only an empty, open channel makes a consumer wait.  *)
Block(t) ==
  /\ ~closed
  /\ pending = <<>>
  /\ t \notin blocked
  /\ blocked' = blocked \cup {t}
  /\ UNCHANGED <<pending, nUrgent, closed, received>>

Next ==
  \/ \E c \in Commands : Put(c) \/ PutUrgent(c)
  \/ Close
  \/ \E t \in Consumers :
       Take(t) \/ TakeNow(t) \/ LeaveEmptyHanded(t) \/ Block(t)

Spec == Init /\ [][Next]_vars

(* Some waiting consumer is served while there is something to serve, and   *)
(* after the closing every one of them leaves.                              *)
FairSpec ==
  /\ Spec
  /\ WF_vars(\E t \in Consumers : t \in blocked /\ Take(t))
  /\ \A t \in Consumers : WF_vars(t \in blocked /\ LeaveEmptyHanded(t))
=============================================================================
