--------------------------- MODULE RobotContract ---------------------------
(***************************************************************************)
(* What OpcuaWorker relies on when it calls an IFranka: every call comes    *)
(* back with true or false, and moveToNamedPose asks should_abort again and *)
(* again while it goes on, never looks at the robot twice without asking,   *)
(* and comes back with false as soon as the answer is yes.  OpcuaWorker's   *)
(* actions RunCall, RunPollAbort, RunPollStatus and RunMoveFails are the    *)
(* steps of this contract.                                                  *)
(***************************************************************************)

VARIABLES phase,   \* "none", "call", "poll", "read" or "back"
          abort,   \* what should_abort would answer
          answer   \* what the last call returned

vars == <<phase, abort, answer>>

Init == phase = "none" /\ abort = FALSE /\ answer = FALSE

Comes(from, to) == phase = from /\ phase' = to

Call == Comes("none", "call") /\ UNCHANGED <<abort, answer>>

Move == Comes("none", "poll") /\ UNCHANGED <<abort, answer>>

Answer == Comes("call", "back") /\ answer' \in BOOLEAN /\ UNCHANGED abort

Ask ==
  /\ phase = "poll"
  /\ IF abort THEN phase' = "back" /\ answer' = FALSE
              ELSE phase' = "read" /\ UNCHANGED answer
  /\ UNCHANGED abort

Look ==
  /\ \/ Comes("read", "back") /\ answer' \in BOOLEAN
     \/ Comes("read", "poll") /\ UNCHANGED answer
  /\ UNCHANGED abort

GiveUp == Comes("poll", "back") /\ answer' = FALSE /\ UNCHANGED abort

Return == Comes("back", "none") /\ UNCHANGED <<abort, answer>>

(* The caller's flag goes up and down as it likes.  *)
Toggle == abort' = ~abort /\ UNCHANGED <<phase, answer>>

Next == Call \/ Move \/ Answer \/ Ask \/ Look \/ GiveUp \/ Return \/ Toggle

Safe == Init /\ [][Next]_vars

(* Every call comes back.  *)
Spec == Safe /\ (phase # "none" ~> phase = "none")
=============================================================================
