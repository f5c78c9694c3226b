----------------------------- MODULE RemoteCall -----------------------------
(***************************************************************************)
(* What IOpcUaProtocolClient promises of callMethod: the server executes    *)
(* the method once or not at all, a caller who is told that it went well is *)
(* told the truth, one who is told that it failed knows nothing, and every  *)
(* call comes back.  FrankaRobot's CallMethod is this in one step.          *)
(***************************************************************************)
VARIABLES phase,     \* "none", "calling" or "back"
          executed,  \* the server has executed the method of this call
          ok         \* what the caller is told

vars == <<phase, executed, ok>>

Init == phase = "none" /\ executed = FALSE /\ ok = FALSE

Begin == phase = "none" /\ phase' = "calling" /\ UNCHANGED <<executed, ok>>

Execute ==
  /\ phase = "calling" /\ ~executed
  /\ executed' = TRUE
  /\ UNCHANGED <<phase, ok>>

Return ==
  /\ phase = "calling" /\ phase' = "back"
  /\ ok' \in (IF executed THEN {TRUE, FALSE} ELSE {FALSE})
  /\ UNCHANGED executed

Forget == phase = "back" /\ phase' = "none" /\ executed' = FALSE /\ ok' = FALSE

Next == Begin \/ Execute \/ Return \/ Forget

Spec == Init /\ [][Next]_vars

FairSpec == Spec /\ (phase = "calling" ~> phase = "back")
=============================================================================
