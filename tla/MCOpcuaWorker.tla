--------------------------- MODULE MCOpcuaWorker ---------------------------
(***************************************************************************)
(* OpcuaWorker on small instances: the bridge node's (one thread does      *)
(* everything), several submitters, a stop that races a start.             *)
(***************************************************************************)
EXTENDS OpcuaWorker, TLC

(* Submitters are interchangeable; only where they have no other role and   *)
(* only for safety.                                                         *)
SubmitterSymmetry == Permutations(Submitters)
=============================================================================
