------------------------- MODULE MCWorkerAndRobot -------------------------
(***************************************************************************)
(* WorkerAndRobot with one pose name besides the target, which an earlier    *)
(* move has left at another pose.                                            *)
(***************************************************************************)
EXTENDS WorkerAndRobot

CONSTANTS v1, v2

OldTarget == {[n \in Names |-> IF n = Target THEN v2 ELSE v1]}
=============================================================================
