---------------------------- MODULE MCBridgeNode ----------------------------
(***************************************************************************)
(* BridgeNode on small instances.                                          *)
(***************************************************************************)
EXTENDS BridgeNode

(* name:x:y needs five symbols; with two more there is room for another field. *)
Rests == UNION {[1..n -> Symbols] : n \in 0..7}

(* Every continuation of the two keywords that have one, the other keywords    *)
(* alone and with something behind them.                                        *)
AllTexts ==
  [keyword : {"move_to_pose:", "save_pose:"}, rest : Rests]
    \cup [keyword : Keywords, rest : {<<>>, <<"n">>}]

(* A stop, a move, a save and something else.  *)
FewTexts ==
  {[keyword |-> "stop", rest |-> <<>>], [keyword |-> "move_to_pose:", rest |-> <<"n">>],
   [keyword |-> "save_pose:", rest |-> <<"n">>], [keyword |-> "other", rest |-> <<>>]}
=============================================================================
