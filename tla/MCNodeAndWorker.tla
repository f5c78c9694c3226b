--------------------------- MODULE MCNodeAndWorker ---------------------------
(***************************************************************************)
(* NodeAndWorker with a text of every kind the node tells apart.             *)
(***************************************************************************)
EXTENDS NodeAndWorker

(* A stop, a move, a command of another type and something that is none.  *)
FewTexts ==
  {[keyword |-> "stop", rest |-> <<>>], [keyword |-> "move_to_pose:", rest |-> <<"n">>],
   [keyword |-> "open_brakes", rest |-> <<>>], [keyword |-> "other", rest |-> <<>>]}
=============================================================================
