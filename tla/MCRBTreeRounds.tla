--------------------------- MODULE MCRBTreeRounds ---------------------------
(* Small instances of the tree and its rounds: the keys are in RBTree.cfg. *)
EXTENDS RBTreeRounds
=============================================================================
