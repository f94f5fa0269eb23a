------------------------------ MODULE MCRBTree ------------------------------
(* Small instances of the tree: the keys are in the .cfg files.            *)
EXTENDS RBTree
=============================================================================
