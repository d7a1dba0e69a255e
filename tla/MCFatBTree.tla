----------------------------- MODULE MCFatBTree -----------------------------
(* Instances of FatBTree small enough for TLC.                             *)
EXTENDS FatBTreeIndex
=============================================================================
