--------------------------- MODULE FatBTreeIndex ----------------------------
(***************************************************************************)
(* The B+ tree implements the index: what a lookup from the root finds is  *)
(* the abstract state.  No step of a split or of a load may show.          *)
(***************************************************************************)
EXTENDS FatBTreeInv

Inserting == IF pc \in {"descend", "overflow", "split"} THEN in_key ELSE NoKey

Index == INSTANCE KVIndex WITH
  visible   <- {k \in Keys : Search(Root, k) = k},
  inserting <- Inserting

(* insert() is atomic to lookup(): each key appears once, during its own   *)
(* insert, no split or copy hides a key already there, and every call      *)
(* returns with its key in place (insert(), overflow(), lookup()).         *)
ImplementsIndex == Index!Spec
=============================================================================
