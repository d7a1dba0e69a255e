---------------------------- MODULE SortedArray -----------------------------
(***************************************************************************)
(* The arrays a node is made of (RDMA/CPU/lib/fixed_size_container.h) and  *)
(* the search in them.  An array is the sequence of the entries below its  *)
(* _size; positions count from 1 where the code counts from 0.             *)
(***************************************************************************)
EXTENDS Integers, SequencesExt

(* std::lower_bound: the first position whose entry is not below k, one    *)
(* past the end if there is none.                                          *)
LowerBound(s, k) ==
  CHOOSE i \in 1..(Len(s) + 1) :
    /\ \A j \in 1..(i - 1) : s[j] < k
    /\ i <= Len(s) => s[i] >= k

\* insert(begin() + p - 1, e): the entries from p on move up by one.
Insert(s, p, e) == InsertAt(s, p, e)

\* The entries left by erase(begin() + n, end()).
Keep(s, n) == SubSeq(s, 1, n)

\* The entries from begin() + n on, as insert(begin(), first, last) takes them.
From(s, n) == SubSeq(s, n + 1, Len(s))

StrictlySorted(s) == \A i, j \in DOMAIN s : i < j => s[i] < s[j]
=============================================================================
