---------------------------- MODULE FatBTreeInv -----------------------------
(***************************************************************************)
(* The inductive invariant of FatBTree.  A node is responsible for the     *)
(* keys of its cover; the parts below say, node by node, that the arrays   *)
(* of a node agree with the covers of its children, so that one hop of a   *)
(* search never leaves the nodes responsible for the key.                  *)
(***************************************************************************)
EXTENDS FatBTree

Nodes == 0..(nb_node - 1)
Leaf(n) == pool[n].isLeaf
Value(n) == pool[n].isValue
Inner(n) == ~pool[n].isLeaf /\ ~pool[n].isValue

\* The range the arrays of inner node n assign to its i-th child.
SlotLo(n, i) == IF i = 1 THEN cover[n].lo ELSE pool[n].key[i - 1]
SlotHi(n, i) == IF i = Len(pool[n].child) THEN cover[n].hi ELSE pool[n].key[i]

ValueShape ==
  \A n \in Nodes : Value(n) => ~Leaf(n) /\ pool[n].val \in Keys /\ pool[n].child = <<>>

LeafShape ==
  \A n \in Nodes : Leaf(n) =>
    /\ ~Value(n)
    /\ Len(pool[n].child) = Len(pool[n].key)
    /\ \A i \in 1..Len(pool[n].key) :
         /\ pool[n].child[i] \in Nodes
         /\ Value(pool[n].child[i])
         /\ pool[pool[n].child[i]].val = pool[n].key[i]

InnerShape ==
  \A n \in Nodes : Inner(n) =>
    /\ Len(pool[n].child) = Len(pool[n].key) + 1
    /\ \A i \in 1..Len(pool[n].child) :
         /\ pool[n].child[i] \in Nodes \ {Root}
         /\ ~Value(pool[n].child[i])
         /\ pool[pool[n].child[i]].parent = n
         /\ cover[pool[n].child[i]].lo = SlotLo(n, i)
         /\ cover[pool[n].child[i]].hi = SlotHi(n, i)

KeysShape ==
  \A n \in Nodes : ~Value(n) =>
    /\ StrictlySorted(pool[n].key)
    /\ cover[n].lo < cover[n].hi
    /\ \A i \in 1..Len(pool[n].key) :
         /\ cover[n].lo < pool[n].key[i]
         /\ pool[n].key[i] <= cover[n].hi
         /\ Inner(n) => pool[n].key[i] < cover[n].hi

ParentShape ==
  /\ ~Value(Root) /\ pool[Root].parent = Null
  /\ cover[Root] = KeyRange(0, KeyMax)
  /\ \A n \in Nodes \ {Root} : ~Value(n) =>
       /\ pool[n].parent \in Nodes
       /\ Inner(pool[n].parent)
       /\ \E i \in 1..Len(pool[pool[n].parent].child) :
            pool[pool[n].parent].child[i] = n

LeavesDisjoint ==
  \A m, n \in Nodes : Leaf(m) /\ Leaf(n) /\ m # n =>
    cover[m].hi <= cover[n].lo \/ cover[n].hi <= cover[m].lo

LeavesComplete ==
  \A n \in Nodes : Leaf(n) =>
    /\ \A k \in Stored : InRange(k, cover[n]) =>
         \E i \in 1..Len(pool[n].key) : pool[n].key[i] = k
    /\ \A i \in 1..Len(pool[n].key) : pool[n].key[i] \in Stored

Fill ==
  \A n \in Nodes : ~Value(n) =>
    /\ Len(pool[n].key) <= M
    /\ Len(pool[n].key) = M => n = cur /\ pc \in {"overflow", "split"}

Backend ==
  /\ cur \in Nodes /\ ~Value(cur)
  /\ pc = "descend" => in_key \in key_map /\ InRange(in_key, cover[cur])
  /\ pc = "split" => /\ cur # Root /\ ~pool[cur].isLoaded2Switch
                     /\ Len(pool[cur].key) = M

Load ==
  /\ DOMAIN node_map \subseteq Nodes
  /\ node_pq \subseteq DOMAIN node_map
  /\ cached \subseteq Nodes

Shape == /\ ValueShape /\ LeafShape /\ InnerShape
         /\ KeysShape /\ ParentShape /\ LeavesDisjoint

IInv == TypeOK /\ Shape /\ LeavesComplete /\ Fill /\ Backend /\ Load

-----------------------------------------------------------------------------
(* A hop of a search from a node responsible for an inserted key leads to  *)
(* a node responsible for it, or from the leaf to its value node: in every *)
(* state, from every node, also one whose address is in the switch.        *)
(* (lookup()'s loop, BPlusTreeDB::RDMARead()'s loop.)                      *)
Routing ==
  \A n \in Nodes, k \in Stored : ~Value(n) /\ InRange(k, cover[n]) =>
    LET i == LowerBound(pool[n].key, k)
    IN  /\ i \in 1..Len(pool[n].child)
        /\ LET c == pool[n].child[i]
           IN  IF Leaf(n) THEN Value(c) /\ pool[c].val = k
               ELSE ~Value(c) /\ InRange(k, cover[c])

(* The keys a loaded node is responsible for never change: what the switch *)
(* was told about its address stays true (overflow()'s copy_node).         *)
LoadedCoverFixed ==
  [][\A n \in Nodes : pool[n].isLoaded2Switch /\ ~Value(n) =>
       cover'[n] = cover[n] /\ pool'[n].isLoaded2Switch]_vars
=============================================================================
