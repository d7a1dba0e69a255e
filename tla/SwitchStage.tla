---------------------------- MODULE SwitchStage -----------------------------
(***************************************************************************)
(* The tables of the printed nodes below the fat root, and the packet that *)
(* crosses them: config.py pads each node to Groups * Group entries, and   *)
(* FBT_RDMA.p4 compares the key with all of them, a group at a time, in    *)
(* two words and without a comparison of its own: by the sign of a         *)
(* difference, or by a sign bit where the two signs differ.                *)
(***************************************************************************)
EXTENDS Integers, FiniteSets, SequencesExt

CONSTANTS
  Word,     \* values of a word of a key; 2^32 in the code
  Groups,   \* groups of compare tables for a layer; 4 in the code
  Group,    \* tables in a group; 4 in the code
  Layers,   \* layers of tables; 3 in the code
  Nodes     \* sets of printed nodes the tables may be filled from

Capacity == Groups * Group
KeySpace == 0..(Word * Word - 1)
NoPair == [hi |-> 0, lo |-> 0]

ASSUME StageAssumption ==
  /\ Word \in Nat /\ Word >= 2 /\ Word % 2 = 0
  /\ Groups \in Nat /\ Groups >= 1 /\ Group \in Nat /\ Group >= 1
  /\ Layers \in Nat /\ Layers >= 1
  /\ \A N \in Nodes : \A n \in N :
       /\ n.layer \in 1..Layers
       /\ n.child \in Seq({n.child[x] : x \in DOMAIN n.child}) /\ Len(n.child) \in 1..Capacity
       /\ n.keys \in Seq(KeySpace) /\ Len(n.keys) < Capacity
       /\ Len(n.keys) \in {Len(n.child) - 1, Len(n.child)}
       /\ \A x, y \in DOMAIN n.keys : x < y => n.keys[x] <= n.keys[y]

VARIABLES
  nodes,    \* what node_info_greedy.txt holds
  key,      \* the key in the packet
  fbt_idx,  \* the address in the packet, before and after each layer
  group,    \* the group of compare tables the packet is at
  sub,      \* meta.sub_b and meta.sgn_b of the group, hi and lo word
  sgn,
  comp,     \* the comparison bits of the layer so far
  step      \* "thresh", "comp" or "result"

stageVars == <<nodes, key, fbt_idx, group, sub, sgn, comp, step>>

Hi(k) == k \div Word
Lo(k) == k % Word
Top(w) == w \div (Word \div 2)   \* bit 31

\* Faulty variant: a short list is filled up with zeros.
PadWithZero(s) == [m \in 1..Capacity |-> IF m <= Len(s) THEN s[m] ELSE 0]

\* readNode(): a short list is filled up with its last entry.
Pad(s) == [m \in 1..Capacity |-> IF m <= Len(s) THEN s[m] ELSE Last(s)]

\* set_table(): the thresholds of a node, "<0,0>" first.
Thresh(n) == Pad(<<0>> \o n.keys)

Layer == Len(fbt_idx)
InTable == {n \in nodes : n.layer = Layer /\ n.addr = Last(fbt_idx)}

StageInit ==
  /\ nodes \in Nodes
  /\ key \in KeySpace
  /\ fbt_idx \in {<<n.addr>> : n \in {m \in nodes : m.layer = 1}} \cup {<<0>>}
  /\ group = 1 /\ step = "thresh"
  /\ sub = [b \in 1..Group |-> NoPair]
  /\ sgn = [b \in 1..Group |-> NoPair]
  /\ comp = <<>>

(* set_thresh_table: the difference of threshold and key, word by word.    *)
(* A node without a table leaves the metadata as it is.                    *)
SetThresh ==
  /\ step = "thresh"
  /\ IF InTable = {} THEN UNCHANGED <<sub, sgn>>
     ELSE LET n == CHOOSE x \in InTable : TRUE
              t(b) == Thresh(n)[(group - 1) * Group + b]
          IN  /\ sub' = [b \in 1..Group |->
                   [hi |-> (Hi(t(b)) - Hi(key)) % Word,
                    lo |-> (Lo(t(b)) - Lo(key)) % Word]]
              /\ sgn' = [b \in 1..Group |->
                   [hi |-> (Top(Hi(t(b))) + Top(Hi(key))) % 2,
                    lo |-> (Top(Lo(t(b))) + Top(Lo(key))) % 2]]
  /\ step' = "comp"
  /\ UNCHANGED <<nodes, key, fbt_idx, group, comp>>

\* Faulty variant: the sign of the difference, whatever the signs of the two.
IsBelowBySub(b) ==
  IF sub[b].hi = 0 THEN Top(sub[b].lo) ELSE Top(sub[b].hi)

\* set_comp_table: 1 if the threshold is below the key.
IsBelow(b) ==
  IF sub[b].hi = 0
  THEN IF sgn[b].lo = 0 THEN Top(sub[b].lo) ELSE Top(Lo(key))
  ELSE IF sgn[b].hi = 0 THEN Top(sub[b].hi) ELSE Top(Hi(key))

SetComp ==
  /\ step = "comp"
  /\ comp' = comp \o [b \in 1..Group |-> IsBelow(b)]
  /\ IF group < Groups
     THEN group' = group + 1 /\ step' = "thresh"
     ELSE group' = 1 /\ step' = "result"
  /\ UNCHANGED <<nodes, key, fbt_idx, sub, sgn>>

(* set_result_table: a row for each number of ones, followed by zeros; no  *)
(* row for all zeros.  The new address selects the tables of the next      *)
(* layer.                                                                  *)
SetResult ==
  /\ step = "result"
  /\ LET hits == {m \in 1..Capacity : \A x \in 1..Capacity : comp[x] = 1 <=> x <= m}
     IN  fbt_idx' = Append(fbt_idx,
           IF InTable = {} \/ hits = {} THEN Last(fbt_idx)
           ELSE Pad((CHOOSE x \in InTable : TRUE).child)[CHOOSE m \in hits : TRUE])
  /\ comp' = <<>>
  /\ step' = IF Layer < Layers THEN "thresh" ELSE "done"
  /\ UNCHANGED <<nodes, key, group, sub, sgn>>

StageNext == SetThresh \/ SetComp \/ SetResult

StageSpec == StageInit /\ [][StageNext]_stageVars

-----------------------------------------------------------------------------
(* Properties.                                                             *)

(* Where a search of the tree goes from a node with these keys: past the   *)
(* keys below the searched one; the last child if there is no other.       *)
TreeChild(n) ==
  LET below == Cardinality({m \in DOMAIN n.keys : n.keys[m] < key})
  IN  n.child[IF below < Len(n.child) THEN below + 1 ELSE Len(n.child)]

(* Each layer takes the packet where the tree would, for all keys but 0,   *)
(* which matches no row; a node the switch has no table for keeps the      *)
(* packet's address as it is (set_table(), APPLY_TABLE, set_result_table). *)
LayersFollowTheTree ==
  \A l \in 1..(Layer - 1) :
    LET here == {n \in nodes : n.layer = l /\ n.addr = fbt_idx[l]}
    IN  fbt_idx[l + 1] = IF here = {} \/ key = 0 THEN fbt_idx[l]
                         ELSE TreeChild(CHOOSE n \in here : TRUE)

(* The bits of a loaded node are always ones followed by zeros, the only   *)
(* patterns the result table has rows for.                                 *)
BitsAreSorted ==
  InTable # {} /\ step # "thresh" =>
    \A x, y \in DOMAIN comp : x < y => comp[y] <= comp[x]
=============================================================================
