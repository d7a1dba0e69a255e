----------------------------- MODULE SwitchPath -----------------------------
(***************************************************************************)
(* The whole way of a read request through FBT_RDMA.p4: the parsers tell   *)
(* the first read of a lookup from the others by its remote key 0,         *)
(* Ingress0 turns the key it carries as address into the fat root's child, *)
(* the compare stages take it on, Egress0 puts in the pool's remote key    *)
(* and the address found.  The tables are those the control plane writes   *)
(* from the backend's print-out.                                           *)
(***************************************************************************)
EXTENDS SwitchTables, SwitchStage

CONSTANTS
  Trees,    \* print-outs: the root's keys and children, the nodes below
  Stag      \* remote key of the backend's pool

ASSUME PathAssumption ==
  /\ Max64 \in KeySpace
  /\ \A t \in Trees : /\ t.keys \in RootKeys /\ t.nodes \in Nodes
                      /\ t.children \in Seq({t.children[x] : x \in DOMAIN t.children})
                      /\ Len(t.children) = Len(t.keys) + 1

NoRead == [rkey |-> 0, va |-> 0]

VARIABLES
  addrs,   \* set_addr_table: the root's children in order
  packet   \* the read request: its remote key and address

pathVars == <<tableVars, stageVars, addrs, packet>>

\* The load of the control plane; no packet yet.
PathInit ==
  /\ \E t \in Trees : /\ TablesStart(t.keys)
                      /\ nodes = t.nodes /\ addrs = t.children
  /\ key = 0 /\ fbt_idx = <<0>> /\ group = 1 /\ step = "ready"
  /\ sub = [b \in 1..Group |-> NoPair]
  /\ sgn = [b \in 1..Group |-> NoPair]
  /\ comp = <<>>
  /\ packet = NoRead

WriteTables == TablesNext /\ UNCHANGED <<stageVars, addrs, packet>>

\* set_addr_table: a miss leaves fbt_idx as set_hdr_fbt_table made it.
SetAddr(n) == IF n + 1 \in DOMAIN addrs THEN addrs[n + 1] ELSE 0

\* The first read of a lookup: parse_fbt_0 and Ingress0 up to set_addr_table.
FirstRead(k) ==
  /\ Done /\ step = "ready"
  /\ packet' = [rkey |-> 0, va |-> k]
  /\ key' = k
  /\ fbt_idx' = <<SetAddr(Lookup(k))>>
  /\ step' = "thresh"
  /\ UNCHANGED <<tableVars, nodes, addrs, group, sub, sgn, comp>>

CompareStages == StageNext /\ UNCHANGED <<tableVars, addrs, packet>>

\* Egress0; the fbt header is dropped.
Depart ==
  /\ step = "done"
  /\ packet' = [rkey |-> Stag, va |-> Last(fbt_idx)]
  /\ step' = "sent"
  /\ UNCHANGED <<tableVars, nodes, key, fbt_idx, group, sub, sgn, comp, addrs>>

PathNext ==
  \/ WriteTables
  \/ \E k \in 0..Max64 : FirstRead(k)
  \/ CompareStages
  \/ Depart

PathSpec == PathInit /\ [][PathNext]_pathVars

-----------------------------------------------------------------------------
(* Properties.                                                             *)

(* Where lookup() of the backend's tree is after as many levels as the     *)
(* switch has tables for: past the keys below the searched one at the root *)
(* and at each node printed for the level.                                 *)
TreePath[l \in 0..Layers] ==
  IF l = 0 THEN addrs[Cardinality(RootKeysBelow(key)) + 1]
  ELSE LET here == {n \in nodes : n.layer = l /\ n.addr = TreePath[l - 1]}
       IN  IF here = {} THEN TreePath[l - 1]
           ELSE TreeChild(CHOOSE n \in here : TRUE)

(* The read request that leaves the switch is for the node the tree search *)
(* would have come to, with the pool's key: for every key but 0, and root  *)
(* keys whose prefixes do not overwrite each other's number.               *)
ReadsLeaveOnTheTreePath ==
  step = "sent" /\ ~clashed /\ key # 0 => packet = [rkey |-> Stag, va |-> TreePath[Layers]]
=============================================================================
