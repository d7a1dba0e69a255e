------------------------------ MODULE EthPath -------------------------------
(***************************************************************************)
(* The Ethernet variant: a frontend sends every call as a packet, the      *)
(* switch puts the address of a node into the queries, and the backend of  *)
(* the key's partition searches from there.  Its loader prints inner nodes *)
(* only: leaves are children in the tables and never have one of their own.*)
(* One backend and its partition are modelled; keys are those it holds.    *)
(***************************************************************************)
EXTENDS SwitchRoute

CONSTANTS
  Threads,  \* threads of the frontend
  Edge,     \* the key p * 2^62 that begins partition p, NoKey for p = 0
  Window    \* nodes in the 4 GiB that `bias & 0xFFFFFFFF' can address

ASSUME EthAssumption == Edge \in Nat /\ Window \in Nat \ {0}

VARIABLES
  issued,  \* keys the workload's counter has handed out
  acked,   \* ground_truth: keys whose Insert() has returned
  op       \* the call of each thread, and how far its packet has come

ethVars == <<vars, issued, acked, op>>

Idle == [kind |-> "none"]
Request(kind, k) ==
  [kind |-> kind, key |-> k, step |-> "sent", at |-> Root, found |-> NoKey,
   known |-> k \in acked]
At(t, step) == op[t].kind # "none" /\ op[t].step = step
Loading == pc \in {"expand", "print"}
Lost == \E t \in Threads : At(t, "lost")
\* The backend polls for the next packet; a search that is lost is its last.
Polling == pc = "idle" /\ ~Lost /\ \A t \in Threads : ~At(t, "inserting")

EthInit ==
  /\ Init
  /\ issued = {} /\ acked = {}
  /\ op = [t \in Threads |-> Idle]

-----------------------------------------------------------------------------
\* Insert() up to its packet: a key of the counter; no thread runs in a load.
StartInsert(t, k) ==
  /\ op[t] = Idle /\ ~Loading
  /\ k \notin issued
  /\ issued' = issued \cup {k}
  /\ op' = [op EXCEPT ![t] = Request("insert", k)]
  /\ UNCHANGED <<vars, acked>>

\* Read() and Update(), of a key handed out; inject_fbt_hdr() writes index 0.
StartQuery(t, k, kind) ==
  /\ op[t] = Idle /\ ~Loading
  /\ k \in issued
  /\ op' = [op EXCEPT ![t] = Request(kind, k)]
  /\ UNCHANGED <<vars, issued, acked>>

(* The address the switch writes.  The partitions' ranges are one list, in *)
(* which a range ends at its separator p * 2^62: the first key of a later  *)
(* partition gets a node of the partition before, whatever that has there. *)
Addresses(k) ==
  IF printed = {} THEN {Root}
  ELSE IF k = Edge THEN Addr
  ELSE {Route(k)}

\* The switch.  Only a read, 0x0527, is parsed as far as its index.
Forward(t) ==
  /\ At(t, "sent")
  /\ \E n \in IF op[t].kind = "read" THEN Addresses(op[t].key) ELSE {Root} :
       op' = [op EXCEPT ![t].at = n, ![t].step = "forwarded"]
  /\ UNCHANGED <<vars, issued, acked>>

\* handle_insert() begins; the steps of the tree's insert() follow.
TakeInsert(t) ==
  /\ At(t, "forwarded") /\ op[t].kind = "insert" /\ Polling
  /\ InsertBegin(op[t].key)
  /\ op' = [op EXCEPT ![t].step = "inserting"]
  /\ UNCHANGED <<issued, acked>>

\* ... and replies when it is through.
InsertHandled(t) ==
  /\ At(t, "inserting") /\ pc = "idle"
  /\ op' = [op EXCEPT ![t].step = "answered"]
  /\ UNCHANGED <<vars, issued, acked>>

(* What lookup() makes of a query that starts at n.  For a key above all   *)
(* those of a node it follows child[size], past the end of the array: what *)
(* lies there may be a pointer that was moved away, to a node of the tree  *)
(* and in the end to anyone's record, or one that crashes the backend or   *)
(* keeps it for ever.                                                      *)
Outcomes(n, k) ==
  IF Search(n, k) # NoKey THEN {<<"answered", Search(n, k)>>}
  ELSE {<<"lost", NoKey>>} \cup {<<"answered", r>> : r \in Keys \cup {NoKey}}

(* handle_query() and handle_update().  The mask of the partition and what *)
(* does not fit into 32 bits are cut off the address.  update() looks the  *)
(* value node up in the same way; update_field_table() then changes copies *)
(* of the fields and leaves the record as it is.                           *)
Handle(t) ==
  /\ At(t, "forwarded") /\ op[t].kind # "insert" /\ Polling
  /\ \E o \in Outcomes(op[t].at % Window, op[t].key) :
       op' = [op EXCEPT ![t].step = o[1], ![t].found = o[2]]
  /\ UNCHANGED <<vars, issued, acked>>

\* The reply is there: the call returns, and Insert() notes its key.
Return(t) ==
  /\ At(t, "answered")
  /\ acked' = IF op[t].kind = "insert" THEN acked \cup {op[t].key} ELSE acked
  /\ op' = [op EXCEPT ![t] = Idle]
  /\ UNCHANGED <<vars, issued>>

-----------------------------------------------------------------------------
\* main(): between two phases, with all threads joined.
Load2Switch ==
  /\ \A t \in Threads : op[t] = Idle
  /\ LoadBegin
  /\ UNCHANGED <<issued, acked, op>>

\* Faulty variant: the bound that is commented out: leaves get tables, too.
IsInnerToLeaves(l) == l + RootLoadDepth <= depth

\* The loops over layers stop at depth - 2, above the leaves.
IsInner(l) == l + RootLoadDepth <= depth - 1

\* A layer is printed, and the hottest children of its nodes are the next.
PrintInner ==
  /\ pc = "print" /\ IsInner(layer)
  /\ printed' = printed \cup {PrintedNode(layer, n, ChildBounds(n)) : n \in cached}
  /\ pool' = MarkLoaded(cached \cup ChildrenOf(cached))
  /\ \E T \in SUBSET ChildrenOf(cached) :
       IsHottest(T, ChildrenOf(cached)) /\ cached' = T
  /\ layer' = layer + 1
  /\ UNCHANGED <<nb_node, depth, key_map, cover, node_map, node_pq, pc, cur, in_key>>

\* The file is closed and 0x0601 sent; the operator fills the tables.
LoadEnds ==
  /\ pc = "print" /\ ~IsInner(layer)
  /\ cached' = {} /\ layer' = 0 /\ pc' = "idle"
  /\ UNCHANGED <<treeVars, node_map, node_pq, printed, cur, in_key>>

BackendStep ==
  /\ ~Lost
  /\ \/ InsertStep \/ (\E n \in Addr : Expand(n)) \/ PrintRoot
     \/ PrintInner \/ LoadEnds
  /\ UNCHANGED <<issued, acked, op>>

CallStep(t) == Forward(t) \/ InsertHandled(t) \/ Handle(t) \/ Return(t)

EthNext ==
  \/ \E t \in Threads, k \in Keys :
       StartInsert(t, k) \/ \E kind \in {"read", "update"} : StartQuery(t, k, kind)
  \/ \E t \in Threads : TakeInsert(t) \/ CallStep(t)
  \/ Load2Switch
  \/ BackendStep

EthSpec == EthInit /\ [][EthNext]_ethVars

-----------------------------------------------------------------------------
(* Properties.                                                             *)

(* "result != gt_result" (Frontend/db/b_plus_tree_db.cc:63): a read of a   *)
(* key whose Insert() had returned before gets that key's record, however  *)
(* many inserts and splits the backend makes while the packet is between   *)
(* the switch and lookup(); and so does the search of an update.           *)
EthReadsMatch ==
  \A t \in Threads :
    At(t, "answered") /\ op[t].kind # "insert" /\ op[t].known
      => op[t].found = op[t].key

(* What a table of the switch says of a node stays what the node is: a     *)
(* printed node gets no key and no child once its children are marked, for *)
(* overflow() splits a marked child below itself; and it is never a leaf   *)
(* (load2switch_greedy() of the Ethernet backend).                         *)
TablesMatchTheTree ==
  ~Loading =>
    \A r \in printed : r.layer > 0 =>
      ~pool[r.node].isLeaf /\ r.bounds = ChildBounds(r.node)

(* The layers that are printed end above the leaves, however deep the tree *)
(* is and however many of its levels the fat root has swallowed: a printed *)
(* node has nodes for children, not values (the bound `depth - 2' of the   *)
(* loops in load2switch_greedy() of the Ethernet backend).                 *)
PrintsInner ==
  pc = "print" /\ IsInner(layer) =>
    \A n \in cached : ~pool[n].isLeaf /\ ~pool[n].isValue

(* Only a query of a key that is not in the tree can lead lookup() past    *)
(* the end of child[] (lookup() of the Ethernet b_plus_tree.h) and take    *)
(* the backend with it.  One whose key is there when it is handled does    *)
(* not, not even if the insert was still under way when the switch chose   *)
(* the node to start from, and nodes have been split since.                *)
OnlyMissesAreLost ==
  \A t \in Threads : At(t, "lost") => op[t].key \notin Stored
=============================================================================
