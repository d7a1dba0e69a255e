------------------------------ MODULE FatBTree ------------------------------
(***************************************************************************)
(* The backend's B+ tree (RDMA/CPU/lib/b_plus_tree.h): insertion with      *)
(* recursive splitting, the copy that protects a node whose address is     *)
(* already in the switch, and the greedy selection of nodes to load.       *)
(*                                                                         *)
(* The backend is one thread: an insert or a load runs to its end before   *)
(* the next message is read.  The loops and the recursion of the code are  *)
(* unfolded into steps: a handler's way is several nodes long, and each    *)
(* node must be right when the next step starts from it.  A step is what   *)
(* that thread does to its own tree.  In which order the stores of a step  *)
(* reach a one-sided reader is the matter of RdmaRead, which takes them    *)
(* apart; no other thread of the backend looks at the nodes.               *)
(*                                                                         *)
(* Abstractions.  A key is a number; the payload stored with a key is      *)
(* named by that key; access counts are left out, so that where the code   *)
(* sorts by them any order is possible.  `cover' is a history variable: it *)
(* records which keys a node is responsible for and no action reads it.    *)
(***************************************************************************)
EXTENDS SortedArray, FiniteSets

CONSTANTS
  M,              \* capacity of a node; 16 in the code
  KeyMax,         \* the largest key
  Keys,           \* the keys the workload may insert
  MaxNodes,       \* nodes in the static pool (MAX_NODE_SIZE)
  RootLoadNum,    \* root_load_num: bound on the fan-out of the fat root
  RootLoadDepth,  \* root_load_depth: levels the fat root may swallow
  RegularLoadNum  \* regular_load_num: nodes printed for each other layer

ASSUME ConstantsAssumption ==
  /\ M \in Nat /\ M >= 2
  /\ KeyMax \in Nat \ {0}
  /\ Keys \subseteq 1..KeyMax
  /\ MaxNodes \in Nat /\ MaxNodes >= 1
  /\ RootLoadNum \in Nat
  /\ RootLoadDepth \in Nat /\ RootLoadDepth >= 1
  /\ RegularLoadNum \in Nat

VARIABLES
  pool,      \* the static array of nodes
  nb_node,   \* nodes taken from the pool so far
  depth,     \* the tree's member `depth'
  key_map,   \* keys handed to insert()
  pc,        \* where the backend thread is
  cur,       \* its current node
  in_key,    \* the key it is inserting
  node_map,  \* load2switch_greedy: frontier node -> exclusive lower bound
  node_pq,   \* load2switch_greedy: frontier nodes that may still be expanded
  cached,    \* load2switch_greedy: nodes of the layer about to be printed
  layer,     \* load2switch_greedy: number of that layer
  printed,   \* the node descriptions written to the switch's input file
  cover      \* history: the keys a node is responsible for, (lo, hi]

treeVars == <<pool, nb_node, depth, key_map, cover>>
loadVars == <<node_map, node_pq, cached, layer, printed>>
vars == <<treeVars, loadVars, pc, cur, in_key>>

Null == -1
Root == 0
Addr == 0..(MaxNodes - 1)
NoKey == 0

Node == [isLeaf : BOOLEAN, isValue : BOOLEAN, parent : Addr \cup {Null},
         key : Seq(Keys), child : Seq(Addr), val : Keys \cup {NoKey},
         isLoaded2Switch : BOOLEAN]

\* A pool slot as static initialisation leaves it.
FreshNode == [isLeaf |-> TRUE, isValue |-> FALSE, parent |-> Null,
              key |-> <<>>, child |-> <<>>, val |-> NoKey,
              isLoaded2Switch |-> FALSE]

KeyRange(lo, hi) == [lo |-> lo, hi |-> hi]
InRange(k, r) == r.lo < k /\ k <= r.hi

-----------------------------------------------------------------------------
\* The hop of every search: the child responsible for k.
ChildFor(n, k) == pool[n].child[LowerBound(pool[n].key, k)]

\* Faulty variant: the root counts as a level of its own.
NodeDepthFromOne(n) ==
  LET up[h \in 0..MaxNodes] ==
        [m \in Addr |-> IF h = 0 \/ pool[m].parent = Null THEN 1
                        ELSE 1 + up[h - 1][pool[m].parent]]
  IN  up[MaxNodes][n]

\* Node::depth(): the parent pointers between a node and the root.
NodeDepth(n) ==
  LET up[h \in 0..MaxNodes] ==
        [m \in Addr |-> IF h = 0 \/ pool[m].parent = Null THEN 0
                        ELSE 1 + up[h - 1][pool[m].parent]]
  IN  up[MaxNodes][n]

Half == M \div 2

-----------------------------------------------------------------------------
Init ==
  /\ pool = [n \in Addr |-> FreshNode]
  /\ nb_node = 1
  /\ depth = 1
  /\ key_map = {}
  /\ pc = "idle" /\ cur = Root /\ in_key = NoKey
  /\ node_map = <<>> /\ node_pq = {} /\ cached = {} /\ layer = 0
  /\ printed = {}
  /\ cover = [n \in Addr |-> KeyRange(0, KeyMax)]

(* insert(): count the key and start at the root.  The workload's key      *)
(* counter is atomic, so no key is handed out twice.                       *)
InsertBegin(k) ==
  /\ pc = "idle"
  /\ k \notin key_map
  /\ key_map' = key_map \cup {k}
  /\ in_key' = k
  /\ cur' = Root
  /\ pc' = "descend"
  /\ UNCHANGED <<pool, nb_node, depth, cover, loadVars>>

\* One turn of insert()'s `while (!cur->isLeaf)'.
Descend ==
  /\ pc = "descend"
  /\ ~pool[cur].isLeaf
  /\ cur' = ChildFor(cur, in_key)
  /\ UNCHANGED <<treeVars, loadVars, pc, in_key>>

(* The leaf is reached: take a value node from the pool and put the key    *)
(* and the value node at the same position.  Nothing here asks whether the *)
(* leaf is loaded to the switch.                                           *)
LeafInsert ==
  /\ pc = "descend"
  /\ pool[cur].isLeaf
  /\ nb_node < MaxNodes
  /\ LET p == LowerBound(pool[cur].key, in_key)
     IN  pool' = [pool EXCEPT
           ![nb_node] = [FreshNode EXCEPT !.isLeaf = FALSE, !.isValue = TRUE,
                                          !.parent = cur, !.val = in_key],
           ![cur].key = Insert(@, p, in_key),
           ![cur].child = Insert(@, p, nb_node)]
  /\ nb_node' = nb_node + 1
  /\ pc' = "overflow"
  /\ UNCHANGED <<depth, key_map, cover, loadVars, cur, in_key>>

\* Faulty variants: the capacity check of overflow() is off by one.
OverflowDoneLate ==
  /\ pc = "overflow"
  /\ Len(pool[cur].key) <= M
  /\ pc' = "idle"
  /\ UNCHANGED <<treeVars, loadVars, cur, in_key>>

OverflowDoneEarly ==
  /\ pc = "overflow"
  /\ Len(pool[cur].key) < M - 1
  /\ pc' = "idle"
  /\ UNCHANGED <<treeVars, loadVars, cur, in_key>>

\* overflow() finds the node small enough: the insert is complete.
OverflowDone ==
  /\ pc = "overflow"
  /\ Len(pool[cur].key) < M
  /\ pc' = "idle"
  /\ UNCHANGED <<treeVars, loadVars, cur, in_key>>

\* Faulty variant: a loaded node is split in place.
OnlyRootUnmodifiable(n) == n = Root

\* The addresses the code must not let go stale: the root, the loaded nodes.
Unmodifiable(n) == n = Root \/ pool[n].isLoaded2Switch

(* overflow() on an unmodifiable node: everything it holds moves to        *)
(* copy_node, which becomes its only child and is split in its place.      *)
OverflowCopy ==
  /\ pc = "overflow"
  /\ Len(pool[cur].key) >= M
  /\ Unmodifiable(cur)
  /\ nb_node < MaxNodes
  /\ depth' = IF cur = Root THEN depth + 1 ELSE depth
  /\ pool' = [n \in Addr |->
       CASE n = nb_node -> [pool[cur] EXCEPT !.parent = cur,
                                             !.isLoaded2Switch = FALSE]
         [] n = cur     -> [pool[cur] EXCEPT !.isLeaf = FALSE,
                                             !.key = <<>>, !.val = NoKey,
                                             !.child = <<nb_node>>]
         [] n \in ToSet(pool[cur].child) -> [pool[n] EXCEPT !.parent = nb_node]
         [] OTHER       -> pool[n]]
  /\ cover' = [cover EXCEPT ![nb_node] = cover[cur]]
  /\ nb_node' = nb_node + 1
  /\ cur' = nb_node
  /\ pc' = "split"
  /\ UNCHANGED <<key_map, loadVars, in_key>>

\* Faulty variant: no node is protected by a copy.
SplittingUnguarded ==
  \/ pc = "split"
  \/ pc = "overflow" /\ Len(pool[cur].key) >= M

\* Where overflow() goes on to split cur: after the copy, or at once.
Splitting ==
  \/ pc = "split"
  \/ pc = "overflow" /\ Len(pool[cur].key) >= M /\ ~Unmodifiable(cur)

\* Faulty variant: new_node goes in before cur.
LinkRightBefore(parent, rightKey, sep) ==
  LET p == LowerBound(parent.key, rightKey)
  IN  [parent EXCEPT !.key = Insert(@, p, sep),
                     !.child = Insert(@, p, nb_node)]

(* What both kinds of split do to the parent: sep and new_node go in       *)
(* beside cur, at the place lower_bound gives for a key of the right half. *)
LinkRight(parent, rightKey, sep) ==
  LET p == LowerBound(parent.key, rightKey)
  IN  [parent EXCEPT !.key = Insert(@, p, sep),
                     !.child = Insert(@, p + 1, nb_node)]

SplitCover(sep) ==
  cover' = [cover EXCEPT ![cur].hi = sep,
                         ![nb_node] = KeyRange(sep, cover[cur].hi)]

(* overflow() on a leaf: the upper half of the entries moves to new_node,  *)
(* the largest key that stays is the separator.  The value nodes keep the  *)
(* parent pointer they had.                                                *)
SplitLeaf ==
  /\ Splitting
  /\ pool[cur].isLeaf
  /\ nb_node < MaxNodes
  /\ LET c     == pool[cur]
         right == From(c.key, Half)
         sep   == c.key[Half]
     IN  /\ pool' = [pool EXCEPT
              ![cur].key = Keep(@, Half),
              ![cur].child = Keep(@, Half),
              ![nb_node] = [FreshNode EXCEPT
                 !.parent = c.parent,
                 !.key = right,
                 !.child = From(c.child, Half)],
              ![c.parent] = LinkRight(@, right[1], sep)]
         /\ SplitCover(sep)
         /\ cur' = c.parent
  /\ nb_node' = nb_node + 1
  /\ pc' = "overflow"
  /\ UNCHANGED <<depth, key_map, loadVars, in_key>>

(* overflow() on an inner node: the middle key moves up, the children to   *)
(* the right of it move to new_node and learn their new parent.            *)
SplitInner ==
  /\ Splitting
  /\ ~pool[cur].isLeaf
  /\ nb_node < MaxNodes
  /\ LET c     == pool[cur]
         sep   == c.key[Half + 1]
         moved == From(c.child, Half + 1)
         new   == [FreshNode EXCEPT
                     !.isLeaf = FALSE, !.parent = c.parent,
                     !.key = From(c.key, Half + 1),
                     !.child = moved]
     IN  /\ pool' = [n \in Addr |->
              CASE n = nb_node -> new
                [] n = cur -> [c EXCEPT !.key = Keep(@, Half),
                                        !.child = Keep(@, Half + 1)]
                [] n = c.parent -> LinkRight(pool[n], sep, sep)
                [] n \in ToSet(moved) -> [pool[n] EXCEPT !.parent = nb_node]
                [] OTHER -> pool[n]]
         /\ SplitCover(sep)
         /\ cur' = c.parent
  /\ nb_node' = nb_node + 1
  /\ pc' = "overflow"
  /\ UNCHANGED <<depth, key_map, loadVars, in_key>>

-----------------------------------------------------------------------------
(* load2switch_greedy().  A printed node is the list of its exclusive      *)
(* lower bounds, "<0,0>" first, zipped with its children: the switch takes *)
(* the child with the greatest bound below the key.                        *)
ChildBounds(n) ==
  [c \in ToSet(pool[n].child) |->
     LET i == CHOOSE j \in DOMAIN pool[n].child : pool[n].child[j] = c
     IN  IF i = 1 THEN 0 ELSE pool[n].key[i - 1]]

PrintedNode(l, n, b) == [layer |-> l, node |-> n, bounds |-> b]

\* print_info() marks the node and all the children it prints.
MarkLoaded(S) == [n \in Addr |-> [pool[n] EXCEPT !.isLoaded2Switch = @ \/ n \in S]]

\* The RegularLoadNum most accessed of S: access counts may order S any way.
IsHottest(T, S) ==
  /\ T \subseteq S
  /\ IF Cardinality(S) <= RegularLoadNum THEN T = S
     ELSE Cardinality(T) = RegularLoadNum

(* The backend loads once, between two messages.  With a smaller tree      *)
(* `depth - root_load_depth' wraps around or cached_nodes[1] is out of     *)
(* bounds: the code assumes a tree this deep.                              *)
LoadBegin ==
  /\ pc = "idle"
  /\ printed = {}
  /\ depth >= 2 /\ depth >= RootLoadDepth
  /\ node_map' = [n \in {Root} |-> 0]
  /\ node_pq' = {Root}
  /\ pc' = "expand"
  /\ UNCHANGED <<treeVars, cached, layer, printed, cur, in_key>>

MayExpand == Cardinality(DOMAIN node_map) + M <= RootLoadNum /\ node_pq # {}

\* Faulty variant: the expanded node stays in the queue.
ExpandWithoutPop(n) ==
  /\ pc = "expand"
  /\ MayExpand
  /\ n \in node_pq
  /\ LET kids == ToSet(pool[n].child)
         b    == ChildBounds(n)
     IN  /\ node_map' = [m \in (DOMAIN node_map \cup kids) \ {n} |->
                           IF m \notin kids THEN node_map[m] ELSE b[m]]
         /\ node_pq' = node_pq \cup {m \in kids : /\ ~pool[m].isLeaf
                                                  /\ NodeDepth(m) < RootLoadDepth}
  /\ UNCHANGED <<treeVars, cached, layer, printed, pc, cur, in_key>>

(* The most accessed node of the queue gives way to its children.  The     *)
(* first child inherits the bound of the node, the others get a key of it. *)
Expand(n) ==
  /\ pc = "expand"
  /\ MayExpand
  /\ n \in node_pq
  /\ LET kids == ToSet(pool[n].child)
         b    == ChildBounds(n)
     IN  /\ node_map' = [m \in (DOMAIN node_map \cup kids) \ {n} |->
                           IF m \notin kids THEN node_map[m]
                           ELSE IF m = pool[n].child[1] THEN node_map[n]
                           ELSE b[m]]
         /\ node_pq' = (node_pq \cup {m \in kids : /\ ~pool[m].isLeaf
                                                   /\ NodeDepth(m) < RootLoadDepth})
                       \ {n}
  /\ UNCHANGED <<treeVars, cached, layer, printed, pc, cur, in_key>>

\* The frontier is printed as the root; the hottest of it are layer 1.
PrintRoot ==
  /\ pc = "expand"
  /\ ~MayExpand
  /\ printed' = {PrintedNode(0, Root, node_map)}
  /\ pool' = MarkLoaded({Root} \cup DOMAIN node_map)
  /\ \E T \in SUBSET DOMAIN node_map :
       IsHottest(T, DOMAIN node_map) /\ cached' = T
  /\ layer' = 1
  /\ pc' = "print"
  /\ node_map' = <<>> /\ node_pq' = {}
  /\ UNCHANGED <<nb_node, depth, key_map, cover, cur, in_key>>

ChildrenOf(S) == UNION {ToSet(pool[n].child) : n \in S}

\* Faulty variant: the layers the fat root has swallowed are not counted.
PrintLayerTooDeep ==
  /\ pc = "print"
  /\ printed' = printed \cup {PrintedNode(layer, n, ChildBounds(n)) : n \in cached}
  /\ pool' = MarkLoaded(cached \cup ChildrenOf(cached))
  /\ IF layer < depth + 1
     THEN /\ cached' = ChildrenOf(cached) /\ layer' = layer + 1 /\ pc' = "print"
     ELSE /\ cached' = {} /\ layer' = 0 /\ pc' = "idle"
  /\ UNCHANGED <<nb_node, depth, key_map, cover, node_map, node_pq, cur, in_key>>

(* A layer is printed; the hottest children of its nodes are the next one, *)
(* down to the leaves.                                                     *)
PrintLayer ==
  /\ pc = "print"
  /\ printed' = printed \cup {PrintedNode(layer, n, ChildBounds(n)) : n \in cached}
  /\ pool' = MarkLoaded(cached \cup ChildrenOf(cached))
  /\ IF layer + 1 <= depth - RootLoadDepth
     THEN /\ \E T \in SUBSET ChildrenOf(cached) :
               IsHottest(T, ChildrenOf(cached)) /\ cached' = T
          /\ layer' = layer + 1
          /\ pc' = "print"
     ELSE /\ cached' = {} /\ layer' = 0 /\ pc' = "idle"
  /\ UNCHANGED <<nb_node, depth, key_map, cover, node_map, node_pq, cur, in_key>>

-----------------------------------------------------------------------------
InsertStep == \/ Descend \/ LeafInsert \/ OverflowDone \/ OverflowCopy
              \/ SplitLeaf \/ SplitInner
LoadStep == (\E n \in Addr : Expand(n)) \/ PrintRoot \/ PrintLayer

Next == \/ \E k \in Keys : InsertBegin(k)
        \/ InsertStep
        \/ LoadBegin
        \/ LoadStep

Spec == Init /\ [][Next]_vars

\* The backend thread runs on: once in a handler it takes the next step.
FairSpec == Spec /\ WF_vars(InsertStep) /\ WF_vars(LoadStep)

-----------------------------------------------------------------------------
(* Properties.                                                             *)

Allocated(n) == n < nb_node

\* Type correctness of the backend's state.
TypeOK ==
  /\ pool \in [Addr -> Node]
  /\ nb_node \in 1..MaxNodes
  /\ depth \in Nat \ {0}
  /\ key_map \subseteq Keys
  /\ pc \in {"idle", "descend", "overflow", "split", "expand", "print"}
  /\ cur \in Addr
  /\ in_key \in Keys \cup {NoKey}
  /\ DOMAIN node_map \subseteq Addr
  /\ \A n \in DOMAIN node_map : node_map[n] \in 0..KeyMax
  /\ node_pq \subseteq Addr
  /\ cached \subseteq Addr
  /\ layer \in Nat
  /\ \A r \in printed :
       /\ r.layer \in Nat /\ r.node \in Addr
       /\ DOMAIN r.bounds \subseteq Addr
       /\ \A c \in DOMAIN r.bounds : r.bounds[c] \in 0..KeyMax
  /\ cover \in [Addr -> [lo : 0..KeyMax, hi : 0..KeyMax]]

\* Keys whose value node is in a leaf.
Stored == IF pc = "descend" THEN key_map \ {in_key} ELSE key_map

(* What lookup() returns for k when it starts at n; NoKey where the code   *)
(* would follow a pointer past the end of an array.                        *)
Search(n, k) ==
  LET next(m) == LET i == LowerBound(pool[m].key, k)
                 IN  IF i \in DOMAIN pool[m].child THEN pool[m].child[i] ELSE Null
      find[h \in 0..MaxNodes] ==
        [m \in Addr \cup {Null} |->
           IF h = 0 \/ m = Null THEN NoKey
           ELSE IF pool[m].isValue THEN pool[m].val ELSE find[h - 1][next(m)]]
  IN  find[MaxNodes][n]

(* A lookup from the root finds every key inserted so far, at each step of *)
(* every insert and every split (lookup(), insert(), overflow()).          *)
EveryKeyFound == \A k \in Stored : Search(Root, k) = k

(* Before the switch is loaded every leaf is `depth' levels deep, the      *)
(* number load2switch_greedy() derives its layers from.                    *)
UniformDepth ==
  printed = {} =>
    \A n \in Addr : Allocated(n) /\ pool[n].isLeaf => NodeDepth(n) = depth - 1

(* A node has room for one more entry whenever overflow() is not about to  *)
(* split it; the one pointer child[] can hold beyond its M slots is there  *)
(* only then, and only in an inner node, where it lands on the unused val. *)
(* No split leaves a leaf less than half full.                             *)
NodeFill ==
  \A n \in Addr : Allocated(n) /\ ~pool[n].isValue =>
    LET nd == pool[n]
    IN  /\ Len(nd.key) <= M
        /\ Len(nd.key) = M => n = cur /\ pc \in {"overflow", "split"}
        /\ Len(nd.child) = IF nd.isLeaf THEN Len(nd.key) ELSE Len(nd.key) + 1
        /\ nd.isLeaf /\ n # Root => Len(nd.key) >= Half

(* What is printed can be put into the switch's tables: each node below    *)
(* the root has one to M children (readNode() repeats the last child, a    *)
(* value node would have none) and no two of them share a bound.           *)
PrintedFits ==
  \A r \in printed :
    /\ r.layer > 0 => Cardinality(DOMAIN r.bounds) \in 1..M
    /\ \A c, d \in DOMAIN r.bounds : c # d => r.bounds[c] # r.bounds[d]

(* "This operation ensures that the address of cur loaded to the switch is *)
(* still valid": whatever key a loaded node led to, it goes on leading to, *)
(* through every later insert and split (overflow()'s copy_node).          *)
LoadedAddressesStayGood ==
  [][\A n \in Addr : pool[n].isLoaded2Switch =>
       /\ pool'[n].isLoaded2Switch
       /\ \A k \in Stored : Search(n, k) = k => Search(n, k)' = k]_vars

(* A load that has started comes to an end: the greedy expansion runs out *)
(* of room or of nodes, and the layers run out (load2switch_greedy()).     *)
LoadTerminates == pc = "expand" ~> pc = "idle"
=============================================================================
