---------------------------- MODULE EthPathProofs ----------------------------
(***************************************************************************)
(* The Ethernet variant: its loader and its calls keep the tree's          *)
(* invariant, so that a search from any address the switch has written     *)
(* stays on its way, and no table of the switch ever grows stale.          *)
(***************************************************************************)
EXTENDS EthPath, FatBTreePathProofs

\* The calls on their way ask for keys of the workload.
KeysAsked ==
  /\ op = [t \in Threads |-> op[t]]
  /\ \A t \in Threads :
       /\ "kind" \in DOMAIN op[t]
       /\ op[t].kind # "none" => "key" \in DOMAIN op[t] /\ op[t].key \in Keys

\* No call is on its way in the beginning.
LEMMA KeysAskedInit == EthInit => KeysAsked
  BY DEF EthInit, KeysAsked, Idle

\* A call keeps its key, and new ones come from the workload.
LEMMA KeysAskedStep == KeysAsked /\ [EthNext]_ethVars => KeysAsked'
<1> SUFFICES ASSUME KeysAsked, [EthNext]_ethVars PROVE KeysAsked'
  OBVIOUS
<1>1. CASE op' = op
  BY <1>1 DEF KeysAsked
<1>2. ASSUME NEW t \in Threads, NEW k \in Keys, NEW kind,
             op' = [op EXCEPT ![t] = Request(kind, k)]
      PROVE  KeysAsked'
  BY <1>2 DEF Request, KeysAsked
<1>3. ASSUME NEW t \in Threads, op' = [op EXCEPT ![t] = Idle]
      PROVE  KeysAsked'
  BY <1>3 DEF Idle, KeysAsked
<1>4. ASSUME NEW t \in Threads, op[t].kind # "none",
             op' = [u \in Threads |-> op'[u]],
             \A u \in Threads \ {t} : op'[u] = op[u],
             DOMAIN op'[t] = DOMAIN op[t], op'[t].kind = op[t].kind, op'[t].key = op[t].key
      PROVE  KeysAsked'
  BY <1>4 DEF KeysAsked
<1>5. ASSUME NEW t \in Threads, CallStep(t) \/ TakeInsert(t) PROVE KeysAsked'
  <2>1. CASE Forward(t)
    <3>1. PICK n : op' = [op EXCEPT ![t].at = n, ![t].step = "forwarded"]
      BY <2>1 DEF Forward
    <3>2. op[t].kind # "none" /\ "kind" \in DOMAIN op[t] /\ "key" \in DOMAIN op[t]
      BY <2>1 DEF Forward, At, KeysAsked
    <3> QED BY <1>4, <3>1, <3>2 DEF KeysAsked
  <2>2. CASE TakeInsert(t)
    <3>1. op' = [op EXCEPT ![t].step = "inserting"]
      BY <2>2 DEF TakeInsert
    <3>2. op[t].kind # "none" /\ "kind" \in DOMAIN op[t] /\ "key" \in DOMAIN op[t]
      BY <2>2 DEF TakeInsert, At, KeysAsked
    <3> QED BY <1>4, <3>1, <3>2 DEF KeysAsked
  <2>3. CASE InsertHandled(t)
    <3>1. op' = [op EXCEPT ![t].step = "answered"]
      BY <2>3 DEF InsertHandled
    <3>2. op[t].kind # "none" /\ "kind" \in DOMAIN op[t] /\ "key" \in DOMAIN op[t]
      BY <2>3 DEF InsertHandled, At, KeysAsked
    <3> QED BY <1>4, <3>1, <3>2 DEF KeysAsked
  <2>4. CASE Handle(t)
    <3>2. PICK o : op' = [op EXCEPT ![t].step = o[1], ![t].found = o[2]]
      BY <2>4 DEF Handle
    <3>3. op[t].kind # "none" /\ "kind" \in DOMAIN op[t] /\ "key" \in DOMAIN op[t]
      BY <2>4 DEF Handle, At, KeysAsked
    <3> QED BY <1>4, <3>2, <3>3 DEF KeysAsked
  <2>5. CASE Return(t)
    BY <2>5, <1>3 DEF Return
  <2> QED
    BY <1>5, <2>1, <2>2, <2>3, <2>4, <2>5 DEF CallStep
<1>6. CASE \E t \in Threads, k \in Keys :
             StartInsert(t, k) \/ \E kind \in {"read", "update"} : StartQuery(t, k, kind)
  BY <1>6, <1>2 DEF StartInsert, StartQuery
<1>7. CASE Load2Switch \/ BackendStep \/ UNCHANGED ethVars
  BY <1>7, <1>1 DEF Load2Switch, BackendStep, ethVars
<1> QED
  BY <1>5, <1>6, <1>7, Zenon DEF EthNext

-----------------------------------------------------------------------------
\* The layers below the fat root: only marks, and nodes of the tree next.
LEMMA PrintInnerInv ==
  ASSUME IInv, PrintInner
  PROVE  IInv' /\ SameTree
<1>1. SameTree /\ Nodes' = Nodes /\ pool' \in [Addr -> Node] /\ Nodes \subseteq Addr
  BY MarkLoadedSame, NodesAreAddresses DEF PrintInner, IInv
<1>2. cached \subseteq Nodes /\ \A n \in cached :
        /\ DOMAIN ChildBounds(n) \subseteq Nodes
        /\ \A c \in DOMAIN ChildBounds(n) : ChildBounds(n)[c] \in 0..KeyMax
  BY ChildBoundsTypes DEF IInv, Load
<1>3. cached' \subseteq Nodes
  <2>1. ChildrenOf(cached) \subseteq Nodes
    BY ChildBoundsTypes DEF ChildrenOf, IInv, Load
  <2>2. cached' \subseteq ChildrenOf(cached)
    BY DEF PrintInner
  <2> QED BY <2>1, <2>2
<1>4. \A r \in printed' :
        /\ r.layer \in Nat /\ r.node \in Addr /\ DOMAIN r.bounds \subseteq Addr
        /\ \A c \in DOMAIN r.bounds : r.bounds[c] \in 0..KeyMax
  <2> TAKE r \in printed'
  <2>1. CASE r \in printed
    BY <2>1 DEF IInv, TypeOK
  <2>2. ASSUME NEW n \in cached, r = PrintedNode(layer, n, ChildBounds(n))
        PROVE  /\ r.layer \in Nat /\ r.node \in Addr
               /\ DOMAIN r.bounds \subseteq Addr
               /\ \A c \in DOMAIN r.bounds : r.bounds[c] \in 0..KeyMax
    <3>1. r.layer = layer /\ r.node = n /\ r.bounds = ChildBounds(n)
      BY <2>2 DEF PrintedNode
    <3> QED BY <1>1, <1>2, <3>1 DEF IInv, TypeOK
  <2> QED BY <2>1, <2>2 DEF PrintInner
<1>5. layer' \in Nat /\ pc' = pc /\ cur' = cur
  BY DEF PrintInner, IInv, TypeOK
<1>6. TypeOK'
  BY <1>1, <1>3, <1>4, <1>5 DEF IInv, TypeOK, PrintInner
<1>7. Stored' = Stored
  BY DEF PrintInner, Stored
<1>8. Shape' /\ LeavesComplete'
  BY <1>1, <1>7, ShapeFrame, CompleteFrame DEF IInv
<1>9. Fill'
  BY <1>1, <1>5 DEF IInv, Fill, PrintInner, Value, SameTree
<1>10. Backend'
  BY <1>1, <1>5 DEF IInv, Backend, PrintInner, Value, SameTree
<1>11. Load'
  BY <1>1, <1>3 DEF IInv, Load, PrintInner
<1>12. QED
  BY <1>1, <1>6, <1>8, <1>9, <1>10, <1>11 DEF IInv

\* The end of the load leaves the tree as it is.
LEMMA LoadEndsInv ==
  ASSUME IInv, LoadEnds
  PROVE  IInv'
<1>1. SameTree /\ Nodes' = Nodes
  BY SameTreeUnchanged DEF LoadEnds, treeVars
<1>2. TypeOK'
  BY DEF IInv, TypeOK, LoadEnds, treeVars
<1>3. Stored' = Stored
  BY DEF LoadEnds, Stored, treeVars
<1>4. Shape' /\ LeavesComplete'
  BY <1>1, <1>3, ShapeFrame, CompleteFrame DEF IInv
<1>5. Fill'
  BY <1>1 DEF IInv, Fill, LoadEnds, Value, treeVars
<1>6. Backend'
  BY <1>1 DEF IInv, Backend, LoadEnds, Value, treeVars
<1>7. Load'
  BY <1>1 DEF IInv, Load, LoadEnds
<1>8. QED
  BY <1>2, <1>4, <1>5, <1>6, <1>7 DEF IInv

\* A step of the variant is one of the tree's, or its loader's own.
LEMMA EthStepIs ==
  ASSUME KeysAsked, [EthNext]_ethVars
  PROVE  \/ Next /\ (InsertStep \/ LoadBegin \/ (\E k \in Keys : InsertBegin(k))
                     \/ (\E n \in Addr : Expand(n)) \/ PrintRoot)
         \/ PrintInner \/ LoadEnds
         \/ UNCHANGED vars
<1>1. CASE UNCHANGED ethVars
  BY <1>1 DEF ethVars
<1>2. ASSUME NEW t \in Threads, NEW k \in Keys, NEW kind,
             StartInsert(t, k) \/ StartQuery(t, k, kind)
      PROVE  UNCHANGED vars
  BY <1>2 DEF StartInsert, StartQuery
<1>3. ASSUME NEW t \in Threads, TakeInsert(t)
      PROVE  Next /\ \E k \in Keys : InsertBegin(k)
  <2>1. op[t].key \in Keys /\ InsertBegin(op[t].key)
    BY <1>3 DEF TakeInsert, At, KeysAsked
  <2> QED BY <2>1 DEF Next
<1>4. ASSUME NEW t \in Threads, CallStep(t)
      PROVE  UNCHANGED vars
  BY <1>4 DEF CallStep, Forward, InsertHandled, Handle, Return
<1>5. CASE Load2Switch
  BY <1>5 DEF Load2Switch, Next
<1>6. CASE BackendStep
  BY <1>6, Zenon DEF BackendStep, Next, LoadStep
<1>7. CASE \E t \in Threads, k \in Keys :
             StartInsert(t, k) \/ \E kind \in {"read", "update"} : StartQuery(t, k, kind)
  BY <1>7, <1>2, Zenon
<1>8. CASE \E t \in Threads : TakeInsert(t) \/ CallStep(t)
  BY <1>8, <1>3, <1>4, Zenon
<1> QED
  BY <1>1, <1>5, <1>6, <1>7, <1>8, Zenon DEF EthNext

\* Every step of the variant keeps the tree's invariant.
LEMMA EthStepInv ==
  ASSUME IInv, KeysAsked, [EthNext]_ethVars
  PROVE  IInv'
<1>1. CASE Next
  BY <1>1, StepInv
<1>2. CASE UNCHANGED vars
  BY <1>2, StepInv
<1>3. CASE PrintInner
  BY <1>3, PrintInnerInv
<1>4. CASE LoadEnds
  BY <1>4, LoadEndsInv
<1> QED
  BY <1>1, <1>2, <1>3, <1>4, EthStepIs

(* The tree's invariant holds in the Ethernet variant, with its loader and *)
(* any number of threads.                                                  *)
THEOREM EthInvariance == EthSpec => [](KeysAsked /\ IInv)
<1>1. EthInit => KeysAsked /\ IInv
  BY KeysAskedInit, InitInv DEF EthInit
<1>2. KeysAsked /\ IInv /\ [EthNext]_ethVars => (KeysAsked /\ IInv)'
  BY KeysAskedStep, EthStepInv
<1> QED
  BY <1>1, <1>2, PTL DEF EthSpec

(* Wherever the address that the switch wrote into a query leads, each hop *)
(* of lookup(key, bias) takes it to a node responsible for its key, however *)
(* many inserts were handled since (Ethernet backend, b_plus_tree.h:111).  *)
THEOREM QueriesStayOnCourse == EthSpec => []Routing
  BY EthInvariance, HopStays, PTL

-----------------------------------------------------------------------------
\* The loader's own steps leave the tree, and mark nodes that are in use.
LEMMA LoaderSameTree ==
  ASSUME IInv, FreeUnmarked, PrintInner \/ LoadEnds
  PROVE  SameTree /\ Nodes' = Nodes /\ FreeUnmarked'
<1>1. TypeOK /\ Shape /\ cached \subseteq Nodes /\ Nodes \subseteq Addr
  BY NodesAreAddresses DEF IInv, Load
<1>2. CASE LoadEnds
  BY <1>2, SameTreeUnchanged DEF LoadEnds, treeVars, FreeUnmarked
<1>3. CASE PrintInner
  <2> DEFINE S == cached \cup ChildrenOf(cached)
  <2>1. S \subseteq Nodes
    BY <1>1, ChildBoundsTypes DEF ChildrenOf
  <2>2. pool' = MarkLoaded(S) /\ nb_node' = nb_node /\ cover' = cover
    BY <1>3 DEF PrintInner
  <2> HIDE DEF S
  <2>3. SameTree /\ Nodes' = Nodes
    BY <1>1, <2>2, MarkLoadedSame
  <2>4. \A n \in Addr : pool'[n].isLoaded2Switch = (pool[n].isLoaded2Switch \/ n \in S)
    BY <1>1, <2>2, FieldTypes DEF MarkLoaded, Node
  <2> QED BY <2>1, <2>3, <2>4 DEF FreeUnmarked
<1>4. QED
  BY <1>2, <1>3

LEMMA PrintInnerCourse ==
  ASSUME IInv, FreeUnmarked, Course, PrintInner
  PROVE  Course'
<1>1. /\ pc = "print" /\ pc' = "print" /\ printed \subseteq printed' /\ depth' = depth
      /\ layer \in Nat /\ layer' = layer + 1 /\ RootLoadDepth \in Nat /\ depth \in Nat
      /\ layer + RootLoadDepth <= depth - 1 /\ cached' \subseteq ChildrenOf(cached)
  BY ConstantsAssumption DEF PrintInner, IsInner, IInv, TypeOK
<1>2. PICK lv :
        /\ Levels(lv)
        /\ \A n \in cached : n \in Nodes /\ Inner(n)
        /\ \A c \in ChildrenOf(cached) :
             c \in Nodes /\ ~Value(c) /\ lv[c] < RootLoadDepth + layer + 1
  BY <1>1, LayerPlace
<1>3. SameTree /\ Nodes' = Nodes /\ Nodes \subseteq Addr
  BY LoaderSameTree, NodesAreAddresses DEF IInv
<1>4. Levels(lv)'
  BY <1>1, <1>2, <1>3, SameLevels
<1>5. \A n \in Nodes : Value(n)' = Value(n)
  BY <1>3 DEF Value, SameTree
<1>6. RootLoadDepth + layer + 1 = RootLoadDepth + layer'
  BY <1>1
<1>7. Placed(lv)'
  BY <1>1, <1>2, <1>5, <1>6 DEF Placed
<1>8. printed' # {} /\ layer' >= 1 /\ depth' >= 2
  BY <1>1 DEF Course
<1>9. QED
  BY <1>1, <1>4, <1>7, <1>8 DEF Course

\* Every step of the variant keeps the numbering and the course of the load.
LEMMA EthCourseStep ==
  ASSUME IInv, KeysAsked, Ranking, FreeUnmarked, Course, [EthNext]_ethVars
  PROVE  Ranking' /\ FreeUnmarked' /\ Course'
<1>1. CASE Next \/ UNCHANGED vars
  BY <1>1, RankingStep, CourseStep
<1>2. CASE PrintInner
  BY <1>2, LoaderSameTree, SameRanking, PrintInnerCourse DEF IInv
<1>3. CASE LoadEnds
  <2>1. Course'
    BY <1>3 DEF LoadEnds, Course
  <2> QED BY <1>3, <2>1, LoaderSameTree, SameRanking DEF IInv
<1>4. QED
  BY <1>1, <1>2, <1>3, EthStepIs

THEOREM EthLoadsStayOnCourse == EthSpec => [](Ranking /\ FreeUnmarked /\ Course)
<1>1. EthInit => Ranking /\ FreeUnmarked /\ Course
  BY InitRanking, InitCourse DEF EthInit
<1>2. IInv /\ KeysAsked /\ Ranking /\ FreeUnmarked /\ Course /\ [EthNext]_ethVars
        => (Ranking /\ FreeUnmarked /\ Course)'
  BY EthCourseStep
<1>3. QED
  BY EthInvariance, <1>1, <1>2, PTL DEF EthSpec

\* The layers that are printed have nodes for children.
LEMMA LayersAreInner == IInv /\ Course => PrintsInner
<1> SUFFICES ASSUME IInv, Course, pc = "print", IsInner(layer), NEW n \in cached
             PROVE  ~pool[n].isLeaf /\ ~pool[n].isValue
  BY DEF PrintsInner
<1>1. layer + RootLoadDepth <= depth - 1
  BY DEF IsInner
<1>2. n \in Nodes /\ Inner(n)
  BY <1>1, LayerPlace
<1>3. QED
  BY <1>2 DEF Inner

(* The layers that are printed end above the leaves, whatever the depth of *)
(* the tree and of the fat root (load2switch_greedy(), Ethernet backend).  *)
THEOREM LayersEndAboveLeaves == EthSpec => []PrintsInner
  BY EthInvariance, EthLoadsStayOnCourse, LayersAreInner, PTL

-----------------------------------------------------------------------------
(* A printed node stays as it is: it has room, so that no split or copy is *)
(* due, and a child that is marked never hands it a key.                   *)
Frozen(n) ==
  /\ n \in Nodes /\ Inner(n) /\ Len(pool[n].key) < M
  /\ \A i \in 1..Len(pool[n].child) : pool[pool[n].child[i]].isLoaded2Switch

SameArrays(n) == pool'[n].key = pool[n].key /\ pool'[n].child = pool[n].child

PrintedStay ==
  \A r \in printed : r.layer > 0 => Frozen(r.node) /\ r.bounds = ChildBounds(r.node)

\* With its arrays and its children's marks a node keeps its place there.
LEMMA FrozenFrame ==
  ASSUME IInv, NEW n \in Nodes, Frozen(n), Nodes \subseteq Nodes',
         pool'[n].isLeaf = pool[n].isLeaf, pool'[n].isValue = pool[n].isValue,
         SameArrays(n),
         \A i \in 1..Len(pool[n].child) : pool'[pool[n].child[i]].isLoaded2Switch
  PROVE  Frozen(n)' /\ SameArrays(n)
  BY DEF Frozen, SameArrays, Inner

\* No step of the backend changes the arrays of such a node.
LEMMA FrozenArrays ==
  ASSUME IInv, Next, NEW n \in Nodes, Frozen(n)
  PROVE  /\ SameArrays(n) /\ Nodes \subseteq Nodes'
         /\ pool'[n].isLeaf = pool[n].isLeaf /\ pool'[n].isValue = pool[n].isValue
<1>1. /\ TypeOK /\ n \in Addr /\ pool[n] \in Node /\ n # nb_node
      /\ cur \in Addr /\ nb_node \in Nat /\ Len(pool[cur].key) \in Nat
      /\ Len(pool[n].key) \in Nat /\ Inner(n) /\ Len(pool[n].key) < M /\ M \in Nat
  <2>1. TypeOK /\ n \in Addr /\ cur \in Nodes /\ cur \in Addr /\ nb_node \in Nat
    BY NodesAreAddresses DEF IInv, Backend, TypeOK
  <2>2. n # nb_node
    BY <2>1 DEF Nodes
  <2> QED BY <2>1, <2>2, FieldTypes, HalfBounds DEF Frozen
<1>2. ASSUME nb_node' = nb_node \/ nb_node' = nb_node + 1
      PROVE  Nodes \subseteq Nodes'
  BY <1>1, <1>2 DEF Nodes
<1>3. ASSUME \/ pool'[n] = pool[n]
             \/ \E w : pool'[n] = [pool[n] EXCEPT !.parent = w]
             \/ \E b : pool'[n] = [pool[n] EXCEPT !.isLoaded2Switch = b]
      PROVE  /\ SameArrays(n) /\ pool'[n].isLeaf = pool[n].isLeaf
             /\ pool'[n].isValue = pool[n].isValue
  BY <1>1, <1>3 DEF Node, SameArrays
<1>4. CASE UNCHANGED <<pool, nb_node>>
  BY <1>2, <1>3, <1>4
<1>5. CASE LeafInsert
  <2>1. nb_node \in Addr /\ n # cur
    BY <1>1, <1>5, ConstantsAssumption DEF LeafInsert, Addr, Inner
  <2>2. pool'[n] = pool[n] /\ nb_node' = nb_node + 1
    BY <1>1, <1>5, <2>1 DEF LeafInsert, TypeOK
  <2> QED BY <1>2, <1>3, <2>2
<1>6. CASE OverflowCopy
  <2>1. n # cur
    BY <1>1, <1>6 DEF OverflowCopy
  <2>2. \/ pool'[n] = pool[n]
        \/ \E w : pool'[n] = [pool[n] EXCEPT !.parent = w]
    BY <1>1, <1>6, <2>1 DEF OverflowCopy
  <2>3. nb_node' = nb_node + 1
    BY <1>6 DEF OverflowCopy
  <2> QED BY <1>2, <1>3, <2>2, <2>3
<1>7. CASE SplitLeaf \/ SplitInner
  <2>1. Splitting /\ nb_node < MaxNodes /\ nb_node' = nb_node + 1
    BY <1>7 DEF SplitLeaf, SplitInner
  <2>2. n # cur /\ ~pool[cur].isLoaded2Switch
    <3>1. Len(pool[cur].key) = M
      BY <2>1, SplitPlace
    <3>2. ~pool[cur].isLoaded2Switch
      BY <2>1 DEF Splitting, Unmodifiable, IInv, Backend
    <3> QED BY <1>1, <3>1, <3>2
  <2>3. n # pool[cur].parent
    BY <2>1, <2>2, SplitPlace DEF Frozen
  <2>4. pool[cur].parent \in Addr /\ nb_node \in Addr
    BY <1>1, <2>1, SplitPlace, NodesAreAddresses
  <2>5. \/ pool'[n] = pool[n]
        \/ \E w : pool'[n] = [pool[n] EXCEPT !.parent = w]
    <3>1. CASE SplitLeaf
      BY <1>1, <2>2, <2>3, <2>4, <3>1 DEF SplitLeaf, TypeOK
    <3>2. CASE SplitInner
      BY <1>1, <2>2, <2>3, <3>2 DEF SplitInner
    <3> QED BY <1>7, <3>1, <3>2
  <2> QED BY <1>2, <1>3, <2>1, <2>5
<1>8. CASE PrintRoot \/ PrintLayer
  <2>1. \E S : pool' = MarkLoaded(S)
    BY <1>8 DEF PrintRoot, PrintLayer
  <2>2. PICK S : pool' = MarkLoaded(S)
    BY <2>1
  <2>3. pool'[n] = [pool[n] EXCEPT !.isLoaded2Switch = @ \/ n \in S]
    BY <1>1, <2>2 DEF MarkLoaded
  <2>4. \E b : pool'[n] = [pool[n] EXCEPT !.isLoaded2Switch = b]
    BY <2>3
  <2>5. nb_node' = nb_node
    BY <1>8 DEF PrintRoot, PrintLayer
  <2> QED BY <1>2, <1>3, <2>4, <2>5
<1>9. \/ UNCHANGED <<pool, nb_node>> \/ LeafInsert \/ OverflowCopy
      \/ SplitLeaf \/ SplitInner \/ PrintRoot \/ PrintLayer
  BY DEF Next, InsertStep, LoadStep, InsertBegin, Descend, OverflowDone, LoadBegin,
         Expand, treeVars
<1>10. QED
  BY <1>4, <1>5, <1>6, <1>7, <1>8, <1>9

\* The children of an inner node are inner nodes or leaves of the tree.
LEMMA ChildNodes ==
  ASSUME IInv, NEW n \in Nodes, Inner(n), NEW i \in 1..Len(pool[n].child)
  PROVE  pool[n].child[i] \in Nodes /\ pool[n].child[i] \in Addr /\ ~Value(pool[n].child[i])
  BY NodesAreAddresses DEF IInv, Shape, InnerShape

\* A frozen node stays frozen in every step of the backend.
LEMMA FrozenNext ==
  ASSUME IInv, Next, NEW n \in Nodes, Frozen(n)
  PROVE  Frozen(n)' /\ SameArrays(n)
<1>1. ASSUME NEW i \in 1..Len(pool[n].child)
      PROVE  pool'[pool[n].child[i]].isLoaded2Switch
  BY <1>1, ChildNodes, LoadedStep DEF Frozen
<1>2. QED
  BY <1>1, FrozenArrays, FrozenFrame

\* ... and where the loader does no more than mark nodes.
LEMMA FrozenMarks ==
  ASSUME IInv, NEW S, pool' = MarkLoaded(S), nb_node' = nb_node,
         NEW n \in Nodes, Frozen(n)
  PROVE  Frozen(n)' /\ SameArrays(n)
<1>1. TypeOK /\ n \in Addr /\ pool[n] \in Node /\ Nodes' = Nodes /\ Inner(n)
  BY NodesAreAddresses, FieldTypes DEF IInv, Nodes, Frozen
<1>2. \A m \in Addr : pool'[m] = [pool[m] EXCEPT !.isLoaded2Switch = @ \/ m \in S]
  BY DEF MarkLoaded
<1>3. \A m \in Addr : /\ pool'[m].key = pool[m].key /\ pool'[m].child = pool[m].child
                      /\ pool'[m].isLeaf = pool[m].isLeaf
                      /\ pool'[m].isValue = pool[m].isValue
                      /\ pool[m].isLoaded2Switch => pool'[m].isLoaded2Switch
  <2> TAKE m \in Addr
  <2>1. pool[m] \in Node
    BY <1>1, FieldTypes
  <2> QED BY <1>2, <2>1 DEF Node
<1>4. ASSUME NEW i \in 1..Len(pool[n].child)
      PROVE  pool'[pool[n].child[i]].isLoaded2Switch
  <2>1. pool[n].child[i] \in Addr
    BY <1>1, ChildNodes
  <2>2. pool[pool[n].child[i]].isLoaded2Switch
    BY DEF Frozen
  <2> QED BY <1>3, <2>1, <2>2
<1>5. SameArrays(n)
  BY <1>1, <1>3 DEF SameArrays
<1>6. QED
  BY <1>1, <1>3, <1>4, <1>5, FrozenFrame

\* A layer that is printed: its nodes have room, and their children are marked.
LEMMA PrintedAreFrozen ==
  ASSUME IInv, PrintInner, PrintsInner, NEW n \in cached
  PROVE  Frozen(n)' /\ SameArrays(n)
<1>1. n \in Nodes /\ n \in Addr /\ TypeOK /\ pc = "print" /\ IsInner(layer)
      /\ pool[n] \in Node
  BY NodesAreAddresses, FieldTypes DEF IInv, Load, PrintInner
<1>2. Inner(n)
  BY <1>1 DEF PrintsInner, Inner
<1>3. Len(pool[n].key) < M
  BY <1>1, <1>2, FieldTypes, HalfBounds DEF IInv, Fill, Inner, Value
<1> DEFINE S == cached \cup ChildrenOf(cached)
<1>4. \A m \in Addr : pool'[m] = [pool[m] EXCEPT !.isLoaded2Switch = @ \/ m \in S]
  BY DEF PrintInner, MarkLoaded
<1>5. ASSUME NEW i \in 1..Len(pool[n].child)
      PROVE  pool'[pool[n].child[i]].isLoaded2Switch
  <2>1. pool[n].child[i] \in S
    <3>1. pool[n].child[i] \in ToSet(pool[n].child)
      BY <1>1, <1>5, FieldTypes, LenProperties DEF ToSet
    <3> QED BY <3>1 DEF ChildrenOf
  <2>2. pool[n].child[i] \in Addr /\ pool[pool[n].child[i]] \in Node
    BY <1>1, <1>2, <1>5, ChildNodes, FieldTypes
  <2> HIDE DEF S
  <2> QED BY <1>4, <2>1, <2>2 DEF Node
<1>6. /\ pool'[n].key = pool[n].key /\ pool'[n].child = pool[n].child
      /\ pool'[n].isLeaf = pool[n].isLeaf /\ pool'[n].isValue = pool[n].isValue
  BY <1>1, <1>4 DEF Node
<1>7. nb_node' = nb_node
  BY DEF PrintInner
<1>8. QED
  BY <1>1, <1>2, <1>3, <1>5, <1>6, <1>7 DEF Frozen, SameArrays, Inner, Nodes

\* With the arrays of a node its bounds are the same.
LEMMA BoundsStay ==
  ASSUME NEW n, SameArrays(n)
  PROVE  ChildBounds(n)' = ChildBounds(n)
  BY DEF SameArrays, ChildBounds

(* Every step of the variant leaves the printed nodes as they were printed. *)
LEMMA PrintedStayStep ==
  ASSUME IInv, KeysAsked, PrintsInner, PrintedStay, [EthNext]_ethVars
  PROVE  PrintedStay'
<1>1. ASSUME printed' = printed, \A n \in Nodes : Frozen(n) => Frozen(n)' /\ SameArrays(n)
      PROVE  PrintedStay'
  BY <1>1, BoundsStay DEF PrintedStay, Frozen
<1>2. CASE Next /\ printed' = printed
  BY <1>1, <1>2, FrozenNext
<1>3. CASE PrintRoot
  <2>1. printed' = {PrintedNode(0, Root, node_map)}
    BY <1>3 DEF PrintRoot
  <2> QED BY <2>1 DEF PrintedStay, PrintedNode
<1>4. CASE LoadEnds \/ UNCHANGED vars
  <2>1. pool' = pool /\ nb_node' = nb_node /\ printed' = printed
    BY <1>4 DEF LoadEnds, vars, treeVars, loadVars
  <2>2. ASSUME NEW n \in Nodes, Frozen(n) PROVE Frozen(n)' /\ SameArrays(n)
    BY <2>1, <2>2 DEF Frozen, SameArrays, Inner, Nodes
  <2> QED BY <1>1, <2>1, <2>2
<1>5. CASE PrintInner
  <2>1. pool' = MarkLoaded(cached \cup ChildrenOf(cached)) /\ nb_node' = nb_node
    BY <1>5 DEF PrintInner
  <2>2. printed' = printed \cup {PrintedNode(layer, n, ChildBounds(n)) : n \in cached}
    BY <1>5 DEF PrintInner
  <2>3. ASSUME NEW r \in printed, r.layer > 0
        PROVE  Frozen(r.node)' /\ r.bounds = ChildBounds(r.node)'
    <3>1. r.node \in Nodes /\ Frozen(r.node) /\ r.bounds = ChildBounds(r.node)
      BY <2>3 DEF PrintedStay, Frozen
    <3> QED BY <2>1, <3>1, FrozenMarks, BoundsStay
  <2>4. ASSUME NEW n \in cached, NEW r, r = PrintedNode(layer, n, ChildBounds(n))
        PROVE  Frozen(r.node)' /\ r.bounds = ChildBounds(r.node)'
    <3>1. r.node = n /\ r.bounds = ChildBounds(n)
      BY <2>4 DEF PrintedNode
    <3> QED BY <1>5, <3>1, PrintedAreFrozen, BoundsStay
  <2> QED BY <2>2, <2>3, <2>4 DEF PrintedStay
<1>6. \/ (Next /\ printed' = printed)
      \/ PrintRoot \/ PrintInner \/ LoadEnds \/ UNCHANGED vars
  <2>1. InsertStep \/ LoadBegin \/ (\E k \in Keys : InsertBegin(k)) \/ (\E n \in Addr : Expand(n))
          => printed' = printed
    BY DEF InsertStep, Descend, LeafInsert, OverflowDone, OverflowCopy, SplitLeaf,
           SplitInner, LoadBegin, InsertBegin, Expand, loadVars
  <2> QED BY <2>1, EthStepIs
<1>7. QED
  BY <1>2, <1>3, <1>4, <1>5, <1>6

LEMMA PrintedStays == EthSpec => []PrintedStay
<1>1. EthInit => PrintedStay
  BY DEF EthInit, Init, PrintedStay
<1>2. IInv /\ KeysAsked /\ PrintsInner /\ PrintedStay /\ [EthNext]_ethVars => PrintedStay'
  BY PrintedStayStep
<1>3. QED
  BY <1>1, <1>2, EthInvariance, LayersEndAboveLeaves, PTL DEF EthSpec

(* What a table of the switch says of a node is never out of date, however *)
(* many keys are inserted after the load (load2switch_greedy() of the      *)
(* Ethernet backend, and the copy in overflow()).                          *)
THEOREM TablesStayTrue == EthSpec => []TablesMatchTheTree
<1>1. PrintedStay => TablesMatchTheTree
  BY DEF PrintedStay, TablesMatchTheTree, Frozen, Inner
<1>2. QED
  BY PrintedStays, <1>1, PTL

(* The keys that a node in the switch is responsible for never change, so  *)
(* that its address stays good: under the Ethernet loader, too.            *)
THEOREM EthAddressesStayGood == EthSpec => LoadedCoverFixed
<1>1. ASSUME IInv, KeysAsked, [EthNext]_ethVars
      PROVE  [\A n \in Nodes : pool[n].isLoaded2Switch /\ ~Value(n) =>
                cover'[n] = cover[n] /\ pool'[n].isLoaded2Switch]_vars
  <2>1. CASE Next
    BY <1>1, <2>1, LoadedStep
  <2>2. CASE UNCHANGED vars
    BY <2>2
  <2>3. CASE PrintInner \/ LoadEnds
    <3>1. cover' = cover /\ \A n \in Nodes : n \in Addr /\ pool[n] \in Node
      BY <1>1, <2>3, NodesAreAddresses, FieldTypes DEF PrintInner, LoadEnds, treeVars, IInv
    <3>2. ASSUME NEW n \in Nodes, pool[n].isLoaded2Switch PROVE pool'[n].isLoaded2Switch
      <4>1. \/ pool' = pool \/ \E S : pool' = MarkLoaded(S)
        BY <2>3 DEF PrintInner, LoadEnds, treeVars
      <4>2. \/ pool'[n] = pool[n]
            \/ \E S : pool'[n] = [pool[n] EXCEPT !.isLoaded2Switch = @ \/ n \in S]
        BY <3>1, <4>1 DEF MarkLoaded
      <4> QED BY <3>1, <3>2, <4>2 DEF Node
    <3> QED BY <3>1, <3>2
  <2> QED BY <1>1, <2>1, <2>2, <2>3, EthStepIs
<1>2. QED
  BY <1>1, EthInvariance, PTL DEF EthSpec, LoadedCoverFixed

-----------------------------------------------------------------------------
(***************************************************************************)
(* The way of a query through the switch ends at a node responsible for    *)
(* its key.                                                                *)
(***************************************************************************)
Responsible(n, k) == /\ n \in Nodes /\ ~Value(n) /\ InRange(k, cover[n])
                     /\ n = Root \/ pool[n].isLoaded2Switch

\* The ranges of the fat root: marked nodes that share out all keys.
RootTable ==
  /\ printed # {} => \E r \in printed : r.layer = 0
  /\ \A r \in printed : r.layer = 0 =>
       /\ Shares(r.bounds, 0)
       /\ \A c \in DOMAIN r.bounds : pool[c].isLoaded2Switch
       /\ \A k \in Keys : \E c \in DOMAIN r.bounds : InRange(k, cover[c])

\* A marked node keeps its mark, its kind and the keys it is responsible for.
LEMMA MarkedStays ==
  ASSUME IInv, KeysAsked, FreeUnmarked, [EthNext]_ethVars,
         NEW n \in Nodes, ~Value(n), pool[n].isLoaded2Switch
  PROVE  n \in Nodes' /\ ~Value(n)' /\ pool'[n].isLoaded2Switch /\ cover'[n] = cover[n]
<1>1. CASE Next
  BY <1>1, LoadedStep, NodesStay
<1>2. CASE UNCHANGED vars
  BY <1>2 DEF vars, treeVars, Nodes, Value
<1>3. CASE PrintInner \/ LoadEnds
  <2>1. n \in Addr /\ pool[n] \in Node
    BY NodesAreAddresses, FieldTypes DEF IInv
  <2>2. SameTree /\ Nodes' = Nodes
    BY <1>3, LoaderSameTree
  <2>3. \/ pool' = pool \/ \E S : pool' = MarkLoaded(S)
    BY <1>3 DEF PrintInner, LoadEnds, treeVars
  <2>4. pool'[n].isLoaded2Switch
    BY <2>1, <2>3 DEF MarkLoaded, Node
  <2> QED BY <2>1, <2>2, <2>4 DEF SameTree, Value
<1>4. QED
  BY <1>1, <1>2, <1>3, EthStepIs

\* The root is a node of the tree and responsible for all keys.
LEMMA RootStands == IInv => Root \in Nodes /\ ~Value(Root) /\ cover[Root] = KeyRange(0, KeyMax)
  BY NodesAreAddresses DEF IInv, Shape, ParentShape

\* A node that may be the address of a query stays one.
LEMMA ResponsibleStays ==
  ASSUME IInv, KeysAsked, FreeUnmarked, [EthNext]_ethVars,
         NEW n, NEW k, Responsible(n, k)
  PROVE  Responsible(n, k)'
<1>1. CASE n = Root
  <2>1. IInv'
    BY EthStepInv
  <2>2. Root \in Nodes' /\ ~Value(Root)' /\ cover'[Root] = KeyRange(0, KeyMax)
    <3>1. (IInv => Root \in Nodes /\ ~Value(Root) /\ cover[Root] = KeyRange(0, KeyMax))'
      BY RootStands, PTL
    <3> QED BY <2>1, <3>1
  <2>3. cover[Root] = KeyRange(0, KeyMax)
    BY RootStands
  <2> QED BY <1>1, <2>2, <2>3 DEF Responsible, InRange
<1>2. CASE n # Root
  BY <1>2, MarkedStays DEF Responsible, InRange
<1>3. QED
  BY <1>1, <1>2

LEMMA RootTableStep ==
  ASSUME IInv, KeysAsked, FreeUnmarked, Course, RootTable, [EthNext]_ethVars
  PROVE  RootTable'
<1>1. ASSUME NEW r \in printed, r.layer = 0
      PROVE  /\ Shares(r.bounds, 0)'
             /\ \A c \in DOMAIN r.bounds : pool'[c].isLoaded2Switch
             /\ \A k \in Keys : \E c \in DOMAIN r.bounds : InRange(k, cover'[c])
  <2>1. /\ Shares(r.bounds, 0)
        /\ \A c \in DOMAIN r.bounds : pool[c].isLoaded2Switch
        /\ \A k \in Keys : \E c \in DOMAIN r.bounds : InRange(k, cover[c])
    BY <1>1 DEF RootTable
  <2>2. \A c \in DOMAIN r.bounds :
          c \in Nodes' /\ ~Value(c)' /\ pool'[c].isLoaded2Switch /\ cover'[c] = cover[c]
    BY <2>1, MarkedStays DEF Shares
  <2> QED BY <2>1, <2>2 DEF Shares, Apart, InRange
<1>2. CASE printed' = printed
  <2>1. printed' # {} => \E r \in printed' : r.layer = 0
    BY <1>2 DEF RootTable
  <2> QED BY <1>1, <1>2, <2>1 DEF RootTable, InRange
<1>3. CASE PrintRoot
  <2>0. /\ PrintedNode(0, Root, node_map).layer = 0
        /\ PrintedNode(0, Root, node_map).bounds = node_map
    BY DEF PrintedNode
  <2>1. PICK r : printed' = {r} /\ r.layer = 0 /\ r.bounds = node_map
    BY <1>3, <2>0 DEF PrintRoot
  <2>2. Frontier /\ IInv
    BY <1>3 DEF PrintRoot, Course
  <2>3. pool' = MarkLoaded({Root} \cup DOMAIN node_map) /\ cover' = cover /\ nb_node' = nb_node
    BY <1>3 DEF PrintRoot
  <2>4. SameTree /\ Nodes' = Nodes
    BY <2>3, MarkLoadedSame DEF IInv
  <2>5. \A c \in DOMAIN node_map :
          /\ c \in Nodes /\ c \in Addr /\ ~Value(c) /\ cover[c].lo \in Nat
          /\ node_map[c] = cover[c].lo
    BY <2>2, NodesAreAddresses, FieldTypes, ConstantsAssumption DEF Frontier, IInv
  <2>6. \A c \in DOMAIN node_map : pool'[c].isLoaded2Switch /\ ~Value(c)' /\ c \in Nodes'
    <3> TAKE c \in DOMAIN node_map
    <3>1. pool'[c] = [pool[c] EXCEPT !.isLoaded2Switch = TRUE] /\ pool[c] \in Node
      BY <2>3, <2>5, FieldTypes DEF MarkLoaded, IInv
    <3> QED BY <2>4, <2>5, <3>1 DEF Node, Value
  <2>7. PICK m : m = node_map
    OBVIOUS
  <2>8. Shares(m, 0)'
    <3>1. \A c \in DOMAIN m : 0 <= cover[c].lo
      BY <2>5, <2>7
    <3> QED BY <2>2, <2>3, <2>5, <2>6, <2>7, <3>1 DEF Shares, Frontier, Apart
  <2>9. \A s \in printed' : s.bounds = m /\ s.layer = 0
    BY <2>1, <2>7
  <2>10. \A k \in Keys : \E c \in DOMAIN m : InRange(k, cover'[c])
    BY <2>2, <2>3, <2>7 DEF Frontier
  <2> QED BY <2>1, <2>6, <2>7, <2>8, <2>9, <2>10 DEF RootTable, InRange
<1>4. CASE PrintInner
  <2>1. printed' = printed \cup {PrintedNode(layer, n, ChildBounds(n)) : n \in cached}
    BY <1>4 DEF PrintInner
  <2>2. layer >= 1 /\ layer \in Nat /\ printed # {}
    BY <1>4 DEF PrintInner, Course, IInv, TypeOK
  <2>3. \A r \in printed' : r.layer = 0 => r \in printed
    BY <2>1, <2>2 DEF PrintedNode
  <2>4. \E r \in printed' : r.layer = 0
    BY <2>1, <2>2 DEF RootTable
  <2> QED BY <1>1, <2>3, <2>4 DEF RootTable, InRange
<1>5. \/ printed' = printed \/ PrintRoot \/ PrintInner
  <2>1. InsertStep \/ LoadBegin \/ (\E k \in Keys : InsertBegin(k)) \/ (\E n \in Addr : Expand(n))
          => printed' = printed
    BY DEF InsertStep, Descend, LeafInsert, OverflowDone, OverflowCopy, SplitLeaf,
           SplitInner, LoadBegin, InsertBegin, Expand, loadVars
  <2>2. LoadEnds \/ UNCHANGED vars => printed' = printed
    BY DEF LoadEnds, vars, loadVars
  <2> QED BY <2>1, <2>2, EthStepIs
<1>6. QED
  BY <1>2, <1>3, <1>4, <1>5

\* One hop of the switch below its root.
Hop(l, n, k) ==
  LET table == {r \in printed : r.layer = l /\ r.node = n}
  IN  IF table = {} \/ k = 0 THEN n ELSE BoundBelow((CHOOSE r \in table : TRUE).bounds, k)

\* A table gives what the greatest bound below the key stands for.
LEMMA BoundBelowIs ==
  ASSUME NEW b, NEW k, NEW e, Greatest(b, k, e), \A c : Greatest(b, k, c) => c = e
  PROVE  BoundBelow(b, k) = e
<1>1. BoundBelow(b, k) = CHOOSE c \in DOMAIN b : b[c] < k /\ \A d \in DOMAIN b : b[d] < k => b[d] <= b[c]
  BY DEF BoundBelow
<1>2. e \in DOMAIN b /\ b[e] < k /\ \A d \in DOMAIN b : b[d] < k => b[d] <= b[e]
  BY DEF Greatest
<1>3. Greatest(b, k, BoundBelow(b, k))
  BY <1>1, <1>2 DEF Greatest
<1>4. QED
  BY <1>3

\* The fat root's range is that of a node responsible for the key.
LEMMA FatRootArrives ==
  ASSUME IInv, RootTable, printed # {}, NEW k \in Keys
  PROVE  Responsible(FatRoot(k), k)
<1> DEFINE root == CHOOSE r \in printed : r.layer = 0
<1>1. root \in printed /\ root.layer = 0
  BY DEF RootTable
<1>2. k \in Int /\ 0 < k /\ k # 0
  <2>1. \A x \in Keys : x \in Int /\ 0 < x
    BY ConstantsAssumption
  <2> QED BY <2>1
<1>3. FatRoot(k) = BoundBelow(root.bounds, k)
  BY <1>2 DEF FatRoot
<1> HIDE DEF root
<1>4. PICK b : b = root.bounds
  OBVIOUS
<1>5. /\ Shares(b, 0) /\ \A c \in DOMAIN b : pool[c].isLoaded2Switch
      /\ \E c \in DOMAIN b : InRange(k, cover[c])
  BY <1>1, <1>4 DEF RootTable
<1>6. PICK e \in DOMAIN b : InRange(k, cover[e])
  BY <1>5
<1>7. Greatest(b, k, e) /\ \A c : Greatest(b, k, c) => c = e
  BY <1>2, <1>5, <1>6, BoundFinds
<1>8. FatRoot(k) = e
  BY <1>3, <1>4, <1>7, BoundBelowIs
<1>9. QED
  BY <1>5, <1>6, <1>8 DEF Shares, Responsible

\* A table below it gives the child a search would go on to.
LEMMA HopArrives ==
  ASSUME IInv, PrintedStay, NEW k \in Keys, NEW l \in Nat \ {0}, NEW n, Responsible(n, k)
  PROVE  Responsible(Hop(l, n, k), k)
<1> DEFINE table == {r \in printed : r.layer = l /\ r.node = n}
           rec == CHOOSE r \in table : TRUE
<1>1. CASE table = {} \/ k = 0
  BY <1>1 DEF Hop
<1>2. CASE table # {} /\ k # 0
  <2>1. rec \in printed /\ rec.layer = l /\ rec.node = n
    <3>1. rec \in table
      BY <1>2
    <3> QED BY <3>1
  <2>2. Hop(l, n, k) = BoundBelow(rec.bounds, k)
    BY <1>2 DEF Hop
  <2> HIDE DEF table, rec
  <2>3. Frozen(n) /\ rec.bounds = ChildBounds(n) /\ n \in Nodes /\ Inner(n)
    BY <2>1 DEF PrintedStay, Frozen
  <2>4. cover[n].lo \in Nat /\ DOMAIN ChildBounds(n) = Kids(n) /\ Shares(ChildBounds(n), cover[n].lo)
    BY <2>3, NodeShares
  <2>5. PICK e : e = ChildFor(n, k)
    OBVIOUS
  <2>6. e \in Kids(n) /\ InRange(k, cover[e])
    BY <2>3, <2>5, HopIsKid DEF Responsible
  <2>7. k \in Int /\ cover[n].lo < k
    BY ConstantsAssumption DEF Responsible, InRange
  <2>8. Greatest(ChildBounds(n), k, e) /\ \A c : Greatest(ChildBounds(n), k, c) => c = e
    <3> DEFINE b == ChildBounds(n)
               L == cover[n].lo
    <3>1. L \in Nat /\ Shares(b, L) /\ L < k /\ e \in DOMAIN b
      BY <2>4, <2>6, <2>7
    <3> HIDE DEF b, L
    <3>2. Greatest(b, k, e) /\ \A c : Greatest(b, k, c) => c = e
      BY <2>6, <2>7, <3>1, BoundFinds
    <3> QED BY <3>2 DEF b
  <2>9. Hop(l, n, k) = e
    BY <2>2, <2>3, <2>8, BoundBelowIs
  <2>10. pool[e].isLoaded2Switch /\ e \in Nodes /\ ~Value(e)
    <3>1. PICK i \in 1..Len(pool[n].child) : e = pool[n].child[i]
      BY <2>3, <2>6, KidPlace
    <3> QED BY <2>3, <2>6, <3>1, KidBound DEF Frozen
  <2> QED BY <2>6, <2>9, <2>10 DEF Responsible
<1>3. QED
  BY <1>1, <1>2

(* However many layers a packet passes, it leaves with the address of a    *)
(* node that is responsible for its key.                                   *)
LEMMA RouteArrives ==
  ASSUME IInv, RootTable, PrintedStay, printed # {}, NEW k \in Keys
  PROVE  Responsible(Route(k), k)
<1> DEFINE N == SwitchLayers
           S == {n \in Nodes : Responsible(n, k)}
           D == Nat \X S
           start == <<0, FatRoot(k)>>
           step == [x \in D |-> <<x[1] + 1, Hop(x[1] + 1, x[2], k)>>]
           unfold(g) == [l \in 0..N |-> IF l = 0 THEN FatRoot(k) ELSE Hop(l, g[l - 1], k)]
<1>1. N \in Nat
  BY RouteAssumption
<1>2. \A n : Responsible(n, k) <=> n \in S
  BY DEF Responsible
<1>3. \A l \in Nat \ {0}, n \in S : Hop(l, n, k) \in S
  BY <1>2, HopArrives
<1>4. FatRoot(k) \in S
  BY <1>2, FatRootArrives
<1> HIDE DEF S
<1>5. start \in D /\ step \in [D -> D]
  <2>1. \A x \in D : <<x[1] + 1, Hop(x[1] + 1, x[2], k)>> \in D
    <3> TAKE x \in D
    <3>1. x[1] \in Nat /\ x[2] \in S /\ x[1] + 1 \in Nat \ {0}
      OBVIOUS
    <3> QED BY <1>3, <3>1
  <2> QED BY <1>4, <2>1
<1>6. PICK f \in [0..N -> D] : f[0] = start /\ \A l \in 1..N : f[l] = step[f[l - 1]]
  <2> HIDE DEF N, D, start, step
  <2> QED BY ONLY <1>1, <1>5, Iteration, SMTT(60)
<1> DEFINE T == {l \in 0..N : f[l][1] = l}
<1>7. \A l \in 0..N : f[l][1] = l
  <2>1. 0 \in T
    BY <1>1, <1>6
  <2>2. ASSUME NEW l \in 1..N, l - 1 \in T PROVE l \in T
    <3>1. l \in 0..N /\ l - 1 \in 0..N /\ f[l - 1][1] = l - 1
      BY <1>1, <2>2
    <3>2. f[l - 1] \in D
      BY <1>6, <3>1
    <3>3. f[l] = <<f[l - 1][1] + 1, Hop(f[l - 1][1] + 1, f[l - 1][2], k)>>
      BY <1>6, <3>2
    <3>4. f[l][1] = l - 1 + 1
      BY <3>1, <3>3
    <3> QED BY <1>1, <3>1, <3>4
  <2> HIDE DEF T, N
  <2>3. \A l \in 0..N : l \in T
    BY ONLY <1>1, <2>1, <2>2, UpTo
  <2> QED BY <2>3 DEF T
<1> DEFINE g == [l \in 0..N |-> f[l][2]]
<1>8. g = unfold(g)
  <2>1. ASSUME NEW l \in 0..N PROVE g[l] = unfold(g)[l]
    <3>1. CASE l = 0
      BY <1>6, <3>1
    <3>2. CASE l # 0
      <4>1. l \in 1..N /\ l - 1 \in 0..N
        BY <1>1, <3>2
      <4>2. f[l] = <<f[l - 1][1] + 1, Hop(f[l - 1][1] + 1, f[l - 1][2], k)>>
        BY <1>6, <4>1
      <4>3. f[l - 1][1] + 1 = l
        BY <1>1, <1>7, <4>1
      <4> QED BY <3>2, <4>1, <4>2, <4>3
    <3> QED BY <3>1, <3>2
  <2> HIDE DEF N
  <2> QED BY <2>1
<1> DEFINE hop == CHOOSE h : h = unfold(h)
<1>9. hop = unfold(hop)
  <2> HIDE DEF unfold
  <2> QED BY <1>8
<1>10. Route(k) = hop[N]
  BY DEF Route, Hop
<1>11. /\ hop[0] = FatRoot(k)
       /\ \A l \in 1..N : hop[l] = Hop(l, hop[l - 1], k)
  <2> HIDE DEF hop
  <2>1. \A l \in 0..N : hop[l] = unfold(hop)[l]
    <3> HIDE DEF unfold
    <3> QED BY <1>9
  <2> QED BY <1>1, <2>1
<1> HIDE DEF hop
<1> DEFINE U == {l \in 0..N : hop[l] \in S}
<1>12. N \in U
  <2>1. 0 \in U
    BY <1>1, <1>4, <1>11
  <2>2. ASSUME NEW l \in 1..N, l - 1 \in U PROVE l \in U
    <3>1. l \in Nat \ {0} /\ l \in 0..N /\ hop[l - 1] \in S
      BY <1>1, <2>2
    <3>2. Hop(l, hop[l - 1], k) \in S
      BY <1>3, <3>1
    <3> QED BY <1>11, <3>1, <3>2
  <2> HIDE DEF U, N
  <2>3. \A l \in 0..N : l \in U
    BY ONLY <1>1, <2>1, <2>2, UpTo
  <2> QED BY <1>1, <2>3
<1>13. QED
  BY <1>2, <1>10, <1>12

-----------------------------------------------------------------------------
(***************************************************************************)
(* What a call of the frontend may count on: the keys of acknowledged      *)
(* inserts are stored, and a query on its way has an address that is       *)
(* responsible for its key.                                                *)
(***************************************************************************)
CallFields == {"kind", "key", "step", "at", "found", "known"}

ServedCall(t) ==
  op[t].kind # "none" =>
    /\ DOMAIN op[t] = CallFields
    /\ op[t].step = "inserting" => op[t].kind = "insert" /\ op[t].key \in key_map
    /\ op[t].kind = "insert" /\ op[t].step = "answered" => op[t].key \in Stored
    /\ op[t].kind # "insert" =>
         /\ op[t].known => op[t].key \in Stored
         /\ op[t].step = "forwarded" => Responsible(op[t].at, op[t].key)
         /\ op[t].step = "answered" /\ op[t].known => op[t].found = op[t].key
    /\ op[t].step = "lost" => op[t].key \notin Stored

Served == acked \subseteq Stored /\ \A t \in Threads : ServedCall(t)

\* Keys come to stay.
LEMMA EthStoredStays ==
  ASSUME KeysAsked, [EthNext]_ethVars
  PROVE  Stored \subseteq Stored' /\ key_map \subseteq key_map'
<1>1. CASE Next \/ UNCHANGED vars
  <2>1. Stored \subseteq Stored'
    BY <1>1, StoredStays
  <2>2. key_map \subseteq key_map'
    BY <1>1 DEF Next, InsertStep, LoadStep, InsertBegin, Descend, LeafInsert, OverflowDone,
       OverflowCopy, SplitLeaf, SplitInner, LoadBegin, Expand, PrintRoot, PrintLayer,
       treeVars, vars
  <2> QED BY <2>1, <2>2
<1>2. CASE PrintInner \/ LoadEnds
  BY <1>2 DEF PrintInner, LoadEnds, treeVars, Stored
<1>3. QED
  BY <1>1, <1>2, EthStepIs

\* A lost search is the last thing the backend does.
LEMMA LostStays ==
  ASSUME KeysAsked, [EthNext]_ethVars, NEW t \in Threads, At(t, "lost")
  PROVE  Stored' = Stored
<1>1. Lost /\ op[t] # Idle
  BY DEF Lost, At, Idle
<1>2. CASE \E u \in Threads, k \in Keys :
             StartInsert(u, k) \/ \E kind \in {"read", "update"} : StartQuery(u, k, kind)
  BY <1>2 DEF StartInsert, StartQuery, Stored, vars, treeVars
<1>3. CASE \E u \in Threads : TakeInsert(u) \/ CallStep(u)
  BY <1>1, <1>3 DEF TakeInsert, Polling, CallStep, Forward, InsertHandled, Handle, Return,
     Stored, vars, treeVars
<1>4. CASE Load2Switch \/ BackendStep \/ UNCHANGED ethVars
  BY <1>1, <1>4 DEF Load2Switch, BackendStep, Stored, ethVars, vars, treeVars
<1>5. QED
  BY <1>2, <1>3, <1>4, Zenon DEF EthNext

\* A call that does not move is served as before.
LEMMA ServedKept ==
  ASSUME IInv, KeysAsked, FreeUnmarked, [EthNext]_ethVars,
         NEW t \in Threads, ServedCall(t), op'[t] = op[t]
  PROVE  ServedCall(t)'
<1>1. Stored \subseteq Stored' /\ key_map \subseteq key_map'
  BY EthStoredStays
<1>2. Responsible(op[t].at, op[t].key) => Responsible(op[t].at, op[t].key)'
  <2>1. PICK n, k : n = op[t].at /\ k = op[t].key
    OBVIOUS
  <2>2. Responsible(n, k) => Responsible(n, k)'
    BY ResponsibleStays
  <2> QED BY <2>1, <2>2 DEF Responsible, InRange
<1>3. op[t].kind # "none" /\ op[t].step = "lost" => Stored' = Stored
  BY LostStays DEF At
<1>4. QED
  BY <1>1, <1>2, <1>3 DEF ServedCall, Responsible, InRange

\* The address the switch writes is responsible for the key.
LEMMA AddressArrives ==
  ASSUME IInv, RootTable, PrintedStay, Edge \notin Keys, NEW k \in Keys,
         NEW n \in {Root} \cup Addresses(k)
  PROVE  Responsible(n, k)
<1>1. Responsible(Root, k)
  <2>1. InRange(k, KeyRange(0, KeyMax))
    BY ConstantsAssumption DEF InRange, KeyRange
  <2> QED BY <2>1, RootStands DEF Responsible
<1>2. CASE n = Root
  BY <1>1, <1>2
<1>3. CASE n # Root
  <2>1. printed # {} /\ k # Edge /\ n = Route(k)
    BY <1>3 DEF Addresses
  <2> QED BY <2>1, RouteArrives
<1>4. QED
  BY <1>2, <1>3

\* One step of one call.
LEMMA ServedStep ==
  ASSUME Window >= MaxNodes, Edge \notin Keys,
         IInv, KeysAsked, Ranking, FreeUnmarked, RootTable, PrintedStay, Served,
         NEW t \in Threads, CallStep(t) \/ TakeInsert(t)
  PROVE  Served'
<1> DEFINE c == op[t]
<1>1. /\ c.kind # "none" /\ DOMAIN c = CallFields /\ c.key \in Keys
      /\ ServedCall(t) /\ op = [u \in Threads |-> op[u]]
  <2>1. c.kind # "none" /\ ServedCall(t)
    BY DEF CallStep, TakeInsert, Forward, InsertHandled, Handle, Return, At, Served
  <2>2. c.key \in Keys /\ op = [u \in Threads |-> op[u]]
    BY <2>1 DEF KeysAsked
  <2> QED BY <2>1, <2>2 DEF ServedCall
<1>2. [EthNext]_ethVars
  BY DEF EthNext
<1>3. Stored \subseteq Stored' /\ key_map \subseteq key_map'
  BY <1>2, EthStoredStays
<1>4. ASSUME \A u \in Threads \ {t} : op'[u] = op[u], acked' \subseteq Stored', ServedCall(t)'
      PROVE  Served'
  <2>1. \A u \in Threads \ {t} : ServedCall(u)'
    BY <1>2, <1>4, ServedKept DEF Served
  <2>2. \A u \in Threads : ServedCall(u)'
    BY <1>4, <2>1
  <2> QED BY <1>4, <2>2 DEF Served
<1>5. CASE Forward(t)
  <2>1. PICK n : /\ op' = [op EXCEPT ![t].at = n, ![t].step = "forwarded"]
                 /\ n \in {Root} \cup Addresses(c.key)
    BY <1>5 DEF Forward
  <2>2. Responsible(n, c.key)
    BY <1>1, <2>1, AddressArrives
  <2>3. /\ op'[t] = [c EXCEPT !.at = n, !.step = "forwarded"]
        /\ \A u \in Threads \ {t} : op'[u] = op[u]
    BY <1>1, <2>1
  <2>4. UNCHANGED vars /\ acked' = acked
    BY <1>5 DEF Forward
  <2>5. /\ DOMAIN op'[t] = CallFields /\ op'[t].kind = c.kind /\ op'[t].key = c.key
        /\ op'[t].step = "forwarded" /\ op'[t].at = n /\ op'[t].known = c.known
    BY <1>1, <2>3 DEF CallFields
  <2>6. Responsible(n, c.key)'
    <3>1. PICK k : k = c.key
      OBVIOUS
    <3>2. Responsible(n, k)'
      BY <1>2, <2>2, <3>1, ResponsibleStays
    <3>3. op'[t].key = k
      BY <2>5, <3>1
    <3> QED BY <2>5, <3>2, <3>1 DEF Responsible, InRange, vars, treeVars
  <2>7. ServedCall(t)'
    BY <1>1, <1>3, <2>5, <2>6 DEF ServedCall, Responsible, InRange
  <2> QED BY <1>3, <1>4, <2>3, <2>4, <2>7 DEF Served
<1>6. CASE TakeInsert(t)
  <2>1. /\ op'[t] = [c EXCEPT !.step = "inserting"]
        /\ \A u \in Threads \ {t} : op'[u] = op[u]
        /\ c.kind = "insert" /\ acked' = acked /\ c.key \in key_map'
    BY <1>1, <1>6 DEF TakeInsert, InsertBegin
  <2>2. /\ DOMAIN op'[t] = CallFields /\ op'[t].kind = c.kind /\ op'[t].key = c.key
        /\ op'[t].step = "inserting"
    BY <1>1, <2>1 DEF CallFields
  <2>3. ServedCall(t)'
    BY <2>1, <2>2 DEF ServedCall
  <2> QED BY <1>3, <1>4, <2>1, <2>3 DEF Served
<1>7. CASE InsertHandled(t)
  <2>1. /\ op'[t] = [c EXCEPT !.step = "answered"]
        /\ \A u \in Threads \ {t} : op'[u] = op[u]
        /\ acked' = acked /\ c.step = "inserting" /\ pc = "idle"
    BY <1>1, <1>7 DEF InsertHandled, At
  <2>2. /\ DOMAIN op'[t] = CallFields /\ op'[t].kind = c.kind /\ op'[t].key = c.key
        /\ op'[t].step = "answered"
    BY <1>1, <2>1 DEF CallFields
  <2>3. c.kind = "insert" /\ c.key \in Stored
    BY <1>1, <2>1 DEF ServedCall, Stored
  <2>4. ServedCall(t)'
    BY <1>3, <2>2, <2>3 DEF ServedCall
  <2> QED BY <1>3, <1>4, <2>1, <2>4 DEF Served
<1>8. CASE Handle(t)
  <2>1. /\ acked' = acked /\ c.step = "forwarded" /\ c.kind # "insert"
        /\ UNCHANGED vars
    BY <1>8 DEF Handle, At
  <2>2. PICK o : /\ o \in Outcomes(c.at % Window, c.key)
                 /\ op' = [op EXCEPT ![t].step = o[1], ![t].found = o[2]]
    BY <1>8 DEF Handle
  <2>3. /\ op'[t] = [c EXCEPT !.step = o[1], !.found = o[2]]
        /\ \A u \in Threads \ {t} : op'[u] = op[u]
    BY <1>1, <2>2
  <2>4. /\ DOMAIN op'[t] = CallFields /\ op'[t].kind = c.kind /\ op'[t].key = c.key
        /\ op'[t].step = o[1] /\ op'[t].known = c.known /\ op'[t].found = o[2]
    BY <1>1, <2>3 DEF CallFields
  <2>5. Responsible(c.at, c.key)
    BY <1>1, <2>1 DEF ServedCall
  <2>6. c.at \in 0..(MaxNodes - 1)
    BY <2>5, NodesAreAddresses DEF Responsible, IInv, Addr
  <2>7. c.at % Window = c.at
    BY <2>6, ConstantsAssumption, EthAssumption
  <2>8. ASSUME c.key \in Stored PROVE o = <<"answered", c.key>>
    <3>1. Search(c.at % Window, c.key) = c.key
      BY <2>5, <2>7, <2>8, SearchArrives DEF Responsible
    <3>2. c.key # NoKey
      BY <1>1, ConstantsAssumption DEF NoKey
    <3> QED BY <2>2, <3>1, <3>2 DEF Outcomes
  <2>9. o[1] \in {"answered", "lost"}
    BY <2>2 DEF Outcomes
  <2>10. c.known => c.key \in Stored
    BY <1>1, <2>1 DEF ServedCall
  <2>11. Stored' = Stored
    BY <2>1 DEF vars, treeVars, Stored
  <2>12. ServedCall(t)'
    BY <1>1, <2>1, <2>4, <2>8, <2>9, <2>10, <2>11 DEF ServedCall
  <2> QED BY <1>3, <1>4, <2>1, <2>3, <2>12 DEF Served
<1>9. CASE Return(t)
  <2>1. /\ op'[t] = Idle /\ \A u \in Threads \ {t} : op'[u] = op[u]
        /\ c.step = "answered"
        /\ acked' = IF c.kind = "insert" THEN acked \cup {c.key} ELSE acked
    BY <1>1, <1>9 DEF Return, At
  <2>2. ServedCall(t)'
    BY <2>1 DEF ServedCall, Idle
  <2>3. acked' \subseteq Stored'
    BY <1>1, <1>3, <2>1 DEF ServedCall, Served
  <2> QED BY <1>4, <2>1, <2>2, <2>3
<1>10. QED
  BY <1>5, <1>6, <1>7, <1>8, <1>9 DEF CallStep

\* Every step of the variant.
LEMMA ServedNext ==
  ASSUME Window >= MaxNodes, Edge \notin Keys,
         IInv, KeysAsked, Ranking, FreeUnmarked, RootTable, PrintedStay, Served,
         [EthNext]_ethVars
  PROVE  Served'
<1>1. Stored \subseteq Stored' /\ key_map \subseteq key_map'
  BY EthStoredStays
<1>2. CASE \E t \in Threads : TakeInsert(t) \/ CallStep(t)
  BY <1>2, ServedStep
<1>3. ASSUME NEW t \in Threads, NEW k \in Keys, NEW kind,
             op' = [op EXCEPT ![t] = Request(kind, k)], kind # "none", acked' = acked
      PROVE  Served'
  <2>1. \A u \in Threads \ {t} : op'[u] = op[u]
    BY <1>3 DEF KeysAsked
  <2>2. op'[t] = Request(kind, k)
    BY <1>3 DEF KeysAsked
  <2>3. /\ DOMAIN op'[t] = CallFields /\ op'[t].kind = kind /\ op'[t].key = k
        /\ op'[t].step = "sent" /\ op'[t].known = (k \in acked)
    BY <2>2 DEF Request, CallFields
  <2>4. k \in acked => k \in Stored'
    BY <1>1 DEF Served
  <2>5. ServedCall(t)'
    BY <2>3, <2>4 DEF ServedCall
  <2>6. \A u \in Threads \ {t} : ServedCall(u)'
    BY <2>1, ServedKept DEF Served
  <2> QED BY <1>1, <1>3, <2>5, <2>6 DEF Served
<1>4. CASE \E t \in Threads, k \in Keys :
             StartInsert(t, k) \/ \E kind \in {"read", "update"} : StartQuery(t, k, kind)
  BY <1>3, <1>4 DEF StartInsert, StartQuery
<1>5. CASE UNCHANGED <<acked, op>>
  <2>1. \A u \in Threads : ServedCall(u)'
    BY <1>5, ServedKept DEF Served
  <2> QED BY <1>1, <1>5, <2>1 DEF Served
<1>6. Load2Switch \/ BackendStep \/ UNCHANGED ethVars => UNCHANGED <<acked, op>>
  BY DEF Load2Switch, BackendStep, ethVars
<1>7. QED
  BY <1>2, <1>4, <1>5, <1>6, Zenon DEF EthNext

\* The fat root's ranges share out the keys at all times.
LEMMA RootTableStands == EthSpec => []RootTable
<1>1. EthInit => RootTable
  BY DEF EthInit, Init, RootTable
<1>2. IInv /\ KeysAsked /\ FreeUnmarked /\ Course /\ RootTable /\ [EthNext]_ethVars
        => RootTable'
  BY RootTableStep
<1>3. QED
  BY <1>1, <1>2, EthInvariance, EthLoadsStayOnCourse, PTL DEF EthSpec

(* A read of a key whose Insert() had returned before gets that key's      *)
(* record, whatever the backend inserts and splits while the packet is     *)
(* between the switch and lookup() (Frontend/db/b_plus_tree_db.cc:63),     *)
(* where the pool is within the 4 GiB that `bias & 0xFFFFFFFF' can address *)
(* and no key is a separator of two partitions.                            *)
THEOREM ReadsFindTheirRecords ==
  ASSUME Window >= MaxNodes, Edge \notin Keys
  PROVE  EthSpec => []EthReadsMatch
<1>1. EthInit => Served
  BY DEF EthInit, Served, ServedCall, Idle
<1>2. /\ IInv /\ KeysAsked /\ Ranking /\ FreeUnmarked /\ RootTable /\ PrintedStay
      /\ Served /\ [EthNext]_ethVars
      => Served'
  BY ServedNext
<1>3. Served => EthReadsMatch
  BY DEF Served, ServedCall, EthReadsMatch, At
<1>4. QED
  BY <1>1, <1>2, <1>3, EthInvariance, EthLoadsStayOnCourse, PrintedStays, RootTableStands,
     PTL DEF EthSpec

(* Only a query of a key that is not in the tree when it is handled can    *)
(* lead lookup() past the end of child[] (Ethernet b_plus_tree.h), under   *)
(* the same two conditions: wherever the switch sent it, and whatever has  *)
(* been split since, a search of a key that is there stays on the tree.    *)
THEOREM SearchesStayOnTheTree ==
  ASSUME Window >= MaxNodes, Edge \notin Keys
  PROVE  EthSpec => []OnlyMissesAreLost
<1>1. EthInit => Served
  BY DEF EthInit, Served, ServedCall, Idle
<1>2. /\ IInv /\ KeysAsked /\ Ranking /\ FreeUnmarked /\ RootTable /\ PrintedStay
      /\ Served /\ [EthNext]_ethVars
      => Served'
  BY ServedNext
<1>3. Served => OnlyMissesAreLost
  BY DEF Served, ServedCall, OnlyMissesAreLost, At
<1>4. QED
  BY <1>1, <1>2, <1>3, EthInvariance, EthLoadsStayOnCourse, PrintedStays, RootTableStands,
     PTL DEF EthSpec
=============================================================================
