--------------------------- MODULE RdmaReadProofs ---------------------------
(***************************************************************************)
(* The frontend and the switch only read the tree: every step of the       *)
(* system is a step of the backend or leaves it alone, so the backend's    *)
(* theorems hold beside the clients.  What the NIC finds in memory agrees  *)
(* with the tree but for the writes the backend has still to do.           *)
(* With the invariant of the switch's tables and of the buffer, a read     *)
(* that is not overtaken returns the value of its key.                     *)
(***************************************************************************)
EXTENDS RdmaRead, FatBTreePathProofs

(* The keys in flight are keys of the workload.                            *)
KeysInFlight ==
  /\ op = [t \in Threads |-> op[t]]
  /\ \A t \in Threads :
       /\ op[t].kind = "insert" => op[t].key \in Keys
       /\ "kind" \in DOMAIN op[t]

\* No thread starts with a message on its way.
LEMMA KeysInFlightInit == RdmaInit => KeysInFlight
  BY DEF RdmaInit, KeysInFlight, Idle

\* The fields of a read.
ReadFields == {"kind", "key", "at", "step", "known", "overtaken"}

\* The thread that has fetched half a node.
LEMMA FetchedIs ==
  ASSUME KeysInFlight, NEW t \in Threads, NEW step, Fetched(t, step)
  PROVE  /\ op' = [u \in Threads |-> op'[u]]
         /\ \A u \in Threads \ {t} : op'[u] = op[u]
         /\ DOMAIN op'[t] = DOMAIN op[t] /\ op'[t].kind = op[t].kind
         /\ DOMAIN op[t] = ReadFields =>
              /\ op'[t].key = op[t].key /\ op'[t].at = op[t].at
              /\ op'[t].known = op[t].known /\ op'[t].step = step
              /\ ~op'[t].overtaken => ~op[t].overtaken /\ ~Pending(writes, op[t].at)
<1>1. PICK mark : mark = (op[t].overtaken \/ Pending(writes, op[t].at))
  OBVIOUS
<1>2. op' = [op EXCEPT ![t].step = step, ![t].overtaken = mark]
  BY <1>1, Zenon DEF Fetched
<1>3. op = [u \in Threads |-> op[u]] /\ "kind" \in DOMAIN op[t]
  BY DEF KeysInFlight
<1>4. PICK o : o = [[op[t] EXCEPT !.step = step] EXCEPT !.overtaken = mark]
  OBVIOUS
<1>5. /\ op' = [u \in Threads |-> op'[u]]
      /\ \A u \in Threads \ {t} : op'[u] = op[u]
      /\ op'[t] = o
  BY <1>2, <1>3, <1>4
<1>6. DOMAIN o = DOMAIN op[t] /\ o.kind = op[t].kind
  BY <1>3, <1>4
<1>7. DOMAIN op[t] = ReadFields =>
        /\ o.key = op[t].key /\ o.at = op[t].at /\ o.known = op[t].known
        /\ o.step = step /\ o.overtaken = mark
  BY <1>4 DEF ReadFields
<1>8. ASSUME DOMAIN op[t] = ReadFields, ~op'[t].overtaken
      PROVE  ~op[t].overtaken /\ ~Pending(writes, op[t].at)
  <2>1. ~mark
    BY <1>5, <1>7, <1>8, Zenon
  <2> QED BY <1>1, <2>1, Zenon
<1>9. QED
  BY <1>5, <1>6, <1>7, <1>8, Zenon

\* Messages carry the keys the workload's counter handed out.
LEMMA KeysInFlightStep == KeysInFlight /\ [RdmaNext]_rdmaVars => KeysInFlight'
<1> SUFFICES ASSUME KeysInFlight, [RdmaNext]_rdmaVars PROVE KeysInFlight'
  OBVIOUS
<1>1. CASE UNCHANGED rdmaVars
  BY <1>1 DEF KeysInFlight, rdmaVars, clientVars
<1>2. ASSUME NEW t \in Threads, NEW k \in Keys, StartInsert(t, k)
      PROVE  KeysInFlight'
  BY <1>2 DEF StartInsert, InsertOf, KeysInFlight
<1>3. ASSUME NEW t \in Threads, NEW k \in Keys, StartRead(t, k)
      PROVE  KeysInFlight'
  BY <1>3 DEF StartRead, ReadOf, KeysInFlight
<1>4. ASSUME NEW t \in Threads, TakeInsert(t)
      PROVE  KeysInFlight'
  BY <1>4 DEF TakeInsert, clientVars, KeysInFlight
<1>5. ASSUME NEW t \in Threads, InsertReturns(t) \/ ReadReturns(t)
      PROVE  KeysInFlight'
  BY <1>5 DEF InsertReturns, ReadReturns, Idle, KeysInFlight
<1>6. ASSUME NEW t \in Threads, FetchHeader(t) \/ FetchRest(t) \/ Hop(t)
      PROVE  KeysInFlight'
  <2>1. CASE Hop(t)
    <3>1. op' = [u \in Threads |-> op'[u]] /\ \A u \in Threads \ {t} : op'[u] = op[u]
      BY <2>1 DEF Hop, KeysInFlight
    <3>2. op'[t].kind = "read" /\ DOMAIN op'[t] = DOMAIN op[t]
      BY <2>1 DEF Hop, KeysInFlight, Reading
    <3> QED BY <3>1, <3>2 DEF KeysInFlight
  <2>2. CASE FetchHeader(t) \/ FetchRest(t)
    <3>1. PICK step : Fetched(t, step) /\ Reading(t)
      BY <2>2, Zenon DEF FetchHeader, FetchRest
    <3>2. /\ op' = [u \in Threads |-> op'[u]] /\ \A u \in Threads \ {t} : op'[u] = op[u]
          /\ op'[t].kind = "read" /\ DOMAIN op'[t] = DOMAIN op[t]
      BY <3>1, FetchedIs DEF Reading
    <3> QED BY <3>2 DEF KeysInFlight
  <2> QED
    BY <1>6, <2>1, <2>2
<1>7. CASE Load2Switch
  BY <1>7 DEF Load2Switch, clientVars, KeysInFlight
<1>8. CASE BackendStep
  <2> DEFINE marks == [t \in Threads |-> op[t].overtaken \/ Overtaken(t)]
             f == [t \in Threads |-> IF Reading(t)
                     THEN [op[t] EXCEPT !.overtaken = marks[t]] ELSE op[t]]
  <2>1. op' = [t \in Threads |-> IF Reading(t)
                 THEN [op[t] EXCEPT !.overtaken = @ \/ Overtaken(t)] ELSE op[t]]
    BY <1>8, Zenon DEF BackendStep
  <2>2. \A t \in Threads : marks[t] = (op[t].overtaken \/ Overtaken(t))
    BY Zenon
  <2>3. op' = f
    BY <2>1, <2>2, Zenon
  <2> HIDE DEF marks
  <2> QED
    BY <2>3 DEF KeysInFlight, Reading
<1>9. CASE WriteOne
  BY <1>9 DEF WriteOne, clientVars, KeysInFlight
<1>10. ASSUME RdmaNext PROVE KeysInFlight'
  <2>1. CASE \E t \in Threads, k \in Keys : StartInsert(t, k) \/ StartRead(t, k)
    BY <2>1, <1>2, <1>3
  <2>2. CASE \E t \in Threads : TakeInsert(t) \/ InsertReturns(t) \/ ReadStep(t)
    <3>1. PICK t \in Threads : TakeInsert(t) \/ InsertReturns(t) \/ ReadStep(t)
      BY <2>2, Zenon
    <3>2. \/ TakeInsert(t) \/ InsertReturns(t) \/ ReadReturns(t)
          \/ FetchHeader(t) \/ FetchRest(t) \/ Hop(t)
      BY <3>1, Zenon DEF ReadStep
    <3> QED
      BY <3>2, <1>4, <1>5, <1>6, Zenon
  <2> QED
    BY <1>10, <2>1, <2>2, <1>7, <1>8, <1>9, Zenon DEF RdmaNext
<1> QED
  BY <1>1, <1>10

\* A step of the system is a step of the backend or leaves it alone.
LEMMA SystemStep == KeysInFlight /\ [RdmaNext]_rdmaVars => [Next]_vars
<1> SUFFICES ASSUME KeysInFlight, [RdmaNext]_rdmaVars PROVE [Next]_vars
  OBVIOUS
<1>1. CASE UNCHANGED rdmaVars
  BY <1>1 DEF rdmaVars
<1>2. ASSUME NEW t \in Threads, NEW k \in Keys, StartInsert(t, k) \/ StartRead(t, k)
      PROVE  UNCHANGED vars
  BY <1>2 DEF StartInsert, StartRead
<1>3. ASSUME NEW t \in Threads, TakeInsert(t)
      PROVE  Next
  BY <1>3 DEF TakeInsert, KeysInFlight, Next
<1>4. ASSUME NEW t \in Threads, InsertReturns(t) \/ ReadStep(t)
      PROVE  UNCHANGED vars
  BY <1>4 DEF InsertReturns, ReadStep, FetchHeader, FetchRest, Hop, ReadReturns
<1>5. CASE Load2Switch
  BY <1>5 DEF Load2Switch, Next
<1>6. CASE BackendStep
  BY <1>6, Zenon DEF BackendStep, Next, InsertStep
<1>7. CASE WriteOne
  BY <1>7 DEF WriteOne
<1>8. CASE \E t \in Threads, k \in Keys : StartInsert(t, k) \/ StartRead(t, k)
  BY <1>8, <1>2, Zenon
<1>9. CASE \E t \in Threads : TakeInsert(t) \/ InsertReturns(t) \/ ReadStep(t)
  BY <1>9, <1>3, <1>4, Zenon
<1> QED
  BY <1>1, <1>5, <1>6, <1>7, <1>8, <1>9, Zenon DEF RdmaNext

(* The system behaves, as far as the backend is concerned, like the        *)
(* backend alone: reads and the switch never write (RDMARead(), P4).       *)
THEOREM SystemRunsBackend == RdmaSpec => Spec
<1>1. RdmaInit => Init
  BY DEF RdmaInit
<1>2. RdmaSpec => []KeysInFlight
  BY KeysInFlightInit, KeysInFlightStep, PTL DEF RdmaSpec
<1> QED
  BY <1>1, <1>2, SystemStep, PTL DEF RdmaSpec, Spec

(* The keys of a loaded node stay its own while clients read and insert.   *)
THEOREM SwitchAddressesStayGood == RdmaSpec => LoadedCoverFixed
  BY SystemRunsBackend, LoadedNodesKeepTheirKeys, PTL

-----------------------------------------------------------------------------
(***************************************************************************)
(* What the tables of the switch hold for an inserted key: on each layer   *)
(* the address of a marked node that is responsible for it, or, where a    *)
(* leaf is printed, of its value node.                                     *)
(***************************************************************************)
Sent(n, k) ==
  /\ n \in Nodes
  /\ Value(n) => (k \in snapshot => pool[n].val = k)
  /\ ~Value(n) => InRange(k, cover[n]) /\ pool[n].isLoaded2Switch

\* The ranges of the fat root share out all keys, from 0 on.
RootRecord(r) ==
  /\ Shares(r.bounds, 0)
  /\ \A c \in DOMAIN r.bounds : pool[c].isLoaded2Switch
  /\ \A k \in Keys : \E c \in DOMAIN r.bounds : InRange(k, cover[c])
  /\ \E c \in DOMAIN r.bounds : r.bounds[c] = 0

\* The table of a node of a later layer.
LayerRecord(r) ==
  /\ r.node \in Nodes /\ ~Value(r.node) /\ pool[r.node].isLoaded2Switch
  /\ \A k \in Keys : InRange(k, cover[r.node]) => Sent(BoundBelow(r.bounds, k), k)

Tables ==
  /\ pc = "expand" => \E n \in DOMAIN node_map : cover[n].lo = 0
  /\ printed # {} => \E r \in printed : r.layer = 0
  /\ \A r \in printed : r.layer = 0 => RootRecord(r)
  /\ \A r \in printed : r.layer # 0 => LayerRecord(r)

\* A marked node keeps its mark, its kind and the keys it is responsible for.
LEMMA MarkedStays ==
  ASSUME IInv, [Next]_vars, NEW n \in Nodes, ~Value(n), pool[n].isLoaded2Switch
  PROVE  n \in Nodes' /\ ~Value(n)' /\ pool'[n].isLoaded2Switch /\ cover'[n] = cover[n]
<1>1. CASE Next
  BY <1>1, LoadedStep, NodesStay
<1>2. CASE UNCHANGED vars
  BY <1>2 DEF vars, treeVars, Nodes, Value
<1>3. QED
  BY <1>1, <1>2

\* An address the switch sends a key to stays one.
LEMMA SentStays ==
  ASSUME IInv, [Next]_vars, snapshot' = snapshot, NEW n, NEW k, Sent(n, k)
  PROVE  Sent(n, k)'
<1>1. CASE Value(n)
  <2>1. n \in Nodes' /\ Value(n)' /\ pool'[n].val = pool[n].val
    BY <1>1, NodesStay DEF Sent
  <2> QED BY <1>1, <2>1 DEF Sent
<1>2. CASE ~Value(n)
  BY <1>2, MarkedStays DEF Sent, InRange
<1>3. QED
  BY <1>1, <1>2

\* What is printed stays right.
LEMMA RootRecordStays ==
  ASSUME IInv, [Next]_vars, NEW r, RootRecord(r)
  PROVE  RootRecord(r)'
<1>1. /\ Shares(r.bounds, 0)
      /\ \A c \in DOMAIN r.bounds : pool[c].isLoaded2Switch
      /\ \A k \in Keys : \E c \in DOMAIN r.bounds : InRange(k, cover[c])
      /\ \E c \in DOMAIN r.bounds : r.bounds[c] = 0
  BY DEF RootRecord
<1>2. \A c \in DOMAIN r.bounds :
        c \in Nodes' /\ ~Value(c)' /\ pool'[c].isLoaded2Switch /\ cover'[c] = cover[c]
  BY <1>1, MarkedStays DEF Shares
<1>3. QED
  BY <1>1, <1>2 DEF RootRecord, Shares, Apart, InRange

LEMMA LayerRecordStays ==
  ASSUME IInv, [Next]_vars, snapshot' = snapshot, NEW r, LayerRecord(r)
  PROVE  LayerRecord(r)'
<1>1. PICK n, b : n = r.node /\ b = r.bounds
  OBVIOUS
<1>2. /\ n \in Nodes' /\ ~Value(n)' /\ pool'[n].isLoaded2Switch /\ cover'[n] = cover[n]
  BY <1>1, MarkedStays DEF LayerRecord
<1>3. ASSUME NEW k \in Keys, InRange(k, cover'[n])
      PROVE  Sent(BoundBelow(b, k), k)'
  <2>1. PICK c : c = BoundBelow(b, k)
    OBVIOUS
  <2>2. Sent(c, k)
    BY <1>1, <1>2, <1>3, <2>1 DEF LayerRecord
  <2>3. Sent(c, k)'
    BY <2>2, SentStays
  <2> QED BY <2>1, <2>3
<1>4. QED
  BY <1>1, <1>2, <1>3 DEF LayerRecord

-----------------------------------------------------------------------------
(***************************************************************************)
(* The table of a leaf: the i-th value has the key before its own as       *)
(* bound, so that the greatest bound below a key of the leaf is that of    *)
(* the key's value.                                                        *)
(***************************************************************************)
LEMMA LeafBounds ==
  ASSUME IInv, NEW n \in Nodes, Leaf(n), NEW i \in 1..Len(pool[n].key)
  PROVE  /\ pool[n].child[i] \in DOMAIN ChildBounds(n)
         /\ ChildBounds(n)[pool[n].child[i]] = IF i = 1 THEN 0 ELSE pool[n].key[i - 1]
<1>1. /\ TypeOK /\ Shape /\ n \in Addr
      /\ Len(pool[n].child) = Len(pool[n].key)
      /\ \A j \in 1..Len(pool[n].key) : pool[pool[n].child[j]].val = pool[n].key[j]
      /\ \A x, y \in DOMAIN pool[n].key : x < y => pool[n].key[x] < pool[n].key[y]
  BY NodesAreAddresses DEF IInv, Shape, LeafShape, KeysShape, StrictlySorted
<1>2. /\ DOMAIN pool[n].child = 1..Len(pool[n].key) /\ DOMAIN pool[n].key = 1..Len(pool[n].key)
      /\ Len(pool[n].key) \in Nat
      /\ \A j \in 1..Len(pool[n].key) : pool[n].key[j] \in Int
  BY <1>1, FieldTypes, LenProperties, ConstantsAssumption
<1> DEFINE c == pool[n].child[i]
           j == CHOOSE x \in DOMAIN pool[n].child : pool[n].child[x] = c
<1>3. j \in 1..Len(pool[n].key) /\ pool[n].child[j] = c
  BY <1>2
<1>4. c \in ToSet(pool[n].child)
  BY <1>2 DEF ToSet
<1>5. ChildBounds(n)[c] = IF j = 1 THEN 0 ELSE pool[n].key[j - 1]
  BY <1>4 DEF ChildBounds
<1> HIDE DEF j
<1>6. pool[n].key[i] = pool[n].key[j]
  BY <1>1, <1>3
<1>7. i = j
  <2>1. j \in DOMAIN pool[n].key /\ i \in DOMAIN pool[n].key
    BY <1>2, <1>3
  <2>2. ~(i < j) /\ ~(j < i)
    BY <1>1, <1>2, <1>6, <2>1
  <2> QED BY <1>2, <1>3, <2>2
<1>8. QED
  BY <1>4, <1>5, <1>7 DEF ChildBounds

\* A table gives what the greatest bound below the key stands for.
LEMMA BoundBelowIs ==
  ASSUME NEW b, NEW k, NEW e, Greatest(b, k, e), \A c : Greatest(b, k, c) => c = e
  PROVE  BoundBelow(b, k) = e
<1>1. BoundBelow(b, k) = CHOOSE c \in DOMAIN b : b[c] < k /\ \A d \in DOMAIN b : b[d] < k => b[d] <= b[c]
  BY DEF BoundBelow
<1>2. e \in DOMAIN b /\ b[e] < k /\ \A d \in DOMAIN b : b[d] < k => b[d] <= b[e]
  BY DEF Greatest
<1>3. Greatest(b, k, BoundBelow(b, k))
  BY <1>1, <1>2 DEF Greatest
<1>4. QED
  BY <1>3

\* The value a table of leaf n gives for a key.
LEMMA LeafHop ==
  ASSUME IInv, NEW n \in Nodes, Leaf(n), Len(pool[n].key) >= 1, NEW k \in Keys
  PROVE  LET c == BoundBelow(ChildBounds(n), k)
         IN  /\ c \in Nodes /\ Value(c)
             /\ k \in Stored /\ InRange(k, cover[n]) => pool[c].val = k
<1> DEFINE ks == pool[n].key
           b  == ChildBounds(n)
           L  == Len(pool[n].key)
           at == LowerBound(pool[n].key, k)
           i  == IF at <= L THEN at ELSE L
<1>1. /\ TypeOK /\ Shape /\ n \in Addr /\ ~Value(n) /\ k \in Int /\ 0 < k
  <2>1. \A x \in Keys : x \in Int /\ 0 < x
    BY ConstantsAssumption
  <2> QED BY <2>1, NodesAreAddresses DEF IInv, Shape, LeafShape
<1>2. /\ ks \in Seq(Int) /\ L = Len(ks) /\ L \in Nat /\ L >= 1 /\ DOMAIN ks = 1..L
      /\ \A j \in 1..L : ks[j] \in Int /\ 0 < ks[j]
  <2>1. \A x \in Keys : x \in Int /\ 0 < x
    BY ConstantsAssumption
  <2> QED BY <1>1, <2>1, FieldTypes, LenProperties
<1>3. \A x, y \in 1..L : x < y => ks[x] < ks[y]
  BY <1>1, <1>2 DEF Shape, KeysShape, StrictlySorted
<1>4. /\ at \in 1..(L + 1) /\ \A j \in 1..(at - 1) : ks[j] < k
      /\ at <= L => ks[at] >= k
  BY <1>1, <1>2, LowerBoundSpec
<1>5. i \in 1..L
  BY <1>2, <1>4
<1>6. \A j \in 1..L : /\ pool[n].child[j] \in DOMAIN b
                      /\ b[pool[n].child[j]] = IF j = 1 THEN 0 ELSE ks[j - 1]
                      /\ pool[n].child[j] \in Nodes /\ Value(pool[n].child[j])
                      /\ pool[pool[n].child[j]].val = ks[j]
  BY LeafBounds, <1>1 DEF Shape, LeafShape
<1>7. \A c \in DOMAIN b : \E j \in 1..L : c = pool[n].child[j]
  <2>1. DOMAIN b = ToSet(pool[n].child) /\ DOMAIN pool[n].child = 1..L
    BY <1>1, FieldTypes, LenProperties DEF ChildBounds, Shape, LeafShape
  <2> QED BY <2>1 DEF ToSet
<1> DEFINE e == pool[n].child[i]
<1> HIDE DEF b, L, at, i, ks
<1>8. i = at \/ (i = L /\ at = L + 1)
  BY <1>2, <1>4 DEF i
<1>9. e \in DOMAIN b /\ b[e] = IF i = 1 THEN 0 ELSE ks[i - 1]
  BY <1>5, <1>6
<1>10. b[e] < k
  <2>1. CASE i = 1
    BY <1>1, <1>9, <2>1
  <2>2. CASE i # 1
    <3>1. i - 1 \in 1..(at - 1)
      BY <1>2, <1>4, <1>5, <1>8, <2>2
    <3> QED BY <1>4, <1>9, <2>2, <3>1
  <2> QED BY <2>1, <2>2
<1>11. ASSUME NEW j \in 1..L, j < i
       PROVE  b[pool[n].child[j]] < b[e]
  <2>1. i - 1 \in 1..L /\ i # 1 /\ b[e] = ks[i - 1] /\ 0 < ks[i - 1]
    BY <1>2, <1>5, <1>9, <1>11
  <2>2. CASE j = 1
    BY <1>6, <2>1, <2>2
  <2>3. CASE j # 1
    <3>1. j - 1 \in 1..L /\ j - 1 < i - 1
      BY <1>2, <1>5, <1>11, <2>3
    <3>2. ks[j - 1] < ks[i - 1]
      BY <1>3, <2>1, <3>1
    <3> QED BY <1>6, <2>1, <2>3, <3>2
  <2> QED BY <2>2, <2>3
<1>12. ASSUME NEW j \in 1..L, i < j
       PROVE  ~(b[pool[n].child[j]] < k)
  <2>1. i = at /\ at <= L /\ j # 1 /\ j - 1 \in 1..L /\ i <= j - 1 /\ ks[i] >= k
    BY <1>2, <1>4, <1>5, <1>8, <1>12
  <2>2. ks[j - 1] >= ks[i]
    <3>1. CASE i = j - 1
      BY <1>2, <1>5, <3>1
    <3>2. CASE i # j - 1
      <4>1. i < j - 1
        BY <1>5, <2>1, <3>2
      <4>2. ks[i] < ks[j - 1]
        BY <1>3, <1>5, <2>1, <4>1
      <4> QED BY <1>2, <1>5, <2>1, <4>2
    <3> QED BY <3>1, <3>2
  <2>3. b[pool[n].child[j]] = ks[j - 1] /\ ks[j - 1] \in Int /\ ks[i] \in Int
    BY <1>2, <1>5, <1>6, <2>1
  <2> QED BY <1>1, <2>1, <2>2, <2>3
<1>13. \A c \in DOMAIN b : b[c] \in Int
  <2>1. \A j \in 1..L : j # 1 => j - 1 \in 1..L
    BY <1>2
  <2> TAKE c \in DOMAIN b
  <2>2. PICK j \in 1..L : c = pool[n].child[j]
    BY <1>7
  <2>3. b[c] = IF j = 1 THEN 0 ELSE ks[j - 1]
    BY <1>6, <2>2
  <2>4. CASE j = 1
    BY <2>3, <2>4
  <2>5. CASE j # 1
    BY <1>2, <2>1, <2>3, <2>5
  <2> QED BY <2>4, <2>5
<1>14. Greatest(b, k, e)
  <2> SUFFICES ASSUME NEW d \in DOMAIN b, b[d] < k PROVE b[d] <= b[e]
    BY <1>9, <1>10 DEF Greatest
  <2>1. PICK j \in 1..L : d = pool[n].child[j]
    BY <1>7
  <2>2. j < i \/ j = i
    BY <1>2, <1>5, <1>12, <2>1
  <2> QED BY <1>9, <1>11, <1>13, <2>1, <2>2
<1>15. ASSUME NEW c, Greatest(b, k, c) PROVE c = e
  <2>1. c \in DOMAIN b /\ b[c] < k /\ b[e] <= b[c]
    BY <1>9, <1>10, <1>15 DEF Greatest
  <2>2. PICK j \in 1..L : c = pool[n].child[j]
    BY <1>7, <2>1
  <2>3. ~(i < j) /\ ~(j < i)
    BY <1>9, <1>11, <1>12, <1>13, <2>1, <2>2
  <2>4. i = j
    BY <1>2, <1>5, <2>3
  <2> QED BY <2>2, <2>4
<1>16. BoundBelow(b, k) = e
  BY <1>14, <1>15, BoundBelowIs
<1>17. ASSUME k \in Stored, InRange(k, cover[n]) PROVE pool[e].val = k
  <2>1. at \in 1..Len(pool[n].child) /\ pool[pool[n].child[at]].val = k
    BY <1>1, <1>17, HopStays DEF Routing, at
  <2>2. Len(pool[n].child) = L
    BY <1>1 DEF Shape, LeafShape, L
  <2>3. i = at
    BY <1>2, <1>8, <2>1, <2>2
  <2> QED BY <2>1, <2>3
<1>18. QED
  BY <1>5, <1>6, <1>16, <1>17 DEF b

-----------------------------------------------------------------------------
\* The table of an inner node gives the child a search would go on to.
LEMMA InnerHop ==
  ASSUME IInv, NEW n \in Nodes, Inner(n), NEW k \in Keys, InRange(k, cover[n])
  PROVE  LET c == BoundBelow(ChildBounds(n), k)
         IN  c \in Kids(n) /\ c \in Nodes /\ ~Value(c) /\ InRange(k, cover[c])
<1>1. cover[n].lo \in Nat /\ DOMAIN ChildBounds(n) = Kids(n) /\ Shares(ChildBounds(n), cover[n].lo)
  BY NodeShares
<1>2. PICK b, L, e : b = ChildBounds(n) /\ L = cover[n].lo /\ e = ChildFor(n, k)
  OBVIOUS
<1>3. e \in Kids(n) /\ InRange(k, cover[e])
  BY <1>2, HopIsKid
<1>4. k \in Int /\ L < k
  BY <1>2, ConstantsAssumption DEF InRange
<1>5. L \in Nat /\ Shares(b, L) /\ e \in DOMAIN b
  BY <1>1, <1>2, <1>3
<1>6. Greatest(b, k, e) /\ \A c : Greatest(b, k, c) => c = e
  BY <1>3, <1>4, <1>5, BoundFinds
<1>7. BoundBelow(b, k) = e
  BY <1>6, BoundBelowIs
<1>8. e \in Nodes /\ ~Value(e)
  BY <1>5 DEF Shares
<1>9. QED
  BY <1>2, <1>3, <1>7, <1>8

\* A layer is printed with what the switch needs of each of its nodes.
LEMMA LayerIsPrinted ==
  ASSUME IInv, Course, NodeFill, PrintLayer, snapshot' = snapshot, snapshot = key_map,
         NEW n \in cached, NEW r, NEW b, r.node = n, r.bounds = b, b = ChildBounds(n)
  PROVE  LayerRecord(r)'
<1>1. PICK S : /\ S = cached \cup ChildrenOf(cached)
               /\ pool' = MarkLoaded(S) /\ cover' = cover /\ nb_node' = nb_node
  BY DEF PrintLayer
<1>2. SameTree /\ Nodes' = Nodes
  BY <1>1, MarkLoadedSame DEF IInv
<1>3. \A m \in Nodes : /\ m \in Addr /\ Value(m)' = Value(m) /\ pool'[m].val = pool[m].val
                       /\ m \in S => pool'[m].isLoaded2Switch
  <2> TAKE m \in Nodes
  <2>1. m \in Addr /\ pool[m] \in Node
    BY NodesAreAddresses, FieldTypes DEF IInv
  <2>2. pool'[m] = [pool[m] EXCEPT !.isLoaded2Switch = @ \/ m \in S]
    BY <1>1, <2>1 DEF MarkLoaded
  <2> QED BY <2>1, <2>2 DEF Node, Value
<1>4. PICK lv : Levels(lv) /\ Placed(lv)
  BY DEF PrintLayer, Course
<1>5. n \in Nodes /\ ~Value(n) /\ pc = "print" /\ depth >= 2
  BY <1>4 DEF PrintLayer, Placed, Course, IInv, Load
<1>6. n \in S /\ \A c \in Kids(n) : c \in S
  BY <1>1 DEF ChildrenOf, Kids
<1>7. ASSUME NEW k \in Keys, InRange(k, cover[n])
      PROVE  Sent(BoundBelow(b, k), k)'
  <2>1. PICK c : c = BoundBelow(b, k)
    OBVIOUS
  <2>2. CASE Leaf(n)
    <3>1. n # Root
      BY <1>4, <1>5, <2>2 DEF Levels, IInv, TypeOK
    <3>2. Len(pool[n].key) >= 1
      <4>1. n \in Addr /\ n < nb_node
        BY <1>3, <1>5 DEF Nodes, IInv, TypeOK
      <4>2. Len(pool[n].key) >= Half /\ Half >= 1 /\ Half \in Int /\ Len(pool[n].key) \in Nat
        BY <1>5, <2>2, <3>1, <4>1, FieldTypes, HalfBounds DEF NodeFill, Allocated, Leaf, Value, IInv
      <4> QED BY <4>2
    <3>3. /\ c \in Nodes /\ Value(c)
          /\ k \in Stored => pool[c].val = k
      BY <1>5, <1>7, <2>1, <2>2, <3>2, LeafHop
    <3>4. Stored = snapshot'
      BY <1>5 DEF Stored
    <3> QED BY <1>2, <1>3, <2>1, <3>3, <3>4 DEF Sent
  <2>3. CASE ~Leaf(n)
    <3>1. Inner(n)
      BY <1>5, <2>3 DEF Inner, Leaf, Value
    <3>2. c \in Kids(n) /\ c \in Nodes /\ ~Value(c) /\ InRange(k, cover[c])
      BY <1>5, <1>7, <2>1, <3>1, InnerHop
    <3> QED BY <1>1, <1>2, <1>3, <1>6, <2>1, <3>2 DEF Sent
  <2> QED BY <2>2, <2>3
<1>8. n \in Nodes' /\ ~Value(n)' /\ pool'[n].isLoaded2Switch /\ cover'[n] = cover[n]
  BY <1>1, <1>2, <1>3, <1>5, <1>6
<1>9. QED
  BY <1>7, <1>8 DEF LayerRecord

\* The work list of the load begins at key 0.
LEMMA FrontierFromZero ==
  ASSUME IInv, Course, Course', Tables, [Next]_vars, pc' = "expand"
  PROVE  \E n \in DOMAIN node_map' : cover'[n].lo = 0
<1>1. CASE LoadBegin
  <2>1. DOMAIN node_map' = {Root} /\ cover' = cover
    BY <1>1 DEF LoadBegin, treeVars
  <2>2. cover[Root].lo = 0
    BY DEF IInv, Shape, ParentShape, KeyRange
  <2> QED BY <2>1, <2>2
<1>2. ASSUME NEW n \in Addr, Expand(n)
      PROVE  \E c \in DOMAIN node_map' : cover'[c].lo = 0
  <2>1. /\ cover' = cover /\ pc = "expand" /\ n \in node_pq
        /\ DOMAIN node_map' = (DOMAIN node_map \cup Kids(n)) \ {n}
    BY <1>2 DEF Expand, treeVars, Kids
  <2>2. PICK m \in DOMAIN node_map : cover[m].lo = 0
    BY <2>1 DEF Tables
  <2>3. CASE m # n
    BY <2>1, <2>2, <2>3
  <2>4. CASE m = n
    <3>1. Inner(n) /\ n \in Nodes /\ TypeOK /\ Shape
      <4>1. n \in Nodes
        BY <2>1 DEF IInv, Load
      <4>2. PICK lv : Levels(lv) /\ Placed(lv)
        BY <2>1 DEF Course
      <4> QED BY <2>1, <4>1, <4>2 DEF Placed, IInv, Load
    <3>2. /\ Len(pool[n].child) = Len(pool[n].key) + 1
          /\ Len(pool[n].key) \in Nat
          /\ DOMAIN pool[n].child = 1..Len(pool[n].child)
      BY <3>1, NodesAreAddresses, FieldTypes, LenProperties DEF Shape, InnerShape
    <3>3. 1 \in 1..Len(pool[n].child) /\ pool[n].child[1] \in Kids(n)
      BY <3>2 DEF Kids, ToSet
    <3>4. cover[pool[n].child[1]].lo = cover[n].lo
      BY <3>1, <3>3 DEF Shape, InnerShape, SlotLo
    <3>5. pool[n].child[1] # n
      <4>1. PICK lv : Levels(lv)
        BY <2>1 DEF Course
      <4>2. lv \in [Nodes -> Nodes] /\ lv[pool[n].child[1]] = lv[n] + 1
        BY <3>1, <3>3, <4>1 DEF Levels
      <4>3. lv[n] \in Int
        BY <3>1, <4>2 DEF Nodes
      <4> QED BY <4>2, <4>3
    <3> QED BY <2>1, <2>2, <2>4, <3>3, <3>4, <3>5
  <2> QED BY <2>3, <2>4
<1>3. CASE pc = "expand" /\ UNCHANGED vars
  BY <1>3 DEF Tables, vars, treeVars, loadVars
<1>4. LoadBegin \/ (\E n \in Addr : Expand(n)) \/ (pc = "expand" /\ UNCHANGED vars)
  BY DEF Next, InsertStep, LoadStep, InsertBegin, Descend, LeafInsert, OverflowDone, OverflowCopy,
         SplitLeaf, SplitInner, Splitting, PrintRoot, PrintLayer, vars
<1>5. QED
  BY <1>1, <1>2, <1>3, <1>4

\* The root is printed with what the switch needs.
LEMMA RootIsPrinted ==
  ASSUME IInv, Course, Tables, PrintRoot
  PROVE  Tables'
<1>0. /\ PrintedNode(0, Root, node_map).layer = 0
      /\ PrintedNode(0, Root, node_map).bounds = node_map
  BY DEF PrintedNode
<1>1. PICK r, m : printed' = {r} /\ r.layer = 0 /\ r.bounds = m /\ m = node_map
  BY <1>0 DEF PrintRoot
<1>2. Frontier /\ pc' = "print" /\ pc = "expand"
  BY DEF PrintRoot, Course
<1>3. pool' = MarkLoaded({Root} \cup DOMAIN node_map) /\ cover' = cover /\ nb_node' = nb_node
  BY DEF PrintRoot
<1>4. SameTree /\ Nodes' = Nodes
  BY <1>3, MarkLoadedSame DEF IInv
<1>5. \A c \in DOMAIN m :
        /\ c \in Nodes /\ c \in Addr /\ ~Value(c) /\ cover[c].lo \in Nat
        /\ m[c] = cover[c].lo
  BY <1>1, <1>2, NodesAreAddresses, FieldTypes, ConstantsAssumption DEF Frontier, IInv
<1>6. \A c \in DOMAIN m : pool'[c].isLoaded2Switch /\ ~Value(c)' /\ c \in Nodes'
  <2> TAKE c \in DOMAIN m
  <2>1. pool'[c] = [pool[c] EXCEPT !.isLoaded2Switch = TRUE] /\ pool[c] \in Node
    BY <1>1, <1>3, <1>5, FieldTypes DEF MarkLoaded, IInv
  <2> QED BY <1>4, <1>5, <2>1 DEF Node, Value
<1>7. Shares(m, 0)'
  <2>1. \A c \in DOMAIN m : 0 <= cover[c].lo
    BY <1>5
  <2> QED BY <1>1, <1>2, <1>3, <1>5, <1>6, <2>1 DEF Shares, Frontier, Apart
<1>8. \A k \in Keys : \E c \in DOMAIN m : InRange(k, cover'[c])
  BY <1>1, <1>2, <1>3 DEF Frontier
<1>9. \E c \in DOMAIN m : m[c] = 0
  BY <1>1, <1>2, <1>5 DEF Tables
<1>10. RootRecord(r)'
  BY <1>1, <1>6, <1>7, <1>8, <1>9 DEF RootRecord, InRange
<1>11. QED
  BY <1>1, <1>2, <1>10 DEF Tables

(* The tables stay right through inserts, splits and the load itself.      *)
LEMMA TablesStep ==
  ASSUME IInv, Course, Course', NodeFill, Tables, [Next]_vars,
         snapshot' = snapshot \/ (printed = {} /\ printed' = {}),
         pc = "print" => snapshot = key_map
  PROVE  Tables'
<1>1. pc' = "expand" => \E n \in DOMAIN node_map' : cover'[n].lo = 0
  BY FrontierFromZero
<1>2. ASSUME NEW r \in printed, r.layer = 0 PROVE RootRecord(r)'
  BY <1>2, RootRecordStays DEF Tables
<1>3. ASSUME NEW r \in printed, r.layer # 0 PROVE LayerRecord(r)'
  <2>1. snapshot' = snapshot
    BY <1>3
  <2> QED BY <1>3, <2>1, LayerRecordStays DEF Tables
<1>4. CASE printed' = printed
  BY <1>1, <1>2, <1>3, <1>4 DEF Tables
<1>5. CASE PrintLayer
  <2>1. printed' = printed \cup {PrintedNode(layer, n, ChildBounds(n)) : n \in cached}
    BY <1>5 DEF PrintLayer
  <2>2. /\ layer >= 1 /\ layer \in Nat /\ printed # {} /\ pc = "print"
        /\ snapshot = key_map /\ snapshot' = snapshot
    BY <1>5 DEF PrintLayer, Course, IInv, TypeOK
  <2>3. ASSUME NEW r \in printed', r \notin printed
        PROVE  r.layer # 0 /\ LayerRecord(r)'
    <3>1. PICK n \in cached : r = PrintedNode(layer, n, ChildBounds(n))
      BY <2>1, <2>3
    <3>2. PICK b : b = ChildBounds(n)
      OBVIOUS
    <3>3. r.layer = layer /\ r.node = n /\ r.bounds = b
      BY <3>1, <3>2 DEF PrintedNode
    <3> QED BY <1>5, <2>2, <3>2, <3>3, LayerIsPrinted
  <2>4. \E r \in printed' : r.layer = 0
    BY <2>1, <2>2 DEF Tables
  <2> QED BY <1>1, <1>2, <1>3, <2>3, <2>4 DEF Tables
<1>6. \/ printed' = printed \/ PrintRoot \/ PrintLayer
  BY DEF Next, InsertStep, LoadStep, Descend, LeafInsert, OverflowDone, OverflowCopy, SplitLeaf,
         SplitInner, LoadBegin, InsertBegin, Expand, loadVars, vars
<1>7. QED
  BY <1>4, <1>5, <1>6, RootIsPrinted

-----------------------------------------------------------------------------
\* One hop of the switch below its root.
SwitchHop(l, n, k) ==
  LET table == {r \in printed : r.layer = l /\ r.node = n}
  IN  IF table = {} \/ k = 0 THEN n ELSE BoundBelow((CHOOSE r \in table : TRUE).bounds, k)

(* However many layers a packet passes: what the root gives and the hops   *)
(* keep is true of the address it leaves with.                             *)
LEMMA RouteIn ==
  ASSUME NEW k, NEW S, FatRoot(k) \in S, \A l \in Nat \ {0}, n \in S : SwitchHop(l, n, k) \in S
  PROVE  Route(k) \in S
<1> DEFINE N == SwitchLayers
           D == Nat \X S
           start == <<0, FatRoot(k)>>
           step == [x \in D |-> <<x[1] + 1, SwitchHop(x[1] + 1, x[2], k)>>]
           unfold(g) == [l \in 0..N |-> IF l = 0 THEN FatRoot(k) ELSE SwitchHop(l, g[l - 1], k)]
<1>1. N \in Nat
  BY RouteAssumption
<1>2. start \in D /\ step \in [D -> D]
  <2>1. \A x \in D : <<x[1] + 1, SwitchHop(x[1] + 1, x[2], k)>> \in D
    <3> TAKE x \in D
    <3>1. x[1] \in Nat /\ x[2] \in S /\ x[1] + 1 \in Nat \ {0}
      OBVIOUS
    <3> QED BY <3>1
  <2> QED BY <2>1
<1>3. PICK f \in [0..N -> D] : f[0] = start /\ \A l \in 1..N : f[l] = step[f[l - 1]]
  <2> HIDE DEF N, D, start, step
  <2> QED BY ONLY <1>1, <1>2, Iteration, SMTT(60)
<1> DEFINE T == {l \in 0..N : f[l][1] = l}
<1>4. \A l \in 0..N : f[l][1] = l
  <2>1. 0 \in T
    BY <1>1, <1>3
  <2>2. ASSUME NEW l \in 1..N, l - 1 \in T PROVE l \in T
    <3>1. l \in 0..N /\ l - 1 \in 0..N /\ f[l - 1][1] = l - 1
      BY <1>1, <2>2
    <3>2. f[l - 1] \in D
      BY <1>3, <3>1
    <3>3. f[l] = <<f[l - 1][1] + 1, SwitchHop(f[l - 1][1] + 1, f[l - 1][2], k)>>
      BY <1>3, <3>2
    <3>4. f[l][1] = l - 1 + 1
      BY <3>1, <3>3
    <3> QED BY <1>1, <3>1, <3>4
  <2> HIDE DEF T, N
  <2>3. \A l \in 0..N : l \in T
    BY ONLY <1>1, <2>1, <2>2, UpTo
  <2> QED BY <2>3 DEF T
<1> DEFINE g == [l \in 0..N |-> f[l][2]]
<1>5. g = unfold(g)
  <2>1. ASSUME NEW l \in 0..N PROVE g[l] = unfold(g)[l]
    <3>1. CASE l = 0
      BY <1>3, <3>1
    <3>2. CASE l # 0
      <4>1. l \in 1..N /\ l - 1 \in 0..N
        BY <1>1, <3>2
      <4>2. f[l] = <<f[l - 1][1] + 1, SwitchHop(f[l - 1][1] + 1, f[l - 1][2], k)>>
        BY <1>3, <4>1
      <4>3. f[l - 1][1] + 1 = l
        BY <1>1, <1>4, <4>1
      <4> QED BY <3>2, <4>1, <4>2, <4>3
    <3> QED BY <3>1, <3>2
  <2> HIDE DEF N
  <2> QED BY <2>1
<1> DEFINE hop == CHOOSE h : h = unfold(h)
<1>6. hop = unfold(hop)
  <2> HIDE DEF unfold
  <2> QED BY <1>5
<1>7. Route(k) = hop[N]
  BY DEF Route, SwitchHop
<1>8. /\ hop[0] = FatRoot(k)
      /\ \A l \in 1..N : hop[l] = SwitchHop(l, hop[l - 1], k)
  <2> HIDE DEF hop
  <2>1. \A l \in 0..N : hop[l] = unfold(hop)[l]
    <3> HIDE DEF unfold
    <3> QED BY <1>6
  <2> QED BY <1>1, <2>1
<1> HIDE DEF hop
<1> DEFINE U == {l \in 0..N : hop[l] \in S}
<1>9. N \in U
  <2>1. 0 \in U
    BY <1>1, <1>8
  <2>2. ASSUME NEW l \in 1..N, l - 1 \in U PROVE l \in U
    <3>1. l \in Nat \ {0} /\ l \in 0..N /\ hop[l - 1] \in S
      BY <1>1, <2>2
    <3>2. SwitchHop(l, hop[l - 1], k) \in S
      BY <3>1
    <3> QED BY <1>8, <3>1, <3>2
  <2> HIDE DEF U, N
  <2>3. \A l \in 0..N : l \in U
    BY ONLY <1>1, <2>1, <2>2, UpTo
  <2> QED BY <1>1, <2>3
<1>10. QED
  BY <1>7, <1>9

\* The fat root's range is that of a node responsible for the key.
LEMMA FatRootSends ==
  ASSUME IInv, Tables, printed # {}, NEW k \in Keys
  PROVE  Sent(FatRoot(k), k)
<1> DEFINE root == CHOOSE r \in printed : r.layer = 0
<1>1. root \in printed /\ root.layer = 0
  BY DEF Tables
<1>2. k \in Int /\ 0 < k /\ k # 0
  <2>1. \A x \in Keys : x \in Int /\ 0 < x
    BY ConstantsAssumption
  <2> QED BY <2>1
<1>3. FatRoot(k) = BoundBelow(root.bounds, k)
  BY <1>2 DEF FatRoot
<1> HIDE DEF root
<1>4. PICK b : b = root.bounds
  OBVIOUS
<1>5. /\ Shares(b, 0) /\ \A c \in DOMAIN b : pool[c].isLoaded2Switch
      /\ \E c \in DOMAIN b : InRange(k, cover[c])
  BY <1>1, <1>4 DEF Tables, RootRecord
<1>6. PICK e \in DOMAIN b : InRange(k, cover[e])
  BY <1>5
<1>7. Greatest(b, k, e) /\ \A c : Greatest(b, k, c) => c = e
  BY <1>2, <1>5, <1>6, BoundFinds
<1>8. FatRoot(k) = e
  BY <1>3, <1>4, <1>7, BoundBelowIs
<1>9. QED
  BY <1>5, <1>6, <1>8 DEF Shares, Sent

\* An inserted key leaves the switch with a good address.
LEMMA RouteSends ==
  ASSUME IInv, Tables, printed # {}, NEW k \in Keys
  PROVE  Sent(Route(k), k)
<1> DEFINE S == {n \in Nodes : Sent(n, k)}
<1>1. \A n : Sent(n, k) <=> n \in S
  BY DEF Sent
<1> HIDE DEF S
<1>2. ASSUME NEW l \in Nat \ {0}, NEW n \in S PROVE SwitchHop(l, n, k) \in S
  <2> DEFINE table == {r \in printed : r.layer = l /\ r.node = n}
             rec == CHOOSE r \in table : TRUE
  <2>1. CASE table = {} \/ k = 0
    BY <1>2, <2>1 DEF SwitchHop
  <2>2. CASE table # {} /\ k # 0
    <3>1. rec \in printed /\ rec.layer # 0 /\ rec.node = n
      <4>1. rec \in table
        BY <2>2
      <4> QED BY <4>1
    <3>2. SwitchHop(l, n, k) = BoundBelow(rec.bounds, k)
      BY <2>2 DEF SwitchHop
    <3> HIDE DEF table, rec
    <3>3. LayerRecord(rec)
      BY <3>1 DEF Tables
    <3>4. ~Value(n) /\ Sent(n, k)
      BY <1>1, <3>1, <3>3 DEF LayerRecord
    <3>5. Sent(BoundBelow(rec.bounds, k), k)
      BY <3>1, <3>3, <3>4 DEF LayerRecord, Sent
    <3> QED BY <1>1, <3>2, <3>5
  <2> QED BY <2>1, <2>2
<1>3. FatRoot(k) \in S
  BY <1>1, FatRootSends
<1>4. Route(k) \in S
  BY <1>2, <1>3, RouteIn
<1>5. QED
  BY <1>1, <1>4

\* Key 0 leaves it with the address of a node, too (a null pointer).
LEMMA RouteOfZero ==
  ASSUME IInv, Tables, printed # {}
  PROVE  Route(0) \in Addr
<1> DEFINE root == CHOOSE r \in printed : r.layer = 0
<1>1. root \in printed /\ root.layer = 0
  BY DEF Tables
<1>2. FatRoot(0) = BoundBelow(root.bounds, 1)
  BY DEF FatRoot
<1> HIDE DEF root
<1>3. PICK b : b = root.bounds
  OBVIOUS
<1>4. Shares(b, 0) /\ \E c \in DOMAIN b : b[c] = 0
  BY <1>1, <1>3 DEF Tables, RootRecord
<1>5. PICK e \in DOMAIN b : b[e] = 0
  BY <1>4
<1>6. \A d \in DOMAIN b : b[d] \in Nat /\ d \in Addr
  BY <1>4, NodesAreAddresses, FieldTypes, ConstantsAssumption DEF Shares, IInv
<1>7. Greatest(b, 1, e)
  <2>1. \A d \in DOMAIN b : b[d] < 1 => b[d] <= b[e]
    BY <1>5, <1>6
  <2> QED BY <1>5, <2>1 DEF Greatest
<1>8. BoundBelow(b, 1) \in DOMAIN b
  BY <1>7 DEF BoundBelow, Greatest
<1>9. FatRoot(0) \in Addr
  BY <1>2, <1>3, <1>6, <1>8
<1>10. \A l \in Nat \ {0}, n \in Addr : SwitchHop(l, n, 0) \in Addr
  BY DEF SwitchHop
<1>11. QED
  BY <1>9, <1>10, RouteIn

-----------------------------------------------------------------------------
(***************************************************************************)
(* What the NIC finds in memory.  A part of a node agrees with the tree    *)
(* unless a write to it is still to be done; of the array child[] the      *)
(* entries up to the tree's _size count, what is behind them may be old.   *)
(***************************************************************************)
Parts == {"node", "key", "child"}
ToWrite == [node : Addr, part : Parts, from : Addr]

MemTyped ==
  /\ mem = [n \in Addr |-> mem[n]]
  /\ \A n \in Addr : /\ DOMAIN mem[n] = {"isValue", "key", "slots", "val"}
                     /\ mem[n].key \in Seq(Keys) /\ mem[n].slots \in Seq(Addr)
  /\ writes \in Seq(ToWrite)

\* The array b begins with the array a.
Begins(a, b) == \A i \in 1..Len(a) : i \in DOMAIN b /\ b[i] = a[i]

\* Of these writes, some are to one of these parts of the node.
Pends(ws, n, parts) == \E w \in ToSet(ws) : w.node = n /\ w.part \in parts

MemAgrees ==
  \A n \in Nodes :
    /\ ~Pends(writes, n, {"node"}) =>
         /\ mem[n].isValue = pool[n].isValue
         /\ Value(n) => mem[n].val = pool[n].val
    /\ ~Pends(writes, n, {"node", "key"}) => mem[n].key = pool[n].key
    /\ ~Pends(writes, n, {"node", "child"}) => Begins(pool[n].child, mem[n].slots)

\* A write of the list is pending.
LEMMA ListedPends ==
  ASSUME NEW ws, NEW i \in DOMAIN ws, NEW parts, ws[i].part \in parts
  PROVE  Pends(ws, ws[i].node, parts)
<1>1. ws[i] \in ToSet(ws)
  BY DEF ToSet
<1>2. QED
  BY <1>1 DEF Pends

\* A fresh array over an old one.
LEMMA OverIs ==
  ASSUME NEW S, NEW a \in Seq(S), NEW b \in Seq(S)
  PROVE  Over(a, b) \in Seq(S) /\ Begins(a, Over(a, b))
<1> DEFINE old == SubSeq(b, Len(a) + 1, Len(b))
<1>1. Len(a) \in Nat /\ Len(b) \in Nat /\ Len(a) + 1 \in Nat
  OBVIOUS
<1>2. PICK m, l : m = Len(a) + 1 /\ l = Len(b)
  OBVIOUS
<1>3. SubSeq(b, m, l) \in Seq(S)
  <2>1. CASE m > l
    BY <1>1, <1>2, <2>1, SubSeqEmpty
  <2>2. CASE m <= l
    <3>1. m \in 1..(l + 1) /\ l \in (m - 1)..l
      BY <1>1, <1>2, <2>2
    <3> QED BY <1>1, <1>2, <3>1, SubSeqProperties
  <2> QED BY <1>1, <1>2, <2>1, <2>2
<1>4. PICK o : o = old /\ o \in Seq(S)
  BY <1>2, <1>3
<1>5. PICK c : c = a \o o
  OBVIOUS
<1>6. /\ c \in Seq(S) /\ Len(c) = Len(a) + Len(o) /\ Len(o) \in Nat
      /\ \A j \in 1..(Len(a) + Len(o)) : c[j] = IF j <= Len(a) THEN a[j] ELSE o[j - Len(a)]
  BY <1>4, <1>5, ConcatProperties
<1>7. DOMAIN c = 1..Len(c)
  BY <1>6, LenProperties
<1>8. Begins(a, c)
  <2> SUFFICES ASSUME NEW i \in 1..Len(a) PROVE i \in DOMAIN c /\ c[i] = a[i]
    BY DEF Begins
  <2>1. i \in 1..(Len(a) + Len(o)) /\ i <= Len(a)
    BY <1>1, <1>6
  <2> QED BY <1>6, <1>7, <2>1
<1>9. Over(a, b) = c
  BY <1>4, <1>5 DEF Over
<1>10. QED
  BY <1>6, <1>8, <1>9

\* The first write and those after it.
LEMMA FirstWrite ==
  ASSUME writes \in Seq(ToWrite), writes # <<>>
  PROVE  /\ Head(writes) \in ToWrite /\ Tail(writes) \in Seq(ToWrite)
         /\ ToSet(writes) = {Head(writes)} \cup ToSet(Tail(writes))
<1>1. PICK ws : ws = writes /\ ws \in Seq(ToWrite) /\ ws # <<>>
  OBVIOUS
<1> DEFINE rest == Tail(ws)
<1>2. /\ Len(ws) \in Nat /\ Len(ws) >= 1 /\ DOMAIN ws = 1..Len(ws)
      /\ Head(ws) = ws[1] /\ rest \in Seq(ToWrite) /\ Len(rest) = Len(ws) - 1
      /\ \A i \in 1..Len(rest) : rest[i] = ws[i + 1]
  BY <1>1, HeadTailProperties, EmptySeq, LenProperties
<1>3. DOMAIN rest = 1..Len(rest)
  BY <1>2, LenProperties
<1> HIDE DEF rest
<1>4. ASSUME NEW i \in DOMAIN ws PROVE ws[i] = Head(ws) \/ \E j \in DOMAIN rest : rest[j] = ws[i]
  <2>1. CASE i = 1
    BY <1>2, <2>1
  <2>2. CASE i # 1
    <3>1. i - 1 \in 1..Len(rest) /\ (i - 1) + 1 = i
      BY <1>2, <2>2
    <3> QED BY <1>2, <1>3, <3>1
  <2> QED BY <2>1, <2>2
<1>5. ASSUME NEW j \in DOMAIN rest PROVE \E i \in DOMAIN ws : ws[i] = rest[j]
  <2>1. j + 1 \in DOMAIN ws
    BY <1>2, <1>3
  <2> QED BY <1>2, <1>3, <2>1
<1>6. 1 \in DOMAIN ws
  BY <1>2
<1>7. ToSet(ws) = {Head(ws)} \cup ToSet(rest)
  <2>1. ASSUME NEW w \in ToSet(ws) PROVE w \in {Head(ws)} \cup ToSet(rest)
    BY <1>4, <2>1, Zenon DEF ToSet
  <2>2. ASSUME NEW w \in ToSet(rest) PROVE w \in ToSet(ws)
    BY <1>5, <2>2, Zenon DEF ToSet
  <2>3. Head(ws) \in ToSet(ws)
    BY <1>2, <1>6, Zenon DEF ToSet
  <2> QED BY <2>1, <2>2, <2>3
<1>8. QED
  BY <1>1, <1>2, <1>7 DEF rest

\* A write that reaches memory brings its part of the node up to date.
LEMMA WriteOneAgrees ==
  ASSUME TypeOK, MemTyped, MemAgrees, WriteOne
  PROVE  MemTyped' /\ MemAgrees'
<1> DEFINE w == Head(writes)
<1>1. /\ writes \in Seq(ToWrite) /\ writes # <<>> /\ writes' = Tail(writes)
      /\ UNCHANGED <<pool, nb_node>>
  BY DEF MemTyped, WriteOne, vars, treeVars
<1>2. /\ w.node \in Addr /\ w.part \in Parts /\ w.from \in Addr /\ Tail(writes) \in Seq(ToWrite)
      /\ ToSet(writes) = {w} \cup ToSet(Tail(writes))
  BY <1>1, FirstWrite DEF ToWrite
<1>3. PICK m, part, slots :
        m = w.node /\ part = w.part /\ slots = Over(pool[w.node].child, mem[w.from].slots)
  OBVIOUS
<1>4. slots \in Seq(Addr) /\ Begins(pool[m].child, slots)
  <2>1. pool[m].child \in Seq(Addr) /\ mem[w.from].slots \in Seq(Addr)
    BY <1>2, <1>3, FieldTypes DEF MemTyped
  <2> QED BY <1>3, <2>1, OverIs
<1>5. mem' = [mem EXCEPT ![m] =
        [isValue |-> IF part = "node" THEN pool[m].isValue ELSE mem[m].isValue,
         key     |-> IF part \in {"node", "key"} THEN pool[m].key ELSE mem[m].key,
         slots   |-> IF part \in {"node", "child"} THEN slots ELSE mem[m].slots,
         val     |-> IF part = "node" THEN pool[m].val ELSE mem[m].val]]
  BY <1>3 DEF WriteOne
<1> HIDE DEF w
<1>6. /\ m \in Addr /\ part \in Parts /\ mem = [n \in Addr |-> mem[n]]
      /\ pool[m].key \in Seq(Keys)
  BY <1>2, <1>3, FieldTypes DEF MemTyped
<1>7. /\ mem' = [n \in Addr |-> mem'[n]]
      /\ \A n \in Addr \ {m} : mem'[n] = mem[n]
      /\ DOMAIN mem'[m] = {"isValue", "key", "slots", "val"}
      /\ part = "node" => mem'[m].isValue = pool[m].isValue /\ mem'[m].val = pool[m].val
      /\ part # "node" => mem'[m].isValue = mem[m].isValue /\ mem'[m].val = mem[m].val
      /\ mem'[m].key = IF part \in {"node", "key"} THEN pool[m].key ELSE mem[m].key
      /\ mem'[m].slots = IF part \in {"node", "child"} THEN slots ELSE mem[m].slots
  BY <1>5, <1>6
<1>8. MemTyped'
  <2>1. mem[m].key \in Seq(Keys) /\ mem[m].slots \in Seq(Addr)
    BY <1>6 DEF MemTyped
  <2>2. /\ DOMAIN mem'[m] = {"isValue", "key", "slots", "val"}
        /\ mem'[m].key \in Seq(Keys) /\ mem'[m].slots \in Seq(Addr)
    BY <1>4, <1>6, <1>7, <2>1
  <2>3. ASSUME NEW n \in Addr
        PROVE  /\ DOMAIN mem'[n] = {"isValue", "key", "slots", "val"}
               /\ mem'[n].key \in Seq(Keys) /\ mem'[n].slots \in Seq(Addr)
    BY <1>7, <2>2 DEF MemTyped
  <2> QED BY <1>1, <1>2, <1>7, <2>3 DEF MemTyped
<1>9. ASSUME NEW n, NEW parts, Pends(writes, n, parts), n # m \/ part \notin parts
      PROVE  Pends(writes', n, parts)
  BY <1>1, <1>2, <1>3, <1>9 DEF Pends
<1>10. ASSUME NEW n \in Nodes
       PROVE  /\ ~Pends(writes', n, {"node"}) =>
                   /\ mem'[n].isValue = pool[n].isValue
                   /\ Value(n) => mem'[n].val = pool[n].val
              /\ ~Pends(writes', n, {"node", "key"}) => mem'[n].key = pool[n].key
              /\ ~Pends(writes', n, {"node", "child"}) => Begins(pool[n].child, mem'[n].slots)
  <2>1. /\ ~Pends(writes, n, {"node"}) =>
             /\ mem[n].isValue = pool[n].isValue
             /\ Value(n) => mem[n].val = pool[n].val
        /\ ~Pends(writes, n, {"node", "key"}) => mem[n].key = pool[n].key
        /\ ~Pends(writes, n, {"node", "child"}) => Begins(pool[n].child, mem[n].slots)
    BY DEF MemAgrees
  <2>2. n \in Addr
    BY NodesAreAddresses
  <2>3. CASE n # m
    BY <1>7, <1>9, <2>1, <2>2, <2>3
  <2>4. CASE n = m
    <3>1. ASSUME ~Pends(writes', n, {"node"})
          PROVE  mem'[n].isValue = pool[n].isValue /\ (Value(n) => mem'[n].val = pool[n].val)
      BY <1>7, <1>9, <2>1, <2>4, <3>1
    <3>2. ASSUME ~Pends(writes', n, {"node", "key"}) PROVE mem'[n].key = pool[n].key
      BY <1>7, <1>9, <2>1, <2>4, <3>2
    <3>3. ASSUME ~Pends(writes', n, {"node", "child"}) PROVE Begins(pool[n].child, mem'[n].slots)
      BY <1>4, <1>7, <1>9, <2>1, <2>4, <3>3
    <3> QED BY <3>1, <3>2, <3>3
  <2> QED BY <2>3, <2>4
<1>11. MemAgrees'
  BY <1>1, <1>10 DEF MemAgrees, Nodes, Value
<1>12. QED
  BY <1>8, <1>11

\* The list of a step's writes names nodes of the pool.
LEMMA ListTyped ==
  ASSUME NEW a \in Addr, NEW b \in Addr, NEW c \in Addr
  PROVE  /\ <<>> \in Seq(ToWrite)
         /\ <<Write(b, "node"), Write(a, "key"), Write(a, "child")>> \in Seq(ToWrite)
         /\ <<CopyOf(b, a), Write(a, "key"), Write(a, "child")>> \in Seq(ToWrite)
         /\ <<Write(b, "node"), Write(a, "key"), Write(c, "key"), Write(c, "child")>> \in Seq(ToWrite)
<1>1. /\ \A n \in Addr, p \in Parts : Write(n, p) \in ToWrite
      /\ CopyOf(b, a) \in ToWrite
  BY DEF Write, CopyOf, ToWrite, Parts
<1>2. /\ Write(b, "node") \in ToWrite /\ Write(a, "key") \in ToWrite /\ Write(a, "child") \in ToWrite
      /\ Write(c, "key") \in ToWrite /\ Write(c, "child") \in ToWrite
  BY <1>1 DEF Parts
<1>3. QED
  BY <1>1, <1>2

\* What the lists have pending.
LEMMA ListPends ==
  ASSUME NEW a, NEW b, NEW c, NEW P
  PROVE  LET leaf  == <<Write(b, "node"), Write(a, "key"), Write(a, "child")>>
             copy  == <<CopyOf(b, a), Write(a, "key"), Write(a, "child")>>
             split == <<Write(b, "node"), Write(a, "key"), Write(c, "key"), Write(c, "child")>>
         IN  /\ "node" \in P => Pends(leaf, b, P) /\ Pends(copy, b, P) /\ Pends(split, b, P)
             /\ "key" \in P => /\ Pends(leaf, a, P) /\ Pends(copy, a, P)
                               /\ Pends(split, a, P) /\ Pends(split, c, P)
             /\ "child" \in P => Pends(leaf, a, P) /\ Pends(copy, a, P) /\ Pends(split, c, P)
<1>1. PICK wb, wa, wc, xa, xc, cp :
        /\ wb = Write(b, "node") /\ wa = Write(a, "key") /\ wc = Write(c, "key")
        /\ xa = Write(a, "child") /\ xc = Write(c, "child") /\ cp = CopyOf(b, a)
  OBVIOUS
<1>2. /\ wb.node = b /\ wb.part = "node" /\ cp.node = b /\ cp.part = "node"
      /\ wa.node = a /\ wa.part = "key" /\ wc.node = c /\ wc.part = "key"
      /\ xa.node = a /\ xa.part = "child" /\ xc.node = c /\ xc.part = "child"
  BY <1>1 DEF Write, CopyOf
<1>3. /\ wb \in ToSet(<<wb, wa, xa>>) /\ wa \in ToSet(<<wb, wa, xa>>) /\ xa \in ToSet(<<wb, wa, xa>>)
      /\ cp \in ToSet(<<cp, wa, xa>>) /\ wa \in ToSet(<<cp, wa, xa>>) /\ xa \in ToSet(<<cp, wa, xa>>)
      /\ wb \in ToSet(<<wb, wa, wc, xc>>) /\ wa \in ToSet(<<wb, wa, wc, xc>>)
      /\ wc \in ToSet(<<wb, wa, wc, xc>>) /\ xc \in ToSet(<<wb, wa, wc, xc>>)
  <2>1. \A x, y, z : LET s == <<x, y, z>> IN
          1 \in DOMAIN s /\ 2 \in DOMAIN s /\ 3 \in DOMAIN s /\ s[1] = x /\ s[2] = y /\ s[3] = z
    OBVIOUS
  <2>2. \A x, y, z, v : LET s == <<x, y, z, v>> IN
          /\ 1 \in DOMAIN s /\ 2 \in DOMAIN s /\ 3 \in DOMAIN s /\ 4 \in DOMAIN s
          /\ s[1] = x /\ s[2] = y /\ s[3] = z /\ s[4] = v
    OBVIOUS
  <2>3. \A s : \A i \in DOMAIN s : s[i] \in ToSet(s)
    BY DEF ToSet
  <2>4. \A x, y, z : x \in ToSet(<<x, y, z>>) /\ y \in ToSet(<<x, y, z>>) /\ z \in ToSet(<<x, y, z>>)
    <3> TAKE x, y, z
    <3> DEFINE s == <<x, y, z>>
    <3>1. s[1] \in ToSet(s) /\ s[2] \in ToSet(s) /\ s[3] \in ToSet(s)
      BY <2>1, <2>3
    <3> QED BY <2>1, <3>1
  <2>5. \A x, y, z, v : /\ x \in ToSet(<<x, y, z, v>>) /\ y \in ToSet(<<x, y, z, v>>)
                        /\ z \in ToSet(<<x, y, z, v>>) /\ v \in ToSet(<<x, y, z, v>>)
    <3> TAKE x, y, z, v
    <3> DEFINE s == <<x, y, z, v>>
    <3>1. s[1] \in ToSet(s) /\ s[2] \in ToSet(s) /\ s[3] \in ToSet(s) /\ s[4] \in ToSet(s)
      BY <2>2, <2>3
    <3> QED BY <2>2, <3>1
  <2> QED BY <2>4, <2>5, Zenon
<1>4. /\ "node" \in P => Pends(<<wb, wa, xa>>, b, P) /\ Pends(<<cp, wa, xa>>, b, P)
                         /\ Pends(<<wb, wa, wc, xc>>, b, P)
      /\ "key" \in P => /\ Pends(<<wb, wa, xa>>, a, P) /\ Pends(<<cp, wa, xa>>, a, P)
                        /\ Pends(<<wb, wa, wc, xc>>, a, P) /\ Pends(<<wb, wa, wc, xc>>, c, P)
      /\ "child" \in P => /\ Pends(<<wb, wa, xa>>, a, P) /\ Pends(<<cp, wa, xa>>, a, P)
                          /\ Pends(<<wb, wa, wc, xc>>, c, P)
  BY <1>2, <1>3, Zenon DEF Pends
<1>5. QED
  BY <1>1, <1>4

LEMMA BeginsKeep ==
  ASSUME NEW S, NEW s \in Seq(S), NEW n \in 0..Len(s)
  PROVE  Begins(Keep(s, n), s)
<1>1. Len(Keep(s, n)) = n /\ \A i \in 1..n : Keep(s, n)[i] = s[i]
  BY KeepProps
<1>2. DOMAIN s = 1..Len(s) /\ Len(s) \in Nat
  BY LenProperties
<1>3. \A i \in 1..n : i \in DOMAIN s
  BY <1>2
<1>4. QED
  BY <1>1, <1>3 DEF Begins

(* What a step of the backend changes in the arrays of a node, it has to   *)
(* write: only the array that erase() shortens needs no write.             *)
WritesChanges ==
  /\ writes' \in Seq(ToWrite)
  /\ \A n \in Nodes :
       /\ ~Pends(writes', n, {"node", "key"}) => pool'[n].key = pool[n].key
       /\ ~Pends(writes', n, {"node", "child"}) =>
            pool'[n].child = pool[n].child \/ Begins(pool'[n].child, pool[n].child)
  /\ \A n \in Nodes' \ Nodes : Pends(writes', n, {"node"})

\* A node is taken from the pool.
LEMMA NodeTaken ==
  ASSUME IInv, nb_node < MaxNodes, nb_node' = nb_node + 1, NEW a, a = cur, NEW b, b = nb_node
  PROVE  a \in Addr /\ a \in Nodes /\ b \in Addr /\ b \notin Nodes /\ Nodes' = Nodes \cup {b}
<1>1. a \in Nodes /\ Nodes \subseteq Addr
  BY NodesAreAddresses DEF IInv, Backend
<1>2. nb_node \in Nat /\ MaxNodes \in Nat
  BY ConstantsAssumption DEF IInv, TypeOK
<1>3. b \in Addr /\ b \notin Nodes /\ Nodes' = Nodes \cup {b}
  BY <1>2 DEF Nodes, Addr
<1>4. QED
  BY <1>1, <1>3

\* The step of a list of writes to nodes a (keys, children) and b (all).
LEMMA InsertWrites ==
  ASSUME IInv, LeafInsert, writes' = LeafWrites
  PROVE  WritesChanges
<1>1. PICK a, b : a = cur /\ b = nb_node
  OBVIOUS
<1>2. a \in Addr /\ a \in Nodes /\ b \in Addr /\ b \notin Nodes /\ Nodes' = Nodes \cup {b}
  BY <1>1, NodeTaken DEF LeafInsert
<1>3. writes' = <<Write(b, "node"), Write(a, "key"), Write(a, "child")>>
  BY <1>1 DEF LeafWrites
<1>4. \A n \in Nodes \ {a} : pool'[n] = pool[n]
  BY <1>1, <1>2, NodesAreAddresses DEF LeafInsert, IInv, TypeOK
<1>5. /\ writes' \in Seq(ToWrite) /\ Pends(writes', b, {"node"})
      /\ Pends(writes', a, {"node", "key"}) /\ Pends(writes', a, {"node", "child"})
  BY <1>2, <1>3, ListTyped, ListPends
<1>6. QED
  BY <1>2, <1>4, <1>5 DEF WritesChanges

LEMMA CopyWritesChanges ==
  ASSUME IInv, OverflowCopy, writes' = CopyWrites
  PROVE  WritesChanges
<1>1. PICK a, b : a = cur /\ b = nb_node
  OBVIOUS
<1>2. a \in Addr /\ a \in Nodes /\ b \in Addr /\ b \notin Nodes /\ Nodes' = Nodes \cup {b}
  BY <1>1, NodeTaken DEF OverflowCopy
<1>3. writes' = <<CopyOf(b, a), Write(a, "key"), Write(a, "child")>>
  BY <1>1 DEF CopyWrites
<1>4. ASSUME NEW n \in Nodes \ {a}
      PROVE  pool'[n].key = pool[n].key /\ pool'[n].child = pool[n].child
  <2>1. n \in Addr /\ n # b /\ pool[n] \in Node
    BY <1>2, NodesAreAddresses, FieldTypes DEF IInv
  <2>2. pool'[n] = pool[n] \/ pool'[n] = [pool[n] EXCEPT !.parent = b]
    BY <1>1, <1>4, <2>1 DEF OverflowCopy
  <2> QED BY <2>1, <2>2 DEF Node
<1>5. /\ writes' \in Seq(ToWrite) /\ Pends(writes', b, {"node"})
      /\ Pends(writes', a, {"node", "key"}) /\ Pends(writes', a, {"node", "child"})
  BY <1>2, <1>3, ListTyped, ListPends
<1>6. QED
  BY <1>2, <1>4, <1>5 DEF WritesChanges

LEMMA SplitWritesChanges ==
  ASSUME IInv, SplitLeaf \/ SplitInner, writes' = SplitWrites(cur')
  PROVE  WritesChanges
<1>1. PICK a, b, c : a = cur /\ b = nb_node /\ c = pool[cur].parent
  OBVIOUS
<1>2. /\ Splitting /\ nb_node < MaxNodes /\ nb_node' = nb_node + 1 /\ cur' = c
  BY <1>1 DEF SplitLeaf, SplitInner
<1>3. /\ TypeOK /\ a \in Nodes /\ a \in Addr /\ Nodes \subseteq Addr /\ pool[a] \in Node
      /\ b \in Addr /\ b \notin Nodes /\ b # a /\ b # c /\ Nodes' = Nodes \cup {b}
      /\ c \in Nodes /\ c \in Addr /\ c # a
      /\ pool[a].child \in Seq(Addr) /\ Half + 1 \in 0..M /\ Half \in 0..M
      /\ Len(pool[a].child) = IF Leaf(a) THEN M ELSE M + 1
  BY <1>1, <1>2, SplitStart
<1>4. writes' = <<Write(b, "node"), Write(a, "key"), Write(c, "key"), Write(c, "child")>>
  BY <1>1, <1>2 DEF SplitWrites
<1>5. /\ writes' \in Seq(ToWrite) /\ Pends(writes', b, {"node"})
      /\ Pends(writes', a, {"node", "key"})
      /\ Pends(writes', c, {"node", "key"}) /\ Pends(writes', c, {"node", "child"})
  BY <1>3, <1>4, ListTyped, ListPends
<1>6. /\ \A n \in Nodes \ {a, c} : pool'[n].key = pool[n].key /\ pool'[n].child = pool[n].child
      /\ \E h : h \in 0..Len(pool[a].child) /\ pool'[a].child = Keep(pool[a].child, h)
  <2>1. CASE SplitLeaf
    <3>1. \A n \in Nodes \ {a, c} : pool'[n] = pool[n]
      BY <1>1, <1>3, <2>1 DEF SplitLeaf, TypeOK
    <3>2. \E ks : pool'[a] = [pool[a] EXCEPT !.key = ks, !.child = Keep(pool[a].child, Half)]
      BY <1>1, <1>3, <2>1 DEF SplitLeaf, TypeOK
    <3>3. pool'[a].child = Keep(pool[a].child, Half)
      BY <1>3, <3>2 DEF Node
    <3>4. Half \in 0..Len(pool[a].child)
      BY <1>1, <1>3, <2>1 DEF SplitLeaf, Leaf
    <3> QED BY <3>1, <3>3, <3>4
  <2>2. CASE SplitInner
    <3> DEFINE cs    == pool[a].child
               ks    == pool[a].key
               moved == From(cs, Half + 1)
               new   == [FreshNode EXCEPT !.isLeaf = FALSE, !.parent = c,
                                          !.key = From(ks, Half + 1), !.child = moved]
               left  == [pool[a] EXCEPT !.key = Keep(ks, Half), !.child = Keep(cs, Half + 1)]
               up    == LinkRight(pool[c], ks[Half + 1], ks[Half + 1])
               kids  == ToSet(moved)
               kid   == [n \in Addr |-> [pool[n] EXCEPT !.parent = b]]
    <3>1. pool' = [n \in Addr |-> CASE n = b -> new [] n = a -> left [] n = c -> up
                                    [] n \in kids -> kid[n] [] OTHER -> pool[n]]
      BY <1>1, <2>2 DEF SplitInner
    <3>2. \A n \in Addr : kid[n] = [pool[n] EXCEPT !.parent = b]
      OBVIOUS
    <3>3. Leaf(a) = FALSE /\ Len(cs) = M + 1 /\ Half + 1 \in 0..Len(cs) /\ cs \in Seq(Addr)
      BY <1>1, <1>3, <2>2, ConstantsAssumption DEF SplitInner, Leaf, Node
    <3>4. a \notin kids
      <4> DEFINE h == Half + 1
      <4>1. cs \in Seq(Addr) /\ h \in 0..Len(cs)
        BY <3>3
      <4>2. ToSet(From(cs, h)) \subseteq ToSet(cs)
        <5> HIDE DEF cs, h
        <5> QED BY ONLY <4>1, PartKids
      <4>3. Len(pool[a].key) >= 1 /\ TypeOK /\ Shape /\ ~Value(a)
        BY <1>1, <1>2, SplitStart, HalfBounds
      <4>4. \A i \in 1..Len(cs) : cs[i] # a
        BY <1>3, <4>3, NotOwnChild
      <4>5. a \notin ToSet(cs)
        BY <4>1, <4>4, LenProperties DEF ToSet
      <4> QED BY <4>2, <4>5
    <3> HIDE DEF new, left, up, kids, kid, moved
    <3>5. /\ \A n \in Addr : n # b /\ n # a /\ n # c => pool'[n] = pool[n] \/ pool'[n] = kid[n]
          /\ pool'[a] = left
      BY ONLY <1>3, <3>1, <3>4
    <3>6. ASSUME NEW n \in Nodes \ {a, c}
          PROVE  pool'[n].key = pool[n].key /\ pool'[n].child = pool[n].child
      <4>1. n \in Addr /\ n # b /\ pool[n] \in Node
        BY <1>3, FieldTypes
      <4>2. pool'[n] = pool[n] \/ pool'[n] = [pool[n] EXCEPT !.parent = b]
        BY <3>6, <3>2, <3>5, <4>1
      <4> QED BY <4>1, <4>2 DEF Node
    <3>7. pool'[a] = [pool[a] EXCEPT !.key = Keep(@, Half), !.child = Keep(@, Half + 1)]
      BY <3>5 DEF left
    <3>8. pool'[a].child = Keep(pool[a].child, Half + 1)
      BY <1>3, <3>7 DEF Node
    <3>9. Half + 1 \in 0..Len(pool[a].child)
      BY <1>1, <1>3, <2>2, ConstantsAssumption DEF SplitInner, Leaf
    <3> QED BY <3>6, <3>8, <3>9
  <2> QED BY <2>1, <2>2
<1>7. Begins(pool'[a].child, pool[a].child)
  BY <1>3, <1>6, BeginsKeep
<1>8. QED
  BY <1>3, <1>5, <1>6, <1>7 DEF WritesChanges

LEMMA BackendWrites ==
  ASSUME IInv, BackendStep
  PROVE  WritesChanges
<1>1. CASE (Descend \/ OverflowDone \/ LoadStep) /\ writes' = <<>>
  <2>1. SameTree /\ Nodes' = Nodes
    <3>1. CASE Descend \/ OverflowDone \/ \E n \in Addr : Expand(n)
      BY <3>1, SameTreeUnchanged DEF Descend, OverflowDone, Expand, treeVars
    <3>2. CASE PrintRoot
      BY <3>2, MarkLoadedSame DEF PrintRoot, IInv
    <3>3. CASE PrintLayer
      BY <3>3, MarkLoadedSame DEF PrintLayer, IInv
    <3> QED BY <1>1, <3>1, <3>2, <3>3 DEF LoadStep
  <2>2. \A n \in Nodes : pool'[n].key = pool[n].key /\ pool'[n].child = pool[n].child
    BY <2>1, NodesAreAddresses DEF SameTree, IInv
  <2>3. writes' \in Seq(ToWrite)
    BY <1>1
  <2> QED BY <2>1, <2>2, <2>3 DEF WritesChanges
<1>2. CASE LeafInsert /\ writes' = LeafWrites
  BY <1>2, InsertWrites
<1>3. CASE OverflowCopy /\ writes' = CopyWrites
  BY <1>3, CopyWritesChanges
<1>4. CASE (SplitLeaf \/ SplitInner) /\ writes' = SplitWrites(cur')
  BY <1>4, SplitWritesChanges
<1>5. QED
  BY <1>1, <1>2, <1>3, <1>4, Zenon DEF BackendStep

\* A step of the backend leaves to be written what it changes.
LEMMA BackendAgrees ==
  ASSUME IInv, MemAgrees, BackendStep, [Next]_vars
  PROVE  MemAgrees'
<1>1. WritesChanges /\ writes = <<>> /\ mem' = mem
  BY BackendWrites DEF BackendStep
<1>2. \A n, P : ~Pends(writes, n, P)
  <2>1. ToSet(writes) = {}
    BY <1>1 DEF ToSet
  <2> QED BY <2>1 DEF Pends
<1>3. ASSUME NEW n \in Nodes'
      PROVE  /\ ~Pends(writes', n, {"node"}) =>
                  /\ mem[n].isValue = pool'[n].isValue
                  /\ pool'[n].isValue => mem[n].val = pool'[n].val
             /\ ~Pends(writes', n, {"node", "key"}) => mem[n].key = pool'[n].key
             /\ ~Pends(writes', n, {"node", "child"}) => Begins(pool'[n].child, mem[n].slots)
  <2>1. CASE n \in Nodes
    <3>1. /\ mem[n].isValue = pool[n].isValue /\ (Value(n) => mem[n].val = pool[n].val)
          /\ mem[n].key = pool[n].key /\ Begins(pool[n].child, mem[n].slots)
      BY <1>2, <2>1 DEF MemAgrees
    <3>2. /\ pool'[n].isValue = pool[n].isValue
          /\ Value(n) => pool'[n].val = pool[n].val
      BY <2>1, NodesStay DEF Value
    <3>3. /\ ~Pends(writes', n, {"node", "key"}) => pool'[n].key = pool[n].key
          /\ ~Pends(writes', n, {"node", "child"}) =>
               pool'[n].child = pool[n].child \/ Begins(pool'[n].child, pool[n].child)
      BY <1>1, <2>1 DEF WritesChanges
    <3>4. ASSUME Begins(pool'[n].child, pool[n].child)
          PROVE  Begins(pool'[n].child, mem[n].slots)
      <4>1. DOMAIN pool[n].child = 1..Len(pool[n].child)
        BY <2>1, NodesAreAddresses, FieldTypes, LenProperties DEF IInv
      <4> QED BY <3>1, <3>4, <4>1 DEF Begins
    <3> QED BY <3>1, <3>2, <3>3, <3>4 DEF Value
  <2>2. CASE n \notin Nodes
    <3>1. Pends(writes', n, {"node"})
      BY <1>1, <2>2 DEF WritesChanges
    <3>2. Pends(writes', n, {"node", "key"}) /\ Pends(writes', n, {"node", "child"})
      BY <3>1 DEF Pends
    <3> QED BY <3>1, <3>2
  <2> QED BY <2>1, <2>2
<1>4. QED
  BY <1>1, <1>3 DEF MemAgrees, Value

-----------------------------------------------------------------------------
(***************************************************************************)
(* What the frontend holds: keys of the workload's counter, addresses of   *)
(* the pool, also in the entries of an array beyond its _size, and         *)
(* acknowledged keys that are stored.                                      *)
(***************************************************************************)
ThreadTyped(t) ==
  /\ op[t].kind \in {"none", "insert", "read"}
  /\ op[t].kind = "insert" => op[t].key \in issued
  /\ Reading(t) =>
       /\ DOMAIN op[t] = ReadFields
       /\ op[t].key \in issued /\ op[t].at \in Addr
       /\ op[t].step \in {"header", "rest", "hop"}
       /\ op[t].known => op[t].key \in acked
       /\ printed # {} /\ ~Loading

ClientData ==
  /\ acked \subseteq issued /\ issued \subseteq Keys /\ snapshot \subseteq issued
  /\ acked \subseteq Stored /\ key_map \subseteq issued
  /\ Loading => snapshot = key_map
  /\ DOMAIN remote_node = {"isValue", "key", "slots", "val"}
  /\ remote_node.slots \in Seq(Addr)
  /\ MemTyped

ClientTyped == ClientData /\ \A t \in Threads : ThreadTyped(t)

\* The keys handed to insert(), the print-out and the load in a backend's step.
LEMMA BackendKeeps ==
  ASSUME InsertStep \/ LoadStep
  PROVE  /\ key_map' = key_map
         /\ InsertStep => ~Loading /\ ~Loading' /\ printed' = printed
         /\ LoadStep => Loading
  BY DEF InsertStep, LoadStep, Descend, LeafInsert, OverflowDone, OverflowCopy, SplitLeaf,
         SplitInner, Splitting, Expand, PrintRoot, PrintLayer, treeVars, loadVars, Loading

\* A step of the backend notes which reads it overtakes.
LEMMA BackendMarks ==
  ASSUME BackendStep, NEW t \in Threads, ThreadTyped(t)
  PROVE  /\ ~Reading(t) => op'[t] = op[t]
         /\ op'[t].kind = op[t].kind
         /\ Reading(t) =>
              /\ DOMAIN op'[t] = ReadFields
              /\ op'[t].key = op[t].key /\ op'[t].at = op[t].at /\ op'[t].step = op[t].step
              /\ op'[t].known = op[t].known
              /\ ~op'[t].overtaken => ~op[t].overtaken /\ ~Overtaken(t)
<1> DEFINE marks == [u \in Threads |-> op[u].overtaken \/ Overtaken(u)]
<1>1. op' = [u \in Threads |-> IF Reading(u)
               THEN [op[u] EXCEPT !.overtaken = @ \/ Overtaken(u)] ELSE op[u]]
  BY Zenon DEF BackendStep
<1>2. \A u \in Threads : marks[u] = (op[u].overtaken \/ Overtaken(u))
  BY Zenon
<1>3. op' = [u \in Threads |-> IF Reading(u)
               THEN [op[u] EXCEPT !.overtaken = marks[u]] ELSE op[u]]
  BY <1>1, <1>2, Zenon
<1> HIDE DEF marks
<1>4. /\ ~Reading(t) => op'[t] = op[t]
      /\ Reading(t) => op'[t] = [op[t] EXCEPT !.overtaken = marks[t]]
  BY <1>3
<1>5. Reading(t) => DOMAIN op[t] = ReadFields
  BY DEF ThreadTyped
<1>6. Reading(t) =>
        /\ DOMAIN op'[t] = ReadFields /\ op'[t].kind = op[t].kind
        /\ op'[t].key = op[t].key /\ op'[t].at = op[t].at /\ op'[t].step = op[t].step
        /\ op'[t].known = op[t].known /\ op'[t].overtaken = marks[t]
  BY <1>4, <1>5 DEF ReadFields
<1>7. ASSUME Reading(t), ~op'[t].overtaken
      PROVE  ~op[t].overtaken /\ ~Overtaken(t)
  <2>1. ~marks[t]
    BY <1>6, <1>7, Zenon
  <2> QED BY <1>2, <2>1, Zenon
<1>8. QED
  BY <1>4, <1>6, <1>7, Zenon

\* A thread that does not move is typed as before.
LEMMA ThreadKept ==
  ASSUME NEW t, ThreadTyped(t), op'[t] = op[t], issued \subseteq issued', acked \subseteq acked',
         Reading(t) => printed' = printed /\ ~Loading'
  PROVE  ThreadTyped(t)'
  BY DEF ThreadTyped, Reading

\* A step of one thread that leaves the backend alone.
LEMMA OneThreadMoves ==
  ASSUME ClientTyped, UNCHANGED <<vars, memVars, snapshot>>,
         NEW t \in Threads, \A u \in Threads \ {t} : op'[u] = op[u],
         issued \subseteq issued', acked \subseteq acked', ClientData', ThreadTyped(t)'
  PROVE  ClientTyped'
<1>1. printed' = printed /\ (Loading' <=> Loading)
  BY DEF vars, loadVars, Loading
<1>2. ASSUME NEW u \in Threads \ {t} PROVE ThreadTyped(u)'
  <2>1. ThreadTyped(u) /\ op'[u] = op[u]
    BY DEF ClientTyped
  <2>2. Reading(u) => printed' = printed /\ ~Loading'
    BY <1>1, <2>1 DEF ThreadTyped
  <2> QED BY <2>1, <2>2, ThreadKept
<1>3. QED
  BY <1>2 DEF ClientTyped

\* What the frontend's steps write besides `op'.
LEMMA DataStays ==
  ASSUME ClientData, UNCHANGED <<vars, memVars, snapshot>>, issued' \subseteq Keys,
         issued \subseteq issued', acked' \subseteq issued', acked' \subseteq Stored,
         DOMAIN remote_node' = {"isValue", "key", "slots", "val"}, remote_node'.slots \in Seq(Addr)
  PROVE  ClientData'
<1>1. key_map' = key_map /\ (Loading' <=> Loading) /\ Stored' = Stored /\ snapshot' = snapshot
  BY DEF vars, treeVars, Loading, Stored
<1>2. MemTyped'
  BY DEF ClientData, MemTyped, memVars
<1>3. QED
  BY <1>1, <1>2 DEF ClientData

\* The address a reader goes on to lies in the pool.
LEMMA NextInPool ==
  ASSUME IInv, Tables, ClientData, printed # {}, NEW t
  PROVE  NextAddress(t) \in Addr
<1> DEFINE i == LowerBound(remote_node.key, op[t].key)
<1>1. Route(0) \in Addr
  BY RouteOfZero
<1>2. \A j \in DOMAIN remote_node.slots : remote_node.slots[j] \in Addr
  BY ElementOfSeq, LenProperties DEF ClientData
<1> HIDE DEF i
<1>3. NextAddress(t) = IF i \in DOMAIN remote_node.slots THEN remote_node.slots[i] ELSE Route(0)
  BY DEF NextAddress, i
<1>4. QED
  BY <1>1, <1>2, <1>3

\* Half a node is fetched.
LEMMA FetchTyped ==
  ASSUME ClientTyped, KeysInFlight, NEW t \in Threads, Reading(t), NEW step, Fetched(t, step),
         step \in {"rest", "hop"}, UNCHANGED <<vars, issued, acked, memVars, snapshot>>
  PROVE  ThreadTyped(t)' /\ op' = [op EXCEPT ![t] = op'[t]]
<1>1. ThreadTyped(t) /\ DOMAIN op[t] = ReadFields /\ op = [u \in Threads |-> op[u]]
  BY DEF ClientTyped, ThreadTyped, KeysInFlight
<1>2. /\ op' = [u \in Threads |-> op'[u]] /\ \A u \in Threads \ {t} : op'[u] = op[u]
      /\ DOMAIN op'[t] = ReadFields /\ op'[t].kind = op[t].kind
      /\ op'[t].key = op[t].key /\ op'[t].at = op[t].at
      /\ op'[t].known = op[t].known /\ op'[t].step = step
  BY <1>1, FetchedIs
<1>3. printed' = printed /\ (Loading' <=> Loading)
  BY DEF vars, loadVars, Loading
<1>4. ThreadTyped(t)'
  BY <1>1, <1>2, <1>3 DEF ThreadTyped, Reading
<1>5. op' = [op EXCEPT ![t] = op'[t]]
  <2>1. PICK o : o = op'[t]
    OBVIOUS
  <2>2. op' = [op EXCEPT ![t] = o]
    BY <1>1, <1>2, <2>1
  <2> QED BY <2>1, <2>2
<1>6. QED
  BY <1>4, <1>5

LEMMA ThreadStepTyped ==
  ASSUME IInv, Tables, KeysInFlight, ClientTyped, NEW t \in Threads,
         \/ InsertReturns(t) \/ ReadStep(t)
         \/ \E k \in Keys : StartInsert(t, k) \/ StartRead(t, k)
  PROVE  ClientTyped'
<1>1. /\ ClientData /\ ThreadTyped(t) /\ op = [u \in Threads |-> op[u]]
      /\ issued \subseteq Keys /\ acked \subseteq issued /\ acked \subseteq Stored
      /\ DOMAIN remote_node = {"isValue", "key", "slots", "val"}
      /\ remote_node.slots \in Seq(Addr)
  BY DEF ClientTyped, ClientData, KeysInFlight
<1>2. UNCHANGED <<vars, memVars, snapshot>>
  BY DEF InsertReturns, ReadStep, FetchHeader, FetchRest, Hop, ReadReturns, StartInsert, StartRead
<1>3. printed' = printed /\ (Loading' <=> Loading) /\ key_map' = key_map /\ Stored' = Stored
  BY <1>2 DEF vars, treeVars, loadVars, Loading, Stored
<1>4. CASE InsertReturns(t)
  <2>1. /\ acked' = acked \cup {op[t].key} /\ op'[t] = Idle /\ issued' = issued
        /\ \A u \in Threads \ {t} : op'[u] = op[u]
        /\ remote_node' = remote_node /\ op[t].key \in issued
    BY <1>1, <1>4 DEF InsertReturns, ThreadTyped
  <2>2. op[t].key \in Stored
    BY <1>4 DEF InsertReturns, Stored
  <2>3. ThreadTyped(t)'
    BY <2>1 DEF ThreadTyped, Reading, Idle
  <2>4. ClientData'
    BY <1>1, <1>2, <2>1, <2>2, DataStays
  <2> QED BY <1>2, <2>1, <2>3, <2>4, OneThreadMoves
<1>5. ASSUME NEW k \in Keys, StartInsert(t, k) PROVE ClientTyped'
  <2>1. /\ op'[t] = InsertOf(k) /\ issued' = issued \cup {k} /\ acked' = acked
        /\ \A u \in Threads \ {t} : op'[u] = op[u]
        /\ remote_node' = remote_node
    BY <1>1, <1>5 DEF StartInsert
  <2>2. ThreadTyped(t)'
    BY <2>1 DEF ThreadTyped, Reading, InsertOf
  <2>3. ClientData'
    BY <1>1, <1>2, <2>1, DataStays
  <2> QED BY <1>2, <2>1, <2>2, <2>3, OneThreadMoves
<1>6. ASSUME NEW k \in Keys, StartRead(t, k) PROVE ClientTyped'
  <2>1. PICK n : n = Route(k)
    OBVIOUS
  <2>2. /\ op'[t] = ReadOf(k, n) /\ issued' = issued /\ acked' = acked
        /\ \A u \in Threads \ {t} : op'[u] = op[u]
        /\ remote_node' = remote_node /\ k \in issued /\ printed # {} /\ ~Loading
    BY <1>1, <1>6, <2>1 DEF StartRead
  <2>3. n \in Addr
    <3>1. Sent(n, k)
      BY <2>1, <2>2, RouteSends
    <3> QED BY <3>1, NodesAreAddresses DEF Sent, IInv
  <2>4. ThreadTyped(t)'
    <3>1. /\ op'[t].kind = "read" /\ op'[t].key = k /\ op'[t].at = n /\ op'[t].step = "header"
          /\ DOMAIN op'[t] = ReadFields
      BY <2>2 DEF ReadOf, ReadFields
    <3>2. PICK b : b = (k \in acked)
      OBVIOUS
    <3>3. op'[t] = [kind |-> "read", key |-> k, at |-> n, step |-> "header",
                    known |-> b, overtaken |-> FALSE]
      BY <2>2, <3>2, Zenon DEF ReadOf
    <3>4. op'[t].known = b
      BY <3>3
    <3>5. b => k \in acked
      BY <3>2, Zenon
    <3>6. op'[t].known => op'[t].key \in acked'
      BY <2>2, <3>1, <3>4, <3>5, Zenon
    <3> QED BY <1>3, <2>2, <2>3, <3>1, <3>6 DEF ThreadTyped, Reading
  <2>5. ClientData'
    BY <1>1, <1>2, <2>2, DataStays
  <2> QED BY <1>2, <2>2, <2>4, <2>5, OneThreadMoves
<1>7. ASSUME Reading(t), issued' = issued, acked' = acked,
             DOMAIN remote_node' = DOMAIN remote_node, remote_node'.slots \in Seq(Addr),
             op' = [op EXCEPT ![t] = op'[t]], ThreadTyped(t)'
      PROVE  ClientTyped'
  <2>1. \A u \in Threads \ {t} : op'[u] = op[u]
    BY <1>1, <1>7
  <2>2. ClientData'
    BY <1>1, <1>2, <1>7, DataStays
  <2> QED BY <1>2, <1>7, <2>1, <2>2, OneThreadMoves
<1>8. CASE FetchHeader(t)
  <2>1. /\ Reading(t) /\ issued' = issued /\ acked' = acked
        /\ DOMAIN remote_node' = DOMAIN remote_node /\ remote_node'.slots = remote_node.slots
    BY <1>1, <1>8 DEF FetchHeader
  <2>2. ThreadTyped(t)' /\ op' = [op EXCEPT ![t] = op'[t]]
    BY <1>8, FetchTyped, Zenon DEF FetchHeader
  <2> QED BY <1>1, <1>7, <2>1, <2>2
<1>9. CASE FetchRest(t)
  <2>1. Reading(t) /\ issued' = issued /\ acked' = acked
    BY <1>9 DEF FetchRest
  <2>2. ThreadTyped(t)' /\ op' = [op EXCEPT ![t] = op'[t]]
    BY <1>9, FetchTyped, Zenon DEF FetchRest
  <2>3. /\ DOMAIN remote_node' = DOMAIN remote_node
        /\ remote_node'.slots \in Seq(Addr)
    <3>1. mem[op[t].at].slots \in Seq(Addr)
      BY <1>1, <2>1 DEF ThreadTyped, ClientData, MemTyped
    <3> QED BY <1>1, <1>9, <3>1 DEF FetchRest
  <2> QED BY <1>7, <2>1, <2>2, <2>3
<1>10. CASE Hop(t)
  <2>1. Reading(t) /\ issued' = issued /\ acked' = acked /\ remote_node' = remote_node
    BY <1>10 DEF Hop
  <2>2. PICK n : n = NextAddress(t)
    OBVIOUS
  <2>3. /\ op' = [op EXCEPT ![t] = op'[t]]
        /\ op'[t] = [op[t] EXCEPT !.at = n, !.step = "header"]
    BY <1>1, <1>10, <2>2 DEF Hop
  <2>4. n \in Addr
    BY <1>1, <2>1, <2>2, NextInPool DEF ThreadTyped
  <2>5. ThreadTyped(t)'
    BY <1>1, <1>3, <2>1, <2>3, <2>4 DEF ThreadTyped, Reading, ReadFields
  <2> QED BY <1>1, <1>7, <2>1, <2>3, <2>5
<1>11. CASE ReadReturns(t)
  <2>1. Reading(t) /\ issued' = issued /\ acked' = acked /\ remote_node' = remote_node
    BY <1>11 DEF ReadReturns
  <2>2. op' = [op EXCEPT ![t] = op'[t]] /\ op'[t] = Idle
    BY <1>1, <1>11 DEF ReadReturns
  <2>3. ThreadTyped(t)'
    BY <2>2 DEF ThreadTyped, Reading, Idle
  <2> QED BY <1>1, <1>7, <2>1, <2>2, <2>3
<1>12. QED
  BY <1>4, <1>5, <1>6, <1>8, <1>9, <1>10, <1>11 DEF ReadStep

\* A step of the backend, with its marks in `op'.
LEMMA BackendStepTyped ==
  ASSUME IInv, IInv', ClientTyped, BackendStep
  PROVE  ClientTyped'
<1>1. /\ ClientData /\ (InsertStep \/ LoadStep)
      /\ UNCHANGED <<issued, acked, remote_node, snapshot>> /\ [Next]_vars
  BY DEF ClientTyped, BackendStep, Next, InsertStep
<1>2. /\ key_map' = key_map /\ Stored \subseteq Stored'
      /\ InsertStep => ~Loading /\ ~Loading' /\ printed' = printed
      /\ LoadStep => Loading
  BY <1>1, BackendKeeps, StoredStays
<1>3. MemTyped'
  <2>1. mem' = mem /\ writes' \in Seq(ToWrite)
    BY BackendWrites DEF BackendStep, WritesChanges
  <2> QED BY <1>1, <2>1 DEF ClientData, MemTyped
<1>4. ClientData'
  BY <1>1, <1>2, <1>3 DEF ClientData
<1>5. ASSUME NEW t \in Threads PROVE ThreadTyped(t)'
  <2>1. ThreadTyped(t)
    BY DEF ClientTyped
  <2>2. /\ ~Reading(t) => op'[t] = op[t]
        /\ op'[t].kind = op[t].kind
        /\ Reading(t) =>
             /\ DOMAIN op'[t] = ReadFields
             /\ op'[t].key = op[t].key /\ op'[t].at = op[t].at /\ op'[t].step = op[t].step
             /\ op'[t].known = op[t].known
    BY <2>1, BackendMarks
  <2>3. CASE ~Reading(t)
    BY <1>1, <2>1, <2>2, <2>3, ThreadKept
  <2>4. CASE Reading(t)
    <3>1. printed' = printed /\ ~Loading'
      BY <1>1, <1>2, <2>1, <2>4 DEF ThreadTyped
    <3> QED BY <1>1, <2>1, <2>2, <2>4, <3>1 DEF ThreadTyped, Reading
  <2> QED BY <2>3, <2>4
<1>6. QED
  BY <1>4, <1>5 DEF ClientTyped

LEMMA ClientTypedStep ==
  ASSUME IInv, IInv', Tables, KeysInFlight, ClientTyped, MemAgrees, [RdmaNext]_rdmaVars
  PROVE  ClientTyped'
<1>0. memVars' = memVars => MemTyped'
  BY DEF ClientTyped, ClientData, MemTyped, memVars
<1>1. ClientData /\ \A t \in Threads : ThreadTyped(t)
  BY DEF ClientTyped
<1>2. CASE \E t \in Threads : \/ InsertReturns(t) \/ ReadStep(t)
                              \/ \E k \in Keys : StartInsert(t, k) \/ StartRead(t, k)
  BY <1>2, ThreadStepTyped
<1>3. ASSUME NEW t \in Threads, TakeInsert(t) PROVE ClientTyped'
  <2>1. /\ InsertBegin(op[t].key) /\ UNCHANGED <<issued, acked, op, remote_node, memVars, snapshot>>
        /\ op[t].key \in issued /\ op[t].key \in Keys
    BY <1>1, <1>3 DEF TakeInsert, clientVars, ThreadTyped, ClientData
  <2>2. Stored \subseteq Stored'
    BY <2>1, StoredStays DEF Next
  <2>3. /\ key_map' = key_map \cup {op[t].key} /\ printed' = printed
        /\ ~Loading /\ ~Loading'
    BY <2>1 DEF InsertBegin, Loading, loadVars
  <2>4. ClientData'
    BY <1>1, <1>0, <2>1, <2>2, <2>3 DEF ClientData
  <2>5. \A u \in Threads : ThreadTyped(u)'
    BY <1>1, <2>1, <2>3, ThreadKept
  <2> QED BY <2>4, <2>5 DEF ClientTyped
<1>4. CASE Load2Switch
  <2>1. /\ UNCHANGED <<issued, acked, op, remote_node, memVars>> /\ snapshot' = key_map
        /\ LoadBegin /\ \A t \in Threads : op[t] = Idle
    BY <1>4 DEF Load2Switch, clientVars
  <2>2. Stored \subseteq Stored' /\ key_map' = key_map
    BY <2>1, StoredStays DEF Next, LoadBegin, treeVars
  <2>3. ClientData'
    BY <1>1, <1>0, <2>1, <2>2 DEF ClientData
  <2>4. \A u \in Threads : ~Reading(u)
    BY <2>1 DEF Reading, Idle
  <2>5. \A u \in Threads : ThreadTyped(u)'
    BY <1>1, <2>1, <2>4, ThreadKept
  <2> QED BY <2>3, <2>5 DEF ClientTyped
<1>5. CASE UNCHANGED rdmaVars
  <2>1. /\ UNCHANGED <<issued, acked, op, remote_node, memVars, snapshot, key_map, printed>>
        /\ Stored' = Stored /\ (Loading' <=> Loading)
    BY <1>5 DEF rdmaVars, clientVars, vars, treeVars, loadVars, Stored, Loading
  <2>2. ClientData'
    BY <1>1, <1>0, <2>1 DEF ClientData
  <2>3. \A u \in Threads : ThreadTyped(u)'
    BY <1>1, <2>1, ThreadKept DEF ThreadTyped
  <2> QED BY <2>2, <2>3 DEF ClientTyped
<1>6. CASE WriteOne
  <2>1. /\ UNCHANGED <<issued, acked, op, remote_node, snapshot, key_map, printed>>
        /\ Stored' = Stored /\ (Loading' <=> Loading)
    BY <1>6 DEF WriteOne, clientVars, vars, treeVars, loadVars, Stored, Loading
  <2>2. MemTyped'
    BY <1>1, <1>6, WriteOneAgrees DEF ClientData, IInv
  <2>3. ClientData'
    BY <1>1, <2>1, <2>2 DEF ClientData
  <2>4. \A u \in Threads : ThreadTyped(u)'
    BY <1>1, <2>1, ThreadKept DEF ThreadTyped
  <2> QED BY <2>3, <2>4 DEF ClientTyped
<1>7. QED
  BY <1>2, <1>3, <1>4, <1>5, <1>6, BackendStepTyped, Zenon DEF RdmaNext

\* The history of the load agrees with its steps.
LEMMA SnapshotTurns ==
  ASSUME [RdmaNext]_rdmaVars
  PROVE  snapshot' = snapshot \/ (printed = {} /\ printed' = {})
<1>1. Load2Switch => printed = {} /\ printed' = {}
  BY DEF Load2Switch, LoadBegin
<1>2. BackendStep => snapshot' = snapshot
  BY DEF BackendStep
<1>3. UNCHANGED rdmaVars => snapshot' = snapshot
  BY DEF rdmaVars
<1>4. ASSUME NEW t \in Threads, TakeInsert(t) \/ InsertReturns(t) \/ ReadStep(t)
      PROVE  snapshot' = snapshot
  BY <1>4 DEF TakeInsert, InsertReturns, ReadStep, FetchHeader, FetchRest, Hop, ReadReturns
<1>5. ASSUME NEW t \in Threads, NEW k \in Keys, StartInsert(t, k) \/ StartRead(t, k)
      PROVE  snapshot' = snapshot
  BY <1>5 DEF StartInsert, StartRead
<1>6. WriteOne => snapshot' = snapshot
  BY DEF WriteOne
<1>7. QED
  BY <1>1, <1>2, <1>3, <1>4, <1>5, <1>6, Zenon DEF RdmaNext

\* Only the backend's steps and their writes concern the memory.
LEMMA MemAgreesStep ==
  ASSUME IInv, KeysInFlight, ClientTyped, MemAgrees, [RdmaNext]_rdmaVars
  PROVE  MemAgrees'
<1>1. ASSUME UNCHANGED <<pool, nb_node, memVars>> PROVE MemAgrees'
  BY <1>1 DEF MemAgrees, Nodes, Value, memVars
<1>2. CASE BackendStep
  BY <1>2, SystemStep, BackendAgrees
<1>3. CASE WriteOne
  BY <1>3, WriteOneAgrees DEF ClientTyped, ClientData, IInv
<1>4. CASE Load2Switch
  BY <1>1, <1>4 DEF Load2Switch, LoadBegin, treeVars
<1>5. CASE UNCHANGED rdmaVars
  BY <1>1, <1>5 DEF rdmaVars, vars, treeVars
<1>6. ASSUME NEW t \in Threads, TakeInsert(t) PROVE MemAgrees'
  BY <1>1, <1>6 DEF TakeInsert, InsertBegin
<1>7. ASSUME NEW t \in Threads, InsertReturns(t) \/ ReadStep(t) PROVE MemAgrees'
  BY <1>1, <1>7 DEF InsertReturns, ReadStep, FetchHeader, FetchRest, Hop, ReadReturns, vars, treeVars
<1>8. ASSUME NEW t \in Threads, NEW k \in Keys, StartInsert(t, k) \/ StartRead(t, k)
      PROVE  MemAgrees'
  BY <1>1, <1>8 DEF StartInsert, StartRead, vars, treeVars
<1>9. QED
  BY <1>2, <1>3, <1>4, <1>5, <1>6, <1>7, <1>8, Zenon DEF RdmaNext

(* The tables of the switch, what the clients hold and what is in memory,  *)
(* through every step of the system.                                       *)
SystemInv == KeysInFlight /\ Tables /\ ClientTyped /\ MemAgrees

THEOREM SystemInvariance == RdmaSpec => [](IInv /\ SystemInv)
<1>1. RdmaInit => SystemInv
  <2> SUFFICES ASSUME RdmaInit PROVE SystemInv
    OBVIOUS
  <2>1. Tables
    BY DEF RdmaInit, Init, Tables
  <2>2. ClientData
    <3>1. \A n \in Addr : mem[n] = FreshMemory
      BY DEF RdmaInit
    <3>2. mem = [n \in Addr |-> mem[n]] /\ writes \in Seq(ToWrite)
      BY DEF RdmaInit
    <3>3. /\ DOMAIN FreshMemory = {"isValue", "key", "slots", "val"}
          /\ FreshMemory.key \in Seq(Keys) /\ FreshMemory.slots \in Seq(Addr)
      BY DEF FreshMemory
    <3>4. MemTyped
      BY <3>1, <3>2, <3>3 DEF MemTyped
    <3> QED BY <3>4 DEF RdmaInit, Init, ClientData, Stored, Loading
  <2>3. \A t \in Threads : ThreadTyped(t)
    BY DEF RdmaInit, ThreadTyped, Reading, Idle
  <2>4. MemAgrees
    <3>1. /\ mem = [n \in Addr |-> FreshMemory] /\ pool = [n \in Addr |-> FreshNode]
          /\ Nodes = {0} /\ 0 \in Addr
      BY ConstantsAssumption DEF RdmaInit, Init, Nodes, Addr
    <3>2. \A n \in Nodes : mem[n] = FreshMemory /\ pool[n] = FreshNode
      BY <3>1
    <3>3. /\ FreshMemory.isValue = FreshNode.isValue /\ FreshMemory.val = FreshNode.val
          /\ FreshMemory.key = FreshNode.key /\ Begins(FreshNode.child, FreshMemory.slots)
      BY DEF FreshMemory, FreshNode, Begins
    <3> QED BY <3>2, <3>3 DEF MemAgrees, Value
  <2> QED BY <2>1, <2>2, <2>3, <2>4, KeysInFlightInit DEF SystemInv, ClientTyped
<1>2. RdmaSpec => [](IInv /\ Course /\ NodeFill)
  BY SystemRunsBackend, Invariance, LoadsStayOnCourse, NodesStayFilled, PTL
<1>3. /\ IInv /\ Course /\ NodeFill /\ SystemInv /\ IInv' /\ Course' /\ [RdmaNext]_rdmaVars
      => SystemInv'
  <2> SUFFICES ASSUME IInv, Course, NodeFill, SystemInv, IInv', Course', [RdmaNext]_rdmaVars
               PROVE  SystemInv'
    OBVIOUS
  <2>1. KeysInFlight /\ Tables /\ ClientTyped /\ MemAgrees
    BY DEF SystemInv
  <2>2. [Next]_vars
    BY <2>1, SystemStep
  <2>3. pc = "print" => snapshot = key_map
    BY <2>1 DEF ClientTyped, ClientData, Loading
  <2>4. Tables'
    BY <2>1, <2>2, <2>3, SnapshotTurns, TablesStep
  <2>5. ClientTyped'
    BY <2>1, ClientTypedStep
  <2>6. MemAgrees'
    BY <2>1, MemAgreesStep
  <2> QED BY <2>1, <2>4, <2>5, <2>6, KeysInFlightStep DEF SystemInv
<1>4. QED
  BY <1>1, <1>2, <1>3, PTL DEF RdmaSpec

(* Reads stay within the pool, also with an index into the entries of an   *)
(* array beyond its _size, and only keys that a thread has drawn from the  *)
(* counter are acknowledged or in the tree (RDMARead(), Insert()).         *)
THEOREM ClientsTyped == RdmaSpec => []RdmaTypeOK
<1>1. SystemInv => RdmaTypeOK
  <2> SUFFICES ASSUME SystemInv PROVE RdmaTypeOK
    OBVIOUS
  <2>1. ClientData /\ MemTyped /\ \A t \in Threads : ThreadTyped(t)
    BY DEF SystemInv, ClientTyped, ClientData
  <2>2. \A w \in ToSet(writes) : w \in ToWrite
    BY <2>1, ElementOfSeq, LenProperties DEF MemTyped, ToSet
  <2>3. \A w \in ToSet(writes) : w.node \in Addr /\ w.from \in Addr
    BY <2>2 DEF ToWrite
  <2> QED BY <2>1, <2>3 DEF ClientData, MemTyped, ThreadTyped, RdmaTypeOK
<1>2. QED
  BY SystemInvariance, <1>1, PTL

-----------------------------------------------------------------------------
(***************************************************************************)
(* A read of an acknowledged key that the backend has not overtaken: the   *)
(* node it is about to fetch, or the buffer it has fetched, is still on    *)
(* the way to the key.  All threads share one buffer, so this needs        *)
(* MaxReads <= 1.                                                          *)
(***************************************************************************)
At(n, k) == n \in Nodes /\ IF Value(n) THEN pool[n].val = k ELSE InRange(k, cover[n])

Sound(t) ==
  /\ op[t].known /\ ~op[t].overtaken
  /\ op[t].key \in snapshot \/ ~pool[Route(op[t].key)].isValue

Near(t) ==
  Reading(t) /\ Sound(t) =>
    /\ op[t].step # "hop" => At(op[t].at, op[t].key)
    /\ op[t].step = "rest" =>
         /\ remote_node.isValue = pool[op[t].at].isValue
         /\ remote_node.key = pool[op[t].at].key
    /\ op[t].step = "hop" => IF remote_node.isValue THEN remote_node.val = op[t].key
                             ELSE At(NextAddress(t), op[t].key)

OneReader == \A t, u \in Threads : Reading(t) /\ Reading(u) => t = u

ReadInv == OneReader /\ \A t \in Threads : Near(t)

\* A pending write to a part of a node is one to the node.
LEMMA PendsIsPending ==
  ASSUME NEW ws, NEW n, ~Pending(ws, n)
  PROVE  \A parts : ~Pends(ws, n, parts)
  BY DEF Pends, Pending

\* Route(), as a function of the tables.
RouteBy(tables, k) ==
  LET root == CHOOSE r \in tables : r.layer = 0
      hop[l \in 0..SwitchLayers] ==
        IF l = 0 THEN BoundBelow(root.bounds, IF k = 0 THEN 1 ELSE k)
        ELSE LET n     == hop[l - 1]
                 table == {r \in tables : r.layer = l /\ r.node = n}
             IN  IF table = {} \/ k = 0 THEN n
                 ELSE BoundBelow((CHOOSE r \in table : TRUE).bounds, k)
  IN  hop[SwitchLayers]

\* The tables alone decide where the switch sends a key.
LEMMA RouteKept ==
  ASSUME printed' = printed, NEW k
  PROVE  Route(k)' = Route(k)
<1>1. Route(k) = RouteBy(printed, k) /\ Route(k)' = RouteBy(printed', k)
  BY Zenon DEF Route, RouteBy, FatRoot, BoundBelow
<1>2. QED
  BY <1>1

\* A read that neither the backend nor another thread touches.
LEMMA NearKept ==
  ASSUME NEW t, Near(t), op'[t] = op[t],
         UNCHANGED <<pool, cover, nb_node, printed, remote_node, snapshot>>
  PROVE  Near(t)'
<1>1. PICK k, n, r, c : k = op[t].key /\ n = op[t].at /\ r = Route(k) /\ c = NextAddress(t)
  OBVIOUS
<1>2. Route(k)' = r /\ Route(0)' = Route(0)
  BY <1>1, RouteKept
<1>3. NextAddress(t)' = c
  BY <1>1, <1>2 DEF NextAddress
<1>4. At(n, k)' = At(n, k) /\ At(c, k)' = At(c, k)
  BY DEF At, Nodes, Value, InRange
<1>5. Reading(t)' = Reading(t) /\ Sound(t)' = Sound(t)
  BY <1>1, <1>2 DEF Reading, Sound
<1>6. QED
  BY <1>1, <1>3, <1>4, <1>5 DEF Near

\* Where a read goes next, while the backend works beside it.
LEMMA AtStays ==
  ASSUME IInv, [Next]_vars, NEW n, NEW k, At(n, k),
         ~(InRange(k, cover[n]) /\ ~InRange(k, cover'[n]))
  PROVE  At(n, k)'
<1>1. n \in Nodes' /\ Value(n)' = Value(n) /\ (Value(n) => pool'[n].val = pool[n].val)
  BY NodesStay DEF At
<1>2. CASE Value(n)
  BY <1>1, <1>2 DEF At
<1>3. CASE ~Value(n)
  BY <1>1, <1>3 DEF At, InRange
<1>4. QED
  BY <1>2, <1>3

\* A read the backend does not overtake stays near its key.
LEMMA BackendNear ==
  ASSUME IInv, Tables, ClientTyped, BackendStep, NEW t \in Threads, Near(t)
  PROVE  Near(t)'
<1> SUFFICES ASSUME Reading(t)', Sound(t)' PROVE Near(t)'
  BY DEF Near
<1>1. /\ ThreadTyped(t) /\ ClientData /\ (InsertStep \/ LoadStep) /\ [Next]_vars
      /\ snapshot' = snapshot /\ remote_node' = remote_node
  BY DEF ClientTyped, BackendStep, Next, InsertStep
<1>2. Reading(t)
  BY <1>1, BackendMarks DEF Reading
<1>3. /\ op'[t].key = op[t].key /\ op'[t].at = op[t].at /\ op'[t].step = op[t].step
      /\ op'[t].known = op[t].known
      /\ ~op'[t].overtaken => ~op[t].overtaken /\ ~Overtaken(t)
  BY <1>1, <1>2, BackendMarks
<1>4. printed' = printed /\ printed # {}
  BY <1>1, <1>2, BackendKeeps DEF ThreadTyped
<1>5. PICK k, n, r, c : k = op[t].key /\ n = op[t].at /\ r = Route(k) /\ c = NextAddress(t)
  OBVIOUS
<1>6. k \in Keys /\ r \in Nodes /\ pool'[r].isValue = pool[r].isValue
  <2>1. k \in Keys
    BY <1>1, <1>2, <1>5 DEF ThreadTyped, ClientData
  <2>2. r \in Nodes
    BY <1>4, <1>5, <2>1, RouteSends DEF Sent
  <2> QED BY <1>1, <2>1, <2>2, NodesStay DEF Value
<1>7. Route(k)' = r /\ Route(0)' = Route(0)
  BY <1>4, <1>5, RouteKept
<1>8. NextAddress(t)' = c
  BY <1>1, <1>3, <1>5, <1>7 DEF NextAddress
<1>9. Sound(t) /\ ~Overtaken(t)
  BY <1>1, <1>3, <1>5, <1>6, <1>7, Zenon DEF Sound
<1>10. PICK m : m = IF op[t].step = "hop" /\ ~remote_node.isValue THEN c ELSE n
  OBVIOUS
<1>11. /\ ~(InRange(k, cover[m]) /\ ~InRange(k, cover'[m]))
       /\ op[t].step = "rest" => ~Pending(writes', m)
  BY <1>5, <1>9, <1>10 DEF Overtaken
<1>12. At(m, k) => At(m, k)'
  BY <1>1, <1>11, AtStays
<1>13. CASE op[t].step = "hop"
  <2>1. IF remote_node.isValue THEN remote_node.val = k ELSE At(c, k)
    BY <1>2, <1>5, <1>9, <1>13 DEF Near
  <2> QED BY <1>1, <1>3, <1>5, <1>8, <1>10, <1>12, <1>13, <2>1 DEF Near
<1>14. CASE op[t].step # "hop"
  <2>1. m = n /\ At(n, k) /\ At(n, k)'
    BY <1>2, <1>5, <1>9, <1>10, <1>12, <1>14 DEF Near
  <2>2. pool'[n].isValue = pool[n].isValue
    BY <1>1, <2>1, NodesStay DEF At, Value
  <2>3. op[t].step = "rest" => /\ remote_node.isValue = pool[n].isValue
                               /\ remote_node.key = pool[n].key
    BY <1>2, <1>5, <1>9 DEF Near
  <2>4. op[t].step = "rest" => pool'[n].key = pool[n].key
    <3>1. n \in Nodes /\ WritesChanges
      BY <2>1, BackendWrites DEF At
    <3> QED BY <1>11, <2>1, <3>1, PendsIsPending DEF WritesChanges
  <2> QED BY <1>1, <1>3, <1>5, <1>14, <2>1, <2>2, <2>3, <2>4 DEF Near
<1>15. QED
  BY <1>13, <1>14

\* One thread moves; no other one is reading, or the buffer stays as it is.
LEMMA OneMovesNear ==
  ASSUME ReadInv, NEW t \in Threads, \A u \in Threads \ {t} : op'[u] = op[u],
         UNCHANGED <<vars, snapshot>>, Reading(t) \/ remote_node' = remote_node, Near(t)',
         Reading(t)' => \A u \in Threads \ {t} : ~Reading(u)
  PROVE  ReadInv'
<1>1. \A u \in Threads \ {t} : Reading(u)' <=> Reading(u)
  BY DEF Reading
<1>2. OneReader'
  BY <1>1 DEF ReadInv, OneReader
<1>3. ASSUME NEW u \in Threads \ {t} PROVE Near(u)'
  <2>1. CASE Reading(t)
    <3>1. ~Reading(u)'
      BY <1>1, <2>1 DEF ReadInv, OneReader
    <3> QED BY <3>1 DEF Near
  <2>2. CASE remote_node' = remote_node
    <3>1. UNCHANGED <<pool, cover, nb_node, printed, remote_node, snapshot>>
      BY <2>2 DEF vars, treeVars, loadVars
    <3> QED BY <3>1, NearKept DEF ReadInv
  <2> QED BY <2>1, <2>2
<1>4. QED
  BY <1>2, <1>3 DEF ReadInv

\* The child a reader of a node picks from it.
LEMMA PickedChild ==
  ASSUME IInv, NEW n \in Nodes, ~Value(n), NEW k \in Stored, InRange(k, cover[n])
  PROVE  LET i == LowerBound(pool[n].key, k)
         IN  i \in 1..Len(pool[n].child) /\ At(pool[n].child[i], k)
<1>1. PICK i : i = LowerBound(pool[n].key, k)
  OBVIOUS
<1>2. /\ i \in 1..Len(pool[n].child)
      /\ IF Leaf(n) THEN Value(pool[n].child[i]) /\ pool[pool[n].child[i]].val = k
         ELSE ~Value(pool[n].child[i]) /\ InRange(k, cover[pool[n].child[i]])
  BY <1>1, HopStays DEF Routing
<1>3. pool[n].child[i] \in Nodes
  <2>1. Leaf(n) \/ Inner(n)
    BY DEF Leaf, Inner, Value
  <2>2. CASE Leaf(n)
    BY <1>2, <2>2 DEF IInv, Shape, LeafShape
  <2>3. CASE Inner(n)
    BY <1>2, <2>3 DEF IInv, Shape, InnerShape
  <2> QED BY <2>1, <2>2, <2>3
<1>4. QED
  BY <1>1, <1>2, <1>3 DEF At

\* A node with no write to do is in memory as it is in the tree.
LEMMA Agrees ==
  ASSUME MemAgrees, NEW n \in Nodes, ~Pending(writes, n)
  PROVE  /\ mem[n].isValue = pool[n].isValue /\ (Value(n) => mem[n].val = pool[n].val)
         /\ mem[n].key = pool[n].key /\ Begins(pool[n].child, mem[n].slots)
  BY PendsIsPending DEF MemAgrees

\* The child a reader finds in such a node.
LEMMA MemoryHop ==
  ASSUME IInv, MemAgrees, NEW n \in Nodes, ~Pending(writes, n), ~Value(n),
         NEW k \in Stored, InRange(k, cover[n])
  PROVE  LET i == LowerBound(mem[n].key, k)
         IN  i \in DOMAIN mem[n].slots /\ At(mem[n].slots[i], k)
<1>1. PICK i : i = LowerBound(pool[n].key, k)
  OBVIOUS
<1>2. mem[n].key = pool[n].key /\ Begins(pool[n].child, mem[n].slots)
  BY Agrees
<1>3. i \in 1..Len(pool[n].child) /\ At(pool[n].child[i], k)
  BY <1>1, PickedChild
<1>4. i \in DOMAIN mem[n].slots /\ mem[n].slots[i] = pool[n].child[i]
  BY <1>2, <1>3 DEF Begins
<1>5. QED
  BY <1>1, <1>2, <1>3, <1>4

(* What the NIC finds in memory sends a reader the right way.  While the   *)
(* backend writes other nodes, a node it is not writing leads from a key   *)
(* it is responsible for to a node that is, or to the key's value.         *)
MemoryOnCourse ==
  \A n \in Nodes, k \in Stored : ~Pending(writes, n) /\ ~Value(n) /\ InRange(k, cover[n]) =>
    /\ ~mem[n].isValue
    /\ LET i == LowerBound(mem[n].key, k)
       IN  i \in DOMAIN mem[n].slots /\ At(mem[n].slots[i], k)

(* In every state of the running system, between any two of the writes of  *)
(* an insert, a copy or a split, one hop from a node that is not itself    *)
(* being written stays on course, also from one that is no longer what the *)
(* switch was told (BPlusTreeDB::RDMARead()'s loop, overflow()).           *)
THEOREM ReadersStayOnCourse == RdmaSpec => []MemoryOnCourse
<1>1. IInv /\ SystemInv => MemoryOnCourse
  <2> SUFFICES ASSUME IInv, MemAgrees, NEW n \in Nodes, NEW k \in Stored,
                      ~Pending(writes, n), ~Value(n), InRange(k, cover[n])
               PROVE  /\ ~mem[n].isValue
                      /\ LET i == LowerBound(mem[n].key, k)
                         IN  i \in DOMAIN mem[n].slots /\ At(mem[n].slots[i], k)
    BY DEF MemoryOnCourse, SystemInv
  <2>1. mem[n].isValue = pool[n].isValue
    BY Agrees
  <2> QED BY <2>1, MemoryHop DEF Value
<1>2. QED
  BY SystemInvariance, <1>1, PTL

\* The first of a reader's two halves.
LEMMA HeaderNear ==
  ASSUME IInv, ClientTyped, MemAgrees, NEW t \in Threads, Near(t), FetchHeader(t), KeysInFlight
  PROVE  Near(t)'
<1>1. PICK k, n, r : k = op[t].key /\ n = op[t].at /\ r = Route(k)
  OBVIOUS
<1>2. /\ Reading(t) /\ op[t].step = "header" /\ DOMAIN op[t] = ReadFields /\ n \in Addr
      /\ DOMAIN remote_node = {"isValue", "key", "slots", "val"}
      /\ Fetched(t, "rest")
  BY <1>1 DEF FetchHeader, ClientTyped, ThreadTyped, ClientData
<1>3. /\ op'[t].key = k /\ op'[t].at = n /\ op'[t].step = "rest"
      /\ op'[t].known = op[t].known
      /\ ~op'[t].overtaken => ~op[t].overtaken /\ ~Pending(writes, n)
  BY <1>1, <1>2, FetchedIs
<1>4. /\ remote_node'.isValue = mem[n].isValue /\ remote_node'.key = mem[n].key
      /\ UNCHANGED <<pool, cover, nb_node, printed, snapshot>>
  BY <1>1, <1>2 DEF FetchHeader, vars, treeVars, loadVars
<1>5. Route(k)' = r
  BY <1>1, <1>4, RouteKept
<1> SUFFICES ASSUME Sound(t)' PROVE Near(t)'
  BY DEF Near
<1>6. Sound(t) /\ ~Pending(writes, n)
  BY <1>1, <1>3, <1>4, <1>5 DEF Sound
<1>7. At(n, k)
  BY <1>1, <1>2, <1>6 DEF Near
<1>8. mem[n].isValue = pool[n].isValue /\ mem[n].key = pool[n].key
  BY <1>6, <1>7, Agrees DEF At
<1>9. At(n, k)'
  BY <1>4, <1>7 DEF At, Nodes, Value, InRange
<1>10. QED
  BY <1>3, <1>4, <1>8, <1>9 DEF Near

\* The second half, and with it the node to go to.
LEMMA RestNear ==
  ASSUME IInv, ClientTyped, MemAgrees, NEW t \in Threads, Near(t), FetchRest(t), KeysInFlight
  PROVE  Near(t)'
<1>1. PICK k, n, r : k = op[t].key /\ n = op[t].at /\ r = Route(k)
  OBVIOUS
<1>2. /\ Reading(t) /\ op[t].step = "rest" /\ DOMAIN op[t] = ReadFields /\ n \in Addr
      /\ DOMAIN remote_node = {"isValue", "key", "slots", "val"}
      /\ Fetched(t, "hop") /\ (op[t].known => k \in Stored)
  BY <1>1 DEF FetchRest, ClientTyped, ThreadTyped, ClientData
<1>3. /\ op'[t].key = k /\ op'[t].at = n /\ op'[t].step = "hop"
      /\ op'[t].known = op[t].known
      /\ ~op'[t].overtaken => ~op[t].overtaken /\ ~Pending(writes, n)
  BY <1>1, <1>2, FetchedIs
<1>4. /\ remote_node'.isValue = remote_node.isValue /\ remote_node'.key = remote_node.key
      /\ remote_node'.slots = mem[n].slots /\ remote_node'.val = mem[n].val
      /\ UNCHANGED <<pool, cover, nb_node, printed, snapshot>>
  BY <1>1, <1>2 DEF FetchRest, vars, treeVars, loadVars
<1>5. Route(k)' = r
  BY <1>1, <1>4, RouteKept
<1> SUFFICES ASSUME Sound(t)' PROVE Near(t)'
  BY DEF Near
<1>6. Sound(t) /\ ~Pending(writes, n)
  BY <1>1, <1>3, <1>4, <1>5 DEF Sound
<1>7. /\ At(n, k) /\ remote_node.isValue = pool[n].isValue /\ remote_node.key = pool[n].key
      /\ k \in Stored /\ n \in Nodes
  BY <1>1, <1>2, <1>6 DEF Near, Sound, At
<1>8. mem[n].key = pool[n].key /\ (Value(n) => mem[n].val = pool[n].val)
  BY <1>6, <1>7, Agrees
<1>9. CASE Value(n)
  BY <1>3, <1>4, <1>7, <1>8, <1>9 DEF Near, At, Value
<1>10. CASE ~Value(n)
  <2>1. PICK i : i = LowerBound(mem[n].key, k)
    OBVIOUS
  <2>2. PICK c : c = mem[n].slots[i]
    OBVIOUS
  <2>3. i \in DOMAIN mem[n].slots /\ At(c, k)
    BY <1>6, <1>7, <1>10, <2>1, <2>2, MemoryHop DEF At
  <2>4. NextAddress(t)' = c
    BY <1>3, <1>4, <1>7, <1>8, <2>1, <2>2, <2>3 DEF NextAddress
  <2>5. At(c, k)'
    BY <1>4, <2>3 DEF At, Nodes, Value, InRange
  <2> QED BY <1>3, <1>4, <1>7, <1>10, <2>4, <2>5 DEF Near, Value
<1>11. QED
  BY <1>9, <1>10

\* The next node is the one picked.
LEMMA HopNear ==
  ASSUME ClientTyped, NEW t \in Threads, Near(t), Hop(t), KeysInFlight
  PROVE  Near(t)'
<1>1. PICK k, r, c : k = op[t].key /\ r = Route(k) /\ c = NextAddress(t)
  OBVIOUS
<1>2. /\ Reading(t) /\ op[t].step = "hop" /\ DOMAIN op[t] = ReadFields
      /\ op = [u \in Threads |-> op[u]] /\ ~remote_node.isValue
  BY <1>1 DEF Hop, ClientTyped, ThreadTyped, KeysInFlight
<1>3. /\ op'[t].key = k /\ op'[t].at = c /\ op'[t].step = "header"
      /\ op'[t].known = op[t].known /\ op'[t].overtaken = op[t].overtaken
      /\ UNCHANGED <<pool, cover, nb_node, printed, snapshot>>
  BY <1>1, <1>2 DEF Hop, ReadFields, vars, treeVars, loadVars
<1>4. Route(k)' = r
  BY <1>1, <1>3, RouteKept
<1>5. Sound(t)' => Sound(t)
  BY <1>1, <1>3, <1>4 DEF Sound
<1>6. At(c, k)' = At(c, k)
  BY <1>3 DEF At, Nodes, Value, InRange
<1>7. QED
  BY <1>1, <1>2, <1>3, <1>5, <1>6 DEF Near

\* The switch sends a reader to a node near its key.
LEMMA StartNear ==
  ASSUME IInv, Tables, KeysInFlight, NEW t \in Threads, NEW k \in Keys, StartRead(t, k)
  PROVE  Near(t)'
<1>1. PICK n : n = Route(k)
  OBVIOUS
<1>2. /\ printed # {} /\ op'[t] = ReadOf(k, n)
      /\ UNCHANGED <<pool, cover, nb_node, printed, snapshot>>
  BY <1>1 DEF StartRead, KeysInFlight, vars, treeVars, loadVars
<1>3. op'[t].key = k /\ op'[t].at = n /\ op'[t].step = "header"
  BY <1>2 DEF ReadOf
<1>4. Sent(n, k)
  BY <1>1, <1>2, RouteSends
<1>5. Route(k)' = n
  BY <1>1, <1>2, RouteKept
<1>6. ASSUME Sound(t)' PROVE At(n, k)'
  <2>1. k \in snapshot \/ ~pool[n].isValue
    BY <1>2, <1>3, <1>5, <1>6 DEF Sound
  <2>2. At(n, k)
    BY <1>4, <2>1 DEF Sent, At, Value
  <2> QED BY <1>2, <2>2 DEF At, Nodes, Value, InRange
<1>7. QED
  BY <1>3, <1>6 DEF Near

\* With one buffer one thread reads at a time.
LEMMA StartsAlone ==
  ASSUME MaxReads <= 1, OneReader, NEW t \in Threads, NEW k, StartRead(t, k)
  PROVE  \A u \in Threads : ~Reading(u)
<1> SUFFICES ASSUME NEW u \in Threads, Reading(u) PROVE FALSE
  OBVIOUS
<1>1. {v \in Threads : Reading(v)} = {u}
  BY DEF OneReader
<1>2. Cardinality({u}) = 1
  BY FS_Singleton
<1>3. Cardinality({v \in Threads : Reading(v)}) < MaxReads
  BY DEF StartRead
<1>4. QED
  BY <1>1, <1>2, <1>3, ReadAssumption

\* A step of one thread.
LEMMA ThreadNear ==
  ASSUME MaxReads <= 1, IInv, Tables, KeysInFlight, ClientTyped, MemAgrees, ReadInv, NEW t \in Threads,
         \/ InsertReturns(t) \/ ReadStep(t)
         \/ \E k \in Keys : StartInsert(t, k) \/ StartRead(t, k)
  PROVE  ReadInv'
<1>1. OneReader /\ Near(t) /\ op = [u \in Threads |-> op[u]]
  BY DEF ReadInv, KeysInFlight
<1>2. UNCHANGED <<vars, snapshot>> /\ \A u \in Threads \ {t} : op'[u] = op[u]
  <2>1. UNCHANGED <<vars, snapshot>>
    BY DEF InsertReturns, ReadStep, FetchHeader, FetchRest, Hop, ReadReturns, StartInsert, StartRead
  <2>2. CASE FetchHeader(t) \/ FetchRest(t)
    <3>1. PICK step : Fetched(t, step)
      BY <2>2, Zenon DEF FetchHeader, FetchRest
    <3> QED BY <2>1, <3>1, FetchedIs
  <2>3. CASE ~(FetchHeader(t) \/ FetchRest(t))
    BY <1>1, <2>1, <2>3 DEF InsertReturns, ReadStep, Hop, ReadReturns, StartInsert, StartRead
  <2> QED BY <2>2, <2>3
<1>3. CASE InsertReturns(t) \/ \E k \in Keys : StartInsert(t, k)
  <2>1. remote_node' = remote_node /\ ~Reading(t)'
    BY <1>1, <1>3 DEF InsertReturns, StartInsert, InsertOf, Idle, Reading
  <2>2. Near(t)'
    BY <2>1 DEF Near
  <2> QED BY <1>2, <2>1, <2>2, OneMovesNear
<1>4. ASSUME NEW k \in Keys, StartRead(t, k) PROVE ReadInv'
  <2>1. Near(t)' /\ \A u \in Threads : ~Reading(u)
    BY <1>1, <1>4, StartNear, StartsAlone
  <2>2. remote_node' = remote_node
    BY <1>4 DEF StartRead
  <2> QED BY <1>2, <2>1, <2>2, OneMovesNear
<1>5. CASE ReadStep(t)
  <2>1. Reading(t) /\ \A u \in Threads \ {t} : ~Reading(u)
    BY <1>1, <1>5 DEF ReadStep, FetchHeader, FetchRest, Hop, ReadReturns, OneReader
  <2>2. ReadReturns(t) => Near(t)'
    BY <1>1 DEF ReadReturns, Near, Reading, Idle
  <2>3. Near(t)'
    BY <1>1, <1>5, <2>2, HeaderNear, RestNear, HopNear DEF ReadStep
  <2> QED BY <1>2, <2>1, <2>3, OneMovesNear
<1>6. QED
  BY <1>3, <1>4, <1>5

\* Every step keeps a sound read near its key.
LEMMA ReadInvStep ==
  ASSUME MaxReads <= 1, IInv, Tables, KeysInFlight, ClientTyped, MemAgrees, ReadInv,
         [RdmaNext]_rdmaVars
  PROVE  ReadInv'
<1>1. CASE \E t \in Threads : \/ InsertReturns(t) \/ ReadStep(t)
                              \/ \E k \in Keys : StartInsert(t, k) \/ StartRead(t, k)
  BY <1>1, ThreadNear
<1>2. ASSUME \A t \in Threads : op'[t] = op[t],
             UNCHANGED <<pool, cover, nb_node, printed, remote_node, snapshot>>
      PROVE  ReadInv'
  <2>1. OneReader'
    BY <1>2 DEF ReadInv, OneReader, Reading
  <2>2. \A t \in Threads : Near(t)'
    BY <1>2, NearKept DEF ReadInv
  <2> QED BY <2>1, <2>2 DEF ReadInv
<1>3. CASE \E t \in Threads : TakeInsert(t)
  BY <1>2, <1>3 DEF TakeInsert, InsertBegin, clientVars, loadVars
<1>4. CASE UNCHANGED rdmaVars
  BY <1>2, <1>4 DEF rdmaVars, clientVars, vars, treeVars, loadVars
<1>5. CASE Load2Switch
  <2>1. \A t \in Threads : ~Reading(t)'
    BY <1>5 DEF Load2Switch, clientVars, Reading, Idle
  <2> QED BY <2>1 DEF ReadInv, OneReader, Near
<1>6. CASE BackendStep
  <2>1. \A t \in Threads : Near(t)'
    BY <1>6, BackendNear DEF ReadInv
  <2>2. ASSUME NEW t \in Threads PROVE op'[t].kind = op[t].kind
    BY <1>6, BackendMarks DEF ClientTyped
  <2>3. OneReader'
    BY <2>2 DEF ReadInv, OneReader, Reading
  <2> QED BY <2>1, <2>3 DEF ReadInv
<1>7. CASE WriteOne
  BY <1>2, <1>7 DEF WriteOne, clientVars, vars, treeVars, loadVars
<1>8. QED
  BY <1>1, <1>3, <1>4, <1>5, <1>6, <1>7, Zenon DEF RdmaNext

\* A read ends with the value it was sent for.
LEMMA SoundReadsEndRight ==
  ASSUME KeysInFlight, ClientTyped, ReadInv, [RdmaNext]_rdmaVars,
         NEW t \in Threads, ReadEnds(t), Sound(t)
  PROVE  Right(t)
<1>1. Reading(t) /\ op'[t] = Idle /\ Near(t) /\ op = [u \in Threads |-> op[u]] /\ ThreadTyped(t)
  BY DEF ReadEnds, ReadInv, KeysInFlight, ClientTyped
<1>2. op[t].kind = "read" /\ op'[t].kind = "none"
  BY <1>1 DEF Reading, Idle
<1>3. ASSUME NEW u \in Threads, NEW k \in Keys, StartInsert(u, k) \/ StartRead(u, k) PROVE FALSE
  BY <1>1, <1>2, <1>3 DEF StartInsert, StartRead, InsertOf, ReadOf, Idle
<1>4. ASSUME NEW u \in Threads, TakeInsert(u) \/ InsertReturns(u) PROVE FALSE
  BY <1>1, <1>2, <1>4 DEF TakeInsert, InsertReturns, clientVars
<1>5. Load2Switch \/ WriteOne \/ UNCHANGED rdmaVars => FALSE
  BY <1>2 DEF Load2Switch, WriteOne, rdmaVars, clientVars
<1>6. BackendStep => FALSE
  BY <1>1, <1>2, BackendMarks
<1>7. ASSUME NEW u \in Threads, FetchHeader(u) \/ FetchRest(u) \/ Hop(u) PROVE FALSE
  <2>1. Reading(u)
    BY <1>7 DEF FetchHeader, FetchRest, Hop
  <2>2. Hop(u) => op'[u].kind = "read"
    BY <1>1, <2>1 DEF Hop, Reading, ClientTyped, ThreadTyped, ReadFields
  <2>3. ASSUME FetchHeader(u) \/ FetchRest(u) PROVE op'[u].kind = "read"
    <3>1. PICK step : Fetched(u, step)
      BY <2>3, Zenon DEF FetchHeader, FetchRest
    <3> QED BY <2>1, <3>1, FetchedIs DEF Reading
  <2>4. op'[u].kind = "read"
    BY <1>7, <2>2, <2>3
  <2>5. u # t => op'[t] = op[t]
    <3>1. CASE Hop(u)
      BY <1>1, <3>1 DEF Hop
    <3>2. CASE FetchHeader(u) \/ FetchRest(u)
      <4>1. PICK step : Fetched(u, step)
        BY <3>2, Zenon DEF FetchHeader, FetchRest
      <4> QED BY <4>1, FetchedIs
    <3> QED BY <1>7, <3>1, <3>2
  <2> QED BY <1>2, <2>4, <2>5
<1>8. ASSUME NEW u \in Threads, ReadReturns(u) PROVE u = t /\ op[t].step = "hop" /\ remote_node.isValue
  <2>1. u # t => op'[t] = op[t]
    BY <1>1, <1>8 DEF ReadReturns
  <2>2. u = t
    BY <1>2, <2>1
  <2> QED BY <1>8, <2>2 DEF ReadReturns
<1>9. op[t].step = "hop" /\ remote_node.isValue
  BY <1>3, <1>4, <1>5, <1>6, <1>7, <1>8, Zenon DEF RdmaNext, ReadStep
<1>10. QED
  BY <1>1, <1>9 DEF Near, Right

(* What RDMARead() can be relied on for with one buffer and inserts beside *)
(* the reads: a read of an acknowledged key that the backend does not      *)
(* overtake returns that key's value, through the tables as old as they    *)
(* are, any number of hops and the entries beyond an array's _size.        *)
THEOREM QuietReadsReturnTheirValue ==
  ASSUME MaxReads <= 1
  PROVE  RdmaSpec => QuietReadsAreRight
<1> DEFINE Quiet == \A t \in Threads :
             /\ ReadEnds(t) /\ op[t].known /\ ~op[t].overtaken
             /\ op[t].key \in snapshot \/ ~pool[Route(op[t].key)].isValue
             => Right(t)
<1>1. RdmaInit => ReadInv
  <2>1. RdmaInit => \A t \in Threads : ~Reading(t)
    BY DEF RdmaInit, Reading, Idle
  <2> QED BY <2>1 DEF ReadInv, OneReader, Near
<1>2. IInv /\ SystemInv /\ ReadInv /\ [RdmaNext]_rdmaVars => ReadInv'
  BY ReadInvStep DEF SystemInv
<1>3. IInv /\ SystemInv /\ ReadInv /\ [RdmaNext]_rdmaVars => [Quiet]_rdmaVars
  BY SoundReadsEndRight DEF SystemInv, Sound
<1>4. RdmaSpec => [][Quiet]_rdmaVars
  <2> HIDE DEF Quiet
  <2> QED BY SystemInvariance, <1>1, <1>2, <1>3, PTL DEF RdmaSpec
<1>5. QED
  BY <1>4 DEF QuietReadsAreRight
=============================================================================
