--------------------------- MODULE FatBTreeProofs ---------------------------
(***************************************************************************)
(* Proof that IInv is an invariant of the backend's tree, for every node   *)
(* capacity, every set of keys and every pool, and what follows from it.   *)
(***************************************************************************)
EXTENDS FatBTreeInv, SequenceTheorems, WellFoundedInduction, TLAPS

-----------------------------------------------------------------------------
(***************************************************************************)
(* The arrays: what their operations return, for every array.              *)
(***************************************************************************)
(* Every nonempty set of naturals has a least element: lower_bound's scan  *)
(* stops somewhere.                                                        *)
LEMMA LeastNat ==
  ASSUME NEW T \in SUBSET Nat, T # {}
  PROVE  \E x \in T : \A y \in T : x <= y
<1>1. \E x \in T : \A y \in T : ~ (<<y, x>> \in OpToRel(<, Nat))
  BY NatLessThanWellFounded, WFMin
<1>2. \A x, y \in Nat : y < x => <<y, x>> \in OpToRel(<, Nat)
  <2> TAKE x, y \in Nat
  <2> HAVE y < x
  <2>1. <<y, x>> \in Nat \X Nat
    OBVIOUS
  <2>2. <<y, x>>[1] = y /\ <<y, x>>[2] = x
    OBVIOUS
  <2> QED BY <2>1, <2>2 DEF OpToRel
<1>3. \E x \in T : \A y \in T : ~ (y < x)
  BY <1>1, <1>2
<1>4. QED
  BY <1>3

(* lower_bound's result: everything before it is below k, the entry at it  *)
(* (if any) is not.                                                        *)
LEMMA LowerBoundSpec ==
  ASSUME NEW s \in Seq(Int), NEW k \in Int
  PROVE  /\ LowerBound(s, k) \in 1..(Len(s) + 1)
         /\ \A j \in 1..(LowerBound(s, k) - 1) : s[j] < k
         /\ LowerBound(s, k) <= Len(s) => s[LowerBound(s, k)] >= k
<1> DEFINE T == {i \in 1..(Len(s) + 1) : i <= Len(s) => s[i] >= k}
<1>1. T \in SUBSET Nat /\ T # {}
  <2>1. Len(s) + 1 \in T
    OBVIOUS
  <2> QED BY <2>1
<1>2. PICK i \in T : \A y \in T : i <= y
  <2> HIDE DEF T
  <2> QED BY <1>1, LeastNat
<1>3. \A j \in 1..(i - 1) : s[j] < k
  <2> TAKE j \in 1..(i - 1)
  <2>1. j \notin T
    BY <1>2
  <2>2. s[j] \in Int
    OBVIOUS
  <2> QED BY <2>1, <2>2
<1>4. QED
  BY <1>2, <1>3 DEF LowerBound

(* fixed_size_array::insert(): one entry more, those from p on moved up.   *)
LEMMA InsertProps ==
  ASSUME NEW S, NEW s \in Seq(S), NEW p \in 1..(Len(s) + 1), NEW e \in S
  PROVE  /\ Insert(s, p, e) \in Seq(S)
         /\ Len(Insert(s, p, e)) = Len(s) + 1
         /\ \A i \in 1..(p - 1) : Insert(s, p, e)[i] = s[i]
         /\ Insert(s, p, e)[p] = e
         /\ \A i \in (p + 1)..(Len(s) + 1) : Insert(s, p, e)[i] = s[i - 1]
<1> DEFINE a == SubSeq(s, 1, p - 1)
           b == SubSeq(s, p, Len(s))
           c == a \o <<e>>
<1>1. /\ a \in Seq(S) /\ Len(a) = p - 1
      /\ \A i \in 1..(p - 1) : a[i] = s[i]
  BY SubSeqProperties
<1>2. /\ b \in Seq(S) /\ Len(b) = Len(s) - p + 1
      /\ \A i \in 1..(Len(s) - p + 1) : b[i] = s[p + i - 1]
  BY SubSeqProperties
<1>3. /\ <<e>> \in Seq(S) /\ Len(<<e>>) = 1 /\ <<e>>[1] = e
  OBVIOUS
<1>4. /\ c \in Seq(S) /\ Len(c) = p
      /\ \A i \in 1..p : c[i] = IF i < p THEN s[i] ELSE e
  <2> HIDE DEF a, b
  <2> QED BY <1>1, <1>3, ConcatProperties
<1>5. /\ c \o b \in Seq(S)
      /\ Len(c \o b) = Len(s) + 1
      /\ \A i \in 1..(Len(s) + 1) : (c \o b)[i] = IF i <= p THEN c[i] ELSE b[i - p]
  <2> HIDE DEF a, b, c
  <2>1. /\ c \o b \in Seq(S)
        /\ Len(c \o b) = Len(c) + Len(b)
        /\ \A i \in 1..(Len(c) + Len(b)) :
             (c \o b)[i] = IF i <= Len(c) THEN c[i] ELSE b[i - Len(c)]
    BY <1>2, <1>4, ConcatProperties
  <2>2. Len(s) \in Nat /\ Len(c) = p /\ Len(c) + Len(b) = Len(s) + 1
    BY <1>2, <1>4, LenProperties
  <2> QED BY <2>1, <2>2
<1>6. Insert(s, p, e) = c \o b
  BY DEF Insert, InsertAt
<1> HIDE DEF a, b, c
<1>7. QED
  BY <1>2, <1>4, <1>5, <1>6

(* erase(begin() + n, end()) leaves the first n entries.                   *)
LEMMA KeepProps ==
  ASSUME NEW S, NEW s \in Seq(S), NEW n \in 0..Len(s)
  PROVE  /\ Keep(s, n) \in Seq(S)
         /\ Len(Keep(s, n)) = n
         /\ \A i \in 1..n : Keep(s, n)[i] = s[i]
<1>1. Len(s) \in Nat /\ \A i \in 1..n : s[i] \in S
  BY LenProperties
<1>2. QED
  BY <1>1, SubSeqProperties DEF Keep

(* The upper part of an array, as a split moves it to the new node.        *)
LEMMA FromProps ==
  ASSUME NEW S, NEW s \in Seq(S), NEW n \in 0..Len(s)
  PROVE  /\ From(s, n) \in Seq(S)
         /\ Len(From(s, n)) = Len(s) - n
         /\ \A i \in 1..(Len(s) - n) : From(s, n)[i] = s[n + i]
<1>1. Len(s) \in Nat /\ \A i \in (n + 1)..Len(s) : s[i] \in S
  BY LenProperties
<1>2. /\ From(s, n) \in Seq(S)
      /\ Len(From(s, n)) = IF n + 1 <= Len(s) THEN Len(s) - (n + 1) + 1 ELSE 0
      /\ \A i \in 1..(Len(s) - (n + 1) + 1) : From(s, n)[i] = s[n + 1 + i - 1]
  BY <1>1, SubSeqProperties DEF From
<1>3. Len(From(s, n)) = Len(s) - n
  BY <1>1, <1>2
<1>4. ASSUME NEW i \in 1..(Len(s) - n) PROVE From(s, n)[i] = s[n + i]
  <2>1. i \in 1..(Len(s) - (n + 1) + 1) /\ n + 1 + i - 1 = n + i
    BY <1>1
  <2> QED BY <1>2, <2>1
<1>5. QED
  BY <1>2, <1>3, <1>4

(* There is one place lower_bound can return.                              *)
LEMMA LowerBoundUnique ==
  ASSUME NEW s \in Seq(Int), NEW k \in Int, NEW q \in 1..(Len(s) + 1),
         \A j \in 1..(q - 1) : s[j] < k,
         q <= Len(s) => s[q] >= k
  PROVE  LowerBound(s, k) = q
<1> DEFINE p == LowerBound(s, k)
<1>1. /\ p \in 1..(Len(s) + 1)
      /\ \A j \in 1..(p - 1) : s[j] < k
      /\ p <= Len(s) => s[p] >= k
  BY LowerBoundSpec
<1>2. Len(s) \in Nat /\ \A j \in 1..Len(s) : s[j] \in Int
  BY LenProperties
<1> HIDE DEF p
<1>3. ~ (p < q)
  <2> SUFFICES ASSUME p < q PROVE FALSE
    OBVIOUS
  <2>1. p \in 1..(q - 1) /\ p <= Len(s) /\ s[p] \in Int
    BY <1>1, <1>2
  <2> QED BY <1>1, <2>1
<1>4. ~ (q < p)
  <2> SUFFICES ASSUME q < p PROVE FALSE
    OBVIOUS
  <2>1. q \in 1..(p - 1) /\ q <= Len(s) /\ s[q] \in Int
    BY <1>1, <1>2
  <2> QED BY <1>1, <2>1
<1>5. p = q
  BY <1>1, <1>2, <1>3, <1>4
<1>6. QED
  BY <1>5 DEF p

(* An entry inserted between the smaller and the larger ones.              *)
LEMMA SortedInsert ==
  ASSUME NEW s \in Seq(Int), NEW e \in Int, NEW p \in 1..(Len(s) + 1),
         StrictlySorted(s),
         \A j \in 1..(p - 1) : s[j] < e,
         \A j \in p..Len(s) : e < s[j]
  PROVE  StrictlySorted(Insert(s, p, e))
<1> DEFINE S == Int
           t == Insert(s, p, e)
<1>1. /\ t \in Seq(S) /\ Len(t) = Len(s) + 1
      /\ \A i \in 1..(p - 1) : t[i] = s[i]
      /\ t[p] = e
      /\ \A i \in (p + 1)..(Len(s) + 1) : t[i] = s[i - 1]
  <2>1. s \in Seq(S) /\ e \in S
    OBVIOUS
  <2> HIDE DEF S
  <2> QED BY <2>1, InsertProps
<1>2. /\ Len(s) \in Nat /\ \A j \in 1..Len(s) : s[j] \in Int
      /\ DOMAIN s = 1..Len(s)
  BY LenProperties
<1> HIDE DEF t
<1>3. DOMAIN t = 1..(Len(s) + 1)
  BY <1>1, LenProperties
<1>4. \A i, j \in 1..Len(s) : i < j => s[i] < s[j]
  BY <1>2 DEF StrictlySorted
<1>5. ASSUME NEW i \in 1..(Len(s) + 1), NEW j \in 1..(Len(s) + 1), i < j
      PROVE  t[i] < t[j]
  <2>1. CASE j < p
    BY <1>1, <1>2, <1>4, <1>5, <2>1
  <2>2. CASE j = p
    BY <1>1, <1>2, <1>5, <2>2
  <2>3. CASE j > p /\ i < p
    <3>1. t[i] = s[i] /\ t[j] = s[j - 1] /\ j - 1 \in p..Len(s) /\ i \in 1..(p - 1)
      BY <1>1, <1>2, <2>3
    <3>2. s[i] < e /\ e < s[j - 1] /\ s[i] \in Int /\ s[j - 1] \in Int
      BY <1>2, <3>1
    <3> QED BY <3>1, <3>2
  <2>4. CASE j > p /\ i = p
    <3>1. t[i] = e /\ t[j] = s[j - 1] /\ j - 1 \in p..Len(s)
      BY <1>1, <1>2, <2>4
    <3> QED BY <3>1
  <2>5. CASE j > p /\ i > p
    <3>1. t[i] = s[i - 1] /\ t[j] = s[j - 1]
      BY <1>1, <1>2, <2>5
    <3>2. i - 1 \in 1..Len(s) /\ j - 1 \in 1..Len(s) /\ i - 1 < j - 1
      BY <1>2, <1>5, <2>5
    <3>3. s[i - 1] < s[j - 1]
      BY <1>4, <3>2
    <3> QED BY <3>1, <3>3
  <2> QED BY <1>2, <2>1, <2>2, <2>3, <2>4, <2>5
<1>6. QED
  BY <1>3, <1>5 DEF StrictlySorted, t

(* Parts of a sorted array are sorted.                                     *)
LEMMA SortedParts ==
  ASSUME NEW s \in Seq(Int), StrictlySorted(s), NEW n \in 0..Len(s)
  PROVE  StrictlySorted(Keep(s, n)) /\ StrictlySorted(From(s, n))
<1>1. Len(s) \in Nat /\ \A i, j \in 1..Len(s) : i < j => s[i] < s[j]
  BY LenProperties DEF StrictlySorted
<1>2. /\ Keep(s, n) \in Seq(Int) /\ Len(Keep(s, n)) = n
      /\ \A i \in 1..n : Keep(s, n)[i] = s[i]
  BY KeepProps
<1>3. /\ From(s, n) \in Seq(Int) /\ Len(From(s, n)) = Len(s) - n
      /\ \A i \in 1..(Len(s) - n) : From(s, n)[i] = s[n + i]
  BY FromProps
<1>4. DOMAIN Keep(s, n) = 1..n /\ DOMAIN From(s, n) = 1..(Len(s) - n)
  BY <1>2, <1>3, LenProperties
<1>5. ASSUME NEW i \in 1..n, NEW j \in 1..n, i < j
      PROVE  Keep(s, n)[i] < Keep(s, n)[j]
  <2>1. i \in 1..Len(s) /\ j \in 1..Len(s)
    BY <1>1
  <2>2. s[i] < s[j]
    BY <1>1, <1>5, <2>1
  <2> QED BY <1>2, <2>2
<1>6. ASSUME NEW i \in 1..(Len(s) - n), NEW j \in 1..(Len(s) - n), i < j
      PROVE  From(s, n)[i] < From(s, n)[j]
  <2>1. n + i \in 1..Len(s) /\ n + j \in 1..Len(s) /\ n + i < n + j
    BY <1>1, <1>6
  <2>2. s[n + i] < s[n + j]
    BY <1>1, <2>1
  <2> QED BY <1>3, <2>2
<1>7. QED
  BY <1>4, <1>5, <1>6 DEF StrictlySorted

-----------------------------------------------------------------------------
(***************************************************************************)
(* The simple actions, and what follows from the invariant.                *)
(***************************************************************************)
(* Typing of the fields of a node.                                         *)
LEMMA FieldTypes ==
  ASSUME TypeOK, NEW n \in Addr
  PROVE  /\ pool[n] \in Node
         /\ pool[n].key \in Seq(Keys) /\ pool[n].key \in Seq(Int)
         /\ pool[n].child \in Seq(Addr)
         /\ Len(pool[n].key) \in Nat /\ Len(pool[n].child) \in Nat
         /\ \A i \in 1..Len(pool[n].key) : pool[n].key[i] \in Keys
         /\ \A i \in 1..Len(pool[n].child) : pool[n].child[i] \in Addr
         /\ pool[n].isLeaf \in BOOLEAN /\ pool[n].isValue \in BOOLEAN
         /\ cover[n].lo \in 0..KeyMax /\ cover[n].hi \in 0..KeyMax
<1>1. pool[n] \in Node
  BY DEF TypeOK
<1>2. pool[n].key \in Seq(Keys) /\ pool[n].child \in Seq(Addr)
  BY <1>1 DEF Node
<1>3. Keys \subseteq Int
  BY ConstantsAssumption
<1>4. pool[n].key \in Seq(Int)
  BY <1>2, <1>3, SeqMonotonic
<1>5. /\ Len(pool[n].key) \in Nat /\ Len(pool[n].child) \in Nat
      /\ \A i \in 1..Len(pool[n].key) : pool[n].key[i] \in Keys
      /\ \A i \in 1..Len(pool[n].child) : pool[n].child[i] \in Addr
  BY <1>2, LenProperties
<1>6. pool[n].isLeaf \in BOOLEAN /\ pool[n].isValue \in BOOLEAN
  BY <1>1 DEF Node
<1>7. cover[n].lo \in 0..KeyMax /\ cover[n].hi \in 0..KeyMax
  BY DEF TypeOK
<1>8. QED
  BY <1>1, <1>2, <1>4, <1>5, <1>6, <1>7

\* The nodes in use are slots of the pool.
LEMMA NodesAreAddresses == TypeOK => Nodes \subseteq Addr /\ Root \in Nodes
  BY ConstantsAssumption DEF TypeOK, Nodes, Addr, Root

-----------------------------------------------------------------------------
(* One hop of a search stays with the nodes responsible for the key.       *)
LEMMA HopStays == IInv => Routing
<1> SUFFICES ASSUME IInv, NEW n \in Nodes, NEW k \in Stored,
                    ~Value(n), InRange(k, cover[n])
             PROVE  LET i == LowerBound(pool[n].key, k)
                    IN  /\ i \in 1..Len(pool[n].child)
                        /\ LET c == pool[n].child[i]
                           IN  IF Leaf(n) THEN Value(c) /\ pool[c].val = k
                               ELSE ~Value(c) /\ InRange(k, cover[c])
  BY DEF Routing
<1> DEFINE i == LowerBound(pool[n].key, k)
           ks == pool[n].key
<1>1. TypeOK /\ n \in Addr /\ k \in Keys /\ k \in Int
  BY NodesAreAddresses, ConstantsAssumption DEF IInv, TypeOK, Stored
<1>2. /\ i \in 1..(Len(ks) + 1)
      /\ \A j \in 1..(i - 1) : ks[j] < k
      /\ i <= Len(ks) => ks[i] >= k
  BY <1>1, FieldTypes, LowerBoundSpec
<1>3. /\ ks \in Seq(Int) /\ Len(ks) \in Nat /\ DOMAIN ks = 1..Len(ks)
      /\ \A j \in 1..Len(ks) : ks[j] \in Int
  BY <1>1, FieldTypes, LenProperties
<1>4. StrictlySorted(ks)
  BY DEF IInv, Shape, KeysShape
<1> HIDE DEF i, ks
<1>5. CASE Leaf(n)
  <2>1. PICK j \in 1..Len(ks) : ks[j] = k
    BY <1>5 DEF IInv, LeavesComplete, ks
  <2>2. i = j
    BY <1>2, <1>3, <1>4, <2>1, <1>1 DEF StrictlySorted
  <2>3. /\ Len(pool[n].child) = Len(ks)
        /\ Value(pool[n].child[j]) /\ pool[pool[n].child[j]].val = ks[j]
    BY <1>5, <2>1 DEF IInv, Shape, LeafShape, ks
  <2> QED BY <2>1, <2>2, <2>3, <1>5 DEF i
<1>6. CASE ~Leaf(n)
  <2>1. Len(pool[n].child) = Len(ks) + 1 /\ i \in 1..Len(pool[n].child)
    BY <1>2, <1>6 DEF IInv, Shape, InnerShape, Inner, Leaf, Value, ks
  <2>2. /\ ~Value(pool[n].child[i])
        /\ cover[pool[n].child[i]].lo = SlotLo(n, i)
        /\ cover[pool[n].child[i]].hi = SlotHi(n, i)
    BY <1>6, <2>1 DEF IInv, Shape, InnerShape, Inner, Leaf, Value
  <2>3. SlotLo(n, i) < k
    BY <1>2, <1>3 DEF SlotLo, InRange, ks
  <2>4. k <= SlotHi(n, i)
    <3>1. CASE i = Len(pool[n].child)
      BY <3>1 DEF SlotHi, InRange
    <3>2. CASE i # Len(pool[n].child)
      BY <1>1, <1>2, <1>3, <2>1, <3>2 DEF SlotHi, ks
    <3> QED BY <3>1, <3>2
  <2> QED BY <2>1, <2>2, <2>3, <2>4, <1>6 DEF i, InRange
<1>7. QED
  BY <1>5, <1>6 DEF i

-----------------------------------------------------------------------------
\* An empty tree satisfies the invariant.
LEMMA InitInv == Init => IInv
<1> SUFFICES ASSUME Init PROVE IInv
  OBVIOUS
<1>1. Nodes = {Root} /\ Root \in Addr /\ 0 \in 0..KeyMax /\ KeyMax \in 0..KeyMax
  BY ConstantsAssumption DEF Init, Nodes, Root, Addr
<1>2. pool[Root] = FreshNode /\ cover[Root] = KeyRange(0, KeyMax)
  BY <1>1 DEF Init
<1>3. FreshNode \in Node
  BY EmptySeq DEF FreshNode, Node, Null, NoKey
<1>4. Len(<<>>) = 0 /\ DOMAIN <<>> = {}
  OBVIOUS
<1>5. TypeOK
  <2>1. KeyRange(0, KeyMax) \in [lo : 0..KeyMax, hi : 0..KeyMax]
    BY <1>1 DEF KeyRange
  <2> QED
    BY <1>1, <1>3, <1>4, <2>1, ConstantsAssumption DEF Init, TypeOK, NoKey
<1>6. Shape
  BY <1>1, <1>2, <1>4, ConstantsAssumption
  DEF Shape, ValueShape, LeafShape, InnerShape, KeysShape, ParentShape,
      LeavesDisjoint, Leaf, Value, Inner, FreshNode, StrictlySorted, KeyRange, Null
<1>7. LeavesComplete
  BY <1>1, <1>2, <1>4 DEF Init, LeavesComplete, Stored, FreshNode
<1>8. Fill /\ Backend /\ Load
  BY <1>1, <1>2, <1>4, ConstantsAssumption
  DEF Init, Fill, Backend, Load, Value, FreshNode
<1>9. QED
  BY <1>5, <1>6, <1>7, <1>8 DEF IInv

-----------------------------------------------------------------------------
(* A step that changes no array, flag or parent pointer of the tree keeps  *)
(* its shape; print_info() only marks nodes as loaded.                     *)
SameTree ==
  /\ nb_node' = nb_node /\ cover' = cover
  /\ \A n \in Addr :
       /\ pool'[n].isLeaf = pool[n].isLeaf
       /\ pool'[n].isValue = pool[n].isValue
       /\ pool'[n].parent = pool[n].parent
       /\ pool'[n].key = pool[n].key
       /\ pool'[n].child = pool[n].child
       /\ pool'[n].val = pool[n].val

\* The shape of the tree depends on the tree alone.
LEMMA ShapeFrame ==
  ASSUME TypeOK, Shape, SameTree
  PROVE  Shape'
<1>1. Nodes' = Nodes /\ Nodes \subseteq Addr /\ Root \in Nodes
  BY NodesAreAddresses DEF SameTree, Nodes
<1>2. \A n \in Addr : /\ Leaf(n)' = Leaf(n) /\ Value(n)' = Value(n)
                      /\ Inner(n)' = Inner(n)
  BY DEF SameTree, Leaf, Value, Inner
<1>3. \A n \in Addr : \A i : /\ SlotLo(n, i)' = SlotLo(n, i)
                            /\ SlotHi(n, i)' = SlotHi(n, i)
  BY DEF SameTree, SlotLo, SlotHi
<1>4. ValueShape'
  BY <1>1, <1>2 DEF Shape, ValueShape, SameTree
<1>5. LeafShape'
  BY <1>1, <1>2 DEF Shape, LeafShape, SameTree
<1>6. InnerShape'
  <2>1. ASSUME NEW n \in Nodes, Inner(n)
        PROVE  Len(pool'[n].child) = Len(pool'[n].key) + 1
    BY <1>1, <2>1 DEF Shape, InnerShape, SameTree
  <2>2. ASSUME NEW n \in Nodes, Inner(n), NEW i \in 1..Len(pool'[n].child)
        PROVE  /\ pool'[n].child[i] \in Nodes \ {Root}
               /\ ~pool'[pool'[n].child[i]].isValue
               /\ pool'[pool'[n].child[i]].parent = n
               /\ cover'[pool'[n].child[i]].lo = SlotLo(n, i)'
               /\ cover'[pool'[n].child[i]].hi = SlotHi(n, i)'
    <3>1. pool'[n].child = pool[n].child
      BY <1>1 DEF SameTree
    <3>2. /\ pool[n].child[i] \in Nodes \ {Root}
          /\ ~Value(pool[n].child[i])
          /\ pool[pool[n].child[i]].parent = n
          /\ cover[pool[n].child[i]].lo = SlotLo(n, i)
          /\ cover[pool[n].child[i]].hi = SlotHi(n, i)
      BY <2>2, <3>1 DEF Shape, InnerShape
    <3>3. PICK c : c = pool[n].child[i]
      OBVIOUS
    <3>4. c \in Addr /\ Value(c)' = Value(c) /\ pool'[c].parent = pool[c].parent
          /\ cover' = cover
      BY <1>1, <1>2, <3>2, <3>3 DEF SameTree
    <3>5. SlotLo(n, i)' = SlotLo(n, i) /\ SlotHi(n, i)' = SlotHi(n, i)
      BY <1>1, <1>3
    <3>6. c \in Nodes \ {Root} /\ ~Value(c) /\ pool[c].parent = n
          /\ cover[c].lo = SlotLo(n, i) /\ cover[c].hi = SlotHi(n, i)
      BY <3>2, <3>3
    <3>7. pool'[n].child[i] = c
      BY <3>1, <3>3
    <3>8. /\ c \in Nodes \ {Root} /\ ~pool'[c].isValue /\ pool'[c].parent = n
          /\ cover'[c].lo = SlotLo(n, i)' /\ cover'[c].hi = SlotHi(n, i)'
      BY <3>4, <3>5, <3>6 DEF Value
    <3> QED
      BY <3>7, <3>8
  <2>3. \A n \in Nodes : Inner(n)' = Inner(n)
    BY <1>1, <1>2
  <2> QED
    BY <1>1, <2>1, <2>2, <2>3 DEF InnerShape, Value
<1>7. KeysShape'
  BY <1>1, <1>2 DEF Shape, KeysShape, SameTree, StrictlySorted
<1>8. ParentShape'
  BY <1>1, <1>2 DEF Shape, ParentShape, SameTree
<1>9. LeavesDisjoint'
  BY <1>1, <1>2 DEF Shape, LeavesDisjoint, SameTree
<1>10. QED
  BY <1>4, <1>5, <1>6, <1>7, <1>8, <1>9 DEF Shape

\* What the leaves hold depends on the tree and the stored keys alone.
LEMMA CompleteFrame ==
  ASSUME TypeOK, LeavesComplete, SameTree, Stored' = Stored
  PROVE  LeavesComplete'
<1>1. Nodes' = Nodes /\ Nodes \subseteq Addr
  BY NodesAreAddresses DEF SameTree, Nodes
<1>2. \A n \in Addr : Leaf(n)' = Leaf(n)
  BY DEF SameTree, Leaf
<1>3. QED
  BY <1>1, <1>2 DEF LeavesComplete, SameTree

\* A step that leaves the pool alone leaves the tree alone.
LEMMA SameTreeUnchanged ==
  ASSUME UNCHANGED <<pool, nb_node, cover>>
  PROVE  SameTree /\ Nodes' = Nodes
  BY DEF SameTree, Nodes

\* The start of an insert keeps the invariant.
LEMMA InsertBeginInv ==
  ASSUME IInv, NEW k \in Keys, InsertBegin(k)
  PROVE  IInv'
<1>1. SameTree /\ Nodes' = Nodes
  BY SameTreeUnchanged DEF InsertBegin, treeVars
<1>2. TypeOK'
  BY NodesAreAddresses DEF IInv, TypeOK, InsertBegin, loadVars
<1>3. Stored' = Stored
  BY DEF InsertBegin, Stored
<1>4. Shape' /\ LeavesComplete'
  BY <1>1, <1>3, ShapeFrame, CompleteFrame DEF IInv
<1>5. Fill'
  BY <1>1 DEF IInv, Fill, InsertBegin, Value
<1>6. Backend'
  <2>1. Root \in Nodes /\ ~Value(Root) /\ cover[Root] = KeyRange(0, KeyMax)
    BY NodesAreAddresses DEF IInv, Shape, ParentShape
  <2>2. InRange(k, cover[Root])
    BY <2>1, ConstantsAssumption DEF InRange, KeyRange
  <2> QED BY <1>1, <2>1, <2>2 DEF Backend, InsertBegin, Value
<1>7. Load'
  BY <1>1 DEF IInv, Load, InsertBegin, loadVars
<1>8. QED
  BY <1>2, <1>4, <1>5, <1>6, <1>7 DEF IInv

(* insert()'s descent: Routing's argument for a key that is not there yet. *)
LEMMA HopDescends ==
  ASSUME IInv, NEW n \in Nodes, Inner(n), NEW k \in Keys, InRange(k, cover[n])
  PROVE  /\ ChildFor(n, k) \in Nodes /\ ~Value(ChildFor(n, k))
         /\ InRange(k, cover[ChildFor(n, k)])
<1> DEFINE i == LowerBound(pool[n].key, k)
           ks == pool[n].key
<1>1. TypeOK /\ n \in Addr /\ k \in Int
  BY NodesAreAddresses, ConstantsAssumption DEF IInv
<1>2. /\ i \in 1..(Len(ks) + 1)
      /\ \A j \in 1..(i - 1) : ks[j] < k
      /\ i <= Len(ks) => ks[i] >= k
  BY <1>1, FieldTypes, LowerBoundSpec
<1>3. ks \in Seq(Int) /\ Len(ks) \in Nat /\ \A j \in 1..Len(ks) : ks[j] \in Int
  BY <1>1, FieldTypes, LenProperties
<1> HIDE DEF i, ks
<1>4. Len(pool[n].child) = Len(ks) + 1 /\ i \in 1..Len(pool[n].child)
  BY <1>2 DEF IInv, Shape, InnerShape, ks
<1>5. /\ pool[n].child[i] \in Nodes /\ ~Value(pool[n].child[i])
      /\ cover[pool[n].child[i]].lo = SlotLo(n, i)
      /\ cover[pool[n].child[i]].hi = SlotHi(n, i)
  BY <1>4 DEF IInv, Shape, InnerShape
<1>6. SlotLo(n, i) < k
  BY <1>2, <1>3 DEF SlotLo, InRange, ks
<1>7. k <= SlotHi(n, i)
  <2>1. CASE i = Len(pool[n].child)
    BY <2>1 DEF SlotHi, InRange
  <2>2. CASE i # Len(pool[n].child)
    BY <1>1, <1>2, <1>3, <1>4, <2>2 DEF SlotHi, ks
  <2> QED BY <2>1, <2>2
<1>8. ChildFor(n, k) = pool[n].child[i]
  BY DEF ChildFor, i
<1>9. QED
  BY <1>5, <1>6, <1>7, <1>8 DEF InRange

\* A hop of insert()'s descent keeps the invariant.
LEMMA DescendInv ==
  ASSUME IInv, Descend
  PROVE  IInv'
<1>1. SameTree /\ Nodes' = Nodes
  BY SameTreeUnchanged DEF Descend, treeVars
<1>2. in_key \in Keys /\ cur \in Nodes /\ Inner(cur) /\ InRange(in_key, cover[cur])
  BY DEF IInv, TypeOK, Backend, Descend, Inner, Value
<1>3. cur' \in Nodes /\ ~Value(cur') /\ InRange(in_key, cover[cur'])
  BY <1>2, HopDescends DEF Descend
<1>4. TypeOK'
  BY <1>3, NodesAreAddresses DEF IInv, TypeOK, Descend, treeVars, loadVars
<1>5. Stored' = Stored
  BY DEF Descend, Stored, treeVars
<1>6. Shape' /\ LeavesComplete'
  BY <1>1, <1>5, ShapeFrame, CompleteFrame DEF IInv
<1>7. Fill'
  BY <1>1 DEF IInv, Fill, Descend, Value, treeVars
<1>8. Backend'
  BY <1>1, <1>3 DEF IInv, Backend, Descend, Value, treeVars
<1>9. Load'
  BY <1>1 DEF IInv, Load, Descend, loadVars
<1>10. QED
  BY <1>4, <1>6, <1>7, <1>8, <1>9 DEF IInv

\* The end of an insert keeps the invariant.
LEMMA OverflowDoneInv ==
  ASSUME IInv, OverflowDone
  PROVE  IInv'
<1>1. SameTree /\ Nodes' = Nodes
  BY SameTreeUnchanged DEF OverflowDone, treeVars
<1>2. TypeOK'
  BY DEF IInv, TypeOK, OverflowDone, treeVars, loadVars
<1>3. Stored' = Stored
  BY DEF OverflowDone, Stored, treeVars
<1>4. Shape' /\ LeavesComplete'
  BY <1>1, <1>3, ShapeFrame, CompleteFrame DEF IInv
<1>5. Fill'
  BY <1>1, ConstantsAssumption DEF IInv, Fill, OverflowDone, Value, treeVars
<1>6. Backend'
  BY <1>1 DEF IInv, Backend, OverflowDone, Value, treeVars
<1>7. Load'
  BY <1>1 DEF IInv, Load, OverflowDone, loadVars
<1>8. QED
  BY <1>2, <1>4, <1>5, <1>6, <1>7 DEF IInv

-----------------------------------------------------------------------------
(* load2switch_greedy() only reads the tree and marks nodes.               *)
LEMMA ChildBoundsTypes ==
  ASSUME TypeOK, Shape, NEW n \in Nodes
  PROVE  /\ DOMAIN ChildBounds(n) = ToSet(pool[n].child)
         /\ ToSet(pool[n].child) \subseteq Addr
         /\ ToSet(pool[n].child) \subseteq Nodes
         /\ \A c \in ToSet(pool[n].child) : ChildBounds(n)[c] \in 0..KeyMax
<1>1. n \in Addr
  BY NodesAreAddresses
<1>2. DOMAIN pool[n].child = 1..Len(pool[n].child)
  BY <1>1, FieldTypes, LenProperties
<1>3. ToSet(pool[n].child) \subseteq Addr
  BY <1>1, <1>2, FieldTypes DEF ToSet
<1>4. /\ ToSet(pool[n].child) \subseteq Nodes
      /\ Len(pool[n].child) <= Len(pool[n].key) + 1
  <2>1. CASE Value(n)
    BY <1>1, <1>2, <2>1, FieldTypes DEF Shape, ValueShape, ToSet
  <2>2. CASE Leaf(n)
    BY <1>1, <1>2, <2>2, FieldTypes DEF Shape, LeafShape, ToSet
  <2>3. CASE Inner(n)
    BY <1>1, <1>2, <2>3, FieldTypes DEF Shape, InnerShape, ToSet
  <2> QED BY <2>1, <2>2, <2>3 DEF Inner, Leaf, Value
<1>5. ASSUME NEW c \in ToSet(pool[n].child)
      PROVE  ChildBounds(n)[c] \in 0..KeyMax
  <2> DEFINE j == CHOOSE x \in DOMAIN pool[n].child : pool[n].child[x] = c
  <2>1. j \in 1..Len(pool[n].child)
    BY <1>2 DEF ToSet
  <2>2. ChildBounds(n)[c] = IF j = 1 THEN 0 ELSE pool[n].key[j - 1]
    BY DEF ChildBounds
  <2> HIDE DEF j
  <2>3. CASE j = 1
    BY <2>2, <2>3, ConstantsAssumption
  <2>4. CASE j # 1
    <3>1. j - 1 \in 1..Len(pool[n].key)
      BY <1>1, <1>4, <2>1, <2>4, FieldTypes
    <3>2. pool[n].key[j - 1] \in Keys
      BY <1>1, <3>1, FieldTypes
    <3>3. pool[n].key[j - 1] \in 0..KeyMax
      BY <3>2, ConstantsAssumption
    <3>4. ChildBounds(n)[c] = pool[n].key[j - 1]
      BY <2>2, <2>4
    <3> QED BY <3>3, <3>4
  <2> QED BY <2>3, <2>4
<1>6. QED
  BY <1>3, <1>4, <1>5 DEF ChildBounds

\* The start of a load keeps the invariant.
LEMMA LoadBeginInv ==
  ASSUME IInv, LoadBegin
  PROVE  IInv'
<1>1. SameTree /\ Nodes' = Nodes /\ Root \in Nodes /\ Root \in Addr
  BY SameTreeUnchanged, NodesAreAddresses DEF LoadBegin, treeVars, IInv
<1>2. DOMAIN node_map' = {Root} /\ \A n \in {Root} : node_map'[n] = 0
  BY DEF LoadBegin
<1>3. TypeOK'
  BY <1>1, <1>2, ConstantsAssumption DEF IInv, TypeOK, LoadBegin, treeVars
<1>4. Stored' = Stored
  BY DEF LoadBegin, Stored, treeVars
<1>5. Shape' /\ LeavesComplete'
  BY <1>1, <1>4, ShapeFrame, CompleteFrame DEF IInv
<1>6. Fill'
  BY <1>1 DEF IInv, Fill, LoadBegin, Value, treeVars
<1>7. Backend'
  BY <1>1 DEF IInv, Backend, LoadBegin, Value, treeVars
<1>8. Load'
  BY <1>1, <1>2 DEF IInv, Load, LoadBegin
<1>9. QED
  BY <1>3, <1>5, <1>6, <1>7, <1>8 DEF IInv

\* The greedy expansion of the fat root keeps the invariant.
LEMMA ExpandInv ==
  ASSUME IInv, NEW n \in Addr, Expand(n)
  PROVE  IInv'
<1> DEFINE kids == ToSet(pool[n].child)
<1>1. SameTree /\ Nodes' = Nodes /\ Nodes \subseteq Addr
  BY SameTreeUnchanged, NodesAreAddresses DEF Expand, treeVars, IInv
<1>2. n \in Nodes /\ n \in DOMAIN node_map
  BY DEF IInv, Load, Expand
<1>3. kids \subseteq Nodes /\ \A c \in kids : ChildBounds(n)[c] \in 0..KeyMax
  BY <1>2, ChildBoundsTypes DEF IInv
<1>4. DOMAIN node_map' = (DOMAIN node_map \cup kids) \ {n}
  BY DEF Expand
<1>5. \A m \in DOMAIN node_map' : node_map'[m] \in 0..KeyMax
  <2> TAKE m \in DOMAIN node_map'
  <2>1. node_map'[m] = IF m \notin kids THEN node_map[m]
                       ELSE IF m = pool[n].child[1] THEN node_map[n]
                       ELSE ChildBounds(n)[m]
    BY <1>4 DEF Expand
  <2> HIDE DEF kids
  <2> QED BY <1>2, <1>3, <1>4, <2>1 DEF IInv, TypeOK
<1>6. node_pq' \subseteq DOMAIN node_map'
  BY <1>4 DEF Expand, IInv, Load
<1>7. TypeOK'
  BY <1>1, <1>3, <1>4, <1>5, <1>6 DEF IInv, TypeOK, Expand, treeVars, Load
<1>8. Stored' = Stored
  BY DEF Expand, Stored, treeVars
<1>9. Shape' /\ LeavesComplete'
  BY <1>1, <1>8, ShapeFrame, CompleteFrame DEF IInv
<1>10. Fill'
  BY <1>1 DEF IInv, Fill, Expand, Value, treeVars
<1>11. Backend'
  BY <1>1 DEF IInv, Backend, Expand, Value, treeVars
<1>12. Load'
  BY <1>1, <1>3, <1>4, <1>6 DEF IInv, Load, Expand
<1>13. QED
  BY <1>7, <1>9, <1>10, <1>11, <1>12 DEF IInv

\* Marking nodes as loaded leaves the tree alone.
LEMMA MarkLoadedSame ==
  ASSUME TypeOK, NEW S, pool' = MarkLoaded(S), nb_node' = nb_node, cover' = cover
  PROVE  SameTree /\ Nodes' = Nodes /\ pool' \in [Addr -> Node]
<1>1. \A n \in Addr : pool'[n] = [pool[n] EXCEPT !.isLoaded2Switch = @ \/ n \in S]
  BY DEF MarkLoaded
<1>2. ASSUME NEW n \in Addr
      PROVE  /\ pool'[n] \in Node
             /\ pool'[n].isLeaf = pool[n].isLeaf
             /\ pool'[n].isValue = pool[n].isValue
             /\ pool'[n].parent = pool[n].parent
             /\ pool'[n].key = pool[n].key
             /\ pool'[n].child = pool[n].child
             /\ pool'[n].val = pool[n].val
  BY <1>1, FieldTypes, ZenonT(60) DEF Node
<1>3. pool' \in [Addr -> Node]
  BY <1>2 DEF MarkLoaded
<1>4. QED
  BY <1>2, <1>3 DEF SameTree, Nodes

\* Printing the fat root keeps the invariant.
LEMMA PrintRootInv ==
  ASSUME IInv, PrintRoot
  PROVE  IInv'
<1>1. SameTree /\ Nodes' = Nodes /\ pool' \in [Addr -> Node] /\ Nodes \subseteq Addr
  BY MarkLoadedSame, NodesAreAddresses DEF PrintRoot, IInv
<1>2. cached' \subseteq DOMAIN node_map /\ DOMAIN node_map \subseteq Nodes
  BY DEF PrintRoot, IInv, Load
<1>3. \A r \in printed' :
        /\ r.layer \in Nat /\ r.node \in Addr /\ DOMAIN r.bounds \subseteq Addr
        /\ \A c \in DOMAIN r.bounds : r.bounds[c] \in 0..KeyMax
  BY <1>1, <1>2, NodesAreAddresses DEF PrintRoot, PrintedNode, IInv, TypeOK
<1>4. DOMAIN node_map' = {} /\ node_pq' = {}
  BY DEF PrintRoot
<1>5. TypeOK'
  BY <1>1, <1>2, <1>3, <1>4 DEF IInv, TypeOK, PrintRoot
<1>6. Stored' = Stored
  BY DEF PrintRoot, Stored
<1>7. Shape' /\ LeavesComplete'
  BY <1>1, <1>6, ShapeFrame, CompleteFrame DEF IInv
<1>8. Fill'
  BY <1>1 DEF IInv, Fill, PrintRoot, Value, SameTree
<1>9. Backend'
  BY <1>1 DEF IInv, Backend, PrintRoot, Value, SameTree
<1>10. Load'
  BY <1>1, <1>2, <1>4 DEF IInv, Load
<1>11. QED
  BY <1>5, <1>7, <1>8, <1>9, <1>10 DEF IInv

\* Printing a layer keeps the invariant.
LEMMA PrintLayerInv ==
  ASSUME IInv, PrintLayer
  PROVE  IInv'
<1>1. SameTree /\ Nodes' = Nodes /\ pool' \in [Addr -> Node] /\ Nodes \subseteq Addr
  BY MarkLoadedSame, NodesAreAddresses DEF PrintLayer, IInv
<1>2. cached \subseteq Nodes /\ \A n \in cached :
        /\ DOMAIN ChildBounds(n) \subseteq Nodes
        /\ \A c \in DOMAIN ChildBounds(n) : ChildBounds(n)[c] \in 0..KeyMax
  BY ChildBoundsTypes DEF IInv, Load
<1>3. cached' \subseteq Nodes
  <2>1. ChildrenOf(cached) \subseteq Nodes
    BY ChildBoundsTypes DEF ChildrenOf, IInv, Load
  <2>2. cached' \subseteq ChildrenOf(cached)
    BY DEF PrintLayer
  <2> QED BY <2>1, <2>2
<1>4. \A r \in printed' :
        /\ r.layer \in Nat /\ r.node \in Addr /\ DOMAIN r.bounds \subseteq Addr
        /\ \A c \in DOMAIN r.bounds : r.bounds[c] \in 0..KeyMax
  <2> TAKE r \in printed'
  <2>1. CASE r \in printed
    BY <2>1 DEF IInv, TypeOK
  <2>2. ASSUME NEW n \in cached, r = PrintedNode(layer, n, ChildBounds(n))
        PROVE  /\ r.layer \in Nat /\ r.node \in Addr
               /\ DOMAIN r.bounds \subseteq Addr
               /\ \A c \in DOMAIN r.bounds : r.bounds[c] \in 0..KeyMax
    <3>1. r.layer = layer /\ r.node = n /\ r.bounds = ChildBounds(n)
      BY <2>2 DEF PrintedNode
    <3> QED BY <1>1, <1>2, <3>1 DEF IInv, TypeOK
  <2> QED BY <2>1, <2>2 DEF PrintLayer
<1>5. layer' \in Nat /\ pc' \in {"print", "idle"} /\ cur' = cur
  BY DEF PrintLayer, IInv, TypeOK
<1>6. TypeOK'
  BY <1>1, <1>3, <1>4, <1>5 DEF IInv, TypeOK, PrintLayer
<1>7. Stored' = Stored
  BY DEF PrintLayer, Stored
<1>8. Shape' /\ LeavesComplete'
  BY <1>1, <1>7, ShapeFrame, CompleteFrame DEF IInv
<1>9. Fill'
  BY <1>1, <1>5 DEF IInv, Fill, PrintLayer, Value, SameTree
<1>10. Backend'
  BY <1>1, <1>5 DEF IInv, Backend, PrintLayer, Value, SameTree
<1>11. Load'
  BY <1>1, <1>3 DEF IInv, Load, PrintLayer
<1>12. QED
  BY <1>6, <1>8, <1>9, <1>10, <1>11 DEF IInv

-----------------------------------------------------------------------------
(***************************************************************************)
(* The insertion into a leaf.                                              *)
(***************************************************************************)
(* The leaf that receives a key: the key gets the place that keeps the     *)
(* array sorted, and its value node the same place.                        *)
LEMMA LeafArrays ==
  ASSUME IInv, LeafInsert,
         NEW p, p = LowerBound(pool[cur].key, in_key)
  PROVE  /\ p \in 1..(Len(pool[cur].key) + 1)
         /\ LET ks == Insert(pool[cur].key, p, in_key)
                cs == Insert(pool[cur].child, p, nb_node)
                l  == Len(pool[cur].key)
            IN  /\ ks \in Seq(Keys) /\ cs \in Seq(Addr)
                /\ Len(ks) = l + 1 /\ Len(cs) = l + 1
                /\ \A i \in 1..(p - 1) : ks[i] = pool[cur].key[i]
                /\ ks[p] = in_key
                /\ \A i \in (p + 1)..(l + 1) : ks[i] = pool[cur].key[i - 1]
                /\ \A i \in 1..(p - 1) : cs[i] = pool[cur].child[i]
                /\ cs[p] = nb_node
                /\ \A i \in (p + 1)..(l + 1) : cs[i] = pool[cur].child[i - 1]
                /\ StrictlySorted(ks)
<1> DEFINE s == pool[cur].key
           c == pool[cur].child
<1>1. /\ TypeOK /\ cur \in Nodes /\ cur \in Addr /\ Leaf(cur) /\ ~Value(cur)
      /\ in_key \in Keys /\ in_key \in Int /\ nb_node \in Addr
  <2>1. TypeOK /\ cur \in Nodes /\ cur \in Addr /\ ~Value(cur)
    BY NodesAreAddresses DEF IInv, Backend
  <2>2. Leaf(cur) /\ in_key \in key_map /\ nb_node < MaxNodes
    BY DEF IInv, Backend, LeafInsert, Leaf
  <2>3. in_key \in Keys /\ in_key \in Int
    BY <2>1, <2>2, ConstantsAssumption DEF TypeOK
  <2>4. nb_node \in Addr
    BY <2>1, <2>2, ConstantsAssumption DEF TypeOK, Addr
  <2> QED BY <2>1, <2>2, <2>3, <2>4
<1>2. /\ s \in Seq(Keys) /\ s \in Seq(Int) /\ c \in Seq(Addr) /\ Len(s) \in Nat
      /\ Len(c) = Len(s) /\ \A i \in 1..Len(s) : s[i] \in Keys /\ s[i] \in Int
  BY <1>1, FieldTypes, ConstantsAssumption DEF IInv, Shape, LeafShape
<1>3. \A i \in 1..Len(s) : s[i] # in_key
  BY <1>1 DEF IInv, LeavesComplete, Stored, LeafInsert
<1>4. StrictlySorted(s) /\ \A i, j \in 1..Len(s) : i < j => s[i] < s[j]
  BY <1>1, <1>2, LenProperties DEF IInv, Shape, KeysShape, StrictlySorted
<1> HIDE DEF s, c
<1>5. /\ p \in 1..(Len(s) + 1)
      /\ \A j \in 1..(p - 1) : s[j] < in_key
      /\ p <= Len(s) => s[p] >= in_key
  BY <1>1, <1>2, LowerBoundSpec DEF s
<1>6. \A j \in p..Len(s) : in_key < s[j]
  <2> TAKE j \in p..Len(s)
  <2>1. p \in 1..Len(s) /\ j \in 1..Len(s)
    BY <1>2, <1>5
  <2>2. in_key < s[p] /\ s[p] \in Int /\ s[j] \in Int
    BY <1>1, <1>2, <1>3, <1>5, <2>1
  <2>3. s[p] <= s[j]
    BY <1>4, <2>1, <2>2
  <2> QED BY <1>1, <2>2, <2>3
<1>7. /\ Insert(s, p, in_key) \in Seq(Keys)
      /\ Len(Insert(s, p, in_key)) = Len(s) + 1
      /\ \A i \in 1..(p - 1) : Insert(s, p, in_key)[i] = s[i]
      /\ Insert(s, p, in_key)[p] = in_key
      /\ \A i \in (p + 1)..(Len(s) + 1) : Insert(s, p, in_key)[i] = s[i - 1]
  <2>1. in_key \in Keys /\ s \in Seq(Keys)
    BY <1>1, <1>2
  <2> QED BY ONLY <1>5, <2>1, InsertProps
<1>8. /\ Insert(c, p, nb_node) \in Seq(Addr)
      /\ Len(Insert(c, p, nb_node)) = Len(c) + 1
      /\ \A i \in 1..(p - 1) : Insert(c, p, nb_node)[i] = c[i]
      /\ Insert(c, p, nb_node)[p] = nb_node
      /\ \A i \in (p + 1)..(Len(c) + 1) : Insert(c, p, nb_node)[i] = c[i - 1]
  <2>1. p \in 1..(Len(c) + 1) /\ c \in Seq(Addr) /\ nb_node \in Addr
    BY <1>1, <1>2, <1>5
  <2> QED BY ONLY <2>1, InsertProps
<1>9. StrictlySorted(Insert(s, p, in_key))
  BY <1>1, <1>2, <1>4, <1>5, <1>6, SortedInsert
<1>10. QED
  BY <1>2, <1>5, <1>7, <1>8, <1>9 DEF s, c

(* insert()'s write to the leaf keeps the invariant.                       *)
LEMMA LeafInsertInv ==
  ASSUME IInv, LeafInsert
  PROVE  IInv'
<1>0. PICK v : v = nb_node
  OBVIOUS
<1> DEFINE c  == pool[cur]
           p  == LowerBound(c.key, in_key)
           l  == Len(c.key)
           ks == Insert(c.key, p, in_key)
           cs == Insert(c.child, p, v)
           val == [FreshNode EXCEPT !.isLeaf = FALSE, !.isValue = TRUE,
                                    !.parent = cur, !.val = in_key]
<1>1. /\ TypeOK /\ Shape /\ Nodes \subseteq Addr /\ cur \in Nodes /\ cur \in Addr
      /\ Leaf(cur) /\ ~Value(cur) /\ Root \in Nodes /\ nb_node < MaxNodes
      /\ in_key \in key_map /\ in_key \in Keys /\ in_key \in Int
      /\ InRange(in_key, cover[cur])
  <2>1. TypeOK /\ Shape /\ Nodes \subseteq Addr /\ cur \in Nodes /\ ~Value(cur) /\ Root \in Nodes
    BY NodesAreAddresses DEF IInv, Backend
  <2>2. Leaf(cur) /\ in_key \in key_map /\ nb_node < MaxNodes /\ InRange(in_key, cover[cur])
    BY DEF IInv, Backend, LeafInsert, Leaf
  <2>3. in_key \in Keys /\ in_key \in Int
    BY <2>1, <2>2, ConstantsAssumption DEF TypeOK
  <2> QED BY <2>1, <2>2, <2>3
<1>2. v \in Addr /\ v \notin Nodes /\ v # cur /\ v # Root /\ Nodes' = Nodes \cup {v}
  <2>1. v \in Nat /\ v >= 1 /\ nb_node' = nb_node + 1
    BY <1>0, <1>1 DEF TypeOK, LeafInsert
  <2>2. v \in Addr /\ v \notin Nodes /\ Nodes' = Nodes \cup {v}
    BY <1>0, <1>1, <2>1, ConstantsAssumption DEF Addr, Nodes
  <2> QED BY <1>1, <2>2
<1>3. Stored = key_map \ {in_key} /\ Stored' = key_map /\ cover' = cover /\ cur' = cur
  BY DEF LeafInsert, Stored
<1>4. /\ c.key \in Seq(Keys) /\ c.child \in Seq(Addr)
      /\ l \in Nat /\ Len(c.child) = l
      /\ \A i \in 1..l : c.key[i] \in Keys /\ c.key[i] \in Int
  BY <1>1, FieldTypes, ConstantsAssumption DEF Shape, LeafShape
<1>5. /\ p \in 1..(l + 1)
      /\ ks \in Seq(Keys) /\ cs \in Seq(Addr)
      /\ Len(ks) = l + 1 /\ Len(cs) = l + 1
      /\ \A i \in 1..(p - 1) : ks[i] = c.key[i] /\ cs[i] = c.child[i]
      /\ ks[p] = in_key /\ cs[p] = v
      /\ \A i \in (p + 1)..(l + 1) : ks[i] = c.key[i - 1] /\ cs[i] = c.child[i - 1]
      /\ StrictlySorted(ks)
  BY <1>0, LeafArrays
<1>6. /\ pool' \in [Addr -> Node]
      /\ pool'[v] = val
      /\ pool'[cur] = [c EXCEPT !.key = ks, !.child = cs]
      /\ \A n \in Addr : n # v /\ n # cur => pool'[n] = pool[n]
  <2>1. val \in Node
    BY <1>1, EmptySeq DEF FreshNode, Node
  <2>2. c \in Node /\ [c EXCEPT !.key = ks, !.child = cs] \in Node
    BY <1>1, <1>5, FieldTypes DEF Node
  <2>3. pool' = [pool EXCEPT ![v] = val, ![cur].key = ks, ![cur].child = cs]
    BY <1>0 DEF LeafInsert
  <2> HIDE DEF val, ks, cs
  <2>4. pool' = [[pool EXCEPT ![v] = val] EXCEPT ![cur] = [c EXCEPT !.key = ks, !.child = cs]]
    BY <1>1, <1>2, <2>3 DEF TypeOK
  <2> HIDE DEF c
  <2> QED BY <1>1, <1>2, <2>1, <2>2, <2>4 DEF TypeOK
<1> HIDE DEF p, ks, cs
<1>7. /\ pool'[v].isLeaf = FALSE /\ pool'[v].isValue = TRUE
      /\ pool'[v].val = in_key /\ pool'[v].child = <<>>
  BY <1>6 DEF FreshNode
<1>8. /\ pool'[cur].key = ks /\ pool'[cur].child = cs
      /\ pool'[cur].isLeaf = pool[cur].isLeaf /\ pool'[cur].isValue = pool[cur].isValue
      /\ pool'[cur].parent = pool[cur].parent /\ pool'[cur].val = pool[cur].val
      /\ pool'[cur].isLoaded2Switch = pool[cur].isLoaded2Switch
  <2>1. c \in Node
    BY <1>1, FieldTypes
  <2> HIDE DEF c
  <2>2. pool'[cur].key = ks /\ pool'[cur].child = cs
      /\ pool'[cur].isLeaf = c.isLeaf /\ pool'[cur].isValue = c.isValue
      /\ pool'[cur].parent = c.parent /\ pool'[cur].val = c.val
      /\ pool'[cur].isLoaded2Switch = c.isLoaded2Switch
    BY <1>6, <2>1 DEF Node
  <2> QED BY <2>2 DEF c
<1> HIDE DEF val
<1>9. \A n \in Nodes : /\ n \in Addr /\ n # v
                       /\ n # cur => pool'[n] = pool[n]
                       /\ Leaf(n)' = Leaf(n) /\ Value(n)' = Value(n)
                       /\ Inner(n)' = Inner(n)
                       /\ pool'[n].isLeaf = pool[n].isLeaf
                       /\ pool'[n].isValue = pool[n].isValue
                       /\ pool'[n].parent = pool[n].parent
                       /\ pool'[n].val = pool[n].val
  BY <1>1, <1>2, <1>6, <1>8 DEF Leaf, Value, Inner
<1>10. Value(v)' /\ ~Leaf(v)' /\ ~Inner(v)'
  BY <1>7 DEF Leaf, Value, Inner
<1>11. ValueShape'
  BY <1>1, <1>2, <1>7, <1>9, <1>10 DEF Shape, ValueShape
<1>12. LeafShape'
  <2> SUFFICES ASSUME NEW n \in Nodes, Leaf(n)
               PROVE  /\ ~Value(n)'
                      /\ Len(pool'[n].child) = Len(pool'[n].key)
                      /\ \A i \in 1..Len(pool'[n].key) :
                           /\ pool'[n].child[i] \in Nodes'
                           /\ pool'[pool'[n].child[i]].isValue
                           /\ pool'[pool'[n].child[i]].val = pool'[n].key[i]
    BY <1>2, <1>9, <1>10 DEF LeafShape, Value
  <2>1. \A i \in 1..Len(pool[n].key) :
          /\ pool[n].child[i] \in Nodes'
          /\ pool'[pool[n].child[i]].isValue
          /\ pool'[pool[n].child[i]].val = pool[n].key[i]
    BY <1>1, <1>2, <1>9 DEF Shape, LeafShape, Value
  <2>2. CASE n # cur
    BY <1>1, <1>9, <2>1, <2>2 DEF Shape, LeafShape
  <2>3. CASE n = cur
    <3> SUFFICES ASSUME NEW i \in 1..(l + 1)
                 PROVE  /\ cs[i] \in Nodes' /\ pool'[cs[i]].isValue
                        /\ pool'[cs[i]].val = ks[i]
      BY <1>1, <1>5, <1>8, <1>9, <2>3
    <3>1. CASE i < p
      <4>1. i \in 1..(p - 1) /\ i \in 1..l
        BY <1>4, <1>5, <3>1
      <4> QED BY <1>5, <2>1, <2>3, <4>1
    <3>2. CASE i = p
      BY <1>2, <1>5, <1>7, <1>10, <3>2
    <3>3. CASE i > p
      <4>1. i \in (p + 1)..(l + 1) /\ i - 1 \in 1..l
        BY <1>4, <1>5, <3>3
      <4> QED BY <1>5, <2>1, <2>3, <4>1
    <3> QED BY <1>4, <1>5, <3>1, <3>2, <3>3
  <2> QED BY <2>2, <2>3
<1>13. InnerShape'
  <2> SUFFICES ASSUME NEW n \in Nodes, Inner(n)
               PROVE  /\ Len(pool'[n].child) = Len(pool'[n].key) + 1
                      /\ \A i \in 1..Len(pool'[n].child) :
                           /\ pool'[n].child[i] \in Nodes' \ {Root}
                           /\ ~pool'[pool'[n].child[i]].isValue
                           /\ pool'[pool'[n].child[i]].parent = n
                           /\ cover'[pool'[n].child[i]].lo = SlotLo(n, i)'
                           /\ cover'[pool'[n].child[i]].hi = SlotHi(n, i)'
    BY <1>2, <1>9, <1>10 DEF InnerShape, Value
  <2>1. pool'[n] = pool[n]
    BY <1>1, <1>9 DEF Inner, Leaf
  <2>2. \A i : SlotLo(n, i)' = SlotLo(n, i) /\ SlotHi(n, i)' = SlotHi(n, i)
    BY <1>3, <2>1 DEF SlotLo, SlotHi
  <2> QED BY <1>1, <1>2, <1>3, <1>9, <2>1, <2>2, SMTT(60) DEF Shape, InnerShape, Value
<1>14. KeysShape'
  <2> SUFFICES ASSUME NEW n \in Nodes, ~Value(n)
               PROVE  /\ StrictlySorted(pool'[n].key)
                      /\ cover'[n].lo < cover'[n].hi
                      /\ \A i \in 1..Len(pool'[n].key) :
                           /\ cover'[n].lo < pool'[n].key[i]
                           /\ pool'[n].key[i] <= cover'[n].hi
                           /\ Inner(n)' => pool'[n].key[i] < cover'[n].hi
    BY <1>2, <1>9, <1>10 DEF KeysShape
  <2>1. CASE n # cur
    BY <1>1, <1>3, <1>9, <2>1 DEF Shape, KeysShape
  <2>2. CASE n = cur
    <3>1. \A i \in 1..l : cover[cur].lo < c.key[i] /\ c.key[i] <= cover[cur].hi
      BY <1>1 DEF Shape, KeysShape
    <3>2. ASSUME NEW i \in 1..(l + 1)
          PROVE  cover[cur].lo < ks[i] /\ ks[i] <= cover[cur].hi
      <4>1. CASE i < p
        BY <1>4, <1>5, <3>1, <4>1, SMTT(60)
      <4>2. CASE i = p
        BY <1>1, <1>5, <4>2 DEF InRange
      <4>3. CASE i > p
        BY <1>4, <1>5, <3>1, <4>3
      <4> QED BY <1>4, <1>5, <4>1, <4>2, <4>3
    <3>3. ~Inner(n)' /\ cover[cur].lo < cover[cur].hi
      BY <1>1, <1>9, <2>2 DEF Inner, Leaf, Shape, KeysShape
    <3> QED BY <1>3, <1>5, <1>8, <2>2, <3>2, <3>3
  <2> QED BY <2>1, <2>2
<1>15. ParentShape'
  <2>1. ~Value(Root)' /\ pool'[Root].parent = Null /\ cover'[Root] = KeyRange(0, KeyMax)
    BY <1>1, <1>3, <1>9 DEF Shape, ParentShape
  <2>2. ASSUME NEW n \in Nodes \ {Root}, ~Value(n)
        PROVE  /\ pool'[n].parent \in Nodes'
               /\ ~pool'[pool'[n].parent].isLeaf /\ ~pool'[pool'[n].parent].isValue
               /\ \E i \in 1..Len(pool'[pool'[n].parent].child) :
                    pool'[pool'[n].parent].child[i] = n
    <3> DEFINE q == pool[n].parent
    <3>1. /\ q \in Nodes /\ Inner(q)
          /\ \E i \in 1..Len(pool[q].child) : pool[q].child[i] = n
      BY <1>1, <2>2 DEF Shape, ParentShape
    <3>2. pool'[n].parent = q /\ pool'[q] = pool[q]
      BY <1>1, <1>9, <3>1 DEF Inner, Leaf
    <3> QED BY <1>2, <1>9, <3>1, <3>2 DEF Inner
  <2> QED BY <1>2, <1>9, <1>10, <2>1, <2>2 DEF ParentShape, Inner, Value
<1>16. LeavesDisjoint'
  BY <1>1, <1>2, <1>3, <1>9, <1>10 DEF Shape, LeavesDisjoint
<1>17. LeavesComplete'
  <2> SUFFICES ASSUME NEW n \in Nodes, Leaf(n)
               PROVE  /\ \A k \in key_map : InRange(k, cover[n]) =>
                           \E i \in 1..Len(pool'[n].key) : pool'[n].key[i] = k
                      /\ \A i \in 1..Len(pool'[n].key) : pool'[n].key[i] \in key_map
    BY <1>2, <1>3, <1>9, <1>10 DEF LeavesComplete
  <2>1. /\ \A k \in key_map \ {in_key} : InRange(k, cover[n]) =>
             \E i \in 1..Len(pool[n].key) : pool[n].key[i] = k
        /\ \A i \in 1..Len(pool[n].key) : pool[n].key[i] \in key_map
    BY <1>3 DEF IInv, LeavesComplete
  <2>2. CASE n # cur
    <3>1. ~InRange(in_key, cover[n])
      <4>1. cover[cur].hi <= cover[n].lo \/ cover[n].hi <= cover[cur].lo
        BY <1>1, <2>2 DEF Shape, LeavesDisjoint
      <4>2. /\ cover[cur].lo \in Int /\ cover[cur].hi \in Int
            /\ cover[n].lo \in Int /\ cover[n].hi \in Int
        BY <1>1, <1>9, FieldTypes
      <4> QED BY <1>1, <4>1, <4>2 DEF InRange
    <3> QED BY <1>9, <2>1, <2>2, <3>1
  <2>3. CASE n = cur
    <3>1. ASSUME NEW k \in key_map, InRange(k, cover[n])
          PROVE  \E i \in 1..(l + 1) : ks[i] = k
      <4>1. CASE k = in_key
        BY <1>4, <1>5, <4>1
      <4>2. CASE k # in_key
        <5>1. PICK i \in 1..l : c.key[i] = k
          BY <2>1, <2>3, <3>1, <4>2
        <5>2. CASE i < p
          BY <1>4, <1>5, <5>1, <5>2
        <5>3. CASE i >= p
          <6>1. i + 1 \in (p + 1)..(l + 1) /\ (i + 1) - 1 = i /\ i + 1 \in 1..(l + 1)
            BY <1>4, <1>5, <5>3
          <6>2. ks[i + 1] = k
            BY <1>5, <5>1, <6>1
          <6> QED BY <6>1, <6>2
        <5> QED BY <1>4, <1>5, <5>2, <5>3
      <4> QED BY <4>1, <4>2
    <3>2. ASSUME NEW i \in 1..(l + 1)
          PROVE  ks[i] \in key_map
      <4>1. CASE i < p
        BY <1>4, <1>5, <2>1, <2>3, <4>1
      <4>2. CASE i = p
        BY <1>1, <1>5, <4>2
      <4>3. CASE i > p
        <5>1. i \in (p + 1)..(l + 1) /\ i - 1 \in 1..l
          BY <1>4, <1>5, <4>3
        <5>2. ks[i] = c.key[i - 1] /\ c.key[i - 1] \in key_map
          BY <1>5, <2>1, <2>3, <5>1
        <5> QED BY <5>2
      <4> QED BY <1>4, <1>5, <4>1, <4>2, <4>3
    <3> QED BY <1>5, <1>8, <2>3, <3>1, <3>2
  <2> QED BY <2>2, <2>3
<1>18. Fill'
  <2> SUFFICES ASSUME NEW n \in Nodes, ~Value(n)
               PROVE  /\ Len(pool'[n].key) <= M
                      /\ Len(pool'[n].key) = M => n = cur
    BY <1>2, <1>3, <1>9, <1>10 DEF Fill, LeafInsert
  <2>1. Len(pool[n].key) <= M /\ Len(pool[n].key) # M /\ Len(pool[n].key) \in Nat
    BY <1>1, <1>9, FieldTypes DEF IInv, Fill, LeafInsert
  <2>2. CASE n # cur
    BY <1>9, <2>1, <2>2
  <2>3. CASE n = cur
    BY <1>5, <1>8, <2>1, <2>3, ConstantsAssumption
  <2> QED BY <2>2, <2>3
<1>19. Backend'
  BY <1>1, <1>2, <1>3, <1>9 DEF Backend, LeafInsert
<1>20. Load'
  BY <1>2 DEF IInv, Load, LeafInsert, loadVars
<1>21. TypeOK'
  <2>1. nb_node' \in 1..MaxNodes /\ pc' = "overflow"
    BY <1>1, ConstantsAssumption DEF TypeOK, LeafInsert
  <2> QED BY <1>1, <1>3, <1>6, <2>1 DEF TypeOK, LeafInsert, loadVars
<1>22. QED
  BY <1>11, <1>12, <1>13, <1>14, <1>15, <1>16, <1>17, <1>18, <1>19, <1>20, <1>21
  DEF IInv, Shape

-----------------------------------------------------------------------------
(* The children of a node: values under a leaf, other nodes under an inner *)
(* node, each in one place of one parent, and none above its parent.       *)
LEMMA ChildFacts ==
  ASSUME TypeOK, Shape, NEW u \in Nodes, ~Value(u), NEW i \in 1..Len(pool[u].child)
  PROVE  /\ pool[u].child[i] \in Nodes /\ pool[u].child[i] \in Addr
         /\ pool[u].child[i] # Root
         /\ Leaf(u) => Value(pool[u].child[i])
         /\ ~Leaf(u) => /\ ~Value(pool[u].child[i])
                        /\ pool[pool[u].child[i]].parent = u
                        /\ cover[pool[u].child[i]].lo = SlotLo(u, i)
                        /\ cover[pool[u].child[i]].hi = SlotHi(u, i)
<1>1. u \in Addr /\ Nodes \subseteq Addr /\ ~Value(Root)
  BY NodesAreAddresses DEF Shape, ParentShape
<1>2. CASE Leaf(u)
  <2>1. Len(pool[u].child) = Len(pool[u].key)
    BY <1>2 DEF Shape, LeafShape
  <2> QED BY <1>1, <1>2, <2>1 DEF Shape, LeafShape
<1>3. CASE ~Leaf(u)
  <2>1. Inner(u)
    BY <1>3 DEF Inner, Leaf, Value
  <2> QED BY <1>1, <1>3, <2>1 DEF Shape, InnerShape
<1>4. QED
  BY <1>2, <1>3

(* No two slots of inner nodes hold the same child.                        *)
LEMMA ChildrenApart ==
  ASSUME TypeOK, Shape, NEW u \in Nodes, Inner(u),
         NEW i \in 1..Len(pool[u].child), NEW j \in 1..Len(pool[u].child), i < j
  PROVE  pool[u].child[i] # pool[u].child[j]
<1>1. u \in Addr /\ ~Value(u) /\ ~Leaf(u)
  BY NodesAreAddresses DEF Inner, Value, Leaf
<1> DEFINE ks == pool[u].key
<1>2. /\ Len(ks) \in Nat /\ DOMAIN ks = 1..Len(ks)
      /\ \A h \in 1..Len(ks) : ks[h] \in Int
      /\ Len(pool[u].child) = Len(ks) + 1
  BY <1>1, FieldTypes, LenProperties, ConstantsAssumption DEF Shape, InnerShape
<1>3. \A g, h \in 1..Len(ks) : g < h => ks[g] < ks[h]
  BY <1>1, <1>2 DEF Shape, KeysShape, StrictlySorted
<1> HIDE DEF ks
<1>4. cover[pool[u].child[i]].hi = ks[i]
  BY <1>1, <1>2, ChildFacts DEF SlotHi, ks
<1>5. cover[pool[u].child[j]].lo = ks[j - 1]
  BY <1>1, <1>2, ChildFacts DEF SlotLo, ks
<1>6. ks[i] <= ks[j - 1]
  <2>1. i \in 1..Len(ks) /\ j - 1 \in 1..Len(ks) /\ i <= j - 1
    BY <1>2
  <2> QED BY <1>2, <1>3, <2>1
<1>7. cover[pool[u].child[i]].lo < cover[pool[u].child[i]].hi
  BY <1>1, ChildFacts DEF Shape, KeysShape
<1>8. /\ pool[u].child[i] \in Addr /\ pool[u].child[j] \in Addr
      /\ cover[pool[u].child[i]].lo \in Int /\ cover[pool[u].child[j]].lo \in Int
      /\ cover[pool[u].child[i]].hi \in Int
  BY <1>1, ChildFacts, FieldTypes
<1>9. QED
  BY <1>4, <1>5, <1>6, <1>7, <1>8

(* No node is a child of itself.                                           *)
LEMMA NotOwnChild ==
  ASSUME TypeOK, Shape, NEW u \in Nodes, ~Value(u), Len(pool[u].key) >= 1,
         NEW i \in 1..Len(pool[u].child)
  PROVE  pool[u].child[i] # u
<1>1. u \in Addr
  BY NodesAreAddresses
<1>2. CASE Leaf(u)
  BY <1>2, ChildFacts
<1>3. CASE ~Leaf(u)
  <2> SUFFICES ASSUME pool[u].child[i] = u PROVE FALSE
    OBVIOUS
  <2>1. Inner(u)
    BY <1>3 DEF Inner, Leaf, Value
  <2>2. cover[u].lo = SlotLo(u, i) /\ cover[u].hi = SlotHi(u, i)
    BY <1>3, ChildFacts
  <2>3. \A h \in 1..Len(pool[u].key) :
          cover[u].lo < pool[u].key[h] /\ pool[u].key[h] < cover[u].hi
    BY <2>1 DEF Shape, KeysShape
  <2>4. /\ Len(pool[u].key) \in Nat /\ Len(pool[u].child) = Len(pool[u].key) + 1
        /\ cover[u].lo \in Int /\ cover[u].hi \in Int
    BY <1>1, <2>1, FieldTypes DEF Shape, InnerShape
  <2>5. \A h \in 1..Len(pool[u].key) :
          pool[u].key[h] # cover[u].lo /\ pool[u].key[h] # cover[u].hi
    BY <2>3, <2>4
  <2>6. i = 1
    BY <2>2, <2>4, <2>5 DEF SlotLo
  <2>7. i = Len(pool[u].child)
    BY <2>2, <2>4, <2>5 DEF SlotHi
  <2> QED BY <2>4, <2>6, <2>7
<1>4. QED
  BY <1>2, <1>3

-----------------------------------------------------------------------------
(* overflow() on the root or a loaded node: copy_node takes the place of   *)
(* the node among the nodes split later, and the node keeps its cover.     *)
LEMMA OverflowCopyInv ==
  ASSUME IInv, OverflowCopy
  PROVE  IInv'
<1>0. PICK u, w : u = cur /\ w = nb_node
  OBVIOUS
<1> DEFINE c == pool[u]
           kids == ToSet(c.child)
<1>1. /\ TypeOK /\ Shape /\ Nodes \subseteq Addr /\ u \in Nodes /\ u \in Addr
      /\ ~Value(u) /\ Root \in Nodes /\ nb_node < MaxNodes
      /\ Len(c.key) \in Nat /\ Len(c.key) = M /\ M >= 2
      /\ c \in Node
  <2>1. TypeOK /\ Shape /\ Nodes \subseteq Addr /\ u \in Nodes /\ ~Value(u) /\ Root \in Nodes
    BY <1>0, NodesAreAddresses DEF IInv, Backend
  <2>2. nb_node < MaxNodes /\ Len(c.key) >= M
    BY <1>0 DEF OverflowCopy
  <2>3. Len(c.key) \in Nat /\ c \in Node
    BY <2>1, FieldTypes
  <2>4. Len(c.key) <= M /\ M >= 2 /\ M \in Nat
    BY <2>1, ConstantsAssumption DEF IInv, Fill
  <2> QED BY <2>1, <2>2, <2>3, <2>4
<1>2. w \in Addr /\ w \notin Nodes /\ w # u /\ w # Root /\ Nodes' = Nodes \cup {w}
  <2>1. w \in Nat /\ nb_node' = nb_node + 1
    BY <1>0, <1>1 DEF TypeOK, OverflowCopy
  <2>2. w \in Addr /\ w \notin Nodes /\ Nodes' = Nodes \cup {w}
    BY <1>0, <1>1, <2>1, ConstantsAssumption DEF Addr, Nodes
  <2> QED BY <1>1, <2>2
<1>3. Stored' = Stored /\ cur' = w /\ pc' = "split"
  BY <1>0 DEF OverflowCopy, Stored
<1>4. /\ DOMAIN c.child = 1..Len(c.child)
      /\ Len(c.child) \in Nat
      /\ \A i \in 1..Len(c.child) : c.child[i] \in kids
      /\ \A m \in kids : \E i \in 1..Len(c.child) : c.child[i] = m
  BY <1>1, FieldTypes, LenProperties DEF ToSet
<1>5. \A m \in kids : /\ m \in Nodes /\ m # Root /\ m # u /\ m # w
                      /\ Leaf(u) => Value(m)
                      /\ ~Leaf(u) => ~Value(m) /\ pool[m].parent = u
  BY <1>1, <1>2, <1>4, ChildFacts, NotOwnChild
<1> HIDE DEF kids
<1>6. /\ pool'[w] = [c EXCEPT !.parent = u, !.isLoaded2Switch = FALSE]
      /\ pool'[u] = [c EXCEPT !.isLeaf = FALSE, !.key = <<>>, !.val = NoKey, !.child = <<w>>]
      /\ \A m \in kids : pool'[m] = [pool[m] EXCEPT !.parent = w]
      /\ \A n \in Addr : n # w /\ n # u /\ n \notin kids => pool'[n] = pool[n]
      /\ DOMAIN pool' = Addr
  BY <1>0, <1>1, <1>2, <1>5 DEF OverflowCopy, kids
<1>7. /\ pool'[w].isLeaf = c.isLeaf /\ pool'[w].isValue = c.isValue
      /\ pool'[w].parent = u /\ pool'[w].key = c.key /\ pool'[w].child = c.child
      /\ pool'[w].isLoaded2Switch = FALSE
      /\ pool'[w] \in Node
  <2> HIDE DEF c
  <2> QED BY <1>1, <1>6 DEF Node
<1>8. /\ pool'[u].isLeaf = FALSE /\ pool'[u].isValue = c.isValue
      /\ pool'[u].parent = c.parent /\ pool'[u].key = <<>> /\ pool'[u].child = <<w>>
      /\ pool'[u] \in Node
  <2>1. <<w>> \in Seq(Addr) /\ <<>> \in Seq(Keys)
    BY <1>2, EmptySeq
  <2> HIDE DEF c
  <2> QED BY <1>1, <1>6, <2>1 DEF Node
<1>9. \A m \in kids : /\ pool'[m].isLeaf = pool[m].isLeaf
                      /\ pool'[m].isValue = pool[m].isValue
                      /\ pool'[m].parent = w
                      /\ pool'[m].key = pool[m].key
                      /\ pool'[m].child = pool[m].child
                      /\ pool'[m].val = pool[m].val
                      /\ pool'[m] \in Node
  <2> TAKE m \in kids
  <2>1. pool[m] \in Node /\ pool'[m] = [pool[m] EXCEPT !.parent = w]
    BY <1>1, <1>5, <1>6, FieldTypes
  <2> QED BY <1>2, <2>1 DEF Node
<1>10. \A n \in Nodes : n # u =>
         /\ n \in Addr /\ n # w
         /\ pool'[n].isLeaf = pool[n].isLeaf /\ pool'[n].isValue = pool[n].isValue
         /\ pool'[n].key = pool[n].key /\ pool'[n].child = pool[n].child
         /\ pool'[n].val = pool[n].val
         /\ pool'[n].parent = IF n \in kids THEN w ELSE pool[n].parent
  BY <1>1, <1>2, <1>6, <1>9
<1>11. pool' \in [Addr -> Node]
  <2>1. \A n \in Addr : pool'[n] \in Node
    BY <1>1, <1>6, <1>7, <1>8, <1>9, FieldTypes
  <2>2. pool' = [n \in Addr |-> pool'[n]]
    BY DEF OverflowCopy
  <2> QED BY <2>1, <2>2
<1>12. cover'[w] = cover[u] /\ \A n \in Nodes : cover'[n] = cover[n]
  BY <1>0, <1>1, <1>2 DEF OverflowCopy, TypeOK
<1>13. c.isValue = FALSE
  BY <1>1, FieldTypes DEF Value
<1>14. \A n \in Nodes : n # u => /\ Leaf(n)' = Leaf(n) /\ Value(n)' = Value(n)
                                 /\ Inner(n)' = Inner(n)
  BY <1>10 DEF Leaf, Value, Inner
<1>15. /\ ~Leaf(u)' /\ ~Value(u)' /\ Inner(u)'
       /\ Leaf(w)' = Leaf(u) /\ ~Value(w)' /\ Inner(w)' = Inner(u)
  BY <1>7, <1>8, <1>13 DEF Leaf, Value, Inner
<1>16. ValueShape'
  BY <1>1, <1>2, <1>10, <1>14, <1>15 DEF Shape, ValueShape
<1>17. LeafShape'
  <2>1. ASSUME NEW n \in Nodes, Leaf(n)
        PROVE  /\ Len(pool[n].child) = Len(pool[n].key)
               /\ \A i \in 1..Len(pool[n].key) :
                    /\ pool[n].child[i] \in Nodes
                    /\ pool'[pool[n].child[i]].isValue
                    /\ pool'[pool[n].child[i]].val = pool[n].key[i]
    <3>1. Len(pool[n].child) = Len(pool[n].key)
      BY <1>1, <2>1 DEF Shape, LeafShape
    <3>2. ASSUME NEW i \in 1..Len(pool[n].key)
          PROVE  /\ pool[n].child[i] \in Nodes /\ Value(pool[n].child[i])
                 /\ pool[pool[n].child[i]].val = pool[n].key[i]
      BY <1>1, <2>1 DEF Shape, LeafShape
    <3> QED BY <1>1, <1>10, <3>1, <3>2 DEF Value
  <2>2. ASSUME NEW n \in Nodes, n # u, Leaf(n)
        PROVE  /\ ~Value(n)'
               /\ Len(pool'[n].child) = Len(pool'[n].key)
               /\ \A i \in 1..Len(pool'[n].key) :
                    /\ pool'[n].child[i] \in Nodes'
                    /\ pool'[pool'[n].child[i]].isValue
                    /\ pool'[pool'[n].child[i]].val = pool'[n].key[i]
    <3>1. ~Value(n)'
      BY <1>1, <1>14, <2>2 DEF Shape, LeafShape
    <3> QED BY <1>2, <1>10, <2>1, <2>2, <3>1
  <2>3. ASSUME Leaf(u)
        PROVE  /\ Len(pool'[w].child) = Len(pool'[w].key)
               /\ \A i \in 1..Len(pool'[w].key) :
                    /\ pool'[w].child[i] \in Nodes'
                    /\ pool'[pool'[w].child[i]].isValue
                    /\ pool'[pool'[w].child[i]].val = pool'[w].key[i]
    BY <1>1, <1>2, <1>7, <2>1, <2>3
  <2> QED BY <1>2, <1>14, <1>15, <2>2, <2>3 DEF LeafShape, Value
<1>18. InnerShape'
  <2>1. ASSUME NEW n \in Nodes, n # u, Inner(n)
        PROVE  /\ Len(pool'[n].child) = Len(pool'[n].key) + 1
               /\ \A i \in 1..Len(pool'[n].child) :
                    /\ pool'[n].child[i] \in Nodes' \ {Root}
                    /\ ~pool'[pool'[n].child[i]].isValue
                    /\ pool'[pool'[n].child[i]].parent = n
                    /\ cover'[pool'[n].child[i]].lo = SlotLo(n, i)'
                    /\ cover'[pool'[n].child[i]].hi = SlotHi(n, i)'
    <3>1. Len(pool[n].child) = Len(pool[n].key) + 1
      BY <1>1, <2>1 DEF Shape, InnerShape
    <3>2. ASSUME NEW i \in 1..Len(pool[n].child)
          PROVE  /\ pool[n].child[i] \in Nodes' \ {Root}
                 /\ ~pool'[pool[n].child[i]].isValue
                 /\ pool'[pool[n].child[i]].parent = n
                 /\ cover'[pool[n].child[i]].lo = SlotLo(n, i)
                 /\ cover'[pool[n].child[i]].hi = SlotHi(n, i)
      <4> DEFINE m == pool[n].child[i]
      <4>1. /\ m \in Nodes \ {Root} /\ ~Value(m) /\ pool[m].parent = n
            /\ cover[m].lo = SlotLo(n, i) /\ cover[m].hi = SlotHi(n, i)
        BY <1>1, <2>1 DEF Shape, InnerShape
      <4> HIDE DEF m
      <4>2. m \notin kids
        BY <1>5, <2>1, <4>1
      <4>3. pool'[m].parent = n /\ ~pool'[m].isValue
        BY <1>8, <1>10, <1>13, <4>1, <4>2 DEF Value
      <4>4. /\ m \in Nodes' \ {Root}
            /\ cover'[m].lo = SlotLo(n, i) /\ cover'[m].hi = SlotHi(n, i)
        BY <1>2, <1>12, <4>1
      <4> QED BY <4>3, <4>4 DEF m
    <3>3. \A i : SlotLo(n, i)' = SlotLo(n, i) /\ SlotHi(n, i)' = SlotHi(n, i)
      BY <1>10, <1>12, <2>1 DEF SlotLo, SlotHi
    <3>4. pool'[n].child = pool[n].child /\ pool'[n].key = pool[n].key
      BY <1>10, <2>1
    <3> QED BY <3>1, <3>2, <3>3, <3>4
  <2>2. /\ Len(pool'[u].child) = Len(pool'[u].key) + 1
        /\ \A i \in 1..Len(pool'[u].child) :
             /\ pool'[u].child[i] \in Nodes' \ {Root}
             /\ ~pool'[pool'[u].child[i]].isValue
             /\ pool'[pool'[u].child[i]].parent = u
             /\ cover'[pool'[u].child[i]].lo = SlotLo(u, i)'
             /\ cover'[pool'[u].child[i]].hi = SlotHi(u, i)'
    <3>1. /\ Len(pool'[u].child) = 1 /\ Len(pool'[u].key) = 0
          /\ pool'[u].child[1] = w
      BY <1>8
    <3>2. SlotLo(u, 1)' = cover'[u].lo /\ SlotHi(u, 1)' = cover'[u].hi
      BY <3>1 DEF SlotLo, SlotHi
    <3> QED BY <1>1, <1>2, <1>7, <1>12, <1>13, <3>1, <3>2
  <2>3. ASSUME Inner(u)
        PROVE  /\ Len(pool'[w].child) = Len(pool'[w].key) + 1
               /\ \A i \in 1..Len(pool'[w].child) :
                    /\ pool'[w].child[i] \in Nodes' \ {Root}
                    /\ ~pool'[pool'[w].child[i]].isValue
                    /\ pool'[pool'[w].child[i]].parent = w
                    /\ cover'[pool'[w].child[i]].lo = SlotLo(w, i)'
                    /\ cover'[pool'[w].child[i]].hi = SlotHi(w, i)'
    <3>1. Len(c.child) = Len(c.key) + 1 /\ ~Leaf(u)
      BY <1>1, <2>3 DEF Shape, InnerShape, Inner, Leaf
    <3>2. ASSUME NEW i \in 1..Len(c.child)
          PROVE  /\ c.child[i] \in Nodes' \ {Root}
                 /\ ~pool'[c.child[i]].isValue
                 /\ pool'[c.child[i]].parent = w
                 /\ cover'[c.child[i]].lo = SlotLo(u, i)
                 /\ cover'[c.child[i]].hi = SlotHi(u, i)
      <4> DEFINE m == c.child[i]
      <4>1. m \in kids /\ m \in Nodes /\ m # Root /\ ~Value(m)
        BY <1>4, <1>5, <3>1
      <4>2. cover[m].lo = SlotLo(u, i) /\ cover[m].hi = SlotHi(u, i)
        BY <1>1, <3>1, ChildFacts
      <4> HIDE DEF m
      <4>3. /\ m \in Nodes' \ {Root} /\ ~pool'[m].isValue /\ pool'[m].parent = w
            /\ cover'[m].lo = SlotLo(u, i) /\ cover'[m].hi = SlotHi(u, i)
        BY <1>2, <1>9, <1>12, <4>1, <4>2 DEF Value
      <4> QED BY <4>3 DEF m
    <3>3. \A i : SlotLo(w, i)' = SlotLo(u, i) /\ SlotHi(w, i)' = SlotHi(u, i)
      BY <1>7, <1>12 DEF SlotLo, SlotHi
    <3> QED BY <1>7, <3>1, <3>2, <3>3
  <2> QED BY <1>2, <1>14, <1>15, <2>1, <2>2, <2>3 DEF InnerShape, Value
<1>19. KeysShape'
  <2>1. ASSUME NEW n \in Nodes, ~Value(n)
        PROVE  /\ StrictlySorted(pool[n].key)
               /\ cover[n].lo < cover[n].hi
               /\ \A i \in 1..Len(pool[n].key) :
                    /\ cover[n].lo < pool[n].key[i]
                    /\ pool[n].key[i] <= cover[n].hi
                    /\ Inner(n) => pool[n].key[i] < cover[n].hi
    BY <1>1, <2>1 DEF Shape, KeysShape
  <2>2. StrictlySorted(<<>>)
    BY DEF StrictlySorted
  <2>3. Len(pool'[u].key) = 0 /\ StrictlySorted(pool'[u].key) /\ cover'[u].lo < cover'[u].hi
    BY <1>1, <1>8, <1>12, <2>1, <2>2
  <2>4. ASSUME NEW n \in Nodes, ~Value(n), n # u
        PROVE  /\ StrictlySorted(pool'[n].key)
               /\ cover'[n].lo < cover'[n].hi
               /\ \A i \in 1..Len(pool'[n].key) :
                    /\ cover'[n].lo < pool'[n].key[i]
                    /\ pool'[n].key[i] <= cover'[n].hi
                    /\ Inner(n)' => pool'[n].key[i] < cover'[n].hi
    BY <1>10, <1>12, <1>14, <2>1, <2>4
  <2>5. /\ StrictlySorted(pool'[w].key)
        /\ cover'[w].lo < cover'[w].hi
        /\ \A i \in 1..Len(pool'[w].key) :
             /\ cover'[w].lo < pool'[w].key[i]
             /\ pool'[w].key[i] <= cover'[w].hi
             /\ Inner(w)' => pool'[w].key[i] < cover'[w].hi
    BY <1>1, <1>7, <1>12, <1>15, <2>1
  <2> QED BY <1>2, <1>14, <2>3, <2>4, <2>5 DEF KeysShape
<1>20. ParentShape'
  <2>1. ~Value(Root) /\ pool[Root].parent = Null /\ cover[Root] = KeyRange(0, KeyMax)
    BY <1>1 DEF Shape, ParentShape
  <2>2. ~pool'[Root].isValue /\ pool'[Root].parent = Null /\ cover'[Root] = KeyRange(0, KeyMax)
    BY <1>1, <1>5, <1>8, <1>10, <1>12, <1>13, <2>1 DEF Value
  <2>3. ASSUME NEW n \in Nodes \ {Root}, ~Value(n)
        PROVE  /\ pool'[n].parent \in Nodes'
               /\ ~pool'[pool'[n].parent].isLeaf /\ ~pool'[pool'[n].parent].isValue
               /\ \E i \in 1..Len(pool'[pool'[n].parent].child) :
                    pool'[pool'[n].parent].child[i] = n
    <3> DEFINE q == pool[n].parent
    <3>1. /\ q \in Nodes /\ Inner(q)
          /\ \E i \in 1..Len(pool[q].child) : pool[q].child[i] = n
      BY <1>1, <2>3 DEF Shape, ParentShape
    <3> HIDE DEF q
    <3>2. CASE q = u
      <4>1. n \in kids
        BY <1>4, <3>1, <3>2
      <4>2. pool'[n].parent = w
        BY <1>9, <4>1
      <4>3. pool'[w].isLeaf = FALSE /\ pool'[w].isValue = FALSE
        BY <1>7, <1>13, <1>1, <3>1, <3>2, FieldTypes DEF Inner
      <4> QED BY <1>2, <1>7, <3>1, <3>2, <4>2, <4>3
    <3>3. CASE q # u
      <4>1. n \notin kids
        BY <1>5, <2>3, <3>3 DEF q
      <4>2. pool'[n].parent = q
        BY <1>8, <1>10, <4>1 DEF q
      <4> QED BY <1>2, <1>10, <3>1, <3>3, <4>2 DEF Inner
    <3> QED BY <3>2, <3>3
  <2>4. /\ pool'[w].parent = u /\ u \in Nodes'
        /\ ~pool'[u].isLeaf /\ ~pool'[u].isValue
        /\ \E i \in 1..Len(pool'[u].child) : pool'[u].child[i] = w
    BY <1>1, <1>2, <1>7, <1>8, <1>13
  <2>5. \A n \in Nodes : ~pool'[n].isValue => ~Value(n)
    BY <1>1, <1>10 DEF Value
  <2> QED BY <1>2, <2>2, <2>3, <2>4, <2>5 DEF ParentShape, Inner, Value
<1>21. LeavesDisjoint'
  <2>1. \A m, n \in Nodes : Leaf(m) /\ Leaf(n) /\ m # n =>
          cover[m].hi <= cover[n].lo \/ cover[n].hi <= cover[m].lo
    BY <1>1 DEF Shape, LeavesDisjoint
  <2> SUFFICES ASSUME NEW m \in Nodes', NEW n \in Nodes', Leaf(m)', Leaf(n)', m # n
               PROVE  cover'[m].hi <= cover'[n].lo \/ cover'[n].hi <= cover'[m].lo
    BY DEF LeavesDisjoint
  <2>2. m # u /\ n # u
    BY <1>15
  <2>3. CASE m = w
    BY <1>1, <1>2, <1>12, <1>14, <1>15, <2>1, <2>2, <2>3
  <2>4. CASE n = w
    BY <1>1, <1>2, <1>12, <1>14, <1>15, <2>1, <2>2, <2>4
  <2>5. CASE m # w /\ n # w
    BY <1>2, <1>12, <1>14, <2>1, <2>2, <2>5
  <2> QED BY <2>3, <2>4, <2>5
<1>22. LeavesComplete'
  <2>1. \A n \in Nodes : Leaf(n) =>
          /\ \A k \in Stored : InRange(k, cover[n]) =>
               \E i \in 1..Len(pool[n].key) : pool[n].key[i] = k
          /\ \A i \in 1..Len(pool[n].key) : pool[n].key[i] \in Stored
    BY DEF IInv, LeavesComplete
  <2> SUFFICES ASSUME NEW n \in Nodes', Leaf(n)'
               PROVE  /\ \A k \in Stored : InRange(k, cover'[n]) =>
                           \E i \in 1..Len(pool'[n].key) : pool'[n].key[i] = k
                      /\ \A i \in 1..Len(pool'[n].key) : pool'[n].key[i] \in Stored
    BY <1>3 DEF LeavesComplete, InRange
  <2>2. CASE n = w
    BY <1>1, <1>7, <1>12, <1>15, <2>1, <2>2
  <2>3. CASE n # w
    BY <1>2, <1>10, <1>12, <1>14, <1>15, <2>1, <2>3
  <2> QED BY <2>2, <2>3
<1>23. Fill'
  <2> SUFFICES ASSUME NEW n \in Nodes', ~Value(n)'
               PROVE  /\ Len(pool'[n].key) <= M
                      /\ Len(pool'[n].key) = M => n = w
    BY <1>3 DEF Fill
  <2>1. CASE n = w
    BY <1>1, <1>7, <2>1, ConstantsAssumption
  <2>2. CASE n = u
    BY <1>8, <1>1, <2>2, ConstantsAssumption
  <2>3. CASE n # w /\ n # u
    <3>1. n \in Nodes /\ ~Value(n)
      BY <1>2, <1>14, <2>3
    <3> QED BY <1>0, <1>10, <2>3, <3>1 DEF IInv, Fill
  <2> QED BY <2>1, <2>2, <2>3
<1>24. Backend'
  BY <1>1, <1>2, <1>3, <1>7, <1>13 DEF Backend, Value
<1>25. Load'
  BY <1>2 DEF IInv, Load, OverflowCopy, loadVars
<1>26. TypeOK'
  <2>1. nb_node' \in 1..MaxNodes
    BY <1>1, ConstantsAssumption, SMTT(60) DEF TypeOK, OverflowCopy
  <2>2. cover' \in [Addr -> [lo : 0..KeyMax, hi : 0..KeyMax]]
    BY <1>0, <1>1 DEF TypeOK, OverflowCopy
  <2>3. depth' \in Nat \ {0}
    BY <1>1 DEF TypeOK, OverflowCopy
  <2> QED BY <1>1, <1>2, <1>3, <1>11, <2>1, <2>2, <2>3 DEF TypeOK, OverflowCopy, loadVars
<1>27. QED
  BY <1>16, <1>17, <1>18, <1>19, <1>20, <1>21, <1>22, <1>23, <1>24, <1>25, <1>26
  DEF IInv, Shape

-----------------------------------------------------------------------------
(***************************************************************************)
(* The copy and the splits, and the theorems.                              *)
(***************************************************************************)
(* The cover of a child lies within that of its parent, strictly if the    *)
(* parent holds a key: no node is above itself.                            *)
LEMMA ChildWithin ==
  ASSUME TypeOK, Shape, NEW u \in Nodes, Inner(u), NEW i \in 1..Len(pool[u].child)
  PROVE  /\ cover[u].lo <= cover[pool[u].child[i]].lo
         /\ cover[pool[u].child[i]].hi <= cover[u].hi
         /\ Len(pool[u].key) >= 1 =>
              \/ cover[u].lo < cover[pool[u].child[i]].lo
              \/ cover[pool[u].child[i]].hi < cover[u].hi
<1>1. u \in Addr /\ ~Value(u) /\ ~Leaf(u)
  BY NodesAreAddresses DEF Inner, Value, Leaf
<1>2. /\ cover[pool[u].child[i]].lo = SlotLo(u, i)
      /\ cover[pool[u].child[i]].hi = SlotHi(u, i)
  BY <1>1, ChildFacts
<1>3. \A h \in 1..Len(pool[u].key) :
        /\ cover[u].lo < pool[u].key[h] /\ pool[u].key[h] < cover[u].hi
        /\ pool[u].key[h] \in Int
  BY <1>1, FieldTypes, ConstantsAssumption DEF Shape, KeysShape
<1>4. /\ Len(pool[u].key) \in Nat /\ Len(pool[u].child) = Len(pool[u].key) + 1
      /\ cover[u].lo \in Int /\ cover[u].hi \in Int
  BY <1>1, FieldTypes DEF Shape, InnerShape
<1>5. IF i = 1 THEN SlotLo(u, i) = cover[u].lo ELSE cover[u].lo < SlotLo(u, i)
  BY <1>3, <1>4 DEF SlotLo
<1>6. IF i = Len(pool[u].child) THEN SlotHi(u, i) = cover[u].hi
      ELSE SlotHi(u, i) < cover[u].hi
  <2>1. CASE i = Len(pool[u].child)
    BY <2>1 DEF SlotHi
  <2>2. CASE i # Len(pool[u].child)
    <3>1. i \in 1..Len(pool[u].key)
      BY <1>4, <2>2
    <3> QED BY <1>3, <2>2, <3>1 DEF SlotHi
  <2> QED BY <2>1, <2>2
<1>7. SlotLo(u, i) \in Int /\ SlotHi(u, i) \in Int
  <2>1. pool[u].child[i] \in Addr
    BY <1>1, ChildFacts
  <2> QED BY <1>2, <2>1, FieldTypes
<1>8. CASE i = 1
  <2>1. Len(pool[u].key) >= 1 => i # Len(pool[u].child)
    BY <1>4, <1>8
  <2> QED BY <1>2, <1>4, <1>5, <1>6, <1>7, <1>8, <2>1
<1>9. CASE i # 1
  BY <1>2, <1>4, <1>5, <1>6, <1>7, <1>9
<1>10. QED
  BY <1>8, <1>9

-----------------------------------------------------------------------------
(* What is known when overflow() is about to split u: par is its parent,   *)
(* u is par's q-th child, w is the node it takes from the pool, sep the    *)
(* separator, rk the key whose place in par it asks lower_bound for.       *)
SplitAt(u, w, par, q, sep, rk) ==
  /\ u = cur /\ u \in Nodes \ {Root} /\ ~Value(u)
  /\ Len(pool[u].key) = M
  /\ w = nb_node /\ w \in Addr /\ w \notin Nodes /\ w # Root
  /\ par \in Nodes /\ Inner(par) /\ par # u /\ pool[u].parent = par
  /\ pool[par].parent # u
  /\ q \in 1..Len(pool[par].child) /\ pool[par].child[q] = u
  /\ sep \in Keys /\ rk \in Int
  /\ cover[u].lo < sep /\ sep < cover[u].hi
  /\ sep <= rk /\ rk <= cover[u].hi

\* The same for both kinds of split: where u is.
LEMMA SplitPlace ==
  ASSUME IInv, Splitting, nb_node < MaxNodes
  PROVE  /\ cur \in Nodes \ {Root} /\ cur \in Addr /\ ~Value(cur)
         /\ Len(pool[cur].key) = M
         /\ nb_node \in Addr /\ nb_node \notin Nodes /\ nb_node # Root
         /\ pool[cur].parent \in Nodes /\ Inner(pool[cur].parent)
         /\ pool[cur].parent # cur
         /\ pool[pool[cur].parent].parent # cur
         /\ \E q \in 1..Len(pool[pool[cur].parent].child) :
              pool[pool[cur].parent].child[q] = cur
<1> DEFINE par == pool[cur].parent
<1>1. TypeOK /\ Shape /\ cur \in Nodes /\ cur \in Addr /\ ~Value(cur) /\ Nodes \subseteq Addr
  BY NodesAreAddresses DEF IInv, Backend
<1>2. M \in Nat /\ M >= 2 /\ Len(pool[cur].key) \in Nat /\ Len(pool[cur].key) <= M
  BY <1>1, FieldTypes, ConstantsAssumption DEF IInv, Fill
<1>3. cur # Root /\ Len(pool[cur].key) = M
  BY <1>2 DEF Splitting, Unmodifiable, IInv, Backend
<1>4. nb_node \in Addr /\ nb_node \notin Nodes /\ nb_node # Root
  BY <1>1, ConstantsAssumption DEF TypeOK, Addr, Nodes, Root
<1>5. /\ par \in Nodes /\ Inner(par)
      /\ \E q \in 1..Len(pool[par].child) : pool[par].child[q] = cur
  BY <1>1, <1>3 DEF Shape, ParentShape
<1>6. PICK q \in 1..Len(pool[par].child) : pool[par].child[q] = cur
  BY <1>5
<1> HIDE DEF par
<1>7. par # cur
  BY <1>1, <1>2, <1>3, <1>6, NotOwnChild
<1>8. pool[par].parent # cur
  <2>0. SUFFICES ASSUME pool[par].parent = cur PROVE FALSE
    OBVIOUS
  <2>1. par # Root
    BY <1>1, <2>0 DEF Shape, ParentShape, Null, Nodes
  <2>2. ~Value(par)
    BY <1>5 DEF Inner, Value
  <2>3. Inner(cur) /\ \E i \in 1..Len(pool[cur].child) : pool[cur].child[i] = par
    BY <1>1, <1>5, <2>0, <2>1, <2>2 DEF Shape, ParentShape
  <2>4. PICK i \in 1..Len(pool[cur].child) : pool[cur].child[i] = par
    BY <2>3
  <2>5. /\ cover[cur].lo <= cover[par].lo /\ cover[par].hi <= cover[cur].hi
        /\ cover[cur].lo < cover[par].lo \/ cover[par].hi < cover[cur].hi
    BY <1>1, <1>2, <1>3, <2>3, <2>4, ChildWithin
  <2>6. cover[par].lo <= cover[cur].lo /\ cover[cur].hi <= cover[par].hi
    BY <1>1, <1>5, <1>6, ChildWithin
  <2>7. /\ cover[cur].lo \in Int /\ cover[par].lo \in Int
        /\ cover[cur].hi \in Int /\ cover[par].hi \in Int
    BY <1>1, <1>5, FieldTypes
  <2> QED BY <2>5, <2>6, <2>7
<1>9. QED
  BY <1>1, <1>3, <1>4, <1>5, <1>7, <1>8 DEF par

-----------------------------------------------------------------------------
(* LinkRight: lower_bound finds the place of u, so that sep lands between  *)
(* the bounds of u and the new node right after u.                         *)
Linked(L, w, par, q, sep) ==
  /\ L \in Node
  /\ L.isLeaf = pool[par].isLeaf /\ L.isValue = pool[par].isValue
  /\ L.parent = pool[par].parent /\ L.val = pool[par].val
  /\ L.isLoaded2Switch = pool[par].isLoaded2Switch
  /\ Len(L.key) = Len(pool[par].key) + 1
  /\ Len(L.child) = Len(pool[par].key) + 2
  /\ StrictlySorted(L.key)
  /\ \A i \in 1..(q - 1) : L.key[i] = pool[par].key[i]
  /\ L.key[q] = sep
  /\ \A i \in (q + 1)..(Len(pool[par].key) + 1) : L.key[i] = pool[par].key[i - 1]
  /\ \A i \in 1..q : L.child[i] = pool[par].child[i]
  /\ L.child[q + 1] = w
  /\ \A i \in (q + 2)..(Len(pool[par].key) + 2) : L.child[i] = pool[par].child[i - 1]
  /\ \A i \in 1..(Len(pool[par].key) + 1) :
       cover[par].lo < L.key[i] /\ L.key[i] < cover[par].hi

\* The parent after a split: what LinkRight leaves in its two arrays.
LEMMA LinkRightFacts ==
  ASSUME IInv, NEW u, NEW w, NEW par, NEW q, NEW sep, NEW rk,
         SplitAt(u, w, par, q, sep, rk), NEW L, L = LinkRight(pool[par], rk, sep)
  PROVE  Linked(L, w, par, q, sep)
<1> DEFINE ks == pool[par].key
           cs == pool[par].child
           l  == Len(ks)
<1>1. /\ TypeOK /\ Shape /\ u \in Nodes /\ u \in Addr /\ par \in Nodes /\ par \in Addr
      /\ Inner(par) /\ ~Leaf(par) /\ ~Value(par)
      /\ q \in 1..Len(cs) /\ cs[q] = u /\ w \in Addr /\ w = nb_node
      /\ sep \in Keys /\ sep \in Int /\ rk \in Int
      /\ cover[u].lo < sep /\ sep < cover[u].hi /\ sep <= rk /\ rk <= cover[u].hi
  BY NodesAreAddresses, ConstantsAssumption DEF IInv, SplitAt, Inner, Leaf, Value
<1>2. /\ pool[par] \in Node
      /\ ks \in Seq(Keys) /\ ks \in Seq(Int) /\ cs \in Seq(Addr)
      /\ l \in Nat /\ Len(cs) = l + 1
      /\ \A i \in 1..l : ks[i] \in Int
      /\ cover[par].lo \in Int /\ cover[par].hi \in Int
      /\ cover[u].lo \in Int /\ cover[u].hi \in Int
  <2>1. /\ pool[par] \in Node
        /\ cover[par].lo \in Int /\ cover[par].hi \in Int
        /\ cover[u].lo \in Int /\ cover[u].hi \in Int
    BY <1>1, FieldTypes
  <2>2. ks \in Seq(Keys) /\ cs \in Seq(Addr)
    BY <1>1, FieldTypes
  <2>3. Keys \subseteq Int
    BY ConstantsAssumption
  <2>4. ks \in Seq(Int) /\ l \in Nat /\ \A i \in 1..l : ks[i] \in Int
    BY <1>1, <2>3, FieldTypes
  <2>5. Len(cs) = l + 1
    BY <1>1 DEF Shape, InnerShape
  <2> QED
    BY <2>1, <2>2, <2>4, <2>5
<1>3. /\ StrictlySorted(ks)
      /\ \A i \in 1..l : cover[par].lo < ks[i] /\ ks[i] < cover[par].hi
  BY <1>1 DEF Shape, KeysShape
<1>4. \A i, j \in 1..l : i < j => ks[i] < ks[j]
  BY <1>2, <1>3, LenProperties DEF StrictlySorted
<1>5. cover[u].lo = SlotLo(par, q) /\ cover[u].hi = SlotHi(par, q)
  BY <1>1, ChildFacts
<1>6. cover[par].lo <= cover[u].lo /\ cover[u].hi <= cover[par].hi
  BY <1>1, ChildWithin
<1>7. q # 1 => ks[q - 1] = cover[u].lo
  BY <1>5 DEF SlotLo
<1>8. q # l + 1 => ks[q] = cover[u].hi
  BY <1>2, <1>5 DEF SlotHi
<1> HIDE DEF l
<1> HIDE DEF ks, cs
<1>11. q \in 1..(l + 1)
  BY <1>1, <1>2
<1>9. \A j \in 1..(q - 1) : ks[j] < sep
  <2> TAKE j \in 1..(q - 1)
  <2>1. q # 1 /\ q - 1 \in 1..l /\ j \in 1..l
    BY <1>1, <1>2
  <2>2. ks[j] <= ks[q - 1] /\ ks[j] \in Int
    <3>1. ks[j] \in Int /\ ks[q - 1] \in Int
      BY <1>2, <2>1
    <3>2. CASE j = q - 1
      BY <3>1, <3>2
    <3>3. CASE j < q - 1
      BY <1>4, <2>1, <3>1, <3>3
    <3> QED BY <1>11, <3>2, <3>3
  <2> QED BY <1>1, <1>2, <1>7, <2>1, <2>2
<1>10. \A j \in q..l : sep < ks[j]
  <2> TAKE j \in q..l
  <2>1. q # l + 1 /\ q \in 1..l /\ j \in 1..l
    BY <1>1, <1>2
  <2>2. ks[q] <= ks[j] /\ ks[j] \in Int
    <3>1. ks[j] \in Int /\ ks[q] \in Int
      BY <1>2, <2>1
    <3>2. CASE j = q
      BY <3>1, <3>2
    <3>3. CASE q < j
      BY <1>4, <2>1, <3>1, <3>3
    <3> QED BY <1>11, <3>2, <3>3
  <2> QED BY <1>1, <1>2, <1>8, <2>1, <2>2
<1>12. LowerBound(ks, rk) = q
  <2>1. \A j \in 1..(q - 1) : ks[j] < rk
    <3> TAKE j \in 1..(q - 1)
    <3>1. j \in 1..l /\ ks[j] < sep /\ ks[j] \in Int
      <4>1. j \in 1..l
        BY <1>2, <1>11
      <4> QED BY <1>2, <1>9, <4>1
    <3> QED BY <1>1, <3>1
  <2>2. q <= l => ks[q] >= rk
    <3> HAVE q <= l
    <3>1. ks[q] = cover[u].hi
      BY <1>2, <1>8, <1>11
    <3> QED BY <1>1, <1>2, <3>1
  <2> QED BY <1>1, <1>2, <1>11, <2>1, <2>2, LowerBoundUnique DEF l
<1>13. /\ Insert(ks, q, sep) \in Seq(Keys)
       /\ Len(Insert(ks, q, sep)) = l + 1
       /\ \A i \in 1..(q - 1) : Insert(ks, q, sep)[i] = ks[i]
       /\ Insert(ks, q, sep)[q] = sep
       /\ \A i \in (q + 1)..(l + 1) : Insert(ks, q, sep)[i] = ks[i - 1]
  <2> DEFINE S == Keys
  <2>1. q \in 1..(Len(ks) + 1) /\ ks \in Seq(S) /\ sep \in S
    BY <1>1, <1>2, <1>11 DEF l
  <2> HIDE DEF S
  <2>2. /\ Insert(ks, q, sep) \in Seq(S)
        /\ Len(Insert(ks, q, sep)) = Len(ks) + 1
        /\ \A i \in 1..(q - 1) : Insert(ks, q, sep)[i] = ks[i]
        /\ Insert(ks, q, sep)[q] = sep
        /\ \A i \in (q + 1)..(Len(ks) + 1) : Insert(ks, q, sep)[i] = ks[i - 1]
    <3>1. Insert(ks, q, sep) \in Seq(S) /\ Len(Insert(ks, q, sep)) = Len(ks) + 1
      BY ONLY <2>1, InsertProps
    <3>2. \A i \in 1..(q - 1) : Insert(ks, q, sep)[i] = ks[i]
      BY ONLY <2>1, InsertProps
    <3>3. Insert(ks, q, sep)[q] = sep
      BY ONLY <2>1, InsertProps
    <3>4. \A i \in (q + 1)..(Len(ks) + 1) : Insert(ks, q, sep)[i] = ks[i - 1]
      BY ONLY <2>1, InsertProps
    <3> QED BY <3>1, <3>2, <3>3, <3>4
  <2> QED BY <2>2 DEF l, S
<1>14. /\ Insert(cs, q + 1, w) \in Seq(Addr)
       /\ Len(Insert(cs, q + 1, w)) = l + 2
       /\ \A i \in 1..q : Insert(cs, q + 1, w)[i] = cs[i]
       /\ Insert(cs, q + 1, w)[q + 1] = w
       /\ \A i \in (q + 2)..(l + 2) : Insert(cs, q + 1, w)[i] = cs[i - 1]
  <2> DEFINE r == q + 1
  <2>1. r \in 1..(Len(cs) + 1) /\ cs \in Seq(Addr) /\ w \in Addr
    BY <1>1, <1>2, <1>11
  <2>2. r - 1 = q /\ r + 1 = q + 2 /\ Len(cs) + 1 = l + 2
    BY <1>2, <1>11
  <2> HIDE DEF r
  <2>3. /\ Insert(cs, r, w) \in Seq(Addr)
        /\ Len(Insert(cs, r, w)) = Len(cs) + 1
        /\ \A i \in 1..(r - 1) : Insert(cs, r, w)[i] = cs[i]
        /\ Insert(cs, r, w)[r] = w
        /\ \A i \in (r + 1)..(Len(cs) + 1) : Insert(cs, r, w)[i] = cs[i - 1]
    BY ONLY <2>1, InsertProps
  <2>4. /\ Insert(cs, r, w) \in Seq(Addr)
        /\ Len(Insert(cs, r, w)) = l + 2
        /\ \A i \in 1..q : Insert(cs, r, w)[i] = cs[i]
        /\ Insert(cs, r, w)[r] = w
        /\ \A i \in (q + 2)..(l + 2) : Insert(cs, r, w)[i] = cs[i - 1]
    BY <2>2, <2>3
  <2> QED BY <2>4 DEF r
<1>15. StrictlySorted(Insert(ks, q, sep))
  BY <1>1, <1>2, <1>3, <1>9, <1>10, <1>11, SortedInsert DEF l
<1>16. L = [pool[par] EXCEPT !.key = Insert(ks, q, sep), !.child = Insert(cs, q + 1, w)]
  BY <1>1, <1>12 DEF LinkRight, ks, cs
<1>17. /\ L \in Node
       /\ L.isLeaf = pool[par].isLeaf /\ L.isValue = pool[par].isValue
       /\ L.parent = pool[par].parent /\ L.val = pool[par].val
       /\ L.isLoaded2Switch = pool[par].isLoaded2Switch
       /\ L.key = Insert(ks, q, sep) /\ L.child = Insert(cs, q + 1, w)
  <2> DEFINE a == pool[par]
             x == Insert(ks, q, sep)
             y == Insert(cs, q + 1, w)
  <2>1. a \in Node /\ x \in Seq(Keys) /\ y \in Seq(Addr)
        /\ L = [a EXCEPT !.key = x, !.child = y]
    BY <1>2, <1>13, <1>14, <1>16
  <2> HIDE DEF a, x, y
  <2>2. /\ L \in Node
        /\ L.isLeaf = a.isLeaf /\ L.isValue = a.isValue
        /\ L.parent = a.parent /\ L.val = a.val
        /\ L.isLoaded2Switch = a.isLoaded2Switch
        /\ L.key = x /\ L.child = y
    BY <2>1 DEF Node
  <2> QED BY <2>2 DEF a, x, y
<1>18. \A i \in 1..(l + 1) : cover[par].lo < L.key[i] /\ L.key[i] < cover[par].hi
  <2> TAKE i \in 1..(l + 1)
  <2>1. CASE i < q
    <3>1. i \in 1..(q - 1) /\ i \in 1..l
      BY <1>2, <1>11, <2>1
    <3> QED BY <1>3, <1>13, <1>17, <3>1
  <2>2. CASE i = q
    <3>1. L.key[i] = sep
      BY <1>13, <1>17, <2>2
    <3> QED BY <1>1, <1>2, <1>6, <3>1, SMTT(60)
  <2>3. CASE i > q
    <3>1. i \in (q + 1)..(l + 1) /\ i - 1 \in 1..l
      BY <1>2, <1>11, <2>3
    <3> QED BY <1>3, <1>13, <1>17, <3>1
  <2> QED BY <1>2, <1>11, <2>1, <2>2, <2>3
<1>19. QED
  BY <1>13, <1>14, <1>15, <1>17, <1>18 DEF Linked, ks, cs, l

-----------------------------------------------------------------------------
(* What both kinds of split do outside the two halves: par gets the new    *)
(* entry, the cover of u is cut at sep; other nodes may at most get a new  *)
(* parent, and only those whose parent was u.                              *)
SplitEffect(u, w, par, sep, rk) ==
  /\ Nodes' = Nodes \cup {w} /\ cur' = par /\ pc' = "overflow"
  /\ pool' \in [Addr -> Node]
  /\ pool'[par] = LinkRight(pool[par], rk, sep)
  /\ \A x \in {u, w} : /\ pool'[x].isLeaf = pool[u].isLeaf
                       /\ pool'[x].isValue = FALSE
                       /\ pool'[x].parent = par
  /\ \A n \in Nodes \ {u, par} :
       /\ pool'[n].isLeaf = pool[n].isLeaf /\ pool'[n].isValue = pool[n].isValue
       /\ pool'[n].key = pool[n].key /\ pool'[n].child = pool[n].child
       /\ pool'[n].val = pool[n].val
       /\ pool[n].parent # u => pool'[n].parent = pool[n].parent
  /\ cover'[u] = KeyRange(cover[u].lo, sep)
  /\ cover'[w] = KeyRange(sep, cover[u].hi)
  /\ \A n \in Nodes \ {u} : cover'[n] = cover[n]

\* A half of a split leaf holds values with their keys, all there are.
LeafHalf(x) ==
  /\ Len(pool'[x].child) = Len(pool'[x].key)
  /\ \A i \in 1..Len(pool'[x].key) :
       /\ pool'[x].child[i] \in Nodes
       /\ Value(pool'[x].child[i])
       /\ pool[pool'[x].child[i]].val = pool'[x].key[i]
       /\ pool'[x].key[i] \in Stored
  /\ \A k \in Stored : InRange(k, cover'[x]) =>
       \E i \in 1..Len(pool'[x].key) : pool'[x].key[i] = k

\* A half of a split inner node holds nodes that know it as their parent.
InnerHalf(x) ==
  /\ Len(pool'[x].child) = Len(pool'[x].key) + 1
  /\ \A i \in 1..Len(pool'[x].child) :
       /\ pool'[x].child[i] \in Nodes \ {Root}
       /\ pool'[pool'[x].child[i]].isValue = FALSE
       /\ pool'[pool'[x].child[i]].parent = x
       /\ cover'[pool'[x].child[i]].lo =
            IF i = 1 THEN cover'[x].lo ELSE pool'[x].key[i - 1]
       /\ cover'[pool'[x].child[i]].hi =
            IF i = Len(pool'[x].child) THEN cover'[x].hi ELSE pool'[x].key[i]

HalfKeys(u, x) ==
  /\ StrictlySorted(pool'[x].key)
  /\ Len(pool'[x].key) < M
  /\ \A i \in 1..Len(pool'[x].key) :
       /\ cover'[x].lo < pool'[x].key[i]
       /\ pool'[x].key[i] <= cover'[x].hi
       /\ Inner(u) => pool'[x].key[i] < cover'[x].hi

\* The children of a split inner node are all in one of the halves.
HalvesHoldAll(u, w) ==
  \A n \in Nodes \ {Root} : ~Value(n) /\ pool[n].parent = u =>
    \E x \in {u, w} : /\ pool'[n].parent = x
                      /\ \E i \in 1..Len(pool'[x].child) : pool'[x].child[i] = n

Halves(u, w) ==
  /\ HalvesHoldAll(u, w)
  /\ HalfKeys(u, u) /\ HalfKeys(u, w)
  /\ Leaf(u) => LeafHalf(u) /\ LeafHalf(w)
  /\ ~Leaf(u) => InnerHalf(u) /\ InnerHalf(w)

(* Two halves that fit their covers, linked beside each other, give a tree *)
(* again: the part of the argument both kinds of split share.              *)
LEMMA SplitKeepsShape ==
  ASSUME IInv, NEW u, NEW w, NEW par, NEW q, NEW sep, NEW rk,
         SplitAt(u, w, par, q, sep, rk), SplitEffect(u, w, par, sep, rk),
         Halves(u, w), Stored' = Stored
  PROVE  Shape' /\ LeavesComplete' /\ Fill'
<1> DEFINE L == LinkRight(pool[par], rk, sep)
           l == Len(pool[par].key)
<1>1. /\ TypeOK /\ Shape /\ Nodes \subseteq Addr /\ Root \in Nodes
      /\ u \in Nodes /\ u \in Addr /\ u # Root /\ ~Value(u)
      /\ par \in Nodes /\ par \in Addr /\ par # u /\ Inner(par) /\ ~Leaf(par) /\ ~Value(par)
      /\ pool[par].parent # u
      /\ w \in Addr /\ w \notin Nodes /\ w # Root /\ w # u /\ w # par
      /\ q \in 1..Len(pool[par].child) /\ pool[par].child[q] = u
      /\ cover[u].lo < sep /\ sep < cover[u].hi
      /\ Len(pool[par].child) = l + 1 /\ l \in Nat
  <2>1. /\ TypeOK /\ Shape /\ Nodes \subseteq Addr /\ Root \in Nodes
    BY NodesAreAddresses DEF IInv
  <2>2. /\ u \in Nodes /\ u # Root /\ ~Value(u)
        /\ par \in Nodes /\ par # u /\ Inner(par) /\ ~Leaf(par) /\ ~Value(par)
        /\ pool[par].parent # u
        /\ w \in Addr /\ w \notin Nodes /\ w # Root
        /\ q \in 1..Len(pool[par].child) /\ pool[par].child[q] = u
        /\ cover[u].lo < sep /\ sep < cover[u].hi
    BY DEF SplitAt, Inner, Leaf, Value
  <2>3. Len(pool[par].child) = l + 1 /\ l \in Nat
    BY <2>1, <2>2, FieldTypes DEF Shape, InnerShape
  <2> QED BY <2>1, <2>2, <2>3
<1>2. /\ Nodes' = Nodes \cup {w} /\ cur' = par /\ pc' = "overflow"
      /\ pool'[u].isLeaf = pool[u].isLeaf /\ pool'[u].isValue = FALSE
      /\ pool'[u].parent = par
      /\ pool'[w].isLeaf = pool[u].isLeaf /\ pool'[w].isValue = FALSE
      /\ pool'[w].parent = par
      /\ cover'[u].lo = cover[u].lo /\ cover'[u].hi = sep
      /\ cover'[w].lo = sep /\ cover'[w].hi = cover[u].hi
  BY DEF SplitEffect, KeyRange
<1>3. \A n \in Nodes \ {u, par} :
        /\ pool'[n].isLeaf = pool[n].isLeaf /\ pool'[n].isValue = pool[n].isValue
        /\ pool'[n].key = pool[n].key /\ pool'[n].child = pool[n].child
        /\ pool'[n].val = pool[n].val
        /\ pool[n].parent # u => pool'[n].parent = pool[n].parent
  BY DEF SplitEffect
<1>4. \A n \in Nodes \ {u} : cover'[n] = cover[n]
  BY DEF SplitEffect
<1>5. /\ pool'[par].isLeaf = pool[par].isLeaf /\ pool'[par].isValue = pool[par].isValue
      /\ pool'[par].parent = pool[par].parent /\ pool'[par].val = pool[par].val
      /\ Len(pool'[par].key) = l + 1
      /\ Len(pool'[par].child) = l + 2
      /\ StrictlySorted(pool'[par].key)
      /\ \A i \in 1..(q - 1) : pool'[par].key[i] = pool[par].key[i]
      /\ pool'[par].key[q] = sep
      /\ \A i \in (q + 1)..(l + 1) : pool'[par].key[i] = pool[par].key[i - 1]
      /\ \A i \in 1..q : pool'[par].child[i] = pool[par].child[i]
      /\ pool'[par].child[q + 1] = w
      /\ \A i \in (q + 2)..(l + 2) : pool'[par].child[i] = pool[par].child[i - 1]
      /\ \A i \in 1..(l + 1) :
           cover[par].lo < pool'[par].key[i] /\ pool'[par].key[i] < cover[par].hi
  <2>1. pool'[par] = L
    BY DEF SplitEffect
  <2> HIDE DEF L, l
  <2>2. /\ L.isLeaf = pool[par].isLeaf /\ L.isValue = pool[par].isValue
        /\ L.parent = pool[par].parent /\ L.val = pool[par].val
        /\ Len(L.key) = l + 1
        /\ Len(L.child) = l + 2
        /\ StrictlySorted(L.key)
        /\ \A i \in 1..(q - 1) : L.key[i] = pool[par].key[i]
        /\ L.key[q] = sep
        /\ \A i \in (q + 1)..(l + 1) : L.key[i] = pool[par].key[i - 1]
        /\ \A i \in 1..q : L.child[i] = pool[par].child[i]
        /\ L.child[q + 1] = w
        /\ \A i \in (q + 2)..(l + 2) : L.child[i] = pool[par].child[i - 1]
        /\ \A i \in 1..(l + 1) : cover[par].lo < L.key[i] /\ L.key[i] < cover[par].hi
    <3>1. Linked(L, w, par, q, sep)
      BY LinkRightFacts DEF L
    <3> QED BY <3>1 DEF Linked, l
  <2> QED BY <2>1, <2>2
<1> HIDE DEF L, l
<1>6. \A n \in Nodes : /\ n \in Addr /\ n # w
                       /\ pool'[n].isLeaf = pool[n].isLeaf
                       /\ pool'[n].isValue = pool[n].isValue
  BY <1>1, <1>2, <1>3, <1>5, FieldTypes DEF Value
<1>7. \A n \in Nodes : Leaf(n)' = Leaf(n) /\ Value(n)' = Value(n) /\ Inner(n)' = Inner(n)
  BY <1>6 DEF Leaf, Value, Inner
<1>8. Leaf(w)' = Leaf(u) /\ ~Value(w)' /\ Inner(w)' = Inner(u)
  BY <1>1, <1>2 DEF Leaf, Value, Inner
<1>9. HalfKeys(u, u) /\ HalfKeys(u, w) /\ HalvesHoldAll(u, w)
  BY DEF Halves
<1>10. ValueShape'
  <2>1. \A n \in Nodes : Value(n) => n # u /\ n # par
    BY <1>1
  <2> QED BY <1>1, <1>2, <1>3, <1>7, <1>8, <2>1 DEF Shape, ValueShape
<1>11. LeafShape'
  <2>1. ASSUME NEW m \in Nodes, Value(m)
        PROVE  m \in Nodes' /\ pool'[m].isValue /\ pool'[m].val = pool[m].val
    BY <1>1, <1>2, <1>3, <2>1 DEF Value
  <2>2. ASSUME NEW n \in Nodes, Leaf(n), n # u
        PROVE  /\ ~Value(n)'
               /\ Len(pool'[n].child) = Len(pool'[n].key)
               /\ \A i \in 1..Len(pool'[n].key) :
                    /\ pool'[n].child[i] \in Nodes'
                    /\ pool'[pool'[n].child[i]].isValue
                    /\ pool'[pool'[n].child[i]].val = pool'[n].key[i]
    <3>1. n # par /\ ~Value(n)
      BY <1>1, <2>2 DEF Shape, LeafShape
    <3>2. /\ Len(pool[n].child) = Len(pool[n].key)
          /\ \A i \in 1..Len(pool[n].key) :
               /\ pool[n].child[i] \in Nodes /\ Value(pool[n].child[i])
               /\ pool[pool[n].child[i]].val = pool[n].key[i]
      BY <1>1, <2>2 DEF Shape, LeafShape
    <3>3. pool'[n].key = pool[n].key /\ pool'[n].child = pool[n].child /\ ~Value(n)'
      BY <1>3, <1>7, <2>2, <3>1
    <3> QED BY <2>1, <3>2, <3>3
  <2>3. ASSUME Leaf(u), NEW x \in {u, w}
        PROVE  /\ Len(pool'[x].child) = Len(pool'[x].key)
               /\ \A i \in 1..Len(pool'[x].key) :
                    /\ pool'[x].child[i] \in Nodes'
                    /\ pool'[pool'[x].child[i]].isValue
                    /\ pool'[pool'[x].child[i]].val = pool'[x].key[i]
    <3>1. LeafHalf(x)
      BY <2>3 DEF Halves
    <3> QED BY <2>1, <3>1 DEF LeafHalf
  <2>4. ~Value(u)'
    BY <1>1, <1>7
  <2> QED BY <1>2, <1>7, <1>8, <2>2, <2>3, <2>4 DEF LeafShape, Value
<1>12. /\ Len(pool'[par].child) = Len(pool'[par].key) + 1
       /\ \A i \in 1..Len(pool'[par].child) :
            /\ pool'[par].child[i] \in Nodes' \ {Root}
            /\ ~pool'[pool'[par].child[i]].isValue
            /\ pool'[pool'[par].child[i]].parent = par
            /\ cover'[pool'[par].child[i]].lo = SlotLo(par, i)'
            /\ cover'[pool'[par].child[i]].hi = SlotHi(par, i)'
  <2>1. cover'[par] = cover[par]
    BY <1>1, <1>4
  <2>2. ASSUME NEW i \in 1..(l + 1), i # q
        PROVE  /\ pool[par].child[i] \in Nodes' \ {Root}
               /\ ~pool'[pool[par].child[i]].isValue
               /\ pool'[pool[par].child[i]].parent = par
               /\ cover'[pool[par].child[i]].lo = SlotLo(par, i)
               /\ cover'[pool[par].child[i]].hi = SlotHi(par, i)
    <3> DEFINE m == pool[par].child[i]
    <3>1. m # u
      BY <1>1, <2>2, ChildrenApart
    <3>2. /\ m \in Nodes /\ m # Root /\ ~Value(m) /\ pool[m].parent = par
          /\ cover[m].lo = SlotLo(par, i) /\ cover[m].hi = SlotHi(par, i)
      BY <1>1, ChildFacts
    <3> HIDE DEF m
    <3>3. pool'[m].parent = par
      BY <1>1, <1>3, <1>5, <3>1, <3>2
    <3>4. /\ m \in Nodes' \ {Root} /\ ~pool'[m].isValue
          /\ cover'[m].lo = SlotLo(par, i) /\ cover'[m].hi = SlotHi(par, i)
      BY <1>2, <1>4, <1>6, <3>1, <3>2 DEF Value
    <3> QED BY <3>3, <3>4 DEF m
  <2>3. cover[u].lo = SlotLo(par, q) /\ cover[u].hi = SlotHi(par, q)
    BY <1>1, ChildFacts
  <2>4. ASSUME NEW i \in 1..(l + 2)
        PROVE  /\ pool'[par].child[i] \in Nodes' \ {Root}
               /\ ~pool'[pool'[par].child[i]].isValue
               /\ pool'[pool'[par].child[i]].parent = par
               /\ cover'[pool'[par].child[i]].lo = SlotLo(par, i)'
               /\ cover'[pool'[par].child[i]].hi = SlotHi(par, i)'
    <3> DEFINE a == pool'[par].child[i]
    <3>1. CASE i < q
      <4>1. i \in 1..(l + 1) /\ i \in 1..q /\ i \in 1..(q - 1) /\ i # q
        BY <1>1, <3>1
      <4>2. SlotLo(par, i)' = SlotLo(par, i)
        <5>1. i # 1 => i - 1 \in 1..(q - 1)
          BY <1>1, <4>1
        <5> QED BY <1>5, <2>1, <4>1, <5>1 DEF SlotLo
      <4>3. SlotHi(par, i)' = SlotHi(par, i)
        <5>1. i # l + 2 /\ i # l + 1
          BY <1>1, <3>1
        <5> QED BY <1>1, <1>5, <2>1, <4>1, <5>1 DEF SlotHi
      <4> QED BY <1>5, <2>2, <4>1, <4>2, <4>3
    <3>2. CASE i = q
      <4>1. a = u
        BY <1>1, <1>5, <3>2
      <4>2. SlotLo(par, i)' = SlotLo(par, q)
        <5>1. q # 1 => q - 1 \in 1..(q - 1)
          BY <1>1
        <5> QED BY <1>5, <2>1, <3>2, <5>1 DEF SlotLo
      <4>3. SlotHi(par, i)' = sep
        <5>1. q # l + 2
          BY <1>1
        <5> QED BY <1>5, <3>2, <5>1 DEF SlotHi
      <4> HIDE DEF a
      <4>4. /\ a \in Nodes' \ {Root} /\ ~pool'[a].isValue /\ pool'[a].parent = par
            /\ cover'[a].lo = SlotLo(par, i)' /\ cover'[a].hi = SlotHi(par, i)'
        BY <1>1, <1>2, <2>3, <4>1, <4>2, <4>3
      <4> QED BY <4>4 DEF a
    <3>3. CASE i = q + 1
      <4>1. a = w
        BY <1>5, <3>3
      <4>2. SlotLo(par, i)' = sep
        <5>1. i # 1 /\ i - 1 = q
          BY <1>1, <3>3
        <5> QED BY <1>5, <5>1 DEF SlotLo
      <4>3. SlotHi(par, i)' = cover[u].hi
        <5>1. CASE q = l + 1
          BY <1>1, <1>5, <2>1, <2>3, <3>3, <5>1 DEF SlotHi
        <5>2. CASE q # l + 1
          <6>1. i \in (q + 1)..(l + 1) /\ i - 1 = q /\ i # l + 2
            BY <1>1, <3>3, <5>2
          <6> QED BY <1>1, <1>5, <2>3, <5>2, <6>1 DEF SlotHi
        <5> QED BY <5>1, <5>2
      <4> HIDE DEF a
      <4>4. /\ a \in Nodes' \ {Root} /\ ~pool'[a].isValue /\ pool'[a].parent = par
            /\ cover'[a].lo = SlotLo(par, i)' /\ cover'[a].hi = SlotHi(par, i)'
        BY <1>1, <1>2, <4>1, <4>2, <4>3
      <4> QED BY <4>4 DEF a
    <3>4. CASE i > q + 1
      <4>1. i \in (q + 2)..(l + 2) /\ i - 1 \in 1..(l + 1) /\ i - 1 # q /\ i # 1 /\ i - 1 # 1
        BY <1>1, <3>4
      <4>2. SlotLo(par, i)' = SlotLo(par, i - 1)
        <5>1. i - 1 \in (q + 1)..(l + 1)
          BY <1>1, <4>1
        <5> QED BY <1>5, <4>1, <5>1 DEF SlotLo
      <4>3. SlotHi(par, i)' = SlotHi(par, i - 1)
        <5>1. CASE i = l + 2
          BY <1>1, <1>5, <2>1, <5>1 DEF SlotHi
        <5>2. CASE i # l + 2
          <6>1. i \in (q + 1)..(l + 1) /\ i - 1 # l + 1
            BY <1>1, <3>4, <4>1, <5>2
          <6> QED BY <1>1, <1>5, <5>2, <6>1 DEF SlotHi
        <5> QED BY <5>1, <5>2
      <4>4. a = pool[par].child[i - 1]
        BY <1>5, <4>1
      <4> QED BY <2>2, <4>1, <4>2, <4>3, <4>4
    <3> QED BY <1>1, <3>1, <3>2, <3>3, <3>4
  <2> QED BY <1>1, <1>5, <2>4
<1>13. InnerShape'
  <2>1. ASSUME NEW n \in Nodes, n # u, n # par, Inner(n)
        PROVE  /\ Len(pool'[n].child) = Len(pool'[n].key) + 1
               /\ \A i \in 1..Len(pool'[n].child) :
                    /\ pool'[n].child[i] \in Nodes' \ {Root}
                    /\ ~pool'[pool'[n].child[i]].isValue
                    /\ pool'[pool'[n].child[i]].parent = n
                    /\ cover'[pool'[n].child[i]].lo = SlotLo(n, i)'
                    /\ cover'[pool'[n].child[i]].hi = SlotHi(n, i)'
    <3>1. Len(pool[n].child) = Len(pool[n].key) + 1
      BY <1>1, <2>1 DEF Shape, InnerShape
    <3>2. ASSUME NEW i \in 1..Len(pool[n].child)
          PROVE  /\ pool[n].child[i] \in Nodes' \ {Root}
                 /\ ~pool'[pool[n].child[i]].isValue
                 /\ pool'[pool[n].child[i]].parent = n
                 /\ cover'[pool[n].child[i]].lo = SlotLo(n, i)
                 /\ cover'[pool[n].child[i]].hi = SlotHi(n, i)
      <4> DEFINE m == pool[n].child[i]
      <4>1. /\ m \in Nodes \ {Root} /\ ~Value(m) /\ pool[m].parent = n
            /\ cover[m].lo = SlotLo(n, i) /\ cover[m].hi = SlotHi(n, i)
        BY <1>1, <2>1 DEF Shape, InnerShape
      <4> HIDE DEF m
      <4>2. m # u
        BY <2>1, <4>1 DEF SplitAt
      <4>3. pool'[m].parent = n
        BY <1>3, <1>5, <2>1, <4>1, <4>2
      <4>4. /\ m \in Nodes' \ {Root} /\ ~pool'[m].isValue
            /\ cover'[m].lo = SlotLo(n, i) /\ cover'[m].hi = SlotHi(n, i)
        BY <1>2, <1>4, <1>6, <4>1, <4>2 DEF Value
      <4> QED BY <4>3, <4>4 DEF m
    <3>3. \A i : SlotLo(n, i)' = SlotLo(n, i) /\ SlotHi(n, i)' = SlotHi(n, i)
      BY <1>3, <1>4, <2>1 DEF SlotLo, SlotHi
    <3>4. pool'[n].child = pool[n].child /\ pool'[n].key = pool[n].key
      BY <1>3, <2>1
    <3> QED BY <3>1, <3>2, <3>3, <3>4
  <2>2. ASSUME Inner(u), NEW x \in {u, w}
        PROVE  /\ Len(pool'[x].child) = Len(pool'[x].key) + 1
               /\ \A i \in 1..Len(pool'[x].child) :
                    /\ pool'[x].child[i] \in Nodes' \ {Root}
                    /\ ~pool'[pool'[x].child[i]].isValue
                    /\ pool'[pool'[x].child[i]].parent = x
                    /\ cover'[pool'[x].child[i]].lo = SlotLo(x, i)'
                    /\ cover'[pool'[x].child[i]].hi = SlotHi(x, i)'
    <3>1. InnerHalf(x)
      BY <2>2 DEF Halves, Inner, Leaf
    <3> QED BY <1>2, <3>1 DEF InnerHalf, SlotLo, SlotHi
  <2> SUFFICES ASSUME NEW n \in Nodes', Inner(n)'
               PROVE  /\ Len(pool'[n].child) = Len(pool'[n].key) + 1
                      /\ \A i \in 1..Len(pool'[n].child) :
                           /\ pool'[n].child[i] \in Nodes' \ {Root}
                           /\ ~pool'[pool'[n].child[i]].isValue
                           /\ pool'[pool'[n].child[i]].parent = n
                           /\ cover'[pool'[n].child[i]].lo = SlotLo(n, i)'
                           /\ cover'[pool'[n].child[i]].hi = SlotHi(n, i)'
    BY DEF InnerShape, Value
  <2>3. CASE n = par
    BY <1>12, <2>3
  <2>4. CASE n \in {u, w}
    BY <1>1, <1>7, <1>8, <2>2, <2>4
  <2>5. CASE n \notin {u, w, par}
    BY <1>2, <1>7, <2>1, <2>5
  <2> QED BY <2>3, <2>4, <2>5
<1>14. KeysShape'
  <2>1. ASSUME NEW n \in Nodes, n # u, n # par, ~Value(n)
        PROVE  /\ StrictlySorted(pool'[n].key)
               /\ cover'[n].lo < cover'[n].hi
               /\ \A i \in 1..Len(pool'[n].key) :
                    /\ cover'[n].lo < pool'[n].key[i]
                    /\ pool'[n].key[i] <= cover'[n].hi
                    /\ Inner(n)' => pool'[n].key[i] < cover'[n].hi
    <3>1. /\ StrictlySorted(pool[n].key)
          /\ cover[n].lo < cover[n].hi
          /\ \A i \in 1..Len(pool[n].key) :
               /\ cover[n].lo < pool[n].key[i]
               /\ pool[n].key[i] <= cover[n].hi
               /\ Inner(n) => pool[n].key[i] < cover[n].hi
      BY <1>1, <2>1 DEF Shape, KeysShape
    <3> QED BY <1>3, <1>4, <1>7, <2>1, <3>1
  <2>2. /\ StrictlySorted(pool'[par].key)
        /\ cover'[par].lo < cover'[par].hi
        /\ \A i \in 1..Len(pool'[par].key) :
             /\ cover'[par].lo < pool'[par].key[i]
             /\ pool'[par].key[i] <= cover'[par].hi
             /\ Inner(par)' => pool'[par].key[i] < cover'[par].hi
    <3>1. cover'[par] = cover[par] /\ cover[par].lo < cover[par].hi
      BY <1>1, <1>4 DEF Shape, KeysShape
    <3>2. \A i \in 1..(l + 1) :
            /\ cover[par].lo < pool'[par].key[i] /\ pool'[par].key[i] < cover[par].hi
            /\ pool'[par].key[i] <= cover[par].hi
      <4> TAKE i \in 1..(l + 1)
      <4>1. pool'[par].key[i] \in Int /\ cover[par].hi \in Int
        <5>1. pool'[par] \in Node
          BY <1>1 DEF SplitEffect
        <5>2. pool'[par].key \in Seq(Keys)
          BY <5>1 DEF Node
        <5>3. pool'[par].key[i] \in Keys
          BY <1>5, <5>2, LenProperties
        <5>4. cover[par].hi \in Int
          BY <1>1, FieldTypes
        <5>5. Keys \subseteq Int
          BY ConstantsAssumption
        <5> QED BY <5>3, <5>4, <5>5
      <4> QED BY <1>5, <4>1
    <3> QED BY <1>5, <3>1, <3>2
  <2>3. ASSUME NEW x \in {u, w}
        PROVE  /\ StrictlySorted(pool'[x].key)
               /\ cover'[x].lo < cover'[x].hi
               /\ \A i \in 1..Len(pool'[x].key) :
                    /\ cover'[x].lo < pool'[x].key[i]
                    /\ pool'[x].key[i] <= cover'[x].hi
                    /\ Inner(x)' => pool'[x].key[i] < cover'[x].hi
    <3>1. HalfKeys(u, x) /\ Inner(x)' = Inner(u)
      BY <1>1, <1>7, <1>8, <1>9
    <3> QED BY <1>1, <1>2, <3>1 DEF HalfKeys
  <2> QED BY <1>2, <1>7, <1>8, <2>1, <2>2, <2>3 DEF KeysShape
<1>15. ParentShape'
  <2>1. ~Value(Root) /\ pool[Root].parent = Null /\ cover[Root] = KeyRange(0, KeyMax)
    BY <1>1 DEF Shape, ParentShape
  <2>2. ~pool'[Root].isValue /\ pool'[Root].parent = Null /\ cover'[Root] = KeyRange(0, KeyMax)
    <3>1. pool[Root].parent # u
      BY <1>1, <2>1 DEF Null, Nodes
    <3> QED BY <1>1, <1>3, <1>4, <1>5, <1>6, <2>1, <3>1 DEF Value
  <2>3. ASSUME NEW i \in 1..(l + 1)
        PROVE  \E j \in 1..(l + 2) : pool'[par].child[j] = pool[par].child[i]
    <3>1. CASE i <= q
      BY <1>1, <1>5, <3>1
    <3>2. CASE i > q
      <4>1. i + 1 \in (q + 2)..(l + 2) /\ (i + 1) - 1 = i /\ i + 1 \in 1..(l + 2)
        BY <1>1, <3>2
      <4>2. pool'[par].child[i + 1] = pool[par].child[i]
        BY <1>5, <4>1
      <4> QED BY <4>1, <4>2
    <3> QED BY <1>1, <3>1, <3>2
  <2>4. ASSUME NEW n \in Nodes \ {Root}, ~Value(n)
        PROVE  /\ pool'[n].parent \in Nodes'
               /\ ~pool'[pool'[n].parent].isLeaf /\ ~pool'[pool'[n].parent].isValue
               /\ \E i \in 1..Len(pool'[pool'[n].parent].child) :
                    pool'[pool'[n].parent].child[i] = n
    <3> DEFINE p == pool[n].parent
    <3>1. /\ p \in Nodes /\ Inner(p)
          /\ \E i \in 1..Len(pool[p].child) : pool[p].child[i] = n
      BY <1>1, <2>4 DEF Shape, ParentShape
    <3> HIDE DEF p
    <3>2. CASE p = u
      <4>1. PICK x \in {u, w} : /\ pool'[n].parent = x
                                /\ \E i \in 1..Len(pool'[x].child) : pool'[x].child[i] = n
        BY <1>9, <2>4, <3>2 DEF HalvesHoldAll, p
      <4>2. x \in Nodes' /\ ~pool'[x].isLeaf /\ ~pool'[x].isValue
        BY <1>1, <1>2, <3>1, <3>2 DEF Inner
      <4> QED BY <4>1, <4>2
    <3>3. CASE p # u
      <4>1. pool'[n].parent = p
        BY <1>2, <1>3, <1>5, <3>3 DEF p, SplitAt
      <4>2. p \in Nodes' /\ ~pool'[p].isLeaf /\ ~pool'[p].isValue
        BY <1>2, <1>6, <3>1 DEF Inner
      <4>3. \E i \in 1..Len(pool'[p].child) : pool'[p].child[i] = n
        <5>1. CASE p = par
          <6>1. PICK i \in 1..(l + 1) : pool[par].child[i] = n
            BY <1>1, <3>1, <5>1
          <6>2. \E j \in 1..(l + 2) : pool'[par].child[j] = n
            BY <2>3, <6>1
          <6> QED BY <1>5, <5>1, <6>2
        <5>2. CASE p # par
          BY <1>3, <3>1, <3>3, <5>2
        <5> QED BY <5>1, <5>2
      <4> QED BY <4>1, <4>2, <4>3
    <3> QED BY <3>2, <3>3
  <2>5. /\ pool'[w].parent = par /\ par \in Nodes'
        /\ ~pool'[par].isLeaf /\ ~pool'[par].isValue
        /\ \E i \in 1..Len(pool'[par].child) : pool'[par].child[i] = w
    <3>1. q + 1 \in 1..(l + 2)
      BY <1>1
    <3> QED BY <1>1, <1>2, <1>5, <1>6, <3>1 DEF Inner
  <2>6. \A n \in Nodes : ~pool'[n].isValue => ~Value(n)
    BY <1>6 DEF Value
  <2> QED BY <1>2, <2>2, <2>4, <2>5, <2>6 DEF ParentShape, Inner, Value
<1>16. LeavesDisjoint'
  <2>1. ASSUME NEW n \in Nodes, Leaf(n), Leaf(u), n # u
        PROVE  /\ cover[n].hi <= cover[u].lo \/ cover[u].hi <= cover[n].lo
               /\ cover'[n] = cover[n]
               /\ cover[n].lo \in Int /\ cover[n].hi \in Int
    BY <1>1, <1>4, <1>6, <2>1, FieldTypes DEF Shape, LeavesDisjoint
  <2>2. /\ cover[u].lo \in Int /\ cover[u].hi \in Int /\ sep \in Int
    BY <1>1, FieldTypes, ConstantsAssumption DEF SplitAt
  <2>3. ASSUME NEW n \in Nodes, Leaf(n), Leaf(u), n # u, NEW x \in {u, w}
        PROVE  /\ cover'[n].hi <= cover'[x].lo \/ cover'[x].hi <= cover'[n].lo
    <3>1. CASE x = u
      BY <1>1, <1>2, <2>1, <2>2, <2>3, <3>1
    <3>2. CASE x = w
      BY <1>1, <1>2, <2>1, <2>2, <2>3, <3>2
    <3> QED BY <3>1, <3>2
  <2>4. cover'[u].hi <= cover'[w].lo
    BY <1>2, <2>2
  <2>5. ASSUME NEW m \in Nodes, NEW n \in Nodes, Leaf(m), Leaf(n), m # n, m # u, n # u
        PROVE  cover'[m].hi <= cover'[n].lo \/ cover'[n].hi <= cover'[m].lo
    BY <1>1, <1>4, <2>5 DEF Shape, LeavesDisjoint
  <2> SUFFICES ASSUME NEW m \in Nodes', NEW n \in Nodes', Leaf(m)', Leaf(n)', m # n
               PROVE  cover'[m].hi <= cover'[n].lo \/ cover'[n].hi <= cover'[m].lo
    BY DEF LeavesDisjoint
  <2>6. /\ m # w => m \in Nodes /\ Leaf(m)
        /\ n # w => n \in Nodes /\ Leaf(n)
        /\ m \in {u, w} \/ n \in {u, w} => Leaf(u)
    BY <1>1, <1>2, <1>7, <1>8
  <2>7. CASE m \in {u, w}
    BY <2>3, <2>4, <2>6, <2>7
  <2>8. CASE m \notin {u, w} /\ n \in {u, w}
    BY <2>3, <2>6, <2>8
  <2>9. CASE m \notin {u, w} /\ n \notin {u, w}
    BY <2>5, <2>6, <2>9
  <2> QED BY <2>7, <2>8, <2>9
<1>17. LeavesComplete'
  <2>1. \A n \in Nodes : Leaf(n) =>
          /\ \A k \in Stored : InRange(k, cover[n]) =>
               \E i \in 1..Len(pool[n].key) : pool[n].key[i] = k
          /\ \A i \in 1..Len(pool[n].key) : pool[n].key[i] \in Stored
    BY DEF IInv, LeavesComplete
  <2> SUFFICES ASSUME NEW n \in Nodes', Leaf(n)'
               PROVE  /\ \A k \in Stored : InRange(k, cover'[n]) =>
                           \E i \in 1..Len(pool'[n].key) : pool'[n].key[i] = k
                      /\ \A i \in 1..Len(pool'[n].key) : pool'[n].key[i] \in Stored
    BY DEF LeavesComplete, InRange
  <2>2. CASE n \in {u, w}
    <3>1. LeafHalf(n)
      BY <1>1, <1>7, <1>8, <2>2 DEF Halves
    <3> QED BY <3>1 DEF LeafHalf
  <2>3. CASE n \notin {u, w}
    <3>1. n \in Nodes /\ Leaf(n) /\ n # par
      BY <1>1, <1>2, <1>7, <2>3
    <3> QED BY <1>3, <1>4, <2>1, <2>3, <3>1
  <2> QED BY <2>2, <2>3
<1>18. Fill'
  <2> SUFFICES ASSUME NEW n \in Nodes', ~Value(n)'
               PROVE  Len(pool'[n].key) <= M /\ (Len(pool'[n].key) = M => n = par)
    BY <1>2 DEF Fill
  <2>1. CASE n \in {u, w}
    <3>1. Len(pool'[n].key) < M
      BY <1>9, <2>1 DEF HalfKeys
    <3>2. Len(pool'[n].key) \in Int
      <4>1. pool'[n] \in Node
        BY <1>1, <2>1 DEF SplitEffect
      <4>2. pool'[n].key \in Seq(Keys)
        BY <4>1 DEF Node
      <4> QED BY <4>2, LenProperties
    <3> QED BY <3>1, <3>2, ConstantsAssumption
  <2>2. CASE n = par
    <3>1. l <= M /\ l # M
      BY <1>1 DEF IInv, Fill, SplitAt, l
    <3> QED BY <1>1, <1>5, <2>2, <3>1, ConstantsAssumption
  <2>3. CASE n \notin {u, w, par}
    <3>1. n \in Nodes /\ ~Value(n)
      BY <1>2, <1>7, <2>3
    <3>2. Len(pool[n].key) <= M /\ Len(pool[n].key) # M
      BY <2>3, <3>1 DEF IInv, Fill, SplitAt
    <3> QED BY <1>3, <2>3, <3>1, <3>2
  <2> QED BY <2>1, <2>2, <2>3
<1>19. QED
  BY <1>10, <1>11, <1>13, <1>14, <1>15, <1>16, <1>17, <1>18 DEF Shape

-----------------------------------------------------------------------------
(* The rest of the invariant, the same for both kinds of split.            *)
LEMMA SplitInv ==
  ASSUME IInv, NEW u, NEW w, NEW par, NEW q, NEW sep, NEW rk,
         SplitAt(u, w, par, q, sep, rk), SplitEffect(u, w, par, sep, rk),
         Halves(u, w), Splitting, nb_node < MaxNodes, nb_node' = nb_node + 1, SplitCover(sep),
         UNCHANGED <<depth, key_map, loadVars, in_key>>
  PROVE  IInv'
<1>1. TypeOK /\ Load /\ par \in Nodes /\ ~Value(par) /\ par \in Addr /\ w \notin Nodes
  BY NodesAreAddresses DEF IInv, SplitAt, Inner, Value
<1>2. /\ cur' = par /\ pc' = "overflow" /\ Nodes' = Nodes \cup {w}
      /\ pool' \in [Addr -> Node]
  BY DEF SplitEffect
<1>3. Stored' = Stored
  BY <1>2 DEF Stored, Splitting
<1>4. Shape' /\ LeavesComplete' /\ Fill'
  BY <1>3, SplitKeepsShape
<1>5. ~Value(par)'
  <2>1. pool'[par] = LinkRight(pool[par], rk, sep)
    BY DEF SplitEffect
  <2>2. pool'[par].isValue = pool[par].isValue
    BY <2>1, LinkRightFacts DEF Linked
  <2> QED BY <1>1, <2>2 DEF Value
<1>6. Backend'
  BY <1>1, <1>2, <1>5 DEF Backend, Value
<1>7. Load'
  BY <1>1, <1>2 DEF Load, loadVars
<1>8. cover' \in [Addr -> [lo : 0..KeyMax, hi : 0..KeyMax]]
  <2>1. cover \in [Addr -> [lo : 0..KeyMax, hi : 0..KeyMax]] /\ cur \in Addr /\ sep \in 0..KeyMax
    BY <1>1, ConstantsAssumption DEF TypeOK, SplitAt
  <2>2. KeyRange(sep, cover[cur].hi) \in [lo : 0..KeyMax, hi : 0..KeyMax]
    BY <2>1 DEF KeyRange
  <2> QED BY <2>1, <2>2 DEF SplitCover
<1>9. nb_node' \in 1..MaxNodes
  BY <1>1, ConstantsAssumption DEF TypeOK
<1>10. TypeOK'
  BY <1>1, <1>2, <1>8, <1>9 DEF TypeOK, loadVars
<1>11. QED
  BY <1>4, <1>6, <1>7, <1>10 DEF IInv

\* Where the cut goes.
LEMMA HalfBounds == Half \in Nat /\ 1 <= Half /\ Half < M /\ M \in Nat /\ M >= 2
  BY ConstantsAssumption DEF Half

\* The split of a leaf keeps the invariant.
LEMMA SplitLeafInv ==
  ASSUME IInv, SplitLeaf
  PROVE  IInv'
<1>0. PICK u, w, par, sep, rk :
        /\ u = cur /\ w = nb_node /\ par = pool[cur].parent
        /\ sep = pool[cur].key[Half] /\ rk = From(pool[cur].key, Half)[1]
  OBVIOUS
<1> DEFINE c  == pool[u]
           ks == c.key
           cs == c.child
<1>1. /\ TypeOK /\ Shape /\ Nodes \subseteq Addr
      /\ u \in Nodes /\ u # Root /\ u \in Addr /\ ~Value(u) /\ Leaf(u)
      /\ Len(ks) = M
      /\ w \in Addr /\ w \notin Nodes /\ w # Root /\ w # u
      /\ par \in Nodes /\ Inner(par) /\ par # u /\ par # w /\ par \in Addr
      /\ pool[par].parent # u
      /\ nb_node < MaxNodes /\ nb_node' = nb_node + 1
  <2>1. TypeOK /\ Shape /\ Nodes \subseteq Addr
    BY NodesAreAddresses DEF IInv
  <2>2. Splitting /\ nb_node < MaxNodes /\ nb_node' = nb_node + 1 /\ Leaf(u)
    BY <1>0 DEF SplitLeaf, Leaf
  <2>3. /\ u \in Nodes /\ u # Root /\ u \in Addr /\ ~Value(u)
        /\ Len(ks) = M
        /\ w \in Addr /\ w \notin Nodes /\ w # Root
        /\ par \in Nodes /\ Inner(par) /\ par # u
        /\ pool[par].parent # u
    BY <1>0, <2>2, SplitPlace
  <2> QED BY <2>1, <2>2, <2>3
<1>2. PICK q \in 1..Len(pool[par].child) : pool[par].child[q] = u
  BY <1>0, <1>1, SplitPlace DEF SplitLeaf
<1>3. /\ c \in Node /\ pool[par] \in Node
      /\ ks \in Seq(Keys) /\ ks \in Seq(Int) /\ cs \in Seq(Addr) /\ Len(cs) = M
      /\ \A i \in 1..M : ks[i] \in Keys /\ ks[i] \in Int
      /\ cover[u].lo \in Int /\ cover[u].hi \in Int
  <2>1. Keys \subseteq Int
    BY ConstantsAssumption
  <2> QED BY <1>1, <2>1, FieldTypes DEF Shape, LeafShape
<1>4. /\ StrictlySorted(ks)
      /\ \A i \in 1..M : cover[u].lo < ks[i] /\ ks[i] <= cover[u].hi
  BY <1>1 DEF Shape, KeysShape
<1>5. \A i, j \in 1..M : i < j => ks[i] < ks[j]
  BY <1>1, <1>3, <1>4, LenProperties DEF StrictlySorted
<1>6. \A i \in 1..M : /\ cs[i] \in Nodes /\ Value(cs[i])
                      /\ pool[cs[i]].val = ks[i] /\ ks[i] \in Stored
  BY <1>1 DEF Shape, LeafShape, IInv, LeavesComplete
<1>7. \A k \in Stored : InRange(k, cover[u]) => \E i \in 1..M : ks[i] = k
  BY <1>1 DEF IInv, LeavesComplete
<1> HIDE DEF ks, cs
<1>8. /\ Keep(ks, Half) \in Seq(Keys) /\ Len(Keep(ks, Half)) = Half
      /\ \A i \in 1..Half : Keep(ks, Half)[i] = ks[i]
      /\ StrictlySorted(Keep(ks, Half))
  BY <1>1, <1>3, <1>4, HalfBounds, KeepProps, SortedParts DEF ks
<1>9. /\ Keep(cs, Half) \in Seq(Addr) /\ Len(Keep(cs, Half)) = Half
      /\ \A i \in 1..Half : Keep(cs, Half)[i] = cs[i]
  BY <1>3, HalfBounds, KeepProps
<1>10. /\ From(ks, Half) \in Seq(Keys) /\ Len(From(ks, Half)) = M - Half
       /\ \A i \in 1..(M - Half) : From(ks, Half)[i] = ks[Half + i]
       /\ StrictlySorted(From(ks, Half))
  <2>1. Half \in 0..Len(ks) /\ Len(ks) = M
    BY <1>1, HalfBounds DEF ks
  <2>2. /\ From(ks, Half) \in Seq(Keys) /\ Len(From(ks, Half)) = Len(ks) - Half
        /\ \A i \in 1..(Len(ks) - Half) : From(ks, Half)[i] = ks[Half + i]
    BY ONLY <1>3, <2>1, FromProps
  <2>3. StrictlySorted(From(ks, Half))
    BY <1>3, <1>4, <2>1, SortedParts
  <2> QED BY <2>1, <2>2, <2>3
<1>11. /\ From(cs, Half) \in Seq(Addr) /\ Len(From(cs, Half)) = M - Half
       /\ \A i \in 1..(M - Half) : From(cs, Half)[i] = cs[Half + i]
  <2>1. Half \in 0..Len(cs) /\ Len(cs) = M /\ cs \in Seq(Addr)
    BY <1>3, HalfBounds
  <2>2. /\ From(cs, Half) \in Seq(Addr) /\ Len(From(cs, Half)) = Len(cs) - Half
        /\ \A i \in 1..(Len(cs) - Half) : From(cs, Half)[i] = cs[Half + i]
    BY ONLY <2>1, FromProps
  <2> QED BY <2>1, <2>2
<1>12. sep = ks[Half] /\ rk = ks[Half + 1] /\ sep \in Keys /\ sep \in Int /\ rk \in Int /\ sep < rk
  <2>1. sep = ks[Half] /\ rk = From(ks, Half)[1]
    BY <1>0 DEF ks
  <2>2. Half \in 1..M /\ Half + 1 \in 1..M /\ 1 \in 1..(M - Half) /\ Half < Half + 1
    BY HalfBounds
  <2> QED BY <1>3, <1>5, <1>10, <2>1, <2>2
<1>13. SplitAt(u, w, par, q, sep, rk)
  <2>1. cover[u].lo < sep /\ sep < cover[u].hi /\ sep <= rk /\ rk <= cover[u].hi
    <3>1. Half \in 1..M /\ Half + 1 \in 1..M
      BY HalfBounds
    <3> QED BY <1>3, <1>4, <1>12, <3>1
  <2> QED BY <1>0, <1>1, <1>2, <1>12, <2>1 DEF SplitAt, ks
<1>14. /\ pool'[u] = [c EXCEPT !.key = Keep(ks, Half), !.child = Keep(cs, Half)]
       /\ pool'[w] = [FreshNode EXCEPT !.parent = par, !.key = From(ks, Half),
                                       !.child = From(cs, Half)]
       /\ pool'[par] = LinkRight(pool[par], rk, sep)
       /\ \A n \in Addr : n # u /\ n # w /\ n # par => pool'[n] = pool[n]
       /\ DOMAIN pool' = Addr
       /\ pool' = [n \in Addr |-> pool'[n]]
  BY <1>0, <1>1 DEF SplitLeaf, TypeOK, ks, cs
<1>15. /\ pool'[u].isLeaf = c.isLeaf /\ pool'[u].isValue = c.isValue
       /\ pool'[u].parent = c.parent
       /\ pool'[u].key = Keep(ks, Half) /\ pool'[u].child = Keep(cs, Half)
       /\ pool'[u] \in Node
  <2> HIDE DEF c
  <2> QED BY <1>3, <1>8, <1>9, <1>14 DEF Node
<1>16. /\ pool'[w].isLeaf = TRUE /\ pool'[w].isValue = FALSE
       /\ pool'[w].parent = par
       /\ pool'[w].key = From(ks, Half) /\ pool'[w].child = From(cs, Half)
       /\ pool'[w] \in Node
  BY <1>1, <1>10, <1>11, <1>14 DEF FreshNode, Node
<1>17. c.isLeaf = TRUE /\ c.isValue = FALSE /\ c.parent = par
  BY <1>0, <1>1, FieldTypes DEF Leaf, Value
<1> HIDE DEF c
<1>18. pool' \in [Addr -> Node]
  <2>1. pool'[par] \in Node
    BY <1>13, <1>14, LinkRightFacts DEF Linked
  <2>2. \A n \in Addr : pool'[n] \in Node
    BY <1>1, <1>14, <1>15, <1>16, <2>1, FieldTypes
  <2> QED BY <1>14, <2>2
<1>19. /\ cover'[u] = KeyRange(cover[u].lo, sep)
       /\ cover'[w] = KeyRange(sep, cover[u].hi)
       /\ \A n \in Nodes \ {u} : cover'[n] = cover[n]
       /\ SplitCover(sep)
  <2>1. SplitCover(sep)
    BY <1>0 DEF SplitLeaf
  <2>2. cover \in [Addr -> [lo : 0..KeyMax, hi : 0..KeyMax]]
    BY <1>1 DEF TypeOK
  <2> QED BY <1>0, <1>1, <2>1, <2>2 DEF SplitCover, KeyRange
<1>20. Nodes' = Nodes \cup {w} /\ cur' = par /\ pc' = "overflow"
  BY <1>0, <1>1, SMTT(60) DEF SplitLeaf, Nodes, TypeOK
<1>21. SplitEffect(u, w, par, sep, rk)
  BY <1>1, <1>14, <1>15, <1>16, <1>17, <1>18, <1>19, <1>20 DEF SplitEffect, c
<1>22. LeafHalf(u)
  <2>1. \A i \in 1..Half : i \in 1..M
    BY HalfBounds
  <2>2. ASSUME NEW k \in Stored, InRange(k, cover'[u])
        PROVE  \E i \in 1..Half : ks[i] = k
    <3>1. k \in Int
      BY <1>1, ConstantsAssumption DEF Stored, TypeOK
    <3>2. cover[u].lo < k /\ k <= sep /\ InRange(k, cover[u])
      <4>1. sep < cover[u].hi
        BY <1>13 DEF SplitAt
      <4>2. cover[u].lo < k /\ k <= sep
        BY <1>19, <2>2 DEF InRange, KeyRange
      <4> QED BY <1>3, <1>12, <3>1, <4>1, <4>2 DEF InRange
    <3>3. PICK i \in 1..M : ks[i] = k
      BY <1>7, <3>2
    <3>4. ~ (Half < i)
      <4>1. Half < i => sep < ks[i]
        BY <1>5, <1>12, HalfBounds
      <4> QED BY <1>12, <3>1, <3>2, <3>3, <4>1
    <3> QED BY <3>3, <3>4, HalfBounds
  <2> QED BY <1>6, <1>8, <1>9, <1>15, <2>1, <2>2 DEF LeafHalf
<1>23. LeafHalf(w)
  <2>1. \A i \in 1..(M - Half) : Half + i \in 1..M
    BY HalfBounds
  <2>2. ASSUME NEW k \in Stored, InRange(k, cover'[w])
        PROVE  \E i \in 1..(M - Half) : ks[Half + i] = k
    <3>1. k \in Int
      BY <1>1, ConstantsAssumption DEF Stored, TypeOK
    <3>2. sep < k /\ InRange(k, cover[u])
      BY <1>3, <1>13, <1>12, <1>19, <2>2, <3>1 DEF InRange, KeyRange, SplitAt
    <3>3. PICK i \in 1..M : ks[i] = k
      BY <1>7, <3>2
    <3>4. ~ (i <= Half)
      <4>1. i < Half => ks[i] < sep
        BY <1>5, <1>12, HalfBounds
      <4> QED BY <1>3, <1>12, <3>1, <3>2, <3>3, <4>1, HalfBounds
    <3>5. i - Half \in 1..(M - Half) /\ Half + (i - Half) = i
      BY <3>4, HalfBounds
    <3> QED BY <3>3, <3>5
  <2>3. Len(pool'[w].child) = M - Half /\ Len(pool'[w].key) = M - Half
    BY <1>10, <1>11, <1>16
  <2>4. ASSUME NEW i \in 1..(M - Half)
        PROVE  /\ pool'[w].child[i] \in Nodes
               /\ Value(pool'[w].child[i])
               /\ pool[pool'[w].child[i]].val = pool'[w].key[i]
               /\ pool'[w].key[i] \in Stored
    BY <1>6, <1>10, <1>11, <1>16, <2>1
  <2>5. ASSUME NEW k \in Stored, InRange(k, cover'[w])
        PROVE  \E i \in 1..(M - Half) : pool'[w].key[i] = k
    BY <1>10, <1>16, <2>2, <2>5
  <2> QED BY <2>3, <2>4, <2>5 DEF LeafHalf
<1>24. HalfKeys(u, u)
  <2>1. ASSUME NEW i \in 1..Half
        PROVE  cover[u].lo < ks[i] /\ ks[i] <= sep
    <3>1. i \in 1..M /\ Half \in 1..M
      BY HalfBounds
    <3>2. CASE i = Half
      BY <1>3, <1>4, <1>12, <3>1, <3>2
    <3>3. CASE i < Half
      BY <1>3, <1>4, <1>5, <1>12, <3>1, <3>3, SMTT(60)
    <3> QED BY <3>2, <3>3, HalfBounds
  <2> QED BY <1>1, <1>8, <1>15, <1>19, <2>1, HalfBounds DEF HalfKeys, KeyRange, Inner, Leaf
<1>25. HalfKeys(u, w)
  <2>1. ASSUME NEW i \in 1..(M - Half)
        PROVE  sep < ks[Half + i] /\ ks[Half + i] <= cover[u].hi
    <3>1. Half + i \in 1..M /\ Half \in 1..M /\ Half < Half + i
      BY HalfBounds
    <3> QED BY <1>4, <1>5, <1>12, <3>1
  <2>2. M - Half < M
    BY HalfBounds
  <2> QED BY <1>1, <1>10, <1>16, <1>19, <2>1, <2>2 DEF HalfKeys, KeyRange, Inner, Leaf
<1>26. HalvesHoldAll(u, w)
  BY <1>1 DEF HalvesHoldAll, Shape, ParentShape, Inner, Leaf
<1>27. Halves(u, w)
  BY <1>1, <1>22, <1>23, <1>24, <1>25, <1>26 DEF Halves
<1>28. QED
  BY <1>1, <1>13, <1>19, <1>21, <1>27, SplitInv DEF SplitLeaf

\* The split of an inner node keeps the invariant.
LEMMA SplitInnerInv ==
  ASSUME IInv, SplitInner
  PROVE  IInv'
<1>0. PICK u, w, par, sep :
        u = cur /\ w = nb_node /\ par = pool[cur].parent /\ sep = pool[cur].key[Half + 1]
  OBVIOUS
<1> DEFINE c  == pool[u]
           ks == c.key
           cs == c.child
           h  == Half + 1
           moved == From(cs, h)
<1>1. /\ TypeOK /\ Shape /\ Nodes \subseteq Addr
      /\ u \in Nodes /\ u # Root /\ u \in Addr /\ ~Value(u) /\ ~Leaf(u) /\ Inner(u)
      /\ Len(ks) = M
      /\ w \in Addr /\ w \notin Nodes /\ w # Root /\ w # u
      /\ par \in Nodes /\ Inner(par) /\ par # u /\ par # w /\ par \in Addr
      /\ pool[par].parent # u
      /\ nb_node < MaxNodes /\ nb_node' = nb_node + 1
  <2>1. TypeOK /\ Shape /\ Nodes \subseteq Addr
    BY NodesAreAddresses DEF IInv
  <2>2. Splitting /\ nb_node < MaxNodes /\ nb_node' = nb_node + 1 /\ ~Leaf(u)
    BY <1>0 DEF SplitInner, Leaf
  <2>3. /\ u \in Nodes /\ u # Root /\ u \in Addr /\ ~Value(u)
        /\ Len(ks) = M
        /\ w \in Addr /\ w \notin Nodes /\ w # Root
        /\ par \in Nodes /\ Inner(par) /\ par # u
        /\ pool[par].parent # u
    BY <1>0, <2>2, SplitPlace
  <2>4. Inner(u)
    BY <2>2, <2>3 DEF Inner, Leaf, Value
  <2> QED BY <2>1, <2>2, <2>3, <2>4
<1>2. PICK q \in 1..Len(pool[par].child) : pool[par].child[q] = u
  BY <1>0, <1>1, SplitPlace DEF SplitInner
<1>3. /\ c \in Node /\ pool[par] \in Node
      /\ ks \in Seq(Keys) /\ ks \in Seq(Int) /\ cs \in Seq(Addr) /\ Len(cs) = M + 1
      /\ \A i \in 1..M : ks[i] \in Keys /\ ks[i] \in Int
      /\ cover[u].lo \in Int /\ cover[u].hi \in Int
  <2>1. Keys \subseteq Int
    BY ConstantsAssumption
  <2> QED BY <1>1, <2>1, FieldTypes DEF Shape, InnerShape
<1>4. /\ StrictlySorted(ks)
      /\ \A i \in 1..M : cover[u].lo < ks[i] /\ ks[i] < cover[u].hi
  BY <1>1 DEF Shape, KeysShape
<1>5. \A i, j \in 1..M : i < j => ks[i] < ks[j]
  BY <1>1, <1>3, <1>4, LenProperties DEF StrictlySorted
<1>6. \A i \in 1..(M + 1) :
        /\ cs[i] \in Nodes /\ cs[i] # Root /\ ~Value(cs[i]) /\ pool[cs[i]].parent = u
        /\ cs[i] # u /\ cs[i] # par /\ cs[i] # w /\ cs[i] \in Addr
        /\ cover[cs[i]].lo = IF i = 1 THEN cover[u].lo ELSE ks[i - 1]
        /\ cover[cs[i]].hi = IF i = M + 1 THEN cover[u].hi ELSE ks[i]
  <2> TAKE i \in 1..(M + 1)
  <2>1. i \in 1..Len(cs) /\ Len(ks) >= 1
    BY <1>1, <1>3, HalfBounds
  <2>2. /\ cs[i] \in Nodes /\ cs[i] # Root /\ ~Value(cs[i]) /\ pool[cs[i]].parent = u
        /\ cover[cs[i]].lo = SlotLo(u, i) /\ cover[cs[i]].hi = SlotHi(u, i)
    BY <1>1, <2>1, ChildFacts
  <2>3. cs[i] # u
    BY <1>1, <2>1, NotOwnChild
  <2> QED BY <1>1, <1>3, <2>2, <2>3 DEF SlotLo, SlotHi
<1>7. \A i, j \in 1..(M + 1) : i < j => cs[i] # cs[j]
  BY <1>1, <1>3, ChildrenApart
<1>8. /\ h \in 1..M /\ Half \in 1..M /\ h - 1 = Half /\ Half < h
      /\ h \in 0..(M + 1) /\ h \in 0..M /\ Half \in 0..M /\ M \in Nat
  BY HalfBounds
<1> HIDE DEF ks, cs, h
<1>9. /\ Keep(ks, Half) \in Seq(Keys) /\ Len(Keep(ks, Half)) = Half
      /\ \A i \in 1..Half : Keep(ks, Half)[i] = ks[i]
      /\ StrictlySorted(Keep(ks, Half))
  BY <1>1, <1>3, <1>4, <1>8, KeepProps, SortedParts, SMTT(60) DEF ks
<1>10. /\ Keep(cs, h) \in Seq(Addr) /\ Len(Keep(cs, h)) = h
       /\ \A i \in 1..h : Keep(cs, h)[i] = cs[i]
  BY <1>3, <1>8, KeepProps
<1>11. /\ From(ks, h) \in Seq(Keys) /\ Len(From(ks, h)) = M - h
       /\ \A i \in 1..(M - h) : From(ks, h)[i] = ks[h + i]
       /\ StrictlySorted(From(ks, h))
  <2>1. h \in 0..Len(ks) /\ Len(ks) = M
    BY <1>1, <1>8 DEF ks
  <2>2. /\ From(ks, h) \in Seq(Keys) /\ Len(From(ks, h)) = Len(ks) - h
        /\ \A i \in 1..(Len(ks) - h) : From(ks, h)[i] = ks[h + i]
    BY ONLY <1>3, <2>1, FromProps
  <2>3. StrictlySorted(From(ks, h))
    BY <1>3, <1>4, <2>1, SortedParts
  <2> QED BY <2>1, <2>2, <2>3
<1>12. /\ moved \in Seq(Addr) /\ Len(moved) = (M + 1) - h
       /\ \A i \in 1..((M + 1) - h) : moved[i] = cs[h + i]
  <2>1. h \in 0..Len(cs) /\ Len(cs) = M + 1 /\ cs \in Seq(Addr)
    BY <1>3, <1>8
  <2>2. /\ From(cs, h) \in Seq(Addr) /\ Len(From(cs, h)) = Len(cs) - h
        /\ \A i \in 1..(Len(cs) - h) : From(cs, h)[i] = cs[h + i]
    BY ONLY <2>1, FromProps
  <2> QED BY <2>1, <2>2
<1> HIDE DEF moved
<1>13. ToSet(moved) = {cs[j] : j \in (h + 1)..(M + 1)}
  <2>1. ToSet(moved) = {moved[i] : i \in 1..((M + 1) - h)}
    BY <1>12, LenProperties DEF ToSet
  <2>2. ASSUME NEW i \in 1..((M + 1) - h)
        PROVE  h + i \in (h + 1)..(M + 1) /\ moved[i] = cs[h + i]
    BY <1>8, <1>12
  <2>3. ASSUME NEW j \in (h + 1)..(M + 1)
        PROVE  \E i \in 1..((M + 1) - h) : moved[i] = cs[j]
    <3>1. j - h \in 1..((M + 1) - h) /\ h + (j - h) = j
      BY <1>8
    <3> QED BY <1>12, <3>1
  <2> QED BY <2>1, <2>2, <2>3
<1>14. sep = ks[h] /\ sep \in Keys /\ sep \in Int /\ cover[u].lo < sep /\ sep < cover[u].hi
  BY <1>0, <1>3, <1>4, <1>8 DEF ks, h
<1>15. SplitAt(u, w, par, q, sep, sep)
  <2>1. sep <= sep /\ sep <= cover[u].hi
    BY <1>3, <1>14
  <2> QED BY <1>0, <1>1, <1>2, <1>14, <2>1 DEF SplitAt, ks
<1>16. /\ pool'[u] = [c EXCEPT !.key = Keep(ks, Half), !.child = Keep(cs, h)]
       /\ pool'[w] = [FreshNode EXCEPT !.isLeaf = FALSE, !.parent = par,
                                       !.key = From(ks, h), !.child = moved]
       /\ pool'[par] = LinkRight(pool[par], sep, sep)
       /\ \A n \in Addr : n # u /\ n # w /\ n # par =>
            pool'[n] = IF n \in ToSet(moved) THEN [pool[n] EXCEPT !.parent = w] ELSE pool[n]
       /\ DOMAIN pool' = Addr
       /\ pool' = [n \in Addr |-> pool'[n]]
  <2>1. pool' = [n \in Addr |->
              CASE n = w -> [FreshNode EXCEPT !.isLeaf = FALSE, !.parent = par,
                                              !.key = From(ks, h), !.child = moved]
                [] n = u -> [c EXCEPT !.key = Keep(ks, Half), !.child = Keep(cs, h)]
                [] n = par -> LinkRight(pool[n], sep, sep)
                [] n \in ToSet(moved) -> [pool[n] EXCEPT !.parent = w]
                [] OTHER -> pool[n]]
    BY <1>0, <1>1, <1>3 DEF SplitInner, ks, cs, h, moved
  <2> HIDE DEF c
  <2> DEFINE a == [FreshNode EXCEPT !.isLeaf = FALSE, !.parent = par,
                                    !.key = From(ks, h), !.child = moved]
             b == [c EXCEPT !.key = Keep(ks, Half), !.child = Keep(cs, h)]
  <2>2. pool' = [n \in Addr |->
              CASE n = w -> a
                [] n = u -> b
                [] n = par -> LinkRight(pool[n], sep, sep)
                [] n \in ToSet(moved) -> [pool[n] EXCEPT !.parent = w]
                [] OTHER -> pool[n]]
    BY <2>1
  <2> HIDE DEF a, b
  <2>3. /\ u \in Addr /\ w \in Addr /\ par \in Addr
        /\ w # u /\ par # u /\ par # w
        /\ u \notin ToSet(moved) /\ w \notin ToSet(moved) /\ par \notin ToSet(moved)
    BY <1>1, <1>6, <1>8, <1>13
  <2>4. pool'[u] = b /\ pool'[w] = a
    BY <2>2, <2>3
  <2>5. pool'[par] = LinkRight(pool[par], sep, sep)
    BY <2>2, <2>3
  <2>6. \A n \in Addr : n # u /\ n # w /\ n # par =>
          pool'[n] = IF n \in ToSet(moved) THEN [pool[n] EXCEPT !.parent = w] ELSE pool[n]
    BY <2>2
  <2>7. DOMAIN pool' = Addr /\ pool' = [n \in Addr |-> pool'[n]]
    BY <2>2
  <2> QED BY <2>3, <2>4, <2>5, <2>6, <2>7 DEF a, b
<1>17. /\ pool'[u].isLeaf = c.isLeaf /\ pool'[u].isValue = c.isValue
       /\ pool'[u].parent = c.parent
       /\ pool'[u].key = Keep(ks, Half) /\ pool'[u].child = Keep(cs, h)
       /\ pool'[u] \in Node
  <2> HIDE DEF c
  <2> QED BY <1>3, <1>9, <1>10, <1>16 DEF Node
<1>18. /\ pool'[w].isLeaf = FALSE /\ pool'[w].isValue = FALSE
       /\ pool'[w].parent = par
       /\ pool'[w].key = From(ks, h) /\ pool'[w].child = moved
       /\ pool'[w] \in Node
  BY <1>1, <1>11, <1>12, <1>16 DEF FreshNode, Node
<1>19. c.isLeaf = FALSE /\ c.isValue = FALSE /\ c.parent = par
  BY <1>0, <1>1, FieldTypes DEF Leaf, Value
<1> HIDE DEF c
<1>20. ASSUME NEW n \in Addr, n # u, n # w, n # par
       PROVE  /\ pool'[n] \in Node
              /\ pool'[n].isLeaf = pool[n].isLeaf /\ pool'[n].isValue = pool[n].isValue
              /\ pool'[n].key = pool[n].key /\ pool'[n].child = pool[n].child
              /\ pool'[n].val = pool[n].val
              /\ pool'[n].parent = IF n \in ToSet(moved) THEN w ELSE pool[n].parent
  <2>1. pool[n] \in Node
    BY <1>1, FieldTypes
  <2>2. CASE n \in ToSet(moved)
    <3>1. pool'[n] = [pool[n] EXCEPT !.parent = w]
      BY <1>16, <1>20, <2>2
    <3> QED BY <1>1, <2>1, <2>2, <3>1 DEF Node
  <2>3. CASE n \notin ToSet(moved)
    BY <1>16, <1>20, <2>1, <2>3
  <2> QED BY <2>2, <2>3
<1>21. pool' \in [Addr -> Node]
  <2>1. pool'[par] \in Node
    BY <1>15, <1>16, LinkRightFacts DEF Linked
  <2>2. \A n \in Addr : pool'[n] \in Node
    BY <1>17, <1>18, <1>20, <2>1
  <2> QED BY <1>16, <2>2
<1>22. /\ cover'[u] = KeyRange(cover[u].lo, sep)
       /\ cover'[w] = KeyRange(sep, cover[u].hi)
       /\ \A n \in Nodes \ {u} : cover'[n] = cover[n]
       /\ SplitCover(sep)
  <2>1. SplitCover(sep)
    BY <1>0 DEF SplitInner
  <2>2. cover \in [Addr -> [lo : 0..KeyMax, hi : 0..KeyMax]]
    BY <1>1 DEF TypeOK
  <2> QED BY <1>0, <1>1, <2>1, <2>2 DEF SplitCover, KeyRange
<1>23. Nodes' = Nodes \cup {w} /\ cur' = par /\ pc' = "overflow"
  BY <1>0, <1>1, SMTT(60) DEF SplitInner, Nodes, TypeOK
<1>24. SplitEffect(u, w, par, sep, sep)
  <2>1. \A n \in ToSet(moved) : pool[n].parent = u
    BY <1>6, <1>8, <1>13
  <2>2. \A n \in Nodes \ {u, par} :
          /\ pool'[n].isLeaf = pool[n].isLeaf /\ pool'[n].isValue = pool[n].isValue
          /\ pool'[n].key = pool[n].key /\ pool'[n].child = pool[n].child
          /\ pool'[n].val = pool[n].val
          /\ pool[n].parent # u => pool'[n].parent = pool[n].parent
    BY <1>1, <1>20, <2>1
  <2> QED BY <1>1, <1>16, <1>17, <1>18, <1>19, <1>21, <1>22, <1>23, <2>2 DEF SplitEffect, c
<1>25. InnerHalf(u)
  <2>1. ASSUME NEW i \in 1..h
        PROVE  /\ cs[i] \in Nodes \ {Root}
               /\ pool'[cs[i]].isValue = FALSE
               /\ pool'[cs[i]].parent = u
               /\ cover'[cs[i]].lo = IF i = 1 THEN cover[u].lo ELSE ks[i - 1]
               /\ cover'[cs[i]].hi = IF i = h THEN sep ELSE ks[i]
    <3>1. i \in 1..(M + 1) /\ i # M + 1
      BY <1>8
    <3>2. cs[i] \notin ToSet(moved)
      BY <1>7, <1>8, <1>13
    <3>3. pool'[cs[i]].parent = u
      BY <1>6, <1>20, <3>1, <3>2
    <3>4. pool'[cs[i]].isValue = FALSE
      <4>1. pool[cs[i]].isValue = FALSE
        BY <1>1, <1>6, <3>1, FieldTypes DEF Value
      <4> QED BY <1>6, <1>20, <3>1, <4>1
    <3>5. cover'[cs[i]] = cover[cs[i]]
      BY <1>6, <1>22, <3>1
    <3> QED BY <1>6, <1>14, <3>1, <3>3, <3>4, <3>5
  <2>2. /\ Len(pool'[u].child) = h /\ Len(pool'[u].key) = Half
        /\ cover'[u].lo = cover[u].lo /\ cover'[u].hi = sep
    BY <1>9, <1>10, <1>17, <1>22 DEF KeyRange
  <2>3. ASSUME NEW i \in 1..h
        PROVE  /\ pool'[u].child[i] = cs[i]
               /\ i # 1 => pool'[u].key[i - 1] = ks[i - 1]
               /\ i # h => pool'[u].key[i] = ks[i]
    <3>1. (i # 1 => i - 1 \in 1..Half) /\ (i # h => i \in 1..Half)
      BY <1>8
    <3> QED BY <1>9, <1>10, <1>17, <3>1
  <2>4. h = Half + 1
    BY DEF h
  <2>5. ASSUME NEW i \in 1..h
        PROVE  /\ pool'[u].child[i] \in Nodes \ {Root}
               /\ pool'[pool'[u].child[i]].isValue = FALSE
               /\ pool'[pool'[u].child[i]].parent = u
               /\ cover'[pool'[u].child[i]].lo =
                    IF i = 1 THEN cover'[u].lo ELSE pool'[u].key[i - 1]
               /\ cover'[pool'[u].child[i]].hi =
                    IF i = h THEN cover'[u].hi ELSE pool'[u].key[i]
    <3>1. pool'[u].child[i] = cs[i]
      BY <2>3
    <3>2. cover'[cs[i]].lo = IF i = 1 THEN cover'[u].lo ELSE pool'[u].key[i - 1]
      BY <2>1, <2>2, <2>3, ZenonT(60)
    <3>3. cover'[cs[i]].hi = IF i = h THEN cover'[u].hi ELSE pool'[u].key[i]
      BY <2>1, <2>2, <2>3, ZenonT(60)
    <3> QED BY <2>1, <3>1, <3>2, <3>3
  <2> QED BY <2>2, <2>4, <2>5, ZenonT(60) DEF InnerHalf
<1>26. InnerHalf(w)
  <2> DEFINE m == (M + 1) - h
  <2>1. ASSUME NEW i \in 1..m
        PROVE  /\ moved[i] \in Nodes \ {Root}
               /\ pool'[moved[i]].isValue = FALSE
               /\ pool'[moved[i]].parent = w
               /\ cover'[moved[i]].lo = IF i = 1 THEN sep ELSE ks[h + (i - 1)]
               /\ cover'[moved[i]].hi = IF i = m THEN cover[u].hi ELSE ks[h + i]
    <3>1. h + i \in 1..(M + 1) /\ h + i \in (h + 1)..(M + 1) /\ h + i # 1
          /\ (h + i) - 1 = h + (i - 1) /\ (i = 1 => h + (i - 1) = h)
          /\ (i = m <=> h + i = M + 1)
      BY <1>8
    <3>2. moved[i] = cs[h + i]
      BY <1>12
    <3>3. cs[h + i] \in ToSet(moved)
      BY <1>13, <3>1
    <3>4. pool'[cs[h + i]].parent = w
      BY <1>6, <1>20, <3>1, <3>3
    <3>5. pool'[cs[h + i]].isValue = FALSE
      <4>1. pool[cs[h + i]].isValue = FALSE
        BY <1>1, <1>6, <3>1, FieldTypes DEF Value
      <4> QED BY <1>6, <1>20, <3>1, <4>1
    <3>6. cover'[cs[h + i]] = cover[cs[h + i]]
      BY <1>6, <1>22, <3>1
    <3>7. cover[cs[h + i]].lo = IF i = 1 THEN sep ELSE ks[h + (i - 1)]
      BY <1>6, <1>14, <3>1
    <3>8. cover[cs[h + i]].hi = IF i = m THEN cover[u].hi ELSE ks[h + i]
      BY <1>6, <3>1
    <3>9. cs[h + i] \in Nodes \ {Root}
      BY <1>6, <3>1
    <3> QED BY <3>2, <3>4, <3>5, <3>6, <3>7, <3>8, <3>9
  <2>2. /\ Len(pool'[w].child) = m /\ Len(pool'[w].key) = M - h /\ m = (M - h) + 1
        /\ cover'[w].lo = sep /\ cover'[w].hi = cover[u].hi
        /\ pool'[w].child = moved
    BY <1>8, <1>11, <1>12, <1>18, <1>22 DEF KeyRange
  <2>3. ASSUME NEW i \in 1..m
        PROVE  /\ i # 1 => pool'[w].key[i - 1] = ks[h + (i - 1)]
               /\ i # m => pool'[w].key[i] = ks[h + i]
    <3>1. (i # 1 => i - 1 \in 1..(M - h)) /\ (i # m => i \in 1..(M - h))
      BY <1>8
    <3> QED BY <1>11, <1>18, <3>1
  <2>4. ASSUME NEW i \in 1..m
        PROVE  /\ cover'[moved[i]].lo =
                    IF i = 1 THEN cover'[w].lo ELSE pool'[w].key[i - 1]
               /\ cover'[moved[i]].hi =
                    IF i = m THEN cover'[w].hi ELSE pool'[w].key[i]
    <3> HIDE DEF m
    <3>1. cover'[moved[i]].lo = IF i = 1 THEN cover'[w].lo ELSE pool'[w].key[i - 1]
      BY <2>1, <2>2, <2>3, ZenonT(60)
    <3>2. cover'[moved[i]].hi = IF i = m THEN cover'[w].hi ELSE pool'[w].key[i]
      BY <2>1, <2>2, <2>3, ZenonT(60)
    <3> QED BY <3>1, <3>2
  <2> HIDE DEF m
  <2> QED BY <2>1, <2>2, <2>4, ZenonT(60) DEF InnerHalf
<1>27. HalfKeys(u, u)
  <2>1. ASSUME NEW i \in 1..Half
        PROVE  cover[u].lo < ks[i] /\ ks[i] < sep /\ ks[i] <= sep
    <3>1. i \in 1..M /\ i < h
      BY <1>8
    <3>2. ks[i] < sep
      BY <1>5, <1>8, <1>14, <3>1
    <3> QED BY <1>3, <1>4, <1>14, <3>1, <3>2
  <2> QED BY <1>9, <1>17, <1>22, <2>1, HalfBounds DEF HalfKeys, KeyRange
<1>28. HalfKeys(u, w)
  <2>1. ASSUME NEW i \in 1..(M - h)
        PROVE  /\ sep < ks[h + i] /\ ks[h + i] < cover[u].hi
               /\ ks[h + i] <= cover[u].hi
    <3>1. h + i \in 1..M /\ h < h + i
      BY <1>8
    <3>2. ks[h] < ks[h + i]
      BY <1>5, <1>8, <3>1
    <3>3. ks[h + i] < cover[u].hi /\ ks[h + i] \in Int
      BY <1>3, <1>4, <3>1
    <3> QED BY <1>3, <1>14, <3>2, <3>3
  <2>2. M - h < M
    BY <1>8
  <2> QED BY <1>11, <1>18, <1>22, <2>1, <2>2 DEF HalfKeys, KeyRange
<1>29. HalvesHoldAll(u, w)
  <2> SUFFICES ASSUME NEW n \in Nodes \ {Root}, ~Value(n), pool[n].parent = u
               PROVE  \E x \in {u, w} :
                        /\ pool'[n].parent = x
                        /\ \E i \in 1..Len(pool'[x].child) : pool'[x].child[i] = n
    BY DEF HalvesHoldAll
  <2>1. \E j \in 1..Len(pool[u].child) : pool[u].child[j] = n
    BY <1>1 DEF Shape, ParentShape
  <2>2. PICK j \in 1..(M + 1) : cs[j] = n
    BY <1>3, <2>1 DEF cs, c
  <2>3. CASE j <= h
    <3>1. j \in 1..h
      BY <1>8, <2>3
    <3>2. pool'[u].child[j] = n /\ Len(pool'[u].child) = h
      BY <1>10, <1>17, <2>2, <3>1
    <3>3. pool'[n].parent = u
      BY <1>25, <3>1, <3>2 DEF InnerHalf
    <3> QED BY <3>1, <3>2, <3>3
  <2>4. CASE j > h
    <3>1. j - h \in 1..((M + 1) - h) /\ h + (j - h) = j
      BY <1>8, <2>4
    <3>2. pool'[w].child[j - h] = n /\ Len(pool'[w].child) = (M + 1) - h
      BY <1>12, <1>18, <2>2, <3>1
    <3>3. pool'[n].parent = w
      BY <1>26, <3>1, <3>2 DEF InnerHalf
    <3> QED BY <3>1, <3>2, <3>3
  <2> QED BY <1>8, <2>3, <2>4
<1>30. Halves(u, w)
  BY <1>1, <1>25, <1>26, <1>27, <1>28, <1>29 DEF Halves
<1>31. QED
  BY <1>1, <1>15, <1>22, <1>24, <1>30, SplitInv DEF SplitInner

-----------------------------------------------------------------------------
\* A step that changes nothing keeps the invariant.
LEMMA StutterInv ==
  ASSUME IInv, UNCHANGED vars
  PROVE  IInv'
<1>1. SameTree /\ Nodes' = Nodes
  BY SameTreeUnchanged DEF vars, treeVars
<1>2. TypeOK'
  BY DEF IInv, TypeOK, vars, treeVars, loadVars
<1>3. Stored' = Stored
  BY DEF Stored, vars, treeVars
<1>4. Shape' /\ LeavesComplete'
  BY <1>1, <1>3, ShapeFrame, CompleteFrame DEF IInv
<1>5. Fill'
  BY <1>1 DEF IInv, Fill, Value, vars, treeVars
<1>6. Backend'
  BY <1>1 DEF IInv, Backend, Value, vars, treeVars
<1>7. Load'
  BY <1>1 DEF IInv, Load, vars, loadVars
<1>8. QED
  BY <1>2, <1>4, <1>5, <1>6, <1>7 DEF IInv

(* Every step of the backend keeps the invariant: one case per action.     *)
LEMMA StepInv ==
  ASSUME IInv, [Next]_vars
  PROVE  IInv'
<1>1. CASE \E k \in Keys : InsertBegin(k)
  BY <1>1, InsertBeginInv
<1>2. CASE Descend
  BY <1>2, DescendInv
<1>3. CASE LeafInsert
  BY <1>3, LeafInsertInv
<1>4. CASE OverflowDone
  BY <1>4, OverflowDoneInv
<1>5. CASE OverflowCopy
  BY <1>5, OverflowCopyInv
<1>6. CASE SplitLeaf
  BY <1>6, SplitLeafInv
<1>7. CASE SplitInner
  BY <1>7, SplitInnerInv
<1>8. CASE LoadBegin
  BY <1>8, LoadBeginInv
<1>9. CASE \E n \in Addr : Expand(n)
  BY <1>9, ExpandInv
<1>10. CASE PrintRoot
  BY <1>10, PrintRootInv
<1>11. CASE PrintLayer
  BY <1>11, PrintLayerInv
<1>12. CASE UNCHANGED vars
  BY <1>12, StutterInv
<1>13. QED
  BY <1>1, <1>2, <1>3, <1>4, <1>5, <1>6, <1>7, <1>8, <1>9, <1>10, <1>11, <1>12
  DEF Next, InsertStep, LoadStep

(* The tree stays well formed, whatever keys are inserted in whatever      *)
(* order and whenever the switch is loaded (insert(), overflow(),          *)
(* load2switch_greedy()).                                                  *)
THEOREM Invariance == Spec => []IInv
<1>1. IInv /\ [Next]_vars => IInv'
  BY StepInv
<1>2. QED
  BY InitInv, <1>1, PTL DEF Spec

(* The backend's state keeps its types.                                    *)
THEOREM TypeCorrect == Spec => []TypeOK
<1>1. IInv => TypeOK
  BY DEF IInv
<1>2. QED
  BY Invariance, <1>1, PTL

(* A search never leaves the nodes responsible for its key, not even while *)
(* an insert is between two of its writes (lookup()'s loop, and            *)
(* BPlusTreeDB::RDMARead()'s, which starts from a node of the switch).     *)
THEOREM SearchesStayOnCourse == Spec => []Routing
  BY Invariance, HopStays, PTL

-----------------------------------------------------------------------------
(* No step takes a key away from a loaded node, nor gives it one.          *)
LEMMA LoadedStep ==
  ASSUME IInv, Next, NEW n \in Nodes, pool[n].isLoaded2Switch, ~Value(n)
  PROVE  cover'[n] = cover[n] /\ pool'[n].isLoaded2Switch
<1>1. /\ TypeOK /\ n \in Addr /\ pool[n] \in Node /\ n # nb_node
      /\ cur \in Addr /\ cur # nb_node /\ nb_node \in Nat
  <2>1. TypeOK /\ n \in Addr /\ cur \in Nodes /\ cur \in Addr /\ nb_node \in Nat
    BY NodesAreAddresses DEF IInv, Backend, TypeOK
  <2>2. n # nb_node /\ cur # nb_node
    BY <2>1 DEF Nodes
  <2> QED BY <2>1, <2>2, FieldTypes
<1>2. CASE UNCHANGED <<pool, cover>>
  BY <1>2
<1>3. CASE LeafInsert
  <2>1. cover' = cover
    BY <1>3 DEF LeafInsert
  <2>2. nb_node \in Addr
    BY <1>1, <1>3, ConstantsAssumption DEF LeafInsert, Addr
  <2>3. pool'[n].isLoaded2Switch = pool[n].isLoaded2Switch
    <3>1. CASE n # cur
      BY <1>1, <1>3, <2>2, <3>1 DEF LeafInsert, TypeOK
    <3>2. CASE n = cur
      <4>1. PICK ks, cs : pool'[n] = [pool[n] EXCEPT !.key = ks, !.child = cs]
        BY <1>1, <1>3, <2>2, <3>2 DEF LeafInsert, TypeOK
      <4> QED BY <1>1, <4>1 DEF Node
    <3> QED BY <3>1, <3>2
  <2> QED BY <2>1, <2>3
<1>4. CASE OverflowCopy
  <2>1. cover'[n] = cover[n]
    BY <1>1, <1>4 DEF OverflowCopy, TypeOK
  <2>2. CASE n = cur
    <3>1. PICK w : pool'[n] = [pool[n] EXCEPT !.isLeaf = FALSE, !.key = <<>>,
                                              !.val = NoKey, !.child = <<w>>]
      <4>1. n \notin ToSet(pool[cur].child)
        <5>1. ~Value(cur) /\ cur \in Nodes /\ Shape
          BY DEF IInv, Backend
        <5>2. Len(pool[cur].key) >= 1
          BY <1>1, <1>4, FieldTypes, ConstantsAssumption DEF OverflowCopy
        <5>3. \A i \in 1..Len(pool[cur].child) : pool[cur].child[i] # cur
          BY <1>1, <5>1, <5>2, NotOwnChild
        <5> QED BY <1>1, <2>2, <5>3, FieldTypes, LenProperties DEF ToSet
      <4> QED BY <1>1, <1>4, <2>2, <4>1 DEF OverflowCopy
    <3> QED BY <1>1, <2>1, <3>1 DEF Node
  <2>3. CASE n # cur
    <3>1. \/ pool'[n] = pool[n]
          \/ \E w : pool'[n] = [pool[n] EXCEPT !.parent = w]
      BY <1>1, <1>4, <2>3 DEF OverflowCopy
    <3> QED BY <1>1, <2>1, <3>1 DEF Node
  <2> QED BY <2>2, <2>3
<1>5. CASE SplitLeaf \/ SplitInner
  <2>1. Splitting /\ nb_node < MaxNodes
    BY <1>5 DEF SplitLeaf, SplitInner
  <2>2. n # cur
    BY <2>1 DEF Splitting, Unmodifiable, IInv, Backend
  <2>3. cover'[n] = cover[n]
    BY <1>1, <1>5, <2>2 DEF SplitLeaf, SplitInner, SplitCover, TypeOK
  <2>4. pool[cur].parent \in Addr /\ pool[cur].parent # nb_node /\ pool[cur].parent # cur
    BY <1>1, <2>1, SplitPlace, NodesAreAddresses
  <2>5. nb_node \in Addr
    BY <2>1, SplitPlace
  <2>6. ASSUME n = pool[cur].parent
        PROVE  \E k, s : pool'[n] = LinkRight(pool[n], k, s)
    <3>1. CASE SplitLeaf
      BY <1>1, <2>2, <2>4, <2>5, <2>6, <3>1 DEF SplitLeaf, TypeOK
    <3>2. CASE SplitInner
      <4>1. n \notin ToSet(From(pool[cur].child, Half + 1))
        <5>1. Inner(cur) /\ pool[n].parent # cur /\ cur \in Nodes /\ ~Value(cur) /\ Shape
              /\ Len(pool[cur].key) = M
          BY <2>1, <2>6, <3>2, SplitPlace DEF SplitInner, Inner, Value, IInv
        <5>2. \A i \in 1..Len(pool[cur].child) : pool[cur].child[i] # n
          BY <1>1, <5>1, ChildFacts DEF Inner, Leaf
        <5>3. /\ pool[cur].child \in Seq(Addr) /\ Half + 1 \in 0..Len(pool[cur].child)
              /\ Len(pool[cur].child) \in Nat
          BY <1>1, <5>1, HalfBounds, FieldTypes DEF Shape, InnerShape
        <5> DEFINE cs == pool[cur].child
                   h  == Half + 1
        <5>4. /\ From(cs, h) \in Seq(Addr) /\ Len(From(cs, h)) = Len(cs) - h
              /\ \A i \in 1..(Len(cs) - h) : From(cs, h)[i] = cs[h + i]
          <6> HIDE DEF cs, h
          <6>1. cs \in Seq(Addr) /\ h \in 0..Len(cs)
            BY <5>3 DEF cs, h
          <6> QED BY ONLY <6>1, FromProps
        <5>5. \A i \in 1..(Len(cs) - h) : h + i \in 1..Len(cs)
          BY <5>3
        <5> HIDE DEF h
        <5>6. \A i \in 1..Len(From(cs, h)) : From(cs, h)[i] # n
          BY <5>2, <5>4, <5>5
        <5>7. DOMAIN From(cs, h) = 1..Len(From(cs, h))
          BY <5>4, LenProperties
        <5> QED BY <5>6, <5>7 DEF ToSet, h
      <4> QED BY <1>1, <2>2, <2>6, <3>2, <4>1 DEF SplitInner
    <3> QED BY <1>5, <3>1, <3>2
  <2>7. ASSUME n # pool[cur].parent
        PROVE  \/ pool'[n] = pool[n]
               \/ \E w : pool'[n] = [pool[n] EXCEPT !.parent = w]
    <3>1. CASE SplitLeaf
      BY <1>1, <2>2, <2>4, <2>5, <2>7, <3>1 DEF SplitLeaf, TypeOK
    <3>2. CASE SplitInner
      BY <1>1, <2>2, <2>7, <3>2 DEF SplitInner
    <3> QED BY <1>5, <3>1, <3>2
  <2>8. pool'[n].isLoaded2Switch
    <3>1. CASE n = pool[cur].parent
      <4>1. PICK k, s : pool'[n] = LinkRight(pool[n], k, s)
        BY <2>6, <3>1
      <4> QED BY <1>1, <4>1 DEF LinkRight, Node
    <3>2. CASE n # pool[cur].parent
      BY <1>1, <2>7, <3>2 DEF Node
    <3> QED BY <3>1, <3>2
  <2> QED BY <2>3, <2>8
<1>6. CASE PrintRoot \/ PrintLayer
  <2>1. \E S : pool' = MarkLoaded(S)
    BY <1>6 DEF PrintRoot, PrintLayer
  <2>2. PICK S : pool' = MarkLoaded(S)
    BY <2>1
  <2>3. pool'[n] = [pool[n] EXCEPT !.isLoaded2Switch = @ \/ n \in S]
    BY <1>1, <2>2 DEF MarkLoaded
  <2>4. cover' = cover
    BY <1>6 DEF PrintRoot, PrintLayer
  <2> QED BY <1>1, <2>3, <2>4 DEF Node
<1>7. \/ UNCHANGED <<pool, cover>> \/ LeafInsert \/ OverflowCopy
      \/ SplitLeaf \/ SplitInner \/ PrintRoot \/ PrintLayer
  BY DEF Next, InsertStep, LoadStep, InsertBegin, Descend, OverflowDone, LoadBegin, Expand, treeVars
<1>8. QED
  BY <1>2, <1>3, <1>4, <1>5, <1>6, <1>7

(* What the switch was told about an address stays true: the keys a loaded *)
(* node is responsible for never change (overflow()'s copy_node).          *)
THEOREM LoadedNodesKeepTheirKeys == Spec => LoadedCoverFixed
<1>1. IInv /\ [Next]_vars =>
        [\A n \in Nodes : pool[n].isLoaded2Switch /\ ~Value(n) =>
           cover'[n] = cover[n] /\ pool'[n].isLoaded2Switch]_vars
  BY LoadedStep
<1>2. QED
  BY Invariance, <1>1, PTL DEF Spec, LoadedCoverFixed

-----------------------------------------------------------------------------
(***************************************************************************)
(* No node overfills, and no split or copy leaves a leaf less than half full. *)
(***************************************************************************)
(* Only the root may be a leaf with few keys: a leaf is made by a split or *)
(* a copy, and nothing ever takes keys out of one but a split.             *)
HalfFull == \A n \in Nodes : Leaf(n) /\ n # Root => Len(pool[n].key) >= Half

\* A step whose new leaves are full enough and whose others are old ones.
LEMMA HalfFullFrame ==
  ASSUME HalfFull,
         \A n \in Nodes' : Leaf(n)' /\ n # Root =>
           \/ Len(pool'[n].key) >= Half
           \/ n \in Nodes /\ Leaf(n) /\ pool'[n].key = pool[n].key
  PROVE  HalfFull'
  BY DEF HalfFull, Leaf

\* The pool starts with one leaf, the root.
LEMMA InitHalfFull == Init => HalfFull
  BY ConstantsAssumption DEF Init, HalfFull, Nodes, Root

\* insert() adds to a leaf; a value node is none.
LEMMA LeafInsertHalfFull ==
  ASSUME IInv, HalfFull, LeafInsert
  PROVE  HalfFull'
<1>0. PICK u, v, ks, cs :
        /\ u = cur /\ v = nb_node
        /\ ks = Insert(pool[cur].key, LowerBound(pool[cur].key, in_key), in_key)
        /\ cs = Insert(pool[cur].child, LowerBound(pool[cur].key, in_key), nb_node)
  OBVIOUS
<1>1. /\ TypeOK /\ u \in Nodes /\ u \in Addr /\ Leaf(u) /\ Nodes \subseteq Addr
      /\ v \in Addr /\ v \notin Nodes /\ v # u /\ Nodes' = Nodes \cup {v}
      /\ Half \in Nat /\ Len(pool[u].key) \in Nat /\ pool[u] \in Node
  <2>1. TypeOK /\ u \in Nodes /\ u \in Addr /\ Leaf(u) /\ Nodes \subseteq Addr
    BY <1>0, NodesAreAddresses DEF IInv, Backend, LeafInsert, Leaf
  <2>2. v \in Nat /\ v >= 1 /\ v < MaxNodes /\ nb_node' = v + 1
    BY <1>0, <2>1 DEF TypeOK, LeafInsert
  <2>3. v \in Addr /\ v \notin Nodes /\ Nodes' = Nodes \cup {v}
    BY <1>0, <2>2, ConstantsAssumption DEF Addr, Nodes
  <2> QED BY <2>1, <2>3, HalfBounds, FieldTypes
<1>2. Len(ks) = Len(pool[u].key) + 1
  BY <1>0, LeafArrays
<1>3. /\ pool'[v] = [FreshNode EXCEPT !.isLeaf = FALSE, !.isValue = TRUE,
                                      !.parent = u, !.val = in_key]
      /\ pool'[u] = [pool[u] EXCEPT !.key = ks, !.child = cs]
      /\ \A n \in Addr : n # u /\ n # v => pool'[n] = pool[n]
  BY <1>0, <1>1 DEF LeafInsert, TypeOK
<1>4. pool'[v].isLeaf = FALSE /\ pool'[u].key = ks
  BY <1>1, <1>3 DEF FreshNode, Node
<1>5. ASSUME NEW n \in Nodes', Leaf(n)', n # Root
      PROVE  \/ Len(pool'[n].key) >= Half
             \/ n \in Nodes /\ Leaf(n) /\ pool'[n].key = pool[n].key
  <2>1. n # v
    BY <1>4, <1>5 DEF Leaf
  <2>2. CASE n = u
    <3>1. Len(pool[u].key) >= Half
      BY <1>1, <1>5, <2>2 DEF HalfFull
    <3> QED BY <1>1, <1>2, <1>4, <2>2, <3>1
  <2>3. CASE n # u
    BY <1>1, <1>3, <1>5, <2>1, <2>3 DEF Leaf
  <2> QED BY <2>2, <2>3
<1>6. QED
  BY <1>5, HalfFullFrame

\* copy_node is as full as the node it replaces; that one becomes inner.
LEMMA CopyHalfFull ==
  ASSUME IInv, HalfFull, OverflowCopy
  PROVE  HalfFull'
<1>0. PICK u, w : u = cur /\ w = nb_node
  OBVIOUS
<1>1. /\ TypeOK /\ u \in Nodes /\ u \in Addr /\ Nodes \subseteq Addr /\ pool[u] \in Node
      /\ w \in Addr /\ w \notin Nodes /\ w # u /\ Nodes' = Nodes \cup {w}
      /\ Len(pool[u].key) >= Half
  <2>1. TypeOK /\ u \in Nodes /\ u \in Addr /\ Nodes \subseteq Addr
    BY <1>0, NodesAreAddresses DEF IInv, Backend
  <2>2. w \in Nat /\ w >= 1 /\ w < MaxNodes /\ nb_node' = w + 1
    BY <1>0, <2>1 DEF TypeOK, OverflowCopy
  <2>3. w \in Addr /\ w \notin Nodes /\ Nodes' = Nodes \cup {w}
    BY <1>0, <2>2, ConstantsAssumption DEF Addr, Nodes
  <2>4. Len(pool[u].key) \in Nat /\ Len(pool[u].key) >= M
    BY <1>0, <2>1, FieldTypes DEF OverflowCopy
  <2> QED BY <2>1, <2>3, <2>4, HalfBounds, FieldTypes
<1> DEFINE kids == ToSet(pool[u].child)
           copy == [pool[u] EXCEPT !.parent = u, !.isLoaded2Switch = FALSE]
           top  == [pool[u] EXCEPT !.isLeaf = FALSE, !.key = <<>>, !.val = NoKey,
                                   !.child = <<w>>]
           kid  == [n \in Addr |-> [pool[n] EXCEPT !.parent = w]]
<1>2. w \notin kids /\ u \in Addr /\ w \in Addr /\ w # u
  BY <1>0, <1>1, ChildBoundsTypes DEF IInv, Backend
<1>3. pool' = [n \in Addr |-> CASE n = w -> copy [] n = u -> top
                                [] n \in kids -> kid[n] [] OTHER -> pool[n]]
  BY <1>0 DEF OverflowCopy
<1>4. copy.key = pool[u].key /\ top.isLeaf = FALSE
  BY <1>1 DEF Node
<1>5. \A n \in Addr : kid[n].isLeaf = pool[n].isLeaf /\ kid[n].key = pool[n].key
  BY <1>1, FieldTypes DEF Node
<1> HIDE DEF kids, copy, top, kid
<1>6. /\ pool'[w] = copy
      /\ pool'[u] = top \/ pool'[u] = kid[u]
      /\ \A n \in Addr : n # w /\ n # u => pool'[n] = pool[n] \/ pool'[n] = kid[n]
  BY ONLY <1>2, <1>3
<1>7. ASSUME NEW n \in Nodes', Leaf(n)', n # Root
      PROVE  \/ Len(pool'[n].key) >= Half
             \/ n \in Nodes /\ Leaf(n) /\ pool'[n].key = pool[n].key
  <2>1. CASE n = w
    BY <1>1, <1>4, <1>6, <2>1
  <2>2. CASE n = u
    BY <1>1, <1>4, <1>5, <1>6, <1>7, <2>2 DEF Leaf
  <2>3. CASE n # w /\ n # u
    BY <1>1, <1>5, <1>6, <1>7, <2>3 DEF Leaf
  <2> QED BY <2>1, <2>2, <2>3
<1>8. QED
  BY <1>7, HalfFullFrame

\* Both halves of a leaf of M keys have M \div 2 of them, or one more.
LEMMA SplitLeafHalfFull ==
  ASSUME IInv, HalfFull, SplitLeaf
  PROVE  HalfFull'
<1>0. PICK u, w, par, ks, sep, rk :
        /\ u = cur /\ w = nb_node /\ par = pool[cur].parent /\ ks = pool[cur].key
        /\ sep = pool[cur].key[Half] /\ rk = From(pool[cur].key, Half)[1]
  OBVIOUS
<1>1. /\ TypeOK /\ u \in Addr /\ Nodes \subseteq Addr /\ pool[u] \in Node /\ ks \in Seq(Keys)
      /\ Len(ks) = M /\ w \in Addr /\ w \notin Nodes /\ w # u /\ Nodes' = Nodes \cup {w}
      /\ par \in Nodes /\ par \in Addr /\ pool[par] \in Node /\ ~Leaf(par) /\ par # u /\ par # w
  <2>1. TypeOK /\ Nodes \subseteq Addr /\ Splitting /\ nb_node < MaxNodes /\ nb_node' = w + 1
    BY <1>0, NodesAreAddresses DEF IInv, SplitLeaf
  <2>2. /\ u \in Nodes /\ u \in Addr /\ Len(ks) = M
        /\ w \in Addr /\ w \notin Nodes
        /\ par \in Nodes /\ Inner(par) /\ par # u
    BY <1>0, <2>1, SplitPlace
  <2>3. w \in Nat
    BY <1>0, <2>1 DEF TypeOK
  <2>4. Nodes' = Nodes \cup {w}
    BY <1>0, <2>1, <2>3 DEF Nodes
  <2> QED BY <1>0, <2>1, <2>2, <2>4, FieldTypes DEF Inner, Leaf
<1>2. Half \in 0..Len(ks) /\ M - Half >= Half /\ Half \in Nat
  BY <1>1, ConstantsAssumption DEF Half
<1>3. Len(Keep(ks, Half)) = Half
  BY ONLY <1>1, <1>2, KeepProps
<1>4. Len(From(ks, Half)) = Len(ks) - Half
  BY ONLY <1>1, <1>2, FromProps
<1>5. \E cs, ds :
        /\ pool'[u] = [pool[u] EXCEPT !.key = Keep(ks, Half), !.child = cs]
        /\ pool'[w] = [FreshNode EXCEPT !.parent = par, !.key = From(ks, Half), !.child = ds]
        /\ pool'[par] = LinkRight(pool[par], rk, sep)
        /\ \A n \in Addr : n # u /\ n # w /\ n # par => pool'[n] = pool[n]
  <2>1. /\ pool'[u] = [pool[u] EXCEPT !.key = Keep(ks, Half),
                                      !.child = Keep(pool[u].child, Half)]
        /\ pool'[w] = [FreshNode EXCEPT !.parent = par, !.key = From(ks, Half),
                                        !.child = From(pool[u].child, Half)]
        /\ pool'[par] = LinkRight(pool[par], rk, sep)
        /\ \A n \in Addr : n # u /\ n # w /\ n # par => pool'[n] = pool[n]
    BY <1>0, <1>1 DEF SplitLeaf, TypeOK
  <2> QED BY <2>1
<1>6. /\ pool'[u].key = Keep(ks, Half) /\ pool'[w].key = From(ks, Half)
      /\ pool'[par].isLeaf = pool[par].isLeaf
      /\ \A n \in Addr : n # u /\ n # w /\ n # par => pool'[n] = pool[n]
  BY <1>1, <1>5 DEF Node, FreshNode, LinkRight
<1>7. ASSUME NEW n \in Nodes', Leaf(n)', n # Root
      PROVE  \/ Len(pool'[n].key) >= Half
             \/ n \in Nodes /\ Leaf(n) /\ pool'[n].key = pool[n].key
  <2>1. n # par
    BY <1>1, <1>6, <1>7 DEF Leaf
  <2>2. CASE n = u \/ n = w
    BY <1>1, <1>2, <1>3, <1>4, <1>6, <2>2
  <2>3. CASE n # u /\ n # w
    BY <1>1, <1>6, <1>7, <2>1, <2>3 DEF Leaf
  <2> QED BY <2>2, <2>3
<1>8. QED
  BY <1>7, HalfFullFrame

\* The split of an inner node touches no leaf but for its parent pointer.
LEMMA SplitInnerHalfFull ==
  ASSUME IInv, HalfFull, SplitInner
  PROVE  HalfFull'
<1>0. PICK u, w, par : u = cur /\ w = nb_node /\ par = pool[cur].parent
  OBVIOUS
<1>1. /\ TypeOK /\ u \in Addr /\ Nodes \subseteq Addr /\ pool[u] \in Node /\ ~Leaf(u)
      /\ w \in Addr /\ w \notin Nodes /\ w # u /\ Nodes' = Nodes \cup {w}
      /\ par \in Nodes /\ par \in Addr /\ pool[par] \in Node /\ ~Leaf(par) /\ par # u /\ par # w
  <2>1. /\ TypeOK /\ Nodes \subseteq Addr /\ Splitting /\ nb_node < MaxNodes
        /\ nb_node' = w + 1 /\ ~Leaf(u)
    BY <1>0, NodesAreAddresses DEF IInv, SplitInner, Leaf
  <2>2. /\ u \in Nodes /\ u \in Addr /\ w \in Addr /\ w \notin Nodes
        /\ par \in Nodes /\ Inner(par) /\ par # u
    BY <1>0, <2>1, SplitPlace
  <2>3. w \in Nat
    BY <1>0, <2>1 DEF TypeOK
  <2>4. Nodes' = Nodes \cup {w}
    BY <1>0, <2>1, <2>3 DEF Nodes
  <2> QED BY <1>0, <2>1, <2>2, <2>4, FieldTypes DEF Inner, Leaf
<1> DEFINE ks    == pool[u].key
           cs    == pool[u].child
           moved == From(cs, Half + 1)
           new   == [FreshNode EXCEPT !.isLeaf = FALSE, !.parent = par,
                                      !.key = From(ks, Half + 1), !.child = moved]
           left  == [pool[u] EXCEPT !.key = Keep(ks, Half), !.child = Keep(cs, Half + 1)]
           up    == LinkRight(pool[par], ks[Half + 1], ks[Half + 1])
           kids  == ToSet(moved)
           kid   == [n \in Addr |-> [pool[n] EXCEPT !.parent = w]]
<1>2. u \in Addr /\ w \in Addr /\ par \in Addr /\ u # w /\ par # w /\ par # u /\ w \notin kids
  <2>1. cs \in Seq(Addr) /\ Len(cs) = M + 1 /\ Half + 1 \in 0..Len(cs) /\ ToSet(cs) \subseteq Nodes
    <3>1. /\ u \in Nodes /\ TypeOK /\ Shape /\ Inner(u) /\ Len(pool[u].key) = M
      BY <1>0, <1>1, SplitPlace DEF IInv, Inner, Leaf, Value, SplitInner
    <3> QED BY <1>1, <3>1, HalfBounds, FieldTypes, ChildBoundsTypes DEF Shape, InnerShape
  <2> DEFINE h == Half + 1
  <2>2. DOMAIN cs = 1..Len(cs) /\ Len(cs) \in Nat
    BY <2>1, LenProperties
  <2> HIDE DEF cs, h
  <2>3. h \in 0..Len(cs)
    BY <2>1 DEF h
  <2>4. /\ From(cs, h) \in Seq(Addr) /\ Len(From(cs, h)) = Len(cs) - h
        /\ \A i \in 1..(Len(cs) - h) : From(cs, h)[i] = cs[h + i]
    BY ONLY <2>1, <2>3, FromProps
  <2>5. ToSet(From(cs, h)) \subseteq ToSet(cs)
    <3>1. DOMAIN From(cs, h) = 1..(Len(cs) - h)
      BY <2>4, LenProperties
    <3>2. \A i \in 1..(Len(cs) - h) : h + i \in 1..Len(cs)
      BY <2>2, <2>3
    <3> QED BY <2>2, <2>4, <3>1, <3>2 DEF ToSet
  <2> QED BY <1>1, <2>1, <2>5 DEF h
<1>3. pool' = [n \in Addr |-> CASE n = w -> new [] n = u -> left [] n = par -> up
                                [] n \in kids -> kid[n] [] OTHER -> pool[n]]
  BY <1>0 DEF SplitInner
<1>4. new.isLeaf = FALSE /\ left.isLeaf = pool[u].isLeaf /\ up.isLeaf = pool[par].isLeaf
  BY <1>1 DEF FreshNode, Node, LinkRight
<1>5. \A n \in Addr : kid[n].isLeaf = pool[n].isLeaf /\ kid[n].key = pool[n].key
  BY <1>1, FieldTypes DEF Node
<1> HIDE DEF new, left, up, kids, kid
<1>6. /\ pool'[w] = new
      /\ pool'[u] = left \/ pool'[u] = kid[u]
      /\ pool'[par] = up \/ pool'[par] = kid[par]
      /\ \A n \in Addr : n # u /\ n # w /\ n # par => pool'[n] = pool[n] \/ pool'[n] = kid[n]
  BY ONLY <1>2, <1>3
<1>7. ASSUME NEW n \in Nodes', Leaf(n)', n # Root
      PROVE  n \in Nodes /\ Leaf(n) /\ pool'[n].key = pool[n].key
  <2>1. n # u /\ n # w /\ n # par
    BY <1>1, <1>4, <1>5, <1>6, <1>7 DEF Leaf
  <2> QED
    BY <1>1, <1>5, <1>6, <1>7, <2>1 DEF Leaf
<1>8. QED
  BY <1>7, HalfFullFrame

\* The load only marks nodes; the other steps leave the tree as it is.
LEMMA HalfFullStep ==
  ASSUME IInv, HalfFull, [Next]_vars
  PROVE  HalfFull'
<1>1. CASE LeafInsert
  BY <1>1, LeafInsertHalfFull
<1>2. CASE OverflowCopy
  BY <1>2, CopyHalfFull
<1>3. CASE SplitLeaf
  BY <1>3, SplitLeafHalfFull
<1>4. CASE SplitInner
  BY <1>4, SplitInnerHalfFull
<1>5. CASE SameTree /\ Nodes' = Nodes
  BY <1>5, NodesAreAddresses DEF HalfFull, SameTree, Leaf, IInv
<1>6. CASE PrintRoot \/ PrintLayer
  <2>1. \E S : pool' = MarkLoaded(S)
    BY <1>6 DEF PrintRoot, PrintLayer
  <2>2. nb_node' = nb_node /\ cover' = cover
    BY <1>6 DEF PrintRoot, PrintLayer
  <2>3. SameTree /\ Nodes' = Nodes
    BY <2>1, <2>2, MarkLoadedSame DEF IInv
  <2> QED BY <1>5, <2>3
<1>7. CASE UNCHANGED <<pool, nb_node, cover>>
  BY <1>5, <1>7, SameTreeUnchanged
<1>8. \/ UNCHANGED <<pool, nb_node, cover>> \/ LeafInsert \/ OverflowCopy
      \/ SplitLeaf \/ SplitInner \/ PrintRoot \/ PrintLayer
  BY DEF Next, InsertStep, LoadStep, InsertBegin, Descend, OverflowDone, LoadBegin,
         Expand, treeVars, vars
<1>9. QED
  BY <1>1, <1>2, <1>3, <1>4, <1>6, <1>7, <1>8

\* What NodeFill says of keys and children is in IInv, the rest HalfFull.
LEMMA FillFollows == IInv /\ HalfFull => NodeFill
<1> SUFFICES ASSUME IInv, HalfFull, NEW n \in Addr, Allocated(n), ~Value(n)
             PROVE  /\ Len(pool[n].key) <= M
                    /\ Len(pool[n].key) = M => n = cur /\ pc \in {"overflow", "split"}
                    /\ Len(pool[n].child) = IF pool[n].isLeaf THEN Len(pool[n].key)
                                            ELSE Len(pool[n].key) + 1
                    /\ pool[n].isLeaf /\ n # Root => Len(pool[n].key) >= Half
  BY DEF NodeFill, Value
<1>1. n \in Nodes
  BY ConstantsAssumption DEF Nodes, Allocated, Addr, IInv, TypeOK
<1>2. QED
  BY <1>1 DEF IInv, Shape, LeafShape, InnerShape, Fill, HalfFull, Leaf, Value, Inner

(* No node ever holds more than its array has room for, and none starves:  *)
(* however keys come in, whatever is loaded or copied, a leaf but the root *)
(* has at least half its entries (insert(), overflow()'s copy and split).  *)
THEOREM NodesStayFilled == Spec => []NodeFill
<1>1. IInv /\ HalfFull /\ [Next]_vars => HalfFull'
  BY HalfFullStep
<1>2. Spec => []HalfFull
  BY Invariance, InitHalfFull, <1>1, PTL DEF Spec
<1>3. QED
  BY Invariance, <1>2, FillFollows, PTL
=============================================================================
