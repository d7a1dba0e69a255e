------------------------- MODULE FatBTreePathProofs -------------------------
(***************************************************************************)
(* Proofs about whole paths of the backend's tree: that a search ends at   *)
(* the value node of its key, that a loaded address goes on leading there, *)
(* that what searches find is the abstract index; how deep the nodes are,  *)
(* and what the greedy load makes of it.                                   *)
(***************************************************************************)
EXTENDS FatBTreeProofs, FatBTreeIndex, FiniteSetTheorems

-----------------------------------------------------------------------------
(***************************************************************************)
(* Searches and depths are computed by recursion over the nodes left to    *)
(* visit; these lemmas unfold them.                                        *)
(***************************************************************************)
(* Induction up to a bound, over the set of the numbers it holds for.      *)
LEMMA UpTo ==
  ASSUME NEW N \in Nat, NEW T, 0 \in T, \A h \in 1..N : h - 1 \in T => h \in T
  PROVE  \A h \in 0..N : h \in T
<1> DEFINE Bad == {h \in 0..N : h \notin T}
<1> SUFFICES ASSUME Bad # {} PROVE FALSE
  OBVIOUS
<1>1. PICK h \in Bad : \A g \in Bad : h <= g
  <2>1. Bad \in SUBSET Nat
    OBVIOUS
  <2> HIDE DEF Bad
  <2> QED BY <2>1, LeastNat
<1>2. h \in 1..N /\ h \notin T /\ h - 1 \in 0..N /\ h - 1 \notin Bad
  BY <1>1
<1>3. QED
  BY <1>2

(* A step can be taken N times.                                            *)
LEMMA Iteration ==
  ASSUME NEW N \in Nat, NEW S, NEW b \in S, NEW step \in [S -> S]
  PROVE  \E f \in [0..N -> S] :
           f[0] = b /\ \A h \in 1..N : f[h] = step[f[h - 1]]
<1> DEFINE Ok(n) == \E f \in [0..n -> S] :
                      f[0] = b /\ \A h \in 1..n : f[h] = step[f[h - 1]]
           T == {n \in 0..N : Ok(n)}
<1>1. Ok(0)
  <2> DEFINE f == [h \in 0..0 |-> b]
  <2>1. f \in [0..0 -> S] /\ f[0] = b /\ \A h \in 1..0 : f[h] = step[f[h - 1]]
    OBVIOUS
  <2> HIDE DEF f
  <2> QED BY <2>1
<1>2. ASSUME NEW n \in Nat, n + 1 \in 1..N, Ok(n) PROVE Ok(n + 1)
  <2>1. PICK f \in [0..n -> S] :
          f[0] = b /\ \A h \in 1..n : f[h] = step[f[h - 1]]
    BY <1>2
  <2> DEFINE g == [h \in 0..(n + 1) |-> IF h <= n THEN f[h] ELSE step[f[n]]]
  <2>2. g \in [0..(n + 1) -> S]
    <3>1. step[f[n]] \in S
      BY <1>2, <2>1
    <3> QED BY <2>1, <3>1
  <2>3. g[0] = b
    BY <2>1
  <2>4. ASSUME NEW h \in 1..(n + 1) PROVE g[h] = step[g[h - 1]]
    <3>1. CASE h <= n
      BY <2>1, <3>1
    <3>2. CASE h = n + 1
      <4>1. g[h] = step[f[n]] /\ g[h - 1] = f[n]
        BY <2>1, <3>2
      <4> QED BY <4>1
    <3> QED BY <3>1, <3>2
  <2> HIDE DEF g
  <2> QED BY <2>2, <2>3, <2>4
<1>3. 0 \in T /\ \A n \in 1..N : n - 1 \in T => n \in T
  <2> HIDE DEF Ok
  <2>1. 0 \in T
    BY <1>1
  <2>2. ASSUME NEW n \in 1..N, n - 1 \in T PROVE n \in T
    <3>1. n - 1 \in Nat /\ (n - 1) + 1 = n /\ n \in 0..N
      OBVIOUS
    <3>2. Ok((n - 1) + 1)
      BY <1>2, <2>2, <3>1
    <3> QED BY <3>1, <3>2
  <2> QED BY <2>1, <2>2
<1>4. N \in T
  <2> HIDE DEF T
  <2>1. \A n \in 0..N : n \in T
    BY ONLY N \in Nat, <1>3, UpTo
  <2> QED BY <2>1
<1>5. QED
  BY <1>4

\* The child a search for k goes on to from n; Null past the end of the array.
NextFor(n, k) ==
  LET i == LowerBound(pool[n].key, k)
  IN  IF i \in DOMAIN pool[n].child THEN pool[n].child[i] ELSE Null

(* Search's recursion, unfolded: a search ends at a value node or where no *)
(* node is left to visit, and otherwise goes on one hop below (lookup()).  *)
LEMMA SearchUnfold ==
  ASSUME TypeOK, NEW k \in Keys
  PROVE  \E find :
           /\ \A n : Search(n, k) = find[MaxNodes][n]
           /\ \A h \in 0..MaxNodes, m \in Addr \cup {Null} :
                find[h][m] = IF h = 0 \/ m = Null THEN NoKey
                             ELSE IF pool[m].isValue THEN pool[m].val
                             ELSE find[h - 1][NextFor(m, k)]
<1> DEFINE A == Addr \cup {Null}
           V == Keys \cup {NoKey}
           D == [A -> V]
           next == [m \in A |-> IF m = Null THEN Null ELSE NextFor(m, k)]
           isV == [m \in A |-> pool[m].isValue]
           val == [m \in A |-> IF m = Null THEN NoKey ELSE pool[m].val]
           turn(g) == [m \in A |-> IF m = Null THEN NoKey
                                   ELSE IF isV[m] THEN val[m] ELSE g[next[m]]]
           step == [g \in D |-> turn(g)]
           none == [m \in A |-> NoKey]
           unfold(f) ==
             [h \in 0..MaxNodes |->
                [m \in A |-> IF h = 0 \/ m = Null THEN NoKey
                             ELSE IF pool[m].isValue THEN pool[m].val
                             ELSE f[h - 1][NextFor(m, k)]]]
<1>1. next \in [A -> A]
  <2> SUFFICES ASSUME NEW m \in A, m # Null PROVE NextFor(m, k) \in A
    OBVIOUS
  <2> QED BY DEF NextFor, TypeOK, Node
<1>2. val \in [A -> V]
  BY DEF TypeOK, Node
<1>3. none \in D
  OBVIOUS
<1>4. step \in [D -> D]
  <2>1. ASSUME NEW g \in [A -> V] PROVE turn(g) \in [A -> V]
    <3>1. NoKey \in V
      OBVIOUS
    <3> HIDE DEF next, isV, val, A, V
    <3> QED BY <1>1, <1>2, <3>1
  <2> HIDE DEF turn
  <2> QED BY <2>1
<1>5. MaxNodes \in Nat
  BY ConstantsAssumption
<1>6. PICK f \in [0..MaxNodes -> D] :
        f[0] = none /\ \A h \in 1..MaxNodes : f[h] = step[f[h - 1]]
  <2> HIDE DEF step, none, D
  <2> QED BY ONLY <1>3, <1>4, <1>5, Iteration, SMTT(60)
<1>7. f = unfold(f)
  <2>1. ASSUME NEW h \in 0..MaxNodes PROVE f[h] = unfold(f)[h]
    <3>1. CASE h = 0
      BY <1>6, <3>1
    <3>2. CASE h # 0
      <4>1. h \in 1..MaxNodes /\ h - 1 \in 0..MaxNodes
        BY <1>5, <3>2
      <4>2. f[h] = turn(f[h - 1])
        BY <1>6, <4>1
      <4>3. turn(f[h - 1]) = unfold(f)[h]
        BY <3>2
      <4> QED BY <4>2, <4>3
    <3> QED BY <3>1, <3>2
  <2> HIDE DEF D
  <2>2. DOMAIN f = 0..MaxNodes /\ f = [h \in 0..MaxNodes |-> f[h]]
    BY <1>6
  <2>3. unfold(f) = [h \in 0..MaxNodes |-> unfold(f)[h]]
    OBVIOUS
  <2> HIDE DEF unfold
  <2> QED BY <2>1, <2>2, <2>3
<1> DEFINE find == CHOOSE g : g = unfold(g)
<1>8. find = unfold(find)
  <2> HIDE DEF unfold
  <2> QED BY <1>7
<1>9. \A n : Search(n, k) = find[MaxNodes][n]
  BY DEF Search, NextFor
<1>10. \A h \in 0..MaxNodes, m \in Addr \cup {Null} :
         find[h][m] = IF h = 0 \/ m = Null THEN NoKey
                      ELSE IF pool[m].isValue THEN pool[m].val
                      ELSE find[h - 1][NextFor(m, k)]
  <2> HIDE DEF find
  <2> TAKE h \in 0..MaxNodes, m \in Addr \cup {Null}
  <2>1. find[h][m] = unfold(find)[h][m]
    <3> HIDE DEF unfold
    <3> QED BY <1>8
  <2>2. unfold(find)[h][m] = IF h = 0 \/ m = Null THEN NoKey
                             ELSE IF pool[m].isValue THEN pool[m].val
                             ELSE find[h - 1][NextFor(m, k)]
    OBVIOUS
  <2> HIDE DEF unfold
  <2> QED BY <2>1, <2>2
<1> HIDE DEF find
<1>11. QED
  BY <1>9, <1>10

-----------------------------------------------------------------------------
(***************************************************************************)
(* What a step does to the children of the nodes.                          *)
(***************************************************************************)
Kids(n) == ToSet(pool[n].child)

\* insert() adds one entry to the array.
LEMMA InsertKids ==
  ASSUME NEW S, NEW s \in Seq(S), NEW p \in 1..(Len(s) + 1), NEW e \in S
  PROVE  ToSet(Insert(s, p, e)) = ToSet(s) \cup {e}
<1>1. /\ Len(s) \in Nat /\ Insert(s, p, e) \in Seq(S)
      /\ Len(Insert(s, p, e)) = Len(s) + 1
      /\ \A i \in 1..(p - 1) : Insert(s, p, e)[i] = s[i]
      /\ Insert(s, p, e)[p] = e
      /\ \A i \in (p + 1)..(Len(s) + 1) : Insert(s, p, e)[i] = s[i - 1]
  BY InsertProps, LenProperties
<1> DEFINE r == Insert(s, p, e)
<1>2. DOMAIN s = 1..Len(s) /\ DOMAIN r = 1..(Len(s) + 1)
  BY <1>1, LenProperties
<1> HIDE DEF r
<1>3. ASSUME NEW i \in 1..(Len(s) + 1) PROVE r[i] = e \/ \E j \in 1..Len(s) : r[i] = s[j]
  <2>1. CASE i < p
    BY <1>1, <2>1 DEF r
  <2>2. CASE i = p
    BY <1>1, <2>2 DEF r
  <2>3. CASE i > p
    <3>1. i - 1 \in 1..Len(s) /\ r[i] = s[i - 1]
      BY <1>1, <2>3 DEF r
    <3> QED BY <3>1
  <2> QED BY <1>1, <2>1, <2>2, <2>3
<1>4. ASSUME NEW j \in 1..Len(s) PROVE \E i \in 1..(Len(s) + 1) : r[i] = s[j]
  <2>1. CASE j < p
    <3>1. j \in 1..(Len(s) + 1) /\ r[j] = s[j]
      BY <1>1, <2>1 DEF r
    <3> QED BY <3>1
  <2>2. CASE j >= p
    <3>1. j + 1 \in 1..(Len(s) + 1) /\ j + 1 \in (p + 1)..(Len(s) + 1) /\ (j + 1) - 1 = j
      BY <1>1, <2>2
    <3>2. r[j + 1] = s[j]
      BY <1>1, <3>1 DEF r
    <3> QED BY <3>1, <3>2
  <2> QED BY <1>1, <2>1, <2>2
<1>5. r[p] = e /\ p \in 1..(Len(s) + 1)
  BY <1>1 DEF r
<1>6. ToSet(r) = ToSet(s) \cup {e}
  <2>1. ToSet(r) = {r[i] : i \in 1..(Len(s) + 1)} /\ ToSet(s) = {s[j] : j \in 1..Len(s)}
    BY <1>2 DEF ToSet
  <2>2. \A x \in {r[i] : i \in 1..(Len(s) + 1)} : x \in {s[j] : j \in 1..Len(s)} \/ x = e
    BY ONLY <1>3
  <2>3. \A x \in {s[j] : j \in 1..Len(s)} : x \in {r[i] : i \in 1..(Len(s) + 1)}
    BY ONLY <1>4
  <2>4. e \in {r[i] : i \in 1..(Len(s) + 1)}
    BY ONLY <1>5
  <2> QED BY ONLY <2>1, <2>2, <2>3, <2>4
<1>7. QED
  BY <1>6 DEF r

\* Both parts of an array hold entries of it.
LEMMA PartKids ==
  ASSUME NEW S, NEW s \in Seq(S), NEW n \in 0..Len(s)
  PROVE  ToSet(Keep(s, n)) \subseteq ToSet(s) /\ ToSet(From(s, n)) \subseteq ToSet(s)
<1>1. /\ Keep(s, n) \in Seq(S) /\ Len(Keep(s, n)) = n
      /\ \A i \in 1..n : Keep(s, n)[i] = s[i]
  BY KeepProps
<1>2. /\ From(s, n) \in Seq(S) /\ Len(From(s, n)) = Len(s) - n
      /\ \A i \in 1..(Len(s) - n) : From(s, n)[i] = s[n + i]
  BY FromProps
<1>3. Len(s) \in Nat /\ DOMAIN s = 1..Len(s)
  BY LenProperties
<1>4. DOMAIN Keep(s, n) = 1..n /\ DOMAIN From(s, n) = 1..(Len(s) - n)
  BY <1>1, <1>2, LenProperties
<1>5. \A i \in 1..n : i \in 1..Len(s)
  BY <1>3
<1>6. \A i \in 1..(Len(s) - n) : n + i \in 1..Len(s)
  BY <1>3
<1>7. ToSet(Keep(s, n)) \subseteq ToSet(s)
  BY ONLY <1>1, <1>3, <1>4, <1>5 DEF ToSet
<1>8. ToSet(From(s, n)) \subseteq ToSet(s)
  BY ONLY <1>2, <1>3, <1>4, <1>6 DEF ToSet
<1>9. QED
  BY <1>7, <1>8

(* A step that takes w from the pool to relieve node u: w has children of  *)
(* u or none and hangs below u or beside it; the other nodes keep their    *)
(* kind, their value and their mark.                                       *)
Grows(u, w) ==
  /\ u \in Nodes /\ u # w /\ w \in Addr /\ w \notin Nodes /\ Nodes' = Nodes \cup {w}
  /\ Kids(w)' \subseteq Kids(u)
  /\ \A n \in Nodes : \A c \in Kids(n)' :
       \/ c \in Kids(n)
       \/ c = w /\ (n = u \/ u \in Kids(n))
  /\ pool'[w].isLoaded2Switch = FALSE
  /\ \A n \in Addr \ {w} :
       /\ pool'[n].isValue = pool[n].isValue
       /\ pool[n].isValue => pool'[n].val = pool[n].val
       /\ pool'[n].isLoaded2Switch = pool[n].isLoaded2Switch

\* insert() hangs a value node below the leaf.
LEMMA LeafInsertGrows ==
  ASSUME IInv, LeafInsert, NEW u, u = cur, NEW w, w = nb_node
  PROVE  /\ Grows(u, w)
         /\ pool'[w].isValue /\ ~pool'[w].isLeaf
         /\ \A n \in Addr \ {w} : pool'[n].isLeaf = pool[n].isLeaf
         /\ \A n \in Nodes \ {u} : Kids(n)' = Kids(n)
<1>0. PICK p, ks, cs :
        /\ p = LowerBound(pool[cur].key, in_key)
        /\ ks = Insert(pool[cur].key, p, in_key)
        /\ cs = Insert(pool[cur].child, p, nb_node)
  OBVIOUS
<1>1. /\ TypeOK /\ u \in Nodes /\ u \in Addr /\ Leaf(u) /\ Nodes \subseteq Addr /\ ~Value(u)
      /\ w \in Addr /\ w \notin Nodes /\ w # u /\ Nodes' = Nodes \cup {w}
      /\ pool[u] \in Node /\ pool[u].child \in Seq(Addr)
  <2>1. TypeOK /\ u \in Nodes /\ u \in Addr /\ Leaf(u) /\ Nodes \subseteq Addr /\ ~Value(u)
    BY NodesAreAddresses DEF IInv, Backend, LeafInsert, Leaf
  <2>2. w \in Nat /\ w >= 1 /\ w < MaxNodes /\ nb_node' = w + 1
    BY <2>1 DEF TypeOK, LeafInsert
  <2>3. w \in Addr /\ w \notin Nodes /\ Nodes' = Nodes \cup {w}
    BY <2>2, ConstantsAssumption DEF Addr, Nodes
  <2> QED BY <2>1, <2>3, FieldTypes
<1>2. ToSet(cs) = Kids(u) \cup {w}
  <2>1. Len(pool[u].child) = Len(pool[u].key)
    BY <1>1 DEF IInv, Shape, LeafShape
  <2>2. p \in 1..(Len(pool[u].child) + 1)
    BY <1>0, <2>1, LeafArrays
  <2> DEFINE c == pool[u].child
  <2>3. cs = Insert(c, p, w)
    BY <1>0
  <2>4. c \in Seq(Addr) /\ p \in 1..(Len(c) + 1)
    BY <1>1, <2>2
  <2> HIDE DEF c
  <2>5. ToSet(cs) = ToSet(c) \cup {w}
    BY ONLY <1>1, <2>3, <2>4, InsertKids
  <2> QED BY <2>5 DEF c, Kids
<1>3. /\ pool'[w] = [FreshNode EXCEPT !.isLeaf = FALSE, !.isValue = TRUE,
                                      !.parent = u, !.val = in_key]
      /\ pool'[u] = [pool[u] EXCEPT !.key = ks, !.child = cs]
      /\ \A n \in Addr : n # u /\ n # w => pool'[n] = pool[n]
  BY <1>0, <1>1 DEF LeafInsert, TypeOK
<1>4. /\ pool'[w].isLeaf = FALSE /\ pool'[w].isValue = TRUE /\ pool'[w].child = <<>>
      /\ pool'[w].isLoaded2Switch = FALSE
  BY <1>3 DEF FreshNode
<1>5. /\ pool'[u].child = cs /\ pool'[u].isLeaf = pool[u].isLeaf
      /\ pool'[u].isValue = pool[u].isValue /\ pool'[u].val = pool[u].val
      /\ pool'[u].isLoaded2Switch = pool[u].isLoaded2Switch
  BY <1>1, <1>3 DEF Node
<1>6. Kids(w)' = {} /\ Kids(u)' = Kids(u) \cup {w}
  BY <1>2, <1>4, <1>5 DEF Kids, ToSet
<1>7. \A n \in Nodes \ {u} : Kids(n)' = Kids(n)
  BY <1>1, <1>3 DEF Kids
<1>8. \A n \in Addr \ {w} :
        /\ pool'[n].isValue = pool[n].isValue
        /\ pool'[n].isLeaf = pool[n].isLeaf
        /\ pool'[n].val = pool[n].val
        /\ pool'[n].isLoaded2Switch = pool[n].isLoaded2Switch
  BY <1>3, <1>5
<1>9. QED
  BY <1>1, <1>4, <1>6, <1>7, <1>8 DEF Grows

\* overflow()'s copy takes over all the children and is the only child left.
LEMMA OverflowCopyGrows ==
  ASSUME IInv, OverflowCopy, NEW u, u = cur, NEW w, w = nb_node
  PROVE  /\ Grows(u, w) /\ Kids(w)' = Kids(u) /\ Kids(u)' = {w}
         /\ ~pool'[w].isValue /\ ~pool'[u].isLeaf /\ pool'[w].isLeaf = pool[u].isLeaf
         /\ ~pool[u].isValue
         /\ \A n \in Addr \ {u, w} : pool'[n].isLeaf = pool[n].isLeaf
         /\ \A n \in Nodes \ {u} : Kids(n)' = Kids(n)
<1>1. /\ TypeOK /\ Shape /\ u \in Nodes /\ u \in Addr /\ Nodes \subseteq Addr /\ pool[u] \in Node
      /\ w \in Addr /\ w \notin Nodes /\ w # u /\ Nodes' = Nodes \cup {w} /\ ~Value(u)
  <2>1. TypeOK /\ Shape /\ u \in Nodes /\ u \in Addr /\ Nodes \subseteq Addr /\ ~Value(u)
    BY NodesAreAddresses DEF IInv, Backend
  <2>2. w \in Nat /\ w >= 1 /\ w < MaxNodes /\ nb_node' = w + 1
    BY <2>1 DEF TypeOK, OverflowCopy
  <2>3. w \in Addr /\ w \notin Nodes /\ Nodes' = Nodes \cup {w}
    BY <2>2, ConstantsAssumption DEF Addr, Nodes
  <2> QED BY <2>1, <2>3, FieldTypes
<1> DEFINE kids == ToSet(pool[u].child)
           copy == [pool[u] EXCEPT !.parent = u, !.isLoaded2Switch = FALSE]
           top  == [pool[u] EXCEPT !.isLeaf = FALSE, !.key = <<>>, !.val = NoKey,
                                   !.child = <<w>>]
           kid  == [n \in Addr |-> [pool[n] EXCEPT !.parent = w]]
<1>2. w \notin kids /\ u \notin kids
  <2>1. w \notin kids
    BY <1>1, ChildBoundsTypes
  <2>2. Len(pool[u].key) >= 1
    BY <1>1, FieldTypes, ConstantsAssumption DEF OverflowCopy
  <2>3. \A i \in 1..Len(pool[u].child) : pool[u].child[i] # u
    BY <1>1, <2>2, NotOwnChild
  <2> QED BY <1>1, <2>1, <2>3, FieldTypes, LenProperties DEF ToSet
<1>3. pool' = [n \in Addr |-> CASE n = w -> copy [] n = u -> top
                                [] n \in kids -> kid[n] [] OTHER -> pool[n]]
  BY DEF OverflowCopy
<1>4. /\ copy.child = pool[u].child /\ copy.isLeaf = pool[u].isLeaf
      /\ copy.isValue = pool[u].isValue /\ copy.isLoaded2Switch = FALSE
      /\ top.child = <<w>> /\ top.isLeaf = FALSE /\ top.isValue = pool[u].isValue
      /\ top.isLoaded2Switch = pool[u].isLoaded2Switch
  BY <1>1 DEF Node
<1>5. \A n \in Addr : /\ kid[n].isLeaf = pool[n].isLeaf /\ kid[n].isValue = pool[n].isValue
                      /\ kid[n].val = pool[n].val /\ kid[n].child = pool[n].child
                      /\ kid[n].isLoaded2Switch = pool[n].isLoaded2Switch
  BY <1>1, FieldTypes DEF Node
<1>6. /\ pool'[w] = copy /\ pool'[u] = top
      /\ \A n \in Addr : n # w /\ n # u => pool'[n] = pool[n] \/ pool'[n] = kid[n]
  <2> HIDE DEF kids, copy, top, kid
  <2> QED BY ONLY <1>1, <1>2, <1>3
<1> HIDE DEF kids, copy, top, kid
<1>7. Kids(w)' = Kids(u) /\ Kids(u)' = {w}
  <2>1. pool'[w].child = pool[u].child /\ pool'[u].child = <<w>>
    BY <1>4, <1>6
  <2>2. ToSet(<<w>>) = {w}
    BY DEF ToSet
  <2> QED BY <2>1, <2>2 DEF Kids
<1>8. \A n \in Nodes \ {u} : Kids(n)' = Kids(n)
  BY <1>1, <1>5, <1>6 DEF Kids
<1>9. \A n \in Addr \ {w} :
        /\ pool'[n].isValue = pool[n].isValue
        /\ n # u => pool'[n].isLeaf = pool[n].isLeaf /\ pool'[n].val = pool[n].val
        /\ pool'[n].isLoaded2Switch = pool[n].isLoaded2Switch
  BY <1>4, <1>5, <1>6
<1>10. QED
  BY <1>1, <1>4, <1>6, <1>7, <1>8, <1>9 DEF Grows, Value

(* A split shares the children out between cur and the new node, which the *)
(* parent takes in beside cur.                                             *)
Splits(u, w, par) ==
  /\ Grows(u, w)
  /\ par \in Nodes /\ par # u /\ u \in Kids(par) /\ Inner(par) /\ u # Root /\ ~pool[u].isValue
  /\ Kids(u)' \subseteq Kids(u) /\ Kids(par)' = Kids(par) \cup {w}
  /\ ~pool'[w].isValue /\ pool'[w].isLeaf = pool[u].isLeaf
  /\ \A n \in Addr \ {w} : pool'[n].isLeaf = pool[n].isLeaf
  /\ \A n \in Nodes \ {u, par} : Kids(n)' = Kids(n)

\* The parent once it has taken the new node in.
LinkedTo(L, w, par) ==
  /\ ToSet(L.child) = Kids(par) \cup {w} /\ L.isLeaf = pool[par].isLeaf
  /\ L.isValue = pool[par].isValue /\ L.val = pool[par].val
  /\ L.isLoaded2Switch = pool[par].isLoaded2Switch

\* What both kinds of split start from.
LEMMA SplitStart ==
  ASSUME IInv, Splitting, nb_node < MaxNodes, nb_node' = nb_node + 1,
         NEW u, u = cur, NEW w, w = nb_node, NEW par, par = pool[cur].parent
  PROVE  /\ TypeOK /\ Shape /\ u \in Nodes /\ u \in Addr /\ Nodes \subseteq Addr
         /\ pool[u] \in Node /\ pool[par] \in Node /\ ~Value(u) /\ ~Value(par) /\ Inner(par)
         /\ w \in Addr /\ w \notin Nodes /\ w # u /\ w # par /\ Nodes' = Nodes \cup {w}
         /\ par \in Nodes /\ par \in Addr /\ par # u /\ u \in Kids(par) /\ u # Root
         /\ pool[u].child \in Seq(Addr) /\ pool[u].key \in Seq(Int)
         /\ Len(pool[u].key) = M /\ Half + 1 \in 0..M /\ Half \in 0..M
         /\ Len(pool[u].child) = IF Leaf(u) THEN M ELSE M + 1
         /\ \A k \in Int : \A e : LinkedTo(LinkRight(pool[par], k, e), w, par)
<1>1. /\ TypeOK /\ Shape /\ u \in Nodes \ {Root} /\ u \in Addr /\ Nodes \subseteq Addr
      /\ ~Value(u) /\ Inner(par) /\ ~Value(par) /\ par \in Nodes /\ par # u
      /\ w \in Addr /\ w \notin Nodes /\ Len(pool[u].key) = M
  BY SplitPlace, NodesAreAddresses DEF IInv, Inner, Value
<1>2. /\ par \in Addr /\ w # u /\ w # par /\ pool[u] \in Node /\ pool[par] \in Node
      /\ pool[u].child \in Seq(Addr) /\ pool[u].key \in Seq(Int)
      /\ pool[par].child \in Seq(Addr) /\ pool[par].key \in Seq(Int)
  BY <1>1, FieldTypes
<1>3. Nodes' = Nodes \cup {w}
  BY <1>1 DEF TypeOK, Nodes
<1>4. u \in Kids(par)
  <2>1. PICK q \in 1..Len(pool[par].child) : pool[par].child[q] = u
    BY SplitPlace
  <2>2. q \in DOMAIN pool[par].child
    BY <1>2, LenProperties
  <2> QED BY <2>1, <2>2 DEF Kids, ToSet
<1>5. Half + 1 \in 0..M /\ Half \in 0..M
  BY HalfBounds
<1>6. Len(pool[u].child) = IF Leaf(u) THEN M ELSE M + 1
  BY <1>1 DEF Shape, LeafShape, InnerShape, Inner, Leaf, Value
<1>7. ASSUME NEW k \in Int, NEW e
      PROVE  LinkedTo(LinkRight(pool[par], k, e), w, par)
  <2> DEFINE p  == LowerBound(pool[par].key, k)
             cs == pool[par].child
             ls == Insert(cs, p + 1, w)
  <2>1. p \in 1..(Len(pool[par].key) + 1)
    BY <1>2, LowerBoundSpec
  <2>2. Len(cs) = Len(pool[par].key) + 1 /\ Len(pool[par].key) \in Nat
    BY <1>1, <1>2, FieldTypes DEF Shape, InnerShape
  <2>3. p + 1 \in 1..(Len(cs) + 1) /\ cs \in Seq(Addr)
    <3>1. cs \in Seq(Addr)
      BY <1>2
    <3> HIDE DEF p, cs
    <3> QED BY <2>1, <2>2, <3>1
  <2>4. ToSet(ls) = ToSet(cs) \cup {w}
    <3> DEFINE q == p + 1
    <3>1. q \in 1..(Len(cs) + 1)
      BY <2>3
    <3> HIDE DEF cs, p, q
    <3>2. ToSet(Insert(cs, q, w)) = ToSet(cs) \cup {w}
      BY ONLY <1>1, <2>3, <3>1, InsertKids
    <3> QED BY <3>2 DEF q
  <2>5. \E ks : LinkRight(pool[par], k, e) = [pool[par] EXCEPT !.key = ks, !.child = ls]
    BY <1>2 DEF LinkRight, Node
  <2>6. PICK ks : LinkRight(pool[par], k, e) = [pool[par] EXCEPT !.key = ks, !.child = ls]
    BY <2>5
  <2> HIDE DEF ls, cs
  <2> QED BY <1>2, <2>4, <2>6 DEF LinkedTo, Node, Kids, cs
<1>8. QED
  BY <1>1, <1>2, <1>3, <1>4, <1>5, <1>6, <1>7

\* The split of a leaf.
LEMMA SplitLeafSplits ==
  ASSUME IInv, SplitLeaf, NEW u, u = cur, NEW w, w = nb_node, NEW par, par = pool[cur].parent
  PROVE  Splits(u, w, par)
<1>0. PICK rk, sep, lk, uk :
        /\ sep = pool[cur].key[Half] /\ rk = From(pool[cur].key, Half)[1]
        /\ lk = Keep(pool[cur].key, Half) /\ uk = From(pool[cur].key, Half)
  OBVIOUS
<1> DEFINE cs == pool[u].child
<1>1. /\ TypeOK /\ u \in Nodes /\ u \in Addr /\ Nodes \subseteq Addr
      /\ pool[u] \in Node /\ pool[par] \in Node /\ Inner(par) /\ ~Value(u)
      /\ w \in Addr /\ w \notin Nodes /\ w # u /\ w # par /\ Nodes' = Nodes \cup {w}
      /\ par \in Nodes /\ par \in Addr /\ par # u /\ u \in Kids(par) /\ u # Root
      /\ cs \in Seq(Addr) /\ Len(cs) = M /\ Half \in 0..M
      /\ pool[u].key \in Seq(Int) /\ Len(pool[u].key) = M /\ Leaf(u)
  BY SplitStart DEF SplitLeaf, Leaf
<1>2. rk \in Int
  <2> DEFINE ks == pool[u].key
  <2>1. ks \in Seq(Int) /\ Half \in 0..Len(ks)
    BY <1>1
  <2> HIDE DEF ks
  <2>2. From(ks, Half) \in Seq(Int) /\ Len(From(ks, Half)) = Len(ks) - Half
    BY ONLY <2>1, FromProps
  <2>3. 1 \in 1..Len(From(ks, Half))
    BY <1>1, <2>2, HalfBounds DEF ks
  <2>4. From(ks, Half)[1] \in Int
    BY ONLY <2>2, <2>3, LenProperties
  <2> QED BY <1>0, <2>4 DEF ks
<1>3. PICK L : /\ L = LinkRight(pool[par], rk, sep)
               /\ ToSet(L.child) = Kids(par) \cup {w} /\ L.isLeaf = pool[par].isLeaf
               /\ L.isValue = pool[par].isValue /\ L.val = pool[par].val
               /\ L.isLoaded2Switch = pool[par].isLoaded2Switch
  <2>1. \A k \in Int : \A e : LinkedTo(LinkRight(pool[par], k, e), w, par)
    BY SplitStart DEF SplitLeaf
  <2>2. LinkedTo(LinkRight(pool[par], rk, sep), w, par)
    BY <1>2, <2>1
  <2> QED BY <2>2 DEF LinkedTo
<1>4. ToSet(Keep(cs, Half)) \subseteq Kids(u) /\ ToSet(From(cs, Half)) \subseteq Kids(u)
  <2>1. cs \in Seq(Addr) /\ Half \in 0..Len(cs)
    BY <1>1
  <2> HIDE DEF cs
  <2>2. ToSet(Keep(cs, Half)) \subseteq ToSet(cs) /\ ToSet(From(cs, Half)) \subseteq ToSet(cs)
    BY ONLY <2>1, PartKids
  <2> QED BY <2>2 DEF cs, Kids
<1>5. /\ pool'[u] = [pool[u] EXCEPT !.key = lk, !.child = Keep(cs, Half)]
      /\ pool'[w] = [FreshNode EXCEPT !.parent = par, !.key = uk, !.child = From(cs, Half)]
      /\ pool'[par] = L
      /\ \A n \in Addr : n # u /\ n # w /\ n # par => pool'[n] = pool[n]
  BY <1>0, <1>1, <1>3 DEF SplitLeaf, TypeOK
<1> HIDE DEF cs
<1>6. /\ pool'[u].child = Keep(cs, Half) /\ pool'[u].isLeaf = pool[u].isLeaf
      /\ pool'[u].isValue = pool[u].isValue /\ pool'[u].val = pool[u].val
      /\ pool'[u].isLoaded2Switch = pool[u].isLoaded2Switch
      /\ pool'[w].child = From(cs, Half) /\ pool'[w].isLeaf = TRUE
      /\ pool'[w].isValue = FALSE /\ pool'[w].isLoaded2Switch = FALSE
  BY <1>1, <1>5 DEF Node, FreshNode
<1>7. /\ Kids(u)' \subseteq Kids(u) /\ Kids(w)' \subseteq Kids(u)
      /\ Kids(par)' = Kids(par) \cup {w}
  BY <1>3, <1>4, <1>5, <1>6 DEF Kids
<1>8. \A n \in Nodes \ {u, par} : Kids(n)' = Kids(n)
  BY <1>1, <1>5 DEF Kids
<1>9. \A n \in Addr \ {w} :
        /\ pool'[n].isValue = pool[n].isValue /\ pool'[n].val = pool[n].val
        /\ pool'[n].isLeaf = pool[n].isLeaf
        /\ pool'[n].isLoaded2Switch = pool[n].isLoaded2Switch
  <2> TAKE n \in Addr \ {w}
  <2>1. CASE n = u
    BY ONLY <1>6, <2>1
  <2>2. CASE n = par
    BY ONLY <1>3, <1>5, <2>2
  <2>3. CASE n # u /\ n # par
    BY ONLY <1>5, <2>3
  <2> QED BY <2>1, <2>2, <2>3
<1>10. \A n \in Nodes : \A c \in Kids(n)' :
         \/ c \in Kids(n)
         \/ c = w /\ (n = u \/ u \in Kids(n))
  BY <1>1, <1>7, <1>8
<1>11. Grows(u, w)
  BY <1>1, <1>6, <1>7, <1>9, <1>10 DEF Grows
<1>12. pool[u].isLeaf = TRUE /\ ~pool[u].isValue
  BY <1>1 DEF Leaf, Value, Node
<1>13. QED
  BY <1>1, <1>6, <1>7, <1>8, <1>9, <1>11, <1>12 DEF Splits

\* The split of an inner node.
LEMMA SplitInnerSplits ==
  ASSUME IInv, SplitInner, NEW u, u = cur, NEW w, w = nb_node, NEW par, par = pool[cur].parent
  PROVE  Splits(u, w, par)
<1> DEFINE cs    == pool[u].child
           ks    == pool[u].key
           moved == From(cs, Half + 1)
           new   == [FreshNode EXCEPT !.isLeaf = FALSE, !.parent = par,
                                      !.key = From(ks, Half + 1), !.child = moved]
           left  == [pool[u] EXCEPT !.key = Keep(ks, Half), !.child = Keep(cs, Half + 1)]
           up    == LinkRight(pool[par], ks[Half + 1], ks[Half + 1])
           kids  == ToSet(moved)
           kid   == [n \in Addr |-> [pool[n] EXCEPT !.parent = w]]
<1>1. /\ TypeOK /\ Shape /\ u \in Nodes /\ u \in Addr /\ Nodes \subseteq Addr
      /\ pool[u] \in Node /\ pool[par] \in Node /\ Inner(par) /\ ~Value(u)
      /\ w \in Addr /\ w \notin Nodes /\ w # u /\ w # par /\ Nodes' = Nodes \cup {w}
      /\ par \in Nodes /\ par \in Addr /\ par # u /\ u \in Kids(par) /\ u # Root
      /\ cs \in Seq(Addr) /\ Len(cs) = M + 1 /\ Half + 1 \in 0..M
      /\ ks \in Seq(Int) /\ Len(ks) = M /\ ~Leaf(u)
  BY SplitStart DEF SplitInner, Leaf
<1>2. ks[Half + 1] \in Int
  BY <1>1, HalfBounds, LenProperties
<1>3. /\ ToSet(up.child) = Kids(par) \cup {w} /\ up.isLeaf = pool[par].isLeaf
      /\ up.isValue = pool[par].isValue /\ up.val = pool[par].val
      /\ up.isLoaded2Switch = pool[par].isLoaded2Switch
  <2>1. \A k \in Int : \A e : LinkedTo(LinkRight(pool[par], k, e), w, par)
    BY SplitStart DEF SplitInner
  <2>2. LinkedTo(up, w, par)
    BY <1>2, <2>1
  <2> QED BY <2>2 DEF LinkedTo
<1>4. ToSet(Keep(cs, Half + 1)) \subseteq Kids(u) /\ kids \subseteq Kids(u)
  <2> DEFINE h == Half + 1
  <2>1. cs \in Seq(Addr) /\ h \in 0..Len(cs)
    BY <1>1, ConstantsAssumption
  <2> HIDE DEF cs, h
  <2>2. ToSet(Keep(cs, h)) \subseteq ToSet(cs) /\ ToSet(From(cs, h)) \subseteq ToSet(cs)
    BY ONLY <2>1, PartKids
  <2> QED BY <2>2 DEF cs, h, Kids
<1>5. w \notin kids /\ u \notin kids /\ par \notin kids
  <2>1. Kids(u) \subseteq Nodes
    BY <1>1, ChildBoundsTypes DEF Kids
  <2>2. u \notin Kids(u)
    <3>1. Len(pool[u].key) >= 1
      BY <1>1, ConstantsAssumption
    <3>2. \A i \in 1..Len(pool[u].child) : pool[u].child[i] # u
      BY <1>1, <3>1, NotOwnChild
    <3> QED BY <1>1, <3>2, LenProperties DEF Kids, ToSet
  <2>3. par \notin Kids(u)
    <3>1. pool[par].parent # u
      BY SplitPlace DEF SplitInner
    <3>2. \A i \in 1..Len(pool[u].child) : pool[u].child[i] # par
      BY <1>1, <3>1, ChildFacts
    <3> QED BY <1>1, <3>2, LenProperties DEF Kids, ToSet
  <2> QED BY <1>1, <1>4, <2>1, <2>2, <2>3
<1>6. pool' = [n \in Addr |-> CASE n = w -> new [] n = u -> left [] n = par -> up
                                [] n \in kids -> kid[n] [] OTHER -> pool[n]]
  BY DEF SplitInner
<1>7. /\ new.child = moved /\ new.isLeaf = FALSE /\ new.isValue = FALSE
      /\ new.isLoaded2Switch = FALSE
      /\ left.child = Keep(cs, Half + 1) /\ left.isLeaf = pool[u].isLeaf
      /\ left.isValue = pool[u].isValue /\ left.val = pool[u].val
      /\ left.isLoaded2Switch = pool[u].isLoaded2Switch
  BY <1>1 DEF FreshNode, Node
<1>8. \A n \in Addr : /\ kid[n].isLeaf = pool[n].isLeaf /\ kid[n].isValue = pool[n].isValue
                      /\ kid[n].val = pool[n].val /\ kid[n].child = pool[n].child
                      /\ kid[n].isLoaded2Switch = pool[n].isLoaded2Switch
  BY <1>1, FieldTypes DEF Node
<1>9. ToSet(new.child) \subseteq Kids(u) /\ ToSet(left.child) \subseteq Kids(u)
  BY <1>4, <1>7
<1> HIDE DEF new, left, up, kids, kid, moved
<1>10. /\ pool'[w] = new /\ pool'[u] = left /\ pool'[par] = up
       /\ \A n \in Addr : n # w /\ n # u /\ n # par => pool'[n] = pool[n] \/ pool'[n] = kid[n]
  BY ONLY <1>1, <1>5, <1>6
<1>11. /\ Kids(u)' \subseteq Kids(u) /\ Kids(w)' \subseteq Kids(u)
       /\ Kids(par)' = Kids(par) \cup {w}
  BY <1>3, <1>9, <1>10 DEF Kids
<1>12. \A n \in Nodes \ {u, par} : Kids(n)' = Kids(n)
  BY <1>1, <1>8, <1>10 DEF Kids
<1>13. \A n \in Addr \ {w} :
         /\ pool'[n].isValue = pool[n].isValue /\ pool'[n].val = pool[n].val
         /\ pool'[n].isLeaf = pool[n].isLeaf
         /\ pool'[n].isLoaded2Switch = pool[n].isLoaded2Switch
  BY <1>3, <1>7, <1>8, <1>10
<1>14. \A n \in Nodes : \A c \in Kids(n)' :
         \/ c \in Kids(n)
         \/ c = w /\ (n = u \/ u \in Kids(n))
  BY <1>1, <1>11, <1>12
<1>15. Grows(u, w)
  BY <1>1, <1>7, <1>10, <1>11, <1>13, <1>14 DEF Grows
<1>16. pool[u].isLeaf = FALSE /\ ~pool[u].isValue
  BY <1>1 DEF Leaf, Value, Node
<1>17. QED
  BY <1>1, <1>7, <1>10, <1>11, <1>12, <1>13, <1>15, <1>16 DEF Splits

-----------------------------------------------------------------------------
(***************************************************************************)
(* The nodes can be numbered so that a child comes after its parent: there *)
(* is no cycle and no path longer than the pool, so the loop of a lookup   *)
(* ends.  Slots still in the pool carry no mark.                           *)
(***************************************************************************)
Ranked(rk) ==
  /\ rk \in [Nodes -> Nodes]
  /\ \A n \in Nodes : \A c \in Kids(n) : rk[c] > rk[n]

Ranking == \E rk : Ranked(rk)

FreeUnmarked == \A n \in Addr \ Nodes : ~pool[n].isLoaded2Switch

LEMMA InitRanking == Init => Ranking /\ FreeUnmarked
<1> SUFFICES ASSUME Init PROVE Ranking /\ FreeUnmarked
  OBVIOUS
<1>1. Nodes = {0} /\ 0 \in Addr
  BY ConstantsAssumption DEF Init, Nodes, Addr
<1>2. \A n \in Addr : pool[n].child = <<>> /\ ~pool[n].isLoaded2Switch
  BY DEF Init, FreshNode
<1>3. \A n \in Nodes : Kids(n) = {}
  BY <1>1, <1>2 DEF Kids, ToSet
<1>4. Ranked([n \in Nodes |-> 0])
  BY <1>1, <1>3 DEF Ranked
<1>5. QED
  BY <1>2, <1>4 DEF Ranking, FreeUnmarked

(* The new node is numbered behind the one it relieves, and what came      *)
(* behind that one moves up.                                               *)
LEMMA GrowsRanking ==
  ASSUME TypeOK, Shape, Ranking, NEW u, NEW w, Grows(u, w), w = nb_node, nb_node' = nb_node + 1
  PROVE  Ranking'
<1>1. PICK rk : Ranked(rk)
  BY DEF Ranking
<1> DEFINE rk2 == [n \in Nodes' |-> IF n = w THEN rk[u] + 1
                                    ELSE IF rk[n] > rk[u] THEN rk[n] + 1 ELSE rk[n]]
<1>2. /\ \A n \in Nodes : rk[n] \in Nat /\ rk[n] \in 0..(nb_node - 1)
      /\ u \in Nodes /\ nb_node \in Nat
  BY <1>1 DEF Ranked, Nodes, Grows, TypeOK
<1>3. Nodes' = Nodes \cup {w} /\ Nodes' = 0..nb_node /\ w \notin Nodes
  BY <1>2 DEF Grows, Nodes
<1>4. rk2 \in [Nodes' -> Nodes']
  <2> SUFFICES ASSUME NEW n \in Nodes'
               PROVE  (IF n = w THEN rk[u] + 1
                       ELSE IF rk[n] > rk[u] THEN rk[n] + 1 ELSE rk[n]) \in 0..nb_node
    BY <1>3
  <2>1. rk[u] + 1 \in 0..nb_node
    BY <1>2
  <2>2. CASE n \in Nodes
    <3>1. rk[n] \in 0..(nb_node - 1)
      BY <1>2, <2>2
    <3>2. rk[n] + 1 \in 0..nb_node /\ rk[n] \in 0..nb_node
      BY <1>2, <3>1
    <3> QED BY <2>1, <3>2
  <2> QED BY <1>3, <2>1, <2>2
<1>5. /\ rk2[w] = rk[u] + 1
      /\ \A n \in Nodes : rk2[n] = IF rk[n] > rk[u] THEN rk[n] + 1 ELSE rk[n]
  BY <1>3
<1>6. \A n \in Nodes : Kids(n) \subseteq Nodes
  BY ChildBoundsTypes DEF Kids
<1> HIDE DEF rk2
<1>7. ASSUME NEW n \in Nodes', NEW c \in Kids(n)' PROVE rk2[c] > rk2[n]
  <2>1. CASE n = w
    <3>1. c \in Kids(u) /\ c \in Nodes
      BY <1>2, <1>6, <1>7, <2>1 DEF Grows
    <3>2. rk[c] > rk[u]
      BY <1>1, <1>2, <3>1 DEF Ranked
    <3> QED BY <1>2, <1>5, <2>1, <3>1, <3>2
  <2>2. CASE n # w
    <3>1. n \in Nodes
      BY <1>3, <2>2
    <3>2. CASE c \in Kids(n)
      <4>1. c \in Nodes /\ rk[c] > rk[n]
        BY <1>1, <1>6, <3>1, <3>2 DEF Ranked
      <4> QED BY <1>2, <1>5, <3>1, <4>1
    <3>3. CASE c = w /\ (n = u \/ u \in Kids(n))
      <4>1. rk[n] <= rk[u]
        BY <1>1, <1>2, <3>1, <3>3 DEF Ranked
      <4> QED BY <1>2, <1>5, <3>1, <3>3, <4>1
    <3> QED BY <1>7, <3>1, <3>2, <3>3 DEF Grows
  <2> QED BY <2>1, <2>2
<1>8. PICK r : r = rk2
  OBVIOUS
<1>9. /\ r \in [Nodes' -> Nodes']
      /\ \A n \in Nodes' : \A c \in Kids(n)' : r[c] > r[n]
  BY <1>4, <1>7, <1>8
<1>10. Ranked(r)'
  BY <1>9 DEF Ranked
<1>11. QED
  BY <1>10 DEF Ranking

\* A step that leaves the tree as it is leaves the numbering.
LEMMA SameRanking ==
  ASSUME TypeOK, Ranking, SameTree, Nodes' = Nodes
  PROVE  Ranking'
<1>1. PICK rk : Ranked(rk)
  BY DEF Ranking
<1>2. \A n \in Nodes : Kids(n)' = Kids(n)
  BY NodesAreAddresses DEF SameTree, Kids
<1>3. Ranked(rk)'
  BY <1>1, <1>2 DEF Ranked
<1>4. QED
  BY <1>3 DEF Ranking

\* The load marks nodes in use.
LEMMA MarksInUse ==
  ASSUME IInv, PrintRoot \/ PrintLayer
  PROVE  \E S \in SUBSET Nodes : pool' = MarkLoaded(S)
<1>1. TypeOK /\ Shape /\ Root \in Nodes /\ DOMAIN node_map \subseteq Nodes /\ cached \subseteq Nodes
  BY NodesAreAddresses DEF IInv, Load
<1>2. CASE PrintRoot
  <2>1. {Root} \cup DOMAIN node_map \subseteq Nodes
    BY <1>1
  <2> QED BY <1>2, <2>1 DEF PrintRoot
<1>3. CASE PrintLayer
  <2>1. cached \cup ChildrenOf(cached) \subseteq Nodes
    BY <1>1, ChildBoundsTypes DEF ChildrenOf
  <2> QED BY <1>3, <2>1 DEF PrintLayer
<1>4. QED
  BY <1>2, <1>3

\* The steps that take a node from the pool, and those that change no array.
LEMMA StepKinds ==
  ASSUME IInv, [Next]_vars
  PROVE  \/ /\ LeafInsert \/ OverflowCopy \/ SplitLeaf \/ SplitInner
            /\ \E u, w : Grows(u, w) /\ u = cur /\ w = nb_node /\ nb_node' = nb_node + 1
         \/ /\ SameTree /\ Nodes' = Nodes
            /\ \E S \in SUBSET Nodes : \A n \in Addr :
                 pool'[n].isLoaded2Switch = (pool[n].isLoaded2Switch \/ n \in S)
<1>0. PICK u, w, par : u = cur /\ w = nb_node /\ par = pool[cur].parent
  OBVIOUS
<1>1. CASE LeafInsert
  BY <1>0, <1>1, LeafInsertGrows DEF LeafInsert
<1>2. CASE OverflowCopy
  BY <1>0, <1>2, OverflowCopyGrows DEF OverflowCopy
<1>3. CASE SplitLeaf
  BY <1>0, <1>3, SplitLeafSplits DEF Splits, SplitLeaf
<1>4. CASE SplitInner
  BY <1>0, <1>4, SplitInnerSplits DEF Splits, SplitInner
<1>5. CASE PrintRoot \/ PrintLayer
  <2>1. PICK S \in SUBSET Nodes : pool' = MarkLoaded(S)
    BY <1>5, MarksInUse
  <2>2. nb_node' = nb_node /\ cover' = cover
    BY <1>5 DEF PrintRoot, PrintLayer
  <2>3. SameTree /\ Nodes' = Nodes
    BY <2>1, <2>2, MarkLoadedSame DEF IInv
  <2>4. \A n \in Addr : pool'[n].isLoaded2Switch = (pool[n].isLoaded2Switch \/ n \in S)
    BY <2>1, FieldTypes DEF MarkLoaded, Node, IInv
  <2> QED BY <2>3, <2>4
<1>6. CASE UNCHANGED <<pool, nb_node, cover>>
  <2>1. SameTree /\ Nodes' = Nodes
    BY <1>6, SameTreeUnchanged
  <2>2. \A n \in Addr : pool'[n].isLoaded2Switch = (pool[n].isLoaded2Switch \/ n \in {})
    BY <1>6, FieldTypes DEF Node, IInv
  <2>3. {} \in SUBSET Nodes
    OBVIOUS
  <2>4. \E S \in SUBSET Nodes : \A n \in Addr :
          pool'[n].isLoaded2Switch = (pool[n].isLoaded2Switch \/ n \in S)
    BY <2>2, <2>3
  <2> QED BY <2>1, <2>4
<1>7. \/ UNCHANGED <<pool, nb_node, cover>> \/ LeafInsert \/ OverflowCopy
      \/ SplitLeaf \/ SplitInner \/ PrintRoot \/ PrintLayer
  BY DEF Next, InsertStep, LoadStep, InsertBegin, Descend, OverflowDone, LoadBegin,
         Expand, treeVars, vars
<1>8. QED
  BY <1>1, <1>2, <1>3, <1>4, <1>5, <1>6, <1>7

LEMMA RankingStep ==
  ASSUME IInv, Ranking, FreeUnmarked, [Next]_vars
  PROVE  Ranking' /\ FreeUnmarked'
<1>1. TypeOK /\ Shape
  BY DEF IInv
<1>2. CASE \E u, w : Grows(u, w) /\ u = cur /\ w = nb_node /\ nb_node' = nb_node + 1
  <2>1. PICK u, w : Grows(u, w) /\ w = nb_node /\ nb_node' = nb_node + 1
    BY <1>2
  <2>2. Ranking'
    BY <1>1, <2>1, GrowsRanking
  <2>3. FreeUnmarked'
    BY <2>1 DEF FreeUnmarked, Grows
  <2> QED BY <2>2, <2>3
<1>3. CASE /\ SameTree /\ Nodes' = Nodes
           /\ \E S \in SUBSET Nodes : \A n \in Addr :
                pool'[n].isLoaded2Switch = (pool[n].isLoaded2Switch \/ n \in S)
  BY <1>1, <1>3, SameRanking DEF FreeUnmarked
<1>4. QED
  BY <1>2, <1>3, StepKinds

-----------------------------------------------------------------------------
(***************************************************************************)
(* A search finds a key exactly where the key is stored and the node the   *)
(* search starts at is responsible for it.                                 *)
(***************************************************************************)
(* Following the tree down, the value node of a stored key comes before    *)
(* the nodes run out.                                                      *)
LEMMA SearchArrives ==
  ASSUME IInv, Ranking, NEW k \in Stored, NEW n \in Nodes, ~Value(n), InRange(k, cover[n])
  PROVE  Search(n, k) = k
<1>1. /\ TypeOK /\ Shape /\ Nodes \subseteq Addr /\ k \in Keys
      /\ MaxNodes \in Nat /\ nb_node \in 1..MaxNodes /\ Null \notin Addr
  <2>1. TypeOK /\ Shape /\ Nodes \subseteq Addr
    BY NodesAreAddresses DEF IInv
  <2>2. nb_node \in 1..MaxNodes /\ k \in Keys
    BY <2>1 DEF TypeOK, Stored
  <2> QED BY <2>1, <2>2, ConstantsAssumption DEF Addr, Null
<1>2. PICK rk : Ranked(rk)
  BY DEF Ranking
<1>3. PICK find :
        /\ \A m : Search(m, k) = find[MaxNodes][m]
        /\ \A h \in 0..MaxNodes, m \in Addr \cup {Null} :
             find[h][m] = IF h = 0 \/ m = Null THEN NoKey
                          ELSE IF pool[m].isValue THEN pool[m].val
                          ELSE find[h - 1][NextFor(m, k)]
  BY <1>1, SearchUnfold
<1>4. \A m \in Nodes : rk[m] \in 0..(nb_node - 1)
  BY <1>2 DEF Ranked, Nodes
<1> DEFINE On(m) == \/ Value(m) /\ pool[m].val = k
                    \/ ~Value(m) /\ InRange(k, cover[m])
           Ok(h) == \A m \in Nodes : On(m) /\ h >= nb_node - rk[m] => find[h][m] = k
           T == {h \in 0..MaxNodes : Ok(h)}
<1>5. ASSUME NEW m \in Nodes, ~Value(m), InRange(k, cover[m])
      PROVE  NextFor(m, k) \in Kids(m) /\ NextFor(m, k) \in Nodes /\ On(NextFor(m, k))
  <2> DEFINE i == LowerBound(pool[m].key, k)
  <2>1. /\ i \in 1..Len(pool[m].child)
        /\ IF Leaf(m) THEN Value(pool[m].child[i]) /\ pool[pool[m].child[i]].val = k
           ELSE ~Value(pool[m].child[i]) /\ InRange(k, cover[pool[m].child[i]])
    BY <1>5, HopStays DEF Routing
  <2>2. DOMAIN pool[m].child = 1..Len(pool[m].child)
    BY <1>1, FieldTypes, LenProperties
  <2>3. NextFor(m, k) = pool[m].child[i] /\ NextFor(m, k) \in Kids(m)
    BY <2>1, <2>2 DEF NextFor, Kids, ToSet
  <2>4. NextFor(m, k) \in Nodes
    BY <1>1, <2>3, ChildBoundsTypes DEF Kids
  <2> QED BY <2>1, <2>3, <2>4
<1>6. ASSUME NEW h \in 1..MaxNodes, Ok(h - 1) PROVE Ok(h)
  <2> SUFFICES ASSUME NEW m \in Nodes, On(m), h >= nb_node - rk[m] PROVE find[h][m] = k
    OBVIOUS
  <2>1. h \in 0..MaxNodes /\ h # 0 /\ m \in Addr \cup {Null} /\ m # Null
    BY <1>1
  <2>2. CASE Value(m)
    BY <1>3, <2>1, <2>2 DEF Value
  <2>3. CASE ~Value(m)
    <3> DEFINE c == NextFor(m, k)
    <3>1. c \in Kids(m) /\ c \in Nodes /\ On(c)
      BY <1>5, <2>3
    <3>2. rk[c] > rk[m]
      BY <1>2, <3>1 DEF Ranked
    <3> HIDE DEF c, On
    <3>3. h - 1 >= nb_node - rk[c]
      BY <1>1, <1>4, <3>1, <3>2
    <3>4. find[h - 1][c] = k
      BY <1>6, <3>1, <3>3
    <3> QED BY <1>3, <2>1, <2>3, <3>4 DEF Value, c
  <2> QED BY <2>2, <2>3
<1>7. Ok(0)
  BY <1>1, <1>4
<1> HIDE DEF Ok
<1>8. 0 \in T /\ \A h \in 1..MaxNodes : h - 1 \in T => h \in T
  BY <1>1, <1>6, <1>7
<1>9. Ok(MaxNodes)
  <2>1. MaxNodes \in T
    <3> HIDE DEF T
    <3>1. MaxNodes \in Nat
      BY <1>1
    <3>2. \A h \in 0..MaxNodes : h \in T
      BY ONLY <1>8, <3>1, UpTo
    <3> QED BY <3>1, <3>2
  <2> QED BY <2>1
<1>10. find[MaxNodes][n] = k
  <2>1. On(n)
    OBVIOUS
  <2>2. MaxNodes >= nb_node - rk[n]
    BY <1>1, <1>4
  <2> HIDE DEF On
  <2> QED BY <1>9, <2>1, <2>2 DEF Ok
<1>11. QED
  BY <1>3, <1>10

(* No search finds a key that is not stored, or that is another node's.    *)
LEMMA SearchOnlyFinds ==
  ASSUME IInv, NEW k \in Keys, NEW n \in Nodes, ~Value(n), Search(n, k) = k
  PROVE  k \in Stored /\ InRange(k, cover[n])
<1>1. /\ TypeOK /\ Shape /\ Nodes \subseteq Addr /\ MaxNodes \in Nat /\ k \in Int
      /\ k # NoKey /\ Null \notin Addr
  <2>1. TypeOK /\ Shape /\ Nodes \subseteq Addr
    BY NodesAreAddresses DEF IInv
  <2> QED BY <2>1, ConstantsAssumption DEF Addr, Null, NoKey
<1>3. PICK find :
        /\ \A m : Search(m, k) = find[MaxNodes][m]
        /\ \A h \in 0..MaxNodes, m \in Addr \cup {Null} :
             find[h][m] = IF h = 0 \/ m = Null THEN NoKey
                          ELSE IF pool[m].isValue THEN pool[m].val
                          ELSE find[h - 1][NextFor(m, k)]
  BY <1>1, SearchUnfold
<1> DEFINE Ok(h) == \A m \in Nodes : ~Value(m) /\ find[h][m] = k =>
                      k \in Stored /\ InRange(k, cover[m])
           T == {h \in 0..MaxNodes : Ok(h)}
<1>5. ASSUME NEW m \in Nodes, ~Value(m), NextFor(m, k) # Null
      PROVE  \E i \in 1..Len(pool[m].child) : NextFor(m, k) = pool[m].child[i]
  BY <1>1, <1>5, FieldTypes, LenProperties DEF NextFor
<1>6. ASSUME NEW h \in 1..MaxNodes, Ok(h - 1) PROVE Ok(h)
  <2> SUFFICES ASSUME NEW m \in Nodes, ~Value(m), find[h][m] = k
               PROVE  k \in Stored /\ InRange(k, cover[m])
    OBVIOUS
  <2> DEFINE c == NextFor(m, k)
  <2>1. /\ h \in 0..MaxNodes /\ h # 0 /\ m \in Addr \cup {Null} /\ m # Null /\ m \in Addr
        /\ h - 1 \in 0..MaxNodes
    BY <1>1
  <2>2. find[h - 1][c] = k
    BY <1>3, <2>1 DEF Value
  <2>3. c # Null
    BY <1>1, <1>3, <2>1, <2>2
  <2>4. PICK i \in 1..Len(pool[m].child) : c = pool[m].child[i]
    BY <1>5, <2>3
  <2>5. c \in Nodes /\ c \in Addr
    BY <1>1, <2>4, ChildFacts
  <2>6. CASE Leaf(m)
    <3>1. Value(c) /\ i \in 1..Len(pool[m].key) /\ pool[c].val = pool[m].key[i]
      BY <1>1, <2>4, <2>6 DEF Shape, LeafShape
    <3>2. find[h - 1][c] = pool[c].val
      <4>1. h - 1 # 0
        BY <1>1, <1>3, <2>1, <2>2, <2>5
      <4> QED BY <1>1, <1>3, <2>1, <2>5, <3>1, <4>1 DEF Value
    <3>3. pool[m].key[i] = k
      BY <2>2, <3>1, <3>2
    <3> QED BY <2>6, <3>1, <3>3 DEF IInv, LeavesComplete, Shape, KeysShape, InRange
  <2>7. CASE ~Leaf(m)
    <3>1. Inner(m) /\ ~Value(c)
      BY <1>1, <2>4, <2>7, ChildFacts DEF Inner, Leaf, Value
    <3>2. k \in Stored /\ InRange(k, cover[c])
      BY <1>6, <2>2, <2>5, <3>1
    <3>3. cover[m].lo <= cover[c].lo /\ cover[c].hi <= cover[m].hi
      BY <1>1, <2>4, <3>1, ChildWithin
    <3>4. /\ cover[m].lo \in Int /\ cover[m].hi \in Int
          /\ cover[c].lo \in Int /\ cover[c].hi \in Int
      BY <1>1, <2>1, <2>5, FieldTypes
    <3> QED BY <1>1, <3>2, <3>3, <3>4 DEF InRange
  <2> QED BY <2>6, <2>7
<1>7. Ok(0)
  BY <1>1, <1>3
<1> HIDE DEF Ok
<1>8. 0 \in T /\ \A h \in 1..MaxNodes : h - 1 \in T => h \in T
  BY <1>1, <1>6, <1>7
<1>9. Ok(MaxNodes)
  <2>1. MaxNodes \in T
    <3> HIDE DEF T
    <3>1. MaxNodes \in Nat
      BY <1>1
    <3>2. \A h \in 0..MaxNodes : h \in T
      BY ONLY <1>8, <3>1, UpTo
    <3> QED BY <3>1, <3>2
  <2> QED BY <2>1
<1>10. QED
  BY <1>3, <1>9 DEF Ok

\* The root is responsible for every key.
LEMMA RootFinds ==
  ASSUME IInv, Ranking, NEW k \in Keys
  PROVE  Search(Root, k) = k <=> k \in Stored
<1>1. Root \in Nodes /\ ~Value(Root) /\ InRange(k, cover[Root])
  <2>1. Root \in Nodes /\ ~Value(Root) /\ cover[Root] = KeyRange(0, KeyMax)
    BY NodesAreAddresses DEF IInv, Shape, ParentShape
  <2>2. k \in 1..KeyMax
    BY ConstantsAssumption
  <2> QED BY <2>1, <2>2, ConstantsAssumption DEF InRange, KeyRange
<1>2. QED
  BY <1>1, SearchArrives, SearchOnlyFinds

THEOREM TreeRanked == Spec => [](IInv /\ Ranking /\ FreeUnmarked)
<1>1. IInv /\ Ranking /\ FreeUnmarked /\ [Next]_vars => Ranking' /\ FreeUnmarked'
  BY RankingStep
<1>2. Spec => [](Ranking /\ FreeUnmarked)
  BY Invariance, InitRanking, <1>1, PTL DEF Spec
<1>3. QED
  BY Invariance, <1>2, PTL

(* A lookup finds every key inserted so far, in every state of every       *)
(* insert, split and copy (lookup(), insert(), overflow()).                *)
THEOREM InsertedKeysFound == Spec => []EveryKeyFound
<1>1. IInv /\ Ranking => EveryKeyFound
  <2> SUFFICES ASSUME IInv, Ranking, NEW k \in Stored PROVE Search(Root, k) = k
    BY DEF EveryKeyFound
  <2>1. k \in Keys
    BY DEF Stored, IInv, TypeOK
  <2> QED BY <2>1, RootFinds
<1>2. QED
  BY TreeRanked, <1>1, PTL

\* No step takes a stored key back.
LEMMA StoredStays ==
  ASSUME [Next]_vars
  PROVE  Stored \subseteq Stored'
<1>1. CASE \E k \in Keys : InsertBegin(k)
  BY <1>1 DEF InsertBegin, Stored
<1>2. CASE Descend \/ LeafInsert
  BY <1>2 DEF Descend, LeafInsert, Stored, treeVars
<1>3. CASE \/ OverflowDone \/ OverflowCopy \/ SplitLeaf \/ SplitInner \/ LoadBegin
           \/ (\E n \in Addr : Expand(n)) \/ PrintRoot \/ PrintLayer
  <2>1. key_map' = key_map /\ pc # "descend" /\ pc' # "descend"
    BY <1>3 DEF OverflowDone, OverflowCopy, SplitLeaf, SplitInner, Splitting, LoadBegin,
                Expand, PrintRoot, PrintLayer, treeVars
  <2> QED BY <2>1 DEF Stored
<1>4. CASE UNCHANGED vars
  BY <1>4 DEF vars, treeVars, Stored
<1>5. QED
  BY <1>1, <1>2, <1>3, <1>4 DEF Next, InsertStep, LoadStep

\* A node in use stays in use and of its kind; a value node keeps its value.
LEMMA NodesStay ==
  ASSUME IInv, [Next]_vars, NEW n \in Nodes
  PROVE  /\ n \in Nodes' /\ Value(n)' = Value(n)
         /\ Value(n) => pool'[n].val = pool[n].val
         /\ pool[n].isLoaded2Switch => pool'[n].isLoaded2Switch
<1>1. n \in Addr
  BY NodesAreAddresses DEF IInv
<1>2. CASE \E u, w : Grows(u, w)
  BY <1>1, <1>2 DEF Grows, Value
<1>3. CASE /\ SameTree /\ Nodes' = Nodes
           /\ \E S \in SUBSET Nodes : \A m \in Addr :
                pool'[m].isLoaded2Switch = (pool[m].isLoaded2Switch \/ m \in S)
  BY <1>1, <1>3 DEF SameTree, Value
<1>4. QED
  BY <1>2, <1>3, StepKinds

\* The search from a value node ends there.
LEMMA ValueSearch ==
  ASSUME TypeOK, NEW k \in Keys, NEW n \in Addr, Value(n)
  PROVE  Search(n, k) = pool[n].val
<1>1. MaxNodes \in Nat /\ MaxNodes # 0 /\ n # Null
  BY ConstantsAssumption DEF Addr, Null
<1>2. MaxNodes \in 0..MaxNodes
  BY <1>1
<1>3. QED
  BY <1>1, <1>2, SearchUnfold DEF Value

\* Both kinds of node a search can start from, in the state before and after.
SearchResults ==
  /\ \A k \in Keys, n \in Nodes :
       /\ Value(n) => Search(n, k) = pool[n].val
       /\ ~Value(n) /\ Search(n, k) = k => k \in Stored /\ InRange(k, cover[n])
  /\ \A k \in Stored, n \in Nodes :
       ~Value(n) /\ InRange(k, cover[n]) => Search(n, k) = k

LEMMA ResultsHold == IInv /\ Ranking => SearchResults
<1> SUFFICES ASSUME IInv, Ranking PROVE SearchResults
  OBVIOUS
<1>1. TypeOK /\ Nodes \subseteq Addr
  BY NodesAreAddresses DEF IInv
<1>2. ASSUME NEW k \in Keys, NEW n \in Nodes
      PROVE  /\ Value(n) => Search(n, k) = pool[n].val
             /\ ~Value(n) /\ Search(n, k) = k => k \in Stored /\ InRange(k, cover[n])
  <2>1. CASE Value(n)
    BY <1>1, <2>1, ValueSearch
  <2>2. CASE ~Value(n)
    BY <2>2, SearchOnlyFinds
  <2> QED BY <2>1, <2>2
<1>3. QED
  BY <1>2, SearchArrives DEF SearchResults

LEMMA LoadedSearchStep ==
  ASSUME IInv, FreeUnmarked, SearchResults, SearchResults', Next,
         NEW n \in Addr, pool[n].isLoaded2Switch
  PROVE  /\ pool'[n].isLoaded2Switch
         /\ \A k \in Stored : Search(n, k) = k => Search(n, k)' = k
<1>1. n \in Nodes /\ Stored \subseteq Keys /\ Stored \subseteq Stored'
  BY StoredStays DEF FreeUnmarked, IInv, TypeOK, Stored
<1>2. /\ n \in Nodes' /\ Value(n)' = Value(n) /\ pool'[n].isLoaded2Switch
      /\ Value(n) => pool'[n].val = pool[n].val
  BY <1>1, NodesStay
<1>3. ASSUME NEW k \in Stored, Search(n, k) = k PROVE Search(n, k)' = k
  <2>1. CASE Value(n)
    <3>1. Search(n, k) = pool[n].val
      BY <1>1, <2>1 DEF SearchResults
    <3>2. Search(n, k)' = pool'[n].val
      BY <1>1, <1>2, <2>1 DEF SearchResults
    <3> QED BY <1>2, <1>3, <2>1, <3>1, <3>2
  <2>2. CASE ~Value(n)
    <3>1. InRange(k, cover[n])
      BY <1>1, <1>3, <2>2 DEF SearchResults
    <3>2. cover'[n] = cover[n]
      BY <1>1, <2>2, LoadedStep
    <3>3. InRange(k, cover[n])'
      BY <3>1, <3>2 DEF InRange
    <3> QED BY <1>1, <1>2, <2>2, <3>3 DEF SearchResults
  <2> QED BY <2>1, <2>2
<1>4. QED
  BY <1>2, <1>3

(* Whatever stored key a loaded node leads to, it goes on leading to, so   *)
(* that what the switch holds stays usable while the tree grows            *)
(* ("ensures that the address of cur loaded to the switch is still valid", *)
(* overflow()'s copy_node).                                                *)
THEOREM LoadedStayGood == Spec => LoadedAddressesStayGood
<1>1. Spec => []SearchResults
  <2>1. IInv /\ Ranking => SearchResults
    BY ResultsHold
  <2> QED BY TreeRanked, <2>1, PTL
<1>2. /\ IInv /\ FreeUnmarked /\ SearchResults /\ SearchResults' /\ [Next]_vars
      => [\A n \in Addr : pool[n].isLoaded2Switch =>
            /\ pool'[n].isLoaded2Switch
            /\ \A k \in Stored : Search(n, k) = k => Search(n, k)' = k]_vars
  BY LoadedSearchStep
<1>3. QED
  BY TreeRanked, <1>1, <1>2, PTL DEF Spec, LoadedAddressesStayGood

-----------------------------------------------------------------------------
(***************************************************************************)
(* The tree is the abstract index: what a lookup finds is the set of the   *)
(* stored keys, and every step shows there as one of its steps or not.     *)
(***************************************************************************)
(* The key of the insert in progress has been counted.                     *)
InsertingKnown == pc \in {"descend", "overflow", "split"} => in_key \in key_map

LEMMA InsertingKnownStep ==
  ASSUME InsertingKnown, [Next]_vars
  PROVE  InsertingKnown'
<1>1. CASE \E k \in Keys : InsertBegin(k)
  BY <1>1 DEF InsertBegin, InsertingKnown
<1>2. CASE InsertStep
  BY <1>2 DEF InsertStep, Descend, LeafInsert, OverflowDone, OverflowCopy, SplitLeaf,
              SplitInner, Splitting, InsertingKnown, treeVars
<1>3. CASE LoadBegin \/ LoadStep
  BY <1>3 DEF LoadBegin, LoadStep, Expand, PrintRoot, PrintLayer, InsertingKnown, treeVars
<1>4. CASE UNCHANGED vars
  BY <1>4 DEF vars, treeVars, InsertingKnown
<1>5. QED
  BY <1>1, <1>2, <1>3, <1>4 DEF Next

Visible == {k \in Keys : Search(Root, k) = k}

LEMMA VisibleIsStored == IInv /\ Ranking => Visible = Stored
<1> SUFFICES ASSUME IInv, Ranking PROVE Visible = Stored
  OBVIOUS
<1>1. Stored \subseteq Keys
  BY DEF IInv, TypeOK, Stored
<1>2. QED
  BY <1>1, RootFinds DEF Visible

(* Each step of an insert, seen through the stored keys.                   *)
LEMMA IndexStep ==
  ASSUME TypeOK, InsertingKnown, Visible = Stored, Visible' = Stored', [Next]_vars
  PROVE  [Index!Next]_Index!vars
<1> USE DEF Index!vars, Index!Next, Visible
<1>0. NoKey \notin Keys /\ in_key \in Keys \cup {NoKey} /\ key_map \subseteq Keys
  BY ConstantsAssumption DEF NoKey, TypeOK
<1>1. ASSUME NEW k \in Keys, InsertBegin(k) PROVE Index!Call(k)
  <2>1. Stored = key_map /\ k \notin key_map /\ Stored' = key_map
    BY <1>1 DEF InsertBegin, Stored
  <2>2. Inserting = NoKey /\ Inserting' = k
    BY <1>1 DEF InsertBegin, Inserting
  <2> QED BY <2>1, <2>2 DEF Index!Call
<1>2. CASE LeafInsert
  <2>1. /\ Stored = key_map \ {in_key} /\ Stored' = key_map /\ in_key \in key_map
        /\ Inserting = in_key /\ Inserting' = in_key
    BY <1>2 DEF LeafInsert, Stored, Inserting, InsertingKnown
  <2>2. Index!Appear
    BY <1>0, <2>1 DEF Index!Appear
  <2> QED BY <2>2
<1>3. CASE OverflowDone
  <2>1. /\ Stored = key_map /\ Stored' = key_map /\ in_key \in key_map
        /\ Inserting = in_key /\ Inserting' = NoKey
    BY <1>3 DEF OverflowDone, Stored, Inserting, InsertingKnown, treeVars
  <2>2. Index!Return
    BY <2>1 DEF Index!Return
  <2> QED BY <2>2
<1>4. CASE Descend \/ OverflowCopy \/ SplitLeaf \/ SplitInner
  <2>1. Stored' = Stored /\ Inserting' = Inserting
    BY <1>4 DEF Descend, OverflowCopy, SplitLeaf, SplitInner, Splitting, Stored,
                Inserting, treeVars
  <2> QED BY <2>1
<1>5. CASE LoadBegin \/ LoadStep \/ UNCHANGED vars
  <2>1. Stored' = Stored /\ Inserting' = Inserting
    BY <1>5 DEF LoadBegin, LoadStep, Expand, PrintRoot, PrintLayer, Stored, Inserting,
                treeVars, vars
  <2> QED BY <2>1
<1>6. QED
  BY <1>1, <1>2, <1>3, <1>4, <1>5 DEF Next, InsertStep

(* insert() is atomic to lookup(): the only key an insert ever adds to     *)
(* what a lookup finds is its own, it appears in one step between call and *)
(* return, and nothing found is lost by a split, a copy or a load.         *)
THEOREM TreeIsAnIndex == Spec => Index!Safety
<1>1. Init => InsertingKnown
  BY DEF Init, InsertingKnown
<1>2. Spec => []InsertingKnown
  BY <1>1, InsertingKnownStep, PTL DEF Spec
<1>3. Spec => [](Visible = Stored)
  BY TreeRanked, VisibleIsStored, PTL
<1>4. Init /\ Visible = Stored => Index!Init
  BY DEF Init, Index!Init, Stored, Inserting, Visible
<1>5. /\ TypeOK /\ InsertingKnown /\ Visible = Stored /\ (Visible = Stored)' /\ [Next]_vars
      => [Index!Next]_Index!vars
  BY IndexStep
<1>6. QED
  BY TypeCorrect, <1>2, <1>3, <1>4, <1>5, PTL DEF Spec, Index!Safety

-----------------------------------------------------------------------------
(***************************************************************************)
(* Before the load no node carries a mark, so that only the root is ever   *)
(* copied and the tree stays as deep everywhere: a level for each node,    *)
(* one more for each hop, `depth - 1' at the leaves.                       *)
(***************************************************************************)
Levels(lv) ==
  /\ lv \in [Nodes -> Nodes] /\ lv[Root] = 0
  /\ \A n \in Nodes : Inner(n) => \A c \in Kids(n) : lv[c] = lv[n] + 1
  /\ \A n \in Nodes : Leaf(n) => lv[n] = depth - 1

(* depth()'s recursion, unfolded: one more than the parent's.              *)
LEMMA DepthUnfold ==
  ASSUME TypeOK
  PROVE  \E up :
           /\ \A n : NodeDepth(n) = up[MaxNodes][n]
           /\ \A h \in 0..MaxNodes, m \in Addr :
                up[h][m] = IF h = 0 \/ pool[m].parent = Null THEN 0
                           ELSE 1 + up[h - 1][pool[m].parent]
<1> DEFINE D == [Addr -> Nat]
           par == [m \in Addr |-> pool[m].parent]
           turn(g) == [m \in Addr |-> IF par[m] = Null THEN 0 ELSE 1 + g[par[m]]]
           step == [g \in D |-> turn(g)]
           none == [m \in Addr |-> 0]
           unfold(f) ==
             [h \in 0..MaxNodes |->
                [m \in Addr |-> IF h = 0 \/ pool[m].parent = Null THEN 0
                                ELSE 1 + f[h - 1][pool[m].parent]]]
<1>1. par \in [Addr -> Addr \cup {Null}]
  BY DEF TypeOK, Node
<1>2. none \in D
  OBVIOUS
<1>3. step \in [D -> D]
  <2>1. ASSUME NEW g \in [Addr -> Nat] PROVE turn(g) \in [Addr -> Nat]
    <3> HIDE DEF par
    <3> QED BY <1>1
  <2> HIDE DEF turn
  <2> QED BY <2>1
<1>4. MaxNodes \in Nat
  BY ConstantsAssumption
<1>5. PICK f \in [0..MaxNodes -> D] :
        f[0] = none /\ \A h \in 1..MaxNodes : f[h] = step[f[h - 1]]
  <2> HIDE DEF step, none, D
  <2> QED BY ONLY <1>2, <1>3, <1>4, Iteration, SMTT(60)
<1>6. f = unfold(f)
  <2>1. ASSUME NEW h \in 0..MaxNodes PROVE f[h] = unfold(f)[h]
    <3>1. CASE h = 0
      BY <1>5, <3>1
    <3>2. CASE h # 0
      <4>1. h \in 1..MaxNodes /\ h - 1 \in 0..MaxNodes
        BY <1>4, <3>2
      <4>2. f[h] = turn(f[h - 1])
        BY <1>5, <4>1
      <4>3. turn(f[h - 1]) = unfold(f)[h]
        BY <3>2
      <4> QED BY <4>2, <4>3
    <3> QED BY <3>1, <3>2
  <2> HIDE DEF D
  <2>2. DOMAIN f = 0..MaxNodes /\ f = [h \in 0..MaxNodes |-> f[h]]
    BY <1>5
  <2>3. unfold(f) = [h \in 0..MaxNodes |-> unfold(f)[h]]
    OBVIOUS
  <2> HIDE DEF unfold
  <2> QED BY <2>1, <2>2, <2>3
<1> DEFINE up == CHOOSE g : g = unfold(g)
<1>7. up = unfold(up)
  <2> HIDE DEF unfold
  <2> QED BY <1>6
<1>8. \A n : NodeDepth(n) = up[MaxNodes][n]
  BY DEF NodeDepth
<1>9. \A h \in 0..MaxNodes, m \in Addr :
        up[h][m] = IF h = 0 \/ pool[m].parent = Null THEN 0
                   ELSE 1 + up[h - 1][pool[m].parent]
  <2> HIDE DEF up
  <2> TAKE h \in 0..MaxNodes, m \in Addr
  <2>1. up[h][m] = unfold(up)[h][m]
    <3> HIDE DEF unfold
    <3> QED BY <1>7
  <2>2. unfold(up)[h][m] = IF h = 0 \/ pool[m].parent = Null THEN 0
                           ELSE 1 + up[h - 1][pool[m].parent]
    OBVIOUS
  <2> HIDE DEF unfold
  <2> QED BY <2>1, <2>2
<1> HIDE DEF up
<1>10. QED
  BY <1>8, <1>9

\* The level of a node is what depth() counts on the way to the root.
LEMMA NodeDepthIsLevel ==
  ASSUME IInv, NEW lv, Levels(lv), NEW n \in Nodes, ~Value(n)
  PROVE  NodeDepth(n) = lv[n]
<1>1. /\ TypeOK /\ Shape /\ Nodes \subseteq Addr /\ MaxNodes \in Nat
      /\ nb_node \in 1..MaxNodes /\ Null \notin Nodes /\ Root \in Nodes
  <2>1. TypeOK /\ Shape /\ Nodes \subseteq Addr /\ Root \in Nodes
    BY NodesAreAddresses DEF IInv
  <2>2. nb_node \in 1..MaxNodes
    BY <2>1 DEF TypeOK
  <2> QED BY <2>1, <2>2, ConstantsAssumption DEF Nodes, Null
<1>2. PICK up :
        /\ \A m : NodeDepth(m) = up[MaxNodes][m]
        /\ \A h \in 0..MaxNodes, m \in Addr :
             up[h][m] = IF h = 0 \/ pool[m].parent = Null THEN 0
                        ELSE 1 + up[h - 1][pool[m].parent]
  BY <1>1, DepthUnfold
<1>3. \A m \in Nodes : lv[m] \in 0..(nb_node - 1)
  BY DEF Levels, Nodes
<1>4. ASSUME NEW m \in Nodes \ {Root}, ~Value(m)
      PROVE  /\ pool[m].parent \in Nodes /\ ~Value(pool[m].parent)
             /\ lv[m] = lv[pool[m].parent] + 1
  <2>1. /\ pool[m].parent \in Nodes /\ Inner(pool[m].parent)
        /\ \E i \in 1..Len(pool[pool[m].parent].child) : pool[pool[m].parent].child[i] = m
    BY <1>1, <1>4 DEF Shape, ParentShape
  <2>2. m \in Kids(pool[m].parent)
    BY <1>1, <2>1, FieldTypes, LenProperties DEF Kids, ToSet
  <2> QED BY <2>1, <2>2 DEF Levels, Inner, Value
<1> DEFINE Ok(h) == \A m \in Nodes : ~Value(m) /\ lv[m] <= h => up[h][m] = lv[m]
           T == {h \in 0..MaxNodes : Ok(h)}
<1>5. Ok(0)
  <2> SUFFICES ASSUME NEW m \in Nodes, lv[m] <= 0 PROVE up[0][m] = lv[m]
    OBVIOUS
  <2> QED BY <1>1, <1>2, <1>3
<1>6. ASSUME NEW h \in 1..MaxNodes, Ok(h - 1) PROVE Ok(h)
  <2> SUFFICES ASSUME NEW m \in Nodes, ~Value(m), lv[m] <= h PROVE up[h][m] = lv[m]
    OBVIOUS
  <2>1. m \in Addr /\ h \in 0..MaxNodes /\ h # 0
    BY <1>1
  <2>2. CASE m = Root
    BY <1>1, <1>2, <2>1, <2>2 DEF Shape, ParentShape, Levels
  <2>3. CASE m # Root
    <3>1. /\ pool[m].parent \in Nodes /\ ~Value(pool[m].parent)
          /\ lv[m] = lv[pool[m].parent] + 1
      BY <1>4, <2>3
    <3>2. pool[m].parent # Null /\ lv[pool[m].parent] <= h - 1
      BY <1>1, <1>3, <3>1
    <3>3. up[h - 1][pool[m].parent] = lv[pool[m].parent]
      BY <1>6, <3>1, <3>2
    <3> QED BY <1>2, <1>3, <2>1, <3>1, <3>2, <3>3
  <2> QED BY <2>2, <2>3
<1> HIDE DEF Ok
<1>7. 0 \in T /\ \A h \in 1..MaxNodes : h - 1 \in T => h \in T
  BY <1>1, <1>5, <1>6
<1>8. Ok(MaxNodes)
  <2>1. MaxNodes \in T
    <3> HIDE DEF T
    <3>1. MaxNodes \in Nat
      BY <1>1
    <3>2. \A h \in 0..MaxNodes : h \in T
      BY ONLY <1>7, <3>1, UpTo
    <3> QED BY <3>1, <3>2
  <2> QED BY <2>1
<1>9. lv[n] <= MaxNodes
  BY <1>1, <1>3
<1>10. QED
  BY <1>2, <1>8, <1>9 DEF Ok

\* A value node below a leaf has no level to speak of.
LEMMA LeafInsertLevels ==
  ASSUME IInv, NEW lv, Levels(lv), LeafInsert
  PROVE  \E r : Levels(r)'
<1>0. PICK u, w : u = cur /\ w = nb_node
  OBVIOUS
<1>1. /\ Grows(u, w) /\ pool'[w].isValue /\ ~pool'[w].isLeaf
      /\ \A n \in Addr \ {w} : pool'[n].isLeaf = pool[n].isLeaf
      /\ \A n \in Nodes \ {u} : Kids(n)' = Kids(n)
  BY <1>0, LeafInsertGrows
<1>2. /\ TypeOK /\ Shape /\ Nodes \subseteq Addr /\ Root \in Nodes /\ nb_node \in Nat
      /\ nb_node' = nb_node + 1 /\ depth' = depth /\ Leaf(u)
  <2>1. TypeOK /\ Shape /\ Nodes \subseteq Addr /\ Root \in Nodes
    BY NodesAreAddresses DEF IInv
  <2> QED BY <1>0, <2>1 DEF TypeOK, LeafInsert, Leaf
<1>3. PICK r : r = [n \in 0..nb_node |-> IF n \in Nodes THEN lv[n] ELSE 0]
  OBVIOUS
<1>4. Nodes' = 0..nb_node /\ Nodes \subseteq Nodes' /\ Nodes' = Nodes \cup {w} /\ w \notin Nodes
  BY <1>1, <1>2 DEF Nodes, Grows
<1>5. r \in [Nodes' -> Nodes'] /\ \A n \in Nodes : r[n] = lv[n]
  <2>1. \A n \in Nodes : lv[n] \in Nodes' /\ n \in 0..nb_node
    BY <1>4 DEF Levels
  <2>2. 0 \in Nodes'
    BY <1>2, <1>4
  <2> QED BY <1>3, <1>4, <2>1, <2>2
<1>6. ASSUME NEW n \in Nodes', Inner(n)', NEW c \in Kids(n)' PROVE r[c] = r[n] + 1
  <2>1. n \in Nodes /\ n \in Addr /\ n # w
    BY <1>1, <1>2, <1>4, <1>6 DEF Inner
  <2>2. Inner(n) /\ n # u
    BY <1>1, <1>2, <1>6, <2>1 DEF Inner, Leaf, Grows
  <2>3. c \in Kids(n) /\ c \in Nodes
    BY <1>1, <1>2, <1>6, <2>1, <2>2, ChildBoundsTypes DEF Kids
  <2> QED BY <1>5, <2>1, <2>2, <2>3 DEF Levels
<1>7. ASSUME NEW n \in Nodes', Leaf(n)' PROVE r[n] = depth' - 1
  <2>1. n \in Nodes /\ n \in Addr /\ Leaf(n)
    BY <1>1, <1>2, <1>4, <1>7 DEF Leaf
  <2> QED BY <1>2, <1>5, <2>1 DEF Levels
<1>8. Levels(r)'
  <2>1. r[Root] = 0
    BY <1>2, <1>5 DEF Levels
  <2> QED BY <1>5, <1>6, <1>7, <2>1 DEF Levels
<1>9. QED
  BY <1>8

\* The copy of the root puts one more level below it.
LEMMA CopyLevels ==
  ASSUME IInv, NEW lv, Levels(lv), OverflowCopy, cur = Root
  PROVE  \E r : Levels(r)'
<1>0. PICK u, w : u = cur /\ w = nb_node
  OBVIOUS
<1>1. /\ Grows(u, w) /\ Kids(w)' = Kids(u) /\ Kids(u)' = {w}
      /\ ~pool'[w].isValue /\ ~pool'[u].isLeaf /\ pool'[w].isLeaf = pool[u].isLeaf
      /\ ~pool[u].isValue
      /\ \A n \in Addr \ {u, w} : pool'[n].isLeaf = pool[n].isLeaf
      /\ \A n \in Nodes \ {u} : Kids(n)' = Kids(n)
  BY <1>0, OverflowCopyGrows
<1>2. /\ TypeOK /\ Shape /\ Nodes \subseteq Addr /\ Root \in Nodes /\ nb_node \in Nat
      /\ nb_node' = nb_node + 1 /\ depth' = depth + 1 /\ u = Root /\ depth \in Nat
  <2>1. TypeOK /\ Shape /\ Nodes \subseteq Addr /\ Root \in Nodes
    BY NodesAreAddresses DEF IInv
  <2> QED BY <1>0, <2>1 DEF TypeOK, OverflowCopy
<1>3. PICK r : r = [n \in 0..nb_node |-> IF n = Root THEN 0
                                         ELSE IF n \in Nodes THEN lv[n] + 1 ELSE 1]
  OBVIOUS
<1>4. /\ Nodes' = 0..nb_node /\ Nodes \subseteq Nodes' /\ Nodes' = Nodes \cup {w} /\ w \notin Nodes
      /\ w # Root /\ nb_node >= 1
  BY <1>1, <1>2 DEF Nodes, Grows, TypeOK
<1>5. /\ r \in [Nodes' -> Nodes'] /\ r[Root] = 0 /\ r[w] = 1
      /\ \A n \in Nodes \ {Root} : r[n] = lv[n] + 1
      /\ \A n \in Nodes : lv[n] \in Nat
  <2>1. \A n \in Nodes : lv[n] \in Nat /\ lv[n] + 1 \in 0..nb_node
    <3> TAKE n \in Nodes
    <3>1. lv[n] \in 0..(nb_node - 1)
      BY DEF Levels, Nodes
    <3> QED BY <1>2, <3>1
  <2>2. 0 \in 0..nb_node /\ 1 \in 0..nb_node /\ Root = 0
    BY <1>2, <1>4 DEF Root
  <2>3. \A n \in Nodes : n \in 0..nb_node
    BY <1>4
  <2>4. w \in 0..nb_node
    BY <1>4
  <2>5. r \in [0..nb_node -> 0..nb_node]
    BY <1>3, <2>1, <2>2
  <2>6. r[Root] = 0 /\ r[w] = 1 /\ \A n \in Nodes \ {Root} : r[n] = lv[n] + 1
    BY <1>2, <1>3, <1>4, <2>3, <2>4
  <2> QED BY <1>4, <2>1, <2>5, <2>6
<1>6. ASSUME NEW n \in Nodes', Inner(n)', NEW c \in Kids(n)' PROVE r[c] = r[n] + 1
  <2>1. CASE n = u
    BY <1>1, <1>2, <1>5, <1>6, <2>1
  <2>2. CASE n = w
    <3>1. Inner(u) /\ c \in Kids(u)
      BY <1>1, <1>6, <2>2 DEF Inner
    <3>2. c \in Nodes /\ c # Root /\ lv[c] = lv[u] + 1
      <4>1. lv[c] = lv[u] + 1 /\ c \in Nodes
        BY <1>2, <3>1, ChildBoundsTypes DEF Levels, Kids
      <4>2. lv[Root] = 0
        BY DEF Levels
      <4> QED BY <1>2, <4>1, <4>2
    <3> QED BY <1>2, <1>5, <2>2, <3>2 DEF Levels
  <2>3. CASE n # u /\ n # w
    <3>1. n \in Nodes /\ n \in Addr /\ n # Root
      BY <1>2, <1>4, <2>3
    <3>2. Inner(n) /\ c \in Kids(n)
      BY <1>1, <1>6, <2>3, <3>1 DEF Inner, Grows
    <3>3. c \in Nodes /\ lv[c] = lv[n] + 1
      BY <1>2, <3>1, <3>2, ChildBoundsTypes DEF Levels, Kids
    <3>4. c # Root
      <4>1. lv[Root] = 0 /\ lv[n] \in Nat
        BY <1>5, <3>1 DEF Levels
      <4> QED BY <3>3, <4>1
    <3> QED BY <1>5, <3>1, <3>3, <3>4
  <2> QED BY <2>1, <2>2, <2>3
<1>7. ASSUME NEW n \in Nodes', Leaf(n)' PROVE r[n] = depth' - 1
  <2>1. n # u
    BY <1>1, <1>7 DEF Leaf
  <2>2. CASE n = w
    <3>1. Leaf(u)
      BY <1>1, <1>7, <2>2 DEF Leaf
    <3>2. lv[u] = depth - 1 /\ lv[u] = 0
      BY <1>2, <3>1 DEF Levels
    <3> QED BY <1>2, <1>5, <2>2, <3>2
  <2>3. CASE n # w
    <3>1. n \in Nodes /\ n \in Addr /\ n # Root
      BY <1>2, <1>4, <2>1, <2>3
    <3>2. Leaf(n)
      BY <1>1, <1>7, <2>1, <2>3, <3>1 DEF Leaf
    <3>3. lv[n] = depth - 1
      BY <3>1, <3>2 DEF Levels
    <3> QED BY <1>2, <1>5, <3>1, <3>3
  <2> QED BY <2>2, <2>3
<1>8. Levels(r)'
  BY <1>5, <1>6, <1>7 DEF Levels
<1>9. QED
  BY <1>8

\* Both halves of a node that is split are on its level.
LEMMA SplitLevels ==
  ASSUME IInv, NEW lv, Levels(lv), NEW u, NEW w, NEW par, Splits(u, w, par),
         w = nb_node, nb_node' = nb_node + 1, depth' = depth
  PROVE  \E r : Levels(r)'
<1>2. /\ TypeOK /\ Shape /\ Nodes \subseteq Addr /\ Root \in Nodes /\ nb_node \in Nat
  <2>1. TypeOK /\ Shape /\ Nodes \subseteq Addr /\ Root \in Nodes
    BY NodesAreAddresses DEF IInv
  <2> QED BY <2>1 DEF TypeOK
<1>3. PICK r : r = [n \in 0..nb_node |-> IF n \in Nodes THEN lv[n] ELSE lv[u]]
  OBVIOUS
<1>4. /\ Nodes' = 0..nb_node /\ Nodes \subseteq Nodes' /\ Nodes' = Nodes \cup {w} /\ w \notin Nodes
      /\ u \in Nodes /\ par \in Nodes
  BY <1>2 DEF Nodes, Splits, Grows
<1>5. /\ r \in [Nodes' -> Nodes'] /\ r[w] = lv[u]
      /\ \A n \in Nodes : r[n] = lv[n]
  <2>1. \A n \in Nodes : lv[n] \in Nodes' /\ n \in 0..nb_node
    BY <1>4 DEF Levels
  <2> QED BY <1>3, <1>4, <2>1
<1>6. ASSUME NEW n \in Nodes', Inner(n)', NEW c \in Kids(n)' PROVE r[c] = r[n] + 1
  <2>1. CASE n = w
    <3>1. Inner(u) /\ c \in Kids(u)
      BY <1>6, <2>1 DEF Inner, Splits, Grows
    <3>2. c \in Nodes /\ lv[c] = lv[u] + 1
      BY <1>2, <1>4, <3>1, ChildBoundsTypes DEF Levels, Kids
    <3> QED BY <1>5, <2>1, <3>2
  <2>2. CASE n # w
    <3>1. n \in Nodes /\ n \in Addr
      BY <1>2, <1>4, <2>2
    <3>2. Inner(n)
      BY <1>6, <2>2, <3>1 DEF Inner, Splits, Grows
    <3>3. CASE c \in Kids(n)
      <4>1. c \in Nodes /\ lv[c] = lv[n] + 1
        BY <1>2, <3>1, <3>2, <3>3, ChildBoundsTypes DEF Levels, Kids
      <4> QED BY <1>5, <3>1, <4>1
    <3>4. CASE c \notin Kids(n)
      <4>1. n # u
        BY <1>6, <3>4 DEF Splits
      <4>2. n = par /\ c = w
        BY <1>6, <3>1, <3>4, <4>1 DEF Splits
      <4>3. Inner(par) /\ u \in Kids(par)
        BY DEF Splits
      <4>4. lv[u] = lv[par] + 1
        BY <1>4, <4>3 DEF Levels
      <4> QED BY <1>4, <1>5, <4>2, <4>4
    <3> QED BY <3>3, <3>4
  <2> QED BY <2>1, <2>2
<1>7. ASSUME NEW n \in Nodes', Leaf(n)' PROVE r[n] = depth' - 1
  <2>1. CASE n = w
    <3>1. Leaf(u)
      BY <1>7, <2>1 DEF Leaf, Splits
    <3> QED BY <1>4, <1>5, <2>1, <3>1 DEF Levels
  <2>2. CASE n # w
    <3>1. n \in Nodes /\ n \in Addr
      BY <1>2, <1>4, <2>2
    <3>2. Leaf(n)
      BY <1>7, <2>2, <3>1 DEF Leaf, Splits
    <3> QED BY <1>5, <3>1, <3>2 DEF Levels
  <2> QED BY <2>1, <2>2
<1>8. Levels(r)'
  <2>1. r[Root] = 0
    BY <1>2, <1>5 DEF Levels
  <2> QED BY <1>5, <1>6, <1>7, <2>1 DEF Levels
<1>9. QED
  BY <1>8

\* A step that leaves the tree and its depth leaves the levels.
LEMMA SameLevels ==
  ASSUME IInv, NEW lv, Levels(lv), SameTree, Nodes' = Nodes, depth' = depth
  PROVE  Levels(lv)'
<1>1. \A n \in Nodes : Kids(n)' = Kids(n) /\ Leaf(n)' = Leaf(n) /\ Inner(n)' = Inner(n)
  BY NodesAreAddresses DEF IInv, SameTree, Kids, Leaf, Inner
<1>2. QED
  BY <1>1 DEF Levels

-----------------------------------------------------------------------------
(***************************************************************************)
(* The children of an inner node share its keys out among them.            *)
(***************************************************************************)
\* Where a child stands in the array, and the bound printed for it.
LEMMA KidPlace ==
  ASSUME IInv, NEW n \in Nodes, Inner(n), NEW c \in Kids(n)
  PROVE  \E i \in 1..Len(pool[n].child) :
           /\ c = pool[n].child[i]
           /\ c = pool[n].child[1] => i = 1
           /\ c \in Nodes /\ ~Value(c)
           /\ cover[c].lo = SlotLo(n, i) /\ cover[c].hi = SlotHi(n, i)
           /\ ChildBounds(n)[c] = IF i = 1 THEN 0 ELSE pool[n].key[i - 1]
<1>1. TypeOK /\ Shape /\ n \in Addr /\ ~Value(n) /\ ~Leaf(n)
  BY NodesAreAddresses DEF IInv, Inner, Value, Leaf
<1>2. DOMAIN pool[n].child = 1..Len(pool[n].child) /\ Len(pool[n].child) \in Nat
  BY <1>1, FieldTypes, LenProperties
<1> DEFINE j == CHOOSE x \in DOMAIN pool[n].child : pool[n].child[x] = c
<1>3. j \in 1..Len(pool[n].child) /\ pool[n].child[j] = c
  BY <1>2 DEF Kids, ToSet
<1>4. ChildBounds(n)[c] = IF j = 1 THEN 0 ELSE pool[n].key[j - 1]
  BY DEF ChildBounds, Kids
<1> HIDE DEF j
<1>5. c = pool[n].child[1] => j = 1
  <2> SUFFICES ASSUME c = pool[n].child[1], j # 1 PROVE FALSE
    OBVIOUS
  <2>1. 1 \in 1..Len(pool[n].child) /\ 1 < j
    BY <1>2, <1>3
  <2> QED BY <1>1, <1>3, <2>1, ChildrenApart
<1>6. QED
  BY <1>1, <1>3, <1>4, <1>5, ChildFacts

\* The bound the load gives a child is where the child's keys begin.
LEMMA KidBound ==
  ASSUME IInv, NEW n \in Nodes, Inner(n), NEW c \in Kids(n)
  PROVE  /\ c \in Nodes /\ ~Value(c) /\ cover[n].lo <= cover[c].lo /\ cover[c].hi <= cover[n].hi
         /\ cover[c].lo = IF c = pool[n].child[1] THEN cover[n].lo ELSE ChildBounds(n)[c]
<1>1. PICK i \in 1..Len(pool[n].child) :
        /\ c = pool[n].child[i]
        /\ c = pool[n].child[1] => i = 1
        /\ c \in Nodes /\ ~Value(c)
        /\ cover[c].lo = SlotLo(n, i) /\ cover[c].hi = SlotHi(n, i)
        /\ ChildBounds(n)[c] = IF i = 1 THEN 0 ELSE pool[n].key[i - 1]
  BY KidPlace
<1>2. cover[n].lo <= cover[c].lo /\ cover[c].hi <= cover[n].hi
  BY <1>1, ChildWithin DEF IInv
<1>3. cover[c].lo = IF c = pool[n].child[1] THEN cover[n].lo ELSE ChildBounds(n)[c]
  BY <1>1 DEF SlotLo
<1>4. QED
  BY <1>1, <1>2, <1>3

\* Two children have no key in common.
LEMMA KidsDisjoint ==
  ASSUME IInv, NEW n \in Nodes, Inner(n), NEW c \in Kids(n), NEW d \in Kids(n), c # d
  PROVE  cover[c].hi <= cover[d].lo \/ cover[d].hi <= cover[c].lo
<1>1. PICK i \in 1..Len(pool[n].child) :
        /\ c = pool[n].child[i]
        /\ cover[c].lo = SlotLo(n, i) /\ cover[c].hi = SlotHi(n, i)
  BY KidPlace
<1>2. PICK j \in 1..Len(pool[n].child) :
        /\ d = pool[n].child[j]
        /\ cover[d].lo = SlotLo(n, j) /\ cover[d].hi = SlotHi(n, j)
  BY KidPlace
<1> DEFINE ks == pool[n].key
<1>3. /\ Len(ks) \in Nat /\ DOMAIN ks = 1..Len(ks)
      /\ \A h \in 1..Len(ks) : ks[h] \in Int
      /\ Len(pool[n].child) = Len(ks) + 1
      /\ \A g, h \in 1..Len(ks) : g < h => ks[g] < ks[h]
  <2>1. TypeOK /\ Shape /\ n \in Addr /\ ~Value(n)
    BY NodesAreAddresses DEF IInv, Inner, Value
  <2>2. Len(ks) \in Nat /\ DOMAIN ks = 1..Len(ks) /\ Len(pool[n].child) = Len(ks) + 1
        /\ \A h \in 1..Len(ks) : ks[h] \in Int
    BY <2>1, FieldTypes, LenProperties, ConstantsAssumption DEF Shape, InnerShape
  <2> QED BY <2>1, <2>2 DEF Shape, KeysShape, StrictlySorted
<1>4. ASSUME NEW g \in 1..Len(pool[n].child), NEW h \in 1..Len(pool[n].child), g < h
      PROVE  SlotHi(n, g) <= SlotLo(n, h)
  <2>1. g \in 1..Len(ks) /\ h - 1 \in 1..Len(ks) /\ g <= h - 1
    BY <1>3, <1>4
  <2>2. SlotHi(n, g) = ks[g] /\ SlotLo(n, h) = ks[h - 1]
    BY <1>3, <1>4, <2>1 DEF SlotHi, SlotLo
  <2> HIDE DEF ks
  <2>3. ks[g] <= ks[h - 1]
    BY <1>3, <2>1
  <2> QED BY <2>2, <2>3
<1>5. i < j \/ j < i
  BY <1>1, <1>2
<1>6. QED
  BY <1>1, <1>2, <1>4, <1>5

\* The child a search goes on to is a child.
LEMMA HopIsKid ==
  ASSUME IInv, NEW n \in Nodes, Inner(n), NEW k \in Keys, InRange(k, cover[n])
  PROVE  ChildFor(n, k) \in Kids(n) /\ InRange(k, cover[ChildFor(n, k)])
<1> DEFINE i == LowerBound(pool[n].key, k)
<1>1. TypeOK /\ n \in Addr /\ k \in Int
  BY NodesAreAddresses, ConstantsAssumption DEF IInv
<1>2. i \in 1..(Len(pool[n].key) + 1)
  BY <1>1, FieldTypes, LowerBoundSpec
<1>3. Len(pool[n].child) = Len(pool[n].key) + 1 /\ DOMAIN pool[n].child = 1..Len(pool[n].child)
  BY <1>1, FieldTypes, LenProperties DEF IInv, Shape, InnerShape
<1>4. ChildFor(n, k) \in Kids(n)
  BY <1>2, <1>3 DEF ChildFor, Kids, ToSet
<1>5. QED
  BY <1>4, HopDescends

-----------------------------------------------------------------------------
(***************************************************************************)
(* The frontier of the greedy expansion: nodes that share all keys out     *)
(* among them, each with the bound at which its keys begin.                *)
(***************************************************************************)
Apart(m, n) == cover[m].hi <= cover[n].lo \/ cover[n].hi <= cover[m].lo

Frontier ==
  /\ \A n \in DOMAIN node_map : n \in Nodes /\ ~Value(n) /\ node_map[n] = cover[n].lo
  /\ \A m, n \in DOMAIN node_map : m # n => Apart(m, n)
  /\ \A k \in Keys : \E n \in DOMAIN node_map : InRange(k, cover[n])

LEMMA LoadBeginFrontier ==
  ASSUME IInv, LoadBegin
  PROVE  Frontier'
<1>1. /\ cover' = cover /\ pool' = pool /\ nb_node' = nb_node /\ DOMAIN node_map' = {Root}
      /\ node_map'[Root] = 0
  BY DEF LoadBegin, treeVars
<1>2. Root \in Nodes /\ ~Value(Root) /\ cover[Root] = KeyRange(0, KeyMax)
  BY NodesAreAddresses DEF IInv, Shape, ParentShape
<1>3. \A k \in Keys : InRange(k, cover[Root])
  <2>1. \A k \in Keys : k \in 1..KeyMax
    BY ConstantsAssumption
  <2> QED BY <1>2, <2>1, ConstantsAssumption DEF InRange, KeyRange
<1>4. cover[Root].lo = 0
  BY <1>2 DEF KeyRange
<1>5. QED
  BY <1>1, <1>2, <1>3, <1>4 DEF Frontier, Nodes, Value

\* The children take the place of the node that is expanded.
LEMMA ExpandFrontier ==
  ASSUME IInv, Ranking, Frontier, NEW n \in Addr, Expand(n), Inner(n)
  PROVE  Frontier'
<1> DEFINE F == DOMAIN node_map
<1>1. /\ cover' = cover /\ pool' = pool /\ nb_node' = nb_node
      /\ n \in F /\ F \subseteq Nodes /\ n \in Nodes
      /\ DOMAIN node_map' = (F \cup Kids(n)) \ {n}
      /\ \A m \in (F \cup Kids(n)) \ {n} :
           node_map'[m] = IF m \notin Kids(n) THEN node_map[m]
                          ELSE IF m = pool[n].child[1] THEN node_map[n]
                          ELSE ChildBounds(n)[m]
  <2>1. n \in F /\ F \subseteq Nodes
    BY DEF Expand, IInv, Load
  <2> QED BY <2>1 DEF Expand, treeVars, Kids
<1>2. \A m \in F : ~Value(m) /\ node_map[m] = cover[m].lo
  BY DEF Frontier
<1>3. \A c \in Kids(n) :
        /\ c \in Nodes /\ ~Value(c)
        /\ cover[n].lo <= cover[c].lo /\ cover[c].hi <= cover[n].hi
        /\ cover[c].lo = IF c = pool[n].child[1] THEN cover[n].lo ELSE ChildBounds(n)[c]
  BY <1>1, KidBound
<1>4. \A m \in DOMAIN node_map' : m \in Nodes /\ ~Value(m) /\ node_map'[m] = cover[m].lo
  BY <1>1, <1>2, <1>3
<1>5. \A m \in Nodes : cover[m].lo \in Int /\ cover[m].hi \in Int
  BY NodesAreAddresses, FieldTypes DEF IInv
<1>6. ASSUME NEW c \in Kids(n), NEW m \in F, m # n PROVE Apart(c, m) /\ Apart(m, c)
  <2>1. Apart(n, m)
    BY <1>1, <1>6 DEF Frontier
  <2> QED BY <1>1, <1>3, <1>5, <2>1 DEF Apart
<1>7. \A m, q \in DOMAIN node_map' : m # q => Apart(m, q)
  <2> SUFFICES ASSUME NEW m \in DOMAIN node_map', NEW q \in DOMAIN node_map', m # q
               PROVE  Apart(m, q)
    OBVIOUS
  <2>1. CASE m \in Kids(n) /\ q \in Kids(n)
    BY <1>1, <2>1, KidsDisjoint DEF Apart
  <2>2. CASE m \in Kids(n) /\ q \notin Kids(n)
    BY <1>1, <1>6, <2>2
  <2>3. CASE m \notin Kids(n) /\ q \in Kids(n)
    BY <1>1, <1>6, <2>3
  <2>4. CASE m \notin Kids(n) /\ q \notin Kids(n)
    BY <1>1, <2>4 DEF Frontier
  <2> QED BY <2>1, <2>2, <2>3, <2>4
<1>8. ASSUME NEW k \in Keys PROVE \E m \in DOMAIN node_map' : InRange(k, cover[m])
  <2>1. PICK m \in F : InRange(k, cover[m])
    BY DEF Frontier
  <2>2. CASE m # n
    BY <1>1, <2>1, <2>2
  <2>3. CASE m = n
    <3> DEFINE c == ChildFor(n, k)
    <3>1. InRange(k, cover[c]) /\ c \in Kids(n)
      BY <1>1, <2>1, <2>3, HopIsKid
    <3>2. c # n
      <4>1. PICK rk : Ranked(rk)
        BY DEF Ranking
      <4>2. rk[c] > rk[n] /\ rk[n] \in Nat
        BY <1>1, <3>1, <4>1 DEF Ranked, Nodes
      <4> QED BY <4>2
    <3> HIDE DEF c
    <3> QED BY <1>1, <3>1, <3>2
  <2> QED BY <2>2, <2>3
<1>9. \A m : Apart(m, n)' = Apart(m, n)
  BY <1>1 DEF Apart
<1>10. QED
  BY <1>1, <1>4, <1>7, <1>8 DEF Frontier, Apart, Nodes, Value

-----------------------------------------------------------------------------
(***************************************************************************)
(* The course of a load: no mark before it, then a frontier no deeper than *)
(* the root swallows, then layer by layer one level down.                  *)
(***************************************************************************)
Placed(lv) ==
  /\ pc = "expand" => \A n \in DOMAIN node_map :
       /\ ~Value(n) /\ lv[n] <= RootLoadDepth
       /\ n \in node_pq => Inner(n) /\ lv[n] < RootLoadDepth
  /\ pc = "print" => \A n \in cached : ~Value(n) /\ lv[n] < RootLoadDepth + layer

Course ==
  /\ printed = {} => \A n \in Nodes : ~pool[n].isLoaded2Switch
  /\ pc = "expand" => printed = {} /\ depth >= 2 /\ Frontier
  /\ pc = "print" => printed # {} /\ layer >= 1 /\ depth >= 2
  /\ printed = {} \/ pc = "print" => \E lv : Levels(lv) /\ Placed(lv)

LEMMA InitCourse == Init => Course
<1> SUFFICES ASSUME Init PROVE Course
  OBVIOUS
<1>1. Nodes = {0} /\ 0 \in Addr /\ Root = 0
  BY ConstantsAssumption DEF Init, Nodes, Addr, Root
<1>2. pool[0].isLeaf = TRUE /\ pool[0].isLoaded2Switch = FALSE /\ depth = 1 /\ pc = "idle"
  BY <1>1 DEF Init, FreshNode
<1>3. Levels([n \in Nodes |-> 0])
  BY <1>1, <1>2 DEF Levels, Inner
<1>4. QED
  BY <1>1, <1>2, <1>3 DEF Course, Placed

\* An insert before the load leaves all nodes unmarked and the levels even.
LEMMA InsertCourse ==
  ASSUME IInv, Course, InsertStep \/ \E k \in Keys : InsertBegin(k)
  PROVE  Course'
<1>1. /\ pc \notin {"expand", "print"} /\ pc' \notin {"expand", "print"} /\ printed' = printed
  BY DEF InsertStep, InsertBegin, Descend, LeafInsert, OverflowDone, OverflowCopy,
         SplitLeaf, SplitInner, Splitting, loadVars
<1>2. CASE printed # {}
  BY <1>1, <1>2 DEF Course
<1>3. CASE printed = {}
  <2>0. PICK lv : Levels(lv)
    BY <1>3 DEF Course
  <2>1. \A n \in Nodes : ~pool[n].isLoaded2Switch
    BY <1>3 DEF Course
  <2>2. PICK u, w, par : u = cur /\ w = nb_node /\ par = pool[cur].parent
    OBVIOUS
  <2>3. ASSUME Grows(u, w) PROVE \A n \in Nodes' : ~pool'[n].isLoaded2Switch
    BY <2>1, <2>3, NodesAreAddresses DEF Grows, IInv
  <2>4. ASSUME NEW r, Levels(r)', \A n \in Nodes' : ~pool'[n].isLoaded2Switch
        PROVE  Course'
    <3>1. Placed(r)'
      BY <1>1 DEF Placed
    <3> QED BY <1>1, <2>4, <3>1 DEF Course
  <2>5. CASE UNCHANGED <<pool, nb_node, cover, depth>>
    <3>1. SameTree /\ Nodes' = Nodes /\ depth' = depth
      BY <2>5, SameTreeUnchanged
    <3>2. Levels(lv)'
      BY <2>0, <3>1, SameLevels
    <3> QED BY <2>1, <2>4, <2>5, <3>1, <3>2
  <2>6. CASE LeafInsert
    <3>1. Grows(u, w)
      BY <2>2, <2>6, LeafInsertGrows
    <3>2. PICK r : Levels(r)'
      BY <2>0, <2>6, LeafInsertLevels
    <3> QED BY <2>3, <2>4, <3>1, <3>2
  <2>7. CASE OverflowCopy
    <3>1. Grows(u, w)
      BY <2>2, <2>7, OverflowCopyGrows
    <3>2. cur = Root
      BY <2>1, <2>7 DEF OverflowCopy, Unmodifiable, IInv, Backend
    <3>3. PICK r : Levels(r)'
      BY <2>0, <2>7, <3>2, CopyLevels
    <3> QED BY <2>3, <2>4, <3>1, <3>3
  <2>8. CASE SplitLeaf \/ SplitInner
    <3>1. Splits(u, w, par) /\ Grows(u, w)
      BY <2>2, <2>8, SplitLeafSplits, SplitInnerSplits DEF Splits
    <3>2. w = nb_node /\ nb_node' = nb_node + 1 /\ depth' = depth
      BY <2>2, <2>8 DEF SplitLeaf, SplitInner
    <3>3. PICK r : Levels(r)'
      BY <2>0, <3>1, <3>2, SplitLevels
    <3> QED BY <2>3, <2>4, <3>1, <3>3
  <2>9. CASE Descend \/ OverflowDone \/ \E k \in Keys : InsertBegin(k)
    <3>1. UNCHANGED <<pool, nb_node, cover, depth>>
      BY <2>9 DEF Descend, OverflowDone, InsertBegin, treeVars
    <3> QED BY <2>5, <3>1
  <2> QED BY <2>6, <2>7, <2>8, <2>9 DEF InsertStep
<1>4. QED
  BY <1>2, <1>3

\* The load begins at the root, which is no leaf.
LEMMA LoadBeginCourse ==
  ASSUME IInv, Course, LoadBegin
  PROVE  Course'
<1>1. /\ UNCHANGED <<pool, nb_node, cover, depth>> /\ printed = {} /\ printed' = {}
      /\ pc' = "expand" /\ depth >= 2 /\ depth' = depth /\ depth \in Nat
      /\ DOMAIN node_map' = {Root} /\ node_pq' = {Root}
  BY DEF LoadBegin, treeVars, IInv, TypeOK
<1>2. PICK lv : Levels(lv)
  BY <1>1 DEF Course
<1>3. SameTree /\ Nodes' = Nodes
  BY <1>1, SameTreeUnchanged
<1>4. Levels(lv)'
  BY <1>1, <1>2, <1>3, SameLevels
<1>5. Root \in Nodes /\ ~Value(Root) /\ Inner(Root)
  <2>1. Root \in Nodes /\ ~Value(Root)
    BY NodesAreAddresses DEF IInv, Shape, ParentShape
  <2>2. ~Leaf(Root)
    BY <1>1, <1>2, <2>1 DEF Levels
  <2> QED BY <2>1, <2>2 DEF Inner, Leaf, Value
<1>6. Placed(lv)'
  <2>1. Value(Root)' = Value(Root) /\ Inner(Root)' = Inner(Root)
    BY <1>1 DEF Value, Inner
  <2>2. lv[Root] = 0
    BY <1>2 DEF Levels
  <2> QED BY <1>1, <1>5, <2>1, <2>2, ConstantsAssumption DEF Placed
<1>7. \A n \in Nodes' : ~pool'[n].isLoaded2Switch
  BY <1>1, <1>3 DEF Course
<1>8. Frontier'
  BY LoadBeginFrontier
<1>9. QED
  BY <1>1, <1>4, <1>6, <1>7, <1>8 DEF Course

\* A node that may be expanded is an inner one, and its children fit below.
LEMMA ExpandCourse ==
  ASSUME IInv, Ranking, Course, NEW n \in Addr, Expand(n)
  PROVE  Course'
<1>1. /\ UNCHANGED <<pool, nb_node, cover, depth>> /\ printed' = printed /\ pc = "expand"
      /\ pc' = "expand" /\ n \in node_pq /\ n \in DOMAIN node_map /\ n \in Nodes
      /\ DOMAIN node_map' = (DOMAIN node_map \cup Kids(n)) \ {n}
      /\ node_pq' = (node_pq \cup {m \in Kids(n) : /\ ~pool[m].isLeaf
                                                   /\ NodeDepth(m) < RootLoadDepth}) \ {n}
  <2>1. n \in node_pq /\ n \in DOMAIN node_map /\ n \in Nodes
    BY DEF Expand, IInv, Load
  <2>2. /\ UNCHANGED <<pool, nb_node, cover, depth>> /\ printed' = printed /\ pc = "expand"
        /\ pc' = "expand"
    BY DEF Expand, treeVars
  <2>3. /\ DOMAIN node_map' = (DOMAIN node_map \cup Kids(n)) \ {n}
        /\ node_pq' = (node_pq \cup {m \in Kids(n) : /\ ~pool[m].isLeaf
                                                     /\ NodeDepth(m) < RootLoadDepth}) \ {n}
    BY DEF Expand, Kids
  <2> QED BY <2>1, <2>2, <2>3
<1>2. PICK lv : Levels(lv) /\ Placed(lv)
  BY <1>1 DEF Course
<1>3. SameTree /\ Nodes' = Nodes /\ depth' = depth
  BY <1>1, SameTreeUnchanged
<1>4. Levels(lv)'
  BY <1>2, <1>3, SameLevels
<1>5. Inner(n) /\ lv[n] < RootLoadDepth /\ RootLoadDepth \in Nat /\ lv[n] \in Nat
  BY <1>1, <1>2, ConstantsAssumption DEF Placed, Levels, Nodes
<1>6. \A c \in Kids(n) : c \in Nodes /\ ~Value(c) /\ lv[c] = lv[n] + 1
  BY <1>1, <1>2, <1>5, KidBound DEF Levels
<1>7. Placed(lv)'
  <2>1. \A m : Value(m)' = Value(m) /\ Inner(m)' = Inner(m)
    BY <1>1 DEF Value, Inner
  <2>2. ASSUME NEW m \in DOMAIN node_map'
        PROVE  /\ ~Value(m) /\ lv[m] <= RootLoadDepth
               /\ m \in node_pq' => Inner(m) /\ lv[m] < RootLoadDepth
    <3>1. CASE m \in Kids(n)
      <4>1. m \in Nodes /\ ~Value(m) /\ lv[m] <= RootLoadDepth
        BY <1>5, <1>6, <3>1
      <4>2. ASSUME m \in node_pq' PROVE Inner(m) /\ lv[m] < RootLoadDepth
        <5>1. CASE m \in node_pq
          BY <1>1, <1>2, <5>1 DEF Placed, IInv, Load
        <5>2. CASE ~pool[m].isLeaf /\ NodeDepth(m) < RootLoadDepth
          BY <1>2, <4>1, <5>2, NodeDepthIsLevel DEF Inner, Value
        <5> QED BY <1>1, <4>2, <5>1, <5>2
      <4> QED BY <4>1, <4>2
    <3>2. CASE m \notin Kids(n)
      BY <1>1, <1>2, <3>2 DEF Placed
    <3> QED BY <3>1, <3>2
  <2> QED BY <1>1, <2>1, <2>2 DEF Placed
<1>8. printed' = {} /\ depth' >= 2 /\ \A m \in Nodes' : ~pool'[m].isLoaded2Switch
  BY <1>1, <1>3 DEF Course
<1>9. Frontier'
  BY <1>1, <1>5, ExpandFrontier DEF Course
<1>10. QED
  BY <1>1, <1>4, <1>7, <1>8, <1>9 DEF Course

\* The frontier is printed; its nodes are the first layer below the root.
LEMMA PrintRootCourse ==
  ASSUME IInv, Course, PrintRoot
  PROVE  Course'
<1>1. /\ printed' # {} /\ layer' = 1 /\ pc' = "print" /\ pc = "expand" /\ depth' = depth
      /\ cached' \subseteq DOMAIN node_map /\ depth >= 2
      /\ DOMAIN node_map \subseteq Nodes /\ Nodes \subseteq Addr
  BY NodesAreAddresses DEF PrintRoot, Course, IInv, Load
<1>2. PICK lv : Levels(lv) /\ Placed(lv)
  BY <1>1 DEF Course
<1>3. SameTree /\ Nodes' = Nodes
  BY MarkLoadedSame DEF PrintRoot, IInv
<1>4. Levels(lv)'
  BY <1>1, <1>2, <1>3, SameLevels
<1>5. Placed(lv)'
  <2>1. \A n \in Nodes : Value(n)' = Value(n) /\ lv[n] \in Nat
    BY <1>1, <1>2, <1>3 DEF Value, SameTree, Levels, Nodes
  <2>2. \A n \in cached' : ~Value(n)' /\ lv[n] <= RootLoadDepth /\ lv[n] \in Nat
    BY <1>1, <1>2, <2>1 DEF Placed
  <2> QED BY <1>1, <2>2, ConstantsAssumption DEF Placed
<1>6. QED
  BY <1>1, <1>4, <1>5 DEF Course

\* Above the last but one level the nodes of a layer are inner ones.
LEMMA LayerPlace ==
  ASSUME IInv, Course, pc = "print", layer + RootLoadDepth <= depth - 1
  PROVE  \E lv :
           /\ Levels(lv)
           /\ \A n \in cached : n \in Nodes /\ Inner(n)
           /\ \A c \in ChildrenOf(cached) :
                c \in Nodes /\ ~Value(c) /\ lv[c] < RootLoadDepth + layer + 1
<1>1. PICK lv : Levels(lv) /\ Placed(lv)
  BY DEF Course
<1>2. /\ cached \subseteq Nodes /\ RootLoadDepth \in Nat /\ layer \in Nat /\ depth \in Nat
      /\ \A n \in Nodes : lv[n] \in Nat
  BY <1>1, ConstantsAssumption DEF IInv, Load, TypeOK, Levels, Nodes
<1>3. ASSUME NEW n \in cached PROVE n \in Nodes /\ Inner(n) /\ lv[n] < RootLoadDepth + layer
  <2>1. n \in Nodes /\ ~Value(n) /\ lv[n] < RootLoadDepth + layer
    BY <1>1, <1>2 DEF Placed
  <2>2. ~Leaf(n)
    BY <1>1, <1>2, <2>1 DEF Levels
  <2> QED BY <2>1, <2>2 DEF Inner, Leaf, Value
<1>4. ASSUME NEW c \in ChildrenOf(cached)
      PROVE  c \in Nodes /\ ~Value(c) /\ lv[c] < RootLoadDepth + layer + 1
  <2>1. PICK n \in cached : c \in Kids(n)
    BY DEF ChildrenOf, Kids
  <2>2. n \in Nodes /\ Inner(n) /\ lv[n] < RootLoadDepth + layer
    BY <1>3
  <2>3. c \in Nodes /\ ~Value(c) /\ lv[c] = lv[n] + 1
    BY <1>1, <2>1, <2>2, KidBound DEF Levels
  <2> QED BY <1>2, <2>2, <2>3
<1>5. QED
  BY <1>1, <1>3, <1>4

LEMMA PrintLayerCourse ==
  ASSUME IInv, Course, PrintLayer
  PROVE  Course'
<1>1. /\ printed' # {} /\ pc = "print" /\ depth' = depth /\ layer \in Nat /\ depth \in Nat
      /\ depth >= 2 /\ RootLoadDepth \in Nat
  <2>1. pc = "print" /\ printed \subseteq printed' /\ depth' = depth
    BY DEF PrintLayer
  <2> QED BY <2>1, ConstantsAssumption DEF Course, IInv, TypeOK
<1>2. CASE layer + 1 <= depth - RootLoadDepth
  <2>1. layer + RootLoadDepth <= depth - 1
    BY <1>1, <1>2
  <2>2. PICK lv :
           /\ Levels(lv)
           /\ \A n \in cached : n \in Nodes /\ Inner(n)
           /\ \A c \in ChildrenOf(cached) :
                c \in Nodes /\ ~Value(c) /\ lv[c] < RootLoadDepth + layer + 1
    BY <1>1, <2>1, LayerPlace
  <2>3. SameTree /\ Nodes' = Nodes /\ Nodes \subseteq Addr
    BY MarkLoadedSame, NodesAreAddresses DEF PrintLayer, IInv
  <2>4. Levels(lv)'
    BY <1>1, <2>2, <2>3, SameLevels
  <2>5. /\ cached' \subseteq ChildrenOf(cached) /\ layer' = layer + 1 /\ pc' = "print"
        /\ layer' \in Nat
    BY <1>1, <1>2 DEF PrintLayer, IsHottest
  <2>6. \A n \in Nodes : Value(n)' = Value(n) /\ lv[n] \in Nat
    BY <2>2, <2>3 DEF Value, SameTree, Levels, Nodes
  <2>7. RootLoadDepth + layer + 1 = RootLoadDepth + layer'
    BY <1>1, <2>5
  <2>8. Placed(lv)'
    BY <2>2, <2>5, <2>6, <2>7 DEF Placed
  <2> QED BY <1>1, <2>4, <2>5, <2>8 DEF Course
<1>3. CASE ~(layer + 1 <= depth - RootLoadDepth)
  BY <1>1, <1>3 DEF PrintLayer, Course
<1>4. QED
  BY <1>2, <1>3

LEMMA CourseStep ==
  ASSUME IInv, Ranking, Course, [Next]_vars
  PROVE  Course'
<1>1. CASE InsertStep \/ \E k \in Keys : InsertBegin(k)
  BY <1>1, InsertCourse
<1>2. CASE LoadBegin
  BY <1>2, LoadBeginCourse
<1>3. CASE \E n \in Addr : Expand(n)
  BY <1>3, ExpandCourse
<1>4. CASE PrintRoot
  BY <1>4, PrintRootCourse
<1>5. CASE PrintLayer
  BY <1>5, PrintLayerCourse
<1>6. CASE UNCHANGED vars
  <2>1. UNCHANGED vars => (Course' <=> Course)
    BY DEF vars, treeVars, loadVars, Course, Frontier, Apart, Placed, Levels, Nodes, Kids, Inner,
           Leaf, Value, InRange
  <2> QED BY <1>6, <2>1
<1>7. QED
  BY <1>1, <1>2, <1>3, <1>4, <1>5, <1>6 DEF Next, LoadStep

(* The load finds the tree as deep as `depth' says wherever it looks, and  *)
(* starts at nodes that share out the keys (load2switch_greedy()).         *)
THEOREM LoadsStayOnCourse == Spec => []Course
<1>1. IInv /\ Ranking /\ Course /\ [Next]_vars => Course'
  BY CourseStep
<1>2. QED
  BY TreeRanked, InitCourse, <1>1, PTL DEF Spec

(* Before the switch is loaded every leaf is `depth' levels deep, after    *)
(* any sequence of inserts and in the middle of each (overflow(), depth()). *)
THEOREM DepthIsUniform == Spec => []UniformDepth
<1>1. IInv /\ Course => UniformDepth
  <2> SUFFICES ASSUME IInv, Course, printed = {}, NEW n \in Addr, Allocated(n), pool[n].isLeaf
               PROVE  NodeDepth(n) = depth - 1
    BY DEF UniformDepth
  <2>1. n \in Nodes /\ Leaf(n) /\ ~Value(n)
    <3>1. n \in Nodes /\ Leaf(n)
      BY DEF Allocated, Nodes, Leaf, Addr, IInv, TypeOK
    <3> QED BY <3>1 DEF IInv, Shape, LeafShape
  <2>2. PICK lv : Levels(lv)
    BY DEF Course
  <2> QED BY <2>1, <2>2, NodeDepthIsLevel DEF Levels
<1>2. QED
  BY Invariance, LoadsStayOnCourse, <1>1, PTL

-----------------------------------------------------------------------------
(***************************************************************************)
(* What is printed fits the switch's tables.                               *)
(***************************************************************************)
\* A node with room has one to M children, each with a bound of its own.
LEMMA BoundsFit ==
  ASSUME IInv, NEW n \in Nodes, ~Value(n), Len(pool[n].key) < M,
         Leaf(n) => Len(pool[n].key) >= 1
  PROVE  /\ Cardinality(DOMAIN ChildBounds(n)) \in 1..M
         /\ \A c, d \in DOMAIN ChildBounds(n) : c # d => ChildBounds(n)[c] # ChildBounds(n)[d]
<1> DEFINE cs == pool[n].child
           ks == pool[n].key
           K  == ToSet(cs)
           at == [c \in K |-> CHOOSE j \in DOMAIN cs : cs[j] = c]
<1>1. /\ TypeOK /\ Shape /\ n \in Addr /\ DOMAIN ChildBounds(n) = K
      /\ DOMAIN cs = 1..Len(cs) /\ Len(cs) \in 1..M /\ Len(cs) <= Len(ks) + 1 /\ M \in Nat
      /\ Len(ks) \in Nat /\ DOMAIN ks = 1..Len(ks)
      /\ \A i \in 1..Len(ks) : ks[i] \in Int /\ ks[i] > 0
      /\ \A i, j \in 1..Len(ks) : i < j => ks[i] < ks[j]
  <2>1. TypeOK /\ Shape /\ n \in Addr /\ DOMAIN ChildBounds(n) = K
    BY NodesAreAddresses, ChildBoundsTypes DEF IInv
  <2>2. /\ Len(ks) \in Nat /\ DOMAIN ks = 1..Len(ks) /\ DOMAIN cs = 1..Len(cs)
        /\ \A i \in 1..Len(ks) : ks[i] \in Keys
    BY <2>1, FieldTypes, LenProperties
  <2>3. Len(cs) = IF Leaf(n) THEN Len(ks) ELSE Len(ks) + 1
    BY <2>1 DEF Shape, LeafShape, InnerShape, Inner, Leaf, Value
  <2>4. \A i, j \in 1..Len(ks) : i < j => ks[i] < ks[j]
    BY <2>1, <2>2 DEF Shape, KeysShape, StrictlySorted
  <2>5. \A i \in 1..Len(ks) : ks[i] \in Int /\ ks[i] > 0
    <3>1. \A k \in Keys : k \in Int /\ k > 0
      BY ConstantsAssumption
    <3> HIDE DEF ks
    <3> QED BY <2>2, <3>1
  <2>6. Len(cs) \in 1..M /\ Len(cs) <= Len(ks) + 1 /\ M \in Nat
    <3>1. M \in Nat /\ M >= 2
      BY ConstantsAssumption
    <3>2. Len(ks) \in Nat /\ Len(ks) < M /\ (Leaf(n) => Len(ks) >= 1)
      BY <2>2
    <3>3. PICK a, b \in Nat : a = Len(cs) /\ b = Len(ks)
      BY <2>3, <3>2
    <3> HIDE DEF cs, ks
    <3> QED BY <2>3, <3>1, <3>2, <3>3
  <2> HIDE DEF cs, ks, K, at
  <2> QED BY <2>1, <2>2, <2>4, <2>5, <2>6
<1>2. \A c \in K : at[c] \in 1..Len(cs) /\ cs[at[c]] = c
  BY <1>1 DEF ToSet
<1>3. \A c \in K : ChildBounds(n)[c] = IF at[c] = 1 THEN 0 ELSE ks[at[c] - 1]
  BY DEF ChildBounds
<1>4. K = {cs[i] : i \in 1..Len(cs)}
  BY <1>1 DEF ToSet
<1> HIDE DEF at, cs, ks, K
<1>5. ASSUME NEW c \in K, NEW d \in K, at[c] < at[d]
      PROVE  ChildBounds(n)[c] # ChildBounds(n)[d]
  <2>1. at[d] - 1 \in 1..Len(ks) /\ ChildBounds(n)[d] = ks[at[d] - 1]
    BY <1>1, <1>2, <1>3, <1>5
  <2>2. CASE at[c] = 1
    BY <1>1, <1>3, <2>1, <2>2
  <2>3. CASE at[c] # 1
    <3>1. at[c] - 1 \in 1..Len(ks) /\ at[c] - 1 < at[d] - 1
      BY <1>1, <1>2, <1>5, <2>1, <2>3
    <3>2. ks[at[c] - 1] < ks[at[d] - 1] /\ ks[at[c] - 1] \in Int /\ ks[at[d] - 1] \in Int
      BY <1>1, <2>1, <3>1
    <3>3. ChildBounds(n)[c] = ks[at[c] - 1]
      BY <1>3, <2>3
    <3> QED BY <2>1, <3>2, <3>3
  <2> QED BY <2>2, <2>3
<1>6. ASSUME NEW c \in K, NEW d \in K, c # d
      PROVE  ChildBounds(n)[c] # ChildBounds(n)[d]
  <2>1. at[c] \in Int /\ at[d] \in Int /\ at[c] # at[d]
    BY <1>2, <1>6
  <2>2. at[c] < at[d] \/ at[d] < at[c]
    BY <2>1
  <2> QED BY <1>5, <2>2
<1>7. Cardinality(K) \in 1..M
  <2> DEFINE S == 1..Len(cs)
             f == [i \in S |-> cs[i]]
  <2>0. 1 \in Int /\ Len(cs) \in Int /\ ~(1 > Len(cs))
    BY <1>1
  <2>1. IsFiniteSet(S) /\ Cardinality(S) = Len(cs)
    <3>1. IsFiniteSet(S) /\ Cardinality(S) = Len(cs) - 1 + 1
      BY ONLY <2>0, FS_Interval, SMTT(60)
    <3> QED BY <2>0, <3>1
  <2>2. f \in Surjection(S, K)
    BY <1>4 DEF Surjection
  <2>3. IsFiniteSet(K) /\ Cardinality(K) <= Cardinality(S)
    <3> HIDE DEF f, S
    <3> QED BY ONLY <2>1, <2>2, FS_Surjection
  <2>4. K # {}
    <3>1. 1 \in 1..Len(cs)
      BY <1>1
    <3>2. cs[1] \in K
      BY <1>4, <3>1
    <3> QED BY <3>2
  <2>5. Cardinality(K) \in Nat /\ Cardinality(K) # 0
    BY <2>3, <2>4, FS_CardinalityType, FS_EmptySet
  <2> QED BY <1>1, <2>1, <2>3, <2>5
<1>8. QED
  BY <1>1, <1>6, <1>7

\* No node of a layer is an empty leaf.
LEMMA LayerFits ==
  ASSUME IInv, HalfFull, Course, pc = "print", NEW n \in cached
  PROVE  /\ Cardinality(DOMAIN ChildBounds(n)) \in 1..M
         /\ \A c, d \in DOMAIN ChildBounds(n) : c # d => ChildBounds(n)[c] # ChildBounds(n)[d]
<1>1. PICK lv : Levels(lv) /\ Placed(lv)
  BY DEF Course
<1>2. n \in Nodes /\ n \in Addr /\ ~Value(n) /\ TypeOK /\ depth >= 2 /\ depth \in Nat
  BY <1>1, NodesAreAddresses DEF IInv, Load, Placed, Course, TypeOK
<1>3. Len(pool[n].key) < M
  BY <1>2, FieldTypes, ConstantsAssumption DEF IInv, Fill
<1>4. Leaf(n) => Len(pool[n].key) >= 1
  <2> SUFFICES ASSUME Leaf(n) PROVE Len(pool[n].key) >= 1
    OBVIOUS
  <2>1. n # Root
    BY <1>1, <1>2 DEF Levels
  <2>2. Len(pool[n].key) >= Half
    BY <1>2, <2>1 DEF HalfFull
  <2>3. Half \in Nat /\ Half >= 1
    BY ConstantsAssumption DEF Half
  <2> QED BY <1>2, <2>2, <2>3, FieldTypes
<1>5. QED
  BY <1>2, <1>3, <1>4, BoundsFit

\* The nodes of the frontier begin at different keys.
LEMMA FrontierFits ==
  ASSUME IInv, Frontier
  PROVE  \A m, n \in DOMAIN node_map : m # n => node_map[m] # node_map[n]
<1> SUFFICES ASSUME NEW m \in DOMAIN node_map, NEW n \in DOMAIN node_map, m # n
             PROVE  node_map[m] # node_map[n]
  OBVIOUS
<1>1. /\ m \in Nodes /\ n \in Nodes /\ ~Value(m) /\ ~Value(n)
      /\ node_map[m] = cover[m].lo /\ node_map[n] = cover[n].lo /\ Apart(m, n)
  BY DEF Frontier
<1>2. /\ cover[m].lo \in Int /\ cover[m].hi \in Int /\ cover[n].lo \in Int /\ cover[n].hi \in Int
  BY <1>1, NodesAreAddresses, FieldTypes DEF IInv
<1>3. cover[m].lo < cover[m].hi /\ cover[n].lo < cover[n].hi
  BY <1>1 DEF IInv, Shape, KeysShape
<1>4. QED
  BY <1>1, <1>2, <1>3 DEF Apart

LEMMA FitsStep ==
  ASSUME IInv, HalfFull, Course, PrintedFits, [Next]_vars
  PROVE  PrintedFits'
<1>1. CASE printed' = printed
  BY <1>1 DEF PrintedFits
<1>2. CASE PrintRoot
  <2>1. printed' = {PrintedNode(0, Root, node_map)} /\ Frontier
    BY <1>2 DEF PrintRoot, Course
  <2> QED BY <2>1, FrontierFits DEF PrintedFits, PrintedNode
<1>3. CASE PrintLayer
  <2>1. printed' = printed \cup {PrintedNode(layer, n, ChildBounds(n)) : n \in cached}
    BY <1>3 DEF PrintLayer
  <2>2. ASSUME NEW n \in cached, NEW r, r = PrintedNode(layer, n, ChildBounds(n))
        PROVE  /\ Cardinality(DOMAIN r.bounds) \in 1..M
               /\ \A c, d \in DOMAIN r.bounds : c # d => r.bounds[c] # r.bounds[d]
    <3>1. r.bounds = ChildBounds(n)
      BY <2>2 DEF PrintedNode
    <3>2. pc = "print"
      BY <1>3 DEF PrintLayer
    <3> QED BY <3>1, <3>2, LayerFits
  <2> QED BY <2>1, <2>2 DEF PrintedFits
<1>4. \/ PrintRoot \/ PrintLayer \/ printed' = printed
  BY DEF Next, InsertStep, LoadStep, InsertBegin, Descend, LeafInsert, OverflowDone,
         OverflowCopy, SplitLeaf, SplitInner, LoadBegin, Expand, loadVars, vars
<1>5. QED
  BY <1>1, <1>2, <1>3, <1>4

(* Whatever is printed can be put into the switch's tables: below the root *)
(* no node has no child or more than M, and no two bounds of a table are   *)
(* the same (load2switch_greedy(), print_info()).                          *)
THEOREM PrintOutFits == Spec => []PrintedFits
<1>1. Init => PrintedFits
  BY DEF Init, PrintedFits
<1>2. IInv /\ HalfFull /\ [Next]_vars => HalfFull'
  BY HalfFullStep
<1>3. Spec => []HalfFull
  BY Invariance, InitHalfFull, <1>2, PTL DEF Spec
<1>4. IInv /\ HalfFull /\ Course /\ PrintedFits /\ [Next]_vars => PrintedFits'
  BY FitsStep
<1>5. QED
  BY Invariance, <1>3, LoadsStayOnCourse, <1>1, <1>4, PTL DEF Spec

-----------------------------------------------------------------------------
(***************************************************************************)
(* A table of bounds gives, of nodes that share keys out among them, the   *)
(* one responsible for a key.  The first child of a node has bound 0.      *)
(***************************************************************************)
Shares(b, L) ==
  /\ \A c \in DOMAIN b :
       /\ c \in Nodes /\ ~Value(c) /\ L <= cover[c].lo
       /\ b[c] = cover[c].lo \/ (b[c] = 0 /\ cover[c].lo = L)
  /\ \A c, d \in DOMAIN b : c # d => Apart(c, d)

\* The child with the greatest bound below k.
Greatest(b, k, c) ==
  /\ c \in DOMAIN b /\ b[c] < k
  /\ \A d \in DOMAIN b : b[d] < k => b[d] <= b[c]

LEMMA BoundFinds ==
  ASSUME IInv, NEW L \in Nat, NEW b, Shares(b, L), NEW k \in Int, L < k,
         NEW e \in DOMAIN b, InRange(k, cover[e])
  PROVE  Greatest(b, k, e) /\ \A c : Greatest(b, k, c) => c = e
<1>1. \A c \in DOMAIN b :
        /\ cover[c].lo \in Nat /\ cover[c].hi \in Nat /\ cover[c].lo < cover[c].hi
        /\ b[c] \in Nat /\ b[c] <= cover[c].lo
  <2> TAKE c \in DOMAIN b
  <2>1. c \in Nodes /\ ~Value(c) /\ c \in Addr
    BY NodesAreAddresses DEF Shares, IInv
  <2>2. cover[c].lo \in Nat /\ cover[c].hi \in Nat
    BY <2>1, FieldTypes, ConstantsAssumption DEF IInv
  <2>3. cover[c].lo < cover[c].hi
    BY <2>1 DEF IInv, Shape, KeysShape
  <2> QED BY <2>2, <2>3 DEF Shares
<1>2. cover[e].lo < k /\ k <= cover[e].hi
  BY DEF InRange
<1>3. ASSUME NEW d \in DOMAIN b, d # e, b[d] < k PROVE b[d] < b[e]
  <2>1. cover[d].hi <= cover[e].lo
    <3>1. CASE cover[e].hi <= cover[d].lo
      BY <1>1, <1>2, <1>3, <3>1 DEF Shares
    <3>2. CASE ~(cover[e].hi <= cover[d].lo)
      BY <1>3, <3>2 DEF Shares, Apart
    <3> QED BY <3>1, <3>2
  <2>2. L <= cover[d].lo /\ cover[d].lo < cover[e].lo
    BY <1>1, <2>1 DEF Shares
  <2>3. b[e] = cover[e].lo
    BY <1>1, <2>2 DEF Shares
  <2> QED BY <1>1, <2>2, <2>3
<1>4. b[e] < k
  BY <1>1, <1>2
<1>5. Greatest(b, k, e)
  BY <1>1, <1>3, <1>4 DEF Greatest
<1>6. ASSUME NEW c, Greatest(b, k, c) PROVE c = e
  <2> SUFFICES ASSUME c # e PROVE FALSE
    OBVIOUS
  <2>1. c \in DOMAIN b /\ b[c] < k /\ b[e] <= b[c]
    BY <1>4, <1>6 DEF Greatest
  <2>2. b[c] < b[e]
    BY <1>3, <2>1
  <2> QED BY <1>1, <2>1, <2>2
<1>7. QED
  BY <1>5, <1>6

\* The printed bounds of an inner node share out its keys.
LEMMA NodeShares ==
  ASSUME IInv, NEW n \in Nodes, Inner(n)
  PROVE  /\ cover[n].lo \in Nat /\ DOMAIN ChildBounds(n) = Kids(n)
         /\ Shares(ChildBounds(n), cover[n].lo)
<1>1. DOMAIN ChildBounds(n) = Kids(n) /\ cover[n].lo \in Nat
  BY NodesAreAddresses, FieldTypes, ConstantsAssumption DEF ChildBounds, Kids, IInv
<1>2. ASSUME NEW c \in Kids(n)
      PROVE  /\ c \in Nodes /\ ~Value(c) /\ cover[n].lo <= cover[c].lo
             /\ \/ ChildBounds(n)[c] = cover[c].lo
                \/ ChildBounds(n)[c] = 0 /\ cover[c].lo = cover[n].lo
  <2>1. PICK i \in 1..Len(pool[n].child) :
          /\ cover[c].lo = SlotLo(n, i)
          /\ ChildBounds(n)[c] = IF i = 1 THEN 0 ELSE pool[n].key[i - 1]
    BY KidPlace
  <2>2. c \in Nodes /\ ~Value(c) /\ cover[n].lo <= cover[c].lo
    BY KidBound
  <2> QED BY <2>1, <2>2 DEF SlotLo
<1>3. QED
  BY <1>1, <1>2, KidsDisjoint DEF Shares, Apart
=============================================================================
