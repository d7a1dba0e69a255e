--------------------------- MODULE SwitchPathProofs --------------------------
(***************************************************************************)
(* The switch: the compare stages order the key among the thresholds of a  *)
(* node although they can only subtract words and look at signs, and a     *)
(* packet that crosses them goes where the tree goes.                      *)
(***************************************************************************)
EXTENDS SwitchPath, FiniteSetTheorems, WellFoundedInduction, TLAPS

\* Every nonempty set of naturals has a least element.
LEMMA LeastNat ==
  ASSUME NEW T \in SUBSET Nat, T # {}
  PROVE  \E x \in T : \A y \in T : x <= y
<1>1. \E x \in T : \A y \in T : ~ (<<y, x>> \in OpToRel(<, Nat))
  BY NatLessThanWellFounded, WFMin
<1>2. \A x, y \in Nat : y < x => <<y, x>> \in OpToRel(<, Nat)
  <2> TAKE x, y \in Nat
  <2> HAVE y < x
  <2>1. <<y, x>> \in Nat \X Nat /\ <<y, x>>[1] = y /\ <<y, x>>[2] = x
    OBVIOUS
  <2> QED BY <2>1 DEF OpToRel
<1>3. \E x \in T : \A y \in T : ~ (y < x)
  BY <1>1, <1>2
<1>4. QED
  BY <1>3

-----------------------------------------------------------------------------
(***************************************************************************)
(* Words and keys.                                                         *)
(***************************************************************************)
Words == 0..(Word - 1)

\* A difference of words wraps around once at most.
LEMMA WordMinus ==
  ASSUME NEW w \in Words, NEW v \in Words
  PROVE  (w - v) % Word = IF w >= v THEN w - v ELSE w - v + Word
<1>1. Word \in Nat /\ Word >= 2
  BY StageAssumption
<1>2. PICK d \in Int : d = w - v /\ d < Word /\ -Word < d
  BY <1>1 DEF Words
<1>3. PICK q \in Int, r \in Int : d = Word * q + r /\ 0 <= r /\ r < Word /\ r = d % Word
  BY <1>1
<1>4. Word * q < Word /\ -2 * Word < Word * q
  BY <1>1, <1>2, <1>3
<1>5. q \in {0, -1}
  BY <1>1, <1>4, SMTT(30)
<1>6. /\ q = 0 => d = r
      /\ q = -1 => d = r - Word
  BY <1>1, <1>3
<1>7. r = IF d >= 0 THEN d ELSE d + Word
  BY <1>1, <1>2, <1>3, <1>5, <1>6
<1>8. w \in Int /\ v \in Int /\ (w >= v <=> d >= 0)
  BY <1>1, <1>2 DEF Words
<1>9. QED
  BY <1>2, <1>3, <1>7, <1>8

LEMMA TopIs ==
  /\ \A w \in Words : Top(w) = IF w < Word \div 2 THEN 0 ELSE 1
  /\ Word = (Word \div 2) + (Word \div 2) /\ Word \div 2 \in Nat /\ Word \div 2 >= 1
<1>1. Word \in Nat /\ Word >= 2 /\ Word % 2 = 0
  BY StageAssumption
<1>2. PICK h \in Int : h = Word \div 2
  BY <1>1
<1>3. Word = h + h /\ h >= 1
  BY <1>1, <1>2
<1>4. ASSUME NEW w \in Words
      PROVE  w \div h = IF w < h THEN 0 ELSE 1
  <2>1. w \in Int /\ 0 <= w /\ w < h + h
    BY <1>1, <1>3 DEF Words
  <2>2. PICK q \in Int, r \in Int : w = h * q + r /\ 0 <= r /\ r < h /\ q = w \div h
    BY <1>3, <2>1
  <2>3. h * q < h + h /\ -h < h * q
    BY <1>3, <2>1, <2>2
  <2>4. q \in {0, 1}
    BY <1>3, <2>3, SMTT(30)
  <2> QED BY <1>3, <2>1, <2>2, <2>4
<1>5. QED
  BY <1>2, <1>3, <1>4 DEF Top

LEMMA HiLo ==
  ASSUME NEW k \in KeySpace
  PROVE  Hi(k) \in Words /\ Lo(k) \in Words /\ k = Word * Hi(k) + Lo(k)
<1>1. Word \in Nat /\ Word >= 2
  BY StageAssumption
<1>2. k \in Int /\ 0 <= k /\ k < Word * Word
  <2>1. Word * Word \in Nat
    BY <1>1
  <2> QED BY <2>1 DEF KeySpace
<1>3. PICK q \in Int, r \in Int : k = Word * q + r /\ 0 <= r /\ r < Word /\ q = k \div Word /\ r = k % Word
  BY <1>1, <1>2
<1>4. Word * q < Word * Word /\ -Word < Word * q
  BY <1>1, <1>2, <1>3
<1>5. q < Word /\ -1 < q
  BY <1>1, <1>4, SMTT(30)
<1>6. QED
  BY <1>1, <1>3, <1>5 DEF Hi, Lo, Words

\* Keys are ordered by their first word, then by their second.
LEMMA KeyOrder ==
  ASSUME NEW k \in KeySpace, NEW l \in KeySpace
  PROVE  k < l <=> Hi(k) < Hi(l) \/ (Hi(k) = Hi(l) /\ Lo(k) < Lo(l))
<1>1. Word \in Nat /\ Word >= 2
  BY StageAssumption
<1>2. /\ Hi(k) \in Words /\ Lo(k) \in Words /\ k = Word * Hi(k) + Lo(k)
      /\ Hi(l) \in Words /\ Lo(l) \in Words /\ l = Word * Hi(l) + Lo(l)
  BY HiLo
<1>3. PICK p \in Int, q \in Int, x \in Int, y \in Int :
        /\ p = Hi(k) /\ q = Hi(l) /\ x = Lo(k) /\ y = Lo(l)
        /\ 0 <= x /\ x < Word /\ 0 <= y /\ y < Word
  BY <1>1, <1>2 DEF Words
<1>4. ASSUME NEW a \in Int, NEW b \in Int, a < b PROVE Word * a + Word <= Word * b
  BY <1>1, <1>4, SMTT(30)
<1>5. /\ p < q => k < l
      /\ q < p => l < k
  BY <1>1, <1>2, <1>3, <1>4
<1>6. QED
  BY <1>1, <1>2, <1>3, <1>5

\* What the two words of a difference and their signs say of threshold t.
Differs(b, t) ==
  /\ sub[b] = [hi |-> (Hi(t) - Hi(key)) % Word, lo |-> (Lo(t) - Lo(key)) % Word]
  /\ sgn[b] = [hi |-> (Top(Hi(t)) + Top(Hi(key))) % 2, lo |-> (Top(Lo(t)) + Top(Lo(key))) % 2]

\* The comparison that the tables make of a difference is right.
LEMMA SignTells ==
  ASSUME NEW w \in Words, NEW v \in Words
  PROVE  LET d == (w - v) % Word
             s == (Top(w) + Top(v)) % 2
         IN  /\ d = 0 <=> w = v
             /\ (IF s = 0 THEN Top(d) ELSE Top(v)) = IF w < v THEN 1 ELSE 0
<1> DEFINE h == Word \div 2
<1>1. /\ h \in Nat /\ h >= 1 /\ Word = h + h
      /\ \A x \in Words : Top(x) = IF x < h THEN 0 ELSE 1
  BY TopIs
<1> HIDE DEF h
<1>2. PICK d : d = (w - v) % Word
  OBVIOUS
<1>3. d = IF w >= v THEN w - v ELSE w - v + Word
  BY <1>2, WordMinus
<1>4. w \in 0..(h + h - 1) /\ v \in 0..(h + h - 1) /\ d \in 0..(h + h - 1)
  BY <1>1, <1>3 DEF Words
<1>5. Top(w) = (IF w < h THEN 0 ELSE 1) /\ Top(v) = (IF v < h THEN 0 ELSE 1)
      /\ Top(d) = (IF d < h THEN 0 ELSE 1)
  BY <1>1, <1>4 DEF Words
<1>6. (Top(w) + Top(v)) % 2 = IF Top(w) = Top(v) THEN 0 ELSE 1
  BY <1>5
<1>7. d = 0 <=> w = v
  BY <1>1, <1>3, <1>4
<1>8. CASE Top(w) = Top(v)
  <2>1. Top(d) = IF w < v THEN 1 ELSE 0
    BY <1>1, <1>3, <1>4, <1>5, <1>8
  <2> QED BY <1>2, <1>6, <1>7, <1>8, <2>1
<1>9. CASE Top(w) # Top(v)
  <2>1. h \in Nat
    BY <1>1
  <2>2. Top(v) = IF w < v THEN 1 ELSE 0
    BY <1>4, <1>5, <1>9, <2>1
  <2> QED BY <1>2, <1>6, <1>7, <1>9, <2>2
<1>10. QED
  BY <1>8, <1>9

(* set_comp_table (FBT_RDMA.p4): the bit is one if the threshold is below  *)
(* the key, for keys of all values of both words.                          *)
LEMMA ComparisonIsRight ==
  ASSUME NEW b, NEW t \in KeySpace, key \in KeySpace, Differs(b, t)
  PROVE  IsBelow(b) = IF t < key THEN 1 ELSE 0
<1>1. /\ Hi(t) \in Words /\ Lo(t) \in Words /\ Hi(key) \in Words /\ Lo(key) \in Words
      /\ t < key <=> Hi(t) < Hi(key) \/ (Hi(t) = Hi(key) /\ Lo(t) < Lo(key))
  BY HiLo, KeyOrder
<1>2. PICK p \in Words, q \in Words, x \in Words, y \in Words :
        p = Hi(t) /\ q = Hi(key) /\ x = Lo(t) /\ y = Lo(key)
  BY <1>1
<1>3. /\ sub[b].hi = (p - q) % Word /\ sub[b].lo = (x - y) % Word
      /\ sgn[b].hi = (Top(p) + Top(q)) % 2 /\ sgn[b].lo = (Top(x) + Top(y)) % 2
  BY <1>2 DEF Differs
<1>4. /\ (p - q) % Word = 0 <=> p = q
      /\ (IF sgn[b].hi = 0 THEN Top(sub[b].hi) ELSE Top(q)) = IF p < q THEN 1 ELSE 0
  BY <1>3, SignTells
<1>5. (IF sgn[b].lo = 0 THEN Top(sub[b].lo) ELSE Top(y)) = IF x < y THEN 1 ELSE 0
  BY <1>3, SignTells
<1>6. Word \in Nat /\ p \in Int /\ q \in Int
  BY StageAssumption DEF Words
<1>7. IsBelow(b) = IF p = q THEN (IF x < y THEN 1 ELSE 0) ELSE (IF p < q THEN 1 ELSE 0)
  BY <1>2, <1>3, <1>4, <1>5 DEF IsBelow
<1>8. QED
  BY <1>1, <1>2, <1>6, <1>7

-----------------------------------------------------------------------------
(***************************************************************************)
(* The table of a node, and where it leads.                                *)
(***************************************************************************)
Bit(n, m) == IF Thresh(n)[m] < key THEN 1 ELSE 0
Hits(c) == {m \in 1..Capacity : \A x \in 1..Capacity : c[x] = 1 <=> x <= m}

LEMMA SizeFacts ==
  /\ Groups \in Nat /\ Groups >= 1 /\ Group \in Nat /\ Group >= 1
  /\ Layers \in Nat /\ Layers >= 1 /\ Capacity \in Nat /\ Capacity >= 1
  /\ 0 \in KeySpace /\ KeySpace \subseteq Nat
<1>1. /\ Groups \in Nat /\ Groups >= 1 /\ Group \in Nat /\ Group >= 1
      /\ Layers \in Nat /\ Layers >= 1 /\ Word \in Nat /\ Word >= 2
  BY StageAssumption
<1>2. Groups * Group \in Nat /\ Groups * Group >= 1
  BY <1>1, SMTT(30)
<1>3. Word * Word \in Nat /\ Word * Word >= 1
  BY <1>1, SMTT(30)
<1>4. QED
  BY <1>1, <1>2, <1>3 DEF Capacity, KeySpace

\* What the print-out says of a node below the root.
LEMMA NodeShape ==
  ASSUME NEW N \in Nodes, NEW n \in N
  PROVE  /\ n.layer \in 1..Layers
         /\ n.child \in Seq({n.child[x] : x \in DOMAIN n.child}) /\ Len(n.child) \in 1..Capacity
         /\ n.keys \in Seq(KeySpace) /\ Len(n.keys) < Capacity
         /\ Len(n.keys) \in {Len(n.child) - 1, Len(n.child)}
         /\ \A x, y \in 1..Len(n.keys) : x < y => n.keys[x] <= n.keys[y]
<1>1. /\ n.layer \in 1..Layers
      /\ n.child \in Seq({n.child[x] : x \in DOMAIN n.child}) /\ Len(n.child) \in 1..Capacity
      /\ n.keys \in Seq(KeySpace) /\ Len(n.keys) < Capacity
      /\ Len(n.keys) \in {Len(n.child) - 1, Len(n.child)}
      /\ \A x, y \in DOMAIN n.keys : x < y => n.keys[x] <= n.keys[y]
  BY StageAssumption
<1>2. DOMAIN n.keys = 1..Len(n.keys)
  BY <1>1
<1>3. QED
  BY <1>1, <1>2

\* readNode(): the entries, then the last one again and again.
LEMMA PadIs ==
  ASSUME NEW S, NEW s \in Seq(S), Len(s) >= 1, NEW m \in 1..Capacity
  PROVE  Pad(s)[m] = IF m <= Len(s) THEN s[m] ELSE s[Len(s)]
  BY DEF Pad, Last

LEMMA ThreshIs ==
  ASSUME NEW n, n.keys \in Seq(KeySpace), NEW m \in 1..Capacity
  PROVE  /\ Thresh(n)[m] = IF m = 1 \/ Len(n.keys) = 0 THEN 0
                           ELSE n.keys[IF m <= Len(n.keys) + 1 THEN m - 1 ELSE Len(n.keys)]
         /\ Thresh(n)[m] \in KeySpace
<1>1. PICK s : s = n.keys
  OBVIOUS
<1>2. s \in Seq(KeySpace) /\ Len(s) \in Nat /\ 0 \in KeySpace /\ Capacity \in Nat
  BY <1>1, SizeFacts
<1>3. PICK u : u = <<0>> \o s
  OBVIOUS
<1>4. /\ u \in Seq(KeySpace) /\ Len(u) = Len(s) + 1
      /\ \A x \in 1..(Len(s) + 1) : u[x] = IF x = 1 THEN 0 ELSE s[x - 1]
  BY <1>2, <1>3
<1>5. Thresh(n)[m] = IF m <= Len(u) THEN u[m] ELSE u[Len(u)]
  <2>1. Thresh(n) = Pad(u)
    BY <1>1, <1>3 DEF Thresh
  <2>2. Len(u) >= 1
    BY <1>2, <1>4
  <2>3. Pad(u)[m] = IF m <= Len(u) THEN u[m] ELSE u[Len(u)]
    BY <1>4, <2>2, PadIs
  <2> QED BY <2>1, <2>3
<1>6. Thresh(n)[m] = IF m = 1 \/ Len(s) = 0 THEN 0
                     ELSE s[IF m <= Len(s) + 1 THEN m - 1 ELSE Len(s)]
  BY <1>2, <1>4, <1>5
<1>7. Thresh(n)[m] \in KeySpace
  BY <1>2, <1>6
<1>8. QED
  BY <1>1, <1>6, <1>7

LEMMA ThreshSorted ==
  ASSUME NEW N \in Nodes, NEW n \in N, NEW x \in 1..Capacity, NEW y \in 1..Capacity, x < y
  PROVE  Thresh(n)[x] <= Thresh(n)[y]
<1>1. PICK s : s = n.keys
  OBVIOUS
<1>2. /\ s \in Seq(KeySpace) /\ \A i1, i2 \in 1..Len(s) : i1 < i2 => s[i1] <= s[i2]
      /\ Len(s) \in Nat /\ \A i1 \in 1..Len(s) : s[i1] \in Nat
  <2>1. n.keys \in Seq(KeySpace) /\ \A i1, i2 \in 1..Len(n.keys) : i1 < i2 => n.keys[i1] <= n.keys[i2]
    BY NodeShape
  <2>2. s \in Seq(KeySpace) /\ \A i1, i2 \in 1..Len(s) : i1 < i2 => s[i1] <= s[i2]
    BY <1>1, <2>1
  <2>3. \A i1 \in 1..Len(s) : s[i1] \in KeySpace
    BY <2>2
  <2>4. \A i1 \in 1..Len(s) : s[i1] \in Nat
    BY <2>3, SizeFacts
  <2>5. Len(s) \in Nat
    BY <2>2
  <2> QED BY <2>2, <2>4, <2>5
<1> DEFINE at(m) == IF m <= Len(s) + 1 THEN m - 1 ELSE Len(s)
<1>3. \A m \in 1..Capacity :
        Thresh(n)[m] = IF m = 1 \/ Len(s) = 0 THEN 0 ELSE s[at(m)]
  BY <1>1, <1>2, ThreshIs
<1>4. Len(s) # 0 /\ x # 1 => at(x) \in 1..Len(s) /\ at(y) \in 1..Len(s) /\ at(x) <= at(y)
  BY <1>2, SizeFacts
<1>5. Len(s) # 0 => at(y) \in 1..Len(s)
  BY <1>2, SizeFacts
<1> HIDE DEF at
<1>6. QED
  BY <1>2, <1>3, <1>4, <1>5, SizeFacts

\* The searched key is past a first part of a node's keys.
LEMMA KeysBelow ==
  ASSUME NEW N \in Nodes, NEW n \in N, key \in KeySpace
  PROVE  \E c \in 0..Len(n.keys) :
           /\ \A m \in 1..Len(n.keys) : n.keys[m] < key <=> m <= c
           /\ Cardinality({m \in DOMAIN n.keys : n.keys[m] < key}) = c
<1>1. PICK s : s = n.keys
  OBVIOUS
<1>2. /\ s \in Seq(KeySpace) /\ \A x, y \in 1..Len(s) : x < y => s[x] <= s[y]
      /\ Len(s) \in Nat /\ DOMAIN s = 1..Len(s)
  <2>1. n.keys \in Seq(KeySpace) /\ \A x, y \in 1..Len(n.keys) : x < y => n.keys[x] <= n.keys[y]
    BY NodeShape
  <2>2. s \in Seq(KeySpace) /\ \A x, y \in 1..Len(s) : x < y => s[x] <= s[y]
    BY <1>1, <2>1
  <2> QED BY <2>2
<1>3. key \in Nat /\ \A m \in 1..Len(s) : s[m] \in Nat
  <2>1. \A m \in 1..Len(s) : s[m] \in KeySpace
    BY <1>2
  <2> QED BY <2>1, SizeFacts
<1> DEFINE T == {m \in 1..(Len(s) + 1) : m <= Len(s) => ~(s[m] < key)}
<1>4. T \in SUBSET Nat /\ Len(s) + 1 \in T
  BY <1>2
<1>5. PICK p \in T : \A y \in T : p <= y
  <2> HIDE DEF T
  <2> QED BY <1>4, LeastNat
<1>6. p \in 1..(Len(s) + 1) /\ p - 1 \in 0..Len(s)
  BY <1>2, <1>5
<1>7. \A m \in 1..Len(s) : s[m] < key <=> m <= p - 1
  <2> TAKE m \in 1..Len(s)
  <2>1. m < p => s[m] < key
    BY <1>5
  <2>2. m > p => s[p] <= s[m] /\ ~(s[p] < key)
    BY <1>2, <1>5, <1>6
  <2>3. m = p => ~(s[m] < key)
    BY <1>5
  <2> QED BY <1>2, <1>3, <1>6, <2>1, <2>2, <2>3
<1>8. {m \in DOMAIN s : s[m] < key} = 1..(p - 1)
  BY <1>2, <1>6, <1>7
<1>9. Cardinality(1..(p - 1)) = p - 1
  BY <1>6, FS_Interval
<1> HIDE DEF T
<1>10. QED
  BY <1>1, <1>6, <1>7, <1>8, <1>9

(* set_result_table: the row of the bits leads to the child that the tree  *)
(* would go to.  There is no row for key 0.                                *)
LEMMA BitsLead ==
  ASSUME NEW N \in Nodes, NEW n \in N, key \in KeySpace, NEW bits,
         \A m \in 1..Capacity : bits[m] = Bit(n, m)
  PROVE  /\ key = 0 => Hits(bits) = {}
         /\ key # 0 => \E m \in 1..Capacity : Hits(bits) = {m} /\ Pad(n.child)[m] = TreeChild(n)
<1>1. Capacity \in Nat /\ Capacity >= 1 /\ key \in Nat
  BY SizeFacts
<1>2. PICK s, ch : s = n.keys /\ ch = n.child
  OBVIOUS
<1>3. /\ s \in Seq(KeySpace) /\ ch \in Seq({n.child[x] : x \in DOMAIN n.child})
      /\ Len(ch) \in 1..Capacity /\ Len(s) < Capacity /\ Len(s) \in {Len(ch) - 1, Len(ch)}
  <2>1. n.keys \in Seq(KeySpace) /\ Len(n.keys) < Capacity /\ Len(n.child) \in 1..Capacity
    BY NodeShape
  <2>2. Len(n.keys) \in {Len(n.child) - 1, Len(n.child)}
        /\ n.child \in Seq({n.child[x] : x \in DOMAIN n.child})
    BY NodeShape
  <2> QED BY <1>2, <2>1, <2>2
<1>4. Len(s) \in Nat /\ Len(ch) \in Nat
  BY <1>1, <1>3
<1>5. PICK c \in 0..Len(s) :
        /\ \A m \in 1..Len(s) : s[m] < key <=> m <= c
        /\ Cardinality({m \in DOMAIN s : s[m] < key}) = c
  BY <1>2, KeysBelow
<1>6. \A m \in 1..Capacity :
        Thresh(n)[m] = IF m = 1 \/ Len(s) = 0 THEN 0
                       ELSE s[IF m <= Len(s) + 1 THEN m - 1 ELSE Len(s)]
  BY <1>2, <1>3, ThreshIs
<1>7. \A m \in 1..Capacity : m = 1 \/ Len(s) = 0 => Thresh(n)[m] = 0
  BY <1>6
<1>8. \A m \in 1..Capacity : m # 1 /\ Len(s) # 0 =>
        \E x \in 1..Len(s) : Thresh(n)[m] = s[x] /\ x = IF m <= Len(s) + 1 THEN m - 1 ELSE Len(s)
  BY <1>1, <1>4, <1>6
<1> DEFINE last == IF c < Len(s) THEN c + 1 ELSE Capacity
<1>9. last \in 1..Capacity
  BY <1>1, <1>3, <1>4, <1>5
<1>10. key # 0 => \A m \in 1..Capacity : bits[m] = 1 <=> m <= last
  <2> SUFFICES ASSUME key # 0, NEW m \in 1..Capacity
               PROVE  bits[m] = 1 <=> m <= last
    OBVIOUS
  <2>1. bits[m] = 1 <=> Thresh(n)[m] < key
    BY DEF Bit
  <2>2. CASE m = 1 \/ Len(s) = 0
    <3>1. Thresh(n)[m] < key
      BY <1>1, <1>7, <2>2
    <3>2. m <= last
      BY <1>1, <1>4, <1>5, <2>2
    <3> QED BY <2>1, <3>1, <3>2
  <2>3. CASE m # 1 /\ Len(s) # 0
    <3>1. PICK x \in 1..Len(s) :
            Thresh(n)[m] = s[x] /\ x = IF m <= Len(s) + 1 THEN m - 1 ELSE Len(s)
      BY <1>8, <2>3
    <3>2. Thresh(n)[m] < key <=> x <= c
      BY <1>5, <3>1
    <3>3. x <= c <=> m <= last
      BY <1>1, <1>4, <1>5, <2>3, <3>1
    <3> QED BY <2>1, <3>2, <3>3
  <2> QED BY <2>2, <2>3
<1>11. key = 0 => bits[1] # 1
  <2>1. bits[1] = IF Thresh(n)[1] < key THEN 1 ELSE 0
    BY <1>1 DEF Bit
  <2>2. Thresh(n)[1] = 0
    BY <1>1, <1>7
  <2> QED BY <1>1, <2>1, <2>2
<1>12. key = 0 => Hits(bits) = {}
  BY <1>1, <1>11 DEF Hits
<1>13. ch[IF last <= Len(ch) THEN last ELSE Len(ch)] = ch[IF c < Len(ch) THEN c + 1 ELSE Len(ch)]
  BY <1>1, <1>3, <1>4, <1>5
<1>14. Pad(ch)[last] = ch[IF last <= Len(ch) THEN last ELSE Len(ch)]
  <2>1. Len(ch) >= 1
    BY <1>3, <1>4
  <2> HIDE DEF last
  <2>2. Pad(ch)[last] = IF last <= Len(ch) THEN ch[last] ELSE ch[Len(ch)]
    BY <1>3, <1>9, <2>1, PadIs
  <2> QED BY <2>2
<1>15. TreeChild(n) = ch[IF c < Len(ch) THEN c + 1 ELSE Len(ch)]
  BY <1>2, <1>5 DEF TreeChild
<1> HIDE DEF last
<1>16. key # 0 => Hits(bits) = {last}
  <2> SUFFICES ASSUME key # 0 PROVE Hits(bits) = {last}
    OBVIOUS
  <2>1. last \in Hits(bits)
    BY <1>9, <1>10 DEF Hits
  <2>2. ASSUME NEW m \in Hits(bits) PROVE m = last
    <3>1. m \in 1..Capacity /\ \A x \in 1..Capacity : x <= last <=> x <= m
      BY <1>10, <2>2 DEF Hits
    <3>2. (m <= last <=> m <= m) /\ (last <= last <=> last <= m)
      BY <1>9, <3>1
    <3> QED BY <1>1, <1>9, <3>1, <3>2
  <2> QED BY <2>1, <2>2
<1>17. QED
  BY <1>2, <1>9, <1>12, <1>13, <1>14, <1>15, <1>16

-----------------------------------------------------------------------------
(***************************************************************************)
(* A packet on its way through the stages.                                 *)
(***************************************************************************)
Addresses ==
  {0} \cup (UNION {{t.children[x] : x \in DOMAIN t.children} : t \in Trees})
      \cup (UNION {{n.child[x] : x \in DOMAIN n.child} : n \in UNION Nodes})

Here == CHOOSE x \in InTable : TRUE
First == (group - 1) * Group

StageTyped ==
  /\ nodes \in Nodes /\ key \in KeySpace /\ addrs \in Seq(Addresses)
  /\ fbt_idx \in Seq(Addresses) /\ Len(fbt_idx) >= 1
  /\ group \in 1..Groups
  /\ comp \in Seq(0..1)
  /\ step \in {"ready", "thresh", "comp", "result", "done", "sent"}

\* Where in the tables the packet is, and how many bits it has.
Counted ==
  /\ step \in {"ready", "done", "sent"} => comp = <<>>
  /\ step \in {"ready", "result"} => group = 1
  /\ step = "ready" => Len(fbt_idx) = 1
  /\ step \in {"thresh", "comp", "result"} => Len(fbt_idx) <= Layers
  /\ step \in {"done", "sent"} => Len(fbt_idx) = Layers + 1
  /\ step \in {"thresh", "comp"} => Len(comp) = First
  /\ step = "result" => Len(comp) = Capacity

\* The words of a comparison are words, whether or not the node has a table.
Worded ==
  \A b \in 1..Group : /\ sub[b].hi \in Words /\ sub[b].lo \in Words

\* The bits and differences of a node that has a table are those of its keys.
Compared ==
  InTable # {} =>
    /\ \A m \in 1..Len(comp) : comp[m] = Bit(Here, m)
    /\ step = "comp" => \A b \in 1..Group : Differs(b, Thresh(Here)[First + b])

StageInv == StageTyped /\ Counted /\ Worded /\ Compared /\ LayersFollowTheTree

\* The tables of a group lie within those of the layer.
LEMMA GroupLies ==
  ASSUME NEW g \in 1..Groups, NEW b \in 1..Group
  PROVE  /\ (g - 1) * Group \in Nat /\ (g - 1) * Group + b \in 1..Capacity
         /\ ((g + 1) - 1) * Group = (g - 1) * Group + Group
         /\ (1 - 1) * Group = 0 /\ (Groups - 1) * Group + Group = Capacity
<1>1. /\ Groups \in Nat /\ Group \in Nat /\ g \in Nat /\ 1 <= g /\ g <= Groups
      /\ b \in Nat /\ 1 <= b /\ b <= Group
  BY SizeFacts
<1>2. PICK p \in Nat : p = g - 1 /\ p + 1 <= Groups
  BY <1>1
<1>3. p * Group \in Nat /\ p * Group + Group <= Groups * Group
  BY <1>1, <1>2, SMTT(30)
<1>4. (p + 1) * Group = p * Group + Group
  BY <1>1, <1>2, SMTT(30)
<1>5. (Groups - 1) * Group + Group = Groups * Group /\ 0 * Group = 0
  BY <1>1, SMTT(30)
<1>6. (g + 1) - 1 = p + 1
  BY <1>1, <1>2
<1>7. QED
  BY <1>1, <1>2, <1>3, <1>4, <1>5, <1>6 DEF Capacity

\* Whatever the words are, the table gives a bit.
LEMMA BitIsBit ==
  ASSUME key \in KeySpace, Worded, NEW b \in 1..Group
  PROVE  IsBelow(b) \in 0..1
<1>1. Hi(key) \in Words /\ Lo(key) \in Words
  BY HiLo
<1>2. \A w \in Words : Top(w) \in 0..1
  BY TopIs
<1>3. sub[b].hi \in Words /\ sub[b].lo \in Words
  BY DEF Worded
<1>4. /\ Top(sub[b].hi) \in 0..1 /\ Top(sub[b].lo) \in 0..1
      /\ Top(Hi(key)) \in 0..1 /\ Top(Lo(key)) \in 0..1
  BY <1>1, <1>2, <1>3
<1>5. QED
  BY <1>4 DEF IsBelow

LEMMA HereIs ==
  ASSUME StageTyped, InTable # {}
  PROVE  Here \in nodes /\ Here \in InTable /\ Here.keys \in Seq(KeySpace)
<1>1. Here \in InTable
  BY DEF Here
<1>2. Here \in nodes
  BY <1>1 DEF InTable
<1>3. QED
  BY <1>1, <1>2, NodeShape DEF StageTyped

\* The address after a layer, for the one before it.
Onward(l, a) ==
  LET here == {n \in nodes : n.layer = l /\ n.addr = a}
  IN  IF here = {} \/ key = 0 THEN a ELSE TreeChild(CHOOSE n \in here : TRUE)

LEMMA FollowsBy ==
  LayersFollowTheTree <=> \A l \in 1..(Layer - 1) : fbt_idx[l + 1] = Onward(l, fbt_idx[l])
  BY DEF LayersFollowTheTree, Onward

LEMMA OnwardStays ==
  ASSUME nodes' = nodes, key' = key
  PROVE  \A l, a : Onward(l, a)' = Onward(l, a)
  BY DEF Onward, TreeChild

LEMMA FollowsStay ==
  ASSUME nodes' = nodes, key' = key, fbt_idx' = fbt_idx, LayersFollowTheTree
  PROVE  LayersFollowTheTree'
<1>1. \A l \in 1..(Layer - 1) : fbt_idx[l + 1] = Onward(l, fbt_idx[l])
  BY FollowsBy
<1>2. (LayersFollowTheTree <=> \A l \in 1..(Layer - 1) : fbt_idx[l + 1] = Onward(l, fbt_idx[l]))'
  BY FollowsBy, PTL
<1>3. \A l : Onward(l, fbt_idx[l])' = Onward(l, fbt_idx[l])
  <2> SUFFICES ASSUME NEW l PROVE Onward(l, fbt_idx[l])' = Onward(l, fbt_idx[l])
    OBVIOUS
  <2>1. PICK a : a = fbt_idx[l]
    OBVIOUS
  <2>2. Onward(l, a)' = Onward(l, a)
    BY OnwardStays
  <2>3. Onward(l, fbt_idx[l])' = Onward(l, a)'
    BY <2>1 DEF Onward
  <2> QED BY <2>1, <2>2, <2>3
<1>4. QED
  BY <1>1, <1>2, <1>3 DEF Layer

LEMMA SetThreshKeeps == StageInv /\ SetThresh /\ addrs' = addrs => StageInv'
<1> SUFFICES ASSUME StageInv, SetThresh, addrs' = addrs PROVE StageInv'
  OBVIOUS
<1>1. /\ step = "thresh" /\ step' = "comp" /\ UNCHANGED <<nodes, key, fbt_idx, group, comp>>
  BY DEF SetThresh
<1>2. InTable' = InTable /\ Here' = Here /\ First' = First
  BY <1>1 DEF InTable, Here, Layer, First
<1>3. \A n, m : Bit(n, m)' = Bit(n, m)
  BY <1>1 DEF Bit, Thresh, Pad
<1>4. StageTyped /\ Counted /\ Worded /\ Compared /\ LayersFollowTheTree
  BY DEF StageInv
<1>5. LayersFollowTheTree'
  BY <1>1, <1>4, FollowsStay
<1>6. CASE InTable = {}
  <2>1. sub' = sub /\ sgn' = sgn
    BY <1>6 DEF SetThresh
  <2>2. Worded'
    BY <1>4, <2>1 DEF Worded
  <2> QED BY <1>1, <1>2, <1>4, <1>5, <1>6, <2>2 DEF StageInv, StageTyped, Counted, Compared
<1>7. CASE InTable # {}
  <2> DEFINE n == Here
             t(b) == Thresh(n)[First + b]
  <2>1. /\ sub' = [b \in 1..Group |-> [hi |-> (Hi(t(b)) - Hi(key)) % Word,
                                       lo |-> (Lo(t(b)) - Lo(key)) % Word]]
        /\ sgn' = [b \in 1..Group |-> [hi |-> (Top(Hi(t(b))) + Top(Hi(key))) % 2,
                                       lo |-> (Top(Lo(t(b))) + Top(Lo(key))) % 2]]
    BY <1>7 DEF SetThresh, Here, First
  <2>2. \A b \in 1..Group : t(b) \in KeySpace
    <3>1. n.keys \in Seq(KeySpace)
      BY <1>4, <1>7, HereIs
    <3>2. \A b \in 1..Group : First + b \in 1..Capacity
      BY <1>4, GroupLies DEF StageTyped, First
    <3> QED BY <3>1, <3>2, ThreshIs
  <2>3. \A b \in 1..Group : Differs(b, Thresh(Here)[First + b])'
    <3> SUFFICES ASSUME NEW b \in 1..Group PROVE Differs(b, Thresh(Here)[First + b])'
      OBVIOUS
    <3>1. (Thresh(Here)[First + b])' = t(b)
      BY <1>2 DEF Thresh, Pad
    <3> QED BY <1>1, <2>1, <3>1 DEF Differs, Hi, Lo, Top
  <2>4. Worded'
    <3> SUFFICES ASSUME NEW b \in 1..Group
                 PROVE  sub'[b].hi \in Words /\ sub'[b].lo \in Words
      BY DEF Worded
    <3>1. PICK x \in KeySpace : x = t(b)
      BY <2>2
    <3>2. sub'[b].hi = (Hi(x) - Hi(key)) % Word /\ sub'[b].lo = (Lo(x) - Lo(key)) % Word
      BY <2>1, <3>1
    <3>3. Hi(x) \in Words /\ Lo(x) \in Words /\ Hi(key) \in Words /\ Lo(key) \in Words
      BY <1>4, HiLo DEF StageTyped
    <3>4. \A p, q \in Words : (p - q) % Word \in Words
      <4> TAKE p, q \in Words
      <4>1. (p - q) % Word = IF p >= q THEN p - q ELSE p - q + Word
        BY WordMinus
      <4> QED BY <4>1, StageAssumption DEF Words
    <3> QED BY <3>2, <3>3, <3>4
  <2>5. Compared'
    BY <1>1, <1>2, <1>3, <1>4, <2>3 DEF Compared
  <2> QED BY <1>1, <1>2, <1>4, <1>5, <2>4, <2>5 DEF StageInv, StageTyped, Counted
<1>8. QED
  BY <1>6, <1>7

LEMMA ConcatIs ==
  ASSUME NEW S, NEW c \in Seq(S), NEW w \in Seq(S)
  PROVE  /\ c \o w \in Seq(S) /\ Len(c \o w) = Len(c) + Len(w)
         /\ \A m \in 1..(Len(c) + Len(w)) :
              (c \o w)[m] = IF m <= Len(c) THEN c[m] ELSE w[m - Len(c)]
  OBVIOUS

LEMMA SetCompKeeps == StageInv /\ SetComp /\ addrs' = addrs => StageInv'
<1> SUFFICES ASSUME StageInv, SetComp, addrs' = addrs PROVE StageInv'
  OBVIOUS
<1>1. /\ step = "comp" /\ UNCHANGED <<nodes, key, fbt_idx, sub, sgn>>
      /\ comp' = comp \o [b \in 1..Group |-> IsBelow(b)]
      /\ \/ group < Groups /\ group' = group + 1 /\ step' = "thresh"
         \/ ~(group < Groups) /\ group' = 1 /\ step' = "result"
  BY DEF SetComp
<1>2. StageTyped /\ Counted /\ Worded /\ Compared /\ LayersFollowTheTree
  BY DEF StageInv
<1>3. InTable' = InTable /\ Here' = Here
  BY <1>1 DEF InTable, Here, Layer
<1>4. \A n, m : Bit(n, m)' = Bit(n, m)
  BY <1>1 DEF Bit, Thresh, Pad
<1>5. LayersFollowTheTree'
  BY <1>1, <1>2, FollowsStay
<1>6. Groups \in Nat /\ Group \in Nat /\ Groups >= 1 /\ Group >= 1 /\ group \in 1..Groups
  BY <1>2, SizeFacts DEF StageTyped
<1>7. PICK w : w = [b \in 1..Group |-> IsBelow(b)]
  OBVIOUS
<1>8. w \in Seq(0..1) /\ Len(w) = Group /\ \A b \in 1..Group : w[b] = IsBelow(b)
  <2>1. \A b \in 1..Group : IsBelow(b) \in 0..1
    BY <1>2, BitIsBit DEF StageTyped
  <2>2. w \in [1..Group -> 0..1]
    BY <1>7, <2>1
  <2>3. w \in Seq(0..1) /\ Len(w) = Group
    BY <1>6, <2>2
  <2> QED BY <1>7, <2>3
<1>9. PICK c : c = comp
  OBVIOUS
<1>10. c \in Seq(0..1) /\ Len(c) = First /\ First \in Nat
  BY <1>1, <1>2, <1>6, <1>9, GroupLies DEF StageTyped, Counted, First
<1>11. PICK d : d = c \o w
  OBVIOUS
<1>12. /\ d \in Seq(0..1) /\ Len(d) = First + Group
       /\ \A m \in 1..Len(d) : d[m] = IF m <= Len(c) THEN c[m] ELSE w[m - Len(c)]
  BY <1>8, <1>10, <1>11, ConcatIs
<1>13. comp' = d
  BY <1>1, <1>7, <1>9, <1>11
<1>14. StageTyped'
  <2>1. comp' \in Seq(0..1)
    BY <1>12, <1>13
  <2>2. group' \in 1..Groups
    BY <1>1, <1>6
  <2>3. step' \in {"ready", "thresh", "comp", "result", "done", "sent"}
    BY <1>1
  <2>4. /\ nodes' \in Nodes /\ key' \in KeySpace /\ addrs' \in Seq(Addresses)
        /\ fbt_idx' \in Seq(Addresses) /\ Len(fbt_idx') >= 1
    BY <1>1, <1>2, Zenon DEF StageTyped
  <2> QED BY <2>1, <2>2, <2>3, <2>4, Zenon DEF StageTyped
<1>15. Counted'
  <2>1. group < Groups => First' = First + Group
    BY <1>1, <1>6, GroupLies DEF First
  <2>2. ~(group < Groups) => First + Group = Capacity
    <3>1. ~(group < Groups) => group = Groups
      BY <1>6
    <3>2. 1 \in 1..Group /\ Groups \in 1..Groups
      BY <1>6
    <3>3. (Groups - 1) * Group + Group = Capacity
      BY <3>2, GroupLies
    <3> QED BY <3>1, <3>3 DEF First
  <2> QED BY <1>1, <1>2, <1>12, <1>13, <2>1, <2>2 DEF Counted
<1>16. Worded'
  BY <1>1, <1>2 DEF Worded
<1>17. Compared'
  <2>1. SUFFICES ASSUME InTable # {} PROVE \A m \in 1..Len(d) : d[m] = Bit(Here, m)
    BY <1>1, <1>3, <1>4, <1>13 DEF Compared
  <2>2. TAKE m \in 1..Len(d)
  <2>3. CASE m <= Len(c)
    <3>1. m \in 1..Len(comp)
      BY <1>9, <1>10, <2>3
    <3> QED BY <1>2, <1>9, <1>12, <2>1, <2>3, <3>1 DEF Compared
  <2>4. CASE ~(m <= Len(c))
    <3>1. PICK b \in 1..Group : b = m - First /\ m = First + b
      BY <1>6, <1>10, <1>12, <2>4
    <3>2. d[m] = IsBelow(b)
      BY <1>8, <1>10, <1>12, <2>4, <3>1
    <3>3. Differs(b, Thresh(Here)[First + b])
      BY <1>1, <1>2, <2>1 DEF Compared
    <3>4. Thresh(Here)[First + b] \in KeySpace
      BY <1>2, <1>6, <2>1, HereIs, GroupLies, ThreshIs DEF First
    <3>5. IsBelow(b) = IF Thresh(Here)[First + b] < key THEN 1 ELSE 0
      BY <1>2, <3>3, <3>4, ComparisonIsRight DEF StageTyped
    <3> QED BY <3>1, <3>2, <3>5 DEF Bit
  <2> QED BY <2>3, <2>4
<1>18. QED
  BY <1>5, <1>14, <1>15, <1>16, <1>17 DEF StageInv

\* What the result tables do is what the tree does.
LEMMA ResultIsRight ==
  ASSUME StageInv, SetResult
  PROVE  fbt_idx' = Append(fbt_idx, Onward(Layer, Last(fbt_idx)))
<1>1. /\ step = "result"
      /\ fbt_idx' = Append(fbt_idx, IF InTable = {} \/ Hits(comp) = {} THEN Last(fbt_idx)
                                    ELSE Pad(Here.child)[CHOOSE m \in Hits(comp) : TRUE])
  BY DEF SetResult, Hits, Here
<1>2. InTable = {n \in nodes : n.layer = Layer /\ n.addr = Last(fbt_idx)}
  BY DEF InTable
<1>3. Onward(Layer, Last(fbt_idx)) =
        IF InTable = {} \/ key = 0 THEN Last(fbt_idx) ELSE TreeChild(Here)
  BY <1>2 DEF Onward, Here
<1>4. CASE InTable = {}
  BY <1>1, <1>3, <1>4
<1>5. CASE InTable # {}
  <2>1. nodes \in Nodes /\ Here \in nodes /\ key \in KeySpace
    BY <1>5, HereIs DEF StageInv, StageTyped
  <2>2. \A m \in 1..Capacity : comp[m] = Bit(Here, m)
    BY <1>1, <1>5 DEF StageInv, Counted, Compared
  <2>3. /\ key = 0 => Hits(comp) = {}
        /\ key # 0 => \E m \in 1..Capacity :
             Hits(comp) = {m} /\ Pad(Here.child)[m] = TreeChild(Here)
    BY <2>1, <2>2, BitsLead
  <2> QED BY <1>1, <1>3, <1>5, <2>3
<1>6. QED
  BY <1>4, <1>5

LEMMA OnwardTyped ==
  ASSUME StageTyped, NEW l, NEW a \in Addresses
  PROVE  Onward(l, a) \in Addresses
<1> DEFINE here == {n \in nodes : n.layer = l /\ n.addr = a}
<1>1. CASE here = {} \/ key = 0
  BY <1>1 DEF Onward
<1>2. CASE ~(here = {} \/ key = 0)
  <2>1. PICK n \in nodes : n = CHOOSE x \in here : TRUE
    BY <1>2
  <2>2. Onward(l, a) = TreeChild(n)
    BY <1>2, <2>1 DEF Onward
  <2>3. PICK ch, C : ch = n.child /\ C = {n.child[x] : x \in DOMAIN n.child}
    OBVIOUS
  <2>4. ch \in Seq(C) /\ Len(ch) \in Nat /\ Len(ch) >= 1
    BY <2>3, NodeShape, SizeFacts DEF StageTyped
  <2>5. PICK c \in 0..Len(n.keys) : Cardinality({m \in DOMAIN n.keys : n.keys[m] < key}) = c
    BY KeysBelow DEF StageTyped
  <2>6. n.keys \in Seq(KeySpace)
    BY NodeShape DEF StageTyped
  <2>7. c \in Nat
    BY <2>5, <2>6
  <2>8. TreeChild(n) = ch[IF c < Len(ch) THEN c + 1 ELSE Len(ch)]
    BY <2>3, <2>5 DEF TreeChild
  <2>9. TreeChild(n) \in C
    BY <2>4, <2>7, <2>8
  <2>10. n \in UNION Nodes
    BY DEF StageTyped
  <2> QED BY <2>2, <2>3, <2>9, <2>10 DEF Addresses
<1>3. QED
  BY <1>1, <1>2

LEMMA SetResultKeeps == StageInv /\ SetResult /\ addrs' = addrs => StageInv'
<1> SUFFICES ASSUME StageInv, SetResult, addrs' = addrs PROVE StageInv'
  OBVIOUS
<1>1. /\ step = "result" /\ comp' = <<>> /\ UNCHANGED <<nodes, key, group, sub, sgn>>
      /\ step' = IF Layer < Layers THEN "thresh" ELSE "done"
  BY DEF SetResult
<1>2. StageTyped /\ Counted /\ Worded /\ Compared /\ LayersFollowTheTree
  BY DEF StageInv
<1>3. PICK f : f = fbt_idx
  OBVIOUS
<1>4. f \in Seq(Addresses) /\ Len(f) \in Nat /\ Len(f) >= 1 /\ Len(f) <= Layers /\ Layers \in Nat
  BY <1>1, <1>2, <1>3, SizeFacts DEF StageTyped, Counted
<1>5. Last(fbt_idx) = f[Len(f)] /\ f[Len(f)] \in Addresses
  BY <1>3, <1>4 DEF Last
<1>6. PICK e \in Addresses : e = Onward(Layer, Last(fbt_idx))
  BY <1>2, <1>5, OnwardTyped
<1>7. PICK g : g = Append(f, e)
  OBVIOUS
<1>8. /\ g \in Seq(Addresses) /\ Len(g) = Len(f) + 1 /\ g[Len(f) + 1] = e
      /\ \A l \in 1..Len(f) : g[l] = f[l]
  BY <1>4, <1>7
<1>9. fbt_idx' = g
  BY <1>3, <1>6, <1>7, ResultIsRight
<1>10. StageTyped'
  BY <1>1, <1>2, <1>4, <1>8, <1>9 DEF StageTyped
<1>11. Counted'
  <2>1. First' = 0
    BY <1>1, <1>2, GroupLies, SizeFacts DEF First, Counted
  <2> QED BY <1>1, <1>2, <1>3, <1>4, <1>8, <1>9, <2>1 DEF Counted, Layer
<1>12. Worded' /\ Compared'
  BY <1>1, <1>2 DEF Worded, Compared
<1>13. LayersFollowTheTree'
  <2>1. ASSUME NEW l \in 1..Len(f) PROVE g[l + 1] = Onward(l, f[l])
    <3>1. CASE l = Len(f)
      BY <1>3, <1>5, <1>6, <1>8, <3>1 DEF Layer
    <3>2. CASE l # Len(f)
      <4>1. l \in 1..(Layer - 1) /\ l + 1 \in 1..Len(f)
        BY <1>3, <1>4, <3>2 DEF Layer
      <4>2. f[l + 1] = Onward(l, f[l])
        BY <1>2, <1>3, <4>1, FollowsBy
      <4> QED BY <1>8, <4>1, <4>2
    <3> QED BY <3>1, <3>2
  <2>2. ASSUME NEW l \in 1..Len(f) PROVE g[l + 1] = Onward(l, g[l])'
    <3>1. PICK a : a = f[l]
      OBVIOUS
    <3>2. Onward(l, a)' = Onward(l, a)
      BY <1>1, OnwardStays
    <3>3. g[l] = a
      BY <1>8, <3>1
    <3> QED BY <2>1, <3>1, <3>2, <3>3
  <2>3. (LayersFollowTheTree <=> \A l \in 1..(Layer - 1) : fbt_idx[l + 1] = Onward(l, fbt_idx[l]))'
    BY FollowsBy, PTL
  <2>4. Layer' - 1 = Len(f)
    BY <1>4, <1>8, <1>9 DEF Layer
  <2>5. \A l \in 1..Len(f) : fbt_idx'[l + 1] = Onward(l, fbt_idx[l])'
    <3> TAKE l \in 1..Len(f)
    <3>1. g[l + 1] = Onward(l, g[l])'
      BY <2>2
    <3> QED BY <1>9, <3>1 DEF Onward
  <2> QED BY <2>3, <2>4, <2>5
<1>14. QED
  BY <1>10, <1>11, <1>12, <1>13 DEF StageInv

LEMMA StageInit0 == PathInit => StageInv
<1> SUFFICES ASSUME PathInit PROVE StageInv
  OBVIOUS
<1>1. PICK t \in Trees : nodes = t.nodes /\ addrs = t.children
  BY DEF PathInit
<1>2. /\ key = 0 /\ fbt_idx = <<0>> /\ group = 1 /\ step = "ready" /\ comp = <<>>
      /\ sub = [b \in 1..Group |-> NoPair]
  BY DEF PathInit
<1>3. addrs \in Seq(Addresses)
  <2>1. PICK ch, C : ch = t.children /\ C = {t.children[x] : x \in DOMAIN t.children}
    OBVIOUS
  <2>2. ch \in Seq(C) /\ C \subseteq Addresses
    BY <2>1, PathAssumption DEF Addresses
  <2>3. ch \in Seq(Addresses)
    BY <2>2
  <2> QED BY <1>1, <2>1, <2>3
<1>4. 0 \in Addresses
  BY DEF Addresses
<1>5. <<0>> \in Seq(Addresses) /\ Len(<<0>>) = 1
  BY <1>4
<1>6. StageTyped
  <2>1. nodes \in Nodes
    BY <1>1, PathAssumption
  <2>2. fbt_idx \in Seq(Addresses) /\ Len(fbt_idx) >= 1
    BY <1>2, <1>5
  <2>3. comp \in Seq(0..1) /\ step = "ready" /\ key \in KeySpace /\ group \in 1..Groups
    BY <1>2, SizeFacts
  <2> QED BY <1>3, <2>1, <2>2, <2>3 DEF StageTyped
<1>7. Counted /\ Compared
  BY <1>2, <1>5 DEF Counted, Compared
<1>8. Worded
  <2>1. 0 \in Words
    BY StageAssumption DEF Words
  <2> QED BY <1>2, <2>1 DEF Worded, NoPair
<1>9. LayersFollowTheTree
  BY <1>2, <1>5 DEF LayersFollowTheTree, Layer
<1>10. QED
  BY <1>6, <1>7, <1>8, <1>9 DEF StageInv

LEMMA FirstReadKeeps ==
  ASSUME StageInv, NEW k \in 0..Max64, FirstRead(k)
  PROVE  StageInv'
<1>1. /\ step = "ready" /\ step' = "thresh" /\ key' = k
      /\ fbt_idx' = <<SetAddr(Lookup(k))>>
      /\ UNCHANGED <<nodes, addrs, group, sub, sgn, comp>>
  BY DEF FirstRead
<1>2. StageTyped /\ Counted /\ Worded
  BY DEF StageInv
<1>3. k \in KeySpace
  BY PathAssumption, StageAssumption DEF KeySpace
<1>4. PICK a : a = SetAddr(Lookup(k))
  OBVIOUS
<1>5. a \in Addresses
  <2>1. PICK n : n = Lookup(k)
    OBVIOUS
  <2>2. a = IF n + 1 \in DOMAIN addrs THEN addrs[n + 1] ELSE 0
    BY <1>4, <2>1 DEF SetAddr
  <2>3. 0 \in Addresses /\ \A x \in DOMAIN addrs : addrs[x] \in Addresses
    BY <1>2 DEF StageTyped, Addresses
  <2> QED BY <2>2, <2>3
<1>6. <<a>> \in Seq(Addresses) /\ Len(<<a>>) = 1
  BY <1>5
<1>7. StageTyped'
  BY <1>1, <1>2, <1>3, <1>4, <1>6 DEF StageTyped
<1>8. comp' = <<>> /\ group' = 1 /\ Len(fbt_idx') = 1
  BY <1>1, <1>2, <1>4, <1>6 DEF Counted
<1>9. Counted'
  <2>1. First' = 0
    BY <1>8, GroupLies, SizeFacts DEF First
  <2> QED BY <1>1, <1>8, <2>1, SizeFacts DEF Counted
<1>10. Worded' /\ Compared'
  BY <1>1, <1>2, <1>8 DEF Worded, Compared
<1>11. LayersFollowTheTree'
  BY <1>8 DEF LayersFollowTheTree, Layer
<1>12. QED
  BY <1>7, <1>9, <1>10, <1>11 DEF StageInv

LEMMA StageStays ==
  ASSUME StageInv, UNCHANGED <<stageVars, addrs>>
  PROVE  StageInv'
<1>1. UNCHANGED <<nodes, key, fbt_idx, group, sub, sgn, comp, step, addrs>>
  BY DEF stageVars
<1>2. StageTyped /\ Counted /\ Worded /\ Compared /\ LayersFollowTheTree
  BY DEF StageInv
<1>3. StageTyped' /\ Counted' /\ Worded'
  BY <1>1, <1>2 DEF StageTyped, Counted, Worded, First
<1>4. InTable' = InTable /\ Here' = Here /\ First' = First
  BY <1>1 DEF InTable, Here, Layer, First
<1>5. \A n, m : Bit(n, m)' = Bit(n, m)
  BY <1>1 DEF Bit
<1>6. \A b, t : Differs(b, t)' <=> Differs(b, t)
  BY <1>1 DEF Differs, Hi, Lo, Top
<1>7. Compared'
  <2> SUFFICES ASSUME InTable # {}
               PROVE  /\ \A m \in 1..Len(comp) : comp'[m] = Bit(Here, m)'
                      /\ step' = "comp" => \A b \in 1..Group : Differs(b, Thresh(Here)[First + b])'
    BY <1>1, <1>4 DEF Compared
  <2>1. PICK n : n = Here
    OBVIOUS
  <2>2. \A m \in 1..Len(comp) : comp'[m] = Bit(Here, m)'
    BY <1>1, <1>2, <1>4 DEF Compared, Bit
  <2>3. ASSUME NEW b \in 1..Group, step' = "comp" PROVE Differs(b, Thresh(Here)[First + b])'
    <3>1. PICK t : t = Thresh(Here)[First + b]
      OBVIOUS
    <3>2. Differs(b, t)
      BY <1>1, <1>2, <2>3, <3>1 DEF Compared
    <3>3. (Thresh(Here)[First + b])' = t
      BY <1>4, <3>1 DEF Thresh, Pad
    <3> QED BY <1>6, <3>2, <3>3 DEF Differs
  <2> QED BY <2>2, <2>3
<1>8. LayersFollowTheTree'
  BY <1>1, <1>2, FollowsStay
<1>9. QED
  BY <1>3, <1>7, <1>8 DEF StageInv

LEMMA DepartKeeps == StageInv /\ Depart => StageInv'
<1> SUFFICES ASSUME StageInv, Depart PROVE StageInv'
  OBVIOUS
<1>1. /\ step = "done" /\ step' = "sent"
      /\ UNCHANGED <<nodes, key, fbt_idx, group, sub, sgn, comp, addrs>>
  BY DEF Depart
<1>2. StageTyped /\ Counted /\ Worded /\ LayersFollowTheTree
  BY DEF StageInv
<1>3. StageTyped' /\ Counted' /\ Worded'
  BY <1>1, <1>2 DEF StageTyped, Counted, Worded
<1>4. LayersFollowTheTree'
  BY <1>1, <1>2, FollowsStay
<1>5. Compared'
  BY <1>1, <1>2 DEF Counted, Compared
<1>6. QED
  BY <1>3, <1>4, <1>5 DEF StageInv

LEMMA StageStep == StageInv /\ [PathNext]_pathVars => StageInv'
<1> SUFFICES ASSUME StageInv, [PathNext]_pathVars PROVE StageInv'
  OBVIOUS
<1>1. CASE UNCHANGED pathVars
  BY <1>1, StageStays DEF pathVars
<1>2. CASE WriteTables
  BY <1>2, StageStays DEF WriteTables
<1>3. CASE \E k \in 0..Max64 : FirstRead(k)
  BY <1>3, FirstReadKeeps
<1>4. CASE CompareStages
  BY <1>4, SetThreshKeeps, SetCompKeeps, SetResultKeeps DEF CompareStages, StageNext
<1>5. CASE Depart
  BY <1>5, DepartKeeps
<1>6. QED
  BY <1>1, <1>2, <1>3, <1>4, <1>5 DEF PathNext

(* For every key, every node the tables were filled from and whatever the  *)
(* fat root's tables say, the compare stages of FBT_RDMA.p4 hold what a    *)
(* comparison of the key with the node's keys would give.                  *)
THEOREM StageInvariance == PathSpec => []StageInv
  BY StageInit0, StageStep, PTL DEF PathSpec

(* The bits of a node are ones followed by zeros, so that the rows of      *)
(* set_result_table are all there can be (FBT_RDMA.p4, config.py).         *)
THEOREM BitsStaySorted == PathSpec => []BitsAreSorted
<1>1. StageInv => BitsAreSorted
  <2> SUFFICES ASSUME StageInv, InTable # {}, NEW x \in DOMAIN comp, NEW y \in DOMAIN comp, x < y
               PROVE  comp[y] <= comp[x]
    BY DEF BitsAreSorted
  <2>1. StageTyped /\ Counted /\ Compared
    BY DEF StageInv
  <2>2. PICK c : c = comp
    OBVIOUS
  <2>3. c \in Seq(0..1) /\ DOMAIN c = 1..Len(c) /\ Len(c) \in Nat
    BY <2>1, <2>2 DEF StageTyped
  <2>4. Len(c) <= Capacity /\ Capacity \in Nat
    <3>1. group \in 1..Groups /\ 1 \in 1..Group /\ Group \in Nat
      BY <2>1, SizeFacts DEF StageTyped
    <3>2. First + 1 \in 1..Capacity /\ First \in Nat
      BY <3>1, GroupLies DEF First
    <3>3. Len(c) \in {0, First, Capacity}
      BY <2>1, <2>2 DEF Counted, StageTyped
    <3> QED BY <3>2, <3>3, SizeFacts
  <2>5. x \in 1..Capacity /\ y \in 1..Capacity
    BY <2>2, <2>3, <2>4
  <2>6. Here \in nodes /\ nodes \in Nodes /\ Here.keys \in Seq(KeySpace) /\ key \in KeySpace
    BY <2>1, HereIs DEF StageTyped
  <2>7. Thresh(Here)[x] <= Thresh(Here)[y]
    BY <2>5, <2>6, ThreshSorted
  <2>8. Thresh(Here)[x] \in Nat /\ Thresh(Here)[y] \in Nat /\ key \in Nat
    BY <2>5, <2>6, ThreshIs, SizeFacts
  <2>9. comp[x] = Bit(Here, x) /\ comp[y] = Bit(Here, y)
    BY <2>1, <2>2, <2>3 DEF Compared
  <2> QED BY <2>7, <2>8, <2>9 DEF Bit
<1>2. QED
  BY <1>1, StageInvariance, PTL

(* From each layer the packet goes on as the tree search would from the    *)
(* node it is at, or stays if the node has no table.                       *)
THEOREM LayersStayOnTheTree == PathSpec => []LayersFollowTheTree
<1>1. StageInv => LayersFollowTheTree
  BY DEF StageInv
<1>2. QED
  BY <1>1, StageInvariance, PTL

-----------------------------------------------------------------------------
(***************************************************************************)
(* Digits: how many keys share a prefix, and which.                        *)
(***************************************************************************)
\* What holds at zero and goes from each number to the next holds up to any.
LEMMA UpTo ==
  ASSUME NEW n \in Nat, NEW U, 0 \in U, \A l \in 1..n : l - 1 \in U => l \in U
  PROVE  \A l \in 0..n : l \in U
<1> DEFINE T == {l \in 0..n : l \notin U}
<1> SUFFICES ASSUME T # {} PROVE FALSE
  OBVIOUS
<1>1. T \in SUBSET Nat
  OBVIOUS
<1>2. PICK l \in T : \A y \in T : l <= y
  <2> HIDE DEF T
  <2> QED BY <1>1, LeastNat
<1>3. l \in 1..n /\ l \notin U
  BY <1>2
<1>4. l - 1 \in U
  <2>1. l - 1 \in 0..n /\ ~(l <= l - 1)
    BY <1>3
  <2>2. l - 1 \notin T
    BY <1>2, <2>1
  <2> QED BY <2>1, <2>2
<1>5. QED
  BY <1>3, <1>4

\* A value for each number from the one before it.
Iterated(f, n, S, x, h) ==
  f \in [0..n -> S] /\ f[0] = x /\ \A l \in 1..n : f[l] = h[l][f[l - 1]]

LEMMA Iterates ==
  ASSUME NEW n \in Nat, NEW S, NEW x \in S, NEW H, H = [1..n -> [S -> S]], NEW h \in H
  PROVE  \E f : Iterated(f, n, S, x, h)
<1> DEFINE Good(f, m) == f \in [0..m -> S] /\ f[0] = x /\ \A l \in 1..m : f[l] = h[l][f[l - 1]]
           U == {m \in 0..n : \E f \in [0..m -> S] : Good(f, m)}
<1>1. 0 \in U
  <2>1. PICK g : g = [l \in 0..0 |-> x]
    OBVIOUS
  <2>2. Good(g, 0)
    BY <2>1
  <2>3. g \in [0..0 -> S] /\ 0 \in 0..n
    BY <2>1
  <2> HIDE DEF Good
  <2> QED BY <2>2, <2>3
<1>2. ASSUME NEW m \in 1..n, m - 1 \in U PROVE m \in U
  <2>1. PICK f \in [0..(m - 1) -> S] : Good(f, m - 1)
    BY <1>2
  <2>2. m \in Nat /\ 1 <= m /\ m <= n /\ 0..m = 0..(m - 1) \cup {m} /\ m \notin 0..(m - 1)
    BY <1>2
  <2>3. PICK y \in S : y = h[m][f[m - 1]]
    BY <2>2
  <2>4. PICK g : g = [l \in 0..m |-> IF l = m THEN y ELSE f[l]]
    OBVIOUS
  <2>5. g \in [0..m -> S] /\ g[0] = x /\ g[m] = y /\ \A l \in 0..(m - 1) : g[l] = f[l]
    BY <2>1, <2>2, <2>4
  <2>6. \A l \in 1..m : g[l] = h[l][g[l - 1]]
    <3> TAKE l \in 1..m
    <3>1. CASE l = m
      <4>1. g[m - 1] = f[m - 1]
        BY <2>2, <2>5
      <4> QED BY <2>3, <2>5, <3>1, <4>1
    <3>2. CASE l # m
      <4>1. l \in 1..(m - 1) /\ l - 1 \in 0..(m - 1) /\ l \in 0..(m - 1)
        BY <2>2, <3>2
      <4> QED BY <2>1, <2>5, <4>1
    <3> QED BY <3>1, <3>2
  <2>7. Good(g, m)
    BY <2>5, <2>6
  <2>8. g \in [0..m -> S] /\ m \in 0..n
    BY <2>2, <2>5
  <2> HIDE DEF Good
  <2> QED BY <2>7, <2>8
<1> HIDE DEF U
<1>3. n \in U
  <2>1. \A l \in 0..n : l \in U
    BY <1>1, <1>2, UpTo
  <2> QED BY <2>1
<1>4. PICK f \in [0..n -> S] : Good(f, n)
  BY <1>3 DEF U
<1>5. QED
  BY <1>4 DEF Iterated

LEMMA DigitFacts == B \in Nat /\ B >= 2 /\ D \in Nat /\ D >= 1
  BY TablesAssumption

LEMMA SpanIs ==
  /\ Span \in [0..D -> Nat] /\ Span[0] = 1
  /\ \A n \in 1..D : Span[n] = B * Span[n - 1]
  /\ \A n \in 0..D : Span[n] >= 1
<1>1. B \in Nat /\ B >= 2 /\ D \in Nat /\ D >= 1
  BY DigitFacts
<1> DEFINE unfold(s) == [n \in 0..D |-> IF n = 0 THEN 1 ELSE B * s[n - 1]]
<1>2. PICK f \in [0..D -> Nat] : f[0] = 1 /\ \A l \in 1..D : f[l] = B * f[l - 1]
  <2> DEFINE h == [l \in 1..D |-> [v \in Nat |-> B * v]]
  <2>1. h \in [1..D -> [Nat -> Nat]]
    <3>1. \A v \in Nat : B * v \in Nat
      BY <1>1
    <3> QED BY <3>1
  <2>2. \A l \in 1..D, v \in Nat : h[l][v] = B * v
    OBVIOUS
  <2> HIDE DEF h
  <2>3. \E f \in [0..D -> Nat] : f[0] = 1 /\ \A l \in 1..D : f[l] = h[l][f[l - 1]]
    <3>1. PICK S, H : S = Nat /\ H = [1..D -> [S -> S]]
      OBVIOUS
    <3>2. 1 \in S /\ h \in H /\ D \in Nat
      BY <1>1, <2>1, <3>1
    <3>3. PICK f : Iterated(f, D, S, 1, h)
      BY <3>1, <3>2, Iterates
    <3> QED BY <3>1, <3>3 DEF Iterated
  <2>4. PICK f \in [0..D -> Nat] : f[0] = 1 /\ \A l \in 1..D : f[l] = h[l][f[l - 1]]
    BY <2>3
  <2>5. \A l \in 1..D : l - 1 \in 0..D /\ f[l - 1] \in Nat
    BY <1>1, <2>4
  <2> QED BY <2>2, <2>4, <2>5
<1>3. f = unfold(f)
  <2>1. \A n \in 0..D : f[n] = unfold(f)[n]
    BY <1>1, <1>2
  <2> QED BY <1>2, <2>1
<1>4. Span = CHOOSE s : s = unfold(s)
  BY DEF Span
<1>5. Span = unfold(Span)
  <2> HIDE DEF unfold
  <2> QED BY <1>3, <1>4
<1>6. Span[0] = 1 /\ \A n \in 1..D : Span[n] = B * Span[n - 1]
  <2>1. \A n \in 0..D : Span[n] = unfold(Span)[n]
    <3> HIDE DEF unfold
    <3> QED BY <1>5
  <2> QED BY <1>1, <2>1
<1>7. \A n \in 0..D : n \in {m \in 0..D : Span[m] \in Nat /\ Span[m] >= 1}
  <2> DEFINE U == {m \in 0..D : Span[m] \in Nat /\ Span[m] >= 1}
  <2>1. 0 \in U
    BY <1>1, <1>6
  <2>2. ASSUME NEW l \in 1..D, l - 1 \in U PROVE l \in U
    <3>1. Span[l - 1] \in Nat /\ Span[l - 1] >= 1 /\ Span[l] = B * Span[l - 1]
      BY <1>6, <2>2
    <3>2. PICK v \in Nat : v = Span[l - 1] /\ v >= 1
      BY <3>1
    <3>3. B * v \in Nat /\ B * v >= 1
      BY <1>1, <3>2, SMTT(30)
    <3>4. Span[l] \in Nat /\ Span[l] >= 1 /\ l \in 0..D
      BY <1>1, <3>1, <3>2, <3>3
    <3> QED BY <3>4
  <2> HIDE DEF U
  <2>3. \A l \in 0..D : l \in U
    BY <1>1, <2>1, <2>2, UpTo
  <2> QED BY <2>3 DEF U
<1>8. Span = [n \in 0..D |-> Span[n]]
  BY <1>5
<1>9. QED
  BY <1>6, <1>7, <1>8

\* Blocks of digits tile the keys.
LEMMA SpanProduct == \A n \in 0..D : Span[n] * Span[D - n] = Span[D]
<1>1. B \in Nat /\ D \in Nat /\ D >= 1
  BY DigitFacts
<1> DEFINE U == {n \in 0..D : Span[n] * Span[D - n] = Span[D]}
<1>2. 0 \in U
  <2>1. PICK v \in Nat : v = Span[D]
    BY <1>1, SpanIs
  <2>2. 0 \in 0..D /\ D - 0 = D /\ Span[0] = 1 /\ 1 * v = v
    BY <1>1, SpanIs
  <2> QED BY <2>1, <2>2
<1>3. ASSUME NEW l \in 1..D, l - 1 \in U PROVE l \in U
  <2>1. l - 1 \in 0..D /\ D - l \in 0..D /\ D - (l - 1) \in 1..D /\ D - (l - 1) - 1 = D - l
    BY <1>1
  <2>2. PICK a, b, s \in Nat : a = Span[l - 1] /\ b = Span[D - l] /\ s = Span[D]
    <3>1. D \in 0..D
      BY <1>1
    <3>2. Span[l - 1] \in Nat /\ Span[D - l] \in Nat /\ Span[D] \in Nat
      BY <2>1, <3>1, SpanIs
    <3> QED BY <3>2
  <2>3. Span[l] = B * a /\ Span[D - (l - 1)] = B * b
    BY <2>1, <2>2, SpanIs
  <2>4. a * (B * b) = s
    BY <1>3, <2>2, <2>3
  <2>5. (B * a) * b = a * (B * b)
    BY <1>1, SMTT(30)
  <2> QED BY <2>2, <2>3, <2>4, <2>5
<1> HIDE DEF U
<1>4. \A l \in 0..D : l \in U
  BY <1>1, <1>2, <1>3, UpTo
<1>5. QED
  BY <1>4 DEF U

LEMMA MaxIs == Max64 \in Nat /\ Max64 = Span[D] - 1
<1>1. D \in 0..D /\ Span[D] \in Nat /\ Span[D] >= 1
  BY DigitFacts, SpanIs
<1>2. QED
  BY <1>1 DEF Max64

\* The first key of a block: digit d of table n after prefix P.
FirstKey(P, d, n) == (P * B + d) * Span[D - n]

LEMMA BlockLies ==
  ASSUME NEW n \in 1..D, NEW P \in 0..(Span[n - 1] - 1), NEW d \in 0..B
  PROVE  /\ Span[D - n] \in Nat /\ Span[D - n] >= 1 /\ FirstKey(P, d, n) \in Nat
         /\ d < B => /\ P * B + d \in 0..(Span[n] - 1)
                     /\ FirstKey(P, d + 1, n) = FirstKey(P, d, n) + Span[D - n]
                     /\ FirstKey(P, d + 1, n) - 1 <= Max64
<1>1. B \in Nat /\ B >= 2 /\ D \in Nat /\ n \in 0..D /\ n - 1 \in 0..D /\ D - n \in 0..D
  BY DigitFacts
<1>2. PICK a, b, c, s \in Nat :
        a = Span[n - 1] /\ b = Span[n] /\ c = Span[D - n] /\ s = Span[D] /\ c >= 1
  <2>1. D \in 0..D
    BY <1>1
  <2>2. /\ Span[n - 1] \in Nat /\ Span[n] \in Nat /\ Span[D - n] \in Nat /\ Span[D] \in Nat
        /\ Span[D - n] >= 1
    BY <1>1, <2>1, SpanIs
  <2> QED BY <2>2
<1>3. b = B * a /\ b * c = s /\ Max64 = s - 1
  <2>1. b = B * a
    BY <1>2, SpanIs
  <2>2. b * c = s
    BY <1>1, <1>2, SpanProduct
  <2> QED BY <1>2, <2>1, <2>2, MaxIs
<1>4. PICK e \in Nat : e = P * B + d
  <2>1. P \in Nat
    BY <1>2
  <2> QED BY <1>1, <2>1, SMTT(30)
<1>5. FirstKey(P, d, n) = e * c /\ e * c \in Nat
  BY <1>2, <1>4, SMTT(30) DEF FirstKey
<1>6. ASSUME d < B PROVE /\ e <= b - 1
                         /\ FirstKey(P, d + 1, n) = e * c + c
                         /\ e * c + c <= s
  <2>1. P \in Nat /\ P + 1 <= a
    BY <1>2
  <2>2. (P + 1) * B <= a * B
    BY <1>1, <1>2, <2>1, SMTT(30)
  <2>3. (P + 1) * B = P * B + B /\ a * B = B * a /\ P * B \in Nat
    BY <1>1, <1>2, <2>1, SMTT(30)
  <2>4. e + 1 <= b
    BY <1>1, <1>3, <1>4, <1>6, <2>2, <2>3
  <2>5. P * B + (d + 1) = e + 1
    BY <1>1, <1>4, <2>3
  <2>6. FirstKey(P, d + 1, n) = (e + 1) * c
    BY <1>2, <2>5 DEF FirstKey
  <2>7. (e + 1) * c = e * c + c
    BY <1>2, <1>4, SMTT(30)
  <2>8. (e + 1) * c <= b * c
    BY <1>2, <1>4, <2>4, SMTT(30)
  <2> QED BY <1>3, <2>4, <2>6, <2>7, <2>8
<1>7. QED
  BY <1>2, <1>3, <1>4, <1>5, <1>6

LEMMA BlocksRise ==
  ASSUME NEW n \in 1..D, NEW P \in 0..(Span[n - 1] - 1), NEW d \in 0..B, NEW e \in d..B
  PROVE  FirstKey(P, d, n) <= FirstKey(P, e, n)
<1>1. B \in Nat /\ D \in Nat /\ P \in Nat /\ D - n \in 0..D /\ n - 1 \in 0..D
  BY DigitFacts, SpanIs
<1>2. PICK c \in Nat : c = Span[D - n]
  BY <1>1, SpanIs
<1>3. PICK x \in Nat : x = P * B
  BY <1>1, SMTT(30)
<1>4. (x + d) * c <= (x + e) * c
  BY <1>1, <1>2, <1>3, SMTT(30)
<1>5. QED
  BY <1>2, <1>3, <1>4 DEF FirstKey

-----------------------------------------------------------------------------
(***************************************************************************)
(* Ranges: sorted, without a gap, up to the last key.                      *)
(***************************************************************************)
Ends == Len(rangelist) - 1

RangesHold ==
  /\ rangelist \in Seq([l : 0..Max64, r : 0..Max64]) /\ Len(rangelist) >= 2
  /\ RangeAt(Ends).r = Max64
  /\ \A m, q \in 0..Ends : m < q => RangeAt(m).r <= RangeAt(q).r
  /\ RangeAt(0).l = 0
  /\ \A m \in 1..Ends : RangeAt(m).l <= RangeAt(m - 1).r + 1

\* What the range of child m has to do with the keys from x to y - 1.
Within(x, y, m) == y - 1 <= RangeAt(m).r /\ \A q \in 0..(m - 1) : RangeAt(q).r < x

LEMMA RangesAre ==
  ASSUME NEW K \in RootKeys
  PROVE  /\ Ranges(K) \in Seq([l : 0..Max64, r : 0..Max64])
         /\ Len(Ranges(K)) = Len(K) + 1 /\ Len(K) \in Nat /\ Len(K) >= 1
         /\ \A m \in 1..(Len(K) + 1) :
              /\ Ranges(K)[m].r = IF m = Len(K) + 1 THEN Max64 ELSE K[m]
              /\ Ranges(K)[m].l = (IF m = 1 THEN Max64 + 1 ELSE K[m - 1] + 1) % (Max64 + 1)
<1>1. K \in Seq(0..Max64) /\ K # <<>> /\ Max64 \in Nat
  BY TablesAssumption, MaxIs
<1>2. PICK n \in Nat : n = Len(K) /\ n >= 1 /\ DOMAIN K = 1..n /\ \A m \in 1..n : K[m] \in 0..Max64
  BY <1>1
<1>3. PICK list : list = <<Max64>> \o K
  OBVIOUS
<1>4. /\ list \in Seq(0..Max64) /\ Len(list) = n + 1
      /\ list[1] = Max64 /\ \A m \in 2..(n + 1) : list[m] = K[m - 1]
  <2>1. <<Max64>> \in Seq(0..Max64) /\ Len(<<Max64>>) = 1 /\ <<Max64>>[1] = Max64
    BY <1>1
  <2>2. PICK one : one = <<Max64>>
    OBVIOUS
  <2>3. one \in Seq(0..Max64) /\ Len(one) = 1 /\ one[1] = Max64 /\ list = one \o K
    BY <1>3, <2>1, <2>2
  <2>4. PICK S : S = 0..Max64
    OBVIOUS
  <2>5. /\ list \in Seq(S) /\ Len(list) = 1 + n
        /\ \A m \in 1..(1 + n) : list[m] = IF m <= 1 THEN one[m] ELSE K[m - 1]
    <3>1. one \in Seq(S) /\ K \in Seq(S)
      BY <1>1, <2>3, <2>4
    <3>2. /\ one \o K \in Seq(S) /\ Len(one \o K) = Len(one) + Len(K)
          /\ \A m \in 1..(Len(one) + Len(K)) :
               (one \o K)[m] = IF m <= Len(one) THEN one[m] ELSE K[m - Len(one)]
      BY <3>1, ConcatIs
    <3> QED BY <1>2, <2>3, <3>2
  <2>6. 1 + n = n + 1 /\ 1 \in 1..(1 + n) /\ \A m \in 2..(n + 1) : m \in 1..(1 + n) /\ ~(m <= 1)
    BY <1>2
  <2> QED BY <2>3, <2>4, <2>5, <2>6
<1>5. Ranges(K) = [m \in 1..(n + 1) |-> [l |-> (list[m] + 1) % (Max64 + 1),
                                         r |-> IF m = n + 1 THEN Max64 ELSE list[m + 1]]]
  BY <1>3, <1>4 DEF Ranges
<1>6. \A v \in 0..Max64 : (v + 1) % (Max64 + 1) \in 0..Max64
  BY <1>1
<1>7. \A m \in 1..(n + 1) : list[m] \in 0..Max64
  <2>1. PICK S : S = 0..Max64
    OBVIOUS
  <2>2. list \in Seq(S) /\ n + 1 \in Nat
    BY <1>2, <1>4, <2>1
  <2>3. \A m \in 1..(n + 1) : list[m] \in S
    BY <1>4, <2>2
  <2> QED BY <2>1, <2>3
<1>8. \A m \in 1..n : list[m + 1] = K[m] /\ K[m] \in 0..Max64
  <2> TAKE m \in 1..n
  <2>1. m + 1 \in 2..(n + 1) /\ (m + 1) - 1 = m
    BY <1>2
  <2> QED BY <1>2, <1>4, <2>1
<1>9. \A m \in 1..(n + 1) : Ranges(K)[m] \in [l : 0..Max64, r : 0..Max64]
  <2> TAKE m \in 1..(n + 1)
  <2>1. Max64 \in 0..Max64 /\ (m # n + 1 => list[m + 1] \in 0..Max64)
    <3>1. Max64 \in 0..Max64 /\ (m # n + 1 => m \in 1..n)
      BY <1>1, <1>2
    <3>2. m \in 1..n => list[m + 1] = K[m] /\ K[m] \in 0..Max64
      BY <1>8
    <3> QED BY <3>1, <3>2
  <2>2. PICK x, y : x = (list[m] + 1) % (Max64 + 1) /\ y = IF m = n + 1 THEN Max64 ELSE list[m + 1]
    OBVIOUS
  <2>3. x \in 0..Max64 /\ y \in 0..Max64
    BY <1>6, <1>7, <2>1, <2>2
  <2>4. Ranges(K)[m] = [l |-> x, r |-> y]
    BY <1>5, <2>2
  <2> QED BY <2>3, <2>4
<1>10. Ranges(K) \in Seq([l : 0..Max64, r : 0..Max64]) /\ Len(Ranges(K)) = n + 1
  <2>1. PICK f : f = Ranges(K)
    OBVIOUS
  <2>2. PICK S : S = [l : 0..Max64, r : 0..Max64]
    OBVIOUS
  <2>3. f \in [1..(n + 1) -> S]
    BY <1>5, <1>9, <2>1, <2>2
  <2>4. n + 1 \in Nat
    OBVIOUS
  <2>5. f \in Seq(S) /\ Len(f) = n + 1
    BY <2>3, <2>4
  <2> QED BY <2>1, <2>2, <2>5
<1>11. \A m \in 1..(n + 1) :
         /\ Ranges(K)[m].r = IF m = n + 1 THEN Max64 ELSE K[m]
         /\ Ranges(K)[m].l = (IF m = 1 THEN Max64 + 1 ELSE K[m - 1] + 1) % (Max64 + 1)
  <2> TAKE m \in 1..(n + 1)
  <2>1. Ranges(K)[m].r = IF m = n + 1 THEN Max64 ELSE K[m]
    BY <1>5, <1>8
  <2>2. list[m] = IF m = 1 THEN Max64 ELSE K[m - 1]
    BY <1>4
  <2>3. Ranges(K)[m].l = (list[m] + 1) % (Max64 + 1)
    BY <1>5
  <2> QED BY <2>1, <2>2, <2>3
<1>12. QED
  BY <1>2, <1>10, <1>11

LEMMA RangesInit ==
  ASSUME NEW K \in RootKeys, rangelist = Ranges(K)
  PROVE  RangesHold
<1>1. Max64 \in Nat
  BY MaxIs
<1>2. PICK n \in Nat : n = Len(K) /\ n >= 1
  BY RangesAre
<1>3. /\ rangelist \in Seq([l : 0..Max64, r : 0..Max64]) /\ Len(rangelist) = n + 1
      /\ \A m \in 1..(n + 1) :
           /\ rangelist[m].r = IF m = n + 1 THEN Max64 ELSE K[m]
           /\ rangelist[m].l = (IF m = 1 THEN Max64 + 1 ELSE K[m - 1] + 1) % (Max64 + 1)
  BY <1>2, RangesAre
<1>4. \A m \in 1..n : K[m] \in 0..Max64
  <2>1. PICK S : S = 0..Max64
    OBVIOUS
  <2>2. K \in Seq(S)
    BY <2>1, TablesAssumption
  <2>3. \A m \in 1..n : K[m] \in S
    BY <1>2, <2>2
  <2> QED BY <2>1, <2>3
<1>5. \A x, y \in 1..n : x < y => K[x] <= K[y]
  BY <1>2, TablesAssumption
<1>6. (Max64 + 1) % (Max64 + 1) = 0 /\ \A v \in 0..Max64 : (v + 1) % (Max64 + 1) <= v + 1
  BY <1>1
<1>7. Ends = n /\ \A m \in 0..n : /\ RangeAt(m).r = IF m = n THEN Max64 ELSE K[m + 1]
                                  /\ RangeAt(m).l = rangelist[m + 1].l
  <2>1. Ends = n
    BY <1>3 DEF Ends
  <2>2. ASSUME NEW m \in 0..n PROVE RangeAt(m).r = IF m = n THEN Max64 ELSE K[m + 1]
    <3>1. m + 1 \in 1..(n + 1) /\ (m + 1 = n + 1 <=> m = n)
      BY <1>2
    <3> QED BY <1>3, <3>1 DEF RangeAt
  <2> QED BY <2>1, <2>2 DEF RangeAt
<1>8. \A m, q \in 0..Ends : m < q => RangeAt(m).r <= RangeAt(q).r
  <2> SUFFICES ASSUME NEW m \in 0..n, NEW q \in 0..n, m < q PROVE RangeAt(m).r <= RangeAt(q).r
    BY <1>7
  <2>1. m + 1 \in 1..n /\ m # n
    BY <1>2
  <2>2. CASE q = n
    BY <1>4, <1>7, <2>1, <2>2
  <2>3. CASE q # n
    <3>1. q + 1 \in 1..n /\ m + 1 < q + 1
      BY <1>2, <2>3
    <3> QED BY <1>5, <1>7, <2>1, <2>3, <3>1
  <2> QED BY <2>2, <2>3
<1>9. RangeAt(0).l = 0
  <2>1. 0 \in 0..n /\ 0 + 1 = 1 /\ 1 \in 1..(n + 1)
    BY <1>2
  <2> QED BY <1>3, <1>6, <1>7, <2>1
<1>10. \A m \in 1..Ends : RangeAt(m).l <= RangeAt(m - 1).r + 1
  <2> SUFFICES ASSUME NEW m \in 1..n PROVE RangeAt(m).l <= RangeAt(m - 1).r + 1
    BY <1>7
  <2>1. m \in 0..n /\ m - 1 \in 0..n /\ m - 1 # n /\ (m - 1) + 1 = m /\ m + 1 \in 1..(n + 1) /\ m + 1 # 1 /\ (m + 1) - 1 = m
    BY <1>2
  <2>2. RangeAt(m - 1).r = K[m]
    BY <1>7, <2>1
  <2>3. RangeAt(m).l = (K[m] + 1) % (Max64 + 1)
    BY <1>3, <1>7, <2>1
  <2> QED BY <1>4, <1>6, <2>2, <2>3
<1>11. RangeAt(Ends).r = Max64 /\ Len(rangelist) >= 2
  BY <1>2, <1>3, <1>7
<1>12. QED
  BY <1>3, <1>8, <1>9, <1>10, <1>11 DEF RangesHold

-----------------------------------------------------------------------------
(***************************************************************************)
(* The sweep over the digits of a prefix: where the loops stand.           *)
(***************************************************************************)
TablesTyped ==
  /\ level \in 1..D /\ i \in 0..B /\ j \in 0..Ends
  /\ todo \in Seq(0..(Span[level - 1] - 1)) /\ opened \in Seq(0..(Span[level] - 1))
  /\ curidx \in Nat /\ clashed \in BOOLEAN
  /\ pfidx \in [DOMAIN pfidx -> 0..(curidx - 1)]
  /\ level = 1 => Len(todo) <= 1
  /\ level > 1 => \A x \in DOMAIN todo : todo[x] \in DOMAIN pfidx
  /\ \A x \in DOMAIN opened : opened[x] \in DOMAIN pfidx

Swept ==
  /\ todo = <<>> => i = 0 /\ j = 0 /\ run = <<>>
  /\ todo # <<>> => \A q \in 0..(j - 1) : RangeAt(q).r < FirstKey(todo[1], i, level)
  /\ run # <<>> => \E l \in 0..(i - 1) :
       run = <<l, i - 1>> /\ Within(FirstKey(todo[1], l, level), FirstKey(todo[1], i, level), j)

RowTyped(x) ==
  /\ x.level \in 1..level /\ x.l \in 0..(B - 1) /\ x.r \in x.l..(B - 1)
  /\ x.nexttable \in BOOLEAN /\ x.result \in Nat
  /\ x.nexttable => x.level < D

LoopInv == RangesHold /\ TablesTyped /\ Swept /\ \A x \in rows : RowTyped(x)

LEMMA RangeIs ==
  ASSUME RangesHold, NEW m \in 0..Ends
  PROVE  /\ Ends \in Nat /\ Ends >= 1
         /\ RangeAt(m).l \in 0..Max64 /\ RangeAt(m).r \in 0..Max64 /\ Max64 \in Nat
<1>1. Ends \in Nat /\ Ends >= 1 /\ m + 1 \in 1..Len(rangelist)
  BY DEF RangesHold, Ends
<1>2. rangelist[m + 1] \in [l : 0..Max64, r : 0..Max64]
  <2>1. PICK S : S = [l : 0..Max64, r : 0..Max64]
    OBVIOUS
  <2>2. rangelist \in Seq(S)
    BY <2>1 DEF RangesHold
  <2>3. PICK x : x = m + 1
    OBVIOUS
  <2>4. rangelist[x] \in S
    BY <1>1, <2>2, <2>3
  <2> QED BY <2>1, <2>3, <2>4
<1>3. QED
  BY <1>1, <1>2, MaxIs DEF RangeAt

\* The head of the worklist is a prefix; its block is where the code says.
LEMMA HeadIs ==
  ASSUME TablesTyped, todo # <<>>
  PROVE  /\ Prefix = todo[1] /\ 1 \in DOMAIN todo /\ todo[1] \in 0..(Span[level - 1] - 1)
         /\ level \in 1..D /\ i \in 0..B
         /\ BlockLo = FirstKey(todo[1], i, level)
         /\ i < B => /\ BlockHi = FirstKey(todo[1], i + 1, level) - 1 /\ BlockHi <= Max64
                     /\ Block \in 0..(Span[level] - 1) /\ BlockLo \in Nat /\ BlockHi \in Nat
                     /\ BlockLo <= BlockHi
                     /\ level = D => BlockHi = BlockLo
<1>1. PICK S : S = 0..(Span[level - 1] - 1)
  OBVIOUS
<1>2. todo \in Seq(S)
  BY <1>1 DEF TablesTyped
<1>3. Head(todo) = todo[1] /\ 1 \in DOMAIN todo /\ todo[1] \in S
  BY <1>2
<1>4. level \in 1..D /\ i \in 0..B
  BY DEF TablesTyped
<1>5. BlockLo = FirstKey(todo[1], i, level) /\ Block = todo[1] * B + i
  BY <1>3 DEF BlockLo, Block, Prefix, FirstKey
<1>6. ASSUME i < B
      PROVE  /\ BlockHi = FirstKey(todo[1], i + 1, level) - 1 /\ BlockHi <= Max64
             /\ Block \in 0..(Span[level] - 1) /\ BlockLo \in Nat /\ BlockHi \in Nat
             /\ BlockLo <= BlockHi
             /\ level = D => BlockHi = BlockLo
  <2>1. /\ Span[D - level] \in Nat /\ Span[D - level] >= 1 /\ FirstKey(todo[1], i, level) \in Nat
        /\ todo[1] * B + i \in 0..(Span[level] - 1)
        /\ FirstKey(todo[1], i + 1, level) = FirstKey(todo[1], i, level) + Span[D - level]
        /\ FirstKey(todo[1], i + 1, level) - 1 <= Max64
    BY <1>1, <1>3, <1>4, <1>6, BlockLies
  <2>2. BlockHi = FirstKey(todo[1], i, level) + Span[D - level] - 1
    BY <1>5 DEF BlockHi
  <2>3. level = D => Span[D - level] = 1
    BY DigitFacts, SpanIs
  <2>4. PICK c \in Nat, f \in Nat : c = Span[D - level] /\ f = FirstKey(todo[1], i, level) /\ c >= 1
    BY <2>1
  <2>5. BlockHi = f + c - 1 /\ FirstKey(todo[1], i + 1, level) = f + c
    BY <2>1, <2>2, <2>4
  <2>6. BlockLo = f /\ f + c - 1 <= Max64 /\ f + c - 1 \in Nat /\ f <= f + c - 1
    BY <1>5, <2>1, <2>4, <2>5
  <2>7. level = D => f + c - 1 = f
    BY <2>3, <2>4
  <2> QED BY <1>5, <2>1, <2>5, <2>6, <2>7
<1>7. QED
  BY <1>1, <1>3, <1>4, <1>5, <1>6 DEF Prefix

\* The row that the run makes.
LEMMA FlushIs ==
  ASSUME LoopInv, todo # <<>>, run # <<>>
  PROVE  \E l \in 0..(i - 1) : \E row :
           /\ Flushed = rows \cup {row} /\ run = <<l, i - 1>> /\ run[1] = l
           /\ row = Row(pfidx, l, i - 1, FALSE, j)
           /\ row.level = level /\ row.l = l /\ row.r = i - 1 /\ row.nexttable = FALSE
           /\ row.result = j /\ row.prefix = (IF level = 1 THEN 0 ELSE pfidx[todo[1]])
           /\ RowTyped(row)
           /\ Within(FirstKey(todo[1], l, level), FirstKey(todo[1], i, level), j)
<1>1. PICK l \in 0..(i - 1) :
        run = <<l, i - 1>> /\ Within(FirstKey(todo[1], l, level), FirstKey(todo[1], i, level), j)
  BY DEF LoopInv, Swept
<1>2. level \in 1..D /\ i \in 0..B /\ j \in 0..Ends /\ Prefix = todo[1] /\ B \in Nat /\ Ends \in Nat
  <2>1. j \in 0..Ends /\ RangesHold
    BY DEF LoopInv, TablesTyped
  <2>2. Ends \in Nat
    BY <2>1, RangeIs
  <2> QED BY <2>1, <2>2, HeadIs, DigitFacts DEF LoopInv
<1>3. run[1] = l /\ run[2] = i - 1
  BY <1>1
<1>4. PICK row : row = Row(pfidx, l, i - 1, FALSE, j)
  OBVIOUS
<1>5. Flushed = rows \cup {row}
  BY <1>3, <1>4 DEF Flushed
<1>6. /\ row.level = level /\ row.l = l /\ row.r = i - 1 /\ row.nexttable = FALSE
      /\ row.result = j /\ row.prefix = (IF level = 1 THEN 0 ELSE pfidx[todo[1]])
  BY <1>2, <1>4 DEF Row
<1>7. RowTyped(row)
  <2>1. level \in 1..level /\ l \in 0..(B - 1) /\ i - 1 \in l..(B - 1) /\ j \in Nat
    BY <1>1, <1>2
  <2> QED BY <1>6, <2>1 DEF RowTyped
<1>8. QED
  BY <1>1, <1>3, <1>4, <1>5, <1>6, <1>7

LEMMA FlushTyped ==
  ASSUME LoopInv, todo # <<>>
  PROVE  \A x \in Flushed : RowTyped(x)
<1>1. CASE run = <<>>
  BY <1>1 DEF Flushed, LoopInv
<1>2. CASE run # <<>>
  BY <1>2, FlushIs DEF LoopInv
<1>3. QED
  BY <1>1, <1>2

\* A range that ends before the block is followed by one that does not.
LEMMA NextRangeIs ==
  ASSUME LoopInv, todo # <<>>, i < B,
         NEW m, m = CHOOSE n \in j..(Len(rangelist) - 1) :
                      /\ RangeAt(n).r >= BlockLo
                      /\ \A q \in j..(n - 1) : RangeAt(q).r < BlockLo
  PROVE  /\ m \in j..Ends /\ RangeAt(m).r >= BlockLo
         /\ \A q \in 0..(m - 1) : RangeAt(q).r < BlockLo
<1>1. RangesHold /\ TablesTyped /\ Swept /\ j \in 0..Ends
  BY DEF LoopInv, TablesTyped
<1>2. Ends \in Nat /\ Max64 \in Nat /\ \A n \in 0..Ends : RangeAt(n).r \in 0..Max64
  BY <1>1, RangeIs
<1>3. BlockLo \in Nat /\ BlockLo <= Max64 /\ BlockLo = FirstKey(todo[1], i, level)
  <2>1. BlockLo \in Nat /\ BlockHi \in Nat /\ BlockLo <= BlockHi /\ BlockHi <= Max64
    BY <1>1, HeadIs
  <2> QED BY <1>1, <1>2, <2>1, HeadIs
<1> DEFINE Beyond == {n \in j..Ends : RangeAt(n).r >= BlockLo}
<1>4. Ends \in Beyond
  <2>1. RangeAt(Ends).r = Max64
    BY <1>1 DEF RangesHold
  <2> QED BY <1>1, <1>2, <1>3, <2>1
<1>5. Beyond \in SUBSET Nat
  BY <1>1, <1>2
<1>6. PICK n \in Beyond : \A y \in Beyond : n <= y
  <2> HIDE DEF Beyond
  <2> QED BY <1>4, <1>5, LeastNat
<1>7. n \in j..Ends /\ RangeAt(n).r >= BlockLo /\ \A q \in j..(n - 1) : RangeAt(q).r < BlockLo
  <2>1. n \in j..Ends /\ RangeAt(n).r >= BlockLo
    OBVIOUS
  <2>2. ASSUME NEW q \in j..(n - 1) PROVE RangeAt(q).r < BlockLo
    <3>1. q \in j..Ends /\ ~(n <= q) /\ q \in 0..Ends
      BY <1>1, <1>2, <2>1
    <3>2. ~(RangeAt(q).r >= BlockLo)
      BY <1>6, <3>1
    <3> QED BY <1>2, <1>3, <3>1, <3>2
  <2> QED BY <2>1, <2>2
<1>8. /\ m \in j..Ends /\ RangeAt(m).r >= BlockLo
      /\ \A q \in j..(m - 1) : RangeAt(q).r < BlockLo
  BY <1>7 DEF Ends
<1>9. \A q \in 0..(j - 1) : RangeAt(q).r < BlockLo
  BY <1>1, <1>3 DEF Swept
<1>10. \A q \in 0..(m - 1) : q \in 0..(j - 1) \/ q \in j..(m - 1)
  BY <1>1, <1>2, <1>8
<1>11. QED
  BY <1>8, <1>9, <1>10

LEMMA NextRangeLoops ==
  ASSUME LoopInv, NextRange
  PROVE  LoopInv'
<1>1. /\ todo # <<>> /\ i < B /\ rows' = Flushed /\ run' = <<>>
      /\ UNCHANGED <<rangelist, level, todo, i, opened, curidx, pfidx, clashed>>
      /\ j' = CHOOSE m \in j..(Len(rangelist) - 1) :
                /\ RangeAt(m).r >= BlockLo
                /\ \A q \in j..(m - 1) : RangeAt(q).r < BlockLo
  BY DEF NextRange, InLoop
<1>2. PICK m : m = j'
  OBVIOUS
<1>3. m \in j..Ends /\ \A q \in 0..(m - 1) : RangeAt(q).r < BlockLo
  <2>1. m = CHOOSE n \in j..(Len(rangelist) - 1) :
              /\ RangeAt(n).r >= BlockLo
              /\ \A q \in j..(n - 1) : RangeAt(q).r < BlockLo
    BY <1>1, <1>2
  <2> QED BY <1>1, <2>1, NextRangeIs
<1>4. RangesHold' /\ Ends' = Ends /\ \A q : RangeAt(q)' = RangeAt(q)
  BY <1>1 DEF LoopInv, RangesHold, Ends, RangeAt
<1>5. TablesTyped'
  <2>1. j \in 0..Ends /\ Ends \in Nat
    <3>1. j \in 0..Ends
      BY DEF LoopInv, TablesTyped
    <3> QED BY <3>1, RangeIs DEF LoopInv
  <2>2. j' \in 0..Ends'
    BY <1>2, <1>3, <1>4, <2>1
  <2> QED BY <1>1, <2>2 DEF LoopInv, TablesTyped
<1>6. Swept'
  <2>1. BlockLo = FirstKey(todo[1], i, level)
    BY <1>1, HeadIs DEF LoopInv
  <2>2. \A q \in 0..(j' - 1) : RangeAt(q)'.r < FirstKey(todo'[1], i', level')
    BY <1>1, <1>2, <1>3, <1>4, <2>1
  <2>3. \A q \in 0..(j' - 1) : RangeAt(q).r' < FirstKey(todo[1], i, level)'
    BY <1>1, <2>2 DEF FirstKey
  <2> QED BY <1>1, <2>3 DEF Swept
<1>7. \A x \in rows' : RowTyped(x)'
  BY <1>1, FlushTyped DEF RowTyped
<1>8. QED
  BY <1>4, <1>5, <1>6, <1>7 DEF LoopInv

LEMMA ExtendRunLoops ==
  ASSUME LoopInv, ExtendRun
  PROVE  LoopInv'
<1>1. /\ todo # <<>> /\ i < B /\ ~(RangeAt(j).r < BlockLo) /\ BlockHi <= RangeAt(j).r
      /\ run' = (IF run = <<>> THEN <<i, i>> ELSE <<run[1], i>>) /\ i' = i + 1
      /\ UNCHANGED <<rangelist, level, todo, j, rows, opened, curidx, pfidx, clashed>>
  BY DEF ExtendRun, InLoop, Behind, Fits
<1>2. /\ todo[1] \in 0..(Span[level - 1] - 1) /\ level \in 1..D /\ i \in 0..B /\ B \in Nat
      /\ BlockLo = FirstKey(todo[1], i, level) /\ BlockHi = FirstKey(todo[1], i + 1, level) - 1
      /\ BlockLo \in Nat /\ BlockHi \in Nat /\ BlockLo <= BlockHi
  BY <1>1, HeadIs, DigitFacts DEF LoopInv
<1>3. PICK lo \in Nat, hi \in Nat :
        lo = FirstKey(todo[1], i, level) /\ hi = FirstKey(todo[1], i + 1, level) /\ lo < hi
  <2>1. FirstKey(todo[1], i + 1, level) \in Nat
    <3>1. i + 1 \in 0..B
      BY <1>1, <1>2
    <3> QED BY <1>2, <3>1, BlockLies
  <2> QED BY <1>2, <2>1
<1>4. /\ RangesHold' /\ Ends' = Ends /\ \A q : RangeAt(q)' = RangeAt(q)
      /\ (\A x \in rows : RowTyped(x))'
  BY <1>1 DEF LoopInv, RangesHold, Ends, RangeAt, RowTyped
<1>5. TablesTyped'
  <2>1. i' \in 0..B
    BY <1>1, <1>2
  <2> QED BY <1>1, <1>4, <2>1 DEF LoopInv, TablesTyped
<1>6. j \in 0..Ends /\ Ends \in Nat /\ \A q \in 0..Ends : RangeAt(q).r \in Nat
  <2>1. RangesHold /\ j \in 0..Ends
    BY DEF LoopInv, TablesTyped
  <2>2. Ends \in Nat /\ \A q \in 0..Ends : RangeAt(q).r \in Nat
    BY <2>1, RangeIs
  <2> QED BY <2>1, <2>2
<1>7. \A q \in 0..(j - 1) : RangeAt(q).r < lo
  BY <1>1, <1>3 DEF LoopInv, Swept
<1>8. \A q \in 0..(j - 1) : RangeAt(q).r < hi
  <2> TAKE q \in 0..(j - 1)
  <2>1. q \in 0..Ends
    BY <1>6
  <2> QED BY <1>3, <1>6, <1>7, <2>1
<1>9. hi - 1 <= RangeAt(j).r
  BY <1>1, <1>2, <1>3
<1>10. \E l \in 0..i : run' = <<l, i>> /\ \A q \in 0..(j - 1) : RangeAt(q).r < FirstKey(todo[1], l, level)
  <2>1. CASE run = <<>>
    BY <1>1, <1>2, <1>3, <1>7, <2>1
  <2>2. CASE run # <<>>
    <3>1. PICK l \in 0..(i - 1) :
            run = <<l, i - 1>> /\ Within(FirstKey(todo[1], l, level), FirstKey(todo[1], i, level), j)
      BY <2>2 DEF LoopInv, Swept
    <3>2. run[1] = l /\ l \in 0..i
      BY <1>2, <3>1
    <3> QED BY <1>1, <2>2, <3>1, <3>2 DEF Within
  <2> QED BY <2>1, <2>2
<1>11. PICK l \in 0..i :
         run' = <<l, i>> /\ \A q \in 0..(j - 1) : RangeAt(q).r < FirstKey(todo[1], l, level)
  BY <1>10
<1>12. l \in 0..(i' - 1) /\ i' - 1 = i
  BY <1>1, <1>2
<1>13. /\ FirstKey(todo[1], i, level)' = hi
       /\ Within(FirstKey(todo[1], l, level), FirstKey(todo[1], i, level), j)'
  <2>1. FirstKey(todo[1], i, level)' = hi
    BY <1>1, <1>3 DEF FirstKey
  <2>2. FirstKey(todo[1], l, level)' = FirstKey(todo[1], l, level)
    BY <1>1 DEF FirstKey
  <2>3. (hi - 1 <= RangeAt(j).r)' <=> hi - 1 <= RangeAt(j).r
    BY <1>1 DEF RangeAt
  <2>4. \A q \in 0..(j' - 1) : (RangeAt(q).r)' < FirstKey(todo[1], l, level)'
    BY <1>1, <1>4, <1>11, <2>2
  <2> QED BY <1>9, <2>1, <2>3, <2>4 DEF Within
<1>14. Swept'
  BY <1>1, <1>4, <1>8, <1>11, <1>12, <1>13 DEF Swept, Within
<1>15. QED
  BY <1>4, <1>5, <1>14 DEF LoopInv

\* A range can end inside a block of more than one key only.
LEMMA OpensAboveLast ==
  ASSUME LoopInv, OpenBlock
  PROVE  level < D
<1>1. todo # <<>> /\ i < B /\ ~(RangeAt(j).r < BlockLo) /\ ~(BlockLo >= RangeAt(j).l /\ BlockHi <= RangeAt(j).r)
  BY DEF OpenBlock, InLoop, Behind, Fits
<1>2. /\ level \in 1..D /\ BlockLo = FirstKey(todo[1], i, level) /\ BlockLo \in Nat
      /\ level = D => BlockHi = BlockLo
  BY <1>1, HeadIs DEF LoopInv
<1>3. RangesHold /\ j \in 0..Ends /\ D \in Nat
  BY DigitFacts DEF LoopInv, TablesTyped
<1>4. Ends \in Nat /\ Max64 \in Nat /\ \A q \in 0..Ends : RangeAt(q).r \in 0..Max64 /\ RangeAt(q).l \in 0..Max64
  BY <1>3, RangeIs
<1>5. BlockLo >= RangeAt(j).l
  <2>1. CASE j = 0
    BY <1>2, <2>1 DEF LoopInv, RangesHold
  <2>2. CASE j # 0
    <3>1. j \in 1..Ends /\ j - 1 \in 0..(j - 1) /\ j - 1 \in 0..Ends
      BY <1>3, <1>4, <2>2
    <3>2. RangeAt(j).l <= RangeAt(j - 1).r + 1
      BY <1>3, <3>1 DEF RangesHold
    <3>3. RangeAt(j - 1).r < BlockLo
      BY <1>1, <1>2, <3>1 DEF LoopInv, Swept
    <3> QED BY <1>2, <1>3, <1>4, <3>1, <3>2, <3>3
  <2> QED BY <2>1, <2>2
<1>6. QED
  BY <1>1, <1>2, <1>3, <1>4, <1>5

LEMMA OpenBlockLoops ==
  ASSUME LoopInv, OpenBlock
  PROVE  LoopInv'
<1>1. /\ todo # <<>> /\ i < B /\ ~(RangeAt(j).r < BlockLo) /\ level < D
      /\ pfidx' = [b \in DOMAIN pfidx \cup {Block} |-> IF b = Block THEN curidx ELSE pfidx[b]]
      /\ clashed' = (clashed \/ Block \in DOMAIN pfidx) /\ curidx' = curidx + 1
      /\ rows' = Flushed \cup {Row(pfidx', i, i, TRUE, curidx)}
      /\ run' = <<>> /\ opened' = Append(opened, Block) /\ i' = i + 1
      /\ UNCHANGED <<rangelist, level, todo, j>>
  BY OpensAboveLast DEF OpenBlock, InLoop, Behind
<1>2. /\ todo[1] \in 0..(Span[level - 1] - 1) /\ level \in 1..D /\ i \in 0..B /\ B \in Nat
      /\ Block \in 0..(Span[level] - 1)
      /\ BlockLo = FirstKey(todo[1], i, level) /\ BlockHi = FirstKey(todo[1], i + 1, level) - 1
      /\ BlockLo \in Nat /\ BlockHi \in Nat /\ BlockLo <= BlockHi
  BY <1>1, HeadIs, DigitFacts DEF LoopInv
<1>3. /\ RangesHold' /\ Ends' = Ends /\ \A q : RangeAt(q)' = RangeAt(q)
  BY <1>1 DEF LoopInv, RangesHold, Ends, RangeAt
<1>4. TablesTyped'
  <2>1. PICK S, T : S = 0..(Span[level] - 1) /\ T = 0..(Span[level - 1] - 1)
    OBVIOUS
  <2>2. PICK b : b = Block
    OBVIOUS
  <2>3. /\ opened \in Seq(S) /\ b \in S /\ curidx \in Nat /\ clashed \in BOOLEAN
        /\ todo \in Seq(T)
        /\ pfidx \in [DOMAIN pfidx -> 0..(curidx - 1)] /\ j \in 0..Ends
        /\ level = 1 => Len(todo) <= 1
        /\ level > 1 => \A x \in DOMAIN todo : todo[x] \in DOMAIN pfidx
        /\ \A x \in DOMAIN opened : opened[x] \in DOMAIN pfidx
    BY <1>2, <2>1, <2>2 DEF LoopInv, TablesTyped
  <2>4. opened' \in Seq(S) /\ \A x \in DOMAIN opened' : opened'[x] = b \/ (x \in DOMAIN opened /\ opened'[x] = opened[x])
    BY <1>1, <2>2, <2>3
  <2>5. /\ DOMAIN pfidx' = DOMAIN pfidx \cup {b}
        /\ pfidx' \in [DOMAIN pfidx' -> 0..(curidx' - 1)]
    <3>1. \A a \in DOMAIN pfidx : pfidx[a] \in 0..(curidx - 1)
      BY <2>3
    <3> QED BY <1>1, <2>2, <2>3, <3>1
  <2>6. i' \in 0..B /\ curidx' \in Nat /\ clashed' \in BOOLEAN
    <3>1. i' \in 0..B
      BY <1>1, <1>2
    <3>2. curidx' \in Nat
      BY <1>1, <2>3
    <3>3. clashed' \in BOOLEAN
      BY <1>1, ZenonT(30)
    <3> QED BY <3>1, <3>2, <3>3
  <2>7. \A x \in DOMAIN opened' : opened'[x] \in DOMAIN pfidx'
    BY <2>3, <2>4, <2>5
  <2>8. level' > 1 => \A x \in DOMAIN todo' : todo'[x] \in DOMAIN pfidx'
    BY <1>1, <2>3, <2>5
  <2> QED BY <1>1, <1>2, <1>3, <2>1, <2>3, <2>4, <2>5, <2>6, <2>7, <2>8 DEF TablesTyped
<1>5. Swept'
  <2>1. j \in 0..Ends /\ Ends \in Nat /\ \A q \in 0..Ends : RangeAt(q).r \in Nat
    <3>1. RangesHold /\ j \in 0..Ends
      BY DEF LoopInv, TablesTyped
    <3>2. Ends \in Nat /\ \A q \in 0..Ends : RangeAt(q).r \in Nat
      BY <3>1, RangeIs
    <3> QED BY <3>1, <3>2
  <2>2. PICK lo \in Nat, hi \in Int :
          lo = FirstKey(todo[1], i, level) /\ hi = FirstKey(todo[1], i + 1, level) /\ lo < hi
    <3>1. i + 1 \in 0..B
      BY <1>1, <1>2
    <3>2. FirstKey(todo[1], i + 1, level) \in Nat
      BY <1>2, <3>1, BlockLies
    <3> QED BY <1>2, <3>2
  <2>3. \A q \in 0..(j - 1) : RangeAt(q).r < lo
    BY <1>1, <2>2 DEF LoopInv, Swept
  <2>4. \A q \in 0..(j - 1) : RangeAt(q).r < hi
    <3> TAKE q \in 0..(j - 1)
    <3>1. q \in 0..Ends
      BY <2>1
    <3> QED BY <2>1, <2>2, <2>3, <3>1
  <2>5. FirstKey(todo[1], i, level)' = hi
    BY <1>1, <2>2 DEF FirstKey
  <2> QED BY <1>1, <1>3, <2>4, <2>5 DEF Swept
<1>6. \A x \in rows' : RowTyped(x)'
  <2>1. \A x \in Flushed : RowTyped(x)
    BY <1>1, FlushTyped
  <2>2. PICK row : row = Row(pfidx', i, i, TRUE, curidx)
    OBVIOUS
  <2>3. row.level = level /\ row.l = i /\ row.r = i /\ row.nexttable = TRUE /\ row.result = curidx
    BY <2>2 DEF Row
  <2>4. RowTyped(row)
    <3>1. curidx \in Nat
      BY DEF LoopInv, TablesTyped
    <3>2. level \in 1..level /\ i \in 0..(B - 1) /\ i \in i..(B - 1)
      BY <1>1, <1>2
    <3> QED BY <1>1, <2>3, <3>1, <3>2 DEF RowTyped
  <2>5. \A x \in rows' : RowTyped(x)
    BY <1>1, <2>1, <2>2, <2>4
  <2> QED BY <1>1, <2>5 DEF RowTyped
<1>7. QED
  BY <1>3, <1>4, <1>5, <1>6 DEF LoopInv

LEMMA EndPrefixLoops ==
  ASSUME LoopInv, EndPrefix
  PROVE  LoopInv'
<1>1. /\ todo # <<>> /\ rows' = Flushed /\ run' = <<>> /\ i' = 0 /\ j' = 0 /\ todo' = Tail(todo)
      /\ UNCHANGED <<rangelist, level, opened, curidx, pfidx, clashed>>
  BY DEF EndPrefix
<1>2. RangesHold' /\ Ends' = Ends
  BY <1>1 DEF LoopInv, RangesHold, Ends, RangeAt
<1>3. PICK T : T = 0..(Span[level - 1] - 1)
  OBVIOUS
<1>4. todo \in Seq(T)
  BY <1>3 DEF LoopInv, TablesTyped
<1>5. todo' \in Seq(T) /\ \A x \in DOMAIN todo' : x + 1 \in DOMAIN todo /\ todo'[x] = todo[x + 1]
  BY <1>1, <1>4
<1>6. level = 1 => Len(todo') <= 1
  <2>1. level = 1 => Len(todo) <= 1
    BY <1>1 DEF LoopInv, TablesTyped
  <2>2. Len(todo') \in Nat /\ Len(todo) \in Nat /\ Len(todo') <= Len(todo)
    BY <1>1, <1>4
  <2> QED BY <2>1, <2>2
<1>7. TablesTyped'
  <2>1. 0 \in 0..B /\ 0 \in 0..Ends
    <3>1. Ends \in Nat /\ B \in Nat
      BY DigitFacts, RangeIs DEF LoopInv, RangesHold, Ends
    <3> QED BY <3>1
  <2>2. level > 1 => \A x \in DOMAIN todo' : todo'[x] \in DOMAIN pfidx
    BY <1>5 DEF LoopInv, TablesTyped
  <2> QED BY <1>1, <1>2, <1>3, <1>5, <1>6, <2>1, <2>2 DEF LoopInv, TablesTyped
<1>8. Swept'
  BY <1>1 DEF Swept
<1>9. \A x \in rows' : RowTyped(x)'
  BY <1>1, FlushTyped DEF RowTyped
<1>10. QED
  BY <1>2, <1>7, <1>8, <1>9 DEF LoopInv

LEMMA NextTableLoops ==
  ASSUME LoopInv, NextTable
  PROVE  LoopInv'
<1>1. /\ todo = <<>> /\ level < D /\ level' = level + 1 /\ todo' = opened /\ opened' = <<>>
      /\ UNCHANGED <<rangelist, i, j, run, rows, curidx, pfidx, clashed>>
  BY DEF NextTable
<1>2. RangesHold' /\ Ends' = Ends
  BY <1>1 DEF LoopInv, RangesHold, Ends, RangeAt
<1>3. level \in 1..D /\ D \in Nat
  BY DigitFacts DEF LoopInv, TablesTyped
<1>4. level' \in 1..D /\ level' - 1 = level /\ level' # 1
  BY <1>1, <1>3
<1>5. TablesTyped'
  <2>1. opened \in Seq(0..(Span[level] - 1)) /\ \A x \in DOMAIN opened : opened[x] \in DOMAIN pfidx
    BY DEF LoopInv, TablesTyped
  <2>2. todo' \in Seq(0..(Span[level' - 1] - 1))
    BY <1>1, <1>4, <2>1
  <2>3. opened' \in Seq(0..(Span[level'] - 1)) /\ DOMAIN opened' = {}
    BY <1>1
  <2>4. i \in 0..B /\ j \in 0..Ends /\ curidx \in Nat /\ clashed \in BOOLEAN
        /\ pfidx \in [DOMAIN pfidx -> 0..(curidx - 1)]
    BY DEF LoopInv, TablesTyped
  <2> QED BY <1>1, <1>2, <1>4, <2>1, <2>2, <2>3, <2>4 DEF TablesTyped
<1>6. Swept'
  <2>1. i = 0 /\ j = 0 /\ run = <<>>
    BY <1>1 DEF LoopInv, Swept
  <2> QED BY <1>1, <2>1 DEF Swept
<1>7. \A x \in rows' : RowTyped(x)'
  <2>1. \A x \in rows : RowTyped(x)
    BY DEF LoopInv
  <2>2. \A x \in rows : x.level \in 1..level'
    BY <1>1, <1>3, <2>1 DEF RowTyped
  <2> QED BY <1>1, <2>1, <2>2 DEF RowTyped
<1>8. QED
  BY <1>2, <1>5, <1>6, <1>7 DEF LoopInv

LEMMA TablesStep ==
  ASSUME LoopInv, [TablesNext]_tableVars
  PROVE  LoopInv'
<1>1. CASE UNCHANGED tableVars
  BY <1>1 DEF tableVars, LoopInv, RangesHold, TablesTyped, Swept, RowTyped, Ends, RangeAt, Within, FirstKey
<1>2. CASE TablesNext
  BY <1>2, NextRangeLoops, ExtendRunLoops, OpenBlockLoops, EndPrefixLoops, NextTableLoops
     DEF TablesNext
<1>3. QED
  BY <1>1, <1>2

LEMMA TablesStartIs ==
  ASSUME NEW K \in RootKeys, TablesStart(K)
  PROVE  LoopInv
<1>1. /\ rangelist = Ranges(K) /\ level = 1 /\ todo = <<0>> /\ i = 0 /\ j = 0 /\ run = <<>>
      /\ rows = {} /\ opened = <<>> /\ curidx = Len(rangelist) /\ pfidx = <<>> /\ clashed = FALSE
  BY DEF TablesStart
<1>2. RangesHold
  BY <1>1, RangesInit
<1>3. Ends \in Nat /\ Len(rangelist) \in Nat /\ B \in Nat /\ D \in Nat /\ D >= 1
  <2>1. Len(rangelist) \in Nat /\ Len(rangelist) >= 2
    BY <1>2 DEF RangesHold
  <2> QED BY <2>1, DigitFacts DEF Ends
<1>4. TablesTyped
  <2>1. level - 1 = 0 /\ Span[0] = 1 /\ 0 \in 0..(Span[level - 1] - 1)
    BY <1>1, SpanIs
  <2>2. PICK S : S = 0..(Span[level - 1] - 1)
    OBVIOUS
  <2>3. <<0>> \in Seq(S)
    BY <2>1, <2>2
  <2>4. DOMAIN pfidx = {} /\ pfidx \in [DOMAIN pfidx -> 0..(curidx - 1)] /\ DOMAIN opened = {}
    BY <1>1
  <2>5. opened \in Seq(0..(Span[level] - 1))
    BY <1>1
  <2>6. level \in 1..D /\ i \in 0..B /\ j \in 0..Ends /\ curidx \in Nat
    BY <1>1, <1>3
  <2>7. todo \in Seq(S) /\ Len(todo) = 1 /\ ~(level > 1)
    BY <1>1, <2>3
  <2>8. clashed \in BOOLEAN
    BY <1>1, ZenonT(30)
  <2> QED BY <2>2, <2>4, <2>5, <2>6, <2>7, <2>8 DEF TablesTyped
<1>5. Swept
  BY <1>1 DEF Swept
<1>6. QED
  BY <1>1, <1>2, <1>4, <1>5 DEF LoopInv

-----------------------------------------------------------------------------
(***************************************************************************)
(* What the rows say, as long as no number is overwritten.  T stands for   *)
(* the rows, p for the numbers.                                            *)
(***************************************************************************)
RowNo(p, P, n) == IF n = 1 THEN 0 ELSE p[P]

Covered(T, n, number, d) ==
  \E x \in T : x.level = n /\ x.prefix = number /\ x.l <= d /\ d <= x.r

Full(T, n, number) == \A d \in 0..(B - 1) : Covered(T, n, number, d)

Apart(T) ==
  \A x, y \in T : x # y /\ x.level = y.level /\ x.prefix = y.prefix => x.r < y.l \/ y.r < x.l

(* A row leads to the child all its keys belong to, or to the number of    *)
(* the longer prefix it stands for.                                        *)
RowTrue(x, p) ==
  \E P \in 0..(Span[x.level - 1] - 1) :
    /\ x.level > 1 => P \in DOMAIN p
    /\ x.prefix = RowNo(p, P, x.level)
    /\ x.nexttable => /\ x.l = x.r /\ P * B + x.l \in DOMAIN p
                      /\ p[P * B + x.l] = x.result
    /\ ~x.nexttable =>
         /\ x.result \in 0..Ends
         /\ Within(FirstKey(P, x.l, x.level), FirstKey(P, x.r + 1, x.level), x.result)

Numbered ==
  /\ \A a, b \in DOMAIN pfidx : pfidx[a] = pfidx[b] => a = b
  /\ \A x, y \in DOMAIN todo : todo[x] = todo[y] => x = y
  /\ \A x, y \in DOMAIN opened : opened[x] = opened[y] => x = y

\* Digits before the frontier have a row of the table being written.
Frontier == IF run = <<>> THEN i ELSE run[1]

Current ==
  \A x \in DOMAIN todo :
    /\ \A y \in rows : y.level = level /\ y.prefix = RowNo(pfidx, todo[x], level)
                         => x = 1 /\ y.r < Frontier
    /\ x = 1 => \A d \in 0..(Frontier - 1) : Covered(rows, level, RowNo(pfidx, todo[x], level), d)

\* A number that a row leads to has all its rows, or is on a worklist.
Asked(T) ==
  /\ level > 1 \/ todo = <<>> => Full(T, 1, 0)
  /\ \A x \in T : x.nexttable =>
       /\ x.level < level - 1 => Full(T, x.level + 1, x.result)
       /\ x.level = level - 1 => \/ Full(T, level, x.result)
                                 \/ \E y \in DOMAIN todo : pfidx[todo[y]] = x.result
       /\ x.level = level => \E y \in DOMAIN opened : pfidx[opened[y]] = x.result

Faithful ==
  Numbered /\ Current /\ Asked(rows) /\ Apart(rows) /\ \A x \in rows : RowTrue(x, pfidx)

LEMMA CoverGrows ==
  ASSUME NEW T, NEW U, T \subseteq U, NEW n, NEW number
  PROVE  /\ \A d : Covered(T, n, number, d) => Covered(U, n, number, d)
         /\ Full(T, n, number) => Full(U, n, number)
<1>1. \A d : Covered(T, n, number, d) => Covered(U, n, number, d)
  BY DEF Covered
<1>2. QED
  BY <1>1 DEF Full

\* The rows of a number cover its digits up to f once each.
Reaches(T, n, number, f) ==
  /\ Apart(T)
  /\ \A y \in T : y.l \in Nat /\ y.r \in Nat
  /\ \A y \in T : y.level = n /\ y.prefix = number => y.r < f
  /\ \A d \in 0..(f - 1) : Covered(T, n, number, d)

\* A row at the frontier moves it on.
LEMMA OneMore ==
  ASSUME NEW T, NEW a, NEW n, NEW number, NEW f \in Nat, NEW g \in Nat,
         a.level = n, a.prefix = number, a.l = f, a.r = g, f <= g,
         Reaches(T, n, number, f)
  PROVE  Reaches(T \cup {a}, n, number, g + 1)
<1>1. \A y \in T \cup {a} : y.level = n /\ y.prefix = number => y.r < g + 1
  <2> TAKE y \in T \cup {a}
  <2>1. CASE y = a
    BY <2>1
  <2>2. CASE y \in T
    BY <2>2 DEF Reaches
  <2> QED BY <2>1, <2>2
<1>2. ASSUME NEW d \in 0..g PROVE Covered(T \cup {a}, n, number, d)
  <2>1. CASE d < f
    <3>1. d \in 0..(f - 1)
      BY <2>1
    <3> QED BY <3>1, CoverGrows DEF Reaches
  <2>2. CASE ~(d < f)
    BY <2>2 DEF Covered
  <2> QED BY <2>1, <2>2
<1>3. Apart(T \cup {a})
  <2> SUFFICES ASSUME NEW x \in T \cup {a}, NEW y \in T \cup {a},
                      x # y, x.level = y.level, x.prefix = y.prefix
               PROVE  x.r < y.l \/ y.r < x.l
    BY DEF Apart
  <2>1. CASE x \in T /\ y \in T
    BY <2>1 DEF Reaches, Apart
  <2>2. CASE x = a /\ y \in T
    BY <2>2 DEF Reaches
  <2>3. CASE x \in T /\ y = a
    BY <2>3 DEF Reaches
  <2> QED BY <2>1, <2>2, <2>3
<1>4. \A y \in T \cup {a} : y.l \in Nat /\ y.r \in Nat
  BY DEF Reaches
<1>5. (g + 1) - 1 = g
  OBVIOUS
<1>6. QED
  BY <1>1, <1>2, <1>3, <1>4, <1>5 DEF Reaches

\* What the rows are once the run is printed.
LEMMA FlushFaithful ==
  ASSUME LoopInv, Faithful, todo # <<>>, NEW no, no = RowNo(pfidx, todo[1], level)
  PROVE  /\ Reaches(Flushed, level, no, i) /\ rows \subseteq Flushed
         /\ \A x \in Flushed : RowTrue(x, pfidx)
         /\ \A y \in Flushed : y \in rows \/ (y.level = level /\ y.prefix = no /\ y.nexttable = FALSE)
<1>1. /\ 1 \in DOMAIN todo /\ todo[1] \in 0..(Span[level - 1] - 1) /\ level \in 1..D /\ i \in 0..B
      /\ B \in Nat
  BY HeadIs, DigitFacts DEF LoopInv
<1>2. Reaches(rows, level, no, Frontier) /\ \A x \in rows : RowTrue(x, pfidx)
  <2>1. \A y \in rows : y.l \in Nat /\ y.r \in Nat
    BY <1>1 DEF LoopInv, RowTyped
  <2> QED BY <1>1, <2>1 DEF Faithful, Current, Reaches
<1>3. CASE run = <<>>
  <2>1. Flushed = rows /\ Frontier = i
    BY <1>3 DEF Flushed, Frontier
  <2> QED BY <1>2, <2>1
<1>4. CASE run # <<>>
  <2>1. PICK l \in 0..(i - 1) : \E row :
           /\ Flushed = rows \cup {row} /\ run[1] = l
           /\ row.level = level /\ row.l = l /\ row.r = i - 1 /\ row.nexttable = FALSE
           /\ row.result = j /\ row.prefix = (IF level = 1 THEN 0 ELSE pfidx[todo[1]])
           /\ Within(FirstKey(todo[1], l, level), FirstKey(todo[1], i, level), j)
    BY <1>4, FlushIs
  <2>2. PICK row :
           /\ Flushed = rows \cup {row} /\ run[1] = l
           /\ row.level = level /\ row.l = l /\ row.r = i - 1 /\ row.nexttable = FALSE
           /\ row.result = j /\ row.prefix = (IF level = 1 THEN 0 ELSE pfidx[todo[1]])
           /\ Within(FirstKey(todo[1], l, level), FirstKey(todo[1], i, level), j)
    BY <2>1
  <2>3. row.prefix = no /\ Frontier = l
    BY <1>4, <2>2 DEF RowNo, Frontier
  <2>4. PICK g \in Nat : g = i - 1 /\ l <= g /\ g + 1 = i
    BY <1>1
  <2>5. Reaches(rows \cup {row}, level, no, g + 1)
    <3>1. /\ l \in Nat /\ row.r = g /\ row.l = l /\ row.level = level /\ row.prefix = no /\ l <= g
          /\ Reaches(rows, level, no, l)
      BY <1>2, <2>2, <2>3, <2>4
    <3> QED BY <3>1, OneMore
  <2>7. RowTrue(row, pfidx)
    <3>1. level > 1 => todo[1] \in DOMAIN pfidx
      BY <1>1 DEF LoopInv, TablesTyped
    <3>2. j \in 0..Ends
      BY DEF LoopInv, TablesTyped
    <3>3. Within(FirstKey(todo[1], row.l, row.level), FirstKey(todo[1], row.r + 1, row.level), j)
      BY <2>2, <2>4
    <3>4. row.prefix = RowNo(pfidx, todo[1], row.level)
      BY <2>2, <2>3
    <3> QED BY <1>1, <2>2, <3>1, <3>2, <3>3, <3>4 DEF RowTrue
  <2> QED BY <1>2, <2>2, <2>3, <2>4, <2>5, <2>7
<1>5. QED
  BY <1>3, <1>4

\* Rows of the table being written are of the head of the worklist, if of any.
LEMMA OthersClear ==
  ASSUME LoopInv, Faithful, todo # <<>>, NEW x \in DOMAIN todo, NEW y \in Flushed,
         y.level = level, y.prefix = RowNo(pfidx, todo[x], level)
  PROVE  x = 1
<1>1. CASE y \in rows
  BY <1>1 DEF Faithful, Current
<1>2. CASE y \notin rows
  <2>1. y.prefix = RowNo(pfidx, todo[1], level)
    BY <1>2, FlushFaithful
  <2>2. 1 \in DOMAIN todo /\ level \in 1..D
    BY HeadIs DEF LoopInv
  <2>3. CASE level = 1
    <3>1. Len(todo) <= 1 /\ todo \in Seq(0..(Span[level - 1] - 1))
      BY <2>3 DEF LoopInv, TablesTyped
    <3>2. x \in 1..Len(todo) /\ Len(todo) \in Nat
      BY <3>1
    <3> QED BY <3>1, <3>2
  <2>4. CASE level # 1
    <3>1. pfidx[todo[x]] = pfidx[todo[1]]
      BY <2>1, <2>4 DEF RowNo
    <3>2. todo[x] \in DOMAIN pfidx /\ todo[1] \in DOMAIN pfidx
      BY <2>2, <2>4 DEF LoopInv, TablesTyped
    <3> QED BY <2>2, <3>1, <3>2 DEF Faithful, Numbered
  <2> QED BY <2>3, <2>4
<1>3. QED
  BY <1>1, <1>2

LEMMA AskedFlush ==
  ASSUME LoopInv, Faithful, todo # <<>>
  PROVE  Asked(Flushed)
<1>1. PICK T : T = Flushed
  OBVIOUS
<1>2. rows \subseteq T /\ \A y \in T : y \in rows \/ y.nexttable = FALSE
  BY <1>1, FlushFaithful
<1>3. \A n, number : Full(rows, n, number) => Full(T, n, number)
  BY <1>2, CoverGrows
<1>4. Asked(rows)
  BY DEF Faithful
<1>5. Asked(T)
  BY <1>2, <1>3, <1>4 DEF Asked
<1>6. QED
  BY <1>1, <1>5

LEMMA NextRangeFaithful ==
  ASSUME LoopInv, Faithful, NextRange
  PROVE  Faithful'
<1>1. /\ todo # <<>> /\ rows' = Flushed /\ run' = <<>>
      /\ UNCHANGED <<rangelist, level, todo, i, opened, curidx, pfidx, clashed>>
  BY DEF NextRange, InLoop
<1>2. Frontier' = i
  BY <1>1 DEF Frontier
<1>3. Numbered'
  BY <1>1 DEF Faithful, Numbered
<1>4. \A x \in Flushed : RowTrue(x, pfidx)
  BY <1>1, FlushFaithful
<1>5. \A x \in rows' : RowTrue(x, pfidx)'
  BY <1>1, <1>4 DEF RowTrue, RowNo, Within, RangeAt, FirstKey, Ends
<1>6. Reaches(Flushed, level, RowNo(pfidx, todo[1], level), i)
  BY <1>1, FlushFaithful
<1>7. Apart(rows)'
  BY <1>1, <1>6 DEF Reaches, Apart
<1>8. Current'
  <2> SUFFICES ASSUME NEW x \in DOMAIN todo
               PROVE  /\ \A y \in Flushed : y.level = level /\ y.prefix = RowNo(pfidx, todo[x], level)
                           => x = 1 /\ y.r < i
                      /\ x = 1 => \A d \in 0..(i - 1) :
                           Covered(Flushed, level, RowNo(pfidx, todo[x], level), d)
    BY <1>1, <1>2 DEF Current, Covered, RowNo
  <2>1. \A y \in Flushed : y.level = level /\ y.prefix = RowNo(pfidx, todo[x], level) => x = 1
    BY <1>1, OthersClear
  <2> QED BY <1>6, <2>1 DEF Reaches
<1>9. Asked(rows)'
  <2>1. Asked(Flushed)
    BY <1>1, AskedFlush
  <2> QED BY <1>1, <2>1 DEF Asked, Full, Covered
<1>10. QED
  BY <1>3, <1>5, <1>7, <1>8, <1>9 DEF Faithful

LEMMA ExtendRunFaithful ==
  ASSUME LoopInv, Faithful, ExtendRun
  PROVE  Faithful'
<1>1. /\ run' = (IF run = <<>> THEN <<i, i>> ELSE <<run[1], i>>)
      /\ UNCHANGED <<rangelist, level, todo, j, rows, opened, curidx, pfidx, clashed>>
  BY DEF ExtendRun
<1>2. Frontier' = Frontier
  <2>1. run' # <<>> /\ run'[1] = IF run = <<>> THEN i ELSE run[1]
    BY <1>1
  <2> QED BY <2>1 DEF Frontier
<1>3. Numbered' /\ Apart(rows)' /\ Asked(rows)'
  BY <1>1 DEF Faithful, Numbered, Apart, Asked, Full, Covered
<1>4. \A x \in rows' : RowTrue(x, pfidx)'
  BY <1>1 DEF Faithful, RowTrue, RowNo, Within, RangeAt, FirstKey, Ends
<1>5. Current'
  BY <1>1, <1>2 DEF Faithful, Current, RowNo, Covered
<1>6. QED
  BY <1>3, <1>4, <1>5 DEF Faithful

LEMMA OpenBlockFaithful ==
  ASSUME LoopInv, Faithful, OpenBlock, ~clashed'
  PROVE  Faithful'
<1>1. /\ todo # <<>> /\ i < B /\ Block \notin DOMAIN pfidx
      /\ pfidx' = [b \in DOMAIN pfidx \cup {Block} |-> IF b = Block THEN curidx ELSE pfidx[b]]
      /\ rows' = Flushed \cup {Row(pfidx', i, i, TRUE, curidx)}
      /\ run' = <<>> /\ opened' = Append(opened, Block) /\ i' = i + 1
      /\ UNCHANGED <<rangelist, level, todo, j>>
  BY DEF OpenBlock, InLoop
<1>2. PICK b, row : b = Block /\ row = Row(pfidx', i, i, TRUE, curidx)
  OBVIOUS
<1>3. /\ todo[1] \in 0..(Span[level - 1] - 1) /\ level \in 1..D /\ i \in 0..B /\ B \in Nat
      /\ b \in 0..(Span[level] - 1) /\ b = todo[1] * B + i /\ Prefix = todo[1] /\ 1 \in DOMAIN todo
  BY <1>1, <1>2, HeadIs, DigitFacts DEF LoopInv, Block
<1>4. /\ DOMAIN pfidx' = DOMAIN pfidx \cup {b} /\ pfidx'[b] = curidx /\ b \notin DOMAIN pfidx
      /\ \A a \in DOMAIN pfidx : pfidx'[a] = pfidx[a]
  BY <1>1, <1>2
<1>5. \A a \in DOMAIN pfidx : pfidx[a] # curidx
  <2>1. curidx \in Nat /\ \A a \in DOMAIN pfidx : pfidx[a] \in 0..(curidx - 1)
    BY DEF LoopInv, TablesTyped
  <2> QED BY <2>1
<1>6. PICK S : S = 0..(Span[level] - 1)
  OBVIOUS
<1>7. opened \in Seq(S) /\ \A x \in DOMAIN opened : opened[x] \in DOMAIN pfidx
  BY <1>6 DEF LoopInv, TablesTyped
<1>8. PICK n \in Nat : n = Len(opened) /\ DOMAIN opened = 1..n
  BY <1>7
<1>9. /\ DOMAIN opened' = 1..(n + 1) /\ opened'[n + 1] = b
      /\ \A x \in 1..n : opened'[x] = opened[x]
  BY <1>1, <1>2, <1>3, <1>6, <1>7, <1>8
<1>10. Numbered'
  <2>1. \A a, c \in DOMAIN pfidx' : pfidx'[a] = pfidx'[c] => a = c
    BY <1>4, <1>5 DEF Faithful, Numbered
  <2>2. \A x, y \in DOMAIN opened' : opened'[x] = opened'[y] => x = y
    <3> SUFFICES ASSUME NEW x \in 1..(n + 1), NEW y \in 1..(n + 1), opened'[x] = opened'[y]
                 PROVE  x = y
      BY <1>9
    <3>1. \A z \in 1..n : opened'[z] # b
      BY <1>4, <1>7, <1>8, <1>9
    <3>2. CASE x \in 1..n /\ y \in 1..n
      BY <1>8, <1>9, <3>2 DEF Faithful, Numbered
    <3>3. CASE x = n + 1 \/ y = n + 1
      <4>1. opened'[x] = b /\ opened'[y] = b
        BY <1>9, <3>3
      <4>2. x \notin 1..n /\ y \notin 1..n
        BY <3>1, <4>1
      <4> QED BY <4>2
    <3> QED BY <3>2, <3>3
  <2> QED BY <1>1, <2>1, <2>2 DEF Faithful, Numbered
<1>11. PICK no : no = RowNo(pfidx, todo[1], level)
  OBVIOUS
<1>12. \A x \in DOMAIN todo : RowNo(pfidx', todo[x], level) = RowNo(pfidx, todo[x], level)
  <2> TAKE x \in DOMAIN todo
  <2>1. level > 1 => todo[x] \in DOMAIN pfidx
    BY DEF LoopInv, TablesTyped
  <2> QED BY <1>3, <1>4, <2>1 DEF RowNo
<1>13. /\ row.level = level /\ row.l = i /\ row.r = i /\ row.nexttable = TRUE
       /\ row.result = curidx /\ row.prefix = no
  <2>1. row.prefix = RowNo(pfidx', todo[1], level)
    BY <1>2, <1>3 DEF Row, RowNo
  <2>2. row.prefix = no
    BY <1>3, <1>11, <1>12, <2>1
  <2> QED BY <1>2, <2>2 DEF Row
<1>14. PICK T : T = Flushed
  OBVIOUS
<1>15. /\ Reaches(T, level, no, i) /\ rows \subseteq T /\ \A x \in T : RowTrue(x, pfidx)
       /\ rows' = T \cup {row}
  BY <1>1, <1>2, <1>11, <1>14, FlushFaithful
<1>16. Reaches(T \cup {row}, level, no, i + 1)
  BY <1>3, <1>13, <1>15, OneMore
<1>17. Apart(rows)'
  BY <1>15, <1>16 DEF Reaches, Apart
<1>18. \A x \in T \cup {row} : RowTrue(x, pfidx')
  <2> TAKE x \in T \cup {row}
  <2>1. CASE x \in T
    <3>1. RowTrue(x, pfidx) /\ x.level \in 1..level
      <4>1. RowTyped(x)
        BY <1>1, <1>14, <2>1, FlushTyped
      <4> QED BY <1>15, <2>1, <4>1 DEF RowTyped
    <3>2. PICK P \in 0..(Span[x.level - 1] - 1) :
             /\ x.level > 1 => P \in DOMAIN pfidx
             /\ x.prefix = RowNo(pfidx, P, x.level)
             /\ x.nexttable => /\ x.l = x.r /\ P * B + x.l \in DOMAIN pfidx
                               /\ pfidx[P * B + x.l] = x.result
             /\ ~x.nexttable =>
                  /\ x.result \in 0..Ends
                  /\ Within(FirstKey(P, x.l, x.level), FirstKey(P, x.r + 1, x.level), x.result)
      BY <3>1 DEF RowTrue
    <3>3. x.prefix = RowNo(pfidx', P, x.level)
      BY <1>3, <1>4, <3>1, <3>2 DEF RowNo
    <3> QED BY <1>4, <3>2, <3>3 DEF RowTrue
  <2>2. CASE x = row
    <3>1. todo[1] * B + row.l \in DOMAIN pfidx' /\ pfidx'[todo[1] * B + row.l] = row.result
      BY <1>3, <1>4, <1>13
    <3>2. level > 1 => todo[1] \in DOMAIN pfidx'
      BY <1>3, <1>4 DEF LoopInv, TablesTyped
    <3>3. row.prefix = RowNo(pfidx', todo[1], row.level)
      BY <1>3, <1>11, <1>12, <1>13
    <3> QED BY <1>3, <1>13, <2>2, <3>1, <3>2, <3>3 DEF RowTrue
  <2> QED BY <2>1, <2>2
<1>19. \A x \in rows' : RowTrue(x, pfidx)'
  BY <1>1, <1>15, <1>18 DEF RowTrue, RowNo, Within, RangeAt, FirstKey, Ends
<1>20. Current'
  <2> SUFFICES ASSUME NEW x \in DOMAIN todo
               PROVE  /\ \A y \in T \cup {row} : y.level = level /\ y.prefix = RowNo(pfidx, todo[x], level)
                           => x = 1 /\ y.r < i + 1
                      /\ x = 1 => \A d \in 0..((i + 1) - 1) :
                           Covered(T \cup {row}, level, RowNo(pfidx, todo[x], level), d)
    <3>1. Frontier' = i + 1
      BY <1>1 DEF Frontier
    <3>2. rows' = T \cup {row} /\ level' = level /\ todo' = todo
      BY <1>1, <1>15
    <3>3. \A x \in DOMAIN todo : RowNo(pfidx, todo[x], level)' = RowNo(pfidx, todo[x], level)
      BY <1>12, <3>2 DEF RowNo
    <3>4. \A number, d : Covered(rows', level', number, d) <=> Covered(T \cup {row}, level, number, d)
      BY <3>2
    <3>5. ASSUME NEW x \in DOMAIN todo
          PROVE  /\ \A y \in rows' : y.level = level' /\ y.prefix = RowNo(pfidx, todo[x], level)'
                      => x = 1 /\ y.r < Frontier'
                 /\ x = 1 => \A d \in 0..(Frontier' - 1) :
                      Covered(rows', level', RowNo(pfidx, todo[x], level)', d)
      <4> HIDE DEF RowNo, Covered, Frontier
      <4> QED BY <3>1, <3>2, <3>3, <3>4
    <3>6. \A x \in DOMAIN todo' :
            /\ \A y \in rows' : y.level = level' /\ y.prefix = RowNo(pfidx', todo'[x], level')
                 => x = 1 /\ y.r < Frontier'
            /\ x = 1 => \A d \in 0..(Frontier' - 1) :
                 Covered(rows', level', RowNo(pfidx', todo'[x], level'), d)
      BY <3>2, <3>5 DEF RowNo
    <3> QED BY <3>6 DEF Current
  <2>1. \A y \in T : y.level = level /\ y.prefix = RowNo(pfidx, todo[x], level) => x = 1
    BY <1>1, <1>14, OthersClear
  <2>2. RowNo(pfidx, todo[x], level) = no => x = 1
    <3>1. CASE level = 1
      <4>1. Len(todo) <= 1 /\ todo \in Seq(0..(Span[level - 1] - 1))
        BY <3>1 DEF LoopInv, TablesTyped
      <4>2. x \in 1..Len(todo) /\ Len(todo) \in Nat
        BY <4>1
      <4> QED BY <4>1, <4>2
    <3>2. CASE level # 1
      <4>1. todo[x] \in DOMAIN pfidx /\ todo[1] \in DOMAIN pfidx
        BY <1>3, <3>2 DEF LoopInv, TablesTyped
      <4> QED BY <1>3, <1>11, <3>2, <4>1 DEF Faithful, Numbered, RowNo
    <3> QED BY <3>1, <3>2
  <2>3. \A y \in T \cup {row} : y.level = level /\ y.prefix = RowNo(pfidx, todo[x], level) => x = 1
    BY <1>13, <2>1, <2>2
  <2> QED BY <1>11, <1>16, <2>3 DEF Reaches
<1>21. Asked(rows)'
  <2>1. Asked(T)
    BY <1>1, <1>14, AskedFlush
  <2>2. \A m, number : Full(T, m, number) => Full(T \cup {row}, m, number)
    BY CoverGrows
  <2>3. level > 1 \/ todo = <<>> => Full(T \cup {row}, 1, 0)
    BY <2>1, <2>2 DEF Asked
  <2>4. ASSUME NEW x \in T \cup {row}, x.nexttable
        PROVE  /\ x.level < level - 1 => Full(T \cup {row}, x.level + 1, x.result)
               /\ x.level = level - 1 => \/ Full(T \cup {row}, level, x.result)
                                         \/ \E y \in DOMAIN todo : pfidx'[todo[y]] = x.result
               /\ x.level = level => \E y \in DOMAIN opened' : pfidx'[opened'[y]] = x.result
    <3>1. CASE x \in T
      <4>1. x.level \in 1..level
        BY <1>1, <1>14, <3>1, FlushTyped DEF RowTyped
      <4>2. x.level < level - 1 => Full(T \cup {row}, x.level + 1, x.result)
        BY <2>1, <2>2, <2>4, <3>1 DEF Asked
      <4>3. ASSUME x.level = level - 1
            PROVE  \/ Full(T \cup {row}, level, x.result)
                   \/ \E y \in DOMAIN todo : pfidx'[todo[y]] = x.result
        <5>1. CASE Full(T, level, x.result)
          BY <2>2, <5>1
        <5>2. CASE \E y \in DOMAIN todo : pfidx[todo[y]] = x.result
          <6>1. PICK y \in DOMAIN todo : pfidx[todo[y]] = x.result
            BY <5>2
          <6>2. level > 1
            BY <1>3, <4>1, <4>3
          <6>3. todo[y] \in DOMAIN pfidx
            BY <6>2 DEF LoopInv, TablesTyped
          <6> QED BY <1>4, <6>1, <6>3
        <5> QED BY <2>1, <2>4, <3>1, <4>3, <5>1, <5>2 DEF Asked
      <4>4. ASSUME x.level = level PROVE \E y \in DOMAIN opened' : pfidx'[opened'[y]] = x.result
        <5>1. PICK y \in DOMAIN opened : pfidx[opened[y]] = x.result
          BY <2>1, <2>4, <3>1, <4>4 DEF Asked
        <5>2. y \in 1..n /\ y \in 1..(n + 1) /\ opened[y] \in DOMAIN pfidx
          BY <1>7, <1>8
        <5> QED BY <1>4, <1>9, <5>1, <5>2
      <4> QED BY <4>2, <4>3, <4>4
    <3>2. CASE x = row
      <4>1. x.level = level /\ x.result = curidx /\ ~(level < level - 1) /\ level # level - 1
        BY <1>3, <1>13, <3>2
      <4>2. n + 1 \in DOMAIN opened' /\ pfidx'[opened'[n + 1]] = curidx
        BY <1>4, <1>9
      <4> QED BY <4>1, <4>2
    <3> QED BY <3>1, <3>2
  <2>5. rows' = T \cup {row} /\ level' = level /\ todo' = todo
    BY <1>1, <1>15
  <2>6. \A m, number : Full(rows', m, number) <=> Full(T \cup {row}, m, number)
    BY <2>5
  <2>7. ASSUME NEW x \in rows', x.nexttable
        PROVE  /\ x.level < level' - 1 => Full(rows', x.level + 1, x.result)
               /\ x.level = level' - 1 => \/ Full(rows', level', x.result)
                                          \/ \E y \in DOMAIN todo' : pfidx'[todo'[y]] = x.result
               /\ x.level = level' => \E y \in DOMAIN opened' : pfidx'[opened'[y]] = x.result
    BY <2>4, <2>5, <2>6, <2>7
  <2>8. level' > 1 \/ todo' = <<>> => Full(rows', 1, 0)
    BY <2>3, <2>5, <2>6
  <2> QED BY <2>7, <2>8 DEF Asked, Full, Covered
<1>22. QED
  BY <1>10, <1>17, <1>19, <1>20, <1>21 DEF Faithful

LEMMA EndPrefixFaithful ==
  ASSUME LoopInv, Faithful, EndPrefix
  PROVE  Faithful'
<1>1. /\ todo # <<>> /\ i = B /\ rows' = Flushed /\ run' = <<>> /\ i' = 0 /\ todo' = Tail(todo)
      /\ UNCHANGED <<rangelist, level, opened, curidx, pfidx, clashed>>
  BY DEF EndPrefix
<1>2. PICK S : S = 0..(Span[level - 1] - 1)
  OBVIOUS
<1>3. todo \in Seq(S)
  BY <1>2 DEF LoopInv, TablesTyped
<1>4. PICK n \in Nat : n = Len(todo) /\ n >= 1 /\ DOMAIN todo = 1..n
  BY <1>1, <1>3
<1>5. DOMAIN todo' = 1..(n - 1) /\ \A x \in 1..(n - 1) : todo'[x] = todo[x + 1] /\ x + 1 \in 1..n
  BY <1>1, <1>3, <1>4
<1>6. level \in 1..D /\ D \in Nat
  BY DigitFacts DEF LoopInv, TablesTyped
<1>7. PICK no, T : no = RowNo(pfidx, todo[1], level) /\ T = Flushed
  OBVIOUS
<1>8. /\ Reaches(T, level, no, B) /\ rows \subseteq T /\ rows' = T
      /\ \A x \in T : RowTrue(x, pfidx)
  BY <1>1, <1>7, FlushFaithful
<1>9. Full(T, level, no)
  BY <1>8 DEF Full, Reaches
<1>10. Apart(rows)'
  BY <1>8 DEF Reaches, Apart
<1>11. \A x \in rows' : RowTrue(x, pfidx)'
  BY <1>1, <1>8 DEF RowTrue, RowNo, Within, RangeAt, FirstKey, Ends
<1>12. Numbered'
  <2>1. \A x, y \in DOMAIN todo' : todo'[x] = todo'[y] => x = y
    <3> SUFFICES ASSUME NEW x \in 1..(n - 1), NEW y \in 1..(n - 1), todo'[x] = todo'[y] PROVE x = y
      BY <1>5
    <3>1. todo[x + 1] = todo[y + 1] /\ x + 1 \in DOMAIN todo /\ y + 1 \in DOMAIN todo
      BY <1>4, <1>5
    <3>2. x + 1 = y + 1
      BY <3>1 DEF Faithful, Numbered
    <3> QED BY <3>2
  <2> QED BY <1>1, <2>1 DEF Faithful, Numbered
<1>13. Current'
  <2>1. Frontier' = 0
    BY <1>1 DEF Frontier
  <2>2. rows' = T /\ level' = level /\ pfidx' = pfidx
    BY <1>1, <1>8
  <2>3. ASSUME NEW x \in 1..(n - 1), NEW y \in T, y.level = level,
               y.prefix = RowNo(pfidx, todo'[x], level)
        PROVE  FALSE
    <3>1. x + 1 \in DOMAIN todo /\ todo'[x] = todo[x + 1] /\ x + 1 # 1
      BY <1>4, <1>5
    <3>2. PICK z : z = x + 1
      OBVIOUS
    <3>3. z \in DOMAIN todo /\ y.prefix = RowNo(pfidx, todo[z], level) /\ z # 1
      BY <2>3, <3>1, <3>2
    <3> QED BY <1>1, <1>7, <2>3, <3>3, OthersClear
  <2>4. \A x \in DOMAIN todo' :
          /\ \A y \in rows' : y.level = level' /\ y.prefix = RowNo(pfidx', todo'[x], level')
               => x = 1 /\ y.r < Frontier'
          /\ x = 1 => \A d \in 0..(Frontier' - 1) :
               Covered(rows', level', RowNo(pfidx', todo'[x], level'), d)
    BY <1>5, <2>1, <2>2, <2>3
  <2> QED BY <2>4 DEF Current
<1>14. Asked(rows)'
  <2>1. Asked(T)
    BY <1>1, <1>7, AskedFlush
  <2>2. /\ rows' = T /\ level' = level /\ pfidx' = pfidx /\ opened' = opened
        /\ \A m, number : Full(rows', m, number) <=> Full(T, m, number)
    BY <1>1, <1>8
  <2>3. level > 1 \/ todo' = <<>> => Full(T, 1, 0)
    <3>1. CASE level > 1
      BY <2>1, <3>1 DEF Asked
    <3>2. CASE ~(level > 1)
      BY <1>6, <1>7, <1>9, <3>2 DEF RowNo
    <3> QED BY <3>1, <3>2
  <2>4. ASSUME NEW x \in T, x.nexttable, x.level = level - 1
        PROVE  Full(T, level, x.result) \/ \E y \in DOMAIN todo' : pfidx[todo'[y]] = x.result
    <3>1. CASE Full(T, level, x.result)
      BY <3>1
    <3>2. CASE \E y \in DOMAIN todo : pfidx[todo[y]] = x.result
      <4>1. PICK y \in 1..n : pfidx[todo[y]] = x.result
        BY <1>4, <3>2
      <4>2. CASE y = 1
        <5>1. x.level \in 1..level
          BY <1>1, <1>7, <2>4, FlushTyped DEF RowTyped
        <5>2. level # 1
          BY <1>6, <2>4, <5>1
        <5> QED BY <1>7, <1>9, <4>1, <4>2, <5>2 DEF RowNo
      <4>3. CASE y # 1
        <5>1. y - 1 \in 1..(n - 1) /\ (y - 1) + 1 = y
          BY <1>4, <4>3
        <5>2. todo'[y - 1] = todo[y] /\ y - 1 \in DOMAIN todo'
          BY <1>5, <5>1
        <5> QED BY <4>1, <5>2
      <4> QED BY <4>2, <4>3
    <3> QED BY <2>1, <2>4, <3>1, <3>2 DEF Asked
  <2>5. ASSUME NEW x \in rows', x.nexttable
        PROVE  /\ x.level < level' - 1 => Full(rows', x.level + 1, x.result)
               /\ x.level = level' - 1 => \/ Full(rows', level', x.result)
                                          \/ \E y \in DOMAIN todo' : pfidx'[todo'[y]] = x.result
               /\ x.level = level' => \E y \in DOMAIN opened' : pfidx'[opened'[y]] = x.result
    <3>1. /\ x \in T
          /\ x.level < level - 1 => Full(T, x.level + 1, x.result)
          /\ x.level = level => \E y \in DOMAIN opened : pfidx[opened[y]] = x.result
      BY <2>1, <2>2, <2>5 DEF Asked
    <3> QED BY <2>2, <2>4, <2>5, <3>1
  <2>6. level' > 1 \/ todo' = <<>> => Full(rows', 1, 0)
    BY <2>2, <2>3
  <2> QED BY <2>5, <2>6 DEF Asked, Full, Covered
<1>15. QED
  BY <1>10, <1>11, <1>12, <1>13, <1>14 DEF Faithful

LEMMA NextTableFaithful ==
  ASSUME LoopInv, Faithful, NextTable
  PROVE  Faithful'
<1>1. /\ todo = <<>> /\ level < D /\ level' = level + 1 /\ todo' = opened /\ opened' = <<>>
      /\ UNCHANGED <<rangelist, i, j, run, rows, curidx, pfidx, clashed>>
  BY DEF NextTable
<1>2. level \in 1..D /\ D \in Nat /\ \A x \in rows : x.level \in 1..level
  BY DigitFacts DEF LoopInv, TablesTyped, RowTyped
<1>3. DOMAIN todo = {} /\ DOMAIN opened' = {}
  BY <1>1
<1>4. Numbered' /\ Apart(rows)'
  BY <1>1, <1>3 DEF Faithful, Numbered, Apart
<1>5. \A x \in rows' : RowTrue(x, pfidx)'
  BY <1>1 DEF Faithful, RowTrue, RowNo, Within, RangeAt, FirstKey, Ends
<1>6. Current'
  <2>1. i = 0 /\ run = <<>>
    BY <1>1 DEF LoopInv, Swept
  <2>2. Frontier' = 0
    BY <1>1, <2>1 DEF Frontier
  <2>3. \A y \in rows' : y.level # level'
    BY <1>1, <1>2
  <2>4. \A x \in DOMAIN todo' :
          /\ \A y \in rows' : y.level = level' /\ y.prefix = RowNo(pfidx', todo'[x], level')
               => x = 1 /\ y.r < Frontier'
          /\ x = 1 => \A d \in 0..(Frontier' - 1) :
               Covered(rows', level', RowNo(pfidx', todo'[x], level'), d)
    BY <2>2, <2>3
  <2> QED BY <2>4 DEF Current
<1>7. Asked(rows)'
  <2>1. Asked(rows) /\ rows' = rows /\ pfidx' = pfidx
    BY <1>1 DEF Faithful
  <2>2. Full(rows, 1, 0)
    BY <1>1, <2>1 DEF Asked
  <2>3. ASSUME NEW x \in rows, x.nexttable
        PROVE  /\ x.level < (level + 1) - 1 => Full(rows, x.level + 1, x.result)
               /\ x.level = (level + 1) - 1 => \E y \in DOMAIN opened : pfidx[opened[y]] = x.result
               /\ x.level # level + 1
    <3>1. x.level \in 1..level
      BY <1>2
    <3>2. CASE x.level = level
      BY <1>2, <2>1, <2>3, <3>2 DEF Asked
    <3>3. CASE x.level = level - 1
      <4>1. Full(rows, level, x.result)
        BY <1>3, <2>1, <2>3, <3>3 DEF Asked
      <4>2. x.level + 1 = level
        BY <1>2, <3>3
      <4> QED BY <1>2, <3>3, <4>1, <4>2
    <3>4. CASE x.level < level - 1
      BY <1>2, <2>1, <2>3, <3>1, <3>4 DEF Asked
    <3> QED BY <1>2, <3>1, <3>2, <3>3, <3>4
  <2>4. \A m, number : Full(rows', m, number) <=> Full(rows, m, number)
    BY <2>1
  <2>5. ASSUME NEW x \in rows', x.nexttable
        PROVE  /\ x.level < level' - 1 => Full(rows', x.level + 1, x.result)
               /\ x.level = level' - 1 => \/ Full(rows', level', x.result)
                                          \/ \E y \in DOMAIN todo' : pfidx'[todo'[y]] = x.result
               /\ x.level = level' => \E y \in DOMAIN opened' : pfidx'[opened'[y]] = x.result
    BY <1>1, <2>1, <2>3, <2>4, <2>5
  <2>6. Full(rows', 1, 0)
    BY <2>2, <2>4
  <2> QED BY <2>5, <2>6 DEF Asked, Full, Covered
<1>8. QED
  BY <1>4, <1>5, <1>6, <1>7 DEF Faithful

TablesInv == LoopInv /\ (~clashed => Faithful)

LEMMA TablesInvStep ==
  ASSUME TablesInv, [TablesNext]_tableVars
  PROVE  TablesInv'
<1>1. LoopInv'
  BY TablesStep DEF TablesInv
<1>2. ASSUME ~clashed' PROVE Faithful'
  <2>1. CASE UNCHANGED tableVars
    BY <1>2, <2>1
       DEF tableVars, TablesInv, Faithful, Numbered, Current, Asked, Apart, Full, Covered,
           RowTrue, RowNo, Within, RangeAt, FirstKey, Ends, Frontier
  <2>2. CASE TablesNext
    <3>1. ~clashed
      BY <1>2, <2>2
         DEF TablesNext, NextRange, ExtendRun, OpenBlock, EndPrefix, NextTable
    <3> QED BY <1>2, <2>2, <3>1, NextRangeFaithful, ExtendRunFaithful, OpenBlockFaithful,
               EndPrefixFaithful, NextTableFaithful
            DEF TablesNext, TablesInv
  <2> QED BY <2>1, <2>2
<1>3. QED
  BY <1>1, <1>2 DEF TablesInv

LEMMA TablesInvInit ==
  ASSUME NEW K \in RootKeys, TablesStart(K)
  PROVE  TablesInv
<1>1. LoopInv
  BY TablesStartIs
<1>2. todo = <<0>> /\ run = <<>> /\ i = 0 /\ rows = {} /\ opened = <<>> /\ pfidx = <<>> /\ level = 1
  BY DEF TablesStart
<1>3. DOMAIN todo = {1} /\ DOMAIN opened = {} /\ DOMAIN pfidx = {} /\ todo # <<>>
  BY <1>2
<1>4. Numbered
  BY <1>3 DEF Numbered
<1>5. Current
  <2>1. Frontier = 0
    BY <1>2 DEF Frontier
  <2> QED BY <1>2, <2>1 DEF Current
<1>6. Asked(rows) /\ Apart(rows)
  BY <1>2, <1>3 DEF Asked, Apart
<1>7. QED
  BY <1>1, <1>2, <1>4, <1>5, <1>6 DEF TablesInv, Faithful

(* The loops of config_table.cpp keep to their invariant, whatever keys    *)
(* the root has, with digits of any width and any number of them.          *)
THEOREM TablesInvariance == PathSpec => []TablesInv
<1>1. PathInit => TablesInv
  BY TablesInvInit, PathAssumption DEF PathInit
<1>2. TablesInv /\ [PathNext]_pathVars => TablesInv'
  <2> SUFFICES ASSUME TablesInv, [PathNext]_pathVars PROVE TablesInv'
    OBVIOUS
  <2>1. [TablesNext]_tableVars
    BY DEF PathNext, WriteTables, FirstRead, CompareStages, Depart, pathVars
  <2> QED BY <2>1, TablesInvStep
<1>3. QED
  BY <1>1, <1>2, PTL DEF PathSpec

(* Two rows of a table never compete for a key, and the last table leads   *)
(* to no other (config_table.cpp, set_result_action_4).                    *)
THEOREM RowsStayUnambiguous == PathSpec => []RowsUnambiguous
<1>1. TablesInv => RowsUnambiguous
  <2> SUFFICES ASSUME TablesInv PROVE RowsUnambiguous
    OBVIOUS
  <2>1. ~clashed => Apart(rows)
    BY DEF TablesInv, Faithful
  <2>2. \A x \in rows : x.level = D => ~x.nexttable
    <3> TAKE x \in rows
    <3>1. x.nexttable \in BOOLEAN /\ (x.nexttable => x.level < D)
      BY DEF TablesInv, LoopInv, RowTyped
    <3> QED BY <3>1, DigitFacts
  <2> QED BY <2>1, <2>2 DEF RowsUnambiguous, Apart
<1>2. QED
  BY <1>1, TablesInvariance, PTL

-----------------------------------------------------------------------------
(***************************************************************************)
(* The lookup: digit by digit to the row of the key.                       *)
(***************************************************************************)
LEMMA DivIs ==
  ASSUME NEW k \in Nat, NEW c \in Nat, c >= 1
  PROVE  /\ k \div c \in Nat /\ c * (k \div c) <= k /\ k < c * (k \div c) + c
         /\ k % c \in 0..(c - 1) /\ k = c * (k \div c) + (k % c)
<1>1. k \div c \in Nat /\ k % c \in 0..(c - 1) /\ k = c * (k \div c) + (k % c)
  BY SMTT(30)
<1>2. PICK q, r \in Nat : q = k \div c /\ r = k % c
  BY <1>1
<1>3. PICK p \in Int : p = c * q
  BY <1>2, SMTT(30)
<1>4. k = p + r /\ r < c
  BY <1>1, <1>2, <1>3
<1>5. QED
  BY <1>1, <1>2, <1>3, <1>4

LEMMA DivOnly ==
  ASSUME NEW k \in Nat, NEW c \in Nat, c >= 1, NEW q \in Int, c * q <= k, k < c * q + c
  PROVE  k \div c = q
<1>1. PICK p \in Nat : p = k \div c /\ c * p <= k /\ k < c * p + c
  BY DivIs
<1>2. ~(q < p)
  <2>1. SUFFICES ASSUME q + 1 <= p PROVE FALSE
    OBVIOUS
  <2>2. c * (q + 1) <= c * p
    BY <2>1, SMTT(30)
  <2>3. c * (q + 1) = c * q + c
    BY SMTT(30)
  <2>4. PICK x, y \in Int : x = c * q /\ y = c * p
    BY SMTT(30)
  <2> QED BY <1>1, <2>2, <2>3, <2>4
<1>3. ~(p < q)
  <2>1. SUFFICES ASSUME p + 1 <= q PROVE FALSE
    OBVIOUS
  <2>2. c * (p + 1) <= c * q
    BY <2>1, SMTT(30)
  <2>3. c * (p + 1) = c * p + c
    BY SMTT(30)
  <2>4. PICK x, y \in Int : x = c * q /\ y = c * p
    BY SMTT(30)
  <2> QED BY <1>1, <2>2, <2>3, <2>4
<1>4. QED
  BY <1>1, <1>2, <1>3

\* The first n digits of a key.
Leading(k, n) == k \div Span[D - n]

LEMMA DigitIs ==
  ASSUME NEW k \in 0..Max64, NEW n \in 1..D
  PROVE  /\ Leading(k, n - 1) \in 0..(Span[n - 1] - 1) /\ Digit(k, n) \in 0..(B - 1)
         /\ FirstKey(Leading(k, n - 1), Digit(k, n), n) <= k
         /\ k <= FirstKey(Leading(k, n - 1), Digit(k, n) + 1, n) - 1
         /\ Leading(k, n) = Leading(k, n - 1) * B + Digit(k, n)
<1>1. B \in Nat /\ B >= 2 /\ D \in Nat /\ D - n \in 0..D /\ n - 1 \in 0..D /\ D - (n - 1) \in 1..D
      /\ (D - (n - 1)) - 1 = D - n /\ D \in 0..D /\ k \in Nat /\ D - (n - 1) \in 0..D
  BY DigitFacts, MaxIs
<1>2. /\ Span[n - 1] \in Nat /\ Span[D - n] \in Nat /\ Span[D - n] >= 1
      /\ Span[D - (n - 1)] = B * Span[D - n] /\ Span[D] \in Nat
  BY <1>1, SpanIs
<1>3. PICK a, c, s \in Nat : a = Span[n - 1] /\ c = Span[D - n] /\ s = Span[D] /\ c >= 1
  BY <1>2
<1>4. PICK b \in Nat : b = B * c /\ b >= 1 /\ b = Span[D - (n - 1)]
  BY <1>1, <1>2, <1>3, SMTT(30)
<1>5. a * b = s /\ k <= s - 1
  <2>1. Span[n - 1] * Span[D - (n - 1)] = Span[D]
    BY <1>1, SpanProduct
  <2> QED BY <1>3, <1>4, <2>1, MaxIs
<1>6. PICK q \in Nat : q = k \div c /\ c * q <= k /\ k < c * q + c
  BY <1>1, <1>3, DivIs
<1>7. PICK u, d \in Nat : u = q \div B /\ d = q % B /\ d < B /\ q = B * u + d
  <2>1. q \div B \in Nat /\ q % B \in 0..(B - 1) /\ q = B * (q \div B) + (q % B)
    <3>1. PICK z \in Nat : z = B /\ z >= 1
      BY <1>1
    <3>2. /\ q \div z \in Nat /\ z * (q \div z) <= q /\ q < z * (q \div z) + z
          /\ q % z \in 0..(z - 1) /\ q = z * (q \div z) + (q % z)
      BY <3>1, DivIs, ZenonT(30)
    <3> QED BY <3>1, <3>2, ZenonT(30)
  <2> QED BY <1>1, <2>1
<1>8. c * q = b * u + c * d
  <2>1. c * (B * u + d) = c * (B * u) + c * d
    BY <1>1, SMTT(30)
  <2>2. c * (B * u) = (B * c) * u
    BY <1>1, SMTT(30)
  <2> QED BY <1>4, <1>7, <2>1, <2>2
<1>9. c * d + c <= b /\ c * d \in Nat /\ b * u \in Nat
  <2>1. c * (d + 1) <= c * B
    BY <1>1, <1>7, SMTT(30)
  <2>2. c * (d + 1) = c * d + c /\ c * B = b
    BY <1>1, <1>4, SMTT(30)
  <2>3. c * d \in Nat /\ b * u \in Nat
    BY SMTT(30)
  <2> QED BY <2>1, <2>2, <2>3
<1>10. b * u <= k /\ k < b * u + b
  <2>1. PICK x, y \in Nat : x = b * u /\ y = c * d
    BY <1>9
  <2>2. x + y <= k /\ k < x + y + c /\ y + c <= b
    BY <1>6, <1>8, <1>9, <2>1
  <2> QED BY <2>1, <2>2
<1>11. k \div b = u
  <2>1. k \in Nat /\ b >= 1 /\ u \in Int
    BY <1>1, <1>4
  <2> QED BY <1>10, <2>1, DivOnly, ZenonT(30)
<1>12. Leading(k, n - 1) = u /\ Leading(k, n) = q /\ Digit(k, n) = d
  BY <1>3, <1>4, <1>6, <1>7, <1>11 DEF Leading, Digit
<1>13. u <= a - 1
  <2>1. SUFFICES ASSUME a <= u PROVE FALSE
    OBVIOUS
  <2>2. a * b <= b * u
    BY <2>1, SMTT(30)
  <2> QED BY <1>1, <1>5, <1>9, <1>10, <2>2
<1>14. u * B + d = q /\ u * B + (d + 1) = q + 1
  <2>1. u * B = B * u /\ B * u \in Nat
    BY <1>1, SMTT(30)
  <2> QED BY <1>7, <2>1
<1>15. FirstKey(u, d, n) = c * q /\ FirstKey(u, d + 1, n) = c * q + c
  <2>1. q * c = c * q /\ (q + 1) * c = c * q + c
    BY SMTT(30)
  <2> QED BY <1>3, <1>14, <2>1 DEF FirstKey
<1>16. PICK x \in Nat : x = c * q
  BY SMTT(30)
<1>17. u \in 0..(a - 1) /\ d \in 0..(B - 1)
  BY <1>1, <1>3, <1>7, <1>13
<1>18. FirstKey(u, d, n) <= k /\ k <= FirstKey(u, d + 1, n) - 1
  BY <1>1, <1>3, <1>6, <1>15, <1>16
<1>19. QED
  BY <1>3, <1>12, <1>14, <1>17, <1>18

LEMMA LeadingNone ==
  ASSUME NEW k \in 0..Max64
  PROVE  Leading(k, 0) = 0
<1>1. D - 0 = D /\ D \in 0..D /\ k \in Nat
  BY DigitFacts, MaxIs
<1>2. PICK s \in Nat : s = Span[D] /\ s >= 1
  BY <1>1, SpanIs
<1>3. s * 0 <= k /\ k < s * 0 + s
  BY <1>1, <1>2, MaxIs
<1>4. k \div s = 0
  BY <1>1, <1>2, <1>3, DivOnly
<1>5. QED
  BY <1>1, <1>2, <1>4 DEF Leading

\* A key within a range has as many root keys below it as ranges before it.
LEMMA RangeCounts ==
  ASSUME RangesHold, NEW k \in 0..Max64, NEW m \in 0..Ends, Within(k, k + 1, m)
  PROVE  Cardinality(RootKeysBelow(k)) = m
<1>1. Ends \in Nat /\ Max64 \in Nat /\ \A q \in 0..Ends : RangeAt(q).r \in 0..Max64
  BY RangeIs
<1>2. k <= RangeAt(m).r /\ \A q \in 0..(m - 1) : RangeAt(q).r < k
  BY <1>1 DEF Within
<1>3. \A q \in 0..Ends : m <= q => ~(RangeAt(q).r < k)
  <2> TAKE q \in 0..Ends
  <2>1. m < q => RangeAt(m).r <= RangeAt(q).r
    BY DEF RangesHold
  <2> QED BY <1>1, <1>2, <2>1
<1>4. Len(rangelist) - 2 = Ends - 1
  BY DEF RangesHold, Ends
<1>5. RootKeysBelow(k) = 0..(m - 1)
  <2>1. ASSUME NEW q \in RootKeysBelow(k) PROVE q \in 0..(m - 1)
    <3>1. q \in 0..(Ends - 1) /\ RangeAt(q).r < k
      BY <1>4 DEF RootKeysBelow
    <3>2. q \in 0..Ends
      BY <1>1, <3>1
    <3>3. ~(m <= q)
      BY <1>3, <3>1, <3>2
    <3> QED BY <1>1, <3>1, <3>3
  <2>2. ASSUME NEW q \in 0..(m - 1) PROVE q \in RootKeysBelow(k)
    <3>1. q \in 0..(Ends - 1)
      BY <1>1
    <3> QED BY <1>2, <1>4, <3>1 DEF RootKeysBelow
  <2> QED BY <2>1, <2>2
<1>6. PICK n \in Nat : n = m
  BY <1>1
<1>7. Cardinality(0..(n - 1)) = n
  <2>1. Cardinality(0..(n - 1)) = IF 0 > n - 1 THEN 0 ELSE (n - 1) - 0 + 1
    BY FS_Interval
  <2> QED BY <2>1
<1>8. QED
  BY <1>5, <1>6, <1>7

\* One table of Ingress0: what it makes of the metadata of the one before.
Applied(n, m, k) ==
  LET hits == Matching(n, m.result, k)
  IN  IF ~m.nexttable \/ hits = {} THEN m
      ELSE LET row == CHOOSE x \in hits : TRUE
           IN  [nexttable |-> row.nexttable, result |-> row.result]

Metadata == [nexttable : BOOLEAN, result : Nat]
NoMetadata == [nexttable |-> TRUE, result |-> 0]

LEMMA AppliedTyped ==
  ASSUME LoopInv, NEW n \in 1..D, NEW m \in Metadata, NEW k
  PROVE  Applied(n, m, k) \in Metadata
<1> DEFINE hits == Matching(n, m.result, k)
           row == CHOOSE x \in hits : TRUE
<1>1. CASE ~m.nexttable \/ hits = {}
  BY <1>1 DEF Applied
<1>2. CASE m.nexttable /\ hits # {}
  <2>1. row \in hits
    <3> HIDE DEF hits
    <3> QED BY <1>2
  <2>2. row \in rows
    BY <2>1 DEF Matching
  <2>3. PICK x \in rows : x = row
    BY <2>2
  <2>4. x.nexttable \in BOOLEAN /\ x.result \in Nat
    BY <2>3 DEF LoopInv, RowTyped
  <2>5. PICK b, y : b = x.nexttable /\ y = x.result
    OBVIOUS
  <2>6. Applied(n, m, k) = [nexttable |-> b, result |-> y]
    BY <1>2, <2>3, <2>5 DEF Applied
  <2>7. b \in BOOLEAN /\ y \in Nat
    BY <2>4, <2>5, ZenonT(30)
  <2>8. [nexttable |-> b, result |-> y] \in Metadata
    BY <2>7 DEF Metadata
  <2> QED BY <2>6, <2>8
<1>3. QED
  BY <1>1, <1>2

\* The metadata from table to table.
Course(M, k) ==
  /\ M[0] = NoMetadata
  /\ \A l \in 1..D : M[l] = Applied(l, M[l - 1], k)

LEMMA LookupIs ==
  ASSUME LoopInv, NEW k
  PROVE  \E M : Course(M, k) /\ Lookup(k) = M[D].result
<1>1. D \in Nat /\ D >= 1
  BY DigitFacts
<1> DEFINE unfold(s) == [n \in 0..D |-> IF n = 0 THEN NoMetadata ELSE Applied(n, s[n - 1], k)]
<1>2. PICK f \in [0..D -> Metadata] : Course(f, k)
  <2> DEFINE h == [l \in 1..D |-> [v \in Metadata |-> Applied(l, v, k)]]
  <2>1. h \in [1..D -> [Metadata -> Metadata]]
    <3>1. \A l \in 1..D : \A v \in Metadata : Applied(l, v, k) \in Metadata
      BY AppliedTyped
    <3> QED BY <3>1
  <2>2. \A l \in 1..D, v \in Metadata : h[l][v] = Applied(l, v, k)
    OBVIOUS
  <2> HIDE DEF h
  <2>3. PICK S, H : S = Metadata /\ H = [1..D -> [S -> S]]
    OBVIOUS
  <2>4. NoMetadata \in Metadata
    BY DEF NoMetadata, Metadata
  <2>5. NoMetadata \in S /\ h \in H /\ D \in Nat
    BY <1>1, <2>1, <2>3, <2>4
  <2>6. PICK f : Iterated(f, D, S, NoMetadata, h)
    BY <2>3, <2>5, Iterates
  <2>7. f \in [0..D -> Metadata] /\ f[0] = NoMetadata /\ \A l \in 1..D : f[l] = h[l][f[l - 1]]
    BY <2>3, <2>6 DEF Iterated
  <2>8. \A l \in 1..D : l - 1 \in 0..D /\ f[l - 1] \in Metadata
    BY <1>1, <2>7
  <2>9. Course(f, k)
    BY <2>2, <2>7, <2>8 DEF Course
  <2> QED BY <2>7, <2>9
<1>3. f = unfold(f)
  <2>1. \A n \in 0..D : f[n] = unfold(f)[n]
    BY <1>1, <1>2 DEF Course
  <2> QED BY <1>2, <2>1
<1> DEFINE M == CHOOSE s : s = unfold(s)
<1>4. Lookup(k) = M[D].result
  BY DEF Lookup, Applied, NoMetadata
<1>5. M = unfold(M)
  <2> HIDE DEF unfold
  <2> QED BY <1>3
<1> HIDE DEF M
<1>6. Course(M, k)
  <2>1. \A n \in 0..D : M[n] = unfold(M)[n]
    <3> HIDE DEF unfold
    <3> QED BY <1>5
  <2> QED BY <1>1, <2>1 DEF Course
<1>7. QED
  BY <1>4, <1>6

(* After n tables the metadata is the range of the key, or the number of   *)
(* the key's first n digits, whose rows are all there.                     *)
OnTheWay(n, m, k) ==
  \/ ~m.nexttable /\ m.result \in 0..Ends /\ Within(k, k + 1, m.result)
  \/ /\ m.nexttable /\ n < D /\ Full(rows, n + 1, m.result)
     /\ n >= 1 => Leading(k, n) \in DOMAIN pfidx /\ pfidx[Leading(k, n)] = m.result
     /\ n = 0 => m.result = 0

LEMMA DoneIsFull ==
  ASSUME TablesInv, ~clashed, Done
  PROVE  /\ Full(rows, 1, 0)
         /\ \A x \in rows : x.nexttable => x.level < D /\ Full(rows, x.level + 1, x.result)
<1>1. Asked(rows) /\ level = D /\ todo = <<>> /\ D \in Nat /\ DOMAIN todo = {}
  BY DigitFacts DEF TablesInv, Faithful, Done
<1>2. Full(rows, 1, 0)
  BY <1>1 DEF Asked
<1>3. ASSUME NEW x \in rows, x.nexttable
      PROVE  x.level < D /\ Full(rows, x.level + 1, x.result)
  <2>1. x.level < D /\ x.level \in 1..D
    BY <1>1, <1>3 DEF TablesInv, LoopInv, RowTyped
  <2>2. CASE x.level = D - 1
    <3>1. Full(rows, D, x.result) /\ x.level + 1 = D
      BY <1>1, <1>3, <2>2 DEF Asked
    <3> QED BY <2>1, <3>1
  <2>3. CASE x.level < D - 1
    BY <1>1, <1>3, <2>1, <2>3 DEF Asked
  <2> QED BY <1>1, <2>1, <2>2, <2>3
<1>4. QED
  BY <1>2, <1>3

\* The row of the key is the one that its number and digit select.
LEMMA HitIs ==
  ASSUME TablesInv, ~clashed, NEW k \in 0..Max64, NEW n \in 1..D, NEW m,
         OnTheWay(n - 1, m, k), m.nexttable, NEW x \in Matching(n, m.result, k)
  PROVE  /\ x \in rows /\ x.level = n
         /\ x.nexttable => /\ Leading(k, n) \in DOMAIN pfidx
                           /\ pfidx[Leading(k, n)] = x.result
         /\ ~x.nexttable => x.result \in 0..Ends /\ Within(k, k + 1, x.result)
<1>1. /\ x \in rows /\ x.level = n /\ (n > 1 => x.prefix = m.result)
      /\ x.l <= Digit(k, n) /\ Digit(k, n) <= x.r
  BY DEF Matching
<1>2. RowTyped(x) /\ RowTrue(x, pfidx) /\ Numbered /\ RangesHold
  BY <1>1 DEF TablesInv, LoopInv, Faithful
<1>3. PICK P \in 0..(Span[n - 1] - 1) :
         /\ n > 1 => P \in DOMAIN pfidx
         /\ x.prefix = RowNo(pfidx, P, n)
         /\ x.nexttable => /\ x.l = x.r /\ P * B + x.l \in DOMAIN pfidx
                           /\ pfidx[P * B + x.l] = x.result
         /\ ~x.nexttable =>
              /\ x.result \in 0..Ends
              /\ Within(FirstKey(P, x.l, n), FirstKey(P, x.r + 1, n), x.result)
  BY <1>1, <1>2 DEF RowTrue
<1>4. /\ Leading(k, n - 1) \in 0..(Span[n - 1] - 1) /\ Digit(k, n) \in 0..(B - 1)
      /\ FirstKey(Leading(k, n - 1), Digit(k, n), n) <= k
      /\ k <= FirstKey(Leading(k, n - 1), Digit(k, n) + 1, n) - 1
      /\ Leading(k, n) = Leading(k, n - 1) * B + Digit(k, n)
  BY DigitIs
<1>5. n \in Nat /\ n >= 1 /\ D \in Nat /\ B \in Nat
  BY DigitFacts
<1>6. P = Leading(k, n - 1)
  <2>1. CASE n = 1
    <3>1. Span[n - 1] = 1 /\ n - 1 = 0
      BY <2>1, SpanIs
    <3> QED BY <1>4, <3>1
  <2>2. CASE n # 1
    <3>1. n > 1 /\ n - 1 >= 1
      BY <1>5, <2>2
    <3>2. Leading(k, n - 1) \in DOMAIN pfidx /\ pfidx[Leading(k, n - 1)] = m.result
      BY <3>1 DEF OnTheWay
    <3>3. P \in DOMAIN pfidx /\ pfidx[P] = m.result
      BY <1>1, <1>3, <2>2, <3>1 DEF RowNo
    <3> QED BY <1>2, <3>2, <3>3 DEF Numbered
  <2> QED BY <2>1, <2>2
<1>7. PICK d \in 0..(B - 1) : d = Digit(k, n)
  BY <1>4
<1>8. x.l \in 0..(B - 1) /\ x.r \in x.l..(B - 1) /\ x.l <= d /\ d <= x.r
  BY <1>1, <1>2, <1>7 DEF RowTyped
<1>9. ASSUME x.nexttable
      PROVE  Leading(k, n) \in DOMAIN pfidx /\ pfidx[Leading(k, n)] = x.result
  <2>1. x.l = d
    BY <1>3, <1>5, <1>8, <1>9
  <2> QED BY <1>3, <1>4, <1>6, <1>7, <1>9, <2>1
<1>10. ASSUME ~x.nexttable
       PROVE  x.result \in 0..Ends /\ Within(k, k + 1, x.result)
  <2>1. x.result \in 0..Ends /\ Within(FirstKey(P, x.l, n), FirstKey(P, x.r + 1, n), x.result)
    BY <1>3, <1>10
  <2>2. FirstKey(P, x.l, n) <= FirstKey(P, d, n) /\ FirstKey(P, d + 1, n) <= FirstKey(P, x.r + 1, n)
    BY <1>5, <1>8, BlocksRise
  <2>3. /\ FirstKey(P, x.l, n) \in Nat /\ FirstKey(P, d, n) \in Nat
        /\ FirstKey(P, d + 1, n) \in Nat /\ FirstKey(P, x.r + 1, n) \in Nat
    BY <1>5, <1>8, BlockLies
  <2>4. PICK fl, fd, fe, fr \in Nat :
          /\ fl = FirstKey(P, x.l, n) /\ fd = FirstKey(P, d, n)
          /\ fe = FirstKey(P, d + 1, n) /\ fr = FirstKey(P, x.r + 1, n)
    BY <2>3
  <2>5. k \in Nat /\ fl <= fd /\ fe <= fr /\ fd <= k /\ k <= fe - 1
    BY <1>4, <1>6, <1>7, <2>2, <2>4, MaxIs
  <2>6. fl <= k /\ k + 1 <= fr
    BY <2>5
  <2>7. PICK c \in 0..Ends : c = x.result
    BY <2>1
  <2>8. Ends \in Nat /\ \A q \in 0..Ends : RangeAt(q).r \in Nat
    BY <1>2, <2>7, RangeIs
  <2>9. fr - 1 <= RangeAt(c).r /\ \A q \in 0..(c - 1) : RangeAt(q).r < fl
    BY <2>1, <2>4, <2>7 DEF Within
  <2>10. (k + 1) - 1 <= RangeAt(c).r
    BY <2>5, <2>6, <2>8, <2>9
  <2>11. \A q \in 0..(c - 1) : RangeAt(q).r < k
    BY <2>5, <2>6, <2>8, <2>9
  <2> QED BY <2>7, <2>10, <2>11 DEF Within
<1>11. QED
  BY <1>1, <1>9, <1>10

LEMMA AppliedOnTheWay ==
  ASSUME TablesInv, ~clashed, Done, NEW k \in 0..Max64, NEW n \in 1..D, NEW m,
         OnTheWay(n - 1, m, k)
  PROVE  OnTheWay(n, Applied(n, m, k), k)
<1>1. n \in Nat /\ n >= 1 /\ D \in Nat /\ n <= D /\ (n - 1) + 1 = n
  BY DigitFacts
<1>2. CASE ~m.nexttable
  <2>1. Applied(n, m, k) = m
    BY <1>2 DEF Applied
  <2> QED BY <1>2, <2>1 DEF OnTheWay
<1>3. CASE m.nexttable
  <2> DEFINE hits == Matching(n, m.result, k)
             row == CHOOSE x \in hits : TRUE
  <2>1. Full(rows, n, m.result) /\ (n = 1 => m.result = 0)
    BY <1>1, <1>3 DEF OnTheWay
  <2>2. Digit(k, n) \in 0..(B - 1)
    BY DigitIs
  <2>3. PICK x \in rows : /\ x.level = n /\ x.prefix = m.result
                          /\ x.l <= Digit(k, n) /\ Digit(k, n) <= x.r
    BY <2>1, <2>2 DEF Full, Covered
  <2>4. hits # {}
    BY <2>3 DEF Matching
  <2>5. row \in hits
    <3> HIDE DEF hits
    <3> QED BY <2>4
  <2>6. Applied(n, m, k) = [nexttable |-> row.nexttable, result |-> row.result]
    BY <1>3, <2>4 DEF Applied
  <2>7. PICK y \in hits : y = row
    BY <2>5
  <2>8. /\ y \in rows /\ y.level = n
        /\ y.nexttable => /\ Leading(k, n) \in DOMAIN pfidx
                          /\ pfidx[Leading(k, n)] = y.result
        /\ ~y.nexttable => y.result \in 0..Ends /\ Within(k, k + 1, y.result)
    BY <1>3, HitIs
  <2>9. PICK z : z = Applied(n, m, k) /\ z.nexttable = y.nexttable /\ z.result = y.result
    <3> HIDE DEF row
    <3>1. PICK b, r : b = y.nexttable /\ r = y.result
      OBVIOUS
    <3>2. Applied(n, m, k) = [nexttable |-> b, result |-> r]
      BY <2>6, <2>7, <3>1
    <3> QED BY <3>1, <3>2
  <2>10. CASE ~y.nexttable
    BY <2>8, <2>9, <2>10 DEF OnTheWay
  <2>11. CASE y.nexttable
    <3>1. y.level < D /\ Full(rows, y.level + 1, y.result)
      BY <2>8, <2>11, DoneIsFull
    <3> QED BY <1>1, <2>8, <2>9, <2>11, <3>1 DEF OnTheWay
  <2> QED BY <2>10, <2>11
<1>4. QED
  BY <1>2, <1>3

\* The tables place every key.
LEMMA LookupRight ==
  ASSUME TablesInv, ~clashed, Done, NEW k \in 0..Max64
  PROVE  Lookup(k) \in 0..Ends /\ Lookup(k) = Cardinality(RootKeysBelow(k))
<1>1. PICK M : Course(M, k) /\ Lookup(k) = M[D].result
  BY LookupIs DEF TablesInv
<1>2. D \in Nat /\ D >= 1
  BY DigitFacts
<1> DEFINE U == {l \in 0..D : OnTheWay(l, M[l], k)}
<1>3. 0 \in U
  <2>1. M[0].nexttable /\ M[0].result = 0
    BY <1>1 DEF Course, NoMetadata
  <2>2. Full(rows, 1, 0)
    BY DoneIsFull
  <2>3. OnTheWay(0, M[0], k)
    BY <1>2, <2>1, <2>2 DEF OnTheWay
  <2> QED BY <1>2, <2>3
<1>4. ASSUME NEW l \in 1..D, l - 1 \in U PROVE l \in U
  <2>1. OnTheWay(l - 1, M[l - 1], k) /\ M[l] = Applied(l, M[l - 1], k)
    BY <1>1, <1>4 DEF Course
  <2>2. PICK m : m = M[l - 1]
    OBVIOUS
  <2>3. OnTheWay(l, Applied(l, m, k), k)
    BY <2>1, <2>2, AppliedOnTheWay
  <2> QED BY <1>2, <2>1, <2>2, <2>3
<1>5. D \in U
  <2> HIDE DEF U
  <2>1. \A l \in 0..D : l \in U
    BY <1>2, <1>3, <1>4, UpTo
  <2> QED BY <1>2, <2>1
<1>6. PICK m : m = M[D] /\ OnTheWay(D, m, k)
  BY <1>5
<1>7. m.result \in 0..Ends /\ Within(k, k + 1, m.result)
  BY <1>2, <1>6 DEF OnTheWay
<1>8. Cardinality(RootKeysBelow(k)) = m.result
  <2>1. RangesHold
    BY DEF TablesInv, LoopInv
  <2> QED BY <1>7, <2>1, RangeCounts
<1>9. QED
  BY <1>1, <1>6, <1>7, <1>8

-----------------------------------------------------------------------------
(***************************************************************************)
(* The whole way: what leaves the switch, and where to.                    *)
(***************************************************************************)
Arrived ==
  /\ Len(addrs) = Len(rangelist)
  /\ step # "ready" =>
       /\ Done /\ key \in 0..Max64
       /\ ~clashed => fbt_idx[1] = addrs[Cardinality(RootKeysBelow(key)) + 1]
  /\ step = "sent" => packet = [rkey |-> Stag, va |-> Last(fbt_idx)]

PathInv == TablesInv /\ StageInv /\ Arrived

LEMMA PathInvInit == PathInit => PathInv
<1> SUFFICES ASSUME PathInit PROVE PathInv
  OBVIOUS
<1>1. PICK t \in Trees : TablesStart(t.keys) /\ addrs = t.children
  BY DEF PathInit
<1>2. t.keys \in RootKeys /\ Len(t.children) = Len(t.keys) + 1
  BY PathAssumption
<1>3. TablesInv /\ StageInv
  BY <1>1, <1>2, TablesInvInit, StageInit0
<1>4. Len(rangelist) = Len(t.keys) + 1
  <2>1. rangelist = Ranges(t.keys)
    BY <1>1 DEF TablesStart
  <2>2. PICK K : K = t.keys
    OBVIOUS
  <2>3. K \in Seq(0..Max64)
    BY <1>2, <2>2, TablesAssumption
  <2>4. <<Max64>> \in Seq(0..Max64)
    BY MaxIs
  <2>5. Len(<<Max64>> \o K) = Len(K) + 1
    BY <2>3, <2>4
  <2>6. PICK n \in Nat : n = Len(K) + 1
    BY <2>3
  <2>7. PICK f : rangelist = [m \in 1..n |-> f[m]]
    <3>1. rangelist = [m \in 1..n |->
            [l |-> ((<<Max64>> \o K)[m] + 1) % (Max64 + 1),
             r |-> IF m = n THEN Max64 ELSE (<<Max64>> \o K)[m + 1]]]
      BY <2>1, <2>2, <2>5, <2>6 DEF Ranges
    <3>2. rangelist = [m \in 1..n |-> rangelist[m]]
      BY <3>1
    <3> QED BY <3>2
  <2>8. Len(rangelist) = n
    BY <2>6, <2>7
  <2> QED BY <2>2, <2>6, <2>8
<1>5. step = "ready"
  BY DEF PathInit
<1>6. QED
  BY <1>1, <1>2, <1>3, <1>4, <1>5 DEF PathInv, Arrived

\* The tables are written once: nothing changes them after they are done.
LEMMA DoneStays ==
  ASSUME Done, [TablesNext]_tableVars, LoopInv
  PROVE  UNCHANGED tableVars
<1>1. ~(level < D) /\ todo = <<>>
  BY DigitFacts DEF Done
<1>2. ~TablesNext
  BY <1>1 DEF TablesNext, NextRange, ExtendRun, OpenBlock, EndPrefix, NextTable, InLoop
<1>3. QED
  BY <1>2

LEMMA RangesAreFixed ==
  ASSUME [TablesNext]_tableVars
  PROVE  rangelist' = rangelist
BY DEF TablesNext, NextRange, ExtendRun, OpenBlock, EndPrefix, NextTable, tableVars

\* Past the first read neither the ranges nor the key nor the child change.
LEMMA ArrivedStays ==
  ASSUME Arrived, step # "ready", UNCHANGED tableVars, addrs' = addrs, key' = key,
         fbt_idx'[1] = fbt_idx[1], step' = "sent" => packet' = [rkey |-> Stag, va |-> Last(fbt_idx)'],
         step' # "ready"
  PROVE  Arrived'
<1>1. /\ rangelist' = rangelist /\ level' = level /\ todo' = todo /\ clashed' = clashed
  BY DEF tableVars
<1>2. RootKeysBelow(key)' = RootKeysBelow(key)
  BY <1>1 DEF RootKeysBelow, RangeAt
<1>3. /\ Len(addrs) = Len(rangelist) /\ Done /\ key \in 0..Max64
      /\ ~clashed => fbt_idx[1] = addrs[Cardinality(RootKeysBelow(key)) + 1]
  BY DEF Arrived
<1>4. Done'
  BY <1>1, <1>3 DEF Done
<1>5. (~clashed)' => fbt_idx'[1] = addrs'[Cardinality(RootKeysBelow(key)') + 1]
  BY <1>1, <1>2, <1>3
<1>6. Len(addrs)' = Len(rangelist)' /\ key' \in 0..Max64
  BY <1>1, <1>3
<1>7. QED
  BY <1>4, <1>5, <1>6 DEF Arrived

LEMMA FirstReadArrives ==
  ASSUME PathInv, NEW k \in 0..Max64, FirstRead(k)
  PROVE  Arrived'
<1>1. /\ Done /\ key' = k /\ fbt_idx' = <<SetAddr(Lookup(k))>> /\ step' = "thresh"
      /\ UNCHANGED <<rangelist, level, todo, clashed, addrs>>
  BY DEF FirstRead, tableVars
<1>2. Len(addrs) = Len(rangelist) /\ TablesInv
  BY DEF PathInv, Arrived
<1>3. Len(rangelist) \in Nat /\ Ends = Len(rangelist) - 1 /\ addrs \in Seq(Addresses)
  BY DEF PathInv, TablesInv, LoopInv, RangesHold, Ends, StageInv, StageTyped
<1>4. ASSUME ~clashed
      PROVE  fbt_idx'[1] = addrs[Cardinality(RootKeysBelow(k)) + 1]
  <2>1. PICK c \in 0..Ends : c = Lookup(k) /\ c = Cardinality(RootKeysBelow(k))
    BY <1>1, <1>2, <1>4, LookupRight
  <2>2. c + 1 \in DOMAIN addrs
    BY <1>2, <1>3, <2>1
  <2>3. SetAddr(c) = addrs[c + 1]
    BY <2>2 DEF SetAddr
  <2> QED BY <1>1, <2>1, <2>3
<1>5. RootKeysBelow(key)' = RootKeysBelow(k)
  BY <1>1 DEF RootKeysBelow, RangeAt
<1>6. (~clashed)' => fbt_idx'[1] = addrs'[Cardinality(RootKeysBelow(key)') + 1]
  BY <1>1, <1>4, <1>5
<1>7. Done' /\ Len(addrs)' = Len(rangelist)' /\ key' \in 0..Max64 /\ step' # "sent"
  BY <1>1, <1>2 DEF Done
<1>8. QED
  BY <1>6, <1>7 DEF Arrived

LEMMA ArrivedStep ==
  ASSUME PathInv, [PathNext]_pathVars
  PROVE  Arrived'
<1>1. CASE UNCHANGED pathVars
  <2>1. Arrived /\ UNCHANGED <<rangelist, level, todo, clashed, addrs, key, fbt_idx, step, packet>>
    BY <1>1 DEF PathInv, pathVars, tableVars, stageVars
  <2> QED BY <2>1 DEF Arrived, Done, RootKeysBelow, RangeAt
<1>2. CASE WriteTables
  <2>1. /\ TablesNext
        /\ UNCHANGED <<addrs, key, fbt_idx, step, packet>>
    BY <1>2 DEF WriteTables, stageVars
  <2>2. Arrived /\ LoopInv
    BY DEF PathInv, TablesInv
  <2>3. CASE step = "ready"
    <3>1. rangelist' = rangelist /\ Len(addrs) = Len(rangelist)
      BY <2>1, <2>2, RangesAreFixed DEF Arrived
    <3>2. step' = "ready" /\ Len(addrs)' = Len(rangelist)'
      BY <2>1, <2>3, <3>1
    <3> QED BY <3>2 DEF Arrived
  <2>4. CASE step # "ready"
    <3>1. Done
      BY <2>2, <2>4 DEF Arrived
    <3>2. UNCHANGED tableVars
      BY <2>1, <2>2, <3>1, DoneStays
    <3>3. step = "sent" => packet = [rkey |-> Stag, va |-> Last(fbt_idx)]
      BY <2>2 DEF Arrived
    <3>4. Last(fbt_idx)' = Last(fbt_idx)
      BY <2>1 DEF Last
    <3> QED BY <2>1, <2>2, <2>4, <3>2, <3>3, <3>4, ArrivedStays
  <2> QED BY <2>3, <2>4
<1>3. ASSUME NEW k \in 0..Max64, FirstRead(k) PROVE Arrived'
  BY <1>3, FirstReadArrives
<1>4. CASE CompareStages
  <2>1. /\ StageNext /\ UNCHANGED <<tableVars, addrs, packet>>
        /\ fbt_idx \in Seq(Addresses) /\ Len(fbt_idx) >= 1 /\ Arrived
    BY <1>4 DEF CompareStages, PathInv, StageInv, StageTyped
  <2>2. /\ step # "ready" /\ key' = key /\ step' \notin {"ready", "sent"}
        /\ fbt_idx' = fbt_idx \/ \E a : fbt_idx' = Append(fbt_idx, a)
    BY <2>1 DEF StageNext, SetThresh, SetComp, SetResult
  <2>3. fbt_idx'[1] = fbt_idx[1]
    <3>1. ASSUME NEW a PROVE Append(fbt_idx, a)[1] = fbt_idx[1]
      <4>1. PICK s : s = fbt_idx
        OBVIOUS
      <4>2. Len(s) \in Nat /\ 1 \in 1..(Len(s) + 1) /\ 1 # Len(s) + 1
        BY <2>1, <4>1
      <4>3. Append(s, a)[1] = s[1]
        BY <4>2
      <4> QED BY <4>1, <4>3
    <3>2. CASE fbt_idx' = fbt_idx
      BY <3>2
    <3>3. CASE \E a : fbt_idx' = Append(fbt_idx, a)
      <4>1. PICK a : fbt_idx' = Append(fbt_idx, a)
        BY <3>3
      <4> QED BY <3>1, <4>1
    <3> QED BY <2>2, <3>2, <3>3
  <2> QED BY <2>1, <2>2, <2>3, ArrivedStays
<1>5. CASE Depart
  <2>1. /\ step = "done" /\ step' = "sent" /\ packet' = [rkey |-> Stag, va |-> Last(fbt_idx)]
        /\ UNCHANGED <<key, fbt_idx, addrs>> /\ UNCHANGED tableVars /\ Arrived
    BY <1>5 DEF Depart, PathInv
  <2>2. Last(fbt_idx)' = Last(fbt_idx)
    BY <2>1 DEF Last
  <2> QED BY <2>1, <2>2, ArrivedStays
<1>6. QED
  BY <1>1, <1>2, <1>3, <1>4, <1>5 DEF PathNext

\* From the root's child, layer by layer.
LEMMA TreePathIs ==
  ASSUME StageInv, Len(fbt_idx) = Layers + 1, key # 0,
         fbt_idx[1] = addrs[Cardinality(RootKeysBelow(key)) + 1]
  PROVE  TreePath[Layers] = Last(fbt_idx)
<1>1. Layers \in Nat /\ Layers >= 1
  BY StageAssumption
<1> DEFINE here(l, a) == {n \in nodes : n.layer = l /\ n.addr = a}
           next(l, a) == IF here(l, a) = {} THEN a ELSE TreeChild(CHOOSE n \in here(l, a) : TRUE)
           root == addrs[Cardinality(RootKeysBelow(key)) + 1]
           unfold(s) == [l \in 0..Layers |-> IF l = 0 THEN root ELSE next(l, s[l - 1])]
           f == [l \in 0..Layers |-> fbt_idx[l + 1]]
<1>2. \A l \in 1..Layers : fbt_idx[l + 1] = next(l, fbt_idx[l])
  <2>1. LayersFollowTheTree /\ Layer - 1 = Layers
    BY <1>1 DEF StageInv, Layer
  <2>2. ASSUME NEW l, NEW a PROVE Onward(l, a) = next(l, a)
    <3>1. CASE here(l, a) = {}
      BY <3>1 DEF Onward
    <3>2. CASE here(l, a) # {}
      BY <3>2 DEF Onward
    <3> QED BY <3>1, <3>2
  <2>3. \A l \in 1..Layers : fbt_idx[l + 1] = Onward(l, fbt_idx[l])
    BY <2>1, FollowsBy
  <2> HIDE DEF next
  <2> QED BY <2>2, <2>3
<1>3. f[0] = root /\ \A l \in 1..Layers : f[l] = next(l, f[l - 1])
  <2>1. f[0] = root
    BY <1>1
  <2>2. ASSUME NEW l \in 1..Layers PROVE f[l] = next(l, f[l - 1])
    <3>1. l \in 0..Layers /\ l - 1 \in 0..Layers /\ (l - 1) + 1 = l
      BY <1>1
    <3>2. f[l] = fbt_idx[l + 1] /\ f[l - 1] = fbt_idx[l]
      BY <3>1
    <3> HIDE DEF f, next
    <3> QED BY <1>2, <3>2
  <2> HIDE DEF f, next
  <2> QED BY <2>1, <2>2
<1>4. f = unfold(f)
  <2>1. f = [l \in 0..Layers |-> f[l]]
    OBVIOUS
  <2> HIDE DEF f, next, root
  <2>2. \A l \in 0..Layers : f[l] = unfold(f)[l]
    BY <1>1, <1>3
  <2> QED BY <2>1, <2>2
<1>5. TreePath = CHOOSE s : s = unfold(s)
  BY DEF TreePath
<1>6. TreePath = unfold(TreePath)
  <2> HIDE DEF unfold, f
  <2> QED BY <1>4, <1>5
<1>7. TreePath[0] = root /\ \A l \in 1..Layers : TreePath[l] = next(l, TreePath[l - 1])
  <2>1. \A l \in 0..Layers : TreePath[l] = unfold(TreePath)[l]
    <3> HIDE DEF unfold
    <3> QED BY <1>6
  <2> HIDE DEF next, root
  <2> QED BY <1>1, <2>1
<1> HIDE DEF f, next, root, unfold
<1> DEFINE U == {l \in 0..Layers : TreePath[l] = f[l]}
<1>8. Layers \in U
  <2>1. 0 \in U
    BY <1>1, <1>3, <1>7
  <2>2. ASSUME NEW l \in 1..Layers, l - 1 \in U PROVE l \in U
    BY <1>1, <1>3, <1>7, <2>2
  <2> HIDE DEF U
  <2>3. \A l \in 0..Layers : l \in U
    BY <1>1, <2>1, <2>2, UpTo
  <2> QED BY <1>1, <2>3
<1>9. TreePath[Layers] = fbt_idx[Layers + 1]
  BY <1>1, <1>8 DEF f
<1>10. QED
  BY <1>9 DEF Last

(* The path of a read through the switch is an invariant of the whole.     *)
THEOREM PathInvariance == PathSpec => []PathInv
<1>1. PathInit => PathInv
  BY PathInvInit
<1>2. PathInv /\ [PathNext]_pathVars => PathInv'
  <2> SUFFICES ASSUME PathInv, [PathNext]_pathVars PROVE PathInv'
    OBVIOUS
  <2>1. [TablesNext]_tableVars
    BY DEF PathNext, WriteTables, FirstRead, CompareStages, Depart, pathVars
  <2>2. TablesInv' /\ StageInv'
    BY <2>1, TablesInvStep, StageStep DEF PathInv
  <2> QED BY <2>2, ArrivedStep DEF PathInv
<1>3. QED
  BY <1>1, <1>2, PTL DEF PathSpec

(* While no number of a prefix is overwritten, the tables give every key   *)
(* the child whose range it is in (config_table.cpp, Ingress0).            *)
THEOREM KeysReachTheirChild == PathSpec => [](~clashed => EveryKeyReachesItsChild)
<1>1. TablesInv => (~clashed => EveryKeyReachesItsChild)
  BY LookupRight DEF EveryKeyReachesItsChild
<1>2. QED
  BY <1>1, TablesInvariance, PTL

(* A read request leaves the switch for the node the tree search would     *)
(* have come to, with the pool's key (Ingress0, the compare stages and     *)
(* Egress0 of FBT_RDMA.p4).                                                *)
THEOREM ReadsLeaveRight == PathSpec => []ReadsLeaveOnTheTreePath
<1>1. PathInv => ReadsLeaveOnTheTreePath
  <2> SUFFICES ASSUME PathInv, step = "sent", ~clashed, key # 0
               PROVE packet = [rkey |-> Stag, va |-> TreePath[Layers]]
    BY DEF ReadsLeaveOnTheTreePath
  <2>1. /\ packet = [rkey |-> Stag, va |-> Last(fbt_idx)]
        /\ fbt_idx[1] = addrs[Cardinality(RootKeysBelow(key)) + 1]
    BY DEF PathInv, Arrived
  <2>2. StageInv /\ Len(fbt_idx) = Layers + 1
    BY DEF PathInv, StageInv, Counted
  <2>3. TreePath[Layers] = Last(fbt_idx)
    BY <2>1, <2>2, TreePathIs
  <2> QED BY <2>1, <2>3
<1>2. QED
  BY <1>1, PathInvariance, PTL
=============================================================================
