---------------------------- MODULE SwitchTables ----------------------------
(***************************************************************************)
(* The tables of the fat root.  config_table.cpp turns the root's keys     *)
(* into ranges and cuts the ranges into rows of one match table per digit  *)
(* of the key (16 bits a digit in the code); Ingress0 of FBT_RDMA.p4 looks *)
(* a key up digit by digit.  The four copies of the loop in the code are   *)
(* one loop here, with the level as its variable; one turn of it is one    *)
(* step.                                                                   *)
(***************************************************************************)
EXTENDS Integers, FiniteSets, SequencesExt

CONSTANTS
  B,         \* values of a digit; 2^16 in the code
  D,         \* digits of a key, one table each; 4 in the code
  RootKeys   \* the keys the fat root may have been printed with, in order

Span[n \in 0..D] == IF n = 0 THEN 1 ELSE B * Span[n - 1]   \* keys of n digits
Max64 == Span[D] - 1                                       \* UINT64_MAX

ASSUME TablesAssumption ==
  /\ B \in Nat /\ B >= 2
  /\ D \in Nat /\ D >= 1
  /\ \A K \in RootKeys : /\ K \in Seq(0..Max64) /\ K # <<>>
                         /\ \A x, y \in DOMAIN K : x < y => K[x] <= K[y]

VARIABLES
  rangelist,  \* range i is the keys the root's child i is responsible for
  level,      \* the table being written
  todo,       \* prefixes whose rows of this table are still to be written
  i,          \* digit of the inner loop
  j,          \* range of the inner loop, counted from 0 as the rows do
  run,        \* <<l, r>>: digits that share range j and have no row yet
  rows,       \* the tables, as printed
  opened,     \* the worklist of the next table
  curidx,     \* the next number for a prefix
  pfidx,      \* the number of a prefix
  clashed     \* history: a number was overwritten

tableVars == <<rangelist, level, todo, i, j, run, rows, opened, curidx, pfidx, clashed>>

RangeAt(n) == rangelist[n + 1]

\* Range m ends with the m-th key; uint64_t arithmetic wraps around.
Ranges(K) ==
  LET keylist == <<Max64>> \o K
      n == Len(keylist)
  IN  [m \in 1..n |->
         [l |-> (keylist[m] + 1) % (Max64 + 1),
          r |-> IF m = n THEN Max64 ELSE keylist[m + 1]]]

TablesStart(K) ==
  /\ rangelist = Ranges(K)
  /\ level = 1 /\ todo = <<0>> /\ i = 0 /\ j = 0 /\ run = <<>>
  /\ rows = {} /\ opened = <<>>
  /\ curidx = Len(rangelist)
  /\ pfidx = <<>>
  /\ clashed = FALSE

TablesInit == \E K \in RootKeys : TablesStart(K)

Prefix == Head(todo)
Block == Prefix * B + i
BlockLo == Block * Span[D - level]
BlockHi == BlockLo + Span[D - level] - 1

(* A row of table 1 has no prefix to match; the others match its number,   *)
(* as pfidx holds it when the row is printed.                              *)
Row(map, l, r, nexttable, result) ==
  [level |-> level, prefix |-> IF level = 1 THEN 0 ELSE map[Prefix],
   l |-> l, r |-> r, nexttable |-> nexttable, result |-> result]

Flushed == IF run = <<>> THEN rows ELSE rows \cup {Row(pfidx, run[1], run[2], FALSE, j)}

InLoop == todo # <<>> /\ i < B
Behind == RangeAt(j).r < BlockLo
Fits == BlockLo >= RangeAt(j).l /\ BlockHi <= RangeAt(j).r

\* Faulty variant: the printed run is not forgotten.
NextRangeKeepingRun ==
  /\ InLoop /\ Behind
  /\ rows' = Flushed
  /\ run' = run
  /\ j' = CHOOSE m \in j..(Len(rangelist) - 1) :
            /\ RangeAt(m).r >= BlockLo
            /\ \A q \in j..(m - 1) : RangeAt(q).r < BlockLo
  /\ UNCHANGED <<rangelist, level, todo, i, opened, curidx, pfidx, clashed>>

\* The block lies beyond range j: print the run, move on to its range.
NextRange ==
  /\ InLoop /\ Behind
  /\ rows' = Flushed
  /\ run' = <<>>
  /\ j' = CHOOSE m \in j..(Len(rangelist) - 1) :
            /\ RangeAt(m).r >= BlockLo
            /\ \A q \in j..(m - 1) : RangeAt(q).r < BlockLo
  /\ UNCHANGED <<rangelist, level, todo, i, opened, curidx, pfidx, clashed>>

\* The block lies within range j: it joins the run.
ExtendRun ==
  /\ InLoop /\ ~Behind /\ Fits
  /\ run' = IF run = <<>> THEN <<i, i>> ELSE <<run[1], i>>
  /\ i' = i + 1
  /\ UNCHANGED <<rangelist, level, todo, j, rows, opened, curidx, pfidx, clashed>>

(* A range ends inside the block: the block gets a number, and rows of its *)
(* own in the next table.  The map is written before the row is printed.   *)
OpenBlock ==
  /\ InLoop /\ ~Behind /\ ~Fits
  /\ pfidx' = [b \in DOMAIN pfidx \cup {Block} |->
                 IF b = Block THEN curidx ELSE pfidx[b]]
  /\ clashed' = (clashed \/ Block \in DOMAIN pfidx)
  /\ curidx' = curidx + 1
  /\ rows' = Flushed \cup {Row(pfidx', i, i, TRUE, curidx)}
  /\ run' = <<>>
  /\ opened' = Append(opened, Block)
  /\ i' = i + 1
  /\ UNCHANGED <<rangelist, level, todo, j>>

\* Faulty variant: the run that reaches the last digit is not printed.
EndPrefixSilent ==
  /\ todo # <<>> /\ i = B
  /\ rows' = rows
  /\ run' = <<>> /\ i' = 0 /\ j' = 0
  /\ todo' = Tail(todo)
  /\ UNCHANGED <<rangelist, level, opened, curidx, pfidx, clashed>>

\* The inner loop is through: print what is left, take the next prefix.
EndPrefix ==
  /\ todo # <<>> /\ i = B
  /\ rows' = Flushed
  /\ run' = <<>> /\ i' = 0 /\ j' = 0
  /\ todo' = Tail(todo)
  /\ UNCHANGED <<rangelist, level, opened, curidx, pfidx, clashed>>

NextTable ==
  /\ todo = <<>> /\ level < D
  /\ level' = level + 1
  /\ todo' = opened
  /\ opened' = <<>>
  /\ UNCHANGED <<rangelist, i, j, run, rows, curidx, pfidx, clashed>>

TablesNext == NextRange \/ ExtendRun \/ OpenBlock \/ EndPrefix \/ NextTable

TablesSpec == TablesInit /\ [][TablesNext]_tableVars

-----------------------------------------------------------------------------
(* Ingress0.                                                               *)
Digit(k, n) == (k \div Span[D - n]) % B

Matching(n, result, k) ==
  {row \in rows : /\ row.level = n
                  /\ n > 1 => row.prefix = result
                  /\ row.l <= Digit(k, n) /\ Digit(k, n) <= row.r}

\* A table is applied while nexttable is 1; a miss changes nothing.
Lookup(k) ==
  LET meta[n \in 0..D] ==
        IF n = 0 THEN [nexttable |-> TRUE, result |-> 0]
        ELSE LET m    == meta[n - 1]
                 hits == Matching(n, m.result, k)
             IN  IF ~m.nexttable \/ hits = {} THEN m
                 ELSE LET row == CHOOSE x \in hits : TRUE
                      IN  [nexttable |-> row.nexttable, result |-> row.result]
  IN  meta[D].result

-----------------------------------------------------------------------------
(* Properties.                                                             *)
Done == todo = <<>> /\ level = D

RootKeysBelow(k) == {n \in 0..(Len(rangelist) - 2) : RangeAt(n).r < k}

(* The tables give every key the child whose range it is in: the number of *)
(* root keys below it (config_table.cpp, set_result_table_1 to 4).  A read *)
(* the switch cannot place goes to address 0.                              *)
EveryKeyReachesItsChild ==
  Done => \A k \in 0..Max64 : Lookup(k) = Cardinality(RootKeysBelow(k))

(* Rows of one table never compete for a key, and the last table leaves    *)
(* nothing open: it has no next table (set_result_action_4).               *)
RowsUnambiguous ==
  /\ ~clashed => \A x, y \in rows :
       x # y /\ x.level = y.level /\ x.prefix = y.prefix => x.r < y.l \/ y.r < x.l
  /\ \A x \in rows : x.level = D => ~x.nexttable
=============================================================================
