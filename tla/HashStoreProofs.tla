--------------------------- MODULE HashStoreProofs ---------------------------
(***************************************************************************)
(* The in-memory stores, with calls that overlap as they may: what was     *)
(* given back is used or given back again only by calls that a delete or   *)
(* an update of their key overlapped, and what a call has acknowledged is  *)
(* in the record of its key unless a delete or another first writer ran.   *)
(***************************************************************************)
EXTENDS HashStore, TLAPS

FieldSet == {Fields[i] : i \in DOMAIN Fields}
Places == {"idle", "get", "publish", "add", "swap", "missing", "release",
           "entries", "copy", "purge"}
Jobs == [op : Ops, key : Keys, i : 1..(Len(Fields) + 1),
         table : AllRecords \cup {None}, held : SUBSET AllStrings]

HashTyped ==
  /\ key_table \in [Keys -> AllRecords \cup {None}]
  /\ record \in [AllRecords -> [FieldSet -> AllStrings \cup {None}]]
  /\ pc \in [Threads -> Places]
  /\ calls \in [Threads -> 0..MaxOps]
  /\ met \in [Threads -> SUBSET Ops]
  /\ job \in [Threads -> Jobs \cup {NoJob}]
  /\ \A t \in Threads : calls[t] >= 1 => job[t] \in Jobs
  /\ \A t \in Threads : pc[t] # "idle" => calls[t] >= 1 /\ job[t].i <= Len(Fields)
  /\ \A t \in Threads : pc[t] \notin {"idle", "get", "publish"} => job[t].table \in AllRecords

Step(t) ==
  \/ Call(t) \/ FindRecord(t) \/ Publish(t) \/ AddField(t) \/ SwapField(t)
  \/ AddMissing(t) \/ DeleteOld(t) \/ Entries(t) \/ CopyOut(t) \/ DeleteRecord(t)

LEMMA FieldFacts ==
  /\ Len(Fields) \in Nat /\ Len(Fields) >= 1 /\ DOMAIN Fields = 1..Len(Fields)
  /\ \A i \in 1..Len(Fields) : Fields[i] \in FieldSet
<1>1. Fields # <<>> /\ Fields \in Seq(FieldSet)
  BY HashAssumption DEF FieldSet
<1>2. Len(Fields) \in Nat /\ Len(Fields) >= 1 /\ DOMAIN Fields = 1..Len(Fields)
  BY <1>1
<1>3. QED
  BY <1>2 DEF FieldSet

\* Pairs are no triples, and neither is the null pointer.
LEMMA KindsDiffer ==
  /\ \A r \in AllRecords, s \in AllStrings : r # s
  /\ \A r \in AllRecords : r # None
  /\ \A s \in AllStrings : s # None
<1>1. \A r \in AllRecords, s \in AllStrings : r # s
  <2> TAKE r \in AllRecords, s \in AllStrings
  <2>1. DOMAIN r = 1..2
    BY DEF AllRecords
  <2>2. DOMAIN s = 1..3
    BY DEF AllStrings
  <2>3. 3 \in 1..3 /\ 3 \notin 1..2
    OBVIOUS
  <2> QED BY <2>1, <2>2, <2>3
<1>2. QED
  BY <1>1, HashAssumption

\* What a thread at work has in its hands.
LEMMA AtWork ==
  ASSUME HashTyped, NEW t \in Threads, pc[t] # "idle"
  PROVE  /\ calls[t] \in 1..MaxOps /\ job[t] \in Jobs /\ job[t].i \in 1..Len(Fields)
         /\ job[t].op \in Ops /\ job[t].key \in Keys /\ job[t].held \in SUBSET AllStrings
         /\ Field(t) \in FieldSet /\ Me(t) \in AllRecords /\ String(t) \in AllStrings
         /\ pc[t] \notin {"get", "publish"} =>
              job[t].table \in AllRecords /\ Slot(t) \in AllStrings \cup {None}
<1>1. calls[t] \in 1..MaxOps /\ job[t] \in Jobs /\ job[t].i \in 1..Len(Fields)
  <2>1. MaxOps \in Nat /\ calls[t] \in 0..MaxOps /\ calls[t] >= 1
    BY HashAssumption DEF HashTyped
  <2>2. job[t] \in Jobs
    BY <2>1 DEF HashTyped
  <2>3. job[t].i \in 1..(Len(Fields) + 1) /\ job[t].i <= Len(Fields)
    BY <2>2 DEF HashTyped, Jobs
  <2> QED BY <2>1, <2>2, <2>3, FieldFacts
<1>2. Field(t) \in FieldSet
  BY <1>1, FieldFacts DEF Field
<1>3. Me(t) \in AllRecords /\ String(t) \in AllStrings
  BY <1>1 DEF Me, String, AllRecords, AllStrings
<1>4. pc[t] \notin {"get", "publish"} =>
        job[t].table \in AllRecords /\ Slot(t) \in AllStrings \cup {None}
  BY <1>2 DEF HashTyped, Slot
<1>5. QED
  BY <1>1, <1>2, <1>3, <1>4 DEF Jobs

LEMMA HashTypedInit == HashInit => HashTyped
<1> SUFFICES ASSUME HashInit PROVE HashTyped
  OBVIOUS
<1>1. record \in [AllRecords -> [FieldSet -> AllStrings \cup {None}]]
  BY DEF HashInit, FieldSet
<1>2. QED
  BY <1>1, HashAssumption DEF HashInit, HashTyped, Places

\* A step moves its own thread only.
LEMMA OthersStay ==
  ASSUME HashTyped, NEW t \in Threads, Step(t)
  PROVE  \A u \in Threads \ {t} : pc'[u] = pc[u] /\ job'[u] = job[u] /\ calls'[u] = calls[u]
<1>1. (\E l : pc' = [pc EXCEPT ![t] = l]) \/ pc' = pc
  BY DEF Step, Call, FindRecord, Publish, AddField, SwapField, AddMissing, DeleteOld,
     Entries, CopyOut, DeleteRecord, Goto, Advance
<1>2. (\E j : job' = [job EXCEPT ![t] = j]) \/ job' = job
  <2>1. CASE Call(t)
    BY <2>1 DEF Call
  <2>2. CASE FindRecord(t) \/ Publish(t) \/ Entries(t)
    BY <2>2 DEF FindRecord, Publish, Entries
  <2>3. CASE AddField(t) \/ SwapField(t) \/ AddMissing(t)
    BY <2>3 DEF AddField, SwapField, AddMissing, Advance
  <2>4. CASE DeleteOld(t) \/ CopyOut(t) \/ DeleteRecord(t)
    BY <2>4 DEF DeleteOld, CopyOut, DeleteRecord
  <2> QED BY <2>1, <2>2, <2>3, <2>4 DEF Step
<1>3. (\E n : calls' = [calls EXCEPT ![t] = n]) \/ calls' = calls
  BY DEF Step, Call, FindRecord, Publish, AddField, SwapField, AddMissing, DeleteOld,
     Entries, CopyOut, DeleteRecord
<1>4. QED
  BY <1>1, <1>2, <1>3 DEF HashTyped

\* A step of a thread at work, in general.
LEMMA TypedMove ==
  ASSUME HashTyped, NEW t \in Threads, pc[t] # "idle",
         key_table' \in [Keys -> AllRecords \cup {None}],
         record' \in [AllRecords -> [FieldSet -> AllStrings \cup {None}]],
         calls' = calls, met' = met, NEW l \in Places, pc' = [pc EXCEPT ![t] = l],
         NEW j \in Jobs, job' = [job EXCEPT ![t] = j],
         l # "idle" => j.i <= Len(Fields),
         l \notin {"idle", "get", "publish"} => j.table \in AllRecords
  PROVE  HashTyped'
<1>1. pc'[t] = l /\ job'[t] = j /\ \A u \in Threads \ {t} : pc'[u] = pc[u] /\ job'[u] = job[u]
  BY DEF HashTyped
<1>2. pc' \in [Threads -> Places] /\ job' \in [Threads -> Jobs \cup {NoJob}]
  BY DEF HashTyped
<1>3. \A u \in Threads : calls'[u] >= 1 => job'[u] \in Jobs
  BY <1>1 DEF HashTyped
<1>4. \A u \in Threads : pc'[u] # "idle" => calls'[u] >= 1 /\ job'[u].i <= Len(Fields)
  BY <1>1 DEF HashTyped
<1>5. \A u \in Threads : pc'[u] \notin {"idle", "get", "publish"} => job'[u].table \in AllRecords
  BY <1>1 DEF HashTyped
<1>6. calls' \in [Threads -> 0..MaxOps] /\ met' \in [Threads -> SUBSET Ops]
  BY DEF HashTyped
<1>7. QED
  BY <1>2, <1>3, <1>4, <1>5, <1>6 DEF HashTyped

LEMMA StringsTyped ==
  ASSUME HashTyped, NEW r \in AllRecords
  PROVE  Strings(r) \subseteq AllStrings
<1>1. \A i \in DOMAIN Fields : record[r][Fields[i]] \in AllStrings \cup {None}
  BY FieldFacts DEF HashTyped
<1>2. QED
  BY <1>1 DEF Strings

LEMMA PutTyped ==
  ASSUME HashTyped, NEW t \in Threads, pc[t] \notin {"idle", "get", "publish"}, Put(t)
  PROVE  record' \in [AllRecords -> [FieldSet -> AllStrings \cup {None}]]
<1>1. job[t].table \in AllRecords /\ Field(t) \in FieldSet /\ String(t) \in AllStrings
  BY AtWork
<1>2. PICK r \in AllRecords, f \in FieldSet, s \in AllStrings :
        r = job[t].table /\ f = Field(t) /\ s = String(t)
  BY <1>1
<1>3. record' = [record EXCEPT ![r][f] = s]
  BY <1>2 DEF Put
<1>4. QED
  BY <1>3 DEF HashTyped

\* The loop goes on with the next field.
LEMMA NextField ==
  ASSUME NEW r \in Jobs, r.i \in 1..Len(Fields)
  PROVE  LET j == [r EXCEPT !.i = @ + 1]
             e == [j EXCEPT !.held = {}]
         IN  /\ j \in Jobs /\ e \in Jobs /\ j.table = r.table /\ e.table = r.table
             /\ r.i < Len(Fields) => j.i <= Len(Fields) /\ e.i <= Len(Fields)
<1>1. r.i + 1 \in 1..(Len(Fields) + 1) /\ (r.i < Len(Fields) => r.i + 1 <= Len(Fields))
  BY FieldFacts
<1> DEFINE j == [r EXCEPT !.i = @ + 1]
           e == [j EXCEPT !.held = {}]
<1>2. j \in Jobs /\ j.i = r.i + 1 /\ j.table = r.table
  BY <1>1 DEF Jobs
<1> HIDE DEF j
<1>3. e \in Jobs /\ e.i = j.i /\ e.table = j.table
  BY <1>2 DEF Jobs
<1>4. QED
  BY <1>1, <1>2, <1>3 DEF j

LEMMA HashTypedStep ==
  ASSUME HashTyped, NEW t \in Threads, Step(t)
  PROVE  HashTyped'
<1>1. pc[t] # "idle" =>
        /\ calls[t] \in 1..MaxOps /\ job[t] \in Jobs /\ job[t].i \in 1..Len(Fields)
        /\ job[t].key \in Keys /\ job[t].held \in SUBSET AllStrings
        /\ pc[t] \notin {"get", "publish"} =>
             job[t].table \in AllRecords /\ Slot(t) \in AllStrings \cup {None}
  BY AtWork
<1>2. /\ key_table \in [Keys -> AllRecords \cup {None}]
      /\ record \in [AllRecords -> [FieldSet -> AllStrings \cup {None}]]
      /\ pc = [pc EXCEPT ![t] = pc[t]] /\ job = [job EXCEPT ![t] = job[t]]
  BY DEF HashTyped
<1>3. Len(Fields) \in Nat
  BY FieldFacts
<1>4. ASSUME pc[t] # "idle"
      PROVE  LET j == [job[t] EXCEPT !.i = @ + 1]
             IN  /\ j \in Jobs /\ [j EXCEPT !.held = {}] \in Jobs
                 /\ j.table = job[t].table /\ [j EXCEPT !.held = {}].table = job[t].table
                 /\ job[t].i < Len(Fields) =>
                      j.i <= Len(Fields) /\ [j EXCEPT !.held = {}].i <= Len(Fields)
  BY <1>1, <1>4, NextField
<1>5. CASE Call(t)
  <2>1. PICK op \in Ops, k \in Keys :
          job' = [job EXCEPT ![t] =
            [op |-> op, key |-> k, i |-> 1, table |-> None, held |-> {}]]
    BY <1>5 DEF Call
  <2>2. [op |-> op, key |-> k, i |-> 1, table |-> None, held |-> {}] \in Jobs
    BY <1>3 DEF Jobs
  <2>3. /\ calls[t] < MaxOps /\ calls' = [calls EXCEPT ![t] = @ + 1]
        /\ pc' = [pc EXCEPT ![t] = "get"] /\ UNCHANGED <<key_table, record>>
    BY <1>5 DEF Call, Goto
  <2>4. /\ calls' \in [Threads -> 0..MaxOps] /\ pc' \in [Threads -> Places]
        /\ job' \in [Threads -> Jobs \cup {NoJob}]
    BY <2>1, <2>2, <2>3, HashAssumption DEF HashTyped, Places
  <2>5. job'[t] \in Jobs /\ job'[t].i = 1 /\ pc'[t] = "get" /\ calls'[t] >= 1
    BY <2>1, <2>2, <2>3 DEF HashTyped
  <2>6. \A u \in Threads \ {t} : pc'[u] = pc[u] /\ job'[u] = job[u] /\ calls'[u] = calls[u]
    BY OthersStay
  <2>7. met' \in [Threads -> SUBSET Ops]
    <3>1. PICK o \in Ops, x \in Keys :
            met' = [u \in Threads |->
              IF u = t THEN {job[w].op : w \in {w \in Threads : OnKey(w, x)}}
              ELSE IF OnKey(u, x) THEN met[u] \cup {o} ELSE met[u]]
      BY <1>5 DEF Call
    <3>2. \A w \in Threads : OnKey(w, x) => job[w].op \in Ops
      BY AtWork DEF OnKey
    <3>3. \A u \in Threads : met[u] \in SUBSET Ops
      BY DEF HashTyped
    <3> QED BY <3>1, <3>2, <3>3
  <2> QED BY <2>3, <2>4, <2>5, <2>6, <2>7, FieldFacts DEF HashTyped
<1>6. CASE FindRecord(t)
  <2> DEFINE k == job[t].key
             l == CASE key_table[k] = None ->
                         IF job[t].op \in {"insert", "update"} THEN "publish" ELSE "idle"
                    [] OTHER ->
                         CASE job[t].op = "insert" -> "add" [] job[t].op = "update" -> "swap"
                           [] OTHER -> "entries"
             j == [job[t] EXCEPT !.table = key_table[k]]
  <2>1. /\ pc[t] = "get" /\ job' = [job EXCEPT ![t] = j] /\ pc' = [pc EXCEPT ![t] = l]
        /\ UNCHANGED <<record, calls, met>>
        /\ key_table' = IF job[t].op = "delete" THEN [key_table EXCEPT ![k] = None] ELSE key_table
    BY <1>6 DEF FindRecord, Goto
  <2>2. key_table' \in [Keys -> AllRecords \cup {None}]
    BY <1>2, <2>1
  <2>3. key_table[k] \in AllRecords \cup {None}
    BY <1>1, <1>2, <2>1
  <2>4. j \in Jobs /\ j.i <= Len(Fields) /\ j.table = key_table[k]
    BY <1>1, <1>3, <2>1, <2>3 DEF Jobs
  <2>5. job[t].op \in {"insert", "update", "read", "delete"}
    BY <1>1, <2>1, HashAssumption DEF Jobs
  <2>6. l \in Places /\ (l \notin {"idle", "get", "publish"} => key_table[k] \in AllRecords)
    BY <2>3, <2>5 DEF Places
  <2> HIDE DEF l, j
  <2> QED BY <1>2, <2>1, <2>2, <2>4, <2>6, TypedMove
<1>7. CASE Publish(t)
  <2>1. Me(t) \in AllRecords
    BY <1>7, AtWork DEF Publish
  <2>2. PICK j : j = [job[t] EXCEPT !.table = Me(t)]
    OBVIOUS
  <2>3. /\ pc[t] = "publish" /\ job' = [job EXCEPT ![t] = j] /\ pc' = [pc EXCEPT ![t] = "add"]
        /\ UNCHANGED <<record, calls, met>>
        /\ key_table' = [key_table EXCEPT ![job[t].key] = IF @ = None THEN Me(t) ELSE @]
    BY <1>7, <2>2 DEF Publish, Goto
  <2>4. key_table' \in [Keys -> AllRecords \cup {None}]
    BY <1>2, <2>1, <2>3
  <2>5. j \in Jobs /\ j.i <= Len(Fields) /\ j.table \in AllRecords
    BY <1>1, <1>3, <2>1, <2>2, <2>3 DEF Jobs
  <2> QED BY <1>2, <2>3, <2>4, <2>5, TypedMove DEF Places
<1>8. CASE AddField(t) \/ SwapField(t) \/ AddMissing(t)
  <2>1. pc[t] \in {"add", "swap", "missing"} /\ UNCHANGED <<key_table, calls, met>>
    BY <1>8 DEF AddField, SwapField, AddMissing
  <2>2. record' \in [AllRecords -> [FieldSet -> AllStrings \cup {None}]]
    BY <1>2, <1>8, <2>1, PutTyped DEF AddField, SwapField, AddMissing
  <2>3. ASSUME NEW again \in {"add", "swap"}, Advance(t, again) PROVE HashTyped'
    <3>1. PICK j : j = [job[t] EXCEPT !.i = @ + 1]
      OBVIOUS
    <3>2. PICK l : l = IF job[t].i < Len(Fields) THEN again ELSE "idle"
      OBVIOUS
    <3>3. job' = [job EXCEPT ![t] = j] /\ pc' = [pc EXCEPT ![t] = l]
      BY <2>3, <3>1, <3>2 DEF Advance, Goto
    <3> QED BY <1>1, <1>2, <1>4, <2>1, <2>2, <3>1, <3>2, <3>3, TypedMove DEF Places
  <2>4. ASSUME NEW l \in {"idle", "missing"}, Goto(t, l), UNCHANGED job PROVE HashTyped'
    <3>1. /\ pc' = [pc EXCEPT ![t] = l] /\ job' = [job EXCEPT ![t] = job[t]]
          /\ l \in Places /\ l \notin {"get", "publish"}
      BY <1>2, <2>4 DEF Goto, Places
    <3>2. job[t] \in Jobs /\ job[t].i <= Len(Fields) /\ job[t].table \in AllRecords
      BY <1>1, <1>3, <2>1
    <3> QED BY <1>2, <2>1, <2>2, <3>1, <3>2, TypedMove
  <2>5. ASSUME Slot(t) # None, Goto(t, "release"), job' = [job EXCEPT ![t].held = {Slot(t)}]
        PROVE  HashTyped'
    <3>1. PICK j : j = [job[t] EXCEPT !.held = {Slot(t)}]
      OBVIOUS
    <3>2. j \in Jobs /\ j.i <= Len(Fields) /\ j.table \in AllRecords
      BY <1>1, <2>1, <2>5, <3>1 DEF Jobs
    <3> QED BY <1>2, <2>1, <2>2, <2>5, <3>1, <3>2, TypedMove DEF Places, Goto
  <2> QED BY <1>8, <2>3, <2>4, <2>5 DEF AddField, SwapField, AddMissing
<1>9. CASE DeleteOld(t)
  <2>1. PICK j : j = [[job[t] EXCEPT !.i = @ + 1] EXCEPT !.held = {}]
    OBVIOUS
  <2>2. PICK l : l = IF job[t].i < Len(Fields) THEN "swap" ELSE "idle"
    OBVIOUS
  <2>3. /\ pc[t] = "release" /\ UNCHANGED <<key_table, record, calls, met>>
        /\ pc' = [pc EXCEPT ![t] = l] /\ job' = [job EXCEPT ![t] = j]
    BY <1>9, <2>1, <2>2 DEF DeleteOld, Goto
  <2> QED BY <1>1, <1>2, <1>4, <2>1, <2>2, <2>3, TypedMove DEF Places
<1>10. CASE Entries(t)
  <2>1. PICK j : j = [job[t] EXCEPT !.held = Strings(job[t].table)]
    OBVIOUS
  <2>2. /\ pc[t] = "entries" /\ UNCHANGED <<key_table, record, calls, met>>
        /\ pc' = [pc EXCEPT ![t] = IF job[t].op = "read" THEN "copy" ELSE "purge"]
        /\ job' = [job EXCEPT ![t] = j]
    BY <1>10, <2>1 DEF Entries, Goto
  <2>3. j \in Jobs /\ j.i <= Len(Fields) /\ j.table \in AllRecords
    <3>1. Strings(job[t].table) \subseteq AllStrings
      BY <1>1, <2>2, StringsTyped
    <3> QED BY <1>1, <2>1, <2>2, <3>1 DEF Jobs
  <2> QED BY <1>2, <2>2, <2>3, TypedMove DEF Places
<1>11. CASE CopyOut(t) \/ DeleteRecord(t)
  BY <1>1, <1>2, <1>11, TypedMove DEF CopyOut, DeleteRecord, Places, Goto
<1>12. QED
  BY <1>5, <1>6, <1>7, <1>8, <1>9, <1>10, <1>11 DEF Step


-----------------------------------------------------------------------------
(***************************************************************************)
(* Who is at work, and with whom: an operation goes its own way through    *)
(* the steps, and calls that overlap on a key have met.                    *)
(***************************************************************************)
Writers == {"insert", "update"}

Orderly ==
  \A t \in Threads :
    /\ pc[t] \in {"publish", "add"} => job[t].op \in Writers
    /\ pc[t] \in {"swap", "missing", "release"} => job[t].op = "update"
    /\ pc[t] = "entries" => job[t].op \in {"read", "delete"}
    /\ pc[t] = "copy" => job[t].op = "read"
    /\ pc[t] = "purge" => job[t].op = "delete"

Overlapping == \A t, u \in Threads :
  t # u /\ pc[t] # "idle" /\ pc[u] # "idle" /\ job[t].key = job[u].key => job[u].op \in met[t]

LEMMA OrderlyInit == HashInit => Orderly /\ Overlapping
  BY DEF HashInit, Orderly, Overlapping

\* A step on a record: where it leads, and what it leaves.
Follows == [l \in {"add", "swap", "missing", "release", "entries", "copy", "purge"} |->
  CASE l = "add" -> {"add", "idle"} [] l = "swap" -> {"missing", "release"}
    [] l \in {"missing", "release"} -> {"swap", "idle"} [] l = "entries" -> {"copy", "purge"}
    [] l \in {"copy", "purge"} -> {"idle"}]

Works(t) ==
  /\ pc[t] \notin {"idle", "get", "publish"}
  /\ pc'[t] \in Follows[pc[t]]
  /\ pc'[t] = "copy" => job[t].op = "read"
  /\ pc'[t] = "purge" => job[t].op # "read"
  /\ job'[t].op = job[t].op /\ job'[t].key = job[t].key /\ job'[t].table = job[t].table
  /\ UNCHANGED <<key_table, issued, calls, met>>

LEMMA WorkIs ==
  ASSUME HashTyped, NEW t \in Threads, Step(t)
  PROVE  Call(t) \/ FindRecord(t) \/ Publish(t) \/ Works(t)
<1>1. pc[t] # "idle" => job[t] \in Jobs
  BY AtWork
<1>2. /\ Follows["add"] = {"add", "idle"} /\ Follows["swap"] = {"missing", "release"}
      /\ Follows["missing"] = {"swap", "idle"} /\ Follows["release"] = {"swap", "idle"}
      /\ Follows["entries"] = {"copy", "purge"} /\ Follows["copy"] = {"idle"}
      /\ Follows["purge"] = {"idle"}
  BY DEF Follows
<1>3. CASE AddField(t)
  <2>1. pc[t] = "add" /\ UNCHANGED <<key_table, issued, calls, met>> /\ job[t] \in Jobs
    BY <1>1, <1>3 DEF AddField
  <2>2. \/ Advance(t, "add") \/ (Goto(t, "idle") /\ UNCHANGED job)
    BY <1>3 DEF AddField
  <2>3. /\ job'[t].op = job[t].op /\ job'[t].key = job[t].key /\ job'[t].table = job[t].table
        /\ pc'[t] \in {"add", "idle"}
    BY <2>1, <2>2 DEF Advance, Goto, Jobs, HashTyped
  <2> QED BY <1>2, <2>1, <2>3 DEF Works
<1>4. CASE SwapField(t)
  <2>1. pc[t] = "swap" /\ UNCHANGED <<key_table, issued, calls, met>> /\ job[t] \in Jobs
    BY <1>1, <1>4 DEF SwapField
  <2>2. \/ Goto(t, "missing") /\ UNCHANGED job
        \/ Goto(t, "release") /\ job' = [job EXCEPT ![t].held = {Slot(t)}]
    BY <1>4 DEF SwapField
  <2>3. /\ job'[t].op = job[t].op /\ job'[t].key = job[t].key /\ job'[t].table = job[t].table
        /\ pc'[t] \in {"missing", "release"}
    BY <2>1, <2>2 DEF Goto, Jobs, HashTyped
  <2> QED BY <1>2, <2>1, <2>3 DEF Works
<1>5. CASE AddMissing(t)
  <2>1. pc[t] = "missing" /\ UNCHANGED <<key_table, issued, calls, met>> /\ job[t] \in Jobs
    BY <1>1, <1>5 DEF AddMissing
  <2>2. Advance(t, "swap")
    BY <1>5 DEF AddMissing
  <2>3. /\ job'[t].op = job[t].op /\ job'[t].key = job[t].key /\ job'[t].table = job[t].table
        /\ pc'[t] \in {"swap", "idle"}
    BY <2>1, <2>2 DEF Advance, Goto, Jobs, HashTyped
  <2> QED BY <1>2, <2>1, <2>3 DEF Works
<1>6. CASE DeleteOld(t)
  <2>1. pc[t] = "release" /\ UNCHANGED <<key_table, issued, calls, met>> /\ job[t] \in Jobs
    BY <1>1, <1>6 DEF DeleteOld
  <2>2. /\ job'[t].op = job[t].op /\ job'[t].key = job[t].key /\ job'[t].table = job[t].table
        /\ pc'[t] \in {"swap", "idle"}
    BY <1>6, <2>1 DEF DeleteOld, Goto, Jobs, HashTyped
  <2> QED BY <1>2, <2>1, <2>2 DEF Works
<1>7. CASE Entries(t)
  <2>1. pc[t] = "entries" /\ UNCHANGED <<key_table, issued, calls, met>> /\ job[t] \in Jobs
    BY <1>1, <1>7 DEF Entries
  <2>2. /\ job'[t].op = job[t].op /\ job'[t].key = job[t].key /\ job'[t].table = job[t].table
        /\ pc'[t] = IF job[t].op = "read" THEN "copy" ELSE "purge"
    BY <1>7, <2>1 DEF Entries, Goto, Jobs, HashTyped
  <2> QED BY <1>2, <2>1, <2>2 DEF Works
<1>8. CASE CopyOut(t) \/ DeleteRecord(t)
  <2>1. /\ pc[t] \in {"copy", "purge"} /\ UNCHANGED <<key_table, issued, calls, job, met>>
        /\ pc'[t] = "idle"
    BY <1>8 DEF CopyOut, DeleteRecord, Goto, HashTyped
  <2> QED BY <1>2, <2>1 DEF Works
<1>9. QED
  BY <1>3, <1>4, <1>5, <1>6, <1>7, <1>8 DEF Step

\* A lookup goes where the operation takes it.
LEMMA FindLeads ==
  ASSUME HashTyped, NEW t \in Threads, FindRecord(t)
  PROVE  /\ pc[t] = "get" /\ UNCHANGED <<record, freed, bad, calls, issued, met>>
         /\ job'[t].op = job[t].op /\ job'[t].key = job[t].key
         /\ job'[t].table = key_table[job[t].key] /\ job'[t].i = job[t].i
         /\ key_table' = IF job[t].op = "delete" THEN [key_table EXCEPT ![job[t].key] = None]
                         ELSE key_table
         /\ \/ /\ key_table[job[t].key] = None
               /\ \/ job[t].op \in Writers /\ pc'[t] = "publish"
                  \/ job[t].op \in {"read", "delete"} /\ pc'[t] = "idle"
            \/ /\ key_table[job[t].key] # None
               /\ \/ job[t].op = "insert" /\ pc'[t] = "add"
                  \/ job[t].op = "update" /\ pc'[t] = "swap"
                  \/ job[t].op \in {"read", "delete"} /\ pc'[t] = "entries"
<1> DEFINE k == job[t].key
<1>1. /\ pc[t] = "get" /\ job' = [job EXCEPT ![t].table = key_table[k]]
      /\ key_table' = IF job[t].op = "delete" THEN [key_table EXCEPT ![k] = None] ELSE key_table
      /\ UNCHANGED <<record, freed, bad, calls, issued, met>>
  BY DEF FindRecord
<1>2. job[t] \in Jobs /\ job[t].op \in {"insert", "update", "read", "delete"}
  BY <1>1, AtWork, HashAssumption
<1>3. /\ job'[t].op = job[t].op /\ job'[t].key = k /\ job'[t].table = key_table[k]
      /\ job'[t].i = job[t].i
  BY <1>1, <1>2 DEF Jobs, HashTyped
<1>4. pc'[t] = CASE key_table[k] = None ->
                      IF job[t].op \in {"insert", "update"} THEN "publish" ELSE "idle"
                 [] OTHER ->
                      CASE job[t].op = "insert" -> "add" [] job[t].op = "update" -> "swap"
                        [] OTHER -> "entries"
  BY DEF FindRecord, Goto, HashTyped
<1>5. QED
  BY <1>1, <1>2, <1>3, <1>4 DEF Writers

\* A new record, and where it goes.
LEMMA Publishes ==
  ASSUME HashTyped, NEW t \in Threads, Publish(t), NEW r, r = Me(t)
  PROVE  /\ pc[t] = "publish" /\ pc'[t] = "add" /\ UNCHANGED <<record, freed, bad, calls, issued, met>>
         /\ job'[t].op = job[t].op /\ job'[t].key = job[t].key /\ job'[t].i = job[t].i
         /\ job'[t].table = r
         /\ job[t].key \in Keys /\ r \in AllRecords /\ r # None
         /\ key_table' = [key_table EXCEPT ![job[t].key] = IF @ = None THEN r ELSE @]
         /\ \A x \in Keys : key_table'[x] = IF x = job[t].key /\ key_table[x] = None THEN r
                                            ELSE key_table[x]
<1>1. pc[t] = "publish" /\ job[t] \in Jobs /\ job[t].key \in Keys /\ r \in AllRecords /\ r # None
  BY AtWork, KindsDiffer DEF Publish
<1>2. /\ key_table' = [key_table EXCEPT ![job[t].key] = IF @ = None THEN r ELSE @]
      /\ job' = [job EXCEPT ![t].table = r] /\ pc'[t] = "add"
      /\ UNCHANGED <<record, freed, bad, calls, issued, met>>
  BY DEF Publish, Goto, HashTyped
<1>3. /\ job'[t].op = job[t].op /\ job'[t].key = job[t].key /\ job'[t].i = job[t].i
      /\ job'[t].table = r
  BY <1>1, <1>2 DEF Jobs, HashTyped
<1>4. QED
  BY <1>1, <1>2, <1>3 DEF HashTyped

\* A call begins, and meets those that are at work on its key.
LEMMA CallBegins ==
  ASSUME HashTyped, NEW t \in Threads, Call(t)
  PROVE  \E op \in Ops, k \in Keys :
           /\ pc[t] = "idle" /\ pc'[t] = "get"
           /\ job'[t] = [op |-> op, key |-> k, i |-> 1, table |-> None, held |-> {}]
           /\ calls'[t] = calls[t] + 1
           /\ UNCHANGED <<key_table, record, freed, bad>>
           /\ \A u \in Threads \ {t} :
                /\ met[u] \subseteq met'[u]
                /\ OnKey(u, k) => op \in met'[u] /\ job[u].op \in met'[t]
<1>1. PICK op \in Ops, k \in Keys :
        /\ pc[t] = "idle" /\ pc' = [pc EXCEPT ![t] = "get"]
        /\ job' = [job EXCEPT ![t] =
             [op |-> op, key |-> k, i |-> 1, table |-> None, held |-> {}]]
        /\ calls' = [calls EXCEPT ![t] = @ + 1]
        /\ UNCHANGED <<key_table, record, freed, bad>>
        /\ met' = [u \in Threads |->
             IF u = t THEN {job[w].op : w \in {w \in Threads : OnKey(w, k)}}
             ELSE IF OnKey(u, k) THEN met[u] \cup {op} ELSE met[u]]
  BY DEF Call, Goto
<1>2. \A u \in Threads \ {t} :
     /\ met[u] \subseteq met'[u]
     /\ OnKey(u, k) => op \in met'[u] /\ job[u].op \in met'[t]
  BY <1>1 DEF OnKey
<1>3. QED
  BY <1>1, <1>2 DEF HashTyped

\* What a call has met it keeps in mind.
LEMMA MetStays ==
  ASSUME HashTyped, NEW t \in Threads, Step(t)
  PROVE  \A u \in Threads : u # t \/ ~Call(t) => met[u] \subseteq met'[u]
<1>1. CASE Call(t)
  BY <1>1, CallBegins
<1>2. CASE ~Call(t)
  BY <1>2, WorkIs DEF Works, FindRecord, Publish
<1>3. QED
  BY <1>1, <1>2

LEMMA OrderlyStep ==
  ASSUME HashTyped, Orderly, Overlapping, NEW t \in Threads, Step(t)
  PROVE  Orderly' /\ Overlapping'
<1>1. \A u \in Threads \ {t} : pc'[u] = pc[u] /\ job'[u] = job[u]
  BY OthersStay
<1>2. CASE Call(t)
  <2>1. PICK op \in Ops, k \in Keys :
           /\ pc[t] = "idle" /\ pc'[t] = "get"
           /\ job'[t] = [op |-> op, key |-> k, i |-> 1, table |-> None, held |-> {}]
           /\ \A u \in Threads \ {t} :
                /\ met[u] \subseteq met'[u]
                /\ OnKey(u, k) => op \in met'[u] /\ job[u].op \in met'[t]
    BY <1>2, CallBegins
  <2>2. job'[t].op = op /\ job'[t].key = k
    BY <2>1
  <2>3. Orderly'
    BY <1>1, <2>1 DEF Orderly
  <2>4. Overlapping'
    BY <1>1, <2>1, <2>2 DEF Overlapping, OnKey
  <2> QED BY <2>3, <2>4
<1>3. CASE FindRecord(t) \/ Publish(t) \/ Works(t)
  <2>1. /\ pc[t] # "idle" /\ met' = met
        /\ job'[t].op = job[t].op /\ job'[t].key = job[t].key
    BY <1>3, FindLeads, Publishes DEF Works
  <2>2. Overlapping'
    BY <1>1, <2>1 DEF Overlapping
  <2>3. CASE FindRecord(t)
    <3>1. \/ pc'[t] \in {"publish", "add"} /\ job[t].op \in Writers
          \/ pc'[t] = "swap" /\ job[t].op = "update"
          \/ pc'[t] = "entries" /\ job[t].op \in {"read", "delete"}
          \/ pc'[t] = "idle"
      BY <2>3, FindLeads DEF Writers
    <3> QED BY <1>1, <2>1, <2>2, <3>1 DEF Orderly
  <2>4. CASE Publish(t)
    <3>1. pc'[t] = "add" /\ pc[t] = "publish"
      BY <2>4, Publishes
    <3> QED BY <1>1, <2>1, <2>2, <3>1 DEF Orderly
  <2>5. CASE Works(t)
    <3>1. \/ pc[t] = "add" /\ pc'[t] \in {"add", "idle"}
          \/ pc[t] = "swap" /\ pc'[t] \in {"missing", "release"}
          \/ pc[t] \in {"missing", "release"} /\ pc'[t] \in {"swap", "idle"}
          \/ pc[t] = "entries" /\ pc'[t] = "copy" /\ job[t].op = "read"
          \/ pc[t] = "entries" /\ pc'[t] = "purge" /\ job[t].op # "read"
          \/ pc'[t] = "idle"
      BY <2>5 DEF Works, Follows, HashTyped, Places
    <3> QED BY <1>1, <2>1, <2>2, <3>1 DEF Orderly
  <2> QED BY <1>3, <2>3, <2>4, <2>5
<1>4. QED
  BY <1>2, <1>3, WorkIs

-----------------------------------------------------------------------------
(***************************************************************************)
(* Which record is whose: a record has the key of the calls that hold it,  *)
(* and what a key led to when a call found it, it leads to until a delete  *)
(* or, where the call found nothing, another writer comes.                 *)
(***************************************************************************)
Made(r) ==
  \/ r[2] < calls[r[1]]
  \/ r[2] = calls[r[1]] /\ pc[r[1]] \notin {"get", "publish"}

Holds(t) == pc[t] \notin {"idle", "get", "publish"}
Deleting(t) == pc[t] \in {"entries", "purge"} /\ job[t].op = "delete"

Records ==
  /\ \A k \in Keys : key_table[k] # None => key_table[k] \notin freed /\ Made(key_table[k])
  /\ \A k, l \in Keys : key_table[k] # None /\ key_table[k] = key_table[l] => k = l
  /\ \A t \in Threads : Holds(t) => Made(job[t].table)
  /\ \A t \in Threads, k \in Keys : Holds(t) /\ key_table[k] = job[t].table => k = job[t].key
  /\ \A t, u \in Threads :
       Holds(t) /\ Holds(u) /\ job[t].table = job[u].table => job[t].key = job[u].key
  /\ \A r \in AllRecords \cap freed : Made(r)

Deletes ==
  /\ \A t \in Threads : Deleting(t) =>
       job[t].table \notin freed /\ \A k \in Keys : key_table[k] # job[t].table
  /\ \A t, u \in Threads : t # u /\ Deleting(t) /\ Deleting(u) => job[t].table # job[u].table
  /\ \A t \in Threads : Holds(t) /\ ~Deleting(t) /\ "delete" \notin met[t] =>
       job[t].table \notin freed

Found ==
  /\ \A t \in Threads : pc[t] = "publish" /\ met[t] \cap Writers = {} =>
       key_table[job[t].key] = None
  /\ \A t \in Threads : pc[t] \in {"add", "swap", "missing", "release"} /\ Lone(t) =>
       key_table[job[t].key] = job[t].table

LEMMA RecordsInit == HashInit => Records /\ Deletes /\ Found
<1> SUFFICES ASSUME HashInit PROVE Records /\ Deletes /\ Found
  OBVIOUS
<1>1. \A t \in Threads : pc[t] = "idle" /\ ~Holds(t) /\ ~Deleting(t)
  BY DEF HashInit, Holds, Deleting
<1>2. \A k \in Keys : key_table[k] = None
  BY DEF HashInit
<1>3. freed = {}
  BY DEF HashInit
<1>4. QED
  BY <1>1, <1>2, <1>3 DEF Records, Deletes, Found

\* A record that was made stays made.
LEMMA MadeStays ==
  ASSUME HashTyped, NEW t \in Threads, Step(t), NEW r \in AllRecords, Made(r)
  PROVE  Made(r)'
<1> DEFINE u == r[1]
<1>1. u \in Threads /\ r[2] \in 1..MaxOps /\ MaxOps \in Nat
  BY HashAssumption DEF AllRecords
<1>2. CASE u # t
  BY <1>1, <1>2, OthersStay DEF Made
<1>3. CASE u = t
  <2>1. calls[t] \in Nat
    BY <1>1 DEF HashTyped
  <2>2. CASE Call(t)
    <3>1. calls'[t] = calls[t] + 1
      BY <2>2, CallBegins
    <3> QED BY <1>1, <1>3, <2>1, <3>1 DEF Made
  <2>3. CASE FindRecord(t) \/ Publish(t)
    <3>1. calls' = calls /\ pc[t] \in {"get", "publish"}
      BY <2>3 DEF FindRecord, Publish
    <3> QED BY <1>3, <3>1 DEF Made
  <2>4. CASE Works(t)
    <3>1. calls' = calls /\ pc'[t] \notin {"get", "publish"}
      BY <2>4 DEF Works, Follows, HashTyped, Places
    <3> QED BY <1>3, <3>1 DEF Made
  <2> QED BY <2>2, <2>3, <2>4, WorkIs
<1>4. QED
  BY <1>2, <1>3

\* What a step of Works does to the records: at most a delete frees its own.
LEMMA WorkFrees ==
  ASSUME HashTyped, NEW t \in Threads, Step(t), Works(t)
  PROVE  /\ \A r \in AllRecords : r \in freed' => r \in freed \/ (pc[t] = "purge" /\ r = job[t].table)
         /\ pc[t] = "purge" => pc'[t] = "idle"
<1>1. CASE DeleteRecord(t)
  <2>1. /\ pc[t] = "purge" /\ pc'[t] = "idle" /\ job[t].held \subseteq AllStrings
        /\ freed' = freed \cup (job[t].held \cup {job[t].table})
    BY <1>1, AtWork DEF DeleteRecord, Release, Goto, HashTyped
  <2> QED BY <2>1, KindsDiffer
<1>2. CASE DeleteOld(t)
  <2>1. freed' = freed \cup job[t].held /\ job[t].held \subseteq AllStrings /\ pc[t] = "release"
    BY <1>2, AtWork DEF DeleteOld, Release
  <2> QED BY <2>1, KindsDiffer
<1>3. CASE ~DeleteRecord(t) /\ ~DeleteOld(t)
  <2>1. freed' = freed /\ pc[t] # "purge"
    BY <1>3 DEF Step, Works, Call, FindRecord, Publish, AddField, SwapField, AddMissing, Entries,
       CopyOut
  <2> QED BY <2>1
<1>4. QED
  BY <1>1, <1>2, <1>3

\* The table of a call that works on is what it was.
LEMMA WorkHolds ==
  ASSUME HashTyped, Orderly, NEW t \in Threads, Step(t), Works(t)
  PROVE  \A u \in Threads :
           /\ Holds(u)' => Holds(u) /\ job'[u].table = job[u].table
           /\ pc'[u] = "idle" \/ (Deleting(u)' <=> Deleting(u))
           /\ Deleting(u)' => Deleting(u)
           /\ u # t \/ pc'[u] # "publish"
           /\ pc'[u] \in {"add", "swap", "missing", "release"} =>
                pc[u] \in {"add", "swap", "missing", "release"}
           /\ pc[u] = "idle" => pc'[u] = "idle"
           /\ job'[u].key = job[u].key /\ job'[u].op = job[u].op
<1>1. \A u \in Threads \ {t} : pc'[u] = pc[u] /\ job'[u] = job[u]
  BY OthersStay
<1>2. /\ job'[t].op = job[t].op /\ job'[t].key = job[t].key /\ job'[t].table = job[t].table
      /\ Holds(t)
  BY DEF Works, Holds
<1>3. \/ pc[t] = "add" /\ pc'[t] \in {"add", "idle"}
      \/ pc[t] = "swap" /\ pc'[t] \in {"missing", "release"}
      \/ pc[t] \in {"missing", "release"} /\ pc'[t] \in {"swap", "idle"}
      \/ pc[t] = "entries" /\ pc'[t] = "copy" /\ job[t].op = "read"
      \/ pc[t] = "entries" /\ pc'[t] = "purge" /\ job[t].op # "read"
      \/ pc[t] \in {"copy", "purge"} /\ pc'[t] = "idle"
  BY DEF Works, Follows, HashTyped, Places
<1>4. QED
  BY <1>1, <1>2, <1>3 DEF Holds, Deleting, Orderly

\* What a call at work holds is a record, and so is what a key leads to.
LEMMA HeldRecords ==
  ASSUME HashTyped
  PROVE  /\ \A k \in Keys : key_table[k] # None => key_table[k] \in AllRecords
         /\ \A t \in Threads : Holds(t) => job[t].table \in AllRecords /\ job[t].table # None
<1>1. \A k \in Keys : key_table[k] # None => key_table[k] \in AllRecords
  BY DEF HashTyped
<1>2. \A t \in Threads : Holds(t) => job[t].table \in AllRecords
  BY DEF HashTyped, Holds
<1>3. QED
  BY <1>1, <1>2, KindsDiffer

LEMMA RecordsCall ==
  ASSUME HashTyped, Orderly, Overlapping, Records, Deletes, Found,
         NEW t \in Threads, Step(t), Call(t)
  PROVE  Records' /\ Deletes' /\ Found'
<1>1. \A u \in Threads \ {t} : pc'[u] = pc[u] /\ job'[u] = job[u] /\ calls'[u] = calls[u]
  BY OthersStay
<1>2. pc[t] = "idle" /\ pc'[t] = "get" /\ UNCHANGED <<key_table, record, freed>>
  BY CallBegins
<1>3. \A u \in Threads \ {t} : met[u] \subseteq met'[u]
  BY MetStays
<1>4. \A r \in AllRecords : Made(r) => Made(r)'
  BY MadeStays
<1>5. \A u \in Threads : /\ Holds(u)' => u # t /\ Holds(u)
                         /\ Deleting(u)' => u # t /\ Deleting(u)
                         /\ u # t /\ Deleting(u) => Deleting(u)'
  BY <1>1, <1>2 DEF Holds, Deleting
<1>6. Records'
  <2>1. \A k \in Keys : key_table'[k] # None => key_table'[k] \notin freed' /\ Made(key_table[k])'
    <3> SUFFICES ASSUME NEW k \in Keys, key_table[k] # None, NEW q, q = key_table[k]
                 PROVE  q \notin freed /\ Made(q)'
      BY <1>2 DEF Made
    <3> QED BY <1>4, HeldRecords DEF Records
  <2>2. \A u \in Threads : Holds(u)' => Made(job[u].table)'
    <3> SUFFICES ASSUME NEW u \in Threads, Holds(u), u # t, NEW q, q = job[u].table
                 PROVE  Made(q)'
      BY <1>1, <1>5 DEF Made
    <3> QED BY <1>4, HeldRecords DEF Records
  <2> QED BY <1>1, <1>2, <1>4, <1>5, <2>1, <2>2 DEF Records
<1>7. Deletes'
  BY <1>1, <1>2, <1>3, <1>5 DEF Deletes
<1>8. \A u \in Threads \ {t} : Lone(u)' => Lone(u)
  BY <1>1, <1>3 DEF Lone, Me
<1>9. Found'
  BY <1>1, <1>2, <1>3, <1>8 DEF Found
<1>10. QED
  BY <1>6, <1>7, <1>9

LEMMA RecordsFind ==
  ASSUME HashTyped, Orderly, Overlapping, Records, Deletes, Found,
         NEW t \in Threads, Step(t), FindRecord(t)
  PROVE  Records' /\ Deletes' /\ Found'
<1>1. \A u \in Threads \ {t} : pc'[u] = pc[u] /\ job'[u] = job[u] /\ calls'[u] = calls[u]
  BY OthersStay
<1> DEFINE k == job[t].key
<1>2. PICK q : q = key_table[k]
  OBVIOUS
<1>3. /\ pc[t] = "get" /\ UNCHANGED <<record, freed, calls, met>>
      /\ job'[t].op = job[t].op /\ job'[t].key = k /\ job'[t].table = q
      /\ key_table' = IF job[t].op = "delete" THEN [key_table EXCEPT ![k] = None] ELSE key_table
      /\ q = None => pc'[t] = "idle" \/ (pc'[t] = "publish" /\ job[t].op \in Writers)
      /\ q # None => pc'[t] \in {"add", "swap", "entries"}
      /\ job[t].op = "delete" => pc'[t] \in {"idle", "entries"}
  BY <1>2, FindLeads DEF Writers
<1>4. k \in Keys
  BY <1>3, AtWork
<1>5. \A r \in AllRecords : Made(r) => Made(r)'
  BY MadeStays
<1>6. \A x \in Keys : /\ key_table'[x] # None => key_table'[x] = key_table[x]
                      /\ job[t].op # "delete" => key_table'[x] = key_table[x]
                      /\ x # k => key_table'[x] = key_table[x]
                      /\ job[t].op = "delete" /\ x = k => key_table'[x] = None
  BY <1>3, <1>4 DEF HashTyped
<1>7. q # None => q \in AllRecords /\ q \notin freed /\ Made(q) /\ Made(q)'
  BY <1>2, <1>4, <1>5, HeldRecords DEF Records
<1>8. \A u \in Threads \ {t} :
        /\ (Holds(u)' <=> Holds(u)) /\ (Deleting(u)' <=> Deleting(u))
        /\ Holds(u) => job[u].table \in AllRecords /\ job[u].table # None
  BY <1>1, HeldRecords DEF Holds, Deleting
<1>9. /\ ~Holds(t) /\ ~Deleting(t) /\ (Holds(t)' <=> q # None)
      /\ (Deleting(t)' <=> (q # None /\ job[t].op = "delete"))
  <2>1. q # None /\ job[t].op = "delete" => pc'[t] = "entries"
    BY <1>3
  <2>2. q = None => pc'[t] \in {"idle", "publish"}
    BY <1>3
  <2> QED BY <1>3, <2>1, <2>2 DEF Holds, Deleting
<1>10. Records'
  <2>1. \A x \in Keys : key_table'[x] # None => key_table'[x] \notin freed' /\ Made(key_table[x])'
    <3> SUFFICES ASSUME NEW x \in Keys, key_table'[x] # None, NEW p, p = key_table'[x]
                 PROVE  p \notin freed /\ Made(p)'
      BY <1>3 DEF Made
    <3> QED BY <1>5, <1>6, HeldRecords DEF Records
  <2>2. \A x, y \in Keys : key_table'[x] # None /\ key_table'[x] = key_table'[y] => x = y
    BY <1>6 DEF Records
  <2>3. \A u \in Threads : Holds(u)' => Made(job[u].table)'
    <3>1. ASSUME NEW u \in Threads \ {t}, Holds(u), NEW p, p = job[u].table PROVE Made(p)'
      BY <1>5, <1>8, <3>1 DEF Records
    <3>2. ASSUME NEW u \in Threads, Holds(u)', NEW p, p = job'[u].table PROVE Made(p)'
      <4>1. CASE u = t
        BY <1>3, <1>7, <1>9, <3>2, <4>1
      <4>2. CASE u # t
        BY <1>1, <1>8, <3>1, <3>2, <4>2
      <4> QED BY <4>1, <4>2
    <3> QED BY <3>2 DEF Made
  <2>4. \A u \in Threads, x \in Keys : Holds(u)' /\ key_table'[x] = job'[u].table => x = job'[u].key
    <3> SUFFICES ASSUME NEW u \in Threads, NEW x \in Keys, Holds(u)', key_table'[x] = job'[u].table
                 PROVE  x = job'[u].key
      OBVIOUS
    <3>1. CASE u = t
      BY <1>2, <1>3, <1>4, <1>6, <1>9, <3>1 DEF Records
    <3>2. CASE u # t
      BY <1>1, <1>6, <1>8, <3>2 DEF Records
    <3> QED BY <3>1, <3>2
  <2>5. \A u \in Threads \ {t} : Holds(t)' /\ Holds(u)' /\ job'[u].table = q => job'[u].key = k
    BY <1>1, <1>2, <1>4, <1>8, <1>9 DEF Records
  <2>6. \A u, w \in Threads : Holds(u)' /\ Holds(w)' /\ job'[u].table = job'[w].table =>
          job'[u].key = job'[w].key
    <3> SUFFICES ASSUME NEW u \in Threads, NEW w \in Threads, Holds(u)', Holds(w)',
                        job'[u].table = job'[w].table
                 PROVE  job'[u].key = job'[w].key
      OBVIOUS
    <3>1. CASE u = t \/ w = t
      BY <1>3, <2>5, <3>1
    <3>2. CASE u # t /\ w # t
      BY <1>1, <1>8, <3>2 DEF Records
    <3> QED BY <3>1, <3>2
  <2>7. \A r \in AllRecords \cap freed' : Made(r)'
    BY <1>3, <1>5 DEF Records
  <2> HIDE DEF k
  <2> QED BY <2>1, <2>2, <2>3, <2>4, <2>6, <2>7 DEF Records
<1>11. Deletes'
  <2>1. ASSUME NEW u \in Threads, Deleting(u)'
        PROVE  job'[u].table \notin freed' /\ \A x \in Keys : key_table'[x] # job'[u].table
    <3>1. CASE u = t
      <4>1. job'[u].table = q /\ q # None /\ job[t].op = "delete"
        BY <1>3, <1>9, <2>1, <3>1
      <4>2. \A x \in Keys : key_table'[x] # q
        BY <1>2, <1>4, <1>6, <4>1 DEF Records
      <4> QED BY <1>3, <1>7, <4>1, <4>2
    <3>2. CASE u # t
      <4>1. Deleting(u) /\ job'[u] = job[u] /\ Holds(u)
        BY <1>1, <1>8, <2>1, <3>2 DEF Deleting, Holds
      <4>2. job[u].table # None
        BY <1>8, <3>2, <4>1
      <4> QED BY <1>3, <1>6, <4>1, <4>2 DEF Deletes
    <3> QED BY <3>1, <3>2
  <2>2. \A u \in Threads \ {t} : Deleting(u)' /\ Deleting(t)' => job'[u].table # job'[t].table
    BY <1>1, <1>2, <1>3, <1>4, <1>8 DEF Deletes
  <2>3. \A u, w \in Threads : u # w /\ Deleting(u)' /\ Deleting(w)' =>
          job'[u].table # job'[w].table
    <3> SUFFICES ASSUME NEW u \in Threads, NEW w \in Threads, u # w, Deleting(u)', Deleting(w)'
                 PROVE  job'[u].table # job'[w].table
      OBVIOUS
    <3>1. CASE u = t \/ w = t
      BY <2>2, <3>1
    <3>2. CASE u # t /\ w # t
      BY <1>1, <1>8, <3>2 DEF Deletes
    <3> QED BY <3>1, <3>2
  <2>4. \A u \in Threads : Holds(u)' /\ ~Deleting(u)' /\ "delete" \notin met'[u] =>
          job'[u].table \notin freed'
    <3> SUFFICES ASSUME NEW u \in Threads, Holds(u)', ~Deleting(u)', "delete" \notin met'[u]
                 PROVE  job'[u].table \notin freed'
      OBVIOUS
    <3>1. CASE u = t
      BY <1>3, <1>7, <1>9, <3>1
    <3>2. CASE u # t
      BY <1>1, <1>3, <1>8, <3>2 DEF Deletes
    <3> QED BY <3>1, <3>2
  <2> QED BY <2>1, <2>3, <2>4 DEF Deletes
<1>12. Found'
  <2>1. \A u \in Threads \ {t} : pc[u] # "idle" => job[u].key \in Keys
    BY AtWork
  <2>2. \A u \in Threads \ {t} : Lone(u)' => Lone(u)
    BY <1>1, <1>3 DEF Lone, Me
  <2>3. ASSUME NEW u \in Threads, pc'[u] = "publish", met'[u] \cap Writers = {}
        PROVE  key_table'[job'[u].key] = None
    <3>1. CASE u = t
      BY <1>2, <1>3, <1>4, <1>6, <2>3, <3>1
    <3>2. CASE u # t
      BY <1>1, <1>3, <1>6, <2>1, <2>3, <3>2 DEF Found
    <3> QED BY <3>1, <3>2
  <2>4. ASSUME NEW u \in Threads, pc'[u] \in {"add", "swap", "missing", "release"}, Lone(u)'
        PROVE  key_table'[job'[u].key] = job'[u].table
    <3>1. CASE u = t
      BY <1>2, <1>3, <1>4, <1>6, <2>4, <3>1
    <3>2. CASE u # t
      <4>1. job'[u] = job[u] /\ key_table[job[u].key] = job[u].table /\ job[u].key \in Keys
            /\ pc[u] # "idle" /\ "delete" \notin met[u]
        BY <1>1, <2>1, <2>2, <2>4, <3>2 DEF Found, Lone
      <4>2. job[t].op = "delete" => job[u].key # k
        BY <1>3, <3>2, <4>1 DEF Overlapping
      <4> QED BY <1>6, <4>1, <4>2
    <3> QED BY <3>1, <3>2
  <2> QED BY <2>3, <2>4 DEF Found
<1>13. QED
  BY <1>10, <1>11, <1>12

LEMMA RecordsPublish ==
  ASSUME HashTyped, Orderly, Overlapping, Records, Deletes, Found,
         NEW t \in Threads, Step(t), Publish(t)
  PROVE  Records' /\ Deletes' /\ Found'
<1>1. \A u \in Threads \ {t} : pc'[u] = pc[u] /\ job'[u] = job[u] /\ calls'[u] = calls[u]
  BY OthersStay
<1> DEFINE k == job[t].key
<1>2. PICK q : q = Me(t)
  OBVIOUS
<1>3. /\ pc[t] = "publish" /\ pc'[t] = "add" /\ UNCHANGED <<freed, calls, met>>
      /\ job'[t].op = job[t].op /\ job'[t].key = k /\ job'[t].table = q
      /\ k \in Keys /\ q \in AllRecords /\ q # None
      /\ \A x \in Keys : key_table'[x] = IF x = k /\ key_table[x] = None THEN q ELSE key_table[x]
  BY <1>2, Publishes
<1>4. \A r \in AllRecords : Made(r) => Made(r)'
  BY MadeStays
<1>5. q[1] = t /\ q[2] = calls[t] /\ calls[t] \in 1..MaxOps
  BY <1>2, <1>3, AtWork DEF Me
<1>6. ~Made(q) /\ Made(q)'
  BY <1>3, <1>5, HashAssumption DEF Made
<1>7. \A u \in Threads \ {t} :
        /\ (Holds(u)' <=> Holds(u)) /\ (Deleting(u)' <=> Deleting(u))
        /\ Holds(u) => job[u].table \in AllRecords /\ job[u].table # None /\ job[u].table # q
  BY <1>1, <1>6, HeldRecords DEF Holds, Deleting, Records
<1>8. /\ Holds(t)' /\ ~Deleting(t)' /\ q \notin freed
      /\ \A x \in Keys : key_table[x] # q
  BY <1>3, <1>6 DEF Holds, Deleting, Records
<1>9. \A x \in Keys : /\ key_table'[x] # None /\ key_table'[x] # q => key_table'[x] = key_table[x]
                      /\ key_table'[x] = q => x = k
                      /\ x = k /\ key_table[x] = None => key_table'[x] = q
                      /\ key_table[x] # None => key_table'[x] = key_table[x]
                      /\ x # k => key_table'[x] = key_table[x]
  BY <1>3, <1>8
<1>10. Records'
  <2>1. \A x \in Keys : key_table'[x] # None => key_table'[x] \notin freed' /\ Made(key_table[x])'
    <3> SUFFICES ASSUME NEW x \in Keys, key_table'[x] # None, NEW p, p = key_table'[x]
                 PROVE  p \notin freed /\ Made(p)'
      BY <1>3 DEF Made
    <3>1. CASE p = q
      BY <1>6, <1>8, <3>1
    <3>2. CASE p # q
      BY <1>4, <1>9, <3>2, HeldRecords DEF Records
    <3> QED BY <3>1, <3>2
  <2>2. \A x, y \in Keys : key_table'[x] # None /\ key_table'[x] = key_table'[y] => x = y
    BY <1>9 DEF Records
  <2>3. \A u \in Threads : Holds(u)' => Made(job[u].table)'
    <3>1. ASSUME NEW u \in Threads \ {t}, Holds(u), NEW p, p = job[u].table PROVE Made(p)'
      BY <1>4, <1>7, <3>1 DEF Records
    <3>2. ASSUME NEW u \in Threads, Holds(u)', NEW p, p = job'[u].table PROVE Made(p)'
      <4>1. CASE u = t
        BY <1>3, <1>6, <3>2, <4>1
      <4>2. CASE u # t
        BY <1>1, <1>7, <3>1, <3>2, <4>2
      <4> QED BY <4>1, <4>2
    <3> QED BY <3>2 DEF Made
  <2>4. \A u \in Threads, x \in Keys : Holds(u)' /\ key_table'[x] = job'[u].table => x = job'[u].key
    <3> SUFFICES ASSUME NEW u \in Threads, NEW x \in Keys, Holds(u)', key_table'[x] = job'[u].table
                 PROVE  x = job'[u].key
      OBVIOUS
    <3>1. CASE u = t
      BY <1>3, <1>9, <3>1
    <3>2. CASE u # t
      BY <1>1, <1>7, <1>9, <3>2 DEF Records
    <3> QED BY <3>1, <3>2
  <2>5. \A u, w \in Threads : Holds(u)' /\ Holds(w)' /\ job'[u].table = job'[w].table =>
          job'[u].key = job'[w].key
    <3> SUFFICES ASSUME NEW u \in Threads, NEW w \in Threads, Holds(u)', Holds(w)',
                        job'[u].table = job'[w].table
                 PROVE  job'[u].key = job'[w].key
      OBVIOUS
    <3>1. CASE u = t \/ w = t
      BY <1>1, <1>3, <1>7, <3>1
    <3>2. CASE u # t /\ w # t
      BY <1>1, <1>7, <3>2 DEF Records
    <3> QED BY <3>1, <3>2
  <2>6. \A r \in AllRecords \cap freed' : Made(r)'
    BY <1>3, <1>4 DEF Records
  <2> HIDE DEF k
  <2> QED BY <2>1, <2>2, <2>3, <2>4, <2>5, <2>6 DEF Records
<1>11. Deletes'
  <2>1. \A u \in Threads : Deleting(u)' => u # t /\ Deleting(u) /\ Holds(u)
    BY <1>7, <1>8 DEF Deleting, Holds
  <2>2. ASSUME NEW u \in Threads, Deleting(u)'
        PROVE  job'[u].table \notin freed' /\ \A x \in Keys : key_table'[x] # job'[u].table
    BY <1>1, <1>3, <1>7, <1>9, <2>1, <2>2 DEF Deletes
  <2>3. \A u, w \in Threads : u # w /\ Deleting(u)' /\ Deleting(w)' =>
          job'[u].table # job'[w].table
    BY <1>1, <2>1 DEF Deletes
  <2>4. \A u \in Threads : Holds(u)' /\ ~Deleting(u)' /\ "delete" \notin met'[u] =>
          job'[u].table \notin freed'
    <3> SUFFICES ASSUME NEW u \in Threads, Holds(u)', ~Deleting(u)', "delete" \notin met'[u]
                 PROVE  job'[u].table \notin freed'
      OBVIOUS
    <3>1. CASE u = t
      BY <1>3, <1>8, <3>1
    <3>2. CASE u # t
      BY <1>1, <1>3, <1>7, <3>2 DEF Deletes
    <3> QED BY <3>1, <3>2
  <2> QED BY <2>2, <2>3, <2>4 DEF Deletes
<1>12. Found'
  <2>1. \A u \in Threads \ {t} : pc[u] # "idle" => job[u].key \in Keys
    BY AtWork
  <2>2. \A u \in Threads \ {t} : Lone(u)' => Lone(u)
    BY <1>1, <1>3 DEF Lone, Me
  <2>3. ASSUME NEW u \in Threads, pc'[u] = "publish", met'[u] \cap Writers = {}
        PROVE  key_table'[job'[u].key] = None
    <3>1. u # t /\ pc[u] = "publish" /\ job'[u] = job[u] /\ met[u] \cap Writers = {}
      BY <1>1, <1>3, <2>3
    <3>2. job[u].key # k
      BY <1>3, <3>1 DEF Overlapping, Orderly
    <3> QED BY <1>9, <2>1, <3>1, <3>2 DEF Found
  <2>4. ASSUME NEW u \in Threads, pc'[u] \in {"add", "swap", "missing", "release"}, Lone(u)'
        PROVE  key_table'[job'[u].key] = job'[u].table
    <3>1. CASE u = t
      <4>1. Me(t)' = q
        BY <1>2, <1>3 DEF Me
      <4>2. met[t] \cap Writers = {}
        BY <1>3, <2>4, <3>1, <4>1 DEF Lone, Writers
      <4>3. key_table[k] = None
        BY <1>3, <4>2 DEF Found
      <4> QED BY <1>3, <1>9, <3>1, <4>3
    <3>2. CASE u # t
      <4>1. job'[u] = job[u] /\ key_table[job[u].key] = job[u].table /\ job[u].key \in Keys
            /\ job[u].table # None
        BY <1>1, <1>7, <2>1, <2>2, <2>4, <3>2 DEF Found, Holds
      <4> QED BY <1>9, <4>1
    <3> QED BY <3>1, <3>2
  <2> QED BY <2>3, <2>4 DEF Found
<1>13. QED
  BY <1>10, <1>11, <1>12

LEMMA RecordsWork ==
  ASSUME HashTyped, Orderly, Overlapping, Records, Deletes, Found,
         NEW t \in Threads, Step(t), Works(t)
  PROVE  Records' /\ Deletes' /\ Found'
<1>1. UNCHANGED <<key_table, calls, met>> /\ Holds(t)
  BY DEF Works, Holds
<1>2. \A u \in Threads :
        /\ Holds(u)' => Holds(u) /\ job'[u].table = job[u].table
        /\ pc'[u] = "idle" \/ (Deleting(u)' <=> Deleting(u))
        /\ Deleting(u)' => Deleting(u)
        /\ u # t \/ pc'[u] # "publish"
        /\ pc'[u] \in {"add", "swap", "missing", "release"} =>
             pc[u] \in {"add", "swap", "missing", "release"}
        /\ pc[u] = "idle" => pc'[u] = "idle"
        /\ job'[u].key = job[u].key /\ job'[u].op = job[u].op
  BY WorkHolds
<1>3. \A u \in Threads \ {t} : pc'[u] = pc[u] /\ job'[u] = job[u]
  BY OthersStay
<1>4. \A r \in AllRecords : Made(r) => Made(r)'
  BY MadeStays
<1>5. PICK q \in AllRecords : q = job[t].table
  BY <1>1, HeldRecords
<1>6. /\ \A r \in AllRecords : r \in freed' => r \in freed \/ (pc[t] = "purge" /\ r = q)
      /\ pc[t] = "purge" => pc'[t] = "idle"
  BY <1>5, WorkFrees
<1>7. pc[t] = "purge" => Deleting(t)
  BY DEF Deleting, Orderly
<1>8. \A u \in Threads : Holds(u) => job[u].table \in AllRecords
  BY HeldRecords
<1>9. Records'
  <2>1. \A x \in Keys : key_table'[x] # None => key_table'[x] \notin freed' /\ Made(key_table[x])'
    <3> SUFFICES ASSUME NEW x \in Keys, key_table[x] # None, NEW p, p = key_table[x]
                 PROVE  p \notin freed' /\ Made(p)'
      BY <1>1 DEF Made
    <3>1. p \in AllRecords /\ p \notin freed /\ Made(p)
      BY HeldRecords DEF Records
    <3>2. pc[t] = "purge" => p # q
      BY <1>5, <1>7 DEF Deletes
    <3> QED BY <1>4, <1>6, <3>1, <3>2
  <2>2. \A u \in Threads : Holds(u)' => Made(job[u].table)'
    <3> SUFFICES ASSUME NEW u \in Threads, Holds(u), NEW p, p = job[u].table
                 PROVE  Made(p)'
      BY <1>2 DEF Made
    <3> QED BY <1>4, <1>8 DEF Records
  <2>3. \A r \in AllRecords \cap freed' : Made(r)'
    BY <1>1, <1>4, <1>5, <1>6 DEF Records
  <2>4. \A u \in Threads, x \in Keys : Holds(u)' /\ key_table'[x] = job'[u].table => x = job'[u].key
    BY <1>1, <1>2 DEF Records
  <2>5. \A u, w \in Threads : Holds(u)' /\ Holds(w)' /\ job'[u].table = job'[w].table =>
          job'[u].key = job'[w].key
    BY <1>2 DEF Records
  <2> QED BY <1>1, <2>1, <2>2, <2>3, <2>4, <2>5 DEF Records
<1>10. Deletes'
  <2>1. ASSUME NEW u \in Threads, Holds(u)', Deleting(u)' \/ "delete" \notin met'[u]
        PROVE  job'[u].table \notin freed'
    <3>1. Holds(u) /\ job'[u].table = job[u].table /\ job[u].table \in AllRecords
          /\ pc'[u] # "idle" /\ pc[u] # "idle"
      BY <1>2, <1>8, <2>1 DEF Holds
    <3>2. job[u].table \notin freed
      BY <1>1, <1>2, <2>1, <3>1 DEF Deletes
    <3>3. pc[t] = "purge" => job[u].table # q
      <4> SUFFICES ASSUME pc[t] = "purge", job[u].table = q PROVE FALSE
        OBVIOUS
      <4>1. u # t
        BY <1>6, <3>1
      <4>2. ~Deleting(u)
        BY <1>5, <1>7, <4>1 DEF Deletes
      <4>3. job[u].key = job[t].key
        BY <1>1, <1>5, <3>1 DEF Records
      <4>4. job[t].op \in met[u]
        BY <3>1, <4>1, <4>3 DEF Overlapping
      <4> QED BY <1>1, <1>2, <2>1, <4>2, <4>4 DEF Orderly
    <3> QED BY <1>6, <3>1, <3>2, <3>3
  <2>2. \A u \in Threads : Deleting(u)' => Holds(u)'
    BY DEF Deleting, Holds
  <2>3. \A u \in Threads : Deleting(u)' => \A x \in Keys : key_table'[x] # job'[u].table
    BY <1>1, <1>2, <2>2 DEF Deletes
  <2>4. \A u, w \in Threads : u # w /\ Deleting(u)' /\ Deleting(w)' =>
          job'[u].table # job'[w].table
    BY <1>2, <2>2 DEF Deletes
  <2> QED BY <2>1, <2>2, <2>3, <2>4 DEF Deletes
<1>11. Found'
  <2>1. ASSUME NEW u \in Threads, pc'[u] \in {"add", "swap", "missing", "release"}, Lone(u)'
        PROVE  key_table'[job'[u].key] = job'[u].table
    <3>1. pc[u] \in {"add", "swap", "missing", "release"} /\ job'[u].table = job[u].table
          /\ job'[u].key = job[u].key
      BY <1>2, <2>1 DEF Holds
    <3>2. Lone(u)
      BY <1>1, <2>1, <3>1 DEF Lone, Me
    <3> QED BY <1>1, <3>1, <3>2 DEF Found
  <2>2. ASSUME NEW u \in Threads, pc'[u] = "publish", met'[u] \cap Writers = {}
        PROVE  key_table'[job'[u].key] = None
    <3>1. u # t
      BY <1>2, <2>2
    <3> QED BY <1>1, <1>3, <2>2, <3>1 DEF Found
  <2> QED BY <2>1, <2>2 DEF Found
<1>12. QED
  BY <1>9, <1>10, <1>11

LEMMA RecordsStep ==
  ASSUME HashTyped, Orderly, Overlapping, Records, Deletes, Found, NEW t \in Threads, Step(t)
  PROVE  Records' /\ Deletes' /\ Found'
  BY WorkIs, RecordsCall, RecordsFind, RecordsPublish, RecordsWork

-----------------------------------------------------------------------------
(***************************************************************************)
(* Which string is where: in one field of one record, or in the hands of   *)
(* the update that took it out.  Reads and deletes hold strings of their   *)
(* record; the string may go under their hands, but then an update or a    *)
(* delete of the key has met them.                                         *)
(***************************************************************************)
Copied(s) ==
  \/ s[2] < calls[s[1]]
  \/ /\ s[2] = calls[s[1]]
     /\ \/ s[3] < job[s[1]].i
        \/ s[3] = job[s[1]].i /\ pc[s[1]] = "release"

Unfreed ==
  /\ \A r \in AllRecords, f \in FieldSet : record[r][f] # None =>
       Copied(record[r][f]) /\ (r \notin freed => record[r][f] \notin freed)
  /\ \A s \in AllStrings \cap freed : Copied(s)

Once == \A r, q \in AllRecords, f, g \in FieldSet :
  record[r][f] # None /\ record[r][f] = record[q][g] => r = q /\ f = g

Held(t) == IF pc[t] \in {"release", "copy", "purge"} THEN job[t].held ELSE {}

\* The strings in the hands of t may have been given back by another.
Excused(t) ==
  \/ "delete" \in met[t] /\ pc[t] # "purge"
  \/ "update" \in met[t] /\ pc[t] # "release"

Loose ==
  /\ \A t \in Threads, s \in AllStrings : s \in Held(t) =>
       /\ Copied(s) /\ (s \in freed => Excused(t))
       /\ \A r \in AllRecords, f \in FieldSet : record[r][f] = s =>
            r = job[t].table /\ pc[t] # "release"
  /\ \A t, u \in Threads, s \in AllStrings : t # u /\ s \in Held(t) /\ s \in Held(u) =>
       job[t].table = job[u].table /\ ~(pc[t] = "release" /\ pc[u] = "release")

Blamed == \A b \in bad :
  /\ b.how = "use" => "delete" \in b.met \/ (b.op = "read" /\ "update" \in b.met)
  /\ b.how = "free" => \/ b.op = "update" /\ "delete" \in b.met
                       \/ b.op = "delete" /\ "update" \in b.met

Owned == Unfreed /\ Once /\ Loose /\ Blamed

LEMMA OwnedInit == HashInit => Owned
<1> SUFFICES ASSUME HashInit PROVE Owned
  OBVIOUS
<1>1. \A r \in AllRecords, f \in FieldSet : record[r][f] = None
  BY DEF HashInit, FieldSet
<1>2. freed = {} /\ bad = {} /\ \A t \in Threads : Held(t) = {}
  BY DEF HashInit, Held
<1>3. QED
  BY <1>1, <1>2 DEF Owned, Unfreed, Once, Loose, Blamed

LEMMA CopiedStays ==
  ASSUME HashTyped, NEW t \in Threads, Step(t), NEW s \in AllStrings, Copied(s)
  PROVE  Copied(s)'
<1> DEFINE u == s[1]
<1>1. u \in Threads /\ s[2] \in 1..MaxOps /\ s[3] \in 1..Len(Fields) /\ MaxOps \in Nat
      /\ Len(Fields) \in Nat
  BY HashAssumption, FieldFacts DEF AllStrings
<1>2. CASE u # t
  BY <1>1, <1>2, OthersStay DEF Copied
<1>3. CASE u = t
  <2>1. calls[t] \in Nat
    BY <1>1 DEF HashTyped
  <2>2. CASE Call(t)
    <3>1. calls'[t] = calls[t] + 1
      BY <2>2, CallBegins
    <3> QED BY <1>1, <1>3, <2>1, <3>1 DEF Copied
  <2>3. CASE ~Call(t)
    <3>1. calls' = calls /\ pc[t] # "idle" /\ job[t] \in Jobs /\ job[t].i \in 1..Len(Fields)
      <4>1. calls' = calls /\ pc[t] # "idle"
        BY <2>3 DEF Step, FindRecord, Publish, AddField, SwapField, AddMissing, DeleteOld,
                    Entries, CopyOut, DeleteRecord
      <4> QED BY <4>1, AtWork
    <3>2. \/ job'[t].i = job[t].i + 1
          \/ job'[t].i = job[t].i /\ pc[t] # "release"
      <4>1. CASE AddField(t) \/ AddMissing(t)
        BY <3>1, <4>1 DEF AddField, AddMissing, Advance, HashTyped, Jobs
      <4>2. CASE FindRecord(t) \/ Publish(t) \/ SwapField(t)
        BY <3>1, <4>2 DEF FindRecord, Publish, SwapField, HashTyped, Jobs
      <4>3. CASE DeleteOld(t)
        BY <3>1, <4>3 DEF DeleteOld, HashTyped, Jobs
      <4>4. CASE Entries(t) \/ CopyOut(t) \/ DeleteRecord(t)
        BY <3>1, <4>4 DEF Entries, CopyOut, DeleteRecord, HashTyped, Jobs
      <4> QED BY <2>3, <4>1, <4>2, <4>3, <4>4 DEF Step
    <3> QED BY <1>1, <1>3, <3>1, <3>2 DEF Copied
  <2> QED BY <2>2, <2>3
<1>4. QED
  BY <1>2, <1>3

LEMMA StringsAre ==
  ASSUME NEW r
  PROVE  \A x : x \in Strings(r) <=> x # None /\ \E f \in FieldSet : x = record[r][f]
  BY DEF Strings, FieldSet

\* The copy that a call is about to make is new.
LEMMA FreshCopy ==
  ASSUME HashTyped, NEW t \in Threads, pc[t] \notin {"idle", "release"}
  PROVE  ~Copied(String(t))
<1>1. calls[t] \in 1..MaxOps /\ job[t].i \in 1..Len(Fields) /\ MaxOps \in Nat /\ Len(Fields) \in Nat
  BY AtWork, HashAssumption, FieldFacts
<1>2. QED
  BY <1>1 DEF Copied, String

\* A copy that has been put into a record has been made.
LEMMA PutCopy ==
  ASSUME HashTyped, NEW t \in Threads, pc[t] \in {"add", "swap", "missing"}, calls' = calls,
         \/ Advance(t, "add") \/ Advance(t, "swap")
         \/ Goto(t, "release") /\ job' = [job EXCEPT ![t].held = {Slot(t)}],
         NEW s, s = String(t)
  PROVE  Copied(s)'
<1>1. /\ calls[t] \in 1..MaxOps /\ job[t] \in Jobs /\ job[t].i \in 1..Len(Fields)
      /\ MaxOps \in Nat /\ Len(Fields) \in Nat
  BY AtWork, HashAssumption, FieldFacts
<1>2. \/ job'[t].i = job[t].i + 1
      \/ job'[t].i = job[t].i /\ pc'[t] = "release"
  BY <1>1 DEF Advance, Goto, HashTyped, Jobs
<1>3. s[1] = t /\ s[2] = calls[t] /\ s[3] = job[t].i
  BY DEF String
<1>4. QED
  BY <1>1, <1>2, <1>3 DEF Copied

\* What a call puts where.
LEMMA PutWhere ==
  ASSUME HashTyped, NEW t \in Threads, pc[t] \in {"add", "swap", "missing"}, Put(t)
  PROVE  /\ record'[job[t].table][Field(t)] = String(t)
         /\ \A r \in AllRecords, f \in FieldSet :
              r # job[t].table \/ f # Field(t) => record'[r][f] = record[r][f]
<1>1. PICK q \in AllRecords, g \in FieldSet, s \in AllStrings :
        q = job[t].table /\ g = Field(t) /\ s = String(t)
  BY AtWork
<1>2. record' = [record EXCEPT ![q][g] = s]
  BY <1>1 DEF Put
<1>3. \A r \in AllRecords : record[r] \in [FieldSet -> AllStrings \cup {None}]
  BY DEF HashTyped
<1>4. record'[q] = [record[q] EXCEPT ![g] = s]
  BY <1>2 DEF HashTyped
<1>5. \A r \in AllRecords \ {q} : record'[r] = record[r]
  BY <1>2 DEF HashTyped
<1>6. QED
  BY <1>1, <1>3, <1>4, <1>5

\* Where each step belongs: what it does to the strings.
Looks(t) ==
  /\ UNCHANGED <<record, freed>>
  /\ pc'[t] \notin {"release", "copy", "purge"}

\* A step that puts a string into a record, in place of another or of none.
Puts(t) ==
  /\ pc[t] \in {"add", "swap", "missing"} /\ Put(t) /\ UNCHANGED <<freed, calls>>
  /\ \/ Advance(t, "add") \/ Advance(t, "swap")
     \/ /\ pc[t] = "swap" /\ Slot(t) # None /\ Goto(t, "release")
        /\ job' = [job EXCEPT ![t].held = {Slot(t)}]

LEMMA StepIs ==
  ASSUME HashTyped, NEW t \in Threads, Step(t)
  PROVE  Looks(t) \/ Puts(t) \/ DeleteOld(t) \/ DeleteRecord(t) \/ Entries(t)
<1>1. CASE Call(t)
  BY <1>1, CallBegins DEF Looks
<1>2. CASE FindRecord(t)
  BY <1>2, FindLeads DEF Looks
<1>3. CASE Publish(t)
  BY <1>3 DEF Publish, Looks, Goto, HashTyped
<1>4. CASE AddField(t)
  <2>1. pc[t] = "add" /\ UNCHANGED <<freed, calls>>
    BY <1>4 DEF AddField
  <2>2. CASE Put(t) /\ Advance(t, "add")
    BY <2>1, <2>2 DEF Puts
  <2>3. CASE record' = record /\ (Goto(t, "idle") \/ Advance(t, "add"))
    <3>1. pc'[t] \in {"idle", "add"}
      BY <2>3 DEF Goto, Advance, HashTyped
    <3> QED BY <2>1, <2>3, <3>1 DEF Looks
  <2> QED BY <1>4, <2>2, <2>3 DEF AddField
<1>5. CASE SwapField(t)
  <2>1. pc[t] = "swap" /\ UNCHANGED <<freed, calls>>
    BY <1>5 DEF SwapField
  <2>2. CASE Slot(t) = None
    BY <1>5, <2>1, <2>2 DEF SwapField, Looks, Goto, HashTyped
  <2>3. CASE Slot(t) # None
    BY <1>5, <2>1, <2>3 DEF SwapField, Puts
  <2> QED BY <2>2, <2>3
<1>6. CASE AddMissing(t)
  <2>1. pc[t] = "missing" /\ UNCHANGED <<freed, calls>> /\ Advance(t, "swap")
    BY <1>6 DEF AddMissing
  <2>2. CASE Put(t)
    BY <2>1, <2>2 DEF Puts
  <2>3. CASE record' = record
    <3>1. pc'[t] \in {"idle", "swap"}
      BY <2>1 DEF Goto, Advance, HashTyped
    <3> QED BY <2>1, <2>3, <3>1 DEF Looks
  <2> QED BY <1>6, <2>2, <2>3 DEF AddMissing
<1>7. CASE CopyOut(t)
  BY <1>7 DEF CopyOut, Looks, Goto, HashTyped
<1>8. QED
  BY <1>1, <1>2, <1>3, <1>4, <1>5, <1>6, <1>7 DEF Step

\* What is in the hands of a thread that a step leaves alone.
LEMMA HandsStay ==
  ASSUME HashTyped, NEW t \in Threads, Step(t)
  PROVE  \A u \in Threads \ {t} :
           /\ Held(u)' = Held(u) /\ job'[u] = job[u] /\ pc'[u] = pc[u]
           /\ Excused(u) => Excused(u)'
<1>1. \A u \in Threads \ {t} : pc'[u] = pc[u] /\ job'[u] = job[u] /\ met[u] \subseteq met'[u]
  BY OthersStay, MetStays
<1>2. QED
  BY <1>1 DEF Held, Excused

\* Two calls that hold a string in common have met.
LEMMA HandsMeet ==
  ASSUME HashTyped, Records, Overlapping, Loose, NEW t \in Threads, NEW u \in Threads, t # u,
         NEW s \in AllStrings, s \in Held(t), s \in Held(u)
  PROVE  job[u].op \in met[t] /\ ~(pc[t] = "release" /\ pc[u] = "release")
         /\ job[t].table = job[u].table
<1>1. Holds(t) /\ Holds(u) /\ pc[t] # "idle" /\ pc[u] # "idle"
  BY DEF Held, Holds
<1>2. job[t].table = job[u].table /\ ~(pc[t] = "release" /\ pc[u] = "release")
  BY DEF Loose
<1>3. job[t].key = job[u].key
  BY <1>1, <1>2 DEF Records
<1>4. QED
  BY <1>1, <1>2, <1>3 DEF Overlapping

LEMMA LooksOwned ==
  ASSUME HashTyped, Unfreed, Once, Loose, NEW t \in Threads, Step(t), Looks(t)
  PROVE  Unfreed' /\ Once' /\ Loose'
<1>1. \A u \in Threads \ {t} :
        /\ Held(u)' = Held(u) /\ job'[u] = job[u] /\ pc'[u] = pc[u]
        /\ Excused(u) => Excused(u)'
  BY HandsStay
<1>2. \A s \in AllStrings : Copied(s) => Copied(s)'
  BY CopiedStays
<1>3. record' = record /\ freed' = freed /\ Held(t)' = {}
  BY DEF Looks, Held
<1>4. \A r \in AllRecords, f \in FieldSet : record[r][f] # None => record[r][f] \in AllStrings
  BY DEF HashTyped
<1>5. Unfreed'
  <2>1. ASSUME NEW r \in AllRecords, NEW f \in FieldSet, NEW s, s = record[r][f], s # None
        PROVE  Copied(s)' /\ (r \notin freed => s \notin freed)
    BY <1>2, <1>4, <2>1 DEF Unfreed
  <2>2. \A s \in AllStrings \cap freed : Copied(s)'
    BY <1>2 DEF Unfreed
  <2>3. \A r \in AllRecords, f \in FieldSet : record'[r][f] # None =>
          Copied(record[r][f])' /\ (r \notin freed' => record'[r][f] \notin freed')
    BY <1>3, <2>1 DEF Copied
  <2> QED BY <1>3, <2>2, <2>3 DEF Unfreed
<1>6. Once'
  BY <1>3 DEF Once
<1>7. Loose'
  <2>1. ASSUME NEW u \in Threads, NEW s \in AllStrings, s \in Held(u)'
        PROVE  /\ u # t /\ s \in Held(u)
               /\ Copied(s)' /\ (s \in freed' => Excused(u)')
               /\ \A r \in AllRecords, f \in FieldSet : record'[r][f] = s =>
                    r = job'[u].table /\ pc'[u] # "release"
    BY <1>1, <1>2, <1>3, <2>1 DEF Loose
  <2>2. \A u, w \in Threads, s \in AllStrings : u # w /\ s \in Held(u)' /\ s \in Held(w)' =>
          job'[u].table = job'[w].table /\ ~(pc'[u] = "release" /\ pc'[w] = "release")
    BY <1>1, <2>1 DEF Loose
  <2> QED BY <2>1, <2>2 DEF Loose
<1>8. QED
  BY <1>5, <1>6, <1>7

LEMMA PutsOwned ==
  ASSUME HashTyped, Orderly, Overlapping, Records, Deletes, Unfreed, Once, Loose,
         NEW t \in Threads, Step(t), Puts(t)
  PROVE  Unfreed' /\ Once' /\ Loose'
<1>1. \A u \in Threads \ {t} :
        /\ Held(u)' = Held(u) /\ job'[u] = job[u] /\ pc'[u] = pc[u]
        /\ Excused(u) => Excused(u)'
  BY HandsStay
<1>2. \A s \in AllStrings : Copied(s) => Copied(s)'
  BY CopiedStays
<1>3. PICK q \in AllRecords, g \in FieldSet, s \in AllStrings :
        q = job[t].table /\ g = Field(t) /\ s = String(t)
  BY AtWork DEF Puts
<1>4. /\ record'[q][g] = s
      /\ \A r \in AllRecords, f \in FieldSet : r # q \/ f # g => record'[r][f] = record[r][f]
  BY <1>3, PutWhere DEF Puts
<1>5. freed' = freed /\ job[t] \in Jobs /\ Holds(t) /\ ~Deleting(t) /\ Held(t) = {}
  BY AtWork DEF Puts, Holds, Deleting, Held
<1>6. ~Copied(s) /\ Copied(s)'
  BY <1>3, FreshCopy, PutCopy DEF Puts
<1>7. /\ s \notin freed
      /\ \A r \in AllRecords, f \in FieldSet : record[r][f] # s
  BY <1>3, <1>6, KindsDiffer DEF Unfreed
<1>8. \A r \in AllRecords, f \in FieldSet : record[r][f] # None => record[r][f] \in AllStrings
  BY DEF HashTyped
<1>9. Unfreed'
  <2>1. ASSUME NEW r \in AllRecords, NEW f \in FieldSet, NEW x, x = record'[r][f], x # None
        PROVE  Copied(x)' /\ (r \notin freed => x \notin freed)
    <3>1. CASE r = q /\ f = g
      BY <1>4, <1>6, <1>7, <2>1, <3>1
    <3>2. CASE ~(r = q /\ f = g)
      <4>1. x = record[r][f]
        BY <1>4, <2>1, <3>2
      <4> QED BY <1>2, <1>8, <2>1, <4>1 DEF Unfreed
    <3> QED BY <3>1, <3>2
  <2>2. \A x \in AllStrings \cap freed : Copied(x)'
    BY <1>2 DEF Unfreed
  <2>3. \A r \in AllRecords, f \in FieldSet : record'[r][f] # None =>
          Copied(record[r][f])' /\ (r \notin freed' => record'[r][f] \notin freed')
    BY <1>5, <2>1 DEF Copied
  <2> QED BY <1>5, <2>2, <2>3 DEF Unfreed
<1>10. Once'
  <2>1. ASSUME NEW r \in AllRecords, NEW p \in AllRecords, NEW f \in FieldSet, NEW h \in FieldSet,
               record'[r][f] # None, record'[r][f] = record'[p][h]
        PROVE  r = p /\ f = h
    BY <1>4, <1>7, <2>1 DEF Once
  <2> QED BY <2>1 DEF Once
\* What the thread takes out, if anything, is out of the records for good.
<1>11. ASSUME NEW x \in Held(t)'
       PROVE  /\ x \in AllStrings /\ pc'[t] = "release" /\ job'[t].table = q
              /\ Copied(x)' /\ (x \in freed => Excused(t)')
              /\ \A r \in AllRecords, f \in FieldSet : record'[r][f] # x
              /\ record[q][g] = x
  <2>1. pc'[t] = "release" /\ Slot(t) # None /\ job' = [job EXCEPT ![t].held = {Slot(t)}]
        /\ met' = met /\ pc[t] = "swap"
    <3>1. Advance(t, "add") \/ Advance(t, "swap") => Held(t)' = {}
      BY DEF Advance, Goto, Held, HashTyped
    <3>2. /\ pc[t] = "swap" /\ Slot(t) # None /\ Goto(t, "release")
          /\ job' = [job EXCEPT ![t].held = {Slot(t)}]
      BY <1>11, <3>1 DEF Puts
    <3>3. met' = met
      BY <3>2, WorkIs DEF Works, Call, FindRecord, Publish
    <3> QED BY <3>2, <3>3 DEF Goto, HashTyped
  <2>2. x = Slot(t) /\ job'[t].table = q
    BY <1>3, <1>5, <1>11, <2>1 DEF Held, HashTyped, Jobs
  <2>3. x = record[q][g] /\ x # None /\ x \in AllStrings
    BY <1>3, <1>8, <2>1, <2>2 DEF Slot
  <2>4. "delete" \notin met[t] => x \notin freed
    BY <1>3, <1>5, <2>3 DEF Deletes, Unfreed
  <2>5. Copied(x)'
    BY <1>2, <2>3 DEF Unfreed
  <2>6. \A r \in AllRecords, f \in FieldSet : record'[r][f] # x
    BY <1>4, <1>7, <2>3 DEF Once
  <2> QED BY <2>1, <2>2, <2>3, <2>4, <2>5, <2>6 DEF Excused
<1>12. ASSUME NEW u \in Threads \ {t}, NEW x \in AllStrings, x \in Held(u)
       PROVE  /\ Copied(x)' /\ (x \in freed => Excused(u)')
              /\ \A r \in AllRecords, f \in FieldSet : record'[r][f] = x =>
                   r = job[u].table /\ pc[u] # "release"
  <2>1. Copied(x) /\ x # s
    BY <1>6, <1>12 DEF Loose
  <2> QED BY <1>1, <1>2, <1>4, <1>12, <2>1 DEF Loose
<1>13. ASSUME NEW u \in Threads \ {t}, NEW x \in AllStrings, x \in Held(u), x \in Held(t)'
       PROVE  job[u].table = q /\ pc[u] # "release"
  BY <1>11, <1>13 DEF Loose
<1>14. Loose'
  <2>1. ASSUME NEW u \in Threads, NEW x \in AllStrings, x \in Held(u)'
        PROVE  /\ Copied(x)' /\ (x \in freed' => Excused(u)')
               /\ \A r \in AllRecords, f \in FieldSet : record'[r][f] = x =>
                    r = job'[u].table /\ pc'[u] # "release"
    <3>1. CASE u = t
      BY <1>5, <1>11, <2>1, <3>1
    <3>2. CASE u # t
      BY <1>1, <1>5, <1>12, <2>1, <3>2
    <3> QED BY <3>1, <3>2
  <2>2. ASSUME NEW u \in Threads, NEW w \in Threads, NEW x \in AllStrings,
               u # w, x \in Held(u)', x \in Held(w)'
        PROVE  job'[u].table = job'[w].table /\ ~(pc'[u] = "release" /\ pc'[w] = "release")
    <3>1. CASE u # t /\ w # t
      BY <1>1, <2>2, <3>1 DEF Loose
    <3>2. CASE u = t
      BY <1>1, <1>11, <1>13, <2>2, <3>2
    <3>3. CASE w = t
      BY <1>1, <1>11, <1>13, <2>2, <3>3
    <3> QED BY <3>1, <3>2, <3>3
  <2> QED BY <2>1, <2>2 DEF Loose
<1>15. QED
  BY <1>9, <1>10, <1>14

\* A read or a delete notes the strings of its record, some of which others may hold.
LEMMA EntriesOwned ==
  ASSUME HashTyped, Orderly, Overlapping, Records, Deletes, Unfreed, Once, Loose,
         NEW t \in Threads, Step(t), Entries(t)
  PROVE  Unfreed' /\ Once' /\ Loose'
<1>1. \A u \in Threads \ {t} :
        /\ Held(u)' = Held(u) /\ job'[u] = job[u] /\ pc'[u] = pc[u]
        /\ Excused(u) => Excused(u)'
  BY HandsStay
<1>2. \A s \in AllStrings : Copied(s) => Copied(s)'
  BY CopiedStays
<1>3. PICK q : q = job[t].table
  OBVIOUS
<1>4. /\ pc[t] = "entries" /\ job[t] \in Jobs /\ q \in AllRecords
      /\ UNCHANGED <<record, freed, met>>
      /\ job' = [job EXCEPT ![t].held = Strings(q)]
      /\ pc'[t] = IF job[t].op = "read" THEN "copy" ELSE "purge"
      /\ job[t].op \in {"read", "delete"}
  BY <1>3, AtWork DEF Entries, Goto, HashTyped, Orderly
<1>5. job'[t].table = q /\ job'[t].held = Strings(q) /\ Held(t)' = Strings(q)
  BY <1>3, <1>4 DEF HashTyped, Jobs, Held
<1>6. \A r \in AllRecords, f \in FieldSet : record[r][f] # None => record[r][f] \in AllStrings
  BY DEF HashTyped
<1>7. Unfreed'
  <2>1. ASSUME NEW r \in AllRecords, NEW f \in FieldSet, NEW x, x = record[r][f], x # None
        PROVE  Copied(x)' /\ (r \notin freed => x \notin freed)
    BY <1>2, <1>6, <2>1 DEF Unfreed
  <2>2. \A r \in AllRecords, f \in FieldSet : record'[r][f] # None =>
          Copied(record[r][f])' /\ (r \notin freed' => record'[r][f] \notin freed')
    BY <1>4, <2>1 DEF Copied
  <2> QED BY <1>2, <1>4, <2>2 DEF Unfreed
<1>8. Once'
  BY <1>4 DEF Once
<1>9. ASSUME NEW x \in AllStrings, x \in Held(t)'
      PROVE  /\ Copied(x)' /\ (x \in freed => Excused(t)') /\ pc'[t] # "release"
             /\ \A r \in AllRecords, f \in FieldSet : record[r][f] = x => r = q
             /\ \E f \in FieldSet : x = record[q][f]
  <2>1. PICK f \in FieldSet : x = record[q][f] /\ x # None
    BY <1>5, <1>9, StringsAre
  <2>2. Copied(x)' /\ \A r \in AllRecords, h \in FieldSet : record[r][h] = x => r = q
    BY <1>2, <1>4, <2>1 DEF Unfreed, Once
  <2>3. x \in freed => q \in freed
    BY <1>4, <2>1 DEF Unfreed
  <2>4. Holds(t) /\ (Deleting(t) <=> job[t].op = "delete")
    BY <1>4 DEF Holds, Deleting
  <2>5. x \in freed => job[t].op = "read" /\ "delete" \in met[t]
    BY <1>3, <1>4, <2>3, <2>4 DEF Deletes
  <2> QED BY <1>4, <2>1, <2>2, <2>5 DEF Excused
<1>10. Loose'
  <2>1. ASSUME NEW u \in Threads, NEW x \in AllStrings, x \in Held(u)'
        PROVE  /\ Copied(x)' /\ (x \in freed' => Excused(u)')
               /\ \A r \in AllRecords, f \in FieldSet : record'[r][f] = x =>
                    r = job'[u].table /\ pc'[u] # "release"
    <3>1. CASE u = t
      BY <1>4, <1>5, <1>9, <2>1, <3>1
    <3>2. CASE u # t
      BY <1>1, <1>2, <1>4, <2>1, <3>2 DEF Loose
    <3> QED BY <3>1, <3>2
  <2>2. ASSUME NEW u \in Threads \ {t}, NEW x \in AllStrings, x \in Held(u), x \in Held(t)'
        PROVE  job[u].table = q
    BY <1>4, <1>9, <2>2 DEF Loose
  <2>3. ASSUME NEW u \in Threads, NEW w \in Threads, NEW x \in AllStrings,
               u # w, x \in Held(u)', x \in Held(w)'
        PROVE  job'[u].table = job'[w].table /\ ~(pc'[u] = "release" /\ pc'[w] = "release")
    <3>1. CASE u # t /\ w # t
      BY <1>1, <2>3, <3>1 DEF Loose
    <3>2. CASE u = t
      BY <1>1, <1>5, <1>9, <2>2, <2>3, <3>2
    <3>3. CASE w = t
      BY <1>1, <1>5, <1>9, <2>2, <2>3, <3>3
    <3> QED BY <3>1, <3>2, <3>3
  <2> QED BY <2>1, <2>3 DEF Loose
<1>11. QED
  BY <1>7, <1>8, <1>10

\* What a thread gives back was in its hands, or is a table that no key leads to.
LEMMA FreesOwned ==
  ASSUME HashTyped, Orderly, Overlapping, Records, Deletes, Unfreed, Once, Loose,
         NEW t \in Threads, Step(t), DeleteOld(t) \/ DeleteRecord(t)
  PROVE  Unfreed' /\ Once' /\ Loose'
<1>1. \A u \in Threads \ {t} :
        /\ Held(u)' = Held(u) /\ job'[u] = job[u] /\ pc'[u] = pc[u]
        /\ Excused(u) => Excused(u)'
  BY HandsStay
<1>2. \A s \in AllStrings : Copied(s) => Copied(s)'
  BY CopiedStays
<1>3. PICK q : q = job[t].table
  OBVIOUS
<1>4. /\ pc[t] \in {"release", "purge"} /\ record' = record /\ met' = met /\ q \in AllRecords
      /\ Held(t) = job[t].held /\ Held(t) \subseteq AllStrings
      /\ freed' = freed \cup Held(t) \cup (IF pc[t] = "purge" THEN {q} ELSE {})
      /\ pc'[t] \notin {"release", "copy", "purge"} /\ Held(t)' = {}
      /\ job[t].op = IF pc[t] = "purge" THEN "delete" ELSE "update"
  <2>1. CASE DeleteOld(t)
    <3>1. pc[t] = "release" /\ record' = record /\ met' = met /\ freed' = freed \cup job[t].held
          /\ pc'[t] \notin {"release", "copy", "purge"}
      BY <2>1 DEF DeleteOld, Release, Goto, HashTyped
    <3>2. q \in AllRecords /\ job[t].held \subseteq AllStrings
      BY <1>3, <3>1, AtWork
    <3> QED BY <3>1, <3>2 DEF Held, Orderly
  <2>2. CASE DeleteRecord(t)
    <3>1. pc[t] = "purge" /\ record' = record /\ met' = met /\ freed' = freed \cup (job[t].held \cup {q})
          /\ pc'[t] = "idle"
      BY <1>3, <2>2 DEF DeleteRecord, Release, Goto, HashTyped
    <3>2. q \in AllRecords /\ job[t].held \subseteq AllStrings
      BY <1>3, <3>1, AtWork
    <3> QED BY <3>1, <3>2 DEF Held, Orderly
  <2> QED BY <2>1, <2>2
<1>5. \A r \in AllRecords, f \in FieldSet : record[r][f] # None => record[r][f] \in AllStrings
  BY DEF HashTyped
<1>6. \A x \in AllStrings : x \in freed' <=> x \in freed \/ x \in Held(t)
  BY <1>4, KindsDiffer
<1>7. Unfreed'
  <2>1. ASSUME NEW r \in AllRecords, NEW f \in FieldSet, NEW x, x = record[r][f], x # None
        PROVE  Copied(x)' /\ (r \notin freed' => x \notin freed')
    <3>1. x \in AllStrings /\ Copied(x)' /\ (r \notin freed => x \notin freed)
      BY <1>2, <1>5, <2>1 DEF Unfreed
    <3>2. x \in Held(t) => r = q /\ pc[t] = "purge"
      BY <1>3, <1>4, <2>1, <3>1 DEF Loose
    <3>3. x \in Held(t) => r \in freed'
      BY <1>4, <3>2
    <3> QED BY <1>4, <1>6, <3>1, <3>3
  <2>2. \A r \in AllRecords, f \in FieldSet : record'[r][f] # None =>
          Copied(record[r][f])' /\ (r \notin freed' => record'[r][f] \notin freed')
    BY <1>4, <2>1 DEF Copied
  <2>3. \A x \in AllStrings \cap freed' : Copied(x)'
    BY <1>2, <1>6 DEF Unfreed, Loose
  <2> QED BY <1>4, <2>2, <2>3 DEF Unfreed
<1>8. Once'
  BY <1>4 DEF Once
<1>9. ASSUME NEW u \in Threads \ {t}, NEW x \in AllStrings, x \in Held(u), x \in Held(t)
      PROVE  Excused(u)'
  <2>1. job[t].op \in met[u] /\ ~(pc[u] = "release" /\ pc[t] = "release")
        /\ job[u].table = job[t].table
    BY <1>9, HandsMeet
  <2>2. ~(pc[u] = "purge" /\ pc[t] = "purge")
    BY <2>1 DEF Deletes, Deleting, Orderly
  <2>3. Excused(u)
    BY <1>4, <2>1, <2>2 DEF Excused
  <2> QED BY <1>1, <2>3
<1>10. Loose'
  <2>1. ASSUME NEW u \in Threads, NEW x \in AllStrings, x \in Held(u)'
        PROVE  /\ u # t /\ x \in Held(u)
               /\ Copied(x)' /\ (x \in freed' => Excused(u)')
               /\ \A r \in AllRecords, f \in FieldSet : record'[r][f] = x =>
                    r = job'[u].table /\ pc'[u] # "release"
    <3>1. u # t /\ x \in Held(u)
      BY <1>1, <1>4, <2>1
    <3>2. x \in freed' => Excused(u)'
      BY <1>1, <1>6, <1>9, <3>1 DEF Loose
    <3> QED BY <1>1, <1>2, <1>4, <3>1, <3>2 DEF Loose
  <2>2. \A u, w \in Threads, x \in AllStrings : u # w /\ x \in Held(u)' /\ x \in Held(w)' =>
          job'[u].table = job'[w].table /\ ~(pc'[u] = "release" /\ pc'[w] = "release")
    BY <1>1, <2>1 DEF Loose
  <2> QED BY <2>1, <2>2 DEF Loose
<1>11. QED
  BY <1>7, <1>8, <1>10

\* What a step adds to the misuses is the fault of calls that ran with it.
LEMMA BlamedStep ==
  ASSUME HashTyped, Orderly, Records, Deletes, Loose, Blamed, NEW t \in Threads, Step(t)
  PROVE  Blamed'
<1>1. bad' = bad => Blamed'
  BY DEF Blamed
<1>2. ASSUME NEW how \in {"use", "free"}, NEW things, Misuse(t, how, things),
             things \cap freed # {} =>
               /\ how = "use" => "delete" \in met[t] \/ (job[t].op = "read" /\ "update" \in met[t])
               /\ how = "free" => \/ job[t].op = "update" /\ "delete" \in met[t]
                                  \/ job[t].op = "delete" /\ "update" \in met[t]
      PROVE  Blamed'
  <2>1. PICK b : b = [how |-> how, op |-> job[t].op, met |-> met[t]]
    OBVIOUS
  <2>2. b.how = how /\ b.op = job[t].op /\ b.met = met[t]
    BY <2>1
  <2>3. bad' = bad \/ (things \cap freed # {} /\ bad' = bad \cup {b})
    BY <1>2, <2>1 DEF Misuse
  <2> QED BY <1>2, <2>2, <2>3 DEF Blamed
<1>3. CASE AddField(t) \/ SwapField(t) \/ AddMissing(t) \/ Entries(t)
  <2>1. /\ pc[t] \in {"add", "swap", "missing", "entries"} /\ Holds(t)
        /\ Misuse(t, "use", {job[t].table})
    BY <1>3 DEF AddField, SwapField, AddMissing, Entries, Touch, Holds
  <2>2. job[t].table \in freed => "delete" \in met[t]
    BY <2>1 DEF Deletes
  <2> QED BY <1>2, <2>1, <2>2
<1>4. CASE CopyOut(t)
  <2>1. pc[t] = "copy" /\ Misuse(t, "use", job[t].held) /\ job[t].held \subseteq AllStrings
        /\ Held(t) = job[t].held /\ job[t].op = "read"
    BY <1>4, AtWork DEF CopyOut, Touch, Held, Orderly
  <2>2. job[t].held \cap freed # {} => "delete" \in met[t] \/ "update" \in met[t]
    BY <2>1 DEF Loose, Excused
  <2> QED BY <1>2, <2>1, <2>2
<1>5. CASE DeleteOld(t)
  <2>1. pc[t] = "release" /\ Misuse(t, "free", job[t].held) /\ job[t].held \subseteq AllStrings
        /\ Held(t) = job[t].held /\ job[t].op = "update"
    BY <1>5, AtWork DEF DeleteOld, Release, Held, Orderly
  <2>2. job[t].held \cap freed # {} => "delete" \in met[t]
    BY <2>1 DEF Loose, Excused
  <2> QED BY <1>2, <2>1, <2>2
<1>6. CASE DeleteRecord(t)
  <2>1. pc[t] = "purge" /\ Misuse(t, "free", job[t].held \cup {job[t].table})
        /\ job[t].held \subseteq AllStrings /\ Held(t) = job[t].held /\ job[t].op = "delete"
    BY <1>6, AtWork DEF DeleteRecord, Release, Held, Orderly
  <2>2. job[t].table \notin freed
    BY <2>1 DEF Deletes, Deleting
  <2>3. (job[t].held \cup {job[t].table}) \cap freed # {} => "update" \in met[t]
    BY <2>1, <2>2 DEF Loose, Excused
  <2> QED BY <1>2, <2>1, <2>3
<1>7. CASE Call(t) \/ FindRecord(t) \/ Publish(t)
  BY <1>1, <1>7 DEF Call, FindRecord, Publish
<1>8. QED
  BY <1>3, <1>4, <1>5, <1>6, <1>7 DEF Step

LEMMA OwnedStep ==
  ASSUME HashTyped, Orderly, Overlapping, Records, Deletes, Owned, NEW t \in Threads, Step(t)
  PROVE  Owned'
<1>1. Unfreed /\ Once /\ Loose /\ Blamed
  BY DEF Owned
<1>2. Unfreed' /\ Once' /\ Loose'
  BY <1>1, StepIs, LooksOwned, PutsOwned, EntriesOwned, FreesOwned
<1>3. Blamed'
  BY <1>1, BlamedStep
<1>4. QED
  BY <1>2, <1>3 DEF Owned

-----------------------------------------------------------------------------
(***************************************************************************)
(* What a call has been through: the fields before its own are filled.     *)
(***************************************************************************)
FilledTo(t, n) == \A j \in 1..Len(Fields) : j <= n => record[job[t].table][Fields[j]] # None

Filled == \A t \in Threads :
  /\ pc[t] \in {"get", "publish"} => job[t].i = 1
  /\ pc[t] \in {"add", "swap", "missing"} => FilledTo(t, job[t].i - 1)
  /\ pc[t] = "release" => FilledTo(t, job[t].i)

\* A field that is filled stays so.
LEMMA FieldsStay ==
  ASSUME HashTyped, NEW t \in Threads, Step(t),
         NEW r \in AllRecords, NEW f \in FieldSet, record[r][f] # None
  PROVE  record'[r][f] # None
<1>1. CASE AddField(t) \/ SwapField(t) \/ AddMissing(t)
  <2>1. pc[t] \in {"add", "swap", "missing"} /\ (Put(t) \/ record' = record)
    BY <1>1 DEF AddField, SwapField, AddMissing
  <2>2. String(t) \in AllStrings /\ job[t].table \in AllRecords /\ Field(t) \in FieldSet
    BY <2>1, AtWork
  <2> QED BY <2>1, <2>2, PutWhere, KindsDiffer
<1>2. CASE ~(AddField(t) \/ SwapField(t) \/ AddMissing(t))
  BY <1>2 DEF Step, Call, FindRecord, Publish, DeleteOld, Entries, CopyOut, DeleteRecord
<1>3. QED
  BY <1>1, <1>2

\* Where the fields of a call are when it goes on.
LEMMA FillsNext ==
  ASSUME HashTyped, Filled, NEW t \in Threads, Step(t),
         pc[t] \in {"add", "swap", "missing", "release"}
  PROVE  /\ pc'[t] \in {"add", "swap", "missing"} => FilledTo(t, job[t].i - 1)'
         /\ pc'[t] = "release" => FilledTo(t, job[t].i)'
         /\ pc'[t] = "idle" /\ ~(job[t].op = "insert" /\ job'[t] = job[t]) =>
              \A j \in 1..Len(Fields) : record'[job[t].table][Fields[j]] # None
<1>1. /\ job[t] \in Jobs /\ job[t].table \in AllRecords /\ job[t].i \in 1..Len(Fields)
      /\ Len(Fields) \in Nat /\ Field(t) \in FieldSet /\ String(t) \in AllStrings
  BY AtWork, FieldFacts
<1> DEFINE q == job[t].table
           n == job[t].i
           Full(m) == \A j \in 1..Len(Fields) : j <= m => record'[q][Fields[j]] # None
<1>2. pc[t] # "release" => Full(n - 1)
  BY <1>1, FieldsStay, FieldFacts DEF Filled, FilledTo
<1>3. pc[t] = "release" => Full(n)
  BY <1>1, FieldsStay, FieldFacts DEF Filled, FilledTo
<1>4. job'[t].table = q
  BY WorkIs DEF Works, Call, FindRecord, Publish
<1>5. Full(n - 1) /\ record'[q][Field(t)] # None => Full(n)
  BY <1>1 DEF Field
<1>6. record' = record /\ Slot(t) # None => record'[q][Field(t)] # None
  BY DEF Slot
<1>7. pc[t] # "release" /\ Put(t) => record'[q][Field(t)] # None
  BY <1>1, PutWhere, KindsDiffer
<1>8. ASSUME Full(n), NEW again \in {"add", "swap"}, job'[t].i = n + 1,
             pc'[t] = IF n < Len(Fields) THEN again ELSE "idle"
      PROVE  /\ pc'[t] # "release"
             /\ pc'[t] # "idle" => Full(job'[t].i - 1)
             /\ pc'[t] = "idle" => Full(Len(Fields))
  BY <1>1, <1>8
<1>9. ASSUME NEW again, Advance(t, again)
      PROVE  job'[t].i = n + 1 /\ pc'[t] = IF n < Len(Fields) THEN again ELSE "idle"
  BY <1>1, <1>9 DEF Advance, Goto, HashTyped, Jobs
<1>10. CASE AddField(t)
  <2>1. pc[t] = "add"
    BY <1>10 DEF AddField
  <2>2. CASE Put(t) /\ Advance(t, "add")
    <3>1. Full(n)
      BY <1>2, <1>5, <1>7, <2>1, <2>2
    <3> HIDE DEF Full
    <3>2. /\ pc'[t] # "release" /\ (pc'[t] # "idle" => Full(job'[t].i - 1))
          /\ pc'[t] = "idle" => Full(Len(Fields))
      BY <1>8, <1>9, <2>2, <3>1
    <3> QED BY <1>1, <1>4, <3>2 DEF FilledTo, Full
  <2>3. CASE Slot(t) # None /\ record' = record
    <3>1. CASE Goto(t, "idle") /\ UNCHANGED job /\ job[t].op = "insert"
      BY <3>1 DEF Goto, HashTyped
    <3>2. CASE Advance(t, "add")
      <4>1. Full(n)
        BY <1>2, <1>5, <1>6, <2>1, <2>3
      <4> HIDE DEF Full
      <4>2. /\ pc'[t] # "release" /\ (pc'[t] # "idle" => Full(job'[t].i - 1))
            /\ pc'[t] = "idle" => Full(Len(Fields))
        BY <1>8, <1>9, <3>2, <4>1
      <4> QED BY <1>1, <1>4, <4>2 DEF FilledTo, Full
    <3> QED BY <1>10, <2>3, <3>1, <3>2 DEF AddField
  <2> QED BY <1>10, <2>2, <2>3 DEF AddField
<1>11. CASE SwapField(t)
  <2>1. pc[t] = "swap"
    BY <1>11 DEF SwapField
  <2>2. CASE Goto(t, "missing") /\ UNCHANGED job
    BY <1>1, <1>2, <2>1, <2>2 DEF Goto, HashTyped, FilledTo
  <2>3. CASE Put(t) /\ Goto(t, "release") /\ job' = [job EXCEPT ![t].held = {Slot(t)}]
    <3>1. Full(n)
      BY <1>2, <1>5, <1>7, <2>1, <2>3
    <3>2. pc'[t] = "release" /\ job'[t].i = n
      BY <1>1, <2>3 DEF Goto, HashTyped, Jobs
    <3> QED BY <1>4, <3>1, <3>2 DEF FilledTo
  <2> QED BY <1>11, <2>2, <2>3 DEF SwapField
<1>12. CASE AddMissing(t)
  <2>1. pc[t] = "missing" /\ Advance(t, "swap")
    BY <1>12 DEF AddMissing
  <2>2. Full(n)
    BY <1>2, <1>5, <1>6, <1>7, <1>12, <2>1 DEF AddMissing
  <2> HIDE DEF Full
  <2>3. /\ pc'[t] # "release" /\ (pc'[t] # "idle" => Full(job'[t].i - 1))
        /\ pc'[t] = "idle" => Full(Len(Fields))
    BY <1>8, <1>9, <2>1, <2>2
  <2> QED BY <1>1, <1>4, <2>3 DEF FilledTo, Full
<1>13. CASE DeleteOld(t)
  <2>1. pc[t] = "release"
    BY <1>13 DEF DeleteOld
  <2>2. job'[t].i = n + 1 /\ pc'[t] = IF n < Len(Fields) THEN "swap" ELSE "idle"
    BY <1>1, <1>13 DEF DeleteOld, Goto, HashTyped, Jobs
  <2>3. Full(n)
    BY <1>3, <2>1
  <2> HIDE DEF Full
  <2>4. /\ pc'[t] # "release" /\ (pc'[t] # "idle" => Full(job'[t].i - 1))
        /\ pc'[t] = "idle" => Full(Len(Fields))
    BY <1>8, <2>2, <2>3
  <2> QED BY <1>1, <1>4, <2>4 DEF FilledTo, Full
<1>14. QED
  BY <1>10, <1>11, <1>12, <1>13 DEF Step, Call, FindRecord, Publish, Entries, CopyOut,
     DeleteRecord

LEMMA FilledInit == HashInit => Filled
  BY DEF HashInit, Filled

LEMMA FilledStep ==
  ASSUME HashTyped, Filled, NEW t \in Threads, Step(t)
  PROVE  Filled'
<1> SUFFICES ASSUME NEW u \in Threads
             PROVE  /\ pc'[u] \in {"get", "publish"} => job'[u].i = 1
                    /\ pc'[u] \in {"add", "swap", "missing"} => FilledTo(u, job[u].i - 1)'
                    /\ pc'[u] = "release" => FilledTo(u, job[u].i)'
  BY DEF Filled
<1>1. Len(Fields) \in Nat
  BY FieldFacts
<1>2. CASE u # t
  <2>1. pc'[u] = pc[u] /\ job'[u] = job[u]
    BY <1>2, OthersStay
  <2>2. pc[u] \notin {"idle", "get", "publish"} => job[u].table \in AllRecords
    BY DEF HashTyped
  <2>3. ASSUME NEW n, FilledTo(u, n), pc[u] \notin {"idle", "get", "publish"}
        PROVE  \A j \in 1..Len(Fields) : j <= n => record'[job[u].table][Fields[j]] # None
    BY <2>2, <2>3, FieldsStay, FieldFacts DEF FilledTo
  <2> QED BY <2>1, <2>3 DEF Filled, FilledTo
<1>3. CASE u = t /\ pc[t] \in {"add", "swap", "missing", "release"}
  <2>1. pc'[t] \notin {"get", "publish"}
    BY <1>3, WorkIs DEF Works, Follows, Call, FindRecord, Publish, HashTyped, Places
  <2> QED BY <1>3, <2>1, FillsNext
<1>4. CASE u = t /\ pc[t] \in {"entries", "copy", "purge"}
  <2>1. pc'[t] \in {"copy", "purge", "idle"}
    BY <1>4, WorkIs DEF Works, Follows, Call, FindRecord, Publish, HashTyped, Places
  <2> QED BY <1>4, <2>1
<1>5. CASE u = t /\ Call(t)
  <2>1. Call(t)
    BY <1>5
  <2>2. PICK op \in Ops, k \in Keys :
          /\ pc'[t] = "get"
          /\ job'[t] = [op |-> op, key |-> k, i |-> 1, table |-> None, held |-> {}]
    BY <2>1, CallBegins
  <2>3. job'[t].i = 1
    BY <2>2
  <2> QED BY <1>5, <2>2, <2>3
<1>6. CASE u = t /\ FindRecord(t)
  <2>1. /\ pc[t] = "get" /\ job'[t].i = job[t].i
        /\ pc'[t] \in {"publish", "add", "swap", "idle", "entries"}
    BY <1>6, FindLeads
  <2>2. job'[t].i = 1
    BY <2>1 DEF Filled
  <2> QED BY <1>1, <1>6, <2>1, <2>2 DEF FilledTo
<1>7. CASE u = t /\ Publish(t)
  <2>1. pc[t] = "publish" /\ job[t] \in Jobs
    BY <1>7, AtWork DEF Publish
  <2>2. job'[t].i = job[t].i /\ pc'[t] = "add"
    BY <1>7, <2>1 DEF Publish, Goto, HashTyped, Jobs
  <2>3. job'[t].i = 1
    BY <2>1, <2>2 DEF Filled
  <2> QED BY <1>1, <1>7, <2>2, <2>3 DEF FilledTo
<1>8. QED
  <2>1. Works(t) => pc[t] \in {"add", "swap", "missing", "release", "entries", "copy", "purge"}
    BY DEF Works, HashTyped, Places
  <2> QED BY <1>2, <1>3, <1>4, <1>5, <1>6, <1>7, <2>1, WorkIs

-----------------------------------------------------------------------------
(***************************************************************************)
(* Theorems.                                                               *)
(***************************************************************************)
HashInv == HashTyped /\ Orderly /\ Overlapping /\ Records /\ Deletes /\ Found /\ Owned /\ Filled

(* Whatever the callers do and however they overlap, every record and every *)
(* string has the owner that the operations (hashtable_db.cc:21-127) take    *)
(* it to have, but for those that an overlapping delete or update took.      *)
THEOREM HashStoreInvariance == HashSpec => []HashInv
<1>1. HashInit => HashInv
  BY HashTypedInit, OrderlyInit, RecordsInit, OwnedInit, FilledInit DEF HashInv
<1>2. HashInv /\ [HashNext]_hashVars => HashInv'
  <2> SUFFICES ASSUME HashInv, [HashNext]_hashVars PROVE HashInv'
    OBVIOUS
  <2>1. CASE UNCHANGED hashVars
    <3>1. HashTyped' /\ Orderly' /\ Overlapping'
      BY <2>1 DEF hashVars, HashInv, HashTyped, Orderly, Overlapping
    <3>2. Records' /\ Deletes' /\ Found'
      BY <2>1 DEF hashVars, HashInv, Records, Deletes, Found, Made, Holds, Deleting, Lone, Me
    <3>3. Owned' /\ Filled'
      BY <2>1 DEF hashVars, HashInv, Owned, Unfreed, Once, Loose, Blamed, Copied, Held, Excused,
         Filled, FilledTo
    <3> QED BY <3>1, <3>2, <3>3 DEF HashInv
  <2>2. CASE HashNext
    <3>1. PICK t \in Threads : Step(t)
      BY <2>2 DEF HashNext, Step
    <3> QED BY <3>1, HashTypedStep, OrderlyStep, RecordsStep, OwnedStep, FilledStep DEF HashInv
  <2> QED BY <2>1, <2>2
<1>3. QED
  BY <1>1, <1>2, PTL DEF HashSpec

(* No record that a key leads to was given back or holds a string that was, *)
(* and a string is given back twice only by an update and a delete of the    *)
(* key that overlap (hashtable_db.cc:87-91, 118-125).                        *)
THEOREM StringsStayLive == HashSpec => []RecordsHoldLiveStrings
<1>1. HashInv => RecordsHoldLiveStrings
  <2> SUFFICES ASSUME HashInv PROVE RecordsHoldLiveStrings
    OBVIOUS
  <2>1. ASSUME NEW k \in Keys, key_table[k] # None
        PROVE  (Strings(key_table[k]) \cup {key_table[k]}) \cap freed = {}
    <3>1. key_table[k] \in AllRecords /\ key_table[k] \notin freed
      BY <2>1 DEF HashInv, HashTyped, Records
    <3> QED BY <3>1, StringsAre DEF HashInv, Owned, Unfreed
  <2> QED BY <2>1 DEF HashInv, Owned, Blamed, RecordsHoldLiveStrings
<1>2. QED
  BY <1>1, HashStoreInvariance, PTL

(* A call uses a string or a record that was given back only if a delete of *)
(* its key overlaps it, or if it is a read and an update of its key does     *)
(* (hashtable_db.cc:21-41, 73-127).                                          *)
THEOREM NothingFreedIsUsed == HashSpec => []NoUseAfterFree
<1>1. HashInv => NoUseAfterFree
  BY DEF HashInv, Owned, Blamed, NoUseAfterFree
<1>2. QED
  BY <1>1, HashStoreInvariance, PTL

(* When Insert() or Update() has returned zero, every field of the record   *)
(* that the key leads to has a value, unless a delete of the key overlapped  *)
(* the call, or the call found no record and another writer of the key       *)
(* overlapped it (hashtable_db.cc:73-116).                                   *)
THEOREM AcknowledgedIsWritten == HashSpec => WrittenWhenReturned
<1> DEFINE Kept(t) ==
      LET ok == /\ pc[t] \in {"add", "release", "missing"} /\ pc'[t] = "idle"
                /\ ~(job[t].op = "insert" /\ job'[t] = job[t])
          r == key_table'[job[t].key]
      IN  ok /\ Lone(t) =>
            r = job[t].table /\ None \notin {record'[r][Fields[i]] : i \in DOMAIN Fields}
<1>1. HashInv /\ [HashNext]_hashVars => [\A t \in Threads : Kept(t)]_hashVars
  <2> SUFFICES ASSUME HashInv, HashNext, NEW t \in Threads,
                      pc[t] \in {"add", "release", "missing"}, pc'[t] = "idle",
                      ~(job[t].op = "insert" /\ job'[t] = job[t]), Lone(t)
               PROVE  /\ key_table'[job[t].key] = job[t].table
                      /\ None \notin {record'[job[t].table][Fields[i]] : i \in DOMAIN Fields}
    BY DEF hashVars
  <2>1. HashTyped /\ Filled /\ Found
    BY DEF HashInv
  <2>2. Step(t)
    <3>1. PICK u \in Threads : Step(u)
      BY DEF HashNext, Step
    <3>2. u = t
      BY <2>1, <3>1, OthersStay
    <3> QED BY <3>1, <3>2
  <2>3. \A j \in 1..Len(Fields) : record'[job[t].table][Fields[j]] # None
    BY <2>1, <2>2, FillsNext
  <2>4. key_table' = key_table
    BY <2>1, <2>2, WorkIs DEF Works, Call, FindRecord, Publish
  <2> QED BY <2>1, <2>3, <2>4, FieldFacts DEF Found
<1>2. QED
  BY <1>1, HashStoreInvariance, PTL DEF HashSpec, WrittenWhenReturned
=============================================================================
