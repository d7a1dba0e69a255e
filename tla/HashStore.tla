------------------------------ MODULE HashStore -----------------------------
(***************************************************************************)
(* The in-memory stores of RDMA/CPU/db (lock_stl, tbb_rand, tbb_scan): a   *)
(* table of records by key, a record being a table of strings by field.    *)
(* Each table locks itself for one call; HashtableDB makes several calls   *)
(* for an operation, and frees the strings and records it takes out.       *)
(***************************************************************************)
EXTENDS Naturals, Sequences

CONSTANTS
  Threads, Keys,
  Fields,     \* the fields of a record, as a sequence
  None,       \* a null pointer
  Ops,        \* operations the threads may call
  MaxOps      \* bound: operations of a thread

AllRecords == Threads \X (1..MaxOps)
AllStrings == Threads \X (1..MaxOps) \X (1..Len(Fields))

ASSUME HashAssumption ==
  /\ Fields # <<>> /\ Fields \in Seq({Fields[i] : i \in DOMAIN Fields})
  /\ MaxOps \in Nat /\ None \notin AllRecords \cup AllStrings
  /\ Ops \subseteq {"insert", "update", "read", "delete"}

VARIABLES
  key_table,  \* the record of each key, or None
  record,     \* the field tables, by the call that made them
  freed,      \* strings and records given back
  bad,        \* history: uses and releases of what had been freed
  met,        \* history: what ran on its key while a thread's call did
  pc, job,    \* where each thread is, and its call: operation, key, field ...
  calls,      \* calls each thread has begun
  issued      \* keys handed out for inserts

hashVars == <<key_table, record, freed, bad, met, pc, job, calls, issued>>

Me(t) == <<t, calls[t]>>                           \* a record made by this call
String(t) == <<t, calls[t], job[t].i>>             \* the copy of its i-th value
Field(t) == Fields[job[t].i]
Slot(t) == record[job[t].table][Field(t)]
NoJob == [op |-> "none"]

HashInit ==
  /\ key_table = [k \in Keys |-> None]
  /\ record = [r \in AllRecords |-> [f \in {Fields[i] : i \in DOMAIN Fields} |-> None]]
  /\ freed = {} /\ bad = {} /\ met = [t \in Threads |-> {}]
  /\ pc = [t \in Threads |-> "idle"] /\ job = [t \in Threads |-> NoJob]
  /\ calls = [t \in Threads |-> 0]
  /\ issued = {}

Goto(t, l) == pc' = [pc EXCEPT ![t] = l]
Misuse(t, how, things) ==
  bad' = IF things \cap freed = {} THEN bad
         ELSE bad \cup {[how |-> how, op |-> job[t].op, met |-> met[t]]}
Touch(t, things) == Misuse(t, "use", things)
Release(t, things) == freed' = freed \cup things /\ Misuse(t, "free", things)

OnKey(u, k) == pc[u] # "idle" /\ job[u].key = k

\* The workload hands out each key once; all else is about keys it has handed out.
Call(t) ==
  /\ pc[t] = "idle" /\ calls[t] < MaxOps
  /\ calls' = [calls EXCEPT ![t] = @ + 1]
  /\ \E op \in Ops, k \in Keys :
       /\ op = "insert" <=> k \notin issued
       /\ issued' = issued \cup {k}
       /\ job' = [job EXCEPT ![t] =
            [op |-> op, key |-> k, i |-> 1, table |-> None, held |-> {}]]
       /\ met' = [u \in Threads |->
            IF u = t THEN {job[w].op : w \in {w \in Threads : OnKey(w, k)}}
            ELSE IF OnKey(u, k) THEN met[u] \cup {op} ELSE met[u]]
  /\ Goto(t, "get")
  /\ UNCHANGED <<key_table, record, freed, bad>>

\* key_table_->Get(), or Remove() in Delete().
FindRecord(t) ==
  /\ pc[t] = "get"
  /\ LET k == job[t].key IN
       /\ job' = [job EXCEPT ![t].table = key_table[k]]
       /\ key_table' = IF job[t].op = "delete" THEN [key_table EXCEPT ![k] = None]
                       ELSE key_table
       /\ Goto(t, CASE key_table[k] = None ->
                         IF job[t].op \in {"insert", "update"} THEN "publish" ELSE "idle"
                    [] OTHER ->
                         CASE job[t].op = "insert" -> "add" [] job[t].op = "update" -> "swap"
                           [] OTHER -> "entries")
  /\ UNCHANGED <<record, freed, bad, calls, issued, met>>

(* NewFieldHashtable() and key_table_->Insert(), whose result is ignored:  *)
(* if another thread was first the new record is in no table.              *)
Publish(t) ==
  /\ pc[t] = "publish"
  /\ job' = [job EXCEPT ![t].table = Me(t)]
  /\ key_table' = [key_table EXCEPT ![job[t].key] = IF @ = None THEN Me(t) ELSE @]
  /\ Goto(t, "add")
  /\ UNCHANGED <<record, freed, bad, calls, issued, met>>

\* Faulty variant: the loop over the fields stops before the last.
AdvanceShort(t, again) ==
  /\ job' = [job EXCEPT ![t].i = @ + 1]
  /\ Goto(t, IF job[t].i + 1 < Len(Fields) THEN again ELSE "idle")

\* for (KVPair &field_pair : values)
Advance(t, again) ==
  /\ job' = [job EXCEPT ![t].i = @ + 1]
  /\ Goto(t, IF job[t].i < Len(Fields) THEN again ELSE "idle")

Put(t) == record' = [record EXCEPT ![job[t].table][Field(t)] = String(t)]

(* field_table->Insert().  Insert() frees its copy and gives up if the     *)
(* field is taken; Update() does not look, and its copy is lost.           *)
AddField(t) ==
  /\ pc[t] = "add"
  /\ Touch(t, {job[t].table})
  /\ \/ Slot(t) = None /\ Put(t) /\ Advance(t, "add")
     \/ /\ Slot(t) # None /\ UNCHANGED record
        /\ IF job[t].op = "insert" THEN Goto(t, "idle") /\ UNCHANGED job
           ELSE Advance(t, "add")
  /\ UNCHANGED <<key_table, freed, calls, issued, met>>

\* Faulty variant: the old string is looked up first and replaced later.
SwapFieldInTwo(t) ==
  /\ pc[t] = "swap"
  /\ Touch(t, {job[t].table})
  /\ IF job[t].held = {} /\ Slot(t) # None
     THEN /\ job' = [job EXCEPT ![t].held = {Slot(t)}]
          /\ UNCHANGED <<record, pc>>
     ELSE /\ Put(t) /\ Goto(t, "release") /\ UNCHANGED job
  /\ UNCHANGED <<key_table, freed, calls, issued, met>>

\* field_table->Update(): swaps the strings in one call.
SwapField(t) ==
  /\ pc[t] = "swap"
  /\ Touch(t, {job[t].table})
  /\ IF Slot(t) = None
     THEN Goto(t, "missing") /\ UNCHANGED <<record, job>>
     ELSE /\ Put(t) /\ Goto(t, "release")
          /\ job' = [job EXCEPT ![t].held = {Slot(t)}]
  /\ UNCHANGED <<key_table, freed, calls, issued, met>>

\* ... and field_table->Insert() if there was none, whose result is ignored.
AddMissing(t) ==
  /\ pc[t] = "missing"
  /\ Touch(t, {job[t].table})
  /\ IF Slot(t) = None THEN Put(t) ELSE UNCHANGED record
  /\ Advance(t, "swap")
  /\ UNCHANGED <<key_table, freed, calls, issued, met>>

\* Faulty variant: what was taken out is freed as a field table, record and all.
DeleteOldRecord(t) ==
  /\ pc[t] = "release"
  /\ Release(t, job[t].held \cup {job[t].table})
  /\ job' = [job EXCEPT ![t].i = @ + 1, ![t].held = {}]
  /\ Goto(t, IF job[t].i < Len(Fields) THEN "swap" ELSE "idle")
  /\ UNCHANGED <<key_table, record, calls, issued, met>>

\* DeleteString(old)
DeleteOld(t) ==
  /\ pc[t] = "release"
  /\ Release(t, job[t].held)
  /\ job' = [job EXCEPT ![t].i = @ + 1, ![t].held = {}]
  /\ Goto(t, IF job[t].i < Len(Fields) THEN "swap" ELSE "idle")
  /\ UNCHANGED <<key_table, record, calls, issued, met>>

Strings(r) == {record[r][Fields[i]] : i \in DOMAIN Fields} \ {None}

\* Read(), Scan() for each record, and DeleteFieldHashtable(): the pointers first ...
Entries(t) ==
  /\ pc[t] = "entries"
  /\ Touch(t, {job[t].table})
  /\ job' = [job EXCEPT ![t].held = Strings(job[t].table)]
  /\ Goto(t, IF job[t].op = "read" THEN "copy" ELSE "purge")
  /\ UNCHANGED <<key_table, record, freed, calls, issued, met>>

\* ... and what they point to when the lock is gone: a read copies it ...
CopyOut(t) ==
  /\ pc[t] = "copy"
  /\ Touch(t, job[t].held)
  /\ Goto(t, "idle")
  /\ UNCHANGED <<key_table, record, freed, job, calls, issued, met>>

\* ... and a delete gives it back, and the table.
DeleteRecord(t) ==
  /\ pc[t] = "purge"
  /\ Release(t, job[t].held \cup {job[t].table})
  /\ Goto(t, "idle")
  /\ UNCHANGED <<key_table, record, job, calls, issued, met>>

HashNext == \E t \in Threads :
  \/ Call(t) \/ FindRecord(t) \/ Publish(t) \/ AddField(t) \/ SwapField(t)
  \/ AddMissing(t) \/ DeleteOld(t) \/ Entries(t) \/ CopyOut(t) \/ DeleteRecord(t)
HashSpec == HashInit /\ [][HashNext]_hashVars

-----------------------------------------------------------------------------
(* Properties.                                                             *)

(* No record that a key leads to was given back or holds a string that was, *)
(* and a string is given back twice only when an update and a delete of the  *)
(* key overlap: both may have taken it for theirs.                           *)
RecordsHoldLiveStrings ==
  /\ \A k \in Keys : key_table[k] # None =>
       (Strings(key_table[k]) \cup {key_table[k]}) \cap freed = {}
  /\ \A b \in bad : b.how = "free" =>
       \/ b.op = "update" /\ "delete" \in b.met
       \/ b.op = "delete" /\ "update" \in b.met

(* A call uses what was given back only if a delete of its key ran at the   *)
(* same time, or if it is a read, which holds pointers without a lock, and  *)
(* an update of its key did: whoever comes later never meets it.            *)
NoUseAfterFree ==
  \A b \in bad : b.how = "use" =>
    "delete" \in b.met \/ (b.op = "read" /\ "update" \in b.met)

\* No delete of its key ran with it and, if it found no record, no other writer.
Lone(t) ==
  /\ "delete" \notin met[t]
  /\ job[t].table = Me(t) => met[t] \cap {"insert", "update"} = {}

(* When Insert() or Update() returns zero every value is in the record of   *)
(* the key, or a newer one is (core/db.h:68-88), unless the key's record    *)
(* was missing and two calls made one, or a delete ran.  Insert() says      *)
(* kErrorConflict when it finds a field taken.                              *)
WrittenWhenReturned ==
  [][\A t \in Threads :
       LET ok == /\ pc[t] \in {"add", "release", "missing"} /\ pc'[t] = "idle"
                 /\ ~(job[t].op = "insert" /\ job'[t] = job[t])
           r == key_table'[job[t].key]
       IN  ok /\ Lone(t) =>
             r = job[t].table /\ None \notin {record'[r][Fields[i]] : i \in DOMAIN Fields}]_hashVars
=============================================================================
