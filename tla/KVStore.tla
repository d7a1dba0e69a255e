------------------------------ MODULE KVStore -------------------------------
(***************************************************************************)
(* What core/db.h promises to the threads of the benchmark: a call takes   *)
(* effect once, at a moment between the call and its return; what it       *)
(* returns is what it found at that moment.  Calls may fail to return.     *)
(* What a read of a record that is not there shows is left open.           *)
(***************************************************************************)
EXTENDS Naturals

CONSTANTS
  Clients,   \* threads of the benchmark
  Keys,
  Versions,  \* contents a record may have
  Writers    \* the calls that write what they bring: insert, update

Absent == 0
Calls == [op : {"insert", "read", "update"}, key : Keys, ver : Versions]
NoCall == [op |-> "none"]
NoEffect == [op |-> "none"]

VARIABLES
  store,    \* the contents of each record
  call,     \* the call each thread is in
  effect,   \* what the call found or did, once it has taken effect
  answer    \* what the last call of each thread returned

storeVars == <<store, call, effect, answer>>

StoreInit ==
  /\ store = [k \in Keys |-> Absent]
  /\ call = [c \in Clients |-> NoCall]
  /\ effect = [c \in Clients |-> NoEffect]
  /\ answer = [c \in Clients |-> NoEffect]

Invoke(c) ==
  /\ call[c] = NoCall
  /\ \E r \in Calls : call' = [call EXCEPT ![c] = r]
  /\ UNCHANGED <<store, effect, answer>>

After(r) ==
  IF r.op \in Writers THEN [store EXCEPT ![r.key] = r.ver] ELSE store

\* What the return of a call shows: a read shows the record it found.
Outcomes(r, contents) ==
  IF r.op # "read" THEN {[op |-> r.op]}
  ELSE IF contents[r.key] # Absent
       THEN {[op |-> "read", key |-> r.key, ver |-> contents[r.key]]}
       ELSE [op : {"read"}, key : Keys, ver : Versions]

TakeEffect(c) ==
  /\ call[c] # NoCall /\ effect[c] = NoEffect
  /\ store' = After(call[c])
  /\ \E o \in Outcomes(call[c], store) : effect' = [effect EXCEPT ![c] = o]
  /\ UNCHANGED <<call, answer>>

Return(c) ==
  /\ effect[c] # NoEffect
  /\ answer' = [answer EXCEPT ![c] = effect[c]]
  /\ call' = [call EXCEPT ![c] = NoCall]
  /\ effect' = [effect EXCEPT ![c] = NoEffect]
  /\ UNCHANGED store

StoreNext == \E c \in Clients : Invoke(c) \/ TakeEffect(c) \/ Return(c)

StoreSpec == StoreInit /\ [][StoreNext]_storeVars
=============================================================================
