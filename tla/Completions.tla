----------------------------- MODULE Completions ----------------------------
(***************************************************************************)
(* read_remote_node() of RDMA/CPU with its wait for a completion, and the  *)
(* hop loop of RDMARead() around it: one work request, one queue pair, one *)
(* completion queue with its event channel and one buffer for all threads, *)
(* and a result that the loop does not look at.                            *)
(***************************************************************************)
EXTENDS Naturals, Sequences, FiniteSets

CONSTANTS
  Threads,
  Keys,
  NoKey,     \* no key
  Hops,      \* nodes a search reads, the last one its value
  MaxWR,     \* MAX_WR: work requests the queue pair holds
  MaxWork,   \* bound: reads begun and faults, together
  Faulty     \* may calls and reads fail?

ASSUME CompletionsAssumption ==
  /\ Threads # {} /\ IsFiniteSet(Threads)
  /\ NoKey \notin Keys
  /\ Hops \in Nat \ {0} /\ MaxWR \in Nat /\ MaxWork \in Nat /\ Faulty \in BOOLEAN

VARIABLES
  pc,       \* of a thread: "idle", "fill", "post", "event", "arm", "poll", "check"
  key,      \* the key it looks up
  at,       \* the node it reads next: which key's search it lies on, and its depth
  result,   \* the value its last read returned
  begun,    \* reads begun, of all threads
  wr,       \* client_send_wr: the node the work request names
  posted,   \* reads on the queue pair, in order
  broken,   \* the queue pair is in the error state
  cq,       \* completions nobody has polled
  armed,    \* the next completion raises an event
  events,   \* events nobody has got
  node,     \* remote_node: the node that was read last
  alone,    \* history: no other thread has read since this one began
  faults,   \* calls and reads that have failed of themselves
  failed,   \* history: some have, those of a broken queue pair included
  unarmed   \* history: ... and it was the one that arms the queue

threadVars == <<pc, key, at, begun, result, alone>>
qpVars == <<wr, posted, broken, cq, armed, events, node, faults, failed,
            unarmed>>
compVars == <<threadVars, qpVars>>

\* No node: what the buffer holds at first, and a request half written.
Nowhere == [key |-> NoKey, depth |-> 0]

CompInit ==
  /\ pc = [t \in Threads |-> "idle"]
  /\ key = [t \in Threads |-> NoKey]
  /\ at = [t \in Threads |-> [key |-> NoKey, depth |-> 1]]
  /\ begun = 0
  /\ result = [t \in Threads |-> NoKey]
  /\ alone = [t \in Threads |-> FALSE]
  /\ wr = Nowhere
  /\ posted = <<>> /\ broken = FALSE
  /\ cq = <<>> /\ armed = TRUE /\ events = 0   \* as the set-up leaves them
  /\ node = Nowhere
  /\ faults = 0 /\ failed = FALSE /\ unarmed = FALSE

Goto(t, l) == pc' = [pc EXCEPT ![t] = l]

\* Something fails.
Fault == Faulty /\ begun + faults < MaxWork /\ faults' = faults + 1 /\ failed' = TRUE
NoFault == UNCHANGED <<faults, failed>>

\* The caller of a call that fails does not look at its result.
Fails(t) == Fault /\ Goto(t, "check")

\* Faulty variant: the loop looks at the buffer before the first read.
BeginAtCheck(t) ==
  /\ pc[t] = "idle" /\ begun + faults < MaxWork
  /\ begun' = begun + 1
  /\ \E k \in Keys : /\ key' = [key EXCEPT ![t] = k]
                     /\ at' = [at EXCEPT ![t] = [key |-> k, depth |-> 1]]
  /\ alone' = [u \in Threads |-> u = t /\ \A v \in Threads \ {t} : pc[v] = "idle"]
  /\ Goto(t, "check")
  /\ UNCHANGED <<result, qpVars>>

\* RDMARead(): the first read of a lookup starts at the switch.
Begin(t) ==
  /\ pc[t] = "idle" /\ begun + faults < MaxWork
  /\ begun' = begun + 1
  /\ \E k \in Keys : /\ key' = [key EXCEPT ![t] = k]
                     /\ at' = [at EXCEPT ![t] = [key |-> k, depth |-> 1]]
  /\ alone' = [u \in Threads |-> u = t /\ \A v \in Threads \ {t} : pc[v] = "idle"]
  /\ Goto(t, "fill")
  /\ UNCHANGED <<result, qpVars>>

\* read_remote_node() writes client_send_wr, which all threads share.
Fill(t) ==
  /\ pc[t] = "fill"
  /\ wr' = at[t]
  /\ Goto(t, "post")
  /\ UNCHANGED <<key, at, begun, result, alone, posted, broken, cq, armed, events,
                 node, faults, failed, unarmed>>

(* What ibv_post_send() finds in it: what was written last, or a mixture,  *)
(* if another thread is at it.                                             *)
Requests(t) ==
  {wr} \cup (IF \E u \in Threads \ {t} : pc[u] = "fill" THEN {Nowhere} ELSE {})

(* ibv_post_send(): a work request stays on the queue pair until its       *)
(* completion is polled.                                                   *)
Post(t) ==
  /\ pc[t] = "post"
  /\ \/ /\ Len(posted) + Len(cq) < MaxWR
        /\ \E r \in Requests(t) : posted' = Append(posted, r)
        /\ Goto(t, "event") /\ NoFault
     \/ Fails(t) /\ UNCHANGED posted
     \/ /\ Len(posted) + Len(cq) = MaxWR
        /\ Goto(t, "check") /\ failed' = TRUE /\ UNCHANGED <<faults, posted>>
  /\ UNCHANGED <<key, at, begun, result, alone, wr, broken, cq, armed, events,
                 node, unarmed>>

(* The adapter answers in order.  A request half written may read nothing  *)
(* at all.  After an error the queue pair flushes what is posted, with an  *)
(* error each.                                                             *)
Complete ==
  /\ posted # <<>>
  /\ \/ /\ ~broken /\ UNCHANGED broken
        /\ node' = IF Head(posted) = Nowhere THEN node ELSE Head(posted)
        /\ NoFault
     \/ /\ broken' = TRUE /\ UNCHANGED node
        /\ \/ ~broken /\ Fault
           \/ (broken \/ Head(posted) = Nowhere) /\ failed' = TRUE /\ UNCHANGED faults
  /\ posted' = Tail(posted)
  /\ cq' = Append(cq, IF broken' THEN "error" ELSE "ok")
  /\ events' = IF armed THEN events + 1 ELSE events
  /\ armed' = FALSE
  /\ UNCHANGED <<threadVars, wr, unarmed>>

\* process_work_completion_events(): ibv_get_cq_event() ...
GetEvent(t) ==
  /\ pc[t] = "event"
  /\ \/ /\ events > 0 /\ events' = events - 1
        /\ Goto(t, "arm") /\ NoFault
     \/ Fails(t) /\ UNCHANGED events
  /\ UNCHANGED <<key, at, begun, result, alone, wr, posted, broken, cq, armed,
                 node, unarmed>>

\* Faulty variant: the queue is not armed again.
NoRearm(t) ==
  /\ pc[t] = "arm"
  /\ Goto(t, "poll")
  /\ UNCHANGED <<key, at, begun, result, alone, qpVars>>

\* ... ibv_req_notify_cq() ...
Rearm(t) ==
  /\ pc[t] = "arm"
  /\ \/ armed' = TRUE /\ Goto(t, "poll") /\ NoFault /\ UNCHANGED unarmed
     \/ Fails(t) /\ unarmed' = TRUE /\ UNCHANGED armed
  /\ UNCHANGED <<key, at, begun, result, alone, wr, posted, broken, cq, events, node>>

(* ... ibv_poll_cq() until it finds one completion, whoever posted its     *)
(* request.  Its status goes to the caller.                                *)
Poll(t) ==
  /\ pc[t] = "poll"
  /\ \/ cq # <<>> /\ cq' = Tail(cq) /\ Goto(t, "check") /\ NoFault
     \/ Fails(t) /\ UNCHANGED cq
  /\ UNCHANGED <<key, at, begun, result, alone, wr, posted, broken, armed, events,
                 node, unarmed>>

(* RDMARead(): while (!remote_node.isValue), whatever the buffer holds.    *)
(* The next node lies below the one in the buffer.                         *)
Check(t) ==
  /\ pc[t] = "check"
  /\ IF node.depth = Hops
     THEN /\ result' = [result EXCEPT ![t] = node.key]
          /\ Goto(t, "idle") /\ UNCHANGED at
     ELSE /\ at' = [at EXCEPT ![t] = [node EXCEPT !.depth = @ + 1]]
          /\ Goto(t, "fill") /\ UNCHANGED result
  /\ UNCHANGED <<key, begun, alone, qpVars>>

ReadStep(t) ==
  Fill(t) \/ Post(t) \/ GetEvent(t) \/ Rearm(t) \/ Poll(t) \/ Check(t)

CompNext == Complete \/ \E t \in Threads : Begin(t) \/ ReadStep(t)
CompSpec == CompInit /\ [][CompNext]_compVars

-----------------------------------------------------------------------------
(* Properties.                                                             *)

(* Two threads may leave a completion in the queue that one of them waits  *)
(* for in vain, but never both: while every thread waits for an event      *)
(* there is one, or there is a read to come that will raise one.  Failed   *)
(* posts, reads, waits and polls, which RDMARead() ignores, do not change  *)
(* that; a failed ibv_req_notify_cq() does.                                *)
NotAllStuck ==
  (\A t \in Threads : pc[t] = "event") =>
    events > 0 \/ (armed /\ posted # <<>>) \/ unarmed

(* A read with which no other thread's read has overlapped returns the     *)
(* value of its key, however the threads' reads before it were mixed,      *)
(* unless something has failed: the interference of two threads in the     *)
(* work request, the queue and the buffer ends when both are through.      *)
UndisturbedReadsAreRight ==
  [][\A t \in Threads :
       pc[t] = "check" /\ pc'[t] = "idle" /\ alone[t] /\ ~failed
         => result'[t] = key[t]]_compVars

\* Such a read returns.
UndisturbedReadsReturn ==
  \A t \in Threads : pc[t] # "idle" ~> pc[t] = "idle" \/ ~alone[t] \/ failed

(* core/db.h of Read(): "Zero on success, or a non-zero error code on      *)
(* error/record-miss".  RDMARead() always returns kOK, so what it returns  *)
(* would have to be the value of the key it was asked for.                 *)
ResultIsOfTheKey ==
  [][\A t \in Threads :
       pc[t] = "check" /\ pc'[t] = "idle" => result'[t] = key[t]]_compVars
=============================================================================
