------------------------------ MODULE Messages ------------------------------
(***************************************************************************)
(* The UDP path of RDMA/CPU: the threads that ycsbc.cc starts anew for     *)
(* each phase, the queue and port numbers the DPDK driver gives them, the  *)
(* NIC queues, and the backend's loop with the tree as a map.  Replies     *)
(* name no request: a thread takes the next packet of its queue.           *)
(* A thread is known by its std::thread::id, which the maps go by.         *)
(***************************************************************************)
EXTENDS Naturals, Sequences, FiniteSets

CONSTANTS
  Ids,        \* what std::thread::id may be; a joined thread's id may return
  NbThreads,  \* threads of a phase, and nb_queues: threadcount
  Records,    \* recordcount: keys 1..Records are loaded
  Operations, \* operationcount, of the later phases
  MaxKey,     \* bound: keys that can be handed out
  First       \* number of the first thread: m[id] = m.size() reads 0 or 1

Keys == 1..MaxKey
Versions == {1, 2}  \* of an insert and of an update
Absent == 0
NoKey == 0
NoCall == [op |-> "none"]
NoEffect == [op |-> "none"]
Calls == [op : {"insert", "read", "update"}, key : Keys, ver : Versions]
Queues == 0..(NbThreads - 1)

Main == "main"

ASSUME MessagesAssumption ==
  /\ IsFiniteSet(Ids) /\ Main \notin Ids
  /\ NbThreads \in Nat \ {0} /\ Cardinality(Ids) >= NbThreads
  /\ First \in {0, 1}
  /\ Records \in Nat /\ Operations \in Nat /\ MaxKey \in Nat /\ Records <= MaxKey

VARIABLES
  phase,   \* of main(): "load", "readonly", "loading", "run", "end"
  pc,      \* of a thread: "out" of the phase, "init", "register", "work", "wait", "done"
  left,    \* operations it has still to do
  due,     \* the key a ReadModifyWrite has read and has still to update
  poll,    \* the queue it polls
  call,    \* its call, NoCall between calls
  effect,  \* history: what the backend did for the call
  answer,  \* what its last call returned
  number,  \* map_queue_id and map_dest_port: the entries, by thread id
  torn,    \* a lookup has fallen into an insert of a map
  init_count,  \* threads that have been through Init()
  rule,    \* flow rules of the NIC: the queue of a port
  wire,    \* requests on their way to the backend
  rx,      \* packets in the frontend's queues
  tree,    \* contents of the backend's records
  issued,  \* keys the counters have handed out
  failed,  \* the process has ended in rte_exit(), an assert or a crash
  down,    \* the backend has crashed, or searches for ever
  lost     \* history: a packet has been lost

mapVars == <<number, torn, init_count, rule>>
netVars == <<mapVars, wire, rx, tree, issued, failed, down, lost>>
threadVars == <<pc, left, due, poll, call, effect, answer>>
msgVars == <<phase, threadVars, netVars>>

Request(c, port) == [from |-> c, call |-> call'[c], port |-> port]
ReplyType(op) ==
  CASE op = "insert" -> "0x0528" [] op = "read" -> "0x0529"
    [] op = "update" -> "0x0530" [] op = "load" -> "0x0601"
ReplyTypes == {ReplyType(op) : op \in {"insert", "read", "update", "load"}}
QueueOf(port) == IF port \in DOMAIN rule THEN rule[port] ELSE 0

-----------------------------------------------------------------------------
Share(total) == total \div NbThreads  \* operations of one thread: num_ops
Joined == \A c \in Ids : pc[c] \in {"out", "done"}

(* async() for each thread of a phase.  Threads of one phase are joined    *)
(* only when all are started, so their ids differ.                         *)
Launched(running) == [c \in Ids |-> IF c \in running THEN "init" ELSE "out"]
Launch(total) ==
  /\ \E S \in SUBSET Ids : Cardinality(S) = NbThreads /\ pc' = Launched(S)
  /\ left' = [c \in Ids |-> Share(total)]

MsgInit ==
  /\ phase = "load"
  /\ \E S \in SUBSET Ids : Cardinality(S) = NbThreads /\ pc = Launched(S)
  /\ left = [c \in Ids |-> Share(Records)]
  /\ due = [c \in Ids |-> NoKey]
  /\ poll = [c \in Ids |-> 0]
  /\ call = [c \in Ids |-> NoCall]
  /\ effect = [c \in Ids |-> NoEffect]
  /\ answer = [c \in Ids |-> NoEffect]
  /\ number = <<>> /\ torn = FALSE /\ init_count = 0 /\ rule = <<>>
  /\ wire = {} /\ rx = [q \in Queues |-> <<>>]
  /\ tree = [k \in Keys |-> Absent]
  /\ issued = {}
  /\ failed = FALSE /\ down = FALSE /\ lost = FALSE

\* BPlusTreeDB::Init() up to the lock: one thread at a time gets further.
EnterInit(c) ==
  /\ pc[c] = "init" /\ \A d \in Ids : pc[d] # "register"
  /\ pc' = [pc EXCEPT ![c] = "register"]
  /\ UNCHANGED <<phase, left, due, poll, call, effect, answer, netVars>>

\* An insert into the maps is under way: a thread with a new id registers.
Growing == \E d \in Ids : pc[d] = "register" /\ d \notin DOMAIN number

(* get_queue_id() and get_dest_port() take no lock.  Beside an insert into *)
(* the map, operator[] may find nothing and make an entry of its own: 0.   *)
(* Two threads have then written to one std::map: from there on anything   *)
(* may happen, and the model follows the process no further.               *)
NumbersSeen(c) ==
  {[queue |-> number[c], port |-> number[c], torn |-> FALSE]} \cup
    (IF Growing
     THEN [queue : {0, number[c]}, port : {0, number[c]}, torn : {TRUE}] ELSE {})

\* Faulty variant: a thread registers again although its id has a number.
NumberAnew(c) == [d \in DOMAIN number \cup {c} |->
  IF d = c THEN First + Cardinality(DOMAIN number) ELSE number[d]]

\* register_queue_id() and register_dest_port(), which go hand in hand.
NumberOf(c) == [d \in DOMAIN number \cup {c} |->
  IF d \in DOMAIN number THEN number[d] ELSE First + Cardinality(DOMAIN number)]

\* Faulty variant: the last of the first nb_queues threads makes no rule.
WantsRuleBefore(count) == count < NbThreads

WantsRule(count) == count <= NbThreads

\* The rest of Init().  The first nb_queues threads also make a flow rule.
Register(c) ==
  /\ pc[c] = "register"
  /\ number' = NumberOf(c)
  /\ init_count' = init_count + 1
  /\ LET q      == number'[c]
         wanted == WantsRule(init_count')
     IN  /\ rule' = IF wanted /\ q \in Queues
                    THEN [p \in DOMAIN rule \cup {q} |-> IF p = q THEN q ELSE rule[p]]
                    ELSE rule
         /\ failed' = (wanted /\ q \notin Queues)
  /\ pc' = [pc EXCEPT ![c] = IF left[c] = 0 THEN "done" ELSE "work"]
  /\ UNCHANGED <<phase, left, due, poll, call, effect, answer,
                 torn, wire, rx, tree, issued, down, lost>>

-----------------------------------------------------------------------------
(* The keys that can be chosen: insert_key_sequence_ starts at recordcount *)
(* and counts what is handed out.  Nothing says that they are in the tree: *)
(* an insert may be on its way, and recordcount be no multiple of threads. *)
Chosen == issued \cup 1..Records
NextKey(k, taken) == k \in Keys \ taken /\ \A j \in Keys \ taken : k <= j

(* The operations of the phases.  Reads of the last phase do not come this *)
(* way, but for the first half of a ReadModifyWrite.                       *)
MayCall(c, r) ==
  /\ r.ver = (IF r.op = "update" THEN 2 ELSE 1)
  /\ CASE phase = "load" -> r.op = "insert" /\ NextKey(r.key, issued)
       [] phase = "readonly" -> r.op = "read" /\ r.key \in Chosen
       [] phase = "run" /\ due[c] # NoKey -> r.op = "update" /\ r.key = due[c]
       [] phase = "run" /\ due[c] = NoKey ->
            IF r.op = "insert" THEN NextKey(r.key, Chosen) ELSE r.key \in Chosen
       [] OTHER -> FALSE

\* What a call does once its thread has looked up queue and port.
SendFrom(c, seen, port) ==
  /\ torn' = seen.torn
  /\ IF seen.queue \in Queues
     THEN /\ poll' = [poll EXCEPT ![c] = seen.queue]
          /\ wire' = wire \cup {Request(c, port)}
          /\ UNCHANGED failed
     ELSE failed' = TRUE /\ UNCHANGED <<poll, wire>>

\* Faulty variant: the destination port is forgotten and stays 0.
SendToPort0(c) ==
  /\ pc[c] = "work"
  /\ \E r \in Calls, seen \in NumbersSeen(c) :
       /\ MayCall(c, r)
       /\ issued' = IF r.op = "insert" THEN issued \cup {r.key} ELSE issued
       /\ call' = [call EXCEPT ![c] = r]
       /\ SendFrom(c, seen, 0)
  /\ pc' = [pc EXCEPT ![c] = "wait"]
  /\ UNCHANGED <<phase, left, due, effect, answer, number, init_count, rule,
                 rx, tree, down, lost>>

\* Read(), Update() and Insert() up to recv_pkt().
Send(c) ==
  /\ pc[c] = "work"
  /\ \E r \in Calls, seen \in NumbersSeen(c) :
       /\ MayCall(c, r)
       /\ issued' = IF r.op = "insert" THEN issued \cup {r.key} ELSE issued
       /\ call' = [call EXCEPT ![c] = r]
       /\ SendFrom(c, seen, seen.port)
  /\ pc' = [pc EXCEPT ![c] = "wait"]
  /\ UNCHANGED <<phase, left, due, effect, answer, number, init_count, rule,
                 rx, tree, down, lost>>

\* RDMARead(), the last phase's read: it needs no packet (see RdmaRead).
ReadRemotely(c) ==
  /\ phase = "run" /\ pc[c] = "work" /\ due[c] = NoKey
  /\ left' = [left EXCEPT ![c] = @ - 1]
  /\ pc' = [pc EXCEPT ![c] = IF left[c] = 1 THEN "done" ELSE "work"]
  /\ UNCHANGED <<phase, due, poll, call, effect, answer, netVars>>

-----------------------------------------------------------------------------
(* What lookup() may come to, as far as an update or an insert can tell: a *)
(* search for a key that is not there ends at another's record, if at all. *)
Replies(r) ==
  IF r.op # "read" THEN {[op |-> r.op, type |-> ReplyType(r.op)]}
  ELSE {[op |-> r.op, type |-> ReplyType(r.op), key |-> k, ver |-> tree[k]] :
          k \in {j \in Keys : /\ tree[j] # Absent
                              /\ tree[r.key] # Absent => j = r.key}}

\* A reply is lost, or gets into the queue that its port's rule names.
Deliver(reply, port) ==
  \/ rx' = [rx EXCEPT ![QueueOf(port)] = Append(@, reply)] /\ UNCHANGED lost
  \/ lost' = TRUE /\ UNCHANGED rx

\* What the reply says, without its type.
Content(reply) ==
  IF reply.op = "read" THEN [op |-> reply.op, key |-> reply.key, ver |-> reply.ver]
  ELSE [op |-> reply.op]

\* Faulty variant: the insert is acknowledged and not made.
HandleReplyOnly(m) ==
  /\ m.from # Main
  /\ wire' = wire \ {m}
  /\ \E reply \in Replies(m.call) :
       /\ Deliver(reply, m.port)
       /\ effect' = [effect EXCEPT ![m.from] = Content(reply)]
  /\ UNCHANGED <<phase, pc, left, due, poll, call, answer, mapVars, tree, issued,
                 failed, down>>

(* One turn of the backend's loop.  handle_update() replies and leaves the *)
(* tree as it is: its call of update() is commented out.                   *)
Handle(m) ==
  /\ m.from # Main
  /\ wire' = wire \ {m}
  /\ tree' = IF m.call.op = "insert" THEN [tree EXCEPT ![m.call.key] = m.call.ver]
             ELSE tree
  /\ \E reply \in Replies(m.call) :
       /\ Deliver(reply, m.port)
       /\ effect' = [effect EXCEPT ![m.from] = Content(reply)]
  /\ UNCHANGED <<phase, pc, left, due, poll, call, answer, mapVars, issued,
                 failed, down>>

\* lookup() of a key that is not there follows a null pointer.
Crash(m) ==
  /\ m.from # Main /\ m.call.op = "read" /\ tree[m.call.key] = Absent
  /\ wire' = wire \ {m} /\ down' = TRUE
  /\ UNCHANGED <<phase, threadVars, mapVars, rx, tree, issued, failed, lost>>

\* A request that is dropped, by a full ring or on the way.
Lose(m) ==
  /\ wire' = wire \ {m} /\ lost' = TRUE
  /\ UNCHANGED <<phase, threadVars, mapVars, rx, tree, issued, failed, down>>

\* The call returns: the key of a read that an update follows, and the count.
Count(c, last) ==
  IF phase = "run" /\ call[c].op = "read"
  THEN /\ due' = [due EXCEPT ![c] = call[c].key]
       /\ pc' = [pc EXCEPT ![c] = "work"]
       /\ UNCHANGED left
  ELSE /\ due' = [due EXCEPT ![c] = NoKey]
       /\ left' = [left EXCEPT ![c] = @ - 1]
       /\ pc' = [pc EXCEPT ![c] = IF left[c] = last THEN "done" ELSE "work"]

\* Faulty variant: the thread makes one call too many.
ReceiveOneMore(c) ==
  /\ pc[c] = "wait" /\ rx[poll[c]] # <<>>
  /\ LET reply == Head(rx[poll[c]]) IN
       /\ failed' = (reply.type # ReplyType(call[c].op))
       /\ answer' = [answer EXCEPT ![c] = Content(reply)]
  /\ rx' = [rx EXCEPT ![poll[c]] = Tail(@)]
  /\ call' = [call EXCEPT ![c] = NoCall]
  /\ effect' = [effect EXCEPT ![c] = NoEffect]
  /\ Count(c, 0)
  /\ UNCHANGED <<phase, poll, mapVars, wire, tree, issued, down, lost>>

\* recv_pkt() and the assert on the type of what it returns.
Receive(c) ==
  /\ pc[c] = "wait" /\ rx[poll[c]] # <<>>
  /\ LET reply == Head(rx[poll[c]]) IN
       /\ failed' = (reply.type # ReplyType(call[c].op))
       /\ answer' = [answer EXCEPT ![c] = Content(reply)]
  /\ rx' = [rx EXCEPT ![poll[c]] = Tail(@)]
  /\ call' = [call EXCEPT ![c] = NoCall]
  /\ effect' = [effect EXCEPT ![c] = NoEffect]
  /\ Count(c, 1)
  /\ UNCHANGED <<phase, poll, mapVars, wire, tree, issued, down, lost>>

-----------------------------------------------------------------------------
ReadOnlyPhase ==
  /\ phase = "load" /\ Joined
  /\ phase' = "readonly" /\ Launch(Operations)
  /\ UNCHANGED <<due, poll, call, effect, answer, netVars>>

\* Load2Switch() on the thread of main(): queue 0, port 0.
SendLoad ==
  /\ phase = "readonly" /\ Joined
  /\ phase' = "loading"
  /\ wire' = wire \cup {[from |-> Main, call |-> [op |-> "load"], port |-> 0]}
  /\ UNCHANGED <<threadVars, mapVars, rx, tree, issued, failed, down, lost>>

HandleLoad(m) ==
  /\ m.from = Main
  /\ wire' = wire \ {m}
  /\ \E reply \in Replies(m.call) : Deliver(reply, m.port)
  /\ UNCHANGED <<phase, threadVars, mapVars, tree, issued, failed, down>>

RunPhase ==
  /\ phase = "loading" /\ rx[0] # <<>>
  /\ failed' = (Head(rx[0]).type # ReplyType("load"))
  /\ rx' = [rx EXCEPT ![0] = Tail(@)]
  /\ phase' = "run" /\ Launch(Operations)
  /\ UNCHANGED <<due, poll, call, effect, answer, mapVars, wire, tree, issued, down, lost>>

End ==
  /\ phase = "run" /\ Joined
  /\ phase' = "end"
  /\ UNCHANGED <<threadVars, netVars>>

MainStep == ReadOnlyPhase \/ SendLoad \/ RunPhase \/ End
ThreadStep(c) == EnterInit(c) \/ Register(c) \/ Send(c) \/ ReadRemotely(c) \/ Receive(c)
BackendTakes == ~down /\ \E m \in wire : Handle(m) \/ Crash(m) \/ HandleLoad(m)

Runs == ~failed /\ ~torn
MsgNext ==
  /\ Runs
  /\ \/ MainStep
     \/ \E c \in Ids : ThreadStep(c)
     \/ BackendTakes
     \/ \E m \in wire : Lose(m)

MsgSpec == MsgInit /\ [][MsgNext]_msgVars

(* Threads are scheduled, and the backend polls and takes what arrives;    *)
(* the lock of Init() is handed on to each thread that waits for it.       *)
FairMsgSpec ==
  /\ MsgSpec
  /\ WF_msgVars(Runs /\ MainStep) /\ WF_msgVars(Runs /\ BackendTakes)
  /\ \A c \in Ids : SF_msgVars(Runs /\ ThreadStep(c))

-----------------------------------------------------------------------------
(* Properties.                                                             *)

\* Type correctness.
MsgTypeOK ==
  /\ phase \in {"load", "readonly", "loading", "run", "end"}
  /\ pc \in [Ids -> {"out", "init", "register", "work", "wait", "done"}]
  /\ left \in [Ids -> Nat] /\ due \in [Ids -> Keys \cup {NoKey}]
  /\ poll \in [Ids -> Queues]
  /\ call \in [Ids -> Calls \cup {NoCall}]
  /\ DOMAIN number \subseteq Ids /\ \A c \in DOMAIN number : number[c] \in Nat
  /\ \A p \in DOMAIN rule : rule[p] \in Queues
  /\ rx \in [Queues -> Seq([op : {"insert", "update", "load"}, type : ReplyTypes]
                      \cup [op : {"read"}, type : ReplyTypes, key : Keys, ver : Versions])]
  /\ tree \in [Keys -> Versions \cup {Absent}]
  /\ torn \in BOOLEAN /\ failed \in BOOLEAN

(* A packet in a queue of the frontend is the reply to the call of the one *)
(* thread that polls that queue: recv_pkt() takes what comes first, and    *)
(* nothing in a reply says whose it is.  The load request has queue 0.     *)
(* That is so until a lookup of a number falls into an insert of its map   *)
(* (get_queue_id(), get_dest_port()); nothing can be said from there on.   *)
RepliesMatch ==
  Runs => \A q \in Queues : rx[q] # <<>> =>
    /\ Len(rx[q]) = 1
    /\ \/ phase = "loading" /\ q = 0 /\ rx[q][1].type = "0x0601"
       \/ \E c \in Ids :
            /\ pc[c] = "wait" /\ poll[c] = q
            /\ \A d \in Ids : pc[d] = "wait" /\ poll[d] = q => d = c
            /\ Content(rx[q][1]) = effect[c]
            /\ rx[q][1].type = ReplyType(call[c].op)

(* Two things alone can end the process, by a queue the port does not      *)
(* have, a flow rule that is refused or an assert on the type of a reply:  *)
(* such a torn map, and a thread of a later phase whose id is a new one    *)
(* when every queue has its number (core/db.h:24-26: Init() makes what a   *)
(* thread needs for its calls).                                            *)
NothingFails == failed => torn \/ Cardinality(DOMAIN number) > NbThreads

\* What core/db.h says of Read(), Update() and Insert(), for calls that
\* overlap: each takes effect once, between call and return.
Store == INSTANCE KVStore WITH store <- tree, Clients <- Ids,
                               Writers <- {"insert", "update"}
Linearizable ==
  Store!StoreInit /\ [][torn' \/ Store!StoreNext]_Store!storeVars

(* What is left of that: the same, but that an update writes nothing       *)
(* (handle_update()).  Reads and inserts that overlap take effect once     *)
(* each, between call and return, until a map is torn.                     *)
Kept == INSTANCE KVStore WITH store <- tree, Clients <- Ids, Writers <- {"insert"}
LinearizableButUpdates ==
  Kept!StoreInit /\ [][torn' \/ Kept!StoreNext]_Kept!storeVars

(* The benchmark comes to its end: no thread waits for ever for a packet,  *)
(* unless one was lost (recv_pkt() then polls on, nothing is sent again),  *)
(* the backend has crashed over a key that is not there, the process has   *)
(* ended, or a map is torn.                                                *)
BenchmarkEnds == <>(phase = "end" \/ lost \/ down \/ failed \/ torn)
=============================================================================
