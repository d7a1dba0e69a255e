--------------------------- MODULE MessagesProofs ----------------------------
(***************************************************************************)
(* The UDP path: replies reach the thread whose call they answer, and the  *)
(* calls look as if made one by one, for any number of threads, thread     *)
(* ids, keys and operations.                                               *)
(***************************************************************************)
EXTENDS Messages, FiniteSetTheorems, TLAPS

Packets == [op : {"insert", "update", "load"}, type : ReplyTypes]
             \cup [op : {"read"}, type : ReplyTypes, key : Keys, ver : Versions]

\* Type correctness, with what is on the wire and the operations left.
MsgTyped ==
  /\ MsgTypeOK
  /\ \A m \in wire : m.from # Main => m.from \in Ids /\ m.call \in Calls
  /\ \A m \in wire : m.from = Main => m.call = [op |-> "load"]
  /\ \A c \in Ids : pc[c] \in {"work", "wait"} => left[c] >= 1

LEMMA ReplyTyped ==
  ASSUME MsgTypeOK, NEW r, r \in Calls \/ r = [op |-> "load"], NEW reply \in Replies(r)
  PROVE  reply \in Packets /\ reply.op = r.op /\ reply.type = ReplyType(r.op)
<1>1. r.op \in {"insert", "read", "update", "load"}
  BY DEF Calls
<1>2. ReplyType(r.op) \in ReplyTypes
  BY <1>1 DEF ReplyTypes
<1>3. CASE r.op = "read"
  <2>1. PICK k \in Keys :
          /\ reply = [op |-> r.op, type |-> ReplyType(r.op), key |-> k, ver |-> tree[k]]
          /\ tree[k] # Absent
    BY <1>3 DEF Replies
  <2>2. tree[k] \in Versions
    BY <2>1 DEF MsgTypeOK
  <2> QED BY <1>2, <1>3, <2>1, <2>2 DEF Packets
<1>4. CASE r.op # "read"
  BY <1>1, <1>2, <1>4 DEF Replies, Packets
<1>5. QED
  BY <1>3, <1>4

LEMMA QueueTyped ==
  ASSUME MsgTypeOK, NEW p
  PROVE  QueueOf(p) \in Queues
<1>1. 0 \in Queues
  BY MessagesAssumption DEF Queues
<1>2. QED
  BY <1>1 DEF QueueOf, MsgTypeOK

LEMMA SharesTyped == Share(Records) \in Nat /\ Share(Operations) \in Nat
  BY MessagesAssumption DEF Share

LEMMA MsgTypedInit == MsgInit => MsgTyped
<1> SUFFICES ASSUME MsgInit PROVE MsgTyped
  OBVIOUS
<1>1. 0 \in Queues
  BY MessagesAssumption DEF Queues
<1>2. left \in [Ids -> Nat]
  BY SharesTyped DEF MsgInit
<1>3. /\ pc \in [Ids -> {"out", "init"}]
      /\ poll \in [Ids -> Queues] /\ due \in [Ids -> Keys \cup {NoKey}]
      /\ call \in [Ids -> Calls \cup {NoCall}]
  BY <1>1 DEF MsgInit, Launched
<1>4. /\ phase \in {"load", "readonly", "loading", "run", "end"}
      /\ tree \in [Keys -> Versions \cup {Absent}]
      /\ torn \in BOOLEAN /\ failed \in BOOLEAN /\ wire = {}
  BY DEF MsgInit
<1>5. rx \in [Queues -> Seq(Packets)]
  BY DEF MsgInit
<1>6. DOMAIN number = {} /\ DOMAIN rule = {}
  BY DEF MsgInit
<1>7. QED
  BY <1>2, <1>3, <1>4, <1>5, <1>6 DEF MsgTyped, MsgTypeOK, Packets

\* What a packet that arrives does to the queues.
LEMMA DeliverTyped ==
  ASSUME MsgTypeOK, NEW reply \in Packets, NEW port, Deliver(reply, port)
  PROVE  rx' \in [Queues -> Seq(Packets)]
<1>1. rx \in [Queues -> Seq(Packets)] /\ QueueOf(port) \in Queues
  BY QueueTyped DEF MsgTypeOK, Packets
<1>2. PICK q \in Queues : q = QueueOf(port)
  BY <1>1
<1>3. CASE rx' = [rx EXCEPT ![q] = Append(@, reply)]
  <2>1. rx[q] \in Seq(Packets)
    BY <1>1
  <2>2. Append(rx[q], reply) \in Seq(Packets)
    BY <2>1
  <2> QED BY <1>1, <1>3, <2>2
<1>4. QED
  BY <1>1, <1>2, <1>3 DEF Deliver

\* The threads of a new phase.
LEMMA LaunchTyped ==
  ASSUME Launch(Operations)
  PROVE  /\ pc' \in [Ids -> {"out", "init"}] /\ left' \in [Ids -> Nat]
  BY SharesTyped DEF Launch, Launched

LEMMA RegisterTyped ==
  ASSUME MsgTyped, NEW c \in Ids, Register(c)
  PROVE  MsgTyped'
<1>1. /\ number' = NumberOf(c)
      /\ pc' = [pc EXCEPT ![c] = IF left[c] = 0 THEN "done" ELSE "work"]
      /\ UNCHANGED <<phase, left, due, poll, call, wire, rx, tree, torn>>
  BY DEF Register
<1>2. /\ MsgTypeOK
      /\ \A m \in wire : m.from # Main => m.from \in Ids /\ m.call \in Calls
      /\ \A m \in wire : m.from = Main => m.call = [op |-> "load"]
      /\ \A d \in Ids : pc[d] \in {"work", "wait"} => left[d] >= 1
  BY DEF MsgTyped
<1>3. DOMAIN number' \subseteq Ids /\ \A i \in DOMAIN number' : number'[i] \in Nat
  <2>1. First + Cardinality(DOMAIN number) \in Nat
    <3>1. IsFiniteSet(DOMAIN number)
      BY <1>2, MessagesAssumption, FS_Subset DEF MsgTypeOK
    <3> QED BY <3>1, FS_CardinalityType, MessagesAssumption
  <2> QED BY <1>1, <1>2, <2>1 DEF NumberOf, MsgTypeOK
<1>4. (\A p \in DOMAIN rule' : rule'[p] \in Queues) /\ failed' \in BOOLEAN
  <2>1. PICK q : q = number'[c]
    OBVIOUS
  <2>2. PICK w : w = WantsRule(init_count')
    OBVIOUS
  <2>3. /\ rule' = IF w /\ q \in Queues
                   THEN [p \in DOMAIN rule \cup {q} |-> IF p = q THEN q ELSE rule[p]]
                   ELSE rule
        /\ failed' = (w /\ q \notin Queues)
    BY <2>1, <2>2, Zenon DEF Register
  <2> QED BY <1>2, <2>3 DEF MsgTypeOK
<1>5. \A d \in Ids : pc'[d] \in {"work", "wait"} => left'[d] >= 1
  BY <1>1, <1>2 DEF MsgTypeOK
<1>6. pc' \in [Ids -> {"out", "init", "register", "work", "wait", "done"}]
  BY <1>1, <1>2 DEF MsgTypeOK
<1>7. QED
  BY <1>1, <1>2, <1>3, <1>4, <1>5, <1>6 DEF MsgTyped, MsgTypeOK

LEMMA SendTyped ==
  ASSUME MsgTyped, NEW c \in Ids, Send(c)
  PROVE  MsgTyped'
<1>1. /\ MsgTypeOK
      /\ \A m \in wire : m.from # Main => m.from \in Ids /\ m.call \in Calls
      /\ \A m \in wire : m.from = Main => m.call = [op |-> "load"]
      /\ \A d \in Ids : pc[d] \in {"work", "wait"} => left[d] >= 1
  BY DEF MsgTyped
<1>2. PICK r \in Calls, seen \in NumbersSeen(c) :
        call' = [call EXCEPT ![c] = r] /\ SendFrom(c, seen, seen.port)
  BY DEF Send
<1>3. /\ pc[c] = "work" /\ pc' = [pc EXCEPT ![c] = "wait"]
      /\ UNCHANGED <<phase, left, due, number, rule, rx, tree>>
  BY DEF Send
<1>4. call' \in [Ids -> Calls \cup {NoCall}] /\ call'[c] = r
  BY <1>1, <1>2 DEF MsgTypeOK
<1>5. poll' \in [Ids -> Queues] /\ failed' \in BOOLEAN /\ torn' \in BOOLEAN
  <2>1. seen.torn \in {TRUE, FALSE}
    <3>1. CASE seen = [queue |-> number[c], port |-> number[c], torn |-> FALSE]
      BY <3>1
    <3>2. CASE seen \in [queue : {0, number[c]}, port : {0, number[c]}, torn : {TRUE}]
      BY <3>2
    <3> QED BY <3>1, <3>2 DEF NumbersSeen
  <2> QED BY <1>1, <1>2, <2>1 DEF MsgTypeOK, SendFrom
<1>6. \A m \in wire' : m \in wire \/ (m.from = c /\ m.call = r)
  BY <1>2, <1>4 DEF Request, SendFrom
<1>7. c # Main
  BY MessagesAssumption
<1>8. /\ pc' \in [Ids -> {"out", "init", "register", "work", "wait", "done"}]
      /\ \A d \in Ids : pc'[d] \in {"work", "wait"} => left'[d] >= 1
  BY <1>1, <1>3 DEF MsgTypeOK
<1>9. QED
  BY <1>1, <1>3, <1>4, <1>5, <1>6, <1>7, <1>8 DEF MsgTyped, MsgTypeOK

\* The count of a thread that has work stays above zero.
LEMMA CountTyped ==
  ASSUME MsgTyped, NEW c \in Ids, pc[c] = "wait", Count(c, 1)
  PROVE  /\ pc' \in [Ids -> {"out", "init", "register", "work", "wait", "done"}]
         /\ left' \in [Ids -> Nat] /\ due' \in [Ids -> Keys \cup {NoKey}]
         /\ \A d \in Ids : pc'[d] \in {"work", "wait"} => left'[d] >= 1
         /\ \A d \in Ids \ {c} : pc'[d] = pc[d]
         /\ pc'[c] \in {"work", "done"}
<1>1. /\ MsgTypeOK /\ \A d \in Ids : pc[d] \in {"work", "wait"} => left[d] >= 1
      /\ left[c] \in Nat /\ left[c] >= 1
  BY DEF MsgTyped, MsgTypeOK
<1>2. CASE phase = "run" /\ call[c].op = "read"
  <2>1. /\ due' = [due EXCEPT ![c] = call[c].key] /\ pc' = [pc EXCEPT ![c] = "work"]
        /\ left' = left
    BY <1>2 DEF Count
  <2>2. call[c] \in Calls
    BY <1>1, <1>2 DEF MsgTypeOK, NoCall
  <2>3. call[c].key \in Keys
    BY <2>2 DEF Calls
  <2> QED BY <1>1, <2>1, <2>3 DEF MsgTypeOK
<1>3. CASE ~(phase = "run" /\ call[c].op = "read")
  <2>1. /\ due' = [due EXCEPT ![c] = NoKey] /\ left' = [left EXCEPT ![c] = @ - 1]
        /\ pc' = [pc EXCEPT ![c] = IF left[c] = 1 THEN "done" ELSE "work"]
    BY <1>3 DEF Count
  <2> QED BY <1>1, <2>1 DEF MsgTypeOK
<1>4. QED
  BY <1>2, <1>3

LEMMA ReceiveTyped ==
  ASSUME MsgTyped, NEW c \in Ids, Receive(c)
  PROVE  MsgTyped'
<1>1. /\ MsgTypeOK
      /\ \A m \in wire : m.from # Main => m.from \in Ids /\ m.call \in Calls
      /\ \A m \in wire : m.from = Main => m.call = [op |-> "load"]
  BY DEF MsgTyped
<1>2. /\ pc[c] = "wait" /\ rx[poll[c]] # <<>> /\ Count(c, 1)
      /\ rx' = [rx EXCEPT ![poll[c]] = Tail(@)]
      /\ call' = [call EXCEPT ![c] = NoCall]
      /\ failed' \in BOOLEAN
      /\ UNCHANGED <<phase, poll, number, torn, rule, wire, tree>>
  BY DEF Receive, mapVars
<1>3. PICK q \in Queues : q = poll[c]
  BY <1>1 DEF MsgTypeOK
<1>4. rx \in [Queues -> Seq(Packets)] /\ Tail(rx[q]) \in Seq(Packets)
  <2>1. rx \in [Queues -> Seq(Packets)]
    BY <1>1 DEF MsgTypeOK, Packets
  <2>2. rx[q] \in Seq(Packets) /\ rx[q] # <<>>
    BY <2>1, <1>2, <1>3
  <2> QED BY <2>1, <2>2
<1>5. rx' \in [Queues -> Seq(Packets)]
  BY <1>2, <1>3, <1>4
<1>6. call' \in [Ids -> Calls \cup {NoCall}]
  BY <1>1, <1>2 DEF MsgTypeOK
<1>7. /\ pc' \in [Ids -> {"out", "init", "register", "work", "wait", "done"}]
      /\ left' \in [Ids -> Nat] /\ due' \in [Ids -> Keys \cup {NoKey}]
      /\ \A d \in Ids : pc'[d] \in {"work", "wait"} => left'[d] >= 1
  BY <1>2, CountTyped
<1>8. QED
  BY <1>1, <1>2, <1>5, <1>6, <1>7 DEF MsgTyped, MsgTypeOK, Packets

LEMMA MsgTypedStep ==
  ASSUME MsgTyped, MsgNext \/ UNCHANGED msgVars
  PROVE  MsgTyped'
<1>1. /\ MsgTypeOK
      /\ \A m \in wire : m.from # Main => m.from \in Ids /\ m.call \in Calls
      /\ \A m \in wire : m.from = Main => m.call = [op |-> "load"]
      /\ \A c \in Ids : pc[c] \in {"work", "wait"} => left[c] >= 1
      /\ rx \in [Queues -> Seq(Packets)]
  BY DEF MsgTyped, MsgTypeOK, Packets
<1>2. ASSUME rx' \in [Queues -> Seq(Packets)],
             UNCHANGED <<phase, poll, call, number, rule, torn>>,
             UNCHANGED <<pc, left, due>>, failed' = failed,
             tree' \in [Keys -> Versions \cup {Absent}], wire' \subseteq wire
      PROVE  MsgTyped'
  BY <1>1, <1>2 DEF MsgTyped, MsgTypeOK, Packets
<1>3. CASE UNCHANGED msgVars
  BY <1>1, <1>2, <1>3 DEF msgVars, threadVars, netVars, mapVars, MsgTypeOK
<1>4. ASSUME NEW c \in Ids, EnterInit(c) PROVE MsgTyped'
  BY <1>1, <1>4 DEF EnterInit, MsgTyped, MsgTypeOK, netVars, mapVars
<1>5. ASSUME NEW c \in Ids, Register(c) \/ Send(c) \/ Receive(c) PROVE MsgTyped'
  BY <1>5, RegisterTyped, SendTyped, ReceiveTyped
<1>6. ASSUME NEW c \in Ids, ReadRemotely(c) PROVE MsgTyped'
  <2>1. /\ pc[c] = "work" /\ left' = [left EXCEPT ![c] = @ - 1]
        /\ pc' = [pc EXCEPT ![c] = IF left[c] = 1 THEN "done" ELSE "work"]
        /\ UNCHANGED <<phase, due, poll, call, number, torn, rule, wire, rx, tree, failed>>
    BY <1>6 DEF ReadRemotely, netVars, mapVars
  <2>2. left[c] \in Nat /\ left[c] >= 1
    BY <1>1, <2>1 DEF MsgTypeOK
  <2>3. /\ left' \in [Ids -> Nat]
        /\ pc' \in [Ids -> {"out", "init", "register", "work", "wait", "done"}]
        /\ \A d \in Ids : pc'[d] \in {"work", "wait"} => left'[d] >= 1
    BY <1>1, <2>1, <2>2 DEF MsgTypeOK
  <2> QED BY <1>1, <2>1, <2>3 DEF MsgTyped, MsgTypeOK
<1>7. ASSUME NEW m \in wire, Handle(m) PROVE MsgTyped'
  <2>1. /\ m.from # Main /\ wire' = wire \ {m}
        /\ tree' = IF m.call.op = "insert" THEN [tree EXCEPT ![m.call.key] = m.call.ver] ELSE tree
        /\ UNCHANGED <<phase, pc, left, due, poll, call, number, torn, rule, failed>>
    BY <1>7 DEF Handle, mapVars
  <2>2. PICK reply \in Replies(m.call) : Deliver(reply, m.port)
    BY <1>7 DEF Handle
  <2>3. m.call \in Calls
    BY <1>1, <2>1
  <2>4. rx' \in [Queues -> Seq(Packets)]
    BY <1>1, <2>2, <2>3, ReplyTyped, DeliverTyped
  <2>5. tree' \in [Keys -> Versions \cup {Absent}]
    <3>1. m.call.key \in Keys /\ m.call.ver \in Versions
      BY <2>3 DEF Calls
    <3> QED BY <1>1, <2>1, <3>1 DEF MsgTypeOK
  <2> QED BY <1>2, <2>1, <2>4, <2>5
<1>8. ASSUME NEW m \in wire, HandleLoad(m) PROVE MsgTyped'
  <2>1. /\ m.from = Main /\ wire' = wire \ {m}
        /\ UNCHANGED <<phase, pc, left, due, poll, call, number, torn, rule, failed, tree>>
    BY <1>8 DEF HandleLoad, threadVars, mapVars
  <2>2. PICK reply \in Replies(m.call) : Deliver(reply, m.port)
    BY <1>8 DEF HandleLoad
  <2>3. rx' \in [Queues -> Seq(Packets)]
    BY <1>1, <2>1, <2>2, ReplyTyped, DeliverTyped
  <2> QED BY <1>1, <1>2, <2>1, <2>3 DEF MsgTypeOK
<1>9. ASSUME NEW m \in wire, Lose(m) \/ Crash(m) PROVE MsgTyped'
  BY <1>1, <1>2, <1>9 DEF Lose, Crash, threadVars, mapVars, MsgTypeOK
<1>10. ASSUME Launch(Operations), rx' \in [Queues -> Seq(Packets)],
              phase' \in {"readonly", "run"}, failed' \in BOOLEAN,
              UNCHANGED <<due, poll, call, number, torn, rule, wire, tree>>
       PROVE  MsgTyped'
  <2>1. pc' \in [Ids -> {"out", "init"}] /\ left' \in [Ids -> Nat]
    BY <1>10, LaunchTyped
  <2> QED BY <1>1, <1>10, <2>1 DEF MsgTyped, MsgTypeOK, Packets
<1>11. CASE ReadOnlyPhase
  BY <1>1, <1>10, <1>11 DEF ReadOnlyPhase, netVars, mapVars, MsgTypeOK
<1>12. CASE SendLoad
  <2>1. \A m \in wire' : m \in wire \/ (m.from = Main /\ m.call = [op |-> "load"])
    BY <1>12 DEF SendLoad
  <2>2. UNCHANGED <<pc, left, due, poll, call, number, torn, rule, rx, tree, failed>>
    BY <1>12 DEF SendLoad, threadVars, mapVars
  <2>3. phase' = "loading"
    BY <1>12 DEF SendLoad
  <2> QED BY <1>1, <2>1, <2>2, <2>3 DEF MsgTyped, MsgTypeOK
<1>13. CASE RunPhase
  <2>1. 0 \in Queues
    BY MessagesAssumption DEF Queues
  <2>2. rx' \in [Queues -> Seq(Packets)]
    <3>1. rx[0] \in Seq(Packets) /\ rx[0] # <<>>
      BY <1>1, <1>13, <2>1 DEF RunPhase
    <3>2. Tail(rx[0]) \in Seq(Packets)
      BY <3>1
    <3> QED BY <1>1, <1>13, <3>2 DEF RunPhase
  <2> QED BY <1>10, <1>13, <2>2 DEF RunPhase, mapVars
<1>14. CASE End
  <2>1. phase' = "end"
        /\ UNCHANGED <<pc, left, due, poll, call, number, torn, rule, wire, rx, tree, failed>>
    BY <1>14 DEF End, threadVars, netVars, mapVars
  <2> QED BY <1>1, <2>1 DEF MsgTyped, MsgTypeOK
<1>15. QED
  BY <1>3, <1>4, <1>5, <1>6, <1>7, <1>8, <1>9, <1>11, <1>12, <1>13, <1>14
     DEF MsgNext, MainStep, ThreadStep, BackendTakes

(* Type correctness, whatever the unlocked lookups see, and whatever fails:    *)
(* every packet in a queue is a reply, and no thread makes a call too many *)
(* (Delegate*() of ycsbc.cc, recv_pkt()).                                  *)
THEOREM MessagesTyped == MsgSpec => []MsgTypeOK
<1>1. MsgTyped /\ [MsgNext]_msgVars => MsgTyped'
  BY MsgTypedStep
<1>2. MsgTyped => MsgTypeOK
  BY DEF MsgTyped
<1>3. QED
  BY MsgTypedInit, <1>1, <1>2, PTL DEF MsgSpec

-----------------------------------------------------------------------------
(***************************************************************************)
(* The numbers of the threads: each id has its own, the first as many as   *)
(* there are queues have a rule, and a port's rule leads to the queue of   *)
(* the same number.  A phase has as many threads as there are queues, so   *)
(* the first has registered that many ids when its threads are joined.     *)
(***************************************************************************)
Registered(c) == pc[c] \in {"work", "wait", "done"}
Started(state) == {c \in Ids : state[c] # "out"}

Numbered ==
  /\ Cardinality(Started(pc)) = NbThreads
  /\ \A c \in Ids : Registered(c) => c \in DOMAIN number
  /\ \A i \in DOMAIN number :
       First <= number[i] /\ number[i] < First + Cardinality(DOMAIN number)
  /\ \A i, j \in DOMAIN number : number[i] = number[j] => i = j

Ruled ==
  /\ \A p \in DOMAIN rule : rule[p] = p
  /\ \A i \in DOMAIN number : number[i] \in Queues => number[i] \in DOMAIN rule
  /\ phase = "load" =>
       /\ init_count = Cardinality(DOMAIN number)
       /\ \A c \in DOMAIN number : Registered(c)
  /\ phase # "load" => Cardinality(DOMAIN number) >= NbThreads

LEMMA NumbersCounted ==
  ASSUME MsgTypeOK
  PROVE  /\ IsFiniteSet(DOMAIN number) /\ Cardinality(DOMAIN number) \in Nat
         /\ NbThreads \in Nat
  BY MessagesAssumption, FS_Subset, FS_CardinalityType DEF MsgTypeOK

\* When the threads of a phase are done, that many ids have numbers.
LEMMA AllNumbered ==
  ASSUME MsgTypeOK, Numbered, Joined
  PROVE  Cardinality(DOMAIN number) >= NbThreads
<1>1. Started(pc) \subseteq DOMAIN number
  BY DEF MsgTypeOK, Numbered, Registered, Joined, Started
<1>2. Cardinality(Started(pc)) <= Cardinality(DOMAIN number)
  BY <1>1, NumbersCounted, FS_Subset
<1>3. QED
  BY <1>2, NumbersCounted DEF Numbered

LEMMA LaunchStarts ==
  ASSUME NEW S \in SUBSET Ids
  PROVE  /\ Started(Launched(S)) = S
         /\ \A c \in Ids : Launched(S)[c] \in {"init", "out"}
  BY DEF Launched, Started

LEMMA NumbersInit == MsgInit => Numbered /\ Ruled
<1> SUFFICES ASSUME MsgInit PROVE Numbered /\ Ruled
  OBVIOUS
<1>1. DOMAIN number = {} /\ DOMAIN rule = {} /\ Cardinality({}) = 0
  BY FS_EmptySet DEF MsgInit
<1>2. PICK S \in SUBSET Ids : Cardinality(S) = NbThreads /\ pc = Launched(S)
  BY DEF MsgInit
<1>3. phase = "load" /\ init_count = 0
  BY DEF MsgInit
<1>4. Cardinality(Started(pc)) = NbThreads /\ \A c \in Ids : ~Registered(c)
  BY <1>2, LaunchStarts DEF Registered
<1>5. QED
  BY <1>1, <1>3, <1>4 DEF Numbered, Ruled

LEMMA RegisterNumbers ==
  ASSUME MsgTypeOK, Numbered, Ruled, NEW c \in Ids, Register(c)
  PROVE  Numbered' /\ Ruled'
<1> DEFINE size == Cardinality(DOMAIN number)
<1>1. /\ pc[c] = "register" /\ number' = NumberOf(c)
      /\ \E s \in {"work", "done"} : pc' = [pc EXCEPT ![c] = s]
      /\ init_count' = init_count + 1 /\ UNCHANGED phase
  BY DEF Register
<1>2. /\ size \in Nat /\ NbThreads \in Nat /\ IsFiniteSet(DOMAIN number)
      /\ First \in {0, 1} /\ \A j \in DOMAIN number : number[j] \in Nat
  BY NumbersCounted, MessagesAssumption DEF MsgTypeOK
<1>3. /\ DOMAIN number' = DOMAIN number \cup {c}
      /\ \A j \in DOMAIN number : number'[j] = number[j]
      /\ c \notin DOMAIN number => number'[c] = First + size
  BY <1>1 DEF NumberOf
<1>4. /\ c \in DOMAIN number => Cardinality(DOMAIN number') = size
      /\ c \notin DOMAIN number => Cardinality(DOMAIN number') = size + 1
  BY <1>2, <1>3, FS_AddElement
<1>5. \A d \in Ids : Registered(d)' <=> Registered(d) \/ d = c
  BY <1>1 DEF Registered, MsgTypeOK
<1>6. Numbered'
  <2>1. \A d \in Ids : Registered(d)' => d \in DOMAIN number'
    BY <1>1, <1>3, <1>5 DEF Numbered
  <2>2. \A j \in DOMAIN number' :
          First <= number'[j] /\ number'[j] < First + Cardinality(DOMAIN number')
    BY <1>2, <1>3, <1>4 DEF Numbered
  <2>3. \A j, k \in DOMAIN number' : number'[j] = number'[k] => j = k
    <3>1. \A j \in DOMAIN number : number[j] < First + size
      BY DEF Numbered
    <3> QED BY <1>2, <1>3, <3>1 DEF Numbered
  <2>4. Started(pc') = Started(pc)
    BY <1>1 DEF Started, MsgTypeOK
  <2> QED BY <2>1, <2>2, <2>3, <2>4 DEF Numbered
<1>7. PICK q : q = number'[c]
  OBVIOUS
<1> DEFINE w == WantsRule(init_count')
<1>8. w = (init_count' <= NbThreads)
  BY DEF WantsRule
<1>9. rule' = IF w /\ q \in Queues
              THEN [p \in DOMAIN rule \cup {q} |-> IF p = q THEN q ELSE rule[p]]
              ELSE rule
  BY <1>7, Zenon DEF Register
<1> HIDE DEF w
<1>10. \A p \in DOMAIN rule' : rule'[p] = p
  BY <1>9 DEF Ruled
<1>11. c \notin DOMAIN number /\ ~w => q \notin Queues
  <2>1. SUFFICES ASSUME c \notin DOMAIN number, ~w PROVE size >= NbThreads
    BY <1>2, <1>3, <1>7 DEF Queues
  <2>2. phase = "load" => init_count = size /\ ~(init_count + 1 <= NbThreads)
    BY <1>1, <1>8, <2>1 DEF Ruled
  <2> QED BY <1>2, <2>2 DEF Ruled
<1>12. \A j \in DOMAIN number' : number'[j] \in Queues => number'[j] \in DOMAIN rule'
  <2>1. DOMAIN rule \subseteq DOMAIN rule' /\ (w /\ q \in Queues => q \in DOMAIN rule')
    BY <1>9
  <2>2. \A j \in DOMAIN number : number'[j] \in Queues => number'[j] \in DOMAIN rule'
    BY <1>3, <2>1 DEF Ruled
  <2>3. c \notin DOMAIN number /\ q \in Queues => q \in DOMAIN rule'
    BY <1>11, <2>1
  <2> QED BY <1>3, <1>7, <2>2, <2>3
<1>13. phase' = "load" =>
         /\ init_count' = Cardinality(DOMAIN number')
         /\ \A d \in DOMAIN number' : Registered(d)'
  <2>1. SUFFICES ASSUME phase = "load"
                 PROVE  /\ init_count' = Cardinality(DOMAIN number')
                        /\ \A d \in DOMAIN number' : Registered(d)'
    BY <1>1
  <2>2. ~Registered(c)
    BY <1>1 DEF Registered
  <2>3. c \notin DOMAIN number /\ init_count = size
    BY <2>1, <2>2 DEF Ruled
  <2>4. \A d \in DOMAIN number' : Registered(d)'
    BY <1>3, <1>5, <2>1 DEF Ruled, MsgTypeOK
  <2> QED BY <1>1, <1>4, <2>3, <2>4
<1>14. phase' # "load" => Cardinality(DOMAIN number') >= NbThreads
  BY <1>1, <1>2, <1>4 DEF Ruled
<1>15. QED
  BY <1>6, <1>10, <1>12, <1>13, <1>14 DEF Ruled

LEMMA NumbersStep ==
  ASSUME MsgTyped, Numbered, Ruled, MsgNext \/ UNCHANGED msgVars
  PROVE  Numbered' /\ Ruled'
<1> USE DEF mapVars, netVars, threadVars
<1>0. MsgTypeOK
  BY DEF MsgTyped
<1>1. ASSUME UNCHANGED <<phase, number, rule, init_count>>,
             \A c \in Ids : /\ (Registered(c)' <=> Registered(c))
                            /\ (pc'[c] = "out" <=> pc[c] = "out")
      PROVE  Numbered' /\ Ruled'
  <2>1. Started(pc') = Started(pc)
    BY <1>1 DEF Started
  <2>2. \A c \in DOMAIN number : c \in Ids
    BY <1>0 DEF MsgTypeOK
  <2> QED BY <1>1, <2>1, <2>2 DEF Numbered, Ruled
<1>2. ASSUME Launch(Operations), phase' # "load", UNCHANGED <<number, rule, init_count>>,
             Cardinality(DOMAIN number) >= NbThreads
      PROVE  Numbered' /\ Ruled'
  <2>1. PICK S \in SUBSET Ids : Cardinality(S) = NbThreads /\ pc' = Launched(S)
    BY <1>2 DEF Launch
  <2>2. Cardinality(Started(pc')) = NbThreads /\ \A c \in Ids : ~Registered(c)'
    BY <2>1, LaunchStarts DEF Registered
  <2> QED BY <1>2, <2>2 DEF Numbered, Ruled
<1>3. ASSUME NEW c \in Ids, Register(c) PROVE Numbered' /\ Ruled'
  BY <1>0, <1>3, RegisterNumbers
<1>4. ASSUME NEW c \in Ids, EnterInit(c) \/ Send(c) \/ Receive(c) \/ ReadRemotely(c)
      PROVE  Numbered' /\ Ruled'
  <2>1. UNCHANGED <<phase, number, rule, init_count>>
    BY <1>4 DEF EnterInit, Send, Receive, ReadRemotely
  <2>2. \/ pc[c] = "init" /\ pc' = [pc EXCEPT ![c] = "register"]
        \/ pc[c] = "work" /\ pc' = [pc EXCEPT ![c] = "wait"]
        \/ pc[c] = "wait" /\ pc'[c] \in {"work", "done"} /\ \A d \in Ids \ {c} : pc'[d] = pc[d]
        \/ pc[c] = "work" /\ (\E s \in {"work", "done"} : pc' = [pc EXCEPT ![c] = s])
    BY <1>4, CountTyped DEF EnterInit, Send, Receive, ReadRemotely
  <2>3. pc \in [Ids -> {"out", "init", "register", "work", "wait", "done"}]
    BY <1>0 DEF MsgTypeOK
  <2>4. \A d \in Ids : /\ (Registered(d)' <=> Registered(d))
                       /\ (pc'[d] = "out" <=> pc[d] = "out")
    BY <2>2, <2>3 DEF Registered
  <2> QED BY <1>1, <2>1, <2>4
<1>5. ASSUME NEW m \in wire, Handle(m) \/ HandleLoad(m) \/ Lose(m) \/ Crash(m)
      PROVE  Numbered' /\ Ruled'
  BY <1>1, <1>5 DEF Handle, HandleLoad, Lose, Crash, Registered
<1>6. CASE ReadOnlyPhase
  BY <1>0, <1>2, <1>6, AllNumbered DEF ReadOnlyPhase
<1>7. CASE SendLoad \/ End
  <2>1. UNCHANGED <<pc, number, rule, init_count>>
    BY <1>7 DEF SendLoad, End
  <2>2. phase # "load" /\ phase' # "load"
    BY <1>7 DEF SendLoad, End
  <2> QED BY <2>1, <2>2 DEF Numbered, Ruled, Registered
<1>8. CASE UNCHANGED msgVars
  BY <1>1, <1>8 DEF msgVars, Registered
<1>9. CASE RunPhase
  BY <1>2, <1>9 DEF RunPhase, Ruled
<1>10. QED
  BY <1>3, <1>4, <1>5, <1>6, <1>7, <1>8, <1>9
     DEF MsgNext, MainStep, ThreadStep, BackendTakes

-----------------------------------------------------------------------------
(***************************************************************************)
(* What is under way: of each thread that waits, one request or one reply  *)
(* at most, and nothing else.                                              *)
(***************************************************************************)
LoadRequest == [from |-> Main, call |-> [op |-> "load"], port |-> 0]

Asks(c, m) ==
  /\ pc[c] = "wait" /\ effect[c] = NoEffect /\ rx[poll[c]] = <<>>
  /\ m = [from |-> c, call |-> call[c], port |-> poll[c]]

Answers(reply, q, c) ==
  /\ pc[c] = "wait" /\ poll[c] = q
  /\ effect[c] # NoEffect /\ Content(reply) = effect[c]
  /\ reply.type = ReplyType(call[c].op)

Talk ==
  /\ phase = "loading" => Joined
  /\ DOMAIN effect = Ids
  /\ \A c \in Ids : pc[c] = "wait" =>
       /\ call[c] \in Calls
       /\ poll[c] = number[c]
  /\ \A c \in Ids : pc[c] # "wait" => call[c] = NoCall /\ effect[c] = NoEffect
  /\ \A m \in wire :
       \/ m = LoadRequest /\ phase = "loading" /\ rx[0] = <<>>
       \/ \E c \in Ids : Asks(c, m)
  /\ \A q \in Queues : rx[q] # <<>> =>
       /\ Len(rx[q]) = 1
       /\ \/ phase = "loading" /\ q = 0 /\ rx[q][1].type = ReplyType("load")
          \/ \E c \in Ids : Answers(rx[q][1], q, c)

\* No two threads that wait poll the same queue.
LEMMA PollsDiffer ==
  ASSUME MsgTypeOK, Numbered, Talk, NEW c \in Ids, NEW d \in Ids,
         pc[c] = "wait", pc[d] = "wait", poll[c] = poll[d]
  PROVE  c = d
<1>1. c \in DOMAIN number /\ d \in DOMAIN number
  BY DEF Numbered, Registered
<1>2. number[c] = number[d]
  BY DEF Talk
<1>3. QED
  BY <1>1, <1>2 DEF Numbered

\* A port leads back to the queue that its thread polls.
LEMMA PortsLeadBack ==
  ASSUME MsgTypeOK, Numbered, Ruled, Talk
  PROVE  /\ \A c \in Ids : pc[c] = "wait" => QueueOf(poll[c]) = poll[c]
         /\ QueueOf(0) = 0 /\ 0 \in Queues
<1>1. ASSUME NEW c \in Ids, pc[c] = "wait" PROVE QueueOf(poll[c]) = poll[c]
  <2>1. c \in DOMAIN number /\ poll[c] = number[c] /\ poll[c] \in Queues
    BY <1>1 DEF Numbered, Registered, Talk, MsgTypeOK
  <2>2. poll[c] \in DOMAIN rule
    BY <2>1 DEF Ruled
  <2> QED BY <2>2 DEF QueueOf, Ruled
<1>2. 0 \in Queues
  BY MessagesAssumption DEF Queues
<1>3. QED
  BY <1>1, <1>2 DEF QueueOf, Ruled

\* With all threads done, only the load has packets under way.
LEMMA JoinedIsQuiet ==
  ASSUME MsgTypeOK, Talk, Joined
  PROVE  /\ \A m \in wire : m = LoadRequest /\ phase = "loading" /\ rx[0] = <<>>
         /\ \A q \in Queues : rx[q] # <<>> =>
              /\ phase = "loading" /\ q = 0
              /\ Len(rx[q]) = 1 /\ rx[q][1].type = ReplyType("load")
  BY DEF Talk, Joined, Asks, Answers

LEMMA TalkInit == MsgInit => Talk
<1> SUFFICES ASSUME MsgInit PROVE Talk
  OBVIOUS
<1>1. /\ phase = "load" /\ wire = {} /\ DOMAIN effect = Ids
      /\ \A c \in Ids : pc[c] # "wait" /\ call[c] = NoCall /\ effect[c] = NoEffect
      /\ \A q \in Queues : rx[q] = <<>>
  BY LaunchStarts DEF MsgInit
<1>2. QED
  BY <1>1 DEF Talk

\* Taking the only packet of a queue leaves it empty.
LEMMA OneTaken ==
  ASSUME NEW R, NEW s \in Seq(R), Len(s) = 1
  PROVE  Tail(s) = <<>> /\ Head(s) = s[1]
<1>1. s # <<>>
  OBVIOUS
<1>2. Tail(s) \in Seq(R) /\ Len(Tail(s)) = 0
  BY <1>1
<1>3. \A u \in Seq(R) : Len(u) = 0 => u = <<>>
  OBVIOUS
<1>4. Head(s) = s[1]
  BY <1>1
<1>5. QED
  BY <1>2, <1>3, <1>4

LEMMA SendTalks ==
  ASSUME MsgTypeOK, Numbered, Ruled, Talk, NEW c \in Ids, Send(c), ~failed', ~torn'
  PROVE  Talk'
<1>1. /\ pc[c] = "work" /\ pc' = [pc EXCEPT ![c] = "wait"]
      /\ UNCHANGED <<phase, effect, number, rx>>
  BY DEF Send
<1>2. PICK r \in Calls, seen \in NumbersSeen(c) :
        call' = [call EXCEPT ![c] = r] /\ SendFrom(c, seen, seen.port)
  BY DEF Send
<1>3. PICK q : q = number[c] /\ q = seen.queue /\ q = seen.port
  <2>1. seen.torn = FALSE
    BY <1>2 DEF SendFrom
  <2>2. seen \notin [queue : {0, number[c]}, port : {0, number[c]}, torn : {TRUE}]
    BY <2>1
  <2>3. seen = [queue |-> number[c], port |-> number[c], torn |-> FALSE]
    BY <2>2 DEF NumbersSeen
  <2>4. seen.queue = number[c] /\ seen.port = number[c]
    BY <2>3
  <2> QED BY <2>4
<1>4. /\ q \in Queues /\ poll' = [poll EXCEPT ![c] = q]
      /\ wire' = wire \cup {Request(c, q)}
  BY <1>2, <1>3 DEF SendFrom
<1>5. phase # "loading"
  BY <1>1 DEF Talk, Joined
<1>6. /\ pc'[c] = "wait" /\ call'[c] = r /\ poll'[c] = q /\ effect[c] = NoEffect
      /\ \A d \in Ids \ {c} : pc'[d] = pc[d] /\ call'[d] = call[d] /\ poll'[d] = poll[d]
  BY <1>1, <1>2, <1>4 DEF MsgTypeOK, Talk
<1>7. rx[q] = <<>>
  <2>1. SUFFICES ASSUME rx[q] # <<>> PROVE FALSE
    OBVIOUS
  <2>2. PICK d \in Ids : pc[d] = "wait" /\ poll[d] = q
    BY <1>4, <1>5, <2>1 DEF Talk, Answers
  <2>3. d \in DOMAIN number /\ c \in DOMAIN number /\ number[d] = number[c]
    BY <1>1, <1>3, <2>2 DEF Numbered, Registered, Talk
  <2>4. c = d
    BY <2>3 DEF Numbered
  <2> QED BY <1>1, <2>2, <2>4
<1>8. \A m \in wire' : \E d \in Ids : Asks(d, m)'
  <2>1. ASSUME NEW m \in wire PROVE \E d \in Ids \ {c} : Asks(d, m)
    BY <1>1, <1>5 DEF Talk, Asks
  <2>2. ASSUME NEW m \in wire PROVE \E d \in Ids : Asks(d, m)'
    <3>1. PICK d \in Ids \ {c} : Asks(d, m)
      BY <2>1
    <3> QED BY <1>1, <1>6, <3>1 DEF Asks
  <2>3. PICK m : m = Request(c, q)
    OBVIOUS
  <2>4. Asks(c, m)'
    BY <1>1, <1>3, <1>6, <1>7, <2>3 DEF Asks, Request
  <2> QED BY <1>4, <2>2, <2>3, <2>4
<1>9. ASSUME NEW p \in Queues, rx[p] # <<>>
      PROVE  Len(rx[p]) = 1 /\ \E d \in Ids : Answers(rx[p][1], p, d)'
  <2>1. PICK d \in Ids : Answers(rx[p][1], p, d) /\ d # c /\ Len(rx[p]) = 1
    BY <1>1, <1>5, <1>9 DEF Talk, Answers
  <2>2. Answers(rx[p][1], p, d)'
    BY <1>1, <1>6, <2>1 DEF Answers
  <2> QED BY <2>1, <2>2
<1>10. \A d \in Ids : pc'[d] = "wait" =>
         /\ call'[d] \in Calls
         /\ poll'[d] = number'[d]
  BY <1>1, <1>2, <1>3, <1>4, <1>6 DEF Talk
<1>11. \A d \in Ids : pc'[d] # "wait" => call'[d] = NoCall /\ effect'[d] = NoEffect
  BY <1>1, <1>6 DEF Talk
<1>12. QED
  BY <1>1, <1>5, <1>8, <1>9, <1>10, <1>11 DEF Talk

LEMMA ReceiveTalks ==
  ASSUME MsgTyped, Numbered, Talk, NEW c \in Ids, Receive(c)
  PROVE  /\ Talk' /\ ~failed'
         /\ effect[c] # NoEffect /\ answer' = [answer EXCEPT ![c] = effect[c]]
<1>0. MsgTypeOK
  BY DEF MsgTyped
<1>1. PICK q \in Queues : q = poll[c]
  BY <1>0 DEF MsgTypeOK
<1>2. PICK reply : reply = Head(rx[q])
  OBVIOUS
<1>3. /\ pc[c] = "wait" /\ rx[q] # <<>>
      /\ failed' = (reply.type # ReplyType(call[c].op))
      /\ answer' = [answer EXCEPT ![c] = Content(reply)]
      /\ rx' = [rx EXCEPT ![q] = Tail(@)]
      /\ call' = [call EXCEPT ![c] = NoCall]
      /\ effect' = [effect EXCEPT ![c] = NoEffect]
      /\ UNCHANGED <<phase, poll, number, wire>>
  BY <1>1, <1>2 DEF Receive, mapVars
<1>4. phase # "loading"
  BY <1>3 DEF Talk, Joined
<1>5. Len(rx[q]) = 1 /\ Answers(rx[q][1], q, c)
  <2>1. PICK d \in Ids : Len(rx[q]) = 1 /\ Answers(rx[q][1], q, d)
    BY <1>3, <1>4 DEF Talk
  <2>2. c = d
    BY <1>0, <1>1, <1>3, <2>1, PollsDiffer DEF Answers
  <2> QED BY <2>1, <2>2
<1>6. rx[q] \in Seq(Packets) /\ rx \in [Queues -> Seq(Packets)]
  BY <1>0 DEF MsgTypeOK, Packets
<1>7. Tail(rx[q]) = <<>> /\ reply = rx[q][1]
  BY <1>2, <1>5, <1>6, OneTaken
<1>8. rx'[q] = <<>> /\ \A p \in Queues \ {q} : rx'[p] = rx[p]
  BY <1>3, <1>6, <1>7
<1>9. /\ ~failed' /\ effect[c] # NoEffect
      /\ answer' = [answer EXCEPT ![c] = effect[c]]
  BY <1>3, <1>5, <1>7 DEF Answers
<1>10. /\ pc'[c] # "wait" /\ call'[c] = NoCall /\ effect'[c] = NoEffect
       /\ DOMAIN effect' = Ids
       /\ \A d \in Ids \ {c} : pc'[d] = pc[d] /\ call'[d] = call[d] /\ effect'[d] = effect[d]
  <2>1. (\A d \in Ids \ {c} : pc'[d] = pc[d]) /\ pc'[c] # "wait"
    BY <1>3, CountTyped DEF Receive
  <2> QED BY <1>0, <1>3, <2>1 DEF MsgTypeOK, Talk
<1>11. ASSUME NEW m \in wire PROVE \E d \in Ids : Asks(d, m)'
  <2>1. PICK d \in Ids : Asks(d, m)
    BY <1>4 DEF Talk
  <2>2. d # c
    BY <1>1, <1>3, <2>1 DEF Asks
  <2>3. poll[d] # q /\ poll[d] \in Queues
    BY <1>0, <1>1, <1>3, <2>1, <2>2, PollsDiffer DEF Asks, MsgTypeOK
  <2>4. Asks(d, m)'
    BY <1>3, <1>8, <1>10, <2>1, <2>2, <2>3 DEF Asks
  <2> QED BY <2>4
<1>12. ASSUME NEW p \in Queues, rx'[p] # <<>>
       PROVE  Len(rx'[p]) = 1 /\ \E d \in Ids : Answers(rx[p][1], p, d)' /\ rx'[p] = rx[p]
  <2>1. p # q /\ rx'[p] = rx[p]
    BY <1>8, <1>12
  <2>2. PICK d \in Ids : Len(rx[p]) = 1 /\ Answers(rx[p][1], p, d)
    BY <1>4, <1>12, <2>1 DEF Talk
  <2>3. d # c
    BY <1>1, <2>1, <2>2 DEF Answers
  <2>4. Answers(rx[p][1], p, d)'
    BY <1>3, <1>10, <2>1, <2>2, <2>3 DEF Answers
  <2> QED BY <2>1, <2>2, <2>4
<1>13. \A d \in Ids : pc'[d] = "wait" =>
         /\ call'[d] \in Calls
         /\ poll'[d] = number'[d]
  BY <1>3, <1>10 DEF Talk
<1>14. Talk'
  BY <1>3, <1>4, <1>10, <1>11, <1>12, <1>13 DEF Talk
<1>15. QED
  BY <1>9, <1>14

\* The request of a thread is its call, and has nothing else under way.
LEMMA RequestIs ==
  ASSUME Talk, NEW m \in wire, m.from # Main
  PROVE  m.from \in Ids /\ Asks(m.from, m) /\ m.call = call[m.from] /\ m.port = poll[m.from]
<1>1. PICK c \in Ids : Asks(c, m)
  BY DEF Talk, LoadRequest
<1>2. m.from = c /\ m.call = call[c] /\ m.port = poll[c]
  BY <1>1 DEF Asks
<1>3. QED
  BY <1>1, <1>2

\* A step that takes c's request from the wire, with or without a reply.
LEMMA RequestTaken ==
  ASSUME MsgTypeOK, Numbered, Ruled, Talk, NEW m \in wire, m.from # Main, wire' = wire \ {m},
         UNCHANGED <<phase, pc, poll, call, number>>,
         DOMAIN effect' = Ids,
         \A d \in Ids \ {m.from} : effect'[d] = effect[d],
         \A q \in Queues \ {poll[m.from]} : rx'[q] = rx[q],
         \/ rx'[poll[m.from]] = <<>>
         \/ \E reply : rx'[poll[m.from]] = <<reply>> /\ Answers(reply, poll[m.from], m.from)'
  PROVE  Talk'
<1> DEFINE c == m.from
           q == poll[c]
<1>1. c \in Ids /\ Asks(c, m) /\ q \in Queues /\ pc[c] = "wait" /\ phase # "loading"
  BY RequestIs DEF Asks, MsgTypeOK, Talk, Joined
<1>2. \A r \in wire' : \E d \in Ids : Asks(d, r)'
  <2> TAKE r \in wire'
  <2>1. PICK d \in Ids : Asks(d, r) /\ r # m
    BY <1>1 DEF Talk
  <2>2. d # c
    BY <1>1, <2>1 DEF Asks
  <2>3. poll[d] # q /\ poll[d] \in Queues
    BY <1>1, <2>1, <2>2, PollsDiffer DEF Asks, MsgTypeOK
  <2> QED BY <2>1, <2>2, <2>3 DEF Asks
<1>3. ASSUME NEW p \in Queues, rx'[p] # <<>>
      PROVE  Len(rx'[p]) = 1 /\ \E d \in Ids : Answers(rx[p][1], p, d)'
  <2>1. CASE p = q
    <3>1. PICK reply : rx'[p] = <<reply>> /\ Answers(reply, q, c)'
      BY <1>3, <2>1
    <3>2. Len(rx'[p]) = 1 /\ rx'[p][1] = reply
      BY <3>1
    <3>3. Answers(rx[p][1], p, c)'
      BY <2>1, <3>1, <3>2 DEF Answers
    <3> QED BY <1>1, <3>2, <3>3
  <2>2. CASE p # q
    <3>1. rx'[p] = rx[p]
      BY <2>2
    <3>2. PICK d \in Ids : Len(rx[p]) = 1 /\ Answers(rx[p][1], p, d)
      BY <1>1, <1>3, <3>1 DEF Talk
    <3>3. d # c
      BY <2>2, <3>2 DEF Answers
    <3>4. Answers(rx[p][1], p, d)'
      BY <3>1, <3>2, <3>3 DEF Answers
    <3> QED BY <3>1, <3>2, <3>4
  <2> QED BY <2>1, <2>2
<1>4. \A d \in Ids : pc'[d] # "wait" => call'[d] = NoCall /\ effect'[d] = NoEffect
  BY <1>1 DEF Talk
<1>5. QED
  BY <1>1, <1>2, <1>3, <1>4 DEF Talk

LEMMA HandleTalks ==
  ASSUME MsgTypeOK, Numbered, Ruled, Talk, NEW m \in wire, Handle(m)
  PROVE  Talk'
<1> DEFINE c == m.from
           q == poll[c]
           r == call[c]
<1>1. /\ c # Main /\ c \in Ids /\ pc[c] = "wait" /\ rx[q] = <<>> /\ q \in Queues
      /\ m.call = r /\ m.port = q /\ r \in Calls
  BY RequestIs DEF Handle, Asks, MsgTypeOK, Talk
<1>2. PICK reply \in Replies(r) :
        Deliver(reply, q) /\ effect' = [effect EXCEPT ![c] = Content(reply)]
  BY <1>1 DEF Handle
<1>3. /\ wire' = wire \ {m} /\ UNCHANGED <<phase, pc, poll, call, number>>
  BY DEF Handle, mapVars
<1>4. QueueOf(q) = q
  BY <1>1, PortsLeadBack
<1>5. rx' = [rx EXCEPT ![q] = Append(@, reply)] \/ rx' = rx
  BY <1>2, <1>4 DEF Deliver
<1>6. rx \in [Queues -> Seq(Packets)]
  BY DEF MsgTypeOK, Packets
<1>7. rx'[q] = <<reply>> \/ rx'[q] = <<>>
  BY <1>1, <1>5, <1>6
<1>8. \A p \in Queues \ {q} : rx'[p] = rx[p]
  BY <1>5, <1>6
<1>9. /\ DOMAIN effect' = Ids /\ effect'[c] = Content(reply)
      /\ \A d \in Ids \ {c} : effect'[d] = effect[d]
  BY <1>1, <1>2 DEF Talk
<1>10. /\ reply.op = r.op /\ reply.type = ReplyType(r.op)
       /\ r.op \in {"insert", "read", "update"}
  BY <1>1, ReplyTyped DEF Calls
<1>11. Content(reply) # NoEffect
  <2>1. Content(reply).op = r.op
    BY <1>10 DEF Content
  <2> QED BY <1>10, <2>1 DEF NoEffect
<1>12. Answers(reply, q, c)'
  BY <1>1, <1>3, <1>9, <1>10, <1>11 DEF Answers
<1>13. QED
  BY <1>1, <1>3, <1>7, <1>8, <1>9, <1>12, RequestTaken

LEMMA LoseTalks ==
  ASSUME MsgTypeOK, Numbered, Ruled, Talk, NEW m \in wire, Lose(m) \/ Crash(m)
  PROVE  Talk'
<1>1. wire' = wire \ {m} /\ UNCHANGED <<phase, pc, poll, call, number, effect, rx>>
  BY DEF Lose, Crash, threadVars, mapVars
<1>2. \A r \in wire : (\E c \in Ids : Asks(c, r)) => \E c \in Ids : Asks(c, r)'
  BY <1>1 DEF Asks
<1>3. \A q \in Queues, c \in Ids : Answers(rx[q][1], q, c) => Answers(rx[q][1], q, c)'
  BY <1>1 DEF Answers
<1>4. QED
  BY <1>1, <1>2, <1>3 DEF Talk, Joined

LEMMA LoadTalks ==
  ASSUME MsgTypeOK, Numbered, Ruled, Talk,
         \/ SendLoad \/ RunPhase
         \/ \E m \in wire : HandleLoad(m)
  PROVE  (Talk' /\ failed' = failed) \/ (Talk' /\ ~failed')
<1>1. rx \in [Queues -> Seq(Packets)] /\ 0 \in Queues /\ QueueOf(0) = 0
  BY PortsLeadBack DEF MsgTypeOK, Packets
<1>2. ASSUME Joined, \A c \in Ids : pc'[c] # "wait", UNCHANGED <<call, effect>>,
             phase' = "loading" => Joined',
             \A m \in wire' : m = LoadRequest /\ phase' = "loading" /\ rx'[0] = <<>>,
             \A q \in Queues : rx'[q] # <<>> =>
               /\ phase' = "loading" /\ q = 0
               /\ Len(rx'[q]) = 1 /\ rx'[q][1].type = ReplyType("load")
      PROVE  Talk'
  BY <1>2 DEF Talk, Joined
<1>3. CASE SendLoad
  <2>1. /\ phase = "readonly" /\ Joined /\ phase' = "loading"
        /\ wire' = wire \cup {LoadRequest}
        /\ UNCHANGED <<pc, call, effect, rx, failed>>
    BY <1>3 DEF SendLoad, LoadRequest, threadVars
  <2>2. wire = {} /\ \A q \in Queues : rx[q] = <<>>
    BY <2>1, JoinedIsQuiet
  <2> QED BY <1>1, <1>2, <2>1, <2>2 DEF Joined
<1>4. CASE RunPhase
  <2>1. /\ phase = "loading" /\ rx[0] # <<>> /\ phase' = "run"
        /\ failed' = (Head(rx[0]).type # ReplyType("load"))
        /\ rx' = [rx EXCEPT ![0] = Tail(@)]
        /\ \A c \in Ids : pc'[c] # "wait"
        /\ UNCHANGED <<call, effect, wire>>
    BY <1>4, LaunchStarts DEF RunPhase, Launch
  <2>2. Joined
    BY <2>1 DEF Talk
  <2>3. wire = {} /\ Len(rx[0]) = 1 /\ rx[0][1].type = ReplyType("load")
    BY <1>1, <2>1, <2>2, JoinedIsQuiet
  <2>4. Tail(rx[0]) = <<>> /\ Head(rx[0]) = rx[0][1]
    BY <1>1, <2>3, OneTaken
  <2>5. \A q \in Queues : rx'[q] = <<>>
    BY <1>1, <2>1, <2>2, <2>4, JoinedIsQuiet
  <2> QED BY <1>2, <2>1, <2>2, <2>3, <2>4, <2>5
<1>5. ASSUME NEW m \in wire, HandleLoad(m)
      PROVE  Talk' /\ failed' = failed
  <2>1. /\ m.from = Main /\ wire' = wire \ {m}
        /\ UNCHANGED <<phase, pc, call, effect, failed>>
    BY <1>5 DEF HandleLoad, threadVars
  <2>2. m = LoadRequest /\ phase = "loading" /\ rx[0] = <<>>
    BY <2>1, MessagesAssumption DEF Talk, Asks
  <2>3. Joined /\ Joined'
    BY <2>1, <2>2 DEF Talk, Joined
  <2>4. wire' = {}
    BY <2>1, <2>2, <2>3, JoinedIsQuiet
  <2>5. PICK reply \in Replies(m.call) : Deliver(reply, m.port)
    BY <1>5 DEF HandleLoad
  <2>6. reply.type = ReplyType("load") /\ m.port = 0
    BY <2>2, ReplyTyped DEF LoadRequest
  <2>7. rx' = [rx EXCEPT ![0] = Append(@, reply)] \/ rx' = rx
    BY <1>1, <2>5, <2>6 DEF Deliver
  <2>8. rx'[0] = <<reply>> \/ rx'[0] = <<>>
    BY <1>1, <2>2, <2>7
  <2>9. \A q \in Queues \ {0} : rx'[q] = <<>>
    BY <1>1, <2>3, <2>7, JoinedIsQuiet
  <2>10. \A q \in Queues : rx'[q] # <<>> =>
           /\ phase' = "loading" /\ q = 0
           /\ Len(rx'[q]) = 1 /\ rx'[q][1].type = ReplyType("load")
    <3>1. \A s : s = <<reply>> => Len(s) = 1 /\ s[1] = reply
      OBVIOUS
    <3>2. rx'[0] # <<>> => Len(rx'[0]) = 1 /\ rx'[0][1] = reply
      BY <2>8, <3>1
    <3> QED BY <2>1, <2>2, <2>6, <2>9, <3>2
  <2> QED BY <1>2, <2>1, <2>3, <2>4, <2>10 DEF Joined
<1>6. QED
  BY <1>3, <1>4, <1>5

\* Every step but one that ends the process keeps the conversation in order.
LEMMA TalkStep ==
  ASSUME MsgTyped, Numbered, Ruled, Talk, MsgNext \/ UNCHANGED msgVars, ~failed', ~torn'
  PROVE  Talk'
<1> USE DEF mapVars, netVars, threadVars
<1>0. MsgTypeOK
  BY DEF MsgTyped
<1>1. ASSUME UNCHANGED <<call, poll, effect, rx, wire>>,
             UNCHANGED number, \A c \in Ids : (pc[c] = "wait") <=> (pc'[c] = "wait"),
             (phase' = "loading") <=> (phase = "loading"),
             phase = "loading" => Joined'
      PROVE  Talk'
  <2>1. \A c \in Ids : \A m : Asks(c, m) => Asks(c, m)'
    BY <1>1 DEF Asks
  <2>2. \A c \in Ids, q \in Queues : Answers(rx[q][1], q, c) => Answers(rx[q][1], q, c)'
    BY <1>1 DEF Answers
  <2>3. /\ phase' = "loading" => Joined'
        /\ DOMAIN effect' = Ids
        /\ \A c \in Ids : pc'[c] = "wait" =>
             /\ call'[c] \in Calls
             /\ poll'[c] = number'[c]
        /\ \A c \in Ids : pc'[c] # "wait" => call'[c] = NoCall /\ effect'[c] = NoEffect
    BY <1>1 DEF Talk
  <2>4. \A m \in wire' :
          \/ m = LoadRequest /\ phase' = "loading" /\ rx'[0] = <<>>
          \/ \E c \in Ids : Asks(c, m)'
    BY <1>1, <2>1 DEF Talk
  <2>5. \A q \in Queues : rx'[q] # <<>> =>
          /\ Len(rx'[q]) = 1
          /\ \/ phase' = "loading" /\ q = 0 /\ rx'[q][1].type = ReplyType("load")
             \/ \E c \in Ids : Answers(rx[q][1], q, c)'
    BY <1>1, <2>2 DEF Talk
  <2> QED BY <2>3, <2>4, <2>5 DEF Talk
<1>2. ASSUME NEW c \in Ids, EnterInit(c) PROVE Talk'
  <2>1. /\ pc[c] = "init" /\ pc' = [pc EXCEPT ![c] = "register"]
        /\ UNCHANGED <<phase, number, call, poll, effect, rx, wire>>
    BY <1>2 DEF EnterInit
  <2>2. phase # "loading"
    BY <2>1 DEF Talk, Joined
  <2> QED BY <1>0, <1>1, <2>1, <2>2 DEF MsgTypeOK
<1>3. ASSUME NEW c \in Ids, Register(c) PROVE Talk'
  <2>1. /\ pc[c] = "register" /\ \E s \in {"work", "done"} : pc' = [pc EXCEPT ![c] = s]
        /\ number' = NumberOf(c)
        /\ UNCHANGED <<phase, call, poll, effect, rx, wire>>
    BY <1>3 DEF Register
  <2>2. phase # "loading"
    BY <2>1 DEF Talk, Joined
  <2>3. \A d \in Ids : pc[d] = "wait" => number'[d] = number[d]
    BY <2>1 DEF NumberOf, Numbered, Registered
  <2>4. \A d \in Ids : (pc[d] = "wait") <=> (pc'[d] = "wait")
    BY <1>0, <2>1 DEF MsgTypeOK
  <2>5. \A d \in Ids : \A m : Asks(d, m) => Asks(d, m)'
    BY <2>1, <2>4 DEF Asks
  <2>6. \A d \in Ids, q \in Queues : Answers(rx[q][1], q, d) => Answers(rx[q][1], q, d)'
    BY <2>1, <2>4 DEF Answers
  <2>7. /\ \A d \in Ids : pc'[d] = "wait" =>
             /\ call'[d] \in Calls
             /\ poll'[d] = number'[d]
        /\ \A d \in Ids : pc'[d] # "wait" => call'[d] = NoCall /\ effect'[d] = NoEffect
    BY <2>1, <2>3, <2>4 DEF Talk
  <2>8. \A m \in wire' : \E d \in Ids : Asks(d, m)'
    BY <2>1, <2>2, <2>5 DEF Talk
  <2>9. \A q \in Queues : rx'[q] # <<>> =>
          Len(rx'[q]) = 1 /\ \E d \in Ids : Answers(rx[q][1], q, d)'
    BY <2>1, <2>2, <2>6 DEF Talk
  <2> QED BY <2>1, <2>2, <2>7, <2>8, <2>9 DEF Talk
<1>4. ASSUME NEW c \in Ids, Send(c) \/ Receive(c) PROVE Talk'
  BY <1>0, <1>4, SendTalks, ReceiveTalks
<1>5. ASSUME NEW m \in wire, Handle(m) \/ Lose(m) \/ Crash(m) PROVE Talk'
  BY <1>0, <1>5, HandleTalks, LoseTalks
<1>6. CASE SendLoad \/ RunPhase \/ \E m \in wire : HandleLoad(m)
  BY <1>0, <1>6, LoadTalks
<1>7. CASE ReadOnlyPhase
  <2>1. /\ Joined /\ phase = "load" /\ phase' = "readonly"
        /\ \A c \in Ids : pc'[c] # "wait"
        /\ UNCHANGED <<call, effect, rx, wire>>
    BY <1>7, LaunchStarts DEF ReadOnlyPhase, Launch
  <2>2. wire = {} /\ \A q \in Queues : rx[q] = <<>>
    BY <1>0, <2>1, JoinedIsQuiet
  <2> QED BY <2>1, <2>2 DEF Talk, Joined
<1>8. CASE End
  <2>1. /\ phase = "run" /\ phase' = "end"
        /\ UNCHANGED <<pc, number, call, poll, effect, rx, wire>>
    BY <1>8 DEF End
  <2> QED BY <1>1, <2>1
<1>9. CASE UNCHANGED msgVars
  <2>1. UNCHANGED <<phase, pc, number, call, poll, effect, rx, wire>>
    BY <1>9 DEF msgVars
  <2>2. Joined => Joined'
    BY <2>1 DEF Joined
  <2> QED BY <1>1, <2>1, <2>2 DEF Talk
<1>10. ASSUME NEW c \in Ids, ReadRemotely(c) PROVE Talk'
  <2>1. /\ phase = "run" /\ pc[c] = "work"
        /\ \E s \in {"work", "done"} : pc' = [pc EXCEPT ![c] = s]
        /\ UNCHANGED <<phase, number, call, poll, effect, rx, wire>>
    BY <1>10 DEF ReadRemotely
  <2> QED BY <1>0, <1>1, <2>1 DEF MsgTypeOK
<1>11. QED
  BY <1>2, <1>3, <1>4, <1>5, <1>6, <1>7, <1>8, <1>9, <1>10
     DEF MsgNext, MainStep, ThreadStep, BackendTakes

-----------------------------------------------------------------------------
(***************************************************************************)
(* The theorems.  A map that is torn, or a process that has ended, has no  *)
(* conversation any more; the numbers and the types hold there too.        *)
(***************************************************************************)
MsgInv == MsgTyped /\ Numbered /\ Ruled /\ (Runs => Talk)

(* The inductive invariant: each id has a number of its own and a thread   *)
(* that waits has one request or one reply under way, for as long as the   *)
(* process runs and no lookup has fallen into an insert of a map.          *)
THEOREM MessagesInvariance == MsgSpec => []MsgInv
<1>1. MsgInit => MsgInv
  BY MsgTypedInit, NumbersInit, TalkInit DEF MsgInv
<1>2. MsgInv /\ [MsgNext]_msgVars => MsgInv'
  <2> SUFFICES ASSUME MsgInv, [MsgNext]_msgVars PROVE MsgInv'
    OBVIOUS
  <2>1. MsgTyped' /\ Numbered' /\ Ruled'
    BY MsgTypedStep, NumbersStep DEF MsgInv
  <2>2. ASSUME Runs' PROVE Talk'
    <3>1. Runs
      BY <2>2 DEF Runs, MsgNext, msgVars, netVars, mapVars
    <3>2. ~failed' /\ ~torn'
      BY <2>2 DEF Runs
    <3> QED BY <3>1, <3>2, TalkStep DEF MsgInv
  <2> QED BY <2>1, <2>2 DEF MsgInv
<1>3. QED
  BY <1>1, <1>2, PTL DEF MsgSpec

\* While there are no more ids than queues, every number is a queue.
LEMMA NumbersAreQueues ==
  MsgTypeOK /\ Numbered /\ First = 0 /\ Cardinality(DOMAIN number) <= NbThreads
    => \A i \in DOMAIN number : number[i] \in Queues
<1> SUFFICES ASSUME MsgTypeOK, Numbered, First = 0, Cardinality(DOMAIN number) <= NbThreads
             PROVE  \A i \in DOMAIN number : number[i] \in Queues
  OBVIOUS
<1>1. Cardinality(DOMAIN number) \in Nat /\ NbThreads \in Nat
  BY NumbersCounted
<1>2. \A i \in DOMAIN number : number[i] \in Nat /\ number[i] < Cardinality(DOMAIN number)
  BY <1>1 DEF MsgTypeOK, Numbered
<1>3. QED
  BY <1>1, <1>2 DEF Queues

LEMMA NoStepFails ==
  ASSUME First = 0, MsgInv, MsgInv', Runs, MsgNext, ~torn',
         Cardinality(DOMAIN number') <= NbThreads
  PROVE  ~failed'
<1> USE DEF mapVars, netVars
<1>1. MsgTyped /\ MsgTypeOK /\ Numbered /\ Ruled /\ Talk /\ ~failed
  BY DEF MsgInv, MsgTyped, Runs
<1>2. ASSUME NEW c \in Ids, Register(c) PROVE ~failed'
  <2>1. PICK q : q = number'[c]
    OBVIOUS
  <2>2. failed' = (WantsRule(init_count') /\ q \notin Queues)
    BY <1>2, <2>1, Zenon DEF Register
  <2>3. c \in DOMAIN number'
    BY <1>2 DEF Register, NumberOf
  <2>4. (\A i \in DOMAIN number : number[i] \in Queues)'
    <3>1. (MsgTypeOK /\ Numbered /\ First = 0 /\ Cardinality(DOMAIN number) <= NbThreads
             => \A i \in DOMAIN number : number[i] \in Queues)'
      BY NumbersAreQueues, PTL
    <3> QED BY <3>1 DEF MsgInv, MsgTyped
  <2> QED BY <2>1, <2>2, <2>3, <2>4
<1>3. ASSUME NEW c \in Ids, Send(c) PROVE ~failed'
  <2>1. PICK r \in Calls, seen \in NumbersSeen(c) : SendFrom(c, seen, seen.port)
    BY <1>3 DEF Send
  <2>2. seen.torn = FALSE
    BY <2>1 DEF SendFrom
  <2>3. seen \notin [queue : {0, number[c]}, port : {0, number[c]}, torn : {TRUE}]
    BY <2>2
  <2>4. seen = [queue |-> number[c], port |-> number[c], torn |-> FALSE]
    BY <2>3 DEF NumbersSeen
  <2>5. seen.queue = number[c]
    BY <2>4
  <2>6. c \in DOMAIN number /\ number' = number
    BY <1>1, <1>3 DEF Send, Numbered, Registered
  <2>7. number[c] \in Queues
    BY <1>1, <2>6, NumbersAreQueues
  <2> QED BY <1>1, <2>1, <2>5, <2>7 DEF SendFrom
<1>4. ASSUME NEW c \in Ids, Receive(c) PROVE ~failed'
  BY <1>1, <1>4, ReceiveTalks
<1>5. CASE RunPhase \/ SendLoad \/ \E m \in wire : HandleLoad(m)
  BY <1>1, <1>5, LoadTalks
<1>6. ASSUME NEW m \in wire, Handle(m) \/ Lose(m) \/ Crash(m) PROVE ~failed'
  BY <1>1, <1>6 DEF Handle, Lose, Crash
<1>7. CASE ReadOnlyPhase \/ End
  BY <1>1, <1>7 DEF ReadOnlyPhase, End
<1>8. ASSUME NEW c \in Ids, EnterInit(c) \/ ReadRemotely(c) PROVE ~failed'
  BY <1>1, <1>8 DEF EnterInit, ReadRemotely
<1>9. QED
  BY <1>2, <1>3, <1>4, <1>5, <1>6, <1>7, <1>8
     DEF MsgNext, MainStep, ThreadStep, BackendTakes

(* Where numbers begin at 0, nothing ends the process but a map torn by an *)
(* unlocked lookup, or more thread ids than there are queues: until then   *)
(* each thread finds a queue of the port and gets replies of the type that *)
(* it asserts (core/db.h:24-26).                                           *)
THEOREM NothingEverFails ==
  ASSUME First = 0
  PROVE  MsgSpec => []NothingFails
<1>1. MsgInit => NothingFails
  BY DEF MsgInit, NothingFails
<1>2. MsgInv /\ MsgInv' /\ NothingFails /\ [MsgNext]_msgVars => NothingFails'
  <2> SUFFICES ASSUME MsgInv, MsgInv', NothingFails, [MsgNext]_msgVars PROVE NothingFails'
    OBVIOUS
  <2>1. CASE UNCHANGED msgVars
    BY <2>1 DEF NothingFails, msgVars, netVars, mapVars
  <2>2. CASE MsgNext
    <3>1. SUFFICES ASSUME failed', ~torn' PROVE Cardinality(DOMAIN number') > NbThreads
      BY DEF NothingFails
    <3>2. Runs
      BY <2>2 DEF MsgNext
    <3>3. ~(Cardinality(DOMAIN number') <= NbThreads)
      BY <2>2, <3>1, <3>2, NoStepFails
    <3>4. Cardinality(DOMAIN number') \in Nat /\ NbThreads \in Nat
      <4>1. DOMAIN number' \subseteq Ids
        BY DEF MsgInv, MsgTyped, MsgTypeOK
      <4> QED BY <4>1, MessagesAssumption, FS_Subset, FS_CardinalityType
    <3> QED BY <3>3, <3>4
  <2> QED BY <2>1, <2>2
<1>3. QED
  BY <1>1, <1>2, MessagesInvariance, PTL DEF MsgSpec

(* A packet in a queue is the reply to the call of the one thread that     *)
(* polls it (recv_pkt() takes what comes first), as long as the process    *)
(* runs and no map is torn, however many ids the phases use.               *)
THEOREM RepliesFindTheirCalls == MsgSpec => []RepliesMatch
<1>1. MsgInv => RepliesMatch
  <2> SUFFICES ASSUME MsgInv, Runs, NEW q \in Queues, rx[q] # <<>>
               PROVE  /\ Len(rx[q]) = 1
                      /\ \/ phase = "loading" /\ q = 0 /\ rx[q][1].type = "0x0601"
                         \/ \E c \in Ids :
                              /\ pc[c] = "wait" /\ poll[c] = q
                              /\ \A d \in Ids : pc[d] = "wait" /\ poll[d] = q => d = c
                              /\ Content(rx[q][1]) = effect[c]
                              /\ rx[q][1].type = ReplyType(call[c].op)
    BY Zenon DEF RepliesMatch
  <2>1. ReplyType("load") = "0x0601"
    BY DEF ReplyType
  <2>2. CASE phase = "loading" /\ q = 0 /\ rx[q][1].type = ReplyType("load")
    BY <2>1, <2>2 DEF MsgInv, Talk
  <2>3. ASSUME NEW c \in Ids, Answers(rx[q][1], q, c) PROVE
          \A d \in Ids : pc[d] = "wait" /\ poll[d] = q => d = c
    BY <2>3, PollsDiffer DEF MsgInv, MsgTyped, Answers
  <2> QED BY <2>2, <2>3 DEF MsgInv, Talk, Answers
<1>2. QED
  BY <1>1, MessagesInvariance, PTL

(* The calls look as if they had been made one by one, each between its    *)
(* call and its return, whatever is lost, as long as no map is torn: what  *)
(* core/db.h says of Read() and Insert(), and of Update() all but that it  *)
(* writes (handle_update() makes no update).                               *)
THEOREM CallsAreLinearizable == MsgSpec => LinearizableButUpdates
<1> DEFINE Step == torn' \/ Kept!StoreNext
<1>1. MsgInit => Kept!StoreInit
  BY DEF MsgInit, Kept!StoreInit, Kept!NoCall, Kept!NoEffect, NoCall, NoEffect,
     Kept!Absent, Absent
<1>2. MsgInv /\ [MsgNext]_msgVars => [Step]_Kept!storeVars
  <2> SUFFICES ASSUME MsgInv, [MsgNext]_msgVars, ~torn'
               PROVE  [Kept!StoreNext]_Kept!storeVars
    OBVIOUS
  <2> USE DEF Kept!NoCall, Kept!NoEffect, Kept!Calls, Calls, NoCall, NoEffect, mapVars
  <2>1. ASSUME UNCHANGED <<tree, call, effect, answer>>
        PROVE  [Kept!StoreNext]_Kept!storeVars
    BY <2>1 DEF Kept!storeVars
  <2>2. ASSUME NEW c \in Ids, MsgNext, Send(c) PROVE Kept!Invoke(c)
    <3>1. pc[c] = "work" /\ Talk
      BY <2>2 DEF Send, MsgNext, MsgInv
    <3>2. call[c] = NoCall
      BY <3>1 DEF Talk
    <3>3. \E r \in Calls : call' = [call EXCEPT ![c] = r]
      BY <2>2 DEF Send
    <3> QED BY <2>2, <3>2, <3>3 DEF Send, Kept!Invoke
  <2>3. ASSUME NEW c \in Ids, MsgNext, Receive(c) PROVE Kept!Return(c)
    <3>1. effect[c] # NoEffect /\ answer' = [answer EXCEPT ![c] = effect[c]]
      BY <2>3, ReceiveTalks DEF MsgNext, MsgInv
    <3> QED BY <2>3, <3>1 DEF Receive, Kept!Return
  <2>4. ASSUME NEW m \in wire, MsgNext, Handle(m) PROVE \E c \in Ids : Kept!TakeEffect(c)
    <3>1. PICK c : c = m.from
      OBVIOUS
    <3>2. PICK r : r = call[c]
      OBVIOUS
    <3>3. /\ c \in Ids /\ effect[c] = NoEffect /\ m.call = r /\ r \in Calls
          /\ r.op \in {"insert", "read", "update"}
      BY <2>4, <3>1, <3>2, RequestIs DEF MsgNext, MsgInv, Handle, Asks, Talk
    <3>4. PICK reply \in Replies(r) : effect' = [effect EXCEPT ![c] = Content(reply)]
      BY <2>4, <3>1, <3>3 DEF Handle
    <3>5. /\ tree' = IF r.op = "insert" THEN [tree EXCEPT ![r.key] = r.ver] ELSE tree
          /\ UNCHANGED <<call, answer>>
      BY <2>4, <3>3 DEF Handle
    <3>6. tree' = Kept!After(r)
      BY <3>3, <3>5 DEF Kept!After
    <3>7. Content(reply) \in Kept!Outcomes(r, tree)
      <4>1. CASE r.op # "read"
        BY <4>1 DEF Replies, Content, Kept!Outcomes
      <4>2. CASE r.op = "read"
        <5>1. PICK k \in Keys :
                /\ tree[k] # Absent /\ (tree[r.key] # Absent => k = r.key)
                /\ reply = [op |-> r.op, type |-> ReplyType(r.op), key |-> k, ver |-> tree[k]]
          BY <4>2 DEF Replies
        <5>2. Content(reply) = [op |-> "read", key |-> k, ver |-> tree[k]]
          BY <4>2, <5>1 DEF Content
        <5>3. tree[k] \in Versions
          BY <5>1 DEF MsgInv, MsgTyped, MsgTypeOK
        <5>4. CASE tree[r.key] # Absent
          <6>1. Content(reply) = [op |-> "read", key |-> r.key, ver |-> tree[r.key]]
            BY <5>1, <5>2, <5>4
          <6> QED BY <4>2, <5>4, <6>1 DEF Kept!Outcomes, Kept!Absent, Absent
        <5>5. CASE tree[r.key] = Absent
          <6>1. Content(reply) \in [op : {"read"}, key : Keys, ver : Versions]
            BY <5>2, <5>3
          <6> QED BY <4>2, <5>5, <6>1 DEF Kept!Outcomes, Kept!Absent, Absent
        <5> QED BY <5>4, <5>5
      <4> QED BY <4>1, <4>2
    <3>8. r # NoCall
      BY <3>3
    <3> QED BY <3>2, <3>3, <3>4, <3>5, <3>6, <3>7, <3>8 DEF Kept!TakeEffect
  <2>5. ASSUME NEW c \in Ids, EnterInit(c) \/ Register(c) \/ ReadRemotely(c)
        PROVE  UNCHANGED <<tree, call, effect, answer>>
    BY <2>5 DEF EnterInit, Register, ReadRemotely, netVars
  <2>6. ASSUME NEW m \in wire, Lose(m) \/ HandleLoad(m) \/ Crash(m)
        PROVE  UNCHANGED <<tree, call, effect, answer>>
    BY <2>6 DEF Lose, HandleLoad, Crash, threadVars
  <2>7. MainStep \/ UNCHANGED msgVars => UNCHANGED <<tree, call, effect, answer>>
    BY DEF MainStep, ReadOnlyPhase, SendLoad, RunPhase, End, msgVars, netVars, threadVars
  <2> QED BY <2>1, <2>2, <2>3, <2>4, <2>5, <2>6, <2>7
          DEF MsgNext, ThreadStep, BackendTakes, Kept!StoreNext
<1>3. MsgSpec => Kept!StoreInit /\ [][Step]_Kept!storeVars
  <2> HIDE DEF Step
  <2> QED BY <1>1, <1>2, MessagesInvariance, PTL DEF MsgSpec
<1>4. QED
  BY <1>3 DEF LinearizableButUpdates
=============================================================================
