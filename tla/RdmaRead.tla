------------------------------ MODULE RdmaRead ------------------------------
(***************************************************************************)
(* The running system around the backend's tree: the frontend threads of   *)
(* ycsbc (RDMA/CPU/ycsbc.cc), their inserts over UDP and their one-sided   *)
(* reads (BPlusTreeDB::RDMARead), and the switch, which answers the first  *)
(* read of a lookup with the address its tables give for the key.          *)
(*                                                                         *)
(* The NIC reads nodes of the pool while the backend thread changes them.  *)
(* FatBTree has the tree as that thread knows it; here `mem' is what is in *)
(* memory.  A step of the backend leaves `writes' to do, and each reaches  *)
(* memory in a step of its own: the keys of a node, then its children, of  *)
(* one node after the other.  A node is fetched in two halves, too, in the *)
(* order of its members: isValue and the keys, then the children and the   *)
(* value.  A fetch may fall into the write of one array (memmove, then     *)
(* _size) and find it half shifted; the model shows it before or after.    *)
(* Either way the write was still under way, and the read is `overtaken'.  *)
(***************************************************************************)
EXTENDS SwitchRoute

CONSTANTS
  Threads,       \* frontend threads
  MaxReads       \* bound: RDMA reads in progress at once

ASSUME ReadAssumption == MaxReads \in Nat

VARIABLES
  issued,       \* keys the workload's key counter has handed out
  acked,        \* ground_truth: keys whose Insert() has returned
  op,           \* what each thread is doing
  remote_node,  \* BPlusTreeDB::remote_node, the buffer all threads read into
  mem,          \* the nodes in memory, as the NIC finds them
  writes,       \* what the backend's last step has still to write, in order
  snapshot      \* history: the keys in the tree when the switch was loaded

clientVars == <<issued, acked, op, remote_node>>
memVars == <<mem, writes>>
rdmaVars == <<vars, clientVars, memVars, snapshot>>

Idle == [kind |-> "none"]
InsertOf(k) == [kind |-> "insert", key |-> k]
ReadOf(k, n) ==
  [kind |-> "read", key |-> k, at |-> n, step |-> "header",
   known |-> k \in acked, overtaken |-> FALSE]

Reading(t) == op[t].kind = "read"
Loading == pc \in {"expand", "print"}

-----------------------------------------------------------------------------
(* A node in memory: its keys as far as their _size, but all of the array  *)
(* child[], of which a reader does not look at the _size.                  *)
FreshMemory == [isValue |-> FALSE, key |-> <<>>, slots |-> <<>>, val |-> NoKey]

(* What child[] holds once it has been written: erase() and clear() leave  *)
(* the entries beyond _size as they are, insert() and push_back() write    *)
(* over them from the front.                                               *)
Over(child, slots) == child \o SubSeq(slots, Len(child) + 1, Len(slots))

\* A write to do.  A copy_node gets all of its source's array child[].
Write(n, part) == [node |-> n, part |-> part, from |-> n]
CopyOf(n, source) == [node |-> n, part |-> "node", from |-> source]

\* Of these writes, some are to the node.
Pending(ws, n) == \E w \in ToSet(ws) : w.node = n

(* The writes of a step that the NIC can see, in the order of the code: a  *)
(* node from the pool is filled before anything points to it, keys go in   *)
(* or out before children.  erase() and clear() of child[] only set _size. *)
LeafWrites == <<Write(nb_node, "node"), Write(cur, "key"), Write(cur, "child")>>
CopyWrites == <<CopyOf(nb_node, cur), Write(cur, "key"), Write(cur, "child")>>
SplitWrites(parent) ==
  <<Write(nb_node, "node"), Write(cur, "key"), Write(parent, "key"), Write(parent, "child")>>

\* The next write reaches memory.
WriteOne ==
  /\ writes # <<>>
  /\ LET w     == Head(writes)
         node  == pool[w.node]
         slots == Over(node.child, mem[w.from].slots)
     IN  mem' = [mem EXCEPT ![w.node] =
           [isValue |-> IF w.part = "node" THEN node.isValue ELSE @.isValue,
            key     |-> IF w.part \in {"node", "key"} THEN node.key ELSE @.key,
            slots   |-> IF w.part \in {"node", "child"} THEN slots ELSE @.slots,
            val     |-> IF w.part = "node" THEN node.val ELSE @.val]]
  /\ writes' = Tail(writes)
  /\ UNCHANGED <<vars, clientVars, snapshot>>

-----------------------------------------------------------------------------
RdmaInit ==
  /\ Init
  /\ issued = {} /\ acked = {}
  /\ op = [t \in Threads |-> Idle]
  /\ remote_node = [isValue |-> FALSE, key |-> <<>>, slots |-> <<>>, val |-> NoKey]
  /\ mem = [n \in Addr |-> FreshMemory] /\ writes = <<>>
  /\ snapshot = {}

\* Faulty variant: the key is read off the counter and not counted.
StartInsertUncounted(t, k) ==
  /\ op[t] = Idle
  /\ ~Loading
  /\ k \notin issued
  /\ op' = [op EXCEPT ![t] = InsertOf(k)]
  /\ UNCHANGED <<vars, issued, acked, remote_node, memVars, snapshot>>

(* A thread takes the next key of the counter and sends it.  While the     *)
(* switch is loaded no thread runs: main() waits in Load2Switch().         *)
StartInsert(t, k) ==
  /\ op[t] = Idle
  /\ ~Loading
  /\ k \notin issued
  /\ issued' = issued \cup {k}
  /\ op' = [op EXCEPT ![t] = InsertOf(k)]
  /\ UNCHANGED <<vars, acked, remote_node, memVars, snapshot>>

\* The backend takes one of the messages that wait for it.
TakeInsert(t) ==
  /\ op[t].kind = "insert"
  /\ InsertBegin(op[t].key)
  /\ UNCHANGED <<clientVars, memVars, snapshot>>

\* The handler is through and has sent 0x0528; Insert() notes the key.
InsertReturns(t) ==
  /\ op[t].kind = "insert"
  /\ op[t].key \in key_map
  /\ pc = "idle" \/ in_key # op[t].key
  /\ acked' = acked \cup {op[t].key}
  /\ op' = [op EXCEPT ![t] = Idle]
  /\ UNCHANGED <<vars, issued, remote_node, memVars, snapshot>>

\* main(): all threads are joined before the switch is loaded.
Load2Switch ==
  /\ \A t \in Threads : op[t] = Idle
  /\ LoadBegin
  /\ snapshot' = key_map
  /\ UNCHANGED <<clientVars, memVars>>

(* A key the counter has handed out, be it inserted or not.  The first     *)
(* read carries it through the switch, which puts in the address.          *)
StartRead(t, k) ==
  /\ op[t] = Idle
  /\ printed # {} /\ ~Loading
  /\ Cardinality({u \in Threads : Reading(u)}) < MaxReads
  /\ k \in issued
  /\ op' = [op EXCEPT ![t] = ReadOf(k, Route(k))]
  /\ UNCHANGED <<vars, issued, acked, remote_node, memVars, snapshot>>

\* The thread goes on with its read; a write to the node was under way.
Fetched(t, step) ==
  op' = [op EXCEPT ![t].step = step, ![t].overtaken = @ \/ Pending(writes, op[t].at)]

FetchHeader(t) ==
  /\ Reading(t) /\ op[t].step = "header"
  /\ remote_node' = [remote_node EXCEPT !.isValue = mem[op[t].at].isValue,
                                        !.key = mem[op[t].at].key]
  /\ Fetched(t, "rest")
  /\ UNCHANGED <<vars, issued, acked, memVars, snapshot>>

FetchRest(t) ==
  /\ Reading(t) /\ op[t].step = "rest"
  /\ remote_node' = [remote_node EXCEPT !.slots = mem[op[t].at].slots,
                                        !.val = mem[op[t].at].val]
  /\ Fetched(t, "hop")
  /\ UNCHANGED <<vars, issued, acked, memVars, snapshot>>

\* Faulty variant: the child before the one lower_bound points to.
NextAddressBehind(t) ==
  LET i == LowerBound(remote_node.key, op[t].key) - 1
  IN  IF i \in DOMAIN remote_node.slots THEN remote_node.slots[i] ELSE Route(0)

(* child[it - begin()], whatever is there.  A null pointer makes           *)
(* read_remote_node() send its default key 0 through the switch again.     *)
NextAddress(t) ==
  LET i == LowerBound(remote_node.key, op[t].key)
  IN  IF i \in DOMAIN remote_node.slots THEN remote_node.slots[i] ELSE Route(0)

Hop(t) ==
  /\ Reading(t) /\ op[t].step = "hop"
  /\ ~remote_node.isValue
  /\ op' = [op EXCEPT ![t].at = NextAddress(t), ![t].step = "header"]
  /\ UNCHANGED <<vars, issued, acked, remote_node, memVars, snapshot>>

ReadReturns(t) ==
  /\ Reading(t) /\ op[t].step = "hop"
  /\ remote_node.isValue
  /\ op' = [op EXCEPT ![t] = Idle]
  /\ UNCHANGED <<vars, issued, acked, remote_node, memVars, snapshot>>

-----------------------------------------------------------------------------
(* The backend overtakes a read when it moves the key out of the node the  *)
(* read is about to fetch, when it writes the node between the two halves, *)
(* and when a half is fetched before the writes to the node are done.      *)
Overtaken(t) ==
  LET k == op[t].key
      n == IF op[t].step = "hop" /\ ~remote_node.isValue
           THEN NextAddress(t) ELSE op[t].at
  IN  \/ InRange(k, cover[n]) /\ ~InRange(k, cover'[n])
      \/ op[t].step = "rest" /\ Pending(writes', n)

(* The backend's next step.  It begins when the last one is in memory: the *)
(* thread's stores follow one another.                                     *)
BackendStep ==
  /\ writes = <<>>
  /\ \/ (Descend \/ OverflowDone \/ LoadStep) /\ writes' = <<>>
     \/ LeafInsert /\ writes' = LeafWrites
     \/ OverflowCopy /\ writes' = CopyWrites
     \/ (SplitLeaf \/ SplitInner) /\ writes' = SplitWrites(cur')
  /\ op' = [t \in Threads |->
              IF Reading(t) THEN [op[t] EXCEPT !.overtaken = @ \/ Overtaken(t)]
              ELSE op[t]]
  /\ UNCHANGED <<issued, acked, remote_node, mem, snapshot>>

ReadStep(t) == FetchHeader(t) \/ FetchRest(t) \/ Hop(t) \/ ReadReturns(t)

RdmaNext ==
  \/ \E t \in Threads, k \in Keys : StartInsert(t, k) \/ StartRead(t, k)
  \/ \E t \in Threads : TakeInsert(t) \/ InsertReturns(t) \/ ReadStep(t)
  \/ Load2Switch
  \/ BackendStep \/ WriteOne

RdmaSpec == RdmaInit /\ [][RdmaNext]_rdmaVars

\* The NIC serves every read and the frontend thread polls for it.
FairRdmaSpec == RdmaSpec /\ \A t \in Threads : WF_rdmaVars(ReadStep(t))

-----------------------------------------------------------------------------
(* Properties.                                                             *)

\* Type correctness of the frontend's state.
RdmaTypeOK ==
  /\ acked \subseteq issued /\ issued \subseteq Keys /\ snapshot \subseteq issued
  /\ \A t \in Threads :
       /\ op[t].kind \in {"none", "insert", "read"}
       /\ Reading(t) => /\ op[t].key \in issued
                        /\ op[t].at \in Addr
                        /\ op[t].step \in {"header", "rest", "hop"}
  /\ \A n \in Addr : mem[n].slots \in Seq(Addr) /\ mem[n].key \in Seq(Keys)
  /\ \A w \in ToSet(writes) : w.node \in Addr /\ w.from \in Addr

ReadEnds(t) == Reading(t) /\ op'[t] = Idle
Right(t) == remote_node.val = op[t].key

(* RDMARead() compares its result with ground_truth: a read of a key whose *)
(* Insert() had returned before the read began returns that key's values.  *)
ReadsMatchGroundTruth ==
  [][\A t \in Threads : ReadEnds(t) /\ op[t].known => Right(t)]_rdmaVars

(* What does hold with inserts beside the reads: the tables of the switch, *)
(* however old, and the hops from the address they give lead to the key,   *)
(* if the backend does not overtake the read, and if the key was in the    *)
(* tree when a table of the switch took the place of its leaf.             *)
QuietReadsAreRight ==
  [][\A t \in Threads :
       /\ ReadEnds(t) /\ op[t].known /\ ~op[t].overtaken
       /\ op[t].key \in snapshot \/ ~pool[Route(op[t].key)].isValue
       => Right(t)]_rdmaVars

(* A read of an acknowledged key comes to an end, unless the backend       *)
(* overtakes it: no thread stays in one for ever, over copies, old tables  *)
(* and entries beyond _size.  RDMARead()'s loop has no bound, and a key    *)
(* that the counter has handed out and no insert has put into the tree yet *)
(* may have no child to go on to: the null pointer then sends the read     *)
(* through the switch again.                                               *)
ReadsEnd ==
  \A t \in Threads : []<>(Reading(t) /\ op[t].known => op[t].overtaken)
=============================================================================
