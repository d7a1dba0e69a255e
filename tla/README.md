# Fat B-tree: models, checks and proofs

The repository is a key-value store whose index is a B+ tree with its top
levels in a programmable switch. A *backend* keeps the tree. A *frontend*
(YCSB-C) inserts over UDP and, in the RDMA variant, reads tree nodes out of the
backend's memory with one-sided RDMA reads. A *switch* between them holds
tables made from the upper levels of the tree (the "fat root" and the layers
below it) and puts into the first read of a lookup the address of the node
where the search may start. The tree is loaded to the switch once; inserts go on
afterwards, and addresses in the switch must stay good. In the Ethernet variant
the reads are packets, too, and the backend searches from the address the switch
has written into them.

All paths below are relative to `src/RDMA/` unless they start with `Ethernet/`.

## 1. Inventory

| Part | State | Operations | Interacts by |
|---|---|---|---|
| B+ tree, `CPU/lib/b_plus_tree.h` | static `pool`, `nb_node`, `depth`, `key_map`; in a node: keys, children, value, `parent`, `isLeaf`, `isValue`, `isLoaded2Switch` | `insert`, `overflow`, `lookup`, `load2switch_greedy`, `print_info` | called by the backend loop; its pool is read by the NIC; its node file feeds the switch |
| Arrays, `CPU/lib/fixed_size_container.h` | `_val`, `_size` | `insert`, `erase`, `clear`, `push_back` | members of a node, fetched as raw memory |
| Backend loop, `CPU/backend/backend.cc` | none of its own | `handle_insert`, `handle_query`, `handle_update`, `handle_load2switch` | UDP messages, one at a time, one thread |
| Frontend, `CPU/db/b_plus_tree_db.*` | `remote_node`, `rclient`, `ground_truth`, `init_count` | `Init`, `Insert`, `RDMARead`, `Read`, `Update`, `Load2Switch` | several threads share one object |
| Benchmark, `CPU/ycsbc.cc`, `CPU/core/` | key counter, thread futures | load phase, read-only phase, load to switch, transactions | starts the threads of each phase and joins them |
| DPDK driver, `CPU/driver/driver.cc` | `map_queue_id`, `map_dest_port`, flow rules, `recv_queue` | register, `flow_init`, `send_pkt`, `recv_pkt`, codecs | NIC queues; maps shared by the threads |
| RDMA set-up, `CPU/driver/rdma_driver.*`, `rdma_common.cc` | queue pair, memory region, metadata | `rdma_client_setup`, `rdma_server_setup` | connection manager, one send |
| RDMA reads, `read_remote_node`, `process_work_completion_events` | completion queue, event channel, `remote_node` | post, wait for event, re-arm, poll | one queue pair for all threads |
| Fat root tables, `P4/.../config_table.cpp`, `Ingress0` | `rangelist`, `pfidx`, work lists; four match tables | generate rows; look a key up by 16-bit digits | files `keys_info.txt`, `table_info.txt` |
| Compare stages, `P4/.../config.py`, `FBT_RDMA.p4` | thresholds, results; packet metadata | `readNode`, `set_table`; `APPLY_TABLE`; `Egress0` | file `node_info_greedy.txt`; packet header `fbt_idx` |
| Ethernet variant, `Ethernet/` | partitioned backends, the fat root of all partitions in one table | as above, with `lookup(key, bias)` and `update` | UDP only |
| In-memory stores, `CPU/db/hashtable_db.cc`, `CPU/lib/*_hashtable.h` | `key_table_`, a field table for each record, strings on the heap | `Read`, `Update`, `Insert`, `Delete` | threads share the tables; each table has its own lock |

What is hard here, and what would make it right:

* **The tree.** An insert may split a chain of nodes, replace a loaded node by a
  copy on the way and grow the root, through states in which the tree is only
  partly linked. Right means: no key disappears, at any step; nodes never
  overfill or starve; a search that starts at an address in the switch, however
  old, ends where it should.
* **One-sided reads.** They take no lock. A reader holds an address while the
  backend splits that node, or fetches a node while it changes. Right means: a
  key whose `Insert()` has returned is read with its own values, and its read
  ends. That is not so for every read; section 5 has the exceptions.
* **Completions.** A thread sleeps on an event channel that has to be armed
  again before the completion queue is emptied, and all threads share one queue,
  one work request and one buffer. Right means: a read returns the value of its
  key, and no thread sleeps with its completion in the queue. With more than one
  thread neither is so; what is left of both is what the models state.
* **The switch.** Tables are generated by one program, installed by a second and
  evaluated by a third with machine-word arithmetic. Right means: a packet
  goes to the child a search of the tree would choose, for all keys, including
  those at the borders of a range, of a digit, of a word.
* **Messages and threads.** Replies carry no name. A thread takes whatever is
  first in its queue, and the queue is found by a number that was given to its
  thread id in an earlier phase. Right means: each call gets the answer to
  itself, and the calls together look as if they had been made one by one.
* **Set-up.** Two state machines that meet over a connection with failures on
  each step. Right means: a side that reports success can rely on the other's.
* **In-memory stores.** An operation is several calls of tables that lock
  themselves for one call only. Right means: nothing freed is used, and what is
  acknowledged is in the table. Where calls on one key overlap neither is always
  so; the models say for which pairs of calls.

## 2. Modules

```
SortedArray --- FatBTree --- FatBTreeInv ------ FatBTreeProofs
                    |             |                   |
                    |       FatBTreeIndex ---- FatBTreePathProofs
                    |        |    |              |          |
                    |    KVIndex MCFatBTree      |          |
               SwitchRoute                       |          |
                |       |                        |          |
                |     RdmaRead -------- RdmaReadProofs      |
            EthPath -------------------------------- EthPathProofs

SwitchTables, SwitchStage --- SwitchPath --- MCSwitchPath, SwitchPathProofs
Messages (and KVStore) --- MessagesProofs
RdmaSetup, Completions --- RdmaVerbs --- RdmaVerbsProofs
HashStore --- MCHashStore, HashStoreProofs
```

**SortedArray** has the arrays of a node as sequences: `LowerBound` is
`std::lower_bound`, `Insert`, `Keep`, `From` the container's members.
The lemmas about them open `FatBTreeProofs`.

**FatBTree** is the backend. Keys are numbers, a payload is named by its key.
The backend is one thread, so a handler is never interrupted by another; its
loops and its recursion are unfolded into steps, because readers and switch look
at the tree in between. A step is what that thread has done when it gets there.
The NIC can see its stores one by one: RdmaRead takes each step apart into the
writes it consists of.

| Action | Code |
|---|---|
| `InsertBegin` | `insert()` up to the loop |
| `Descend` | one turn of `while (!cur->isLeaf)` |
| `LeafInsert` | value node and leaf entry |
| `OverflowDone` | `overflow()` finds room |
| `OverflowCopy` | the `copy_node` branch |
| `SplitLeaf`, `SplitInner` | the two splits, up to the recursive call |
| `LoadBegin`, `Expand`, `PrintRoot`, `PrintLayer` | `load2switch_greedy()`: start, one turn of the greedy loop, the root, one layer |

Access counts are left out, so wherever the code sorts by them the model takes
any order. `cover` is a history variable that no action reads: the keys a node is
responsible for. `LoadBegin` asks for a tree at least `RootLoadDepth` deep and
with two levels; with a smaller one `depth - root_load_depth` wraps and
`cached_nodes[1]` is out of bounds. `MaxNodes` cuts off inserts where the code
would run off its pool.

**KVIndex** is what the tree promises: an insert takes effect at one moment
between call and return, and nothing is ever forgotten. **FatBTreeIndex** maps
the tree to it: the visible keys are those a lookup from the root finds with
their own payload.

**SwitchRoute** is what the switch does to a key, without digits and words: a hop
for the fat root and one for each layer that has a table for the node reached.
The two systems below use it; that the real tables do the same is what
SwitchPath is about.

**RdmaRead** adds the threads of the frontend, the messages on their way, the
shared `remote_node` and the memory the NIC reads (`mem`). A step of the backend
leaves a list of writes (`writes`), in the order of the code, and each reaches
memory in a step of its own (`WriteOne`):

| Step | Writes | Code |
|---|---|---|
| `LeafInsert` | the value node; the leaf's keys; its children | `b_plus_tree.h:59-68` |
| `OverflowCopy` | the copy; the keys of `cur`; its children | `:314-330` |
| `SplitLeaf`, `SplitInner` | the new node; the keys of `cur`; the parent's keys; its children | `:335-369` |

A node from the pool counts as one write, since nothing points to it before it is
filled; `erase()` and `clear()` of `child[]` only set a `_size` that no reader looks
at. A fetch takes two steps in the order of a node's members, header and keys
first, so it falls before, between or after any of these writes. `slots` has
all of `child[]`, also what lies beyond its `_size`, since a reader that combines
the keys of one moment with the children of another may index there. Three variables are
history: `snapshot` (the keys in the tree when the switch was loaded) and, in
`op`, `known` (the key's `Insert()` had returned when the read began) and
`overtaken`: the backend moved the key out of the node the read is about to fetch,
wrote that node between the halves, or had a write to it still under way when a
half was fetched. That no client runs while the switch is loaded is what
`main()` and the operator's "done" at both consoles ensure.

**EthPath** is the same for the Ethernet variant. The packet of a read gets its
address when it passes the switch (`Forward`) and is handled later (`Handle`),
with inserts in between. Packets of updates have a type, 0x0531, that the P4 parser
does not follow to the index, so they keep address 0 and start at the root.
The loader (`PrintInner`, `IsInner`, `LoadEnds`) prints inner nodes only.
`Edge` is the first key of a later partition, `Window` the part of the pool that
`bias & 0xFFFFFFFF` can reach. One backend of the four is modelled; they share
nothing but the fat root's list of keys. A search for a key above all those of a
node reads `child[]` beyond its end (`Outcomes`): it may find a pointer that was
moved away and end at anyone's record, or take the backend with it (`Lost`).

**SwitchTables** has the generation of the fat root's rows, one loop turn
per step, and the lookup of `Ingress0`. The four copies of the loop in
`config_table.cpp` differ only in shifts; they are one loop with its level as a
variable. `clashed` is history. Digits of the key and their number are
parameters. **SwitchStage** has a node's padding and tables and the packet that
crosses them, with the subtraction and sign tricks the P4 program compares with;
words, groups and layers are parameters. An all-zero bit pattern has no row: key 0
stays where it is. **SwitchPath** composes the two with the parser and `Egress0`:
a print-out of the backend, the tables made from it, the first read of a lookup
with its key as address and remote key 0 (`FirstRead`), the request that leaves
for the backend (`Depart`).

**Messages** is the path over UDP with the tree as a map from keys to versions.

| Action | Code |
|---|---|
| `EnterInit`, `Register` | `BPlusTreeDB::Init()`: lock; number, port and flow rule of the thread |
| `Send` | `Insert()`, `Read()`, `Update()` up to `send_pkt`; the queue and port are looked up without a lock |
| `ReadRemotely` | `RDMARead()` in the last phase, which needs no packet |
| `Handle`, `Crash`, `HandleLoad` | one turn of the backend's loop with its `handle_...`; a search for a key that is not there may crash it |
| `Receive` | `recv_pkt()` and the assert on the type |
| `Lose`, `Deliver` | a packet is lost, on either way |
| `ReadOnlyPhase`, `SendLoad`, `RunPhase`, `End` | `main()`: join, start the next phase, `Load2Switch()` |

A phase is started with any `NbThreads` of the `Ids`, so that a later one may
have ids that no earlier one had. Each thread gets `total / num_threads`
operations: with three records and two threads one key of `recordcount` is never
inserted, and the later phases ask for it all the same, as
`NextTransactionKey()` does. Such a read ends at another record or crashes the
backend. A ReadModifyWrite is a read by message and then an update of the same key
(`due`).

`NumberOf` is `m[id] = m.size()` behind a `count()`. The order of the two sides
of that assignment is fixed from C++17 on, to 0..n-1, which is what compilers
without a `-std` flag (`CPU/driver/Makefile` has none) do since gcc 11; `First = 1` has
the other order. `NumbersSeen` is a lookup without the lock: beside the insert of
another thread's id it may find nothing, and `operator[]` then makes an entry of
its own, outside the lock. Two threads have then written to one `std::map` at
once; what follows is undefined, so the model sets `torn` and goes no
further. `effect` is history. **KVStore** is the abstract specification:
calls that overlap, each of which takes effect at one moment between call and
return; `Writers` are the calls that change the record, and what a read of a
missing record shows is left open.

**RdmaSetup** has the two set-ups with the handshake of the connection manager,
the receive posted ahead, the one send of the pool's address and key, and its
two completions. `ClientFails`, `ServerFails`, `Break` and the second halves of
`SendMetadata` and `Transfer` are the failures. A step is one function or
one wait. `Punctual` says that the backend listens before the frontend's
`usleep(1000000)` is over. `return -errno` after a call that does not set `errno` may return
0: `ServerEstablished` (`rdma_driver.h:727-729`), `SendMetadata` (`:824-826`),
`MetadataSent` and `XchangeMetadata` (`rdma_common.cc:143-147`) each have that
outcome, and `silent` is the history of it.

**Completions** is `read_remote_node()` inside the loop of `RDMARead()`, by any number
of threads: fill the shared work request, post it, `ibv_get_cq_event`,
re-arm, poll, look at the buffer. Each of the calls may fail, and the loop goes on
with what the buffer holds. A request that is filled by one thread while another
posts it may name no node at all. A node is named by the search it lies on and
its depth. `alone` is history: no other thread's read has overlapped this one.
**RdmaVerbs** composes the two: reads begin when both sides have reported success,
over a queue that a silent error of the set-up may have left unarmed with a
completion in it.

**HashStore** has the four operations of `HashtableDB` cut at the calls of the
locked tables, in any mixture on the same keys. A string is named by the call
that copied it. `met` is history: the operations on its key that ran beside a call;
`bad` records each use or release of something freed, with what its call had met.

Faulty variants of some definitions stand before the definitions they vary, named
and marked as such. No specification uses them; they show that a property can fail.

## 3. Runs

| Run | Instance | Shows |
|---|---|---|
| `tree` | M = 3, 6 keys, 21 nodes, fat root of up to 7 that may swallow one level | every key found at every step; equal leaf depth until the load; half-filled leaves; what is printed fits the tables; the inductive invariant; routing from every node; covers and addresses of loaded nodes; refinement of KVIndex; end of the load |
| `read_race` | two threads, one read at a time, M = 3, 5 keys, a table layer below the root, each write of the backend a step | reads of acknowledged keys that are not overtaken are right; they end |
| `eth` | M = 2, 4 keys, 16 nodes, fat root of up to 3, two layers, two threads | queries agree with `ground_truth`, with inserts between switch and backend; the layers end above the leaves; printed nodes never change; only a search for a missing key runs off the tree |
| `switch` | three digits of three values, every root of up to three keys, below it nodes of two layers, two groups of two entries, words of six values | rows disjoint; comparison bits sorted; each layer takes the tree's child; the request leaves for the tree's node |
| `msg_calls` | two threads, three ids, 3 records of which 2 are loaded, 4 operations in each later phase, losses, torn maps, missing keys | each reply to its call and reads and inserts linearizable until a map is torn; what can end the process; the benchmark ends otherwise, unless a packet is lost or the backend crashes |
| `verbs` | the set-up and then two threads, 2 keys, 2 hops, a queue pair for 2 requests; three reads and faults together; failures of every call, of the network and the adapter | success means the other side has sent, or one has received, up to an own error that came back as 0; both succeed without a failure; not all threads stuck; undisturbed reads are right and return |
| `store_calls` | two threads, 1 key, 2 fields, 3 operations each, all four operations | which overlaps lead to the use of freed memory or a double release, and that no others do; what is returned as written is in the record |
| `read_stale`, `switch_clash`, `msg_update`, `comp_result`, `eth_edge` | as small as the case allows | section 5 |

*Why the bounds are enough.* With M = 3 six keys split leaves several times, split
an inner node and grow the root twice (depth 3); the pool has a node for each key, each
split and each copy any order of inserts can ask for, so `MaxNodes` does
not cut the run short. A load may come between any two inserts, which
makes copies of loaded leaves, of inner nodes and of the root. `eth` has M = 2,
the smallest even capacity, where halves of a leaf are equal and four keys reach
the depth at which inner nodes are printed; for all other M there is the proof
of the invariant. `RootLoadNum` makes the fat root the root alone (4 with M = 3:
no child fits beside it) or an expanded frontier (7 in `tree`, 3 in `eth`). Three
keys of a root make four ranges, enough for two to end in one block on every level
of the tables; words of six values have both sign bits and both signs of every
difference, and keys of 27 values fill both words of a comparison. Two threads
are as many as a queue, a rule, a lock or a record can be contended by. The
third id of `msg_calls` is one that a later phase may use for the first time, when
every queue has its number. Two operations of a thread put its second request
behind its own first reply and between the other's. In `verbs` reads and faults
come to three together: two reads that get mixed up and a third that finds
what they left, or one read with two failures, or two reads and one failure, after
which a queue pair of two requests is full.
`store_calls` has one key because calls on different keys share
nothing; with three calls each a thread can make, change and remove a record while
the other is anywhere in a call of its own.

*Deadlock* is not checked in any run: every system here ends, when all keys are
inserted, all rows printed, the packet has left, the benchmark is over, or a side
has failed.

*Fairness.* `FairSpec` has weak fairness of the backend's steps within a
handler: the thread is pinned to a core, takes no lock and waits for nothing once
a message is read. It has none for the arrival of messages. `FairRdmaSpec`
has weak fairness of a thread's own read steps: the NIC serves reads without
the backend's help and the frontend waits for each completion. Inserts are
not fair there, since packets can be lost. `FairMsgSpec` has weak fairness of
`main()` and of the backend's loop, and strong fairness of the threads, because
the lock in `Init()` is taken and released by others while a thread waits; it is
handed on to every waiter in the end. It has none of `Lose`, and with a loss nothing is
promised. `FairVerbsSpec` has weak fairness of the two sides of the set-up, of
the adapters and of a thread's steps within a read; no failure is fair, and no read
has to begin. For the Ethernet variant no liveness is stated: with one backend
thread that answers each query in one handler, what could go wrong is a search that
runs off the tree, and that is a matter of safety (`OnlyMissesAreLost`).

## 4. Proofs

Every safety property of a passing run is also a theorem. A theorem holds for every value of the constants that
the module's assumption allows: any capacity, key set, pool, number of threads,
word and digit. Where it needs more, the table says what, and a run shows why.

| Theorem | States | Needs |
|---|---|---|
| `Invariance`, `TypeCorrect`, `SearchesStayOnCourse`, `LoadedNodesKeepTheirKeys`, `NodesStayFilled` | `IInv`, `TypeOK`, `Routing`, `LoadedCoverFixed`, `NodeFill` | |
| `InsertedKeysFound`, `LoadedStayGood`, `TreeIsAnIndex` | `EveryKeyFound`, `LoadedAddressesStayGood`, `Index!Safety` (`KVIndex` without its fairness) | |
| `DepthIsUniform`, `PrintOutFits` | `UniformDepth`, `PrintedFits` | |
| `SystemRunsBackend`, `SwitchAddressesStayGood` | `RdmaSpec => Spec`, and with it `LoadedCoverFixed` | |
| `ReadersStayOnCourse` | `MemoryOnCourse`: one hop in memory, between any two writes | |
| `SystemInvariance`, `ClientsTyped` | `IInv /\ SystemInv`, `RdmaTypeOK` | |
| `QuietReadsReturnTheirValue` | `QuietReadsAreRight` | one read at a time (`MaxReads <= 1`), as in `read_race`: all threads read into one `remote_node`. With two reads TLC finds a counterexample |
| `EthInvariance`, `QueriesStayOnCourse`, `EthAddressesStayGood`, `LayersEndAboveLeaves`, `TablesStayTrue` | `KeysAsked /\ IInv`, `Routing`, `LoadedCoverFixed`, `PrintsInner`, `TablesMatchTheTree` | |
| `ReadsFindTheirRecords`, `SearchesStayOnTheTree` | `EthReadsMatch`, `OnlyMissesAreLost` | no separator among the keys, as in `eth` and not in `eth_edge`; the pool within `Window` |
| `ServerIsRight`, `ClientIsRight` | `SetupMeansSent`, `ReadyMeansKnown` | |
| `ReadsAreCounted`, `SomeoneIsWoken`, `UndisturbedResults` | `CompInv`, `NotAllStuck`, `UndisturbedReadsAreRight` | |
| `MessagesTyped`, `RepliesFindTheirCalls` | `MsgTypeOK`, `RepliesMatch` | |
| `NothingEverFails` | `NothingFails` | numbers from 0 (`First = 0`), as in `msg_calls`; from 1 the last thread's rule is refused |
| `CallsAreLinearizable` | `LinearizableButUpdates` | (`msg_update` shows why updates are apart) |
| `HashStoreInvariance`, `StringsStayLive`, `NothingFreedIsUsed`, `AcknowledgedIsWritten` | `HashInv`, `RecordsHoldLiveStrings`, `NoUseAfterFree`, `WrittenWhenReturned` | |
| `StageInvariance`, `BitsStaySorted`, `LayersStayOnTheTree` | `StageInv`, `BitsAreSorted`, `LayersFollowTheTree` | |
| `TablesInvariance`, `RowsStayUnambiguous` | `TablesInv`, `RowsUnambiguous` | |
| `KeysReachTheirChild` | `~clashed => EveryKeyReachesItsChild` | the premise, which `switch_clash` shows to be needed |
| `PathInvariance`, `ReadsLeaveRight` | `PathInv`, `ReadsLeaveOnTheTreePath` | |

### The tree (FatBTreeProofs, FatBTreePathProofs)

`Routing` is the property that matters to a search and it is not inductive: a
split moves keys between nodes, and that a hop still works afterwards depends on
how the arrays of a node relate to what its children are responsible for.
`IInv` says exactly that, in parts: the shape of value nodes, leaves and inner
nodes (`ValueShape`, `LeafShape`, `InnerShape`), sorted keys within the cover
(`KeysShape`), parents and children pointing at each other (`ParentShape`),
disjoint leaves (`LeavesDisjoint`), inserted keys in the leaf that covers them
(`LeavesComplete`), capacity (`Fill`), and where the thread and the load
stand (`Backend`, `Load`). A cover is a range (lo, hi]; the i-th child of an
inner node covers the slot between the keys around it. The argument is by action,
with one lemma per part of the invariant for the copy and the two splits.
`NodeFill` follows from `IInv` and `HalfFull`: every leaf but the root has at
least `Half` keys, since leaves come only from copies of full nodes and from halves
of M keys, and only a split takes keys away.

A search is a recursive function over hops, and the number of hops is bounded by
nothing in the state. `Ranking` bounds it: nodes can be numbered, up to the size of
the pool, so that numbers rise along every child pointer. The recursion is
unfolded turn by turn, and of the nodes whose search goes wrong one with the
largest number would have a child with a larger one, whose search is right. So `Routing`, which is about one hop,
becomes `EveryKeyFound`, about all of them; a loaded node finds what the root
finds (`LoadedAddressesStayGood`); and the visible keys are the stored ones, which
makes `LeafInsert` the one step that `KVIndex` sees (`TreeIsAnIndex`).

Depth and print-out need the same for levels. `Course` says that before and during
the load levels rise by exactly one with each child pointer and are `depth - 1`
at every leaf; that the greedy work list is a frontier, nodes that share out
all keys, each with the bound at which its own begin, no deeper than the root may
swallow; and that the nodes of the next layer are no deeper than the layer.

### Reads (RdmaReadProofs, EthPathProofs)

`RdmaReadProofs` needs only that messages carry keys of the workload
(`KeysInFlight`) to see that every step of the system is one of the backend or
leaves its variables alone. What the switch answers rests on `Tables`: the ranges
of the fat root share out all keys, and each table of a later layer belongs to a
marked node and gives, for every key of that node's cover, a marked node that
covers the key (`Sent`), or, where a leaf is printed, the key's value node if
the key was in the tree at the load. Marked nodes keep cover and kind, so
`Tables` outlives the inserts; `Route`, however many layers it has, keeps what the
root gives (`RouteIn`). `ClientTyped` says what the threads hold: keys of the
counter, acknowledged keys that are stored, and addresses in the pool, also
among the entries of `child[]` beyond `_size` and for key 0, which a null pointer
sends through the switch. `MemAgrees` is what memory has to do with the tree: a part of a node
that no write is pending for is as the backend thread knows it, and of `child[]`
the entries up to the tree's `_size` count. With it a hop in memory is one in the
tree (`ReadersStayOnCourse`).
`ReadInv` is about a read that is not overtaken: before
each half the node to fetch covers the key or is its value (`At`); between the
halves the buffer's keys are still the node's; after them the buffer has the
value, or leads to a node with `At` (`Near`). It needs that one thread reads at a
time (`OneReader`).

`EthPathProofs` does the same with `KeysAsked` and
adds the two loader steps that `Next` does not have. `TablesStayTrue` rests on
`Frozen`: a printed inner node below capacity, all of whose children are marked.
No insert ends in it, it is not copied or split since it is not full, and nothing
is linked into it, because the child that would have to split is marked, so
`overflow()` puts a copy below it and splits that. That printed nodes are inner
nodes (`LayersEndAboveLeaves`) comes from `Course`: the loader stops one level
above the leaves. `ReadsFindTheirRecords` puts these together: the root's table and
each layer's send a key to a node that covers it (`RootTable`, `PrintedStay`), the
address stays good while the packet is on its way, and the search from it
ends at the key's record, whose value no insert touches (`Served`). The same argument, for
any stored key whether acknowledged or not, is `SearchesStayOnTheTree`.

### Verbs (RdmaVerbsProofs)

The set-up's invariant `SetupInv` says, for each state of one side, what the other
has done, and what an error that came back as 0 has left. That of the reads,
`CompInv`, has three parts. `Balanced`: until something has failed, as many
threads are between post and poll as there are requests and completions, and
each event has a completion of its own. `Awake`: until an arming has failed, a
queue that is not armed has raised an event that somebody has or will get, and an
armed one will raise one, or some thread does not wait. `Fetched`: a thread that is
alone, with nothing failed, has its own node in the work request, on the queue
pair and then in the buffer. The set-up hands over to it with an empty queue, or
with an error that counts as a failed arming.

### Messages (MessagesProofs)

`Numbered` and `Ruled` say that numbers, ports and rules are one to one with the
ids that registered, through phases in which threads and ids are dealt out anew,
and that numbers within the queues have their rule. `Talk` is the state of the
conversation, until a map is torn: for each thread, either no packet with its port
or queue exists, or one request, or one reply to the call it has made, and nothing
else is on its way. From it come the matching of replies and the
linearization at `Handle`. When all ids were given a number within the queues, no
lookup and no assert fails.

### In-memory stores (HashStoreProofs)

`Orderly` and `Overlapping`: calls that run at once on a key have met. `Records`
and `Deletes`: a record belongs to one key, and is freed by the one call that
removed it from the table; whoever else holds it has met a delete. `Found`: what a
call found in the table is still there unless it met one. `Owned`: each string is
in one place of one record or in the hands of the update that took it out; a read
or a delete that holds it too has met that update, or a delete (`Loose`), and every
use or release of something freed is by a call that has met the culprit
(`Blamed`). `Filled`: a record has all the fields its writer has passed.

### The switch (SwitchPathProofs)

*Compare stages.* The sign of a difference in words of 2W values tells
the order of two words, also when the subtraction wraps (`Compared`); bits are
sorted because thresholds are; their number is the child. *Tables.* `Faithful` is
the invariant of the sweep: prefixes are numbered one to one unless `clashed`, a
block's rows cover its digits up to the loop's frontier, rows of a table do
not overlap, and what a row answers is what the ranges answer, or the number of a
longer prefix that is itself done or in the work list. *Lookup.* It is followed
digit by digit (`OnTheWay`): after n digits the lookup is in the table of the key's
prefix of n digits; after the last one, or at a row with a result before it, the
result is the number of root keys below the key. *Path.* `PathInv` follows one
packet through both; the address it leaves with is the last node of the path in
the tree.

### Only model-checked

Liveness (`LoadTerminates`, `ReadsEnd`, `BothSucceed`, `BenchmarkEnds`,
`UndisturbedReadsReturn`, and the fairness in `ImplementsIndex`), which is out of
the provers' reach, and the cases that the column *Needs* excludes.

## 5. What the models found

Five have a run that shows them and an entry under `findings` in `PROJECT.json`.

1. `read_stale`: `insert()` adds to a leaf without looking at
   `isLoaded2Switch` (`b_plus_tree.h:67`). If leaves are loaded, the switch
   goes on routing the new key to the value of a neighbour. The Ethernet backend
   loads inner nodes only, and `eth` shows that this is enough there.
2. `switch_clash`: one map numbers the prefixes of all lengths
   (`config_table.cpp:129`). A root key whose top 16 bits are zero makes keys
   miss their rows. Hashed keys seldom have such a prefix, ordered keys always do.
3. `msg_update`: the RDMA backend acknowledges an update that it does not make.
4. `eth_edge`: the separators between the partitions in the fat root of the
   Ethernet variant are off by one, so the first key of a later partition is
   sent to a node of the one before (`get_keys.py:63`).
5. `comp_result`: all threads of the frontend read into one buffer, through one
   work request, on one queue pair (`b_plus_tree_db.h:42`, `rdma_driver.cc:9-46`). Two that
   read at the same time get each other's values, returned as success.

The others are outcomes the runs contain; a property states what holds in spite of
them, or the stronger one that stands beside it in the module fails:

* *Overtaken reads* (`b_plus_tree_db.cc:47`). With two threads
  `ReadsMatchGroundTruth` fails even without loaded leaves: an insert
  or a split between two hops, or between two writes of which a fetch sees the
  first, makes a read end at a wrong value, and nothing notices.
  `QuietReadsAreRight` is what holds.
* *Reads that never end* (`b_plus_tree_db.cc:47`). A read of a key above all others
  that was handed out and is not inserted finds `child[size] == NULL`;
  `read_remote_node(NULL)` sends its default key 0 through the switch, and the search
  starts again, for ever if the key never comes. `ReadsEnd` is about acknowledged
  keys. Over UDP the same search crashes the backend (`down`) or returns another record.
* *Maps read without a lock* (`driver.cc:94`). Ordinary start-up of two threads
  meets it (`torn`): a thread may poll another's queue.
* *Numbers by thread id* (`driver.cc:89`). A new id of a later phase gets a number
  beyond the queues (`failed`); that glibc gives the ids of joined threads
  again hides it.
* *A lost packet* (`driver.cc:188`) leaves its thread polling for ever and
  `main()` joining it; `BenchmarkEnds` says so.
* *Early reply to the load request* (`backend.cc:141`): with `Punctual = FALSE`
  `BothSucceed` fails; the frontend connects to nobody after its second of sleep.
* *`return -errno` after calls that do not set it* (`rdma_driver.h:729`, `:825`,
  `rdma_common.cc:146`): a side reports success without having sent, or
  received, the address and key (`silent`).
* *Failed reads are not looked at* (`b_plus_tree_db.cc:47`): `RDMARead()` goes on
  with the node of the hop before. After a failed re-arm the next read waits for ever.
* *Two threads on one completion channel* (`rdma_common.cc:133`): one takes the
  other's event or completion, and sleeps until yet another read raises an event.
* *Freed strings* (`hashtable_db.cc:31`): a read copies from strings that an update
  beside it frees; a delete beside anything frees what that still uses, and with
  an update it frees a string twice.
* *Upserts that meet* (`hashtable_db.cc:79`): both find no record, one of the new
  records is lost and leaked, though both calls return success.

Read in the code while modelling, outside the models: `update_field_table()`
iterates over copies (`Ethernet/.../lib/fbt_utils.h:36`); the access counts are
all zero in the Ethernet benchmark, since `total_ops_small` is 0, so "hottest"
is any order there; `match_table.cpp:103` and `:155` print two fields without a
space between them.

`ReadsMatchGroundTruth` and `EthReadsMatch` are the test the code itself makes
when it is built with `CORRECTNESS` (`b_plus_tree_db.cc:61-75`), for keys whose
`Insert()` had returned before the read began.

## 6. Not modelled

* The Redis adapter and hiredis, a vendored library in three copies, which is
  two thirds of the repository's C; the inside of the TBB tables.
* Message codecs and header fields, CRC, ports, `port_init`: fixed layouts and
  calls of DPDK without decisions. Statistics, key distributions, clocks.
* The text files between backend and control plane, and sizes of switch tables
  (4096 nodes, 2048 ranges, 65536 result rows), which are numbers of one
  deployment and which no program compares with what it writes.
* Keys as strings: the backend compares strings, the switch numbers; the two
  orders agree under the workloads' zero padding to 20 digits.
* Equal keys: the workload's counter hands out each key once.
* `load2switch()`, `client_remote_memory_ops()` and the disconnect functions,
  which nothing calls; `rdma_client.c` and `rdma_server.c`, which are not built;
  the baseline P4 program, which forwards.
* The stages of the Ethernet P4 programs and the generator `match_table.cpp`: the
  loops are those of FBT_RDMA's `config_table.cpp` and the comparisons those of
  its layers, with other sizes. A module of their own would repeat SwitchTables
  and SwitchStage; EthPath takes what they compute (SwitchRoute).
* Crash and restart: nothing is persistent and no part handles the other's end.

Somewhat more than a quarter of the lines the project's authors wrote stand behind
a definition of the models; of all lines in the repository, with the vendored
copies, about a tenth.
