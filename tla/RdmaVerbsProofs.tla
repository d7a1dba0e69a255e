-------------------------- MODULE RdmaVerbsProofs ---------------------------
(***************************************************************************)
(* Proofs about the two uses of the verbs, as RdmaVerbs puts them          *)
(* together.  The set-up: a side that reports success is right, whatever   *)
(* fails, in whatever order, up to the errors that reach it as 0.  The     *)
(* reads: some thread can always go on unless arming the queue has failed, *)
(* and a read that had the connection to itself returns its key's value.   *)
(***************************************************************************)
EXTENDS RdmaVerbs, FiniteSetTheorems, TLAPS

-----------------------------------------------------------------------------
(***************************************************************************)
(* The set-up.                                                             *)
(***************************************************************************)
BeforeSend == {"replied", "listening", "requested", "ready", "accepting", "connected"}
BeforeConnect == {"sleeping", "prepared", "posted"}

\* What a completion, on either side, says about the metadata.
SetupInv ==
  /\ recvWC \in {"none", "ok", "error"}
  /\ server \in BeforeSend => metadata = "none" /\ sendWC = "none" /\ recvWC # "ok"
  /\ client \in BeforeConnect => cm = "none" /\ recvWC = "none"
  /\ sendWC = "ok" => metadata = "arrived"
  /\ recvWC = "ok" => metadata = "arrived"
  /\ recvWC = "error" => cm = "broken"
  /\ client \in {"known", "done"} =>
       recvWC = "ok" \/ (recvWC = "error" /\ "client" \in silent)
  /\ server = "done" => metadata = "arrived" \/ "server" \in silent

\* The set-up starts with nothing sent and nobody done.
LEMMA SetupInvInit == SetupInit => SetupInv
  BY DEF SetupInit, SetupInv, BeforeSend, BeforeConnect

\* No step of the backend breaks the invariant.
LEMMA ServerKeepsInv ==
  ASSUME SetupInv, ServerStep
  PROVE  SetupInv'
<1>1. CASE Listen
  BY <1>1 DEF Listen, SetupInv, BeforeSend, fabricVars
<1>2. CASE ConnectRequest
  BY <1>2 DEF ConnectRequest, SetupInv, BeforeSend, fabricVars
<1>3. CASE SetupClientResources
  BY <1>3 DEF SetupClientResources, SetupInv, BeforeSend, fabricVars
<1>4. CASE Accept
  BY <1>4 DEF Accept, SetupInv, BeforeSend
<1>5. CASE ServerEstablished
  <2>1. server \in BeforeSend /\ server' \in {"connected", "failed"}
    BY <1>5 DEF ServerEstablished, BeforeSend
  <2>2. silent \subseteq silent'
    BY <1>5 DEF ServerEstablished, Silently
  <2>3. QED
    BY <1>5, <2>1, <2>2 DEF ServerEstablished, SetupInv, BeforeSend
<1>6. CASE SendMetadata
  <2>1. server \in BeforeSend /\ server' \in {"sending", "done"} /\ silent \subseteq silent'
    BY <1>6 DEF SendMetadata, Silently, BeforeSend
  <2>2. server' = "done" => "server" \in silent'
    BY <1>6 DEF SendMetadata, Silently
  <2>3. QED
    BY <1>6, <2>1, <2>2 DEF SendMetadata, SetupInv, BeforeSend
<1>7. CASE MetadataSent
  <2>1. server' \in {"failed", "done"} /\ silent \subseteq silent'
    BY <1>7 DEF MetadataSent, Silently
  <2>2. server' = "done" => sendWC = "ok" \/ "server" \in silent'
    BY <1>7 DEF MetadataSent, Silently
  <2>3. QED
    BY <1>7, <2>1, <2>2 DEF MetadataSent, SetupInv, BeforeSend
<1>8. QED
  BY <1>1, <1>2, <1>3, <1>4, <1>5, <1>6, <1>7 DEF ServerStep

\* Nor does a step of the frontend.
LEMMA ClientKeepsInv ==
  ASSUME SetupInv, ClientStep
  PROVE  SetupInv'
<1>1. CASE PrepareConnection
  BY <1>1 DEF PrepareConnection, SetupInv, BeforeSend, BeforeConnect, fabricVars
<1>2. CASE PrePostRecvBuffer
  BY <1>2 DEF PrePostRecvBuffer, SetupInv, BeforeSend, BeforeConnect
<1>3. CASE Connect
  BY <1>3 DEF Connect, SetupInv, BeforeSend, BeforeConnect
<1>4. CASE ClientEstablished
  BY <1>4 DEF ClientEstablished, SetupInv, BeforeSend, BeforeConnect
<1>5. CASE XchangeMetadata
  <2>1. client' \in {"failed", "known"} /\ silent \subseteq silent' /\ recvWC # "none"
    BY <1>5 DEF XchangeMetadata, Silently
  <2>2. client' = "known" => recvWC = "ok" \/ "client" \in silent'
    BY <1>5 DEF XchangeMetadata, Silently
  <2>3. QED
    BY <1>5, <2>1, <2>2 DEF XchangeMetadata, SetupInv, BeforeSend, BeforeConnect
<1>6. CASE RegisterRemoteNode
  BY <1>6 DEF RegisterRemoteNode, SetupInv, BeforeSend, BeforeConnect, fabricVars
<1>7. QED
  BY <1>1, <1>2, <1>3, <1>4, <1>5, <1>6 DEF ClientStep

(* Nor do the adapters, the loss of an acknowledgement or of the connection, *)
(* or a call that fails.                                                     *)
LEMMA FabricKeepsInv ==
  ASSUME SetupInv, Transfer \/ Break \/ ClientFails \/ ServerFails
  PROVE  SetupInv'
<1>1. CASE Transfer
  <2>1. server \notin BeforeSend
    BY <1>1 DEF Transfer, SetupInv
  <2>2. CASE cm = "established" /\ recvPosted /\ client # "failed"
    BY <1>1, <2>1, <2>2 DEF Transfer, SetupInv
  <2>3. CASE ~(cm = "established" /\ recvPosted /\ client # "failed")
    BY <1>1, <2>1, <2>3 DEF Transfer, SetupInv
  <2>4. QED
    BY <2>2, <2>3
<1>2. CASE Break
  <2>1. recvWC' = recvWC \/ (recvWC = "none" /\ recvWC' = "error")
    BY <1>2 DEF Break
  <2>2. cm # "none" /\ cm' = "broken"
    BY <1>2 DEF Break
  <2>3. QED
    BY <1>2, <2>1, <2>2 DEF Break, SetupInv
<1>3. CASE ClientFails
  BY <1>3 DEF ClientFails, SetupInv, BeforeConnect
<1>4. CASE ServerFails
  BY <1>4 DEF ServerFails, SetupInv, BeforeSend
<1>5. QED
  BY <1>1, <1>2, <1>3, <1>4

\* The invariant holds throughout, whatever fails, and while the threads read.
THEOREM SetupInvariance == VerbsSpec => []SetupInv
<1>1. VerbsInit => SetupInv
  BY SetupInvInit DEF VerbsInit
<1>2. SetupInv /\ [VerbsNext]_verbsVars => SetupInv'
  <2>1. SUFFICES ASSUME SetupInv, [VerbsNext]_verbsVars
                 PROVE  SetupInv'
    OBVIOUS
  <2>2. CASE ServerStep
    BY <2>1, <2>2, ServerKeepsInv
  <2>3. CASE ClientStep
    BY <2>1, <2>3, ClientKeepsInv
  <2>4. CASE Transfer \/ Break \/ ClientFails \/ ServerFails
    BY <2>1, <2>4, FabricKeepsInv
  <2>5. CASE UNCHANGED setupVars
    BY <2>1, <2>5 DEF setupVars, SetupInv
  <2>6. QED
    BY <2>1, <2>2, <2>3, <2>4, <2>5 DEF VerbsNext, SetupNext, Connected, verbsVars
<1>3. QED
  BY <1>1, <1>2, PTL DEF VerbsSpec

(* A backend whose rdma_server_setup() has returned 0 has sent the address *)
(* and key of its pool to a frontend that has them, unless it returned the *)
(* 0 for an error (rdma_driver.h:729, :826, rdma_common.cc:146).           *)
THEOREM ServerIsRight == VerbsSpec => []SetupMeansSent
<1>1. SetupInv => SetupMeansSent
  BY DEF SetupInv, SetupMeansSent
<1>2. QED
  BY <1>1, SetupInvariance, PTL

(* A frontend that goes on to read has an address and key it was sent; the *)
(* one error that may reach it as 0 (rdma_common.cc:146) hides from it     *)
(* only that the connection broke.                                         *)
THEOREM ClientIsRight == VerbsSpec => []ReadyMeansKnown
<1>1. SetupInv => ReadyMeansKnown
  BY DEF SetupInv, ReadyMeansKnown
<1>2. QED
  BY <1>1, SetupInvariance, PTL

-----------------------------------------------------------------------------
(***************************************************************************)
(* The reads.                                                              *)
(***************************************************************************)
Labels == {"idle", "fill", "post", "event", "arm", "poll", "check"}
Places == [key : Keys \cup {NoKey}, depth : Nat]
Codes == {"none", "ok", "error"}

CompTyped ==
  /\ pc \in [Threads -> Labels]
  /\ key \in [Threads -> Keys \cup {NoKey}]
  /\ at \in [Threads -> Places]
  /\ result \in [Threads -> Keys \cup {NoKey}]
  /\ alone \in [Threads -> BOOLEAN]
  /\ node \in Places /\ wr \in Places
  /\ posted \in Seq(Places) /\ cq \in Seq(Codes) /\ events \in Nat

\* Threads whose completion is to come or not polled, and those that got an event.
OwedBy(p) == {t \in Threads : p[t] \in {"event", "arm", "poll"}}
WokenBy(p) == {t \in Threads : p[t] \in {"arm", "poll"}}

\* Every such thread has a completion, every event a completion not polled.
Balanced ==
  ~failed => /\ Cardinality(OwedBy(pc)) = Len(posted) + Len(cq)
             /\ events + Cardinality(WokenBy(pc)) <= Len(cq)

\* An unarmed queue has raised an event; an armed one will, or a thread is not waiting.
Awake ==
  ~unarmed =>
    /\ ~armed => events > 0 \/ \E t \in Threads : pc[t] = "arm"
    /\ armed => posted # <<>> \/ \E t \in Threads : pc[t] \notin {"event", "arm"}

\* As long as it is alone and nothing fails, a thread finds what it asked for.
Fetched(t) ==
  alone[t] /\ ~failed =>
    /\ \A u \in Threads \ {t} : pc[u] = "idle"
    /\ at[t].depth # 0
    /\ pc[t] \in {"fill", "post", "event"} => at[t].key = key[t]
    /\ pc[t] = "post" => wr = at[t]
    /\ posted # <<>> => pc[t] = "event" /\ posted = <<at[t]>>
    /\ (pc[t] = "event" /\ posted = <<>>) \/ pc[t] \in {"arm", "poll", "check"}
         => node.key = key[t]

CompInv == CompTyped /\ Balanced /\ Awake /\ \A t \in Threads : Fetched(t)

LEMMA CompInvInit == CompInit => CompInv
<1> SUFFICES ASSUME CompInit PROVE CompInv
  OBVIOUS
<1>1. CompTyped
  <2>1. alone \in [Threads -> BOOLEAN]
    BY Zenon DEF CompInit
  <2>2. at \in [Threads -> Places] /\ node \in Places /\ wr \in Places
    BY DEF CompInit, Places, Nowhere
  <2>3. posted \in Seq(Places) /\ cq \in Seq(Codes) /\ events \in Nat
    BY DEF CompInit
  <2>4. /\ pc \in [Threads -> Labels]
        /\ key \in [Threads -> Keys \cup {NoKey}] /\ result \in [Threads -> Keys \cup {NoKey}]
    BY DEF CompInit, Labels
  <2> QED BY <2>1, <2>2, <2>3, <2>4 DEF CompTyped
<1>2. Balanced
  <2>1. OwedBy(pc) = {} /\ WokenBy(pc) = {}
    BY DEF CompInit, OwedBy, WokenBy
  <2>2. Cardinality(OwedBy(pc)) = 0 /\ Cardinality(WokenBy(pc)) = 0
    BY <2>1, FS_EmptySet
  <2>3. Len(posted) = 0 /\ Len(cq) = 0 /\ events = 0
    BY DEF CompInit
  <2> QED BY <2>2, <2>3 DEF Balanced
<1>3. Awake
  <2>1. PICK t \in Threads : TRUE
    BY CompletionsAssumption
  <2> QED BY <2>1 DEF CompInit, Awake
<1>4. \A t \in Threads : ~alone[t]
  BY DEF CompInit
<1>5. QED
  BY <1>1, <1>2, <1>3, <1>4 DEF CompInv, Fetched

\* The sets of threads are finite, and how they change with one thread's label.
LEMMA Moves ==
  ASSUME CompTyped, NEW t \in Threads, NEW l \in Labels, Goto(t, l)
  PROVE  /\ pc' \in [Threads -> Labels] /\ pc'[t] = l
         /\ \A u \in Threads \ {t} : pc'[u] = pc[u]
         /\ IsFiniteSet(OwedBy(pc)) /\ IsFiniteSet(WokenBy(pc))
         /\ OwedBy(pc') = IF l \in {"event", "arm", "poll"} THEN OwedBy(pc) \cup {t}
                                                            ELSE OwedBy(pc) \ {t}
         /\ WokenBy(pc') = IF l \in {"arm", "poll"} THEN WokenBy(pc) \cup {t}
                                                    ELSE WokenBy(pc) \ {t}
<1>1. pc' \in [Threads -> Labels] /\ pc'[t] = l /\ \A u \in Threads \ {t} : pc'[u] = pc[u]
  BY DEF Goto, CompTyped
<1>2. IsFiniteSet(OwedBy(pc)) /\ IsFiniteSet(WokenBy(pc))
  <2>1. OwedBy(pc) \subseteq Threads /\ WokenBy(pc) \subseteq Threads
    BY DEF OwedBy, WokenBy
  <2> QED BY <2>1, FS_Subset, CompletionsAssumption
<1>3. QED
  BY <1>1, <1>2 DEF OwedBy, WokenBy

\* The same for the sizes.
LEMMA Sizes ==
  ASSUME CompTyped, NEW t \in Threads, NEW l \in Labels, Goto(t, l)
  PROVE  /\ Cardinality(OwedBy(pc)) \in Nat /\ Cardinality(WokenBy(pc)) \in Nat
         /\ Cardinality(OwedBy(pc')) =
              Cardinality(OwedBy(pc))
              + (IF l \in {"event", "arm", "poll"} /\ t \notin OwedBy(pc) THEN 1 ELSE 0)
              - (IF l \notin {"event", "arm", "poll"} /\ t \in OwedBy(pc) THEN 1 ELSE 0)
         /\ Cardinality(WokenBy(pc')) =
              Cardinality(WokenBy(pc))
              + (IF l \in {"arm", "poll"} /\ t \notin WokenBy(pc) THEN 1 ELSE 0)
              - (IF l \notin {"arm", "poll"} /\ t \in WokenBy(pc) THEN 1 ELSE 0)
<1> DEFINE O == OwedBy(pc)
           W == WokenBy(pc)
<1>1. IsFiniteSet(O) /\ IsFiniteSet(W)
  BY Moves
<1>2. Cardinality(O) \in Nat /\ Cardinality(W) \in Nat
  BY <1>1, FS_CardinalityType
<1>3. Cardinality(O \cup {t}) = (IF t \in O THEN Cardinality(O) ELSE Cardinality(O) + 1)
      /\ Cardinality(W \cup {t}) = (IF t \in W THEN Cardinality(W) ELSE Cardinality(W) + 1)
  BY <1>1, FS_AddElement
<1>4. Cardinality(O \ {t}) = (IF t \in O THEN Cardinality(O) - 1 ELSE Cardinality(O))
      /\ Cardinality(W \ {t}) = (IF t \in W THEN Cardinality(W) - 1 ELSE Cardinality(W))
  BY <1>1, FS_RemoveElement
<1>5. /\ OwedBy(pc') = IF l \in {"event", "arm", "poll"} THEN O \cup {t} ELSE O \ {t}
      /\ WokenBy(pc') = IF l \in {"arm", "poll"} THEN W \cup {t} ELSE W \ {t}
  BY Moves
<1> HIDE DEF O, W
<1>6. /\ Cardinality(OwedBy(pc')) = IF l \in {"event", "arm", "poll"}
                                    THEN Cardinality(O \cup {t}) ELSE Cardinality(O \ {t})
      /\ Cardinality(WokenBy(pc')) = IF l \in {"arm", "poll"}
                                     THEN Cardinality(W \cup {t}) ELSE Cardinality(W \ {t})
  BY <1>5
<1>7. QED
  BY <1>2, <1>3, <1>4, <1>6 DEF O, W

\* While a thread is alone its own state tells how the queue stands.
LEMMA AloneCounts ==
  ASSUME CompInv, NEW t \in Threads, alone[t], ~failed
  PROVE  /\ pc[t] \notin {"event", "arm", "poll"} => posted = <<>>
         /\ pc[t] \in {"arm", "poll"} => posted = <<>>
         /\ pc[t] = "event" /\ events > 0 => posted = <<>>
<1>1. CompTyped /\ Balanced /\ \A u \in Threads \ {t} : pc[u] = "idle"
  BY DEF CompInv, Fetched
<1>2. OwedBy(pc) = (IF pc[t] \in {"event", "arm", "poll"} THEN {t} ELSE {})
      /\ WokenBy(pc) = (IF pc[t] \in {"arm", "poll"} THEN {t} ELSE {})
  BY <1>1 DEF OwedBy, WokenBy
<1>3. Cardinality({t}) = 1 /\ Cardinality({}) = 0
  BY FS_EmptySet, FS_Singleton
<1>4. Len(posted) \in Nat /\ Len(cq) \in Nat /\ events \in Nat
  BY <1>1 DEF CompTyped
<1>5. Len(posted) = 0 => posted = <<>>
  BY <1>1 DEF CompTyped
<1>6. Cardinality(OwedBy(pc)) = Len(posted) + Len(cq)
      /\ events + Cardinality(WokenBy(pc)) <= Len(cq)
  BY <1>1 DEF Balanced
<1>7. CASE pc[t] \in {"arm", "poll"}
  BY <1>2, <1>3, <1>4, <1>5, <1>6, <1>7
<1>8. CASE pc[t] = "event"
  BY <1>2, <1>3, <1>4, <1>5, <1>6, <1>8
<1>9. CASE pc[t] \notin {"event", "arm", "poll"}
  BY <1>2, <1>3, <1>4, <1>5, <1>6, <1>9
<1>10. QED
  BY <1>7, <1>8, <1>9

\* While a thread reads no other one is alone.
LEMMA OthersDisturbed ==
  ASSUME CompInv, NEW t \in Threads, pc[t] # "idle", NEW u \in Threads, u # t
  PROVE  ~alone[u] \/ failed
  BY DEF CompInv, Fetched

(* What a step of a reading thread leaves to show: Fetched for itself, the *)
(* others are not alone.                                                   *)
LEMMA FetchedByOthers ==
  ASSUME CompInv, NEW t \in Threads, pc[t] # "idle", alone' = alone, failed => failed',
         Fetched(t)'
  PROVE  \A u \in Threads : Fetched(u)'
<1> TAKE u \in Threads
<1>1. CASE u = t
  BY <1>1
<1>2. CASE u # t
  <2>1. ~alone[u] \/ failed
    BY <1>2, OthersDisturbed
  <2> QED BY <2>1 DEF Fetched
<1>3. QED
  BY <1>1, <1>2

\* A thread begins: it is alone, or nobody is.
LEMMA BeginKeeps ==
  ASSUME CompInv, NEW t \in Threads, Begin(t)
  PROVE  CompInv'
<1>1. PICK k \in Keys : /\ key' = [key EXCEPT ![t] = k]
                        /\ at' = [at EXCEPT ![t] = [key |-> k, depth |-> 1]]
  BY DEF Begin
<1>2. /\ pc[t] = "idle" /\ Goto(t, "fill")
      /\ alone' = [u \in Threads |-> u = t /\ \A v \in Threads \ {t} : pc[v] = "idle"]
      /\ UNCHANGED <<result, wr, posted, broken, cq, armed, events, node, failed, unarmed>>
  BY DEF Begin, qpVars
<1>3. CompTyped
  BY DEF CompInv
<1>4. /\ pc' \in [Threads -> Labels] /\ pc'[t] = "fill"
      /\ \A u \in Threads \ {t} : pc'[u] = pc[u]
  BY <1>2, <1>3, Moves DEF Labels
<1>5. CompTyped'
  <2>1. alone' \in [Threads -> BOOLEAN]
    BY <1>2, Zenon
  <2>2. at' \in [Threads -> Places] /\ key' \in [Threads -> Keys \cup {NoKey}]
    BY <1>1, <1>3 DEF CompTyped, Places
  <2> QED BY <1>2, <1>3, <1>4, <2>1, <2>2 DEF CompTyped
<1>6. Balanced'
  <2>1. t \notin OwedBy(pc) /\ t \notin WokenBy(pc)
    BY <1>2 DEF OwedBy, WokenBy
  <2>2. OwedBy(pc') = OwedBy(pc) /\ WokenBy(pc') = WokenBy(pc)
    BY <1>2, <1>3, <2>1, Moves DEF Labels
  <2> QED BY <1>2, <2>2 DEF CompInv, Balanced
<1>7. Awake'
  <2>1. \A u \in Threads : pc[u] = "arm" => pc'[u] = "arm"
    BY <1>2, <1>4
  <2>2. pc'[t] \notin {"event", "arm"}
    BY <1>4
  <2> QED BY <1>2, <2>1, <2>2 DEF CompInv, Awake
<1>8. \A u \in Threads : Fetched(u)'
  <2> SUFFICES ASSUME NEW u \in Threads, alone'[u], ~failed
               PROVE  Fetched(u)'
    BY <1>2 DEF Fetched
  <2>1. u = t /\ \A v \in Threads \ {t} : pc[v] = "idle"
    BY <1>2
  <2>2. posted = <<>>
    <3>1. OwedBy(pc) = {}
      BY <1>2, <2>1 DEF OwedBy
    <3>2. Cardinality(OwedBy(pc)) = 0
      BY <3>1, FS_EmptySet
    <3>3. Len(posted) \in Nat /\ Len(cq) \in Nat /\ Len(posted) + Len(cq) = 0
      BY <1>3, <3>2 DEF CompInv, Balanced, CompTyped
    <3> QED BY <1>3, <3>3 DEF CompTyped
  <2>3. at'[t] = [key |-> k, depth |-> 1] /\ key'[t] = k
    BY <1>1, <1>3 DEF CompTyped
  <2> QED BY <1>2, <1>4, <2>1, <2>2, <2>3 DEF Fetched
<1>9. QED
  BY <1>5, <1>6, <1>7, <1>8 DEF CompInv

\* It writes the work request.
LEMMA FillKeeps ==
  ASSUME CompInv, NEW t \in Threads, Fill(t)
  PROVE  CompInv'
<1>1. /\ pc[t] = "fill" /\ wr' = at[t] /\ Goto(t, "post")
      /\ UNCHANGED <<key, at, result, alone, posted, broken, cq, armed, events,
                     node, failed, unarmed>>
  BY DEF Fill
<1>2. CompTyped
  BY DEF CompInv
<1>3. /\ pc' \in [Threads -> Labels] /\ pc'[t] = "post"
      /\ \A u \in Threads \ {t} : pc'[u] = pc[u]
  BY <1>1, <1>2, Moves DEF Labels
<1>4. CompTyped'
  BY <1>1, <1>2, <1>3 DEF CompTyped
<1>5. Balanced'
  <2>1. t \notin OwedBy(pc) /\ t \notin WokenBy(pc)
    BY <1>1 DEF OwedBy, WokenBy
  <2>2. OwedBy(pc') = OwedBy(pc) /\ WokenBy(pc') = WokenBy(pc)
    BY <1>1, <1>2, <2>1, Moves DEF Labels
  <2> QED BY <1>1, <2>2 DEF CompInv, Balanced
<1>6. Awake'
  <2>1. \A u \in Threads : pc[u] = "arm" => pc'[u] = "arm"
    BY <1>1, <1>3
  <2>2. pc'[t] \notin {"event", "arm"}
    BY <1>3
  <2> QED BY <1>1, <2>1, <2>2 DEF CompInv, Awake
<1>7. Fetched(t)'
  <2>1. Fetched(t)
    BY DEF CompInv
  <2> QED BY <1>1, <1>3, <2>1 DEF Fetched
<1>8. QED
  BY <1>1, <1>4, <1>5, <1>6, <1>7, FetchedByOthers DEF CompInv

(* A call fails: the thread goes on with what the buffer holds.  From then *)
(* on only the wake-ups are counted on.                                    *)
LEMMA FailKeeps ==
  ASSUME CompInv, NEW t \in Threads, Goto(t, "check"), failed' = TRUE,
         pc[t] # "arm" \/ unarmed',
         UNCHANGED <<key, at, result, alone, wr, posted, cq, armed, events, node>>,
         unarmed => unarmed'
  PROVE  CompInv'
<1>1. CompTyped
  BY DEF CompInv
<1>2. /\ pc' \in [Threads -> Labels] /\ pc'[t] = "check"
      /\ \A u \in Threads \ {t} : pc'[u] = pc[u]
  BY <1>1, Moves DEF Labels
<1>3. CompTyped'
  BY <1>1, <1>2 DEF CompTyped
<1>4. Awake'
  <2> SUFFICES ASSUME ~unarmed' PROVE Awake'
    BY DEF Awake
  <2>1. \A u \in Threads : pc[u] = "arm" => pc'[u] = "arm"
    BY <1>2
  <2>2. pc'[t] \notin {"event", "arm"}
    BY <1>2
  <2> QED BY <2>1, <2>2 DEF CompInv, Awake
<1>5. QED
  BY <1>3, <1>4 DEF CompInv, Balanced, Fetched

\* A post puts one request on the queue pair, or fails.
LEMMA PostKeeps ==
  ASSUME CompInv, NEW t \in Threads, Post(t)
  PROVE  CompInv'
<1>1. /\ pc[t] = "post"
      /\ UNCHANGED <<key, at, result, alone, wr, broken, cq, armed, events, node, unarmed>>
  BY DEF Post
<1>2. CompTyped
  BY DEF CompInv
<1>3. CASE Goto(t, "check") /\ failed' = TRUE /\ posted' = posted
  BY <1>1, <1>3, FailKeeps
<1>4. CASE Goto(t, "event") /\ NoFault /\ \E r \in Requests(t) : posted' = Append(posted, r)
  <2>1. PICK r \in Requests(t) : posted' = Append(posted, r)
    BY <1>4
  <2>2. r \in Places
    BY <1>2, <2>1 DEF Requests, Nowhere, Places, CompTyped
  <2>3. /\ pc' \in [Threads -> Labels] /\ pc'[t] = "event"
        /\ \A u \in Threads \ {t} : pc'[u] = pc[u]
    BY <1>2, <1>4, Moves DEF Labels
  <2>4. CompTyped'
    BY <1>1, <1>2, <2>1, <2>2, <2>3 DEF CompTyped
  <2>5. Balanced'
    <3>1. t \notin OwedBy(pc) /\ t \notin WokenBy(pc)
      BY <1>1 DEF OwedBy, WokenBy
    <3>2. /\ Cardinality(OwedBy(pc)) \in Nat
          /\ Cardinality(OwedBy(pc')) = Cardinality(OwedBy(pc)) + 1
          /\ Cardinality(WokenBy(pc')) = Cardinality(WokenBy(pc))
      BY <1>2, <1>4, <3>1, Sizes DEF Labels
    <3>3. Len(posted') = Len(posted) + 1 /\ Len(posted) \in Nat /\ Len(cq) \in Nat
      BY <1>2, <2>1, <2>2 DEF CompTyped
    <3> QED BY <1>1, <1>4, <3>2, <3>3 DEF CompInv, Balanced, NoFault
  <2>6. Awake'
    <3>1. \A u \in Threads : pc[u] = "arm" => pc'[u] = "arm"
      BY <1>1, <2>3
    <3>2. posted' # <<>>
      BY <1>2, <2>1, <2>2 DEF CompTyped
    <3> QED BY <1>1, <3>1, <3>2 DEF CompInv, Awake
  <2>7. Fetched(t)'
    <3> SUFFICES ASSUME alone[t], ~failed PROVE Fetched(t)'
      BY <1>1, <1>4 DEF Fetched, NoFault
    <3>1. Fetched(t) /\ posted = <<>>
      BY <1>1, AloneCounts DEF CompInv
    <3>2. r = wr
      BY <1>1, <2>1, <3>1 DEF Requests, Fetched
    <3>3. posted' = <<at[t]>>
      BY <1>1, <1>2, <2>1, <3>1, <3>2 DEF Fetched, CompTyped
    <3> QED BY <1>1, <2>3, <3>1, <3>3 DEF Fetched
  <2>8. QED
    BY <1>1, <1>4, <2>4, <2>5, <2>6, <2>7, FetchedByOthers DEF CompInv, NoFault
<1>5. QED
  BY <1>3, <1>4 DEF Post, Fails, Fault

\* A thread gets an event, or the wait fails.
LEMMA GetEventKeeps ==
  ASSUME CompInv, NEW t \in Threads, GetEvent(t)
  PROVE  CompInv'
<1>1. /\ pc[t] = "event"
      /\ UNCHANGED <<key, at, result, alone, wr, posted, broken, cq, armed, node, unarmed>>
  BY DEF GetEvent
<1>2. CompTyped
  BY DEF CompInv
<1>3. CASE Fails(t) /\ events' = events
  BY <1>1, <1>3, FailKeeps DEF Fails, Fault
<1>4. CASE events > 0 /\ events' = events - 1 /\ Goto(t, "arm") /\ NoFault
  <2>3. /\ pc' \in [Threads -> Labels] /\ pc'[t] = "arm"
        /\ \A u \in Threads \ {t} : pc'[u] = pc[u]
    BY <1>2, <1>4, Moves DEF Labels
  <2>4. CompTyped'
    BY <1>1, <1>2, <1>4, <2>3 DEF CompTyped
  <2>5. Balanced'
    <3>1. t \in OwedBy(pc) /\ t \notin WokenBy(pc)
      BY <1>1 DEF OwedBy, WokenBy
    <3>2. /\ Cardinality(OwedBy(pc')) = Cardinality(OwedBy(pc))
          /\ Cardinality(WokenBy(pc)) \in Nat /\ Cardinality(OwedBy(pc)) \in Nat
          /\ Cardinality(WokenBy(pc')) = Cardinality(WokenBy(pc)) + 1
      BY <1>2, <1>4, <3>1, Sizes DEF Labels
    <3>3. Len(posted) \in Nat /\ Len(cq) \in Nat /\ events \in Nat
      BY <1>2 DEF CompTyped
    <3> QED BY <1>1, <1>4, <3>2, <3>3 DEF CompInv, Balanced, NoFault
  <2>6. Awake'
    <3>1. \A u \in Threads : pc[u] \notin {"event", "arm"} => pc'[u] \notin {"event", "arm"}
      BY <1>1, <2>3
    <3>2. \E u \in Threads : pc'[u] = "arm"
      BY <2>3
    <3> QED BY <1>1, <3>1, <3>2 DEF CompInv, Awake
  <2>7. Fetched(t)'
    <3> SUFFICES ASSUME alone[t], ~failed PROVE Fetched(t)'
      BY <1>1, <1>4 DEF Fetched, NoFault
    <3>1. Fetched(t) /\ posted = <<>>
      BY <1>1, <1>4, AloneCounts DEF CompInv
    <3> QED BY <1>1, <2>3, <3>1 DEF Fetched
  <2>8. QED
    BY <1>1, <1>4, <2>4, <2>5, <2>6, <2>7, FetchedByOthers DEF CompInv, NoFault
<1>5. QED
  BY <1>3, <1>4 DEF GetEvent

\* It arms the queue, or that fails.
LEMMA RearmKeeps ==
  ASSUME CompInv, NEW t \in Threads, Rearm(t)
  PROVE  CompInv'
<1>1. /\ pc[t] = "arm"
      /\ UNCHANGED <<key, at, result, alone, wr, posted, broken, cq, events, node>>
  BY DEF Rearm
<1>2. CompTyped
  BY DEF CompInv
<1>3. CASE Fails(t) /\ unarmed' = TRUE /\ armed' = armed
  BY <1>1, <1>3, FailKeeps DEF Fails, Fault
<1>4. CASE armed' = TRUE /\ Goto(t, "poll") /\ NoFault /\ unarmed' = unarmed
  <2>3. /\ pc' \in [Threads -> Labels] /\ pc'[t] = "poll"
        /\ \A u \in Threads \ {t} : pc'[u] = pc[u]
    BY <1>2, <1>4, Moves DEF Labels
  <2>4. CompTyped'
    BY <1>1, <1>2, <1>4, <2>3 DEF CompTyped
  <2>5. Balanced'
    <3>1. t \in OwedBy(pc) /\ t \in WokenBy(pc)
      BY <1>1 DEF OwedBy, WokenBy
    <3>2. OwedBy(pc') = OwedBy(pc) /\ WokenBy(pc') = WokenBy(pc)
      BY <1>2, <1>4, <3>1, Moves DEF Labels
    <3> QED BY <1>1, <1>4, <3>2 DEF CompInv, Balanced, NoFault
  <2>6. Awake'
    BY <1>4, <2>3 DEF Awake
  <2>7. Fetched(t)'
    <3>1. Fetched(t)
      BY DEF CompInv
    <3> QED BY <1>1, <1>4, <2>3, <3>1 DEF Fetched, NoFault
  <2>8. QED
    BY <1>1, <1>4, <2>4, <2>5, <2>6, <2>7, FetchedByOthers DEF CompInv, NoFault
<1>5. QED
  BY <1>3, <1>4 DEF Rearm

\* It polls one completion, or the poll fails.
LEMMA PollKeeps ==
  ASSUME CompInv, NEW t \in Threads, Poll(t)
  PROVE  CompInv'
<1>1. /\ pc[t] = "poll"
      /\ UNCHANGED <<key, at, result, alone, wr, posted, broken, armed, events, node, unarmed>>
  BY DEF Poll
<1>2. CompTyped
  BY DEF CompInv
<1>3. CASE Fails(t) /\ cq' = cq
  BY <1>1, <1>3, FailKeeps DEF Fails, Fault
<1>4. CASE cq # <<>> /\ cq' = Tail(cq) /\ Goto(t, "check") /\ NoFault
  <2>3. /\ pc' \in [Threads -> Labels] /\ pc'[t] = "check"
        /\ \A u \in Threads \ {t} : pc'[u] = pc[u]
    BY <1>2, <1>4, Moves DEF Labels
  <2>4. CompTyped'
    BY <1>1, <1>2, <1>4, <2>3 DEF CompTyped
  <2>5. Balanced'
    <3>1. t \in OwedBy(pc) /\ t \in WokenBy(pc)
      BY <1>1 DEF OwedBy, WokenBy
    <3>2. /\ Cardinality(OwedBy(pc)) \in Nat /\ Cardinality(WokenBy(pc)) \in Nat
          /\ Cardinality(OwedBy(pc')) = Cardinality(OwedBy(pc)) - 1
          /\ Cardinality(WokenBy(pc')) = Cardinality(WokenBy(pc)) - 1
      BY <1>2, <1>4, <3>1, Sizes DEF Labels
    <3>3. Len(posted) \in Nat /\ Len(cq) \in Nat /\ events \in Nat /\ Len(cq') = Len(cq) - 1
      BY <1>2, <1>4 DEF CompTyped
    <3> QED BY <1>1, <1>4, <3>2, <3>3 DEF CompInv, Balanced, NoFault
  <2>6. Awake'
    <3>1. \A u \in Threads : pc[u] = "arm" => pc'[u] = "arm"
      BY <1>1, <2>3
    <3>2. pc'[t] \notin {"event", "arm"}
      BY <2>3
    <3> QED BY <1>1, <3>1, <3>2 DEF CompInv, Awake
  <2>7. Fetched(t)'
    <3>1. Fetched(t)
      BY DEF CompInv
    <3> QED BY <1>1, <1>4, <2>3, <3>1 DEF Fetched, NoFault
  <2>8. QED
    BY <1>1, <1>4, <2>4, <2>5, <2>6, <2>7, FetchedByOthers DEF CompInv, NoFault
<1>5. QED
  BY <1>3, <1>4 DEF Poll

\* It looks into the buffer: a value ends the read, a node has a child to read next.
LEMMA CheckKeeps ==
  ASSUME CompInv, NEW t \in Threads, Check(t)
  PROVE  CompInv'
<1>1. /\ pc[t] = "check"
      /\ UNCHANGED <<key, alone, wr, posted, broken, cq, armed, events, node, failed, unarmed>>
  BY DEF Check, qpVars
<1>2. CompTyped /\ Hops \in Nat
  BY CompletionsAssumption DEF CompInv
<1>3. PICK m \in Places : m = [node EXCEPT !.depth = @ + 1] /\ m.key = node.key /\ m.depth # 0
  <2>1. PICK k \in Keys \cup {NoKey}, d \in Nat : node = [key |-> k, depth |-> d]
    BY <1>2 DEF CompTyped, Places
  <2>2. [node EXCEPT !.depth = @ + 1] = [key |-> k, depth |-> d + 1]
    BY <2>1
  <2>3. [key |-> k, depth |-> d + 1] \in Places
    BY DEF Places
  <2> QED BY <2>1, <2>2, <2>3
<1>4. PICK l \in {"idle", "fill"} :
        /\ Goto(t, l)
        /\ l = "idle" => at' = at /\ result' = [result EXCEPT ![t] = node.key]
        /\ l = "fill" => at' = [at EXCEPT ![t] = m] /\ result' = result
  BY <1>3 DEF Check
<1>5. /\ pc' \in [Threads -> Labels] /\ pc'[t] = l
      /\ \A u \in Threads \ {t} : pc'[u] = pc[u]
  BY <1>2, <1>4, Moves DEF Labels
<1>6. CompTyped'
  <2>1. node.key \in Keys \cup {NoKey}
    BY <1>2 DEF CompTyped, Places
  <2> QED BY <1>1, <1>2, <1>4, <1>5, <2>1 DEF CompTyped
<1>7. Balanced'
  <2>1. t \notin OwedBy(pc) /\ t \notin WokenBy(pc)
    BY <1>1 DEF OwedBy, WokenBy
  <2>2. OwedBy(pc') = OwedBy(pc) /\ WokenBy(pc') = WokenBy(pc)
    BY <1>2, <1>4, <2>1, Moves DEF Labels
  <2> QED BY <1>1, <2>2 DEF CompInv, Balanced
<1>8. Awake'
  <2>1. \A u \in Threads : pc[u] = "arm" => pc'[u] = "arm"
    BY <1>1, <1>5
  <2>2. pc'[t] \notin {"event", "arm"}
    BY <1>5
  <2> QED BY <1>1, <2>1, <2>2 DEF CompInv, Awake
<1>9. Fetched(t)'
  <2>1. Fetched(t)
    BY DEF CompInv
  <2>2. l = "fill" => at'[t] = m
    BY <1>2, <1>4 DEF CompTyped
  <2> QED BY <1>1, <1>3, <1>4, <1>5, <2>1, <2>2 DEF Fetched
<1>10. QED
  BY <1>1, <1>6, <1>7, <1>8, <1>9, FetchedByOthers DEF CompInv

\* The adapter answers the first request on the queue pair, or breaks off.
LEMMA CompleteKeeps ==
  ASSUME CompInv, Complete
  PROVE  CompInv'
<1>1. /\ posted # <<>> /\ posted' = Tail(posted)
      /\ cq' = Append(cq, IF broken' THEN "error" ELSE "ok")
      /\ events' = (IF armed THEN events + 1 ELSE events)
      /\ armed' = FALSE
      /\ UNCHANGED <<pc, key, at, result, alone, wr, unarmed>>
  BY DEF Complete, threadVars
<1>2. \/ failed' = TRUE /\ node' = node
      \/ failed' = failed /\ node' = IF Head(posted) = Nowhere THEN node ELSE Head(posted)
  BY Zenon DEF Complete, NoFault, Fault
<1>3. CompTyped
  BY DEF CompInv
<1>4. Head(posted) \in Places /\ Head(posted) = posted[1] /\ Len(posted') = Len(posted) - 1
  BY <1>1, <1>3 DEF CompTyped
<1>5. PICK c \in Codes : cq' = Append(cq, c)
  BY <1>1 DEF Codes
<1>6. Len(cq') = Len(cq) + 1 /\ Len(cq) \in Nat /\ Len(posted) \in Nat /\ events \in Nat
  BY <1>3, <1>5 DEF CompTyped
<1>7. CompTyped'
  <2>1. node' \in Places
    BY <1>2, <1>3, <1>4 DEF CompTyped
  <2>2. posted' \in Seq(Places) /\ cq' \in Seq(Codes) /\ events' \in Nat
    BY <1>1, <1>3, <1>5 DEF CompTyped
  <2> QED BY <1>1, <1>3, <2>1, <2>2 DEF CompTyped
<1>8. Balanced'
  <2> SUFFICES ASSUME ~failed' PROVE Balanced'
    BY DEF Balanced
  <2>1. ~failed
    BY <1>2
  <2>2. Cardinality(OwedBy(pc)) = Len(posted) + Len(cq) /\ events + Cardinality(WokenBy(pc)) <= Len(cq)
    BY <2>1 DEF CompInv, Balanced
  <2>3. Cardinality(WokenBy(pc)) \in Nat
    <3>1. IsFiniteSet(WokenBy(pc))
      BY FS_Subset, CompletionsAssumption DEF WokenBy
    <3> QED BY <3>1, FS_CardinalityType
  <2>4. OwedBy(pc') = OwedBy(pc) /\ WokenBy(pc') = WokenBy(pc)
    BY <1>1
  <2> QED BY <1>1, <1>4, <1>6, <2>2, <2>3, <2>4 DEF Balanced
<1>9. Awake'
  <2>1. armed => events' > 0
    BY <1>1, <1>6
  <2> QED BY <1>1, <2>1 DEF CompInv, Awake
<1>10. ASSUME NEW t \in Threads PROVE Fetched(t)'
  <2> SUFFICES ASSUME alone[t], ~failed' PROVE Fetched(t)'
    BY <1>1 DEF Fetched
  <2>1. ~failed /\ node' = IF Head(posted) = Nowhere THEN node ELSE Head(posted)
    BY <1>2
  <2>2. Fetched(t)
    BY DEF CompInv
  <2>3. pc[t] = "event" /\ posted = <<at[t]>> /\ at[t].depth # 0 /\ at[t].key = key[t]
    BY <1>1, <2>1, <2>2 DEF Fetched
  <2>4. Head(posted) = at[t] /\ posted' = <<>>
    BY <1>1, <1>4, <2>3
  <2>5. at[t] # Nowhere
    BY <2>3 DEF Nowhere
  <2>6. node' = at[t]
    BY <2>1, <2>4, <2>5
  <2> QED BY <1>1, <2>1, <2>2, <2>3, <2>4, <2>6 DEF Fetched
<1>11. QED
  BY <1>7, <1>8, <1>9, <1>10 DEF CompInv

\* What the set-up does to the queue.
LEMMA LeavesQueueKeeps ==
  ASSUME CompInv, SetupInv, LeavesQueue
  PROVE  CompInv'
<1>1. UNCHANGED <<pc, key, at, result, alone, wr, posted, events, node>>
  BY DEF LeavesQueue, threadVars
<1>2. CASE "client" \in silent' \ silent
  <2>1. cq' = Append(cq, recvWC) /\ failed' = TRUE /\ unarmed' = TRUE
    BY <1>2 DEF LeavesQueue
  <2>2. cq' \in Seq(Codes)
    BY <2>1 DEF SetupInv, CompInv, CompTyped, Codes
  <2> QED BY <1>1, <2>1, <2>2 DEF CompInv, CompTyped, Balanced, Awake, Fetched
<1>3. CASE "client" \notin silent' \ silent
  <2>1. UNCHANGED <<cq, armed, failed, unarmed>>
    BY <1>3 DEF LeavesQueue
  <2> QED BY <1>1, <2>1 DEF CompInv, CompTyped, Balanced, Awake, Fetched
<1>4. QED
  BY <1>2, <1>3

(* The queue counts, whatever the threads' order: without a failure each   *)
(* waiting thread has a completion and each event one that is not polled   *)
(* (read_remote_node(), process_work_completion_events()), and with any    *)
(* but that of ibv_req_notify_cq() the queue stays armed or an event waits. *)
THEOREM ReadsAreCounted == VerbsSpec => []CompInv
<1>1. VerbsInit => CompInv
  BY CompInvInit DEF VerbsInit
<1>2. SetupInv /\ CompInv /\ [VerbsNext]_verbsVars => CompInv'
  <2> SUFFICES ASSUME SetupInv, CompInv, [VerbsNext]_verbsVars PROVE CompInv'
    OBVIOUS
  <2>1. CASE UNCHANGED compVars
    BY <2>1 DEF compVars, threadVars, qpVars, CompInv, CompTyped, Balanced, Awake, Fetched
  <2>2. CASE LeavesQueue
    BY <2>2, LeavesQueueKeeps
  <2>3. CASE CompNext
    <3>1. CASE Complete
      BY <3>1, CompleteKeeps
    <3>2. ASSUME NEW t \in Threads, Begin(t) \/ ReadStep(t) PROVE CompInv'
      BY <3>2, BeginKeeps, FillKeeps, PostKeeps, GetEventKeeps, RearmKeeps, PollKeeps,
         CheckKeeps DEF ReadStep
    <3> QED BY <2>3, <3>1, <3>2 DEF CompNext
  <2> QED BY <2>1, <2>2, <2>3 DEF VerbsNext, verbsVars
<1>3. QED
  BY <1>1, <1>2, SetupInvariance, PTL DEF VerbsSpec

(* Not all threads wait for an event that nothing will raise, unless a     *)
(* call of ibv_req_notify_cq() has failed                                  *)
(* (process_work_completion_events() arms the queue before it polls).      *)
THEOREM SomeoneIsWoken == VerbsSpec => []NotAllStuck
<1>1. CompInv => NotAllStuck
  <2> SUFFICES ASSUME CompInv, \A t \in Threads : pc[t] = "event", ~unarmed
               PROVE  events > 0 \/ (armed /\ posted # <<>>)
    BY DEF NotAllStuck
  <2> QED BY DEF CompInv, Awake
<1>2. QED
  BY <1>1, ReadsAreCounted, PTL

(* What a read returns that no other thread's read overlapped is the value *)
(* of its key, unless something has failed: whatever the threads' earlier  *)
(* reads did to one another is over (the hop loop of RDMARead()).          *)
THEOREM UndisturbedResults == VerbsSpec => UndisturbedReadsAreRight
<1> DEFINE Right == \A t \in Threads :
             pc[t] = "check" /\ pc'[t] = "idle" /\ alone[t] /\ ~failed => result'[t] = key[t]
<1>1. CompInv /\ [VerbsNext]_verbsVars => [Right]_compVars
  <2> SUFFICES ASSUME CompInv, VerbsNext, NEW t \in Threads,
                      pc[t] = "check", pc'[t] = "idle", alone[t], ~failed
               PROVE  result'[t] = key[t]
    BY DEF verbsVars, compVars
  <2>1. CompTyped /\ node.key = key[t]
    BY DEF CompInv, Fetched
  <2>2. ~LeavesQueue /\ ~Complete
    BY DEF LeavesQueue, Complete, threadVars
  <2>3. PICK u \in Threads : Begin(u) \/ ReadStep(u)
    BY <2>2 DEF VerbsNext, CompNext
  <2>4. u = t
    <3>1. PICK l \in Labels : Goto(u, l)
      BY <2>3 DEF ReadStep, Begin, Fill, Post, GetEvent, Rearm, Poll, Check, Fails, Labels
    <3>2. u # t => pc'[t] = pc[t]
      BY <2>1, <3>1, Moves
    <3> QED BY <3>2
  <2>5. Check(t)
    BY <2>3, <2>4 DEF ReadStep, Begin, Fill, Post, GetEvent, Rearm, Poll
  <2>6. node.depth = Hops
    BY <2>1, <2>5, Moves DEF Check, Labels
  <2>7. result' = [result EXCEPT ![t] = node.key]
    BY <2>5, <2>6 DEF Check
  <2> QED BY <2>1, <2>7 DEF CompTyped
<1>2. VerbsSpec => [][Right]_compVars
  <2> HIDE DEF Right
  <2> QED BY <1>1, ReadsAreCounted, PTL DEF VerbsSpec
<1>3. QED
  BY <1>2 DEF UndisturbedReadsAreRight
=============================================================================
