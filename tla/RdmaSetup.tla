------------------------------ MODULE RdmaSetup -----------------------------
(***************************************************************************)
(* How frontend and backend of RDMA/CPU get their queue pair: the backend  *)
(* answers the load request and then sets up its server, the frontend      *)
(* sleeps for a second and connects; the backend sends the address and key *)
(* of its node pool.  Each step may fail; the callers assert that none     *)
(* does, so a side that sees a failure is gone.  It does not see all:      *)
(* "return -errno" after a call that sets no errno returns what errno was  *)
(* before, and that may be 0.                                              *)
(***************************************************************************)
EXTENDS Naturals

CONSTANTS
  Punctual,    \* does the server listen before the frontend's sleep is over?
  Faults       \* may calls and the network fail?

ASSUME SetupAssumption == Punctual \in BOOLEAN /\ Faults \in BOOLEAN

VARIABLES
  client,      \* how far rdma_client_setup() has come
  server,      \* how far rdma_server_setup() has come
  cm,          \* the connection manager's state of the one connection
  recvPosted,  \* the client's QP has the receive for the metadata
  metadata,    \* "none", "sent", "arrived": the server's address and key
  sendWC,      \* completion of the server's send: "none", "ok", "error"
  recvWC,      \* completion of the client's receive
  faulty,      \* history: a call or the network has failed
  silent       \* history: the sides to which an error came back as 0

setupVars == <<client, server, cm, recvPosted, metadata, sendWC, recvWC,
               faulty, silent>>
fabricVars == <<cm, recvPosted, metadata, sendWC, recvWC, faulty, silent>>

\* The error of a call reaches its side as 0.
Silently(side) == Faults /\ silent' = silent \cup {side} /\ faulty' = TRUE

SetupInit ==
  /\ client = "sleeping"      \* Load2Switch() has its 0x0601
  /\ server = "replied"       \* handle_load2switch() has sent it
  /\ cm = "none"
  /\ recvPosted = FALSE
  /\ metadata = "none"
  /\ sendWC = "none" /\ recvWC = "none"
  /\ faulty = FALSE /\ silent = {}

\* A call that fails, or an event that says so: the side asserts and is gone.
ClientFails ==
  /\ Faults /\ client \notin {"done", "failed"}
  /\ client' = "failed" /\ faulty' = TRUE
  /\ UNCHANGED <<server, cm, recvPosted, metadata, sendWC, recvWC, silent>>

ServerFails ==
  /\ Faults /\ server \notin {"done", "failed"}
  /\ server' = "failed" /\ faulty' = TRUE
  /\ UNCHANGED <<client, cm, recvPosted, metadata, sendWC, recvWC, silent>>

-----------------------------------------------------------------------------
\* start_rdma_server(): up to rdma_listen(), and from the connect request.
Listen ==
  /\ server = "replied"
  /\ server' = "listening"
  /\ UNCHANGED <<client, fabricVars>>

ConnectRequest ==
  /\ server = "listening" /\ cm = "requested"
  /\ server' = "requested"
  /\ UNCHANGED <<client, fabricVars>>

\* setup_client_resources(): protection domain, armed CQ, queue pair.
SetupClientResources ==
  /\ server = "requested"
  /\ server' = "ready"
  /\ UNCHANGED <<client, fabricVars>>

\* accept_client_connection(), first half: rdma_accept().
Accept ==
  /\ server = "ready"
  /\ server' = "accepting"
  /\ cm' = IF cm = "requested" THEN "accepted" ELSE cm
  /\ UNCHANGED <<client, recvPosted, metadata, sendWC, recvWC, faulty, silent>>

(* Its second half waits for the event ESTABLISHED.  If another event      *)
(* comes it returns -errno, which that event has not set.                  *)
ServerEstablished ==
  /\ server = "accepting"
  /\ \/ cm = "established" /\ server' = "connected" /\ UNCHANGED <<faulty, silent>>
     \/ cm = "broken" /\ server' = "failed" /\ UNCHANGED <<faulty, silent>>
     \/ cm = "broken" /\ server' = "connected" /\ Silently("server")
  /\ UNCHANGED <<client, cm, recvPosted, metadata, sendWC, recvWC>>

\* Faulty variant: nobody waits for the completion of the send.
PostMetadataOnly ==
  /\ server = "connected"
  /\ metadata' = "sent" /\ server' = "done"
  /\ UNCHANGED <<client, cm, recvPosted, sendWC, recvWC, faulty, silent>>

(* send_server_metadata_to_client(): registers the pool and posts the      *)
(* send; ibv_post_send() returns its error and need not set errno ...      *)
SendMetadata ==
  /\ server = "connected"
  /\ \/ /\ metadata' = "sent" /\ server' = "sending"
        /\ UNCHANGED <<faulty, silent>>
     \/ server' = "done" /\ Silently("server") /\ UNCHANGED metadata
  /\ UNCHANGED <<client, cm, recvPosted, sendWC, recvWC>>

(* ... and waits for the work completion.  ibv_req_notify_cq() does not    *)
(* set errno either; the completion is then not looked at.                 *)
MetadataSent ==
  /\ server = "sending" /\ sendWC # "none"
  /\ \/ /\ server' = IF sendWC = "ok" THEN "done" ELSE "failed"
        /\ UNCHANGED <<faulty, silent>>
     \/ server' = "done" /\ Silently("server")
  /\ UNCHANGED <<client, cm, recvPosted, metadata, sendWC, recvWC>>

-----------------------------------------------------------------------------
\* usleep(1000000) and client_prepare_connection().
PrepareConnection ==
  /\ client = "sleeping"
  /\ Punctual => server # "replied"
  /\ client' = "prepared"
  /\ UNCHANGED <<server, fabricVars>>

\* Faulty variant: the receive is posted when the connection stands.
PrePostLate ==
  /\ client = "prepared"
  /\ client' = "posted"
  /\ UNCHANGED <<server, fabricVars>>

\* client_pre_post_recv_buffer()
PrePostRecvBuffer ==
  /\ client = "prepared"
  /\ client' = "posted"
  /\ recvPosted' = TRUE
  /\ UNCHANGED <<server, cm, metadata, sendWC, recvWC, faulty, silent>>

\* client_connect_to_server(): rdma_connect(), which nobody may listen to.
Connect ==
  /\ client = "posted"
  /\ client' = "connecting"
  /\ cm' = IF server = "listening" THEN "requested" ELSE "broken"
  /\ UNCHANGED <<server, recvPosted, metadata, sendWC, recvWC, faulty, silent>>

\* ... and the wait for ESTABLISHED, whose arrival completes the handshake.
ClientEstablished ==
  /\ client = "connecting"
  /\ \/ /\ cm = "accepted"
        /\ client' = "connected" /\ cm' = "established"
     \/ cm = "broken" /\ client' = "failed" /\ UNCHANGED cm
  /\ UNCHANGED <<server, recvPosted, metadata, sendWC, recvWC, faulty, silent>>

\* Faulty variant: any completion of the receive will do.
XchangeUnchecked ==
  /\ client = "connected" /\ recvWC # "none"
  /\ client' = "known"
  /\ UNCHANGED <<server, fabricVars>>

(* client_xchange_metadata_with_server(): the event of the receive, then   *)
(* ibv_req_notify_cq(), whose error may come back as 0 with the completion *)
(* not looked at, then the completion.                                     *)
XchangeMetadata ==
  /\ client = "connected" /\ recvWC # "none"
  /\ \/ /\ client' = IF recvWC = "ok" THEN "known" ELSE "failed"
        /\ UNCHANGED <<faulty, silent>>
     \/ client' = "known" /\ Silently("client")
  /\ UNCHANGED <<server, cm, recvPosted, metadata, sendWC, recvWC>>

\* The end of rdma_client_setup(): the buffer for remote nodes.
RegisterRemoteNode ==
  /\ client = "known"
  /\ client' = "done"
  /\ UNCHANGED <<server, fabricVars>>

-----------------------------------------------------------------------------
(* The adapters.  A send that meets no receive is not repeated: both sides *)
(* leave rnr_retry_count at 0.  An acknowledgement may be lost for good.   *)
Transfer ==
  /\ metadata = "sent" /\ sendWC = "none"
  /\ IF cm = "established" /\ recvPosted /\ client # "failed"
     THEN /\ metadata' = "arrived" /\ recvWC' = "ok"
          /\ \/ sendWC' = "ok" /\ UNCHANGED faulty
             \/ Faults /\ sendWC' = "error" /\ faulty' = TRUE
     ELSE sendWC' = "error" /\ UNCHANGED <<metadata, recvWC, faulty>>
  /\ UNCHANGED <<client, server, cm, recvPosted, silent>>

\* The connection breaks; what is posted may be flushed with an error.
Break ==
  /\ Faults /\ cm \in {"requested", "accepted", "established"}
  /\ cm' = "broken" /\ faulty' = TRUE
  /\ recvWC' \in {recvWC} \cup (IF recvPosted /\ recvWC = "none" THEN {"error"} ELSE {})
  /\ UNCHANGED <<client, server, recvPosted, metadata, sendWC, silent>>

ServerStep ==
  \/ Listen \/ ConnectRequest \/ SetupClientResources \/ Accept
  \/ ServerEstablished \/ SendMetadata \/ MetadataSent
ClientStep ==
  \/ PrepareConnection \/ PrePostRecvBuffer \/ Connect
  \/ ClientEstablished \/ XchangeMetadata \/ RegisterRemoteNode

SetupNext == ServerStep \/ ClientStep \/ Transfer \/ Break \/ ClientFails \/ ServerFails

SetupSpec == SetupInit /\ [][SetupNext]_setupVars
-----------------------------------------------------------------------------
(* Properties.                                                             *)

(* The backend goes on to load the switch (backend.cc:144 asserts success) *)
(* only when the frontend has the address and key of the pool, or after an *)
(* error that rdma_server_setup() has returned as 0.                       *)
SetupMeansSent ==
  server = "done" => metadata = "arrived" \/ "server" \in silent

(* The frontend reads with an address and a key it has got.  Even if an    *)
(* error came back to it as 0 its receive has completed, so that it has    *)
(* them unless that completion, which it did not look at, is an error.     *)
ReadyMeansKnown ==
  client = "done" =>
    \/ recvWC = "ok" /\ metadata = "arrived"
    \/ recvWC = "error" /\ cm = "broken" /\ "client" \in silent

(* Unless a call or the network fails both sides finish: none waits for an *)
(* event, a receive or a completion that does not come.                    *)
BothSucceed == []~faulty => <>(client = "done" /\ server = "done")
=============================================================================
