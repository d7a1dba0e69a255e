------------------------------ MODULE RdmaVerbs -----------------------------
(***************************************************************************)
(* The two uses of the verbs together: RdmaSetup makes the connection, and *)
(* the frontend's threads read over it (Completions) once both sides have  *)
(* reported success.  Both uses share a completion queue, so that what the *)
(* set-up leaves there is what the first read finds.                       *)
(***************************************************************************)
EXTENDS RdmaSetup, Completions

verbsVars == <<setupVars, compVars>>

VerbsInit == SetupInit /\ CompInit

(* What a step of the set-up does to the frontend's queue: an error of     *)
(* ibv_req_notify_cq() that came back as 0 leaves it unarmed, with the     *)
(* completion of the receive in it; a connection that breaks takes the     *)
(* queue pair along.  A set-up that is not free of faults counts as one     *)
(* fault.                                                                  *)
LeavesQueue ==
  /\ broken' = (broken \/ cm' = "broken")
  /\ faults' = IF faulty' /\ ~faulty THEN faults + 1 ELSE faults
  /\ IF "client" \in silent' \ silent
     THEN /\ cq' = Append(cq, recvWC) /\ armed' = FALSE
          /\ failed' = TRUE /\ unarmed' = TRUE
     ELSE UNCHANGED <<cq, armed, failed, unarmed>>
  /\ UNCHANGED <<threadVars, wr, posted, events, node>>

(* Load2Switch() goes on when the operator types "done", who does so when  *)
(* the switch has got what the backend prints after its set-up.            *)
Connected == client = "done" /\ server = "done" /\ UNCHANGED setupVars

VerbsNext ==
  \/ SetupNext /\ LeavesQueue
  \/ Connected /\ CompNext

VerbsSpec == VerbsInit /\ [][VerbsNext]_verbsVars

(* Both programs run, their adapters answer what is posted, and a thread   *)
(* goes on with the read it has begun.  Nothing has to fail.               *)
FairVerbsSpec ==
  /\ VerbsSpec
  /\ WF_verbsVars(ServerStep /\ LeavesQueue) /\ WF_verbsVars(ClientStep /\ LeavesQueue)
  /\ WF_verbsVars(Transfer /\ LeavesQueue)
  /\ WF_verbsVars(Connected /\ Complete /\ UNCHANGED faults)
  /\ \A t \in Threads : WF_verbsVars(Connected /\ ReadStep(t) /\ UNCHANGED faults)
=============================================================================
