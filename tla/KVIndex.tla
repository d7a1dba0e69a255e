------------------------------ MODULE KVIndex -------------------------------
(***************************************************************************)
(* What the backend's index promises its callers: insert() is one request  *)
(* at a time, the key it was called with becomes visible at one moment     *)
(* between call and return, and a visible key stays visible for good.      *)
(* There is no delete.                                                     *)
(***************************************************************************)
CONSTANTS Keys, NoKey

VARIABLES
  visible,   \* the keys a lookup finds, with their own payload
  inserting  \* the key of the call in progress

vars == <<visible, inserting>>

Init == visible = {} /\ inserting = NoKey

Call(k) ==
  /\ inserting = NoKey
  /\ k \notin visible
  /\ inserting' = k
  /\ UNCHANGED visible

Appear ==
  /\ inserting # NoKey
  /\ inserting \notin visible
  /\ visible' = visible \cup {inserting}
  /\ UNCHANGED inserting

Return ==
  /\ inserting \in visible
  /\ inserting' = NoKey
  /\ UNCHANGED visible

Next == (\E k \in Keys : Call(k)) \/ Appear \/ Return

Safety == Init /\ [][Next]_vars

Spec == Safety /\ WF_vars(Appear \/ Return)
=============================================================================
