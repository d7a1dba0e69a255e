---------------------------- MODULE SwitchRoute -----------------------------
(***************************************************************************)
(* What the switch's tables, filled from the backend's print-out, do to a  *)
(* key: a hop for each layer, without the digits, words and bits that      *)
(* SwitchPath has.                                                         *)
(***************************************************************************)
EXTENDS FatBTree

CONSTANT SwitchLayers   \* layers below the root the switch has tables for; 3

ASSUME RouteAssumption == SwitchLayers \in Nat

\* Faulty variant: a bound equal to the key counts as below it.
BoundAtMost(bounds, k) ==
  CHOOSE c \in DOMAIN bounds :
    /\ bounds[c] <= k
    /\ \A d \in DOMAIN bounds : bounds[d] <= k => bounds[d] <= bounds[c]

(* The switch.  Layer 0 is the fat root; a node of a later layer has a     *)
(* table only if it was printed for that layer, and a packet that finds    *)
(* none keeps the address it has.  A table gives the child with the        *)
(* greatest bound below the key; the root's ranges start at key 0, the     *)
(* comparisons of the later layers match nothing for key 0.                *)
BoundBelow(bounds, k) ==
  CHOOSE c \in DOMAIN bounds :
    /\ bounds[c] < k
    /\ \A d \in DOMAIN bounds : bounds[d] < k => bounds[d] <= bounds[c]

FatRoot(k) ==
  LET root == CHOOSE r \in printed : r.layer = 0
  IN  BoundBelow(root.bounds, IF k = 0 THEN 1 ELSE k)

Route(k) ==
  LET hop[l \in 0..SwitchLayers] ==
        IF l = 0 THEN FatRoot(k)
        ELSE LET n     == hop[l - 1]
                 table == {r \in printed : r.layer = l /\ r.node = n}
             IN  IF table = {} \/ k = 0 THEN n
                 ELSE BoundBelow((CHOOSE r \in table : TRUE).bounds, k)
  IN  hop[SwitchLayers]
=============================================================================
