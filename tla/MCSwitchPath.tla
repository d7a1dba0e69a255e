---------------------------- MODULE MCSwitchPath ----------------------------
(* Roots with up to three keys, over all keys of three digits of three     *)
(* values.  Below: an inner node in the place of the first or of the last  *)
(* child, and a leaf, which has as many children as keys, below its second *)
(* child; the other children of the root have no table of their own.       *)
EXTENDS SwitchPath

MCRootKeys == {K \in UNION {[1..n -> 0..Max64] : n \in 1..3} :
                \A x, y \in DOMAIN K : x < y => K[x] < K[y]}

Printed(l, a, s, nchild) ==
  [layer |-> l, addr |-> a, keys |-> s, child |-> [m \in 1..nchild |-> 10 * a + m]]

NodesBelow(a, s) == {Printed(1, a, s, Len(s) + 1), Printed(2, 10 * a + 2, <<s[1] + 1>>, 1)}

MCNodes == {NodesBelow(a, s) : a \in 1..4, s \in {<<2, 13>>, <<5, 9, 26>>}}

MCTrees ==
  {[keys |-> K, children |-> [m \in 1..(Len(K) + 1) |-> m],
    nodes |-> IF Len(K) = 2 THEN NodesBelow(1, <<2, 13>>)
              ELSE NodesBelow(Len(K) + 1, <<5, 9, 26>>)]
     : K \in MCRootKeys}
=============================================================================
