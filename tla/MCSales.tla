------------------------------- MODULE MCSales --------------------------------
(* Instances of the sales orders for TLC. *)
EXTENDS SalesProperties, TLC

CONSTANTS o1, l1, l2, r1, r2

Symmetry == Permutations({l1, l2}) \cup Permutations({r1, r2})

\* Bounds: an order is raced for once, twice while it waits for an approval, and a
\* line that a race has reserved or released twice is not looked at further.
FewRaces ==
  /\ \A o \in Order : overlaps[o] <= 1 + If(\E a \in Approval : Awaits(a, o))
  /\ \A l \in Line : held[l] \in {0, 1} /\ out[l] \in {0, 1}
=============================================================================
