------------------------------- MODULE MCPlans --------------------------------
(* Instances of the operations plans for TLC. *)
EXTENDS PlansProperties, TLC

CONSTANTS p1, p2, o1, o2, r1, r2

\* The plans of one order; the other order has none.  The second plan is below the
\* limit of review.
Owner == [p \in Plan |-> o1]
Wanted == [p \in Plan |-> 2]
Symmetry == Permutations({r1, r2})
=============================================================================
