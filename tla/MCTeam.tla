-------------------------------- MODULE MCTeam --------------------------------
(* Instances of a company's team for TLC. *)
EXTENDS TeamProperties, TLC

CONSTANTS p1, p2, r1, r2

Symmetry == Permutations({p1, p2}) \cup Permutations({r1, r2})
=============================================================================
