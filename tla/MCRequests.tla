------------------------------ MODULE MCRequests ------------------------------
(* Instances of the production requests for TLC. *)
EXTENDS RequestsProperties, TLC

CONSTANTS s1, s2, s3

Symmetry == Permutations({s1, s2, s3})
=============================================================================
