--------------------------------- MODULE MCChat ---------------------------------
(* Instances of the chat for TLC. *)
EXTENDS ChatProperties, TLC

CONSTANTS customer, agent, k1, k2, k3

OwnerOf == [k \in Key |-> IF k = k2 THEN agent ELSE customer]

=============================================================================
