------------------------------- MODULE MCOutbox -------------------------------
(* Instances of the outbox for TLC. *)
EXTENDS OutboxProperties, TLC

CONSTANTS w1, w2

\* A bound: the first message is of any kind, the second a notification.
FewKinds == \A e \in Event : e = 1 \/ kind[e] = "notification"
=============================================================================
