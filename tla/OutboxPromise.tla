---------------------------- MODULE OutboxPromise ----------------------------
(***************************************************************************)
(* What the outbox promises of a message, whoever delivers it and however  *)
(* often they fail (docs/adr/0006-guaranteed-outbox.md): once queued it is *)
(* in the end delivered or given up; an internal notification is written   *)
(* exactly once, with the delivery; an alert is sent at least once before  *)
(* it counts as delivered.                                                 *)
(***************************************************************************)
EXTENDS Naturals

CONSTANT Event

VARIABLES
  phase,     \* "absent", "queued", "delivered" or "abandoned"
  kind,      \* "notification", "alert", or "silent": nowhere to send it
  notified,  \* notifications written
  sent       \* alerts sent

vars == <<phase, kind, notified, sent>>

Init ==
  /\ phase = [e \in Event |-> "absent"]
  /\ kind = [e \in Event |-> "notification"]
  /\ notified = [e \in Event |-> 0]
  /\ sent = [e \in Event |-> 0]

Queue(e) ==
  /\ phase[e] = "absent"
  /\ phase' = [phase EXCEPT ![e] = "queued"]
  /\ \E k \in {"notification", "alert", "silent"} : kind' = [kind EXCEPT ![e] = k]
  /\ UNCHANGED <<notified, sent>>

Send(e) ==
  /\ phase[e] # "absent" /\ kind[e] = "alert"
  /\ sent' = [sent EXCEPT ![e] = @ + 1]
  /\ UNCHANGED <<phase, kind, notified>>

Deliver(e) ==
  /\ phase[e] = "queued"
  /\ kind[e] = "alert" => sent[e] > 0
  /\ phase' = [phase EXCEPT ![e] = "delivered"]
  /\ notified' = [notified EXCEPT ![e] = IF kind[e] = "notification" THEN 1 ELSE 0]
  /\ UNCHANGED <<kind, sent>>

Abandon(e) ==
  /\ phase[e] = "queued"
  /\ phase' = [phase EXCEPT ![e] = "abandoned"]
  /\ UNCHANGED <<kind, notified, sent>>

Next == \E e \in Event : Queue(e) \/ Send(e) \/ Deliver(e) \/ Abandon(e)

Safe == Init /\ [][Next]_vars

\* No message waits for ever.
Spec == Safe /\ \A e \in Event : WF_vars(Deliver(e) \/ Abandon(e))
=============================================================================
