---------------------------- MODULE CanonicalOrder ----------------------------
(***************************************************************************)
(* What the production domain promises of an order, without saying who     *)
(* acts, what it consumes or how many requests race: it is opened at the   *)
(* operations gate, moves along the canonical table, leaves a record of    *)
(* every move, and only a line of a portal customer may be withdrawn       *)
(* without one.  ProductionWorkflow is shown to implement it.              *)
(***************************************************************************)
EXTENDS ProductionLifecycle

CONSTANT Order

VARIABLES
  status,   \* the canonical status, "absent" before the order exists
  portal,   \* whether the order belongs to a portal customer
  log       \* the moves on record, as pairs of statuses

vars == <<status, portal, log>>

Init ==
  /\ status = [o \in Order |-> "absent"]
  /\ portal = [o \in Order |-> FALSE]
  /\ log = [o \in Order |-> {}]

\* The order is not concerned.
Stay(o) ==
  /\ status'[o] = status[o] /\ portal'[o] = portal[o] /\ log'[o] = log[o]

\* It appears at the operations gate; only a portal customer's may do so
\* without a record.
Open(o) ==
  /\ status[o] = "absent" /\ status'[o] = "awaiting_operations_claim"
  /\ \/ log'[o] = {<<"absent", "awaiting_operations_claim">>}
     \/ portal'[o] /\ log'[o] = log[o]

\* It moves along the canonical table, on record.
Advance(o) ==
  \E to \in Status :
    /\ CanTransition(status[o], to)
    /\ status'[o] = to
    /\ log'[o] = log[o] \union {<<status[o], to>>}
    /\ portal'[o] = portal[o]

\* The customer side withdraws it, without a record.
Withdraw(o) ==
  /\ status[o] # "absent" /\ portal[o]
  /\ status'[o] = "cancelled"
  /\ portal'[o] = portal[o] /\ log'[o] = log[o]

\* A route may act on the orders of a whole batch at once.
Next == \A o \in Order : Stay(o) \/ Open(o) \/ Advance(o) \/ Withdraw(o)

Spec == Init /\ [][Next]_vars
=============================================================================
