--------------------------- MODULE ProductionRequests ---------------------------
(***************************************************************************)
(* Internal production requests: the warehouse decides, the management     *)
(* decides, the request becomes one production order                       *)
(* (src/routes/production-requests.ts).  The warehouse's decision and a    *)
(* cancellation read the request and write it later without looking again; *)
(* the management's decision looks again under a lock.                     *)
(***************************************************************************)
EXTENDS Integers

CONSTANTS
  Req,       \* rows of production_requests that may come to exist
  Session,   \* HTTP requests in flight
  MaxQty,    \* bound: a quantity
  NoReq      \* no request

ASSUME RequestsAssumption == NoReq \notin Req /\ MaxQty \in Nat \ {0}

VARIABLES
  reqStatus,   \* production_requests.status; "absent" before the insert
  requested,   \* requested_qty
  approved,    \* approved_qty; 0 before the warehouse decided
  final,       \* final_qty
  orders,      \* the workflow orders whose canonical source the request is
  orderQty,    \* their quantity
  agreed,      \* the quantities a warehouse decision agreed to (a history variable)
  overridden,  \* those the management set itself (a history variable)
  phase,       \* of a session: what it is about to do
  about,       \* its request
  seenQty,     \* the approved_qty it read
  overlaps     \* the requests two sessions were about at once (a history variable)

rowVars == <<reqStatus, requested, approved, final>>
orderVars == <<orders, orderQty>>
historyVars == <<agreed, overridden>>
sessionVars == <<phase, about, seenQty>>
vars == <<rowVars, orderVars, historyVars, sessionVars, overlaps>>

Quantity == 1..MaxQty

Waiting == {"pending_warehouse", "pending_director"}

\* The statuses with which the request is decided.
Granted == {"approved", "partial_approved"}
Decided == Granted \cup {"rejected", "cancelled"}

Idle(s) == phase[s] = "idle"

-----------------------------------------------------------------------------
(* Sessions *)

\* The session s reads request q, of whose status it approves.
Begin(s, q, ph, S) ==
  /\ Idle(s) /\ reqStatus[q] \in S
  /\ phase' = [phase EXCEPT ![s] = ph]
  /\ about' = [about EXCEPT ![s] = q]
  /\ seenQty' = [seenQty EXCEPT ![s] = approved[q]]
  /\ overlaps' = overlaps \cup {x \in {q} : \E t \in Session : about[t] = x}
  /\ UNCHANGED <<rowVars, orderVars, historyVars>>

End(s) ==
  /\ phase' = [phase EXCEPT ![s] = "idle"]
  /\ about' = [about EXCEPT ![s] = NoReq]
  /\ seenQty' = [seenQty EXCEPT ![s] = 0]
  /\ UNCHANGED overlaps

\* The session's input is refused, or its transaction conflicts and is rolled back.
Refuse(s) ==
  /\ ~Idle(s) /\ End(s)
  /\ UNCHANGED <<rowVars, orderVars, historyVars>>

-----------------------------------------------------------------------------
(* Routes *)

\* POST /production-requests
Create(q, n) ==
  /\ reqStatus[q] = "absent"
  /\ reqStatus' = [reqStatus EXCEPT ![q] = "pending_warehouse"]
  /\ requested' = [requested EXCEPT ![q] = n]
  /\ UNCHANGED <<approved, final, orderVars, historyVars, sessionVars, overlaps>>

\* PATCH /:id/warehouse-action
BeginWarehouse(s, q) == Begin(s, q, "warehouse", {"pending_warehouse"})

\* It agrees to n, all or a part of the quantity, or rejects, with n = 0; the row is
\* written whatever became of it since it was read.
WarehouseAction(s, n) ==
  LET q == about[s] IN
  /\ phase[s] = "warehouse" /\ n <= requested[q]
  /\ reqStatus' = [reqStatus EXCEPT ![q] = IF n = 0 THEN "rejected" ELSE "pending_director"]
  /\ approved' = [approved EXCEPT ![q] = n]
  /\ final' = [final EXCEPT ![q] = n]
  /\ agreed' = [agreed EXCEPT ![q] = @ \cup ({n} \ {0})]
  /\ End(s) /\ UNCHANGED <<requested, orderVars, overridden>>

\* PATCH /:id/director-action
BeginDirector(s, q) == Begin(s, q, "director", {"pending_director"})

\* The request, locked, must still wait for the management.
StillWaits(s) == phase[s] = "director" /\ reqStatus[about[s]] = "pending_director"

\* Mutant of Insert: the canonical source of an order is not unique.
InsertAnother(q, n) ==
  /\ orders' = [orders EXCEPT ![q] = @ + 1]
  /\ orderQty' = [orderQty EXCEPT ![q] = n]

\* The order is inserted, unless the unique index on its source refuses.
Insert(q, n) ==
  /\ orders[q] = 0
  /\ orders' = [orders EXCEPT ![q] = 1]
  /\ orderQty' = [orderQty EXCEPT ![q] = n]

\* "approve": the quantity the warehouse agreed to when the request was read.
Approve(s) ==
  LET q == about[s] IN
  /\ StillWaits(s) /\ Insert(q, seenQty[s])
  /\ reqStatus' = [reqStatus EXCEPT ![q] = "approved"]
  /\ final' = [final EXCEPT ![q] = seenQty[s]]
  /\ End(s) /\ UNCHANGED <<requested, approved, historyVars>>

\* "override": a quantity of the management's own.
Override(s, n) ==
  LET q == about[s] IN
  /\ StillWaits(s) /\ Insert(q, n)
  /\ reqStatus' = [reqStatus EXCEPT ![q] = IF n >= requested[q] THEN "approved" ELSE "partial_approved"]
  /\ final' = [final EXCEPT ![q] = n]
  /\ overridden' = [overridden EXCEPT ![q] = @ \cup {n}]
  /\ End(s) /\ UNCHANGED <<requested, approved, agreed>>

\* Mutant of Reject: the request is not looked at again.
RejectBlind(s) ==
  LET q == about[s] IN
  /\ phase[s] = "director"
  /\ reqStatus' = [reqStatus EXCEPT ![q] = "rejected"]
  /\ final' = [final EXCEPT ![q] = 0]
  /\ End(s) /\ UNCHANGED <<requested, approved, orderVars, historyVars>>

\* "reject"; "noted" leaves the row as it is and is a Refuse here.
Reject(s) ==
  LET q == about[s] IN
  /\ StillWaits(s)
  /\ reqStatus' = [reqStatus EXCEPT ![q] = "rejected"]
  /\ final' = [final EXCEPT ![q] = 0]
  /\ End(s) /\ UNCHANGED <<requested, approved, orderVars, historyVars>>

\* Mutant of BeginCancel: a request that was granted can be cancelled.
BeginCancelGranted(s, q) == Begin(s, q, "cancel", Waiting \cup Granted)

\* PATCH /:id/cancel
BeginCancel(s, q) == Begin(s, q, "cancel", Waiting)

\* The row is written whatever became of it.
Cancel(s) ==
  /\ phase[s] = "cancel"
  /\ reqStatus' = [reqStatus EXCEPT ![about[s]] = "cancelled"]
  /\ End(s) /\ UNCHANGED <<requested, approved, final, orderVars, historyVars>>

-----------------------------------------------------------------------------

Init ==
  /\ reqStatus = [q \in Req |-> "absent"]
  /\ requested = [q \in Req |-> 0] /\ approved = [q \in Req |-> 0] /\ final = [q \in Req |-> 0]
  /\ orders = [q \in Req |-> 0] /\ orderQty = [q \in Req |-> 0]
  /\ agreed = [q \in Req |-> {}] /\ overridden = [q \in Req |-> {}]
  /\ phase = [s \in Session |-> "idle"]
  /\ about = [s \in Session |-> NoReq]
  /\ seenQty = [s \in Session |-> 0]
  /\ overlaps = {}

Next ==
  \/ \E q \in Req, n \in Quantity : Create(q, n)
  \/ \E s \in Session, q \in Req : BeginWarehouse(s, q) \/ BeginDirector(s, q) \/ BeginCancel(s, q)
  \/ \E s \in Session, n \in 0..MaxQty : WarehouseAction(s, n)
  \/ \E s \in Session, n \in Quantity : Override(s, n)
  \/ \E s \in Session : Approve(s) \/ Reject(s) \/ Cancel(s) \/ Refuse(s)

Spec == Init /\ [][Next]_vars
=============================================================================
