---------------------------- MODULE OperationsPlans ----------------------------
(***************************************************************************)
(* Operations plans and the material reserved for them                     *)
(* (src/routes/operations-plans.ts, src/lib/operationsReservations.ts, the *)
(* receipt of a transfer in src/routes/operations-control.ts).             *)
(* A request reads rows without a lock and acts on what it read when it    *)
(* gets the lock of the inventory item.  One item is modelled; a plan      *)
(* wants some units of it and a transfer moves one.                        *)
(***************************************************************************)
EXTENDS Integers, Sequences, FiniteSets, Functions

CONSTANTS
  Plan,          \* rows of operations_plans that may come to exist
  Order,         \* sales orders
  OrderOf,       \* operations_plans.sales_order_id
  Want,          \* what the analysis in the plan's snapshot found available
  SelfApproved,  \* the plans of level 0, approved when they are submitted
  Request,       \* HTTP requests in flight
  OpeningStock,  \* the item's quantity
  MaxStock,      \* bound: its quantity that receipts make of it
  NoPlan         \* no plan

ASSUME PlansAssumption ==
  /\ IsFiniteSet(Plan) /\ NoPlan \notin Plan /\ Order # {}
  /\ OrderOf \in [Plan -> Order] /\ Want \in [Plan -> Nat] /\ SelfApproved \subseteq Plan
  /\ OpeningStock \in Nat /\ MaxStock \in Nat

VARIABLES
  planStatus,     \* operations_plans.status; "absent" before the insert
  row,            \* the plan's operations_plan_reservations row: its status
  qty, used,      \* its qty and consumed_qty
  inserted,       \* the plans whose row exists, by its id
  onHand,         \* inventory_items.qty
  reserved,       \* inventory_items.reserved_qty
  held,           \* reserved for a plan less released for it (a history variable)
  heldElsewhere,  \* the same, of everybody but the plans
  phase,          \* of a request: what it has read
  at,             \* the order it is about
  about,          \* its plan
  seen,           \* the plans it read
  first,          \* the plan whose row it read before the item's lock
  seenUsed,       \* the consumed_qty it read there
  overlaps        \* the orders two requests were about at once (a history variable)

rowVars == <<row, qty, used, inserted>>
itemVars == <<onHand, reserved, held, heldElsewhere>>
requestVars == <<phase, at, about, seen, first, seenUsed>>
vars == <<planStatus, rowVars, itemVars, requestVars, overlaps>>

PlanStatus == {"absent", "draft", "submitted", "approved", "rejected", "superseded"}

Idle(r) == phase[r] = "idle"

\* The plan's row is locked: SELECT ... FOR UPDATE by a request that has not ended.
LockedBy(r, p) == phase[r] \in {"older", "approving", "releasing"} /\ about[r] = p

Locked(p) == \E r \in Request : LockedBy(r, p)

PlansOf(o) == {p \in Plan : OrderOf[p] = o}

\* What is left of p's reservation.
Outstanding(p) == IF row[p] = "active" THEN qty[p] - used[p] ELSE 0

-----------------------------------------------------------------------------
(* Requests *)

Begin(r, ph, o, p, S) ==
  /\ Idle(r)
  /\ phase' = [phase EXCEPT ![r] = ph]
  /\ at' = [at EXCEPT ![r] = o]
  /\ about' = [about EXCEPT ![r] = p]
  /\ seen' = [seen EXCEPT ![r] = S]
  /\ overlaps' = overlaps \cup {x \in {o} : \E q \in Request : ~Idle(q) /\ at[q] = x}
  /\ UNCHANGED <<planStatus, rowVars, itemVars, first, seenUsed>>

\* The request reads the active row of plan p, or finds none; it holds no lock on it.
Read(r, ph, p) ==
  /\ phase' = [phase EXCEPT ![r] = ph]
  /\ first' = [first EXCEPT ![r] = p]
  /\ seenUsed' = [seenUsed EXCEPT ![r] = IF p = NoPlan THEN 0 ELSE used[p]]
  /\ UNCHANGED <<planStatus, rowVars, itemVars, at, about, seen, overlaps>>

\* The transaction of request r ends.
End(r) ==
  /\ phase' = [phase EXCEPT ![r] = "idle"]
  /\ about' = [about EXCEPT ![r] = NoPlan]
  /\ seen' = [seen EXCEPT ![r] = {}]
  /\ first' = [first EXCEPT ![r] = NoPlan]
  /\ seenUsed' = [seenUsed EXCEPT ![r] = 0]
  /\ UNCHANGED <<at, overlaps>>

\* A request may be refused, find the reserve too small, or lose a deadlock (an
\* approval that holds the item and wants an older plan, a release that holds that
\* plan and wants the item): its transaction is rolled back.
Refuse(r) ==
  /\ ~Idle(r) /\ End(r)
  /\ UNCHANGED <<planStatus, rowVars, itemVars>>

-----------------------------------------------------------------------------
(* Creating, submitting, rejecting *)

Open == {"draft", "submitted"}

\* POST /plans: the UPDATE that supersedes finds the open plans of the order.
BeginCreate(r, p) ==
  /\ planStatus[p] = "absent" /\ \A q \in Request : Idle(q) \/ about[q] # p
  /\ Begin(r, "creating", OrderOf[p], p, {q \in PlansOf(OrderOf[p]) : planStatus[q] \in Open})

\* Mutant of Create: the plans found open are superseded, whatever became of them.
CreateBlind(r) ==
  /\ phase[r] = "creating" /\ \A q \in seen[r] : ~Locked(q)
  /\ planStatus' = [q \in Plan |-> IF q = about[r] THEN "draft"
                                   ELSE IF q \in seen[r] THEN "superseded" ELSE planStatus[q]]
  /\ End(r) /\ UNCHANGED <<rowVars, itemVars>>

\* It waits for those that are locked, looks at each again, and the plan is inserted.
Create(r) ==
  /\ phase[r] = "creating" /\ \A q \in seen[r] : ~Locked(q)
  /\ planStatus' = [q \in Plan |-> IF q = about[r] THEN "draft"
                                   ELSE IF q \in seen[r] /\ planStatus[q] \in Open
                                          THEN "superseded" ELSE planStatus[q]]
  /\ End(r) /\ UNCHANGED <<rowVars, itemVars>>

\* POST /plans/:id/submit of a plan that somebody has to decide about.
Submit(p) ==
  /\ planStatus[p] = "draft" /\ p \notin SelfApproved /\ ~Locked(p)
  /\ planStatus' = [planStatus EXCEPT ![p] = "submitted"]
  /\ UNCHANGED <<rowVars, itemVars, requestVars, overlaps>>

\* POST /plans/:id/reject
Reject(p) ==
  /\ planStatus[p] = "submitted" /\ ~Locked(p)
  /\ planStatus' = [planStatus EXCEPT ![p] = "rejected"]
  /\ UNCHANGED <<rowVars, itemVars, requestVars, overlaps>>

-----------------------------------------------------------------------------
(* Approving *)

\* POST /plans/:id/approve, or the submission of a plan of level 0: the plan is
\* locked and the approved plans of its order are read.
BeginApprove(r, p) ==
  /\ planStatus[p] = (IF p \in SelfApproved THEN "draft" ELSE "submitted") /\ ~Locked(p)
  /\ Begin(r, "older", OrderOf[p], p, {q \in PlansOf(OrderOf[p]) \ {p} : planStatus[q] = "approved"})

\* The row of an older plan is read before the item is locked; the rows read after
\* that cannot change any more.
ReadOlderRows(r, p) ==
  /\ phase[r] = "older"
  /\ IF p = NoPlan THEN \A q \in seen[r] : row[q] # "active" ELSE p \in seen[r] /\ row[p] = "active"
  /\ Read(r, "approving", p)

\* What releasePlanReservations gives back for the plan q.
Freed(r, q) ==
  IF q = first[r] THEN qty[q] - seenUsed[r] ELSE IF q \in seen[r] THEN Outstanding(q) ELSE 0

\* Mutant of TakeOf: the item may be reserved beyond what it has.
TakeUnchecked(p, n) == IF n < Want[p] THEN n ELSE Want[p]

\* What the plan p can get of the n units that are available: the want, at most.
TakeOf(p, n) == IF n < 0 THEN 0 ELSE IF n < Want[p] THEN n ELSE Want[p]

\* Mutant of Approve: the older plans keep their status and their reservations.
ApproveAlong(r) ==
  LET p == about[r]
      take == TakeOf(p, onHand - reserved)
  IN /\ phase[r] = "approving"
     /\ planStatus' = [planStatus EXCEPT ![p] = "approved"]
     /\ reserved' = reserved + take
     /\ held' = [held EXCEPT ![p] = @ + take]
     /\ row' = [row EXCEPT ![p] = IF take > 0 THEN "active" ELSE @]
     /\ qty' = [qty EXCEPT ![p] = take]
     /\ inserted' = IF take > 0 THEN Append(inserted, p) ELSE inserted
     /\ End(r) /\ UNCHANGED <<used, onHand, heldElsewhere>>

\* reservePlanMaterials: the older plans are released and superseded, then the plan
\* reserves what is available.
Approve(r) ==
  LET p == about[r]
      freed == [q \in Plan |-> Freed(r, q)]
      rest == reserved - SumFunction(freed)
      take == TakeOf(p, onHand - rest)
  IN /\ phase[r] = "approving" /\ \A q \in seen[r] : ~Locked(q)
     /\ rest >= 0
     /\ planStatus' = [q \in Plan |-> IF q = p THEN "approved"
                                      ELSE IF q \in seen[r] THEN "superseded" ELSE planStatus[q]]
     /\ reserved' = rest + take
     /\ held' = [q \in Plan |-> held[q] - freed[q] + (IF q = p THEN take ELSE 0)]
     /\ row' = [q \in Plan |-> IF q = p THEN (IF take > 0 THEN "active" ELSE row[q])
                               ELSE IF q = first[r] \/ (q \in seen[r] /\ row[q] = "active")
                                      THEN "released" ELSE row[q]]
     /\ qty' = [qty EXCEPT ![p] = take]
     /\ inserted' = IF take > 0 THEN Append(inserted, p) ELSE inserted
     /\ End(r) /\ UNCHANGED <<used, onHand, heldElsewhere>>

-----------------------------------------------------------------------------
(* Releasing by hand and receiving material *)

\* POST /plans/:id/release: the plan is locked and its active row read.
BeginRelease(r, p) ==
  /\ Idle(r) /\ planStatus[p] # "absent" /\ ~Locked(p)
  /\ phase' = [phase EXCEPT ![r] = "releasing"]
  /\ at' = [at EXCEPT ![r] = OrderOf[p]]
  /\ about' = [about EXCEPT ![r] = p]
  /\ first' = [first EXCEPT ![r] = IF row[p] = "active" THEN p ELSE NoPlan]
  /\ seenUsed' = [seenUsed EXCEPT ![r] = IF row[p] = "active" THEN used[p] ELSE 0]
  /\ overlaps' = overlaps \cup {x \in {OrderOf[p]} : \E q \in Request : ~Idle(q) /\ at[q] = x}
  /\ UNCHANGED <<planStatus, rowVars, itemVars, seen>>

\* Mutant of Release: all of the reservation is given back, the consumed part too.
ReleaseWhole(r) ==
  LET p == first[r]
      n == IF p = NoPlan THEN 0 ELSE qty[p]
  IN /\ phase[r] = "releasing" /\ reserved >= n
     /\ reserved' = reserved - n
     /\ held' = [q \in Plan |-> IF q = p THEN held[q] - n ELSE held[q]]
     /\ row' = [q \in Plan |-> IF q = p THEN "released" ELSE row[q]]
     /\ End(r) /\ UNCHANGED <<planStatus, qty, used, inserted, onHand, heldElsewhere>>

\* What it read is given back; the plan keeps its status.
Release(r) ==
  LET p == first[r]
      n == IF p = NoPlan THEN 0 ELSE qty[p] - seenUsed[r]
  IN /\ phase[r] = "releasing" /\ reserved >= n
     /\ reserved' = reserved - n
     /\ held' = [q \in Plan |-> IF q = p THEN held[q] - n ELSE held[q]]
     /\ row' = [q \in Plan |-> IF q = p THEN "released" ELSE row[q]]
     /\ End(r) /\ UNCHANGED <<planStatus, qty, used, inserted, onHand, heldElsewhere>>

\* PATCH /transfers/:id/receive of a unit that goes out to the production of order o:
\* the approved plans of the order are read.
BeginConsume(r, o) ==
  Begin(r, "plans", o, NoPlan, {q \in PlansOf(o) : planStatus[q] = "approved"})

\* Then their active rows, the oldest of which gives the unit.
ReadPlanRows(r, p) ==
  LET rows == {q \in seen[r] : row[q] = "active"}
  IN /\ phase[r] = "plans"
     /\ IF p = NoPlan THEN rows = {}
        ELSE \E i \in DOMAIN inserted : /\ inserted[i] = p /\ p \in rows
                                        /\ \A j \in 1..(i - 1) : inserted[j] \notin rows
     /\ Read(r, "consuming", p)

\* consumePlanReservation and the movement out: the unit is released and taken.
Consume(r) ==
  LET p == first[r]
      n == IF p = NoPlan THEN 0 ELSE 1
  IN /\ phase[r] = "consuming" /\ reserved >= n /\ onHand >= 1
     /\ reserved' = reserved - n /\ onHand' = onHand - 1
     /\ held' = [q \in Plan |-> IF q = p THEN held[q] - 1 ELSE held[q]]
     /\ used' = [q \in Plan |-> IF q = p THEN seenUsed[r] + 1 ELSE used[q]]
     /\ row' = [q \in Plan |-> IF q # p THEN row[q]
                               ELSE IF seenUsed[r] + 1 >= qty[q] THEN "consumed" ELSE "active"]
     /\ End(r) /\ UNCHANGED <<planStatus, qty, inserted, heldElsewhere>>

\* Sales orders reserve and release the same item, purchases bring it.
StockElsewhere ==
  /\ \/ /\ onHand - reserved >= 1
        /\ reserved' = reserved + 1 /\ heldElsewhere' = heldElsewhere + 1 /\ UNCHANGED onHand
     \/ /\ heldElsewhere >= 1 /\ reserved >= 1
        /\ reserved' = reserved - 1 /\ heldElsewhere' = heldElsewhere - 1 /\ UNCHANGED onHand
     \/ onHand < MaxStock /\ onHand' = onHand + 1 /\ UNCHANGED <<reserved, heldElsewhere>>
  /\ UNCHANGED <<planStatus, rowVars, held, requestVars, overlaps>>

-----------------------------------------------------------------------------

Init ==
  /\ planStatus = [p \in Plan |-> "absent"]
  /\ row = [p \in Plan |-> "none"]
  /\ qty = [p \in Plan |-> 0] /\ used = [p \in Plan |-> 0]
  /\ inserted = <<>>
  /\ onHand = OpeningStock /\ reserved = 0
  /\ held = [p \in Plan |-> 0] /\ heldElsewhere = 0
  /\ phase = [r \in Request |-> "idle"]
  /\ at \in [Request -> {CHOOSE o \in Order : TRUE}]
  /\ about = [r \in Request |-> NoPlan]
  /\ seen = [r \in Request |-> {}]
  /\ first = [r \in Request |-> NoPlan]
  /\ seenUsed = [r \in Request |-> 0]
  /\ overlaps = {}

Next ==
  \/ \E r \in Request, p \in Plan : BeginCreate(r, p) \/ BeginApprove(r, p) \/ BeginRelease(r, p)
  \/ \E r \in Request, p \in Plan \cup {NoPlan} : ReadOlderRows(r, p) \/ ReadPlanRows(r, p)
  \/ \E r \in Request, o \in Order : BeginConsume(r, o)
  \/ \E r \in Request : Create(r) \/ Approve(r) \/ Release(r) \/ Consume(r) \/ Refuse(r)
  \/ \E p \in Plan : Submit(p) \/ Reject(p)
  \/ StockElsewhere

Spec == Init /\ [][Next]_vars
=============================================================================
