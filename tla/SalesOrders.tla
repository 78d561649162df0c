------------------------------ MODULE SalesOrders ------------------------------
(***************************************************************************)
(* Sales orders, the stock they reserve and deduct, and their approval     *)
(* (src/routes/sales.ts, src/lib/salesStatusTransition.ts, lib/stock.ts,   *)
(* lib/approvals.ts, the decision route of src/routes/governance.ts).      *)
(* Handlers read the order without a lock and act on the status they read  *)
(* until they commit.  One inventory item is modelled; a line asks for one *)
(* unit of it.                                                             *)
(***************************************************************************)
EXTENDS Integers, FiniteSets

CONSTANTS
  Order,         \* rows of sales_orders that may come to exist
  Line,          \* rows of sales_order_items
  Approval,      \* rows of approval_requests
  Request,       \* HTTP requests in flight
  Steps,         \* the active policies of sales.approve are 1, ..., Steps
  OpeningStock,  \* the item's quantity
  MaxStock,      \* bound: its quantity that deliveries make of it
  NoOrder,       \* no order
  NoApproval     \* no approval

ASSUME SalesAssumption ==
  /\ NoOrder \notin Order /\ NoApproval \notin Approval
  /\ IsFiniteSet(Line)
  /\ Steps \in Nat \ {0}
  /\ OpeningStock \in Nat /\ MaxStock \in Nat

VARIABLES
  status,    \* sales_orders.status; "absent" before the insert, "deleted" after
  home,      \* the order of a line, kept when the line is deleted
  live,      \* whether the line's row exists
  onHand,    \* inventory_items.qty
  reserved,  \* inventory_items.reserved_qty
  held,      \* of a line: reservations made less released (a history variable)
  out,       \* of a line: movements out less in
  heldElsewhere, outElsewhere,  \* the same, of everybody but the sales orders
  appState, appOrder, appStep, appOrig,  \* status, resource_id, current_step, metadata.originalStatus
  start,     \* the step an approval began at
  signed,    \* the steps at which someone approved (a history variable)
  phase,     \* of a request: what it has read
  about,     \* its order
  from,      \* the status it read
  seen,      \* the lines it read
  decides,   \* the approval it decides
  atStep,    \* the step it read
  overlaps   \* how often a request of an order began before another ended (a history variable)

elseVars == <<heldElsewhere, outElsewhere>>
stockVars == <<onHand, reserved, held, out, elseVars>>
appVars == <<appState, appOrder, appStep, appOrig, start, signed>>
requestVars == <<phase, about, from, seen, decides, atStep>>
vars == <<status, home, live, stockVars, appVars, requestVars, overlaps>>

Status == {"draft", "pending_approval", "confirmed", "shipped", "paid", "cancelled"}

Position(st) ==
  CASE st = "draft" -> 0 [] st = "confirmed" -> 1 [] st = "shipped" -> 2 [] OTHER -> 3

\* computeStockAndBalanceEffects: which changes of status are allowed.
Allowed(a, b) ==
  \/ a = b
  \/ /\ a \notin {"cancelled", "pending_approval"}
     /\ \/ b = "cancelled"
        \/ b = "pending_approval" /\ a = "draft"
        \/ b \notin {"cancelled", "pending_approval"} /\ Position(a) < Position(b)

\* getSalesOrderStockState
StockState(st) ==
  IF st = "confirmed" THEN "reserved" ELSE IF st \in {"shipped", "paid"} THEN "deducted" ELSE "none"

\* Its effects contain "reserve".
Reserves(a, b) == a = "draft" /\ StockState(b) # "none"

Exists(o) == status[o] \notin {"absent", "deleted"}

Lines(o) == {l \in Line : home[l] = o /\ live[l]}

Fresh == {l \in Line : home[l] = NoOrder}

-----------------------------------------------------------------------------
(* Stock *)

If(b) == IF b THEN 1 ELSE 0

\* reserveStock, releaseStockReservation and applyStockMovement, as one handler
\* calls them: the lines S leave the stock state a, then the lines T enter b.  The
\* item's row is locked by the first call; a refusal rolls the handler back.
Settle(a, S, b, T) ==
  LET r == reserved - (IF a = "reserved" THEN Cardinality(S) ELSE 0)
      q == onHand + (IF a = "deducted" THEN Cardinality(S) ELSE 0)
  IN /\ r >= 0
     /\ b = "reserved" => q - r >= Cardinality(T)
     /\ b = "deducted" => q >= Cardinality(T)
     /\ reserved' = r + (IF b = "reserved" THEN Cardinality(T) ELSE 0)
     /\ onHand' = q - (IF b = "deducted" THEN Cardinality(T) ELSE 0)
     /\ held' = [l \in Line |-> held[l] - If(a = "reserved" /\ l \in S) + If(b = "reserved" /\ l \in T)]
     /\ out' = [l \in Line |-> out[l] - If(a = "deducted" /\ l \in S) + If(b = "deducted" /\ l \in T)]
     /\ UNCHANGED elseVars

\* applySalesTransitionPlan: what is deducted at once is reserved first, so that it
\* must be available.
ApplyPlan(a, b, S) ==
  /\ Reserves(a, b) => onHand - reserved >= Cardinality(S)
  /\ IF StockState(a) = StockState(b) THEN UNCHANGED stockVars ELSE Settle(StockState(a), S, StockState(b), S)

Elsewhere(q, h) ==
  /\ onHand' = onHand + q /\ outElsewhere' = outElsewhere - q
  /\ reserved' = reserved + h /\ heldElsewhere' = heldElsewhere + h
  /\ UNCHANGED <<status, home, live, held, out, appVars, requestVars, overlaps>>

\* Operations plans and production work with the same item through the same calls;
\* a movement does not look at what is reserved.
StockElsewhere ==
  \/ onHand - reserved >= 1 /\ Elsewhere(0, 1)
  \/ heldElsewhere >= 1 /\ reserved >= 1 /\ Elsewhere(0, -1)
  \/ onHand >= 1 /\ Elsewhere(-1, 0)
  \/ onHand < MaxStock /\ Elsewhere(1, 0)

-----------------------------------------------------------------------------
(* Approval *)

\* createApprovalRequest: where the first policy that fits starts depends on the amount.
Ask(o, st) ==
  \E a \in Approval, i \in 1..Steps :
    /\ appState[a] = "absent"
    /\ appState' = [appState EXCEPT ![a] = "pending"]
    /\ appOrder' = [appOrder EXCEPT ![a] = o]
    /\ appStep' = [appStep EXCEPT ![a] = i]
    /\ appOrig' = [appOrig EXCEPT ![a] = st]
    /\ start' = [start EXCEPT ![a] = i]
    /\ UNCHANGED signed

\* The order takes the status st, or waits for the approval of it when a policy fits.
Enter(o, st, mayAsk) ==
  \/ status' = [status EXCEPT ![o] = st] /\ UNCHANGED appVars
  \/ mayAsk /\ status' = [status EXCEPT ![o] = "pending_approval"] /\ Ask(o, st)

-----------------------------------------------------------------------------
(* Requests *)

Idle(r) == phase[r] = "idle"

InFlight(o) == {r \in Request : ~Idle(r) /\ about[r] = o}

Begin(r, p, o, st, a, i) ==
  /\ Idle(r)
  /\ phase' = [phase EXCEPT ![r] = p]
  /\ about' = [about EXCEPT ![r] = o]
  /\ from' = [from EXCEPT ![r] = st]
  /\ decides' = [decides EXCEPT ![r] = a]
  /\ atStep' = [atStep EXCEPT ![r] = i]
  /\ overlaps' = IF InFlight(o) = {} THEN overlaps ELSE [overlaps EXCEPT ![o] = @ + 1]
  /\ UNCHANGED <<status, home, live, stockVars, appVars, seen>>

End(r) ==
  /\ phase' = [phase EXCEPT ![r] = "idle"]
  /\ about' = [about EXCEPT ![r] = NoOrder]
  /\ from' = [from EXCEPT ![r] = "draft"]
  /\ seen' = [seen EXCEPT ![r] = {}]
  /\ decides' = [decides EXCEPT ![r] = NoApproval]
  /\ atStep' = [atStep EXCEPT ![r] = 1]
  /\ UNCHANGED overlaps

\* A request is refused, or fails and is rolled back.
Refuse(r) ==
  /\ ~Idle(r)
  /\ End(r)
  /\ UNCHANGED <<status, home, live, stockVars, appVars>>

\* The order is read, without a lock.
ReadOrder(r, o) ==
  /\ Exists(o)
  /\ Begin(r, "read", o, status[o], NoApproval, 1)

\* Its handler goes on with the lines S.
Sees(r, p, S) ==
  /\ phase' = [phase EXCEPT ![r] = p]
  /\ seen' = [seen EXCEPT ![r] = S]
  /\ UNCHANGED <<status, home, live, stockVars, appVars, about, from, decides, atStep, overlaps>>

\* Lines of S that another request holds locked.
Locked(r, S) == \E q \in Request \ {r} : phase[q] = "locked" /\ seen[q] \cap S # {}

\* The deletions read the lines without a lock, an edit locks them.
ReadLines(r) == phase[r] = "read" /\ Sees(r, "lines", Lines(about[r]))

LockLines(r) ==
  /\ phase[r] = "read"
  /\ Sees(r, IF Locked(r, Lines(about[r])) THEN "waiting" ELSE "locked", Lines(about[r]))

\* An edit that had to wait gets the rows of when it began to, less those deleted
\* since: not the ones that replaced them.
GetLines(r) ==
  /\ phase[r] = "waiting" /\ ~Locked(r, seen[r])
  /\ Sees(r, "locked", {l \in seen[r] : live[l]})

-----------------------------------------------------------------------------
(* Handlers *)

\* POST /sales: one transaction, on an order nobody knows yet.
Create(o, st, N) ==
  /\ status[o] = "absent" /\ N \subseteq Fresh
  /\ home' = [l \in Line |-> IF l \in N THEN o ELSE home[l]]
  /\ live' = [l \in Line |-> live[l] \/ l \in N]
  /\ ApplyPlan("draft", st, N)
  /\ Enter(o, st, TRUE)
  /\ UNCHANGED <<requestVars, overlaps>>

\* PATCH /sales/:id without lines
EditStatus(r, st) ==
  LET o == about[r] IN
  /\ phase[r] = "locked" /\ from[r] # "pending_approval" /\ Allowed(from[r], st)
  /\ Exists(o)
  /\ ApplyPlan(from[r], st, seen[r])
  /\ Enter(o, st, Reserves(from[r], st))
  /\ End(r)
  /\ UNCHANGED <<home, live>>

\* Mutant of EditLines: the stock of the replaced lines is not given back.
EditLinesKeeping(r, st, N) ==
  LET o == about[r] IN
  /\ phase[r] = "locked" /\ from[r] # "pending_approval" /\ Allowed(from[r], st)
  /\ Exists(o) /\ N \subseteq Fresh
  /\ Settle("none", {}, StockState(st), N)
  /\ home' = [l \in Line |-> IF l \in N THEN o ELSE home[l]]
  /\ live' = [l \in Line |-> (live[l] /\ home[l] # o) \/ l \in N]
  /\ Enter(o, st, Reserves(from[r], st))
  /\ End(r)

\* PATCH /sales/:id with lines: all the lines of the order are replaced, and the
\* stock of those it read is given back.
EditLines(r, st, N) ==
  LET o == about[r] IN
  /\ phase[r] = "locked" /\ from[r] # "pending_approval" /\ Allowed(from[r], st)
  /\ Exists(o) /\ N \subseteq Fresh
  /\ Settle(StockState(from[r]), seen[r], StockState(st), N)
  /\ home' = [l \in Line |-> IF l \in N THEN o ELSE home[l]]
  /\ live' = [l \in Line |-> (live[l] /\ home[l] # o) \/ l \in N]
  /\ Enter(o, st, Reserves(from[r], st))
  /\ End(r)

\* DELETE /sales/:id: the lines go with the order.
Delete(r) ==
  LET o == about[r] IN
  /\ phase[r] = "lines" /\ from[r] # "pending_approval"
  /\ ~Locked(r, Lines(o))
  /\ ApplyPlan(from[r], "cancelled", seen[r])
  /\ status' = [status EXCEPT ![o] = "deleted"]
  /\ live' = [l \in Line |-> live[l] /\ home[l] # o]
  /\ End(r)
  /\ UNCHANGED <<home, appVars>>

\* POST /sales/:id/items
AddLine(r, l) ==
  LET o == about[r] IN
  /\ phase[r] = "read" /\ from[r] \notin {"pending_approval", "cancelled"}
  /\ Exists(o) /\ l \in Fresh
  /\ Settle("none", {}, StockState(from[r]), {l})
  /\ home' = [home EXCEPT ![l] = o]
  /\ live' = [live EXCEPT ![l] = TRUE]
  /\ End(r)
  /\ UNCHANGED <<status, appVars>>

\* DELETE /sales/:id/items/:itemId: a line already gone is deleted once more.
DropLine(r, l) ==
  /\ phase[r] = "lines" /\ from[r] \notin {"pending_approval", "cancelled"}
  /\ l \in seen[r] /\ ~Locked(r, Lines(about[r]) \cap {l})
  /\ Settle(StockState(from[r]), {l}, "none", {})
  /\ live' = [live EXCEPT ![l] = FALSE]
  /\ End(r)
  /\ UNCHANGED <<status, home, appVars>>

\* PATCH /governance/approval-requests/:id/decide reads the request and the policy
\* after its step before its transaction.
ReadApproval(r, a) ==
  /\ appState[a] = "pending"
  /\ Begin(r, "deciding", appOrder[a], "draft", a, appStep[a])

Decided(r, a, st, i, s) ==
  /\ phase[r] = "deciding" /\ decides[r] = a /\ appState[a] = "pending"
  /\ appState' = [appState EXCEPT ![a] = st]
  /\ appStep' = [appStep EXCEPT ![a] = i]
  /\ signed' = [signed EXCEPT ![a] = @ \cup s]
  /\ End(r)
  /\ UNCHANGED <<appOrder, appOrig, start, home, live>>

\* Mutant of ApproveStep: the step is counted up from where the request is by now.
ApproveStepCounting(r, a) ==
  /\ atStep[r] < Steps
  /\ Decided(r, a, "pending", appStep[a] + 1, {atStep[r]})
  /\ UNCHANGED <<status, stockVars>>

\* Not the last step: the request goes on to the next one.
ApproveStep(r, a) ==
  /\ atStep[r] < Steps
  /\ Decided(r, a, "pending", atStep[r] + 1, {atStep[r]})
  /\ UNCHANGED <<status, stockVars>>

\* The last step: the order takes the status it was to have.
ApproveLast(r, a) ==
  LET o == appOrder[a] IN
  /\ atStep[r] >= Steps
  /\ Decided(r, a, "approved", atStep[r], {atStep[r]})
  /\ status' = IF Exists(o) THEN [status EXCEPT ![o] = appOrig[a]] ELSE status
  /\ UNCHANGED stockVars

\* Mutant of Reject: what it gives back is always taken for a reservation.
RejectReleasing(r, a) ==
  LET o == appOrder[a] IN
  /\ Decided(r, a, "rejected", atStep[r], {})
  /\ IF Exists(o)
       THEN /\ Settle("reserved", Lines(o), "none", {})
            /\ status' = [status EXCEPT ![o] = "cancelled"]
       ELSE UNCHANGED <<status, stockVars>>

\* Whatever was reserved or deducted is given back and the order cancelled.
Reject(r, a) ==
  LET o == appOrder[a] IN
  /\ Decided(r, a, "rejected", atStep[r], {})
  /\ IF Exists(o)
       THEN /\ Settle(StockState(appOrig[a]), Lines(o), "none", {})
            /\ status' = [status EXCEPT ![o] = "cancelled"]
       ELSE UNCHANGED <<status, stockVars>>

-----------------------------------------------------------------------------

Init ==
  /\ status = [o \in Order |-> "absent"]
  /\ home = [l \in Line |-> NoOrder]
  /\ live = [l \in Line |-> FALSE]
  /\ onHand = OpeningStock /\ reserved = 0
  /\ heldElsewhere = 0 /\ outElsewhere = 0
  /\ held = [l \in Line |-> 0] /\ out = [l \in Line |-> 0]
  /\ appState = [a \in Approval |-> "absent"]
  /\ appOrder = [a \in Approval |-> NoOrder]
  /\ appStep = [a \in Approval |-> 1] /\ start = [a \in Approval |-> 1]
  /\ appOrig = [a \in Approval |-> "draft"]
  /\ signed = [a \in Approval |-> {}]
  /\ phase = [r \in Request |-> "idle"]
  /\ about = [r \in Request |-> NoOrder]
  /\ from = [r \in Request |-> "draft"]
  /\ seen = [r \in Request |-> {}]
  /\ decides = [r \in Request |-> NoApproval]
  /\ atStep = [r \in Request |-> 1]
  /\ overlaps = [o \in Order |-> 0]

Next ==
  \/ StockElsewhere
  \/ \E o \in Order, st \in Status, N \in SUBSET Line : Create(o, st, N)
  \/ \E r \in Request, o \in Order : ReadOrder(r, o)
  \/ \E r \in Request : ReadLines(r) \/ LockLines(r) \/ GetLines(r) \/ Delete(r) \/ Refuse(r)
  \/ \E r \in Request, st \in Status : EditStatus(r, st) \/ \E N \in SUBSET Line : EditLines(r, st, N)
  \/ \E r \in Request, l \in Line : AddLine(r, l) \/ DropLine(r, l)
  \/ \E r \in Request, a \in Approval :
       ReadApproval(r, a) \/ ApproveStep(r, a) \/ ApproveLast(r, a) \/ Reject(r, a)

Spec == Init /\ [][Next]_vars
=============================================================================
