-------------------------- MODULE ProductionWorkflow --------------------------
(***************************************************************************)
(* Production orders, their transition ledger, and the raw material and    *)
(* finished goods they move.  One action per route; a route that computes  *)
(* from a row it read before opening its transaction is two actions, one   *)
(* for the read and one for the transaction, so that everything another    *)
(* session commits in between is explored.  A transaction is one step: the *)
(* routes take the order row FOR UPDATE and re-check what they rely on.    *)
(***************************************************************************)
EXTENDS ProductionLifecycle, Integers, FiniteSets, Functions

CONSTANTS
  Order,         \* ids of production_workflow_orders rows
  NoOrder,       \* the parent of an order that has none
  Material,      \* raw materials of the recipe
  Product,       \* the finished good, an inventory item like the others
  ClientKey,     \* idempotency keys chosen by the staff who create transfers
  Recipe,        \* quantity of each material in the recipe of one batch
  Batch,         \* output quantity of the recipe
  OpeningStock,  \* physical stock of each item at the start
  CompanyLimit,  \* setting orders.cancel.company_max_status, or NoLimit
  MaxQty,        \* bound: largest quantity of an order, a transfer or a decision's line
  MaxLines,      \* bound: lines of a decision
  MaxRevision,   \* bound: status changes of one order
  MaxInFlight    \* bound: requests between their read and their transaction

Item == Material \union {Product}

ASSUME ProductionAssumption ==
  /\ NoOrder \notin Order
  /\ Product \notin Material
  /\ IsFiniteSet(Order) /\ IsFiniteSet(Material)   \* rows of two tables
  /\ ClientKey \intersect (Order \X Item) = {}
  /\ Recipe \in [Material -> Nat \ {0}]
  /\ Batch \in Nat \ {0}
  /\ OpeningStock \in [Item -> Nat]
  /\ CompanyLimit \in Status \union {NoLimit}
  /\ MaxQty \in Nat \ {0}
  /\ MaxLines \in Nat
  /\ MaxRevision \in Nat
  /\ MaxInFlight \in Nat

VARIABLES
  status,       \* workflow_status; "absent" before the row is inserted
  revision,     \* lifecycle_revision, maintained by the trigger of migration 0055
  events,       \* production_transition_events of each order
  adjustments,  \* types of the order's production_lifecycle_adjustments
  qty,          \* quantity of the order
  parent,       \* parent_workflow_order_id
  portal,       \* whether portal_customer_id is set: the one modelled batch
  review,       \* portal_order_reviews of that batch
  stage,        \* current_stage, "none" when null
  quality,      \* quality_status, "none" when null
  toInventory,  \* pending_delivery_add_to_inventory with an item to add to
  requested,    \* requested_materials; the empty function before the receipt
  stock,        \* inventory_items.qty
  moved,        \* stock_movements that reference the order, summed by cause
  transfers,    \* operation_transfers
  receiving,    \* receive requests between their read and their transaction
  deciding      \* warehouse decisions between their checks and their transaction

orderVars == <<status, revision, events, adjustments>>
detailVars == <<qty, parent, portal, review, stage, quality, toInventory, requested>>
stockVars == <<stock, moved, transfers>>
requestVars == <<receiving, deciding>>
vars == <<orderVars, detailVars, stockVars, requestVars>>

\* Why a movement was posted: the direct deduction of a warehouse decision, a
\* received transfer, the reversal of a cancellation, a confirmed delivery.
Cause == {"direct", "transfer_out", "transfer_in", "cancel", "confirm"}

AdjustmentType == {"cancellation", "split", "partial_completion", "correction", "closure"}

Exists(o) == status[o] # "absent"

\* Sum of the movements of an item for an order and one cause.
Moved(o, i, c) == moved[<<o, i, c>>]

\* Sum of the "out" movements of an order.
Deducted(o, i) == Moved(o, i, "direct") + Moved(o, i, "transfer_out")

-----------------------------------------------------------------------------
(* The order row and its ledger *)

\* A row of production_transition_events.  `qty`, the order's quantity when it
\* moved, is history: it is no column, and no action reads it.
Event(o, r, from, to) == [rev |-> r, from |-> from, to |-> to, qty |-> qty[o]]

\* UPDATE of workflow_status: the trigger bumps the revision when it changes.
SetStatus(o, to) ==
  /\ status' = [status EXCEPT ![o] = to]
  /\ IF status[o] = to
       THEN UNCHANGED revision
       ELSE /\ revision[o] < MaxRevision
            /\ revision' = [revision EXCEPT ![o] = @ + 1]

\* Mutant of RecordEvent: the revision read before the update.
RecordEventStale(o, to) ==
  /\ \A e \in events[o] : e.rev # revision[o]
  /\ events' = [events EXCEPT ![o] = @ \union {Event(o, revision[o], status[o], to)}]

\* recordProductionTransitionEvent: UNIQUE (order, revision) makes it fail,
\* and the transaction with it, when that revision has an event already.
RecordEvent(o, to) ==
  /\ \A e \in events[o] : e.rev # revision'[o]
  /\ events' = [events EXCEPT ![o] = @ \union {Event(o, revision'[o], status[o], to)}]

\* auditWorkflowTransition: no event when the status did not change.
Move(o, to) ==
  /\ SetStatus(o, to)
  /\ IF status[o] = to THEN UNCHANGED events ELSE RecordEvent(o, to)

\* A new row at revision 0, as direct creation and split insert it.
Insert(o) ==
  /\ ~Exists(o)
  /\ status' = [status EXCEPT ![o] = "awaiting_operations_claim"]
  /\ events' = [events EXCEPT ![o] = {Event(o, 0, "absent", "awaiting_operations_claim")}]
  /\ UNCHANGED revision

\* POST /production-workflow; the approval of a production request inserts
\* the same row.
Create(o, q) ==
  /\ Insert(o)
  /\ qty' = [qty EXCEPT ![o] = q]
  /\ UNCHANGED <<adjustments, parent, portal, review, stage, quality, toInventory,
                 requested, stockVars, requestVars>>

\* POST /portal/orders: the lines of one batch; no event is recorded.
PortalSubmit(S, q) ==
  /\ S # {} /\ \A o \in S : ~Exists(o)
  /\ \A o \in Order : ~portal[o]
  /\ status' = [o \in Order |-> IF o \in S THEN "awaiting_operations_claim" ELSE status[o]]
  /\ portal' = [o \in Order |-> o \in S]
  /\ qty' = [o \in Order |-> IF o \in S THEN q ELSE qty[o]]
  /\ UNCHANGED <<revision, events, adjustments, parent, review, stage, quality,
                 toInventory, requested, stockVars, requestVars>>

\* claimOperationsLine, for the operations manager and for portal sales.
Claim(o) ==
  /\ status[o] = "awaiting_operations_claim"
  /\ Move(o, "claimed")
  /\ UNCHANGED <<adjustments, detailVars, stockVars, requestVars>>

\* POST /portal-orders/:batchRef/confirm: the lines still unclaimed are claimed.
PortalConfirm ==
  LET lines == {o \in Order : portal[o]}
      waiting == {o \in lines : status[o] = "awaiting_operations_claim"}
  IN  /\ lines # {} /\ review = "none"
      /\ \A o \in waiting : revision[o] < MaxRevision
      /\ review' = "confirmed"
      /\ status' = [o \in Order |-> IF o \in waiting THEN "claimed" ELSE status[o]]
      /\ revision' = [o \in Order |-> IF o \in waiting THEN revision[o] + 1 ELSE revision[o]]
      /\ events' = [o \in Order |-> IF o \in waiting
                      THEN events[o] \union {Event(o, revision[o] + 1, status[o], "claimed")}
                      ELSE events[o]]
      /\ UNCHANGED <<adjustments, qty, parent, portal, stage, quality, toInventory,
                     requested, stockVars, requestVars>>

-----------------------------------------------------------------------------
(* Receiving the order and deciding on its materials *)

InFlight == Cardinality(receiving) + Cardinality(deciding)

\* PATCH :id/receive up to the transaction: the materials are computed from
\* the quantity read here.
ReceiveRead(o) ==
  /\ status[o] = "claimed"
  /\ InFlight < MaxInFlight
  /\ receiving' = receiving \union {[order |-> o, qty |-> qty[o]]}
  /\ UNCHANGED <<orderVars, detailVars, stockVars, deciding>>

\* n / d to the nearest quantity the columns hold.  The code divides floats and
\* rounds with toFixed(3): half way between two it may take either.
Rounded(n, d) ==
  {r \in {n \div d, (n \div d) + 1} : 2 * r * d <= 2 * n + d /\ 2 * n <= 2 * r * d + d}

\* computeRequiredMaterialsForOrder
Required(q) ==
  {want \in [Material -> UNION {Rounded(Recipe[m] * q, Batch) : m \in Material}] :
     \A m \in Material : want[m] \in Rounded(Recipe[m] * q, Batch)}

\* Mutant of ReceiveCommit: the materials of one unit, whatever the quantity.
ReceiveCommitOneUnit(r) ==
  LET o == r.order IN
  /\ status[o] = "claimed"
  /\ receiving' = receiving \ {r}
  /\ Move(o, "materials_requested")
  /\ \E want \in Required(1) : requested' = [requested EXCEPT ![o] = want]
  /\ UNCHANGED <<adjustments, qty, parent, portal, review, stage, quality, toInventory,
                 stockVars, deciding>>

\* Its transaction; a request that finds the order moved on is refused.
ReceiveCommit(r) ==
  LET o == r.order IN
  /\ receiving' = receiving \ {r}
  /\ \/ /\ status[o] = "claimed"
        /\ Move(o, "materials_requested")
        /\ \E want \in Required(r.qty) : requested' = [requested EXCEPT ![o] = want]
        /\ UNCHANGED <<adjustments, qty, parent, portal, review, stage, quality, toInventory>>
     \/ status[o] # "claimed" /\ UNCHANGED <<orderVars, detailVars>>
  /\ UNCHANGED <<stockVars, deciding>>

\* The requested materials that are items of the inventory.
Linked(o) == DOMAIN requested[o]

\* The lines of a decision, data.materialDecisions, name any item any number of
\* times.  The check and the keeper look at the first line of a material.
FirstLines(lines) ==
  {lines[k] : k \in {n \in DOMAIN lines : \A l \in 1..(n - 1) : lines[l].item # lines[n].item}}

\* checkMaterialsDecision against the stock read outside the transaction.
DecisionAllowed(o, action, lines) ==
  IF action = "materials_approved"
    THEN \A m \in Linked(o) : stock[m] >= requested[o][m]
    ELSE LET looked == {line \in FirstLines(lines) : line.item \in Linked(o)} IN
         /\ \A m \in Linked(o) : \E line \in looked : line.item = m
         /\ \A line \in looked : line.qty <= requested[o][line.item] /\ line.qty <= stock[line.item]
         /\ \E line \in looked : line.qty > 0

\* PATCH :id/warehouse-action, approve or partial, up to the transaction.
\* "keeper": warehouse manager or storekeeper; "executive": the roles that
\* deduct directly and must find every child order finished.
DecisionRead(o, by, action, lines) ==
  /\ status[o] = "materials_requested"
  /\ DecisionAllowed(o, action, lines)
  /\ by = "executive" =>
       \A c \in Order : Exists(c) /\ parent[c] = o => status[c] \in ChildDone
  /\ InFlight < MaxInFlight
  /\ deciding' = deciding \union
       {[order |-> o, by |-> by, action |-> action, lines |-> lines]}
  /\ UNCHANGED <<orderVars, detailVars, stockVars, receiving>>

\* The lines that a full decision stands for: every linked material, as requested.
RequestedLines(o) == {[item |-> m, qty |-> requested[o][m]] : m \in Linked(o)}

\* The transfers a keeper prepares instead of deducting.
Prepared(o, d) ==
  { [key |-> <<o, line.item>>, order |-> o, item |-> line.item,
     direction |-> "warehouse_to_operations", qty |-> line.qty, state |-> "pending"]
    : line \in {l \in IF d.action = "materials_approved"
                        THEN RequestedLines(o) ELSE FirstLines(d.lines) :
                  l.item \in Linked(o) /\ l.qty > 0} }

KeeperCommit(o, d) ==
  /\ \A t \in transfers : \A p \in Prepared(o, d) : t.key # p.key
  /\ Move(o, d.action)
  /\ transfers' = transfers \union Prepared(o, d)
  /\ UNCHANGED <<stock, moved>>

\* applyStockMovement "out" for the order, summed per item.
Deduct(o, amount) ==
  /\ stock' = [i \in Item |-> stock[i] - amount[i]]
  /\ moved' = [k \in DOMAIN moved |->
                 IF k[1] = o /\ k[3] = "direct" THEN moved[k] + amount[k[2]] ELSE moved[k]]

\* A full decision deducts what was requested; one material that cannot be
\* deducted, because it fell short or rounds to nothing, rolls everything back.
Payable(o) == \A m \in Linked(o) : 0 < requested[o][m] /\ requested[o][m] <= stock[m]

\* What the lines `paid` of a decision take of an item.
Taken(lines, paid, i) ==
  SumFunctionOnSet([k \in DOMAIN lines |-> lines[k].qty], {k \in paid : lines[k].item = i})

\* A partial decision deducts its lines one after the other, all of them, and
\* goes on where one cannot be deducted from what those before it have left.
PaidLines(lines) ==
  {paid \in SUBSET DOMAIN lines : \A k \in DOMAIN lines :
     LET left == stock[lines[k].item]
                   - Taken(lines, {l \in paid : l < k}, lines[k].item)
     IN  k \in paid <=> 0 < lines[k].qty /\ lines[k].qty <= left}

ExecutiveCommit(o, d) ==
  /\ Move(o, d.action)
  /\ \/ /\ d.action = "materials_approved" /\ Payable(o)
        /\ Deduct(o, [i \in Item |-> IF i \in Linked(o) THEN requested[o][i] ELSE 0])
     \/ /\ d.action = "materials_partial"
        /\ \E paid \in PaidLines(d.lines) :
             Deduct(o, [i \in Item |-> Taken(d.lines, paid, i)])
  /\ UNCHANGED transfers

\* Mutant of DecisionCommit: it trusts the status it checked outside the transaction.
DecisionCommitUnchecked(d) ==
  /\ deciding' = deciding \ {d}
  /\ IF d.by = "keeper" THEN KeeperCommit(d.order, d) ELSE ExecutiveCommit(d.order, d)
  /\ UNCHANGED <<adjustments, detailVars, receiving>>

\* The transaction of the decision: committed, or refused without effect
\* because the order moved on or a full deduction failed.
DecisionCommit(d) ==
  LET o == d.order IN
  /\ deciding' = deciding \ {d}
  /\ \/ /\ status[o] = "materials_requested"
        /\ IF d.by = "keeper" THEN KeeperCommit(o, d) ELSE ExecutiveCommit(o, d)
        /\ UNCHANGED adjustments
     \/ /\ \/ status[o] # "materials_requested"
           \/ /\ d.by = "executive" /\ d.action = "materials_approved"
              /\ ~Payable(o)
        /\ UNCHANGED <<orderVars, stockVars>>
  /\ UNCHANGED <<detailVars, receiving>>

\* The reject branch; its check needs no stock, so the two reads coincide.
MaterialsReject(o) ==
  /\ status[o] = "materials_requested"
  /\ Move(o, "materials_rejected")
  /\ UNCHANGED <<adjustments, detailVars, stockVars, requestVars>>

-----------------------------------------------------------------------------
(* Execution, quality and delivery *)

\* PATCH :id/dispatch
Dispatch(o) ==
  /\ status[o] \in {"materials_approved", "materials_partial"}
  /\ Move(o, "in_production")
  /\ stage' = [stage EXCEPT ![o] = "line_setup"]
  /\ quality' = [quality EXCEPT ![o] = "pending"]
  /\ UNCHANGED <<adjustments, qty, parent, portal, review, toInventory, requested,
                 stockVars, requestVars>>

\* PATCH :id/advance-stage.  An order without a stage is refused: the UPDATE
\* compares the stored null with "line_setup".
AdvanceStage(o) ==
  /\ status[o] = "in_production"
  /\ stage[o] \in DOMAIN NextStage
  /\ stage' = [stage EXCEPT ![o] = NextStage[@]]
  /\ Move(o, IF stage'[o] = "ready_for_quality" THEN "quality_check" ELSE status[o])
  /\ UNCHANGED <<adjustments, qty, parent, portal, review, quality, toInventory,
                 requested, stockVars, requestVars>>

\* Mutant of QualityDone: the canonical table is not consulted.
QualityDoneAnywhere(o, result) ==
  /\ status[o] \in {"in_production", "quality_check"}
  /\ Move(o, IF result = "passed" THEN "completed" ELSE "quality_check")
  /\ quality' = [quality EXCEPT ![o] = result]
  /\ UNCHANGED <<adjustments, qty, parent, portal, review, stage, toInventory,
                 requested, stockVars, requestVars>>

\* PATCH :id/quality-done
QualityDone(o, result) ==
  LET to == IF result = "passed" THEN "completed" ELSE "quality_check" IN
  /\ status[o] \in {"in_production", "quality_check"}
  /\ CanTransition(status[o], to)
  /\ Move(o, to)
  /\ quality' = [quality EXCEPT ![o] = result]
  /\ UNCHANGED <<adjustments, qty, parent, portal, review, stage, toInventory,
                 requested, stockVars, requestVars>>

\* PATCH :id/deliver
Deliver(o, to, add) ==
  /\ status[o] = "completed"
  /\ Move(o, to)
  /\ toInventory' = [toInventory EXCEPT ![o] = (to = "delivery_pending_warehouse" /\ add)]
  /\ UNCHANGED <<adjustments, qty, parent, portal, review, stage, quality, requested,
                 stockVars, requestVars>>

\* Mutant of ConfirmDelivery: a repeated confirmation is carried out again.
ConfirmDeliveryRepeated(o) ==
  /\ \/ /\ status[o] \in {"delivery_pending_customer", "delivered_customer"}
        /\ Move(o, "delivered_customer")
     \/ /\ status[o] \in {"delivery_pending_warehouse", "delivered_warehouse"}
        /\ Move(o, "delivered_warehouse")
  /\ IF toInventory[o]
       THEN /\ stock' = [stock EXCEPT ![Product] = @ + qty[o]]
            /\ moved' = [moved EXCEPT ![<<o, Product, "confirm">>] = @ + qty[o]]
       ELSE UNCHANGED <<stock, moved>>
  /\ UNCHANGED <<adjustments, detailVars, transfers, requestVars>>

\* PATCH :id/confirm-delivery
ConfirmDelivery(o) ==
  /\ \/ status[o] = "delivery_pending_customer" /\ Move(o, "delivered_customer")
     \/ status[o] = "delivery_pending_warehouse" /\ Move(o, "delivered_warehouse")
  /\ IF status[o] = "delivery_pending_warehouse" /\ toInventory[o]
       THEN /\ stock' = [stock EXCEPT ![Product] = @ + qty[o]]
            /\ moved' = [moved EXCEPT ![<<o, Product, "confirm">>] = @ + qty[o]]
       ELSE UNCHANGED <<stock, moved>>
  /\ UNCHANGED <<adjustments, detailVars, transfers, requestVars>>

-----------------------------------------------------------------------------
(* Central lifecycle commands *)

\* Mutant of AdjustmentOf: a correction leaves no adjustment.
AdjustmentOfClosureOnly == [closed |-> "closure"]

\* The adjustment that POST :id/transition writes for its two such targets.
AdjustmentOf == [corrected |-> "correction", closed |-> "closure"]

\* POST :id/transition: every move of the table except a cancellation.
Transition(o, to) ==
  /\ Exists(o) /\ to # "cancelled"
  /\ CanTransition(status[o], to)
  /\ SetStatus(o, to)
  /\ RecordEvent(o, to)
  /\ adjustments' = [adjustments EXCEPT ![o] = @ \union
                       {AdjustmentOf[s] : s \in {to} \intersect DOMAIN AdjustmentOf}]
  /\ UNCHANGED <<detailVars, stockVars, requestVars>>

\* POST :id/partial-completion; q is the quantity reported as finished.
PartialCompletion(o, q) ==
  /\ Exists(o) /\ q < qty[o]
  /\ CanTransition(status[o], "partially_completed")
  /\ SetStatus(o, "partially_completed")
  /\ RecordEvent(o, "partially_completed")
  /\ adjustments' = [adjustments EXCEPT ![o] = @ \union {"partial_completion"}]
  /\ UNCHANGED <<detailVars, stockVars, requestVars>>

\* Mutant of Split: the parent keeps its quantity.
SplitCopy(o, c, q) ==
  /\ Exists(o) /\ q < qty[o]
  /\ Insert(c)
  /\ qty' = [qty EXCEPT ![c] = q]
  /\ parent' = [parent EXCEPT ![c] = o]
  /\ portal' = [portal EXCEPT ![c] = portal[o]]
  /\ adjustments' = [adjustments EXCEPT ![o] = @ \union {"split"}]
  /\ UNCHANGED <<review, stage, quality, toInventory, requested, stockVars, requestVars>>

\* POST :id/split: q units of order o become the new order c.
Split(o, c, q) ==
  /\ Exists(o) /\ q < qty[o]
  /\ Insert(c)
  /\ qty' = [qty EXCEPT ![o] = @ - q, ![c] = q]
  /\ parent' = [parent EXCEPT ![c] = o]
  /\ portal' = [portal EXCEPT ![c] = portal[o]]
  /\ adjustments' = [adjustments EXCEPT ![o] = @ \union {"split"}]
  /\ UNCHANGED <<review, stage, quality, toInventory, requested, stockVars, requestVars>>

-----------------------------------------------------------------------------
(* Cancellation *)

\* Mutant of StaffCancel: only direct deductions are reversed.
StaffCancelDirect(o) ==
  /\ Exists(o)
  /\ CanTransition(status[o], "cancelled")
  /\ Move(o, "cancelled")
  /\ adjustments' = [adjustments EXCEPT ![o] = @ \union {"cancellation"}]
  /\ stock' = [i \in Item |-> stock[i] + Moved(o, i, "direct")]
  /\ moved' = [k \in DOMAIN moved |->
                 IF k[1] = o /\ k[3] = "cancel"
                   THEN moved[k] + Moved(o, k[2], "direct") ELSE moved[k]]
  /\ UNCHANGED <<detailVars, transfers, requestVars>>

\* PATCH :id/cancel: posts back every "out" movement of the order.
StaffCancel(o) ==
  /\ Exists(o)
  /\ CanTransition(status[o], "cancelled")
  /\ Move(o, "cancelled")
  /\ adjustments' = [adjustments EXCEPT ![o] = @ \union {"cancellation"}]
  /\ stock' = [i \in Item |-> stock[i] + Deducted(o, i)]
  /\ moved' = [k \in DOMAIN moved |->
                 IF k[1] = o /\ k[3] = "cancel"
                   THEN moved[k] + Deducted(o, k[2]) ELSE moved[k]]
  /\ UNCHANGED <<detailVars, transfers, requestVars>>

\* The portal routes write workflow_status and nothing else of the order.
SilentCancel(S) ==
  LET changed == {o \in S : status[o] # "cancelled"} IN
  /\ \A o \in changed : revision[o] < MaxRevision
  /\ status' = [o \in Order |-> IF o \in S THEN "cancelled" ELSE status[o]]
  /\ revision' = [o \in Order |-> IF o \in changed THEN revision[o] + 1 ELSE revision[o]]
  /\ UNCHANGED <<events, adjustments, stockVars, requestVars>>

\* POST /portal-orders/:id/cancel, and POST /portal/orders/:id/cancel by the
\* member who submitted the line.
PortalCancelEarly(o) ==
  /\ portal[o] /\ status[o] \in PreProduction
  /\ SilentCancel({o})
  /\ UNCHANGED detailVars

\* POST /portal/orders/:id/cancel by a member who may cancel for the company.
PortalCancelCompany(o) ==
  /\ portal[o] /\ CompanyMayCancel(status[o], CompanyLimit)
  /\ SilentCancel({o})
  /\ UNCHANGED detailVars

\* POST /portal-orders/:batchRef/reject
PortalReject ==
  LET lines == {o \in Order : portal[o]} IN
  /\ lines # {} /\ review = "none"
  /\ SilentCancel(lines)
  /\ review' = "rejected"
  /\ UNCHANGED <<qty, parent, portal, stage, quality, toInventory, requested>>

-----------------------------------------------------------------------------
(* Transfers between the warehouse, operations and production *)

Direction ==
  { "warehouse_to_operations", "operations_to_production",
    "production_to_operations", "operations_to_warehouse" }

\* stockEffectOf(direction), as the cause of the movement it posts.
Effect == [ warehouse_to_operations |-> "transfer_out",
            operations_to_warehouse |-> "transfer_in" ]

\* POST /operations-control/transfers; a known key is refused.
CreateTransfer(k, o, m, dir, q) ==
  /\ Exists(o)
  /\ \A t \in transfers : t.key # k
  /\ transfers' = transfers \union
       {[key |-> k, order |-> o, item |-> m, direction |-> dir,
         qty |-> q, state |-> "pending"]}
  /\ UNCHANGED <<orderVars, detailVars, stock, moved, requestVars>>

\* Mutant of ReceiveTransfer: a received transfer may be received again.
ReceiveTransferAgain(t) ==
  /\ transfers' = (transfers \ {t}) \union
       {[t EXCEPT !.state = IF status[t.order] = "cancelled" THEN "late" ELSE "received"]}
  /\ IF t.direction \in DOMAIN Effect
       THEN LET c == Effect[t.direction]
                delta == IF c = "transfer_out" THEN -t.qty ELSE t.qty
            IN  /\ stock[t.item] + delta >= 0
                /\ stock' = [stock EXCEPT ![t.item] = @ + delta]
                /\ moved' = [moved EXCEPT ![<<t.order, t.item, c>>] = @ + t.qty]
       ELSE UNCHANGED <<stock, moved>>
  /\ UNCHANGED <<orderVars, detailVars, requestVars>>

\* PATCH /operations-control/transfers/:id/receive.  "late" is a received
\* transfer whose order was cancelled by then, which the route does not look at.
ReceiveTransfer(t) ==
  /\ t.state = "pending"
  /\ transfers' = (transfers \ {t}) \union
       {[t EXCEPT !.state = IF status[t.order] = "cancelled" THEN "late" ELSE "received"]}
  /\ IF t.direction \in DOMAIN Effect
       THEN LET c == Effect[t.direction]
                delta == IF c = "transfer_out" THEN -t.qty ELSE t.qty
            IN  /\ stock[t.item] + delta >= 0
                /\ stock' = [stock EXCEPT ![t.item] = @ + delta]
                /\ moved' = [moved EXCEPT ![<<t.order, t.item, c>>] = @ + t.qty]
       ELSE UNCHANGED <<stock, moved>>
  /\ UNCHANGED <<orderVars, detailVars, requestVars>>

-----------------------------------------------------------------------------
Init ==
  /\ status = [o \in Order |-> "absent"]
  /\ revision = [o \in Order |-> 0]
  /\ events = [o \in Order |-> {}]
  /\ adjustments = [o \in Order |-> {}]
  /\ qty = [o \in Order |-> 0]
  /\ parent = [o \in Order |-> NoOrder]
  /\ portal = [o \in Order |-> FALSE]
  /\ review = "none"
  /\ stage = [o \in Order |-> "none"]
  /\ quality = [o \in Order |-> "none"]
  /\ toInventory = [o \in Order |-> FALSE]
  /\ requested = [o \in Order |-> [m \in {} |-> 0]]
  /\ stock = OpeningStock
  /\ moved = [k \in Order \X Item \X Cause |-> 0]
  /\ transfers = {}
  /\ receiving = {}
  /\ deciding = {}

Quantity == 1..MaxQty

\* What a partial decision may send; what is more than the check accepts is
\* refused by DecisionAllowed.
Line == [item : Item, qty : 0..MaxQty]
Lines == UNION {[1..n -> Line] : n \in 1..MaxLines}

PortalNext ==
  \/ \E S \in SUBSET Order, q \in Quantity : PortalSubmit(S, q)
  \/ PortalConfirm
  \/ PortalReject
  \/ \E o \in Order : PortalCancelEarly(o) \/ PortalCancelCompany(o)

MaterialsNext ==
  \/ \E o \in Order : ReceiveRead(o) \/ MaterialsReject(o)
  \/ \E r \in receiving : ReceiveCommit(r)
  \/ \E o \in Order, by \in {"keeper", "executive"} :
       \/ DecisionRead(o, by, "materials_approved", <<>>)
       \/ \E lines \in Lines : DecisionRead(o, by, "materials_partial", lines)
  \/ \E d \in deciding : DecisionCommit(d)
  \/ \E k \in ClientKey, o \in Order, m \in Material, dir \in Direction, q \in Quantity :
       CreateTransfer(k, o, m, dir, q)
  \/ \E t \in transfers : ReceiveTransfer(t)

LifecycleNext ==
  \/ \E o \in Order, q \in Quantity : Create(o, q) \/ PartialCompletion(o, q)
  \/ \E o, c \in Order, q \in Quantity : Split(o, c, q)
  \/ \E o \in Order : Claim(o) \/ Dispatch(o) \/ AdvanceStage(o) \/ ConfirmDelivery(o)
                      \/ StaffCancel(o)
  \/ \E o \in Order, result \in {"passed", "failed"} : QualityDone(o, result)
  \/ \E o \in Order, add \in BOOLEAN,
        to \in {"delivery_pending_customer", "delivery_pending_warehouse"} :
       Deliver(o, to, add)
  \/ \E o \in Order, to \in Status : Transition(o, to)

Next == PortalNext \/ MaterialsNext \/ LifecycleNext

Spec == Init /\ [][Next]_vars
=============================================================================
