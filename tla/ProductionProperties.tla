------------------------- MODULE ProductionProperties -------------------------
(***************************************************************************)
(* What the production workflow promises, and the invariant of its ledger. *)
(***************************************************************************)
EXTENDS ProductionWorkflow

-----------------------------------------------------------------------------
(* Types *)

EventSet == [rev : Nat, from : Status \union {"absent"}, to : Status, qty : Nat]

TransferSet ==
  [ key : ClientKey \union (Order \X Material), order : Order, item : Material,
    direction : Direction, qty : Nat, state : {"pending", "received", "late"} ]

DecisionSet ==
  [ order : Order, by : {"keeper", "executive"},
    action : {"materials_approved", "materials_partial"},
    lines : Seq([item : Item, qty : Nat]) ]

\* What an order asks for: nothing, before it is received.
RequestSet == [Material -> Nat] \union [{} -> Nat]

\* Every variable keeps its type; in particular no quantity, movement total or
\* stock level ever goes below zero, whatever decisions and transfers race for
\* the same item (lib/stock.ts refuses an "out" beyond the physical quantity).
TypeOK ==
  /\ status \in [Order -> Status \union {"absent"}]
  /\ revision \in [Order -> Nat]
  /\ events \in [Order -> SUBSET EventSet]
  /\ adjustments \in [Order -> SUBSET AdjustmentType]
  /\ qty \in [Order -> Nat]
  /\ parent \in [Order -> Order \union {NoOrder}]
  /\ portal \in [Order -> BOOLEAN]
  /\ review \in {"none", "confirmed", "rejected"}
  /\ stage \in [Order -> Stage \union {"none"}]
  /\ quality \in [Order -> {"none", "pending", "passed", "failed"}]
  /\ toInventory \in [Order -> BOOLEAN]
  /\ requested \in [Order -> RequestSet]
  /\ stock \in [Item -> Nat]
  /\ moved \in [Order \X Item \X Cause -> Nat]
  /\ transfers \subseteq TransferSet
  /\ receiving \subseteq [order : Order, qty : Nat]
  /\ deciding \subseteq DecisionSet

-----------------------------------------------------------------------------
(* The transition ledger *)

EventRevisions(o) == {e.rev : e \in events[o]}

RevisionMismatch(o) ==
  /\ EventRevisions(o) # {}
  /\ ~ /\ revision[o] \in EventRevisions(o)
       /\ \A r \in EventRevisions(o) : r <= revision[o]

RevisionGap(o) ==
  \E r, s \in EventRevisions(o) : r < s /\ r + 1 \notin EventRevisions(o)

\* findProductionConformanceIssues, as far as the ledger is concerned.
ConformanceIssues(o) ==
  { issue \in {"EVENT_REVISION_MISMATCH", "EVENT_REVISION_GAP"} :
      \/ issue = "EVENT_REVISION_MISMATCH" /\ RevisionMismatch(o)
      \/ issue = "EVENT_REVISION_GAP" /\ RevisionGap(o) }

\* A line that a customer-side route cancelled: the last status has no event.
SilentlyCancelled(o) ==
  portal[o] /\ status[o] = "cancelled" /\ "cancellation" \notin adjustments[o]

\* The conformance check of GET :id/lifecycle reports nothing: whatever mix of
\* routes moved an order, every revision since its first event has exactly one
\* event.  Only a line cancelled on the customer side is exempt, and only from
\* the check of the last revision.
LedgerConforms ==
  \A o \in Order : ConformanceIssues(o) # {} =>
                     /\ SilentlyCancelled(o)
                     /\ ConformanceIssues(o) = {"EVENT_REVISION_MISMATCH"}

\* The ledger tells the order's history: two events of one revision never
\* coexist, each event starts where the one before it ended, and the last one
\* ends in the order's status (the silent cancellation apart).
LedgerTellsHistory ==
  \A o \in Order :
    /\ \A e, f \in events[o] :
         /\ e.rev = f.rev => e = f
         /\ f.rev = e.rev + 1 => f.from = e.to
    /\ \A e \in events[o] :
         e.rev = revision[o] /\ ~SilentlyCancelled(o) => e.to = status[o]

\* The inductive invariant behind the two properties above: an order that does
\* not exist has no history; revisions are bounded, unique and without gaps, and
\* consecutive events are linked; the newest one is the order's status unless
\* the customer side cancelled it; only a cancelled order has the adjustment of
\* a cancellation; and an order in quality control has a history.
LedgerOf(o) ==
  /\ ~Exists(o) =>
       events[o] = {} /\ revision[o] = 0 /\ adjustments[o] = {} /\ ~portal[o]
  /\ \A e \in events[o] : e.rev <= revision[o]
  /\ \A e, f \in events[o] :
       /\ e.rev = f.rev => e = f
       /\ f.rev = e.rev + 1 => f.from = e.to
       /\ e.rev < f.rev => \E g \in events[o] : g.rev = e.rev + 1
  /\ events[o] # {} /\ ~SilentlyCancelled(o) =>
       \E e \in events[o] : e.rev = revision[o] /\ e.to = status[o]
  /\ "cancellation" \in adjustments[o] => status[o] = "cancelled"
  /\ status[o] = "quality_check" => events[o] # {}

LedgerInvariant == \A o \in Order : LedgerOf(o)

\* The events of an order that record a move to a status.
RecordsTo(o, to) == {e \in events[o] : e.to = to}

RecordedTo(o, to) == RecordsTo(o, to) # {}

\* The adjustments of an order and its ledger agree, although they are written
\* by different routes: a cancellation, correction or closure is adjusted if and
\* only if it is recorded, and a partial completion only if it is.
AdjustmentsMatchLedger ==
  \A o \in Order :
    /\ "cancellation" \in adjustments[o] <=> RecordedTo(o, "cancelled")
    /\ "correction" \in adjustments[o] <=> RecordedTo(o, "corrected")
    /\ "closure" \in adjustments[o] <=> RecordedTo(o, "closed")
    /\ "partial_completion" \in adjustments[o] => RecordedTo(o, "partially_completed")

\* The workflow implements CanonicalOrder: every route, seen as a change of
\* status and ledger alone, is a move of the canonical table on record, the
\* opening of orders, or the withdrawal of portal lines.
Canonical == INSTANCE CanonicalOrder
  WITH log <- [o \in Order |-> {<<e.from, e.to>> : e \in events[o]}]

ImplementsCanonicalOrder == Canonical!Spec

-----------------------------------------------------------------------------
(* Materials and finished goods *)

\* The order's transfers of item i in a direction whose state is one of `states`,
\* and their quantity.
TransfersOf(o, i, dir, states) ==
  {t \in transfers : t.order = o /\ t.item = i /\ t.direction = dir /\ t.state \in states}

TransferQty(o, i, dir, states) ==
  SumFunctionOnSet([t \in transfers |-> t.qty], TransfersOf(o, i, dir, states))

\* A transfer is posted to stock once, when it is received, and only in the two
\* directions that cross the warehouse door.
TransfersPostedOnce ==
  \A o \in Order, i \in Item :
    /\ Moved(o, i, "transfer_out") = TransferQty(o, i, "warehouse_to_operations", {"received", "late"})
    /\ Moved(o, i, "transfer_in") = TransferQty(o, i, "operations_to_warehouse", {"received", "late"})

\* PATCH :id/cancel posts back everything deducted before it, once; a decision
\* that was in flight when it committed deducts nothing afterwards.
CancelReversesDeductions ==
  \A o \in Order, i \in Item : "cancellation" \in adjustments[o] =>
    Moved(o, i, "cancel") = Moved(o, i, "direct")
      + TransferQty(o, i, "warehouse_to_operations", {"received"})

\* The decision of the warehouse, as the ledger has it.
Decided(o, as) == \E e \in events[o] : e.from = "materials_requested" /\ e.to = as

\* The transfer a keeper prepared for an item of the order.
PreparedFor(o, i) == {t \in transfers : t.key = <<o, i>>}

\* The items that were deducted for an order, those that were prepared for it, and
\* those that it needs.
DeductedItems(o) == {i \in Item : Moved(o, i, "direct") # 0}
PreparedItems(o) == {i \in Item : PreparedFor(o, i) # {}}
NeededItems(o) == {i \in Linked(o) : requested[o][i] # 0}

CarriedOut(o) ==
  LET issued == DeductedItems(o) \union PreparedItems(o) IN
  /\ DeductedItems(o) = {} \/ PreparedItems(o) = {}
  /\ issued # {} => Decided(o, "materials_approved") \/ Decided(o, "materials_partial")
  /\ Decided(o, "materials_approved") =>
       /\ issued \in {{}, NeededItems(o)}
       /\ \A i \in DeductedItems(o) : Moved(o, i, "direct") = requested[o][i]
       /\ \A i \in PreparedItems(o) : \A t \in PreparedFor(o, i) : t.qty = requested[o][i]
  /\ \A i \in PreparedItems(o) :
       i \in Linked(o) /\ \A t \in PreparedFor(o, i) : t.qty <= requested[o][i]

\* Of several decisions taken on one read of an order one is carried out, whole,
\* and it is the one on record: what was deducted or prepared follows a recorded
\* decision, in one of the two ways and never in both; a full decision took all
\* that was requested and nothing else, or the generic route recorded it and it
\* took nothing; and no transfer is prepared beyond the request.
OneDecisionCarriedOut == \A o \in Order : CarriedOut(o)

\* What warehouseDecisionCore.ts says of a partial decision, that none of its
\* quantities is more than was requested: refuted, because an executive's
\* decision deducts every line it is sent, and the check looks at the first line
\* of each requested material.
IssuedWithinRequest ==
  \A o \in Order, i \in Item :
    Moved(o, i, "direct") <= IF i \in Linked(o) THEN requested[o][i] ELSE 0

\* The materials requested for an order cover what is left of it, but for what
\* rounding takes from one material, half a unit of its column: splitting an order
\* while it is being received never leaves it short of more.
RequestCoversOrder ==
  \A o \in Order : \A m \in Linked(o) :
    2 * (Recipe[m] * qty[o]) <= 2 * requested[o][m] * Batch + Batch

\* The quantity of some of an order's events.
QtyOf(o, some) == SumFunctionOnSet([e \in events[o] |-> e.qty], some)

\* Finished goods enter stock only through a delivery to the warehouse that is on
\* record, no more than was delivered, and a second delivery of the same order
\* needs a correction: a repeated confirmation adds nothing.
FinishedGoodsOncePerDelivery ==
  \A o \in Order :
    LET deliveries == RecordsTo(o, "delivered_warehouse")
    IN  /\ Moved(o, Product, "confirm") <= QtyOf(o, deliveries)
        /\ Cardinality(deliveries) <= Cardinality(RecordsTo(o, "corrected")) + 1

\* Splitting conserves quantity: the sum over all orders changes only when an
\* order that is nobody's split appears.
SplitConservesQuantity ==
  [][ SumFunctionOnSet(qty', Order) # SumFunctionOnSet(qty, Order)
        => \E o \in Order : ~Exists(o) /\ Exists(o)' /\ parent'[o] = NoOrder ]_vars

-----------------------------------------------------------------------------
(* The invariants behind them *)

\* Before the materials of an order are asked for, and before the warehouse
\* decides on them.
BeforeRequest == {"absent", "new", "awaiting_operations_claim", "claimed"}
BeforeDecision == BeforeRequest \union {"pending_supervisor", "materials_requested"}

\* Behind SplitConservesQuantity: an order that does not exist has no quantity
\* and is nobody's split.
UnopenedInvariant ==
  \A o \in Order : ~Exists(o) => qty[o] = 0 /\ parent[o] = NoOrder

\* Behind RequestCoversOrder: an order that does not exist asks for nothing, and
\* the quantity that a receive request read is at least what is left by then.
RequestInvariant ==
  /\ \A o \in Order : ~Exists(o) => Linked(o) = {}
  /\ \A r \in receiving : Exists(r.order) /\ r.qty >= qty[r.order]
  /\ RequestCoversOrder

\* Behind OneDecisionCarriedOut: before the warehouse decides nothing is issued for
\* an order and no decision is on record; afterwards one is, at most, and what a
\* keeper's decision in flight may prepare is within what the order asked for,
\* which is settled by then.
IssueInvariant ==
  /\ \A o \in Order : status[o] \in BeforeDecision =>
       /\ DeductedItems(o) = {} /\ PreparedItems(o) = {}
       /\ \A e \in events[o] : e.from # "materials_requested"
  /\ \A d \in deciding :
       /\ status[d.order] \notin BeforeRequest
       /\ d.action = "materials_partial" =>
            \A line \in FirstLines(d.lines) :
              line.item \in Linked(d.order) => line.qty <= requested[d.order][line.item]
  /\ OneDecisionCarriedOut

\* Behind TransfersPostedOnce: a key names one transfer, and a late transfer is
\* one of a cancelled order.
TransferInvariant ==
  /\ IsFiniteSet(transfers)
  /\ \A t, u \in transfers : t.key = u.key => t = u
  /\ \A t \in transfers : t.state = "late" => status[t.order] = "cancelled"
  /\ TransfersPostedOnce

\* Behind CancelReversesDeductions: only a cancellation posts a reversal.
ReversalInvariant ==
  /\ \A o \in Order, i \in Item :
       "cancellation" \notin adjustments[o] => Moved(o, i, "cancel") = 0
  /\ CancelReversesDeductions

\* Behind FinishedGoodsOncePerDelivery: deliveries run ahead of corrections, by
\* one, only while the order is delivered, closed, or withdrawn after delivery.
DeliveryInvariant ==
  \A o \in Order :
    LET deliveries == RecordsTo(o, "delivered_warehouse")
        corrections == RecordsTo(o, "corrected")
    IN  /\ IsFiniteSet(events[o])
        /\ Cardinality(deliveries) <= Cardinality(corrections) + 1
        /\ status[o] \notin {"delivered_warehouse", "closed", "cancelled"} =>
             Cardinality(deliveries) <= Cardinality(corrections)
        /\ Moved(o, Product, "confirm") <= QtyOf(o, deliveries)
=============================================================================
