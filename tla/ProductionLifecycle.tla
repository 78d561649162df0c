------------------------- MODULE ProductionLifecycle -------------------------
(***************************************************************************)
(* The pure rules of the production lifecycle: the canonical statuses and  *)
(* their transition table (src/domain/production-lifecycle.ts) and the     *)
(* customer-side cancellation rules (src/lib/cancellation.ts).  Every      *)
(* route that moves a production order consults these operators.           *)
(***************************************************************************)
EXTENDS Naturals, Sequences

Status ==
  { "new", "awaiting_operations_claim", "claimed", "pending_supervisor",
    "materials_requested", "materials_approved", "materials_partial",
    "materials_rejected", "in_production", "held", "rework", "quality_check",
    "partially_completed", "completed", "delivery_pending_customer",
    "delivery_pending_warehouse", "delivered_customer", "delivered_warehouse",
    "cancelled", "corrected", "closed" }

\* CANONICAL_PRODUCTION_TRANSITIONS, without its "cancelled" column.
WorkTransitions ==
  [ new                        |-> {"awaiting_operations_claim"},
    awaiting_operations_claim  |-> {"claimed"},
    claimed                    |-> {"materials_requested"},
    pending_supervisor         |-> {"materials_requested"},
    materials_requested        |-> {"materials_approved", "materials_partial",
                                    "materials_rejected"},
    materials_approved         |-> {"in_production"},
    materials_partial          |-> {"in_production"},
    materials_rejected         |-> {},
    in_production              |-> {"quality_check", "held", "rework",
                                    "partially_completed"},
    held                       |-> {"in_production", "quality_check", "rework"},
    rework                     |-> {"in_production", "quality_check", "held"},
    quality_check              |-> {"quality_check", "rework", "held",
                                    "partially_completed", "completed"},
    partially_completed        |-> {"in_production", "quality_check",
                                    "completed", "held"},
    completed                  |-> {"delivery_pending_customer",
                                    "delivery_pending_warehouse", "corrected"},
    delivery_pending_customer  |-> {"delivered_customer"},
    delivery_pending_warehouse |-> {"delivered_warehouse"},
    delivered_customer         |-> {"closed", "corrected"},
    delivered_warehouse        |-> {"closed", "corrected"},
    corrected                  |-> {"quality_check", "in_production", "closed"},
    closed                     |-> {},
    cancelled                  |-> {} ]

\* The statuses whose row of the table does not list "cancelled".
NotCancellable ==
  {"delivered_customer", "delivered_warehouse", "corrected", "closed", "cancelled"}

\* canTransitionCanonicalProduction
CanTransition(from, to) ==
  /\ from \in Status
  /\ \/ to \in WorkTransitions[from]
     \/ to = "cancelled" /\ from \notin NotCancellable

-----------------------------------------------------------------------------
(* Customer-side cancellation *)

\* CANCELLABLE_WORKFLOW_STATUSES / isCancellableStatus
PreProduction ==
  { "new", "awaiting_operations_claim", "claimed", "pending_supervisor",
    "materials_requested", "materials_rejected" }

\* FINISHED_WORKFLOW_STATUSES, as the code lists it.
FinishedForCompany == {"cancelled", "completed", "closed", "shipped", "delivered"}

\* WORKFLOW_STAGE_ORDER, the scale a company limit is expressed on.
StageOrder ==
  << "new", "awaiting_operations_claim", "claimed", "pending_supervisor",
     "materials_requested", "materials_rejected", "materials_approved",
     "materials_partial", "in_production", "quality_check", "packaging",
     "ready_for_delivery", "shipped", "delivered", "completed", "closed" >>

\* A status beyond the limit; one that the scale does not list never is
\* (indexOf returns -1).
BeyondLimit(st, limit) ==
  \E i, j \in DOMAIN StageOrder :
    StageOrder[i] = limit /\ StageOrder[j] = st /\ j > i

NoLimit == "no_limit"

\* decideCompanyCancel(...).allowed
CompanyMayCancel(st, limit) ==
  /\ st \notin FinishedForCompany
  /\ limit # NoLimit => ~BeyondLimit(st, limit)

-----------------------------------------------------------------------------
(* Vocabulary of the routes *)

Stage == {"line_setup", "manufacturing", "assembly_packing", "ready_for_quality"}

\* PRODUCTION_STAGES[i + 1]
NextStage == [ line_setup       |-> "manufacturing",
               manufacturing    |-> "assembly_packing",
               assembly_packing |-> "ready_for_quality" ]

\* Statuses the warehouse-action route accepts for the children of a main order.
ChildDone == {"completed", "delivered_customer", "delivered_warehouse", "cancelled"}
=============================================================================
