---------------------------- MODULE PlansProperties ----------------------------
(* What operations plans and their reservations must satisfy. *)
EXTENDS OperationsPlans

TypeOK ==
  /\ planStatus \in [Plan -> PlanStatus]
  /\ row \in [Plan -> {"none", "active", "released", "consumed"}]
  /\ qty \in [Plan -> Nat] /\ used \in [Plan -> Nat]
  /\ inserted \in Seq(Plan)
  /\ onHand \in Nat /\ reserved \in Nat /\ heldElsewhere \in Nat
  /\ held \in [Plan -> Int]
  /\ phase \in [Request -> {"idle", "creating", "older", "approving", "releasing", "plans", "consuming"}]
  /\ at \in [Request -> Order]
  /\ about \in [Request -> Plan \cup {NoPlan}] /\ first \in [Request -> Plan \cup {NoPlan}]
  /\ seen \in [Request -> SUBSET Plan]
  /\ seenUsed \in [Request -> Nat]
  /\ overlaps \subseteq Order

-----------------------------------------------------------------------------
(* One plan *)

\* As long as no two requests are about an order at once, one plan of it at most is
\* approved, and only an approved plan has material reserved: a plan that yields to
\* a newer one leaves no reservation behind (reservePlanMaterials).
OneApprovedPlan ==
  \A p, q \in Plan :
    OrderOf[p] = OrderOf[q] /\ OrderOf[p] \notin overlaps =>
      /\ planStatus[p] = "approved" /\ planStatus[q] = "approved" => p = q
      /\ row[p] = "active" => planStatus[p] = "approved"

\* And its row says what the item's reserve holds for it, whatever approvals,
\* receipts and releases of other orders do to the item in between: a new
\* approval, a release and a consumption together give back what was reserved once.
HeldAsRecorded ==
  \A p \in Plan : OrderOf[p] \notin overlaps => held[p] = Outstanding(p)

-----------------------------------------------------------------------------
(* Every interleaving *)

\* Also when requests race for an order: an approved plan stays approved until, in
\* one transaction, another plan of its order is approved and it is superseded; the
\* creation of a draft that found the plan still open does not undo the approval.
YieldsToApproval ==
  [][\A p \in Plan : planStatus[p] = "approved" /\ planStatus'[p] # "approved" =>
       /\ planStatus'[p] = "superseded"
       /\ \E q \in Plan \ {p} : /\ OrderOf[q] = OrderOf[p]
                                /\ planStatus[q] # "approved" /\ planStatus'[q] = "approved"]_vars

\* And a plan that was rejected or superseded is never taken up again, although an
\* approval supersedes the plans it found approved without looking at them again.
EndedPlansStayEnded ==
  [][\A p \in Plan : planStatus[p] \in {"rejected", "superseded"} => planStatus'[p] = planStatus[p]]_vars

-----------------------------------------------------------------------------
(* The inductive invariant of the last two *)

Deciding(r) == phase[r] \in {"older", "approving"}

StatusTypes ==
  /\ planStatus \in [Plan -> PlanStatus]
  /\ phase \in [Request -> {"idle", "creating", "older", "approving", "releasing", "plans", "consuming"}]
  /\ about \in [Request -> Plan \cup {NoPlan}]
  /\ seen \in [Request -> SUBSET Plan]

\* The plan under decision is open and nobody else's; what the decision found
\* approved belongs to the same order and has at most been superseded since.
DecisionKnows(r) ==
  /\ about[r] \in Plan /\ planStatus[about[r]] \in Open
  /\ seen[r] \subseteq PlansOf(OrderOf[about[r]]) \ {about[r]}
  /\ \A q \in seen[r] : planStatus[q] \in {"approved", "superseded"}
  /\ \A s \in Request : LockedBy(s, about[r]) => s = r

\* The plan under creation is nobody else's.
CreationKnows(r) ==
  /\ about[r] \in Plan /\ planStatus[about[r]] = "absent"
  /\ \A s \in Request : phase[s] = "creating" /\ about[s] = about[r] => s = r

PlansInvariant ==
  /\ StatusTypes
  /\ \A r \in Request : Deciding(r) => DecisionKnows(r)
  /\ \A r \in Request : phase[r] = "creating" => CreationKnows(r)

-----------------------------------------------------------------------------
(* The inductive invariant of the first three *)

\* A plan whose row was not inserted holds nothing; until a plan is approved it has
\* none.  An active row can be found by the order of the inserts.
RowsKnown ==
  \A p \in Plan :
    /\ row[p] = "none" => qty[p] = 0 /\ used[p] = 0 /\ held[p] = 0
    /\ planStatus[p] \notin {"approved", "superseded"} => row[p] = "none"
    /\ row[p] # "none" => \E i \in DOMAIN inserted : inserted[i] = p

\* A request is about plans of its order, and has read one row that exists at most.
KeepsToOrder(r) ==
  /\ Idle(r) => about[r] = NoPlan /\ seen[r] = {}
  /\ about[r] \in Plan => OrderOf[about[r]] = at[r]
  /\ seen[r] \subseteq PlansOf(at[r])
  /\ first[r] \in Plan => OrderOf[first[r]] = at[r] /\ row[first[r]] # "none"
  /\ phase[r] \notin {"approving", "releasing", "consuming"} => first[r] = NoPlan

\* A request that is alone at its order: what it read is still so.
ReadIsCurrent(r) ==
  /\ first[r] \in Plan => row[first[r]] = "active" /\ seenUsed[r] = used[first[r]]
  /\ phase[r] = "releasing" => first[r] \in {about[r], NoPlan}
  /\ Deciding(r) => seen[r] = {q \in PlansOf(at[r]) \ {about[r]} : planStatus[q] = "approved"}
  /\ phase[r] = "approving" => IF first[r] = NoPlan THEN \A q \in seen[r] : row[q] # "active"
                               ELSE first[r] \in seen[r]

\* Requests about an order that no two were about at once.
Alone ==
  \A r \in Request : ~Idle(r) /\ at[r] \notin overlaps =>
    /\ ReadIsCurrent(r)
    /\ \A s \in Request : ~Idle(s) /\ at[s] = at[r] => s = r

\* An active row of such an order is not used up.
ActiveHasRest ==
  \A p \in Plan : OrderOf[p] \notin overlaps /\ row[p] = "active" => used[p] < qty[p]

HeldInvariant ==
  /\ TypeOK /\ RowsKnown /\ (\A r \in Request : KeepsToOrder(r))
  /\ Alone /\ ActiveHasRest /\ OneApprovedPlan /\ HeldAsRecorded

-----------------------------------------------------------------------------
(* What the code says of itself *)

\* src/lib/operationsReservations.ts:11, of what releasePlanReservations gives back:
\* the active reservations of the plan that were not consumed.  Nothing is given
\* back for a plan that was not reserved for it, or was given back before.
NothingReleasedTwice == \A p \in Plan : held[p] >= 0
=============================================================================
