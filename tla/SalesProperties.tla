--------------------------- MODULE SalesProperties ----------------------------
(* What sales orders, their stock and their approvals must satisfy. *)
EXTENDS SalesOrders

TypeOK ==
  /\ status \in [Order -> Status \cup {"absent", "deleted"}]
  /\ home \in [Line -> Order \cup {NoOrder}]
  /\ live \in [Line -> BOOLEAN]
  /\ onHand \in Nat /\ reserved \in Nat
  /\ held \in [Line -> Int] /\ out \in [Line -> Int]
  /\ heldElsewhere \in Nat /\ outElsewhere \in Int
  /\ appState \in [Approval -> {"absent", "pending", "approved", "rejected"}]
  /\ appOrder \in [Approval -> Order \cup {NoOrder}]
  /\ appStep \in [Approval -> 1..Steps] /\ start \in [Approval -> 1..Steps]
  /\ appOrig \in [Approval -> Status]
  /\ signed \in [Approval -> SUBSET (1..Steps)]
  /\ phase \in [Request -> {"idle", "read", "lines", "waiting", "locked", "deciding"}]
  /\ about \in [Request -> Order \cup {NoOrder}]
  /\ from \in [Request -> Status]
  /\ seen \in [Request -> SUBSET Line]
  /\ decides \in [Request -> Approval \cup {NoApproval}]
  /\ atStep \in [Request -> 1..Steps]
  /\ overlaps \in [Order -> Nat]

-----------------------------------------------------------------------------
(* Stock *)

\* Two requests have handled o at once.
Raced(o) == overlaps[o] > 0

Awaits(a, o) == appState[a] = "pending" /\ appOrder[a] = o

\* The order o is to have its lines in the stock state x: by its status, or by the
\* status it will have once approved.
Claims(o, x) == StockState(status[o]) = x \/ \E a \in Approval : Awaits(a, o) /\ StockState(appOrig[a]) = x

\* Whatever happens to other orders of the same item, and however their requests
\* race: as long as no two requests handled this order at once, each of its lines is
\* reserved once while its status says so, deducted once while its status says so,
\* and neither when the line or the order is gone, the order cancelled, or its
\* approval rejected (sales.ts, governance.ts).
StockFollowsStatus ==
  \A l \in Line :
    home[l] # NoOrder /\ ~Raced(home[l]) =>
      /\ held[l] = If(live[l] /\ Claims(home[l], "reserved"))
      /\ out[l] = If(live[l] /\ Claims(home[l], "deducted"))

\* With no overlap at all, the item's quantities are what the orders and the others
\* hold: whoever reserved can release.
StockIsAccountedFor ==
  (\A o \in Order : ~Raced(o)) =>
    LET Held(x) == Cardinality({l \in Line : live[l] /\ Claims(home[l], x)})
    IN /\ reserved = Held("reserved") + heldElsewhere
       /\ onHand = OpeningStock - Held("deducted") - outElsewhere

-----------------------------------------------------------------------------
(* Approval *)

\* An approval that was given was given at every step from the one it began at, also
\* when decisions were made on a request read before another decision.
EveryStepSigned ==
  \A a \in Approval : appState[a] = "approved" => start[a]..Steps \subseteq signed[a]

\* A cancelled order stays cancelled, unless two requests handled it at once.
FinalUnlessRaced ==
  [][\A o \in Order : ~Raced(o) /\ status[o] = "cancelled" => status'[o] \in {"cancelled", "deleted"}]_vars

-----------------------------------------------------------------------------
(* The inductive invariant *)

\* What a request read is still so unless another one interfered, and the steps that
\* it read as passed are signed in any case.
RequestKnows(r) ==
  /\ about[r] \in Order /\ status[about[r]] # "absent"
  /\ \A l \in seen[r] : home[l] = about[r]
  /\ phase[r] = "deciding" =>
       /\ decides[r] \in Approval /\ appState[decides[r]] # "absent"
       /\ appOrder[decides[r]] = about[r]
       /\ start[decides[r]]..(atStep[r] - 1) \subseteq signed[decides[r]]
  /\ ~Raced(about[r]) =>
       /\ \A q \in Request : ~Idle(q) /\ about[q] = about[r] => q = r
       /\ phase[r] = "deciding" => Awaits(decides[r], about[r])
       /\ phase[r] # "deciding" => from[r] = status[about[r]] /\ Exists(about[r])
       /\ phase[r] \in {"lines", "waiting", "locked"} => seen[r] = Lines(about[r])

RequestsKnow == \A r \in Request : IF Idle(r) THEN seen[r] = {} ELSE RequestKnows(r)

\* An order that nobody raced for waits for one approval at most, and only while
\* its status says so.
ApprovalKnows(a) ==
  /\ appOrder[a] \in Order /\ status[appOrder[a]] # "absent"
  /\ start[a]..(appStep[a] - 1) \subseteq signed[a]
  /\ ~Raced(appOrder[a]) /\ appState[a] = "pending" =>
       /\ status[appOrder[a]] = "pending_approval"
       /\ \A b \in Approval : Awaits(b, appOrder[a]) => b = a

ApprovalsKnow == \A a \in Approval : appState[a] # "absent" => ApprovalKnows(a)

LinesKnow ==
  \A l \in Line :
    IF home[l] = NoOrder THEN ~live[l] /\ held[l] = 0 /\ out[l] = 0 ELSE status[home[l]] # "absent"

SalesInvariant == RequestsKnow /\ ApprovalsKnow /\ LinesKnow /\ StockFollowsStatus /\ EveryStepSigned
=============================================================================
