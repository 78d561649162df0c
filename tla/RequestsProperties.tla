--------------------------- MODULE RequestsProperties ---------------------------
(* What production requests must satisfy. *)
EXTENDS ProductionRequests

TypeOK ==
  /\ reqStatus \in [Req -> Waiting \cup Decided \cup {"absent"}]
  /\ requested \in [Req -> 0..MaxQty] /\ approved \in [Req -> 0..MaxQty] /\ final \in [Req -> 0..MaxQty]
  /\ orders \in [Req -> Nat] /\ orderQty \in [Req -> 0..MaxQty]
  /\ agreed \in [Req -> SUBSET Quantity] /\ overridden \in [Req -> SUBSET Quantity]
  /\ phase \in [Session -> {"idle", "warehouse", "director", "cancel"}]
  /\ about \in [Session -> Req \cup {NoReq}]
  /\ seenQty \in [Session -> 0..MaxQty]
  /\ overlaps \subseteq Req

\* However the decisions race, a request becomes one order at most, and none before
\* the warehouse agreed to a quantity and the management decided; the order is for
\* what the warehouse agreed to at some time, never more than was asked for, unless
\* the management set the quantity itself.  A late decision of the warehouse may
\* send a converted request back to the management, which then cannot convert it a
\* second time (src/docs/production-domain-decision.md:34).
ConvertedOnce(q) ==
  /\ orders[q] <= 1
  /\ orders[q] > 0 => /\ agreed[q] # {}
                      /\ orderQty[q] \in {n \in agreed[q] : n <= requested[q]} \cup overridden[q]

ConvertedOnceAndForCause == \A q \in Req : ConvertedOnce(q)

\* A request that no two sessions handled at once is granted when and only when its
\* order exists, with the quantity the request shows; a rejected or cancelled one
\* has no order, and one that waits for the management shows what was agreed.
TellsOrder(q) ==
  /\ reqStatus[q] \in Granted <=> orders[q] > 0
  /\ reqStatus[q] \in Granted => orderQty[q] = final[q]
  /\ reqStatus[q] = "pending_director" => final[q] = approved[q] /\ approved[q] \in agreed[q]

StatusTellsOrder == \A q \in Req \ overlaps : TellsOrder(q)

\* And once it is decided it stays as it was decided.
DecidedForGood ==
  [][\A q \in Req \ overlaps : reqStatus[q] \in Decided => reqStatus'[q] = reqStatus[q]]_vars

\* In every interleaving, a granted request, with its order already running, leaves
\* its status only by a decision of the warehouse or a cancellation that had read it
\* before: the two that write without looking again.  The management, which looks
\* again under the lock, never takes its own decision back.
ManagementDecidesOnce ==
  [][\A q \in Req : reqStatus[q] \in Granted /\ reqStatus'[q] # reqStatus[q] =>
       \E s \in Session : about[s] = q /\ phase[s] \in {"warehouse", "cancel"} /\ phase'[s] = "idle"]_vars

-----------------------------------------------------------------------------
(* The inductive invariant *)

\* What a session read is still so, unless another one interfered.
SessionKnows(s) ==
  /\ about[s] \in Req /\ reqStatus[about[s]] # "absent"
  /\ phase[s] = "director" => seenQty[s] \in agreed[about[s]] /\ seenQty[s] <= requested[about[s]]
  /\ about[s] \notin overlaps =>
       /\ reqStatus[about[s]] \in Waiting
       /\ \A t \in Session : about[t] = about[s] => t = s
       /\ phase[s] = "warehouse" => reqStatus[about[s]] = "pending_warehouse"
       /\ phase[s] = "director" => reqStatus[about[s]] = "pending_director" /\ seenQty[s] = approved[about[s]]

RequestKnows(q) ==
  /\ reqStatus[q] = "absent" => orders[q] = 0 /\ agreed[q] = {} /\ q \notin overlaps
  /\ reqStatus[q] = "pending_director" => approved[q] \in agreed[q]
  /\ \A n \in agreed[q] : n <= requested[q]

RequestsInvariant ==
  /\ \A s \in Session : IF Idle(s) THEN about[s] = NoReq ELSE SessionKnows(s)
  /\ \A q \in Req : RequestKnows(q)
  /\ ConvertedOnceAndForCause /\ StatusTellsOrder
=============================================================================
