----------------------------- MODULE IntakeProofs -----------------------------
(***************************************************************************)
(* Proofs about the two ways by which work reaches production.             *)
(*                                                                         *)
(* Production requests, for any requests, any number of sessions and any   *)
(* quantities: a request's knowledge rests on what the sessions that have  *)
(* read it still know; another request is not touched.                     *)
(*                                                                         *)
(* Operations cases, for any cases, lines, forms and edits of the sales    *)
(* order: everything hangs on what an edit that writes over no other one   *)
(* has read, which is the order as it is.                                  *)
(***************************************************************************)
EXTENDS RequestsProperties, CasesProperties, TLAPS

Good == TypeOK /\ RequestsInvariant

USE RequestsAssumption

-----------------------------------------------------------------------------
(* What a step leaves alone *)

\* Two sessions about one request have been noticed.
LEMMA Noticed ==
  ASSUME Good, NEW s \in Session, NEW t \in Session, s # t, ~Idle(s), about[t] = about[s]
  PROVE  about[s] \in overlaps
  BY DEF Good, RequestsInvariant, SessionKnows

\* A session that a step leaves as it is and whose request the step leaves as it
\* is, or that had company, knows what it knew.
LEMMA StillKnows ==
  ASSUME Good, overlaps \subseteq overlaps', NEW t \in Session,
         ~Idle(t), about'[t] = about[t], phase'[t] = phase[t], seenQty'[t] = seenQty[t],
         requested'[about[t]] = requested[about[t]],
         agreed[about[t]] \subseteq agreed'[about[t]],
         reqStatus'[about[t]] # "absent",
         about[t] \notin overlaps' =>
           /\ reqStatus'[about[t]] = reqStatus[about[t]] /\ approved'[about[t]] = approved[about[t]]
           /\ \A u \in Session : about'[u] = about[t] => u = t
  PROVE  SessionKnows(t)'
  BY DEF Good, RequestsInvariant, SessionKnows, Idle

\* A request that a step leaves alone keeps what is known of it.
LEMMA RequestKept ==
  ASSUME Good, overlaps \subseteq overlaps', NEW q \in Req,
         reqStatus'[q] = reqStatus[q], requested'[q] = requested[q], approved'[q] = approved[q],
         final'[q] = final[q], orders'[q] = orders[q], orderQty'[q] = orderQty[q],
         agreed'[q] = agreed[q], overridden'[q] = overridden[q],
         q \in overlaps' => q \in overlaps \/ reqStatus[q] # "absent"
  PROVE  RequestKnows(q)' /\ ConvertedOnce(q)' /\ (q \notin overlaps' => TellsOrder(q)')
  BY DEF Good, RequestsInvariant, RequestKnows, ConvertedOnceAndForCause, StatusTellsOrder, ConvertedOnce, TellsOrder

-----------------------------------------------------------------------------
(* What a step does to the sessions *)

Sessions == \A s \in Session : IF Idle(s) THEN about[s] = NoReq ELSE SessionKnows(s)

\* What is known of one request.
Known(q) == RequestKnows(q) /\ ConvertedOnce(q) /\ (q \notin overlaps => TellsOrder(q))

LEMMA GoodIs == Good <=> TypeOK /\ Sessions /\ \A q \in Req : Known(q)
  BY DEF Good, RequestsInvariant, Sessions, Known, ConvertedOnceAndForCause, StatusTellsOrder

\* A step that ends a session and writes no request but that session's own.
LEMMA EndKeepsSessions ==
  ASSUME Good, NEW s \in Session, ~Idle(s), End(s),
         requested' = requested, agreed[about[s]] \subseteq agreed'[about[s]],
         reqStatus'[about[s]] # "absent",
         \A x \in Req \ {about[s]} : reqStatus'[x] = reqStatus[x] /\ approved'[x] = approved[x]
                                     /\ agreed'[x] = agreed[x]
  PROVE  Sessions'
<1> SUFFICES ASSUME NEW t \in Session
             PROVE  IF Idle(t)' THEN about'[t] = NoReq ELSE SessionKnows(t)'
  BY DEF Sessions, Idle
<1>0. /\ about \in [Session -> Req \cup {NoReq}] /\ overlaps' = overlaps
      /\ DOMAIN phase = Session /\ DOMAIN seenQty = Session
  BY DEF Good, TypeOK, End
<1>1. CASE t = s
  BY <1>0, <1>1 DEF End, Idle
<1>2. CASE t # s /\ Idle(t)
  BY <1>0, <1>2 DEF End, Idle, Good, RequestsInvariant
<1>3. CASE t # s /\ ~Idle(t)
  <2>1. /\ about'[t] = about[t] /\ phase'[t] = phase[t] /\ seenQty'[t] = seenQty[t]
        /\ \A u \in Session : about'[u] = about[t] => about[u] = about[t]
    BY <1>0, <1>3 DEF End, Idle, Good, RequestsInvariant, SessionKnows
  <2>2. SessionKnows(t) /\ about[t] \in Req /\ about[s] \in Req
    BY <1>3 DEF Good, RequestsInvariant, SessionKnows
  <2>3. about[t] = about[s] => about[t] \in overlaps
    BY <1>3, Noticed
  <2>4. about[t] \notin overlaps' => \A u \in Session : about'[u] = about[t] => u = t
    BY <2>1, <2>2, <1>0 DEF SessionKnows
  <2>5. /\ requested'[about[t]] = requested[about[t]] /\ agreed[about[t]] \subseteq agreed'[about[t]]
        /\ reqStatus'[about[t]] # "absent"
    BY <2>2 DEF SessionKnows
  <2>6. SessionKnows(t)'
    BY <1>0, <1>3, <2>1, <2>2, <2>3, <2>4, <2>5, StillKnows
  <2> QED
    BY <1>3, <2>1, <2>6 DEF Idle
<1> QED
  BY <1>1, <1>2, <1>3

\* What the session that ends knows of its request.
LEMMA Mine ==
  ASSUME Good, NEW s \in Session, ~Idle(s)
  PROVE  about[s] \in Req /\ SessionKnows(s) /\ Known(about[s])
  BY GoodIs DEF Sessions, SessionKnows

\* A step that ends a session, writes its request and keeps what is known of that one.
LEMMA EndStep ==
  ASSUME Good, NEW s \in Session, NEW a, a = about[s], ~Idle(s), End(s), TypeOK', Known(a)',
         requested' = requested, agreed[a] \subseteq agreed'[a], reqStatus'[a] # "absent",
         \A x \in Req \ {a} :
           /\ reqStatus'[x] = reqStatus[x] /\ approved'[x] = approved[x] /\ final'[x] = final[x]
           /\ orders'[x] = orders[x] /\ orderQty'[x] = orderQty[x]
           /\ agreed'[x] = agreed[x] /\ overridden'[x] = overridden[x]
  PROVE  Good'
<1>1. Sessions'
  BY EndKeepsSessions
<1>2. ASSUME NEW q \in Req PROVE Known(q)'
  <2>1. CASE q = a
    BY <2>1
  <2>2. CASE q # a
    <3>1. overlaps' = overlaps
      BY DEF End
    <3> QED
      BY <2>2, <3>1, RequestKept DEF Known
  <2> QED
    BY <2>1, <2>2
<1> QED
  BY <1>1, <1>2 DEF Good, RequestsInvariant, Sessions, Known, ConvertedOnceAndForCause, StatusTellsOrder

-----------------------------------------------------------------------------
(* The steps *)

LEMMA AboutReal == ASSUME Good, NEW s \in Session, phase[s] # "idle" PROVE about[s] \in Req
  BY Mine DEF Idle

LEMMA Types == ASSUME Good, Next PROVE TypeOK'
<1> USE DEF Good, TypeOK, Quantity, Waiting, Decided, Granted
<1>1. ASSUME NEW q \in Req, NEW n \in Quantity, Create(q, n) PROVE TypeOK'
  BY <1>1 DEF Create, sessionVars, orderVars, historyVars
<1>2. ASSUME NEW s \in Session, NEW q \in Req,
             BeginWarehouse(s, q) \/ BeginDirector(s, q) \/ BeginCancel(s, q)
      PROVE  TypeOK'
  BY <1>2 DEF BeginWarehouse, BeginDirector, BeginCancel, Begin, rowVars, orderVars, historyVars
<1>3. ASSUME NEW s \in Session, NEW n \in 0..MaxQty, WarehouseAction(s, n) PROVE TypeOK'
  <2>1. PICK a : a = about[s]
    OBVIOUS
  <2>2. a \in Req
    BY <1>3, <2>1, AboutReal DEF WarehouseAction, StillWaits
  <2> QED
    BY <1>3, <2>1, <2>2 DEF WarehouseAction, End, orderVars
<1>4. ASSUME NEW s \in Session, NEW n \in Quantity, Override(s, n) PROVE TypeOK'
  <2>1. PICK a : a = about[s]
    OBVIOUS
  <2>2. a \in Req
    BY <1>4, <2>1, AboutReal DEF Override, StillWaits
  <2> QED
    BY <1>4, <2>1, <2>2 DEF Override, Insert, End
<1>5. ASSUME NEW s \in Session, Approve(s) PROVE TypeOK'
  <2>1. PICK a : a = about[s]
    OBVIOUS
  <2>2. a \in Req
    BY <1>5, <2>1, AboutReal DEF Approve, StillWaits
  <2> QED
    BY <1>5, <2>1, <2>2 DEF Approve, Insert, End, historyVars
<1>6. ASSUME NEW s \in Session, Reject(s) PROVE TypeOK'
  <2>1. PICK a : a = about[s]
    OBVIOUS
  <2>2. a \in Req
    BY <1>6, <2>1, AboutReal DEF Reject, StillWaits
  <2> QED
    BY <1>6, <2>1, <2>2 DEF Reject, End, historyVars, orderVars
<1>7. ASSUME NEW s \in Session, Cancel(s) PROVE TypeOK'
  <2>1. PICK a : a = about[s]
    OBVIOUS
  <2>2. a \in Req
    BY <1>7, <2>1, AboutReal DEF Cancel, StillWaits
  <2> QED
    BY <1>7, <2>1, <2>2 DEF Cancel, End, historyVars, orderVars
<1>8. ASSUME NEW s \in Session, Refuse(s) PROVE TypeOK'
  BY <1>8 DEF Refuse, End, rowVars, historyVars, orderVars
<1> QED
  BY <1>1, <1>2, <1>3, <1>4, <1>5, <1>6, <1>7, <1>8 DEF Next

LEMMA CreateKeeps ==
  ASSUME Good, NEW q \in Req, NEW n \in Quantity, Create(q, n), TypeOK' PROVE Good'
<1>1. ASSUME NEW t \in Session PROVE IF Idle(t)' THEN about'[t] = NoReq ELSE SessionKnows(t)'
  BY <1>1 DEF Good, RequestsInvariant, TypeOK, Create, sessionVars, historyVars, Idle, SessionKnows
<1>2. ASSUME NEW x \in Req PROVE Known(x)'
  BY <1>2 DEF Good, RequestsInvariant, TypeOK, Create, orderVars, historyVars, Known, RequestKnows,
              ConvertedOnceAndForCause, ConvertedOnce, StatusTellsOrder, TellsOrder, Granted, Waiting
<1> QED
  BY <1>1, <1>2 DEF Good, RequestsInvariant, Sessions, Known, ConvertedOnceAndForCause, StatusTellsOrder

LEMMA BeginKeeps ==
  ASSUME Good, NEW s \in Session, NEW q \in Req, TypeOK',
         BeginWarehouse(s, q) \/ BeginDirector(s, q) \/ BeginCancel(s, q)
  PROVE  Good'
<1>0. /\ rowVars' = rowVars /\ orderVars' = orderVars /\ historyVars' = historyVars
      /\ reqStatus[q] \in Waiting /\ Idle(s) /\ overlaps \subseteq overlaps'
      /\ about' = [about EXCEPT ![s] = q] /\ seenQty' = [seenQty EXCEPT ![s] = approved[q]]
      /\ phase'[s] \in {"warehouse", "director", "cancel"}
      /\ phase'[s] = "warehouse" => reqStatus[q] = "pending_warehouse"
      /\ phase'[s] = "director" => reqStatus[q] = "pending_director"
      /\ \A t \in Session \ {s} : phase'[t] = phase[t]
      /\ (\E t \in Session : about[t] = q) => q \in overlaps'
      /\ overlaps' \subseteq overlaps \cup {q}
  BY DEF BeginWarehouse, BeginDirector, BeginCancel, Begin, Good, TypeOK, Waiting
<1>t. about \in [Session -> Req \cup {NoReq}] /\ seenQty \in [Session -> 0..MaxQty]
  BY DEF Good, TypeOK
<1>k. Known(q)
  BY GoodIs
<1>1. ASSUME NEW t \in Session PROVE IF Idle(t)' THEN about'[t] = NoReq ELSE SessionKnows(t)'
  <2>1. CASE t = s
    <3>1. q \notin overlaps' => \A u \in Session : about'[u] = q => u = s
      BY <1>0, <1>t
    <3> QED
      BY <2>1, <3>1, <1>0, <1>t, <1>k DEF Idle, SessionKnows, rowVars, historyVars, Known, RequestKnows, Waiting
  <2>2. CASE t # s /\ Idle(t)
    BY <2>2, <1>0, <1>t DEF Idle, Good, RequestsInvariant
  <2>3. CASE t # s /\ ~Idle(t)
    <3>1. SessionKnows(t)
      BY <2>3 DEF Good, RequestsInvariant
    <3>2. about[t] \notin overlaps' => \A u \in Session : about'[u] = about[t] => u = t
      BY <3>1, <2>3, <1>0, <1>t DEF SessionKnows
    <3>3. /\ requested'[about[t]] = requested[about[t]] /\ agreed[about[t]] \subseteq agreed'[about[t]]
          /\ reqStatus'[about[t]] = reqStatus[about[t]] /\ approved'[about[t]] = approved[about[t]]
          /\ reqStatus'[about[t]] # "absent"
          /\ about'[t] = about[t] /\ phase'[t] = phase[t] /\ seenQty'[t] = seenQty[t]
      BY <3>1, <2>3, <1>0, <1>t DEF SessionKnows, rowVars, historyVars
    <3>4. SessionKnows(t)'
      BY <2>3, <3>2, <3>3, <1>0, StillKnows
    <3> QED
      BY <2>3, <3>3, <3>4 DEF Idle
  <2> QED
    BY <2>1, <2>2, <2>3
<1>2. ASSUME NEW x \in Req PROVE Known(x)'
  BY <1>0, RequestKept DEF Known, rowVars, orderVars, historyVars, Waiting
<1> QED
  BY <1>1, <1>2 DEF Good, RequestsInvariant, Sessions, Known, ConvertedOnceAndForCause, StatusTellsOrder

\* What is known of the request of a session, spelt out.
LEMMA Terms ==
  ASSUME Good, NEW s \in Session, NEW a, a = about[s], ~Idle(s)
  PROVE  /\ a \in Req /\ Known(a) /\ reqStatus[a] # "absent"
         /\ phase[s] = "director" => seenQty[s] \in agreed[a] /\ seenQty[s] <= requested[a]
         /\ a \notin overlaps /\ phase[s] = "warehouse" => reqStatus[a] = "pending_warehouse"
         /\ a \notin overlaps /\ phase[s] = "director" =>
              reqStatus[a] = "pending_director" /\ seenQty[s] = approved[a]
         /\ a \notin overlaps => reqStatus[a] \in Waiting
  BY Mine DEF SessionKnows

LEMMA WarehouseKeeps ==
  ASSUME Good, NEW s \in Session, NEW n \in 0..MaxQty, WarehouseAction(s, n), TypeOK' PROVE Good'
<1> PICK a : a = about[s]
  OBVIOUS
<1>1. ~Idle(s) /\ a \in Req /\ overlaps' = overlaps /\ End(s)
  BY Terms DEF WarehouseAction, Idle, End
<1>2. Known(a) /\ (a \notin overlaps => reqStatus[a] = "pending_warehouse")
  BY <1>1, Terms DEF WarehouseAction
<1>3. /\ reqStatus'[a] = IF n = 0 THEN "rejected" ELSE "pending_director"
      /\ approved'[a] = n /\ final'[a] = n /\ n <= requested[a] /\ requested' = requested
      /\ agreed'[a] = agreed[a] \cup ({n} \ {0})
      /\ orders' = orders /\ orderQty' = orderQty /\ overridden' = overridden
  BY <1>1 DEF WarehouseAction, Good, TypeOK, orderVars
<1>4. \A x \in Req \ {a} : reqStatus'[x] = reqStatus[x] /\ approved'[x] = approved[x] /\ final'[x] = final[x]
                           /\ agreed'[x] = agreed[x]
  BY <1>1 DEF WarehouseAction, Good, TypeOK
<1>5. RequestKnows(a)'
  BY <1>2, <1>3 DEF Known, RequestKnows
<1>6. ConvertedOnce(a)'
  BY <1>2, <1>3 DEF Known, ConvertedOnce
<1>7. a \notin overlaps => TellsOrder(a)'
  BY <1>2, <1>3 DEF Known, TellsOrder, Granted
<1> QED
  BY <1>1, <1>3, <1>4, <1>5, <1>6, <1>7, EndStep DEF Known

\* A conversion, for n pieces, by the management.
LEMMA ConversionKeeps ==
  ASSUME Good, NEW s \in Session, NEW n \in Quantity, NEW a, a = about[s], TypeOK',
         StillWaits(s), Insert(a, n), End(s), requested' = requested, approved' = approved, agreed' = agreed,
         reqStatus' = [reqStatus EXCEPT ![a] = "approved"] \/ reqStatus' = [reqStatus EXCEPT ![a] = "partial_approved"],
         final' = [final EXCEPT ![a] = n],
         n \in {k \in agreed[a] : k <= requested[a]} \cup overridden'[a],
         \A x \in Req \ {a} : overridden'[x] = overridden[x]
  PROVE  Good'
<1>1. ~Idle(s) /\ a \in Req /\ overlaps' = overlaps /\ Known(a) /\ reqStatus[a] = "pending_director"
  BY Terms DEF StillWaits, Idle, End
<1>2. /\ reqStatus'[a] \in Granted /\ final'[a] = n /\ orders'[a] = 1 /\ orderQty'[a] = n
      /\ \A x \in Req \ {a} : reqStatus'[x] = reqStatus[x] /\ final'[x] = final[x]
                              /\ orders'[x] = orders[x] /\ orderQty'[x] = orderQty[x]
  BY <1>1 DEF Insert, Good, TypeOK, Granted
<1>3. RequestKnows(a)'
  BY <1>1, <1>2 DEF Known, RequestKnows, Granted
<1>4. ConvertedOnce(a)'
  BY <1>1, <1>2 DEF Known, ConvertedOnce, RequestKnows
<1>5. TellsOrder(a)'
  BY <1>2 DEF TellsOrder, Granted
<1> QED
  BY <1>1, <1>2, <1>3, <1>4, <1>5, EndStep DEF Known, Granted

LEMMA OverrideKeeps ==
  ASSUME Good, NEW s \in Session, NEW n \in Quantity, Override(s, n), TypeOK' PROVE Good'
<1> PICK a : a = about[s]
  OBVIOUS
<1>1. a \in Req
  BY Terms DEF Override, StillWaits, Idle
<1>2. n \in overridden'[a] /\ \A x \in Req \ {a} : overridden'[x] = overridden[x]
  BY <1>1 DEF Override, Good, TypeOK
<1>3. reqStatus' = [reqStatus EXCEPT ![a] = "approved"] \/ reqStatus' = [reqStatus EXCEPT ![a] = "partial_approved"]
  BY DEF Override
<1> QED
  BY <1>2, <1>3, ConversionKeeps DEF Override

LEMMA ApproveKeeps ==
  ASSUME Good, NEW s \in Session, Approve(s), TypeOK' PROVE Good'
<1> PICK a : a = about[s]
  OBVIOUS
<1> PICK n : n = seenQty[s]
  OBVIOUS
<1>1. a \in Req /\ n \in agreed[a] /\ n <= requested[a]
  BY Terms DEF Approve, StillWaits, Idle
<1>2. n \in Quantity
  BY <1>1 DEF Good, TypeOK
<1> QED
  BY <1>1, <1>2, ConversionKeeps DEF Approve, historyVars

LEMMA RejectKeeps ==
  ASSUME Good, NEW s \in Session, Reject(s), TypeOK' PROVE Good'
<1> PICK a : a = about[s]
  OBVIOUS
<1>1. ~Idle(s) /\ a \in Req /\ overlaps' = overlaps /\ Known(a) /\ reqStatus[a] = "pending_director" /\ End(s)
  BY Terms DEF Reject, StillWaits, Idle, End
<1>2. /\ reqStatus'[a] = "rejected" /\ requested' = requested /\ approved' = approved
      /\ UNCHANGED <<orders, orderQty, agreed, overridden>>
      /\ \A x \in Req \ {a} : reqStatus'[x] = reqStatus[x] /\ final'[x] = final[x]
  BY <1>1 DEF Reject, Good, TypeOK, orderVars, historyVars
<1>3. RequestKnows(a)' /\ ConvertedOnce(a)' /\ (a \notin overlaps => TellsOrder(a)')
  BY <1>1, <1>2 DEF Known, RequestKnows, ConvertedOnce, TellsOrder, Granted
<1> QED
  BY <1>1, <1>2, <1>3, EndStep DEF Known

LEMMA CancelKeeps ==
  ASSUME Good, NEW s \in Session, Cancel(s), TypeOK' PROVE Good'
<1> PICK a : a = about[s]
  OBVIOUS
<1>1. /\ ~Idle(s) /\ a \in Req /\ overlaps' = overlaps /\ Known(a) /\ reqStatus[a] # "absent" /\ End(s)
      /\ a \notin overlaps => reqStatus[a] \in Waiting
  BY Terms DEF Cancel, Idle, End
<1>2. /\ reqStatus'[a] = "cancelled" /\ requested' = requested /\ approved' = approved /\ final' = final
      /\ UNCHANGED <<orders, orderQty, agreed, overridden>>
      /\ \A x \in Req \ {a} : reqStatus'[x] = reqStatus[x]
  BY <1>1 DEF Cancel, Good, TypeOK, orderVars, historyVars
<1>3. RequestKnows(a)' /\ ConvertedOnce(a)' /\ (a \notin overlaps => TellsOrder(a)')
  BY <1>1, <1>2 DEF Known, RequestKnows, ConvertedOnce, TellsOrder, Granted, Waiting
<1> QED
  BY <1>1, <1>2, <1>3, EndStep DEF Known

LEMMA RefuseKeeps ==
  ASSUME Good, NEW s \in Session, Refuse(s), TypeOK' PROVE Good'
<1> PICK a : a = about[s]
  OBVIOUS
<1>1. ~Idle(s) /\ a \in Req /\ overlaps' = overlaps /\ Known(a) /\ reqStatus[a] # "absent" /\ End(s)
  BY Terms DEF Refuse, Idle, End
<1>2. Known(a)'
  BY <1>1, RequestKept DEF Refuse, Known, rowVars, orderVars, historyVars
<1> QED
  BY <1>1, <1>2, EndStep DEF Refuse, rowVars, orderVars, historyVars

-----------------------------------------------------------------------------
(* The theorems *)

LEMMA InitGood == Init => Good
  BY DEF Init, Good, TypeOK, RequestsInvariant, Quantity, Idle, SessionKnows, RequestKnows, ConvertedOnceAndForCause,
         ConvertedOnce, StatusTellsOrder, TellsOrder, Granted, Decided, Waiting

LEMMA NextGood == Good /\ [Next]_vars => Good'
<1> SUFFICES ASSUME Good, [Next]_vars PROVE Good'
  OBVIOUS
<1>0. CASE UNCHANGED vars
  BY <1>0 DEF vars, rowVars, orderVars, historyVars, sessionVars, Good, TypeOK, RequestsInvariant, SessionKnows,
              RequestKnows, ConvertedOnceAndForCause, ConvertedOnce, StatusTellsOrder, TellsOrder, Idle
<1> SUFFICES ASSUME Next PROVE Good'
  BY <1>0
<1>1. TypeOK'
  BY Types
<1> QED
  BY <1>1, CreateKeeps, BeginKeeps, WarehouseKeeps, OverrideKeeps, ApproveKeeps, RejectKeeps, CancelKeeps, RefuseKeeps
  DEF Next

\* The inductive invariant (src/src/routes/production-requests.ts:253-690): what a
\* session read of a request is still so unless another session interfered.
THEOREM RequestsCorrect == Spec => []RequestsInvariant
<1>1. Good => RequestsInvariant
  BY DEF Good
<1> QED
  BY <1>1, InitGood, NextGood, PTL DEF Spec

\* For any requests, sessions and quantities, the rows keep their types.
THEOREM RequestsTypes == Spec => []TypeOK
<1>1. Good => TypeOK
  BY DEF Good
<1> QED
  BY <1>1, InitGood, NextGood, PTL DEF Spec

\* However the decisions race, a request becomes at most one order, for a quantity
\* the warehouse agreed to or the management set (director-action, 371-560).
THEOREM OneOrder == Spec => []ConvertedOnceAndForCause
<1>1. Good => ConvertedOnceAndForCause
  BY DEF Good, RequestsInvariant
<1> QED
  BY <1>1, InitGood, NextGood, PTL DEF Spec

\* Where no two sessions met on a request, its status tells whether it has an order.
THEOREM StatusTells == Spec => []StatusTellsOrder
<1>1. Good => StatusTellsOrder
  BY DEF Good, RequestsInvariant
<1> QED
  BY <1>1, InitGood, NextGood, PTL DEF Spec

DecidedStep == \A q \in Req \ overlaps : reqStatus[q] \in Decided => reqStatus'[q] = reqStatus[q]

LEMMA DecidedKept == Good /\ [Next]_vars => DecidedStep
<1> SUFFICES ASSUME Good, [Next]_vars, NEW q \in Req \ overlaps, reqStatus[q] \in Decided
             PROVE  reqStatus'[q] = reqStatus[q]
  BY DEF DecidedStep
<1>0. reqStatus \in [Req -> Waiting \cup Decided \cup {"absent"}] /\ reqStatus[q] \notin Waiting
  BY DEF Good, TypeOK, Waiting, Decided, Granted
<1>a. reqStatus[q] # "absent"
  BY DEF Decided, Granted
<1>s. ASSUME NEW s \in Session, phase[s] # "idle" PROVE about[s] # q
  BY <1>s, <1>0, Terms DEF Idle
<1>1. ASSUME NEW s \in Session, NEW n \in 0..MaxQty, WarehouseAction(s, n) PROVE reqStatus'[q] = reqStatus[q]
  BY <1>0, <1>1, <1>s DEF WarehouseAction
<1>2. ASSUME NEW s \in Session, NEW n \in Quantity, Override(s, n) PROVE reqStatus'[q] = reqStatus[q]
  BY <1>0, <1>2, <1>s DEF Override, StillWaits
<1>3. ASSUME NEW s \in Session, Approve(s) \/ Reject(s) \/ Cancel(s) PROVE reqStatus'[q] = reqStatus[q]
  BY <1>0, <1>3, <1>s DEF Approve, Reject, Cancel, StillWaits
<1>4. ASSUME NEW x \in Req, NEW n \in Quantity, Create(x, n) PROVE reqStatus'[q] = reqStatus[q]
  BY <1>0, <1>a, <1>4 DEF Create
<1>5. CASE UNCHANGED reqStatus
  BY <1>5
<1> QED
  BY <1>1, <1>2, <1>3, <1>4, <1>5
  DEF Next, vars, rowVars, BeginWarehouse, BeginDirector, BeginCancel, Begin, Refuse

\* A decided request on which no two sessions met stays as it was decided.
THEOREM StaysDecided == Spec => DecidedForGood
<1>1. Good /\ [Next]_vars => DecidedStep
  BY DecidedKept
<1> QED
  BY <1>1, InitGood, NextGood, PTL DEF Spec, DecidedForGood, DecidedStep

OnceStep ==
  \A q \in Req : reqStatus[q] \in Granted /\ reqStatus'[q] # reqStatus[q] =>
    \E s \in Session : about[s] = q /\ phase[s] \in {"warehouse", "cancel"} /\ phase'[s] = "idle"

LEMMA OnceKept == Good /\ [Next]_vars => OnceStep
<1> SUFFICES ASSUME Good, [Next]_vars, NEW q \in Req, reqStatus[q] \in Granted, reqStatus'[q] # reqStatus[q]
             PROVE  \E s \in Session : about[s] = q /\ phase[s] \in {"warehouse", "cancel"} /\ phase'[s] = "idle"
  BY DEF OnceStep
<1>0. /\ DOMAIN reqStatus = Req /\ DOMAIN phase = Session
      /\ reqStatus[q] # "absent" /\ reqStatus[q] # "pending_director"
  BY DEF Good, TypeOK, Granted
<1>1. ASSUME NEW s \in Session, NEW n \in 0..MaxQty, WarehouseAction(s, n)
      PROVE  about[s] = q /\ phase[s] = "warehouse" /\ phase'[s] = "idle"
  BY <1>0, <1>1 DEF WarehouseAction, End
<1>2. ASSUME NEW s \in Session, Cancel(s)
      PROVE  about[s] = q /\ phase[s] = "cancel" /\ phase'[s] = "idle"
  BY <1>0, <1>2 DEF Cancel, End
<1>3. ASSUME NEW s \in Session, NEW n \in Quantity, Override(s, n) PROVE FALSE
  BY <1>0, <1>3 DEF Override, StillWaits
<1>4. ASSUME NEW s \in Session, Approve(s) \/ Reject(s) PROVE FALSE
  BY <1>0, <1>4 DEF Approve, Reject, StillWaits
<1>5. ASSUME NEW x \in Req, NEW n \in Quantity, Create(x, n) PROVE FALSE
  BY <1>0, <1>5 DEF Create
<1> QED
  BY <1>1, <1>2, <1>3, <1>4, <1>5
  DEF Next, vars, rowVars, BeginWarehouse, BeginDirector, BeginCancel, Begin, Refuse

\* In every interleaving, a granted request leaves its status only by a late
\* decision of the warehouse or a late cancellation: the management's own decision,
\* taken under the lock, is taken once.
THEOREM DecidesOnce == Spec => ManagementDecidesOnce
<1>1. Good /\ [Next]_vars => OnceStep
  BY OnceKept
<1> QED
  BY <1>1, InitGood, NextGood, PTL DEF Spec, ManagementDecidesOnce, OnceStep

-----------------------------------------------------------------------------
(* Operations cases *)

USE CasesAssumption

GoodCase ==
  /\ CasesTypeOK
  /\ EditsInvariant /\ CasesInvariant /\ FormsInvariant
  /\ SnapshotTellsRevision /\ ShippedHasLeftStock /\ ProducedOncePerRevision

\* At first there is no case, no edit and no form.
LEMMA CasesStart == ASSUME CasesInit PROVE GoodCase
<1>1. (CHOOSE p \in Priority : TRUE) \in Priority
  OBVIOUS
<1>2. CasesTypeOK
  <2> USE <1>1 DEF CasesInit, SalesStatus, CaseStatus
  <2>1. 1 \in 1..MaxRevision /\ 1 \in 1..MaxVersion
    OBVIOUS
  <2>2. priority \in [Case -> Priority] /\ formPriority \in [Form -> Priority]
    OBVIOUS
  <2>3. /\ number \in [Case -> 1..MaxVersion] /\ version \in [Case -> 1..MaxVersion]
        /\ formVersion \in [Form -> 1..MaxVersion] /\ aboutRevision \in [Case -> 1..MaxRevision]
        /\ base \in [Edit -> 1..MaxRevision] /\ revision \in 1..MaxRevision
    BY <2>1
  <2>4. /\ state \in [Case -> CaseStatus] /\ formState \in [Form -> CaseStatus]
        /\ editPhase \in [Edit -> {"idle", "read"}] /\ from \in [Edit -> SalesStatus]
        /\ formCase \in [Form -> Case \cup {NoCase}] /\ linked \in [Case -> BOOLEAN]
    OBVIOUS
  <2>5. produced \in [Case -> [Line -> Nat]]
    OBVIOUS
  <2>6. /\ snapshot \in [Case -> SUBSET Line] /\ kept \in [Edit -> SUBSET Line]
        /\ recorded \in [Case -> SUBSET (1..MaxVersion)]
    OBVIOUS
  <2>7. /\ sales \in SalesStatus /\ lines \subseteq Line /\ posted \subseteq Line
        /\ asks \subseteq Valid /\ raced \in BOOLEAN /\ known \subseteq Line
    OBVIOUS
  <2> QED
    BY <2>2, <2>3, <2>4, <2>5, <2>6, <2>7 DEF CasesTypeOK
<1>3. /\ EditsInvariant /\ SnapshotTellsRevision /\ ShippedHasLeftStock
  BY DEF CasesInit, EditsInvariant, SnapshotTellsRevision, ShippedHasLeftStock,
     Exists, Committed
<1>4. CasesInvariant /\ FormsInvariant /\ ProducedOncePerRevision
  BY DEF CasesInit, CasesInvariant, FormsInvariant, ProducedOncePerRevision, Exists
<1> QED
  BY <1>2, <1>3, <1>4 DEF GoodCase

\* An edit that writes over no other one has read the order as it is, and nobody
\* has read the order as this edit leaves it.
LEMMA WroteAlone ==
  ASSUME GoodCase, NEW r \in Edit, NEW n \in {1, 2}, NEW D, Written(r, n, D), ~raced'
  PROVE  /\ ~raced /\ revision' > revision
         /\ from[r] = sales /\ sales # "pending_approval" /\ asks = {} /\ kept[r] = lines
         /\ \A e \in Edit : base'[e] < revision'
<1> USE DEF GoodCase, CasesTypeOK, EditsInvariant, Written
<1>1. ~raced /\ base[r] = revision /\ revision' = revision + n
  OBVIOUS
<1>2. base' = [base EXCEPT ![r] = 1]
  BY DEF Free
<1>3. \A e \in Edit : base'[e] < revision'
  BY <1>1, <1>2
<1>4. asks = {}
  BY <1>1
<1> QED
  BY <1>1, <1>3, <1>4

\* What an edit writes of the order's lines, stock, status and approvals.
LEMMA WrittenKeeps ==
  ASSUME GoodCase, NEW r \in Edit, NEW n \in {1, 2}, NEW D, Written(r, n, D),
         lines' \subseteq Line, posted' \subseteq Line,
         sales' \in SalesStatus, asks' \subseteq Valid,
         ~raced' =>
           /\ asks' # {} => sales' = "pending_approval"
           /\ \A st, other \in asks' : st = other
           /\ \A st \in asks' \cup {sales'} : Committed(st) => lines' \subseteq posted'
  PROVE  GoodCase'
<1>1. CasesTypeOK'
  <2> USE DEF GoodCase, CasesTypeOK
  <2>1. revision' \in 1..MaxRevision /\ raced' \in BOOLEAN
    BY DEF Written
  <2>2. base' \in [Edit -> 1..MaxRevision]
    BY DEF Written, Free
  <2>3. /\ editPhase' \in [Edit -> {"idle", "read"}] /\ from' \in [Edit -> SalesStatus]
        /\ kept' \in [Edit -> SUBSET Line]
    BY DEF Written, Free, SalesStatus
  <2> QED
    BY <2>1, <2>2, <2>3 DEF Written, caseVars, contentVars, conversionVars, formVars
<1>2. UNCHANGED <<caseVars, formVars>>
  BY DEF Written
<1>3. EditsInvariant' /\ ShippedHasLeftStock'
  BY <1>1, WroteAlone DEF GoodCase, CasesTypeOK, EditsInvariant, ShippedHasLeftStock
<1>4. CasesInvariant' /\ SnapshotTellsRevision'
  BY <1>1, <1>2, WroteAlone DEF GoodCase, CasesTypeOK, CasesInvariant, SnapshotTellsRevision,
     Exists, caseVars, contentVars, conversionVars
<1>5. FormsInvariant' /\ ProducedOncePerRevision'
  BY <1>2 DEF GoodCase, FormsInvariant, ProducedOncePerRevision,
     Exists, caseVars, contentVars, conversionVars, formVars
<1> QED
  BY <1>1, <1>3, <1>4, <1>5 DEF GoodCase

\* The order takes a status for which its stock is posted, or asks for it.
LEMMA EnterKeeps ==
  ASSUME GoodCase, NEW r \in Edit, NEW st \in SalesStatus, NEW D,
         Enter(from[r], st, 1, r, D),
         lines' \subseteq Line, posted' \subseteq Line,
         ~raced /\ from[r] = sales /\ kept[r] = lines /\ Committed(st) => lines' \subseteq posted'
  PROVE  GoodCase'
<1>1. CASE sales' = st /\ asks' = asks /\ Written(r, 1, D)
  BY <1>1, WroteAlone, WrittenKeeps DEF GoodCase, CasesTypeOK
<1>2. CASE /\ st \in Valid
           /\ sales' = "pending_approval" /\ asks' = asks \cup {st} /\ Written(r, 2, D)
  <2>1. asks' \subseteq Valid /\ sales' \in SalesStatus
    BY <1>2 DEF GoodCase, CasesTypeOK, SalesStatus
  <2>2. ASSUME ~raced'
        PROVE  /\ asks' = {st} /\ sales' = "pending_approval"
               /\ Committed(st) => lines' \subseteq posted'
    BY <1>2, <2>2, WroteAlone
  <2>3. ~Committed("pending_approval")
    BY DEF Committed
  <2>4. ~raced' =>
          /\ asks' # {} => sales' = "pending_approval"
          /\ \A x, other \in asks' : x = other
          /\ \A x \in asks' \cup {sales'} : Committed(x) => lines' \subseteq posted'
    BY <2>2, <2>3
  <2> QED
    BY <1>2, <2>1, <2>4, WrittenKeeps
<1> QED
  BY <1>1, <1>2 DEF Enter

\* An edit of the sales order, from its read to its write or refusal.
LEMMA EditsKeep ==
  ASSUME GoodCase, NEW r \in Edit,
         \/ EditRead(r) \/ RefuseEdit(r)
         \/ \E st \in SalesStatus :
              EditStatus(r, st) \/ \E N \in SUBSET Line : EditLines(r, st, N)
         \/ \E l \in Line : AddLine(r, l) \/ DropLine(r, l)
  PROVE  GoodCase'
<1> USE DEF GoodCase, CasesTypeOK
<1>1. CASE EditRead(r) \/ RefuseEdit(r)
  <2>1. UNCHANGED <<salesVars, known, caseVars, formVars>>
    BY <1>1 DEF EditRead, RefuseEdit
  <2>2. /\ editPhase' \in [Edit -> {"idle", "read"}] /\ from' \in [Edit -> SalesStatus]
        /\ kept' \in [Edit -> SUBSET Line] /\ base' \in [Edit -> 1..MaxRevision]
    <3>1. 1 \in 1..MaxRevision /\ "draft" \in SalesStatus
      BY DEF SalesStatus
    <3>2. CASE EditRead(r)
      BY <3>2 DEF EditRead
    <3>3. CASE RefuseEdit(r)
      BY <3>1, <3>3 DEF RefuseEdit, Free
    <3> QED
      BY <1>1, <3>2, <3>3
  <2>3. EditsInvariant'
    <3>1. ASSUME ~raced, NEW e \in Edit PROVE base'[e] <= revision
      BY <1>1, <3>1 DEF EditRead, RefuseEdit, Free, EditsInvariant
    <3>2. ASSUME ~raced, NEW e \in Edit, editPhase'[e] = "read", base'[e] = revision
          PROVE  from'[e] = sales /\ sales # "pending_approval" /\ kept'[e] = lines
      BY <1>1, <3>2 DEF EditRead, RefuseEdit, Free, EditsInvariant
    <3> QED
      BY <2>1, <3>1, <3>2 DEF EditsInvariant, salesVars
  <2>4. /\ CasesInvariant' /\ FormsInvariant'
        /\ SnapshotTellsRevision' /\ ShippedHasLeftStock' /\ ProducedOncePerRevision'
    BY <2>1 DEF CasesInvariant, FormsInvariant, SnapshotTellsRevision,
       ShippedHasLeftStock, ProducedOncePerRevision, Exists,
       salesVars, caseVars, contentVars, conversionVars, formVars
  <2>5. CasesTypeOK'
    BY <2>1, <2>2 DEF salesVars, caseVars, contentVars, conversionVars, formVars
  <2> QED
    BY <2>3, <2>4, <2>5
<1>2. ASSUME NEW st \in SalesStatus, EditStatus(r, st)
      PROVE  GoodCase'
  <2>1. lines' = lines /\ posted' \subseteq Line
    BY <1>2 DEF EditStatus
  <2>2. ~raced /\ from[r] = sales /\ kept[r] = lines /\ Committed(st) => lines' \subseteq posted'
    BY <1>2 DEF EditStatus, ShippedHasLeftStock
  <2> QED
    BY <1>2, <2>1, <2>2, EnterKeeps DEF EditStatus
<1>3. ASSUME NEW st \in SalesStatus, NEW N \in SUBSET Line, EditLines(r, st, N)
      PROVE  GoodCase'
  BY <1>3, EnterKeeps DEF EditLines
<1>4. ASSUME NEW l \in Line, AddLine(r, l)
      PROVE  GoodCase'
  BY <1>4, WroteAlone, WrittenKeeps DEF AddLine, ShippedHasLeftStock
<1>5. ASSUME NEW l \in Line, DropLine(r, l)
      PROVE  GoodCase'
  BY <1>5, WroteAlone, WrittenKeeps DEF DropLine, ShippedHasLeftStock
<1> QED
  BY <1>1, <1>2, <1>3, <1>4, <1>5

\* A handler of a case that exists counts its version and leaves the other cases.
LEMMA StepKeeps ==
  ASSUME GoodCase, NEW c \in Case, NEW st \in CaseStatus \ {"none"},
         Step(c, st), Exists(c), state[c] # "converted",
         priority' \in [Case -> Priority], \A d \in Case \ {c} : priority'[d] = priority[d],
         UNCHANGED formVars,
         \/ st # "converted" /\ UNCHANGED conversionVars
         \/ /\ st = "converted" /\ linked' = [linked EXCEPT ![c] = TRUE]
            /\ produced' = [produced EXCEPT ![c] = [l \in Line |-> IF l \in snapshot[c] THEN @[l] + 1 ELSE @[l]]]
  PROVE  GoodCase'
<1> USE DEF GoodCase, CasesTypeOK
<1>1. UNCHANGED <<salesVars, editVars, known, aboutRevision, snapshot>>
  BY DEF Step
<1>2. /\ number[c] = version[c] /\ version[c] + 1 \in 1..MaxVersion
      /\ recorded[c] = 1..number[c]
  BY DEF Step, CasesInvariant
<1>3. /\ state' \in [Case -> CaseStatus]
      /\ number' \in [Case -> 1..MaxVersion] /\ version' \in [Case -> 1..MaxVersion]
      /\ recorded' \in [Case -> SUBSET (1..MaxVersion)]
      /\ linked' \in [Case -> BOOLEAN]
  <2>1. state' \in [Case -> CaseStatus] /\ linked' \in [Case -> BOOLEAN]
    BY DEF Step, conversionVars
  <2>2. number' \in [Case -> 1..MaxVersion] /\ version' \in [Case -> 1..MaxVersion]
    BY <1>2 DEF Step
  <2>3. recorded' = [recorded EXCEPT ![c] = @ \cup {number[c] + 1}] /\ number[c] + 1 \in 1..MaxVersion
    BY <1>2 DEF Step
  <2> QED
    BY <2>1, <2>2, <2>3
<1>4. produced' \in [Case -> [Line -> Nat]]
  <2>1. [l \in Line |-> IF l \in snapshot[c] THEN produced[c][l] + 1 ELSE produced[c][l]] \in [Line -> Nat]
    <3>1. produced[c] \in [Line -> Nat]
      OBVIOUS
    <3>2. \A l \in Line : produced[c][l] \in Nat /\ produced[c][l] + 1 \in Nat
      BY <3>1
    <3> QED
      BY <3>2
  <2>2. CASE UNCHANGED conversionVars
    BY <2>2 DEF conversionVars
  <2>3. CASE produced' = [produced EXCEPT ![c] = [l \in Line |-> IF l \in snapshot[c] THEN @[l] + 1 ELSE @[l]]]
    BY <2>1, <2>3
  <2> QED
    BY <2>2, <2>3
<1>5. CasesTypeOK'
  BY <1>1, <1>3, <1>4 DEF salesVars, editVars, formVars
<1>6. /\ \A d \in Case \ {c} : /\ state'[d] = state[d] /\ number'[d] = number[d] /\ version'[d] = version[d]
                               /\ recorded'[d] = recorded[d] /\ linked'[d] = linked[d]
                               /\ produced'[d] = produced[d]
      /\ state'[c] = st /\ number'[c] = number[c] + 1 /\ version'[c] = version[c] + 1
      /\ recorded'[c] = recorded[c] \cup {number[c] + 1}
  BY DEF Step, conversionVars
<1>7. \A d \in Case : Exists(d)' <=> Exists(d)
  BY <1>6 DEF Exists
<1>8. EditsInvariant' /\ ShippedHasLeftStock'
  BY <1>1 DEF EditsInvariant, ShippedHasLeftStock, salesVars, editVars
<1>9. SnapshotTellsRevision'
  BY <1>1, <1>7 DEF SnapshotTellsRevision, salesVars
<1>10. CasesInvariant'
  <2>1. linked'[c] <=> state'[c] = "converted"
    BY <1>6 DEF CasesInvariant, conversionVars
  <2>2. recorded'[c] = 1..number'[c]
    BY <1>2, <1>6
  <2>3. \A d \in Case : Exists(d) /\ ~raced => aboutRevision[d] <= revision
    BY DEF CasesInvariant
  <2> QED
    BY <1>1, <1>2, <1>6, <1>7, <2>1, <2>2, <2>3 DEF CasesInvariant, salesVars
<1>11. FormsInvariant'
  BY <1>6, <1>7 DEF FormsInvariant, formVars
<1>12. ProducedOncePerRevision'
  <2>1. \A l \in Line : produced'[c][l] = IF st = "converted" /\ l \in snapshot[c] THEN 1 ELSE 0
    BY DEF ProducedOncePerRevision, conversionVars
  <2> QED
    BY <1>1, <1>6, <1>7, <2>1 DEF ProducedOncePerRevision
<1> QED
  BY <1>5, <1>8, <1>9, <1>10, <1>11, <1>12

\* The handlers of a case are such steps.
LEMMA HandlersKeep ==
  ASSUME GoodCase, NEW c \in Case,
         \/ StartValidation(c) \/ CompleteValidation(c)
         \/ RequestClarification(c) \/ ResumeValidation(c)
         \/ Convert(c)
         \/ \E k \in Form, p \in Priority : formCase[k] = c /\ SaveForm(k, p)
  PROVE  GoodCase'
<1> USE DEF GoodCase, CasesTypeOK
<1>1. ASSUME NEW A \in SUBSET {"received", "under_validation", "needs_sales_clarification"},
             NEW st \in {"under_validation", "analysis_ready", "needs_sales_clarification"},
             Move(c, A, st)
      PROVE  GoodCase'
  BY <1>1, StepKeeps DEF Move, Exists, CaseStatus
<1>2. CASE Convert(c)
  BY <1>2, StepKeeps DEF Convert, Exists, CaseStatus
<1>3. ASSUME NEW k \in Form, NEW p \in Priority, formCase[k] = c, SaveForm(k, p)
      PROVE  GoodCase'
  <2>1. Exists(c) /\ c # NoCase
    BY <1>3 DEF FormsInvariant, SaveForm
  <2>2. /\ Step(c, state[c]) /\ state[c] # "converted"
        /\ priority' = [priority EXCEPT ![c] = p]
        /\ UNCHANGED <<conversionVars, formVars>>
    BY <1>3 DEF SaveForm
  <2> QED
    BY <2>1, <2>2, StepKeeps DEF Exists
<1> QED
  BY <1>1, <1>2, <1>3 DEF StartValidation, CompleteValidation,
     RequestClarification, ResumeValidation

\* The order is taken over as it is, for a revision that has no case.
LEMMA IntakeKeeps ==
  ASSUME GoodCase, NEW c \in Case, NEW n \in 1..MaxRevision, NEW p \in Priority,
         Intake(c, n, p)
  PROVE  GoodCase'
<1> USE DEF GoodCase, CasesTypeOK
<1>1. UNCHANGED <<salesVars, editVars, known, conversionVars, formVars>>
  BY DEF Intake
<1>2. /\ state' = [state EXCEPT ![c] = "received"] /\ aboutRevision' = [aboutRevision EXCEPT ![c] = n]
      /\ snapshot' = [snapshot EXCEPT ![c] = lines] /\ priority' = [priority EXCEPT ![c] = p]
      /\ number' = [number EXCEPT ![c] = 1] /\ version' = [version EXCEPT ![c] = 1]
      /\ recorded' = [recorded EXCEPT ![c] = {1}]
      /\ state[c] = "none" /\ n = revision
      /\ \A d \in Case : state[d] = "none" \/ aboutRevision[d] # n
  BY DEF Intake
<1>3. 1 \in 1..MaxVersion /\ "received" \in CaseStatus
  BY DEF CaseStatus
<1>4. CasesTypeOK'
  BY <1>1, <1>2, <1>3 DEF salesVars, editVars, conversionVars, formVars
<1>5. EditsInvariant' /\ ShippedHasLeftStock'
  BY <1>1 DEF EditsInvariant, ShippedHasLeftStock, salesVars, editVars
<1>6. \A d \in Case : Exists(d)' <=> Exists(d) \/ d = c
  BY <1>2 DEF Exists
<1>7. SnapshotTellsRevision'
  BY <1>1, <1>2, <1>6 DEF SnapshotTellsRevision, salesVars
<1>8. CasesInvariant'
  <2>1. {1} = 1..1
    OBVIOUS
  <2>2. /\ number'[c] = version'[c] /\ recorded'[c] = 1..number'[c] /\ aboutRevision'[c] = revision'
        /\ linked'[c] <=> state'[c] = "converted"
    BY <1>1, <1>2, <2>1 DEF CasesInvariant, salesVars, conversionVars
  <2>3. ASSUME NEW d \in Case \ {c}
        PROVE  /\ number'[d] = number[d] /\ version'[d] = version[d] /\ recorded'[d] = recorded[d]
               /\ aboutRevision'[d] = aboutRevision[d] /\ linked'[d] = linked[d] /\ state'[d] = state[d]
    BY <1>1, <1>2 DEF conversionVars
  <2>4. revision' = revision /\ raced' = raced
    BY <1>1 DEF salesVars
  <2>5. ASSUME NEW d \in Case \ {c}
        PROVE  /\ number'[d] = version'[d]
               /\ Exists(d)' => recorded'[d] = 1..number'[d]
               /\ Exists(d)' /\ ~raced' => aboutRevision'[d] <= revision'
               /\ linked'[d] <=> state'[d] = "converted"
    BY <1>6, <2>3, <2>4 DEF CasesInvariant
  <2>6. revision' <= revision'
    BY <2>4
  <2> QED
    BY <2>2, <2>5, <2>6 DEF CasesInvariant, Exists
<1>9. FormsInvariant'
  <2>1. \A k \in Form : formCase[k] # c \/ formCase[k] = NoCase
    BY <1>2 DEF FormsInvariant, Exists
  <2> QED
    BY <1>1, <1>2, <1>6, <2>1 DEF FormsInvariant, formVars
<1>10. ProducedOncePerRevision'
  BY <1>1, <1>2, <1>6 DEF ProducedOncePerRevision, Exists, conversionVars
<1> QED
  BY <1>4, <1>5, <1>7, <1>8, <1>9, <1>10

\* A decision, a change of the recipes, and a form that is opened.
LEMMA OthersKeep ==
  ASSUME GoodCase,
         \/ \E st \in SalesStatus, ok \in BOOLEAN : Decide(st, ok)
         \/ \E S \in SUBSET Line : Recipes(S)
         \/ \E k \in Form, c \in Case : OpenForm(k, c)
  PROVE  GoodCase'
<1> USE DEF GoodCase, CasesTypeOK
<1>1. ASSUME NEW st \in SalesStatus, NEW ok \in BOOLEAN, Decide(st, ok)
      PROVE  GoodCase'
  <2>1. /\ st \in asks /\ asks' \subseteq asks /\ sales' = IF ok THEN st ELSE "cancelled"
        /\ UNCHANGED <<revision, lines, posted, raced, editVars, known, caseVars, formVars>>
    BY <1>1 DEF Decide
  <2>2. CasesTypeOK'
    BY <2>1 DEF SalesStatus, editVars, caseVars, contentVars, conversionVars, formVars
  <2>3. EditsInvariant'
    <3>1. ASSUME ~raced
          PROVE  asks' = {} /\ sales = "pending_approval"
      BY <1>1, <2>1, <3>1 DEF Decide, EditsInvariant
    <3> QED
      BY <2>1, <3>1 DEF EditsInvariant, editVars
  <2>4. ShippedHasLeftStock'
    BY <2>1 DEF EditsInvariant, ShippedHasLeftStock, Committed
  <2>5. /\ CasesInvariant' /\ FormsInvariant'
        /\ SnapshotTellsRevision' /\ ProducedOncePerRevision'
    BY <2>1 DEF CasesInvariant, FormsInvariant, SnapshotTellsRevision,
       ProducedOncePerRevision, Exists,
       caseVars, contentVars, conversionVars, formVars
  <2> QED
    BY <2>2, <2>3, <2>4, <2>5
<1>2. ASSUME NEW S \in SUBSET Line, Recipes(S)
      PROVE  GoodCase'
  BY <1>2 DEF Recipes, EditsInvariant, CasesInvariant, FormsInvariant,
     SnapshotTellsRevision, ShippedHasLeftStock, ProducedOncePerRevision, Exists,
     salesVars, editVars, caseVars, contentVars, conversionVars, formVars
<1>3. ASSUME NEW k \in Form, NEW c \in Case, OpenForm(k, c)
      PROVE  GoodCase'
  <2>1. UNCHANGED <<salesVars, editVars, known, caseVars>>
    BY <1>3 DEF OpenForm
  <2>2. CasesTypeOK'
    BY <1>3, <2>1 DEF OpenForm, salesVars, editVars, caseVars, contentVars, conversionVars
  <2>3. FormsInvariant'
    <3>1. UNCHANGED <<state, version, priority>>
      BY <2>1 DEF caseVars, contentVars
    <3>2. /\ formCase'[k] = c /\ formVersion'[k] = version[c] /\ Exists(c)
          /\ formState'[k] = state[c] /\ formPriority'[k] = priority[c] /\ version[c] \in Nat
      BY <1>3 DEF OpenForm, Exists
    <3>3. ASSUME NEW j \in Form \ {k}
          PROVE  /\ formCase'[j] = formCase[j] /\ formVersion'[j] = formVersion[j]
                 /\ formState'[j] = formState[j] /\ formPriority'[j] = formPriority[j]
      BY <1>3 DEF OpenForm
    <3>4. \A d : Exists(d)' <=> Exists(d)
      BY <3>1 DEF Exists
    <3> QED
      BY <3>1, <3>2, <3>3, <3>4 DEF FormsInvariant
  <2>4. /\ EditsInvariant' /\ CasesInvariant'
        /\ SnapshotTellsRevision' /\ ShippedHasLeftStock' /\ ProducedOncePerRevision'
    BY <2>1 DEF EditsInvariant, CasesInvariant, SnapshotTellsRevision,
       ShippedHasLeftStock, ProducedOncePerRevision, Exists,
       salesVars, editVars, caseVars, contentVars, conversionVars
  <2> QED
    BY <2>2, <2>3, <2>4
<1> QED
  BY <1>1, <1>2, <1>3

LEMMA CasesStep ==
  ASSUME GoodCase, [CasesNext]_casesVars
  PROVE  GoodCase'
<1>1. CASE UNCHANGED casesVars
  BY <1>1 DEF GoodCase, CasesTypeOK, EditsInvariant, CasesInvariant, FormsInvariant,
     SnapshotTellsRevision, ShippedHasLeftStock, ProducedOncePerRevision, Exists,
     casesVars, salesVars, editVars, caseVars, contentVars, conversionVars, formVars
<1>2. ASSUME NEW k \in Form, NEW p \in Priority, SaveForm(k, p)
      PROVE  GoodCase'
  <2>1. formCase[k] \in Case
    BY <1>2 DEF SaveForm, GoodCase, CasesTypeOK
  <2> QED
    BY <1>2, <2>1, HandlersKeep
<1> QED
  BY <1>1, <1>2, EditsKeep, HandlersKeep, IntakeKeeps, OthersKeep DEF CasesNext

\* The inductive invariant of the operations cases, for any cases, lines, edits and forms.
LEMMA CasesCorrect == CasesSpec => []GoodCase
<1>1. CasesInit => GoodCase
  BY CasesStart
<1>2. GoodCase /\ [CasesNext]_casesVars => GoodCase'
  BY CasesStep
<1> QED
  BY <1>1, <1>2, PTL DEF CasesSpec

\* Every value the order, its edits, the cases and the forms take has its type.
THEOREM CaseTypes == CasesSpec => []CasesTypeOK
<1>1. GoodCase => CasesTypeOK
  BY DEF GoodCase
<1> QED
  BY <1>1, CasesCorrect, PTL

\* As long as no edit of the sales order wrote over another, the case of its current
\* revision says what the order says (receiveSalesOrderIntoOperations).
THEOREM CaseTellsRevision == CasesSpec => []SnapshotTellsRevision
<1>1. GoodCase => SnapshotTellsRevision
  BY DEF GoodCase
<1> QED
  BY <1>1, CasesCorrect, PTL

\* As long as no edit wrote over another, a shipped order has a movement for each of
\* its lines, whichever way it came to be shipped (computeStockAndBalanceEffects).
THEOREM ShippedIsPosted == CasesSpec => []ShippedHasLeftStock
<1>1. GoodCase => ShippedHasLeftStock
  BY DEF GoodCase
<1> QED
  BY <1>1, CasesCorrect, PTL

\* A revision has one case, and a case makes one production order for each of its
\* lines when it is converted, and none before or after.
THEOREM ProducedOnce == CasesSpec => []ProducedOncePerRevision
<1>1. GoodCase => ProducedOncePerRevision
  BY DEF GoodCase
<1> QED
  BY <1>1, CasesCorrect, PTL

\* The details of a case are written over only from a form that shows the case as it
\* is: its version, which every handler counts, has not moved since.
THEOREM SavedFromLatest == CasesSpec => EditsSeeLatest
<1> DEFINE Seen == \A c \in Case : Exists(c) /\ priority'[c] # priority[c] =>
             \E k \in Form : formCase[k] = c /\ formState[k] = state[c] /\ formPriority[k] = priority[c]
<1>1. ASSUME GoodCase, [CasesNext]_casesVars PROVE Seen
  <2> USE <1>1 DEF GoodCase, CasesTypeOK
  <2>1. ASSUME NEW k \in Form, NEW p \in Priority, SaveForm(k, p) PROVE Seen
    BY <2>1 DEF SaveForm, FormsInvariant
  <2>2. ASSUME NEW c \in Case, NEW n \in 1..MaxRevision, NEW p \in Priority, Intake(c, n, p) PROVE Seen
    BY <2>2 DEF Intake, Exists
  <2>3. ASSUME priority' = priority PROVE Seen
    BY <2>3
  <2>4. ASSUME NEW r \in Edit, EditRead(r) \/ RefuseEdit(r) PROVE priority' = priority
    BY <2>4 DEF EditRead, RefuseEdit, caseVars, contentVars
  <2>5. ASSUME NEW r \in Edit, NEW n, NEW D, Written(r, n, D) PROVE priority' = priority
    BY <2>5 DEF Written, caseVars, contentVars
  <2>6. ASSUME NEW r \in Edit, NEW st \in SalesStatus,
               EditStatus(r, st) \/ \E N \in SUBSET Line : EditLines(r, st, N)
        PROVE  priority' = priority
    BY <2>5, <2>6 DEF EditStatus, EditLines, Enter
  <2>7. ASSUME NEW r \in Edit, NEW l \in Line, AddLine(r, l) \/ DropLine(r, l)
        PROVE  priority' = priority
    BY <2>5, <2>7 DEF AddLine, DropLine
  <2>8. ASSUME NEW c \in Case,
               \/ StartValidation(c) \/ CompleteValidation(c)
               \/ RequestClarification(c) \/ ResumeValidation(c)
               \/ Convert(c)
        PROVE  priority' = priority
    BY <2>8 DEF StartValidation, CompleteValidation, RequestClarification,
       ResumeValidation, Move, Convert
  <2>9. ASSUME \/ \E st \in SalesStatus, ok \in BOOLEAN : Decide(st, ok)
               \/ \E S \in SUBSET Line : Recipes(S)
               \/ \E k \in Form, c \in Case : OpenForm(k, c)
               \/ UNCHANGED casesVars
        PROVE  priority' = priority
    BY <2>9 DEF Decide, Recipes, OpenForm, casesVars, caseVars, contentVars
  <2> HIDE DEF Seen, GoodCase, CasesTypeOK
  <2> QED
    BY <1>1, <2>1, <2>2, <2>3, <2>4, <2>6, <2>7, <2>8, <2>9 DEF CasesNext
<1>2. [][Seen]_casesVars => EditsSeeLatest
  BY PTL DEF EditsSeeLatest
<1> QED
  BY <1>1, <1>2, CasesCorrect, PTL DEF CasesSpec
=============================================================================
