------------------------------ MODULE SalesProofs ------------------------------
(***************************************************************************)
(* The stock of a sales order follows its status, and its approval is      *)
(* signed at every step, for any number of orders, lines, approvals and    *)
(* requests.                                                               *)
(***************************************************************************)
EXTENDS SalesProperties, TLAPS, FiniteSetTheorems

Inv == TypeOK /\ SalesInvariant

LineKnows(l) ==
  IF home[l] = NoOrder THEN ~live[l] /\ held[l] = 0 /\ out[l] = 0 ELSE status[home[l]] # "absent"

LineFollows(l) ==
  home[l] # NoOrder /\ ~Raced(home[l]) =>
    /\ held[l] = If(live[l] /\ Claims(home[l], "reserved"))
    /\ out[l] = If(live[l] /\ Claims(home[l], "deducted"))

Signed(a) == appState[a] = "approved" => start[a]..Steps \subseteq signed[a]

\* The row of a request as it was.
RowKept(q) ==
  /\ phase'[q] = phase[q] /\ about'[q] = about[q] /\ from'[q] = from[q]
  /\ seen'[q] = seen[q] /\ decides'[q] = decides[q] /\ atStep'[q] = atStep[q]

\* The row of an approval as it was.
ApprovalKept(a) ==
  /\ appState'[a] = appState[a] /\ appOrder'[a] = appOrder[a] /\ appStep'[a] = appStep[a]
  /\ appOrig'[a] = appOrig[a] /\ start'[a] = start[a] /\ signed'[a] = signed[a]

\* What a step that is about the order o leaves alone of the others, and what it
\* keeps of o's own approvals.
Elsewise(o) ==
  /\ \A p \in Order \ {o} : status'[p] = status[p]
  /\ status'[o] # "absent"
  /\ \A l \in Line : home[l] # NoOrder => home'[l] = home[l]
  /\ \A l \in Line :
       home'[l] # o => home'[l] = home[l] /\ live'[l] = live[l] /\ held'[l] = held[l] /\ out'[l] = out[l]
  /\ \A a \in Approval : appOrder'[a] # o => ApprovalKept(a)
  /\ \A a \in Approval :
       appState[a] # "absent" =>
         /\ appState'[a] # "absent" /\ appOrder'[a] = appOrder[a]
         /\ start'[a] = start[a] /\ signed[a] \subseteq signed'[a]
  /\ overlaps' = overlaps

-----------------------------------------------------------------------------
(* Types *)

LEMMA CardinalityNat == \A S \in SUBSET Line : Cardinality(S) \in Nat
  BY SalesAssumption, FS_Subset, FS_CardinalityType

StockTypes ==
  /\ onHand \in Nat /\ reserved \in Nat
  /\ held \in [Line -> Int] /\ out \in [Line -> Int]
  /\ heldElsewhere \in Nat /\ outElsewhere \in Int

AppTypes ==
  /\ appState \in [Approval -> {"absent", "pending", "approved", "rejected"}]
  /\ appOrder \in [Approval -> Order \cup {NoOrder}]
  /\ appStep \in [Approval -> 1..Steps] /\ start \in [Approval -> 1..Steps]
  /\ appOrig \in [Approval -> Status]
  /\ signed \in [Approval -> SUBSET (1..Steps)]

RequestTypes ==
  /\ phase \in [Request -> {"idle", "read", "lines", "waiting", "locked", "deciding"}]
  /\ about \in [Request -> Order \cup {NoOrder}]
  /\ from \in [Request -> Status]
  /\ seen \in [Request -> SUBSET Line]
  /\ decides \in [Request -> Approval \cup {NoApproval}]
  /\ atStep \in [Request -> 1..Steps]
  /\ overlaps \in [Order -> Nat]

OrderTypes ==
  /\ status \in [Order -> Status \cup {"absent", "deleted"}]
  /\ home \in [Line -> Order \cup {NoOrder}]
  /\ live \in [Line -> BOOLEAN]

LEMMA TypesAreTypeOK ==
  /\ TypeOK => OrderTypes /\ StockTypes /\ AppTypes /\ RequestTypes
  /\ (OrderTypes /\ StockTypes /\ AppTypes /\ RequestTypes)' => TypeOK'
  BY DEF TypeOK, OrderTypes, StockTypes, AppTypes, RequestTypes

LEMMA IfInt == \A b \in BOOLEAN : If(b) \in 0..1
  BY DEF If

\* The calls on the stock keep its types, and move the lines as they say.
Moves(a, S, b, T) ==
  /\ held' = [l \in Line |-> held[l] - If(a = "reserved" /\ l \in S) + If(b = "reserved" /\ l \in T)]
  /\ out' = [l \in Line |-> out[l] - If(a = "deducted" /\ l \in S) + If(b = "deducted" /\ l \in T)]

LEMMA SettleTypes ==
  ASSUME StockTypes, NEW a, NEW b, NEW S \in SUBSET Line, NEW T \in SUBSET Line, Settle(a, S, b, T)
  PROVE  StockTypes' /\ Moves(a, S, b, T)
<1>1. Cardinality(S) \in Nat /\ Cardinality(T) \in Nat
  BY CardinalityNat
<1>2. onHand' \in Nat /\ reserved' \in Nat
  BY <1>1 DEF Settle, StockTypes
<1>3. Moves(a, S, b, T)
  BY DEF Settle, Moves
<1>4. held' \in [Line -> Int] /\ out' \in [Line -> Int]
  BY <1>3 DEF Moves, StockTypes, If
<1>5. heldElsewhere' \in Nat /\ outElsewhere' \in Int
  BY DEF Settle, StockTypes, elseVars
<1> QED
  BY <1>2, <1>3, <1>4, <1>5 DEF StockTypes

LEMMA ApplyPlanTypes ==
  ASSUME StockTypes, NEW a, NEW b, NEW S \in SUBSET Line, ApplyPlan(a, b, S)
  PROVE  StockTypes' /\ Moves(StockState(a), S, StockState(b), S)
<1>1. CASE StockState(a) = StockState(b)
  <2>1. UNCHANGED stockVars
    BY <1>1 DEF ApplyPlan
  <2>2. StockTypes'
    BY <2>1 DEF StockTypes, stockVars, elseVars
  <2>3. \A l \in Line : held[l] \in Int /\ out[l] \in Int
    BY DEF StockTypes
  <2>4. /\ held' = [l \in Line |-> held[l] - If(StockState(a) = "reserved" /\ l \in S) + If(StockState(b) = "reserved" /\ l \in S)]
        /\ out' = [l \in Line |-> out[l] - If(StockState(a) = "deducted" /\ l \in S) + If(StockState(b) = "deducted" /\ l \in S)]
    BY <1>1, <2>1, <2>3 DEF StockTypes, stockVars, If
  <2> QED
    BY <2>2, <2>4 DEF Moves
<1>2. CASE StockState(a) # StockState(b)
  <2>1. Settle(StockState(a), S, StockState(b), S)
    BY <1>2 DEF ApplyPlan
  <2>2. \A x, y : Settle(x, S, y, S) => StockTypes' /\ Moves(x, S, y, S)
    BY SettleTypes
  <2> QED
    BY <2>1, <2>2
<1> QED
  BY <1>1, <1>2

-----------------------------------------------------------------------------
(* The invariant, row by row *)

LEMMA ByRow ==
  /\ SalesInvariant =>
       /\ \A r \in Request : IF Idle(r) THEN seen[r] = {} ELSE RequestKnows(r)
       /\ \A a \in Approval : (appState[a] # "absent" => ApprovalKnows(a)) /\ Signed(a)
       /\ \A l \in Line : LineKnows(l) /\ LineFollows(l)
  /\ (/\ \A r \in Request : IF Idle(r) THEN seen[r] = {} ELSE RequestKnows(r)
      /\ \A a \in Approval : (appState[a] # "absent" => ApprovalKnows(a)) /\ Signed(a)
      /\ \A l \in Line : LineKnows(l) /\ LineFollows(l))' => SalesInvariant'
  BY DEF SalesInvariant, RequestsKnow, ApprovalsKnow, LinesKnow, StockFollowsStatus, EveryStepSigned,
         LineKnows, LineFollows, Signed

\* The rows that are not of the order o keep what they know.
LEMMA OtherLinesAndClaims ==
  ASSUME TypeOK, LinesKnow, NEW o \in Order, Elsewise(o), NEW p \in Order \ {o}
  PROVE  /\ Lines(p)' = Lines(p)
         /\ \A a \in Approval : Awaits(a, p)' <=> Awaits(a, p)
         /\ \A x : Claims(p, x)' <=> Claims(p, x)
         /\ Exists(p)' <=> Exists(p)
<1>1. p # NoOrder
  BY SalesAssumption
<1>2. \A l \in Line : (home'[l] = p /\ live'[l]) <=> (home[l] = p /\ live[l])
  BY <1>1 DEF Elsewise
<1>3. \A a \in Approval : Awaits(a, p)' <=> Awaits(a, p)
  BY DEF Elsewise, Awaits, ApprovalKept
<1>4. status'[p] = status[p]
  BY DEF Elsewise
<1>5. \A a \in Approval : Awaits(a, p) => appOrig'[a] = appOrig[a]
  BY DEF Elsewise, Awaits, ApprovalKept
<1>6. \A x : Claims(p, x)' <=> Claims(p, x)
  BY <1>3, <1>4, <1>5 DEF Claims, StockState
<1> QED
  BY <1>2, <1>3, <1>4, <1>6 DEF Lines, Exists

LEMMA OtherLines ==
  ASSUME TypeOK, SalesInvariant, NEW o \in Order, Elsewise(o), NEW l \in Line, home'[l] # o
  PROVE  LineKnows(l)' /\ LineFollows(l)'
<1>1. home'[l] = home[l] /\ live'[l] = live[l] /\ held'[l] = held[l] /\ out'[l] = out[l]
  BY DEF Elsewise
<1>2. LineKnows(l) /\ LineFollows(l)
  BY ByRow
<1>3. CASE home[l] = NoOrder
  BY <1>1, <1>2, <1>3 DEF LineKnows, LineFollows
<1>4. CASE home[l] # NoOrder
  <2>1. PICK p \in Order \ {o} : p = home[l]
    BY <1>1, <1>4 DEF TypeOK
  <2>2. home'[l] = p
    BY <1>1, <2>1
  <2>3. \A x : Claims(p, x)' <=> Claims(p, x)
    BY <2>1, OtherLinesAndClaims DEF SalesInvariant
  <2>4. status'[p] = status[p] /\ (Raced(p)' <=> Raced(p))
    BY DEF Elsewise, Raced
  <2>5. p # NoOrder
    BY SalesAssumption
  <2>6. /\ status[p] # "absent"
        /\ ~Raced(p) => /\ held[l] = If(live[l] /\ Claims(p, "reserved"))
                        /\ out[l] = If(live[l] /\ Claims(p, "deducted"))
    BY <1>2, <2>1, <2>5 DEF LineKnows, LineFollows
  <2>7. LineKnows(l)'
    BY <2>2, <2>4, <2>5, <2>6 DEF LineKnows
  <2>8. ~Raced(p)' => /\ held'[l] = If(live'[l] /\ Claims(p, "reserved")')
                     /\ out'[l] = If(live'[l] /\ Claims(p, "deducted")')
    BY <1>1, <2>3, <2>4, <2>6 DEF If
  <2>9. LineFollows(l)'
    BY <2>2, <2>8 DEF LineFollows, If, Claims, Raced, Awaits
  <2> QED
    BY <2>7, <2>9
<1> QED
  BY <1>3, <1>4

LEMMA OtherApprovals ==
  ASSUME TypeOK, SalesInvariant, NEW o \in Order, Elsewise(o), NEW a \in Approval, appOrder'[a] # o
  PROVE  (appState'[a] # "absent" => ApprovalKnows(a)') /\ Signed(a)'
<1>1. ApprovalKept(a)
  BY DEF Elsewise
<1>2. (appState[a] # "absent" => ApprovalKnows(a)) /\ Signed(a)
  BY ByRow
<1>3. Signed(a)'
  BY <1>1, <1>2 DEF ApprovalKept, Signed
<1>4. ASSUME appState'[a] # "absent"
      PROVE  ApprovalKnows(a)'
  <2>1. ApprovalKnows(a)
    BY <1>1, <1>2, <1>4 DEF ApprovalKept
  <2>2. PICK p \in Order \ {o} : p = appOrder[a]
    BY <1>1, <2>1 DEF ApprovalKnows, ApprovalKept
  <2>3. appOrder'[a] = p
    BY <1>1, <2>2 DEF ApprovalKept
  <2>4. status'[p] = status[p] /\ (Raced(p)' <=> Raced(p))
    BY DEF Elsewise, Raced
  <2>5. \A b \in Approval : Awaits(b, p)' <=> Awaits(b, p)
    BY <2>2, OtherLinesAndClaims DEF SalesInvariant
  <2> QED
    BY <1>1, <2>1, <2>2, <2>3, <2>4, <2>5 DEF ApprovalKnows, ApprovalKept, Awaits, Raced
<1> QED
  BY <1>3, <1>4

LEMMA OtherRequests ==
  ASSUME TypeOK, SalesInvariant, NEW o \in Order, Elsewise(o), NEW q \in Request, RowKept(q),
         Idle(q) \/ about[q] # o \/ Raced(o),
         \A r \in Request : Idle(r)' \/ RowKept(r)
  PROVE  IF Idle(q)' THEN seen'[q] = {} ELSE RequestKnows(q)'
<1>1. IF Idle(q) THEN seen[q] = {} ELSE RequestKnows(q)
  BY ByRow
<1>2. CASE Idle(q)
  BY <1>1, <1>2 DEF RowKept, Idle
<1>3. CASE ~Idle(q)
  <2>1. ~Idle(q)' /\ RequestKnows(q)
    BY <1>1, <1>3 DEF RowKept, Idle
  <2>2. PICK p \in Order : p = about[q]
    BY <2>1 DEF RequestKnows
  <2>3. about'[q] = p
    BY <2>2 DEF RowKept
  <2>4. status'[p] # "absent" /\ p # NoOrder
    BY <2>1, <2>2, SalesAssumption DEF RequestKnows, Elsewise
  <2>5. \A l \in seen'[q] : home'[l] = p
    BY <2>1, <2>2, <2>4 DEF RequestKnows, Elsewise, RowKept, TypeOK
  <2>6. phase'[q] = "deciding" =>
          /\ decides'[q] \in Approval /\ appState'[decides'[q]] # "absent"
          /\ appOrder'[decides'[q]] = p
          /\ start'[decides'[q]]..(atStep'[q] - 1) \subseteq signed'[decides'[q]]
    BY <2>1, <2>2 DEF RequestKnows, Elsewise, RowKept
  <2>7. ASSUME ~Raced(p)'
        PROVE  /\ \A r \in Request : ~Idle(r)' /\ about'[r] = p => r = q
               /\ phase'[q] = "deciding" => Awaits(decides[q], p)'
               /\ phase'[q] # "deciding" => from'[q] = status'[p] /\ Exists(p)'
               /\ phase'[q] \in {"lines", "waiting", "locked"} => seen'[q] = Lines(p)'
    <3>1. ~Raced(p) /\ p # o
      BY <1>3, <2>2, <2>7 DEF Elsewise, Raced
    <3>2. /\ \A a \in Approval : Awaits(a, p)' <=> Awaits(a, p)
          /\ Lines(p)' = Lines(p) /\ (Exists(p)' <=> Exists(p))
      BY <3>1, OtherLinesAndClaims DEF SalesInvariant
    <3>3. status'[p] = status[p]
      BY <3>1 DEF Elsewise
    <3>4. /\ \A r \in Request : ~Idle(r) /\ about[r] = p => r = q
          /\ phase[q] = "deciding" => Awaits(decides[q], p)
          /\ phase[q] # "deciding" => from[q] = status[p] /\ Exists(p)
          /\ phase[q] \in {"lines", "waiting", "locked"} => seen[q] = Lines(p)
      BY <2>1, <2>2, <3>1 DEF RequestKnows
    <3>5. \A r \in Request : ~Idle(r)' /\ about'[r] = p => r = q
      BY <3>4 DEF RowKept, Idle
    <3>6. phase[q] = "deciding" => Awaits(decides[q], p)'
      BY <2>1, <3>2, <3>4 DEF RequestKnows, Awaits, RowKept
    <3> QED
      BY <3>2, <3>3, <3>4, <3>5, <3>6 DEF RowKept, Exists, Lines
  <2> QED
    BY <2>1, <2>3, <2>4, <2>5, <2>6, <2>7 DEF RequestKnows, RowKept, Awaits, Exists, Lines, Raced, Idle
<1> QED
  BY <1>2, <1>3

-----------------------------------------------------------------------------
(* What the steps have in common *)

LEMMA Ends ==
  ASSUME TypeOK, NEW r \in Request, End(r)
  PROVE  /\ RequestTypes' /\ overlaps' = overlaps
         /\ Idle(r)' /\ seen'[r] = {}
         /\ \A q \in Request \ {r} : RowKept(q)
<1>1. "draft" \in Status /\ 1 \in 1..Steps
  BY SalesAssumption DEF Status
<1>2. RequestTypes'
  BY <1>1 DEF TypeOK, RequestTypes, End
<1> QED
  BY <1>2 DEF End, TypeOK, Idle, RowKept

\* A request that ends leaves the others with what they know.
LEMMA EndKnows ==
  ASSUME TypeOK, SalesInvariant, NEW r \in Request, ~Idle(r),
         NEW o \in Order, o = about[r], Elsewise(o), End(r)
  PROVE  \A q \in Request : IF Idle(q)' THEN seen'[q] = {} ELSE RequestKnows(q)'
<1>1. RequestKnows(r)
  BY ByRow
<1>2. /\ Idle(r)' /\ seen'[r] = {}
      /\ \A q \in Request \ {r} : RowKept(q)
  BY Ends
<1> SUFFICES ASSUME NEW q \in Request, q # r
             PROVE  IF Idle(q)' THEN seen'[q] = {} ELSE RequestKnows(q)'
  BY <1>2
<1>3. Idle(q) \/ about[q] # o \/ Raced(o)
  BY <1>1 DEF RequestKnows
<1>4. \A p \in Request : Idle(p)' \/ RowKept(p)
  BY <1>2
<1> QED
  BY <1>2, <1>3, <1>4, OtherRequests

\* An order that nobody raced for and that does not wait is claimed by its status.
LEMMA NotAwaited ==
  ASSUME TypeOK, SalesInvariant, NEW o \in Order, ~Raced(o), status[o] # "pending_approval"
  PROVE  /\ \A a \in Approval : ~Awaits(a, o)
         /\ \A x : Claims(o, x) <=> StockState(status[o]) = x
<1>1. \A a \in Approval : ~Awaits(a, o)
  BY ByRow DEF ApprovalKnows, Awaits
<1> QED
  BY <1>1 DEF Claims

AppKept(o) ==
  /\ \A a \in Approval : appOrder'[a] # o => ApprovalKept(a)
  /\ \A a \in Approval :
       appState[a] # "absent" =>
         /\ appState'[a] # "absent" /\ appOrder'[a] = appOrder[a]
         /\ start'[a] = start[a] /\ signed[a] \subseteq signed'[a]

\* An order that enters a status, or waits for it, claims what the status says.
LEMMA Enters ==
  ASSUME TypeOK, SalesInvariant, NEW o \in Order, NEW st \in Status, NEW b, Enter(o, st, b),
         overlaps' = overlaps, ~Raced(o) => status[o] # "pending_approval"
  PROVE  /\ status' \in [Order -> Status \cup {"absent", "deleted"}] /\ AppTypes' /\ AppKept(o)
         /\ \A p \in Order \ {o} : status'[p] = status[p]
         /\ status'[o] \in {st, "pending_approval"}
         /\ ~b => status'[o] = st
         /\ \A a \in Approval : appOrder'[a] = o => (appState'[a] # "absent" => ApprovalKnows(a)') /\ Signed(a)'
         /\ ~Raced(o) => \A x \in {"reserved", "deducted"} : Claims(o, x)' <=> StockState(st) = x
<1>1. \A a \in Approval : (appState[a] # "absent" => ApprovalKnows(a)) /\ Signed(a)
  BY ByRow
<1>2. ~Raced(o) => \A a \in Approval : ~Awaits(a, o)
  BY NotAwaited
<1>3. Raced(o)' <=> Raced(o)
  BY DEF Raced
<1>4. "pending_approval" \in Status /\ \A x \in Status : x \notin {"absent", "deleted"}
  BY DEF Status
<1>5. CASE status' = [status EXCEPT ![o] = st] /\ UNCHANGED appVars
  <2>1. AppTypes' /\ AppKept(o)
    BY <1>5 DEF TypeOK, AppTypes, AppKept, ApprovalKept, appVars
  <2>2. status'[o] = st /\ \A p \in Order \ {o} : status'[p] = status[p]
    BY <1>5 DEF TypeOK
  <2>3. ASSUME NEW a \in Approval, appOrder'[a] = o
        PROVE  (appState'[a] # "absent" => ApprovalKnows(a)') /\ Signed(a)'
    <3>1. Signed(a)'
      BY <1>1, <1>5 DEF Signed, appVars
    <3>2. ASSUME appState'[a] # "absent" PROVE ApprovalKnows(a)'
      <4>1. ApprovalKnows(a) /\ appOrder[a] = o
        BY <1>1, <1>5, <2>3, <3>2 DEF appVars
      <4>2. ~Raced(o)' => ~Awaits(a, o)
        BY <1>2, <1>3
      <4> QED
        BY <1>4, <1>5, <2>2, <4>1, <4>2 DEF ApprovalKnows, appVars, Awaits, Raced
    <3> QED
      BY <3>1, <3>2
  <2>4. ASSUME ~Raced(o), NEW x \in {"reserved", "deducted"}
        PROVE  Claims(o, x)' <=> StockState(st) = x
    BY <1>2, <1>5, <2>2, <2>4 DEF Claims, Awaits, StockState, appVars
  <2> QED
    BY <1>5, <2>1, <2>2, <2>3, <2>4 DEF TypeOK
<1>6. CASE b /\ status' = [status EXCEPT ![o] = "pending_approval"] /\ Ask(o, st)
  <2>1. status'[o] = "pending_approval" /\ \A p \in Order \ {o} : status'[p] = status[p]
    BY <1>6 DEF TypeOK
  <2>2. PICK n \in Approval, i \in 1..Steps :
          /\ appState[n] = "absent"
          /\ appState' = [appState EXCEPT ![n] = "pending"]
          /\ appOrder' = [appOrder EXCEPT ![n] = o]
          /\ appStep' = [appStep EXCEPT ![n] = i]
          /\ appOrig' = [appOrig EXCEPT ![n] = st]
          /\ start' = [start EXCEPT ![n] = i]
          /\ UNCHANGED signed
    BY <1>6 DEF Ask
  <2>3. AppTypes'
    BY <2>2 DEF TypeOK, AppTypes
  <2>4. /\ \A a \in Approval \ {n} : ApprovalKept(a)
        /\ appState'[n] = "pending" /\ appOrder'[n] = o /\ appStep'[n] = i
        /\ appOrig'[n] = st /\ start'[n] = i /\ signed'[n] = signed[n]
    BY <2>2 DEF TypeOK, ApprovalKept
  <2>5. AppKept(o)
    BY <2>2, <2>4 DEF AppKept, ApprovalKept
  <2>6. ~Raced(o) => \A a \in Approval : Awaits(a, o)' <=> a = n
    BY <1>2, <2>4 DEF Awaits, ApprovalKept
  <2>7. ASSUME NEW a \in Approval, appOrder'[a] = o
        PROVE  (appState'[a] # "absent" => ApprovalKnows(a)') /\ Signed(a)'
    <3>1. CASE a = n
      <4>1. i..(i - 1) = {}
        BY <2>2
      <4>2. Signed(a)'
        BY <2>4, <3>1 DEF Signed
      <4>3. start'[a]..(appStep'[a] - 1) \subseteq signed'[a]
        BY <2>4, <3>1, <4>1
      <4>4. ApprovalKnows(a)'
        BY <1>3, <2>1, <2>4, <2>6, <3>1, <4>3 DEF ApprovalKnows, Awaits
      <4> QED
        BY <4>2, <4>4
    <3>2. CASE a # n
      <4>1. ApprovalKept(a)
        BY <2>4, <3>2
      <4>2. Signed(a)'
        BY <1>1, <4>1 DEF Signed, ApprovalKept
      <4>3. ASSUME appState'[a] # "absent" PROVE ApprovalKnows(a)'
        <5>1. ApprovalKnows(a) /\ appOrder[a] = o
          BY <1>1, <2>7, <4>1, <4>3 DEF ApprovalKept
        <5>2. ~Raced(o) => appState'[a] # "pending"
          BY <1>2, <4>1, <5>1 DEF Awaits, ApprovalKept
        <5> QED
          BY <1>3, <2>1, <2>7, <4>1, <5>1, <5>2 DEF ApprovalKnows, ApprovalKept, Raced
      <4> QED
        BY <4>2, <4>3
    <3> QED
      BY <3>1, <3>2
  <2>8. ASSUME ~Raced(o), NEW x \in {"reserved", "deducted"}
        PROVE  Claims(o, x)' <=> StockState(st) = x
    <3>1. StockState("pending_approval") # x
      BY DEF StockState
    <3> QED
      BY <2>1, <2>4, <2>6, <2>8, <3>1 DEF Claims, StockState
  <2> QED
    BY <1>4, <1>6, <2>1, <2>3, <2>5, <2>7, <2>8 DEF TypeOK
<1> QED
  BY <1>5, <1>6 DEF Enter

StaysFinal == \A o \in Order : ~Raced(o) /\ status[o] = "cancelled" => status'[o] \in {"cancelled", "deleted"}

\* The rows of the order o, and the requests, after a step about o.
LEMMA Rows ==
  ASSUME TypeOK, SalesInvariant, NEW o \in Order, Elsewise(o),
         \A q \in Request : IF Idle(q)' THEN seen'[q] = {} ELSE RequestKnows(q)',
         \A a \in Approval : appOrder'[a] = o => (appState'[a] # "absent" => ApprovalKnows(a)') /\ Signed(a)',
         \A l \in Line : home'[l] = o => LineKnows(l)' /\ LineFollows(l)'
  PROVE  SalesInvariant'
<1>1. \A l \in Line : LineKnows(l)' /\ LineFollows(l)'
  BY OtherLines
<1>2. \A a \in Approval : (appState'[a] # "absent" => ApprovalKnows(a)') /\ Signed(a)'
  BY OtherApprovals
<1> QED
  BY <1>1, <1>2, ByRow

LEMMA StatusIsStock ==
  ASSUME TypeOK, SalesInvariant, NEW o \in Order, ~Raced(o), status[o] # "pending_approval",
         NEW l \in Line, home[l] = o
  PROVE  /\ held[l] = If(live[l] /\ StockState(status[o]) = "reserved")
         /\ out[l] = If(live[l] /\ StockState(status[o]) = "deducted")
<1>1. LineFollows(l) /\ o # NoOrder
  BY ByRow, SalesAssumption
<1>2. \A x : Claims(o, x) <=> StockState(status[o]) = x
  BY NotAwaited
<1> QED
  BY <1>1, <1>2 DEF LineFollows

-----------------------------------------------------------------------------
(* The handlers of sales.ts *)

\* What a request of an order knows when it acts.
LEMMA Acting ==
  ASSUME TypeOK, SalesInvariant, NEW r \in Request, ~Idle(r)
  PROVE  /\ about[r] \in Order /\ from[r] \in Status /\ seen[r] \in SUBSET Line
         /\ status[about[r]] # "absent"
         /\ \A l \in seen[r] : home[l] = about[r]
         /\ ~Raced(about[r]) /\ phase[r] # "deciding" => from[r] = status[about[r]]
         /\ ~Raced(about[r]) /\ phase[r] \in {"lines", "waiting", "locked"} => seen[r] = Lines(about[r])
  BY ByRow DEF RequestKnows, TypeOK

LEMMA EditStatusKeeps ==
  ASSUME TypeOK, SalesInvariant, NEW r \in Request, NEW st \in Status, EditStatus(r, st)
  PROVE  TypeOK' /\ SalesInvariant' /\ StaysFinal
<1>1. ~Idle(r) /\ phase[r] = "locked"
  BY DEF EditStatus, Idle
<1>2. PICK o \in Order, f \in Status, S \in SUBSET Line : o = about[r] /\ f = from[r] /\ S = seen[r]
  BY <1>1, Acting
<1>3. /\ f # "pending_approval" /\ Allowed(f, st)
      /\ ApplyPlan(f, st, S)
      /\ Enter(o, st, Reserves(f, st))
      /\ End(r)
      /\ UNCHANGED <<home, live>>
  BY <1>2 DEF EditStatus
<1>4. /\ status[o] # "absent"
      /\ \A l \in S : home[l] = o
      /\ ~Raced(o) => f = status[o] /\ S = Lines(o)
  BY <1>1, <1>2, Acting
<1>5. /\ RequestTypes' /\ overlaps' = overlaps
      /\ Idle(r)' /\ seen'[r] = {}
      /\ \A q \in Request \ {r} : RowKept(q)
  BY <1>3, Ends
<1>6. StockTypes' /\ Moves(StockState(f), S, StockState(st), S)
  <2>1. StockTypes
    BY TypesAreTypeOK
  <2> QED
    BY <1>3, <2>1, ApplyPlanTypes
<1>7. ~Raced(o) => status[o] # "pending_approval"
  BY <1>3, <1>4
<1>8. /\ status' \in [Order -> Status \cup {"absent", "deleted"}] /\ AppTypes' /\ AppKept(o)
      /\ \A p \in Order \ {o} : status'[p] = status[p]
      /\ status'[o] \in {st, "pending_approval"}
      /\ ~Reserves(f, st) => status'[o] = st
      /\ \A a \in Approval : appOrder'[a] = o => (appState'[a] # "absent" => ApprovalKnows(a)') /\ Signed(a)'
      /\ ~Raced(o) => \A x \in {"reserved", "deducted"} : Claims(o, x)' <=> StockState(st) = x
  BY <1>3, <1>5, <1>7, Enters
<1>9. TypeOK'
  <2>1. OrderTypes'
    BY <1>3, <1>8 DEF OrderTypes, TypeOK
  <2> QED
    BY <2>1, <1>5, <1>6, <1>8, TypesAreTypeOK
<1>10. Elsewise(o)
  <2>1. status'[o] # "absent"
    BY <1>8 DEF Status
  <2>2. ASSUME NEW l \in Line, home'[l] # o
        PROVE  home'[l] = home[l] /\ live'[l] = live[l] /\ held'[l] = held[l] /\ out'[l] = out[l]
    BY <1>3, <1>4, <1>6, <2>2 DEF Moves, If, TypeOK
  <2> QED
    BY <1>3, <1>5, <1>8, <2>1, <2>2 DEF Elsewise, AppKept
<1>11. ASSUME NEW l \in Line, home'[l] = o
       PROVE  LineKnows(l)' /\ LineFollows(l)'
  <2>1. o # NoOrder /\ home[l] = o /\ live'[l] = live[l]
    BY <1>3, <1>11, SalesAssumption
  <2>2. LineKnows(l)'
    BY <1>10, <1>11, <2>1 DEF LineKnows, Elsewise
  <2>3. ASSUME ~Raced(o)
        PROVE  /\ held'[l] = If(live'[l] /\ Claims(o, "reserved")')
               /\ out'[l] = If(live'[l] /\ Claims(o, "deducted")')
    <3>1. /\ held[l] = If(live[l] /\ StockState(f) = "reserved")
          /\ out[l] = If(live[l] /\ StockState(f) = "deducted")
      BY <1>4, <1>7, <2>1, <2>3, StatusIsStock
    <3>2. l \in S <=> live[l]
      BY <1>4, <2>1, <2>3 DEF Lines
    <3>3. /\ Claims(o, "reserved")' <=> StockState(st) = "reserved"
          /\ Claims(o, "deducted")' <=> StockState(st) = "deducted"
      BY <1>8, <2>3
    <3> QED
      BY <1>6, <2>1, <3>1, <3>2, <3>3 DEF Moves, If
  <2>4. LineFollows(l)'
    BY <1>5, <1>11, <2>3 DEF LineFollows, Raced, Claims, Awaits, If
  <2> QED
    BY <2>2, <2>4
<1>12. SalesInvariant'
  <2>1. \A q \in Request : IF Idle(q)' THEN seen'[q] = {} ELSE RequestKnows(q)'
    BY <1>1, <1>2, <1>3, <1>10, EndKnows
  <2> QED
    BY <1>8, <1>10, <1>11, <2>1, Rows
<1>13. StaysFinal
  <2>1. ~Raced(o) /\ status[o] = "cancelled" => st = "cancelled" /\ ~Reserves(f, st)
    BY <1>3, <1>4 DEF Allowed, Reserves
  <2> QED
    BY <1>8, <2>1 DEF StaysFinal
<1> QED
  BY <1>9, <1>12, <1>13

LEMMA EditLinesKeeps ==
  ASSUME TypeOK, SalesInvariant, NEW r \in Request, NEW st \in Status, NEW N \in SUBSET Line, EditLines(r, st, N)
  PROVE  TypeOK' /\ SalesInvariant' /\ StaysFinal
<1>1. ~Idle(r) /\ phase[r] = "locked"
  BY DEF EditLines, Idle
<1>2. PICK o \in Order, f \in Status, S \in SUBSET Line : o = about[r] /\ f = from[r] /\ S = seen[r]
  BY <1>1, Acting
<1>3. /\ f # "pending_approval" /\ Allowed(f, st) /\ N \subseteq Fresh
      /\ Settle(StockState(f), S, StockState(st), N)
      /\ Enter(o, st, Reserves(f, st))
      /\ End(r)
      /\ home' = [l \in Line |-> IF l \in N THEN o ELSE home[l]]
      /\ live' = [l \in Line |-> (live[l] /\ home[l] # o) \/ l \in N]
  BY <1>2 DEF EditLines
<1>4. /\ status[o] # "absent"
      /\ \A l \in S : home[l] = o
      /\ ~Raced(o) => f = status[o] /\ S = Lines(o)
  BY <1>1, <1>2, Acting
<1>5. /\ RequestTypes' /\ overlaps' = overlaps
      /\ Idle(r)' /\ seen'[r] = {}
      /\ \A q \in Request \ {r} : RowKept(q)
  BY <1>3, Ends
<1>6. StockTypes' /\ Moves(StockState(f), S, StockState(st), N)
  <2>1. StockTypes
    BY TypesAreTypeOK
  <2> QED
    BY <1>3, <2>1, SettleTypes
<1>7. ~Raced(o) => status[o] # "pending_approval"
  BY <1>3, <1>4
<1>8. /\ status' \in [Order -> Status \cup {"absent", "deleted"}] /\ AppTypes' /\ AppKept(o)
      /\ \A p \in Order \ {o} : status'[p] = status[p]
      /\ status'[o] \in {st, "pending_approval"}
      /\ ~Reserves(f, st) => status'[o] = st
      /\ \A a \in Approval : appOrder'[a] = o => (appState'[a] # "absent" => ApprovalKnows(a)') /\ Signed(a)'
      /\ ~Raced(o) => \A x \in {"reserved", "deducted"} : Claims(o, x)' <=> StockState(st) = x
  BY <1>3, <1>5, <1>7, Enters
<1>9. TypeOK'
  <2>1. OrderTypes'
    BY <1>3, <1>8 DEF OrderTypes, TypeOK
  <2> QED
    BY <2>1, <1>5, <1>6, <1>8, TypesAreTypeOK
<1>a. o # NoOrder /\ \A l \in N : home[l] = NoOrder
  BY <1>3, SalesAssumption DEF Fresh
<1>10. Elsewise(o)
  <2>1. status'[o] # "absent"
    BY <1>8 DEF Status
  <2>2. ASSUME NEW l \in Line, home'[l] # o
        PROVE  home'[l] = home[l] /\ live'[l] = live[l] /\ held'[l] = held[l] /\ out'[l] = out[l]
    <3>1. l \notin N /\ home'[l] = home[l] /\ home[l] # o
      BY <1>3, <2>2
    <3>2. live'[l] = live[l]
      BY <1>3, <3>1 DEF TypeOK
    <3> QED
      BY <1>4, <1>6, <3>1, <3>2 DEF Moves, If, TypeOK
  <2>3. \A l \in Line : home[l] # NoOrder => home'[l] = home[l]
    BY <1>3, <1>a
  <2> QED
    BY <1>5, <1>8, <2>1, <2>2, <2>3 DEF Elsewise, AppKept
<1>11. ASSUME NEW l \in Line, home'[l] = o
       PROVE  LineKnows(l)' /\ LineFollows(l)'
  <2>1. LineKnows(l)'
    BY <1>10, <1>11, <1>a DEF LineKnows, Elsewise
  <2>2. ASSUME ~Raced(o)
        PROVE  /\ held'[l] = If(live'[l] /\ Claims(o, "reserved")')
               /\ out'[l] = If(live'[l] /\ Claims(o, "deducted")')
    <3>1. /\ Claims(o, "reserved")' <=> StockState(st) = "reserved"
          /\ Claims(o, "deducted")' <=> StockState(st) = "deducted"
      BY <1>8, <2>2
    <3>2. CASE l \in N
      <4>1. held[l] = 0 /\ out[l] = 0 /\ l \notin S
        BY <1>4, <1>a, <3>2, ByRow DEF LineKnows
      <4>2. live'[l]
        BY <1>3, <3>2
      <4> QED
        BY <1>6, <3>1, <3>2, <4>1, <4>2 DEF Moves, If
    <3>3. CASE l \notin N
      <4>1. home[l] = o
        BY <1>3, <1>11, <3>3
      <4>2. /\ held[l] = If(live[l] /\ StockState(f) = "reserved")
            /\ out[l] = If(live[l] /\ StockState(f) = "deducted")
        BY <1>4, <1>7, <2>2, <4>1, StatusIsStock
      <4>3. l \in S <=> live[l]
        BY <1>4, <2>2, <4>1 DEF Lines
      <4>4. ~live'[l]
        BY <1>3, <3>3, <4>1
      <4> QED
        BY <1>6, <3>3, <4>2, <4>3, <4>4 DEF Moves, If
    <3> QED
      BY <3>2, <3>3
  <2>3. LineFollows(l)'
    BY <1>5, <1>11, <2>2 DEF LineFollows, Raced, Claims, Awaits, If
  <2> QED
    BY <2>1, <2>3
<1>12. SalesInvariant'
  <2>1. \A q \in Request : IF Idle(q)' THEN seen'[q] = {} ELSE RequestKnows(q)'
    BY <1>1, <1>2, <1>3, <1>10, EndKnows
  <2> QED
    BY <1>8, <1>10, <1>11, <2>1, Rows
<1>13. StaysFinal
  <2>1. ~Raced(o) /\ status[o] = "cancelled" => st = "cancelled" /\ ~Reserves(f, st)
    BY <1>3, <1>4 DEF Allowed, Reserves
  <2> QED
    BY <1>8, <2>1 DEF StaysFinal
<1> QED
  BY <1>9, <1>12, <1>13

\* The approvals of an order when a step leaves them all alone.
LEMMA ApprovalsStay ==
  ASSUME TypeOK, SalesInvariant, NEW o \in Order, UNCHANGED <<appVars, overlaps>>,
         status'[o] # "absent",
         ~Raced(o) => status'[o] = status[o] \/ status[o] # "pending_approval"
  PROVE  /\ AppTypes' /\ AppKept(o)
         /\ \A a \in Approval : appOrder'[a] = o => (appState'[a] # "absent" => ApprovalKnows(a)') /\ Signed(a)'
<1>1. AppTypes' /\ AppKept(o)
  BY DEF TypeOK, AppTypes, AppKept, ApprovalKept, appVars
<1>2. ASSUME NEW a \in Approval, appOrder'[a] = o
      PROVE  (appState'[a] # "absent" => ApprovalKnows(a)') /\ Signed(a)'
  <2>1. (appState[a] # "absent" => ApprovalKnows(a)) /\ Signed(a)
    BY ByRow
  <2>2. Signed(a)'
    BY <2>1 DEF Signed, appVars
  <2>3. ASSUME appState'[a] # "absent" PROVE ApprovalKnows(a)'
    <3>1. ApprovalKnows(a) /\ appOrder[a] = o
      BY <1>2, <2>1, <2>3 DEF appVars
    <3> QED
      BY <3>1 DEF ApprovalKnows, appVars, Awaits, Raced
  <2> QED
    BY <2>2, <2>3
<1> QED
  BY <1>1, <1>2

LEMMA DeleteKeeps ==
  ASSUME TypeOK, SalesInvariant, NEW r \in Request, Delete(r)
  PROVE  TypeOK' /\ SalesInvariant' /\ StaysFinal
<1>1. ~Idle(r) /\ phase[r] = "lines"
  BY DEF Delete, Idle
<1>2. PICK o \in Order, f \in Status, S \in SUBSET Line : o = about[r] /\ f = from[r] /\ S = seen[r]
  BY <1>1, Acting
<1>3. /\ f # "pending_approval"
      /\ ApplyPlan(f, "cancelled", S)
      /\ status' = [status EXCEPT ![o] = "deleted"]
      /\ live' = [l \in Line |-> live[l] /\ home[l] # o]
      /\ End(r)
      /\ UNCHANGED <<home, appVars>>
  BY <1>2 DEF Delete
<1>4. /\ \A l \in S : home[l] = o
      /\ ~Raced(o) => f = status[o] /\ S = Lines(o)
  BY <1>1, <1>2, Acting
<1>5. /\ RequestTypes' /\ overlaps' = overlaps
      /\ Idle(r)' /\ seen'[r] = {}
      /\ \A q \in Request \ {r} : RowKept(q)
  BY <1>3, Ends
<1>6. StockTypes' /\ Moves(StockState(f), S, "none", S)
  <2>1. StockTypes /\ StockState("cancelled") = "none"
    BY TypesAreTypeOK DEF StockState
  <2> QED
    BY <1>3, <2>1, ApplyPlanTypes
<1>7. ~Raced(o) => status[o] # "pending_approval"
  BY <1>3, <1>4
<1>8. /\ status' \in [Order -> Status \cup {"absent", "deleted"}]
      /\ status'[o] = "deleted" /\ \A p \in Order \ {o} : status'[p] = status[p]
  BY <1>3 DEF TypeOK
<1>9. /\ AppTypes' /\ AppKept(o)
      /\ \A a \in Approval : appOrder'[a] = o => (appState'[a] # "absent" => ApprovalKnows(a)') /\ Signed(a)'
  BY <1>3, <1>5, <1>7, <1>8, ApprovalsStay
<1>10. TypeOK'
  <2>1. OrderTypes'
    BY <1>3, <1>8 DEF OrderTypes, TypeOK
  <2> QED
    BY <2>1, <1>5, <1>6, <1>9, TypesAreTypeOK
<1>11. Elsewise(o)
  <2>1. ASSUME NEW l \in Line, home'[l] # o
        PROVE  home'[l] = home[l] /\ live'[l] = live[l] /\ held'[l] = held[l] /\ out'[l] = out[l]
    <3>1. l \notin S /\ home[l] # o
      BY <1>3, <1>4, <2>1
    <3>2. live'[l] = live[l]
      BY <1>3, <3>1 DEF TypeOK
    <3> QED
      BY <1>3, <1>6, <3>1, <3>2 DEF Moves, If, TypeOK
  <2> QED
    BY <1>3, <1>5, <1>8, <1>9, <2>1 DEF Elsewise, AppKept
<1>12. ASSUME NEW l \in Line, home'[l] = o
       PROVE  LineKnows(l)' /\ LineFollows(l)'
  <2>1. home[l] = o /\ ~live'[l] /\ o # NoOrder
    BY <1>3, <1>12, SalesAssumption
  <2>2. LineKnows(l)'
    BY <1>8, <1>12, <2>1 DEF LineKnows
  <2>3. ASSUME ~Raced(o) PROVE held'[l] = 0 /\ out'[l] = 0
    <3>1. /\ held[l] = If(live[l] /\ StockState(f) = "reserved")
          /\ out[l] = If(live[l] /\ StockState(f) = "deducted")
      BY <1>4, <1>7, <2>1, <2>3, StatusIsStock
    <3>2. l \in S <=> live[l]
      BY <1>4, <2>1, <2>3 DEF Lines
    <3> QED
      BY <1>6, <3>1, <3>2 DEF Moves, If
  <2>4. LineFollows(l)'
    BY <1>5, <1>12, <2>1, <2>3 DEF LineFollows, Raced, If
  <2> QED
    BY <2>2, <2>4
<1>13. SalesInvariant'
  <2>1. \A q \in Request : IF Idle(q)' THEN seen'[q] = {} ELSE RequestKnows(q)'
    BY <1>1, <1>2, <1>3, <1>11, EndKnows
  <2> QED
    BY <1>9, <1>11, <1>12, <2>1, Rows
<1>14. StaysFinal
  BY <1>8 DEF StaysFinal
<1> QED
  BY <1>10, <1>13, <1>14

\* A step that leaves an order's approvals, its status and the row of a line alone
\* leaves the line with what it follows.
LEMMA LineStays ==
  ASSUME TypeOK, SalesInvariant, NEW o \in Order, NEW l \in Line, home[l] = o, home'[l] = o,
         live'[l] = live[l], held'[l] = held[l], out'[l] = out[l],
         status'[o] = status[o], UNCHANGED <<appVars, overlaps>>
  PROVE  LineKnows(l)' /\ LineFollows(l)'
  BY ByRow DEF LineKnows, LineFollows, Claims, Awaits, Raced, If, appVars

LEMMA AddLineKeeps ==
  ASSUME TypeOK, SalesInvariant, NEW r \in Request, NEW l \in Line, AddLine(r, l)
  PROVE  TypeOK' /\ SalesInvariant' /\ StaysFinal
<1>1. ~Idle(r) /\ phase[r] = "read"
  BY DEF AddLine, Idle
<1>2. PICK o \in Order, f \in Status : o = about[r] /\ f = from[r]
  BY <1>1, Acting
<1>3. /\ f # "pending_approval" /\ home[l] = NoOrder /\ o # NoOrder
      /\ Settle("none", {}, StockState(f), {l})
      /\ home' = [home EXCEPT ![l] = o]
      /\ live' = [live EXCEPT ![l] = TRUE]
      /\ End(r)
      /\ UNCHANGED <<status, appVars>>
  BY <1>2, SalesAssumption DEF AddLine, Fresh
<1>4. status[o] # "absent" /\ (~Raced(o) => f = status[o])
  BY <1>1, <1>2, Acting
<1>5. RequestTypes' /\ overlaps' = overlaps
  BY <1>3, Ends
<1>6. StockTypes' /\ Moves("none", {}, StockState(f), {l})
  <2>1. StockTypes
    BY TypesAreTypeOK
  <2> QED
    BY <1>3, <2>1, SettleTypes
<1>7. \A k \in Line \ {l} :
         home'[k] = home[k] /\ live'[k] = live[k] /\ held'[k] = held[k] /\ out'[k] = out[k]
  BY <1>3, <1>6 DEF Moves, If, TypeOK
<1>8. home'[l] = o /\ live'[l]
  BY <1>3 DEF TypeOK
<1>9. /\ AppTypes' /\ AppKept(o)
      /\ \A a \in Approval : appOrder'[a] = o => (appState'[a] # "absent" => ApprovalKnows(a)') /\ Signed(a)'
  BY <1>3, <1>4, <1>5, ApprovalsStay
<1>10. TypeOK'
  <2>1. OrderTypes'
    BY <1>3 DEF OrderTypes, TypeOK
  <2> QED
    BY <2>1, <1>5, <1>6, <1>9, TypesAreTypeOK
<1>11. Elsewise(o)
  BY <1>3, <1>4, <1>5, <1>7, <1>8, <1>9 DEF Elsewise, AppKept
<1>12. ASSUME NEW k \in Line, home'[k] = o
       PROVE  LineKnows(k)' /\ LineFollows(k)'
  <2>1. CASE k # l
    BY <1>3, <1>5, <1>7, <1>12, <2>1, LineStays
  <2>2. CASE k = l
    <3>1. held[l] = 0 /\ out[l] = 0
      BY <1>3, ByRow DEF LineKnows
    <3>2. /\ held'[l] = If(StockState(f) = "reserved")
          /\ out'[l] = If(StockState(f) = "deducted")
      BY <1>6, <3>1 DEF Moves, If
    <3>3. ~Raced(o) => \A x : Claims(o, x)' <=> StockState(f) = x
      <4>1. ~Raced(o) => \A x : Claims(o, x) <=> StockState(f) = x
        BY <1>3, <1>4, NotAwaited
      <4> QED
        BY <1>3, <4>1 DEF Claims, Awaits, appVars
    <3>4. LineKnows(l)'
      BY <1>3, <1>4, <1>8 DEF LineKnows
    <3>5. LineFollows(l)'
      BY <1>5, <1>8, <3>2, <3>3 DEF LineFollows, Raced, Claims, Awaits, If
    <3> QED
      BY <2>2, <3>4, <3>5
  <2> QED
    BY <2>1, <2>2
<1>13. SalesInvariant'
  <2>1. \A q \in Request : IF Idle(q)' THEN seen'[q] = {} ELSE RequestKnows(q)'
    BY <1>1, <1>2, <1>3, <1>11, EndKnows
  <2> QED
    BY <1>9, <1>11, <1>12, <2>1, Rows
<1> QED
  BY <1>3, <1>10, <1>13 DEF StaysFinal

LEMMA DropLineKeeps ==
  ASSUME TypeOK, SalesInvariant, NEW r \in Request, NEW l \in Line, DropLine(r, l)
  PROVE  TypeOK' /\ SalesInvariant' /\ StaysFinal
<1>1. ~Idle(r) /\ phase[r] = "lines"
  BY DEF DropLine, Idle
<1>2. PICK o \in Order, f \in Status, S \in SUBSET Line : o = about[r] /\ f = from[r] /\ S = seen[r]
  BY <1>1, Acting
<1>3. /\ f # "pending_approval" /\ l \in S
      /\ Settle(StockState(f), {l}, "none", {})
      /\ live' = [live EXCEPT ![l] = FALSE]
      /\ End(r)
      /\ UNCHANGED <<status, home, appVars>>
  BY <1>2 DEF DropLine
<1>4. /\ status[o] # "absent" /\ home[l] = o
      /\ ~Raced(o) => f = status[o] /\ S = Lines(o)
  BY <1>1, <1>2, <1>3, Acting
<1>5. RequestTypes' /\ overlaps' = overlaps
  BY <1>3, Ends
<1>6. StockTypes' /\ Moves(StockState(f), {l}, "none", {})
  <2>1. StockTypes
    BY TypesAreTypeOK
  <2> QED
    BY <1>3, <2>1, SettleTypes
<1>7. \A k \in Line \ {l} :
         home'[k] = home[k] /\ live'[k] = live[k] /\ held'[k] = held[k] /\ out'[k] = out[k]
  BY <1>3, <1>6 DEF Moves, If, TypeOK
<1>8. home'[l] = o /\ ~live'[l] /\ o # NoOrder
  BY <1>3, <1>4, SalesAssumption DEF TypeOK
<1>9. /\ AppTypes' /\ AppKept(o)
      /\ \A a \in Approval : appOrder'[a] = o => (appState'[a] # "absent" => ApprovalKnows(a)') /\ Signed(a)'
  BY <1>3, <1>4, <1>5, ApprovalsStay
<1>10. TypeOK'
  <2>1. OrderTypes'
    BY <1>3 DEF OrderTypes, TypeOK
  <2> QED
    BY <2>1, <1>5, <1>6, <1>9, TypesAreTypeOK
<1>11. Elsewise(o)
  BY <1>3, <1>4, <1>5, <1>7, <1>8, <1>9 DEF Elsewise, AppKept
<1>12. ASSUME NEW k \in Line, home'[k] = o
       PROVE  LineKnows(k)' /\ LineFollows(k)'
  <2>1. CASE k # l
    BY <1>3, <1>5, <1>7, <1>12, <2>1, LineStays
  <2>2. CASE k = l
    <3>1. ASSUME ~Raced(o) PROVE held'[l] = 0 /\ out'[l] = 0
      <4>1. live[l]
        BY <1>3, <1>4, <3>1 DEF Lines
      <4>2. /\ held[l] = If(StockState(f) = "reserved")
            /\ out[l] = If(StockState(f) = "deducted")
        BY <1>3, <1>4, <3>1, <4>1, StatusIsStock
      <4> QED
        BY <1>6, <4>2 DEF Moves, If
    <3>2. LineKnows(l)'
      BY <1>3, <1>4, <1>8 DEF LineKnows
    <3>3. LineFollows(l)'
      BY <1>5, <1>8, <3>1 DEF LineFollows, Raced, If
    <3> QED
      BY <2>2, <3>2, <3>3
  <2> QED
    BY <2>1, <2>2
<1>13. SalesInvariant'
  <2>1. \A q \in Request : IF Idle(q)' THEN seen'[q] = {} ELSE RequestKnows(q)'
    BY <1>1, <1>2, <1>3, <1>11, EndKnows
  <2> QED
    BY <1>9, <1>11, <1>12, <2>1, Rows
<1> QED
  BY <1>3, <1>10, <1>13 DEF StaysFinal

LEMMA RefuseKeeps ==
  ASSUME TypeOK, SalesInvariant, NEW r \in Request, Refuse(r)
  PROVE  TypeOK' /\ SalesInvariant' /\ StaysFinal
<1>1. ~Idle(r) /\ End(r) /\ UNCHANGED <<status, home, live, stockVars, appVars>>
  BY DEF Refuse
<1>2. PICK o \in Order : o = about[r]
  BY <1>1, Acting
<1>3. status[o] # "absent"
  BY <1>1, <1>2, Acting
<1>4. RequestTypes' /\ overlaps' = overlaps
  BY <1>1, Ends
<1>5. /\ AppTypes' /\ AppKept(o)
      /\ \A a \in Approval : appOrder'[a] = o => (appState'[a] # "absent" => ApprovalKnows(a)') /\ Signed(a)'
  BY <1>1, <1>3, <1>4, ApprovalsStay
<1>6. TypeOK'
  <2>1. OrderTypes' /\ StockTypes'
    BY <1>1 DEF OrderTypes, StockTypes, TypeOK, stockVars, elseVars
  <2> QED
    BY <2>1, <1>4, <1>5, TypesAreTypeOK
<1>7. Elsewise(o)
  BY <1>1, <1>3, <1>4, <1>5 DEF Elsewise, AppKept, stockVars
<1>8. \A l \in Line : home'[l] = o => LineKnows(l)' /\ LineFollows(l)'
  BY <1>1, <1>4, LineStays DEF stockVars
<1>9. \A q \in Request : IF Idle(q)' THEN seen'[q] = {} ELSE RequestKnows(q)'
  BY <1>1, <1>2, <1>7, EndKnows
<1>10. SalesInvariant'
  BY <1>5, <1>7, <1>8, <1>9, Rows
<1> QED
  BY <1>1, <1>6, <1>10 DEF StaysFinal

LEMMA CreateKeeps ==
  ASSUME TypeOK, SalesInvariant, NEW o \in Order, NEW st \in Status, NEW N \in SUBSET Line, Create(o, st, N)
  PROVE  TypeOK' /\ SalesInvariant' /\ StaysFinal
<1>1. /\ status[o] = "absent" /\ o # NoOrder /\ \A l \in N : home[l] = NoOrder
      /\ home' = [l \in Line |-> IF l \in N THEN o ELSE home[l]]
      /\ live' = [l \in Line |-> live[l] \/ l \in N]
      /\ ApplyPlan("draft", st, N)
      /\ Enter(o, st, TRUE)
      /\ UNCHANGED <<requestVars, overlaps>>
  BY SalesAssumption DEF Create, Fresh
<1>2. \A q \in Request : RowKept(q) /\ (Idle(q) \/ about[q] # o)
  BY <1>1, ByRow DEF RowKept, requestVars, RequestKnows
<1>3. RequestTypes'
  BY <1>1 DEF requestVars, RequestTypes, TypeOK
<1>4. StockTypes' /\ Moves("none", N, StockState(st), N)
  <2>1. StockTypes /\ StockState("draft") = "none"
    BY TypesAreTypeOK DEF StockState
  <2> QED
    BY <1>1, <2>1, ApplyPlanTypes
<1>5. /\ status' \in [Order -> Status \cup {"absent", "deleted"}] /\ AppTypes' /\ AppKept(o)
      /\ \A p \in Order \ {o} : status'[p] = status[p]
      /\ status'[o] \in {st, "pending_approval"}
      /\ \A a \in Approval : appOrder'[a] = o => (appState'[a] # "absent" => ApprovalKnows(a)') /\ Signed(a)'
      /\ ~Raced(o) => \A x \in {"reserved", "deducted"} : Claims(o, x)' <=> StockState(st) = x
  BY <1>1, Enters
<1>6. TypeOK'
  <2>1. OrderTypes'
    BY <1>1, <1>5 DEF OrderTypes, TypeOK
  <2> QED
    BY <2>1, <1>3, <1>4, <1>5, TypesAreTypeOK
<1>7. Elsewise(o)
  <2>1. status'[o] # "absent"
    BY <1>5 DEF Status
  <2>2. ASSUME NEW l \in Line, home'[l] # o
        PROVE  home'[l] = home[l] /\ live'[l] = live[l] /\ held'[l] = held[l] /\ out'[l] = out[l]
    <3>1. l \notin N
      BY <1>1, <2>2
    <3> QED
      BY <1>1, <1>4, <3>1 DEF Moves, If, TypeOK
  <2>3. \A l \in Line : home[l] # NoOrder => home'[l] = home[l]
    BY <1>1
  <2> QED
    BY <1>1, <1>5, <2>1, <2>2, <2>3 DEF Elsewise, AppKept
<1>8. ASSUME NEW l \in Line, home'[l] = o
      PROVE  LineKnows(l)' /\ LineFollows(l)'
  <2>1. LineKnows(l)
    BY ByRow
  <2>2. l \in N
    BY <1>1, <1>8, <2>1 DEF LineKnows
  <2>3. held[l] = 0 /\ out[l] = 0 /\ live'[l]
    BY <1>1, <2>1, <2>2 DEF LineKnows
  <2>4. /\ held'[l] = If(StockState(st) = "reserved")
        /\ out'[l] = If(StockState(st) = "deducted")
    BY <1>4, <2>2, <2>3 DEF Moves, If
  <2>5. LineKnows(l)'
    BY <1>1, <1>7, <1>8 DEF LineKnows, Elsewise
  <2>6. ~Raced(o) => /\ Claims(o, "reserved")' <=> StockState(st) = "reserved"
                     /\ Claims(o, "deducted")' <=> StockState(st) = "deducted"
    BY <1>5
  <2>7. LineFollows(l)'
    BY <1>1, <1>8, <2>3, <2>4, <2>6 DEF LineFollows, Raced, Claims, Awaits, If
  <2> QED
    BY <2>5, <2>7
<1>9. \A q \in Request : IF Idle(q)' THEN seen'[q] = {} ELSE RequestKnows(q)'
  BY <1>2, <1>7, OtherRequests
<1>10. SalesInvariant'
  BY <1>5, <1>7, <1>8, <1>9, Rows
<1>11. StaysFinal
  BY <1>1, <1>5 DEF StaysFinal
<1> QED
  BY <1>6, <1>10, <1>11

-----------------------------------------------------------------------------
(* The decisions of governance.ts *)

\* What a decision knows of the approval it decides, and what it leaves of it.
LEMMA Deciding ==
  ASSUME TypeOK, SalesInvariant, NEW r \in Request, NEW a \in Approval,
         NEW st \in {"pending", "approved", "rejected"}, NEW i, NEW s, Decided(r, a, st, i, s)
  PROVE  /\ ~Idle(r) /\ End(r) /\ UNCHANGED <<home, live>>
         /\ about[r] \in Order /\ appOrder[a] = about[r] /\ appState[a] = "pending"
         /\ status[about[r]] # "absent"
         /\ appOrig[a] \in Status /\ atStep[r] \in 1..Steps
         /\ start[a]..(atStep[r] - 1) \subseteq signed[a]
         /\ ~Raced(about[r]) =>
              /\ status[about[r]] = "pending_approval"
              /\ \A b \in Approval : Awaits(b, about[r]) <=> b = a
         /\ \A b \in Approval \ {a} : ApprovalKept(b)
         /\ appState'[a] = st /\ appOrder'[a] = appOrder[a] /\ appStep'[a] = i
         /\ appOrig'[a] = appOrig[a] /\ start'[a] = start[a] /\ signed'[a] = signed[a] \cup s
<1>1. /\ phase[r] = "deciding" /\ decides[r] = a /\ appState[a] = "pending"
      /\ ~Idle(r) /\ End(r)
  BY DEF Decided, Idle
<1>2. RequestKnows(r) /\ ApprovalKnows(a)
  BY <1>1, ByRow
<1>3. /\ \A b \in Approval \ {a} : ApprovalKept(b)
      /\ appState'[a] = st /\ appOrder'[a] = appOrder[a] /\ appStep'[a] = i
      /\ appOrig'[a] = appOrig[a] /\ start'[a] = start[a] /\ signed'[a] = signed[a] \cup s
      /\ UNCHANGED <<home, live>>
  BY DEF Decided, TypeOK, ApprovalKept
<1> QED
  BY <1>1, <1>2, <1>3 DEF RequestKnows, ApprovalKnows, Awaits, TypeOK

\* The approvals of the order after a decision.
LEMMA Decides ==
  ASSUME TypeOK, SalesInvariant, NEW r \in Request, NEW a \in Approval,
         NEW st \in {"pending", "approved", "rejected"}, NEW i \in 1..Steps, NEW s \in SUBSET (1..Steps),
         Decided(r, a, st, i, s),
         NEW o \in Order, o = about[r], status'[o] # "absent",
         i = atStep[r] \/ (i = atStep[r] + 1 /\ atStep[r] \in s),
         st = "approved" => atStep[r] = Steps /\ Steps \in s,
         st = "pending" => status'[o] = status[o]
  PROVE  /\ AppTypes' /\ AppKept(o)
         /\ \A b \in Approval : appOrder'[b] = o => (appState'[b] # "absent" => ApprovalKnows(b)') /\ Signed(b)'
<1>1. PICK k \in 1..Steps : k = atStep[r]
  BY Deciding
<1>2. /\ appOrder[a] = o /\ appState[a] = "pending"
      /\ start[a]..(k - 1) \subseteq signed[a] /\ start[a] \in 1..Steps
      /\ ~Raced(o) =>
           /\ status[o] = "pending_approval"
           /\ \A b \in Approval : Awaits(b, o) <=> b = a
  BY <1>1, Deciding DEF TypeOK
<1>3. /\ \A b \in Approval \ {a} : ApprovalKept(b)
      /\ appState'[a] = st /\ appOrder'[a] = o /\ appStep'[a] = i
      /\ appOrig'[a] = appOrig[a] /\ start'[a] = start[a] /\ signed'[a] = signed[a] \cup s
  BY <1>2, Deciding
<1>4. AppTypes'
  BY DEF Decided, TypeOK, AppTypes
<1>5. AppKept(o)
  BY <1>2, <1>3 DEF AppKept, ApprovalKept
<1>6. Raced(o)' <=> Raced(o)
  BY Ends, Deciding DEF Raced
<1>7. ASSUME NEW b \in Approval, appOrder'[b] = o
      PROVE  (appState'[b] # "absent" => ApprovalKnows(b)') /\ Signed(b)'
  <2>1. CASE b = a
    <3>1. start[a]..(i - 1) \subseteq signed'[a]
      <4>1. \A n \in start[a]..(i - 1) : n \in start[a]..(k - 1) \/ (i = k + 1 /\ n = k)
        BY <1>1, <1>2
      <4> QED
        BY <1>1, <1>2, <1>3, <4>1
    <3>2. Signed(a)'
      <4>1. ASSUME st = "approved" PROVE start[a]..Steps \subseteq signed'[a]
        <5>1. \A n \in start[a]..Steps : n \in start[a]..(k - 1) \/ n = Steps
          BY <1>1, <1>2, <4>1, SalesAssumption
        <5> QED
          BY <1>2, <1>3, <4>1, <5>1
      <4> QED
        BY <1>3, <4>1 DEF Signed
    <3>3. ASSUME ~Raced(o), st = "pending"
          PROVE  status'[o] = "pending_approval" /\ \A c \in Approval : Awaits(c, o)' => c = a
      BY <1>2, <1>3, <3>3 DEF Awaits, ApprovalKept
    <3>4. ApprovalKnows(a)'
      BY <1>3, <1>6, <3>1, <3>3 DEF ApprovalKnows, Awaits
    <3> QED
      BY <2>1, <3>2, <3>4
  <2>2. CASE b # a
    <3>1. ApprovalKept(b) /\ (appState[b] # "absent" => ApprovalKnows(b)) /\ Signed(b)
      BY <1>3, <2>2, ByRow
    <3>2. ~Raced(o) => appState'[b] # "pending"
      BY <1>2, <1>7, <2>2, <3>1 DEF Awaits, ApprovalKept
    <3>3. Signed(b)'
      BY <3>1 DEF Signed, ApprovalKept
    <3>4. appState'[b] # "absent" => ApprovalKnows(b)'
      BY <1>6, <1>7, <3>1, <3>2 DEF ApprovalKnows, ApprovalKept, Raced
    <3> QED
      BY <3>3, <3>4
  <2> QED
    BY <2>1, <2>2
<1> QED
  BY <1>4, <1>5, <1>7

LEMMA ApproveStepKeeps ==
  ASSUME TypeOK, SalesInvariant, NEW r \in Request, NEW a \in Approval, ApproveStep(r, a)
  PROVE  TypeOK' /\ SalesInvariant' /\ StaysFinal
<1>1. PICK k \in 1..Steps : k = atStep[r]
  BY DEF TypeOK
<1>2. /\ Decided(r, a, "pending", k + 1, {k}) /\ k + 1 \in 1..Steps /\ {k} \in SUBSET (1..Steps)
      /\ UNCHANGED <<status, stockVars>>
  BY <1>1, SalesAssumption DEF ApproveStep
<1>3. /\ ~Idle(r) /\ End(r) /\ UNCHANGED <<home, live>>
      /\ about[r] \in Order /\ status[about[r]] # "absent"
      /\ appOrder[a] = about[r] /\ appState[a] = "pending"
      /\ \A b \in Approval \ {a} : ApprovalKept(b)
      /\ appState'[a] = "pending" /\ appOrder'[a] = appOrder[a] /\ appOrig'[a] = appOrig[a]
  BY <1>2, Deciding
<1>4. PICK o \in Order : o = about[r]
  BY <1>3
<1>5. /\ AppTypes' /\ AppKept(o)
      /\ \A b \in Approval : appOrder'[b] = o => (appState'[b] # "absent" => ApprovalKnows(b)') /\ Signed(b)'
  BY <1>1, <1>2, <1>3, <1>4, Decides
<1>6. RequestTypes' /\ overlaps' = overlaps
  BY <1>3, Ends
<1>7. TypeOK'
  <2>1. OrderTypes' /\ StockTypes'
    BY <1>2, <1>3 DEF OrderTypes, StockTypes, TypeOK, stockVars, elseVars
  <2> QED
    BY <2>1, <1>5, <1>6, TypesAreTypeOK
<1>8. Elsewise(o)
  BY <1>2, <1>3, <1>4, <1>5, <1>6 DEF Elsewise, AppKept, stockVars
<1>9. ASSUME NEW l \in Line, home'[l] = o
      PROVE  LineKnows(l)' /\ LineFollows(l)'
  <2>1. \A x : Claims(o, x)' <=> Claims(o, x)
    BY <1>2, <1>3 DEF Claims, Awaits, ApprovalKept
  <2>2. LineKnows(l) /\ LineFollows(l) /\ home[l] = o
    BY <1>3, <1>9, ByRow
  <2>3. LineKnows(l)'
    BY <1>2, <1>3, <2>2 DEF LineKnows, stockVars
  <2>4. ~Raced(o) /\ o # NoOrder => /\ held'[l] = If(live'[l] /\ Claims(o, "reserved")')
                                   /\ out'[l] = If(live'[l] /\ Claims(o, "deducted")')
    BY <1>2, <1>3, <2>1, <2>2 DEF LineFollows, If, stockVars
  <2>5. LineFollows(l)'
    BY <1>6, <1>9, <2>4 DEF LineFollows, Raced, Claims, Awaits, If
  <2> QED
    BY <2>3, <2>5
<1>10. SalesInvariant'
  <2>1. \A q \in Request : IF Idle(q)' THEN seen'[q] = {} ELSE RequestKnows(q)'
    BY <1>3, <1>4, <1>8, EndKnows
  <2> QED
    BY <1>5, <1>8, <1>9, <2>1, Rows
<1> QED
  BY <1>2, <1>7, <1>10 DEF StaysFinal

\* An order that waits for one approval claims what that approval is to give it.
LEMMA AwaitedClaims ==
  ASSUME NEW o \in Order, NEW a \in Approval, status[o] = "pending_approval",
         \A b \in Approval : Awaits(b, o) <=> b = a, NEW x \in {"reserved", "deducted"}
  PROVE  Claims(o, x) <=> StockState(appOrig[a]) = x
<1>1. StockState("pending_approval") # x
  BY DEF StockState
<1> QED
  BY <1>1 DEF Claims

LEMMA ApproveLastKeeps ==
  ASSUME TypeOK, SalesInvariant, NEW r \in Request, NEW a \in Approval, ApproveLast(r, a)
  PROVE  TypeOK' /\ SalesInvariant' /\ StaysFinal
<1>1. /\ Decided(r, a, "approved", Steps, {Steps}) /\ atStep[r] = Steps
      /\ Steps \in 1..Steps /\ {Steps} \in SUBSET (1..Steps)
  <2>1. PICK k \in 1..Steps : k = atStep[r]
    BY DEF TypeOK
  <2>2. k = Steps /\ Decided(r, a, "approved", k, {k})
    BY <2>1, SalesAssumption DEF ApproveLast
  <2> QED
    BY <2>1, <2>2, SalesAssumption
<1>2. /\ ~Idle(r) /\ End(r) /\ UNCHANGED <<home, live>>
      /\ about[r] \in Order /\ status[about[r]] # "absent"
      /\ appOrder[a] = about[r] /\ appState[a] = "pending" /\ appOrig[a] \in Status
      /\ ~Raced(about[r]) =>
           /\ status[about[r]] = "pending_approval"
           /\ \A b \in Approval : Awaits(b, about[r]) <=> b = a
      /\ \A b \in Approval \ {a} : ApprovalKept(b)
      /\ appState'[a] = "approved"
  BY <1>1, Deciding
<1>3. PICK o \in Order, g \in Status : o = about[r] /\ g = appOrig[a]
  BY <1>2
<1>4. /\ status' = IF Exists(o) THEN [status EXCEPT ![o] = g] ELSE status
      /\ UNCHANGED stockVars
  BY <1>2, <1>3 DEF ApproveLast
<1>5. /\ status' \in [Order -> Status \cup {"absent", "deleted"}]
      /\ \A p \in Order \ {o} : status'[p] = status[p]
      /\ status'[o] # "absent"
      /\ ~Raced(o) => status'[o] = g
  <2>1. Exists(o) => status'[o] = g
    BY <1>4 DEF TypeOK
  <2>2. ~Exists(o) => status' = status
    BY <1>4
  <2>3. ~Raced(o) => Exists(o)
    BY <1>2, <1>3 DEF Exists
  <2>4. g # "absent"
    BY DEF Status
  <2> QED
    BY <1>2, <1>3, <1>4, <2>1, <2>2, <2>3, <2>4 DEF TypeOK
<1>6. /\ AppTypes' /\ AppKept(o)
      /\ \A b \in Approval : appOrder'[b] = o => (appState'[b] # "absent" => ApprovalKnows(b)') /\ Signed(b)'
  BY <1>1, <1>3, <1>5, Decides
<1>7. RequestTypes' /\ overlaps' = overlaps
  BY <1>2, Ends
<1>8. TypeOK'
  <2>1. OrderTypes' /\ StockTypes'
    BY <1>2, <1>4, <1>5 DEF OrderTypes, StockTypes, TypeOK, stockVars, elseVars
  <2> QED
    BY <2>1, <1>6, <1>7, TypesAreTypeOK
<1>9. Elsewise(o)
  BY <1>2, <1>4, <1>5, <1>6, <1>7 DEF Elsewise, AppKept, stockVars
<1>10. ASSUME NEW l \in Line, home'[l] = o
       PROVE  LineKnows(l)' /\ LineFollows(l)'
  <2>1. LineKnows(l) /\ LineFollows(l) /\ home[l] = o /\ o # NoOrder
    BY <1>2, <1>10, ByRow, SalesAssumption
  <2>2. LineKnows(l)'
    BY <1>2, <1>5, <1>10, <2>1 DEF LineKnows
  <2>3. ASSUME ~Raced(o), NEW x \in {"reserved", "deducted"}
        PROVE  Claims(o, x)' <=> Claims(o, x)
    <3>1. Claims(o, x) <=> StockState(g) = x
      BY <1>2, <1>3, <2>3, AwaitedClaims
    <3>2. \A b \in Approval : ~Awaits(b, o)'
      BY <1>2, <1>3, <2>3 DEF Awaits, ApprovalKept
    <3> QED
      BY <1>5, <2>3, <3>1, <3>2 DEF Claims, StockState
  <2>4. ~Raced(o) => /\ held'[l] = If(live'[l] /\ Claims(o, "reserved")')
                     /\ out'[l] = If(live'[l] /\ Claims(o, "deducted")')
    BY <1>2, <1>4, <2>1, <2>3 DEF LineFollows, If, stockVars
  <2>5. LineFollows(l)'
    BY <1>7, <1>10, <2>4 DEF LineFollows, Raced, Claims, Awaits, If
  <2> QED
    BY <2>2, <2>5
<1>11. SalesInvariant'
  <2>1. \A q \in Request : IF Idle(q)' THEN seen'[q] = {} ELSE RequestKnows(q)'
    BY <1>2, <1>3, <1>9, EndKnows
  <2> QED
    BY <1>6, <1>9, <1>10, <2>1, Rows
<1>12. StaysFinal
  BY <1>2, <1>3, <1>5 DEF StaysFinal
<1> QED
  BY <1>8, <1>11, <1>12

LEMMA RejectKeeps ==
  ASSUME TypeOK, SalesInvariant, NEW r \in Request, NEW a \in Approval, Reject(r, a)
  PROVE  TypeOK' /\ SalesInvariant' /\ StaysFinal
<1>1. PICK k \in 1..Steps : k = atStep[r]
  BY DEF TypeOK
<1>2. Decided(r, a, "rejected", k, {}) /\ {} \in SUBSET (1..Steps)
  BY <1>1 DEF Reject
<1>3. /\ ~Idle(r) /\ End(r) /\ UNCHANGED <<home, live>>
      /\ about[r] \in Order /\ status[about[r]] # "absent"
      /\ appOrder[a] = about[r] /\ appState[a] = "pending" /\ appOrig[a] \in Status
      /\ ~Raced(about[r]) =>
           /\ status[about[r]] = "pending_approval"
           /\ \A b \in Approval : Awaits(b, about[r]) <=> b = a
      /\ \A b \in Approval \ {a} : ApprovalKept(b)
      /\ appState'[a] = "rejected"
  BY <1>2, Deciding
<1>4. PICK o \in Order, g \in Status, S \in SUBSET Line : o = about[r] /\ g = appOrig[a] /\ S = Lines(about[r])
  BY <1>3 DEF Lines
<1>5. /\ Exists(o) => Settle(StockState(g), S, "none", {}) /\ status' = [status EXCEPT ![o] = "cancelled"]
      /\ ~Exists(o) => UNCHANGED <<status, stockVars>>
  BY <1>3, <1>4 DEF Reject
<1>6. /\ status' \in [Order -> Status \cup {"absent", "deleted"}]
      /\ \A p \in Order \ {o} : status'[p] = status[p]
      /\ status'[o] # "absent"
      /\ ~Raced(o) => Exists(o)
      /\ Exists(o) => status'[o] = "cancelled"
  <2>1. "cancelled" \in Status
    BY DEF Status
  <2> QED
    BY <1>3, <1>4, <1>5, <2>1 DEF TypeOK, Exists
<1>7. StockTypes' /\ (Exists(o) => Moves(StockState(g), S, "none", {}))
  <2>1. StockTypes
    BY TypesAreTypeOK
  <2>2. CASE Exists(o)
    BY <1>5, <2>1, <2>2, SettleTypes
  <2>3. CASE ~Exists(o)
    BY <1>5, <2>1, <2>3 DEF StockTypes, stockVars, elseVars
  <2> QED
    BY <2>2, <2>3
<1>8. /\ AppTypes' /\ AppKept(o)
      /\ \A b \in Approval : appOrder'[b] = o => (appState'[b] # "absent" => ApprovalKnows(b)') /\ Signed(b)'
  BY <1>1, <1>2, <1>4, <1>6, Decides
<1>9. RequestTypes' /\ overlaps' = overlaps
  BY <1>3, Ends
<1>10. TypeOK'
  <2>1. OrderTypes'
    BY <1>3, <1>6 DEF OrderTypes, TypeOK
  <2> QED
    BY <2>1, <1>7, <1>8, <1>9, TypesAreTypeOK
<1>11. Elsewise(o)
  <2>1. ASSUME NEW l \in Line, home'[l] # o
        PROVE  home'[l] = home[l] /\ live'[l] = live[l] /\ held'[l] = held[l] /\ out'[l] = out[l]
    <3>1. l \notin S
      BY <1>3, <1>4, <2>1 DEF Lines
    <3>2. held'[l] = held[l] /\ out'[l] = out[l]
      BY <1>5, <1>7, <3>1 DEF Moves, If, TypeOK, stockVars
    <3> QED
      BY <1>3, <3>2
  <2> QED
    BY <1>3, <1>6, <1>8, <1>9, <2>1 DEF Elsewise, AppKept
<1>12. ASSUME NEW l \in Line, home'[l] = o
       PROVE  LineKnows(l)' /\ LineFollows(l)'
  <2>1. LineKnows(l) /\ LineFollows(l) /\ home[l] = o /\ o # NoOrder
    BY <1>3, <1>12, ByRow, SalesAssumption
  <2>2. LineKnows(l)'
    BY <1>6, <1>12, <2>1 DEF LineKnows
  <2>3. ASSUME ~Raced(o)
        PROVE  /\ held'[l] = 0 /\ out'[l] = 0
               /\ \A x \in {"reserved", "deducted"} : ~Claims(o, x)'
    <3>1. \A x \in {"reserved", "deducted"} : Claims(o, x) <=> StockState(g) = x
      BY <1>3, <1>4, <2>3, AwaitedClaims
    <3>2. /\ held[l] = If(live[l] /\ StockState(g) = "reserved")
          /\ out[l] = If(live[l] /\ StockState(g) = "deducted")
      BY <2>1, <2>3, <3>1 DEF LineFollows, If
    <3>3. l \in S <=> live[l]
      BY <1>4, <2>1 DEF Lines
    <3>4. held'[l] = 0 /\ out'[l] = 0
      BY <1>6, <1>7, <2>3, <3>2, <3>3 DEF Moves, If
    <3>5. \A b \in Approval : ~Awaits(b, o)'
      BY <1>3, <1>4, <2>3 DEF Awaits, ApprovalKept
    <3>6. status'[o] = "cancelled"
      BY <1>6, <2>3
    <3> QED
      BY <3>4, <3>5, <3>6 DEF Claims, StockState
  <2>4. LineFollows(l)'
    BY <1>9, <1>12, <2>3 DEF LineFollows, Raced, Claims, Awaits, If
  <2> QED
    BY <2>2, <2>4
<1>13. SalesInvariant'
  <2>1. \A q \in Request : IF Idle(q)' THEN seen'[q] = {} ELSE RequestKnows(q)'
    BY <1>3, <1>4, <1>11, EndKnows
  <2> QED
    BY <1>8, <1>11, <1>12, <2>1, Rows
<1>14. StaysFinal
  BY <1>3, <1>4, <1>6 DEF StaysFinal
<1> QED
  BY <1>10, <1>13, <1>14

-----------------------------------------------------------------------------
(* Reading *)

LEMMA BeginKeeps ==
  ASSUME TypeOK, SalesInvariant, NEW r \in Request, NEW p \in {"read", "deciding"}, NEW o \in Order,
         NEW st \in Status, NEW a \in Approval \cup {NoApproval}, NEW i \in 1..Steps, Begin(r, p, o, st, a, i),
         status[o] # "absent",
         p = "read" => st = status[o] /\ Exists(o),
         p = "deciding" => a \in Approval /\ Awaits(a, o) /\ start[a]..(i - 1) \subseteq signed[a]
  PROVE  TypeOK' /\ SalesInvariant' /\ StaysFinal
<1>1. UNCHANGED <<status, home, live, stockVars, appVars, seen>>
  BY DEF Begin
<1>2. /\ phase'[r] = p /\ about'[r] = o /\ from'[r] = st /\ decides'[r] = a /\ atStep'[r] = i
      /\ \A q \in Request \ {r} : RowKept(q)
  BY DEF Begin, TypeOK, RowKept
<1>3. /\ overlaps' \in [Order -> Nat]
      /\ \A n \in Order : Raced(n) => Raced(n)'
      /\ ~Raced(o)' => InFlight(o) = {}
  <2>1. CASE InFlight(o) = {}
    BY <2>1 DEF Begin, TypeOK, Raced
  <2>2. CASE InFlight(o) # {}
    <3>1. overlaps' = [overlaps EXCEPT ![o] = @ + 1]
      BY <2>2 DEF Begin
    <3> QED
      BY <3>1 DEF TypeOK, Raced
  <2> QED
    BY <2>1, <2>2
<1>4. TypeOK'
  <2>1. OrderTypes' /\ StockTypes' /\ AppTypes'
    BY <1>1 DEF OrderTypes, StockTypes, AppTypes, TypeOK, stockVars, elseVars, appVars
  <2>2. RequestTypes'
    BY <1>1, <1>3 DEF Begin, RequestTypes, TypeOK
  <2> QED
    BY <2>1, <2>2, TypesAreTypeOK
<1>5. ASSUME NEW l \in Line PROVE LineKnows(l)' /\ LineFollows(l)'
  <2>1. LineKnows(l) /\ LineFollows(l)
    BY ByRow
  <2>2. LineKnows(l)'
    BY <1>1, <2>1 DEF LineKnows, stockVars
  <2>3. home[l] \in Order \cup {NoOrder}
    BY DEF TypeOK
  <2>4. LineFollows(l)'
    BY <1>1, <1>3, <2>1, <2>3 DEF LineFollows, Claims, Awaits, If, stockVars, appVars, Raced
  <2> QED
    BY <2>2, <2>4
<1>6. ASSUME NEW b \in Approval
      PROVE  (appState'[b] # "absent" => ApprovalKnows(b)') /\ Signed(b)'
  <2>1. (appState[b] # "absent" => ApprovalKnows(b)) /\ Signed(b)
    BY ByRow
  <2>2. Signed(b)'
    BY <1>1, <2>1 DEF Signed, appVars
  <2>3. appState'[b] # "absent" => ApprovalKnows(b)'
    BY <1>1, <1>3, <2>1 DEF ApprovalKnows, appVars, Awaits, Raced
  <2> QED
    BY <2>2, <2>3
<1>7. ASSUME NEW q \in Request PROVE IF Idle(q)' THEN seen'[q] = {} ELSE RequestKnows(q)'
  <2>1. CASE q = r
    <3>1. ~Idle(r)'
      BY <1>2 DEF Idle
    <3>2. seen'[r] = {}
      BY <1>1, ByRow DEF Begin, Idle
    <3>3. ~Raced(o)' => \A n \in Request : ~Idle(n)' /\ about'[n] = o => n = r
      BY <1>2, <1>3 DEF InFlight, RowKept, Idle
    <3>4. p = "deciding" => Awaits(a, o)' /\ appState'[a] # "absent" /\ appOrder'[a] = o
      BY <1>1 DEF Awaits, appVars
    <3>5. RequestKnows(r)'
      BY <1>1, <1>2, <3>2, <3>3, <3>4 DEF RequestKnows, Exists, appVars, Awaits
    <3> QED
      BY <2>1, <3>1, <3>5
  <2>2. CASE q # r
    <3>1. RowKept(q) /\ (IF Idle(q) THEN seen[q] = {} ELSE RequestKnows(q))
      BY <1>2, <2>2, ByRow
    <3>2. CASE Idle(q)
      BY <3>1, <3>2 DEF RowKept, Idle
    <3>3. CASE ~Idle(q)
      <4>1. PICK n \in Order : n = about[q]
        BY <3>1, <3>3 DEF RequestKnows
      <4>2. n = o => Raced(n)'
        BY <1>3, <3>3, <4>1 DEF InFlight
      <4>3. ~Raced(n)' => ~Raced(n) /\ n # o
        BY <1>3, <4>2
      <4>4. ~Raced(n)' => \A m \in Request : ~Idle(m)' /\ about'[m] = n => m = q
        BY <1>2, <3>1, <3>3, <4>1, <4>3 DEF RequestKnows, RowKept, Idle
      <4>5. about'[q] = n /\ ~Idle(q)'
        BY <3>1, <3>3, <4>1 DEF RowKept, Idle
      <4>6. RequestKnows(q)'
        BY <1>1, <3>1, <3>3, <4>1, <4>3, <4>4, <4>5 DEF RequestKnows, RowKept, Exists, Lines, Awaits, appVars, Raced
      <4> QED
        BY <4>5, <4>6
    <3> QED
      BY <3>2, <3>3
  <2> QED
    BY <2>1, <2>2
<1>8. SalesInvariant'
  BY <1>5, <1>6, <1>7, ByRow
<1> QED
  BY <1>1, <1>4, <1>8 DEF StaysFinal

LEMMA ReadOrderKeeps ==
  ASSUME TypeOK, SalesInvariant, NEW r \in Request, NEW o \in Order, ReadOrder(r, o)
  PROVE  TypeOK' /\ SalesInvariant' /\ StaysFinal
<1>1. PICK st \in Status : st = status[o]
  BY DEF ReadOrder, Exists, TypeOK
<1>2. Exists(o) /\ status[o] # "absent" /\ Begin(r, "read", o, st, NoApproval, 1) /\ 1 \in 1..Steps
  BY <1>1, SalesAssumption DEF ReadOrder, Exists
<1> QED
  BY <1>1, <1>2, BeginKeeps

LEMMA ReadApprovalKeeps ==
  ASSUME TypeOK, SalesInvariant, NEW r \in Request, NEW a \in Approval, ReadApproval(r, a)
  PROVE  TypeOK' /\ SalesInvariant' /\ StaysFinal
<1>1. appState[a] = "pending" /\ ApprovalKnows(a)
  BY ByRow DEF ReadApproval
<1>2. PICK o \in Order, i \in 1..Steps : o = appOrder[a] /\ i = appStep[a]
  BY <1>1 DEF ApprovalKnows, TypeOK
<1>3. Begin(r, "deciding", o, "draft", a, i)
  BY <1>2 DEF ReadApproval
<1>4. status[o] # "absent" /\ Awaits(a, o) /\ start[a]..(i - 1) \subseteq signed[a]
  BY <1>1, <1>2 DEF ApprovalKnows, Awaits
<1>5. "draft" \in Status
  BY DEF Status
<1> QED
  BY <1>3, <1>4, <1>5, BeginKeeps

LEMMA SeesKeeps ==
  ASSUME TypeOK, SalesInvariant, NEW r \in Request, NEW p \in {"lines", "waiting", "locked"},
         NEW S \in SUBSET Line, ~Idle(r), phase[r] # "deciding",
         \A l \in S : home[l] = about[r], ~Raced(about[r]) => S = Lines(about[r]), Sees(r, p, S)
  PROVE  TypeOK' /\ SalesInvariant' /\ StaysFinal
<1>1. ~Idle(r) /\ RequestKnows(r)
  BY ByRow
<1>2. UNCHANGED <<status, home, live, stockVars, appVars, about, from, decides, atStep, overlaps>>
  BY DEF Sees
<1>3. PICK o \in Order : o = about[r]
  BY <1>1 DEF RequestKnows
<1>4. /\ phase'[r] = p /\ seen'[r] = S /\ about'[r] = o /\ from'[r] = from[r]
      /\ \A q \in Request \ {r} : RowKept(q)
  BY <1>2, <1>3 DEF Sees, TypeOK, RowKept
<1>5. TypeOK'
  <2>1. OrderTypes' /\ StockTypes' /\ AppTypes'
    BY <1>2 DEF OrderTypes, StockTypes, AppTypes, TypeOK, stockVars, elseVars, appVars
  <2>2. RequestTypes'
    BY <1>2, <1>3 DEF Sees, RequestTypes, TypeOK
  <2> QED
    BY <2>1, <2>2, TypesAreTypeOK
<1>6. \A l \in Line : LineKnows(l)' /\ LineFollows(l)'
  BY <1>2, ByRow DEF LineKnows, LineFollows, Claims, Awaits, Raced, If, stockVars, appVars
<1>7. \A b \in Approval : (appState'[b] # "absent" => ApprovalKnows(b)') /\ Signed(b)'
  BY <1>2, ByRow DEF ApprovalKnows, Signed, Awaits, Raced, appVars
<1>8. ASSUME NEW q \in Request PROVE IF Idle(q)' THEN seen'[q] = {} ELSE RequestKnows(q)'
  <2>1. \A m \in Request : ~Idle(m)' /\ about'[m] = about[q] => ~Idle(m) /\ about[m] = about[q]
    BY <1>1, <1>2, <1>4 DEF RowKept, Idle
  <2>2. CASE q = r
    <3>1. ~Idle(r)' /\ (~Raced(o) => S = Lines(o)')
      BY <1>2, <1>3, <1>4 DEF Idle, Lines
    <3>2. \A l \in S : home'[l] = o
      BY <1>2, <1>3
    <3>3. /\ o \in Order /\ status[o] # "absent"
          /\ ~Raced(o) => /\ \A m \in Request : ~Idle(m) /\ about[m] = o => m = r
                          /\ from[r] = status[o] /\ Exists(o)
      BY <1>1, <1>3 DEF RequestKnows
    <3>4. RequestKnows(r)'
      BY <1>2, <1>3, <1>4, <2>1, <2>2, <3>1, <3>2, <3>3 DEF RequestKnows, Exists, Raced, Lines
    <3> QED
      BY <2>2, <3>1, <3>4
  <2>3. CASE q # r
    <3>1. RowKept(q) /\ (IF Idle(q) THEN seen[q] = {} ELSE RequestKnows(q))
      BY <1>4, <2>3, ByRow
    <3>2. CASE Idle(q)
      BY <3>1, <3>2 DEF RowKept, Idle
    <3>3. CASE ~Idle(q)
      <4>1. RequestKnows(q)'
        BY <1>2, <2>1, <3>1, <3>3 DEF RequestKnows, RowKept, Exists, Lines, Awaits, appVars, Raced
      <4> QED
        BY <3>1, <3>3, <4>1 DEF RowKept, Idle
    <3> QED
      BY <3>2, <3>3
  <2> QED
    BY <2>2, <2>3
<1>9. SalesInvariant'
  BY <1>6, <1>7, <1>8, ByRow
<1> QED
  BY <1>2, <1>5, <1>9 DEF StaysFinal

LEMMA LinesKeep ==
  ASSUME TypeOK, SalesInvariant, NEW r \in Request, ReadLines(r) \/ LockLines(r) \/ GetLines(r)
  PROVE  TypeOK' /\ SalesInvariant' /\ StaysFinal
<1>1. ~Idle(r) /\ phase[r] # "deciding" /\ RequestKnows(r)
  BY ByRow DEF ReadLines, LockLines, GetLines, Idle
<1>2. PICK o \in Order : o = about[r]
  BY <1>1 DEF RequestKnows
<1>3. CASE ReadLines(r) \/ LockLines(r)
  <2>1. PICK p \in {"lines", "waiting", "locked"} : Sees(r, p, Lines(o))
    BY <1>2, <1>3 DEF ReadLines, LockLines
  <2>2. Lines(o) \in SUBSET Line /\ \A l \in Lines(o) : home[l] = o
    BY DEF Lines
  <2> QED
    BY <1>1, <1>2, <2>1, <2>2, SeesKeeps
<1>4. CASE GetLines(r)
  <2> DEFINE S == {l \in seen[r] : live[l]}
  <2>1. S \in SUBSET Line /\ (\A l \in S : home[l] = about[r]) /\ Sees(r, "locked", S)
    BY <1>1, <1>4, Acting DEF GetLines
  <2>2. ~Raced(about[r]) => seen[r] = Lines(about[r])
    BY <1>1, <1>4 DEF RequestKnows, GetLines
  <2>3. ~Raced(about[r]) => S = Lines(about[r])
    BY <2>2 DEF Lines
  <2> HIDE DEF S
  <2> QED
    BY <1>1, <2>1, <2>3, SeesKeeps
<1> QED
  BY <1>3, <1>4

-----------------------------------------------------------------------------
(* Stock of others, and nothing *)

LEMMA NothingMoves ==
  ASSUME TypeOK, SalesInvariant, StockTypes',
         UNCHANGED <<status, home, live, held, out, appVars, requestVars, overlaps>>
  PROVE  TypeOK' /\ SalesInvariant' /\ StaysFinal
<1>1. TypeOK'
  <2>1. OrderTypes' /\ AppTypes' /\ RequestTypes'
    BY DEF OrderTypes, AppTypes, RequestTypes, TypeOK, appVars, requestVars
  <2> QED
    BY <2>1, TypesAreTypeOK
<1>2. \A l \in Line : LineKnows(l)' /\ LineFollows(l)'
  BY ByRow DEF LineKnows, LineFollows, Claims, Awaits, Raced, If, appVars
<1>3. \A b \in Approval : (appState'[b] # "absent" => ApprovalKnows(b)') /\ Signed(b)'
  BY ByRow DEF ApprovalKnows, Signed, Awaits, Raced, appVars
<1>4. \A q \in Request : IF Idle(q)' THEN seen'[q] = {} ELSE RequestKnows(q)'
  BY ByRow DEF RequestKnows, Exists, Lines, Awaits, Raced, Idle, appVars, requestVars
<1>5. SalesInvariant'
  BY <1>2, <1>3, <1>4, ByRow
<1> QED
  BY <1>1, <1>5 DEF StaysFinal

LEMMA ElsewhereKeeps ==
  ASSUME TypeOK, SalesInvariant, StockElsewhere
  PROVE  TypeOK' /\ SalesInvariant' /\ StaysFinal
<1>1. StockTypes' /\ UNCHANGED <<status, home, live, held, out, appVars, requestVars, overlaps>>
  BY DEF StockElsewhere, Elsewhere, StockTypes, TypeOK
<1> QED
  BY <1>1, NothingMoves

LEMMA InitInv == Init => TypeOK /\ SalesInvariant
<1> SUFFICES ASSUME Init PROVE TypeOK /\ SalesInvariant
  OBVIOUS
<1>1. "draft" \in Status /\ 1 \in 1..Steps /\ OpeningStock \in Nat
  BY SalesAssumption DEF Status
<1>2. TypeOK
  BY <1>1 DEF Init, TypeOK
<1>3. SalesInvariant
  BY SalesAssumption DEF Init, SalesInvariant, RequestsKnow, ApprovalsKnow, LinesKnow, StockFollowsStatus,
                        EveryStepSigned, Idle
<1> QED
  BY <1>2, <1>3

LEMMA NextInv ==
  ASSUME TypeOK, SalesInvariant, [Next]_vars
  PROVE  TypeOK' /\ SalesInvariant' /\ StaysFinal
<1>1. CASE StockElsewhere
  BY <1>1, ElsewhereKeeps
<1>2. CASE \E o \in Order, st \in Status, N \in SUBSET Line : Create(o, st, N)
  BY <1>2, CreateKeeps
<1>3. CASE \E r \in Request, o \in Order : ReadOrder(r, o)
  BY <1>3, ReadOrderKeeps
<1>4. CASE \E r \in Request : ReadLines(r) \/ LockLines(r) \/ GetLines(r) \/ Delete(r) \/ Refuse(r)
  BY <1>4, LinesKeep, DeleteKeeps, RefuseKeeps
<1>5. CASE \E r \in Request, st \in Status : EditStatus(r, st) \/ \E N \in SUBSET Line : EditLines(r, st, N)
  BY <1>5, EditStatusKeeps, EditLinesKeeps
<1>6. CASE \E r \in Request, l \in Line : AddLine(r, l) \/ DropLine(r, l)
  BY <1>6, AddLineKeeps, DropLineKeeps
<1>7. CASE \E r \in Request, a \in Approval :
             ReadApproval(r, a) \/ ApproveStep(r, a) \/ ApproveLast(r, a) \/ Reject(r, a)
  BY <1>7, ReadApprovalKeeps, ApproveStepKeeps, ApproveLastKeeps, RejectKeeps
<1>8. CASE UNCHANGED vars
  <2>1. StockTypes' /\ UNCHANGED <<status, home, live, held, out, appVars, requestVars, overlaps>>
    BY <1>8 DEF vars, stockVars, elseVars, StockTypes, TypeOK
  <2> QED
    BY <2>1, NothingMoves
<1> QED
  BY <1>1, <1>2, <1>3, <1>4, <1>5, <1>6, <1>7, <1>8 DEF Next

-----------------------------------------------------------------------------
(* The theorems *)

\* The inductive invariant of the sales orders (sales.ts, governance.ts): what a
\* request read is so unless another interfered, an order waits for one approval at
\* most, and the stock of its lines is what its status says.
THEOREM SalesCorrect == Spec => []SalesInvariant
<1>1. Init => Inv
  BY InitInv DEF Inv
<1>2. Inv /\ [Next]_vars => Inv'
  BY NextInv DEF Inv
<1>3. Inv => SalesInvariant
  BY DEF Inv
<1> QED
  BY <1>1, <1>2, <1>3, PTL DEF Spec

\* No request, in any interleaving, reserves or deducts more than there is, or
\* releases more than is reserved (lib/stock.ts).
THEOREM SalesTypes == Spec => []TypeOK
<1>1. Init => Inv
  BY InitInv DEF Inv
<1>2. Inv /\ [Next]_vars => Inv'
  BY NextInv DEF Inv
<1>3. Inv => TypeOK
  BY DEF Inv
<1> QED
  BY <1>1, <1>2, <1>3, PTL DEF Spec

\* Each line of an order that no two requests handled at once is reserved or deducted
\* exactly once, exactly while its status or the status it waits for says so.
THEOREM StockFollows == Spec => []StockFollowsStatus
<1>1. SalesInvariant => StockFollowsStatus
  BY DEF SalesInvariant
<1> QED
  BY <1>1, SalesCorrect, PTL

\* No approval is given without a signature at each step, also when two decisions
\* read the same step (the decision route of governance.ts).
THEOREM SignedThroughout == Spec => []EveryStepSigned
<1>1. SalesInvariant => EveryStepSigned
  BY DEF SalesInvariant
<1> QED
  BY <1>1, SalesCorrect, PTL

\* A cancelled order that no two requests handled at once stays cancelled.
THEOREM StaysCancelled == Spec => FinalUnlessRaced
<1>1. Init => Inv
  BY InitInv DEF Inv
<1>2. Inv /\ [Next]_vars => Inv' /\ StaysFinal
  BY NextInv DEF Inv
<1>3. StaysFinal => \A o \in Order : ~Raced(o) /\ status[o] = "cancelled" => status'[o] \in {"cancelled", "deleted"}
  BY DEF StaysFinal
<1> QED
  BY <1>1, <1>2, <1>3, PTL DEF Spec, FinalUnlessRaced
-----------------------------------------------------------------------------
(* The item's quantities: what the lines hold is counted line by line *)

\* As long as nobody raced, a line holds one unit or none, and those that hold one
\* are those that are to.
LEMMA HeldLines ==
  ASSUME TypeOK, SalesInvariant, \A o \in Order : ~Raced(o)
  PROVE  /\ \A l \in Line : held[l] \in {0, 1} /\ out[l] \in {0, 1}
         /\ {l \in Line : live[l] /\ Claims(home[l], "reserved")} = {l \in Line : held[l] = 1}
         /\ {l \in Line : live[l] /\ Claims(home[l], "deducted")} = {l \in Line : out[l] = 1}
<1>1. ASSUME NEW l \in Line
      PROVE  /\ held[l] = If(live[l] /\ Claims(home[l], "reserved"))
             /\ out[l] = If(live[l] /\ Claims(home[l], "deducted"))
  <2>1. CASE home[l] = NoOrder
    BY <2>1 DEF SalesInvariant, LinesKnow, If
  <2>2. CASE home[l] # NoOrder
    BY <2>2 DEF SalesInvariant, StockFollowsStatus, TypeOK
  <2> QED
    BY <2>1, <2>2
<1> QED
  BY <1>1 DEF If

\* A settlement changes a quantity by the number of lines that give it back and of
\* lines that take it.
LEMMA LinesMoved ==
  ASSUME NEW f \in [Line -> {0, 1}], NEW g \in [Line -> {0, 1}],
         NEW S \in SUBSET Line, NEW T \in SUBSET Line, S \cap T = {},
         \A l \in Line : g[l] = f[l] - If(l \in S) + If(l \in T)
  PROVE  Cardinality({l \in Line : g[l] = 1})
           = Cardinality({l \in Line : f[l] = 1}) - Cardinality(S) + Cardinality(T)
<1> DEFINE F == {l \in Line : f[l] = 1}
           G == {l \in Line : g[l] = 1}
<1>1. S \subseteq F /\ T \cap F = {}
  BY DEF If
<1>2. G = (F \ S) \cup T /\ (F \ S) \cap T = {} /\ F \cap S = S
  BY <1>1 DEF If
<1>3. IsFiniteSet(F) /\ IsFiniteSet(S) /\ IsFiniteSet(T) /\ F \in SUBSET Line
  BY SalesAssumption, FS_Subset
<1> HIDE DEF F, G
<1>4. IsFiniteSet(F \ S) /\ Cardinality(F \ S) = Cardinality(F) - Cardinality(F \cap S)
  BY <1>3, FS_Difference
<1>5. Cardinality((F \ S) \cup T)
        = Cardinality(F \ S) + Cardinality(T) - Cardinality((F \ S) \cap T)
  BY <1>3, <1>4, FS_Union
<1>6. Cardinality((F \ S) \cap T) = 0
  BY <1>2, FS_EmptySet
<1>7. Cardinality(F) \in Nat /\ Cardinality(S) \in Nat /\ Cardinality(T) \in Nat
  BY <1>3, CardinalityNat
<1>8. /\ Cardinality(G) = Cardinality((F \ S) \cup T)
      /\ Cardinality(F \cap S) = Cardinality(S)
  BY <1>2, Zenon
<1>9. Cardinality(G) = Cardinality(F) - Cardinality(S) + Cardinality(T)
  BY <1>4, <1>5, <1>6, <1>7, <1>8
<1>10. F = {l \in Line : f[l] = 1} /\ G = {l \in Line : g[l] = 1}
  BY DEF F, G
<1> QED
  BY <1>9, <1>10, Zenon

Accounted(f, g) ==
  /\ reserved = Cardinality({l \in Line : f[l] = 1}) + heldElsewhere
  /\ onHand = OpeningStock - Cardinality({l \in Line : g[l] = 1}) - outElsewhere

\* A settlement moves lines out of one account and into another.
LEMMA SettleAccounts ==
  ASSUME TypeOK, NEW a, NEW b, NEW S \in SUBSET Line, NEW T \in SUBSET Line, Settle(a, S, b, T),
         a # b \/ S \cap T = {},
         \A l \in Line : held[l] \in {0, 1} /\ out[l] \in {0, 1},
         \A l \in Line : held'[l] \in {0, 1} /\ out'[l] \in {0, 1},
         Accounted(held, out)
  PROVE  Accounted(held, out)'
<1> DEFINE In(x, y, U) == IF x = y THEN U ELSE {}
<1>1. /\ held \in [Line -> {0, 1}] /\ out \in [Line -> {0, 1}]
      /\ held' \in [Line -> {0, 1}] /\ out' \in [Line -> {0, 1}]
  BY DEF Settle, TypeOK
<1>2. \A x : /\ In(a, x, S) \in SUBSET Line /\ In(b, x, T) \in SUBSET Line
             /\ In(a, x, S) \cap In(b, x, T) = {}
  OBVIOUS
<1>3. /\ \A l \in Line :
           held'[l] = held[l] - If(l \in In(a, "reserved", S)) + If(l \in In(b, "reserved", T))
      /\ \A l \in Line :
           out'[l] = out[l] - If(l \in In(a, "deducted", S)) + If(l \in In(b, "deducted", T))
  BY DEF Settle, If
<1>4. Cardinality({}) = 0
  BY FS_EmptySet
<1>5. /\ reserved' = reserved - Cardinality(In(a, "reserved", S)) + Cardinality(In(b, "reserved", T))
      /\ onHand' = onHand + Cardinality(In(a, "deducted", S)) - Cardinality(In(b, "deducted", T))
      /\ UNCHANGED <<heldElsewhere, outElsewhere>>
  BY <1>4, CardinalityNat DEF Settle, TypeOK, elseVars
<1> HIDE DEF In
<1>6. Cardinality({l \in Line : held'[l] = 1})
        = Cardinality({l \in Line : held[l] = 1})
            - Cardinality(In(a, "reserved", S)) + Cardinality(In(b, "reserved", T))
  BY <1>1, <1>2, <1>3, LinesMoved
<1>7. Cardinality({l \in Line : out'[l] = 1})
        = Cardinality({l \in Line : out[l] = 1})
            - Cardinality(In(a, "deducted", S)) + Cardinality(In(b, "deducted", T))
  BY <1>1, <1>2, <1>3, LinesMoved
<1>8. /\ \A x : Cardinality(In(a, x, S)) \in Nat /\ Cardinality(In(b, x, T)) \in Nat
      /\ Cardinality({l \in Line : held[l] = 1}) \in Nat
      /\ Cardinality({l \in Line : out[l] = 1}) \in Nat
      /\ heldElsewhere \in Nat /\ outElsewhere \in Int /\ OpeningStock \in Nat
  BY <1>2, CardinalityNat, SalesAssumption DEF TypeOK
<1> QED
  BY <1>5, <1>6, <1>7, <1>8 DEF Accounted

\* A plan settles the lines it read, or changes nothing.
LEMMA PlanSettles ==
  ASSUME NEW a, NEW b, NEW S, ApplyPlan(a, b, S)
  PROVE  \/ UNCHANGED stockVars
         \/ \E x, y : x # y /\ Settle(x, S, y, S)
  BY DEF ApplyPlan

\* Every step that moves stock is a settlement of lines that give back and other
\* lines that take, or somebody else's.
LEMMA StockSteps ==
  ASSUME TypeOK, SalesInvariant, [Next]_vars
  PROVE  \/ UNCHANGED stockVars
         \/ StockElsewhere
         \/ \E a, b : \E S, T \in SUBSET Line : (a # b \/ S \cap T = {}) /\ Settle(a, S, b, T)
<1> DEFINE Settles == \E a, b : \E S, T \in SUBSET Line : (a # b \/ S \cap T = {}) /\ Settle(a, S, b, T)
<1>1. ASSUME NEW a, NEW b, NEW S \in SUBSET Line, ApplyPlan(a, b, S)
      PROVE  UNCHANGED stockVars \/ Settles
  BY <1>1, PlanSettles
<1>2. ASSUME NEW o \in Order, NEW st \in Status, NEW N \in SUBSET Line, Create(o, st, N)
      PROVE  UNCHANGED stockVars \/ Settles
  BY <1>1, <1>2 DEF Create
<1>3. ASSUME NEW r \in Request
      PROVE  seen[r] \in SUBSET Line
  BY DEF TypeOK
<1>4. ASSUME NEW r \in Request, NEW st \in Status, EditStatus(r, st)
      PROVE  UNCHANGED stockVars \/ Settles
  BY <1>1, <1>3, <1>4 DEF EditStatus
<1>5. ASSUME NEW r \in Request, Delete(r) PROVE UNCHANGED stockVars \/ Settles
  BY <1>1, <1>3, <1>5 DEF Delete
<1>6. ASSUME NEW r \in Request, NEW st \in Status, NEW N \in SUBSET Line, EditLines(r, st, N)
      PROVE  Settles
  <2>1. ~Idle(r) /\ N \subseteq Fresh /\ Settle(StockState(from[r]), seen[r], StockState(st), N)
    BY <1>6 DEF EditLines, Idle
  <2>2. about[r] # NoOrder /\ \A l \in seen[r] : home[l] = about[r]
    BY <2>1, Acting, SalesAssumption
  <2>3. seen[r] \cap N = {}
    BY <2>1, <2>2 DEF Fresh
  <2> QED
    BY <1>3, <2>1, <2>3
<1>7. ASSUME NEW r \in Request, NEW l \in Line, AddLine(r, l) PROVE Settles
  BY <1>7 DEF AddLine
<1>8. ASSUME NEW r \in Request, NEW l \in Line, DropLine(r, l) PROVE Settles
  BY <1>8 DEF DropLine
<1>9. ASSUME NEW r \in Request, NEW a \in Approval, Reject(r, a)
      PROVE  UNCHANGED stockVars \/ Settles
  <2>1. Lines(appOrder[a]) \in SUBSET Line /\ {} \in SUBSET Line
    BY DEF Lines
  <2> QED
    BY <1>9, <2>1 DEF Reject
<1>10. ASSUME NEW r \in Request,
              ReadLines(r) \/ LockLines(r) \/ GetLines(r) \/ Refuse(r)
                \/ (\E o \in Order : ReadOrder(r, o))
                \/ \E a \in Approval : ReadApproval(r, a) \/ ApproveStep(r, a) \/ ApproveLast(r, a)
       PROVE  UNCHANGED stockVars
  BY <1>10
     DEF ReadLines, LockLines, GetLines, Refuse, ReadOrder, ReadApproval, ApproveStep, ApproveLast,
         Sees, Begin
<1>11. UNCHANGED vars => UNCHANGED stockVars
  BY DEF vars
<1> QED
  <2> HIDE DEF Settles
  <2>1. UNCHANGED stockVars \/ StockElsewhere \/ Settles
    BY <1>2, <1>4, <1>5, <1>6, <1>7, <1>8, <1>9, <1>10, <1>11 DEF Next
  <2> QED
    BY <2>1 DEF Settles

\* A race is never forgotten.
LEMMA RacesStay ==
  ASSUME TypeOK, [Next]_vars, NEW o \in Order, ~Raced(o)' PROVE ~Raced(o)
<1>1. ASSUME NEW r, NEW p, NEW q, NEW st, NEW a, NEW i, Begin(r, p, q, st, a, i)
      PROVE  ~Raced(o)
  BY <1>1 DEF Begin, Raced, TypeOK
<1>2. CASE UNCHANGED overlaps
  BY <1>2 DEF Raced
<1>3. \/ UNCHANGED overlaps
      \/ \E r \in Request, q \in Order : ReadOrder(r, q)
      \/ \E r \in Request, a \in Approval : ReadApproval(r, a)
  BY DEF Next, vars, StockElsewhere, Elsewhere, Create, ReadLines, LockLines, GetLines, Sees, Delete,
         Refuse, EditStatus, EditLines, AddLine, DropLine, ApproveStep, ApproveLast, Reject, Decided, End
<1> QED
  BY <1>1, <1>2, <1>3 DEF ReadOrder, ReadApproval

\* With no overlap at all, the item's quantities are what the orders and the others
\* hold of it: no reservation is lost, made twice or given back twice (sales.ts,
\* governance.ts, lib/stock.ts).
THEOREM StockAccounted == Spec => []StockIsAccountedFor
<1> DEFINE Unraced == \A o \in Order : ~Raced(o)
           Accounts == Unraced => Accounted(held, out)
           Units == \A l \in Line : held[l] \in {0, 1} /\ out[l] \in {0, 1}
<1>1. Init => Accounts
  <2> SUFFICES ASSUME Init PROVE Accounted(held, out)
    OBVIOUS
  <2>1. /\ {l \in Line : held[l] = 1} = {} /\ {l \in Line : out[l] = 1} = {}
        /\ onHand = OpeningStock /\ reserved = 0 /\ heldElsewhere = 0 /\ outElsewhere = 0
    BY DEF Init
  <2> QED
    BY <2>1, FS_EmptySet, SalesAssumption DEF Accounted
<1>2. Inv /\ Unraced => Units
  BY HeldLines DEF Inv
<1>3. Inv' /\ Unraced' => Units'
  <2> HIDE DEF Unraced, Units
  <2> QED
    BY <1>2, PTL
<1>4. Inv /\ Inv' /\ Accounts /\ [Next]_vars => Accounts'
  <2> SUFFICES ASSUME Inv, Inv', Accounts, [Next]_vars, Unraced' PROVE Accounted(held, out)'
    OBVIOUS
  <2>1. Unraced
    BY RacesStay DEF Inv
  <2>2. Accounted(held, out)
    BY <2>1
  <2>3. \A l \in Line : held[l] \in {0, 1} /\ out[l] \in {0, 1}
    BY <1>2, <2>1
  <2>4. \A l \in Line : held'[l] \in {0, 1} /\ out'[l] \in {0, 1}
    BY <1>3
  <2>5. CASE UNCHANGED stockVars
    BY <2>2, <2>5 DEF Accounted, stockVars, elseVars
  <2>6. CASE StockElsewhere
    <3>1. PICK q, h \in Int : Elsewhere(q, h)
      BY <2>6 DEF StockElsewhere
    <3>2. /\ Cardinality({l \in Line : held[l] = 1}) \in Nat
          /\ Cardinality({l \in Line : out[l] = 1}) \in Nat
          /\ OpeningStock \in Nat
      BY CardinalityNat, SalesAssumption
    <3> QED
      BY <2>2, <3>1, <3>2 DEF Accounted, Elsewhere, Inv, TypeOK
  <2>7. ASSUME NEW a, NEW b, NEW S \in SUBSET Line, NEW T \in SUBSET Line,
               a # b \/ S \cap T = {}, Settle(a, S, b, T)
        PROVE  Accounted(held, out)'
    BY <2>2, <2>3, <2>4, <2>7, SettleAccounts DEF Inv
  <2> QED
    BY <2>5, <2>6, <2>7, StockSteps DEF Inv
<1>5. Inv /\ Accounts => StockIsAccountedFor
  <2> SUFFICES ASSUME Inv, Unraced, Accounted(held, out)
               PROVE  /\ reserved = Cardinality({l \in Line : live[l] /\ Claims(home[l], "reserved")})
                                      + heldElsewhere
                      /\ onHand = OpeningStock
                                    - Cardinality({l \in Line : live[l] /\ Claims(home[l], "deducted")})
                                    - outElsewhere
    BY DEF StockIsAccountedFor
  <2> QED
    BY HeldLines DEF Accounted, Inv
<1>6. Init => Inv
  BY InitInv DEF Inv
<1>7. Inv /\ [Next]_vars => Inv'
  BY NextInv DEF Inv
<1> HIDE DEF Accounts
<1> QED
  BY <1>1, <1>4, <1>5, <1>6, <1>7, PTL DEF Spec
=============================================================================
