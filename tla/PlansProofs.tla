------------------------------ MODULE PlansProofs ------------------------------
(***************************************************************************)
(* However requests race, an approved plan yields only to another approval *)
(* and an ended plan stays ended: the lock of the plan under decision and  *)
(* what the decision may have found approved suffice.  And where no two    *)
(* requests are about one order at once, one plan of it is approved, and   *)
(* the reserve holds for each plan what its row says: what a request reads *)
(* without a lock is then still so when it writes.                         *)
(***************************************************************************)
EXTENDS PlansProperties, FiniteSetTheorems, WellFoundedInduction, TLAPS

\* What YieldsToApproval and EndedPlansStayEnded say of one step.
Yields ==
  \A p \in Plan : planStatus[p] = "approved" /\ planStatus'[p] # "approved" =>
    /\ planStatus'[p] = "superseded"
    /\ \E q \in Plan \ {p} : /\ OrderOf[q] = OrderOf[p]
                             /\ planStatus[q] # "approved" /\ planStatus'[q] = "approved"

StayEnded == \A p \in Plan : planStatus[p] \in {"rejected", "superseded"} => planStatus'[p] = planStatus[p]

Sound == PlansInvariant' /\ Yields /\ StayEnded

\* A request that has ended knows nothing that could become false.
LEMMA EndTypes ==
  ASSUME StatusTypes, NEW r \in Request, End(r), planStatus' \in [Plan -> PlanStatus]
  PROVE  /\ StatusTypes'
         /\ phase'[r] = "idle"
         /\ \A s \in Request \ {r} : phase'[s] = phase[s] /\ about'[s] = about[s] /\ seen'[s] = seen[s]
  BY DEF End, StatusTypes

\* The requests that go on know what they knew, when the plans they are about kept
\* their status and the plans they found approved are approved or superseded.
LEMMA EndKeeps ==
  ASSUME PlansInvariant, NEW r \in Request, End(r), planStatus' \in [Plan -> PlanStatus],
         \A s \in Request \ {r} : Deciding(s) =>
            /\ planStatus'[about[s]] \in Open
            /\ \A q \in seen[s] : planStatus'[q] \in {"approved", "superseded"},
         \A s \in Request \ {r} : phase[s] = "creating" => planStatus'[about[s]] = "absent"
  PROVE  PlansInvariant'
<1>1. /\ StatusTypes' /\ phase'[r] = "idle"
      /\ \A s \in Request \ {r} : phase'[s] = phase[s] /\ about'[s] = about[s] /\ seen'[s] = seen[s]
  BY EndTypes DEF PlansInvariant
<1>2. ASSUME NEW s \in Request, Deciding(s)' PROVE DecisionKnows(s)'
  <2>1. s # r /\ Deciding(s) /\ DecisionKnows(s)
    BY <1>1, <1>2 DEF Deciding, PlansInvariant
  <2>2. \A t \in Request : LockedBy(t, about[s])' => LockedBy(t, about[s])
    BY <1>1, <2>1 DEF LockedBy
  <2> QED
    BY <1>1, <2>1, <2>2 DEF DecisionKnows, LockedBy, PlansOf
<1>3. ASSUME NEW s \in Request, phase'[s] = "creating" PROVE CreationKnows(s)'
  <2>1. s # r /\ phase[s] = "creating" /\ CreationKnows(s)
    BY <1>1, <1>3 DEF PlansInvariant
  <2> QED
    BY <1>1, <2>1 DEF CreationKnows
<1> QED
  BY <1>1, <1>2, <1>3 DEF PlansInvariant

LEMMA SameStatus ==
  ASSUME UNCHANGED planStatus
  PROVE  Yields /\ StayEnded
  BY DEF Yields, StayEnded

LEMMA CreateSound ==
  ASSUME PlansInvariant, NEW r \in Request, Create(r)
  PROVE  Sound
<1>1. /\ about[r] \in Plan /\ planStatus[about[r]] = "absent" /\ phase[r] = "creating"
      /\ CreationKnows(r) /\ StatusTypes /\ seen[r] \subseteq Plan
  BY DEF Create, PlansInvariant, CreationKnows, StatusTypes
<1>2. /\ planStatus' \in [Plan -> PlanStatus]
      /\ \A q \in Plan : planStatus[q] \notin Open \cup {"absent"} => planStatus'[q] = planStatus[q]
      /\ \A q \in Plan \ {about[r]} : q \notin seen[r] => planStatus'[q] = planStatus[q]
      /\ \A q \in Plan \ {about[r]} : planStatus[q] = "absent" => planStatus'[q] = "absent"
  BY <1>1 DEF Create, StatusTypes, PlanStatus, Open
<1>3. ASSUME NEW s \in Request \ {r}, Deciding(s)
      PROVE  /\ planStatus'[about[s]] \in Open
             /\ \A q \in seen[s] : planStatus'[q] \in {"approved", "superseded"}
  <2>1. DecisionKnows(s) /\ LockedBy(s, about[s]) /\ seen[s] \subseteq Plan
    BY <1>1, <1>3 DEF PlansInvariant, Deciding, LockedBy, StatusTypes
  <2>2. about[s] \notin seen[r] /\ about[s] # about[r]
    BY <1>1, <2>1 DEF Create, Locked, DecisionKnows, Open
  <2> QED
    BY <1>2, <2>1, <2>2 DEF DecisionKnows, Open
<1>4. ASSUME NEW s \in Request \ {r}, phase[s] = "creating" PROVE planStatus'[about[s]] = "absent"
  BY <1>1, <1>2, <1>4 DEF PlansInvariant, CreationKnows
<1>5. PlansInvariant'
  BY <1>2, <1>3, <1>4, EndKeeps DEF Create
<1> QED
  BY <1>2, <1>5 DEF Sound, Yields, StayEnded, Open

\* Submitting and rejecting: a plan that is open and not locked moves to to.
LEMMA OpenMoves ==
  ASSUME PlansInvariant, NEW p \in Plan, ~Locked(p), planStatus[p] \in Open,
         NEW to \in {"submitted", "rejected"}, planStatus' = [planStatus EXCEPT ![p] = to],
         UNCHANGED requestVars
  PROVE  Sound
<1>1. UNCHANGED <<phase, about, seen>> /\ StatusTypes /\ StatusTypes'
  BY DEF requestVars, PlansInvariant, StatusTypes, PlanStatus
<1>2. ASSUME NEW r \in Request, Deciding(r)' PROVE DecisionKnows(r)'
  <2>1. Deciding(r) /\ DecisionKnows(r) /\ LockedBy(r, about[r]) /\ seen[r] \subseteq Plan
    BY <1>1, <1>2 DEF PlansInvariant, Deciding, LockedBy, StatusTypes
  <2>2. about[r] # p /\ p \notin seen[r]
    BY <2>1 DEF Locked, DecisionKnows, Open
  <2> QED
    BY <1>1, <2>1, <2>2 DEF DecisionKnows, LockedBy, PlansOf, StatusTypes
<1>3. ASSUME NEW r \in Request, phase'[r] = "creating" PROVE CreationKnows(r)'
  BY <1>1, <1>3 DEF PlansInvariant, CreationKnows, Open, StatusTypes
<1>4. PlansInvariant'
  BY <1>1, <1>2, <1>3 DEF PlansInvariant
<1> QED
  BY <1>1, <1>4 DEF Sound, Yields, StayEnded, Open, StatusTypes

LEMMA ApproveSound ==
  ASSUME PlansInvariant, NEW r \in Request, Approve(r)
  PROVE  Sound
<1>1. /\ DecisionKnows(r) /\ StatusTypes /\ seen[r] \subseteq Plan
      /\ about[r] \in Plan /\ planStatus[about[r]] \in Open /\ LockedBy(r, about[r])
  BY DEF Approve, PlansInvariant, Deciding, DecisionKnows, StatusTypes, LockedBy
<1>2. planStatus' = [q \in Plan |-> IF q = about[r] THEN "approved"
                                    ELSE IF q \in seen[r] THEN "superseded" ELSE planStatus[q]]
  BY DEF Approve
<1>3. planStatus' \in [Plan -> PlanStatus]
  BY <1>1, <1>2 DEF StatusTypes, PlanStatus
<1>4. ASSUME NEW s \in Request \ {r}, Deciding(s)
      PROVE  /\ planStatus'[about[s]] \in Open
             /\ \A q \in seen[s] : planStatus'[q] \in {"approved", "superseded"}
  <2>1. DecisionKnows(s) /\ LockedBy(s, about[s]) /\ seen[s] \subseteq Plan
    BY <1>1, <1>4 DEF PlansInvariant, Deciding, LockedBy, StatusTypes
  <2>2. about[s] # about[r] /\ about[s] \notin seen[r]
    BY <1>1, <2>1 DEF DecisionKnows, Open
  <2> QED
    BY <1>1, <1>2, <2>1, <2>2 DEF DecisionKnows
<1>5. ASSUME NEW s \in Request \ {r}, phase[s] = "creating" PROVE planStatus'[about[s]] = "absent"
  <2>1. CreationKnows(s)
    BY <1>5 DEF PlansInvariant
  <2> QED
    BY <1>1, <1>2, <2>1 DEF CreationKnows, DecisionKnows, Open
<1>6. PlansInvariant'
  BY <1>3, <1>4, <1>5, EndKeeps DEF Approve
<1>7. Yields
  BY <1>1, <1>2, PlansAssumption DEF Yields, DecisionKnows, PlansOf, Open
<1>8. StayEnded
  BY <1>1, <1>2 DEF StayEnded, DecisionKnows, Open
<1> QED
  BY <1>6, <1>7, <1>8 DEF Sound

\* A request begins, and the plans keep their status.
LEMMA BeginKeeps ==
  ASSUME PlansInvariant, NEW r \in Request, Idle(r), UNCHANGED planStatus,
         NEW ph \in {"creating", "older", "releasing", "plans"}, NEW p \in Plan \cup {NoPlan},
         NEW S \in SUBSET Plan,
         phase' = [phase EXCEPT ![r] = ph], about' = [about EXCEPT ![r] = p], seen' = [seen EXCEPT ![r] = S],
         ph \in {"older", "releasing"} => p \in Plan /\ ~Locked(p),
         ph = "older" => /\ planStatus[p] \in Open /\ S \subseteq PlansOf(OrderOf[p]) \ {p}
                         /\ \A q \in S : planStatus[q] = "approved",
         ph = "creating" => /\ p \in Plan /\ planStatus[p] = "absent"
                            /\ \A s \in Request : Idle(s) \/ about[s] # p
  PROVE  PlansInvariant'
<1>1. StatusTypes /\ StatusTypes'
  BY DEF PlansInvariant, StatusTypes
<1>2. ASSUME NEW s \in Request, Deciding(s)' PROVE DecisionKnows(s)'
  <2>1. CASE s = r
    BY <1>1, <1>2, <2>1 DEF Deciding, DecisionKnows, LockedBy, Locked, PlansOf, StatusTypes
  <2>2. CASE s # r
    <3>1. Deciding(s) /\ DecisionKnows(s) /\ LockedBy(s, about[s])
      BY <1>1, <1>2, <2>2 DEF Deciding, PlansInvariant, StatusTypes, LockedBy
    <3>2. ~LockedBy(r, about[s])'
      <4>1. about'[r] = p /\ phase'[r] = ph /\ about'[s] = about[s]
        BY <1>1, <2>2 DEF StatusTypes
      <4>2. ph \in {"older", "releasing"} => p # about[s]
        BY <3>1 DEF Locked
      <4> QED
        BY <4>1, <4>2 DEF LockedBy
    <3> QED
      BY <1>1, <2>2, <3>1, <3>2 DEF DecisionKnows, LockedBy, PlansOf, StatusTypes
  <2> QED
    BY <2>1, <2>2
<1>3. ASSUME NEW s \in Request, phase'[s] = "creating" PROVE CreationKnows(s)'
  BY <1>1, <1>3 DEF CreationKnows, PlansInvariant, StatusTypes, Idle
<1> QED
  BY <1>1, <1>2, <1>3 DEF PlansInvariant

\* A request reads rows, and the plans keep their status.
LEMMA ReadKeeps ==
  ASSUME PlansInvariant, NEW r \in Request, UNCHANGED <<planStatus, about, seen>>,
         NEW ph \in {"approving", "consuming"}, phase' = [phase EXCEPT ![r] = ph],
         phase[r] = IF ph = "approving" THEN "older" ELSE "plans"
  PROVE  PlansInvariant'
<1>1. StatusTypes /\ StatusTypes'
  BY DEF PlansInvariant, StatusTypes
<1>2. \A s \in Request : /\ Deciding(s)' <=> Deciding(s)
                         /\ \A p : LockedBy(s, p)' <=> LockedBy(s, p)
                         /\ phase'[s] = "creating" <=> phase[s] = "creating"
  BY <1>1 DEF Deciding, LockedBy, StatusTypes
<1> QED
  BY <1>1, <1>2 DEF PlansInvariant, DecisionKnows, CreationKnows, PlansOf

\* A request ends, and the plans keep their status.
LEMMA QuietEnd ==
  ASSUME PlansInvariant, NEW r \in Request, End(r), UNCHANGED planStatus
  PROVE  PlansInvariant'
  BY EndKeeps DEF PlansInvariant, DecisionKnows, CreationKnows, StatusTypes

LEMMA InitSound == Init => PlansInvariant
  BY DEF Init, PlansInvariant, StatusTypes, PlanStatus, Deciding

LEMMA NextSound == PlansInvariant /\ [Next]_vars => Sound
<1> SUFFICES ASSUME PlansInvariant, [Next]_vars PROVE Sound
  OBVIOUS
<1>1. StatusTypes
  BY DEF PlansInvariant
<1>2. ASSUME NEW r \in Request, NEW p \in Plan, BeginCreate(r, p) PROVE Sound
  <2> DEFINE S == {q \in PlansOf(OrderOf[p]) : planStatus[q] \in Open}
  <2>1. /\ Idle(r) /\ UNCHANGED planStatus /\ S \in SUBSET Plan
        /\ phase' = [phase EXCEPT ![r] = "creating"] /\ about' = [about EXCEPT ![r] = p]
        /\ seen' = [seen EXCEPT ![r] = S]
    BY <1>2 DEF BeginCreate, Begin, PlansOf
  <2>2. planStatus[p] = "absent" /\ \A s \in Request : Idle(s) \/ about[s] # p
    BY <1>2 DEF BeginCreate, PlansOf, Open
  <2> HIDE DEF S
  <2>3. PlansInvariant'
    BY <2>1, <2>2, BeginKeeps
  <2> QED
    BY <2>1, <2>3, SameStatus DEF Sound
<1>3. ASSUME NEW r \in Request, NEW p \in Plan, BeginApprove(r, p) PROVE Sound
  <2> DEFINE S == {q \in PlansOf(OrderOf[p]) \ {p} : planStatus[q] = "approved"}
  <2>1. /\ Idle(r) /\ UNCHANGED planStatus /\ S \in SUBSET Plan
        /\ phase' = [phase EXCEPT ![r] = "older"] /\ about' = [about EXCEPT ![r] = p]
        /\ seen' = [seen EXCEPT ![r] = S]
    BY <1>3 DEF BeginApprove, Begin, PlansOf
  <2>2. /\ planStatus[p] \in Open /\ S \subseteq PlansOf(OrderOf[p]) \ {p} /\ ~Locked(p)
        /\ \A q \in S : planStatus[q] = "approved"
    BY <1>3 DEF BeginApprove, PlansOf, Open
  <2> HIDE DEF S
  <2>3. PlansInvariant'
    BY <2>1, <2>2, BeginKeeps
  <2> QED
    BY <2>1, <2>3, SameStatus DEF Sound
<1>4. ASSUME NEW r \in Request, NEW p \in Plan, BeginRelease(r, p) PROVE Sound
  <2>1. seen' = [seen EXCEPT ![r] = seen[r]] /\ seen[r] \in SUBSET Plan
    BY <1>1, <1>4 DEF BeginRelease, StatusTypes
  <2>2. PlansInvariant'
    BY <1>4, <2>1, BeginKeeps DEF BeginRelease
  <2> QED
    BY <1>4, <2>2, SameStatus DEF BeginRelease, Sound
<1>5. ASSUME NEW r \in Request, NEW o \in Order, BeginConsume(r, o) PROVE Sound
  <2> DEFINE S == {q \in PlansOf(o) : planStatus[q] = "approved"}
  <2>1. /\ Idle(r) /\ UNCHANGED planStatus /\ S \in SUBSET Plan
        /\ phase' = [phase EXCEPT ![r] = "plans"] /\ about' = [about EXCEPT ![r] = NoPlan]
        /\ seen' = [seen EXCEPT ![r] = S]
    BY <1>5 DEF BeginConsume, Begin, PlansOf
  <2> HIDE DEF S
  <2>2. PlansInvariant'
    BY <2>1, BeginKeeps
  <2> QED
    BY <2>1, <2>2, SameStatus DEF Sound
<1>6. ASSUME NEW r \in Request, NEW p \in Plan \cup {NoPlan}, ReadOlderRows(r, p) PROVE Sound
  <2>1. PlansInvariant'
    BY <1>6, ReadKeeps DEF ReadOlderRows, Read
  <2> QED
    BY <1>6, <2>1, SameStatus DEF ReadOlderRows, Read, Sound
<1>7. ASSUME NEW r \in Request, NEW p \in Plan \cup {NoPlan}, ReadPlanRows(r, p) PROVE Sound
  <2>1. PlansInvariant'
    BY <1>7, ReadKeeps DEF ReadPlanRows, Read
  <2> QED
    BY <1>7, <2>1, SameStatus DEF ReadPlanRows, Read, Sound
<1>8. ASSUME NEW r \in Request, Release(r) \/ Consume(r) \/ Refuse(r) PROVE Sound
  <2>1. End(r) /\ UNCHANGED planStatus
    BY <1>8 DEF Release, Consume, Refuse
  <2> QED
    BY <2>1, QuietEnd, SameStatus DEF Sound
<1>9. ASSUME NEW p \in Plan, Submit(p) \/ Reject(p) PROVE Sound
  BY <1>9, OpenMoves DEF Submit, Reject, Open
<1>10. CASE StockElsewhere \/ UNCHANGED vars
  <2>1. UNCHANGED <<planStatus, phase, about, seen>>
    BY <1>10 DEF StockElsewhere, vars, requestVars
  <2>2. PlansInvariant'
    BY <2>1 DEF PlansInvariant, StatusTypes, Deciding, DecisionKnows, CreationKnows, LockedBy, PlansOf
  <2> QED
    BY <2>1, <2>2, SameStatus DEF Sound
<1> QED
  BY <1>2, <1>3, <1>4, <1>5, <1>6, <1>7, <1>8, <1>9, <1>10, CreateSound, ApproveSound DEF Next

-----------------------------------------------------------------------------
(* Sums *)

\* The equation of the function by which SumFunctionOnSet is defined.
Adds(it, g, D) == it = [s \in D |-> IF s = {} THEN 0
                                    ELSE LET x == CHOOSE x \in s : TRUE IN g[x] + it[s \ {x}]]

\* Some numbers have a least one.
LEMMA LeastNumber ==
  ASSUME NEW N \in SUBSET Nat, N # {}
  PROVE  \E n \in N : \A m \in N : n <= m
<1> DEFINE R == OpToRel(<, Nat)
<1>1. IsWellFoundedOn(R, Nat)
  BY NatLessThanWellFounded
<1>2. \A m, n \in Nat : m < n => <<m, n>> \in R
  BY DEF OpToRel
<1> HIDE DEF R
<1>3. PICK n \in N : \A m \in N : <<m, n>> \notin R
  BY <1>1, WFMin, Zenon
<1>4. ASSUME NEW m \in N PROVE n <= m
  <2>1. m \in Nat /\ n \in Nat /\ ~ (m < n)
    BY <1>2, <1>3
  <2> QED
    BY <2>1
<1> QED
  BY <1>4

\* Of some subsets of a finite set one contains no other.
LEMMA LeastSet ==
  ASSUME NEW S, IsFiniteSet(S), NEW N \in SUBSET (SUBSET S), N # {}
  PROVE  \E T \in N : \A U \in N : U \subseteq T => U = T
<1>1. N \subseteq FiniteSubsetsOf(S)
  BY FS_Subset DEF FiniteSubsetsOf
<1>2. \E T \in N : \A U \in N : <<U, T>> \notin StrictSubsetOrdering(S)
  BY <1>1, FS_StrictSubsetOrderingWellFounded, WFMin, Zenon
<1> QED
  BY <1>2 DEF StrictSubsetOrdering

\* There is a function that adds up the members of each subset.
LEMMA SumExists ==
  ASSUME NEW S, IsFiniteSet(S), NEW g, \A x \in S : g[x] \in Int
  PROVE  \E it \in [SUBSET S -> Int] : Adds(it, g, SUBSET S)
<1> DEFINE Upto(n) == {s \in SUBSET S : Cardinality(s) <= n}
           N == {n \in Nat : ~ \E it \in [Upto(n) -> Int] : Adds(it, g, Upto(n))}
<1>1. \A s \in SUBSET S : IsFiniteSet(s) /\ Cardinality(s) \in Nat /\ Cardinality(s) <= Cardinality(S)
  BY FS_Subset, FS_CardinalityType
<1>2. Cardinality(S) \in Nat /\ Upto(Cardinality(S)) = SUBSET S
  BY <1>1
<1>3. 0 \notin N
  <2> DEFINE it == [s \in Upto(0) |-> 0]
  <2>1. \A s \in Upto(0) : s = {}
    BY <1>1, FS_EmptySet
  <2>2. it \in [Upto(0) -> Int] /\ Adds(it, g, Upto(0))
    BY <2>1 DEF Adds
  <2> QED
    BY <2>2
<1>4. ASSUME NEW n \in Nat, n \notin N PROVE n + 1 \notin N
  <2>1. PICK it \in [Upto(n) -> Int] : Adds(it, g, Upto(n))
    BY <1>4
  <2> DEFINE next == [s \in Upto(n + 1) |-> IF s = {} THEN 0
                        ELSE LET x == CHOOSE x \in s : TRUE IN g[x] + it[s \ {x}]]
  <2>2. ASSUME NEW s \in Upto(n + 1), s # {}, NEW x, x = CHOOSE y \in s : TRUE
        PROVE  x \in s /\ x \in S /\ s \ {x} \in Upto(n)
    <3>1. x \in s
      BY <2>2
    <3>2. Cardinality(s \ {x}) = Cardinality(s) - 1
      BY <1>1, <3>1, FS_RemoveElement
    <3> QED
      BY <1>1, <3>1, <3>2
  <2>3. \A s \in Upto(n) : s \in Upto(n + 1) /\ next[s] = it[s]
    <3>1. \A s \in Upto(n) : s \in Upto(n + 1)
      BY <1>1
    <3>2. \A s \in Upto(n) : it[s] = IF s = {} THEN 0
                                     ELSE LET x == CHOOSE x \in s : TRUE IN g[x] + it[s \ {x}]
      BY <2>1 DEF Adds
    <3> HIDE DEF Upto
    <3> QED
      BY <3>1, <3>2
  <2>4. ASSUME NEW s \in Upto(n + 1), s # {}, NEW x, x = CHOOSE y \in s : TRUE
        PROVE  next[s] = g[x] + it[s \ {x}] /\ next[s] \in Int /\ next[s \ {x}] = it[s \ {x}]
    <3>1. x \in S /\ s \ {x} \in Upto(n)
      BY <2>2, <2>4
    <3>2. next[s] = g[x] + it[s \ {x}]
      BY <2>4
    <3> HIDE DEF Upto, next
    <3> QED
      BY <2>1, <2>3, <3>1, <3>2
  <2>5. {} \in Upto(n + 1) => next[{}] = 0
    OBVIOUS
  <2>6. DOMAIN next = Upto(n + 1) /\ next = [s \in Upto(n + 1) |-> next[s]]
    OBVIOUS
  <2> HIDE DEF Upto, next
  <2>7. next \in [Upto(n + 1) -> Int]
    <3>1. ASSUME NEW s \in Upto(n + 1) PROVE next[s] \in Int
      <4>1. CASE s = {}
        BY <2>5, <4>1
      <4>2. CASE s # {}
        BY <2>4, <4>2
      <4> QED
        BY <4>1, <4>2
    <3> QED
      BY <2>6, <3>1
  <2>8. ASSUME NEW s \in Upto(n + 1)
        PROVE  next[s] = IF s = {} THEN 0 ELSE LET x == CHOOSE x \in s : TRUE IN g[x] + next[s \ {x}]
    BY <2>4, <2>5
  <2>9. Adds(next, g, Upto(n + 1))
    BY <2>6, <2>8 DEF Adds
  <2> QED
    BY <2>7, <2>9
<1>5. Cardinality(S) \notin N
  <2> SUFFICES ASSUME N # {} PROVE FALSE
    BY <1>2
  <2> HIDE DEF N
  <2>1. N \in SUBSET Nat
    BY DEF N
  <2>2. PICK n \in N : \A m \in N : n <= m
    BY <2>1, LeastNumber
  <2>3. n # 0 /\ n \in Nat
    BY <1>3, <2>1
  <2>4. n - 1 \in Nat /\ n - 1 \notin N
    BY <2>1, <2>2, <2>3
  <2>5. (n - 1) + 1 \notin N
    BY <1>4, <2>4
  <2> QED
    BY <2>2, <2>3, <2>5
<1> QED
  BY <1>2, <1>5

\* What adds up integers is an integer for every subset.
LEMMA AddsTypes ==
  ASSUME NEW S, IsFiniteSet(S), NEW g, \A x \in S : g[x] \in Int, NEW it, Adds(it, g, SUBSET S)
  PROVE  it \in [SUBSET S -> Int]
<1> DEFINE N == {T \in SUBSET S : it[T] \notin Int}
<1>1. N = {}
  <2> SUFFICES ASSUME N # {} PROVE FALSE
    OBVIOUS
  <2>1. N \in SUBSET (SUBSET S)
    OBVIOUS
  <2> HIDE DEF N
  <2>2. PICK T \in N : \A U \in N : U \subseteq T => U = T
    BY <2>1, LeastSet
  <2>3. T \subseteq S /\ it[T] \notin Int
    BY DEF N
  <2>4. T # {}
    BY <2>3 DEF Adds
  <2> DEFINE x == CHOOSE x \in T : TRUE
  <2>5. x \in T /\ it[T] = g[x] + it[T \ {x}]
    BY <2>3, <2>4 DEF Adds
  <2>6. T \ {x} \notin N
    BY <2>2, <2>5
  <2>7. it[T \ {x}] \in Int
    BY <2>3, <2>6 DEF N
  <2> QED
    BY <2>3, <2>5, <2>7
<1> QED
  BY <1>1 DEF Adds

\* A sum of integers is one.
LEMMA SumType ==
  ASSUME NEW S, IsFiniteSet(S), NEW g, \A x \in S : g[x] \in Int
  PROVE  SumFunctionOnSet(g, S) \in Int
<1> DEFINE it == CHOOSE it : Adds(it, g, SUBSET S)
<1>1. SumFunctionOnSet(g, S) = it[S]
  BY DEF SumFunctionOnSet, FoldFunctionOnSet, MapThenFoldSet, Adds
<1>2. Adds(it, g, SUBSET S)
  BY SumExists
<1> HIDE DEF it
<1>3. it \in [SUBSET S -> Int]
  BY <1>2, AddsTypes
<1> QED
  BY <1>1, <1>3

-----------------------------------------------------------------------------
(* What is held *)

Requests == (\A r \in Request : KeepsToOrder(r)) /\ Alone

Rows == RowsKnown /\ ActiveHasRest /\ OneApprovedPlan /\ HeldAsRecorded

SameApproved(q) == planStatus'[q] = "approved" <=> planStatus[q] = "approved"

\* No row changes, and no plan becomes or ceases to be approved.
LEMMA RowsStay ==
  ASSUME TypeOK, Rows, TypeOK', UNCHANGED <<rowVars, held>>, overlaps \subseteq overlaps',
         \A q \in Plan : /\ SameApproved(q)
                         /\ planStatus'[q] = "superseded" => planStatus[q] \in Open \cup {"superseded"}
                         /\ planStatus[q] = "superseded" => planStatus'[q] = "superseded"
  PROVE  Rows'
<1> USE DEF rowVars
<1>0. UNCHANGED <<row, qty, used, inserted, held>>
  OBVIOUS
<1>1. RowsKnown'
  <2>1. \A p \in Plan : planStatus'[p] \notin {"approved", "superseded"} =>
                          planStatus[p] \notin {"approved", "superseded"}
    BY DEF SameApproved
  <2>2. RowsKnown
    BY DEF Rows
  <2> QED
    BY <1>0, <2>1, <2>2 DEF RowsKnown
<1>2. ActiveHasRest'
  BY <1>0 DEF Rows, ActiveHasRest
<1>3. OneApprovedPlan'
  <2>1. \A p \in Plan : planStatus'[p] = "approved" <=> planStatus[p] = "approved"
    BY DEF SameApproved
  <2>2. OneApprovedPlan
    BY DEF Rows
  <2> QED
    BY <1>0, <2>1, <2>2 DEF OneApprovedPlan
<1>4. HeldAsRecorded'
  BY <1>0 DEF Rows, HeldAsRecorded, Outstanding
<1> QED
  BY <1>1, <1>2, <1>3, <1>4 DEF Rows

\* A request ends that changed plans of its own order at most: the others know what
\* they knew.
LEMMA EndOfRequest ==
  ASSUME TypeOK, Requests, NEW r \in Request, ~Idle(r), End(r),
         \A q \in Plan : row[q] # "none" => row'[q] # "none",
         \A q \in Plan \ PlansOf(at[r]) : row'[q] = row[q] /\ used'[q] = used[q] /\ SameApproved(q)
  PROVE  Requests'
<1>1. /\ phase'[r] = "idle" /\ about'[r] = NoPlan /\ seen'[r] = {} /\ first'[r] = NoPlan
      /\ \A s \in Request \ {r} : /\ phase'[s] = phase[s] /\ about'[s] = about[s] /\ seen'[s] = seen[s]
                                  /\ first'[s] = first[s] /\ seenUsed'[s] = seenUsed[s]
      /\ at' = at /\ overlaps' = overlaps
  BY DEF End, TypeOK
<1>2. ASSUME NEW s \in Request PROVE KeepsToOrder(s)'
  <2>1. CASE s = r
    BY <1>1, <2>1, PlansAssumption DEF KeepsToOrder, PlansOf
  <2>2. CASE s # r
    BY <1>1, <2>2 DEF KeepsToOrder, PlansOf, Idle, Requests
  <2> QED
    BY <2>1, <2>2
<1>3. ASSUME NEW s \in Request, ~Idle(s)', at'[s] \notin overlaps'
      PROVE  /\ ReadIsCurrent(s)'
             /\ \A t \in Request : ~Idle(t)' /\ at'[t] = at'[s] => t = s
  <2>1. s # r /\ ~Idle(s) /\ at[s] \notin overlaps /\ KeepsToOrder(s)
    BY <1>1, <1>3 DEF Idle, Requests
  <2>2. /\ ReadIsCurrent(s)
        /\ \A t \in Request : ~Idle(t) /\ at[t] = at[s] => t = s
    BY <2>1 DEF Alone, Requests
  <2>3. at[r] # at[s]
    BY <2>1, <2>2
  <2>4. \A q \in PlansOf(at[s]) : row'[q] = row[q] /\ used'[q] = used[q] /\ SameApproved(q)
    BY <2>3 DEF PlansOf
  <2>5. /\ first[s] \in Plan => first[s] \in PlansOf(at[s])
        /\ seen[s] \subseteq PlansOf(at[s])
    BY <2>1 DEF KeepsToOrder, PlansOf
  <2>6. ReadIsCurrent(s)'
    <3>1. first'[s] \in Plan => row'[first'[s]] = "active" /\ seenUsed'[s] = used'[first'[s]]
      BY <1>1, <2>1, <2>2, <2>4, <2>5 DEF ReadIsCurrent
    <3>2. phase'[s] = "releasing" => first'[s] \in {about'[s], NoPlan}
      BY <1>1, <2>1, <2>2 DEF ReadIsCurrent
    <3>3. Deciding(s)' => seen'[s] = {q \in PlansOf(at'[s]) \ {about'[s]} : planStatus'[q] = "approved"}
      BY <1>1, <2>1, <2>2, <2>4 DEF ReadIsCurrent, Deciding, SameApproved
    <3>4. phase'[s] = "approving" => IF first'[s] = NoPlan THEN \A q \in seen'[s] : row'[q] # "active"
                                     ELSE first'[s] \in seen'[s]
      BY <1>1, <2>1, <2>2, <2>4, <2>5 DEF ReadIsCurrent
    <3> QED
      BY <3>1, <3>2, <3>3, <3>4 DEF ReadIsCurrent, PlansOf
  <2> QED
    BY <1>1, <2>2, <2>6 DEF Idle
<1> QED
  BY <1>2, <1>3 DEF Requests, Alone

\* No request does anything, and no row of a plan that is approved changes.
LEMMA NoRequest ==
  ASSUME TypeOK, Requests, UNCHANGED <<requestVars, overlaps, rowVars>>, \A q \in Plan : SameApproved(q)
  PROVE  Requests'
<1>1. \A r \in Request : KeepsToOrder(r)'
  BY DEF Requests, KeepsToOrder, PlansOf, Idle, requestVars, rowVars
<1>2. ASSUME NEW r \in Request, ReadIsCurrent(r) PROVE ReadIsCurrent(r)'
  <2>1. \A o, p : {q \in PlansOf(o) \ {p} : planStatus'[q] = "approved"}
                  = {q \in PlansOf(o) \ {p} : planStatus[q] = "approved"}
    BY DEF SameApproved, PlansOf
  <2>2. UNCHANGED <<phase, at, about, seen, first, seenUsed, row, used>>
    BY DEF requestVars, rowVars
  <2>3. Deciding(r)' => seen'[r] = {q \in PlansOf(at'[r]) \ {about'[r]} : planStatus'[q] = "approved"}
    BY <1>2, <2>1, <2>2 DEF ReadIsCurrent, Deciding
  <2> QED
    BY <1>2, <2>2, <2>3 DEF ReadIsCurrent, PlansOf
<1>3. Alone'
  BY <1>2 DEF Requests, Alone, Idle, requestVars
<1> QED
  BY <1>1, <1>3 DEF Requests

\* A request begins that has read no row yet: the others about its order, if there
\* are any, overlap with it.
LEMMA BeginOfRequest ==
  ASSUME TypeOK, Requests, NEW r \in Request, Idle(r), NEW o \in Order, NEW p \in Plan \cup {NoPlan},
         NEW S \in SUBSET PlansOf(o), NEW f \in Plan \cup {NoPlan}, NEW n \in Nat,
         NEW ph \in {"creating", "older", "releasing", "plans"},
         UNCHANGED <<planStatus, row, used>>,
         phase' = [phase EXCEPT ![r] = ph], at' = [at EXCEPT ![r] = o],
         about' = [about EXCEPT ![r] = p], seen' = [seen EXCEPT ![r] = S],
         first' = [first EXCEPT ![r] = f], seenUsed' = [seenUsed EXCEPT ![r] = n],
         overlaps' = overlaps \cup {x \in {o} : \E q \in Request : ~Idle(q) /\ at[q] = x},
         p \in Plan => OrderOf[p] = o,
         ph = "older" => S = {q \in PlansOf(o) \ {p} : planStatus[q] = "approved"},
         f # NoPlan => ph = "releasing" /\ f = p /\ row[f] = "active" /\ n = used[f]
  PROVE  Requests'
<1>1. /\ phase'[r] = ph /\ at'[r] = o /\ about'[r] = p /\ seen'[r] = S
      /\ first'[r] = f /\ seenUsed'[r] = n
      /\ \A s \in Request : s # r => /\ phase'[s] = phase[s] /\ at'[s] = at[s] /\ about'[s] = about[s]
                                     /\ seen'[s] = seen[s] /\ first'[s] = first[s]
                                     /\ seenUsed'[s] = seenUsed[s]
  BY DEF TypeOK
<1>2. ASSUME NEW s \in Request PROVE KeepsToOrder(s)'
  <2>1. CASE s = r
    BY <1>1, <2>1, PlansAssumption DEF KeepsToOrder, Idle, PlansOf
  <2>2. CASE s # r
    BY <1>1, <2>2 DEF KeepsToOrder, PlansOf, Idle, Requests
  <2> QED
    BY <2>1, <2>2
<1>3. ASSUME NEW s \in Request, ~Idle(s)', at'[s] \notin overlaps'
      PROVE  /\ ReadIsCurrent(s)'
             /\ \A t \in Request : ~Idle(t)' /\ at'[t] = at'[s] => t = s
  <2>1. CASE s = r
    <3>1. ReadIsCurrent(s)'
      <4>1. first'[s] \in Plan => row'[first'[s]] = "active" /\ seenUsed'[s] = used'[first'[s]]
        BY <1>1, <2>1, PlansAssumption
      <4>2. phase'[s] = "releasing" => first'[s] \in {about'[s], NoPlan}
        BY <1>1, <2>1
      <4>3. Deciding(s)' => seen'[s] = {q \in PlansOf(at'[s]) \ {about'[s]} : planStatus'[q] = "approved"}
        BY <1>1, <2>1 DEF Deciding
      <4>4. phase'[s] # "approving"
        BY <1>1, <2>1
      <4> QED
        BY <4>1, <4>2, <4>3, <4>4 DEF ReadIsCurrent, PlansOf
    <3>2. ASSUME NEW t \in Request, ~Idle(t)', at'[t] = at'[s], t # s PROVE FALSE
      BY <1>1, <1>3, <2>1, <3>2 DEF Idle
    <3> QED
      BY <3>1, <3>2
  <2>2. CASE s # r
    <3>1. ~Idle(s) /\ at[s] \notin overlaps /\ at'[s] = at[s]
      BY <1>1, <1>3, <2>2 DEF Idle
    <3>2. ReadIsCurrent(s) /\ \A t \in Request : ~Idle(t) /\ at[t] = at[s] => t = s
      BY <3>1 DEF Requests, Alone
    <3>3. at[s] # o
      BY <1>3, <3>1
    <3>4. \A t \in Request : ~Idle(t)' /\ at'[t] = at'[s] => t = s
      BY <1>1, <2>2, <3>1, <3>2, <3>3 DEF Idle
    <3> QED
      BY <1>1, <2>2, <3>2, <3>4 DEF ReadIsCurrent, Deciding, PlansOf
  <2> QED
    BY <2>1, <2>2
<1> QED
  BY <1>2, <1>3 DEF Requests, Alone

\* A request reads the active row of one of the plans it is about, or finds none.
LEMMA ReadOfRequest ==
  ASSUME TypeOK, Requests, NEW r \in Request, NEW ph \in {"approving", "consuming"},
         NEW p \in Plan \cup {NoPlan}, Read(r, ph, p),
         phase[r] = IF ph = "approving" THEN "older" ELSE "plans",
         IF p = NoPlan THEN \A q \in seen[r] : row[q] # "active" ELSE p \in seen[r] /\ row[p] = "active"
  PROVE  Requests'
<1>1. /\ phase'[r] = ph /\ first'[r] = p /\ (p \in Plan => seenUsed'[r] = used[p])
      /\ \A s \in Request : s # r => phase'[s] = phase[s] /\ first'[s] = first[s] /\ seenUsed'[s] = seenUsed[s]
      /\ UNCHANGED <<planStatus, row, used, at, about, seen, overlaps>>
  BY PlansAssumption DEF Read, TypeOK, rowVars
<1>2. \A s \in Request : Idle(s)' <=> Idle(s)
  BY <1>1 DEF Idle
<1>3. ASSUME NEW s \in Request PROVE KeepsToOrder(s)'
  <2>1. CASE s = r
    <3>1. KeepsToOrder(r)
      BY DEF Requests
    <3> QED
      BY <1>1, <1>2, <2>1, <3>1, PlansAssumption DEF KeepsToOrder, PlansOf
  <2>2. CASE s # r
    BY <1>1, <1>2, <2>2 DEF KeepsToOrder, PlansOf, Requests
  <2> QED
    BY <2>1, <2>2
<1>4. ASSUME NEW s \in Request, ~Idle(s), at[s] \notin overlaps PROVE ReadIsCurrent(s)'
  <2>1. ReadIsCurrent(s)
    BY <1>4 DEF Requests, Alone
  <2>2. CASE s = r
    BY <1>1, <2>1, <2>2, PlansAssumption DEF ReadIsCurrent, Deciding, PlansOf
  <2>3. CASE s # r
    BY <1>1, <2>1, <2>3 DEF ReadIsCurrent, Deciding, PlansOf
  <2> QED
    BY <2>2, <2>3
<1> QED
  BY <1>1, <1>2, <1>3, <1>4 DEF Requests, Alone

LEMMA TakeType == ASSUME NEW p \in Plan, NEW n \in Int PROVE TakeOf(p, n) \in Nat /\ TakeOf(p, n) <= Want[p]
  BY PlansAssumption DEF TakeOf

\* What an approval changes of a plan: its own row is inserted, those of the plans
\* it supersedes are released.
ApproveChanges(r, p, take) ==
  \A q \in Plan :
    IF q = p
    THEN /\ planStatus'[q] = "approved" /\ row'[q] = IF take > 0 THEN "active" ELSE "none"
         /\ qty'[q] = take /\ used'[q] = 0 /\ held'[q] = take
    ELSE /\ planStatus'[q] = IF q \in seen[r] THEN "superseded" ELSE planStatus[q]
         /\ row'[q] = IF q = first[r] \/ (q \in seen[r] /\ row[q] = "active") THEN "released" ELSE row[q]
         /\ qty'[q] = qty[q] /\ used'[q] = used[q] /\ held'[q] = held[q] - Freed(r, q)

LEMMA ApproveHeld ==
  ASSUME HeldInvariant, PlansInvariant, NEW r \in Request, Approve(r)
  PROVE  HeldInvariant'
<1> DEFINE p == about[r]
           freed == [q \in Plan |-> Freed(r, q)]
           rest == reserved - SumFunction(freed)
           take == TakeOf(p, onHand - rest)
<1>1. TypeOK /\ Requests /\ Rows /\ RowsKnown
  BY DEF HeldInvariant, Requests, Rows
<1>2. /\ DecisionKnows(r) /\ KeepsToOrder(r) /\ ~Idle(r) /\ phase[r] = "approving"
      /\ p \in Plan /\ planStatus[p] \in Open /\ p \notin seen[r] /\ seen[r] \subseteq Plan
      /\ first[r] \in Plan \cup {NoPlan} /\ seenUsed[r] \in Nat
  BY <1>1 DEF Approve, PlansInvariant, Deciding, DecisionKnows, Requests, Idle, TypeOK
<1>3. row[p] = "none" /\ qty[p] = 0 /\ used[p] = 0 /\ held[p] = 0 /\ p # first[r] /\ Freed(r, p) = 0
  BY <1>1, <1>2 DEF RowsKnown, Open, KeepsToOrder, Freed
<1>4. \A q \in Plan : Freed(r, q) \in Int
  BY <1>1, <1>2 DEF Freed, Outstanding, TypeOK
<1>5. rest \in Nat
  <2>1. SumFunction(freed) \in Int
    BY <1>4, PlansAssumption, SumType DEF SumFunction
  <2>2. rest >= 0
    BY DEF Approve
  <2> HIDE DEF freed
  <2> QED
    BY <1>1, <2>1, <2>2 DEF TypeOK
<1>6. take \in Nat
  <2> HIDE DEF rest
  <2>1. onHand - rest \in Int
    BY <1>1, <1>5 DEF TypeOK
  <2> QED
    BY <1>2, <2>1, TakeType
<1>7. /\ reserved' = rest + take /\ qty' = [qty EXCEPT ![p] = take]
      /\ inserted' = IF take > 0 THEN Append(inserted, p) ELSE inserted
      /\ planStatus' = [q \in Plan |-> IF q = p THEN "approved"
                                       ELSE IF q \in seen[r] THEN "superseded" ELSE planStatus[q]]
      /\ held' = [q \in Plan |-> held[q] - freed[q] + (IF q = p THEN take ELSE 0)]
      /\ row' = [q \in Plan |-> IF q = p THEN (IF take > 0 THEN "active" ELSE row[q])
                                ELSE IF q = first[r] \/ (q \in seen[r] /\ row[q] = "active")
                                       THEN "released" ELSE row[q]]
      /\ UNCHANGED <<used, onHand, heldElsewhere>> /\ End(r)
  BY DEF Approve
<1> HIDE DEF take, rest
<1>8. ApproveChanges(r, p, take)
  <2>1. /\ planStatus'[p] = "approved" /\ row'[p] = IF take > 0 THEN "active" ELSE "none"
        /\ qty'[p] = take /\ used'[p] = 0 /\ held'[p] = take
    BY <1>1, <1>2, <1>3, <1>6, <1>7 DEF TypeOK
  <2>2. ASSUME NEW q \in Plan, q # p
        PROVE  /\ planStatus'[q] = IF q \in seen[r] THEN "superseded" ELSE planStatus[q]
               /\ row'[q] = IF q = first[r] \/ (q \in seen[r] /\ row[q] = "active") THEN "released" ELSE row[q]
               /\ qty'[q] = qty[q] /\ used'[q] = used[q] /\ held'[q] = held[q] - Freed(r, q)
    <3>1. held[q] \in Int /\ Freed(r, q) \in Int /\ held'[q] = held[q] - Freed(r, q) + 0
      BY <1>1, <1>4, <1>7, <2>2 DEF TypeOK
    <3> QED
      BY <1>1, <1>7, <2>2, <3>1 DEF TypeOK
  <2> QED
    BY <2>1, <2>2 DEF ApproveChanges
<1>9. TypeOK'
  <2>1. held' \in [Plan -> Int] /\ row' \in [Plan -> {"none", "active", "released", "consumed"}]
    BY <1>1, <1>4, <1>6, <1>7 DEF TypeOK
  <2>2. planStatus' \in [Plan -> PlanStatus] /\ inserted' \in Seq(Plan) /\ qty' \in [Plan -> Nat]
    BY <1>1, <1>2, <1>6, <1>7 DEF TypeOK, PlanStatus
  <2>3. reserved' \in Nat
    BY <1>5, <1>6, <1>7
  <2>4. /\ phase' \in [Request -> {"idle", "creating", "older", "approving", "releasing", "plans", "consuming"}]
        /\ at' \in [Request -> Order] /\ about' \in [Request -> Plan \cup {NoPlan}]
        /\ first' \in [Request -> Plan \cup {NoPlan}] /\ seen' \in [Request -> SUBSET Plan]
        /\ seenUsed' \in [Request -> Nat] /\ overlaps' \subseteq Order
    BY <1>1, <1>7 DEF TypeOK, End
  <2> QED
    BY <1>1, <1>7, <2>1, <2>2, <2>3, <2>4 DEF TypeOK
<1>10. RowsKnown'
  <2>1. ASSUME NEW i \in DOMAIN inserted PROVE i \in DOMAIN inserted' /\ inserted'[i] = inserted[i]
    <3>1. inserted \in Seq(Plan) /\ inserted' \in {inserted, Append(inserted, p)}
      BY <1>1, <1>7 DEF TypeOK
    <3> QED
      BY <1>2, <2>1, <3>1
  <2>2. take > 0 => \E i \in DOMAIN inserted' : inserted'[i] = p
    <3> SUFFICES ASSUME take > 0 PROVE \E i \in DOMAIN inserted' : inserted'[i] = p
      OBVIOUS
    <3>1. inserted' = Append(inserted, p) /\ inserted \in Seq(Plan)
      BY <1>1, <1>7 DEF TypeOK
    <3>2. Len(inserted) + 1 \in DOMAIN inserted' /\ inserted'[Len(inserted) + 1] = p
      BY <1>2, <3>1
    <3> QED
      BY <3>2
  <2>3. ASSUME NEW q \in Plan, q # p
        PROVE  /\ row'[q] = "none" => qty'[q] = 0 /\ used'[q] = 0 /\ held'[q] = 0
               /\ planStatus'[q] \notin {"approved", "superseded"} => row'[q] = "none"
               /\ row'[q] # "none" => \E i \in DOMAIN inserted' : inserted'[i] = q
    <3>1. row'[q] = "none" <=> row[q] = "none"
      BY <1>1, <1>2, <1>8, <2>3 DEF ApproveChanges, KeepsToOrder
    <3>2. row'[q] = "none" => Freed(r, q) = 0
      BY <1>2, <3>1 DEF Freed, Outstanding, KeepsToOrder
    <3>3. planStatus'[q] \notin {"approved", "superseded"} => planStatus[q] \notin {"approved", "superseded"}
      BY <1>8, <2>3 DEF ApproveChanges
    <3> QED
      BY <1>1, <1>8, <2>1, <2>3, <3>1, <3>2, <3>3 DEF ApproveChanges, RowsKnown
  <2>4. /\ row'[p] = "none" => qty'[p] = 0 /\ used'[p] = 0 /\ held'[p] = 0
        /\ planStatus'[p] \notin {"approved", "superseded"} => row'[p] = "none"
        /\ row'[p] # "none" => \E i \in DOMAIN inserted' : inserted'[i] = p
    BY <1>2, <1>6, <1>8, <2>2 DEF ApproveChanges
  <2> QED
    BY <2>3, <2>4 DEF RowsKnown
<1>11. overlaps' = overlaps /\ OrderOf[p] = at[r] /\ seen[r] \subseteq PlansOf(at[r])
  BY <1>2, <1>7 DEF End, KeepsToOrder
<1>12. ASSUME NEW q \in Plan, q # p, OrderOf[q] # at[r]
       PROVE  /\ q # first[r] /\ q \notin seen[r] /\ Freed(r, q) = 0
              /\ planStatus'[q] = planStatus[q] /\ row'[q] = row[q] /\ held'[q] = held[q]
  BY <1>1, <1>2, <1>8, <1>11, <1>12 DEF ApproveChanges, Freed, KeepsToOrder, PlansOf, TypeOK
<1>13. ASSUME at[r] \notin overlaps, NEW q \in Plan, q # p, OrderOf[q] = at[r]
       PROVE  /\ planStatus'[q] # "approved" /\ row'[q] # "active" /\ held'[q] = 0
  <2>1. ReadIsCurrent(r)
    BY <1>1, <1>2, <1>13 DEF Requests, Alone
  <2>2. q \in seen[r] <=> planStatus[q] = "approved"
    BY <1>2, <1>13, <2>1 DEF ReadIsCurrent, Deciding, PlansOf
  <2>3. row[q] = "active" => q \in seen[r]
    BY <1>1, <1>13, <2>2 DEF Rows, OneApprovedPlan
  <2>4. held[q] = Outstanding(q)
    BY <1>1, <1>13 DEF Rows, HeldAsRecorded
  <2>5. Freed(r, q) = Outstanding(q)
    BY <1>2, <2>1, <2>3 DEF Freed, ReadIsCurrent, Outstanding
  <2>6. q = first[r] => row[q] = "active"
    BY <2>1 DEF ReadIsCurrent
  <2>7. Outstanding(q) \in Int
    BY <1>1 DEF Outstanding, TypeOK
  <2> QED
    BY <1>8, <1>13, <2>2, <2>3, <2>4, <2>5, <2>6, <2>7 DEF ApproveChanges
<1>14. ActiveHasRest'
  BY <1>1, <1>2, <1>6, <1>8, <1>11, <1>12, <1>13 DEF Rows, ActiveHasRest, ApproveChanges
<1>15. HeldAsRecorded'
  <2>1. ASSUME NEW q \in Plan, q = p PROVE held'[q] = Outstanding(q)'
    <3>1. /\ row'[q] = IF take > 0 THEN "active" ELSE "none"
          /\ qty'[q] = take /\ used'[q] = 0 /\ held'[q] = take
      BY <1>8, <2>1 DEF ApproveChanges
    <3> QED
      BY <1>6, <3>1 DEF Outstanding
  <2>2. ASSUME NEW q \in Plan, q # p, OrderOf[q] \notin overlaps PROVE held'[q] = Outstanding(q)'
    <3>1. CASE OrderOf[q] = at[r]
      BY <1>13, <2>2, <3>1 DEF Outstanding
    <3>2. CASE OrderOf[q] # at[r]
      BY <1>1, <1>8, <1>12, <2>2, <3>2 DEF Outstanding, ApproveChanges, Rows, HeldAsRecorded
    <3> QED
      BY <3>1, <3>2
  <2>3. \A q \in Plan : OrderOf[q] \notin overlaps => held'[q] = Outstanding(q)'
    BY <2>1, <2>2
  <2> QED
    BY <1>11, <2>3 DEF HeldAsRecorded
<1>16. OneApprovedPlan'
  <2>1. planStatus'[p] = "approved"
    BY <1>2, <1>8 DEF ApproveChanges
  <2>2. ASSUME NEW x \in Plan, NEW y \in Plan, OrderOf[x] = OrderOf[y], OrderOf[x] \notin overlaps
        PROVE  /\ planStatus'[x] = "approved" /\ planStatus'[y] = "approved" => x = y
               /\ row'[x] = "active" => planStatus'[x] = "approved"
    <3>1. CASE OrderOf[x] = at[r]
      BY <1>13, <2>1, <2>2, <3>1
    <3>2. CASE OrderOf[x] # at[r]
      BY <1>1, <1>11, <1>12, <2>2, <3>2 DEF Rows, OneApprovedPlan
    <3> QED
      BY <3>1, <3>2
  <2> QED
    BY <1>11, <2>2 DEF OneApprovedPlan
<1>17. Requests'
  <2>1. \A q \in Plan : row[q] # "none" => row'[q] # "none"
    BY <1>3, <1>8 DEF ApproveChanges
  <2>2. ASSUME NEW q \in Plan, OrderOf[q] # at[r]
        PROVE  row'[q] = row[q] /\ used'[q] = used[q] /\ SameApproved(q)
    BY <1>7, <1>11, <1>12, <2>2 DEF SameApproved
  <2> QED
    BY <1>1, <1>2, <1>7, <2>1, <2>2, EndOfRequest DEF PlansOf
<1> QED
  BY <1>9, <1>10, <1>14, <1>15, <1>16, <1>17 DEF HeldInvariant, Requests

\* A release or a consumption writes the row that the request read first, and no other.
LEMMA OneRowWritten ==
  ASSUME HeldInvariant, TypeOK', NEW r \in Request, ~Idle(r), End(r), UNCHANGED <<planStatus, qty, inserted>>,
         \A q \in Plan : q # first[r] => row'[q] = row[q] /\ used'[q] = used[q] /\ held'[q] = held[q],
         first[r] \in Plan => row'[first[r]] # "none",
         \A q \in Plan : q = first[r] /\ at[r] \notin overlaps =>
           /\ row'[q] = "active" => used'[q] < qty[q]
           /\ held'[q] = Outstanding(q)'
  PROVE  HeldInvariant'
<1>1. TypeOK /\ Requests /\ Rows /\ RowsKnown /\ overlaps' = overlaps /\ KeepsToOrder(r)
  BY DEF HeldInvariant, Requests, Rows, End
<1>2. first[r] \in Plan => OrderOf[first[r]] = at[r] /\ row[first[r]] # "none"
  BY <1>1 DEF KeepsToOrder
<1>3. ASSUME NEW q \in Plan, q = first[r], at[r] \notin overlaps PROVE row[q] = "active" /\ planStatus[q] = "approved"
  <2>1. ReadIsCurrent(r)
    BY <1>1, <1>3 DEF Requests, Alone
  <2>2. row[q] = "active"
    BY <1>3, <2>1 DEF ReadIsCurrent
  <2> QED
    BY <1>1, <1>2, <1>3, <2>2 DEF Rows, OneApprovedPlan
<1>4. RowsKnown'
  BY <1>1, <1>2 DEF RowsKnown
<1>5. ActiveHasRest'
  BY <1>1, <1>2 DEF Rows, ActiveHasRest
<1>6. OneApprovedPlan'
  BY <1>1, <1>2, <1>3 DEF Rows, OneApprovedPlan
<1>7. HeldAsRecorded'
  <2>1. ASSUME NEW q \in Plan, OrderOf[q] \notin overlaps PROVE held'[q] = Outstanding(q)'
    BY <1>1, <1>2, <2>1 DEF Rows, HeldAsRecorded, Outstanding
  <2> QED
    BY <1>1, <2>1 DEF HeldAsRecorded
<1>8. Requests'
  BY <1>1, <1>2, EndOfRequest DEF PlansOf, SameApproved
<1> QED
  BY <1>4, <1>5, <1>6, <1>7, <1>8 DEF HeldInvariant, Requests

LEMMA ReleaseHeld ==
  ASSUME HeldInvariant, NEW r \in Request, Release(r)
  PROVE  HeldInvariant'
<1> DEFINE n == IF first[r] = NoPlan THEN 0 ELSE qty[first[r]] - seenUsed[r]
<1>1. TypeOK /\ Requests /\ Rows /\ ~Idle(r)
  BY DEF HeldInvariant, Requests, Rows, Release, Idle
<1>2. /\ reserved' = reserved - n /\ reserved >= n /\ End(r)
      /\ held' = [q \in Plan |-> IF q = first[r] THEN held[q] - n ELSE held[q]]
      /\ row' = [q \in Plan |-> IF q = first[r] THEN "released" ELSE row[q]]
      /\ UNCHANGED <<planStatus, qty, used, inserted, onHand, heldElsewhere>>
  BY DEF Release
<1>3. n \in Int
  BY <1>1 DEF TypeOK
<1>4. TypeOK'
  <2> HIDE DEF n
  <2>1. reserved' \in Nat /\ held' \in [Plan -> Int]
    BY <1>1, <1>2, <1>3 DEF TypeOK
  <2> QED
    BY <1>1, <1>2, <2>1 DEF TypeOK, End
<1>5. ASSUME NEW q \in Plan, q = first[r], at[r] \notin overlaps PROVE held'[q] = 0
  <2>1. ReadIsCurrent(r) /\ OrderOf[q] = at[r]
    BY <1>1, <1>5 DEF Requests, Alone, KeepsToOrder
  <2>2. row[q] = "active" /\ n = qty[q] - used[q] /\ held[q] = Outstanding(q)
    BY <1>1, <1>5, <2>1, PlansAssumption DEF ReadIsCurrent, Rows, HeldAsRecorded
  <2>3. held[q] = n /\ held'[q] = held[q] - n
    BY <1>2, <1>5, <2>2 DEF Outstanding
  <2> QED
    BY <1>3, <2>3
<1>6. \A q \in Plan : q # first[r] => row'[q] = row[q] /\ used'[q] = used[q] /\ held'[q] = held[q]
  BY <1>2
<1>7. \A q \in Plan : q = first[r] => row'[q] = "released"
  BY <1>2
<1>8. \A q \in Plan : q = first[r] /\ at[r] \notin overlaps =>
        (row'[q] = "active" => used'[q] < qty[q]) /\ held'[q] = Outstanding(q)'
  BY <1>5, <1>7 DEF Outstanding
<1> QED
  BY <1>1, <1>2, <1>4, <1>6, <1>7, <1>8, OneRowWritten

LEMMA ConsumeHeld ==
  ASSUME HeldInvariant, NEW r \in Request, Consume(r)
  PROVE  HeldInvariant'
<1> DEFINE n == IF first[r] = NoPlan THEN 0 ELSE 1
<1>1. TypeOK /\ Requests /\ Rows /\ ~Idle(r)
  BY DEF HeldInvariant, Requests, Rows, Consume, Idle
<1>2. /\ reserved >= n /\ onHand >= 1 /\ reserved' = reserved - n /\ onHand' = onHand - 1
      /\ held' = [q \in Plan |-> IF q = first[r] THEN held[q] - 1 ELSE held[q]]
      /\ used' = [q \in Plan |-> IF q = first[r] THEN seenUsed[r] + 1 ELSE used[q]]
      /\ row' = [q \in Plan |-> IF q # first[r] THEN row[q]
                                ELSE IF seenUsed[r] + 1 >= qty[q] THEN "consumed" ELSE "active"]
      /\ End(r) /\ UNCHANGED <<planStatus, qty, inserted, heldElsewhere>>
  BY DEF Consume
<1>3. TypeOK'
  <2>1. reserved' \in Nat /\ onHand' \in Nat /\ held' \in [Plan -> Int] /\ used' \in [Plan -> Nat]
    BY <1>1, <1>2 DEF TypeOK
  <2>2. row' \in [Plan -> {"none", "active", "released", "consumed"}]
    BY <1>1, <1>2 DEF TypeOK
  <2> QED
    BY <1>1, <1>2, <2>1, <2>2 DEF TypeOK, End
<1>4. \A q \in Plan : q # first[r] => row'[q] = row[q] /\ used'[q] = used[q] /\ held'[q] = held[q]
  BY <1>2
<1>5. \A q \in Plan : q = first[r] => row'[q] # "none"
  BY <1>2
<1>6. ASSUME NEW q \in Plan, q = first[r], at[r] \notin overlaps
      PROVE  (row'[q] = "active" => used'[q] < qty[q]) /\ held'[q] = Outstanding(q)'
  <2>1. ReadIsCurrent(r) /\ OrderOf[q] = at[r]
    BY <1>1, <1>6 DEF Requests, Alone, KeepsToOrder
  <2>2. row[q] = "active" /\ seenUsed[r] = used[q] /\ used[q] < qty[q] /\ held[q] = qty[q] - used[q]
    BY <1>1, <1>6, <2>1 DEF ReadIsCurrent, Rows, HeldAsRecorded, ActiveHasRest, Outstanding
  <2>3. /\ held'[q] = held[q] - 1 /\ used'[q] = used[q] + 1 /\ qty' = qty
        /\ row'[q] = IF used[q] + 1 >= qty[q] THEN "consumed" ELSE "active"
    BY <1>2, <1>6, <2>2
  <2>4. qty[q] \in Nat /\ used[q] \in Nat
    BY <1>1 DEF TypeOK
  <2> QED
    BY <2>2, <2>3, <2>4 DEF Outstanding
<1> QED
  BY <1>1, <1>2, <1>3, <1>4, <1>5, <1>6, OneRowWritten

\* A request begins: where the plan p, the order o, the plans S and the row f with n
\* units used are what it is about.
Begins(r, ph, o, p, S, f, n) ==
  /\ phase' = [phase EXCEPT ![r] = ph] /\ at' = [at EXCEPT ![r] = o]
  /\ about' = [about EXCEPT ![r] = p] /\ seen' = [seen EXCEPT ![r] = S]
  /\ first' = [first EXCEPT ![r] = f] /\ seenUsed' = [seenUsed EXCEPT ![r] = n]
  /\ overlaps' = overlaps \cup {x \in {o} : \E s \in Request : ~Idle(s) /\ at[s] = x}
  /\ p \in Plan => OrderOf[p] = o
  /\ ph = "older" => S = {q \in PlansOf(o) \ {p} : planStatus[q] = "approved"}
  /\ f # NoPlan => ph = "releasing" /\ f = p /\ row[f] = "active" /\ n = used[f]

LEMMA BeginHeldBy ==
  ASSUME HeldInvariant, NEW r \in Request, Idle(r), UNCHANGED <<planStatus, rowVars, itemVars>>,
         NEW ph \in {"creating", "older", "releasing", "plans"}, NEW o \in Order, NEW p \in Plan \cup {NoPlan},
         NEW S \in SUBSET PlansOf(o), NEW f \in Plan \cup {NoPlan}, NEW n \in Nat,
         Begins(r, ph, o, p, S, f, n)
  PROVE  HeldInvariant'
<1>1. TypeOK /\ Requests /\ Rows
  BY DEF HeldInvariant, Requests, Rows
<1>2. UNCHANGED <<row, qty, used, inserted, held, onHand, reserved, heldElsewhere>>
  BY DEF rowVars, itemVars
<1>3. Requests'
  BY <1>1, <1>2, BeginOfRequest DEF Begins
<1>4. TypeOK'
  BY <1>1, <1>2 DEF TypeOK, Begins, PlansOf
<1>5. Rows'
  BY <1>1, <1>2, <1>4, RowsStay DEF SameApproved, Begins
<1> QED
  BY <1>3, <1>4, <1>5 DEF HeldInvariant, Requests, Rows

LEMMA BeginHeld ==
  ASSUME HeldInvariant, NEW r \in Request, NEW p \in Plan,
         BeginCreate(r, p) \/ BeginApprove(r, p) \/ BeginRelease(r, p)
  PROVE  HeldInvariant'
<1>1. TypeOK /\ Requests /\ Rows /\ OrderOf[p] \in Order /\ OrderOf \in [Plan -> Order] /\ NoPlan \notin Plan
  BY PlansAssumption DEF HeldInvariant, Requests, Rows
<1>2. /\ Idle(r) /\ UNCHANGED <<planStatus, rowVars, itemVars>>
      /\ first[r] = NoPlan /\ seen[r] = {} /\ seenUsed[r] \in Nat
  BY <1>1 DEF BeginCreate, BeginApprove, BeginRelease, Begin, Requests, KeepsToOrder, Idle, TypeOK
<1>3. /\ first' = first => first' = [first EXCEPT ![r] = NoPlan]
      /\ seenUsed' = seenUsed => seenUsed' = [seenUsed EXCEPT ![r] = seenUsed[r]]
      /\ seen' = seen => seen' = [seen EXCEPT ![r] = {}]
  BY <1>1, <1>2 DEF TypeOK
<1>4. CASE BeginCreate(r, p)
  <2> DEFINE S == {q \in PlansOf(OrderOf[p]) : planStatus[q] \in Open}
  <2>1. S \in SUBSET PlansOf(OrderOf[p]) /\ seen' = [seen EXCEPT ![r] = S]
    BY <1>4 DEF BeginCreate, Begin
  <2> HIDE DEF S
  <2>2. Begins(r, "creating", OrderOf[p], p, S, NoPlan, seenUsed[r])
    BY <1>1, <1>3, <1>4, <2>1 DEF BeginCreate, Begin, Begins
  <2> QED
    BY <1>1, <1>2, <2>1, <2>2, BeginHeldBy
<1>5. CASE BeginApprove(r, p)
  <2> DEFINE S == {q \in PlansOf(OrderOf[p]) \ {p} : planStatus[q] = "approved"}
  <2>1. S \in SUBSET PlansOf(OrderOf[p])
    OBVIOUS
  <2>2. Begins(r, "older", OrderOf[p], p, S, NoPlan, seenUsed[r])
    BY <1>1, <1>3, <1>5 DEF BeginApprove, Begin, Begins
  <2> HIDE DEF S
  <2> QED
    BY <1>1, <1>2, <2>1, <2>2, BeginHeldBy
<1>6. CASE BeginRelease(r, p)
  <2> DEFINE f == IF row[p] = "active" THEN p ELSE NoPlan
             n == IF row[p] = "active" THEN used[p] ELSE 0
  <2>1. f \in Plan \cup {NoPlan} /\ n \in Nat /\ (f # NoPlan => f = p /\ row[f] = "active" /\ n = used[f])
    BY <1>1 DEF TypeOK
  <2>2. first' = [first EXCEPT ![r] = f] /\ seenUsed' = [seenUsed EXCEPT ![r] = n]
    BY <1>6 DEF BeginRelease
  <2> HIDE DEF f, n
  <2>3. Begins(r, "releasing", OrderOf[p], p, {}, f, n)
    BY <1>1, <1>3, <1>6, <2>1, <2>2 DEF BeginRelease, Begins
  <2> QED
    BY <1>1, <1>2, <2>1, <2>3, BeginHeldBy
<1> QED
  BY <1>4, <1>5, <1>6

LEMMA ConsumeBegins ==
  ASSUME HeldInvariant, NEW r \in Request, NEW o \in Order, BeginConsume(r, o)
  PROVE  HeldInvariant'
<1> DEFINE S == {q \in PlansOf(o) : planStatus[q] = "approved"}
<1>1. /\ Idle(r) /\ UNCHANGED <<planStatus, rowVars, itemVars>> /\ S \in SUBSET PlansOf(o)
      /\ seen' = [seen EXCEPT ![r] = S] /\ NoPlan \notin Plan
  BY PlansAssumption DEF BeginConsume, Begin
<1>2. first[r] = NoPlan /\ seenUsed[r] \in Nat /\ TypeOK
  BY <1>1 DEF HeldInvariant, KeepsToOrder, Idle, TypeOK
<1>3. /\ first' = [first EXCEPT ![r] = NoPlan]
      /\ seenUsed' = [seenUsed EXCEPT ![r] = seenUsed[r]]
  BY <1>2 DEF BeginConsume, Begin, TypeOK
<1> HIDE DEF S
<1>4. Begins(r, "plans", o, NoPlan, S, NoPlan, seenUsed[r])
  BY <1>1, <1>3 DEF BeginConsume, Begin, Begins
<1> QED
  BY <1>1, <1>2, <1>4, BeginHeldBy

LEMMA ReadHeld ==
  ASSUME HeldInvariant, NEW r \in Request, NEW p \in Plan \cup {NoPlan},
         ReadOlderRows(r, p) \/ ReadPlanRows(r, p)
  PROVE  HeldInvariant'
<1>1. TypeOK /\ Requests /\ Rows /\ seen[r] \subseteq Plan
  BY DEF HeldInvariant, Requests, Rows, TypeOK
<1>2. UNCHANGED <<planStatus, rowVars, itemVars, at, about, seen, overlaps>>
  BY DEF ReadOlderRows, ReadPlanRows, Read
<1>3. IF p = NoPlan THEN \A q \in seen[r] : row[q] # "active" ELSE p \in seen[r] /\ row[p] = "active"
  BY DEF ReadOlderRows, ReadPlanRows
<1>4. \E ph \in {"approving", "consuming"} :
        Read(r, ph, p) /\ phase[r] = IF ph = "approving" THEN "older" ELSE "plans"
  BY DEF ReadOlderRows, ReadPlanRows
<1>5. Requests'
  BY <1>1, <1>3, <1>4, ReadOfRequest
<1>6. TypeOK'
  BY <1>1, <1>2, <1>4, PlansAssumption DEF TypeOK, Read, rowVars, itemVars
<1>7. Rows'
  BY <1>1, <1>2, <1>6, RowsStay DEF SameApproved, itemVars
<1> QED
  BY <1>5, <1>6, <1>7 DEF HeldInvariant, Requests, Rows

\* A request ends that wrote no row, or made open plans superseded and one a draft.
LEMMA EndHeld ==
  ASSUME HeldInvariant, PlansInvariant, NEW r \in Request, Create(r) \/ Refuse(r)
  PROVE  HeldInvariant'
<1>1. TypeOK /\ Requests /\ Rows
  BY DEF HeldInvariant, Requests, Rows
<1>2. End(r) /\ ~Idle(r) /\ UNCHANGED <<rowVars, itemVars, overlaps>>
  BY DEF Create, Refuse, End, Idle
<1>3. planStatus' \in [Plan -> PlanStatus]
  BY <1>1 DEF Create, Refuse, TypeOK, PlanStatus
<1>4. \A q \in Plan : /\ SameApproved(q)
                      /\ planStatus'[q] = "superseded" => planStatus[q] \in Open \cup {"superseded"}
                      /\ planStatus[q] = "superseded" => planStatus'[q] = "superseded"
  <2>1. CASE Refuse(r)
    BY <2>1 DEF Refuse, SameApproved
  <2>2. CASE Create(r)
    <3>1. planStatus[about[r]] = "absent"
      BY <2>2 DEF Create, PlansInvariant, CreationKnows
    <3> QED
      BY <2>2, <3>1 DEF Create, SameApproved, Open
  <2> QED
    BY <2>1, <2>2
<1>5. TypeOK'
  BY <1>1, <1>2, <1>3 DEF TypeOK, End, rowVars, itemVars
<1>6. Rows'
  BY <1>1, <1>2, <1>4, <1>5, RowsStay DEF itemVars
<1>7. Requests'
  <2>1. UNCHANGED <<row, used>>
    BY <1>2 DEF rowVars
  <2> QED
    BY <1>1, <1>2, <1>4, <2>1, EndOfRequest
<1> QED
  BY <1>5, <1>6, <1>7 DEF HeldInvariant, Requests, Rows

LEMMA NoRequestHeld ==
  ASSUME HeldInvariant,
         (\E p \in Plan : Submit(p) \/ Reject(p)) \/ StockElsewhere \/ UNCHANGED vars
  PROVE  HeldInvariant'
<1>1. TypeOK /\ Requests /\ Rows
  BY DEF HeldInvariant, Requests, Rows
<1>2. UNCHANGED <<requestVars, overlaps, rowVars, held>>
  BY DEF Submit, Reject, StockElsewhere, vars, itemVars
<1>3. /\ planStatus' \in [Plan -> PlanStatus]
      /\ \A q \in Plan : /\ SameApproved(q)
                         /\ planStatus'[q] = "superseded" => planStatus[q] \in Open \cup {"superseded"}
                         /\ planStatus[q] = "superseded" => planStatus'[q] = "superseded"
  <2>1. ASSUME NEW p \in Plan, Submit(p) \/ Reject(p) PROVE <1>3!:
    <3>1. PICK st \in {"submitted", "rejected"} : planStatus' = [planStatus EXCEPT ![p] = st]
      BY <2>1 DEF Submit, Reject
    <3>2. planStatus[p] \in Open
      BY <2>1 DEF Submit, Reject, Open
    <3> QED
      BY <1>1, <3>1, <3>2 DEF TypeOK, PlanStatus, SameApproved, Open
  <2>2. CASE UNCHANGED planStatus
    BY <1>1, <2>2 DEF TypeOK, SameApproved
  <2> QED
    BY <2>1, <2>2 DEF StockElsewhere, vars
<1>4. onHand' \in Nat /\ reserved' \in Nat /\ heldElsewhere' \in Nat
  BY <1>1 DEF Submit, Reject, StockElsewhere, vars, TypeOK, itemVars
<1>5. TypeOK'
  BY <1>1, <1>2, <1>3, <1>4 DEF TypeOK, rowVars, requestVars
<1>6. Rows'
  BY <1>1, <1>2, <1>3, <1>5, RowsStay
<1>7. Requests'
  BY <1>1, <1>2, <1>3, NoRequest
<1> QED
  BY <1>5, <1>6, <1>7 DEF HeldInvariant, Requests, Rows

LEMMA InitHeld == Init => HeldInvariant
<1> SUFFICES ASSUME Init PROVE HeldInvariant
  OBVIOUS
<1>1. TypeOK
  BY PlansAssumption DEF Init, TypeOK, PlanStatus
<1>2. \A r \in Request : Idle(r) /\ KeepsToOrder(r)
  BY PlansAssumption DEF Init, KeepsToOrder, Idle
<1>3. RowsKnown /\ ActiveHasRest /\ OneApprovedPlan /\ HeldAsRecorded
  BY DEF Init, RowsKnown, ActiveHasRest, OneApprovedPlan, HeldAsRecorded, Outstanding
<1> QED
  BY <1>1, <1>2, <1>3 DEF HeldInvariant, Alone

LEMMA NextHeld == HeldInvariant /\ PlansInvariant /\ [Next]_vars => HeldInvariant'
<1> SUFFICES ASSUME HeldInvariant, PlansInvariant, [Next]_vars PROVE HeldInvariant'
  OBVIOUS
<1>1. ASSUME NEW r \in Request, NEW p \in Plan, BeginCreate(r, p) \/ BeginApprove(r, p) \/ BeginRelease(r, p)
      PROVE  HeldInvariant'
  BY <1>1, BeginHeld, PlansAssumption
<1>2. ASSUME NEW r \in Request, NEW p \in Plan \cup {NoPlan}, ReadOlderRows(r, p) \/ ReadPlanRows(r, p)
      PROVE  HeldInvariant'
  BY <1>2, ReadHeld
<1>3. ASSUME NEW r \in Request, NEW o \in Order, BeginConsume(r, o) PROVE HeldInvariant'
  BY <1>3, ConsumeBegins
<1>4. ASSUME NEW r \in Request, Create(r) \/ Approve(r) \/ Release(r) \/ Consume(r) \/ Refuse(r)
      PROVE  HeldInvariant'
  BY <1>4, EndHeld, ApproveHeld, ReleaseHeld, ConsumeHeld
<1>5. CASE (\E p \in Plan : Submit(p) \/ Reject(p)) \/ StockElsewhere \/ UNCHANGED vars
  BY <1>5, NoRequestHeld
<1> QED
  BY <1>1, <1>2, <1>3, <1>4, <1>5 DEF Next

-----------------------------------------------------------------------------

\* The invariant of decisions and creations (operations-plans.ts, reservePlanMaterials).
THEOREM PlansCorrect == Spec => []PlansInvariant
<1>1. PlansInvariant /\ [Next]_vars => PlansInvariant'
  BY NextSound DEF Sound
<1> QED
  BY <1>1, InitSound, PTL DEF Spec

\* For any plans, orders, requests and stock: an approved plan yields only to
\* another plan of its order that is approved in the same transaction.
THEOREM YieldsOnlyToApproval == Spec => YieldsToApproval
<1>1. PlansInvariant /\ [Next]_vars => Yields
  BY NextSound DEF Sound
<1> QED
  BY <1>1, PlansCorrect, PTL DEF Spec, YieldsToApproval, Yields

\* And a rejected or superseded plan is never taken up again.
THEOREM EndedStay == Spec => EndedPlansStayEnded
<1>1. PlansInvariant /\ [Next]_vars => StayEnded
  BY NextSound DEF Sound
<1> QED
  BY <1>1, PlansCorrect, PTL DEF Spec, EndedPlansStayEnded, StayEnded
-----------------------------------------------------------------------------

\* The inductive invariant of what is held, and of what a request that is alone at
\* its order knows of it.
THEOREM HeldCorrect == Spec => []HeldInvariant
<1> QED
  BY InitHeld, NextHeld, PlansCorrect, PTL DEF Spec

\* The types of the plans' state: the item's reserve and stock are never negative,
\* whichever requests race.
THEOREM TypesCorrect == Spec => []TypeOK
<1>1. HeldInvariant => TypeOK
  BY DEF HeldInvariant
<1> QED
  BY <1>1, HeldCorrect, PTL

\* For any plans, orders, requests and stock: where no two requests are about an
\* order at once, one plan of it at most is approved, and no other has material.
THEOREM OneApproved == Spec => []OneApprovedPlan
<1>1. HeldInvariant => OneApprovedPlan
  BY DEF HeldInvariant
<1> QED
  BY <1>1, HeldCorrect, PTL

\* And what the item's reserve holds for its plans is what their rows say.
THEOREM HeldIsRecorded == Spec => []HeldAsRecorded
<1>1. HeldInvariant => HeldAsRecorded
  BY DEF HeldInvariant
<1> QED
  BY <1>1, HeldCorrect, PTL
=============================================================================
