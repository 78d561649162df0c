--------------------------- MODULE ProductionProofs ---------------------------
(***************************************************************************)
(* Proofs about ProductionWorkflow for any number of orders, materials and *)
(* requests in flight, any recipe and any company limit: its types, the    *)
(* transition ledger and the adjustments beside it, the finished goods,    *)
(* the material requested and issued, the transfers and their sums, and    *)
(* what a cancellation posts back.                                         *)
(***************************************************************************)
EXTENDS ProductionProperties, FiniteSetTheorems, SequenceTheorems, WellFoundedInduction, TLAPS

-----------------------------------------------------------------------------
(* Sums over finite sets *)

\* The equation of the function by which SumFunctionOnSet is defined.
Adds(it, g, D) == it = [s \in D |-> IF s = {} THEN 0
                                    ELSE LET x == CHOOSE x \in s : TRUE IN g[x] + it[s \ {x}]]

\* A set of numbers has a least element, a set of finite sets one that contains no
\* other: both stand for induction.
LEMMA LeastNumber ==
  ASSUME NEW N \in SUBSET Nat, N # {}
  PROVE  \E n \in N : \A m \in N : n <= m
<1> DEFINE R == OpToRel(<, Nat)
<1>1. IsWellFoundedOn(R, Nat)
  BY NatLessThanWellFounded
<1>2. \A m, n \in Nat : m < n => <<m, n>> \in R
  BY DEF OpToRel
<1> HIDE DEF R
<1>3. PICK n \in N : \A m \in N : <<m, n>> \notin R
  BY <1>1, WFMin, Zenon
<1>4. ASSUME NEW m \in N PROVE n <= m
  <2>1. m \in Nat /\ n \in Nat /\ ~ (m < n)
    BY <1>2, <1>3
  <2> QED
    BY <2>1
<1> QED
  BY <1>4

\* Of some subsets of a finite set one contains no other.
LEMMA LeastSet ==
  ASSUME NEW S, IsFiniteSet(S), NEW N \in SUBSET (SUBSET S), N # {}
  PROVE  \E T \in N : \A U \in N : U \subseteq T => U = T
<1>1. N \subseteq FiniteSubsetsOf(S)
  BY FS_Subset DEF FiniteSubsetsOf
<1>2. \E T \in N : \A U \in N : <<U, T>> \notin StrictSubsetOrdering(S)
  BY <1>1, FS_StrictSubsetOrderingWellFounded, WFMin, Zenon
<1> QED
  BY <1>2 DEF StrictSubsetOrdering

\* The function by which a sum is defined exists.
LEMMA SumExists ==
  ASSUME NEW S, IsFiniteSet(S), NEW g, \A x \in S : g[x] \in Int
  PROVE  \E it \in [SUBSET S -> Int] : Adds(it, g, SUBSET S)
<1> DEFINE Upto(n) == {s \in SUBSET S : Cardinality(s) <= n}
           N == {n \in Nat : ~ \E it \in [Upto(n) -> Int] : Adds(it, g, Upto(n))}
<1>1. \A s \in SUBSET S : IsFiniteSet(s) /\ Cardinality(s) \in Nat /\ Cardinality(s) <= Cardinality(S)
  BY FS_Subset, FS_CardinalityType
<1>2. Cardinality(S) \in Nat /\ Upto(Cardinality(S)) = SUBSET S
  BY <1>1
<1>3. 0 \notin N
  <2> DEFINE it == [s \in Upto(0) |-> 0]
  <2>1. \A s \in Upto(0) : s = {}
    BY <1>1, FS_EmptySet
  <2>2. it \in [Upto(0) -> Int] /\ Adds(it, g, Upto(0))
    BY <2>1 DEF Adds
  <2> QED
    BY <2>2
<1>4. ASSUME NEW n \in Nat, n \notin N PROVE n + 1 \notin N
  <2>1. PICK it \in [Upto(n) -> Int] : Adds(it, g, Upto(n))
    BY <1>4
  <2> DEFINE next == [s \in Upto(n + 1) |-> IF s = {} THEN 0
                        ELSE LET x == CHOOSE x \in s : TRUE IN g[x] + it[s \ {x}]]
  <2>2. ASSUME NEW s \in Upto(n + 1), s # {}, NEW x, x = CHOOSE y \in s : TRUE
        PROVE  x \in s /\ x \in S /\ s \ {x} \in Upto(n)
    <3>1. x \in s
      BY <2>2
    <3>2. Cardinality(s \ {x}) = Cardinality(s) - 1
      BY <1>1, <3>1, FS_RemoveElement
    <3> QED
      BY <1>1, <3>1, <3>2
  <2>3. \A s \in Upto(n) : s \in Upto(n + 1) /\ next[s] = it[s]
    <3>1. \A s \in Upto(n) : s \in Upto(n + 1)
      BY <1>1
    <3>2. \A s \in Upto(n) : it[s] = IF s = {} THEN 0
                                     ELSE LET x == CHOOSE x \in s : TRUE IN g[x] + it[s \ {x}]
      BY <2>1 DEF Adds
    <3> HIDE DEF Upto
    <3> QED
      BY <3>1, <3>2
  <2>4. ASSUME NEW s \in Upto(n + 1), s # {}, NEW x, x = CHOOSE y \in s : TRUE
        PROVE  next[s] = g[x] + it[s \ {x}] /\ next[s] \in Int /\ next[s \ {x}] = it[s \ {x}]
    <3>1. x \in S /\ s \ {x} \in Upto(n)
      BY <2>2, <2>4
    <3>2. next[s] = g[x] + it[s \ {x}]
      BY <2>4
    <3> HIDE DEF Upto, next
    <3> QED
      BY <2>1, <2>3, <3>1, <3>2
  <2>5. {} \in Upto(n + 1) => next[{}] = 0
    OBVIOUS
  <2>6. DOMAIN next = Upto(n + 1) /\ next = [s \in Upto(n + 1) |-> next[s]]
    OBVIOUS
  <2> HIDE DEF Upto, next
  <2>7. next \in [Upto(n + 1) -> Int]
    <3>1. ASSUME NEW s \in Upto(n + 1) PROVE next[s] \in Int
      <4>1. CASE s = {}
        BY <2>5, <4>1
      <4>2. CASE s # {}
        BY <2>4, <4>2
      <4> QED
        BY <4>1, <4>2
    <3> QED
      BY <2>6, <3>1
  <2>8. ASSUME NEW s \in Upto(n + 1)
        PROVE  next[s] = IF s = {} THEN 0 ELSE LET x == CHOOSE x \in s : TRUE IN g[x] + next[s \ {x}]
    BY <2>4, <2>5
  <2>9. Adds(next, g, Upto(n + 1))
    BY <2>6, <2>8 DEF Adds
  <2> QED
    BY <2>7, <2>9
<1>5. Cardinality(S) \notin N
  <2> SUFFICES ASSUME N # {} PROVE FALSE
    BY <1>2
  <2> HIDE DEF N
  <2>1. N \in SUBSET Nat
    BY DEF N
  <2>2. PICK n \in N : \A m \in N : n <= m
    BY <2>1, LeastNumber
  <2>3. n # 0 /\ n \in Nat
    BY <1>3, <2>1
  <2>4. n - 1 \in Nat /\ n - 1 \notin N
    BY <2>1, <2>2, <2>3
  <2>5. (n - 1) + 1 \notin N
    BY <1>4, <2>4
  <2> QED
    BY <2>2, <2>3, <2>5
<1> QED
  BY <1>2, <1>5

\* A sum is the value of that function, which is unique (AddsTypes to SameSum) and
\* does not depend on the order in which CHOOSE takes the elements.
LEMMA SumOn ==
  ASSUME NEW g, NEW S, IsFiniteSet(S), \A x \in S : g[x] \in Int
  PROVE  \E it : /\ Adds(it, g, SUBSET S) /\ SumFunctionOnSet(g, S) = it[S]
<1>1. SumFunctionOnSet(g, S) = (CHOOSE it : Adds(it, g, SUBSET S))[S]
  BY DEF SumFunctionOnSet, FoldFunctionOnSet, MapThenFoldSet, Adds
<1> QED
  BY <1>1, SumExists

\* What adds up integers is an integer for every subset.
LEMMA AddsTypes ==
  ASSUME NEW S, IsFiniteSet(S), NEW g, \A x \in S : g[x] \in Int, NEW it, Adds(it, g, SUBSET S)
  PROVE  it \in [SUBSET S -> Int]
<1> DEFINE N == {T \in SUBSET S : it[T] \notin Int}
<1>1. N = {}
  <2> SUFFICES ASSUME N # {} PROVE FALSE
    OBVIOUS
  <2>1. N \in SUBSET (SUBSET S)
    OBVIOUS
  <2> HIDE DEF N
  <2>2. PICK T \in N : \A U \in N : U \subseteq T => U = T
    BY <2>1, LeastSet
  <2>3. T \subseteq S /\ it[T] \notin Int
    BY DEF N
  <2>4. T # {}
    BY <2>3 DEF Adds
  <2> DEFINE x == CHOOSE x \in T : TRUE
  <2>5. x \in T /\ it[T] = g[x] + it[T \ {x}]
    BY <2>3, <2>4 DEF Adds
  <2>6. T \ {x} \notin N
    BY <2>2, <2>5
  <2>7. it[T \ {x}] \in Int
    BY <2>3, <2>6 DEF N
  <2> QED
    BY <2>3, <2>5, <2>7
<1> QED
  BY <1>1 DEF Adds

\* Whichever member is taken out first, the sum is the same.
LEMMA AnyOrder ==
  \A S, g, it, T, e :
     /\ IsFiniteSet(S) /\ (\A x \in S : g[x] \in Int) /\ Adds(it, g, SUBSET S)
     /\ T \subseteq S /\ e \in T
     => it[T] = g[e] + it[T \ {e}]
<1> SUFFICES ASSUME NEW S, NEW g, NEW it,
                    IsFiniteSet(S), \A x \in S : g[x] \in Int, Adds(it, g, SUBSET S)
             PROVE  \A T, e : T \subseteq S /\ e \in T => it[T] = g[e] + it[T \ {e}]
  OBVIOUS
<1> DEFINE N == {T \in SUBSET S : \E e \in T : it[T] # g[e] + it[T \ {e}]}
<1>1. N = {}
  <2> SUFFICES ASSUME N # {} PROVE FALSE
    OBVIOUS
  <2>1. N \in SUBSET (SUBSET S)
    OBVIOUS
  <2> HIDE DEF N
  <2>2. PICK T \in N : \A U \in N : U \subseteq T => U = T
    BY <2>1, LeastSet
  <2>3. PICK e \in T : it[T] # g[e] + it[T \ {e}]
    BY DEF N
  <2> DEFINE x == CHOOSE x \in T : TRUE
  <2>4. x \in T /\ T \subseteq S /\ it[T] = g[x] + it[T \ {x}]
    BY <2>1 DEF Adds
  <2>5. x # e
    BY <2>3, <2>4
  <2>6. it[T \ {x}] = g[e] + it[(T \ {x}) \ {e}]
    BY <2>2, <2>4, <2>5 DEF N
  <2>7. it[T \ {e}] = g[x] + it[(T \ {e}) \ {x}]
    BY <2>2, <2>4, <2>5 DEF N
  <2>8. (T \ {e}) \ {x} = (T \ {x}) \ {e}
    OBVIOUS
  <2>9. it[(T \ {x}) \ {e}] \in Int /\ g[x] \in Int /\ g[e] \in Int
    BY <2>4, AddsTypes
  <2>10. \A i, j, k \in Int : i + (j + k) = j + (i + k)
    OBVIOUS
  <2>11. g[x] + (g[e] + it[(T \ {x}) \ {e}]) = g[e] + (g[x] + it[(T \ {x}) \ {e}])
    BY <2>9, <2>10
  <2> QED
    BY <2>3, <2>4, <2>6, <2>7, <2>8, <2>11
<1> QED
  BY <1>1

\* The sum over a set looks at nothing outside it.
LEMMA SameSum ==
  \A S, R, g, h, it, jt :
     /\ IsFiniteSet(S) /\ R \subseteq S /\ (\A x \in R : g[x] = h[x])
     /\ Adds(it, g, SUBSET S) /\ Adds(jt, h, SUBSET R)
     => it[R] = jt[R]
<1> SUFFICES ASSUME NEW S, NEW R, NEW g, NEW h, NEW it, NEW jt,
                    IsFiniteSet(S), R \subseteq S, \A x \in R : g[x] = h[x],
                    Adds(it, g, SUBSET S), Adds(jt, h, SUBSET R)
             PROVE  it[R] = jt[R]
  OBVIOUS
<1> DEFINE N == {T \in SUBSET R : it[T] # jt[T]}
<1>1. N = {}
  <2> SUFFICES ASSUME N # {} PROVE FALSE
    OBVIOUS
  <2>1. N \in SUBSET (SUBSET R) /\ IsFiniteSet(R)
    BY FS_Subset
  <2> HIDE DEF N
  <2>2. PICK T \in N : \A U \in N : U \subseteq T => U = T
    BY <2>1, LeastSet
  <2>3. T \subseteq R /\ it[T] # jt[T]
    BY DEF N
  <2>4. T # {}
    BY <2>3 DEF Adds
  <2> DEFINE x == CHOOSE x \in T : TRUE
  <2>5. x \in T /\ it[T] = g[x] + it[T \ {x}] /\ jt[T] = h[x] + jt[T \ {x}]
    BY <2>3, <2>4 DEF Adds
  <2>6. it[T \ {x}] = jt[T \ {x}]
    BY <2>2, <2>3, <2>5 DEF N
  <2> QED
    BY <2>3, <2>5, <2>6
<1> QED
  BY <1>1

\* What the proofs below use: sums are integers, they depend only on the values,
\* and adding an element adds its value.
LEMMA SumEmpty == ASSUME NEW g PROVE SumFunctionOnSet(g, {}) = 0
<1>1. PICK it : Adds(it, g, SUBSET {}) /\ SumFunctionOnSet(g, {}) = it[{}]
  BY SumOn, FS_EmptySet
<1> QED
  BY <1>1 DEF Adds

\* A sum of integers is an integer.
LEMMA SumType ==
  ASSUME NEW S, IsFiniteSet(S), NEW g, \A x \in S : g[x] \in Int
  PROVE  SumFunctionOnSet(g, S) \in Int
<1>1. PICK it : Adds(it, g, SUBSET S) /\ SumFunctionOnSet(g, S) = it[S]
  BY SumOn
<1>2. it \in [SUBSET S -> Int]
  BY <1>1, AddsTypes
<1> QED
  BY <1>1, <1>2

\* Equal members have equal sums.
LEMMA SumSame ==
  ASSUME NEW S, IsFiniteSet(S), NEW g, NEW h, \A x \in S : g[x] \in Int /\ h[x] = g[x]
  PROVE  SumFunctionOnSet(h, S) = SumFunctionOnSet(g, S)
<1>1. PICK it : Adds(it, g, SUBSET S) /\ SumFunctionOnSet(g, S) = it[S]
  BY SumOn
<1>2. PICK jt : Adds(jt, h, SUBSET S) /\ SumFunctionOnSet(h, S) = jt[S]
  BY SumOn
<1>3. S \subseteq S /\ \A x \in S : g[x] = h[x]
  OBVIOUS
<1>4. it[S] = jt[S]
  BY <1>1, <1>2, <1>3, SameSum
<1> QED
  BY <1>1, <1>2, <1>4

\* A member more adds its number to the sum.
LEMMA SumAdd ==
  ASSUME NEW S, IsFiniteSet(S), NEW e, e \notin S, NEW g, \A x \in S \cup {e} : g[x] \in Int
  PROVE  SumFunctionOnSet(g, S \cup {e}) = g[e] + SumFunctionOnSet(g, S)
<1> DEFINE T == S \cup {e}
<1>1. IsFiniteSet(T) /\ S \subseteq T /\ e \in T /\ T \ {e} = S /\ \A x \in T : g[x] \in Int
  BY FS_AddElement
<1> HIDE DEF T
<1>2. PICK it : Adds(it, g, SUBSET T) /\ SumFunctionOnSet(g, T) = it[T]
  BY <1>1, SumOn
<1>3. PICK jt : Adds(jt, g, SUBSET S) /\ SumFunctionOnSet(g, S) = jt[S]
  BY <1>1, SumOn
<1>4. T \subseteq T /\ it[T] = g[e] + it[T \ {e}]
  BY <1>1, <1>2, AnyOrder
<1>5. it[T] = g[e] + it[S]
  BY <1>1, <1>4
<1>6. it[S] = jt[S]
  BY <1>1, <1>2, <1>3, SameSum
<1> QED
  BY <1>2, <1>3, <1>5, <1>6 DEF T

\* Moving part of a value from one element to another keeps the sum.
LEMMA SumShift ==
  \A S, g, h : \A a, b \in S :
     /\ IsFiniteSet(S) /\ a # b
     /\ \A x \in S : g[x] \in Int /\ h[x] \in Int
     /\ \A x \in S \ {a, b} : h[x] = g[x]
     /\ h[a] + h[b] = g[a] + g[b]
     => SumFunctionOnSet(h, S) = SumFunctionOnSet(g, S)
<1> SUFFICES ASSUME NEW S, NEW g, NEW h, NEW a \in S, NEW b \in S, IsFiniteSet(S), a # b,
                    \A x \in S : g[x] \in Int /\ h[x] \in Int,
                    \A x \in S \ {a, b} : h[x] = g[x], h[a] + h[b] = g[a] + g[b]
             PROVE  SumFunctionOnSet(h, S) = SumFunctionOnSet(g, S)
  OBVIOUS
<1> DEFINE R == S \ {a, b}
           T == R \union {a}
<1>1. IsFiniteSet(R) /\ IsFiniteSet(T) /\ a \notin R /\ b \notin T /\ S = T \union {b}
  BY FS_Subset
<1>2. /\ \A x \in R : g[x] \in Int /\ h[x] = g[x]
      /\ \A x \in R \union {a} : g[x] \in Int /\ h[x] \in Int
      /\ \A x \in T \union {b} : g[x] \in Int /\ h[x] \in Int
  OBVIOUS
<1>3. SumFunctionOnSet(h, R) = SumFunctionOnSet(g, R) /\ SumFunctionOnSet(g, R) \in Int
  <2> HIDE DEF R
  <2> QED
    BY <1>1, <1>2, SumSame, SumType
<1>4. /\ SumFunctionOnSet(g, T) = g[a] + SumFunctionOnSet(g, R)
      /\ SumFunctionOnSet(h, T) = h[a] + SumFunctionOnSet(h, R)
  <2> HIDE DEF R
  <2> QED
    BY <1>1, <1>2, SumAdd
<1>5. /\ SumFunctionOnSet(g, T \union {b}) = g[b] + SumFunctionOnSet(g, T)
      /\ SumFunctionOnSet(h, T \union {b}) = h[b] + SumFunctionOnSet(h, T)
  <2> HIDE DEF T
  <2> QED
    BY <1>1, <1>2, SumAdd
<1>6. /\ SumFunctionOnSet(g, S) = g[b] + (g[a] + SumFunctionOnSet(g, R))
      /\ SumFunctionOnSet(h, S) = h[b] + (h[a] + SumFunctionOnSet(g, R))
  BY <1>1, <1>3, <1>4, <1>5
<1>7. \A i, j, k, l, s \in Int : i + j = k + l => j + (i + s) = l + (k + s)
  OBVIOUS
<1>8. g[a] \in Int /\ g[b] \in Int /\ h[a] \in Int /\ h[b] \in Int
  OBVIOUS
<1> QED
  <2> HIDE DEF R
  <2> QED
    BY <1>3, <1>6, <1>7, <1>8

\* A sum of naturals is a natural.
LEMMA SumNat ==
  ASSUME NEW S, IsFiniteSet(S), NEW g, \A x \in S : g[x] \in Nat
  PROVE  SumFunctionOnSet(g, S) \in Nat
<1> DEFINE N == {T \in SUBSET S : SumFunctionOnSet(g, T) \notin Nat}
<1>1. N = {}
  <2> SUFFICES ASSUME N # {} PROVE FALSE
    OBVIOUS
  <2>1. N \in SUBSET (SUBSET S)
    OBVIOUS
  <2> HIDE DEF N
  <2>2. PICK T \in N : \A U \in N : U \subseteq T => U = T
    BY <2>1, LeastSet
  <2>3. T \subseteq S /\ SumFunctionOnSet(g, T) \notin Nat
    BY DEF N
  <2>4. PICK e : e \in T
    BY <2>3, SumEmpty
  <2> DEFINE R == T \ {e}
  <2>5. IsFiniteSet(R) /\ e \notin R /\ R \subseteq S /\ R # T /\ R \subseteq T
    BY <2>3, <2>4, FS_Subset
  <2>6. SumFunctionOnSet(g, R) \in Nat
    BY <2>2, <2>5 DEF N
  <2>7. T = R \cup {e} /\ \A x \in R \cup {e} : g[x] \in Int /\ g[x] \in Nat
    BY <2>3, <2>4
  <2> HIDE DEF R
  <2>8. SumFunctionOnSet(g, T) = g[e] + SumFunctionOnSet(g, R)
    BY <2>5, <2>7, SumAdd
  <2> QED
    BY <2>3, <2>6, <2>7, <2>8
<1> QED
  BY <1>1 DEF N

\* A finite set of numbers that is not empty has a greatest one.
LEMMA GreatestNumber ==
  ASSUME NEW n \in Nat, NEW N \in SUBSET (1..n), N # {}
  PROVE  \E k \in N : \A m \in N : m <= k
<1> DEFINE M == {n - k : k \in N}
<1>1. M \in SUBSET Nat /\ M # {}
  <2>1. PICK k \in N : TRUE
    OBVIOUS
  <2>2. \A m \in 1..n : n - m \in Nat
    OBVIOUS
  <2> QED
    BY <2>1, <2>2
<1>2. PICK l \in M : \A m \in M : l <= m
  BY <1>1, LeastNumber
<1>3. PICK k \in N : l = n - k
  OBVIOUS
<1>4. ASSUME NEW m \in N PROVE m <= k
  <2>1. l <= n - m
    BY <1>2
  <2> QED
    BY <1>3, <2>1
<1> QED
  BY <1>3, <1>4

-----------------------------------------------------------------------------
(* Type correctness *)

\* The opening state is well typed.
LEMMA TypeInit == Init => TypeOK
<1>1. [m \in {} |-> 0] \in RequestSet
  BY DEF RequestSet
<1> QED
  BY <1>1, ProductionAssumption DEF Init, TypeOK, Item, Status

\* Inserting an order and moving it keep the types of the order's own row.
LEMMA TypeInsert ==
  ASSUME TypeOK, NEW o \in Order, Insert(o)
  PROVE  /\ status' \in [Order -> Status \union {"absent"}]
         /\ revision' \in [Order -> Nat]
         /\ events' \in [Order -> SUBSET EventSet]
  <1>1. Event(o, 0, "absent", "awaiting_operations_claim") \in EventSet
    BY DEF TypeOK, Event, EventSet, Status
  <1>2. QED BY <1>1 DEF TypeOK, Insert, Status

LEMMA TypeMove ==
  ASSUME TypeOK, NEW o \in Order, NEW to \in Status, Exists(o),
         SetStatus(o, to), Move(o, to) \/ RecordEvent(o, to)
  PROVE  /\ status' \in [Order -> Status \union {"absent"}]
         /\ revision' \in [Order -> Nat]
         /\ events' \in [Order -> SUBSET EventSet]
  <1>1. status' \in [Order -> Status \union {"absent"}] /\ revision' \in [Order -> Nat]
    BY DEF TypeOK, SetStatus
  <1>2. Event(o, revision'[o], status[o], to) \in EventSet
    BY <1>1 DEF TypeOK, Event, EventSet
  <1>3. events' \in [Order -> SUBSET EventSet]
    BY <1>2 DEF TypeOK, Move, RecordEvent
  <1>4. QED BY <1>1, <1>3

\* The routes that open, claim and hand over orders.
LEMMA TypePortal == ASSUME TypeOK, PortalNext PROVE TypeOK'
  <1> USE ProductionAssumption DEF Quantity
  <1>1. ASSUME NEW S \in SUBSET Order, NEW q \in Quantity, PortalSubmit(S, q) PROVE TypeOK'
    BY <1>1 DEF PortalSubmit, TypeOK, requestVars, stockVars, Status
  <1>2. CASE PortalConfirm
    <2>1. /\ status' \in [Order -> Status \union {"absent"}]
          /\ revision' \in [Order -> Nat]
      BY <1>2 DEF PortalConfirm, TypeOK, Status
    <2>2. \A o \in Order : status[o] = "awaiting_operations_claim"
            => Event(o, revision[o] + 1, status[o], "claimed") \in EventSet
      BY DEF TypeOK, Event, EventSet, Status
    <2>3. events' \in [Order -> SUBSET EventSet]
      BY <1>2, <2>2 DEF PortalConfirm, TypeOK
    <2>4. QED
      BY <1>2, <2>1, <2>3 DEF PortalConfirm, TypeOK, requestVars, stockVars
  <1>3. ASSUME NEW S \in SUBSET Order, SilentCancel(S), UNCHANGED detailVars
        PROVE  TypeOK'
    BY <1>3 DEF SilentCancel, detailVars, TypeOK, requestVars, stockVars, Status
  <1>4. CASE PortalReject
    BY <1>4 DEF PortalReject, SilentCancel, TypeOK, requestVars, stockVars, Status
  <1>5. QED
    BY <1>1, <1>2, <1>3, <1>4, PortalNext DEF PortalNext, PortalCancelEarly, PortalCancelCompany

\* A rounded quotient is a natural number no further from the quotient than half.
LEMMA RoundedNumber ==
  ASSUME NEW n \in Nat, NEW d \in Nat \ {0}, NEW r \in Rounded(n, d)
  PROVE  r \in Nat /\ 2 * n <= 2 * r * d + d
<1>1. n \div d \in Nat
  OBVIOUS
<1> QED
  BY <1>1 DEF Rounded

\* What a receipt may ask for is a rounded amount of each material.
LEMMA RequiredAmounts ==
  ASSUME NEW q \in Nat, NEW want \in Required(q)
  PROVE  /\ want \in [Material -> Nat]
         /\ \A m \in Material : 2 * (Recipe[m] * q) <= 2 * want[m] * Batch + Batch
<1>1. ASSUME NEW m \in Material
      PROVE  want[m] \in Nat /\ 2 * (Recipe[m] * q) <= 2 * want[m] * Batch + Batch
  <2>1. Recipe[m] * q \in Nat /\ Batch \in Nat \ {0} /\ want[m] \in Rounded(Recipe[m] * q, Batch)
    BY ProductionAssumption DEF Required
  <2> QED
    BY <2>1, RoundedNumber
<1> QED
  BY <1>1 DEF Required

\* A line of a decision names an item and a natural quantity.
LEMMA LineType ==
  ASSUME NEW lines \in Seq([item : Item, qty : Nat]), NEW k \in DOMAIN lines
  PROVE  lines[k].item \in Item /\ lines[k].qty \in Nat
<1> DEFINE Typed == [item : Item, qty : Nat]
<1>1. lines \in Seq(Typed) /\ k \in 1..Len(lines)
  OBVIOUS
<1>2. lines[k] \in Typed
  <2> HIDE DEF Typed
  <2> QED
    BY <1>1, ElementOfSeq
<1> QED
  BY <1>2

\* What lines of a decision take of an item is a natural number, and nothing when
\* none of them names it.
LEMMA TakenType ==
  ASSUME NEW lines \in Seq([item : Item, qty : Nat]), NEW paid \in SUBSET DOMAIN lines, NEW i
  PROVE  Taken(lines, paid, i) \in Nat
<1> DEFINE g == [k \in DOMAIN lines |-> lines[k].qty]
           S == {k \in paid : lines[k].item = i}
<1>1. IsFiniteSet(DOMAIN lines)
  BY FS_Interval
<1>2. S \in SUBSET DOMAIN lines
  OBVIOUS
<1>3. \A k \in DOMAIN lines : g[k] \in Nat
  BY LineType
<1>4. Taken(lines, paid, i) = SumFunctionOnSet(g, S)
  BY DEF Taken
<1> HIDE DEF g, S
<1>5. IsFiniteSet(S)
  BY <1>1, <1>2, FS_Subset
<1> QED
  BY <1>2, <1>3, <1>4, <1>5, SumNat

\* The lines that a partial decision could deduct take no more than the stock.
LEMMA TakenWithinStock ==
  ASSUME TypeOK, NEW lines \in Seq([item : Item, qty : Nat]), NEW paid \in PaidLines(lines),
         NEW i \in Item
  PROVE  Taken(lines, paid, i) <= stock[i]
<1> DEFINE g == [k \in DOMAIN lines |-> lines[k].qty]
           S == {k \in paid : lines[k].item = i}
<1>1. paid \in SUBSET DOMAIN lines /\ stock[i] \in Nat
  BY DEF PaidLines, TypeOK
<1>2. CASE S = {}
  <2>1. Taken(lines, paid, i) = SumFunctionOnSet(g, S)
    BY DEF Taken
  <2> HIDE DEF g, S
  <2> QED
    BY <1>1, <1>2, <2>1, SumEmpty
<1>3. CASE S # {}
  <2>1. Len(lines) \in Nat /\ S \in SUBSET (1..Len(lines))
    BY <1>1
  <2>2. PICK k \in S : \A m \in S : m <= k
    BY <1>3, <2>1, GreatestNumber
  <2> DEFINE before == {l \in paid : l < k}
             R == {l \in before : lines[l].item = lines[k].item}
  <2>3. lines[k].qty \in Nat /\ lines[k].item = i /\ k \in DOMAIN lines /\ k \in paid
    BY <1>1, LineType
  <2>4. lines[k].qty <= stock[i] - Taken(lines, before, i)
    <3>1. k \in paid <=> /\ 0 < lines[k].qty
                        /\ lines[k].qty <= stock[lines[k].item]
                              - Taken(lines, {l \in paid : l < k}, lines[k].item)
      BY <2>3 DEF PaidLines
    <3> QED
      BY <2>3, <3>1
  <2>5. R \cup {k} = S /\ k \notin R
    BY <2>1, <2>2, <2>3
  <2>6. IsFiniteSet(R) /\ \A l \in R \cup {k} : g[l] \in Int
    <3>1. IsFiniteSet(DOMAIN lines)
      BY FS_Interval
    <3>2. R \in SUBSET DOMAIN lines
      BY <1>1
    <3>3. \A l \in DOMAIN lines : g[l] \in Int
      <4>1. \A l \in DOMAIN lines : lines[l].qty \in Nat
        BY LineType
      <4> QED
        BY <4>1
    <3> HIDE DEF R, g
    <3>4. IsFiniteSet(R)
      BY <3>1, <3>2, FS_Subset
    <3> QED
      BY <2>3, <3>2, <3>3, <3>4
  <2>7. SumFunctionOnSet(g, R \cup {k}) = g[k] + SumFunctionOnSet(g, R)
    <3> HIDE DEF R, g
    <3> QED
      BY <2>5, <2>6, SumAdd
  <2>8. Taken(lines, before, i) = SumFunctionOnSet(g, R) /\ Taken(lines, paid, i) = SumFunctionOnSet(g, S)
    BY <2>3 DEF Taken
  <2>9. Taken(lines, before, i) \in Nat /\ g[k] = lines[k].qty
    BY <1>1, <2>3, TakenType
  <2>10. Taken(lines, paid, i) = lines[k].qty + Taken(lines, before, i)
    <3> HIDE DEF R, g, S, before
    <3> QED
      BY <2>5, <2>7, <2>8, <2>9
  <2> HIDE DEF before
  <2> QED
    BY <1>1, <2>3, <2>4, <2>9, <2>10
<1> QED
  BY <1>2, <1>3

\* The lines that a decision may be sent are sequences of an item and a quantity.
LEMMA LinesType ==
  Lines \subseteq Seq([item : Item, qty : Nat]) /\ <<>> \in Seq([item : Item, qty : Nat])
<1> DEFINE Typed == [item : Item, qty : Nat]
<1>1. ASSUME NEW n \in 1..MaxLines, NEW lines \in [1..n -> Line]
      PROVE  lines \in Seq(Typed)
  <2>1. n \in Nat /\ lines \in [1..n -> Typed]
    BY ProductionAssumption DEF Line
  <2> HIDE DEF Typed
  <2> QED
    BY <2>1, SeqDef
<1>2. <<>> \in Seq(Typed)
  <2> HIDE DEF Typed
  <2> QED
    OBVIOUS
<1> HIDE DEF Typed
<1>3. Lines \subseteq Seq(Typed)
  BY <1>1 DEF Lines
<1> QED
  BY <1>2, <1>3 DEF Typed

\* What an order asks for is of natural quantities, of materials.
LEMMA RequestType ==
  ASSUME TypeOK, NEW o \in Order, NEW m \in Linked(o)
  PROVE  m \in Material /\ m \in Item /\ requested[o][m] \in Nat
BY DEF TypeOK, RequestSet, Linked, Item

\* The transfers that a keeper's decision prepares are of the order's materials.
LEMMA PreparedType ==
  ASSUME TypeOK, NEW o \in Order, NEW d, d.lines \in Seq([item : Item, qty : Nat])
  PROVE  Prepared(o, d) \subseteq TransferSet
<1>1. ASSUME NEW line \in RequestedLines(o) \cup FirstLines(d.lines), line.item \in Linked(o)
      PROVE  line.item \in Material /\ line.qty \in Nat
  <2>1. line.item \in Material
    BY <1>1, RequestType
  <2>2. CASE line \in RequestedLines(o)
    BY <2>1, <2>2, RequestType DEF RequestedLines
  <2>3. CASE line \in FirstLines(d.lines)
    <3>1. PICK k \in DOMAIN d.lines : line = d.lines[k]
      BY <2>3 DEF FirstLines
    <3>2. d.lines[k].qty \in Nat
      BY LineType
    <3> QED
      BY <2>1, <3>1, <3>2
  <2> QED
    BY <1>1, <2>2, <2>3
<1> QED
  BY <1>1 DEF Prepared, TransferSet, Direction

\* An executive's decision deducts an amount of each item that is in stock.
LEMMA DeductedAmount ==
  ASSUME TypeOK, NEW o \in Order, NEW d, d.lines \in Seq([item : Item, qty : Nat]),
         ExecutiveCommit(o, d)
  PROVE  \E amount \in [Item -> Nat] : Deduct(o, amount) /\ \A i \in Item : amount[i] <= stock[i]
<1>1. \A i \in Item : stock[i] \in Nat
  BY DEF TypeOK
<1>2. CASE Payable(o) /\ Deduct(o, [i \in Item |-> IF i \in Linked(o) THEN requested[o][i] ELSE 0])
  <2> DEFINE amount == [i \in Item |-> IF i \in Linked(o) THEN requested[o][i] ELSE 0]
  <2>1. amount \in [Item -> Nat] /\ \A i \in Item : amount[i] <= stock[i]
    BY <1>1, <1>2, RequestType DEF Payable
  <2> QED
    BY <1>2, <2>1
<1>3. ASSUME NEW paid \in PaidLines(d.lines), Deduct(o, [i \in Item |-> Taken(d.lines, paid, i)])
      PROVE  \E amount \in [Item -> Nat] : Deduct(o, amount) /\ \A i \in Item : amount[i] <= stock[i]
  <2>1. paid \in SUBSET DOMAIN d.lines
    BY DEF PaidLines
  <2>2. \A i \in Item : Taken(d.lines, paid, i) \in Nat /\ Taken(d.lines, paid, i) <= stock[i]
    BY <2>1, TakenType, TakenWithinStock
  <2> QED
    BY <1>3, <2>2
<1> QED
  BY <1>2, <1>3 DEF ExecutiveCommit

\* What a decision may take stays within the stock it is checked against.
LEMMA TypeMaterials == ASSUME TypeOK, MaterialsNext PROVE TypeOK'
  <1> USE ProductionAssumption DEF Quantity
  <1>1. ASSUME NEW o \in Order, ReceiveRead(o) PROVE TypeOK'
    BY <1>1 DEF ReceiveRead, TypeOK, orderVars, detailVars, stockVars
  <1>2. ASSUME NEW o \in Order, MaterialsReject(o) PROVE TypeOK'
    <2>1. SetStatus(o, "materials_rejected") /\ Exists(o)
      BY <1>2 DEF MaterialsReject, Move, Exists
    <2>2. QED
      BY <1>2, <2>1, TypeMove
         DEF MaterialsReject, TypeOK, detailVars, stockVars, requestVars, Status
  <1>3. ASSUME NEW r \in receiving, ReceiveCommit(r) PROVE TypeOK'
    <2> DEFINE o == r.order
    <2>1. o \in Order /\ r.qty \in Nat
      BY DEF TypeOK
    <2>2. CASE status[o] = "claimed"
      <3>1. SetStatus(o, "materials_requested") /\ Exists(o) /\ Move(o, "materials_requested")
        BY <1>3, <2>2 DEF ReceiveCommit, Move, Exists
      <3>2. Required(r.qty) \subseteq [Material -> Nat]
        BY <2>1, RequiredAmounts
      <3>3. requested' \in [Order -> RequestSet]
        BY <1>3, <2>1, <2>2, <3>2 DEF ReceiveCommit, TypeOK, RequestSet
      <3>4. QED
        BY <1>3, <2>1, <2>2, <3>1, <3>3, TypeMove DEF ReceiveCommit, TypeOK, stockVars, Status
    <2>3. CASE status[o] # "claimed"
      BY <1>3, <2>3 DEF ReceiveCommit, TypeOK, orderVars, detailVars, stockVars
    <2>4. QED BY <2>2, <2>3
  <1>4. ASSUME NEW o \in Order, NEW by \in {"keeper", "executive"},
               NEW action \in {"materials_approved", "materials_partial"},
               NEW lines \in Seq([item : Item, qty : Nat]), DecisionRead(o, by, action, lines)
        PROVE  TypeOK'
    <2>1. [order |-> o, by |-> by, action |-> action, lines |-> lines] \in DecisionSet
      BY DEF DecisionSet
    <2>2. QED BY <1>4, <2>1 DEF DecisionRead, TypeOK, orderVars, detailVars, stockVars
  <1>5. ASSUME NEW d \in deciding, DecisionCommit(d) PROVE TypeOK'
    <2> DEFINE o == d.order
    <2>1. /\ o \in Order /\ d.lines \in Seq([item : Item, qty : Nat])
          /\ d.action \in {"materials_approved", "materials_partial"}
      BY DEF TypeOK, DecisionSet
    <2>2. CASE d.by = "keeper" /\ status[o] = "materials_requested"
      <3>1. SetStatus(o, d.action) /\ Exists(o) /\ Move(o, d.action) /\ KeeperCommit(o, d)
        BY <1>5, <2>2 DEF DecisionCommit, KeeperCommit, Move, Exists
      <3>2. Prepared(o, d) \subseteq TransferSet
        BY <2>1, PreparedType
      <3>3. QED
        BY <1>5, <2>1, <2>2, <3>1, <3>2, TypeMove
           DEF DecisionCommit, KeeperCommit, TypeOK, detailVars, Status
    <2>3. CASE d.by # "keeper" /\ status[o] = "materials_requested" /\ ExecutiveCommit(o, d)
      <3>1. SetStatus(o, d.action) /\ Exists(o) /\ Move(o, d.action)
        BY <2>3 DEF ExecutiveCommit, Move, Exists
      <3>2. PICK amount \in [Item -> Nat] : Deduct(o, amount) /\ \A i \in Item : amount[i] <= stock[i]
        BY <2>1, <2>3, DeductedAmount
      <3>3. stock' \in [Item -> Nat] /\ moved' \in [Order \X Item \X Cause -> Nat]
        BY <2>1, <3>2 DEF Deduct, TypeOK
      <3>4. QED
        BY <1>5, <2>1, <2>3, <3>1, <3>3, TypeMove
           DEF DecisionCommit, ExecutiveCommit, TypeOK, detailVars, orderVars, stockVars, Status
    <2>4. CASE UNCHANGED <<orderVars, stockVars>>
      BY <1>5, <2>4 DEF DecisionCommit, TypeOK, orderVars, stockVars, detailVars
    <2>5. QED BY <1>5, <2>2, <2>3, <2>4 DEF DecisionCommit
  <1>6. ASSUME NEW k \in ClientKey, NEW o \in Order, NEW m \in Material,
               NEW dir \in Direction, NEW q \in Quantity, CreateTransfer(k, o, m, dir, q)
        PROVE  TypeOK'
    <2>1. [key |-> k, order |-> o, item |-> m, direction |-> dir, qty |-> q,
           state |-> "pending"] \in TransferSet
      BY DEF TransferSet
    <2>2. QED BY <1>6, <2>1 DEF CreateTransfer, TypeOK, orderVars, detailVars, requestVars
  <1>7. ASSUME NEW t \in transfers, ReceiveTransfer(t) PROVE TypeOK'
    <2>1. t \in TransferSet
      BY DEF TypeOK
    <2>2. transfers' \subseteq TransferSet
      BY <1>7, <2>1 DEF ReceiveTransfer, TypeOK, TransferSet
    <2>3. stock' \in [Item -> Nat] /\ moved' \in [Order \X Item \X Cause -> Nat]
      <3>1. CASE t.direction \notin DOMAIN Effect
        BY <1>7, <3>1 DEF ReceiveTransfer, TypeOK
      <3>2. CASE t.direction \in DOMAIN Effect
        <4>1. Effect[t.direction] \in {"transfer_out", "transfer_in"}
          BY <3>2 DEF Effect
        <4>2. <<t.order, t.item, Effect[t.direction]>> \in Order \X Item \X Cause
          BY <2>1, <4>1 DEF TransferSet, Item, Cause
        <4>3. t.qty \in Nat /\ t.item \in Item
          BY <2>1 DEF TransferSet, Item
        <4>4. moved' = [moved EXCEPT ![<<t.order, t.item, Effect[t.direction]>>] = @ + t.qty]
          BY <1>7, <3>2 DEF ReceiveTransfer
        <4>5. moved' \in [Order \X Item \X Cause -> Nat]
          BY <4>2, <4>3, <4>4 DEF TypeOK
        <4>6. \E delta \in Int : stock[t.item] + delta >= 0
                               /\ stock' = [stock EXCEPT ![t.item] = @ + delta]
          BY <1>7, <3>2, <4>3 DEF ReceiveTransfer
        <4>7. stock' \in [Item -> Nat]
          BY <4>3, <4>6 DEF TypeOK
        <4>8. QED BY <4>5, <4>7
      <3>3. QED BY <3>1, <3>2
    <2>4. QED BY <1>7, <2>2, <2>3 DEF ReceiveTransfer, TypeOK, orderVars, detailVars, requestVars
  <1>8. Lines \subseteq Seq([item : Item, qty : Nat]) /\ <<>> \in Seq([item : Item, qty : Nat])
    BY LinesType
  <1>9. QED
    BY <1>1, <1>2, <1>3, <1>4, <1>5, <1>6, <1>7, <1>8, MaterialsNext DEF MaterialsNext

\* The routes of the lifecycle proper.
LEMMA TypeLifecycle == ASSUME TypeOK, LifecycleNext PROVE TypeOK'
  <1> USE ProductionAssumption DEF Quantity
  <1>1. ASSUME NEW o \in Order, NEW q \in Quantity, Create(o, q) PROVE TypeOK'
    BY <1>1, TypeInsert DEF Create, TypeOK, stockVars, requestVars
  <1>2. ASSUME NEW o \in Order, NEW q \in Quantity, PartialCompletion(o, q) PROVE TypeOK'
    BY <1>2, TypeMove
       DEF PartialCompletion, TypeOK, AdjustmentType, detailVars, stockVars, requestVars, Status
  <1>3. ASSUME NEW o \in Order, NEW c \in Order, NEW q \in Quantity, Split(o, c, q)
        PROVE  TypeOK'
    <2>1. qty[o] - q \in Nat /\ q \in Nat
      BY <1>3 DEF Split, TypeOK
    <2>2. qty' \in [Order -> Nat]
      BY <1>3, <2>1 DEF Split, TypeOK
    <2>3. QED
      BY <1>3, <2>2, TypeInsert DEF Split, TypeOK, AdjustmentType, stockVars, requestVars
  <1>4. ASSUME NEW o \in Order, Claim(o) PROVE TypeOK'
    BY <1>4, TypeMove DEF Claim, Move, Exists, TypeOK, detailVars, stockVars, requestVars, Status
  <1>5. ASSUME NEW o \in Order, Dispatch(o) PROVE TypeOK'
    <2>1. Exists(o) /\ SetStatus(o, "in_production") /\ Move(o, "in_production")
      BY <1>5 DEF Dispatch, Move, Exists
    <2>2. QED
      BY <1>5, <2>1, TypeMove DEF Dispatch, TypeOK, Stage, stockVars, requestVars, Status
  <1>6. ASSUME NEW o \in Order, AdvanceStage(o) PROVE TypeOK'
    <2>1. stage' \in [Order -> Stage \union {"none"}]
      BY <1>6 DEF AdvanceStage, TypeOK, NextStage, Stage
    <2>2. PICK to \in {"quality_check", "in_production"} : Move(o, to)
      BY <1>6 DEF AdvanceStage
    <2>3. Exists(o) /\ SetStatus(o, to)
      BY <1>6, <2>2 DEF AdvanceStage, Move, Exists
    <2>4. QED
      BY <1>6, <2>1, <2>2, <2>3, TypeMove DEF AdvanceStage, TypeOK, stockVars, requestVars, Status
  <1>7. ASSUME NEW o \in Order, ConfirmDelivery(o) PROVE TypeOK'
    <2>1. PICK to \in {"delivered_customer", "delivered_warehouse"} : Move(o, to)
      BY <1>7 DEF ConfirmDelivery
    <2>2. Exists(o) /\ SetStatus(o, to)
      BY <1>7, <2>1 DEF ConfirmDelivery, Move, Exists
    <2>3. stock' \in [Item -> Nat]
      BY <1>7 DEF ConfirmDelivery, TypeOK, Item
    <2>4. moved' \in [Order \X Item \X Cause -> Nat]
      <3>1. <<o, Product, "confirm">> \in Order \X Item \X Cause
        BY DEF Item, Cause
      <3>2. moved[<<o, Product, "confirm">>] + qty[o] \in Nat
        BY <3>1 DEF TypeOK
      <3>3. QED BY <1>7, <3>1, <3>2 DEF ConfirmDelivery, TypeOK
    <2>5. QED
      BY <1>7, <2>1, <2>2, <2>3, <2>4, TypeMove DEF ConfirmDelivery, TypeOK, detailVars, requestVars, Status
  <1>8. ASSUME NEW o \in Order, StaffCancel(o) PROVE TypeOK'
    <2>1. SetStatus(o, "cancelled")
      BY <1>8 DEF StaffCancel, Move
    <2>2. \A i \in Item : Deducted(o, i) \in Nat
      BY DEF TypeOK, Deducted, Moved, Cause
    <2>3. stock' \in [Item -> Nat]
      BY <1>8, <2>2 DEF StaffCancel, TypeOK
    <2>4. moved' \in [Order \X Item \X Cause -> Nat]
      BY <1>8, <2>2 DEF StaffCancel, TypeOK
    <2>5. QED
      BY <1>8, <2>1, <2>3, <2>4, TypeMove
         DEF StaffCancel, TypeOK, AdjustmentType, detailVars, requestVars, Status
  <1>9. ASSUME NEW o \in Order, NEW result \in {"passed", "failed"}, QualityDone(o, result)
        PROVE  TypeOK'
    <2>1. PICK to \in {"completed", "quality_check"} : Move(o, to)
      BY <1>9 DEF QualityDone
    <2>2. Exists(o) /\ SetStatus(o, to)
      BY <1>9, <2>1 DEF QualityDone, Move, Exists
    <2>3. QED
      BY <1>9, <2>1, <2>2, TypeMove DEF QualityDone, TypeOK, stockVars, requestVars, Status
  <1>10. ASSUME NEW o \in Order, NEW add \in BOOLEAN,
                NEW to \in {"delivery_pending_customer", "delivery_pending_warehouse"},
                Deliver(o, to, add)
         PROVE  TypeOK'
    <2>1. Exists(o) /\ SetStatus(o, to) /\ Move(o, to)
      BY <1>10 DEF Deliver, Move, Exists
    <2>2. QED
      BY <1>10, <2>1, TypeMove DEF Deliver, TypeOK, stockVars, requestVars, Status
  <1>11. ASSUME NEW o \in Order, NEW to \in Status, Transition(o, to) PROVE TypeOK'
    <2>1. adjustments' \in [Order -> SUBSET AdjustmentType]
      BY <1>11 DEF Transition, TypeOK, AdjustmentType, AdjustmentOf
    <2>2. QED
      BY <1>11, <2>1, TypeMove DEF Transition, TypeOK, detailVars, stockVars, requestVars
  <1>12. QED
    BY <1>1, <1>2, <1>3, <1>4, <1>5, <1>6, <1>7, <1>8, <1>9, <1>10, <1>11, LifecycleNext
       DEF LifecycleNext

LEMMA TypeStep == ASSUME TypeOK, [Next]_vars PROVE TypeOK'
  <1>1. CASE Next
    BY <1>1, TypePortal, TypeMaterials, TypeLifecycle DEF Next
  <1>2. CASE UNCHANGED vars
    BY <1>2 DEF TypeOK, vars, orderVars, detailVars, stockVars, requestVars
  <1>3. QED BY <1>1, <1>2

\* Every reachable state is well typed: no interleaving of the routes drives a
\* quantity, a stock level or a movement total below zero.
THEOREM TypeCorrect == Spec => []TypeOK
BY TypeInit, TypeStep, PTL DEF Spec

-----------------------------------------------------------------------------
(* The ledger: what a step does to one order is one of four things (StepShape);
   the ledger's invariant, and the refinement of CanonicalOrder, follow from that. *)


\* What a recorded move of the order to a status adds to its adjustments; "absent"
\* stands for no move.
Adjusted(o, to) ==
  /\ "cancellation" \in adjustments'[o] <=> to = "cancelled" \/ "cancellation" \in adjustments[o]
  /\ "correction" \in adjustments'[o] <=> to = "corrected" \/ "correction" \in adjustments[o]
  /\ "closure" \in adjustments'[o] <=> to = "closed" \/ "closure" \in adjustments[o]
  /\ "partial_completion" \in adjustments'[o] =>
       to = "partially_completed" \/ "partial_completion" \in adjustments[o]

\* The step leaves the order's row and ledger alone.
Still(o) ==
  /\ status'[o] = status[o] /\ revision'[o] = revision[o] /\ events'[o] = events[o]
  /\ portal'[o] = portal[o]
  /\ Adjusted(o, "absent")
  /\ ~Exists(o) => adjustments'[o] = adjustments[o]

\* It inserts the order.
Opened(o) ==
  /\ ~Exists(o) /\ status'[o] = "awaiting_operations_claim"
  /\ revision'[o] = revision[o] /\ adjustments'[o] = adjustments[o]
  /\ \/ events'[o] = {Event(o, 0, "absent", "awaiting_operations_claim")}
     \/ events'[o] = events[o] /\ portal'[o]

\* It moves the order and records the move.
Recorded(o) ==
  \E to \in Status :
    /\ CanTransition(status[o], to)
    /\ status'[o] = to /\ revision'[o] = revision[o] + 1
    /\ events'[o] = events[o] \union {Event(o, revision[o] + 1, status[o], to)}
    /\ portal'[o] = portal[o]
    /\ Adjusted(o, to)

\* It withdraws the order for the customer, without a record.
Withdrawn(o) ==
  /\ Exists(o) /\ portal[o] /\ status[o] # "cancelled" /\ status'[o] = "cancelled"
  /\ revision'[o] = revision[o] + 1 /\ events'[o] = events[o]
  /\ portal'[o] = portal[o] /\ adjustments'[o] = adjustments[o]

Shaped(o) == Still(o) \/ Opened(o) \/ Recorded(o) \/ Withdrawn(o)

-----------------------------------------------------------------------------
(* The four things a step does to an order *)

\* Inserting o leaves every other order alone.
LEMMA InsertShape ==
  ASSUME TypeOK, NEW o \in Order, Insert(o), UNCHANGED adjustments,
         NEW x \in Order, x # o => portal'[x] = portal[x]
  PROVE  Shaped(x)
BY DEF TypeOK, Insert, Shaped, Still, Opened, Adjusted, EventSet

\* Moving o along the table, or not at all, leaves every other order alone.
LEMMA MoveShape ==
  ASSUME TypeOK, NEW o \in Order, NEW to \in Status, Exists(o), Move(o, to),
         to = status[o] \/ CanTransition(status[o], to),
         UNCHANGED portal,
         \A x \in Order \ {o} : adjustments'[x] = adjustments[x],
         Adjusted(o, to),
         to = status[o] => to \notin {"cancelled", "corrected", "closed", "partially_completed"},
         NEW x \in Order
  PROVE  Shaped(x)
BY DEF TypeOK, Move, SetStatus, RecordEvent, Shaped, Still, Recorded, Adjusted, Exists

\* A transition of the table that the central command records is a move.
LEMMA CommandIsMove ==
  ASSUME TypeOK, LedgerInvariant, NEW o \in Order, NEW to \in Status,
         CanTransition(status[o], to), SetStatus(o, to), RecordEvent(o, to)
  PROVE  Exists(o) /\ status[o] # to /\ Move(o, to)
  <1>1. Exists(o)
    BY DEF CanTransition, Exists, Status
  <1>2. ASSUME status[o] = to PROVE FALSE
    <2>1. status[o] = to
      BY <1>2
    <2>2. to \in WorkTransitions[to] \/ (to = "cancelled" /\ to \notin NotCancellable)
      BY <2>1 DEF CanTransition
    <2>3. to = "quality_check"
      BY <2>2 DEF WorkTransitions, NotCancellable, Status
    <2>4. revision' = revision
      BY <2>1 DEF SetStatus
    <2>5. events[o] # {} /\ ~SilentlyCancelled(o)
      BY <2>1, <2>3 DEF LedgerInvariant, LedgerOf, SilentlyCancelled
    <2>6. PICK e \in events[o] : e.rev = revision[o]
      BY <2>5 DEF LedgerInvariant, LedgerOf
    <2>7. QED BY <2>4, <2>6 DEF RecordEvent
  <1>3. QED BY <1>1, <1>2 DEF Move

LEMMA PortalShape ==
  ASSUME TypeOK, LedgerInvariant, PortalNext, NEW x \in Order PROVE Shaped(x)
  <1>1. ASSUME NEW S \in SUBSET Order, NEW q \in Quantity, PortalSubmit(S, q)
        PROVE  Shaped(x)
    <2>1. portal'[x] <=> x \in S
      BY <1>1 DEF PortalSubmit
    <2>2. CASE x \in S
      BY <1>1, <2>1, <2>2 DEF PortalSubmit, Shaped, Opened
    <2>3. CASE x \notin S
      <3>1. portal[x] = FALSE /\ portal'[x] = FALSE
        BY <1>1, <2>1, <2>3 DEF PortalSubmit, TypeOK
      <3>2. status'[x] = status[x]
        BY <1>1, <2>3 DEF PortalSubmit
      <3>3. QED BY <1>1, <3>1, <3>2 DEF PortalSubmit, Shaped, Still, Adjusted
    <2>4. QED BY <2>2, <2>3
  <1>2. CASE PortalConfirm
    <2>1. CanTransition("awaiting_operations_claim", "claimed")
      BY DEF CanTransition, WorkTransitions, Status
    <2>2. QED
      BY <1>2, <2>1 DEF PortalConfirm, TypeOK, Shaped, Still, Recorded, Adjusted, Status
  <1>3. ASSUME NEW S \in SUBSET Order, SilentCancel(S), \A o \in S : portal[o] /\ Exists(o),
               UNCHANGED portal
        PROVE  Shaped(x)
    BY <1>3 DEF SilentCancel, TypeOK, Shaped, Still, Withdrawn, Adjusted
  <1>4. \A o \in Order : portal[o] => Exists(o)
    BY DEF LedgerInvariant, LedgerOf
  <1>5. QED
    BY <1>1, <1>2, <1>3, <1>4, PortalNext
       DEF PortalNext, PortalReject, PortalCancelEarly, PortalCancelCompany, detailVars

LEMMA MaterialsShape ==
  ASSUME TypeOK, MaterialsNext, NEW x \in Order PROVE Shaped(x)
  <1>1. ASSUME UNCHANGED orderVars, UNCHANGED portal PROVE Shaped(x)
    BY <1>1 DEF orderVars, Shaped, Still, Adjusted
  <1>2. ASSUME NEW o \in Order, MaterialsReject(o) PROVE Shaped(x)
    <2>1. Exists(o) /\ CanTransition(status[o], "materials_rejected")
      BY <1>2 DEF MaterialsReject, Exists, CanTransition, WorkTransitions, Status
    <2>2. QED
      BY <1>2, <2>1, MoveShape DEF MaterialsReject, detailVars, Adjusted, Status
  <1>3. ASSUME NEW r \in receiving, ReceiveCommit(r) PROVE Shaped(x)
    <2>1. r.order \in Order
      BY DEF TypeOK
    <2>2. CASE status[r.order] = "claimed"
      <3>1. Exists(r.order) /\ CanTransition(status[r.order], "materials_requested")
        BY <2>2 DEF Exists, CanTransition, WorkTransitions, Status
      <3>2. QED
        BY <1>3, <2>1, <2>2, <3>1, MoveShape DEF ReceiveCommit, Adjusted, Status
    <2>3. CASE status[r.order] # "claimed"
      BY <1>1, <1>3, <2>3 DEF ReceiveCommit, detailVars
    <2>4. QED BY <2>2, <2>3
  <1>4. ASSUME NEW d \in deciding, DecisionCommit(d) PROVE Shaped(x)
    <2>1. d.order \in Order /\ d.action \in {"materials_approved", "materials_partial"}
      BY DEF TypeOK, DecisionSet
    <2>2. CASE status[d.order] = "materials_requested" /\ Move(d.order, d.action)
                 /\ UNCHANGED adjustments
      <3>1. Exists(d.order) /\ CanTransition(status[d.order], d.action)
        BY <2>1, <2>2 DEF Exists, CanTransition, WorkTransitions, Status
      <3>2. QED
        BY <1>4, <2>1, <2>2, <3>1, MoveShape
           DEF DecisionCommit, detailVars, Adjusted, Status
    <2>3. CASE UNCHANGED orderVars
      BY <1>1, <1>4, <2>3 DEF DecisionCommit, detailVars
    <2>4. QED BY <1>4, <2>2, <2>3 DEF DecisionCommit, KeeperCommit, ExecutiveCommit
  <1>5. QED
    BY <1>1, <1>2, <1>3, <1>4, MaterialsNext
       DEF MaterialsNext, ReceiveRead, DecisionRead, CreateTransfer, ReceiveTransfer, detailVars

LEMMA LifecycleShape ==
  ASSUME TypeOK, LedgerInvariant, LifecycleNext, NEW x \in Order PROVE Shaped(x)
  <1>1. ASSUME NEW o \in Order, NEW q \in Quantity, Create(o, q) PROVE Shaped(x)
    BY <1>1, InsertShape DEF Create
  <1>2. ASSUME NEW o \in Order, NEW q \in Quantity, PartialCompletion(o, q) PROVE Shaped(x)
    <2>1. /\ Exists(o) /\ Move(o, "partially_completed")
          /\ status[o] # "partially_completed"
      BY <1>2, CommandIsMove DEF PartialCompletion, Status
    <2>2. /\ Adjusted(o, "partially_completed")
          /\ \A y \in Order \ {o} : adjustments'[y] = adjustments[y]
      BY <1>2 DEF PartialCompletion, Adjusted, TypeOK
    <2>3. QED
      BY <1>2, <2>1, <2>2, MoveShape DEF PartialCompletion, detailVars, Status
  <1>3. ASSUME NEW o \in Order, NEW c \in Order, NEW q \in Quantity, Split(o, c, q)
        PROVE  Shaped(x)
    <2>1. o # c
      BY <1>3 DEF Split, Insert
    <2>2. CASE x = c
      BY <1>3, <2>1, <2>2 DEF Split, Insert, TypeOK, Shaped, Opened
    <2>3. CASE x # c
      <3>1. portal'[x] = portal[x]
        BY <1>3, <2>3 DEF Split, TypeOK
      <3>2. status'[x] = status[x] /\ events'[x] = events[x] /\ revision'[x] = revision[x]
        BY <1>3, <2>3 DEF Split, Insert
      <3>3. Adjusted(x, "absent") /\ (~Exists(x) => adjustments'[x] = adjustments[x])
        BY <1>3, <2>3 DEF Split, TypeOK, Adjusted
      <3>4. QED BY <3>1, <3>2, <3>3 DEF Shaped, Still
    <2>4. QED BY <2>2, <2>3
  <1>4. ASSUME NEW o \in Order, Claim(o) PROVE Shaped(x)
    <2>1. Exists(o) /\ CanTransition(status[o], "claimed")
      BY <1>4 DEF Claim, Exists, CanTransition, WorkTransitions, Status
    <2>2. QED BY <1>4, <2>1, MoveShape DEF Claim, detailVars, Adjusted, Status
  <1>5. ASSUME NEW o \in Order, Dispatch(o) PROVE Shaped(x)
    <2>1. Exists(o) /\ CanTransition(status[o], "in_production")
      BY <1>5 DEF Dispatch, Exists, CanTransition, WorkTransitions, Status
    <2>2. QED BY <1>5, <2>1, MoveShape DEF Dispatch, Adjusted, Status
  <1>6. ASSUME NEW o \in Order, AdvanceStage(o) PROVE Shaped(x)
    <2>1. PICK to \in {"quality_check", "in_production"} : Move(o, to)
      BY <1>6 DEF AdvanceStage
    <2>2. Exists(o) /\ (to = status[o] \/ CanTransition(status[o], to))
      BY <1>6, <2>1 DEF AdvanceStage, Exists, CanTransition, WorkTransitions, Status
    <2>3. QED BY <1>6, <2>1, <2>2, MoveShape DEF AdvanceStage, Adjusted, Status
  <1>7. ASSUME NEW o \in Order, ConfirmDelivery(o) PROVE Shaped(x)
    <2>1. PICK to \in {"delivered_customer", "delivered_warehouse"} :
            Move(o, to) /\ Exists(o) /\ CanTransition(status[o], to)
      BY <1>7 DEF ConfirmDelivery, Exists, CanTransition, WorkTransitions, Status
    <2>2. QED BY <1>7, <2>1, MoveShape DEF ConfirmDelivery, detailVars, Adjusted, Status
  <1>8. ASSUME NEW o \in Order, StaffCancel(o) PROVE Shaped(x)
    <2>1. status[o] # "cancelled"
      BY <1>8 DEF StaffCancel, CanTransition, WorkTransitions, NotCancellable
    <2>2. /\ \A y \in Order \ {o} : adjustments'[y] = adjustments[y]
          /\ Adjusted(o, "cancelled")
      BY <1>8 DEF StaffCancel, TypeOK, Adjusted
    <2>3. QED BY <1>8, <2>1, <2>2, MoveShape DEF StaffCancel, detailVars, Status
  <1>9. ASSUME NEW o \in Order, NEW result \in {"passed", "failed"}, QualityDone(o, result)
        PROVE  Shaped(x)
    <2>1. PICK to \in {"completed", "quality_check"} :
            Move(o, to) /\ Exists(o) /\ CanTransition(status[o], to)
      BY <1>9 DEF QualityDone, Exists
    <2>2. QED BY <1>9, <2>1, MoveShape DEF QualityDone, Adjusted, Status
  <1>10. ASSUME NEW o \in Order, NEW add \in BOOLEAN,
                NEW to \in {"delivery_pending_customer", "delivery_pending_warehouse"},
                Deliver(o, to, add)
         PROVE  Shaped(x)
    <2>1. Exists(o) /\ CanTransition(status[o], to)
      BY <1>10 DEF Deliver, Exists, CanTransition, WorkTransitions, Status
    <2>2. QED BY <1>10, <2>1, MoveShape DEF Deliver, Adjusted, Status
  <1>11. ASSUME NEW o \in Order, NEW to \in Status, Transition(o, to) PROVE Shaped(x)
    <2>1. Exists(o) /\ Move(o, to) /\ status[o] # to
      BY <1>11, CommandIsMove DEF Transition
    <2>2. DEFINE added == {AdjustmentOf[a] : a \in {to} \intersect DOMAIN AdjustmentOf}
    <2>3. /\ added \subseteq {"correction", "closure"}
          /\ "correction" \in added <=> to = "corrected"
          /\ "closure" \in added <=> to = "closed"
      <3>1. CASE to = "corrected"
        BY <3>1 DEF AdjustmentOf
      <3>2. CASE to = "closed"
        BY <3>2 DEF AdjustmentOf
      <3>3. CASE to \notin {"corrected", "closed"}
        BY <3>3 DEF AdjustmentOf
      <3>4. QED BY <3>1, <3>2, <3>3
    <2>4. adjustments' = [adjustments EXCEPT ![o] = @ \union added]
      BY <1>11 DEF Transition
    <2>5. /\ Adjusted(o, to)
          /\ \A y \in Order \ {o} : adjustments'[y] = adjustments[y]
      <3> HIDE DEF added
      <3>1. /\ adjustments'[o] = adjustments[o] \union added
            /\ \A y \in Order \ {o} : adjustments'[y] = adjustments[y]
        BY <2>4 DEF TypeOK
      <3>2. to # "cancelled"
        BY <1>11 DEF Transition
      <3>3. QED BY <2>3, <3>1, <3>2 DEF Adjusted
    <2>6. QED
      BY <1>11, <2>1, <2>5, MoveShape DEF Transition, detailVars
  <1>12. QED
    BY <1>1, <1>2, <1>3, <1>4, <1>5, <1>6, <1>7, <1>8, <1>9, <1>10, <1>11, LifecycleNext
       DEF LifecycleNext

\* Whatever the step, what it does to one order is one of the four things.
LEMMA StepShape ==
  ASSUME TypeOK, LedgerInvariant, [Next]_vars, NEW x \in Order PROVE Shaped(x)
  <1>1. CASE Next
    BY <1>1, PortalShape, MaterialsShape, LifecycleShape DEF Next
  <1>2. CASE UNCHANGED vars
    BY <1>2 DEF vars, orderVars, detailVars, Shaped, Still, Adjusted
  <1>3. QED BY <1>1, <1>2

-----------------------------------------------------------------------------
(* The ledger's invariant *)

\* No row of the canonical table leaves a cancelled order.
LEMMA CancelledIsFinal ==
  ASSUME NEW to \in Status PROVE ~CanTransition("cancelled", to)
BY DEF CanTransition, WorkTransitions, NotCancellable

\* Each of the four things keeps the invariant of the order it happens to.
LEMMA StillKeeps ==
  ASSUME NEW x \in Order, TypeOK, LedgerOf(x), Still(x) PROVE LedgerOf(x)'
BY DEF LedgerOf, Still, SilentlyCancelled, Adjusted, Exists

LEMMA OpenedKeeps ==
  ASSUME NEW x \in Order, TypeOK, LedgerOf(x), Opened(x) PROVE LedgerOf(x)'
BY DEF LedgerOf, Opened, SilentlyCancelled, Exists, Event

LEMMA WithdrawnKeeps ==
  ASSUME NEW x \in Order, TypeOK, LedgerOf(x), Withdrawn(x) PROVE LedgerOf(x)'
  <1>1. SilentlyCancelled(x)'
    BY DEF LedgerOf, Withdrawn, SilentlyCancelled
  <1>2. revision[x] \in Nat /\ \A e \in events[x] : e.rev \in Nat
    BY DEF TypeOK, EventSet
  <1>3. QED BY <1>1, <1>2 DEF LedgerOf, Withdrawn, Exists

LEMMA RecordedKeeps ==
  ASSUME NEW x \in Order, TypeOK, LedgerOf(x), Recorded(x) PROVE LedgerOf(x)'
  <1>1. PICK to \in Status :
          /\ CanTransition(status[x], to)
          /\ status'[x] = to /\ revision'[x] = revision[x] + 1
          /\ events'[x] = events[x] \union {Event(x, revision[x] + 1, status[x], to)}
          /\ portal'[x] = portal[x]
          /\ "cancellation" \in adjustments'[x] <=> to = "cancelled" \/ "cancellation" \in adjustments[x]
    BY DEF Recorded, Adjusted
  <1>2. revision[x] \in Nat /\ \A e \in events[x] : e.rev \in Nat
    BY DEF TypeOK, EventSet
  <1>3. status[x] \in Status /\ status[x] # "cancelled" /\ Exists(x)'
    BY <1>1, CancelledIsFinal DEF CanTransition, Exists, Status
  <1>4. ~SilentlyCancelled(x) /\ "cancellation" \notin adjustments[x]
    BY <1>3 DEF SilentlyCancelled, LedgerOf
  <1> DEFINE new == Event(x, revision[x] + 1, status[x], to)
  <1>5. new.rev = revision[x] + 1 /\ new.from = status[x] /\ new.to = to
        /\ events'[x] = events[x] \union {new}
    BY <1>1 DEF Event
  <1> HIDE DEF new
  <1>6. \A e \in events'[x] : e.rev <= revision'[x]
    BY <1>1, <1>2, <1>5 DEF LedgerOf
  <1>7. ASSUME NEW e \in events'[x], NEW f \in events'[x]
        PROVE  /\ e.rev = f.rev => e = f
               /\ f.rev = e.rev + 1 => f.from = e.to
               /\ e.rev < f.rev => \E g \in events'[x] : g.rev = e.rev + 1
    <2>1. CASE e \in events[x] /\ f \in events[x]
      BY <2>1, <1>5 DEF LedgerOf
    <2>2. CASE e \in events[x] /\ f = new
      <3>1. PICK l \in events[x] : l.rev = revision[x] /\ l.to = status[x]
        BY <2>2, <1>4 DEF LedgerOf
      <3>2. e.rev <= revision[x] /\ (e.rev = revision[x] => e = l)
        BY <2>2, <3>1 DEF LedgerOf
      <3>3. e.rev < revision[x] => \E g \in events[x] : g.rev = e.rev + 1
        BY <2>2, <3>1 DEF LedgerOf
      <3>4. QED BY <1>2, <1>5, <2>2, <3>1, <3>2, <3>3
    <2>3. CASE e = new /\ f \in events[x]
      BY <2>3, <1>2, <1>5 DEF LedgerOf
    <2>4. CASE e = new /\ f = new
      BY <2>4, <1>2, <1>5
    <2>5. QED BY <1>5, <2>1, <2>2, <2>3, <2>4
  <1>8. \E e \in events'[x] : e.rev = revision'[x] /\ e.to = status'[x]
    BY <1>1, <1>5
  <1>9. ("cancellation" \in adjustments[x])' => status'[x] = "cancelled"
    BY <1>1, <1>4
  <1>10. events'[x] # {}
    BY <1>5
  <1>11. QED BY <1>3, <1>6, <1>7, <1>8, <1>9, <1>10 DEF LedgerOf

\* The ledger's invariant holds in every reachable state.
THEOREM LedgerCorrect == Spec => []LedgerInvariant
  <1>1. Init => LedgerInvariant
    BY DEF Init, LedgerInvariant, LedgerOf, Exists
  <1>2. TypeOK /\ LedgerInvariant /\ [Next]_vars => LedgerInvariant'
    <2> SUFFICES ASSUME TypeOK, LedgerInvariant, [Next]_vars, NEW x \in Order
                 PROVE  LedgerOf(x)'
      BY DEF LedgerInvariant
    <2>1. LedgerOf(x) /\ Shaped(x)
      BY StepShape DEF LedgerInvariant
    <2>2. QED
      BY <2>1, StillKeeps, OpenedKeeps, WithdrawnKeeps, RecordedKeeps DEF Shaped
  <1>3. QED BY <1>1, <1>2, TypeCorrect, PTL DEF Spec

-----------------------------------------------------------------------------
(* What follows from it *)

\* The conformance check finds nothing but the missing event of a customer-side
\* cancellation, after any history of any order.
THEOREM LedgerConformance == Spec => []LedgerConforms
  <1>1. TypeOK /\ LedgerInvariant => LedgerConforms
    <2> SUFFICES ASSUME TypeOK, LedgerInvariant, NEW o \in Order
                 PROVE  ~RevisionGap(o) /\ (RevisionMismatch(o) => SilentlyCancelled(o))
      BY DEF LedgerConforms, ConformanceIssues
    <2>1. ~RevisionGap(o)
      <3> SUFFICES ASSUME NEW e \in events[o], NEW f \in events[o], e.rev < f.rev
                   PROVE  e.rev + 1 \in EventRevisions(o)
        BY DEF RevisionGap, EventRevisions
      <3>1. PICK g \in events[o] : g.rev = e.rev + 1
        BY DEF LedgerInvariant, LedgerOf
      <3>2. QED BY <3>1 DEF EventRevisions
    <2>2. ASSUME ~SilentlyCancelled(o) PROVE ~RevisionMismatch(o)
      <3>1. \A r \in EventRevisions(o) : r <= revision[o]
        BY DEF LedgerInvariant, LedgerOf, EventRevisions
      <3>2. EventRevisions(o) # {} => revision[o] \in EventRevisions(o)
        BY <2>2 DEF LedgerInvariant, LedgerOf, EventRevisions
      <3>3. QED BY <3>1, <3>2 DEF RevisionMismatch
    <2>3. QED BY <2>1, <2>2
  <1>2. QED BY <1>1, TypeCorrect, LedgerCorrect, PTL

\* The ledger of an order, read in order of revision, is its history.
THEOREM LedgerHistory == Spec => []LedgerTellsHistory
  <1>1. LedgerInvariant => LedgerTellsHistory
    <2> SUFFICES ASSUME LedgerInvariant, NEW o \in Order, NEW e \in events[o],
                        e.rev = revision[o], ~SilentlyCancelled(o)
                 PROVE  e.to = status[o]
      BY DEF LedgerTellsHistory, LedgerInvariant, LedgerOf
    <2>1. PICK l \in events[o] : l.rev = revision[o] /\ l.to = status[o]
      BY DEF LedgerInvariant, LedgerOf
    <2>2. QED BY <2>1 DEF LedgerInvariant, LedgerOf
  <1>2. QED BY <1>1, LedgerCorrect, PTL

\* Recording an event adds its pair of statuses to the order's log.
LEMMA LogOfUnion ==
  ASSUME NEW E, NEW e
  PROVE  {<<f.from, f.to>> : f \in E \union {e}}
           = {<<f.from, f.to>> : f \in E} \union {<<e.from, e.to>>}
OBVIOUS

\* The moves of a single event.
LEMMA LogOfOne ==
  ASSUME NEW e
  PROVE  {<<f.from, f.to>> : f \in {e}} = {<<e.from, e.to>>}
OBVIOUS

\* The routes, with their requests, stock and transfers forgotten, do what
\* CanonicalOrder promises and nothing else.
THEOREM Refinement == Spec => ImplementsCanonicalOrder
  <1> DEFINE log == [o \in Order |-> {<<e.from, e.to>> : e \in events[o]}]
  <1>1. Init => Canonical!Init
    BY DEF Init, Canonical!Init
  <1>2. ASSUME TypeOK, LedgerInvariant, [Next]_vars PROVE Canonical!Next
    <2> SUFFICES ASSUME NEW o \in Order
                 PROVE  \/ Canonical!Stay(o) \/ Canonical!Open(o)
                        \/ Canonical!Advance(o) \/ Canonical!Withdraw(o)
      BY DEF Canonical!Next
    <2>1. Shaped(o)
      BY <1>2, StepShape
    <2>2. CASE Still(o)
      BY <2>2 DEF Still, Canonical!Stay
    <2>3. CASE Opened(o)
      <3>1. status[o] = "absent" /\ status'[o] = "awaiting_operations_claim"
        BY <2>3 DEF Opened, Exists
      <3>2. CASE events'[o] = {Event(o, 0, "absent", "awaiting_operations_claim")}
        <4>1. {<<e.from, e.to>> : e \in events'[o]}
                = {<<"absent", "awaiting_operations_claim">>}
          <5> DEFINE new == Event(o, 0, "absent", "awaiting_operations_claim")
          <5>1. new.from = "absent" /\ new.to = "awaiting_operations_claim"
            BY DEF Event
          <5> HIDE DEF new
          <5>2. events'[o] = {new}
            BY <3>2 DEF new
          <5>3. QED BY <5>1, <5>2, LogOfOne
        <4>2. QED BY <3>1, <4>1 DEF Canonical!Open
      <3>3. CASE events'[o] = events[o] /\ portal'[o]
        BY <3>1, <3>3 DEF Canonical!Open
      <3>4. QED BY <2>3, <3>2, <3>3 DEF Opened
    <2>4. CASE Recorded(o)
      <3>1. PICK to \in Status :
              /\ CanTransition(status[o], to) /\ status'[o] = to /\ portal'[o] = portal[o]
              /\ events'[o] = events[o] \union {Event(o, revision[o] + 1, status[o], to)}
        BY <2>4 DEF Recorded
      <3> DEFINE new == Event(o, revision[o] + 1, status[o], to)
      <3>2. new.from = status[o] /\ new.to = to
        BY DEF Event
      <3>3. events'[o] = events[o] \union {new}
        BY <3>1
      <3> HIDE DEF new
      <3>4. {<<e.from, e.to>> : e \in events'[o]}
              = {<<e.from, e.to>> : e \in events[o]} \union {<<status[o], to>>}
        BY <3>2, <3>3, LogOfUnion
      <3>5. Canonical!CanTransition(status[o], to) /\ to \in Canonical!Status
        BY <3>1 DEF CanTransition, Canonical!CanTransition, Status, Canonical!Status,
              WorkTransitions, Canonical!WorkTransitions, NotCancellable,
              Canonical!NotCancellable
      <3>6. QED BY <3>1, <3>4, <3>5 DEF Canonical!Advance
    <2>5. CASE Withdrawn(o)
      BY <2>5 DEF Withdrawn, Exists, Canonical!Withdraw
    <2>6. QED BY <2>1, <2>2, <2>3, <2>4, <2>5 DEF Shaped
  <1>3. QED
    BY <1>1, <1>2, TypeCorrect, LedgerCorrect, PTL
       DEF Spec, ImplementsCanonicalOrder, Canonical!Spec
-----------------------------------------------------------------------------
(* Adjustments and finished goods: the records of a move to one status *)

\* What the four things do to the records of an order's moves to a status: a
\* recorded move adds one to those of its own, which is new.
LEMMA RecordsOfStep ==
  ASSUME NEW x \in Order, TypeOK, LedgerOf(x), Shaped(x)
  PROVE  \/ /\ Still(x)
            /\ \A to \in Status : RecordsTo(x, to)' = RecordsTo(x, to)
         \/ /\ Opened(x)
            /\ \A to \in Status \ {"awaiting_operations_claim"} : RecordsTo(x, to) = {}
            /\ \A to \in Status \ {"awaiting_operations_claim"} : RecordsTo(x, to)' = {}
         \/ /\ Withdrawn(x)
            /\ \A to \in Status : RecordsTo(x, to)' = RecordsTo(x, to)
         \/ \E to \in Status : \E e :
              /\ CanTransition(status[x], to) /\ status'[x] = to /\ Adjusted(x, to)
              /\ e \notin events[x] /\ events'[x] = events[x] \union {e}
              /\ e.from = status[x] /\ e.to = to /\ e.qty = qty[x]
              /\ RecordsTo(x, to)' = RecordsTo(x, to) \union {e}
              /\ \A other \in Status \ {to} : RecordsTo(x, other)' = RecordsTo(x, other)
  <1>1. CASE Still(x)
    BY <1>1 DEF Still, RecordsTo
  <1>2. CASE Opened(x)
    BY <1>2 DEF Opened, RecordsTo, LedgerOf, Event
  <1>3. CASE Withdrawn(x)
    BY <1>3 DEF Withdrawn, RecordsTo
  <1>4. CASE Recorded(x)
    <2>1. PICK to \in Status :
            /\ CanTransition(status[x], to) /\ status'[x] = to /\ Adjusted(x, to)
            /\ events'[x] = events[x] \union {Event(x, revision[x] + 1, status[x], to)}
      BY <1>4 DEF Recorded
    <2> DEFINE e == Event(x, revision[x] + 1, status[x], to)
    <2>2. e.rev = revision[x] + 1 /\ e.from = status[x] /\ e.to = to /\ e.qty = qty[x]
      BY DEF Event
    <2>3. events'[x] = events[x] \union {e}
      BY <2>1
    <2> HIDE DEF e
    <2>4. revision[x] \in Nat /\ \A f \in events[x] : f.rev <= revision[x]
      BY DEF TypeOK, LedgerOf
    <2>5. e \notin events[x]
      BY <2>2, <2>4
    <2>6. RecordsTo(x, to)' = RecordsTo(x, to) \union {e}
      BY <2>2, <2>3 DEF RecordsTo
    <2>7. \A other \in Status \ {to} : RecordsTo(x, other)' = RecordsTo(x, other)
      BY <2>2, <2>3 DEF RecordsTo
    <2>8. QED BY <2>1, <2>2, <2>3, <2>5, <2>6, <2>7
  <1>5. QED BY <1>1, <1>2, <1>3, <1>4 DEF Shaped

\* The adjustments that the routes write and the events that the ledger records
\* agree after any history.
THEOREM AdjustmentsOnRecord == Spec => []AdjustmentsMatchLedger
  <1>1. Init => AdjustmentsMatchLedger
    BY DEF Init, AdjustmentsMatchLedger, RecordedTo, RecordsTo
  <1>2. TypeOK /\ LedgerInvariant /\ AdjustmentsMatchLedger /\ [Next]_vars
          => AdjustmentsMatchLedger'
    <2> SUFFICES ASSUME TypeOK, LedgerInvariant, AdjustmentsMatchLedger, [Next]_vars,
                        NEW x \in Order
                 PROVE  /\ "cancellation" \in adjustments'[x] <=> RecordedTo(x, "cancelled")'
                        /\ "correction" \in adjustments'[x] <=> RecordedTo(x, "corrected")'
                        /\ "closure" \in adjustments'[x] <=> RecordedTo(x, "closed")'
                        /\ "partial_completion" \in adjustments'[x] =>
                             RecordedTo(x, "partially_completed")'
      BY DEF AdjustmentsMatchLedger
    <2>1. /\ "cancellation" \in adjustments[x] <=> RecordsTo(x, "cancelled") # {}
          /\ "correction" \in adjustments[x] <=> RecordsTo(x, "corrected") # {}
          /\ "closure" \in adjustments[x] <=> RecordsTo(x, "closed") # {}
          /\ "partial_completion" \in adjustments[x] => RecordsTo(x, "partially_completed") # {}
      BY DEF AdjustmentsMatchLedger, RecordedTo
    <2>2. {"cancelled", "corrected", "closed", "partially_completed"} \subseteq Status
          /\ "absent" \notin Status
      BY DEF Status
    <2>3. LedgerOf(x) /\ Shaped(x)
      BY StepShape DEF LedgerInvariant
    <2>4. CASE Still(x) /\ \A to \in Status : RecordsTo(x, to)' = RecordsTo(x, to)
      BY <2>1, <2>2, <2>4 DEF Still, Adjusted, RecordedTo
    <2>5. CASE Withdrawn(x) /\ \A to \in Status : RecordsTo(x, to)' = RecordsTo(x, to)
      BY <2>1, <2>2, <2>5 DEF Withdrawn, RecordedTo
    <2>6. CASE /\ Opened(x)
               /\ \A to \in Status \ {"awaiting_operations_claim"} : RecordsTo(x, to) = {}
               /\ \A to \in Status \ {"awaiting_operations_claim"} : RecordsTo(x, to)' = {}
      BY <2>1, <2>2, <2>3, <2>6 DEF Opened, LedgerOf, RecordedTo
    <2>7. ASSUME NEW to \in Status, NEW e, Adjusted(x, to),
                 RecordsTo(x, to)' = RecordsTo(x, to) \union {e},
                 \A other \in Status \ {to} : RecordsTo(x, other)' = RecordsTo(x, other)
          PROVE  /\ "cancellation" \in adjustments'[x] <=> RecordedTo(x, "cancelled")'
                 /\ "correction" \in adjustments'[x] <=> RecordedTo(x, "corrected")'
                 /\ "closure" \in adjustments'[x] <=> RecordedTo(x, "closed")'
                 /\ "partial_completion" \in adjustments'[x] =>
                      RecordedTo(x, "partially_completed")'
      BY <2>1, <2>2, <2>7 DEF Adjusted, RecordedTo
    <2>8. QED BY <2>3, <2>4, <2>5, <2>6, <2>7, RecordsOfStep
  <1>3. QED BY <1>1, <1>2, TypeCorrect, LedgerCorrect, PTL DEF Spec
-----------------------------------------------------------------------------
(* Quantities, requests and goods: the steps that touch them *)

Untouched == UNCHANGED <<qty, parent, requested, moved, transfers, receiving, deciding>>

\* Every other step leaves the quantities, the requests in flight, the
\* movements and the transfers alone.
LEMMA GoodsStep ==
  ASSUME TypeOK, [Next]_vars
  PROVE  \/ Untouched
         \/ \E S \in SUBSET Order, q \in Quantity : PortalSubmit(S, q)
         \/ \E o \in Order, q \in Quantity : Create(o, q)
         \/ \E o, c \in Order, q \in Quantity : Split(o, c, q)
         \/ \E o \in Order : ReceiveRead(o) \/ ConfirmDelivery(o) \/ StaffCancel(o)
         \/ \E r \in receiving : ReceiveCommit(r)
         \/ \E o \in Order, by \in {"keeper", "executive"},
               action \in {"materials_approved", "materials_partial"},
               lines \in Seq([item : Item, qty : Nat]) : DecisionRead(o, by, action, lines)
         \/ \E d \in deciding : DecisionCommit(d)
         \/ \E k \in ClientKey, o \in Order, m \in Material, dir \in Direction, q \in Quantity :
              CreateTransfer(k, o, m, dir, q)
         \/ \E t \in transfers : ReceiveTransfer(t)
  <1> USE DEF Untouched
  <1>1. CASE UNCHANGED vars
    BY <1>1 DEF vars, detailVars, stockVars, requestVars
  <1>2. CASE PortalNext
    BY <1>2
       DEF PortalNext, PortalConfirm, PortalReject, PortalCancelEarly, PortalCancelCompany,
           SilentCancel, detailVars, stockVars, requestVars
  <1>3. CASE MaterialsNext
    <2>1. Lines \subseteq Seq([item : Item, qty : Nat]) /\ <<>> \in Seq([item : Item, qty : Nat])
      BY LinesType
    <2>2. ASSUME NEW o \in Order, MaterialsReject(o) PROVE Untouched
      BY <2>2 DEF MaterialsReject, detailVars, stockVars, requestVars
    <2>3. QED BY <1>3, <2>1, <2>2 DEF MaterialsNext
  <1>4. CASE LifecycleNext
    <2>1. ASSUME NEW o \in Order, Claim(o) \/ Dispatch(o) \/ AdvanceStage(o) PROVE Untouched
      BY <2>1 DEF Claim, Dispatch, AdvanceStage, detailVars, stockVars, requestVars
    <2>2. ASSUME NEW o \in Order, NEW q \in Quantity, PartialCompletion(o, q) PROVE Untouched
      BY <2>2 DEF PartialCompletion, detailVars, stockVars, requestVars
    <2>3. ASSUME NEW o \in Order, NEW result \in {"passed", "failed"}, QualityDone(o, result)
          PROVE  Untouched
      BY <2>3 DEF QualityDone, stockVars, requestVars
    <2>4. ASSUME NEW o \in Order, NEW add \in BOOLEAN,
                 NEW to \in {"delivery_pending_customer", "delivery_pending_warehouse"},
                 Deliver(o, to, add)
          PROVE  Untouched
      BY <2>4 DEF Deliver, stockVars, requestVars
    <2>5. ASSUME NEW o \in Order, NEW to \in Status, Transition(o, to) PROVE Untouched
      BY <2>5 DEF Transition, detailVars, stockVars, requestVars
    <2>6. QED BY <1>4, <2>1, <2>2, <2>3, <2>4, <2>5 DEF LifecycleNext
  <1>5. QED BY <1>1, <1>2, <1>3, <1>4 DEF Next

\* Quantities and parents change only when an order is opened or split.
LEMMA QuantitySteps ==
  ASSUME TypeOK, [Next]_vars
  PROVE  \/ UNCHANGED <<qty, parent>>
         \/ \E S \in SUBSET Order, q \in Quantity : PortalSubmit(S, q)
         \/ \E o \in Order, q \in Quantity : Create(o, q)
         \/ \E o, c \in Order, q \in Quantity : Split(o, c, q)
BY GoodsStep
   DEF Untouched, ReceiveRead, ConfirmDelivery, StaffCancel, ReceiveCommit, DecisionRead,
       DecisionCommit, CreateTransfer, ReceiveTransfer, detailVars

\* What a step does to the movements of one item of one order, cause by cause.
LEMMA MovedByStep ==
  ASSUME TypeOK, [Next]_vars, NEW x \in Order, NEW i \in Item
  PROVE  /\ \/ Moved(x, i, "direct")' = Moved(x, i, "direct")
            \/ \E d \in deciding : DecisionCommit(d) /\ d.order = x
         /\ \/ Moved(x, i, "transfer_out")' = Moved(x, i, "transfer_out")
            \/ \E t \in transfers : ReceiveTransfer(t)
         /\ \/ Moved(x, i, "transfer_in")' = Moved(x, i, "transfer_in")
            \/ \E t \in transfers : ReceiveTransfer(t)
         /\ Moved(x, i, "cancel")' = Moved(x, i, "cancel") \/ StaffCancel(x)
         /\ \/ Moved(x, i, "confirm")' = Moved(x, i, "confirm")
            \/ /\ status[x] = "delivery_pending_warehouse"
               /\ status'[x] = "delivered_warehouse"
               /\ Moved(x, i, "confirm")' = Moved(x, i, "confirm") + qty[x]
  <1>1. \A c \in Cause : <<x, i, c>> \in DOMAIN moved
    BY DEF TypeOK
  <1>2. CASE UNCHANGED moved
    BY <1>2 DEF Moved
  <1>3. ASSUME NEW o \in Order, ConfirmDelivery(o), moved' # moved
        PROVE  \A c \in Cause :
                 \/ Moved(x, i, c)' = Moved(x, i, c)
                 \/ /\ c = "confirm" /\ x = o /\ status[x] = "delivery_pending_warehouse"
                    /\ status'[x] = "delivered_warehouse"
                    /\ Moved(x, i, c)' = Moved(x, i, c) + qty[x]
    <2>1. /\ status[o] = "delivery_pending_warehouse" /\ Move(o, "delivered_warehouse")
          /\ moved' = [moved EXCEPT ![<<o, Product, "confirm">>] = @ + qty[o]]
      BY <1>3 DEF ConfirmDelivery
    <2>2. status'[o] = "delivered_warehouse"
      BY <2>1 DEF Move, SetStatus, TypeOK
    <2>3. QED BY <1>1, <2>1, <2>2 DEF Moved
  <1>4. ASSUME NEW o \in Order, StaffCancel(o)
        PROVE  \A c \in Cause : Moved(x, i, c)' = Moved(x, i, c) \/ (c = "cancel" /\ x = o)
    BY <1>1, <1>4 DEF StaffCancel, Moved
  <1>5. ASSUME NEW d \in deciding, DecisionCommit(d)
        PROVE  \A c \in Cause : Moved(x, i, c)' = Moved(x, i, c) \/ (c = "direct" /\ x = d.order)
    BY <1>1, <1>5 DEF DecisionCommit, KeeperCommit, ExecutiveCommit, Deduct, Moved, stockVars
  <1>6. ASSUME NEW t \in transfers, ReceiveTransfer(t)
        PROVE  \A c \in Cause : \/ Moved(x, i, c)' = Moved(x, i, c)
                                \/ c \in {"transfer_out", "transfer_in"}
    <2>1. CASE t.direction \notin DOMAIN Effect
      BY <1>6, <2>1, <1>2 DEF ReceiveTransfer, Moved
    <2>2. CASE t.direction \in DOMAIN Effect
      <3>1. Effect[t.direction] \in {"transfer_out", "transfer_in"}
        BY <2>2 DEF Effect
      <3>2. moved' = [moved EXCEPT ![<<t.order, t.item, Effect[t.direction]>>] = @ + t.qty]
        BY <1>6, <2>2 DEF ReceiveTransfer
      <3>3. QED BY <1>1, <3>1, <3>2 DEF Moved
    <2>3. QED BY <2>1, <2>2
  <1>7. Cause = {"direct", "transfer_out", "transfer_in", "cancel", "confirm"}
    BY DEF Cause
  <1>8. \/ UNCHANGED moved
        \/ \E o \in Order : ConfirmDelivery(o) \/ StaffCancel(o)
        \/ \E d \in deciding : DecisionCommit(d)
        \/ \E t \in transfers : ReceiveTransfer(t)
    BY GoodsStep
       DEF Untouched, PortalSubmit, Create, Split, ReceiveRead, ReceiveCommit, DecisionRead,
           CreateTransfer, stockVars
  <1>9. QED BY <1>2, <1>3, <1>4, <1>5, <1>6, <1>7, <1>8
-----------------------------------------------------------------------------
(* Finished goods *)

\* A recorded move adds one to the number of its order's records of that status.
LEMMA OneRecordMore ==
  ASSUME NEW S, IsFiniteSet(S), NEW E, S \subseteq E, NEW e, e \notin E
  PROVE  /\ IsFiniteSet(S \union {e})
         /\ Cardinality(S) \in Nat
         /\ Cardinality(S \union {e}) = Cardinality(S) + 1
BY FS_AddElement, FS_CardinalityType

\* Records that a step leaves alone keep their quantity; one more adds its own.
LEMMA SameRecords ==
  ASSUME TypeOK, TypeOK', NEW x \in Order, IsFiniteSet(events[x]), events[x] \subseteq events'[x],
         NEW S \in SUBSET events[x]
  PROVE  /\ SumFunctionOnSet([e \in events'[x] |-> e.qty], S) = QtyOf(x, S)
         /\ QtyOf(x, S) \in Nat
         /\ \A n \in events'[x] : n \notin S =>
              SumFunctionOnSet([e \in events'[x] |-> e.qty], S \cup {n}) = n.qty + QtyOf(x, S)
  <1> DEFINE g == [e \in events[x] |-> e.qty]
             h == [e \in events'[x] |-> e.qty]
  <1>1. IsFiniteSet(S)
    BY FS_Subset
  <1>2. (\A e \in S : g[e] \in Int /\ g[e] \in Nat /\ h[e] = g[e])
        /\ \A e \in events'[x] : h[e] \in Int /\ h[e] = e.qty
    BY DEF TypeOK, EventSet
  <1>3. QtyOf(x, S) = SumFunctionOnSet(g, S)
    BY DEF QtyOf
  <1> HIDE DEF g, h
  <1>4. SumFunctionOnSet(h, S) = SumFunctionOnSet(g, S) /\ SumFunctionOnSet(g, S) \in Nat
    BY <1>1, <1>2, SumSame, SumNat
  <1>5. ASSUME NEW n \in events'[x], n \notin S
        PROVE  SumFunctionOnSet(h, S \cup {n}) = n.qty + QtyOf(x, S)
    <2>1. \A e \in S \cup {n} : h[e] \in Int
      BY <1>2, <1>5
    <2>2. SumFunctionOnSet(h, S \cup {n}) = h[n] + SumFunctionOnSet(h, S)
      BY <1>1, <1>5, <2>1, SumAdd
    <2>3. QED BY <1>2, <1>3, <1>4, <1>5, <2>2
  <1>6. QED BY <1>3, <1>4, <1>5 DEF h

\* What a step does to the deliveries of an order.
LEMMA DeliveryStep ==
  ASSUME TypeOK, LedgerInvariant, DeliveryInvariant, [Next]_vars, NEW x \in Order
  PROVE  LET deliveries == RecordsTo(x, "delivered_warehouse")
             corrections == RecordsTo(x, "corrected")
         IN  /\ IsFiniteSet(events'[x])
             /\ Cardinality(deliveries') <= Cardinality(corrections') + 1
             /\ status'[x] \notin {"delivered_warehouse", "closed", "cancelled"} =>
                  Cardinality(deliveries') <= Cardinality(corrections')
             /\ Moved(x, Product, "confirm")'
                  <= SumFunctionOnSet([e \in events'[x] |-> e.qty], deliveries')
  <1> DEFINE D == RecordsTo(x, "delivered_warehouse")
             C == RecordsTo(x, "corrected")
             M == Moved(x, Product, "confirm")
             Sum == SumFunctionOnSet([e \in events'[x] |-> e.qty], D')
  <1>1. LedgerOf(x) /\ Shaped(x) /\ TypeOK'
    BY StepShape, TypeStep DEF LedgerInvariant
  <1>2. /\ D \in SUBSET events[x] /\ C \in SUBSET events[x] /\ IsFiniteSet(events[x])
        /\ IsFiniteSet(D) /\ IsFiniteSet(C)
        /\ Cardinality(D) \in Nat /\ Cardinality(C) \in Nat
    <2>1. D \subseteq events[x] /\ C \subseteq events[x] /\ IsFiniteSet(events[x])
      BY DEF RecordsTo, DeliveryInvariant
    <2>2. QED BY <2>1, FS_Subset, FS_CardinalityType
  <1>3. M \in Nat /\ qty[x] \in Nat
    <2>1. <<x, Product, "confirm">> \in Order \X Item \X Cause
      BY DEF Item, Cause
    <2>2. QED BY <2>1 DEF TypeOK, Moved
  <1>4. /\ Cardinality(D) <= Cardinality(C) + 1
        /\ status[x] \notin {"delivered_warehouse", "closed", "cancelled"} =>
             Cardinality(D) <= Cardinality(C)
        /\ M <= QtyOf(x, D)
    BY DEF DeliveryInvariant
  <1>5. \/ M' = M
        \/ /\ status[x] = "delivery_pending_warehouse" /\ status'[x] = "delivered_warehouse"
           /\ M' = M + qty[x]
    BY MovedByStep DEF Item
  <1>6. {"delivered_warehouse", "corrected"} \subseteq Status \ {"awaiting_operations_claim"}
    BY DEF Status
  <1>7. ASSUME D' = D, M' = M, events[x] \subseteq events'[x] PROVE M' <= Sum
    <2> HIDE DEF D, M
    <2>1. QED BY <1>1, <1>2, <1>4, <1>7, SameRecords
  <1>8. CASE /\ Still(x) \/ Withdrawn(x)
             /\ \A to \in Status : RecordsTo(x, to)' = RecordsTo(x, to)
    <2>1. /\ events'[x] = events[x]
          /\ status'[x] = status[x] \/ status'[x] = "cancelled"
      BY <1>8 DEF Still, Withdrawn
    <2>2. D' = D /\ C' = C /\ M' = M
      BY <1>5, <1>6, <1>8, <2>1
    <2>3. QED BY <1>2, <1>4, <1>7, <2>1, <2>2
  <1>9. CASE /\ Opened(x)
             /\ \A to \in Status \ {"awaiting_operations_claim"} : RecordsTo(x, to) = {}
             /\ \A to \in Status \ {"awaiting_operations_claim"} : RecordsTo(x, to)' = {}
    <2>1. D' = D /\ C' = C
      BY <1>6, <1>9
    <2>2. IsFiniteSet(events'[x]) /\ events[x] \subseteq events'[x]
      <3>1. events[x] = {}
        BY <1>1, <1>9 DEF Opened, LedgerOf
      <3>2. \E e : events'[x] = {e} \/ events'[x] = events[x]
        BY <1>9 DEF Opened
      <3> HIDE DEF D, C, M, Sum
      <3>3. IsFiniteSet(events'[x])
        BY <1>2, <3>2, FS_Singleton
      <3>4. QED BY <3>1, <3>3
    <2>3. status[x] = "absent" /\ status'[x] = "awaiting_operations_claim"
      BY <1>9 DEF Opened, Exists
    <2>4. M' = M
      BY <1>5, <2>3
    <2>5. QED BY <1>4, <1>7, <2>1, <2>2, <2>3, <2>4
  <1>10. ASSUME NEW to \in Status, NEW e,
                CanTransition(status[x], to), status'[x] = to, e.qty = qty[x],
                e \notin events[x], events'[x] = events[x] \union {e},
                RecordsTo(x, to)' = RecordsTo(x, to) \union {e},
                \A other \in Status \ {to} : RecordsTo(x, other)' = RecordsTo(x, other)
         PROVE  /\ IsFiniteSet(events'[x])
                /\ Cardinality(D') <= Cardinality(C') + 1
                /\ status'[x] \notin {"delivered_warehouse", "closed", "cancelled"} =>
                     Cardinality(D') <= Cardinality(C')
                /\ M' <= Sum
    <2>1. IsFiniteSet(events'[x]) /\ events[x] \subseteq events'[x] /\ e \in events'[x]
      BY <1>2, <1>10, FS_AddElement
    <2>2. /\ status[x] \notin {"closed", "cancelled"}
          /\ status[x] = "delivered_warehouse" => to \in {"closed", "corrected"}
          /\ to \in {"delivered_warehouse", "cancelled"} => status[x] # "delivered_warehouse"
      BY <1>10 DEF CanTransition, WorkTransitions, NotCancellable
    <2>3. CASE to = "delivered_warehouse"
      <3>1. D' = D \union {e} /\ C' = C
        BY <1>6, <1>10, <2>3
      <3>2. Cardinality(D') = Cardinality(D) + 1
        BY <1>2, <1>10, <3>1, OneRecordMore
      <3>3. e \notin D
        BY <1>2, <1>10
      <3>4. M' <= Sum
        <4> HIDE DEF D, M
        <4>1. Sum = e.qty + QtyOf(x, D) /\ QtyOf(x, D) \in Nat
          BY <1>1, <1>2, <2>1, <3>1, <3>3, SameRecords
        <4> HIDE DEF Sum
        <4>2. QED BY <1>3, <1>4, <1>5, <1>10, <4>1
      <3>5. QED BY <1>2, <1>4, <1>10, <2>1, <2>2, <2>3, <3>1, <3>2, <3>4
    <2>4. CASE to = "corrected"
      <3>1. C' = C \union {e} /\ D' = D /\ M' = M
        BY <1>5, <1>6, <1>10, <2>4
      <3>2. Cardinality(C') = Cardinality(C) + 1
        BY <1>2, <1>10, <3>1, OneRecordMore
      <3>3. QED BY <1>2, <1>4, <1>7, <2>1, <3>1, <3>2
    <2>5. CASE to \notin {"delivered_warehouse", "corrected"}
      <3>1. C' = C /\ D' = D /\ M' = M
        BY <1>5, <1>6, <1>10, <2>5
      <3>2. QED BY <1>4, <1>7, <1>10, <2>1, <2>2, <2>5, <3>1
    <2>6. QED BY <2>3, <2>4, <2>5
  <1>11. QED BY <1>1, <1>8, <1>9, <1>10, RecordsOfStep

\* Finished goods enter stock for the deliveries on record and for no more than was
\* delivered, and a second delivery needs a correction, whatever is repeated, split
\* or cancelled.
THEOREM FinishedGoodsCounted == Spec => []FinishedGoodsOncePerDelivery
  <1>1. Init => DeliveryInvariant
    <2> SUFFICES ASSUME Init, NEW o \in Order
                 PROVE  /\ events[o] = {}
                        /\ RecordsTo(o, "delivered_warehouse") = {}
                        /\ RecordsTo(o, "corrected") = {}
                        /\ Moved(o, Product, "confirm") = 0
      <3>1. IsFiniteSet({}) /\ Cardinality({}) = 0
        BY FS_EmptySet
      <3>2. \A o \in Order : QtyOf(o, {}) = 0
        BY SumEmpty DEF QtyOf
      <3>3. QED BY <3>1, <3>2 DEF DeliveryInvariant
    <2>1. <<o, Product, "confirm">> \in Order \X Item \X Cause
      BY DEF Item, Cause
    <2>2. events[o] = {} /\ Moved(o, Product, "confirm") = 0
      BY <2>1 DEF Init, Moved
    <2>3. QED BY <2>2 DEF RecordsTo
  <1>2. TypeOK /\ LedgerInvariant /\ DeliveryInvariant /\ [Next]_vars => DeliveryInvariant'
    BY DeliveryStep DEF DeliveryInvariant, QtyOf
  <1>3. DeliveryInvariant => FinishedGoodsOncePerDelivery
    BY DEF DeliveryInvariant, FinishedGoodsOncePerDelivery
  <1>4. QED BY <1>1, <1>2, <1>3, TypeCorrect, LedgerCorrect, PTL DEF Spec

-----------------------------------------------------------------------------
(* Materials: what an order asks for, and what the warehouse issues *)

\* An order never goes back to before its materials were asked for, or decided
\* on, and neither disappears nor comes back from a cancellation.
LEMMA StatusStep ==
  ASSUME TypeOK, LedgerInvariant, [Next]_vars, NEW x \in Order
  PROVE  /\ Exists(x) => Exists(x)'
         /\ status[x] = "cancelled" => status'[x] = "cancelled"
         /\ status'[x] \in BeforeRequest => status[x] \in BeforeRequest
         /\ status'[x] \in BeforeDecision => status[x] \in BeforeDecision
  <1>1. Shaped(x)
    BY StepShape
  <1>2. ASSUME NEW to \in Status, CanTransition(status[x], to)
        PROVE  /\ status[x] # "cancelled"
               /\ to \in BeforeRequest => status[x] \in BeforeRequest
               /\ to \in BeforeDecision => status[x] \in BeforeDecision
    BY <1>2
       DEF CanTransition, WorkTransitions, NotCancellable, BeforeRequest, BeforeDecision, Status
  <1>3. QED
    BY <1>1, <1>2
       DEF Shaped, Still, Opened, Recorded, Withdrawn, Exists, BeforeRequest, BeforeDecision,
           Status

\* Only the transaction of a receive request sets what an order asks for.
LEMMA RequestedByStep ==
  ASSUME TypeOK, [Next]_vars, NEW x \in Order
  PROVE  \/ requested'[x] = requested[x]
         \/ \E r \in receiving :
              /\ r.order = x /\ status[x] = "claimed" /\ qty'[x] = qty[x]
              /\ requested'[x] \in Required(r.qty)
  <1>1. ASSUME NEW r \in receiving, ReceiveCommit(r)
        PROVE  \/ requested'[x] = requested[x]
               \/ /\ r.order = x /\ status[x] = "claimed" /\ qty'[x] = qty[x]
                  /\ requested'[x] \in Required(r.qty)
    BY <1>1 DEF ReceiveCommit, TypeOK, detailVars
  <1>2. UNCHANGED requested \/ \E r \in receiving : ReceiveCommit(r)
    BY GoodsStep
       DEF Untouched, PortalSubmit, Create, Split, ReceiveRead, ConfirmDelivery, StaffCancel,
           DecisionRead, DecisionCommit, CreateTransfer, ReceiveTransfer, detailVars
  <1>3. QED BY <1>1, <1>2

\* An existing order only ever gets smaller.
LEMMA QuantityShrinks ==
  ASSUME TypeOK, [Next]_vars, NEW x \in Order, Exists(x)
  PROVE  qty'[x] <= qty[x]
  <1>1. ASSUME NEW o \in Order, NEW c \in Order, NEW q \in Quantity, Split(o, c, q)
        PROVE  qty'[x] <= qty[x]
    <2>1. x # c /\ q \in Nat /\ qty[o] \in Nat /\ qty[x] \in Nat
      BY <1>1 DEF Split, Insert, TypeOK, Quantity
    <2>2. qty' = [qty EXCEPT ![o] = @ - q, ![c] = q]
      BY <1>1 DEF Split
    <2>3. qty'[x] = IF x = o THEN qty[o] - q ELSE qty[x]
      BY <2>1, <2>2 DEF TypeOK
    <2>4. QED BY <2>1, <2>3
  <1>2. CASE qty'[x] = qty[x]
    BY <1>2 DEF TypeOK
  <1>3. ASSUME NEW S \in SUBSET Order, NEW q \in Quantity, PortalSubmit(S, q)
        PROVE  qty'[x] = qty[x]
    BY <1>3 DEF PortalSubmit
  <1>4. ASSUME NEW o \in Order, NEW q \in Quantity, Create(o, q) PROVE qty'[x] = qty[x]
    BY <1>4 DEF Create, Insert, TypeOK
  <1>5. QED BY <1>1, <1>2, <1>3, <1>4, QuantitySteps

\* A request in flight is one of before the step, or reads the order now.
LEMMA ReceivingByStep ==
  ASSUME TypeOK, [Next]_vars, NEW r \in receiving'
  PROVE  \/ r \in receiving
         \/ /\ r.order \in Order /\ status[r.order] = "claimed"
            /\ r.qty = qty[r.order] /\ UNCHANGED <<qty, status>>
  <1>1. ASSUME NEW o \in Order, ReceiveRead(o)
        PROVE  \/ r \in receiving
               \/ /\ r.order \in Order /\ status[r.order] = "claimed"
                  /\ r.qty = qty[r.order] /\ UNCHANGED <<qty, status>>
    BY <1>1 DEF ReceiveRead, orderVars, detailVars
  <1>2. \/ UNCHANGED receiving
        \/ \E o \in Order : ReceiveRead(o)
        \/ \E s \in receiving : receiving' = receiving \ {s}
    BY GoodsStep
       DEF Untouched, PortalSubmit, Create, Split, ConfirmDelivery, StaffCancel, ReceiveCommit,
           DecisionRead, DecisionCommit, CreateTransfer, ReceiveTransfer, requestVars
  <1>3. QED BY <1>1, <1>2

\* The materials of a smaller quantity are no more.
LEMMA ProductGrows ==
  ASSUME NEW a \in Nat, NEW b \in Nat, NEW c \in Nat, b <= c PROVE a * b <= a * c
  <1>1. c - b \in Nat /\ c = b + (c - b)
    OBVIOUS
  <1>2. a * (c - b) \in Nat /\ a * c = a * b + a * (c - b) /\ a * b \in Nat
    BY <1>1
  <1>3. QED BY <1>2

\* What covers an amount covers a smaller one.
LEMMA StillCovered ==
  ASSUME NEW p \in Nat, NEW a \in Nat, NEW b \in Nat, NEW w \in Nat, NEW d \in Nat,
         p * a <= p * b, 2 * (p * b) <= 2 * w * d + d
  PROVE  2 * (p * a) <= 2 * w * d + d
  <1>1. p * a \in Nat /\ p * b \in Nat /\ w * d \in Nat /\ 2 * w * d = 2 * (w * d)
    OBVIOUS
  <1>2. 2 * (p * a) <= 2 * (p * b)
    BY <1>1
  <1>3. \A i, j, k \in Int : i <= j /\ j <= k => i <= k
    OBVIOUS
  <1>4. QED BY <1>1, <1>2, <1>3

\* The materials asked for cover, but for the rounding, what is left of the order,
\* however it was split while it was being received.
THEOREM RequestCovers == Spec => []RequestCoversOrder
  <1>1. Init => RequestInvariant
    BY DEF Init, RequestInvariant, RequestCoversOrder, Linked, Exists
  <1>2. TypeOK /\ LedgerInvariant /\ RequestInvariant /\ [Next]_vars => RequestInvariant'
    <2> SUFFICES ASSUME TypeOK, LedgerInvariant, RequestInvariant, [Next]_vars
                 PROVE  RequestInvariant'
      OBVIOUS
    <2>1. ASSUME NEW r \in receiving' PROVE Exists(r.order)' /\ r.qty >= qty'[r.order]
      <3>1. CASE r \in receiving
        <4>1. /\ r.order \in Order /\ r.qty \in Nat /\ qty[r.order] \in Nat
              /\ Exists(r.order) /\ r.qty >= qty[r.order]
          BY <3>1 DEF TypeOK, RequestInvariant
        <4>2. Exists(r.order)' /\ qty'[r.order] <= qty[r.order] /\ qty'[r.order] \in Nat
          <5>1. qty' \in [Order -> Nat]
            BY TypeStep DEF TypeOK
          <5>2. QED BY <4>1, <5>1, StatusStep, QuantityShrinks
        <4>3. QED BY <4>1, <4>2
      <3>2. CASE /\ r.order \in Order /\ status[r.order] = "claimed"
                 /\ r.qty = qty[r.order] /\ UNCHANGED <<qty, status>>
        BY <3>2 DEF Exists, TypeOK
      <3>3. QED BY <3>1, <3>2, ReceivingByStep
    <2>2. ASSUME NEW o \in Order
          PROVE  /\ ~Exists(o)' => Linked(o)' = {}
                 /\ \A m \in DOMAIN requested'[o] :
                      2 * (Recipe[m] * qty'[o]) <= 2 * requested'[o][m] * Batch + Batch
      <3>1. /\ \A m \in Material : Recipe[m] \in Nat
            /\ qty[o] \in Nat /\ qty'[o] \in Nat /\ Batch \in Nat
        BY TypeStep, ProductionAssumption DEF TypeOK
      <3>2. CASE requested'[o] = requested[o]
        <4>1. CASE ~Exists(o)
          BY <3>2, <4>1 DEF RequestInvariant, Linked
        <4>2. CASE Exists(o)
          <5>1. Exists(o)' /\ qty'[o] <= qty[o]
            BY <4>2, StatusStep, QuantityShrinks
          <5>2. ASSUME NEW m \in Linked(o)
                PROVE  2 * (Recipe[m] * qty'[o]) <= 2 * requested[o][m] * Batch + Batch
            <6>1. Recipe[m] \in Nat /\ requested[o][m] \in Nat
              BY <3>1, RequestType
            <6>2. Recipe[m] * qty'[o] <= Recipe[m] * qty[o]
              BY <3>1, <5>1, <6>1, ProductGrows
            <6>3. 2 * (Recipe[m] * qty[o]) <= 2 * requested[o][m] * Batch + Batch
              BY DEF RequestInvariant, RequestCoversOrder
            <6>4. QED BY <3>1, <6>1, <6>2, <6>3, StillCovered
          <5>3. QED BY <3>2, <5>1, <5>2 DEF Linked
        <4>3. QED BY <4>1, <4>2
      <3>3. ASSUME NEW r \in receiving, r.order = o, status[o] = "claimed", qty'[o] = qty[o],
                   requested'[o] \in Required(r.qty)
            PROVE  /\ Exists(o)'
                   /\ \A m \in DOMAIN requested'[o] :
                        2 * (Recipe[m] * qty'[o]) <= 2 * requested'[o][m] * Batch + Batch
        <4>1. Exists(o)'
          BY <3>3, StatusStep DEF Exists
        <4>2. r.qty \in Nat /\ qty[o] <= r.qty
          BY <3>3 DEF TypeOK, RequestInvariant
        <4>3. /\ requested'[o] \in [Material -> Nat]
              /\ \A m \in Material :
                   2 * (Recipe[m] * r.qty) <= 2 * requested'[o][m] * Batch + Batch
          BY <3>3, <4>2, RequiredAmounts
        <4>4. ASSUME NEW m \in Material
              PROVE  2 * (Recipe[m] * qty'[o]) <= 2 * requested'[o][m] * Batch + Batch
          <5>1. Recipe[m] * qty'[o] <= Recipe[m] * r.qty
            BY <3>1, <3>3, <4>2, ProductGrows
          <5>2. Recipe[m] \in Nat /\ requested'[o][m] \in Nat
            BY <3>1, <4>3
          <5>3. 2 * (Recipe[m] * r.qty) <= 2 * requested'[o][m] * Batch + Batch
            BY <4>3
          <5>4. QED BY <3>1, <4>2, <5>1, <5>2, <5>3, StillCovered
        <4>5. QED BY <4>1, <4>3, <4>4
      <3>4. QED BY <3>2, <3>3, RequestedByStep
    <2>3. QED BY <2>1, <2>2 DEF RequestInvariant, RequestCoversOrder, Linked
  <1>3. RequestInvariant => RequestCoversOrder
    BY DEF RequestInvariant
  <1>4. QED BY <1>1, <1>2, <1>3, TypeCorrect, LedgerCorrect, PTL DEF Spec

\* A decision in flight is one of before the step, or is taken on the order now.
LEMMA DecidingByStep ==
  ASSUME TypeOK, [Next]_vars, NEW d \in deciding'
  PROVE  \/ d \in deciding
         \/ /\ d.order \in Order /\ status[d.order] = "materials_requested"
            /\ d.action = "materials_partial" =>
                 \A line \in FirstLines(d.lines) :
                   line.item \in Linked(d.order) => line.qty <= requested[d.order][line.item]
            /\ UNCHANGED <<status, requested>>
  <1>1. ASSUME NEW o \in Order, NEW by \in {"keeper", "executive"},
               NEW action \in {"materials_approved", "materials_partial"},
               NEW lines \in Seq([item : Item, qty : Nat]), DecisionRead(o, by, action, lines),
               d \notin deciding
        PROVE  /\ d.order = o /\ status[o] = "materials_requested"
               /\ d.action = "materials_partial" =>
                    \A line \in FirstLines(d.lines) :
                      line.item \in Linked(o) => line.qty <= requested[o][line.item]
               /\ UNCHANGED <<status, requested>>
    <2>1. /\ d = [order |-> o, by |-> by, action |-> action, lines |-> lines]
          /\ status[o] = "materials_requested" /\ UNCHANGED <<status, requested>>
      BY <1>1 DEF DecisionRead, orderVars, detailVars
    <2>2. action = "materials_partial" =>
            \A line \in FirstLines(lines) :
              line.item \in Linked(o) => line.qty <= requested[o][line.item]
      BY <1>1 DEF DecisionRead, DecisionAllowed
    <2>3. QED BY <2>1, <2>2
  <1>2. \/ deciding' \subseteq deciding
        \/ \E o \in Order, by \in {"keeper", "executive"},
              action \in {"materials_approved", "materials_partial"},
              lines \in Seq([item : Item, qty : Nat]) : DecisionRead(o, by, action, lines)
    BY GoodsStep
       DEF Untouched, PortalSubmit, Create, Split, ReceiveRead, ConfirmDelivery, StaffCancel,
           ReceiveCommit, DecisionCommit, CreateTransfer, ReceiveTransfer, requestVars
  <1>3. QED BY <1>1, <1>2

\* What a decision issues, when its transaction is carried out: nothing, for an order
\* that is not its own or has moved on; the transfers of a keeper; what an executive's
\* decision deducts.
LEMMA IssueByDecision ==
  ASSUME TypeOK, NEW d \in deciding, DecisionCommit(d), NEW x \in Order
  PROVE  \/ /\ \A i \in Item : Moved(x, i, "direct")' = Moved(x, i, "direct")
            /\ \A i \in Item : PreparedFor(x, i)' = PreparedFor(x, i)
         \/ /\ d.order = x /\ status[x] = "materials_requested" /\ UNCHANGED requested
            /\ d.action \in {"materials_approved", "materials_partial"}
            /\ status'[x] = d.action
            /\ \/ /\ \A i \in Item : Moved(x, i, "direct")' = Moved(x, i, "direct")
                  /\ transfers' = transfers \union Prepared(x, d)
               \/ /\ d.action = "materials_partial" /\ UNCHANGED transfers
               \/ /\ d.action = "materials_approved" /\ UNCHANGED transfers
                  /\ \A i \in Item : Moved(x, i, "direct")' =
                       Moved(x, i, "direct") + IF i \in Linked(x) THEN requested[x][i] ELSE 0
  <1>1. d \in DecisionSet
    BY DEF TypeOK
  <1>2. /\ d.order \in Order /\ d.action \in {"materials_approved", "materials_partial"}
        /\ UNCHANGED requested
    BY <1>1 DEF DecisionSet, DecisionCommit, detailVars
  <1>3. CASE UNCHANGED stockVars
    BY <1>3 DEF stockVars, Moved, PreparedFor
  <1>4. CASE status[d.order] = "materials_requested" /\ KeeperCommit(d.order, d)
    <2>1. /\ transfers' = transfers \union Prepared(d.order, d)
          /\ moved' = moved /\ Move(d.order, d.action)
      BY <1>4 DEF KeeperCommit
    <2>2. status'[d.order] = d.action
      BY <1>2, <2>1 DEF Move, SetStatus, TypeOK
    <2>3. CASE d.order = x
      BY <1>2, <1>4, <2>1, <2>2, <2>3 DEF Moved
    <2>4. CASE d.order # x
      <3>1. \A i \in Item : \A t \in Prepared(d.order, d) : t.key # <<x, i>>
        BY <2>4 DEF Prepared
      <3>2. QED BY <2>1, <3>1 DEF Moved, PreparedFor
    <2>5. QED BY <2>3, <2>4
  <1>5. CASE status[d.order] = "materials_requested" /\ ExecutiveCommit(d.order, d)
    <2>1. UNCHANGED transfers /\ Move(d.order, d.action)
      BY <1>5 DEF ExecutiveCommit
    <2>2. status'[d.order] = d.action
      BY <1>2, <2>1 DEF Move, SetStatus, TypeOK
    <2>3. ASSUME NEW amount, Deduct(d.order, amount)
          PROVE  \A i \in Item : Moved(x, i, "direct")' =
                   IF x = d.order THEN Moved(x, i, "direct") + amount[i] ELSE Moved(x, i, "direct")
      <3>1. \A i \in Item : <<x, i, "direct">> \in DOMAIN moved
        BY DEF TypeOK, Cause
      <3>2. QED BY <2>3, <3>1 DEF Deduct, Moved
    <2>4. PICK amount : Deduct(d.order, amount)
      BY <1>5 DEF ExecutiveCommit
    <2>5. CASE d.order # x
      BY <2>1, <2>3, <2>4, <2>5 DEF PreparedFor
    <2>6. CASE d.order = x /\ d.action = "materials_partial"
      BY <1>2, <1>5, <2>1, <2>2, <2>6
    <2>7. CASE d.order = x /\ d.action = "materials_approved"
      <3> DEFINE whole == [i \in Item |-> IF i \in Linked(x) THEN requested[x][i] ELSE 0]
      <3>1. Deduct(x, whole)
        BY <1>5, <2>7 DEF ExecutiveCommit
      <3>2. \A i \in Item : Moved(x, i, "direct")' = Moved(x, i, "direct") + whole[i]
        <4> HIDE DEF whole
        <4>1. QED BY <2>3, <2>7, <3>1
      <3>3. QED BY <1>2, <1>5, <2>1, <2>2, <2>7, <3>2
    <2>8. QED BY <1>2, <2>5, <2>6, <2>7
  <1>6. QED BY <1>3, <1>4, <1>5 DEF DecisionCommit

\* No other step issues anything: received transfers keep their key and their
\* quantity, and those that the staff create have keys of their own.
LEMMA IssueByStep ==
  ASSUME TypeOK, [Next]_vars, NEW x \in Order, NEW i \in Item
  PROVE  \/ /\ Moved(x, i, "direct")' = Moved(x, i, "direct")
            /\ \A t \in PreparedFor(x, i)' : \E u \in PreparedFor(x, i) : u.qty = t.qty
            /\ PreparedFor(x, i) # {} => PreparedFor(x, i)' # {}
         \/ \E d \in deciding : DecisionCommit(d)
  <1>1. Moved(x, i, "direct")' = Moved(x, i, "direct") \/ \E d \in deciding : DecisionCommit(d)
    BY MovedByStep
  <1>2. ASSUME NEW t \in transfers, ReceiveTransfer(t)
        PROVE  /\ \A s \in PreparedFor(x, i)' : \E u \in PreparedFor(x, i) : u.qty = s.qty
               /\ PreparedFor(x, i) # {} => PreparedFor(x, i)' # {}
    <2>1. t \in TransferSet
      BY DEF TypeOK
    <2>2. PICK state \in {"late", "received"} :
            transfers' = (transfers \ {t}) \union {[t EXCEPT !.state = state]}
      BY <1>2 DEF ReceiveTransfer
    <2> DEFINE v == [t EXCEPT !.state = state]
    <2>3. v.key = t.key /\ v.qty = t.qty
      BY <2>1 DEF TransferSet
    <2>4. transfers' = (transfers \ {t}) \union {v}
      BY <2>2
    <2> HIDE DEF v
    <2>5. QED BY <2>3, <2>4 DEF PreparedFor
  <1>3. ASSUME NEW k \in ClientKey, NEW o \in Order, NEW n \in Material, NEW dir \in Direction,
               NEW q \in Quantity, CreateTransfer(k, o, n, dir, q)
        PROVE  /\ \A s \in PreparedFor(x, i)' : \E u \in PreparedFor(x, i) : u.qty = s.qty
               /\ PreparedFor(x, i) # {} => PreparedFor(x, i)' # {}
    <2>1. k # <<x, i>>
      BY ProductionAssumption
    <2>2. PICK new : new.key = k /\ transfers' = transfers \union {new}
      BY <1>3 DEF CreateTransfer
    <2>3. PreparedFor(x, i)' = PreparedFor(x, i)
      BY <2>1, <2>2 DEF PreparedFor
    <2>4. QED BY <2>3
  <1>4. \/ UNCHANGED transfers
        \/ \E k \in ClientKey, o \in Order, n \in Material, dir \in Direction, q \in Quantity :
             CreateTransfer(k, o, n, dir, q)
        \/ \E t \in transfers : ReceiveTransfer(t)
        \/ \E d \in deciding : DecisionCommit(d)
    BY GoodsStep
       DEF Untouched, PortalSubmit, Create, Split, ReceiveRead, ConfirmDelivery, StaffCancel,
           ReceiveCommit, DecisionRead, stockVars
  <1>5. CASE UNCHANGED transfers
    <2>1. PreparedFor(x, i)' = PreparedFor(x, i)
      BY <1>5 DEF PreparedFor
    <2>2. QED BY <1>1, <2>1
  <1>6. QED BY <1>1, <1>2, <1>3, <1>4, <1>5

\* What a step does to the record of the warehouse's decision: it adds the move that it
\* makes, if it makes one.
LEMMA DecidedByStep ==
  ASSUME TypeOK, LedgerInvariant, [Next]_vars, NEW x \in Order
  PROVE  /\ events[x] \subseteq events'[x]
         /\ \A e \in events'[x] : e \in events[x] \/ e.from \in {"absent", status[x]}
         /\ \A e \in events'[x] :
              e \in events[x] \/ e.from = "absent" \/ e.to = status'[x]
         /\ status[x] = "materials_requested" =>
              /\ status'[x] \in BeforeDecision => events'[x] = events[x]
              /\ status'[x] \in {"materials_approved", "materials_partial"} =>
                   \E e \in events'[x] : e.from = status[x] /\ e.to = status'[x]
  <1>1. LedgerOf(x) /\ Shaped(x)
    BY StepShape DEF LedgerInvariant
  <1>2. CASE Still(x)
    BY <1>2 DEF Still
  <1>3. CASE Withdrawn(x)
    BY <1>3 DEF Withdrawn
  <1>4. CASE Opened(x)
    <2>1. events[x] = {} /\ status[x] = "absent"
      BY <1>1, <1>4 DEF Opened, LedgerOf, Exists
    <2>2. \A e \in events'[x] : e.from = "absent"
      BY <1>4, <2>1 DEF Opened, Event
    <2>3. QED BY <2>1, <2>2
  <1>5. ASSUME NEW to \in Status, NEW e,
               CanTransition(status[x], to), status'[x] = to,
               e.from = status[x], e.to = to, events'[x] = events[x] \union {e}
        PROVE  /\ events[x] \subseteq events'[x]
               /\ \A f \in events'[x] : f \in events[x] \/ f.from \in {"absent", status[x]}
               /\ \A f \in events'[x] : f \in events[x] \/ f.from = "absent" \/ f.to = status'[x]
               /\ status[x] = "materials_requested" =>
                    /\ status'[x] \in BeforeDecision => events'[x] = events[x]
                    /\ status'[x] \in {"materials_approved", "materials_partial"} =>
                         \E f \in events'[x] : f.from = status[x] /\ f.to = status'[x]
    <2>1. status[x] = "materials_requested" => to \notin BeforeDecision
      BY <1>5 DEF CanTransition, WorkTransitions, BeforeDecision, BeforeRequest
    <2>2. \E f \in events'[x] : f.from = status[x] /\ f.to = status'[x]
      BY <1>5
    <2>3. QED BY <1>5, <2>1, <2>2
  <1>6. QED BY <1>1, <1>2, <1>3, <1>4, <1>5, RecordsOfStep

\* A step that issues nothing for the order keeps what was carried out for it.
LEMMA NothingIssued ==
  ASSUME TypeOK, LedgerInvariant, IssueInvariant, [Next]_vars, NEW x \in Order,
         \A i \in Item : Moved(x, i, "direct")' = Moved(x, i, "direct"),
         \A i \in Item : \A t \in PreparedFor(x, i)' : \E u \in PreparedFor(x, i) : u.qty = t.qty,
         \A i \in Item : PreparedFor(x, i) # {} => PreparedFor(x, i)' # {}
  PROVE  /\ CarriedOut(x)'
         /\ status'[x] \in BeforeDecision => DeductedItems(x)' = {} /\ PreparedItems(x)' = {}
  <1>1. DeductedItems(x)' = DeductedItems(x) /\ PreparedItems(x)' = PreparedItems(x)
    BY DEF DeductedItems, PreparedItems
  <1>2. status'[x] \in BeforeDecision => status[x] \in BeforeDecision
    BY StatusStep
  <1>3. CASE status[x] \in BeforeDecision
    <2>1. DeductedItems(x)' = {} /\ PreparedItems(x)' = {}
      BY <1>1, <1>3 DEF IssueInvariant
    <2>2. QED BY <2>1 DEF CarriedOut
  <1>4. CASE status[x] \notin BeforeDecision
    <2>1. requested'[x] = requested[x]
      BY <1>4, RequestedByStep DEF BeforeDecision, BeforeRequest
    <2>2. \A as : Decided(x, as)' <=> Decided(x, as)
      <3>1. status[x] # "materials_requested"
        BY <1>4 DEF BeforeDecision
      <3>2. /\ events[x] \subseteq events'[x]
            /\ \A e \in events'[x] : e \in events[x] \/ e.from \in {"absent", status[x]}
        BY DecidedByStep
      <3>3. QED BY <3>1, <3>2 DEF Decided
    <2>3. /\ Linked(x)' = Linked(x) /\ NeededItems(x)' = NeededItems(x)
      BY <2>1 DEF Linked, NeededItems
    <2>4. CarriedOut(x)
      BY DEF IssueInvariant, OneDecisionCarriedOut
    <2>5. \A i \in PreparedItems(x) : i \in Item
      BY DEF PreparedItems
    <2>6. \A i \in DeductedItems(x) : Moved(x, i, "direct")' = Moved(x, i, "direct")
      BY DEF DeductedItems
    <2>7. CarriedOut(x)'
      BY <1>1, <2>1, <2>2, <2>3, <2>4, <2>5, <2>6 DEF CarriedOut
    <2>8. QED BY <1>2, <1>4, <2>7
  <1>5. QED BY <1>3, <1>4

\* A decision that is carried out for the order is the first that is.
LEMMA DecisionIssued ==
  ASSUME TypeOK, LedgerInvariant, IssueInvariant, [Next]_vars, NEW x \in Order,
         NEW d \in deciding, d.order = x, status[x] = "materials_requested", UNCHANGED requested,
         d.action \in {"materials_approved", "materials_partial"}, status'[x] = d.action,
         \/ /\ \A i \in Item : Moved(x, i, "direct")' = Moved(x, i, "direct")
            /\ transfers' = transfers \union Prepared(x, d)
         \/ /\ d.action = "materials_partial" /\ UNCHANGED transfers
         \/ /\ d.action = "materials_approved" /\ UNCHANGED transfers
            /\ \A i \in Item : Moved(x, i, "direct")' =
                 Moved(x, i, "direct") + IF i \in Linked(x) THEN requested[x][i] ELSE 0
  PROVE  CarriedOut(x)'
  <1>1. /\ \A i \in Item : Moved(x, i, "direct") = 0 /\ PreparedFor(x, i) = {}
        /\ \A e \in events[x] : e.from # "materials_requested"
    BY DEF IssueInvariant, DeductedItems, PreparedItems, BeforeDecision
  <1>2. /\ Decided(x, d.action)'
        /\ d.action = "materials_partial" => ~Decided(x, "materials_approved")'
    BY <1>1, DecidedByStep DEF Decided
  <1>3. /\ Linked(x)' = Linked(x) /\ NeededItems(x)' = NeededItems(x)
        /\ \A i \in Linked(x) : i \in Material /\ i \in Item /\ requested[x][i] \in Nat
    BY RequestType DEF Linked, NeededItems
  <1>4. CASE /\ \A i \in Item : Moved(x, i, "direct")' = Moved(x, i, "direct")
             /\ transfers' = transfers \union Prepared(x, d)
    <2>1. DeductedItems(x)' = {}
      BY <1>1, <1>4 DEF DeductedItems
    <2>2. \A i \in Item : PreparedFor(x, i)' = {t \in Prepared(x, d) : t.key = <<x, i>>}
      BY <1>1, <1>4 DEF PreparedFor
    <2>3. \A i \in Item : \A t \in PreparedFor(x, i)' :
            \E line \in IF d.action = "materials_approved"
                          THEN RequestedLines(x) ELSE FirstLines(d.lines) :
              line.item = i /\ i \in Linked(x) /\ t.qty = line.qty /\ line.qty > 0
      BY <2>2 DEF Prepared
    <2>4. CASE d.action = "materials_approved"
      <3>1. \A i \in Item : \A t \in PreparedFor(x, i)' :
              i \in NeededItems(x) /\ t.qty = requested[x][i]
        BY <2>3, <2>4 DEF RequestedLines, NeededItems
      <3>2. ASSUME NEW i \in NeededItems(x) PROVE i \in PreparedItems(x)'
        <4> DEFINE line == [item |-> i, qty |-> requested[x][i]]
                   t == [key |-> <<x, line.item>>, order |-> x, item |-> line.item,
                         direction |-> "warehouse_to_operations", qty |-> line.qty,
                         state |-> "pending"]
        <4>1. i \in Linked(x) /\ i \in Item /\ requested[x][i] > 0
          BY <1>3 DEF NeededItems
        <4>2. line \in RequestedLines(x) /\ line.item = i /\ line.qty > 0
          BY <4>1 DEF RequestedLines
        <4>3. t \in Prepared(x, d) /\ t.key = <<x, i>>
          BY <2>4, <4>1, <4>2 DEF Prepared
        <4>4. QED BY <2>2, <4>1, <4>3 DEF PreparedItems
      <3>3. PreparedItems(x)' = NeededItems(x)
        BY <3>1, <3>2 DEF PreparedItems
      <3>4. \A i \in PreparedItems(x)' : i \in Linked(x) /\ i \in Item
        BY <1>3, <3>3 DEF NeededItems
      <3>5. \A i \in PreparedItems(x)' : \A t \in PreparedFor(x, i)' :
              t.qty = requested'[x][i] /\ t.qty <= requested'[x][i]
        BY <1>3, <3>1, <3>4
      <3>6. QED BY <1>2, <1>3, <2>1, <2>4, <3>3, <3>4, <3>5 DEF CarriedOut
    <2>5. CASE d.action = "materials_partial"
      <3>1. \A line \in FirstLines(d.lines) :
              line.item \in Linked(x) => line.qty <= requested[x][line.item]
        BY <2>5 DEF IssueInvariant
      <3>2. \A i \in PreparedItems(x)' :
              i \in Linked(x)' /\ \A t \in PreparedFor(x, i)' : t.qty <= requested'[x][i]
        BY <1>3, <2>3, <2>5, <3>1 DEF PreparedItems
      <3>3. QED BY <1>2, <2>1, <2>5, <3>2 DEF CarriedOut
    <2>6. QED BY <2>4, <2>5
  <1>5. CASE UNCHANGED transfers /\ d.action = "materials_partial"
    <2>1. PreparedItems(x)' = {}
      BY <1>1, <1>5 DEF PreparedItems, PreparedFor
    <2>2. QED BY <1>2, <1>5, <2>1 DEF CarriedOut
  <1>6. CASE /\ UNCHANGED transfers /\ d.action = "materials_approved"
             /\ \A i \in Item : Moved(x, i, "direct")' =
                  Moved(x, i, "direct") + IF i \in Linked(x) THEN requested[x][i] ELSE 0
    <2>1. PreparedItems(x)' = {}
      BY <1>1, <1>6 DEF PreparedItems, PreparedFor
    <2>2. \A i \in Item : Moved(x, i, "direct")' = IF i \in Linked(x) THEN requested[x][i] ELSE 0
      BY <1>1, <1>3, <1>6
    <2>3. DeductedItems(x)' = NeededItems(x)
      BY <1>3, <2>2 DEF DeductedItems, NeededItems
    <2>4. \A i \in DeductedItems(x)' : Moved(x, i, "direct")' = requested'[x][i]
      BY <1>3, <2>2, <2>3 DEF NeededItems
    <2>5. QED BY <1>2, <1>3, <1>6, <2>1, <2>3, <2>4 DEF CarriedOut
  <1>7. QED BY <1>4, <1>5, <1>6

\* Of the decisions that the warehouse takes on an order one is carried out, and it is
\* the one on record, whatever else is decided, moved, cancelled or received meanwhile.
THEOREM OneDecision == Spec => []OneDecisionCarriedOut
  <1>1. Init => IssueInvariant
    <2> SUFFICES ASSUME Init PROVE IssueInvariant
      OBVIOUS
    <2>1. \A o \in Order, i \in Item : <<o, i, "direct">> \in Order \X Item \X Cause
      BY DEF Cause
    <2>2. \A o \in Order : DeductedItems(o) = {} /\ PreparedItems(o) = {} /\ events[o] = {}
      BY <2>1 DEF Init, DeductedItems, PreparedItems, PreparedFor, Moved
    <2>3. \A o \in Order : CarriedOut(o)
      BY <2>2 DEF CarriedOut
    <2>4. deciding = {}
      BY DEF Init
    <2>5. QED BY <2>2, <2>3, <2>4 DEF IssueInvariant, OneDecisionCarriedOut
  <1>2. TypeOK /\ LedgerInvariant /\ IssueInvariant /\ [Next]_vars => IssueInvariant'
    <2> SUFFICES ASSUME TypeOK, LedgerInvariant, IssueInvariant, [Next]_vars
                 PROVE  IssueInvariant'
      OBVIOUS
    <2>1. ASSUME NEW d \in deciding'
          PROVE  /\ status'[d.order] \notin BeforeRequest
                 /\ d.action = "materials_partial" =>
                      \A line \in FirstLines(d.lines) :
                        line.item \in DOMAIN requested'[d.order]
                          => line.qty <= requested'[d.order][line.item]
      <3>1. CASE d \in deciding
        <4>1. d.order \in Order /\ status[d.order] \notin BeforeRequest
          BY <3>1 DEF TypeOK, DecisionSet, IssueInvariant
        <4>2. requested'[d.order] = requested[d.order]
          BY <4>1, RequestedByStep DEF BeforeRequest
        <4>3. QED BY <3>1, <4>1, <4>2, StatusStep DEF IssueInvariant, Linked
      <3>2. CASE /\ d.order \in Order /\ status[d.order] = "materials_requested"
                 /\ d.action = "materials_partial" =>
                      \A line \in FirstLines(d.lines) :
                        line.item \in Linked(d.order) => line.qty <= requested[d.order][line.item]
                 /\ UNCHANGED <<status, requested>>
        BY <3>2 DEF BeforeRequest, Linked
      <3>3. QED BY <3>1, <3>2, DecidingByStep
    <2>2. ASSUME NEW x \in Order
          PROVE  /\ CarriedOut(x)'
                 /\ status'[x] \in BeforeDecision =>
                      DeductedItems(x)' = {} /\ PreparedItems(x)' = {}
      <3>1. CASE ~ \E d \in deciding : DecisionCommit(d)
        BY <3>1, IssueByStep, NothingIssued
      <3>2. ASSUME NEW d \in deciding, DecisionCommit(d)
            PROVE  /\ CarriedOut(x)'
                   /\ status'[x] \in BeforeDecision =>
                        DeductedItems(x)' = {} /\ PreparedItems(x)' = {}
        <4>1. CASE /\ \A i \in Item : Moved(x, i, "direct")' = Moved(x, i, "direct")
                   /\ \A i \in Item : PreparedFor(x, i)' = PreparedFor(x, i)
          BY <4>1, NothingIssued
        <4>2. CASE ~ /\ \A i \in Item : Moved(x, i, "direct")' = Moved(x, i, "direct")
                     /\ \A i \in Item : PreparedFor(x, i)' = PreparedFor(x, i)
          <5>1. /\ d.order = x /\ status[x] = "materials_requested" /\ UNCHANGED requested
                /\ d.action \in {"materials_approved", "materials_partial"}
                /\ status'[x] = d.action
                /\ \/ /\ \A i \in Item : Moved(x, i, "direct")' = Moved(x, i, "direct")
                      /\ transfers' = transfers \union Prepared(x, d)
                   \/ /\ d.action = "materials_partial" /\ UNCHANGED transfers
                   \/ /\ d.action = "materials_approved" /\ UNCHANGED transfers
                      /\ \A i \in Item : Moved(x, i, "direct")' =
                           Moved(x, i, "direct") + IF i \in Linked(x) THEN requested[x][i] ELSE 0
            BY <3>2, <4>2, IssueByDecision
          <5>2. CarriedOut(x)'
            BY <5>1, DecisionIssued
          <5>3. status'[x] \notin BeforeDecision
            BY <5>1 DEF BeforeDecision, BeforeRequest
          <5>4. QED BY <5>2, <5>3
        <4>3. QED BY <4>1, <4>2
      <3>3. QED BY <3>1, <3>2
    <2>3. ASSUME NEW x \in Order, status'[x] \in BeforeDecision, NEW e \in events'[x]
          PROVE  e.from # "materials_requested"
      <3>1. status[x] \in BeforeDecision
        BY <2>3, StatusStep
      <3>2. \A f \in events[x] : f.from # "materials_requested"
        BY <3>1 DEF IssueInvariant
      <3>3. e \in events[x] \/ (e.from \in {"absent", status[x]} /\ status[x] # "materials_requested")
        BY <2>3, DecidedByStep
      <3>4. QED BY <3>2, <3>3
    <2>4. QED BY <2>1, <2>2, <2>3 DEF IssueInvariant, OneDecisionCarriedOut, Linked
  <1>3. IssueInvariant => OneDecisionCarriedOut
    BY DEF IssueInvariant
  <1>4. QED BY <1>1, <1>2, <1>3, TypeCorrect, LedgerCorrect, PTL DEF Spec

-----------------------------------------------------------------------------
(* Quantities: splitting conserves their sum *)

\* A row that is not inserted has no quantity and no parent.
LEMMA UnopenedStep ==
  ASSUME TypeOK, LedgerInvariant, UnopenedInvariant, [Next]_vars PROVE UnopenedInvariant'
  <1> SUFFICES ASSUME NEW x \in Order, ~Exists(x)' PROVE qty'[x] = 0 /\ parent'[x] = NoOrder
    BY DEF UnopenedInvariant
  <1>1. ~Exists(x) /\ qty[x] = 0 /\ parent[x] = NoOrder
    BY StatusStep DEF UnopenedInvariant
  <1>2. ASSUME NEW o \in Order, NEW c \in Order, NEW q \in Quantity, Split(o, c, q)
        PROVE  qty'[x] = qty[x] /\ parent'[x] = parent[x]
    <2>1. x # o /\ x # c
      BY <1>1, <1>2 DEF Split, Insert, Exists, TypeOK
    <2>2. QED BY <1>2, <2>1 DEF Split, TypeOK
  <1>3. ASSUME NEW S \in SUBSET Order, NEW q \in Quantity, PortalSubmit(S, q)
        PROVE  qty'[x] = qty[x] /\ parent'[x] = parent[x]
    <2>1. x \notin S
      BY <1>3 DEF PortalSubmit, Exists
    <2>2. QED BY <1>3, <2>1 DEF PortalSubmit
  <1>4. ASSUME NEW o \in Order, NEW q \in Quantity, Create(o, q)
        PROVE  qty'[x] = qty[x] /\ parent'[x] = parent[x]
    <2>1. x # o
      BY <1>4 DEF Create, Insert, Exists, TypeOK
    <2>2. QED BY <1>4, <2>1 DEF Create, TypeOK
  <1>5. QED BY <1>1, <1>2, <1>3, <1>4, QuantitySteps

\* The sum of all quantities changes only when an order that is nobody's split is
\* opened: a split keeps it.
THEOREM SplitConserves == Spec => SplitConservesQuantity
  <1>1. Init => UnopenedInvariant
    BY DEF Init, UnopenedInvariant
  <1>2. ASSUME TypeOK, UnopenedInvariant, [Next]_vars,
               SumFunctionOnSet(qty', Order) # SumFunctionOnSet(qty, Order)
        PROVE  \E o \in Order : ~Exists(o) /\ Exists(o)' /\ parent'[o] = NoOrder
    <2>1. qty \in [Order -> Nat] /\ qty' \in [Order -> Nat] /\ qty' # qty
      BY <1>2, TypeStep DEF TypeOK
    <2>2. ASSUME NEW o \in Order, NEW c \in Order, NEW q \in Quantity, Split(o, c, q)
          PROVE  FALSE
      <3>1. o # c /\ ~Exists(c) /\ q \in Nat /\ qty' = [qty EXCEPT ![o] = @ - q, ![c] = q]
        BY <2>2 DEF Split, Insert, Quantity
      <3>2. /\ qty[c] = 0 /\ qty'[o] = qty[o] - q /\ qty'[c] = q
            /\ \A x \in Order \ {o, c} : qty'[x] = qty[x]
        BY <1>2, <2>1, <3>1 DEF UnopenedInvariant
      <3>3. qty'[o] + qty'[c] = qty[o] + qty[c]
        BY <2>1, <3>1, <3>2
      <3>4. \A x \in Order : qty[x] \in Int /\ qty'[x] \in Int
        BY <2>1
      <3>5. IsFiniteSet(Order)
        BY ProductionAssumption
      <3>6. SumFunctionOnSet(qty', Order) = SumFunctionOnSet(qty, Order)
        <4>1. \A x \in Order \ {o, c} : qty'[x] = qty[x]
          BY <3>2
        <4>2. o # c
          BY <3>1
        <4>3. QED BY <3>3, <3>4, <3>5, <4>1, <4>2, SumShift, Zenon
      <3>7. QED BY <1>2, <3>6
    <2>3. ASSUME NEW S \in SUBSET Order, NEW q \in Quantity, PortalSubmit(S, q)
          PROVE  \E o \in Order : ~Exists(o) /\ Exists(o)' /\ parent'[o] = NoOrder
      <3>1. PICK o \in S : ~Exists(o)
        BY <2>3 DEF PortalSubmit
      <3>2. Exists(o)' /\ parent'[o] = NoOrder
        BY <1>2, <2>3, <3>1 DEF PortalSubmit, Exists, UnopenedInvariant
      <3>3. QED BY <3>1, <3>2
    <2>4. ASSUME NEW o \in Order, NEW q \in Quantity, Create(o, q)
          PROVE  ~Exists(o) /\ Exists(o)' /\ parent'[o] = NoOrder
      BY <1>2, <2>4 DEF Create, Insert, Exists, TypeOK, UnopenedInvariant
    <2>5. QED BY <1>2, <2>1, <2>2, <2>3, <2>4, QuantitySteps
  <1>3. QED
    <2>1. TypeOK /\ LedgerInvariant /\ UnopenedInvariant /\ [Next]_vars => UnopenedInvariant'
      BY UnopenedStep
    <2>2. TypeOK /\ UnopenedInvariant /\ [Next]_vars
            => [SumFunctionOnSet(qty', Order) # SumFunctionOnSet(qty, Order)
                  => \E o \in Order : ~Exists(o) /\ Exists(o)' /\ parent'[o] = NoOrder]_vars
      BY <1>2
    <2>3. QED
      BY <1>1, <2>1, <2>2, TypeCorrect, LedgerCorrect, PTL DEF Spec, SplitConservesQuantity
-----------------------------------------------------------------------------
(* Transfers: one posting for each that is received *)

\* The lines of a decision that are looked at are finitely many, one for each item.
LEMMA LookedAt ==
  ASSUME NEW lines \in Seq([item : Item, qty : Nat])
  PROVE  /\ IsFiniteSet(FirstLines(lines))
         /\ \A l, k \in FirstLines(lines) : l.item = k.item => l = k
  <1> DEFINE S == {k \in DOMAIN lines : \A l \in 1..(k - 1) : lines[l].item # lines[k].item}
             f == [k \in S |-> lines[k]]
  <1>1. IsFiniteSet(S) /\ S \subseteq Nat \ {0}
    <2>1. IsFiniteSet(DOMAIN lines)
      BY FS_Interval
    <2>2. QED BY <2>1, FS_Subset
  <1>2. FirstLines(lines) = {lines[k] : k \in S}
    BY DEF FirstLines
  <1>3. \A k, l \in S : lines[k].item = lines[l].item => k = l
    <2>1. ASSUME NEW k \in S, NEW l \in S, lines[k].item = lines[l].item, k < l
          PROVE  FALSE
      <3>1. k \in 1..(l - 1)
        BY <2>1
      <3>2. lines[k].item # lines[l].item
        BY <3>1
      <3>3. QED BY <2>1, <3>2
    <2>2. \A k, l \in S : k \in Int /\ l \in Int
      OBVIOUS
    <2> HIDE DEF S
    <2>3. \A k, l \in Int : k = l \/ k < l \/ l < k
      OBVIOUS
    <2>4. QED BY <2>1, <2>2, <2>3
  <1>4. f \in Surjection(S, FirstLines(lines))
    <2> HIDE DEF S
    <2>1. QED BY <1>2 DEF Surjection
  <1>5. IsFiniteSet(FirstLines(lines))
    <2> HIDE DEF f, S
    <2>1. QED BY <1>1, <1>4, FS_Surjection
  <1> HIDE DEF S
  <1>6. QED BY <1>2, <1>3, <1>5

\* So are those that a full decision stands for.
LEMMA RequestedOnce ==
  ASSUME TypeOK, NEW o \in Order
  PROVE  /\ IsFiniteSet(RequestedLines(o))
         /\ \A l, k \in RequestedLines(o) : l.item = k.item => l = k
  <1> DEFINE line(m) == [item |-> m, qty |-> requested[o][m]]
             f == [m \in Linked(o) |-> line(m)]
  <1>1. IsFiniteSet(Linked(o))
    <2>1. \A m \in Linked(o) : m \in Material
      BY RequestType
    <2>2. QED BY <2>1, ProductionAssumption, FS_Subset
  <1>2. RequestedLines(o) = {line(m) : m \in Linked(o)}
    BY DEF RequestedLines
  <1>3. \A m : line(m).item = m
    OBVIOUS
  <1> HIDE DEF line
  <1>4. f \in Surjection(Linked(o), RequestedLines(o))
    BY <1>2 DEF Surjection
  <1>5. IsFiniteSet(RequestedLines(o))
    <2> HIDE DEF f
    <2>1. QED BY <1>1, <1>4, FS_Surjection
  <1>6. QED BY <1>2, <1>3, <1>5

\* The keeper's transfers for a decision are finitely many, one for each material.
LEMMA PreparedFacts ==
  ASSUME TypeOK, NEW o \in Order, NEW d, d.lines \in Seq([item : Item, qty : Nat])
  PROVE  /\ IsFiniteSet(Prepared(o, d))
         /\ \A t, u \in Prepared(o, d) : t.key = u.key => t = u
         /\ \A t \in Prepared(o, d) : t.state = "pending"
  <1> DEFINE all == IF d.action = "materials_approved" THEN RequestedLines(o) ELSE FirstLines(d.lines)
             S == {l \in all : l.item \in Linked(o) /\ l.qty > 0}
             new(l) == [key |-> <<o, l.item>>, order |-> o, item |-> l.item,
                        direction |-> "warehouse_to_operations", qty |-> l.qty,
                        state |-> "pending"]
             f == [l \in S |-> new(l)]
  <1>1. Prepared(o, d) = {new(l) : l \in S}
    BY DEF Prepared
  <1>2. \A l : new(l).key = <<o, l.item>> /\ new(l).state = "pending"
    OBVIOUS
  <1>3. IsFiniteSet(S) /\ \A l, k \in S : l.item = k.item => l = k
    <2>1. IsFiniteSet(all) /\ \A l, k \in all : l.item = k.item => l = k
      BY LookedAt, RequestedOnce
    <2> HIDE DEF all
    <2>2. QED BY <2>1, FS_Subset
  <1> HIDE DEF S, new
  <1>4. f \in Surjection(S, Prepared(o, d))
    BY <1>1 DEF Surjection
  <1>5. IsFiniteSet(Prepared(o, d))
    <2> HIDE DEF f
    <2>1. QED BY <1>3, <1>4, FS_Surjection
  <1>6. ASSUME NEW t \in Prepared(o, d), NEW u \in Prepared(o, d), t.key = u.key
        PROVE  t = u
    <2>1. PICK l \in S : t = new(l)
      BY <1>1
    <2>2. PICK k \in S : u = new(k)
      BY <1>1
    <2>3. <<o, l.item>> = <<o, k.item>>
      BY <1>2, <1>6, <2>1, <2>2
    <2>4. QED BY <1>3, <2>1, <2>2, <2>3
  <1>7. \A t \in Prepared(o, d) : t.state = "pending"
    BY <1>1, <1>2
  <1>8. QED BY <1>5, <1>6, <1>7

\* What a step does to the set of transfers: nothing; it adds pending ones, with
\* keys of their own; or it receives one of them.
LEMMA TransfersByStep ==
  ASSUME TypeOK, TransferInvariant, [Next]_vars
  PROVE  \/ UNCHANGED transfers
         \/ \E new : /\ transfers' = transfers \union new /\ IsFiniteSet(new)
                     /\ \A t \in new : t.state = "pending"
                     /\ \A t, u \in new : t.key = u.key => t = u
                     /\ \A t \in transfers, u \in new : t.key # u.key
         \/ \E t \in transfers : ReceiveTransfer(t)
  <1>1. ASSUME NEW d \in deciding, DecisionCommit(d), transfers' # transfers
        PROVE  \E new : /\ transfers' = transfers \union new /\ IsFiniteSet(new)
                        /\ \A t \in new : t.state = "pending"
                        /\ \A t, u \in new : t.key = u.key => t = u
                        /\ \A t \in transfers, u \in new : t.key # u.key
    <2>1. d.order \in Order /\ d.lines \in Seq([item : Item, qty : Nat])
      BY DEF TypeOK, DecisionSet
    <2>2. KeeperCommit(d.order, d)
      BY <1>1 DEF DecisionCommit, ExecutiveCommit, stockVars
    <2>3. /\ transfers' = transfers \union Prepared(d.order, d)
          /\ \A t \in transfers, u \in Prepared(d.order, d) : t.key # u.key
      BY <2>2 DEF KeeperCommit
    <2>4. QED BY <2>1, <2>3, PreparedFacts
  <1>2. ASSUME NEW k \in ClientKey, NEW o \in Order, NEW m \in Material, NEW dir \in Direction,
               NEW q \in Quantity, CreateTransfer(k, o, m, dir, q)
        PROVE  \E new : /\ transfers' = transfers \union new /\ IsFiniteSet(new)
                        /\ \A t \in new : t.state = "pending"
                        /\ \A t, u \in new : t.key = u.key => t = u
                        /\ \A t \in transfers, u \in new : t.key # u.key
    <2>1. PICK t : /\ t.key = k /\ t.state = "pending"
                   /\ transfers' = transfers \union {t}
      BY <1>2 DEF CreateTransfer
    <2>2. \A u \in transfers : u.key # k
      BY <1>2 DEF CreateTransfer
    <2>3. IsFiniteSet({t})
      BY FS_Singleton
    <2>4. QED BY <2>1, <2>2, <2>3
  <1>3. \/ UNCHANGED transfers
        \/ \E d \in deciding : DecisionCommit(d)
        \/ \E k \in ClientKey, o \in Order, m \in Material, dir \in Direction, q \in Quantity :
             CreateTransfer(k, o, m, dir, q)
        \/ \E t \in transfers : ReceiveTransfer(t)
    BY GoodsStep
       DEF Untouched, PortalSubmit, Create, Split, ReceiveRead, ConfirmDelivery, StaffCancel,
           ReceiveCommit, DecisionRead, stockVars
  <1>4. QED BY <1>1, <1>2, <1>3

\* The transfer that a receipt leaves behind is new, and differs in its state.
LEMMA ReceivedTransfer ==
  ASSUME TypeOK, TransferInvariant, NEW t \in transfers, ReceiveTransfer(t)
  PROVE  \E u : /\ transfers' = (transfers \ {t}) \union {u}
                /\ u \notin transfers
                /\ u.key = t.key /\ u.order = t.order /\ u.item = t.item
                /\ u.direction = t.direction /\ u.qty = t.qty
                /\ u.state = IF status[t.order] = "cancelled" THEN "late" ELSE "received"
                /\ t.state = "pending" /\ UNCHANGED <<status, adjustments>>
  <1>1. t \in TransferSet
    BY DEF TypeOK
  <1> DEFINE to == IF status[t.order] = "cancelled" THEN "late" ELSE "received"
             u == [t EXCEPT !.state = to]
  <1>2. /\ u.key = t.key /\ u.order = t.order /\ u.item = t.item
        /\ u.direction = t.direction /\ u.qty = t.qty /\ u.state = to
    BY <1>1 DEF TransferSet
  <1>3. /\ transfers' = (transfers \ {t}) \union {u} /\ t.state = "pending"
        /\ UNCHANGED <<status, adjustments>>
    BY DEF ReceiveTransfer, orderVars
  <1>4. to # "pending"
    OBVIOUS
  <1>5. u \notin transfers
    <2> HIDE DEF u, to
    <2>1. QED BY <1>2, <1>3, <1>4 DEF TransferInvariant
  <1>6. QED
    <2>1. u.state = IF status[t.order] = "cancelled" THEN "late" ELSE "received"
      BY <1>2
    <2> HIDE DEF u, to
    <2>2. QED BY <1>2, <1>3, <1>5, <2>1

\* A key is of one transfer, and a transfer is late only for a cancelled order.
LEMMA TransferKeysStep ==
  ASSUME TypeOK, LedgerInvariant, TransferInvariant, [Next]_vars
  PROVE  /\ IsFiniteSet(transfers')
         /\ \A t, u \in transfers' : t.key = u.key => t = u
         /\ \A t \in transfers' : t.state = "late" => status'[t.order] = "cancelled"
  <1>1. /\ IsFiniteSet(transfers)
        /\ \A t, u \in transfers : t.key = u.key => t = u
        /\ \A t \in transfers : t.state = "late" => status[t.order] = "cancelled"
        /\ \A t \in transfers : t.order \in Order
    BY DEF TransferInvariant, TypeOK, TransferSet
  <1>2. \A t \in transfers : t.state = "late" => status'[t.order] = "cancelled"
    BY <1>1, StatusStep
  <1>3. CASE UNCHANGED transfers
    BY <1>1, <1>2, <1>3
  <1>4. ASSUME NEW new, transfers' = transfers \union new, IsFiniteSet(new),
               \A t \in new : t.state = "pending",
               \A t, u \in new : t.key = u.key => t = u,
               \A t \in transfers, u \in new : t.key # u.key
        PROVE  /\ IsFiniteSet(transfers')
               /\ \A t, u \in transfers' : t.key = u.key => t = u
               /\ \A t \in transfers' : t.state = "late" => status'[t.order] = "cancelled"
    <2>1. IsFiniteSet(transfers')
      BY <1>1, <1>4, FS_Union
    <2>2. \A t, u \in transfers' : t.key = u.key => t = u
      BY <1>1, <1>4
    <2>3. \A t \in transfers' : t.state = "late" => status'[t.order] = "cancelled"
      BY <1>2, <1>4
    <2>4. QED BY <2>1, <2>2, <2>3
  <1>5. ASSUME NEW t \in transfers, ReceiveTransfer(t)
        PROVE  /\ IsFiniteSet(transfers')
               /\ \A s, u \in transfers' : s.key = u.key => s = u
               /\ \A s \in transfers' : s.state = "late" => status'[s.order] = "cancelled"
    <2>1. PICK u : /\ transfers' = (transfers \ {t}) \union {u}
                   /\ u.key = t.key /\ u.order = t.order
                   /\ u.state = IF status[t.order] = "cancelled" THEN "late" ELSE "received"
                   /\ UNCHANGED status
      BY <1>5, ReceivedTransfer
    <2>2. IsFiniteSet(transfers')
      BY <1>1, <2>1, FS_RemoveElement, FS_AddElement
    <2>3. \A s, v \in transfers' : s.key = v.key => s = v
      BY <1>1, <2>1
    <2>4. \A s \in transfers' : s.state = "late" => status'[s.order] = "cancelled"
      BY <1>1, <2>1
    <2>5. QED BY <2>2, <2>3, <2>4
  <1>6. QED BY <1>3, <1>4, <1>5, TransfersByStep

\* The quantity of a set of transfers that a step leaves alone stays the same,
\* whatever it does to others; one more transfer adds its quantity.
LEMMA SameTransfers ==
  ASSUME TypeOK, TypeOK', IsFiniteSet(transfers), NEW o, NEW i, NEW dir, NEW states,
         TransfersOf(o, i, dir, states)' = TransfersOf(o, i, dir, states)
  PROVE  TransferQty(o, i, dir, states)' = TransferQty(o, i, dir, states)
  <1> DEFINE S == TransfersOf(o, i, dir, states)
             g == [t \in transfers |-> t.qty]
             h == [t \in transfers' |-> t.qty]
  <1>1. S \subseteq transfers /\ S \subseteq transfers'
    BY DEF TransfersOf
  <1>2. IsFiniteSet(S)
    BY <1>1, FS_Subset
  <1>3. \A t \in S : g[t] \in Int /\ h[t] = g[t]
    BY <1>1 DEF TypeOK, TransferSet
  <1>4. TransferQty(o, i, dir, states) = SumFunctionOnSet(g, S)
    BY DEF TransferQty
  <1>5. TransferQty(o, i, dir, states)' = SumFunctionOnSet(h, S)
    BY DEF TransferQty
  <1> HIDE DEF S, g, h
  <1>6. QED BY <1>2, <1>3, <1>4, <1>5, SumSame

\* A transfer that joins those counted adds its quantity.
LEMMA OneTransferMore ==
  ASSUME TypeOK, TypeOK', IsFiniteSet(transfers), NEW o, NEW i, NEW dir, NEW states,
         NEW u, u \notin TransfersOf(o, i, dir, states),
         TransfersOf(o, i, dir, states)' = TransfersOf(o, i, dir, states) \union {u}
  PROVE  TransferQty(o, i, dir, states)' = u.qty + TransferQty(o, i, dir, states)
  <1> DEFINE S == TransfersOf(o, i, dir, states)
             g == [t \in transfers |-> t.qty]
             h == [t \in transfers' |-> t.qty]
  <1>1. S \subseteq transfers /\ S \union {u} \subseteq transfers'
    BY DEF TransfersOf
  <1>2. IsFiniteSet(S)
    BY <1>1, FS_Subset
  <1>3. /\ \A t \in S : g[t] \in Int /\ h[t] = g[t]
        /\ \A t \in S \union {u} : h[t] \in Int
        /\ h[u] = u.qty /\ u \notin S
    BY <1>1 DEF TypeOK, TransferSet
  <1>4. TransferQty(o, i, dir, states) = SumFunctionOnSet(g, S)
    BY DEF TransferQty
  <1>5. TransferQty(o, i, dir, states)' = SumFunctionOnSet(h, S \union {u})
    BY DEF TransferQty
  <1> HIDE DEF S, g, h
  <1>6. SumFunctionOnSet(h, S) = SumFunctionOnSet(g, S)
    BY <1>2, <1>3, SumSame
  <1>7. SumFunctionOnSet(h, S \union {u}) = h[u] + SumFunctionOnSet(h, S)
    BY <1>2, <1>3, SumAdd
  <1>8. QED BY <1>3, <1>4, <1>5, <1>6, <1>7
\* The transfers received so far change by one receipt at a time.
LEMMA ReceivedByStep ==
  ASSUME TypeOK, TransferInvariant, [Next]_vars, NEW o, NEW i, NEW dir,
         NEW states \in SUBSET {"received", "late"}
  PROVE  \/ TransfersOf(o, i, dir, states)' = TransfersOf(o, i, dir, states)
         \/ \E t \in transfers : \E u :
              /\ ReceiveTransfer(t) /\ t.order = o /\ t.item = i /\ t.direction = dir
              /\ u \notin TransfersOf(o, i, dir, states) /\ u.qty = t.qty
              /\ (IF status[o] = "cancelled" THEN "late" ELSE "received") \in states
              /\ TransfersOf(o, i, dir, states)' = TransfersOf(o, i, dir, states) \union {u}
  <1>1. "pending" \notin states
    OBVIOUS
  <1>2. CASE UNCHANGED transfers
    BY <1>2 DEF TransfersOf
  <1>3. ASSUME NEW new, transfers' = transfers \union new, \A t \in new : t.state = "pending"
        PROVE  TransfersOf(o, i, dir, states)' = TransfersOf(o, i, dir, states)
    BY <1>1, <1>3 DEF TransfersOf
  <1>4. ASSUME NEW t \in transfers, ReceiveTransfer(t)
        PROVE  \/ TransfersOf(o, i, dir, states)' = TransfersOf(o, i, dir, states)
               \/ \E u :
                    /\ t.order = o /\ t.item = i /\ t.direction = dir
                    /\ u \notin TransfersOf(o, i, dir, states) /\ u.qty = t.qty
                    /\ (IF status[o] = "cancelled" THEN "late" ELSE "received") \in states
                    /\ TransfersOf(o, i, dir, states)' = TransfersOf(o, i, dir, states) \union {u}
    <2>1. PICK u : /\ transfers' = (transfers \ {t}) \union {u} /\ u \notin transfers
                   /\ u.order = t.order /\ u.item = t.item
                   /\ u.direction = t.direction /\ u.qty = t.qty
                   /\ u.state = IF status[t.order] = "cancelled" THEN "late" ELSE "received"
                   /\ t.state = "pending"
      BY <1>4, ReceivedTransfer
    <2>2. CASE u.order = o /\ u.item = i /\ u.direction = dir /\ u.state \in states
      <3>1. TransfersOf(o, i, dir, states)' = TransfersOf(o, i, dir, states) \union {u}
        BY <1>1, <2>1, <2>2 DEF TransfersOf
      <3>2. u \notin TransfersOf(o, i, dir, states)
        BY <2>1 DEF TransfersOf
      <3>3. (IF status[o] = "cancelled" THEN "late" ELSE "received") \in states
        BY <2>1, <2>2
      <3>4. QED BY <2>1, <2>2, <3>1, <3>2, <3>3
    <2>3. CASE ~(u.order = o /\ u.item = i /\ u.direction = dir /\ u.state \in states)
      BY <1>1, <2>1, <2>3 DEF TransfersOf
    <2>4. QED BY <2>2, <2>3
  <1>5. QED BY <1>2, <1>3, <1>4, TransfersByStep

\* A receipt posts the quantity of its transfer, in its direction, and no other
\* step posts anything there.
LEMMA PostedByReceipt ==
  ASSUME TypeOK, NEW t \in transfers, ReceiveTransfer(t), NEW o \in Order, NEW m \in Item,
         NEW dir \in {"warehouse_to_operations", "operations_to_warehouse"}
  PROVE  Moved(o, m, Effect[dir])' =
           IF t.order = o /\ t.item = m /\ t.direction = dir
             THEN Moved(o, m, Effect[dir]) + t.qty ELSE Moved(o, m, Effect[dir])
  <1>1. t \in TransferSet
    BY DEF TypeOK
  <1>2. /\ Effect["warehouse_to_operations"] = "transfer_out"
        /\ Effect["operations_to_warehouse"] = "transfer_in"
        /\ DOMAIN Effect = {"warehouse_to_operations", "operations_to_warehouse"}
    BY DEF Effect
  <1>3. <<o, m, Effect[dir]>> \in DOMAIN moved
    BY <1>2 DEF TypeOK, Item, Cause
  <1>4. CASE t.direction \notin DOMAIN Effect
    BY <1>2, <1>4 DEF ReceiveTransfer, Moved
  <1>5. CASE t.direction \in DOMAIN Effect
    <2>1. moved' = [moved EXCEPT ![<<t.order, t.item, Effect[t.direction]>>] = @ + t.qty]
      BY <1>5 DEF ReceiveTransfer
    <2>2. Effect[t.direction] = Effect[dir] <=> t.direction = dir
      BY <1>2, <1>5
    <2>3. QED BY <1>3, <2>1, <2>2 DEF Moved
  <1>6. QED BY <1>4, <1>5

\* A step that posts for a transfer is the one that marks it received.
LEMMA PostedOnceStep ==
  ASSUME TypeOK, TransferInvariant, [Next]_vars, NEW o \in Order, NEW m \in Item,
         NEW dir \in {"warehouse_to_operations", "operations_to_warehouse"},
         Moved(o, m, Effect[dir]) = TransferQty(o, m, dir, {"received", "late"})
  PROVE  Moved(o, m, Effect[dir])' = TransferQty(o, m, dir, {"received", "late"})'
  <1> DEFINE states == {"received", "late"}
  <1>1. TypeOK' /\ IsFiniteSet(transfers) /\ states \in SUBSET {"received", "late"}
    BY TypeStep DEF TransferInvariant
  <1>2. CASE TransfersOf(o, m, dir, states)' = TransfersOf(o, m, dir, states)
    <2>1. TransferQty(o, m, dir, states)' = TransferQty(o, m, dir, states)
      BY <1>1, <1>2, SameTransfers
    <2>2. ASSUME NEW t \in transfers, ReceiveTransfer(t)
          PROVE  ~(t.order = o /\ t.item = m /\ t.direction = dir)
      <3>1. PICK u : /\ transfers' = (transfers \ {t}) \union {u} /\ u \notin transfers
                     /\ u.order = t.order /\ u.item = t.item /\ u.direction = t.direction
                     /\ u.state \in states
        BY <2>2, ReceivedTransfer
      <3>2. QED BY <1>2, <3>1 DEF TransfersOf
    <2>3. Moved(o, m, Effect[dir])' = Moved(o, m, Effect[dir])
      <3>1. ASSUME NEW t \in transfers, ReceiveTransfer(t)
            PROVE  Moved(o, m, Effect[dir])' = Moved(o, m, Effect[dir])
        BY <2>2, <3>1, PostedByReceipt
      <3>2. Effect[dir] \in {"transfer_out", "transfer_in"} /\ m \in Item
        BY DEF Effect, Item
      <3>3. QED BY <3>1, <3>2, MovedByStep
    <2>4. QED BY <2>1, <2>3
  <1>3. ASSUME NEW t \in transfers, NEW u, ReceiveTransfer(t),
               t.order = o, t.item = m, t.direction = dir,
               u \notin TransfersOf(o, m, dir, states), u.qty = t.qty,
               TransfersOf(o, m, dir, states)' = TransfersOf(o, m, dir, states) \union {u}
        PROVE  Moved(o, m, Effect[dir])' = TransferQty(o, m, dir, states)'
    <2>1. TransferQty(o, m, dir, states)' = u.qty + TransferQty(o, m, dir, states)
      BY <1>1, <1>3, OneTransferMore
    <2>2. Moved(o, m, Effect[dir])' = Moved(o, m, Effect[dir]) + t.qty
      BY <1>3, PostedByReceipt
    <2>3. Moved(o, m, Effect[dir]) \in Nat /\ t.qty \in Nat
      BY DEF TypeOK, TransferSet, Moved, Effect, Item, Cause
    <2>4. QED BY <1>3, <2>1, <2>2, <2>3
  <1>4. QED BY <1>1, <1>2, <1>3, ReceivedByStep

\* Transfers have keys of their own, and what they have posted for an order and an item
\* is the sum of those that were received (PATCH /operations-control/transfers/:id/receive).
THEOREM TransfersCorrect == Spec => []TransferInvariant
  <1>1. ASSUME Init PROVE TransferInvariant
    <2>1. IsFiniteSet(transfers) /\ transfers = {}
      BY <1>1, FS_EmptySet DEF Init
    <2>2. ASSUME NEW o \in Order, NEW m \in Item, NEW dir, NEW states,
                 NEW c \in {"transfer_out", "transfer_in"}
          PROVE  Moved(o, m, c) = TransferQty(o, m, dir, states)
      <3>1. TransfersOf(o, m, dir, states) = {}
        BY <2>1 DEF TransfersOf
      <3>2. TransferQty(o, m, dir, states) = 0
        BY <3>1, SumEmpty DEF TransferQty
      <3>3. Moved(o, m, c) = 0
        BY <1>1 DEF Init, Moved, Item, Cause
      <3>4. QED BY <3>2, <3>3
    <2>3. QED BY <2>1, <2>2 DEF TransferInvariant, TransfersPostedOnce
  <1>2. TypeOK /\ LedgerInvariant /\ TransferInvariant /\ [Next]_vars => TransferInvariant'
    <2> SUFFICES ASSUME TypeOK, LedgerInvariant, TransferInvariant, [Next]_vars
                 PROVE  TransferInvariant'
      OBVIOUS
    <2>1. Effect["warehouse_to_operations"] = "transfer_out"
          /\ Effect["operations_to_warehouse"] = "transfer_in"
      BY DEF Effect
    <2>2. ASSUME NEW o \in Order, NEW m \in Item
          PROVE  /\ Moved(o, m, "transfer_out")' =
                      TransferQty(o, m, "warehouse_to_operations", {"received", "late"})'
                 /\ Moved(o, m, "transfer_in")' =
                      TransferQty(o, m, "operations_to_warehouse", {"received", "late"})'
      <3>1. /\ Moved(o, m, "transfer_out") =
                 TransferQty(o, m, "warehouse_to_operations", {"received", "late"})
            /\ Moved(o, m, "transfer_in") =
                 TransferQty(o, m, "operations_to_warehouse", {"received", "late"})
        BY DEF TransferInvariant, TransfersPostedOnce
      <3>2. QED BY <2>1, <3>1, PostedOnceStep
    <2>3. QED BY <2>2, TransferKeysStep DEF TransferInvariant, TransfersPostedOnce
  <1>3. QED BY <1>1, <1>2, TypeCorrect, LedgerCorrect, PTL DEF Spec

\* Every received transfer is posted to stock once, in full.
THEOREM TransfersPosted == Spec => []TransfersPostedOnce
  <1>1. TransferInvariant => TransfersPostedOnce
    BY DEF TransferInvariant
  <1>2. QED BY <1>1, TransfersCorrect, PTL
-----------------------------------------------------------------------------
(* Cancellation: everything deducted before it is posted back, once *)

\* Only the staff's cancellation writes the adjustment of a cancellation.
LEMMA CancelledByStaff ==
  ASSUME TypeOK, [Next]_vars, NEW x \in Order,
         "cancellation" \notin adjustments[x], "cancellation" \in adjustments'[x]
  PROVE  StaffCancel(x)
  <1> DEFINE Same == adjustments' = adjustments
  <1>1. CASE UNCHANGED vars
    BY <1>1 DEF vars, orderVars
  <1>2. CASE PortalNext
    BY <1>2
       DEF PortalNext, PortalSubmit, PortalConfirm, PortalReject, PortalCancelEarly,
           PortalCancelCompany, SilentCancel
  <1>3. CASE MaterialsNext
    <2>1. ASSUME NEW d \in deciding, DecisionCommit(d) PROVE Same
      BY <2>1 DEF DecisionCommit, orderVars
    <2>2. ASSUME NEW r \in receiving, ReceiveCommit(r) PROVE Same
      BY <2>2 DEF ReceiveCommit, orderVars
    <2>3. ASSUME NEW o \in Order, ReceiveRead(o) \/ MaterialsReject(o) PROVE Same
      BY <2>3 DEF ReceiveRead, MaterialsReject, orderVars
    <2>4. ASSUME NEW o, NEW by, NEW action, NEW lines, DecisionRead(o, by, action, lines)
          PROVE  Same
      BY <2>4 DEF DecisionRead, orderVars
    <2>5. ASSUME NEW k, NEW o, NEW m, NEW dir, NEW q, CreateTransfer(k, o, m, dir, q) PROVE Same
      BY <2>5 DEF CreateTransfer, orderVars
    <2>6. ASSUME NEW t, ReceiveTransfer(t) PROVE Same
      BY <2>6 DEF ReceiveTransfer, orderVars
    <2>7. QED BY <1>3, <2>1, <2>2, <2>3, <2>4, <2>5, <2>6 DEF MaterialsNext
  <1>4. CASE LifecycleNext
    <2>1. ASSUME NEW o \in Order, NEW q \in Quantity, Create(o, q) PROVE Same
      BY <2>1 DEF Create
    <2>2. ASSUME NEW o \in Order, NEW q \in Quantity, PartialCompletion(o, q) PROVE FALSE
      BY <2>2 DEF PartialCompletion, TypeOK
    <2>3. ASSUME NEW o \in Order, NEW c \in Order, NEW q \in Quantity, Split(o, c, q)
          PROVE  FALSE
      BY <2>3 DEF Split, TypeOK
    <2>4. ASSUME NEW o \in Order, Claim(o) \/ Dispatch(o) \/ AdvanceStage(o) \/ ConfirmDelivery(o)
          PROVE  Same
      BY <2>4 DEF Claim, Dispatch, AdvanceStage, ConfirmDelivery
    <2>5. ASSUME NEW o \in Order, StaffCancel(o) PROVE StaffCancel(x)
      <3>1. o = x
        BY <2>5 DEF StaffCancel, TypeOK
      <3>2. QED BY <2>5, <3>1
    <2>6. ASSUME NEW o \in Order, NEW result, QualityDone(o, result) PROVE Same
      BY <2>6 DEF QualityDone
    <2>7. ASSUME NEW o \in Order, NEW add, NEW to, Deliver(o, to, add) PROVE Same
      BY <2>7 DEF Deliver
    <2>8. ASSUME NEW o \in Order, NEW to \in Status, Transition(o, to) PROVE FALSE
      <3> DEFINE added == {AdjustmentOf[a] : a \in {to} \intersect DOMAIN AdjustmentOf}
      <3>1. "cancellation" \notin added
        BY DEF AdjustmentOf
      <3>2. adjustments' = [adjustments EXCEPT ![o] = @ \union added]
        BY <2>8 DEF Transition
      <3> HIDE DEF added
      <3>3. QED BY <3>1, <3>2 DEF TypeOK
    <2>9. QED
      BY <1>4, <2>1, <2>2, <2>3, <2>4, <2>5, <2>6, <2>7, <2>8 DEF LifecycleNext
  <1>5. QED BY <1>1, <1>2, <1>3, <1>4 DEF Next

\* The reversal is written by the step that records the cancellation, and what it is the
\* sum of stays as it was: a decision refuses, a transfer received afterwards is late.
LEMMA ReversalStep ==
  ASSUME TypeOK, LedgerInvariant, TransferInvariant, ReversalInvariant, [Next]_vars,
         NEW x \in Order, NEW m \in Item
  PROVE  /\ "cancellation" \notin adjustments'[x] => Moved(x, m, "cancel")' = 0
         /\ "cancellation" \in adjustments'[x] =>
              Moved(x, m, "cancel")' = Moved(x, m, "direct")'
                + TransferQty(x, m, "warehouse_to_operations", {"received"})'
  <1> DEFINE Received == TransfersOf(x, m, "warehouse_to_operations", {"received"})
             R == TransferQty(x, m, "warehouse_to_operations", {"received"})
  <1>1. m \in Item /\ TypeOK' /\ IsFiniteSet(transfers)
    BY TypeStep DEF Item, TransferInvariant
  <1>2. CASE "cancellation" \in adjustments[x]
    <2>1. status[x] = "cancelled" /\ Moved(x, m, "cancel") = Moved(x, m, "direct") + R
      BY <1>2 DEF LedgerInvariant, LedgerOf, ReversalInvariant, CancelReversesDeductions
    <2>2. ~StaffCancel(x)
      BY <2>1, CancelledIsFinal DEF StaffCancel, Status
    <2>3. Moved(x, m, "cancel")' = Moved(x, m, "cancel")
      BY <1>1, <2>2, MovedByStep
    <2>4. Moved(x, m, "direct")' = Moved(x, m, "direct")
      <3>1. ASSUME NEW d \in deciding, DecisionCommit(d)
            PROVE  Moved(x, m, "direct")' = Moved(x, m, "direct")
        BY <2>1, <3>1, IssueByDecision
      <3>2. QED BY <1>1, <3>1, MovedByStep
    <2>5. Received' = Received
      <3>1. (IF status[x] = "cancelled" THEN "late" ELSE "received") \notin {"received"}
        BY <2>1
      <3>2. {"received"} \in SUBSET {"received", "late"}
        OBVIOUS
      <3>3. QED BY <3>1, <3>2, ReceivedByStep
    <2>6. R' = R
      BY <1>1, <2>5, SameTransfers
    <2>7. "cancellation" \in adjustments'[x]
      <3>1. Shaped(x)
        BY StepShape
      <3>2. QED BY <1>2, <3>1 DEF Shaped, Still, Opened, Recorded, Withdrawn, Adjusted
    <2>8. QED BY <2>1, <2>3, <2>4, <2>6, <2>7
  <1>3. CASE "cancellation" \notin adjustments[x] /\ StaffCancel(x)
    <2>1. /\ status[x] # "cancelled" /\ UNCHANGED transfers
          /\ "cancellation" \in adjustments'[x]
      BY <1>3, CancelledIsFinal DEF StaffCancel, TypeOK, Status
    <2>2. /\ Moved(x, m, "cancel")' = Moved(x, m, "cancel") + Deducted(x, m)
          /\ Moved(x, m, "direct")' = Moved(x, m, "direct")
      <3>1. <<x, m, "cancel">> \in DOMAIN moved /\ <<x, m, "direct">> \in DOMAIN moved
        BY <1>1 DEF TypeOK, Cause
      <3>2. QED BY <1>3, <3>1 DEF StaffCancel, Moved
    <2>3. Moved(x, m, "cancel") = 0
      BY <1>3 DEF ReversalInvariant
    <2>4. TransfersOf(x, m, "warehouse_to_operations", {"received", "late"}) = Received
      BY <2>1 DEF TransferInvariant, TransfersOf
    <2>5. Moved(x, m, "transfer_out") = R
      BY <2>4 DEF TransferInvariant, TransfersPostedOnce, TransferQty
    <2>6. R' = R
      BY <2>1 DEF TransferQty, TransfersOf
    <2>7. Moved(x, m, "direct") \in Nat /\ Moved(x, m, "transfer_out") \in Nat
      BY <1>1 DEF TypeOK, Moved, Cause
    <2>8. QED BY <2>1, <2>2, <2>3, <2>5, <2>6, <2>7 DEF Deducted
  <1>4. CASE "cancellation" \notin adjustments[x] /\ ~StaffCancel(x)
    <2>1. "cancellation" \notin adjustments'[x]
      BY <1>4, CancelledByStaff
    <2>2. Moved(x, m, "cancel")' = Moved(x, m, "cancel")
      BY <1>1, <1>4, MovedByStep
    <2>3. QED BY <1>4, <2>1, <2>2 DEF ReversalInvariant
  <1>5. QED BY <1>2, <1>3, <1>4

\* A cancellation posts back what was deducted for the order until then, once; what
\* a transfer takes out afterwards is late, and stays out (the cancel route, which reads the movements).
THEOREM CancelReverses == Spec => []CancelReversesDeductions
  <1>1. Init => ReversalInvariant
    <2>1. \A o \in Order, m \in Item : <<o, m, "cancel">> \in Order \X Item \X Cause
      BY DEF Cause
    <2>2. QED BY <2>1 DEF Init, ReversalInvariant, CancelReversesDeductions, Moved
  <1>2. TypeOK /\ LedgerInvariant /\ TransferInvariant /\ ReversalInvariant /\ [Next]_vars
          => ReversalInvariant'
    BY ReversalStep DEF ReversalInvariant, CancelReversesDeductions
  <1>3. ReversalInvariant => CancelReversesDeductions
    BY DEF ReversalInvariant
  <1>4. QED
    BY <1>1, <1>2, <1>3, TypeCorrect, LedgerCorrect, TransfersCorrect, PTL DEF Spec
=============================================================================
