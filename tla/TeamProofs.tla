------------------------------ MODULE TeamProofs ------------------------------
(***************************************************************************)
(* Proofs about PortalTeam for any number of people, requests, codes and   *)
(* any size of the team.  A step begins a request's decision (Begins), ends *)
(* a request (Finishes) or happens around those in flight (Around); the    *)
(* invariants follow from that alone.                                      *)
(***************************************************************************)
EXTENDS TeamProperties, FiniteSetTheorems, TLAPS

\* The request r reads p and decides to write st.
Takes(ph, st) == ph \in {"joining", "adding"} \/ (ph = "moving" /\ st = "active")
Begins(r, p, ph, st) ==
  /\ ~Acting(r) /\ ph \in {"joining", "adding", "approving", "moving"}
  /\ Read(r, ph, p, st)
  /\ <<member[p], st>> \in Lawful
  /\ ph = "approving" => member[p] = "pending_approval"
  /\ ph = "adding" => member[p] = "none"
  /\ ph = "moving" => member[p] \notin {"none", "removed"}
  /\ ph = "joining" => isActive
  /\ ph # "moving" => ~Locked
  /\ stretched => stretched'
  /\ Takes(ph, st) => /\ member[p] \in {"none", "removed", "suspended"}
                      /\ SeatAvailable \/ stretched'
                      /\ stretched' \/ \A q \in Request \ {r} : ~Taking(q)

\* The request r ends, and may have written what it decided.
Finishes(r) ==
  /\ End(r)
  /\ member' = member \/ (Acting(r) /\ Write(r) /\ (phase[r] = "joining" => uses' # uses))
  /\ archived' = archived /\ overtaken' = overtaken
  /\ isActive' = isActive \/ (isActive' = TRUE /\ phase[r] = "activating")

\* Nothing happens to the members and to who decides about them.
Quiet(r) == phase'[r] = phase[r] \/ (phase[r] = "idle" /\ phase'[r] \in {"lookedUp", "activating"})
Around ==
  /\ UNCHANGED <<member, about, seen, will, raced, stretched>>
  /\ \A r \in Request : Quiet(r)
  /\ isActive' = isActive \/ ~Locked
  /\ \/ /\ archived' = archived /\ overtaken' = overtaken
        /\ isActive' => isActive \/ ~archived
        /\ \A r \in Request : phase'[r] = "activating" => phase[r] = "activating" \/ ~archived
     \/ /\ ~isActive' /\ phase' = phase
        /\ overtaken' = (overtaken \/ \E r \in Request : phase[r] = "activating")
     \/ ~archived' /\ phase' = phase /\ overtaken' = overtaken

-----------------------------------------------------------------------------
(* Types *)

LEMMA TypeInit == Init => TypeOK
  <1> SUFFICES ASSUME Init
               PROVE  TypeOK
    OBVIOUS
  <1>1. member \in [Person -> Status] /\ mode \in {"auto", "approval", "disabled"}
    BY DEF Init, Status
  <1>2. code \in 1..MaxCodes /\ uses \in [1..MaxCodes -> Nat] /\ key \in [Request -> 0..MaxCodes]
    BY TeamAssumption DEF Init
  <1>3. /\ about \in [Request -> Person \cup {NoPerson}]
        /\ seen \in [Request -> Status] /\ will \in [Request -> Status]
    BY DEF Init, Status
  <1>4. QED BY <1>1, <1>2, <1>3 DEF Init, TypeOK

\* Reading, ending and writing keep the types.
LEMMA TypeRead ==
  ASSUME TypeOK, NEW r \in Request, NEW p \in Person,
         NEW ph \in {"joining", "adding", "approving", "moving"}, NEW st \in Status,
         Read(r, ph, p, st), stretched' \in BOOLEAN
  PROVE  TypeOK'
  <1>1. raced' \subseteq Person
    BY DEF TypeOK, Read
  <1>2. member[p] \in Status
    BY DEF TypeOK
  <1>3. /\ phase' \in [Request -> {"idle", "lookedUp", "joining", "adding", "approving", "moving", "activating"}]
        /\ about' \in [Request -> Person \cup {NoPerson}]
        /\ seen' \in [Request -> Status] /\ will' \in [Request -> Status]
    BY <1>2 DEF TypeOK, Read
  <1>4. QED BY <1>1, <1>3 DEF TypeOK, Read, companyVars

LEMMA TypeEnd ==
  ASSUME TypeOK, NEW r \in Request, End(r),
         isActive' \in BOOLEAN, archived' \in BOOLEAN, overtaken' \in BOOLEAN,
         mode' = mode, code' = code, uses' \in [1..MaxCodes -> Nat],
         member' = member \/ (Acting(r) /\ Write(r))
  PROVE  TypeOK'
  <1>1. member' \in [Person -> Status]
    BY DEF TypeOK, Write
  <1>2. /\ phase' \in [Request -> {"idle", "lookedUp", "joining", "adding", "approving", "moving", "activating"}]
        /\ about' \in [Request -> Person \cup {NoPerson}]
        /\ seen' \in [Request -> Status] /\ will' \in [Request -> Status]
        /\ key' \in [Request -> 0..MaxCodes]
    BY TeamAssumption DEF TypeOK, End, Status
  <1>3. QED BY <1>1, <1>2 DEF TypeOK, End

-----------------------------------------------------------------------------
(* The kinds of steps *)

\* Only Holds and Taking look at the phase; Locked says that nobody holds.
LEMMA Unlocked ==
  ASSUME ~Locked, NEW q \in Request, Taking(q)
  PROVE  Reactivating(q)
BY DEF Locked, Holds, Taking

\* Every reading route begins a decision.
LEMMA ReadingBegins ==
  ASSUME TypeOK, NEW r \in Request, NEW p \in Person, Reading(r, p)
  PROVE  TypeOK' /\ \E ph \in {"joining", "adding", "approving", "moving"}, st \in Status : Begins(r, p, ph, st)
  <1> USE DEF Idle
  <1>1. CASE ReadJoin(r, p)
    <2> DEFINE st == IF mode = "auto" THEN "active" ELSE "pending_approval"
    <2>1. st \in Status /\ Read(r, "joining", p, st) /\ stretched' \in BOOLEAN
      BY <1>1 DEF ReadJoin, TakesSeat, TypeOK, Status
    <2>2. TypeOK'
      BY <2>1, TypeRead
    <2>3. stretched' \/ \A q \in Request \ {r} : ~Taking(q)
      BY <1>1, Unlocked DEF ReadJoin, TakesSeat
    <2>4. <<member[p], st>> \in Lawful
      BY <1>1 DEF ReadJoin, Lawful
    <2>5. Begins(r, p, "joining", st)
      BY <1>1, <2>1, <2>3, <2>4 DEF Begins, ReadJoin, TakesSeat, Acting
    <2>6. QED BY <2>1, <2>2, <2>5
  <1>2. CASE ReadAdd(r, p)
    <2>1. Read(r, "adding", p, "active") /\ stretched' \in BOOLEAN
      BY <1>2 DEF ReadAdd, TakesSeat, TypeOK
    <2>2. TypeOK'
      BY <2>1, TypeRead DEF Status
    <2>3. stretched' \/ \A q \in Request \ {r} : ~Taking(q)
      BY <1>2, Unlocked DEF ReadAdd, TakesSeat
    <2>4. <<member[p], "active">> \in Lawful
      BY <1>2 DEF ReadAdd, Lawful
    <2>5. Begins(r, p, "adding", "active")
      BY <1>2, <2>1, <2>3, <2>4 DEF Begins, ReadAdd, TakesSeat, Acting
    <2>6. QED BY <2>2, <2>5 DEF Status
  <1>3. CASE ReadApprove(r, p)
    <2>1. Read(r, "approving", p, "active") /\ stretched' \in BOOLEAN
      BY <1>3 DEF ReadApprove, TypeOK
    <2>2. TypeOK'
      BY <2>1, TypeRead DEF Status
    <2>3. <<member[p], "active">> \in Lawful
      BY <1>3 DEF ReadApprove, Lawful
    <2>4. Begins(r, p, "approving", "active")
      BY <1>3, <2>1, <2>3 DEF Begins, ReadApprove, Takes, Acting
    <2>5. QED BY <2>2, <2>4 DEF Status
  <1>4. ASSUME NEW to \in {"suspended", "removed"}, ReadMove(r, p, to)
        PROVE  TypeOK' /\ Begins(r, p, "moving", to)
    <2>1. Read(r, "moving", p, to) /\ to \in Status /\ stretched' \in BOOLEAN
      BY <1>4 DEF ReadMove, TypeOK, Status
    <2>2. TypeOK'
      BY <2>1, TypeRead
    <2>3. <<member[p], to>> \in Lawful /\ member[p] \notin {"none", "removed"}
      BY <1>4 DEF ReadMove, Lawful, Moves
    <2>4. Begins(r, p, "moving", to)
      BY <1>4, <2>1, <2>3 DEF Begins, ReadMove, Takes, Acting
    <2>5. QED BY <2>2, <2>4
  <1>5. CASE ReadReactivate(r, p) \/ ReadStaffReactivate(r, p)
    <2>1. Read(r, "moving", p, "active") /\ stretched' \in BOOLEAN
      BY <1>5 DEF ReadReactivate, ReadStaffReactivate, TakesSeat, TypeOK
    <2>2. TypeOK'
      BY <2>1, TypeRead DEF Status
    <2>3. stretched' \/ (SeatAvailable /\ \A q \in Request \ {r} : ~Taking(q))
      BY <1>5 DEF ReadReactivate, ReadStaffReactivate, TakesSeat
    <2>4. /\ <<member[p], "active">> \in Lawful /\ member[p] = "suspended" /\ ~Acting(r)
          /\ stretched => stretched'
      BY <1>5 DEF ReadReactivate, ReadStaffReactivate, TakesSeat, Lawful, Acting
    <2>5. Begins(r, p, "moving", "active")
      BY <2>1, <2>3, <2>4 DEF Begins
    <2>6. QED BY <2>2, <2>5 DEF Status
  <1>6. QED BY <1>1, <1>2, <1>3, <1>4, <1>5 DEF Reading, Status

\* Every writing route, a refusal and the activation finish a request.
LEMMA WritingFinishes ==
  ASSUME TypeOK, NEW r \in Request, Writing(r) \/ Refuse(r) \/ Activate(r)
  PROVE  TypeOK' /\ Finishes(r)
  <1>1. CASE Join(r)
    <2>1. code \in 1..MaxCodes /\ uses \in [1..MaxCodes -> Nat]
      BY DEF TypeOK
    <2>2. uses' \in [1..MaxCodes -> Nat] /\ uses' # uses
      BY <1>1, <2>1 DEF Join
    <2>3. TypeOK'
      BY <1>1, <2>2, TypeEnd DEF Join, Acting, TypeOK
    <2>4. QED BY <1>1, <2>2, <2>3 DEF Join, Finishes, Acting
  <1>2. CASE Add(r) \/ Approve(r) \/ Move(r)
    <2>1. TypeOK'
      BY <1>2, TypeEnd DEF Add, Approve, Move, Acting, TypeOK, companyVars
    <2>2. QED BY <1>2, <2>1 DEF Add, Approve, Move, Finishes, Acting, companyVars
  <1>3. CASE Refuse(r)
    <2>1. TypeOK'
      BY <1>3, TypeEnd DEF Refuse, TypeOK, companyVars
    <2>2. QED BY <1>3, <2>1 DEF Refuse, Finishes, companyVars
  <1>4. CASE Activate(r)
    <2>1. TypeOK'
      BY <1>4, TypeEnd DEF Activate, TypeOK
    <2>2. QED BY <1>4, <2>1 DEF Activate, Finishes
  <1>5. QED BY <1>1, <1>2, <1>3, <1>4 DEF Writing

\* The others happen around the requests in flight.
LEMMA OthersAround ==
  ASSUME TypeOK,
         \/ \E r \in Request : LookUp(r) \/ ReadActivate(r)
         \/ \E b \in BOOLEAN : Switch(b)
         \/ Archive \/ Restore \/ Rotate
         \/ \E m \in {"auto", "approval", "disabled"} : SetMode(m)
         \/ UNCHANGED vars
  PROVE  TypeOK' /\ Around
  <1> USE DEF Idle, companyVars, requestVars
  <1>1. ASSUME NEW r \in Request, LookUp(r)
        PROVE  TypeOK' /\ Around
    <2>1. phase' \in [Request -> {"idle", "lookedUp", "joining", "adding", "approving", "moving", "activating"}]
      BY <1>1 DEF LookUp, TypeOK
    <2>2. key' \in [Request -> 0..MaxCodes]
      BY <1>1, TeamAssumption DEF LookUp, TypeOK
    <2>3. TypeOK'
      BY <1>1, <2>1, <2>2 DEF LookUp, TypeOK
    <2>4. \A q \in Request : Quiet(q) /\ (phase'[q] = "activating" => phase[q] = "activating")
      BY <1>1 DEF LookUp, Quiet, TypeOK
    <2>5. QED BY <1>1, <2>3, <2>4 DEF LookUp, Around
  <1>2. ASSUME NEW r \in Request, ReadActivate(r)
        PROVE  TypeOK' /\ Around
    <2>1. phase' \in [Request -> {"idle", "lookedUp", "joining", "adding", "approving", "moving", "activating"}]
      BY <1>2 DEF ReadActivate, TypeOK
    <2>2. TypeOK'
      BY <1>2, <2>1 DEF ReadActivate, TypeOK
    <2>3. \A q \in Request : Quiet(q)
      BY <1>2 DEF ReadActivate, Quiet, TypeOK
    <2>4. QED BY <1>2, <2>2, <2>3 DEF ReadActivate, Around
  <1>3. ASSUME NEW b \in BOOLEAN, Switch(b)
        PROVE  TypeOK' /\ Around
    <2>1. TypeOK'
      BY <1>3 DEF Switch, TypeOK
    <2>2. QED BY <1>3, <2>1 DEF Switch, Around, Quiet
  <1>4. CASE Archive
    <2>1. TypeOK'
      BY <1>4 DEF Archive, TypeOK
    <2>2. QED BY <1>4, <2>1 DEF Archive, Around, Quiet
  <1>5. CASE Restore
    <2>1. TypeOK'
      BY <1>5 DEF Restore, TypeOK
    <2>2. QED BY <1>5, <2>1 DEF Restore, Around, Quiet
  <1>6. CASE Rotate
    <2>1. code' \in 1..MaxCodes
      BY <1>6, TeamAssumption DEF Rotate, TypeOK
    <2>2. TypeOK'
      BY <1>6, <2>1 DEF Rotate, TypeOK
    <2>3. QED BY <1>6, <2>2 DEF Rotate, Around, Quiet
  <1>7. ASSUME NEW m \in {"auto", "approval", "disabled"}, SetMode(m)
        PROVE  TypeOK' /\ Around
    <2>1. TypeOK'
      BY <1>7 DEF SetMode, TypeOK
    <2>2. QED BY <1>7, <2>1 DEF SetMode, Around, Quiet
  <1>8. CASE UNCHANGED vars
    <2>1. TypeOK'
      BY <1>8 DEF vars, TypeOK
    <2>2. QED BY <1>8, <2>1 DEF vars, Around, Quiet
  <1>9. QED BY <1>1, <1>2, <1>3, <1>4, <1>5, <1>6, <1>7, <1>8

\* Hence every step is of one of the three kinds.
LEMMA StepKind ==
  ASSUME TypeOK, [Next]_vars
  PROVE  /\ TypeOK'
         /\ \/ \E r \in Request, p \in Person, ph \in {"joining", "adding", "approving", "moving"}, st \in Status :
                 Begins(r, p, ph, st)
            \/ \E r \in Request : Finishes(r)
            \/ Around
BY ReadingBegins, WritingFinishes, OthersAround DEF Next, Administering

-----------------------------------------------------------------------------
(* What each kind of step leaves of the requests in flight *)

LEMMA BeginsFrame ==
  ASSUME TypeOK, NEW r \in Request, NEW p \in Person,
         NEW ph \in {"joining", "adding", "approving", "moving"}, NEW st \in Status,
         Begins(r, p, ph, st)
  PROVE  /\ phase'[r] = ph /\ about'[r] = p /\ seen'[r] = member[p] /\ will'[r] = st
         /\ \A q \in Request \ {r} : /\ phase'[q] = phase[q] /\ about'[q] = about[q]
                                     /\ seen'[q] = seen[q] /\ will'[q] = will[q]
         /\ UNCHANGED <<member, isActive, archived, overtaken>>
         /\ raced \subseteq raced'
BY DEF Begins, Read, TypeOK, companyVars

LEMMA FinishesFrame ==
  ASSUME TypeOK, NEW r \in Request, Finishes(r)
  PROVE  /\ phase'[r] = "idle"
         /\ \A q \in Request \ {r} : /\ phase'[q] = phase[q] /\ about'[q] = about[q]
                                     /\ seen'[q] = seen[q] /\ will'[q] = will[q]
         /\ UNCHANGED <<archived, overtaken, raced, stretched>>
         /\ \A p \in Person : p # about[r] => member'[p] = member[p]
         /\ member' # member => /\ Acting(r) /\ about[r] \in Person
                                /\ member'[about[r]] = will[r]
                                /\ phase[r] = "joining" => uses' # uses
BY DEF Finishes, End, Write, TypeOK

\* Around them, nobody begins or ends to act.
LEMMA AroundFrame ==
  ASSUME TypeOK, Around, NEW r \in Request
  PROVE  /\ Acting(r)' <=> Acting(r)
         /\ Holds(r)' <=> Holds(r)
         /\ Taking(r)' <=> Taking(r)
         /\ Acting(r) => phase'[r] = phase[r]
BY DEF Around, Quiet, Acting, Holds, Taking, Reactivating

-----------------------------------------------------------------------------
(* The inductive invariant *)

\* At first nobody holds the company and no request is about anybody.
THEOREM TeamInit == Init => TeamInvariant
BY DEF Init, TeamInvariant, OneHolder, JoinsOpen, AloneAbout, AddsNew, Activating, OneTakes,
       RoomForTaker, Decided, Holds, Acting, Taking, Reactivating

LEMMA TeamBegins ==
  ASSUME TypeOK, TeamInvariant, NEW r \in Request, NEW p \in Person,
         NEW ph \in {"joining", "adding", "approving", "moving"}, NEW st \in Status,
         Begins(r, p, ph, st)
  PROVE  TeamInvariant'
  <1>1. /\ phase'[r] = ph /\ about'[r] = p /\ seen'[r] = member[p] /\ will'[r] = st
        /\ \A q \in Request \ {r} : /\ phase'[q] = phase[q] /\ about'[q] = about[q]
                                    /\ seen'[q] = seen[q] /\ will'[q] = will[q]
        /\ UNCHANGED <<member, isActive, archived, overtaken>>
        /\ raced \subseteq raced'
    BY BeginsFrame
  <1>2. OneHolder'
    BY <1>1 DEF TeamInvariant, OneHolder, Begins, Locked, Holds
  <1>3. JoinsOpen'
    BY <1>1 DEF TeamInvariant, JoinsOpen, Begins
  <1>4. AloneAbout'
    <2>1. \A q \in Request \ {r} : Acting(q) /\ about[q] = p => p \in raced'
      BY DEF Begins, Read
    <2>2. QED BY <1>1, <2>1 DEF TeamInvariant, AloneAbout, Acting
  <1>5. AddsNew'
    <2>1. /\ ph = "adding" => member[p] = "none"
          /\ ph \in {"moving", "approving"} => member[p] # "none"
      BY DEF Begins
    <2>2. QED BY <1>1, <2>1 DEF TeamInvariant, AddsNew
  <1>6. Activating'
    BY <1>1 DEF TeamInvariant, Activating
  <1>7. Takes(ph, st) => /\ member[p] \in {"none", "removed", "suspended"}
                         /\ SeatAvailable \/ stretched'
                         /\ stretched' \/ \A q \in Request \ {r} : ~Taking(q)
    BY DEF Begins
  <1>8. /\ Taking(r)' <=> Takes(ph, st)
        /\ \A q \in Request \ {r} : Taking(q)' <=> Taking(q)
        /\ stretched => stretched'
    BY <1>1 DEF Taking, Reactivating, Takes, Begins
  <1>9. OneTakes'
    BY <1>7, <1>8 DEF TeamInvariant, OneTakes
  <1>10. RoomForTaker'
    <2>1. SeatAvailable' <=> SeatAvailable
      BY <1>1 DEF SeatAvailable, SeatHolders
    <2>2. Orderly' => Orderly
      BY <1>1, <1>8 DEF Orderly
    <2>3. Orderly' => ~stretched'
      BY DEF Orderly
    <2>4. QED BY <1>7, <1>8, <2>1, <2>2, <2>3 DEF TeamInvariant, RoomForTaker
  <1>11. ASSUME NEW q \in Request
         PROVE  Decided(q)'
    <2>1. CASE q = r
      BY <1>1, <1>7, <1>8, <2>1 DEF Decided, Begins
    <2>2. CASE q # r
      <3>1. Decided(q) /\ (Taking(q)' <=> Taking(q)) /\ (Acting(q)' <=> Acting(q))
        BY <1>1, <1>8, <2>2 DEF TeamInvariant, Acting
      <3>2. QED BY <1>1, <2>2, <3>1 DEF Decided
    <2>3. QED BY <2>1, <2>2
  <1>12. QED BY <1>2, <1>3, <1>4, <1>5, <1>6, <1>9, <1>10, <1>11 DEF TeamInvariant

\* Unless it takes a seat, what a request writes gives none up to anybody.
LEMMA WritesWithinSeats ==
  ASSUME TypeOK, TeamInvariant, NEW r \in Request, Finishes(r), ~Taking(r), raced = {}
  PROVE  SeatHolders' \subseteq SeatHolders
  <1>1. CASE member' = member
    BY <1>1 DEF SeatHolders
  <1>2. CASE member' # member
    <2>1. /\ Acting(r) /\ about[r] \in Person /\ member'[about[r]] = will[r]
          /\ \A p \in Person : p # about[r] => member'[p] = member[p]
      BY <1>2, FinishesFrame
    <2>2. Decided(r) /\ phase[r] \in {"approving", "moving"}
      BY <2>1 DEF TeamInvariant, Acting, Taking
    <2>3. /\ <<seen[r], will[r]>> \in Lawful /\ member[about[r]] = seen[r]
          /\ phase[r] = "approving" => seen[r] = "pending_approval"
          /\ phase[r] = "moving" => seen[r] \notin {"none", "removed"} /\ will[r] # "active"
      BY <2>1, <2>2 DEF Decided, Taking, Reactivating
    <2>4. CASE phase[r] = "approving"
      BY <2>1, <2>3, <2>4 DEF SeatHolders
    <2>5. CASE phase[r] = "moving"
      <3>1. will[r] \in {"suspended", "removed"}
        BY <2>3, <2>5 DEF Lawful
      <3>2. QED BY <2>1, <3>1 DEF SeatHolders
    <2>6. QED BY <2>2, <2>4, <2>5
  <1>3. QED BY <1>1, <1>2

\* Fewer holders leave no less room.
LEMMA Holders ==
  ASSUME TypeOK
  PROVE  IsFiniteSet(SeatHolders) /\ Cardinality(SeatHolders) \in Nat
  <1>1. SeatHolders \in SUBSET Person
    BY DEF SeatHolders
  <1>2. IsFiniteSet(SeatHolders)
    BY <1>1, FS_Subset, TeamAssumption
  <1>3. QED BY <1>2, FS_CardinalityType

LEMMA LessSeats ==
  ASSUME TypeOK, SeatHolders' \subseteq SeatHolders
  PROVE  /\ IsFiniteSet(SeatHolders')
         /\ Cardinality(SeatHolders') \in Nat
         /\ Cardinality(SeatHolders') <= Cardinality(SeatHolders)
  <1>1. IsFiniteSet(SeatHolders)
    BY Holders
  <1>2. IsFiniteSet(SeatHolders') /\ Cardinality(SeatHolders') <= Cardinality(SeatHolders)
    BY <1>1, FS_Subset
  <1>3. QED BY <1>2, FS_CardinalityType

LEMMA TeamFinishes ==
  ASSUME TypeOK, TeamInvariant, NEW r \in Request, Finishes(r)
  PROVE  TeamInvariant'
  <1>1. /\ phase'[r] = "idle"
        /\ \A q \in Request \ {r} : /\ phase'[q] = phase[q] /\ about'[q] = about[q]
                                    /\ seen'[q] = seen[q] /\ will'[q] = will[q]
        /\ UNCHANGED <<archived, overtaken, raced, stretched>>
        /\ \A p \in Person : p # about[r] => member'[p] = member[p]
    BY FinishesFrame
  <1>2. /\ ~Acting(r)' /\ ~Taking(r)' /\ ~Holds(r)'
        /\ \A q \in Request \ {r} : /\ Acting(q)' <=> Acting(q)
                                    /\ Taking(q)' <=> Taking(q)
                                    /\ Holds(q)' <=> Holds(q)
    BY <1>1 DEF Acting, Taking, Holds, Reactivating
  <1>3. OneHolder' /\ OneTakes'
    BY <1>1, <1>2 DEF TeamInvariant, OneHolder, OneTakes
  <1>4. JoinsOpen'
    <2>1. isActive => isActive'
      BY DEF Finishes
    <2>2. QED BY <1>1, <2>1 DEF TeamInvariant, JoinsOpen
  <1>5. AloneAbout'
    BY <1>1, <1>2 DEF TeamInvariant, AloneAbout
  <1>6. Activating'
    BY <1>1 DEF TeamInvariant, Activating
  <1>7. AddsNew'
    <2> SUFFICES ASSUME NEW q \in Request \ {r}
                 PROVE  /\ phase[q] = "adding" => member'[about[q]] = "none"
                        /\ phase[q] \in {"moving", "approving"} => member'[about[q]] # "none"
      BY <1>1 DEF AddsNew
    <2>1. /\ phase[q] = "adding" => member[about[q]] = "none"
          /\ phase[q] \in {"moving", "approving"} => member[about[q]] # "none"
      BY DEF TeamInvariant, AddsNew
    <2>2. CASE member' = member
      BY <2>1, <2>2
    <2>3. CASE member' # member
      <3>1. /\ Acting(r) /\ about[r] \in Person /\ member'[about[r]] = will[r]
            /\ Decided(r)
        BY <2>3, FinishesFrame DEF TeamInvariant
      <3>2. will[r] # "none"
        BY <3>1 DEF Decided, Lawful
      <3>3. ASSUME phase[q] = "adding", about[q] = about[r]
            PROVE  FALSE
        <4>1. ~Holds(r)
          BY <3>3 DEF TeamInvariant, OneHolder, Holds
        <4>2. phase[r] = "moving"
          BY <3>1, <4>1 DEF Acting, Holds
        <4>3. member[about[r]] # "none"
          BY <4>2 DEF TeamInvariant, AddsNew
        <4>4. QED BY <2>1, <3>3, <4>3
      <3>4. ASSUME phase[q] \in {"adding", "moving", "approving"}
            PROVE  about[q] \in Person
        BY <3>4 DEF TeamInvariant, Decided, Acting
      <3>5. QED BY <1>1, <2>1, <3>1, <3>2, <3>3, <3>4
    <2>4. QED BY <2>2, <2>3
  <1>8. RoomForTaker'
    <2> SUFFICES ASSUME Orderly', NEW q \in Request \ {r}, Taking(q)
                 PROVE  SeatAvailable'
      BY <1>1, <1>2 DEF RoomForTaker
    <2>1. Orderly /\ raced = {} /\ ~stretched
      BY <1>1 DEF Orderly
    <2>2. ~Taking(r)
      BY <2>1 DEF TeamInvariant, OneTakes
    <2>3. Cardinality(SeatHolders) + 1 < MaxMembers
      BY <2>1 DEF TeamInvariant, RoomForTaker, SeatAvailable
    <2>4. SeatHolders' \subseteq SeatHolders
      BY <2>1, <2>2, WritesWithinSeats
    <2>5. /\ Cardinality(SeatHolders') \in Nat
          /\ Cardinality(SeatHolders') <= Cardinality(SeatHolders)
      BY <2>4, LessSeats
    <2>6. Cardinality(SeatHolders) \in Nat
      BY Holders
    <2>7. QED BY <2>3, <2>5, <2>6, TeamAssumption DEF SeatAvailable
  <1>9. ASSUME NEW q \in Request
        PROVE  Decided(q)'
    <2>1. CASE q = r
      BY <1>2, <2>1 DEF Decided
    <2>2. CASE q # r /\ Acting(q)
      <3>1. Decided(q) /\ about[q] \in Person
        BY <2>2 DEF TeamInvariant, Decided
      <3>2. about[q] \notin raced => member'[about[q]] = member[about[q]]
        <4>1. CASE member' = member
          BY <4>1
        <4>2. CASE member' # member
          <5>1. Acting(r)
            BY <4>2, FinishesFrame
          <5>2. about[q] \notin raced => about[q] # about[r]
            BY <2>2, <5>1 DEF TeamInvariant, AloneAbout
          <5>3. QED BY <1>1, <3>1, <5>2
        <4>3. QED BY <4>1, <4>2
      <3>3. QED BY <1>1, <1>2, <2>2, <3>1, <3>2 DEF Decided
    <2>3. CASE q # r /\ ~Acting(q)
      BY <1>2, <2>3 DEF Decided
    <2>4. QED BY <2>1, <2>2, <2>3
  <1>10. QED BY <1>3, <1>4, <1>5, <1>6, <1>7, <1>8, <1>9 DEF TeamInvariant

LEMMA TeamAround ==
  ASSUME TypeOK, TeamInvariant, Around
  PROVE  TeamInvariant'
  <1>1. \A r \in Request : /\ Acting(r)' <=> Acting(r)
                           /\ Holds(r)' <=> Holds(r)
                           /\ Taking(r)' <=> Taking(r)
                           /\ Acting(r) => phase'[r] = phase[r]
    BY AroundFrame
  <1>2. UNCHANGED <<member, about, seen, will, raced, stretched>>
    BY DEF Around
  <1>3. OneHolder' /\ OneTakes' /\ AloneAbout'
    BY <1>1, <1>2 DEF TeamInvariant, OneHolder, OneTakes, AloneAbout
  <1>4. JoinsOpen'
    <2>1. isActive' = isActive \/ ~Locked
      BY DEF Around
    <2>2. QED BY <1>1, <2>1 DEF TeamInvariant, JoinsOpen, Locked, Holds, Around, Quiet
  <1>5. AddsNew'
    BY <1>2 DEF TeamInvariant, AddsNew, Around, Quiet
  <1>6. Activating'
    <2>1. (\E r \in Request : phase[r] = "activating") => ~archived \/ overtaken
      BY DEF TeamInvariant, Activating
    <2>2. CASE /\ archived' = archived /\ overtaken' = overtaken
               /\ \A r \in Request : phase'[r] = "activating" => phase[r] = "activating" \/ ~archived
      BY <2>1, <2>2 DEF Activating
    <2>3. CASE /\ phase' = phase
               /\ overtaken' = (overtaken \/ \E r \in Request : phase[r] = "activating")
      BY <2>3 DEF Activating
    <2>4. CASE ~archived'
      BY <2>4 DEF Activating
    <2>5. QED BY <2>2, <2>3, <2>4 DEF Around
  <1>7. RoomForTaker'
    BY <1>1, <1>2 DEF TeamInvariant, RoomForTaker, Orderly, SeatAvailable, SeatHolders
  <1>8. ASSUME NEW r \in Request
        PROVE  Decided(r)'
    <2>1. CASE Acting(r)
      BY <1>1, <1>2, <2>1 DEF TeamInvariant, Decided
    <2>2. CASE ~Acting(r)
      BY <1>1, <2>2 DEF Decided
    <2>3. QED BY <2>1, <2>2
  <1>9. QED BY <1>3, <1>4, <1>5, <1>6, <1>7, <1>8 DEF TeamInvariant

\* The types and the invariant hold in every state, for any number of people and
\* requests and any size of the team.
THEOREM TeamCorrect == Spec => [](TypeOK /\ TeamInvariant)
  <1>1. TypeOK /\ TeamInvariant /\ [Next]_vars => TypeOK' /\ TeamInvariant'
    BY StepKind, TeamBegins, TeamFinishes, TeamAround
  <1>2. QED BY TypeInit, TeamInit, <1>1, PTL DEF Spec

-----------------------------------------------------------------------------
(* The properties *)

\* No way of joining, adding or approving, in any interleaving, exceeds the size of
\* the team, but for reactivations and requests that race for one person.
THEOREM KeepsToItsSize == Spec => []SeatsWithinLimit
  <1>1. Init => SeatsWithinLimit
    <2> SUFFICES ASSUME Init
                 PROVE  SeatsWithinLimit
      OBVIOUS
    <2>1. SeatHolders = {}
      BY DEF Init, SeatHolders
    <2>2. Cardinality(SeatHolders) = 0
      BY <2>1, FS_EmptySet
    <2>3. QED BY <2>2, TeamAssumption DEF SeatsWithinLimit
  <1>2. TypeOK /\ TeamInvariant /\ SeatsWithinLimit /\ [Next]_vars => SeatsWithinLimit'
    <2> SUFFICES ASSUME TypeOK, TeamInvariant, SeatsWithinLimit, [Next]_vars, Orderly'
                 PROVE  Cardinality(SeatHolders') + 1 <= MaxMembers
      BY DEF SeatsWithinLimit
    <2>1. CASE Orderly /\ SeatHolders' \subseteq SeatHolders
      <3>1. Cardinality(SeatHolders) + 1 <= MaxMembers
        BY <2>1 DEF SeatsWithinLimit
      <3>2. /\ Cardinality(SeatHolders') \in Nat
            /\ Cardinality(SeatHolders') <= Cardinality(SeatHolders)
        BY <2>1, LessSeats
      <3>3. QED BY <3>1, <3>2, Holders, TeamAssumption
    <2>2. ASSUME NEW r \in Request, NEW p \in Person,
                 NEW ph \in {"joining", "adding", "approving", "moving"}, NEW st \in Status,
                 Begins(r, p, ph, st)
          PROVE  Orderly /\ SeatHolders' \subseteq SeatHolders
      BY <2>2, BeginsFrame DEF Orderly, SeatHolders, Begins
    <2>3. ASSUME NEW r \in Request, Finishes(r)
          PROVE  Cardinality(SeatHolders') + 1 <= MaxMembers
      <3>1. Orderly /\ raced = {}
        BY <2>3, FinishesFrame DEF Orderly
      <3>2. CASE Taking(r)
        <4>1. Cardinality(SeatHolders) + 1 < MaxMembers
          BY <3>1, <3>2 DEF TeamInvariant, RoomForTaker, SeatAvailable
        <4>2. SeatHolders' \subseteq SeatHolders \cup {about[r]}
          BY <2>3, FinishesFrame DEF SeatHolders
        <4>3. /\ IsFiniteSet(SeatHolders \cup {about[r]})
              /\ Cardinality(SeatHolders \cup {about[r]}) <= Cardinality(SeatHolders) + 1
              /\ Cardinality(SeatHolders \cup {about[r]}) \in Nat
          <5>1. IsFiniteSet(SeatHolders) /\ Cardinality(SeatHolders) \in Nat
            BY Holders
          <5>2. /\ IsFiniteSet(SeatHolders \cup {about[r]})
                /\ Cardinality(SeatHolders \cup {about[r]}) =
                     IF about[r] \in SeatHolders THEN Cardinality(SeatHolders) ELSE Cardinality(SeatHolders) + 1
            BY <5>1, FS_AddElement
          <5>3. QED BY <5>1, <5>2
        <4>4. /\ Cardinality(SeatHolders') <= Cardinality(SeatHolders \cup {about[r]})
              /\ Cardinality(SeatHolders') \in Nat
          BY <4>2, <4>3, FS_Subset, FS_CardinalityType
        <4>5. QED BY <4>1, <4>3, <4>4, Holders, TeamAssumption
      <3>3. CASE ~Taking(r)
        BY <2>1, <2>3, <3>1, <3>3, WritesWithinSeats
      <3>4. QED BY <3>2, <3>3
    <2>4. CASE Around
      <3>1. Orderly /\ SeatHolders' \subseteq SeatHolders
        BY <2>4 DEF Around, Orderly, SeatHolders
      <3>2. QED BY <2>1, <3>1
    <2>5. QED BY <2>1, <2>2, <2>3, <2>4, StepKind
  <1>3. QED BY TeamCorrect, <1>1, <1>2, PTL DEF Spec

\* An archived company stays closed, unless an activation overtook the archiving.
THEOREM StaysClosed == Spec => []ArchivedIsClosed
  <1>1. Init => ArchivedIsClosed
    BY DEF Init, ArchivedIsClosed
  <1>2. TypeOK /\ TeamInvariant /\ ArchivedIsClosed /\ [Next]_vars => ArchivedIsClosed'
    <2> SUFFICES ASSUME TypeOK, TeamInvariant, ArchivedIsClosed, [Next]_vars
                 PROVE  ArchivedIsClosed'
      OBVIOUS
    <2>1. ASSUME NEW r \in Request, NEW p \in Person,
                 NEW ph \in {"joining", "adding", "approving", "moving"}, NEW st \in Status,
                 Begins(r, p, ph, st)
          PROVE  ArchivedIsClosed'
      BY <2>1, BeginsFrame DEF ArchivedIsClosed
    <2>2. ASSUME NEW r \in Request, Finishes(r)
          PROVE  ArchivedIsClosed'
      BY <2>2 DEF ArchivedIsClosed, Finishes, TeamInvariant, Activating
    <2>3. CASE Around
      <3>1. CASE archived' = archived /\ overtaken' = overtaken /\ (isActive' => isActive \/ ~archived)
        BY <3>1 DEF ArchivedIsClosed
      <3>2. CASE ~isActive' \/ ~archived'
        BY <3>2 DEF ArchivedIsClosed
      <3>3. QED BY <2>3, <3>1, <3>2 DEF Around
    <2>4. \/ \E r \in Request, p \in Person, ph \in {"joining", "adding", "approving", "moving"}, st \in Status :
              Begins(r, p, ph, st)
          \/ \E r \in Request : Finishes(r)
          \/ Around
      BY StepKind
    <2>5. QED BY <2>1, <2>2, <2>3, <2>4
  <1>3. QED BY TeamCorrect, <1>1, <1>2, PTL DEF Spec

\* A decision that nobody raced with fits the status it is written over.
THEOREM LawfulMoves == Spec => MovesAreLawful
  <1>1. TypeOK /\ TeamInvariant /\ [Next]_vars =>
          [\A p \in Person : member'[p] # member[p] =>
             p \in raced \/ <<member[p], member'[p]>> \in Lawful]_vars
    <2> SUFFICES ASSUME TypeOK, TeamInvariant, [Next]_vars,
                        NEW p \in Person, member'[p] # member[p], p \notin raced
                 PROVE  <<member[p], member'[p]>> \in Lawful
      OBVIOUS
    <2>1. PICK r \in Request : Finishes(r)
      BY StepKind, BeginsFrame DEF Around
    <2>2. Acting(r) /\ about[r] = p /\ member'[p] = will[r]
      BY <2>1, FinishesFrame
    <2>3. Decided(r)
      BY DEF TeamInvariant
    <2>4. QED BY <2>2, <2>3 DEF Decided
  <1>2. QED BY TeamCorrect, <1>1, PTL DEF Spec, MovesAreLawful

\* In every interleaving, who was removed comes back by the code, or by a decision
\* taken while suspended or waiting.
THEOREM BackByCode == Spec => ComesBackByCode
  <1>1. TypeOK /\ TeamInvariant /\ [Next]_vars =>
          [\A p \in Person : member[p] = "removed" /\ member'[p] \notin {"removed", "suspended"} =>
             \/ uses' # uses
             \/ \E r \in Request : /\ about[r] = p /\ phase'[r] = "idle"
                                   /\ seen[r] \in {"suspended", "pending_approval"}]_vars
    <2> SUFFICES ASSUME TypeOK, TeamInvariant, [Next]_vars, NEW p \in Person,
                        member[p] = "removed", member'[p] \notin {"removed", "suspended"}, uses' = uses
                 PROVE  \E r \in Request : /\ about[r] = p /\ phase'[r] = "idle"
                                            /\ seen[r] \in {"suspended", "pending_approval"}
      OBVIOUS
    <2>1. PICK r \in Request : Finishes(r)
      BY StepKind, BeginsFrame DEF Around
    <2>2. /\ Acting(r) /\ about[r] = p /\ member'[p] = will[r] /\ phase'[r] = "idle"
          /\ phase[r] # "joining"
      BY <2>1, FinishesFrame
    <2>3. Decided(r) /\ phase[r] # "adding"
      BY <2>2 DEF TeamInvariant, AddsNew
    <2>4. /\ <<seen[r], will[r]>> \in Lawful
          /\ phase[r] = "approving" => seen[r] = "pending_approval"
          /\ phase[r] = "moving" => seen[r] \notin {"none", "removed"}
      BY <2>2, <2>3 DEF Decided
    <2>5. CASE phase[r] = "approving"
      BY <2>2, <2>4, <2>5
    <2>6. CASE phase[r] = "moving"
      BY <2>2, <2>4, <2>6 DEF Lawful
    <2>7. QED BY <2>2, <2>3, <2>5, <2>6 DEF Acting
  <1>2. QED BY TeamCorrect, <1>1, PTL DEF Spec, ComesBackByCode

\* A code is used only while it is active and the company open.
THEOREM CodeWhileOpen == Spec => CodeUsedWhileOpen
  <1>1. TypeOK /\ TeamInvariant /\ [Next]_vars =>
          [uses' # uses => isActive /\ uses' = [uses EXCEPT ![code] = @ + 1]]_vars
    <2> SUFFICES ASSUME TypeOK, TeamInvariant, [Next]_vars, uses' # uses
                 PROVE  isActive /\ uses' = [uses EXCEPT ![code] = @ + 1]
      OBVIOUS
    <2>1. \E r \in Request : Join(r)
      <3>1. ASSUME NEW r \in Request, LookUp(r) \/ Writing(r) \/ Refuse(r)
            PROVE  Join(r)
        BY <3>1 DEF LookUp, Writing, Add, Approve, Move, Refuse, companyVars
      <3>2. ASSUME NEW r \in Request, NEW p \in Person, Reading(r, p)
            PROVE  FALSE
        <4>1. \E ph \in {"joining", "adding", "approving", "moving"}, st \in Status : Read(r, ph, p, st)
          BY <3>2, ReadingBegins DEF Begins
        <4>2. QED BY <4>1 DEF Read, companyVars
      <3>3. ~Administering
        <4>1. ASSUME NEW r \in Request, ReadActivate(r) \/ Activate(r)
              PROVE  FALSE
          BY <4>1 DEF ReadActivate, Activate, companyVars
        <4>2. QED BY <4>1 DEF Administering, Switch, Archive, Restore, Rotate, SetMode
      <3>4. QED BY <3>1, <3>2, <3>3 DEF Next, vars, companyVars
    <2>2. QED BY <2>1 DEF Join, TeamInvariant, JoinsOpen
  <1>2. QED BY TeamCorrect, <1>1, PTL DEF Spec, CodeUsedWhileOpen
=============================================================================
