------------------------------ MODULE PortalTeam ------------------------------
(***************************************************************************)
(* The team of one portal company: src/routes/portal-team.ts and           *)
(* portal-join.ts on the company's side, portal-companies-list.ts,         *)
(* portal-companies-admin.ts and portal-customers-admin.ts on the staff's. *)
(* Whoever takes a seat locks the company's row; suspending, reactivating, *)
(* removing and rejecting lock nothing and write what they decided from a  *)
(* status read earlier.  The owner holds a seat and never changes.         *)
(***************************************************************************)
EXTENDS Naturals, FiniteSets

CONSTANTS
  Person,      \* people who may be members, but the owner
  Request,     \* HTTP requests in flight
  MaxMembers,  \* the setting team.max_members
  MaxCodes,    \* bound: join codes that may come to exist
  MaxJoins,    \* bound: uses of a code
  NoPerson     \* no person

ASSUME TeamAssumption ==
  /\ IsFiniteSet(Person) /\ NoPerson \notin Person
  /\ MaxMembers \in Nat \ {0} /\ MaxCodes \in Nat \ {0} /\ MaxJoins \in Nat

VARIABLES
  member,    \* portal_members.status; "none" before the insert
  isActive,  \* portal_customers.is_active
  archived,  \* whether archived_at is set
  mode,      \* the setting join.mode; "disabled" also when join.code.enabled is false
  code,      \* the company's active code, the last one
  uses,      \* portal_company_codes.uses
  phase,     \* of a request: what it has read
  about,     \* the person it is about
  seen,      \* the status it read
  will,      \* the status it will write
  key,       \* the code it looked up
  raced,     \* people whom two requests were about at once (a history variable)
  stretched, \* whether a seat was taken that nobody counted for sure (a history variable)
  overtaken  \* whether an activation was in flight while the company was archived (a history variable)

companyVars == <<isActive, archived, mode, code, uses>>
requestVars == <<phase, about, seen, will, key>>
vars == <<member, companyVars, requestVars, raced, stretched, overtaken>>

Status == {"none", "pending_approval", "active", "suspended", "removed"}

\* countSeats: who holds a seat, besides the owner.
SeatHolders == {p \in Person : member[p] \in {"active", "pending_approval"}}

\* Mutant of SeatAvailable: the owner's seat is not counted.
SeatAvailableBesides == Cardinality(SeatHolders) < MaxMembers

\* assertSeatAvailable
SeatAvailable == Cardinality(SeatHolders) + 1 < MaxMembers

Idle(r) == phase[r] = "idle"

\* The request has locked the company's row.
Holds(r) == phase[r] \in {"joining", "adding", "approving"}

Locked == \E r \in Request : Holds(r)

\* It has read the member it is about.
Acting(r) == phase[r] \in {"joining", "adding", "approving", "moving"}

Reactivating(r) == phase[r] = "moving" /\ will[r] = "active"

\* It has counted the seats and is about to take one.
Taking(r) == phase[r] \in {"joining", "adding"} \/ Reactivating(r)

-----------------------------------------------------------------------------
(* Requests *)

\* A request reads the member p and decides to write st.
Read(r, ph, p, st) ==
  /\ phase' = [phase EXCEPT ![r] = ph]
  /\ about' = [about EXCEPT ![r] = p]
  /\ seen' = [seen EXCEPT ![r] = member[p]]
  /\ will' = [will EXCEPT ![r] = st]
  /\ raced' = raced \cup {x \in {p} : \E q \in Request \ {r} : Acting(q) /\ about[q] = x}
  /\ UNCHANGED <<member, companyVars, key, overtaken>>

\* A reactivation takes a seat without the lock: others may take the same one.
TakesSeat(r, reactivation) ==
  stretched' = (stretched \/ \E q \in Request \ {r} : Taking(q) /\ (reactivation \/ Reactivating(q)))

End(r) ==
  /\ phase' = [phase EXCEPT ![r] = "idle"]
  /\ about' = [about EXCEPT ![r] = NoPerson]
  /\ seen' = [seen EXCEPT ![r] = "none"]
  /\ will' = [will EXCEPT ![r] = "none"]
  /\ key' = [key EXCEPT ![r] = 0]
  /\ UNCHANGED <<raced, stretched>>

\* The request fails or is refused: its transaction is rolled back.
Refuse(r) == ~Idle(r) /\ End(r) /\ UNCHANGED <<member, companyVars, overtaken>>

\* UPDATE portal_members SET status ... WHERE id, whatever the status is by now.
Write(r) == member' = [member EXCEPT ![about[r]] = will[r]]

-----------------------------------------------------------------------------
(* Joining with a code, adding a member *)

\* POST /portal/join: lookupCompanyCode finds the active code.
LookUp(r) ==
  /\ Idle(r) /\ uses[code] < MaxJoins
  /\ phase' = [phase EXCEPT ![r] = "lookedUp"]
  /\ key' = [key EXCEPT ![r] = code]
  /\ UNCHANGED <<member, companyVars, about, seen, will, raced, stretched, overtaken>>

\* Then the company is locked, the mode and the person's membership are read and
\* the seats counted.
ReadJoin(r, p) ==
  /\ phase[r] = "lookedUp" /\ ~Locked
  /\ isActive /\ mode # "disabled"
  /\ member[p] \in {"none", "removed"} /\ SeatAvailable
  /\ Read(r, "joining", p, IF mode = "auto" THEN "active" ELSE "pending_approval")
  /\ TakesSeat(r, FALSE)

\* consumeCompanyCode, if the code is still the active one, and the member's row.
Join(r) ==
  /\ phase[r] = "joining" /\ key[r] = code
  /\ uses' = [uses EXCEPT ![code] = @ + 1]
  /\ Write(r) /\ End(r)
  /\ UNCHANGED <<isActive, archived, mode, code, overtaken>>

\* POST /portal/team, POST /portal-companies/:id/members: createMemberAccount
ReadAdd(r, p) ==
  /\ Idle(r) /\ ~Locked
  /\ member[p] = "none" /\ SeatAvailable
  /\ Read(r, "adding", p, "active")
  /\ TakesSeat(r, FALSE)

Add(r) ==
  /\ phase[r] = "adding"
  /\ Write(r) /\ End(r)
  /\ UNCHANGED <<companyVars, overtaken>>

\* POST /portal/team/requests/:memberId/approve
ReadApprove(r, p) ==
  /\ Idle(r) /\ ~Locked
  /\ member[p] = "pending_approval"
  /\ Read(r, "approving", p, "active")
  /\ UNCHANGED stretched

Approve(r) ==
  /\ phase[r] = "approving"
  /\ Write(r) /\ End(r)
  /\ UNCHANGED <<companyVars, overtaken>>

-----------------------------------------------------------------------------
(* Suspending, reactivating, removing, rejecting *)

\* Mutant of Moves: who is suspended may be rejected like who waits.
MovesLoose ==
  {<<"active", "suspended">>} \cup {"active", "suspended", "pending_approval"} \X {"removed"}
                              \cup {<<"pending_approval", "suspended">>}

\* What the routes may do to a member but reactivate it: suspend, remove (the staff
\* also remove who waits for approval), and reject.
Moves ==
  {<<"active", "suspended">>} \cup {"active", "suspended", "pending_approval"} \X {"removed"}

\* memberStatusRoute, the staff's routes and the rejection read the member ...
ReadMove(r, p, to) ==
  /\ Idle(r) /\ <<member[p], to>> \in Moves
  /\ Read(r, "moving", p, to)
  /\ UNCHANGED stretched

\* Mutant of ReadReactivate: everybody who is not active may be reactivated.
ReadReactivateAny(r, p) ==
  /\ Idle(r) /\ member[p] \in {"suspended", "removed"} /\ SeatAvailable
  /\ Read(r, "moving", p, "active")
  /\ TakesSeat(r, TRUE)

\* ... so does the company's reactivation, which also counts the seats.
ReadReactivate(r, p) ==
  /\ Idle(r) /\ member[p] = "suspended" /\ SeatAvailable
  /\ Read(r, "moving", p, "active")
  /\ TakesSeat(r, TRUE)

\* The staff's does not count them.
ReadStaffReactivate(r, p) ==
  /\ Idle(r) /\ member[p] = "suspended"
  /\ Read(r, "moving", p, "active")
  /\ stretched' = TRUE

Move(r) ==
  /\ phase[r] = "moving"
  /\ Write(r) /\ End(r)
  /\ UNCHANGED <<companyVars, overtaken>>

-----------------------------------------------------------------------------
(* The company *)

\* POST /portal-companies/bulk: suspend or reactivate, under the lock.
Switch(b) ==
  /\ ~Locked /\ (b => ~archived)
  /\ isActive' = b
  /\ UNCHANGED <<member, archived, mode, code, uses, requestVars, raced, stretched, overtaken>>

\* PATCH /portal-customers/:id/status: an activation reads archived_at first.
ReadActivate(r) ==
  /\ Idle(r) /\ ~archived
  /\ phase' = [phase EXCEPT ![r] = "activating"]
  /\ UNCHANGED <<member, companyVars, about, seen, will, key, raced, stretched, overtaken>>

\* Its UPDATE waits for the lock.
Activate(r) ==
  /\ phase[r] = "activating" /\ ~Locked
  /\ isActive' = TRUE
  /\ End(r)
  /\ UNCHANGED <<member, archived, mode, code, uses, overtaken>>

\* POST /portal-companies/:id/archive
Archive ==
  /\ ~Locked /\ ~archived
  /\ archived' = TRUE /\ isActive' = FALSE
  /\ overtaken' = (overtaken \/ \E r \in Request : phase[r] = "activating")
  /\ UNCHANGED <<member, mode, code, uses, requestVars, raced, stretched>>

\* POST /portal-companies/:id/restore
Restore ==
  /\ ~Locked /\ archived
  /\ archived' = FALSE /\ isActive' = TRUE
  /\ UNCHANGED <<member, mode, code, uses, requestVars, raced, stretched, overtaken>>

\* generateCompanyCode: the active code is revoked and a new one inserted.  Of two
\* at once the second finds nothing to revoke and breaks the unique index.
Rotate ==
  /\ code < MaxCodes
  /\ code' = code + 1
  /\ UNCHANGED <<member, isActive, archived, mode, uses, requestVars, raced, stretched, overtaken>>

\* writeSetting, clearSetting of join.mode or join.code.enabled
SetMode(m) ==
  /\ mode' = m
  /\ UNCHANGED <<member, isActive, archived, code, uses, requestVars, raced, stretched, overtaken>>

-----------------------------------------------------------------------------
Init ==
  /\ member = [p \in Person |-> "none"]
  /\ isActive = TRUE /\ archived = FALSE /\ mode = "approval"
  /\ code = 1 /\ uses = [c \in 1..MaxCodes |-> 0]
  /\ phase = [r \in Request |-> "idle"]
  /\ about = [r \in Request |-> NoPerson]
  /\ seen = [r \in Request |-> "none"]
  /\ will = [r \in Request |-> "none"]
  /\ key = [r \in Request |-> 0]
  /\ raced = {} /\ stretched = FALSE /\ overtaken = FALSE

Reading(r, p) ==
  \/ ReadJoin(r, p) \/ ReadAdd(r, p) \/ ReadApprove(r, p)
  \/ \E to \in {"suspended", "removed"} : ReadMove(r, p, to)
  \/ ReadReactivate(r, p) \/ ReadStaffReactivate(r, p)

Writing(r) == Join(r) \/ Add(r) \/ Approve(r) \/ Move(r)

Administering ==
  \/ \E b \in BOOLEAN : Switch(b)
  \/ \E r \in Request : ReadActivate(r) \/ Activate(r)
  \/ Archive \/ Restore \/ Rotate
  \/ \E m \in {"auto", "approval", "disabled"} : SetMode(m)

Next ==
  \/ \E r \in Request : LookUp(r) \/ Writing(r) \/ Refuse(r)
  \/ \E r \in Request, p \in Person : Reading(r, p)
  \/ Administering

Spec == Init /\ [][Next]_vars
=============================================================================
