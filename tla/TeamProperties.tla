---------------------------- MODULE TeamProperties ----------------------------
(* What the team of a portal company must satisfy. *)
EXTENDS PortalTeam

TypeOK ==
  /\ member \in [Person -> Status]
  /\ isActive \in BOOLEAN /\ archived \in BOOLEAN
  /\ mode \in {"auto", "approval", "disabled"}
  /\ code \in 1..MaxCodes /\ uses \in [1..MaxCodes -> Nat]
  /\ phase \in [Request -> {"idle", "lookedUp", "joining", "adding", "approving", "moving", "activating"}]
  /\ about \in [Request -> Person \cup {NoPerson}]
  /\ seen \in [Request -> Status] /\ will \in [Request -> Status]
  /\ key \in [Request -> 0..MaxCodes]
  /\ raced \subseteq Person
  /\ stretched \in BOOLEAN /\ overtaken \in BOOLEAN

-----------------------------------------------------------------------------
(* Seats *)

\* Nothing has happened that takes a seat without counting it: no reactivation by
\* the staff, none by the company beside another request that took one, and no two
\* requests at once about one person (an approval may bring back who was rejected).
Orderly == ~stretched /\ raced = {}

\* The team never grows beyond team.max_members, whoever joins, is added or waits,
\* in whatever order: the count is made under the company's lock, and what goes on
\* beside it (suspensions, removals, rejections) only gives seats back.
SeatsWithinLimit == Orderly => Cardinality(SeatHolders) + 1 <= MaxMembers

-----------------------------------------------------------------------------
(* Membership *)

\* How a membership may change in one step.
Lawful ==
  ({"none", "removed"} \X {"pending_approval", "active"})
    \cup ({"pending_approval"} \X {"active", "removed"})
    \cup ({"active"} \X {"suspended", "removed"})
    \cup ({"suspended"} \X {"active", "removed"})

\* As long as no two requests are about a person at once, what was decided from the
\* status read fits the status written over: who was removed comes back only by
\* joining, who is suspended does not get around it with the code.
MovesAreLawful ==
  [][\A p \in Person : member'[p] # member[p] =>
       p \in raced \/ <<member[p], member'[p]>> \in Lawful]_vars

\* Also when requests race: who was removed and comes back, comes back by a request
\* that had read a membership: no request brings back somebody it saw removed,
\* unless it is a use of the company's code.
ComesBackByCode ==
  [][\A p \in Person : member[p] = "removed" /\ member'[p] \notin {"removed", "suspended"} =>
       \/ uses' # uses
       \/ \E r \in Request : /\ about[r] = p /\ phase'[r] = "idle"
                             /\ seen[r] \in {"suspended", "pending_approval"}]_vars

-----------------------------------------------------------------------------
(* The company *)

\* A join code is used only while it is the active one and the company is open,
\* although the code was looked up before the lock and may be rotated after it.
CodeUsedWhileOpen ==
  [][uses' # uses => isActive /\ uses' = [uses EXCEPT ![code] = @ + 1]]_vars

\* An archived company is closed ("suspended and hidden", portal-companies-list.ts),
\* unless it was archived between the read and the write of PATCH /status.
ArchivedIsClosed == archived => ~isActive \/ overtaken

-----------------------------------------------------------------------------
(* The inductive invariant *)

\* One request holds the company, and who joins found it open.
OneHolder == \A q, r \in Request : Holds(q) /\ Holds(r) => q = r
JoinsOpen == \A r \in Request : phase[r] = "joining" => isActive

\* A request decides about somebody it read, and knows how it stands unless raced.
Decided(r) ==
  Acting(r) => /\ about[r] \in Person
               /\ <<seen[r], will[r]>> \in Lawful
               /\ phase[r] = "approving" => seen[r] = "pending_approval"
               /\ Taking(r) => seen[r] \in {"none", "removed", "suspended"}
               /\ phase[r] = "moving" => seen[r] \notin {"none", "removed"}
               /\ about[r] \notin raced => member[about[r]] = seen[r]
AloneAbout ==
  \A q, r \in Request : Acting(q) /\ Acting(r) /\ about[q] = about[r] => q = r \/ about[q] \in raced

\* Who is added has no membership yet; who is moved or approved has one.
AddsNew ==
  \A r \in Request :
    /\ phase[r] = "adding" => member[about[r]] = "none"
    /\ phase[r] \in {"moving", "approving"} => member[about[r]] # "none"

\* An activation in flight read that the company is not archived.
Activating == (\E r \in Request : phase[r] = "activating") => ~archived \/ overtaken

\* A seat that was counted as free is still free.
OneTakes == ~stretched => \A q, r \in Request : Taking(q) /\ Taking(r) => q = r
RoomForTaker == Orderly => \A r \in Request : Taking(r) => SeatAvailable

TeamInvariant ==
  /\ OneHolder /\ JoinsOpen /\ AloneAbout /\ AddsNew /\ Activating /\ OneTakes /\ RoomForTaker
  /\ \A r \in Request : Decided(r)
=============================================================================
