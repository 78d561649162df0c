---------------------------- MODULE CasesProperties ----------------------------
(* What operations cases, and the sales order they tell of, must satisfy. *)
EXTENDS OperationsCases

CasesTypeOK ==
  /\ sales \in SalesStatus /\ revision \in 1..MaxRevision /\ lines \subseteq Line
  /\ posted \subseteq Line /\ asks \subseteq Valid /\ raced \in BOOLEAN
  /\ editPhase \in [Edit -> {"idle", "read"}] /\ from \in [Edit -> SalesStatus]
  /\ base \in [Edit -> 1..MaxRevision] /\ kept \in [Edit -> SUBSET Line]
  /\ known \subseteq Line
  /\ state \in [Case -> CaseStatus] /\ aboutRevision \in [Case -> 1..MaxRevision]
  /\ snapshot \in [Case -> SUBSET Line]
  /\ number \in [Case -> 1..MaxVersion] /\ version \in [Case -> 1..MaxVersion]
  /\ recorded \in [Case -> SUBSET (1..MaxVersion)]
  /\ priority \in [Case -> Priority]
  /\ linked \in [Case -> BOOLEAN] /\ produced \in [Case -> [Line -> Nat]]
  /\ formCase \in [Form -> Case \cup {NoCase}] /\ formVersion \in [Form -> 1..MaxVersion]
  /\ formState \in [Form -> CaseStatus] /\ formPriority \in [Form -> Priority]

Exists(c) == state[c] # "none"

\* As long as no edit of the sales order wrote over another, the case that stands
\* for its current revision says what the order says: an intake that is answered
\* with this case does not miss a change.
SnapshotTellsRevision ==
  \A c \in Case : Exists(c) /\ aboutRevision[c] = revision /\ ~raced => snapshot[c] = lines

\* As long as no edit wrote over another, an order that was shipped has a movement
\* for each of its lines, whichever way it was shipped, approved or edited since:
\* intake refuses no order for stock that was never posted.
ShippedHasLeftStock == Committed(sales) /\ ~raced => lines \subseteq posted

\* A revision of the order has one case, and a case makes one production order for
\* each of its lines, all at once and once only.
ProducedOncePerRevision ==
  /\ \A c, d \in Case : Exists(c) /\ Exists(d) /\ aboutRevision[c] = aboutRevision[d] => c = d
  /\ \A c \in Case, l \in Line :
       produced[c][l] = IF state[c] = "converted" /\ l \in snapshot[c] THEN 1 ELSE 0

\* Nobody's work is lost: details are written over only by somebody who saw the case
\* as it is, since every handler counts the version.
EditsSeeLatest ==
  [][\A c \in Case : Exists(c) /\ priority'[c] # priority[c] =>
       \E k \in Form : formCase[k] = c /\ formState[k] = state[c] /\ formPriority[k] = priority[c]]_casesVars

-----------------------------------------------------------------------------
(* The invariants behind them *)

\* As long as no edit wrote over another: one status at most waits for approval, only
\* while the order does, and with its stock posted already; and what an edit read of the current
\* revision is the order as it is, for a decision alone counts no revision, and no
\* edit has read an order that waits for one.
EditsInvariant ==
  ~raced =>
    /\ asks # {} => sales = "pending_approval"
    /\ \A st, other \in asks : st = other
    /\ \A st \in asks : Committed(st) => lines \subseteq posted
    /\ \A r \in Edit : base[r] <= revision
    /\ \A r \in Edit :
         editPhase[r] = "read" /\ base[r] = revision =>
           /\ from[r] = sales /\ sales # "pending_approval"
           /\ kept[r] = lines

\* A case is of a revision the order has had, its revisions are recorded without a
\* gap, and it has its production orders once it is converted.
CasesInvariant ==
  \A c \in Case :
    /\ number[c] = version[c]
    /\ Exists(c) => recorded[c] = 1..number[c]
    /\ Exists(c) /\ ~raced => aboutRevision[c] <= revision
    /\ linked[c] <=> state[c] = "converted"

\* A form shows a version the case has had, and if it is the case's last, the case.
FormsInvariant ==
  \A k \in Form :
    formCase[k] # NoCase =>
      /\ Exists(formCase[k]) /\ formVersion[k] <= version[formCase[k]]
      /\ formVersion[k] = version[formCase[k]] =>
           formState[k] = state[formCase[k]] /\ formPriority[k] = priority[formCase[k]]
=============================================================================
