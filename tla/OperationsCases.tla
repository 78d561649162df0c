---------------------------- MODULE OperationsCases ----------------------------
(***************************************************************************)
(* Operations cases: a confirmed sales order received into operations,     *)
(* validated, and converted into production orders                         *)
(* (src/lib/operations-intake.ts, src/routes/operations-manager.ts, the    *)
(* conversion of src/routes/production-lifecycle.ts).  Cases are handled   *)
(* under their row's lock.  The sales order they tell of goes on changing: *)
(* its edits (src/routes/sales.ts) read its status and revision without a  *)
(* lock, and are modelled as far as operations see them.                   *)
(*                                                                         *)
(* Production requests come to the same production orders; what both       *)
(* modules have is named apart here, so that IntakeProofs can extend both. *)
(***************************************************************************)
EXTENDS Naturals, FiniteSets

CONSTANTS
  Case,         \* rows of operations_cases that may come to exist
  Line,         \* what a line may ask for: an inventory item and its quantity
  Priority,     \* the details of a case that may be edited
  Form,         \* open forms of these details
  Edit,         \* requests in flight that edit the sales order
  MaxRevision,  \* bound: revisions of the sales order
  MaxVersion,   \* bound: versions of a case
  NoCase        \* no case

ASSUME CasesAssumption ==
  /\ NoCase \notin Case /\ Priority # {}
  /\ MaxRevision \in Nat \ {0} /\ MaxVersion \in Nat \ {0}

VARIABLES
  sales,         \* sales_orders.status of the order
  revision,      \* sales_orders.revision
  lines,         \* its sales_order_items
  posted,        \* items with a movement out for the order
  asks,          \* original status of the order's pending approval requests
  editPhase,     \* of an edit: what it has read
  from,          \* the status it read
  base,          \* the revision it read
  kept,          \* the lines there were when it read, less those deleted since
  raced,         \* whether an edit wrote over another one (a history variable)
  known,         \* items with one recipe
  state,         \* operations_cases.status; "none" before the insert
  aboutRevision, \* operations_cases.sales_order_revision
  snapshot,      \* operations_case_lines
  number,        \* operations_cases.current_revision
  version,       \* operations_cases.version
  recorded,      \* revisions in operations_case_revisions
  priority,      \* the details
  linked,        \* whether workflow_order_id is set
  produced,      \* production orders made of the case, per line
  formCase, formVersion, formState, formPriority  \* what an open form shows

salesVars == <<sales, revision, lines, posted, asks, raced>>
editVars == <<editPhase, from, base, kept>>
contentVars == <<aboutRevision, snapshot, priority>>
conversionVars == <<linked, produced>>
caseVars == <<state, number, version, recorded, contentVars, conversionVars>>
formVars == <<formCase, formVersion, formState, formPriority>>
casesVars == <<salesVars, editVars, known, caseVars, formVars>>

SalesStatus == {"draft", "pending_approval", "confirmed", "shipped", "paid", "cancelled"}
CaseStatus ==
  {"none", "received", "under_validation", "needs_sales_clarification", "analysis_ready", "converted"}

\* VALID_OPERATIONS_SALES_STATUSES
Valid == {"confirmed", "shipped", "paid"}

Committed(st) == st \in {"shipped", "paid"}

\* computeStockAndBalanceEffects: the changes of status it allows.
Allowed(a, b) ==
  \/ a = b
  \/ a \in {"draft", "confirmed", "shipped", "paid"} /\ b = "cancelled"
  \/ <<a, b>> \in ({"draft"} \X {"pending_approval", "confirmed", "shipped", "paid"})
                    \cup ({"confirmed"} \X {"shipped", "paid"}) \cup {<<"shipped", "paid">>}

-----------------------------------------------------------------------------
(* The sales order *)

\* Every edit reads the order without a lock.
EditRead(r) ==
  /\ editPhase[r] = "idle" /\ sales # "pending_approval"
  /\ editPhase' = [editPhase EXCEPT ![r] = "read"]
  /\ from' = [from EXCEPT ![r] = sales]
  /\ base' = [base EXCEPT ![r] = revision]
  /\ kept' = [kept EXCEPT ![r] = lines]
  /\ UNCHANGED <<salesVars, known, caseVars, formVars>>

Free(r) ==
  /\ editPhase' = [editPhase EXCEPT ![r] = "idle"]
  /\ from' = [from EXCEPT ![r] = "draft"] /\ base' = [base EXCEPT ![r] = 1]

\* The edit is refused, or fails and is rolled back.
RefuseEdit(r) ==
  /\ editPhase[r] = "read" /\ Free(r)
  /\ kept' = [kept EXCEPT ![r] = {}]
  /\ UNCHANGED <<salesVars, known, caseVars, formVars>>

\* The revision is counted up from the one read, whatever it is by now.
Written(r, n, deleted) ==
  /\ editPhase[r] = "read" /\ base[r] + n <= MaxRevision
  /\ revision' = base[r] + n
  /\ raced' = (raced \/ base[r] # revision)
  /\ Free(r)
  /\ kept' = [e \in Edit |-> IF e = r THEN {} ELSE kept[e] \ deleted]
  /\ UNCHANGED <<known, caseVars, formVars>>

\* The order takes the status st, or waits for the approval of what leaves the draft.
Enter(a, st, n, r, deleted) ==
  \/ sales' = st /\ asks' = asks /\ Written(r, n, deleted)
  \/ /\ a = "draft" /\ st \in Valid
     /\ sales' = "pending_approval" /\ asks' = asks \cup {st} /\ Written(r, n + 1, deleted)

\* Mutant of EditStatus: what is shipped from a draft leaves no movement.
EditStatusUnposted(r, st) ==
  /\ editPhase[r] = "read" /\ Allowed(from[r], st)
  /\ \E S \in {lines, lines \cap kept[r]} :
       posted' = IF Committed(st) /\ from[r] = "confirmed" THEN posted \cup S ELSE posted
  /\ Enter(from[r], st, 1, r, {})
  /\ UNCHANGED lines

\* PATCH /sales/:id without lines: it deducts the stock of the lines it locks.  If it
\* waits for a lock, it gets the rows of before that still exist.
EditStatus(r, st) ==
  /\ editPhase[r] = "read" /\ Allowed(from[r], st)
  /\ \E S \in {lines, lines \cap kept[r]} :
       posted' = IF Committed(st) /\ ~Committed(from[r]) THEN posted \cup S ELSE posted
  /\ Enter(from[r], st, 1, r, {})
  /\ UNCHANGED lines

\* PATCH /sales/:id with lines: they replace the order's.
EditLines(r, st, N) ==
  /\ editPhase[r] = "read" /\ Allowed(from[r], st)
  /\ lines' = N
  /\ posted' = IF Committed(st) THEN posted \cup N ELSE posted
  /\ Enter(from[r], st, 1, r, Line)

\* POST /sales/:id/items
AddLine(r, l) ==
  /\ editPhase[r] = "read" /\ from[r] # "cancelled"
  /\ lines' = lines \cup {l}
  /\ posted' = IF Committed(from[r]) THEN posted \cup {l} ELSE posted
  /\ Written(r, 1, {})
  /\ UNCHANGED <<sales, asks>>

\* DELETE /sales/:id/items/:itemId
DropLine(r, l) ==
  /\ editPhase[r] = "read" /\ from[r] # "cancelled" /\ l \in lines
  /\ lines' = lines \ {l}
  /\ Written(r, 1, {l})
  /\ UNCHANGED <<sales, posted, asks>>

\* Mutant of Decide: the order takes the decision for its status.
DecideByName(st, approved) ==
  /\ st \in asks
  /\ asks' = asks \ {st}
  /\ sales' = IF approved THEN "approved" ELSE "cancelled"
  /\ UNCHANGED <<revision, lines, posted, raced, editVars, known, caseVars, formVars>>

\* PATCH /governance/approval-requests/:id/decide
Decide(st, approved) ==
  /\ st \in asks
  /\ asks' = asks \ {st}
  /\ sales' = IF approved THEN st ELSE "cancelled"
  /\ UNCHANGED <<revision, lines, posted, raced, editVars, known, caseVars, formVars>>

\* Recipes are added and deleted: how many fit an item's name changes.
Recipes(S) == known' = S /\ S # known /\ UNCHANGED <<salesVars, editVars, caseVars, formVars>>

-----------------------------------------------------------------------------
(* Intake *)

\* Mutant of Intake: the revision asked for is not compared with the order's.
IntakeAsAsked(c, asked, p) ==
  /\ state[c] = "none"
  /\ \A d \in Case : state[d] = "none" \/ aboutRevision[d] # asked
  /\ sales \in Valid /\ lines # {}
  /\ Committed(sales) => lines \subseteq posted
  /\ state' = [state EXCEPT ![c] = "received"]
  /\ aboutRevision' = [aboutRevision EXCEPT ![c] = asked]
  /\ snapshot' = [snapshot EXCEPT ![c] = lines]
  /\ priority' = [priority EXCEPT ![c] = p]
  /\ number' = [number EXCEPT ![c] = 1]
  /\ version' = [version EXCEPT ![c] = 1]
  /\ recorded' = [recorded EXCEPT ![c] = {1}]
  /\ UNCHANGED <<salesVars, editVars, known, conversionVars, formVars>>

\* receiveSalesOrderIntoOperations, when it creates a case: it locks the order, looks
\* for a case of its revision (the insert would not make a second one either), and
\* takes the order over as it is.
Intake(c, asked, p) ==
  /\ state[c] = "none" /\ asked = revision
  /\ \A d \in Case : state[d] = "none" \/ aboutRevision[d] # asked
  /\ sales \in Valid /\ lines # {}
  /\ Committed(sales) => lines \subseteq posted
  /\ state' = [state EXCEPT ![c] = "received"]
  /\ aboutRevision' = [aboutRevision EXCEPT ![c] = asked]
  /\ snapshot' = [snapshot EXCEPT ![c] = lines]
  /\ priority' = [priority EXCEPT ![c] = p]
  /\ number' = [number EXCEPT ![c] = 1]
  /\ version' = [version EXCEPT ![c] = 1]
  /\ recorded' = [recorded EXCEPT ![c] = {1}]
  /\ UNCHANGED <<salesVars, editVars, known, conversionVars, formVars>>

-----------------------------------------------------------------------------
(* Handling a case, under its lock *)

\* The update of a case and recordCaseTransition.
Step(c, st) ==
  /\ version[c] < MaxVersion
  /\ state' = [state EXCEPT ![c] = st]
  /\ number' = [number EXCEPT ![c] = @ + 1]
  /\ version' = [version EXCEPT ![c] = @ + 1]
  /\ recorded' = [recorded EXCEPT ![c] = @ \cup {number[c] + 1}]
  /\ UNCHANGED <<salesVars, editVars, known, aboutRevision, snapshot>>

Move(c, A, st) == state[c] \in A /\ Step(c, st) /\ UNCHANGED <<priority, conversionVars, formVars>>

StartValidation(c) == Move(c, {"received"}, "under_validation")

CompleteValidation(c) == Move(c, {"under_validation"}, "analysis_ready")

RequestClarification(c) == Move(c, {"received", "under_validation"}, "needs_sales_clarification")

\* Mutant of ResumeValidation: the answer counts no version.
ResumeUncounted(c) ==
  /\ state[c] = "needs_sales_clarification"
  /\ state' = [state EXCEPT ![c] = "under_validation"]
  /\ UNCHANGED <<salesVars, editVars, known, number, version, recorded, contentVars, conversionVars, formVars>>

ResumeValidation(c) == Move(c, {"needs_sales_clarification"}, "under_validation")

\* A form of the details is opened.
OpenForm(k, c) ==
  /\ state[c] # "none"
  /\ formCase' = [formCase EXCEPT ![k] = c]
  /\ formVersion' = [formVersion EXCEPT ![k] = version[c]]
  /\ formState' = [formState EXCEPT ![k] = state[c]]
  /\ formPriority' = [formPriority EXCEPT ![k] = priority[c]]
  /\ UNCHANGED <<salesVars, editVars, known, caseVars>>

\* PATCH /operations-manager/cases/:id, sent from a form.
SaveForm(k, p) ==
  LET c == formCase[k] IN
  /\ c # NoCase
  /\ state[c] # "converted" /\ version[c] = formVersion[k]
  /\ Step(c, state[c])
  /\ priority' = [priority EXCEPT ![c] = p]
  /\ UNCHANGED <<conversionVars, formVars>>

\* Mutant of Convert: the case is not marked as converted.
ConvertUnmarked(c) ==
  /\ ~linked[c] /\ state[c] = "analysis_ready"
  /\ snapshot[c] # {} /\ snapshot[c] \subseteq known
  /\ produced' = [produced EXCEPT ![c] = [l \in Line |-> IF l \in snapshot[c] THEN @[l] + 1 ELSE @[l]]]
  /\ Step(c, "analysis_ready")
  /\ UNCHANGED <<linked, priority, formVars>>

\* POST /operations/cases/:id/convert: a production order for each line, or none.
Convert(c) ==
  /\ ~linked[c] /\ state[c] = "analysis_ready"
  /\ snapshot[c] # {} /\ snapshot[c] \subseteq known
  /\ produced' = [produced EXCEPT ![c] = [l \in Line |-> IF l \in snapshot[c] THEN @[l] + 1 ELSE @[l]]]
  /\ linked' = [linked EXCEPT ![c] = TRUE]
  /\ Step(c, "converted")
  /\ UNCHANGED <<priority, formVars>>

-----------------------------------------------------------------------------

CasesInit ==
  /\ sales = "draft" /\ revision = 1 /\ lines \in SUBSET Line
  /\ posted = {} /\ asks = {} /\ raced = FALSE
  /\ editPhase = [r \in Edit |-> "idle"] /\ from = [r \in Edit |-> "draft"]
  /\ base = [r \in Edit |-> 1] /\ kept = [r \in Edit |-> {}]
  /\ known = {}
  /\ state = [c \in Case |-> "none"] /\ aboutRevision = [c \in Case |-> 1]
  /\ snapshot = [c \in Case |-> {}]
  /\ number = [c \in Case |-> 1] /\ version = [c \in Case |-> 1]
  /\ recorded = [c \in Case |-> {}]
  /\ priority = [c \in Case |-> CHOOSE p \in Priority : TRUE]
  /\ linked = [c \in Case |-> FALSE]
  /\ produced = [c \in Case |-> [l \in Line |-> 0]]
  /\ formCase = [k \in Form |-> NoCase] /\ formVersion = [k \in Form |-> 1]
  /\ formState = [k \in Form |-> "none"]
  /\ formPriority = [k \in Form |-> CHOOSE p \in Priority : TRUE]

CasesNext ==
  \/ \E r \in Edit : EditRead(r) \/ RefuseEdit(r)
  \/ \E r \in Edit, st \in SalesStatus :
       EditStatus(r, st) \/ \E N \in SUBSET Line : EditLines(r, st, N)
  \/ \E r \in Edit, l \in Line : AddLine(r, l) \/ DropLine(r, l)
  \/ \E st \in SalesStatus, approved \in BOOLEAN : Decide(st, approved)
  \/ \E S \in SUBSET Line : Recipes(S)
  \/ \E c \in Case, asked \in 1..MaxRevision, p \in Priority : Intake(c, asked, p)
  \/ \E c \in Case :
       \/ StartValidation(c) \/ CompleteValidation(c)
       \/ RequestClarification(c) \/ ResumeValidation(c)
       \/ Convert(c)
  \/ \E k \in Form, c \in Case : OpenForm(k, c)
  \/ \E k \in Form, p \in Priority : SaveForm(k, p)

CasesSpec == CasesInit /\ [][CasesNext]_casesVars
=============================================================================
