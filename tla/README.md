# Verification of the production backend

TLA+ models of the production system in this repository (an Express and
PostgreSQL backend under `src/`, a React client under `web/`), model-checked with
TLC and proved with TLAPS. Paths below are relative to the repository.

## 1. The system

| Part | State | Operations | What makes it correct |
|---|---|---|---|
| **Production workflow** `src/routes/production-workflow.ts`, `production-lifecycle.ts`, `src/domain/production-lifecycle.ts` | `production_workflow_orders`, `production_transition_events`, `production_lifecycle_adjustments` | create, claim, receive, warehouse decision, dispatch, advance stage, quality, deliver, confirm, generic transition, partial completion, split, cancel | every move is in the canonical table and on record; one decision on the materials is carried out; what was issued is returned on cancellation; finished goods enter once for each delivery |
| **Transfers** `src/routes/operations-control.ts` | `operation_transfers`, `stock_movements` | create, receive | a transfer posts its movement once |
| **Portal lines** `src/routes/portal.ts`, `portal-orders.ts`, `src/lib/cancellation.ts` | production orders of one `salesOrderRef`, `portal_order_reviews` | submit, confirm, reject, claim, cancel | a batch is reviewed once; a customer cancels as far as the rules allow |
| **Outbox** `src/lib/outbox*.ts` | `outbox_events` | enqueue, drain, immediate attempt, retry, give up, purge | notifications exactly once, alerts at least once, no message forgotten |
| **Sagas and human tasks** `src/lib/sagas.ts`, `humanTasks.ts` | `saga_instances`, `human_tasks` | advance, fail, compensate, resume; claim, close, reassign, escalate | steps in order, every saga ends, no overdue task is silenced |
| **Sales orders and stock** `src/routes/sales.ts`, `src/lib/stock.ts` | `sales_orders`, items, `inventory_items.qty`, `reserved_qty` | create, change status, edit lines, delete | an order's stock is what its status says |
| **Approvals** `src/lib/approvals.ts`, `src/routes/governance.ts` | `approval_requests` | request, approve a step, reject | every step is signed; a rejection gives back what the order took |
| **Operations plans** `src/routes/operations-plans.ts`, `src/lib/operationsReservations.ts` | `operations_plans`, their reservations | draft, submit, decide, release, consume | one approved plan per order; what is reserved is given back once |
| **Production requests** `src/routes/production-requests.ts` | `production_requests` | create, warehouse and director decide, cancel | one order per request, for an agreed quantity |
| **Operations cases** `src/lib/operations-intake.ts`, `src/routes/operations-manager.ts` | `operations_cases`, lines, revisions | intake, validate, question, edit, convert | a case tells a revision and is produced once |
| **Portal teams** `src/routes/portal-team.ts`, `portal-join.ts`, `portal-companies-*.ts` | `portal_members`, `portal_company_codes` | join, add, approve, reject, suspend, remove, reactivate; rotate, archive | the team keeps to its size; a decision fits what it is written over |
| **Chat** `src/lib/chatService.ts`, `src/routes/portal-chat.ts`, `chat-staff.ts`, `web/src/chat/useThread.ts` | `chat_conversations`, `chat_messages`, the screens | post, retry, poll, close, reopen, rate, transfer, sweep | stored once, shown, waited for, noticed |

What else there is (purchasing, identity, audit chain, master data, planning views,
reports, backup, the client) is listed in section 6 and in `PROJECT.json`.

How the parts interact: all of them share rows in one database. A request usually
reads a row, checks it, opens a transaction, takes some row `FOR UPDATE`, and
writes; what it read before the lock it sometimes reads again and sometimes not.
Inventory items are shared by sales orders (reserve, release, deduct), plans
(reserve, consume), production orders (deduct, return, finish) and purchases. A sales
order that is confirmed is received into a case, a case is converted into production
orders; a production request becomes a production order; a transfer received for a
production order consumes the reservation of the plan of its sales order. The outbox
carries what could not be notified at once. Schedules (every 15 minutes, daily) drain
the outbox and the sagas and escalate tasks and waiting customers; they overlap with
each other and with what people do.

What is hard here, and what the models are about: requests that act on what they
read before their lock, or without any; one ledger written by three helpers, one
trigger and eighteen routes; two ways of issuing material against one way of
reversing it; failures recorded after the lock of the attempt is gone; numbers that
become visible out of order; counts of seats made beside a lock; processes that stop
between an effect and its record. `PROJECT.json` lists each hazard at its line.

## 2. Modules

A component has a module of its own (state, one action per operation or per step of
it, `Spec`), a module of properties (type invariant, properties, the invariants
behind them), an MC module with the instances for TLC, and proofs. The proofs about
cases are in `IntakeProofs` beside those about requests, the other way by which work
reaches production (hence the names `CasesSpec`, `CasesTypeOK`, `editPhase`...).

| Component | Model | Properties | Instances | Proofs |
|---|---|---|---|---|
| Production | `ProductionLifecycle` (rules), `ProductionWorkflow` | `ProductionProperties` | `MCProduction` | `ProductionProofs` |
| Outbox | `Outbox` | `OutboxProperties` | `MCOutbox` | `OutboxProofs` |
| Sagas, tasks | `HumanTasks`, extended by `Sagas` | `SagaProperties` | `MCSaga` | `SagaProofs` |
| Sales, approvals | `SalesOrders` | `SalesProperties` | `MCSales` | `SalesProofs` |
| Plans | `OperationsPlans` | `PlansProperties` | `MCPlans` | `PlansProofs` |
| Requests | `ProductionRequests` | `RequestsProperties` | `MCRequests` | `IntakeProofs` |
| Chat | `Chat` | `ChatProperties` | `MCChat` | `ChatProofs` |
| Teams | `PortalTeam` | `TeamProperties` | `MCTeam` | `TeamProofs` |
| Cases | `OperationsCases` | `CasesProperties` | `MCCases` | `IntakeProofs` |

Two abstract specifications are implemented: `CanonicalOrder` (what an order may do,
whoever does it) by `ProductionWorkflow`, `OutboxPromise` (what may happen to a
message, and that it must end) by `Outbox`; the refinement mappings are in the
modules of properties. `Sagas` composes the engine with the tasks its steps leave;
`ProductionWorkflow` orders, stock, transfers and portal batches; `SalesOrders` orders,
stock and approvals; `OperationsPlans` plans with the transfers that consume them;
`OperationsCases` the sales order with the cases that tell of it.

The variables are documented, with their columns, where each module declares them.
Common conventions:

- A transaction is one action. A read before it is an action of its own where its
  result is still used after the lock; the other early reads are repeated under the
  lock, and the refusals they add are refusals the action's guard already makes.
- A request between its read and its write is a row of `phase` (or `requests`,
  `receiving`, `deciding`): what it has read, about what, and what it decided. `Refuse`
  is a request that ends without writing: refused input, a failed check, a conflict.
- History variables say what happened and steer no action: the field `qty` of an event (the
  order's quantity when it moved), `overlaps` and `raced` (two
  requests were about the same thing at once), `signed`, `agreed`, `overridden`,
  `effect`, `tries`, `held` (reserved less released), `out` (moved out less in),
  `misjudged`, `stretched`, `overtaken`.
- The routes do race, and much of what they promise holds only while they do not.
  Such a property says so with a history variable and then covers every other
  interleaving: requests about other orders, a retry, a decision long after. What
  holds in every interleaving is stated without it. What a race does break is listed
  in section 5.
- Operators named after an action with a suffix (`StaffCancelDirect`,
  `DecisionCommitUnchecked`...) are that action with one plausible mistake. They are
  not part of `Next`; `PROJECT.json` pairs each with the property that catches it.

### Production workflow

| Variable | Column or table |
|---|---|
| `status`, `revision` | `workflow_status` (`"absent"` before the insert), `lifecycle_revision` |
| `events`, `adjustments` | `production_transition_events`; types present in `production_lifecycle_adjustments` |
| `qty`, `parent`, `portal`, `review` | `qty`, `parent_workflow_order_id`, whether `portal_customer_id` is set; `portal_order_reviews` of the one batch |
| `stage`, `quality`, `toInventory`, `requested` | `current_stage`, `quality_status`, `pending_delivery_add_to_inventory` with an item, `requested_materials` |
| `stock`, `moved` | `inventory_items.qty`; movements of production, summed per order, item and cause |
| `transfers` | `operation_transfers`; `"late"` marks one received when its order was already cancelled |
| `receiving`, `deciding` | requests between their unlocked read and their transaction |

Actions, named after their routes: `Create`, `Claim`, `ReceiveRead`/`ReceiveCommit`,
`DecisionRead`/`DecisionCommit`, `MaterialsReject`, `Dispatch`, `AdvanceStage`,
`QualityDone`, `Deliver`, `ConfirmDelivery`, `Transition`, `PartialCompletion`,
`Split`, `StaffCancel`, `PortalSubmit`, `PortalConfirm`, `PortalReject`,
`PortalCancelEarly`, `PortalCancelCompany`, `CreateTransfer`, `ReceiveTransfer`.

Abstractions. A quantity counts units of its column, `numeric(12,3)`: thousandths. The
materials of an order are computed as floats, `qty * (orderQty / outputQty)`, and rounded
with `toFixed(3)`; the model divides by `Batch`, the recipe's output, and takes a nearest
whole number (`Rounded`), either of two where they are equally near, since a float may
fall on either side there. The difference a float makes elsewhere is below what twelve
digits show. Approved quantities may have a fourth decimal, which the column rounds; the
model sends rounded ones. A decision is a sequence of lines, as sent, that name any
item any number of times; a line that the check passes over and the deduction refuses,
because it is no positive number, is a line of quantity 0. A recipe names a material
once. Roles matter only in the warehouse decision. Reasons, evidence, prices, audit rows,
notifications and the optional `expectedRevision` are left out. Keys of staff transfers
differ from the keys of prepared ones; orders belong to sales orders without an approved
plan (the module of plans has the transfers that consume one); requests and cases insert
the row that `Create` inserts.

### Outbox

`state`, `attempts`, `due`, `kind` are the row; `notified`, `sent`, `tries` what
happened; `pc`, `queue`, `current`, `seen` a worker, a request that drains. `StartDrain`
(or `EnqueueAlert`, the immediate attempt), then for each id `Take`
(`FOR UPDATE SKIP LOCKED`), the handler (`Notify`, `Send` and `AlertDone`, or `Fail`),
and after a failure `RecordFailure`, a statement of its own. `Crash` stops a process
anywhere, `Disconnect` takes the lock from a handler that goes on, `StatementFails` is
a row that could not be read or a failure that could not be recorded; time is
`ComesDue` and `Purge`.

Abstractions: an insert whose dedupe key is taken is no step; the `LIMIT` of a drain
is above `MaxEvent`; delays are `due` alone; a channel accepts an alert at most once per
attempt; a handler of an unknown type is one that fails; the first id of a list is
always tried; the manual statement that revives dead rows is left out.

### Sagas and human tasks

`StartSaga`, `Advance` (run a step, run out, resume after a task, compensate),
`StepThrows` with `RecordFailure` or `LoseFailure`, `ComesDue`; of tasks `ClaimTask`,
`CompleteTask`, `CancelTask`, `ReassignTask`, `DeadlinePasses`, `EscalateTask`. A step of
a plan is `"next"`, `"task"` or `"done"`: what it makes of the saga when it succeeds.
A task's key is the saga and the step that left it. Names, priorities, comments,
reminders and back-off times are left out. No code under `src/` calls `startSaga` yet:
the registry has one definition, `follow_up_call`.

### Sales orders, stock and approvals

`Create`, `ReadOrder`, `ReadLines`, `LockLines`, `GetLines`, `EditStatus`, `EditLines`,
`AddLine`, `DropLine`, `Delete` are the routes of `sales.ts` and the locks they wait for;
`ReadApproval`, `ApproveStep`, `ApproveLast`, `Reject` those of `governance.ts`;
`StockElsewhere` is everybody else who reserves, releases, takes or brings the item.
One item is modelled and a line asks for one unit of it: lines are locked and
deducted one by one, so several items differ only in which of them falls short.
An edit always writes a status: one that sends none is modelled as one that sends the
status it read, which differs only where another edit changed the status meanwhile, the
raced orders that the properties exclude (the same holds of the edits of `OperationsCases`).
Prices, balances, numbers, channels, roles and delegation are left out.

### Operations plans

`BeginCreate`/`Create`, `Submit`, `BeginApprove`/`ReadOlderRows`/`Approve`, `Reject`,
`BeginRelease`/`Release`, and `BeginConsume`/`ReadPlanRows`/`Consume`, the receipt of a
transfer; `StockElsewhere`. `first` and `seenUsed` are the reservation row as read before
the lock of the item. A transfer moves one unit; a decision by hand and one made on
submission (`SelfApproved`, the plans of level 0) are both there. A request that the
database stops because two wait for each other ends with `Refuse`.

### Production requests

`Create`, `BeginWarehouse`/`WarehouseAction`, `BeginDirector` with `Approve`, `Override`
or `Reject`, `BeginCancel`/`Cancel`. The warehouse's decision and the cancellation write
without looking again; the director's decision looks again under the lock, converts,
and finds an order that exists by its canonical source.

### Operations cases

The sales order as operations see it: `EditRead`, then `EditStatus`, `EditLines`,
`AddLine` or `DropLine`, `Decide` (its approval). Of cases `Intake`, `StartValidation`,
`CompleteValidation`, `RequestClarification`, `ResumeValidation`, `OpenForm`/`SaveForm`,
`Convert`; `Recipes` is the master data that conversion needs. Every operation of a case
takes its row's lock and is one step. One sales order is modelled, created as a draft;
a line stands for an item with its quantity, and a movement is that of the item; due
date, assignee and priority are one detail.

### Portal teams

`LookUp`, `ReadJoin`/`Join`, `ReadAdd`/`Add`, `ReadApprove`/`Approve`, and the moves that
lock nothing: `ReadMove` (suspend, remove, reject), `ReadReactivate`,
`ReadStaffReactivate`, all ended by `Move`; `Switch`, `ReadActivate`/`Activate`, `Archive`,
`Restore` of the company, `Rotate` and `SetMode` of its code. The owner holds a seat and
never changes, nor does the size of the team (`MaxMembers`), a setting that can be edited: a
smaller one applies to those who join later. Roles, overrides and limits of members,
sessions, and the deletion of a company are left out.

### Chat

`SendCustomer`, `BeginSend`/`SendStaff` insert a message that takes its number;
`CommitPost`, `RollBack`, `AutoReply`, `Answer`, `Lose` are what may follow;
`BeginTransfer`/`Transfer`, `BeginClose`/`InsertClosure`/`CommitClosure`,
`BeginReopen`/`Reopen`, `BeginRating`/`Rate`; `Open`, `Poll` and `MarkRead` are the
client's; `FindOverdue`/`Escalate` the sweep's. `screens` is what a client shows and its
cursor. One conversation is modelled, which exists. Who may see or claim it, delivery
and read ticks, notes the system writes, the cool-down of the automatic reply, hidden
messages, attachments and notifications are left out.

## 3. Runs

| Run | Question | Bounds |
|---|---|---|
| `ledger` | Does the ledger conform and agree with adjustments and deliveries, do the routes implement `CanonicalOrder`? | one order, quantity up to 2, 13 changes of status, one request in flight, decisions of one line |
| `stock` | Is one decision carried out, do transfers, a cancellation and a split keep material and quantities right, does a request in flight still cover its order? | two orders, quantity up to 2, 4 changes of status, two requests in flight, decisions of two lines, a recipe with output 2, stock 2, one client key |
| `issued` | Is nothing deducted beyond the request? (No.) | one order, one request in flight, decisions of two lines |
| `outbox` | Are settled rows final, is no row given up early, is every message delivered or given up (`OutboxPromise`)? | two workers, two messages, two attempts, one fault |
| `saga` | Do steps run in order, does every saga end, does every overdue task reach the top? | one saga of either of two definitions, two workers, two attempts, one lost record |
| `sales` | Is the stock what the statuses say, is every step of an approval signed? | one order of two lines, an approval of two steps, two requests in flight, stock 2 |
| `plans` | One approved plan, given back once, never astray? | two plans of one order, a second order without, two requests in flight, stock 2 |
| `requests` | One order per request, for an agreed quantity; does the status tell? | two requests, three sessions, quantity up to 2 |
| `chat` | Stored once, skipped only if overtaken, idle polls idle, the last word waited for, the wait noticed? | a customer, one of the staff, three keys, two requests in flight, a sweeper, two messages |
| `team` | Does the team keep to its size, do decisions fit what they are written over? | two people beside the owner, a team of two, two requests in flight, two codes, two uses |
| `cases` | Does a case tell its revision, is it produced once, is nobody's edit lost? | two cases, two lines, two edits in flight, one form, 3 revisions, 6 versions |
| `plans_released` | Is nothing released twice? (No.) | as `plans` |

Every one of these systems may rest for ever (a closed order, a decided request, a
settled message), so deadlock is not checked but in `chat`, where a client can always
poll.

**Why the bounds are enough.** Thirteen changes of status cover submission,
production, quality, delivery, a correction and a second delivery; `FewDetours` stops
an order that went through `held`, `rework` or `partially_completed` after six, and one of
more than a unit after five, which covers each of these detours once, at any place of
the first delivery's way up to there. An order of one unit is enough for the deliveries:
finished goods are compared with the sum of what was delivered, which one repeated
confirmation exceeds. `ShortPair` (stock) lets one order of the run race with everything,
and two with each other for three changes of status, one request at a time and the
keepers' transfers only; of two decisions in flight one has a single line. The two orders
are symmetric. With a recipe of one unit for two, what one unit needs lies half way
between two quantities, so that rounding up and rounding to nothing both occur. Materials
are independent of each other in every property but the order in which a full decision deducts them, which is one
transaction. Two requests in flight are every pair of racing requests; three sessions,
where a third can undo what two did, are checked where the state is small enough
(`requests`), and the theorems cover any number. Two workers show every race of a
pair, since a row has one holder and a count is overwritten by one record at a time.
Two plans are an old and a new one; a second order shares the item with them. A team
of two is full with one more than the owner, so that each of two people finds it
both full and not. Two cases and three revisions are a case, the one that
stands for a later revision, and an edit after both. `FewRaces` (sales) stops what
has raced already, of which the properties say nothing further; `FewKinds` (outbox)
lets the first message be of any kind and the second be a notification; `InTurn`
(cases) lets edits of the sales order race with each other, and the handling of a case
and its form happen between edits that have ended: a case's operations read the
sales order once, in one transaction, so that an edit in flight is to them one that
has not begun or has ended.

**Fairness.** Nothing obliges a person to act, so production, sales, plans, requests,
cases and teams assume no fairness and promise no liveness. The outbox assumes that
time passes (`ComesDue`), that some process keeps being called to drain
(`outbox-drain.yml`, every 15 minutes, and the daily jobs), that a running worker takes
its next step unless it stops, and that the statement recording a failure gets its
turn on a row other workers keep locking (strong fairness: PostgreSQL queues a waiting
`UPDATE`, drains skip a locked row). The sagas assume that a due saga is tried, which
says nothing of what its step does, that a worker goes on to record a failure, and that
time passes; of tasks, that deadlines pass and the escalation job is called. The chat
assumes that the sweep runs and that a closure in its transaction commits. Faults and
lost records are bounded (`MaxFaults`, `MaxLost`): an attempt that is lost each time
before it is counted would be repeated for ever. `EverySagaEnds` excepts a saga whose
task is left unanswered for ever.

**The findings.** `issued` refutes what `src/lib/warehouseDecisionCore.ts:30` and
`docs/PROJECT_STATUS.md:131` say of a partial decision, that no quantity is more than was
requested: the check looks at the first line of each requested material, an executive's
decision deducts every line it is sent (`production-workflow.ts:1171`). A request of one
unit and two lines of one unit take two. What does hold is `OneDecisionCarriedOut`: a
full decision takes what was requested and a keeper's transfer no more.

`plans_released` refutes what `src/lib/operationsReservations.ts:11`
says of a release, that it gives back what was not consumed. The release by hand and
the receipt of a transfer read the same reservation before the item's lock, and both
give its material back: what was reserved for somebody else is released, and the
receipt leaves the row active again, with no reserve behind it. `plans` shows that
nothing of the kind happens where no two requests are about one order at once.

## 4. Proofs

The theorems hold for every value of the constants that satisfies the module's
assumption: identifiers do not collide, amounts are natural numbers, what is summed or
counted (`Order` and `Material` of production, `Plan`, `Line` of sales, `Person` of teams)
is finite, since it is rows of a table, and there is an order to have a plan of and a
priority to give a case. So they hold for any
number of orders, lines, requests, workers, messages and steps, with no bound but the
ones a module has as constants. Each rests on inductive invariants, the `...Invariant`
definitions of the module of properties. What a theorem says of a property of a run, TLC
shows on the run's instance; TLC also checked each invariant before it was proved.

- **Production, types and ledger** (`TypeCorrect`, `LedgerCorrect`, `LedgerConformance`,
  `LedgerHistory`, `Refinement`). Types are one lemma per group of
  actions; what is not bookkeeping is that no level, quantity or total goes below zero.
  The conformance check is not inductive: that revisions are unique and without gaps
  after a move needs that the newest event carries the current revision, which fails for
  a line cancelled on the customer side; hence the invariant says that only such a line
  is exempt, that it is final, and that no other cancelled order lacks its adjustment.
  Every action, seen from one order's row and ledger, leaves it alone, opens it, moves
  it on record along the table, or withdraws a portal line (`StepShape`); each shape
  keeps the invariant, and maps to a step of `CanonicalOrder`.
- **Production, beside the ledger** (`AdjustmentsOnRecord`, `FinishedGoodsCounted`,
  `SplitConserves`). Adjustments follow from the shapes. Finished goods are counted
  against events: `DeliveryInvariant` says how many deliveries and corrections are on
  record in each status, so that a second delivery needs a correction in between, and that
  what entered stock is at most the sum of the quantities that the deliveries recorded.
  A split takes from one row what it puts into a row that had nothing (`UnopenedInvariant`).
- **Production, materials** (`RequestCovers`, `OneDecision`, `TransfersCorrect`,
  `TransfersPosted`, `CancelReverses`). `GoodsStep` says which actions touch material at
  all. What is asked for is short of the exact amount by half a unit at most, and stays so
  when a split takes from the order (`RequiredAmounts`, `StillCovered`). The lines that a
  partial decision could deduct take no more than there is, however often they name an item
  (`TakenWithinStock`, along the last of them). A decision that was read before another one
  committed finds a status that has
  moved (`RequestInvariant`, `IssueInvariant`): no order comes back to a status in which
  nothing was requested or issued yet (`BeforeRequest`, `BeforeDecision`). So the decision
  that is carried out finds nothing issued and none on record, and the one it records is the
  only one for good. What transfers
  posted is a sum over those received; a receipt adds one row to it and posts that row's
  quantity, and a key is of one transfer (`TransferInvariant`). From its cancellation on,
  nothing an order's reversal is the sum of can change (`ReversalInvariant`).
- **Outbox** (`OutboxCorrect`, `OutboxTypes`, `ExactlyOnce`, `AtLeastOnce`,
  `GivenUpLast`, `SettledForGood`, `Refinement`). A held row is pending and has one
  holder; the count a worker read, and will write later, is below `MaxAttempts` and
  below the attempts made, so that overwriting one with another only adds attempts.
- **Sagas** (`SagaTypes`, `SagaCorrect`, `InOrder`, `OneLevelAtATime`). What a worker has
  still to record was true when it read it; a late record may set a saga back or
  end it, and never makes a step run before those ahead of it have passed.
- **Sales** (`SalesCorrect`, `SalesTypes`, `StockFollows`, `StockAccounted`,
  `SignedThroughout`, `StaysCancelled`). What a request read is still so unless another
  was about the same order; an order nobody raced for waits for one approval at most; the
  steps below the one a decision read are signed in any case. The item's quantities are
  counted over lines: a settlement moves a set of lines out of one account and another
  set into another (`LinesMoved`), so what the item holds is the number of the lines that
  hold it; and by `StockFollows` those are the lines whose order says so.
- **Plans** (`PlansCorrect`, `YieldsOnlyToApproval`, `EndedStay`), in every
  interleaving: the plan under decision is open and locked, what the decision found
  approved has at most been superseded since. `HeldCorrect` adds what is held, with
  `TypesCorrect`, `OneApproved` and `HeldIsRecorded`: a request that is alone at its order
  reads what is still so when it writes (`ReadIsCurrent`), and plans of other orders are
  not touched. An approval reads one row of the older plans before the item's lock and
  the others under it, and gives back the sum of what they hold.
- **Requests** (`RequestsCorrect`, `OneOrder`, `StatusTells`, `StaysDecided`,
  `DecidesOnce`). What a session read is still so unless another was about the request.
- **Cases** (`CaseTypes`, `CaseTellsRevision`, `ShippedIsPosted`, `ProducedOnce`,
  `SavedFromLatest`). Everything hangs on what an edit of the sales order has read: as
  long as none wrote over another, what it read of the current revision is the order as
  it is, because only a decision changes the order without counting a revision, and an
  order that waits for a decision cannot be read by an edit (`EditsInvariant`). Hence the
  revision it writes is new, no case tells it yet, and what it ships it deducts. A form
  whose version is the case's shows the case, since every handler counts
  (`FormsInvariant`).
- **Chat** (`ChatCorrect`, `MessagesSentOnce`, `PollingSkipsNothing`, `ClockTellsLastWord`,
  `IdlePollsAreIdle`). A transaction in flight has a pending row of its own with the
  key and author it was given; a client holds stored messages only.
- **Teams** (`TeamCorrect`, `KeepsToItsSize`, `LawfulMoves`, `BackByCode`, `CodeWhileOpen`,
  `StaysClosed`). One request holds the company; a seat counted as free is still free
  when it is taken, unless one was taken without counting.

Sums. The provers cannot instantiate an induction theorem, whose induction predicate is
an operator, but they can take the least of a set: the lemmas on sums
(`SumExists`, `AnyOrder`, `SameSum`, `SumAdd`, `SumNat` in `PlansProofs` and
`ProductionProofs`) look at a smallest counterexample among the subsets of a finite set, with
`WFMin` and the well-foundedness of strict inclusion. They say that `SumFunction` of
the community modules, which takes out members in an order nobody knows, gives the same
result whichever member is taken first, and so what a change of one row does to it.

Model-checked only: liveness under fairness, which the prover does not reach:
`EverySagaEnds`, `OverdueReachesTheTop`, `WaitIsNoticed`, and the half of `FulfilsPromise`
that says that no message waits for ever. And the findings, which are counterexamples.

## 5. What was met on the way

Beside the findings, the code does the following; the models do it too, and no property
contradicts it.

- Production. A transfer prepared by the keeper and received after the cancellation
  deducts material for a cancelled order (`operations-control.ts:417`); material that a
  transfer had brought back is brought back again by a cancellation
  (`production-workflow.ts:2221`): `CancelReversesDeductions` says what does hold. A
  delivered order may be cancelled by its company (`cancellation.ts:51`), and statuses
  missing from the scale are never beyond the company's limit (`:95`). A batch can be
  rejected when its lines are in production (`portal-orders.ts:574`). Cancellations by the
  customer write no event, so the conformance check reports them. An order that got
  to production by the generic route has no stage and `advance-stage` always refuses it
  (`production-workflow.ts:1604`); `quality_status` stays `passed` after a correction
  (`:1644`); the executive decision looks for unfinished children outside its transaction
  (`:1031`). `POST :id/transition` records a decision of the warehouse that nobody took, and
  nothing is issued for it (`production-lifecycle.ts:202`). A material whose amount rounds to
  nothing is not prepared, and makes an executive's full decision fail (`stock.ts:48`).
- Outbox. Two workers that fail on one row both record the count they had read, so a row
  may be tried more often than `max_attempts` (ADR 0006 says six); never less.
- Sagas. A failure recorded late may reopen or fail a saga that ended; a
  compensation that throws is retried without back-off; a manager cannot reassign a
  task that is open.
- Sales. Of two racing edits the later may bring a cancelled order back
  (`sales.ts:814`); an edit that waited for lines that were replaced ships without
  deducting (`:831`); a change from draft to `pending_approval` by `PATCH` leaves an order
  that waits for no request (`:834`). Movements do not look at reservations, so the
  quantity may fall below what is reserved. The deletion of a movement reads it
  without a lock, so two deletions may reverse it twice (`movements.ts:121`; not modelled).
- Plans. A transfer for an order without plan takes material reserved for others.
- Requests. A late decision of the warehouse or cancellation overwrites a request that
  was converted; its order runs on.
- Cases. Racing edits may give two contents one revision (`sales.ts:855`), for which
  intake answers with the old case; every change of a sales order's status is a new
  revision, so the same lines can be received and produced again; an order cancelled after
  intake is still converted; a case whose production order is cancelled cannot be
  converted again.
- Chat. The automatic reply is not shown by polling until another message comes
  (`portal-chat.ts:163`); a message committed after one with a higher number, or before a
  client's own, is skipped until the thread is opened again; a transfer writes the
  waiting state as it read it (`chat-staff.ts:441`); an edited text sent again with its
  old key is answered with the old message.
- Teams. The staff's reactivation counts no seats (`portal-companies-admin.ts:160`), the
  company's counts without the lock (`portal-team.ts:473`); a rejection may race an
  approval (`:631`); an activation may reopen a company archived meanwhile
  (`portal-customers-admin.ts:262`); the setting `join.code.max_uses` reaches no code.

## 6. Not modelled

- **Idempotent commands** (`src/lib/command.ts`): exported and tested, called by no route.
- **Purchasing and receiving**: every change locks the purchase order first and recounts
  under the lock; what is left is arithmetic on quantities and prices.
- **Audit chain**: a hash chain appended under one advisory lock; its correctness is
  that of the hash, which a model would assume.
- **Identity and authentication**: credentials, counters and expiry of single accounts.
- **Inventory corrections and movements by hand** enter the models as what others do to an
  item (`StockElsewhere`), but for their deletion. **Engineering, bills of materials, planning, capacity, execution logs, OEE,
  oversight, settings, permissions, SLA and digests** are master data, configuration or
  views computed from what is modelled. **Legacy production orders** are superseded
  (ADR 0001, 0002). **Archive, trash, wipe, backup, scripts and migrations** are maintenance;
  only the trigger of migration 0055 is part of a model. **The client** keeps no
  authoritative state; its chat thread, which does decide what is shown, is in `Chat`.

What is left to do: an abstract specification of one item's stock that sales orders and
plans both implement; the team's limits per member; several conversations and their claims; the
composition of cases with the production orders they make, which here is a count.
