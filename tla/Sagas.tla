-------------------------------- MODULE Sagas ---------------------------------
(***************************************************************************)
(* Long operations of several steps (src/lib/sagas.ts, sagaCore.ts).  A    *)
(* step runs in a transaction that holds the saga's row (FOR UPDATE SKIP   *)
(* LOCKED, its status and due time checked again there) and saves the      *)
(* saga's state with its effect; it may leave a task for a person and wait *)
(* for it.  A step that throws is rolled back, lock and all, and the       *)
(* worker records the failure afterwards, in a statement that looks at     *)
(* nothing but the id: other workers may move the saga in between.         *)
(***************************************************************************)
EXTENDS HumanTasks, FiniteSets

CONSTANTS
  Saga,         \* rows of saga_instances
  NoSaga,       \* what a worker without a failure to record holds
  Steps,        \* how many steps their definitions have
  Plan,         \* of each saga: what step 0, 1, ... of its definition does when it succeeds
  Worker,       \* processes that drain the sagas
  MaxAttempts,  \* SAGA_MAX_ATTEMPTS
  MaxSagas,     \* bound: sagas that are started
  MaxLost       \* bound: failures that could not be recorded

ASSUME SagaAssumption ==
  /\ NoSaga \notin Saga
  /\ Steps \in Nat \ {0}
  /\ Plan \in [Saga -> [0..(Steps - 1) -> {"next", "task", "done"}]]
  /\ Saga \X (0..(Steps - 1)) \subseteq Task
  /\ MaxAttempts \in Nat \ {0}
  /\ MaxSagas \in Nat
  /\ MaxLost \in Nat

VARIABLES
  status,    \* status; "absent" before startSaga
  step,      \* step_index
  attempts,  \* attempts
  due,       \* whether next_run_at has passed
  effect,    \* of each step: "none", "applied", "undone" (a history variable)
  held,      \* the saga whose failure a worker has still to record
  heldStep,  \* its step, and
  heldTries, \* its attempts, as they were read under the lock
  lost       \* failures that could not be recorded so far

rowVars == <<status, step, attempts, due>>
heldVars == <<held, heldStep, heldTries>>
sagaVars == <<rowVars, effect, heldVars, lost>>
vars == <<taskVars, sagaVars>>

StepIndex == 0..(Steps - 1)

SagaStatus == {"running", "waiting", "completed", "compensating", "compensated", "failed"}

Unfinished == {"running", "waiting", "compensating"}

Ended == SagaStatus \ Unfinished

Init ==
  /\ TasksInit
  /\ status = [s \in Saga |-> "absent"]
  /\ step = [s \in Saga |-> 0]
  /\ attempts = [s \in Saga |-> 0]
  /\ due = [s \in Saga |-> FALSE]
  /\ effect = [t \in Saga \X StepIndex |-> "none"]
  /\ held = [w \in Worker |-> NoSaga]
  /\ heldStep = [w \in Worker |-> 0]
  /\ heldTries = [w \in Worker |-> 0]
  /\ lost = 0

-----------------------------------------------------------------------------
(* Patches of a saga's row *)

Patch(s, st, i, n, d) ==
  /\ status' = [status EXCEPT ![s] = st]
  /\ step' = [step EXCEPT ![s] = i]
  /\ attempts' = [attempts EXCEPT ![s] = n]
  /\ due' = [due EXCEPT ![s] = d]

\* Compensation goes down from the step before i; with none there, it is over.
CompensateBelow(s, i, st, n) ==
  IF i = 0 THEN Patch(s, st, 0, n, due[s]) ELSE Patch(s, "compensating", i - 1, 0, TRUE)

\* Mutant of AfterStepFailure: the attempt is not counted.
AfterStepFailureUncounted(s, i, n) ==
  IF n + 1 >= MaxAttempts THEN CompensateBelow(s, i, "failed", n + 1) ELSE Patch(s, "running", i, n, FALSE)

\* afterStepFailure: try again later; after the last attempt undo the steps before.
AfterStepFailure(s, i, n) ==
  IF n + 1 >= MaxAttempts THEN CompensateBelow(s, i, "failed", n + 1) ELSE Patch(s, "running", i, n + 1, FALSE)

\* afterStepSuccess
AfterStepSuccess(s, i) ==
  \/ Plan[s][i] = "task" /\ Patch(s, "waiting", i + 1, 0, FALSE)
  \/ Plan[s][i] = "next" /\ i + 1 < Steps /\ Patch(s, "running", i + 1, 0, TRUE)
  \/ (Plan[s][i] = "done" \/ (Plan[s][i] = "next" /\ i + 1 = Steps)) /\ Patch(s, "completed", Steps, 0, due[s])

-----------------------------------------------------------------------------
(* Workers *)

\* startSaga: a dedupe key that is taken starts nothing, which is no step.
StartSaga(s) ==
  /\ status[s] = "absent"
  /\ Cardinality({q \in Saga : status[q] # "absent"}) < MaxSagas
  /\ Patch(s, "running", 0, 0, TRUE)
  /\ UNCHANGED <<effect, heldVars, lost, taskVars>>

\* advanceSaga finds the row again by status and due time.
Runs(s) == status[s] = "running" /\ due[s] /\ step[s] < Steps

\* A running step succeeds; the task it leaves, if any, has the saga and the
\* step for its dedupe key.
RunStep(s) ==
  /\ Runs(s)
  /\ AfterStepSuccess(s, step[s])
  /\ effect' = [effect EXCEPT ![<<s, step[s]>>] = "applied"]
  /\ IF Plan[s][step[s]] = "task" THEN CreateTask(<<s, step[s]>>, Team) ELSE UNCHANGED taskVars
  /\ UNCHANGED <<heldVars, lost>>

\* A saga whose last step was a task has nothing left to run.
RunOut(s) ==
  /\ status[s] = "running" /\ due[s] /\ step[s] >= Steps
  /\ Patch(s, "completed", Steps, 0, due[s])
  /\ UNCHANGED <<effect, heldVars, lost, taskVars>>

\* The task that a waiting saga waits for: waiting_task_id is written with the status.
Awaited(s) == <<s, step[s] - 1>>

\* Mutant of Resume: a task that is closed counts as done.
ResumeClosed(s) ==
  /\ status[s] = "waiting" /\ due[s]
  /\ IF task[Awaited(s)] \in Active
       THEN Patch(s, "waiting", step[s], attempts[s], FALSE)
       ELSE Patch(s, "running", step[s], 0, TRUE)
  /\ UNCHANGED <<effect, heldVars, lost, taskVars>>

\* resumeAfterTask: the task is read without a lock, but a closed one stays closed.
Resume(s) ==
  /\ status[s] = "waiting" /\ due[s]
  /\ \/ task[Awaited(s)] = "done" /\ Patch(s, "running", step[s], 0, TRUE)
     \/ task[Awaited(s)] = "cancelled" /\ CompensateBelow(s, step[s], "failed", 0)
     \/ task[Awaited(s)] \in Active /\ Patch(s, "waiting", step[s], attempts[s], FALSE)
  /\ UNCHANGED <<effect, heldVars, lost, taskVars>>

\* A compensation that throws is rolled back and records nothing: no step.
Compensate(s) ==
  /\ status[s] = "compensating" /\ due[s]
  /\ effect' = [effect EXCEPT ![<<s, step[s]>>] = "undone"]
  /\ CompensateBelow(s, step[s], "compensated", 0)
  /\ UNCHANGED <<heldVars, lost, taskVars>>

\* A step throws; its transaction is rolled back and the row is free again.
StepThrows(w, s) ==
  /\ held[w] = NoSaga /\ Runs(s)
  /\ held' = [held EXCEPT ![w] = s]
  /\ heldStep' = [heldStep EXCEPT ![w] = step[s]]
  /\ heldTries' = [heldTries EXCEPT ![w] = attempts[s]]
  /\ UNCHANGED <<rowVars, effect, lost, taskVars>>

LetGo(w) ==
  /\ held' = [held EXCEPT ![w] = NoSaga]
  /\ heldStep' = [heldStep EXCEPT ![w] = 0]
  /\ heldTries' = [heldTries EXCEPT ![w] = 0]

\* The failure is recorded over whatever the saga has become.
RecordFailure(w) ==
  /\ held[w] # NoSaga
  /\ AfterStepFailure(held[w], heldStep[w], heldTries[w])
  /\ LetGo(w)
  /\ UNCHANGED <<effect, lost, taskVars>>

\* The statement fails, or the process stops before it.
LoseFailure(w) ==
  /\ held[w] # NoSaga /\ lost < MaxLost
  /\ lost' = lost + 1
  /\ LetGo(w)
  /\ UNCHANGED <<rowVars, effect, taskVars>>

\* Time: next_run_at of an unfinished saga passes.
ComesDue(s) ==
  /\ status[s] \in Unfinished /\ ~due[s]
  /\ due' = [due EXCEPT ![s] = TRUE]
  /\ UNCHANGED <<status, step, attempts, effect, heldVars, lost, taskVars>>

-----------------------------------------------------------------------------

Advance(s) == RunStep(s) \/ RunOut(s) \/ Resume(s) \/ Compensate(s)

SagaStep ==
  \/ \E s \in Saga : StartSaga(s) \/ Advance(s) \/ ComesDue(s)
  \/ \E w \in Worker, s \in Saga : StepThrows(w, s)
  \/ \E w \in Worker : RecordFailure(w) \/ LoseFailure(w)

Next == SagaStep \/ (TaskStep /\ UNCHANGED sagaVars)

Spec == Init /\ [][Next]_vars

\* The drains are called every 15 minutes and by the daily job, take every saga
\* that is due (25 or 50 at a time) and try it; a worker goes on to record a
\* failure; time passes.  Nothing is assumed of what a step does, nor of people.
Fairness ==
  /\ \A s \in Saga : WF_vars(Advance(s) \/ \E w \in Worker : StepThrows(w, s)) /\ WF_vars(ComesDue(s))
  /\ \A w \in Worker : WF_vars(RecordFailure(w))

FairSpec == Spec /\ Fairness /\ TaskFairness
=============================================================================
