------------------------------ MODULE SagaProofs ------------------------------
(***************************************************************************)
(* Proofs about sagas for any definition, any number of sagas, workers,    *)
(* people and attempts: the inductive invariant of the engine, and that    *)
(* escalations go up one level at a time.                                  *)
(***************************************************************************)
EXTENDS SagaProperties, TLAPS

Inv == TypeOK /\ SagaInvariant

LEMMA InitInv == Init => Inv
BY SagaAssumption, TaskAssumption
   DEF Init, TasksInit, Inv, TypeOK, SagaInvariant, StepsInOrder, UndoesWhatRan, WaitsForItsTask,
       HeldWasTrue, StepIndex, NoDeadline, TaskStatus, SagaStatus

\* The task of a step is one of the tasks.
LEMMA TaskOfStep == ASSUME NEW s \in Saga, NEW i \in StepIndex PROVE <<s, i>> \in Task
BY SagaAssumption DEF StepIndex

-----------------------------------------------------------------------------
(* What a step does to tasks and effects can only add to what has passed *)

\* Tasks that were done stay done, and tasks that exist stay.
TasksGrow ==
  /\ \A t \in Task : task[t] = "done" => task'[t] = "done"
  /\ \A t \in Task : task[t] # "absent" => task'[t] # "absent"

\* Steps that have run stay so.
EffectsGrow == \A t \in Saga \X StepIndex : effect[t] # "none" => effect'[t] # "none"

TasksTyped ==
  /\ task \in [Task -> TaskStatus \cup {"absent"}]
  /\ assignee \in [Task -> User \cup {Team}]
  /\ level \in [Task -> 0..2]
  /\ next \in [Task -> 0..NoDeadline]
  /\ clock \in [Task -> 0..2]

LEMMA TaskStepGrows ==
  ASSUME TasksTyped, NEW t \in Task,
         (\E u \in User : ClaimTask(t, u) \/ CompleteTask(t, u) \/ CancelTask(t, u))
         \/ (\E u \in User : \E a \in User \cup {Team} : ReassignTask(t, u, a))
         \/ DeadlinePasses(t) \/ EscalateTask(t)
  PROVE  TasksTyped' /\ TasksGrow
<1> USE DEF TasksTyped, TasksGrow, TaskStatus, NoDeadline, Active, MayMove
<1>1. CASE \E u \in User : ClaimTask(t, u) BY <1>1 DEF ClaimTask
<1>2. CASE \E u \in User : CompleteTask(t, u) BY <1>2 DEF CompleteTask, CloseTask
<1>3. CASE \E u \in User : CancelTask(t, u) BY <1>3 DEF CancelTask, CloseTask
<1>4. CASE \E u \in User : \E a \in User \cup {Team} : ReassignTask(t, u, a) BY <1>4 DEF ReassignTask
<1>5. CASE DeadlinePasses(t) BY <1>5 DEF DeadlinePasses
<1>6. CASE EscalateTask(t) BY <1>6 DEF EscalateTask, Overdue
<1>7. QED BY <1>1, <1>2, <1>3, <1>4, <1>5, <1>6

LEMMA CreateTaskGrows ==
  ASSUME TasksTyped, NEW t \in Task, CreateTask(t, Team)
  PROVE  TasksTyped' /\ TasksGrow /\ task'[t] # "absent"
BY DEF CreateTask, taskVars, TasksTyped, TasksGrow, TaskStatus, NoDeadline

LEMMA PassedStays ==
  ASSUME TasksGrow, EffectsGrow, NEW s \in Saga, NEW i, Passed(s, i)
  PROVE  Passed(s, i)'
BY TaskOfStep DEF TasksGrow, EffectsGrow, Passed

-----------------------------------------------------------------------------
(* The invariant, row by row *)

\* A saga in status st at step i with n attempts.
Good(s, st, i, n) ==
  /\ st = "running" => Passed(s, i) /\ n < MaxAttempts
  /\ st = "completed" => \E k \in 0..Steps : Passed(s, k) /\ (k = Steps \/ Plan[s][k] = "done")
  /\ st = "compensating" => i < Steps /\ \A j \in StepIndex : j <= i => effect[<<s, j>>] # "none"
  /\ st = "waiting" =>
       /\ i > 0 /\ Plan[s][i - 1] = "task" /\ Passed(s, i - 1)
       /\ effect[<<s, i - 1>>] # "none" /\ task[<<s, i - 1>>] # "absent"

\* A worker that has the failure of step i of s, with n attempts, to record.
Holding(s, i, n) ==
  s # NoSaga => i < Steps /\ n < MaxAttempts /\ Passed(s, i) /\ status[s] # "absent"

RowsTyped ==
  /\ status \in [Saga -> SagaStatus \cup {"absent"}]
  /\ step \in [Saga -> 0..Steps]
  /\ attempts \in [Saga -> 0..MaxAttempts]
  /\ due \in [Saga -> BOOLEAN]

HeldTyped ==
  /\ held \in [Worker -> Saga \cup {NoSaga}]
  /\ heldStep \in [Worker -> 0..Steps]
  /\ heldTries \in [Worker -> 0..MaxAttempts]
  /\ lost \in 0..MaxLost

EffectTyped == effect \in [Saga \X StepIndex -> {"none", "applied", "undone"}]

InvByRow ==
  /\ TasksTyped /\ RowsTyped /\ HeldTyped /\ EffectTyped
  /\ \A s \in Saga : Good(s, status[s], step[s], attempts[s])
  /\ \A w \in Worker : Holding(held[w], heldStep[w], heldTries[w])

LEMMA ByRow == (Inv => InvByRow) /\ (InvByRow' => Inv')
BY DEF Inv, InvByRow, TypeOK, TasksTyped, RowsTyped, HeldTyped, EffectTyped, Good, Holding,
       SagaInvariant, StepsInOrder, UndoesWhatRan, WaitsForItsTask, HeldWasTrue, Awaited

LEMMA GoodStays ==
  ASSUME TasksGrow, EffectsGrow, NEW s \in Saga, NEW st, NEW i \in 0..Steps, NEW n, Good(s, st, i, n)
  PROVE  Good(s, st, i, n)'
<1> USE SagaAssumption DEF Good
<1>1. CASE st = "running" BY <1>1, PassedStays
<1>2. CASE st = "completed" BY <1>2, PassedStays
<1>3. CASE st = "compensating" BY <1>3 DEF EffectsGrow
<1>4. CASE st = "waiting"
  <2>1. i - 1 \in StepIndex BY <1>4 DEF StepIndex
  <2>2. QED BY <1>4, <2>1, PassedStays, TaskOfStep DEF EffectsGrow, TasksGrow
<1>5. QED BY <1>1, <1>2, <1>3, <1>4

\* The workers' records survive any step that keeps what has passed.
LEMMA HeldStays ==
  ASSUME Inv, TasksGrow, EffectsGrow, UNCHANGED <<held, heldStep, heldTries>>,
         \A s \in Saga : status[s] # "absent" => status'[s] # "absent"
  PROVE  \A w \in Worker : Holding(held[w], heldStep[w], heldTries[w])'
BY ByRow, PassedStays DEF InvByRow, Holding, HeldTyped

\* What a patch of one row leaves to show.
RowsKept ==
  /\ RowsTyped'
  /\ \A r \in Saga : Good(r, status[r], step[r], attempts[r])'
  /\ \A r \in Saga : status[r] # "absent" => status'[r] # "absent"

\* A step that patches the row of s into a good one.
LEMMA PatchKeepsRows ==
  ASSUME Inv, TasksGrow, EffectsGrow, NEW s \in Saga, NEW st \in SagaStatus, NEW i \in 0..Steps,
         NEW n \in 0..MaxAttempts, NEW d \in BOOLEAN, Patch(s, st, i, n, d), Good(s, st, i, n)'
  PROVE  RowsKept
<1>1. RowsTyped /\ \A r \in Saga : Good(r, status[r], step[r], attempts[r]) BY ByRow DEF InvByRow
<1>2. RowsTyped' /\ \A r \in Saga : status[r] # "absent" => status'[r] # "absent"
  BY <1>1 DEF Patch, RowsTyped, SagaStatus
<1>3. ASSUME NEW r \in Saga PROVE Good(r, status[r], step[r], attempts[r])'
  <2>1. CASE r = s
    <3>1. status'[s] = st /\ step'[s] = i /\ attempts'[s] = n BY <1>1 DEF Patch, RowsTyped
    <3>2. QED BY <2>1, <3>1 DEF Good
  <2>2. CASE r # s
    <3>1. status'[r] = status[r] /\ step'[r] = step[r] /\ attempts'[r] = attempts[r]
      BY <2>2, <1>1 DEF Patch, RowsTyped
    <3>2. Good(r, status[r], step[r], attempts[r]) BY <1>1
    <3>3. PICK q, j, m : q = status[r] /\ j = step[r] /\ m = attempts[r] OBVIOUS
    <3>4. Good(r, q, j, m) BY <3>2, <3>3 DEF Good
    <3>5. Good(r, q, j, m)' BY <3>3, <3>4, <1>1, GoodStays DEF RowsTyped
    <3>6. QED BY <3>1, <3>3, <3>5 DEF Good
  <2>3. QED BY <2>1, <2>2
<1>4. QED BY <1>2, <1>3 DEF RowsKept

LEMMA CompensateBelowKeepsRows ==
  ASSUME Inv, TasksGrow, EffectsGrow, NEW s \in Saga, NEW i \in 0..Steps, NEW st \in {"failed", "compensated"},
         NEW n \in 0..MaxAttempts, CompensateBelow(s, i, st, n),
         \A j \in StepIndex : j < i => effect'[<<s, j>>] # "none"
  PROVE  RowsKept
<1>1. due[s] \in BOOLEAN /\ st \in SagaStatus /\ "compensating" \in SagaStatus
  BY ByRow DEF InvByRow, RowsTyped, SagaStatus
<1>2. 0 \in 0..Steps /\ 0 \in 0..MaxAttempts /\ TRUE \in BOOLEAN BY SagaAssumption
<1>3. CASE i = 0
  <2>1. Patch(s, st, 0, n, due[s]) BY <1>3 DEF CompensateBelow
  <2>2. Good(s, st, 0, n)' BY DEF Good
  <2>3. QED BY <2>1, <2>2, <1>1, <1>2, PatchKeepsRows
<1>4. CASE i # 0
  <2>1. Patch(s, "compensating", i - 1, 0, TRUE) BY <1>4 DEF CompensateBelow
  <2>2. i - 1 \in 0..Steps BY <1>4, SagaAssumption
  <2>3. Good(s, "compensating", i - 1, 0)' BY <1>4, SagaAssumption DEF Good, StepIndex
  <2>4. QED BY <2>1, <2>2, <2>3, <1>1, <1>2, PatchKeepsRows
<1>5. QED BY <1>3, <1>4

\* Any step that keeps the rows and leaves the workers alone.
LEMMA KeptInv ==
  ASSUME Inv, TasksGrow, EffectsGrow, RowsKept, TasksTyped', EffectTyped', UNCHANGED <<heldVars, lost>>
  PROVE  Inv'
<1>1. HeldTyped' BY ByRow DEF InvByRow, HeldTyped, heldVars
<1>2. \A w \in Worker : Holding(held[w], heldStep[w], heldTries[w])' BY HeldStays DEF heldVars, RowsKept
<1>3. QED BY <1>1, <1>2, ByRow DEF InvByRow, RowsKept

LEMMA NothingGrows ==
  ASSUME Inv, UNCHANGED taskVars
  PROVE  TasksTyped' /\ TasksGrow
BY ByRow DEF InvByRow, TasksTyped, TasksGrow, taskVars

-----------------------------------------------------------------------------
(* One lemma for each action of the sagas *)

\* The values that actions write have their types.
LEMMA Values ==
  /\ SagaStatus = {"running", "waiting", "completed", "compensating", "compensated", "failed"}
  /\ 0 \in 0..Steps /\ Steps \in 0..Steps /\ 0 \in 0..MaxAttempts
  /\ TRUE \in BOOLEAN /\ FALSE \in BOOLEAN
  /\ \A i \in StepIndex : i \in 0..Steps /\ i + 1 \in 0..Steps
BY SagaAssumption DEF SagaStatus, StepIndex

LEMMA StartSagaInv ==
  ASSUME Inv, NEW s \in Saga, StartSaga(s)
  PROVE  Inv'
<1>1. TasksTyped' /\ TasksGrow BY NothingGrows DEF StartSaga
<1>2. EffectTyped' /\ EffectsGrow BY ByRow DEF StartSaga, InvByRow, EffectTyped, EffectsGrow
<1>3. Good(s, "running", 0, 0)' BY SagaAssumption DEF Good, Passed, StepIndex
<1>4. RowsKept BY <1>1, <1>2, <1>3, PatchKeepsRows, Values DEF StartSaga
<1>5. QED BY <1>1, <1>2, <1>4, KeptInv DEF StartSaga

LEMMA RunStepInv ==
  ASSUME Inv, NEW s \in Saga, RunStep(s)
  PROVE  Inv'
<1>0. PICK i : i = step[s] OBVIOUS
<1>1. i \in StepIndex /\ due[s] \in BOOLEAN /\ Passed(s, i) /\ TasksTyped /\ EffectTyped
  <2>1. i \in StepIndex /\ due[s] \in BOOLEAN
    BY <1>0, ByRow, SagaAssumption DEF RunStep, InvByRow, RowsTyped, Runs, StepIndex
  <2>2. Good(s, status[s], step[s], attempts[s]) /\ status[s] = "running"
    BY ByRow DEF RunStep, InvByRow, Runs
  <2>3. Passed(s, i) BY <1>0, <2>2 DEF Good
  <2>4. QED BY <2>1, <2>3, ByRow DEF InvByRow
<1>2. <<s, i>> \in Task BY <1>1, TaskOfStep
<1>3. TasksTyped' /\ TasksGrow /\ (Plan[s][i] = "task" => task'[<<s, i>>] # "absent")
  <2>1. CASE Plan[s][i] = "task" BY <2>1, <1>1, <1>2, <1>0, CreateTaskGrows DEF RunStep
  <2>2. CASE Plan[s][i] # "task" BY <1>0, <2>2, NothingGrows DEF RunStep
  <2>3. QED BY <2>1, <2>2
<1>4. EffectTyped' /\ EffectsGrow /\ effect'[<<s, i>>] # "none"
  BY <1>0, <1>1 DEF RunStep, EffectTyped, EffectsGrow
<1>5. Passed(s, i)' BY <1>1, <1>3, <1>4, PassedStays
<1>6. Plan[s][i] = "next" => Passed(s, i + 1)' BY <1>1, <1>4, <1>5 DEF Passed, StepIndex
<1>7. AfterStepSuccess(s, i) BY <1>0 DEF RunStep
<1>8. RowsKept
  <2>1. CASE Plan[s][i] = "task" /\ Patch(s, "waiting", i + 1, 0, FALSE)
    <3>1. Good(s, "waiting", i + 1, 0)' BY <2>1, <1>1, <1>3, <1>4, <1>5 DEF Good, StepIndex
    <3>2. QED BY <2>1, <3>1, <1>1, <1>3, <1>4, PatchKeepsRows, Values
  <2>2. CASE Plan[s][i] = "next" /\ i + 1 < Steps /\ Patch(s, "running", i + 1, 0, TRUE)
    <3>1. Good(s, "running", i + 1, 0)' BY <2>2, <1>6, SagaAssumption DEF Good
    <3>2. QED BY <2>2, <3>1, <1>1, <1>3, <1>4, PatchKeepsRows, Values
  <2>3. CASE (Plan[s][i] = "done" \/ (Plan[s][i] = "next" /\ i + 1 = Steps)) /\ Patch(s, "completed", Steps, 0, due[s])
    <3>1. Good(s, "completed", Steps, 0)' BY <2>3, <1>1, <1>5, <1>6, Values DEF Good
    <3>2. QED BY <2>3, <3>1, <1>1, <1>3, <1>4, PatchKeepsRows, Values
  <2>4. QED BY <2>1, <2>2, <2>3, <1>7 DEF AfterStepSuccess
<1>9. QED BY <1>3, <1>4, <1>8, KeptInv DEF RunStep

LEMMA RunOutInv ==
  ASSUME Inv, NEW s \in Saga, RunOut(s)
  PROVE  Inv'
<1>1. TasksTyped' /\ TasksGrow BY NothingGrows DEF RunOut
<1>2. EffectTyped' /\ EffectsGrow BY ByRow DEF RunOut, InvByRow, EffectTyped, EffectsGrow
<1>3. Passed(s, Steps) /\ due[s] \in BOOLEAN
  <2>1. step[s] = Steps /\ due[s] \in BOOLEAN BY ByRow, SagaAssumption DEF RunOut, InvByRow, RowsTyped
  <2>2. QED BY <2>1, ByRow DEF RunOut, InvByRow, Good
<1>4. Good(s, "completed", Steps, 0)' BY <1>1, <1>2, <1>3, PassedStays, Values DEF Good
<1>5. RowsKept BY <1>1, <1>2, <1>3, <1>4, PatchKeepsRows, Values DEF RunOut
<1>6. QED BY <1>1, <1>2, <1>5, KeptInv DEF RunOut

LEMMA ResumeInv ==
  ASSUME Inv, NEW s \in Saga, Resume(s)
  PROVE  Inv'
<1>0. PICK i, n : i = step[s] /\ n = attempts[s] OBVIOUS
<1>1. TasksTyped' /\ TasksGrow BY NothingGrows DEF Resume
<1>2. EffectTyped' /\ EffectsGrow BY ByRow DEF Resume, InvByRow, EffectTyped, EffectsGrow
<1>3. /\ i \in 0..Steps /\ n \in 0..MaxAttempts /\ due[s] \in BOOLEAN
      /\ Good(s, "waiting", i, n)
  BY <1>0, ByRow DEF Resume, InvByRow, RowsTyped, Good
<1>4. /\ i > 0 /\ Plan[s][i - 1] = "task" /\ Passed(s, i - 1)
      /\ effect[<<s, i - 1>>] # "none" /\ task[<<s, i - 1>>] # "absent"
  BY <1>3 DEF Good
<1>5. \/ task[<<s, i - 1>>] = "done" /\ Patch(s, "running", i, 0, TRUE)
      \/ task[<<s, i - 1>>] = "cancelled" /\ CompensateBelow(s, i, "failed", 0)
      \/ task[<<s, i - 1>>] \in Active /\ Patch(s, "waiting", i, n, FALSE)
  <2>1. <<s, i - 1>> \in Task BY <1>3, <1>4, SagaAssumption, TaskOfStep DEF StepIndex
  <2>2. task[<<s, i - 1>>] \in {"open", "in_progress", "done", "cancelled"}
    BY <2>1, <1>4, ByRow DEF InvByRow, TasksTyped, TaskStatus
  <2>3. QED BY <1>0, <2>2 DEF Resume, Awaited, Active
<1>6. RowsKept
  <2>1. CASE task[<<s, i - 1>>] = "done" /\ Patch(s, "running", i, 0, TRUE)
    <3>1. Passed(s, i) BY <2>1, <1>3, <1>4, SagaAssumption DEF Passed, StepIndex
    <3>2. Good(s, "running", i, 0)' BY <3>1, <1>1, <1>2, PassedStays, SagaAssumption DEF Good
    <3>3. QED BY <2>1, <3>2, <1>1, <1>2, <1>3, PatchKeepsRows, Values
  <2>2. CASE CompensateBelow(s, i, "failed", 0)
    <3>1. \A j \in StepIndex : j < i => effect[<<s, j>>] # "none"
      BY <1>3, <1>4 DEF Passed, StepIndex
    <3>2. \A j \in StepIndex : j < i => effect'[<<s, j>>] # "none"
      BY <3>1, <1>2 DEF EffectsGrow
    <3>3. QED BY <2>2, <3>2, <1>1, <1>2, <1>3, CompensateBelowKeepsRows, Values
  <2>3. CASE Patch(s, "waiting", i, n, FALSE)
    <3>1. Good(s, "waiting", i, n)' BY <1>1, <1>2, <1>3, GoodStays
    <3>2. QED BY <2>3, <3>1, <1>1, <1>2, <1>3, PatchKeepsRows, Values
  <2>4. QED BY <2>1, <2>2, <2>3, <1>5
<1>7. QED BY <1>1, <1>2, <1>6, KeptInv DEF Resume

LEMMA CompensateInv ==
  ASSUME Inv, NEW s \in Saga, Compensate(s)
  PROVE  Inv'
<1>0. PICK i : i = step[s] OBVIOUS
<1>1. TasksTyped' /\ TasksGrow BY NothingGrows DEF Compensate
<1>2. i \in 0..Steps /\ Good(s, "compensating", i, 0) /\ EffectTyped
  BY <1>0, ByRow DEF Compensate, InvByRow, RowsTyped, Good
<1>3. i \in StepIndex /\ \A j \in StepIndex : j <= i => effect[<<s, j>>] # "none"
  BY <1>2, SagaAssumption DEF Good, StepIndex
<1>4. EffectTyped' /\ EffectsGrow BY <1>0, <1>2, <1>3 DEF Compensate, EffectTyped, EffectsGrow
<1>5. CompensateBelow(s, i, "compensated", 0) BY <1>0 DEF Compensate
<1>6. \A j \in StepIndex : j < i => effect'[<<s, j>>] # "none"
  BY <1>3, <1>4 DEF EffectsGrow, StepIndex
<1>7. RowsKept BY <1>1, <1>2, <1>4, <1>5, <1>6, CompensateBelowKeepsRows, Values
<1>8. QED BY <1>1, <1>4, <1>7, KeptInv DEF Compensate

-----------------------------------------------------------------------------
(* The workers, time and people *)

LEMMA StepThrowsInv ==
  ASSUME Inv, NEW w \in Worker, NEW s \in Saga, StepThrows(w, s)
  PROVE  Inv'
<1>1. TasksTyped' /\ TasksGrow BY NothingGrows DEF StepThrows
<1>2. EffectTyped' /\ EffectsGrow BY ByRow DEF StepThrows, InvByRow, EffectTyped, EffectsGrow
<1>3. RowsTyped' /\ HeldTyped' BY ByRow DEF StepThrows, InvByRow, RowsTyped, HeldTyped, rowVars
<1>4. ASSUME NEW r \in Saga PROVE Good(r, status[r], step[r], attempts[r])'
  <2>1. PICK q, j, m : q = status[r] /\ j = step[r] /\ m = attempts[r] OBVIOUS
  <2>2. Good(r, q, j, m) /\ j \in 0..Steps BY <2>1, ByRow DEF InvByRow, RowsTyped, Good
  <2>3. Good(r, q, j, m)' BY <2>2, <1>1, <1>2, GoodStays
  <2>4. QED BY <2>1, <2>3 DEF StepThrows, rowVars, Good
<1>5. ASSUME NEW v \in Worker PROVE Holding(held[v], heldStep[v], heldTries[v])'
  <2>1. CASE v = w
    <3>1. /\ status[s] = "running" /\ step[s] < Steps
          /\ Passed(s, step[s]) /\ attempts[s] < MaxAttempts
      BY ByRow DEF InvByRow, StepThrows, Runs, Good
    <3>2. held'[v] = s /\ heldStep'[v] = step[s] /\ heldTries'[v] = attempts[s]
      BY <2>1, ByRow DEF InvByRow, HeldTyped, StepThrows
    <3>3. PICK i : i = step[s] OBVIOUS
    <3>4. Passed(s, i)' BY <3>1, <3>3, <1>1, <1>2, PassedStays
    <3>5. QED BY <3>1, <3>2, <3>3, <3>4 DEF Holding, StepThrows, rowVars
  <2>2. CASE v # w
    <3>1. held'[v] = held[v] /\ heldStep'[v] = heldStep[v] /\ heldTries'[v] = heldTries[v]
      BY <2>2, ByRow DEF InvByRow, HeldTyped, StepThrows
    <3>2. PICK r, i : r = held[v] /\ i = heldStep[v] OBVIOUS
    <3>3. Holding(r, i, heldTries[v]) BY <3>2, ByRow DEF InvByRow, Holding
    <3>4. r # NoSaga => Passed(r, i)'
      BY <3>2, <3>3, <1>1, <1>2, PassedStays, ByRow DEF InvByRow, HeldTyped, Holding
    <3>5. QED BY <3>1, <3>2, <3>3, <3>4 DEF Holding, StepThrows, rowVars
  <2>3. QED BY <2>1, <2>2
<1>6. QED BY <1>1, <1>2, <1>3, <1>4, <1>5, ByRow DEF InvByRow

\* A worker that lets go of its record keeps the others'.
LEMMA LetGoKeeps ==
  ASSUME Inv, NEW w \in Worker, LetGo(w), UNCHANGED <<effect, taskVars>>,
         \A s \in Saga : status[s] # "absent" => status'[s] # "absent"
  PROVE  /\ held' \in [Worker -> Saga \cup {NoSaga}]
         /\ heldStep' \in [Worker -> 0..Steps]
         /\ heldTries' \in [Worker -> 0..MaxAttempts]
         /\ \A v \in Worker : Holding(held[v], heldStep[v], heldTries[v])'
<1>1. HeldTyped /\ \A v \in Worker : Holding(held[v], heldStep[v], heldTries[v]) BY ByRow DEF InvByRow
<1>2. /\ held' \in [Worker -> Saga \cup {NoSaga}]
      /\ heldStep' \in [Worker -> 0..Steps]
      /\ heldTries' \in [Worker -> 0..MaxAttempts]
  BY <1>1, SagaAssumption DEF HeldTyped, LetGo
<1>3. ASSUME NEW v \in Worker PROVE Holding(held[v], heldStep[v], heldTries[v])'
  <2>1. CASE v = w BY <2>1, <1>1 DEF LetGo, HeldTyped, Holding
  <2>2. CASE v # w
    <3>1. held'[v] = held[v] /\ heldStep'[v] = heldStep[v] /\ heldTries'[v] = heldTries[v]
      BY <2>2, <1>1 DEF LetGo, HeldTyped
    <3>2. Holding(held[v], heldStep[v], heldTries[v]) /\ held[v] \in Saga \cup {NoSaga}
      BY <1>1 DEF HeldTyped
    <3>3. QED BY <3>1, <3>2 DEF Holding, Passed, taskVars
  <2>3. QED BY <2>1, <2>2
<1>4. QED BY <1>2, <1>3

LEMMA RecordFailureInv ==
  ASSUME Inv, NEW w \in Worker, RecordFailure(w)
  PROVE  Inv'
<1>0. PICK s, i, n : s = held[w] /\ i = heldStep[w] /\ n = heldTries[w] OBVIOUS
<1>1. TasksTyped' /\ TasksGrow BY NothingGrows DEF RecordFailure
<1>2. EffectTyped' /\ EffectsGrow BY ByRow DEF RecordFailure, InvByRow, EffectTyped, EffectsGrow
<1>3. /\ s \in Saga /\ i \in 0..Steps /\ n \in 0..MaxAttempts
      /\ i < Steps /\ n < MaxAttempts /\ Passed(s, i)
  BY <1>0, ByRow DEF RecordFailure, InvByRow, HeldTyped, Holding
<1>4. AfterStepFailure(s, i, n) BY <1>0 DEF RecordFailure
<1>5. RowsKept
  <2>1. n + 1 \in 0..MaxAttempts BY <1>3, SagaAssumption
  <2>2. CASE n + 1 >= MaxAttempts
    <3>1. CompensateBelow(s, i, "failed", n + 1) BY <2>2, <1>4 DEF AfterStepFailure
    <3>2. \A j \in StepIndex : j < i => effect'[<<s, j>>] # "none"
      BY <1>2, <1>3 DEF Passed, EffectsGrow
    <3>3. QED BY <3>1, <3>2, <2>1, <1>1, <1>2, <1>3, CompensateBelowKeepsRows
  <2>3. CASE ~(n + 1 >= MaxAttempts)
    <3>1. Patch(s, "running", i, n + 1, FALSE) BY <2>3, <1>4 DEF AfterStepFailure
    <3>2. n + 1 < MaxAttempts BY <2>3, <1>3, SagaAssumption
    <3>3. Good(s, "running", i, n + 1)' BY <3>2, <1>1, <1>2, <1>3, PassedStays DEF Good
    <3>4. QED BY <3>1, <3>3, <2>1, <1>1, <1>2, <1>3, PatchKeepsRows, Values
  <2>4. QED BY <2>2, <2>3
<1>6. HeldTyped' /\ \A v \in Worker : Holding(held[v], heldStep[v], heldTries[v])'
  BY <1>5, LetGoKeeps, ByRow DEF RecordFailure, RowsKept, InvByRow, HeldTyped
<1>7. QED BY <1>1, <1>2, <1>5, <1>6, ByRow DEF InvByRow, RowsKept

LEMMA LoseFailureInv ==
  ASSUME Inv, NEW w \in Worker, LoseFailure(w)
  PROVE  Inv'
<1>1. TasksTyped' BY NothingGrows DEF LoseFailure
<1>2. EffectTyped' /\ RowsTyped' /\ \A r \in Saga : Good(r, status[r], step[r], attempts[r])'
  BY ByRow DEF LoseFailure, InvByRow, EffectTyped, RowsTyped, rowVars, taskVars, Good, Passed
<1>3. \A s \in Saga : status[s] # "absent" => status'[s] # "absent" BY DEF LoseFailure, rowVars
<1>4. lost' \in 0..MaxLost BY ByRow, SagaAssumption DEF LoseFailure, InvByRow, HeldTyped
<1>5. HeldTyped' /\ \A v \in Worker : Holding(held[v], heldStep[v], heldTries[v])'
  BY <1>3, <1>4, LetGoKeeps DEF LoseFailure, HeldTyped
<1>6. QED BY <1>1, <1>2, <1>5, ByRow DEF InvByRow

LEMMA ComesDueInv ==
  ASSUME Inv, NEW s \in Saga, ComesDue(s)
  PROVE  Inv'
<1>1. TasksTyped' BY NothingGrows DEF ComesDue
<1>2. EffectTyped' /\ RowsTyped' /\ HeldTyped'
  BY ByRow DEF ComesDue, InvByRow, EffectTyped, RowsTyped, HeldTyped, heldVars
<1>3. \A r \in Saga : Good(r, status[r], step[r], attempts[r])'
  BY ByRow DEF ComesDue, InvByRow, taskVars, Good, Passed
<1>4. \A v \in Worker : Holding(held[v], heldStep[v], heldTries[v])'
  BY ByRow DEF ComesDue, InvByRow, heldVars, taskVars, Holding, Passed
<1>5. QED BY <1>1, <1>2, <1>3, <1>4, ByRow DEF InvByRow

LEMMA TaskStepInv ==
  ASSUME Inv, TaskStep, UNCHANGED sagaVars
  PROVE  Inv'
<1>1. TasksTyped' /\ TasksGrow
  <2>1. PICK t \in Task :
          \/ \E u \in User : ClaimTask(t, u) \/ CompleteTask(t, u) \/ CancelTask(t, u)
          \/ \E u \in User : \E a \in User \cup {Team} : ReassignTask(t, u, a)
          \/ DeadlinePasses(t)
          \/ EscalateTask(t)
    BY DEF TaskStep
  <2>2. QED BY <2>1, TaskStepGrows, ByRow DEF InvByRow
<1>2. EffectTyped' /\ EffectsGrow /\ RowsTyped' /\ UNCHANGED <<heldVars, lost>>
  BY ByRow DEF InvByRow, sagaVars, rowVars, EffectTyped, EffectsGrow, RowsTyped
<1>3. ASSUME NEW r \in Saga PROVE Good(r, status[r], step[r], attempts[r])'
  <2>1. PICK q, j, m : q = status[r] /\ j = step[r] /\ m = attempts[r] OBVIOUS
  <2>2. Good(r, q, j, m) /\ j \in 0..Steps BY <2>1, ByRow DEF InvByRow, RowsTyped, Good
  <2>3. Good(r, q, j, m)' BY <2>2, <1>1, <1>2, GoodStays
  <2>4. QED BY <2>1, <2>3 DEF sagaVars, rowVars, Good
<1>4. RowsKept BY <1>2, <1>3 DEF RowsKept, sagaVars, rowVars
<1>5. QED BY <1>1, <1>2, <1>4, KeptInv

LEMMA NextInv == Inv /\ [Next]_vars => Inv'
<1> SUFFICES ASSUME Inv, [Next]_vars PROVE Inv'
  OBVIOUS
<1>1. CASE Next
  <2>1. CASE SagaStep
    BY <2>1, StartSagaInv, RunStepInv, RunOutInv, ResumeInv, CompensateInv, ComesDueInv,
       StepThrowsInv, RecordFailureInv, LoseFailureInv DEF SagaStep, Advance
  <2>2. CASE TaskStep /\ UNCHANGED sagaVars BY <2>2, TaskStepInv
  <2>3. QED BY <1>1, <2>1, <2>2 DEF Next
<1>2. CASE UNCHANGED vars
  BY <1>2 DEF vars, taskVars, sagaVars, rowVars, heldVars, Inv, TypeOK, SagaInvariant, StepsInOrder,
     UndoesWhatRan, WaitsForItsTask, HeldWasTrue, Passed, Awaited
<1>3. QED BY <1>1, <1>2

LEMMA AlwaysInv == Spec => []Inv
BY InitInv, NextInv, PTL DEF Spec

-----------------------------------------------------------------------------
(* The results *)

\* Counts, steps and statuses stay in their types: no saga is tried more often
\* than SAGA_MAX_ATTEMPTS on record, whatever is recorded late (advanceSaga).
THEOREM SagaTypes == Spec => []TypeOK
BY AlwaysInv, PTL DEF Inv

\* The inductive invariant of the engine.
THEOREM SagaCorrect == Spec => []SagaInvariant
BY AlwaysInv, PTL DEF Inv

\* No step runs before the ones ahead of it have run and their tasks are done,
\* although failures are recorded without a lock and without a look at the row.
THEOREM InOrder == Spec => []StepsInOrder
BY AlwaysInv, PTL DEF Inv, SagaInvariant

-----------------------------------------------------------------------------
(* Escalations *)

\* next_escalation_at is the deadline that comes after the level reached.
NextIsOfLevel ==
  \A t \in Task : /\ task[t] = "absent" => level[t] = 0
                  /\ task[t] \in Active => next[t] = level[t]

LEMMA CreateTaskKeepsNext ==
  ASSUME TasksTyped, NextIsOfLevel, NEW t \in Task, CreateTask(t, Team)
  PROVE  NextIsOfLevel' /\ UNCHANGED level
BY DEF TasksTyped, NextIsOfLevel, CreateTask, taskVars, Active

LEMMA TaskStepKeepsNext ==
  ASSUME TasksTyped, NextIsOfLevel, TaskStep
  PROVE  /\ NextIsOfLevel'
         /\ \A t \in Task : level'[t] # level[t] =>
              level'[t] = level[t] + 1 /\ task[t] \in Active /\ clock[t] >= level'[t]
<1>1. PICK t \in Task :
        \/ \E u \in User : ClaimTask(t, u) \/ CompleteTask(t, u) \/ CancelTask(t, u)
        \/ \E u \in User : \E a \in User \cup {Team} : ReassignTask(t, u, a)
        \/ DeadlinePasses(t)
        \/ EscalateTask(t)
  BY DEF TaskStep
<1> USE DEF TasksTyped, NextIsOfLevel, Active, MayMove, NoDeadline
<1>2. CASE \E u \in User : ClaimTask(t, u) BY <1>2 DEF ClaimTask
<1>3. CASE \E u \in User : CompleteTask(t, u) BY <1>3 DEF CompleteTask, CloseTask
<1>4. CASE \E u \in User : CancelTask(t, u) BY <1>4 DEF CancelTask, CloseTask
<1>5. CASE \E u \in User : \E a \in User \cup {Team} : ReassignTask(t, u, a) BY <1>5 DEF ReassignTask
<1>6. CASE DeadlinePasses(t) BY <1>6 DEF DeadlinePasses
<1>7. CASE EscalateTask(t) BY <1>7 DEF EscalateTask, Overdue
<1>8. QED BY <1>1, <1>2, <1>3, <1>4, <1>5, <1>6, <1>7

LEMMA NextKeepsNext ==
  ASSUME Inv, NextIsOfLevel, [Next]_vars
  PROVE  /\ NextIsOfLevel'
         /\ \A t \in Task : level'[t] # level[t] =>
              level'[t] = level[t] + 1 /\ task[t] \in Active /\ clock[t] >= level'[t]
<1>1. TasksTyped BY ByRow DEF InvByRow
<1>2. CASE TaskStep BY <1>1, <1>2, TaskStepKeepsNext
<1>3. CASE UNCHANGED taskVars BY <1>3 DEF taskVars, NextIsOfLevel
<1>4. CASE \E s \in Saga : RunStep(s)
  <2>1. PICK s \in Saga : RunStep(s) BY <1>4
  <2>2. PICK i : i = step[s] OBVIOUS
  <2>3. i \in StepIndex BY <2>1, <2>2, ByRow, SagaAssumption DEF RunStep, Runs, InvByRow, RowsTyped, StepIndex
  <2>4. CASE Plan[s][i] = "task"
    BY <2>1, <2>2, <2>3, <2>4, <1>1, TaskOfStep, CreateTaskKeepsNext DEF RunStep
  <2>5. CASE Plan[s][i] # "task" BY <2>1, <2>2, <2>5, <1>3 DEF RunStep
  <2>6. QED BY <2>4, <2>5
<1>5. TaskStep \/ UNCHANGED taskVars \/ \E s \in Saga : RunStep(s)
  BY DEF Next, SagaStep, Advance, StartSaga, RunOut, Resume, Compensate, ComesDue, StepThrows,
         RecordFailure, LoseFailure, vars
<1>6. QED BY <1>2, <1>3, <1>4, <1>5

\* Overlapping runs of the job raise a task one level at a time, after its
\* deadline and while it is active (runEscalations).
THEOREM OneLevelAtATime == Spec => EscalatedInTurn
<1> DEFINE OneUp == \A t \in Task : level'[t] # level[t] =>
             level'[t] = level[t] + 1 /\ task[t] \in Active /\ clock[t] >= level'[t]
<1>1. Init => NextIsOfLevel
  <2>1. ASSUME Init, NEW t \in Task PROVE task[t] = "absent" /\ level[t] = 0
    BY <2>1 DEF Init, TasksInit
  <2>2. QED BY <2>1 DEF NextIsOfLevel, Active
<1>2. Inv /\ NextIsOfLevel /\ [Next]_vars => NextIsOfLevel' /\ OneUp BY NextKeepsNext
<1>3. [][OneUp]_vars => EscalatedInTurn BY PTL DEF EscalatedInTurn
<1>4. QED BY <1>1, <1>2, <1>3, AlwaysInv, PTL DEF Spec
=============================================================================
