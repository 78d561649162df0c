---------------------------- MODULE SagaProperties ----------------------------
(* What sagas and the tasks they wait for must satisfy. *)
EXTENDS Sagas

TypeOK ==
  /\ task \in [Task -> TaskStatus \cup {"absent"}]
  /\ assignee \in [Task -> User \cup {Team}]
  /\ level \in [Task -> 0..2]
  /\ next \in [Task -> 0..NoDeadline]
  /\ clock \in [Task -> 0..2]
  /\ status \in [Saga -> SagaStatus \cup {"absent"}]
  /\ step \in [Saga -> 0..Steps]
  /\ attempts \in [Saga -> 0..MaxAttempts]
  /\ due \in [Saga -> BOOLEAN]
  /\ effect \in [Saga \X StepIndex -> {"none", "applied", "undone"}]
  /\ held \in [Worker -> Saga \cup {NoSaga}]
  /\ heldStep \in [Worker -> 0..Steps]
  /\ heldTries \in [Worker -> 0..MaxAttempts]
  /\ lost \in 0..MaxLost

-----------------------------------------------------------------------------
(* Sagas *)

\* Steps 0 to i - 1 of s have run, and the tasks they left were done.
Passed(s, i) ==
  \A j \in StepIndex : j < i => /\ effect[<<s, j>>] # "none"
                                /\ Plan[s][j] = "task" => task[<<s, j>>] = "done"

\* No step runs before the ones ahead of it have run and the people they asked
\* have answered, whatever a late failure makes of the saga (advanceSaga and its
\* unconditional UPDATE): what is recorded late was true once, and stays true.
StepsInOrder ==
  \A s \in Saga :
    /\ status[s] = "running" => Passed(s, step[s])
    /\ status[s] = "completed" =>
         \E i \in 0..Steps : Passed(s, i) /\ (i = Steps \/ Plan[s][i] = "done")

\* Only what has run is undone (afterStepFailure, resumeAfterTask, afterCompensation).
UndoesWhatRan ==
  \A s \in Saga :
    status[s] = "compensating" => \A j \in StepIndex : j <= step[s] => effect[<<s, j>>] # "none"

\* A saga that waits has a task to wait for, left by the step before the one it is at.
WaitsForItsTask ==
  \A s \in Saga :
    status[s] = "waiting" =>
      /\ step[s] > 0 /\ Plan[s][step[s] - 1] = "task"
      /\ Passed(s, step[s] - 1)
      /\ effect[Awaited(s)] # "none" /\ task[Awaited(s)] # "absent"

\* What a worker has still to record was so when it held the row: the step was
\* the saga's turn, and had an attempt left.
HeldWasTrue ==
  /\ \A s \in Saga : status[s] = "running" => attempts[s] < MaxAttempts
  /\ \A s \in Saga : status[s] = "compensating" => step[s] < Steps
  /\ \A w \in Worker :
       held[w] # NoSaga =>
         /\ heldStep[w] < Steps /\ heldTries[w] < MaxAttempts
         /\ Passed(held[w], heldStep[w])
         /\ status[held[w]] # "absent"

\* The inductive invariant of the engine.
SagaInvariant == StepsInOrder /\ UndoesWhatRan /\ WaitsForItsTask /\ HeldWasTrue

\* A saga comes to rest, completed, compensated or failed, unless people leave a
\* task of it unanswered for ever: workers that overwrite each other's counts
\* delay the last attempt and cannot put it off for ever (drainSagas).
WaitsForPeople(s) == status[s] = "waiting" /\ task[Awaited(s)] \in Active

EverySagaEnds ==
  \A s \in Saga :
    status[s] # "absent" ~> ([](status[s] \in Ended) \/ []<>WaitsForPeople(s))

-----------------------------------------------------------------------------
(* Tasks *)

\* An escalation goes up one level at a time, only while the task is active and
\* only after the deadline of that level (runEscalations, nextEscalationStep).
EscalatedInTurn ==
  [][\A t \in Task :
       level'[t] # level[t] =>
         level'[t] = level[t] + 1 /\ task[t] \in Active /\ clock[t] >= level'[t]]_vars

\* A task whose deadlines have passed reaches the top management, or is closed;
\* neither a claim nor a reassignment silences it.
OverdueReachesTheTop ==
  \A t \in Task : clock[t] = 2 ~> (level[t] = 2 \/ task[t] \in {"done", "cancelled"})

=============================================================================
