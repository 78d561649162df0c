------------------------------ MODULE HumanTasks ------------------------------
(***************************************************************************)
(* Tasks of people, with a deadline and an escalation (src/lib/            *)
(* humanTasks.ts, humanTaskCore.ts).  Every operation locks the task's row *)
(* and checks it there, so each is one step; the row of a task is never    *)
(* deleted.  Who creates tasks is up to the modules that extend this one.  *)
(***************************************************************************)
EXTENDS Naturals

CONSTANTS
  Task,     \* rows of human_tasks that may come to exist, one for each dedupe key
  User,     \* people: members of the team, and managers
  Manager,  \* those whose role is one of TASK_MANAGER_ROLES
  Team      \* the team, the role in assignee_role

ASSUME TaskAssumption == Manager \subseteq User /\ Team \notin User

VARIABLES
  task,      \* status of the row; "absent" before the insert
  assignee,  \* a person, or Team while nobody in it has claimed the task
  level,     \* escalation_level
  next,      \* the deadline next_escalation_at points at: 0, 1, NoDeadline for null
  clock      \* deadlines that have passed: due_at, then due_at and 24 hours

taskVars == <<task, assignee, level, next, clock>>

TaskStatus == {"open", "in_progress", "done", "cancelled"}

Active == {"open", "in_progress"}

NoDeadline == 2

\* TASK_TRANSITIONS
MayMove(from, to) ==
  \/ from = "open" /\ to \in {"in_progress", "done", "cancelled"}
  \/ from = "in_progress" /\ to \in {"done", "cancelled", "open"}

MayAct(t, u) == u \in Manager \/ assignee[t] \in {u, Team}

TasksInit ==
  /\ task = [t \in Task |-> "absent"]
  /\ assignee = [t \in Task |-> Team]
  /\ level = [t \in Task |-> 0]
  /\ next = [t \in Task |-> NoDeadline]
  /\ clock = [t \in Task |-> 0]

-----------------------------------------------------------------------------
(* What people do *)

\* createTask: a dedupe key that is taken leaves its task as it is.
CreateTask(t, a) ==
  IF task[t] = "absent"
    THEN /\ task' = [task EXCEPT ![t] = "open"]
         /\ assignee' = [assignee EXCEPT ![t] = a]
         /\ next' = [next EXCEPT ![t] = 0]
         /\ UNCHANGED <<level, clock>>
    ELSE UNCHANGED taskVars

\* Claiming what one has already claimed changes nothing and is no step.
ClaimTask(t, u) ==
  /\ MayMove(task[t], "in_progress") /\ MayAct(t, u)
  /\ task' = [task EXCEPT ![t] = "in_progress"]
  /\ assignee' = [assignee EXCEPT ![t] = u]
  /\ UNCHANGED <<level, next, clock>>

CloseTask(t, s) ==
  /\ MayMove(task[t], s)
  /\ task' = [task EXCEPT ![t] = s]
  /\ next' = [next EXCEPT ![t] = NoDeadline]
  /\ UNCHANGED <<assignee, level, clock>>

CompleteTask(t, u) == MayAct(t, u) /\ CloseTask(t, "done")

\* The tasks modelled are created by jobs: they have no creator who might cancel them.
CancelTask(t, u) == u \in Manager /\ CloseTask(t, "cancelled")

\* Mutant of ReassignTask: the deadline is forgotten with the assignee.
ReassignTaskAfresh(t, u, a) ==
  /\ u \in Manager /\ MayMove(task[t], "open")
  /\ task' = [task EXCEPT ![t] = "open"]
  /\ assignee' = [assignee EXCEPT ![t] = a]
  /\ next' = [next EXCEPT ![t] = NoDeadline]
  /\ UNCHANGED <<level, clock>>

\* Only from "in_progress": the move from "open" to "open" is not in the table.
ReassignTask(t, u, a) ==
  /\ u \in Manager /\ MayMove(task[t], "open")
  /\ task' = [task EXCEPT ![t] = "open"]
  /\ assignee' = [assignee EXCEPT ![t] = a]
  /\ UNCHANGED <<level, next, clock>>

-----------------------------------------------------------------------------
(* What time and the scheduled job do *)

DeadlinePasses(t) ==
  /\ task[t] # "absent" /\ clock[t] < 2
  /\ clock' = [clock EXCEPT ![t] = @ + 1]
  /\ UNCHANGED <<task, assignee, level, next>>

Overdue(t) == task[t] \in Active /\ next[t] < clock[t]

\* Mutant of EscalateTask: a run that comes late goes to the last level at once.
EscalateTaskToLast(t) ==
  /\ Overdue(t) /\ level[t] < 2
  /\ level' = [level EXCEPT ![t] = clock[t]]
  /\ next' = [next EXCEPT ![t] = clock[t]]
  /\ UNCHANGED <<task, assignee, clock>>

\* runEscalations, for one task: overlapping runs read their lists without a
\* lock, skip a row that is locked, and look again at status, level and
\* deadline once they hold it.  One level for each run.
EscalateTask(t) ==
  /\ Overdue(t) /\ level[t] < 2
  /\ level' = [level EXCEPT ![t] = @ + 1]
  /\ next' = [next EXCEPT ![t] = level[t] + 1]
  /\ UNCHANGED <<task, assignee, clock>>

TaskStep ==
  \E t \in Task :
    \/ \E u \in User : ClaimTask(t, u) \/ CompleteTask(t, u) \/ CancelTask(t, u)
    \/ \E u \in User : \E a \in User \cup {Team} : ReassignTask(t, u, a)
    \/ DeadlinePasses(t)
    \/ EscalateTask(t)

\* The job is called every 15 minutes and time passes; people owe nothing.
TaskFairness ==
  \A t \in Task : WF_taskVars(DeadlinePasses(t)) /\ WF_taskVars(EscalateTask(t))
=============================================================================
