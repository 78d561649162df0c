-------------------------------- MODULE Outbox --------------------------------
(***************************************************************************)
(* The guaranteed outbox (src/lib/outbox.ts): rows of outbox_events, and   *)
(* the overlapping workers that deliver them -- the scheduled drains and   *)
(* the immediate attempt after an alert.  A worker locks a row with SKIP   *)
(* LOCKED and runs its handler in that transaction; when the transaction   *)
(* fails it records the failure in a statement of its own, after the lock  *)
(* is gone.  Between any two of these steps other workers may run, and a   *)
(* process may stop.                                                       *)
(***************************************************************************)
EXTENDS Naturals, FiniteSets

CONSTANTS
  Worker,       \* processes that may drain the outbox
  MaxAttempts,  \* max_attempts of a row
  MaxEvent,     \* bound: rows ever inserted; their ids are 1, 2, ...
  MaxFaults     \* bound: crashes, lost connections, statements that failed

ASSUME OutboxAssumption ==
  /\ MaxAttempts \in Nat \ {0}
  /\ MaxEvent \in Nat
  /\ MaxFaults \in Nat

Event == 1..MaxEvent

\* An internal notification, written in the worker's transaction; an alert sent
\* on the customer's channels; an alert to a customer without a usable channel.
Kind == {"notification", "alert", "silent"}

VARIABLES
  state,     \* status of the row; "absent" before the insert, "purged" after the delete
  kind,      \* what its handler does
  attempts,  \* attempts
  due,       \* whether next_attempt_at has passed
  notified,  \* notifications committed for the row
  sent,      \* alerts that left for the row
  tries,     \* times its handler was started
  pc,        \* what a worker is at
  queue,     \* ids that it read and has not finished
  current,   \* the one it works on, 0 for none
  seen,      \* attempts of that row as it read them under the lock
  faults     \* crashes, lost connections and failed statements so far

rowVars == <<state, kind, attempts, due>>
effectVars == <<notified, sent, tries>>
workerVars == <<pc, queue, current, seen>>
vars == <<rowVars, effectVars, workerVars, faults>>

-----------------------------------------------------------------------------
(* Writing to the outbox *)

\* enqueueOutbox: the next id, pending and due at once.  An alert whose dedupe
\* key is taken inserts nothing, which is no step.
Insert(e, k) ==
  /\ state[e] = "absent" /\ \A f \in 1..(e - 1) : state[f] # "absent"
  /\ state' = [state EXCEPT ![e] = "pending"]
  /\ kind' = [kind EXCEPT ![e] = k]
  /\ due' = [due EXCEPT ![e] = TRUE]
  /\ UNCHANGED attempts

\* notifyUser and notifyRole, when the direct write of the notification failed.
EnqueueNotification(e) ==
  /\ Insert(e, "notification")
  /\ UNCHANGED <<effectVars, workerVars, faults>>

\* sendSecurityAlert: the process that writes the alert tries it at once,
\* whatever its due time (drainOutboxEvent).
EnqueueAlert(w, e, k) ==
  /\ pc[w] = "idle"
  /\ Insert(e, k)
  /\ pc' = [pc EXCEPT ![w] = "starting"]
  /\ queue' = [queue EXCEPT ![w] = {e}]
  /\ UNCHANGED <<current, seen, effectVars, faults>>

-----------------------------------------------------------------------------
(* Draining it *)

\* Mutant of Due: a row with one attempt left is not listed.
DueButLast == {e \in Event : state[e] = "pending" /\ due[e] /\ attempts[e] + 1 < MaxAttempts}

Due == {e \in Event : state[e] = "pending" /\ due[e]}

\* drainOutbox: the due ids are read once.  Its LIMIT, 50 or more, is above MaxEvent.
StartDrain(w) ==
  /\ pc[w] = "idle" /\ Due # {}
  /\ pc' = [pc EXCEPT ![w] = "starting"]
  /\ queue' = [queue EXCEPT ![w] = Due]
  /\ UNCHANGED <<current, seen, rowVars, effectVars, faults>>

\* The loop goes on with the ids left, or ends.
Finish(w, e) ==
  /\ queue' = [queue EXCEPT ![w] = @ \ {e}]
  /\ pc' = [pc EXCEPT ![w] = IF queue[w] \subseteq {e} THEN "idle" ELSE "looping"]
  /\ current' = [current EXCEPT ![w] = 0]

\* The deadline is looked at before each row; the first one is always tried.
Deadline(w) ==
  /\ pc[w] = "looping"
  /\ pc' = [pc EXCEPT ![w] = "idle"]
  /\ queue' = [queue EXCEPT ![w] = {}]
  /\ UNCHANGED <<current, seen, rowVars, effectVars, faults>>

\* The worker has the row locked: the transaction of its handler is open.
Holds(w, e) == pc[w] \in {"handling", "sent"} /\ current[w] = e

Locked(e) == \E w \in Worker : Holds(w, e)

\* The loop's next id: the oldest.
Upcoming(w, e) ==
  pc[w] \in {"starting", "looping"} /\ e \in queue[w] /\ \A f \in queue[w] : e <= f

\* The row is locked and its handler starts if it is free, and skipped otherwise.
TakeIf(free, w, e) ==
  /\ Upcoming(w, e)
  /\ IF free
       THEN /\ pc' = [pc EXCEPT ![w] = "handling"]
            /\ current' = [current EXCEPT ![w] = e]
            /\ seen' = [seen EXCEPT ![w] = attempts[e]]
            /\ tries' = [tries EXCEPT ![e] = @ + 1]
            /\ UNCHANGED queue
       ELSE Finish(w, e) /\ UNCHANGED <<seen, tries>>
  /\ UNCHANGED <<rowVars, notified, sent, faults>>

\* processOne, SELECT ... AND status = 'pending' FOR UPDATE SKIP LOCKED.
Take(w, e) == TakeIf(state[e] = "pending" /\ ~Locked(e), w, e)

\* UPDATE ... SET status = 'done', attempts = attempts + 1.
MarkDone(e) ==
  /\ state' = [state EXCEPT ![e] = "done"]
  /\ attempts' = [attempts EXCEPT ![e] = @ + 1]
  /\ UNCHANGED <<kind, due>>

\* The notification is inserted and the row marked in one transaction.
Notify(w, e) ==
  /\ Holds(w, e) /\ kind[e] = "notification"
  /\ notified' = [notified EXCEPT ![e] = @ + 1]
  /\ MarkDone(e)
  /\ Finish(w, e)
  /\ UNCHANGED <<seen, sent, tries, faults>>

\* portalAlert: a channel accepts the message; no rollback can call it back.  A
\* handler whose connection is gone sends all the same, and then fails.
Send(w, e) ==
  /\ pc[w] \in {"handling", "orphaned"} /\ current[w] = e /\ kind[e] = "alert"
  /\ sent' = [sent EXCEPT ![e] = @ + 1]
  /\ pc' = [pc EXCEPT ![w] = IF Holds(w, e) THEN "sent" ELSE "failed"]
  /\ UNCHANGED <<queue, current, seen, rowVars, notified, tries, faults>>

\* The alert's transaction commits.
Commit(w, e) == MarkDone(e) /\ Finish(w, e) /\ UNCHANGED <<seen, effectVars, faults>>

\* A channel delivered the alert, or there is none.
AlertDone(w, e) ==
  /\ Holds(w, e)
  /\ kind[e] = "silent" \/ (kind[e] = "alert" /\ pc[w] = "sent")
  /\ Commit(w, e)

\* The handler throws, or its transaction cannot commit: all of it is undone
\* but the alerts that left, and the lock is gone.
Fail(w, e) ==
  /\ pc[w] \in {"handling", "sent", "orphaned"} /\ current[w] = e
  /\ pc' = [pc EXCEPT ![w] = "failed"]
  /\ UNCHANGED <<queue, current, seen, rowVars, effectVars, faults>>

Failed(n, last) == [state |-> IF last THEN "dead" ELSE "pending", attempts |-> n + 1]

\* Mutant of AfterFailure: one attempt too few.
AfterFailureEarly(n) == Failed(n, n + 2 >= MaxAttempts)

\* afterFailure, of the attempts that the worker read.
AfterFailure(n) == Failed(n, n + 1 >= MaxAttempts)

RecordIf(open, w, e) ==
  /\ pc[w] = "failed" /\ current[w] = e /\ ~Locked(e)
  /\ IF open
       THEN /\ state' = [state EXCEPT ![e] = AfterFailure(seen[w]).state]
            /\ attempts' = [attempts EXCEPT ![e] = AfterFailure(seen[w]).attempts]
            /\ due' = [due EXCEPT ![e] = FALSE]
            /\ UNCHANGED kind
       ELSE UNCHANGED rowVars
  /\ Finish(w, e)
  /\ UNCHANGED <<seen, effectVars, faults>>

\* Mutant of RecordFailure: without the condition on the status.
RecordFailureAnyway(w, e) == RecordIf(TRUE, w, e)

\* UPDATE ... WHERE status = 'pending': it waits while another worker holds the
\* row, and overwrites what that worker recorded.
RecordFailure(w, e) == RecordIf(state[e] = "pending", w, e)

-----------------------------------------------------------------------------
(* Faults, time and retention *)

\* The row could not be read, or its failure not recorded: the loop goes on.
StatementFails(w, e) ==
  /\ faults < MaxFaults
  /\ Upcoming(w, e) \/ (pc[w] = "failed" /\ current[w] = e)
  /\ faults' = faults + 1
  /\ Finish(w, e)
  /\ UNCHANGED <<seen, rowVars, effectVars>>

\* The connection of the transaction is lost, and the lock with it, while the
\* handler waits for a channel.
Disconnect(w) ==
  /\ pc[w] = "handling" /\ faults < MaxFaults
  /\ faults' = faults + 1
  /\ pc' = [pc EXCEPT ![w] = "orphaned"]
  /\ UNCHANGED <<queue, current, seen, rowVars, effectVars>>

\* The process stops: an open transaction is rolled back, its ids are forgotten.
Crash(w) ==
  /\ pc[w] # "idle" /\ faults < MaxFaults
  /\ faults' = faults + 1
  /\ pc' = [pc EXCEPT ![w] = "idle"]
  /\ queue' = [queue EXCEPT ![w] = {}]
  /\ current' = [current EXCEPT ![w] = 0]
  /\ UNCHANGED <<seen, rowVars, effectVars>>

\* next_attempt_at passes.
ComesDue(e) ==
  /\ state[e] = "pending" /\ ~due[e]
  /\ due' = [due EXCEPT ![e] = TRUE]
  /\ UNCHANGED <<state, kind, attempts, effectVars, workerVars, faults>>

\* purgeDoneOutbox: 30 days after the row was processed.
Purge(e) ==
  /\ state[e] = "done"
  /\ state' = [state EXCEPT ![e] = "purged"]
  /\ UNCHANGED <<kind, attempts, due, effectVars, workerVars, faults>>

-----------------------------------------------------------------------------
Init ==
  /\ state = [e \in Event |-> "absent"]
  /\ kind = [e \in Event |-> "notification"]
  /\ attempts = [e \in Event |-> 0]
  /\ due = [e \in Event |-> FALSE]
  /\ notified = [e \in Event |-> 0]
  /\ sent = [e \in Event |-> 0]
  /\ tries = [e \in Event |-> 0]
  /\ pc = [w \in Worker |-> "idle"]
  /\ queue = [w \in Worker |-> {}]
  /\ current = [w \in Worker |-> 0]
  /\ seen = [w \in Worker |-> 0]
  /\ faults = 0

\* The steps of a handler, up to the end of its transaction.
Handle(w, e) == Notify(w, e) \/ Send(w, e) \/ AlertDone(w, e) \/ Fail(w, e)

Next ==
  \/ \E e \in Event : EnqueueNotification(e) \/ ComesDue(e) \/ Purge(e)
  \/ \E w \in Worker, e \in Event, k \in {"alert", "silent"} : EnqueueAlert(w, e, k)
  \/ \E w \in Worker : StartDrain(w) \/ Deadline(w) \/ Disconnect(w) \/ Crash(w)
  \/ \E w \in Worker, e \in Event :
       Take(w, e) \/ Handle(w, e) \/ RecordFailure(w, e) \/ StatementFails(w, e)

Spec == Init /\ [][Next]_vars

\* Time passes, some process keeps being called to drain (every 15 minutes), a
\* worker that runs goes on, and a statement that waits for a row lock gets its
\* turn (the database queues it, while drains skip a locked row).
Fairness ==
  /\ \A e \in Event : WF_vars(ComesDue(e))
  /\ WF_vars(\E w \in Worker : StartDrain(w))
  /\ \A w \in Worker, e \in Event :
       WF_vars(Take(w, e)) /\ WF_vars(Handle(w, e)) /\ SF_vars(RecordFailure(w, e))

FairSpec == Spec /\ Fairness
=============================================================================
