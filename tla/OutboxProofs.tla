----------------------------- MODULE OutboxProofs -----------------------------
(***************************************************************************)
(* Proofs about the outbox for any number of workers, messages, attempts   *)
(* and faults: its inductive invariant, what follows from it, and that the *)
(* workers together keep the promise.                                      *)
(***************************************************************************)
EXTENDS OutboxProperties, TLAPS

Inv == TypeOK /\ OutboxInvariant

LEMMA InitInv == Init => Inv
BY OutboxAssumption
   DEF Init, Inv, TypeOK, OutboxInvariant, OneHolder, AttemptsCounted, SentHasLeft, NotifiedExactlyOnce,
       AlertLeftBeforeDone, DeadOnlyAfterAllAttempts, Settled, Holds, Kind

-----------------------------------------------------------------------------
(* One lemma for the actions of a kind, one step for each part they disturb *)

\* A message that appears, becomes due or is deleted: no worker holds it.
LEMMA RowsInv ==
  ASSUME Inv, NEW e \in Event, EnqueueNotification(e) \/ ComesDue(e) \/ Purge(e)
  PROVE  Inv'
<1> USE OutboxAssumption
    DEF Insert, EnqueueNotification, ComesDue, Purge, rowVars, effectVars, workerVars, Inv, TypeOK, Kind, Holds
<1>1. TypeOK'
  <2>1. CASE EnqueueNotification(e) BY <2>1
  <2>2. CASE ComesDue(e) BY <2>2
  <2>3. CASE Purge(e) BY <2>3
  <2>4. QED BY <2>1, <2>2, <2>3
<1>2. OneHolder' /\ SentHasLeft' BY DEF OutboxInvariant, OneHolder, SentHasLeft
<1>3. AttemptsCounted' BY DEF OutboxInvariant, AttemptsCounted
<1>4. NotifiedExactlyOnce' /\ AlertLeftBeforeDone'
  BY DEF OutboxInvariant, NotifiedExactlyOnce, AlertLeftBeforeDone, Settled
<1>5. DeadOnlyAfterAllAttempts' BY DEF OutboxInvariant, DeadOnlyAfterAllAttempts
<1>6. QED BY <1>1, <1>2, <1>3, <1>4, <1>5 DEF OutboxInvariant

LEMMA EnqueueAlertInv ==
  ASSUME Inv, NEW w \in Worker, NEW e \in Event, NEW k \in {"alert", "silent"}, EnqueueAlert(w, e, k)
  PROVE  Inv'
<1> USE OutboxAssumption DEF Insert, EnqueueAlert, effectVars, Inv, TypeOK, Kind, Holds
<1>1. TypeOK' OBVIOUS
<1>2. OneHolder' /\ SentHasLeft' BY DEF OutboxInvariant, OneHolder, SentHasLeft
<1>3. AttemptsCounted' BY DEF OutboxInvariant, AttemptsCounted
<1>4. NotifiedExactlyOnce' /\ AlertLeftBeforeDone'
  BY DEF OutboxInvariant, NotifiedExactlyOnce, AlertLeftBeforeDone, Settled
<1>5. DeadOnlyAfterAllAttempts' BY DEF OutboxInvariant, DeadOnlyAfterAllAttempts
<1>6. QED BY <1>1, <1>2, <1>3, <1>4, <1>5 DEF OutboxInvariant

\* A worker that reads a list, stops, or loses its lock leaves rows and effects alone.
LEMMA WorkerInv ==
  ASSUME Inv, NEW w \in Worker, StartDrain(w) \/ Deadline(w) \/ Disconnect(w) \/ Crash(w)
  PROVE  Inv'
<1> USE OutboxAssumption
    DEF StartDrain, Due, Deadline, Disconnect, Crash, rowVars, effectVars, Inv, TypeOK, Holds
<1>1. TypeOK' OBVIOUS
<1>2. OneHolder' /\ SentHasLeft' BY DEF OutboxInvariant, OneHolder, SentHasLeft
<1>3. AttemptsCounted' BY DEF OutboxInvariant, AttemptsCounted
<1>4. NotifiedExactlyOnce' /\ AlertLeftBeforeDone' /\ DeadOnlyAfterAllAttempts'
  BY DEF OutboxInvariant, NotifiedExactlyOnce, AlertLeftBeforeDone, DeadOnlyAfterAllAttempts, Settled
<1>5. QED BY <1>1, <1>2, <1>3, <1>4 DEF OutboxInvariant

\* So does a handler that fails, and a statement that fails.
LEMMA FailInv ==
  ASSUME Inv, NEW w \in Worker, NEW e \in Event, Fail(w, e) \/ StatementFails(w, e)
  PROVE  Inv'
<1> USE OutboxAssumption DEF Fail, StatementFails, Finish, rowVars, effectVars, Inv, TypeOK, Holds
<1>1. TypeOK' OBVIOUS
<1>2. OneHolder' /\ SentHasLeft' BY DEF OutboxInvariant, OneHolder, SentHasLeft
<1>3. AttemptsCounted' BY DEF OutboxInvariant, AttemptsCounted
<1>4. NotifiedExactlyOnce' /\ AlertLeftBeforeDone' /\ DeadOnlyAfterAllAttempts'
  BY DEF OutboxInvariant, NotifiedExactlyOnce, AlertLeftBeforeDone, DeadOnlyAfterAllAttempts, Settled
<1>5. QED BY <1>1, <1>2, <1>3, <1>4 DEF OutboxInvariant

\* The lock is taken on a pending row that nobody holds.
LEMMA TakeInv ==
  ASSUME Inv, NEW w \in Worker, NEW e \in Event, Take(w, e)
  PROVE  Inv'
<1> USE OutboxAssumption DEF Take, TakeIf, Upcoming, Finish, Locked, rowVars, Inv, TypeOK, Holds
<1>1. TypeOK' OBVIOUS
<1>2. OneHolder' BY DEF OutboxInvariant, OneHolder
<1>3. AttemptsCounted' BY DEF OutboxInvariant, AttemptsCounted
<1>4. SentHasLeft' BY DEF OutboxInvariant, SentHasLeft
<1>5. NotifiedExactlyOnce' /\ AlertLeftBeforeDone'
  BY DEF OutboxInvariant, NotifiedExactlyOnce, AlertLeftBeforeDone, Settled
<1>6. DeadOnlyAfterAllAttempts' BY DEF OutboxInvariant, DeadOnlyAfterAllAttempts
<1>7. QED BY <1>1, <1>2, <1>3, <1>4, <1>5, <1>6 DEF OutboxInvariant

LEMMA SendInv ==
  ASSUME Inv, NEW w \in Worker, NEW e \in Event, Send(w, e)
  PROVE  Inv'
<1> USE OutboxAssumption DEF Send, rowVars, Inv, TypeOK, Holds
<1>1. TypeOK' OBVIOUS
<1>2. OneHolder' BY DEF OutboxInvariant, OneHolder
<1>3. AttemptsCounted' BY DEF OutboxInvariant, AttemptsCounted
<1>4. SentHasLeft' BY DEF OutboxInvariant, SentHasLeft
<1>5. NotifiedExactlyOnce' /\ AlertLeftBeforeDone' /\ DeadOnlyAfterAllAttempts'
  BY DEF OutboxInvariant, NotifiedExactlyOnce, AlertLeftBeforeDone, DeadOnlyAfterAllAttempts, Settled
<1>6. QED BY <1>1, <1>2, <1>3, <1>4, <1>5 DEF OutboxInvariant

\* The holder settles its row: it is pending until then, so the attempt counts
\* and the notification is the first.
LEMMA CommitInv ==
  ASSUME Inv, NEW w \in Worker, NEW e \in Event, Notify(w, e) \/ AlertDone(w, e)
  PROVE  Inv'
<1> USE OutboxAssumption
    DEF Notify, AlertDone, Commit, MarkDone, Finish, rowVars, effectVars, Inv, TypeOK, Holds
<1>1. state[e] = "pending" /\ attempts[e] < MaxAttempts /\ current[w] = e
  BY DEF OutboxInvariant, OneHolder, AttemptsCounted
<1>2. TypeOK' BY <1>1
<1>3. OneHolder' /\ SentHasLeft' BY DEF OutboxInvariant, OneHolder, SentHasLeft
<1>4. AttemptsCounted'
  <2>1. attempts[e] = seen[w] /\ seen[w] < tries[e]
    BY <1>1 DEF OutboxInvariant, OneHolder, AttemptsCounted
  <2>2. QED BY <1>1, <2>1 DEF OutboxInvariant, AttemptsCounted
<1>5. NotifiedExactlyOnce' BY <1>1 DEF OutboxInvariant, NotifiedExactlyOnce, Settled
<1>6. AlertLeftBeforeDone' BY DEF OutboxInvariant, SentHasLeft, AlertLeftBeforeDone, Settled
<1>7. DeadOnlyAfterAllAttempts' BY DEF OutboxInvariant, DeadOnlyAfterAllAttempts
<1>8. QED BY <1>2, <1>3, <1>4, <1>5, <1>6, <1>7 DEF OutboxInvariant

\* A failure is recorded with the count its worker read, which counts attempts
\* that were made, and only while the row is pending and not held.
LEMMA RecordInv ==
  ASSUME Inv, NEW w \in Worker, NEW e \in Event, RecordFailure(w, e)
  PROVE  Inv'
<1> DEFINE f == AfterFailure(seen[w])
<1> USE OutboxAssumption DEF RecordFailure, RecordIf, Finish, Locked, rowVars, effectVars, Inv, TypeOK, Holds
<1>1. seen[w] < MaxAttempts /\ seen[w] < tries[e] /\ state[e] # "absent"
  BY DEF OutboxInvariant, AttemptsCounted
<1>2. /\ f.attempts = seen[w] + 1
      /\ f.state \in {"dead", "pending"}
      /\ f.state = "dead" => f.attempts = MaxAttempts
      /\ f.state = "pending" => f.attempts < MaxAttempts
  <2>1. CASE seen[w] + 1 >= MaxAttempts BY <1>1, <2>1 DEF AfterFailure, Failed
  <2>2. CASE ~(seen[w] + 1 >= MaxAttempts) BY <1>1, <2>2 DEF AfterFailure, Failed
  <2>3. QED BY <2>1, <2>2
<1> HIDE DEF f
<1>3. TypeOK'
  <2>1. CASE state[e] = "pending"
    <3>1. f.attempts \in 0..MaxAttempts BY <1>1, <1>2
    <3>2. QED BY <2>1, <1>2, <3>1 DEF f
  <2>2. CASE state[e] # "pending" BY <2>2
  <2>3. QED BY <2>1, <2>2
<1>4. OneHolder' /\ SentHasLeft' BY DEF OutboxInvariant, OneHolder, SentHasLeft
<1>5. AttemptsCounted' BY <1>1, <1>2 DEF f, OutboxInvariant, AttemptsCounted
<1>6. NotifiedExactlyOnce' /\ AlertLeftBeforeDone'
  BY <1>2 DEF f, OutboxInvariant, NotifiedExactlyOnce, AlertLeftBeforeDone, Settled
<1>7. DeadOnlyAfterAllAttempts'
  BY <1>1, <1>2 DEF f, OutboxInvariant, DeadOnlyAfterAllAttempts
<1>8. QED BY <1>3, <1>4, <1>5, <1>6, <1>7 DEF OutboxInvariant

-----------------------------------------------------------------------------
(* The theorems *)

LEMMA NextInv == Inv /\ [Next]_vars => Inv'
<1> SUFFICES ASSUME Inv, [Next]_vars PROVE Inv'
  OBVIOUS
<1>1. CASE Next
  BY <1>1, RowsInv, EnqueueAlertInv, WorkerInv, FailInv, TakeInv, SendInv, CommitInv, RecordInv DEF Next, Handle
<1>2. CASE UNCHANGED vars
  BY <1>2 DEF vars, rowVars, effectVars, workerVars, Inv, TypeOK, OutboxInvariant, OneHolder, AttemptsCounted,
     SentHasLeft, NotifiedExactlyOnce, AlertLeftBeforeDone, DeadOnlyAfterAllAttempts, Settled, Holds
<1>3. QED BY <1>1, <1>2

\* The workers of processOne, however many and however they overlap, fail or
\* stop, keep the invariant: one holder for a row, and honest counts.
THEOREM OutboxCorrect == Spec => []OutboxInvariant
<1>1. Spec => []Inv BY InitInv, NextInv, PTL DEF Spec
<1>2. Inv => OutboxInvariant BY DEF Inv
<1>3. QED BY <1>1, <1>2, PTL

\* Every variable keeps its type; attempts never exceeds max_attempts (afterFailure).
THEOREM OutboxTypes == Spec => []TypeOK
<1>1. Spec => []Inv BY InitInv, NextInv, PTL DEF Spec
<1>2. Inv => TypeOK BY DEF Inv
<1>3. QED BY <1>1, <1>2, PTL

\* An internal notification is written exactly once, when its row becomes done.
THEOREM ExactlyOnce == Spec => []NotifiedExactlyOnce
<1>1. OutboxInvariant => NotifiedExactlyOnce BY DEF OutboxInvariant
<1>2. QED BY <1>1, OutboxCorrect, PTL

\* An alert left at least once before its row is done.
THEOREM AtLeastOnce == Spec => []AlertLeftBeforeDone
<1>1. OutboxInvariant => AlertLeftBeforeDone BY DEF OutboxInvariant
<1>2. QED BY <1>1, OutboxCorrect, PTL

\* No row is given up before its handler was started max_attempts times.
THEOREM GivenUpLast == Spec => []DeadOnlyAfterAllAttempts
<1>1. OutboxInvariant => DeadOnlyAfterAllAttempts BY DEF OutboxInvariant
<1>2. QED BY <1>1, OutboxCorrect, PTL

-----------------------------------------------------------------------------
(* The promise *)

\* What a step does to one row, seen by the promise: it puts it in, sends its
\* alert, delivers it, gives it up, or does nothing to it.
LEMMA PromiseStep ==
  ASSUME Inv, [Next]_vars
  PROVE  [Promise!Next]_(Promise!vars)
<1> USE DEF rowVars, effectVars, workerVars, PromisePhase, Inv, TypeOK
<1>1. ASSUME NEW e \in Event, NEW k \in Kind, Insert(e, k), UNCHANGED effectVars
      PROVE  Promise!Queue(e)
  BY <1>1 DEF Insert, Kind, Promise!Queue
<1>2. ASSUME NEW w \in Worker, NEW e \in Event, Send(w, e)
      PROVE  Promise!Send(e)
  <2>1. state[e] # "absent" BY <1>2 DEF Send, OutboxInvariant, AttemptsCounted
  <2>2. QED BY <1>2, <2>1 DEF Send, Promise!Send
<1>3. ASSUME NEW w \in Worker, NEW e \in Event, Notify(w, e) \/ AlertDone(w, e)
      PROVE  Promise!Deliver(e)
  <2>1. /\ state[e] = "pending" /\ notified[e] = 0
        /\ pc[w] = "sent" => sent[e] > 0
    BY <1>3 DEF Notify, AlertDone, Holds, OutboxInvariant, OneHolder, NotifiedExactlyOnce, Settled, SentHasLeft
  <2>2. PromisePhase' = [PromisePhase EXCEPT ![e] = "delivered"]
    BY <1>3 DEF Notify, AlertDone, Commit, MarkDone
  <2>3. CASE Notify(w, e)
    BY <2>1, <2>2, <2>3 DEF Notify, MarkDone, Promise!Deliver
  <2>4. CASE AlertDone(w, e)
    BY <2>1, <2>2, <2>4 DEF AlertDone, Commit, MarkDone, Promise!Deliver
  <2>5. QED BY <1>3, <2>3, <2>4
<1>4. ASSUME NEW w \in Worker, NEW e \in Event, RecordFailure(w, e)
      PROVE  Promise!Abandon(e) \/ UNCHANGED Promise!vars
  <2>1. AfterFailure(seen[w]).state \in {"dead", "pending"}
    BY DEF AfterFailure, Failed
  <2>2. CASE state[e] = "pending" /\ AfterFailure(seen[w]).state = "dead"
    BY <1>4, <2>2 DEF RecordFailure, RecordIf, Promise!Abandon
  <2>3. CASE state[e] = "pending" /\ AfterFailure(seen[w]).state = "pending"
    BY <1>4, <2>3 DEF RecordFailure, RecordIf, Promise!vars
  <2>4. CASE state[e] # "pending"
    BY <1>4, <2>4 DEF RecordFailure, RecordIf, Promise!vars
  <2>5. QED BY <2>1, <2>2, <2>3, <2>4
<1>5. ASSUME NEW w \in Worker, NEW e \in Event,
             Take(w, e) \/ Fail(w, e) \/ StatementFails(w, e)
      PROVE  UNCHANGED Promise!vars
  BY <1>5 DEF Take, TakeIf, Upcoming, Fail, StatementFails, Promise!vars
<1>6. ASSUME NEW w \in Worker, StartDrain(w) \/ Deadline(w) \/ Disconnect(w) \/ Crash(w)
      PROVE  UNCHANGED Promise!vars
  BY <1>6 DEF StartDrain, Deadline, Disconnect, Crash, Promise!vars
<1>7. CASE UNCHANGED vars
  BY <1>7 DEF vars, Promise!vars
<1>8. ASSUME NEW e \in Event, ComesDue(e) \/ Purge(e)
      PROVE  UNCHANGED Promise!vars
  BY <1>8 DEF ComesDue, Purge, Promise!vars
<1>9. QED
  BY <1>1, <1>2, <1>3, <1>4, <1>5, <1>6, <1>7, <1>8
     DEF Next, Handle, EnqueueNotification, EnqueueAlert, Kind, Promise!Next

\* The outbox, its workers and their faults do to a message only what the
\* promise allows: one notification, no delivery of an alert that never left.
THEOREM Refinement == Spec => KeepsPromise
<1>1. Init => Promise!Init BY DEF Init, Promise!Init, PromisePhase
<1>2. Spec => []Inv BY InitInv, NextInv, PTL DEF Spec
<1>3. QED BY <1>1, <1>2, PromiseStep, PTL DEF Spec, KeepsPromise, Promise!Safe

\* A late failure never reopens a row that was settled or given up.
THEOREM SettledForGood == Spec => SettledStaysSettled
<1> DEFINE Stays == \A e \in Event :
       /\ state[e] \in {"dead", "purged"} => state'[e] = state[e]
       /\ state[e] = "done" => state'[e] \in {"done", "purged"}
<1>1. ASSUME Inv, [Next]_vars PROVE Stays
  <2> USE <1>1 DEF rowVars, effectVars, workerVars, Inv, TypeOK
  <2>1. ASSUME NEW w \in Worker, NEW e \in Event, Handle(w, e) PROVE Stays
    <3>1. Notify(w, e) \/ AlertDone(w, e) => state[e] = "pending"
      BY DEF Notify, AlertDone, Holds, OutboxInvariant, OneHolder
    <3>2. QED BY <2>1, <3>1 DEF Handle, Notify, AlertDone, Commit, MarkDone, Send, Fail
  <2>2. ASSUME NEW w \in Worker, NEW e \in Event,
               Take(w, e) \/ RecordFailure(w, e) \/ StatementFails(w, e)
        PROVE  Stays
    BY <2>2 DEF Take, TakeIf, RecordFailure, RecordIf, StatementFails
  <2>3. ASSUME NEW e \in Event, EnqueueNotification(e) \/ ComesDue(e) \/ Purge(e) PROVE Stays
    BY <2>3 DEF EnqueueNotification, Insert, ComesDue, Purge
  <2>4. ASSUME NEW w \in Worker, NEW e \in Event, NEW k \in {"alert", "silent"}, EnqueueAlert(w, e, k)
        PROVE  Stays
    BY <2>4 DEF EnqueueAlert, Insert
  <2>5. ASSUME NEW w \in Worker, StartDrain(w) \/ Deadline(w) \/ Disconnect(w) \/ Crash(w) PROVE Stays
    BY <2>5 DEF StartDrain, Deadline, Disconnect, Crash
  <2>6. CASE UNCHANGED vars BY <2>6 DEF vars
  <2>7. QED BY <2>1, <2>2, <2>3, <2>4, <2>5, <2>6 DEF Next
<1>2. Spec => []Inv BY InitInv, NextInv, PTL DEF Spec
<1>3. [][Stays]_vars => SettledStaysSettled BY PTL DEF SettledStaysSettled
<1>4. QED BY <1>1, <1>2, <1>3, PTL DEF Spec
=============================================================================
