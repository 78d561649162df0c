--------------------------- MODULE OutboxProperties ---------------------------
(***************************************************************************)
(* What is true of the outbox: its type invariant, what it promises and   *)
(* the invariant that explains why.                                        *)
(***************************************************************************)
EXTENDS Outbox

\* Types; no row is ever charged more attempts than it has.
TypeOK ==
  /\ state \in [Event -> {"absent", "pending", "done", "dead", "purged"}]
  /\ kind \in [Event -> Kind]
  /\ attempts \in [Event -> 0..MaxAttempts]
  /\ due \in [Event -> BOOLEAN]
  /\ notified \in [Event -> Nat]
  /\ sent \in [Event -> Nat]
  /\ tries \in [Event -> Nat]
  /\ pc \in [Worker -> {"idle", "starting", "looping", "handling", "sent", "orphaned", "failed"}]
  /\ queue \in [Worker -> SUBSET Event]
  /\ current \in [Worker -> Event \union {0}]
  /\ seen \in [Worker -> 0..MaxAttempts]
  /\ faults \in 0..MaxFaults

Settled(e) == state[e] \in {"done", "purged"}

-----------------------------------------------------------------------------
(* Safety *)

\* The notification of a row is written exactly once, with the change of the row
\* to done, however many workers list it, fail or stop (processOne).
NotifiedExactlyOnce ==
  \A e \in Event :
    notified[e] = IF kind[e] = "notification" /\ Settled(e) THEN 1 ELSE 0

\* An alert that is marked done has left at least once (portalAlert throws when
\* every channel fails).
AlertLeftBeforeDone ==
  \A e \in Event : Settled(e) /\ kind[e] = "alert" => sent[e] > 0

\* A row is given up only after its handler was started max_attempts times: the
\* workers that overwrite each other's count never charge an attempt twice.
DeadOnlyAfterAllAttempts ==
  \A e \in Event : state[e] = "dead" => tries[e] >= MaxAttempts

\* A failure that is recorded late does not touch a row that was settled or given
\* up meanwhile: such a row is never pending again, and only done rows go away.
SettledStaysSettled ==
  [][\A e \in Event :
       /\ state[e] \in {"dead", "purged"} => state'[e] = state[e]
       /\ state[e] = "done" => state'[e] \in {"done", "purged"}]_vars

-----------------------------------------------------------------------------
(* Why: the inductive invariant *)

\* A row has one holder at a time, and is pending, with the count that the holder
\* read, while it is held.
OneHolder ==
  \A w \in Worker, e \in Event :
    Holds(w, e) =>
      /\ state[e] = "pending" /\ attempts[e] = seen[w]
      /\ \A v \in Worker \ {w} : ~Holds(v, e)

\* The count that a worker has read leaves room for one attempt, and the one it
\* is making is not in it.
AttemptsCounted ==
  /\ \A e \in Event : attempts[e] <= tries[e]
  /\ \A e \in Event : state[e] \in {"absent", "pending"} => attempts[e] < MaxAttempts
  /\ \A w \in Worker :
       pc[w] \in {"handling", "sent", "orphaned", "failed"} =>
         /\ current[w] \in Event
         /\ seen[w] < MaxAttempts
         /\ seen[w] < tries[current[w]]
         /\ state[current[w]] # "absent"

\* An alert in the state "sent" has left.
SentHasLeft ==
  \A w \in Worker, e \in Event : pc[w] = "sent" /\ Holds(w, e) => sent[e] > 0

\* The holder of a lock handles its row alone, and every count is of attempts
\* that were made; the rest follows from it.
OutboxInvariant ==
  /\ OneHolder
  /\ AttemptsCounted
  /\ SentHasLeft
  /\ NotifiedExactlyOnce
  /\ AlertLeftBeforeDone
  /\ DeadOnlyAfterAllAttempts

-----------------------------------------------------------------------------
(* Refinement *)

PromisePhase ==
  [e \in Event |->
     IF state[e] = "pending" THEN "queued"
     ELSE IF state[e] = "dead" THEN "abandoned"
     ELSE IF state[e] = "absent" THEN "absent"
     ELSE "delivered"]

Promise == INSTANCE OutboxPromise WITH phase <- PromisePhase

\* Workers, locks, retries and faults together do to a message only what the
\* promise allows (outbox.ts, its handlers and its callers).
KeepsPromise == Promise!Safe

\* And under a fair scheduler every message is delivered or given up.
FulfilsPromise == Promise!Spec
=============================================================================
