----------------------------- MODULE ChatProperties -----------------------------
(* What a conversation must satisfy. *)
EXTENDS Chat

Ops == {"idle", "post", "inserted", "after", "answer", "transfer",
        "close", "closing", "reopen", "rate"}

Events == {"text", "auto_reply", "closed"}

MessageType ==
  [from: Reader \cup {NoOne}, event: Events, internal: BOOLEAN, key: Key \cup {NoKey},
   state: {"pending", "stored", "gone"}, late: BOOLEAN]

ConvType ==
  [status: {"open", "closed"}, last: Nat, lastSender: {"nobody", "customer", "staff", "system"},
   customerUnread: Nat, staffUnread: Nat,
   awaiting: BOOLEAN, escalated: BOOLEAN]

RequestType ==
  [op: Ops, who: Reader \cup {NoOne}, key: Key \cup {NoKey}, id: Nat, internal: BOOLEAN, saw: BOOLEAN]

TypeOK ==
  /\ messages \in Seq(MessageType)
  /\ conv \in ConvType
  /\ ratings \in Seq(Nat)
  /\ locked \in Slot \cup {NoOne}
  /\ requests \in [Slot -> RequestType]
  /\ sweeping \in [Sweeper -> BOOLEAN]
  /\ screens \in [Screen -> [cursor: Nat, shown: SUBSET Nat]]
  /\ misjudged \in BOOLEAN

\* Retries and double taps of one client_msg_id leave one message, stored or on its
\* way, and every answer names a stored message of the key that was sent
\* (src/db/schema/portal-chat.ts:151: "retries / double taps are idempotent").
OnePerKey == \A i, j \in Id : i # j /\ messages[i].key = messages[j].key /\ messages[i].key # NoKey =>
                                "gone" \in {messages[i].state, messages[j].state}

AnswersOwn(r) ==
  requests[r].op \in {"after", "answer"} =>
    /\ requests[r].id \in Id /\ Stored(requests[r].id)
    /\ messages[requests[r].id].key = requests[r].key
    /\ messages[requests[r].id].from = requests[r].who

SentOnce == OnePerKey /\ \A r \in Slot : AnswersOwn(r)

\* The clock of the sales staff tells who had the last word: it runs, on an open
\* conversation, if and only if that was the customer; what the staff has not read
\* is waited for, and the customer has nothing unread once it had the last word.
\* Only a transfer, which writes the clock as it read it, can break this.
WaitingTellsLastWord ==
  ~misjudged =>
    /\ conv.awaiting <=> conv.lastSender = "customer"
    /\ conv.awaiting => conv.status = "open"
    /\ conv.staffUnread > 0 => conv.awaiting
    /\ conv.customerUnread > 0 => ~conv.awaiting

\* What a screen skips, below its cursor, it skips for one of two reasons only: the
\* message was stored after a higher number, or the screen's own later message was
\* answered before a poll.  Polls by themselves, however they are interleaved with
\* posts, closures and notes, leave nothing behind.
Skipped(s) == {i \in VisibleTo(s) \ screens[s].shown : i <= screens[s].cursor}

SkippedOnlyIfOvertaken ==
  \A s \in Screen : \A i \in Skipped(s) :
    messages[i].late \/ \E j \in screens[s].shown : j > i /\ messages[j].from = s

\* A poll takes itself for idle when the conversation's last message is not above its
\* cursor (src/routes/portal-chat.ts:163: "nothing new and nothing changed").  The last
\* message is stored, and what is stored above it is an automatic reply, a note of the
\* staff, or has been followed by a message of a lower number: nothing else is missed.
LastIsLatest ==
  /\ conv.last # 0 => conv.last \in Id /\ Stored(conv.last)
  /\ \A i \in Id : Stored(i) /\ i > conv.last =>
       \/ messages[i].event = "auto_reply" \/ messages[i].internal
       \/ conv.last # 0 /\ messages[conv.last].late

\* What both rest on: a transaction in flight has a pending row of its own, with the
\* key and the author it was given; a key is used by the one who drew it; and a
\* client holds stored messages only, its cursor among them.
InFlight(r) ==
  requests[r].op \in {"inserted", "closing"} =>
    /\ requests[r].id \in Id /\ messages[requests[r].id].state = "pending"
    /\ messages[requests[r].id].key = requests[r].key
    /\ messages[requests[r].id].from = requests[r].who
    /\ requests[r].op = "inserted" => messages[requests[r].id].internal = requests[r].internal
    /\ \A t \in Slot \ {r} : requests[t].op \in {"inserted", "closing"} => requests[t].id # requests[r].id

KeysOwned ==
  /\ \A i \in Id : messages[i].key \in Key => messages[i].from = Owner[messages[i].key]
  /\ \A r \in Slot :
       /\ requests[r].op = "post" =>
            requests[r].key \in Key /\ requests[r].who = Owner[requests[r].key]
       /\ requests[r].op = "close" => requests[r].key = NoKey /\ requests[r].who = NoOne

HoldsStored(s) ==
  /\ \A i \in screens[s].shown : i \in Id /\ Stored(i)
  /\ screens[s].cursor \in screens[s].shown \cup {0}

ChatInvariant ==
  (\A r \in Slot : InFlight(r)) /\ KeysOwned /\ (\A s \in Screen : HoldsStored(s))

\* A waiting customer is not forgotten: in the end the wait is escalated, or is over.
WaitIsNoticed ==
  (conv.status = "open" /\ conv.awaiting) ~> (conv.escalated \/ ~conv.awaiting)

=============================================================================
