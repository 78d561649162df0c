---------------------------------- MODULE Chat ----------------------------------
(***************************************************************************)
(* A customer's conversation with the sales staff (src/lib/chatService.ts, *)
(* src/routes/portal-chat.ts, src/routes/chat-staff.ts) and the screens    *)
(* that show it (web/src/chat/useThread.ts).  A message takes its number   *)
(* when it is inserted and is seen by others when its transaction commits, *)
(* so numbers may appear out of order; a screen asks for what is above the *)
(* highest number it holds.  The internal notes the system writes are left *)
(* out: those of the staff are rows of the same kind.                      *)
(***************************************************************************)
EXTENDS Integers, Sequences

CONSTANTS
  Customer,     \* the company's side of the conversation, one screen
  Staff,        \* system users who may reply to the conversation
  Key,          \* client_msg_ids
  Owner,        \* who drew a key
  Screen,       \* those whose client shows the conversation
  NoOne, NoKey,
  Slot,         \* HTTP requests in flight
  Sweeper,      \* instances that sweep for overdue conversations
  MaxMessages   \* bound: messages inserted by requests

Reader == {Customer} \cup Staff

ASSUME ChatAssumption ==
  /\ Customer \notin Staff /\ NoOne \notin Reader \cup Slot /\ NoKey \notin Key
  /\ Owner \in [Key -> Reader]
  /\ Screen \subseteq Reader
  /\ MaxMessages \in Nat

VARIABLES
  messages,   \* rows of chat_messages in the order of their ids
  conv,       \* the row of chat_conversations
  ratings,    \* the closure_message_ids of the rows of chat_ratings
  locked,     \* a transaction that updated conv and has yet to commit
  requests,   \* what each request is doing
  sweeping,   \* sweepers that read the conversation as overdue
  screens,    \* what a client shows, and its cursor lastId
  misjudged   \* a transfer wrote a waiting state that no longer held (a history variable)

vars == <<messages, conv, ratings, locked, requests, sweeping, screens, misjudged>>

Id == 1..Len(messages)

NoRequest == [op |-> "idle", who |-> NoOne, key |-> NoKey, id |-> 0, internal |-> FALSE, saw |-> FALSE]

Stored(i) == messages[i].state = "stored"

\* fetchMessages: internal notes are for the staff.
VisibleTo(s) == {i \in Id : Stored(i) /\ (s = Customer => ~messages[i].internal)}

-----------------------------------------------------------------------------
(* Messages *)

Message(from, event, internal, key, state) ==
  [from |-> from, event |-> event, internal |-> internal, key |-> key, state |-> state, late |-> FALSE]

Room == Len(messages) < MaxMessages

Insert(m) == messages' = Append(messages, m)

\* Others see message i from now on; it is late if they may hold a higher number.
Publish(i) ==
  messages' = [messages EXCEPT ![i] =
                [messages[i] EXCEPT !.state = "stored", !.late = \E j \in Id : j > i /\ Stored(j)]]

\* Its row disappears, its number is not used again.
Withdraw(i) == messages' = [messages EXCEPT ![i] = [messages[i] EXCEPT !.state = "gone"]]

Start(r, req) == requests[r] = NoRequest /\ requests' = [requests EXCEPT ![r] = req]
Proceed(r, op, id) == requests' = [requests EXCEPT ![r] = [requests[r] EXCEPT !.op = op, !.id = id]]
End(r) == requests' = [requests EXCEPT ![r] = NoRequest]

-----------------------------------------------------------------------------
(* Sending: POST /portal/chat/messages, POST /chat/conversations/:id/messages *)

\* Mutant of SameKey: a pending row does not hold the insert back.
SameKeyStored(k) == {i \in Id : messages[i].key = k /\ Stored(i)}

\* Rows that stand in the way of key k in the unique index on client_msg_id.
SameKey(k) == {i \in Id : messages[i].key = k /\ messages[i].state # "gone"}

\* postMessage: the insert takes a number, and waits for a pending row of its key;
\* the retry of a stored message is answered with the original.
InsertPost(r, u, k, internal) ==
  \/ /\ SameKey(k) = {} /\ Room
     /\ Insert(Message(u, "text", internal, k, "pending"))
     /\ requests' = [requests EXCEPT ![r] =
                       [op |-> "inserted", who |-> u, key |-> k, id |-> Len(messages) + 1,
                        internal |-> internal, saw |-> FALSE]]
  \/ /\ UNCHANGED messages
     /\ \E i \in SameKey(k) :
          /\ Stored(i)
          /\ requests' = [requests EXCEPT ![r] =
                            [NoRequest EXCEPT !.op = "answer", !.who = u, !.key = k, !.id = i]]

\* A client keeps its key until a send succeeds: a retry carries it again, also
\* while the first request runs.
SendCustomer(r, k) ==
  /\ requests[r] = NoRequest /\ Owner[k] = Customer
  /\ InsertPost(r, Customer, k, FALSE)
  /\ UNCHANGED <<conv, ratings, locked, sweeping, screens, misjudged>>

\* A closed conversation takes internal notes only.
BeginSend(r, k, internal) ==
  LET u == Owner[k] IN
  /\ u \in Staff /\ (conv.status = "closed" => internal)
  /\ Start(r, [op |-> "post", who |-> u, key |-> k, id |-> 0, internal |-> internal, saw |-> FALSE])
  /\ UNCHANGED <<messages, conv, ratings, locked, sweeping, screens, misjudged>>

SendStaff(r) ==
  LET req == requests[r] IN
  /\ req.op = "post" /\ InsertPost(r, req.who, req.key, req.internal)
  /\ UNCHANGED <<conv, ratings, locked, sweeping, screens, misjudged>>

\* The customer has read all up to its message, waits for an answer, and reopens.
CustomerSaid(i) ==
  conv' = [conv EXCEPT !.last = i, !.lastSender = "customer", !.staffUnread = conv.staffUnread + 1,
                       !.customerUnread = 0,
                       !.awaiting = TRUE, !.status = "open"]

StaffSaid(i) ==
  conv' = [conv EXCEPT !.last = i, !.lastSender = "staff", !.customerUnread = conv.customerUnread + 1,
                       !.staffUnread = 0,
                       !.awaiting = FALSE, !.escalated = FALSE]

\* The conversation is updated and the transaction commits; an internal note leaves
\* the conversation alone.
CommitPost(r) ==
  LET req == requests[r] IN
  /\ req.op = "inserted" /\ Publish(req.id)
  /\ IF req.internal THEN UNCHANGED conv
     ELSE /\ locked = NoOne
          /\ IF req.who = Customer THEN CustomerSaid(req.id) ELSE StaffSaid(req.id)
  /\ Proceed(r, IF req.who = Customer THEN "after" ELSE "answer", req.id)
  /\ UNCHANGED <<ratings, locked, sweeping, screens, misjudged>>

\* afterCustomerMessage: out of office hours, and when the last one is long enough
\* ago (time is abstracted), a reply that does not become the last message.
AutoReply(r) ==
  LET req == requests[r] IN
  /\ req.op = "after" /\ Room
  /\ Insert(Message(NoOne, "auto_reply", FALSE, NoKey, "stored"))
  /\ Proceed(r, "answer", req.id)
  /\ UNCHANGED <<conv, ratings, locked, sweeping, screens, misjudged>>

\* send of useThread: the client shows its message and moves its cursor to it.
Answer(r) ==
  LET req == requests[r] IN
  /\ req.op \in {"after", "answer"}
  /\ screens' = [s \in Screen |->
                   IF s # req.who THEN screens[s]
                   ELSE [cursor |-> IF req.id > screens[s].cursor THEN req.id ELSE screens[s].cursor,
                         shown |-> screens[s].shown \cup {req.id}]]
  /\ End(r)
  /\ UNCHANGED <<messages, conv, ratings, locked, sweeping, misjudged>>

\* A transaction is rolled back.
RollBack(r) ==
  LET req == requests[r] IN
  /\ req.op \in {"inserted", "closing"} /\ Withdraw(req.id)
  /\ locked' = IF locked = r THEN NoOne ELSE locked
  /\ End(r)
  /\ UNCHANGED <<conv, ratings, sweeping, screens, misjudged>>

\* The process stops, or the answer is lost on its way.
Lose(r) ==
  /\ requests[r].op \in {"post", "after", "answer", "transfer",
                         "close", "reopen", "rate"}
  /\ End(r)
  /\ UNCHANGED <<messages, conv, ratings, locked, sweeping, screens, misjudged>>

-----------------------------------------------------------------------------
(* The staff's other routes: loadForStaff reads the conversation, what follows *)
(* writes it without looking again.                                            *)

\* POST /transfer
BeginTransfer(r) ==
  /\ Start(r, [NoRequest EXCEPT !.op = "transfer", !.saw = conv.awaiting])
  /\ UNCHANGED <<messages, conv, ratings, locked, sweeping, screens, misjudged>>

\* The new handler starts with a waiting time of its own, if one was read to run.
Transfer(r) ==
  LET req == requests[r] IN
  /\ req.op = "transfer" /\ locked = NoOne
  /\ conv' = [conv EXCEPT !.escalated = FALSE, !.awaiting = req.saw]
  /\ misjudged' = (misjudged \/ req.saw # conv.awaiting)
  /\ End(r)
  /\ UNCHANGED <<messages, ratings, locked, sweeping, screens>>

\* POST /close
BeginClose(r) ==
  /\ conv.status = "open"
  /\ Start(r, [NoRequest EXCEPT !.op = "close"])
  /\ UNCHANGED <<messages, conv, ratings, locked, sweeping, screens, misjudged>>

\* Its transaction updates the conversation first, so it holds the row when the
\* message takes its number.
InsertClosure(r) ==
  /\ requests[r].op = "close" /\ locked = NoOne /\ Room
  /\ Insert(Message(NoOne, "closed", FALSE, NoKey, "pending"))
  /\ locked' = r
  /\ Proceed(r, "closing", Len(messages) + 1)
  /\ UNCHANGED <<conv, ratings, sweeping, screens, misjudged>>

\* Mutant of CommitClosure: the waiting time runs on.
CommitClosureWaiting(r) ==
  LET req == requests[r] IN
  /\ req.op = "closing" /\ Publish(req.id)
  /\ conv' = [conv EXCEPT !.status = "closed", !.escalated = FALSE,
                          !.staffUnread = 0, !.last = req.id, !.lastSender = "system",
                          !.customerUnread = conv.customerUnread + 1]
  /\ locked' = NoOne /\ End(r)
  /\ UNCHANGED <<ratings, sweeping, screens, misjudged>>

\* Mutant of CommitClosure: the message of the closure does not become the last.
CommitClosureUnseen(r) ==
  LET req == requests[r] IN
  /\ req.op = "closing" /\ Publish(req.id)
  /\ conv' = [conv EXCEPT !.status = "closed", !.awaiting = FALSE, !.escalated = FALSE,
                          !.staffUnread = 0, !.lastSender = "system",
                          !.customerUnread = conv.customerUnread + 1]
  /\ locked' = NoOne /\ End(r)
  /\ UNCHANGED <<ratings, sweeping, screens, misjudged>>

CommitClosure(r) ==
  LET req == requests[r] IN
  /\ req.op = "closing" /\ Publish(req.id)
  /\ conv' = [conv EXCEPT !.status = "closed", !.awaiting = FALSE, !.escalated = FALSE,
                          !.staffUnread = 0, !.last = req.id, !.lastSender = "system",
                          !.customerUnread = conv.customerUnread + 1]
  /\ locked' = NoOne /\ End(r)
  /\ UNCHANGED <<ratings, sweeping, screens, misjudged>>

\* POST /reopen
BeginReopen(r) ==
  /\ conv.status = "closed"
  /\ Start(r, [NoRequest EXCEPT !.op = "reopen"])
  /\ UNCHANGED <<messages, conv, ratings, locked, sweeping, screens, misjudged>>

Reopen(r) ==
  /\ requests[r].op = "reopen" /\ locked = NoOne
  /\ conv' = [conv EXCEPT !.status = "open"]
  /\ End(r)
  /\ UNCHANGED <<messages, ratings, locked, sweeping, screens, misjudged>>

-----------------------------------------------------------------------------
(* The customer's rating, and the reading of messages *)

Closures == {i \in Id : Stored(i) /\ messages[i].event = "closed"}

Rated == {ratings[n] : n \in DOMAIN ratings}

\* POST /portal/chat/rating reads the last closure.
BeginRating(r) ==
  /\ \E c \in Closures :
       /\ \A i \in Closures : i <= c
       /\ Start(r, [NoRequest EXCEPT !.op = "rate", !.id = c])
  /\ UNCHANGED <<messages, conv, ratings, locked, sweeping, screens, misjudged>>

\* One rating per closure; another is refused.
Rate(r) ==
  LET c == requests[r].id IN
  /\ requests[r].op = "rate"
  /\ ratings' = IF c \in Rated THEN ratings ELSE Append(ratings, c)
  /\ End(r)
  /\ UNCHANGED <<messages, conv, locked, sweeping, screens, misjudged>>

\* GET /portal/chat and GET /chat/conversations/:id: the client starts over.
Open(s) ==
  /\ \E top \in VisibleTo(s) :
       /\ \A i \in VisibleTo(s) : i <= top
       /\ screens' = [screens EXCEPT ![s] = [cursor |-> top, shown |-> VisibleTo(s)]]
  /\ UNCHANGED <<messages, conv, ratings, locked, requests, sweeping, misjudged>>

\* Mutant of Poll: only the newest message is answered.
PollNewest(s) ==
  LET new == {i \in VisibleTo(s) : i > screens[s].cursor} IN
  /\ conv.last > screens[s].cursor \/ (s \in Staff /\ screens[s].cursor = 0)
  /\ \E top \in new :
       /\ \A i \in new : i <= top
       /\ screens' = [screens EXCEPT ![s] = [cursor |-> top, shown |-> screens[s].shown \cup {top}]]
  /\ UNCHANGED <<messages, conv, ratings, locked, requests, sweeping, misjudged>>

\* A poll answers what is above the cursor, if the conversation's last message is.
Poll(s) ==
  LET new == {i \in VisibleTo(s) : i > screens[s].cursor} IN
  /\ conv.last > screens[s].cursor \/ (s \in Staff /\ screens[s].cursor = 0)
  /\ \E top \in new :
       /\ \A i \in new : i <= top
       /\ screens' = [screens EXCEPT ![s] = [cursor |-> top, shown |-> screens[s].shown \cup new]]
  /\ UNCHANGED <<messages, conv, ratings, locked, requests, sweeping, misjudged>>

\* POST /read: markCustomerRead, markStaffRead
MarkRead(s) ==
  /\ locked = NoOne
  /\ conv' = IF s = Customer THEN [conv EXCEPT !.customerUnread = 0]
                             ELSE [conv EXCEPT !.staffUnread = 0]
  /\ UNCHANGED <<messages, ratings, locked, requests, sweeping, screens, misjudged>>

-----------------------------------------------------------------------------
(* sweepEscalations *)

\* Mutant of FindOverdue: what the staff has read is not looked for.
FindOverdueUnread(w) ==
  /\ ~sweeping[w] /\ conv.status = "open" /\ conv.awaiting /\ ~conv.escalated
  /\ conv.staffUnread > 0
  /\ sweeping' = [sweeping EXCEPT ![w] = TRUE]
  /\ UNCHANGED <<messages, conv, ratings, locked, requests, screens, misjudged>>

\* A wait may be found overdue whenever it runs (time is abstracted).
FindOverdue(w) ==
  /\ ~sweeping[w] /\ conv.status = "open" /\ conv.awaiting /\ ~conv.escalated
  /\ sweeping' = [sweeping EXCEPT ![w] = TRUE]
  /\ UNCHANGED <<messages, conv, ratings, locked, requests, screens, misjudged>>

\* The update, conditional on escalated_at alone, is not told of a reply or a closure
\* since; a conversation that another instance escalated stays as it is.
Escalate(w) ==
  /\ sweeping[w] /\ locked = NoOne
  /\ conv' = [conv EXCEPT !.escalated = TRUE]
  /\ sweeping' = [sweeping EXCEPT ![w] = FALSE]
  /\ UNCHANGED <<messages, ratings, locked, requests, screens, misjudged>>

-----------------------------------------------------------------------------

Init ==
  /\ messages = <<>>
  /\ conv = [status |-> "open", last |-> 0, lastSender |-> "nobody",
             customerUnread |-> 0, staffUnread |-> 0,
             awaiting |-> FALSE, escalated |-> FALSE]
  /\ ratings = <<>> /\ locked = NoOne
  /\ requests = [r \in Slot |-> NoRequest]
  /\ sweeping = [w \in Sweeper |-> FALSE]
  /\ screens = [s \in Screen |-> [cursor |-> 0, shown |-> {}]]
  /\ misjudged = FALSE

Posting(r) ==
  \/ \E k \in Key : SendCustomer(r, k) \/ \E internal \in BOOLEAN : BeginSend(r, k, internal)
  \/ SendStaff(r) \/ CommitPost(r)
  \/ AutoReply(r) \/ Answer(r) \/ RollBack(r) \/ Lose(r)

Handling(r) ==
  \/ BeginTransfer(r) \/ BeginClose(r) \/ BeginReopen(r)
  \/ Transfer(r)
  \/ InsertClosure(r) \/ CommitClosure(r) \/ Reopen(r)
  \/ BeginRating(r) \/ Rate(r)

Reading(s) == Open(s) \/ Poll(s) \/ MarkRead(s)

Sweep(w) == FindOverdue(w) \/ Escalate(w)

Next ==
  \/ \E r \in Slot : Posting(r) \/ Handling(r)
  \/ \E s \in Screen : Reading(s)
  \/ \E w \in Sweeper : Sweep(w)

\* The sweep rides on every poll, inbox and send, and a daily job forces it
\* (chat-staff.ts:737); a transaction ends; nothing else must happen.
Fairness ==
  /\ \A w \in Sweeper : WF_vars(Sweep(w))
  /\ \A r \in Slot : WF_vars(CommitClosure(r))

Spec == Init /\ [][Next]_vars
FairSpec == Spec /\ Fairness
=============================================================================
