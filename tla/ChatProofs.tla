------------------------------- MODULE ChatProofs -------------------------------
(* Proofs about the chat, for any number of requests, clients and messages. *)
EXTENDS ChatProperties, SequenceTheorems, TLAPS

USE ChatAssumption

LEMMA NoRequestType == NoRequest \in RequestType
  BY DEF NoRequest, RequestType, Ops

LEMMA InitTypes == Init => TypeOK
<1> SUFFICES ASSUME Init PROVE TypeOK
  OBVIOUS
<1>1. messages \in Seq(MessageType) /\ ratings \in Seq(Nat)
  BY DEF Init
<1>2. conv \in ConvType
  BY DEF Init, ConvType
<1>3. requests \in [Slot -> RequestType]
  BY NoRequestType DEF Init
<1>4. screens \in [Screen -> [cursor: Nat, shown: SUBSET Nat]]
  BY DEF Init
<1> QED BY <1>1, <1>2, <1>3, <1>4 DEF Init, TypeOK

\* A step that leaves the rows alone, or adds one, or changes the state of one.
LEMMA InsertTypes ==
  ASSUME TypeOK, NEW m \in MessageType, Insert(m)
  PROVE  messages' \in Seq(MessageType) /\ Len(messages') = Len(messages) + 1
  BY AppendProperties DEF TypeOK, Insert

LEMMA MarkedType ==
  ASSUME NEW m \in MessageType, NEW late \in BOOLEAN
  PROVE  /\ [m EXCEPT !.state = "stored", !.late = late] \in MessageType
         /\ [m EXCEPT !.state = "gone"] \in MessageType
  BY DEF MessageType

LEMMA PublishTypes ==
  ASSUME TypeOK, NEW i \in Id, Publish(i)
  PROVE  messages' \in Seq(MessageType) /\ Len(messages') = Len(messages)
<1> DEFINE late == \E j \in Id : j > i /\ Stored(j)
           row == [messages[i] EXCEPT !.state = "stored", !.late = late]
<1>1. late \in BOOLEAN
  OBVIOUS
<1>2. messages[i] \in MessageType
  BY ElementOfSeq DEF TypeOK, Id
<1>3. row \in MessageType
  <2> HIDE DEF late
  <2> QED BY <1>1, <1>2, MarkedType
<1>4. messages' = [messages EXCEPT ![i] = row]
  BY DEF Publish
<1> HIDE DEF row, late
<1> QED BY <1>3, <1>4, ExceptSeq DEF TypeOK, Id

LEMMA WithdrawTypes ==
  ASSUME TypeOK, NEW i \in Id, Withdraw(i)
  PROVE  messages' \in Seq(MessageType) /\ Len(messages') = Len(messages)
<1> DEFINE row == [messages[i] EXCEPT !.state = "gone"]
<1>1. row \in MessageType
  BY ElementOfSeq, MarkedType DEF TypeOK, Id
<1>2. messages' = [messages EXCEPT ![i] = row]
  BY DEF Withdraw
<1> HIDE DEF row
<1> QED BY <1>1, <1>2, ExceptSeq DEF TypeOK, Id

LEMMA RequestTypes ==
  ASSUME TypeOK, NEW r \in Slot, NEW req \in RequestType,
         requests' = [requests EXCEPT ![r] = req]
  PROVE  requests' \in [Slot -> RequestType]
  BY DEF TypeOK

LEMMA StartTypes ==
  ASSUME TypeOK, NEW r \in Slot, NEW req \in RequestType, Start(r, req)
  PROVE  requests' \in [Slot -> RequestType]
  BY RequestTypes DEF Start

LEMMA MovedType ==
  ASSUME NEW q \in RequestType, NEW op \in Ops, NEW id \in Nat
  PROVE  [q EXCEPT !.op = op, !.id = id] \in RequestType
  BY DEF RequestType

LEMMA ProceedTypes ==
  ASSUME TypeOK, NEW r \in Slot, NEW op \in Ops, NEW id \in Nat, Proceed(r, op, id)
  PROVE  requests' \in [Slot -> RequestType]
<1> DEFINE req == [requests[r] EXCEPT !.op = op, !.id = id]
<1>1. req \in RequestType
  <2>1. requests[r] \in RequestType
    BY DEF TypeOK
  <2> QED BY <2>1, MovedType
<1>2. requests' = [requests EXCEPT ![r] = req]
  BY DEF Proceed
<1> HIDE DEF req
<1> QED BY <1>1, <1>2, RequestTypes

LEMMA EndTypes ==
  ASSUME TypeOK, NEW r \in Slot, End(r)
  PROVE  requests' \in [Slot -> RequestType]
  BY NoRequestType, RequestTypes DEF End

LEMMA InsertPostTypes ==
  ASSUME TypeOK, NEW r \in Slot, NEW u \in Reader \cup {NoOne}, NEW k \in Key \cup {NoKey},
         NEW internal \in BOOLEAN, InsertPost(r, u, k, internal)
  PROVE  messages' \in Seq(MessageType) /\ requests' \in [Slot -> RequestType]
<1>1. CASE /\ Insert(Message(u, "text", internal, k, "pending"))
           /\ requests' = [requests EXCEPT ![r] =
                             [op |-> "inserted", who |-> u, key |-> k, id |-> Len(messages) + 1,
                              internal |-> internal, saw |-> FALSE]]
  <2>1. Message(u, "text", internal, k, "pending") \in MessageType
    BY DEF Message, MessageType, Events
  <2>2. [op |-> "inserted", who |-> u, key |-> k, id |-> Len(messages) + 1,
         internal |-> internal, saw |-> FALSE] \in RequestType
    BY LenProperties DEF TypeOK, RequestType, Ops
  <2>3. messages' \in Seq(MessageType)
    BY <1>1, <2>1, InsertTypes
  <2> QED BY <1>1, <2>2, <2>3, RequestTypes
<1>2. CASE UNCHANGED messages /\ \E i \in SameKey(k) :
             requests' = [requests EXCEPT ![r] =
                            [NoRequest EXCEPT !.op = "answer", !.who = u, !.key = k, !.id = i]]
  <2> PICK i \in SameKey(k) :
             requests' = [requests EXCEPT ![r] =
                            [NoRequest EXCEPT !.op = "answer", !.who = u, !.key = k, !.id = i]]
    BY <1>2
  <2>1. i \in Nat
    BY DEF SameKey, Id
  <2>2. [NoRequest EXCEPT !.op = "answer", !.who = u, !.key = k, !.id = i] \in RequestType
    BY <2>1 DEF NoRequest, RequestType, Ops
  <2> QED BY <1>2, <2>2, RequestTypes DEF TypeOK
<1> QED BY <1>1, <1>2 DEF InsertPost

LEMMA RequestOf ==
  ASSUME TypeOK, NEW r \in Slot
  PROVE  requests[r] \in RequestType
  BY DEF TypeOK

LEMMA ConvOf ==
  ASSUME TypeOK
  PROVE  conv \in ConvType
  BY DEF TypeOK

LEMMA InsertedType ==
  ASSUME NEW event \in Events, NEW state \in {"pending", "stored"}
  PROVE  Message(NoOne, event, FALSE, NoKey, state) \in MessageType
  BY DEF Message, MessageType

\* What posts and closures write to the conversation.
LEMMA SaidTypes ==
  ASSUME NEW c \in ConvType, NEW i \in Nat
  PROVE  /\ [c EXCEPT !.last = i, !.lastSender = "customer", !.staffUnread = c.staffUnread + 1,
                      !.customerUnread = 0,
                      !.awaiting = TRUE, !.status = "open"] \in ConvType
         /\ [c EXCEPT !.last = i, !.lastSender = "staff", !.customerUnread = c.customerUnread + 1,
                      !.staffUnread = 0,
                      !.awaiting = FALSE, !.escalated = FALSE] \in ConvType
         /\ [c EXCEPT !.status = "closed", !.awaiting = FALSE, !.escalated = FALSE,
                      !.staffUnread = 0, !.last = i, !.lastSender = "system",
                      !.customerUnread = c.customerUnread + 1] \in ConvType
<1>1. c.staffUnread + 1 \in Nat /\ c.customerUnread + 1 \in Nat
  BY DEF ConvType
<1> QED BY <1>1 DEF ConvType

\* Every step of a post keeps the types; a transaction in flight has a row.
LEMMA PostingTypes ==
  ASSUME TypeOK, ChatInvariant, NEW r \in Slot, Posting(r)
  PROVE  TypeOK'
<1> USE RequestOf
<1>1. ASSUME NEW k \in Key, SendCustomer(r, k)
      PROVE  TypeOK'
  <2>1. InsertPost(r, Customer, k, FALSE)
    BY <1>1 DEF SendCustomer
  <2>2. messages' \in Seq(MessageType) /\ requests' \in [Slot -> RequestType]
    BY <2>1, InsertPostTypes DEF Reader
  <2> QED BY <1>1, <2>2 DEF SendCustomer, TypeOK
<1>2. ASSUME NEW k \in Key, NEW internal \in BOOLEAN, BeginSend(r, k, internal)
      PROVE  TypeOK'
  <2>1. [op |-> "post", who |-> Owner[k], key |-> k, id |-> 0, internal |-> internal, saw |-> FALSE]
          \in RequestType
    BY DEF RequestType, Ops
  <2>2. requests' \in [Slot -> RequestType]
    BY <1>2, <2>1, StartTypes DEF BeginSend
  <2> QED BY <1>2, <2>2 DEF BeginSend, TypeOK
<1>3. CASE SendStaff(r)
  <2>1. /\ requests[r].who \in Reader \cup {NoOne} /\ requests[r].key \in Key \cup {NoKey}
        /\ requests[r].internal \in BOOLEAN
    BY DEF RequestType
  <2>2. InsertPost(r, requests[r].who, requests[r].key, requests[r].internal)
    BY <1>3 DEF SendStaff
  <2>3. messages' \in Seq(MessageType) /\ requests' \in [Slot -> RequestType]
    BY <2>1, <2>2, InsertPostTypes
  <2> QED BY <1>3, <2>3 DEF SendStaff, TypeOK
<1>4. CASE CommitPost(r)
  <2>1. requests[r].id \in Id /\ requests[r].id \in Nat
    BY <1>4 DEF CommitPost, ChatInvariant, InFlight, Id
  <2>2. messages' \in Seq(MessageType)
    BY <1>4, <2>1, PublishTypes DEF CommitPost
  <2>3. requests' \in [Slot -> RequestType]
    BY <1>4, <2>1, ProceedTypes DEF CommitPost, Ops
  <2>4. conv' \in ConvType
    <3>1. UNCHANGED conv \/ CustomerSaid(requests[r].id) \/ StaffSaid(requests[r].id)
      BY <1>4 DEF CommitPost
    <3>2. CASE CustomerSaid(requests[r].id)
      BY <2>1, <3>2, SaidTypes, ConvOf DEF CustomerSaid
    <3>3. CASE StaffSaid(requests[r].id)
      BY <2>1, <3>3, SaidTypes, ConvOf DEF StaffSaid
    <3> QED BY <3>1, <3>2, <3>3, ConvOf
  <2> QED BY <1>4, <2>2, <2>3, <2>4 DEF CommitPost, TypeOK
<1>5. CASE AutoReply(r)
  <2>1. requests[r].id \in Nat
    BY DEF RequestType
  <2>2. messages' \in Seq(MessageType)
    BY <1>5, InsertedType, InsertTypes DEF AutoReply, Events
  <2>3. requests' \in [Slot -> RequestType]
    BY <1>5, <2>1, ProceedTypes DEF AutoReply, Ops
  <2> QED BY <1>5, <2>2, <2>3 DEF AutoReply, TypeOK
<1>6. CASE Answer(r)
  <2>1. requests[r].id \in Nat
    BY DEF RequestType
  <2>2. screens' \in [Screen -> [cursor: Nat, shown: SUBSET Nat]]
    BY <1>6, <2>1 DEF Answer, TypeOK
  <2>3. requests' \in [Slot -> RequestType]
    BY <1>6, EndTypes DEF Answer
  <2> QED BY <1>6, <2>2, <2>3 DEF Answer, TypeOK
<1>7. CASE RollBack(r)
  <2>1. requests[r].id \in Id
    BY <1>7 DEF RollBack, ChatInvariant, InFlight
  <2>2. messages' \in Seq(MessageType)
    BY <1>7, <2>1, WithdrawTypes DEF RollBack
  <2>3. requests' \in [Slot -> RequestType]
    BY <1>7, EndTypes DEF RollBack
  <2> QED BY <1>7, <2>2, <2>3 DEF RollBack, TypeOK
<1>8. CASE Lose(r)
  BY <1>8, EndTypes DEF Lose, TypeOK
<1> QED BY <1>1, <1>2, <1>3, <1>4, <1>5, <1>6, <1>7, <1>8 DEF Posting

LEMMA HandlingTypes ==
  ASSUME TypeOK, ChatInvariant, NEW r \in Slot, Handling(r)
  PROVE  TypeOK'
<1> USE RequestOf, ConvOf
<1>1. CASE BeginTransfer(r)
  <2>1. [NoRequest EXCEPT !.op = "transfer", !.saw = conv.awaiting] \in RequestType
    BY DEF NoRequest, RequestType, Ops, ConvType
  <2> QED BY <1>1, <2>1, StartTypes DEF BeginTransfer, TypeOK
<1>2. CASE BeginClose(r)
  <2>1. [NoRequest EXCEPT !.op = "close"] \in RequestType
    BY DEF NoRequest, RequestType, Ops
  <2> QED BY <1>2, <2>1, StartTypes DEF BeginClose, TypeOK
<1>3. CASE BeginReopen(r)
  <2>1. [NoRequest EXCEPT !.op = "reopen"] \in RequestType
    BY DEF NoRequest, RequestType, Ops
  <2> QED BY <1>3, <2>1, StartTypes DEF BeginReopen, TypeOK
<1>4. CASE Transfer(r)
  <2>1. requests[r].saw \in BOOLEAN
    BY DEF RequestType
  <2>2. conv' \in ConvType
    BY <1>4, <2>1 DEF Transfer, ConvType
  <2>3. requests' \in [Slot -> RequestType]
    BY <1>4, EndTypes DEF Transfer
  <2>4. misjudged' \in BOOLEAN
    BY <1>4 DEF Transfer, TypeOK
  <2> QED BY <1>4, <2>2, <2>3, <2>4 DEF Transfer, TypeOK
<1>5. CASE InsertClosure(r)
  <2>1. messages' \in Seq(MessageType)
    BY <1>5, InsertedType, InsertTypes DEF InsertClosure, Events
  <2>2. Len(messages) + 1 \in Nat
    BY LenProperties DEF TypeOK
  <2>3. requests' \in [Slot -> RequestType]
    BY <1>5, <2>2, ProceedTypes DEF InsertClosure, Ops
  <2> QED BY <1>5, <2>1, <2>3 DEF InsertClosure, TypeOK
<1>6. CASE CommitClosure(r)
  <2>1. requests[r].id \in Id /\ requests[r].id \in Nat
    BY <1>6 DEF CommitClosure, ChatInvariant, InFlight, Id
  <2>2. messages' \in Seq(MessageType)
    BY <1>6, <2>1, PublishTypes DEF CommitClosure
  <2>3. conv' \in ConvType
    BY <1>6, <2>1, SaidTypes DEF CommitClosure
  <2>4. requests' \in [Slot -> RequestType]
    BY <1>6, EndTypes DEF CommitClosure
  <2> QED BY <1>6, <2>2, <2>3, <2>4 DEF CommitClosure, TypeOK
<1>7. CASE Reopen(r)
  <2>1. conv' \in ConvType
    BY <1>7 DEF Reopen, ConvType
  <2> QED BY <1>7, <2>1, EndTypes DEF Reopen, TypeOK
<1>8. CASE BeginRating(r)
  <2> PICK c \in Closures : Start(r, [NoRequest EXCEPT !.op = "rate", !.id = c])
    BY <1>8 DEF BeginRating
  <2>1. c \in Nat
    BY DEF Closures, Id
  <2>2. [NoRequest EXCEPT !.op = "rate", !.id = c] \in RequestType
    BY <2>1, NoRequestType, MovedType DEF Ops
  <2> QED BY <1>8, <2>2, StartTypes DEF BeginRating, TypeOK
<1>9. CASE Rate(r)
  <2>1. requests[r].id \in Nat
    BY DEF RequestType
  <2>2. ratings' \in Seq(Nat)
    BY <1>9, <2>1, AppendProperties DEF Rate, TypeOK
  <2> QED BY <1>9, <2>2, EndTypes DEF Rate, TypeOK
<1> QED BY <1>1, <1>2, <1>3, <1>4, <1>5, <1>6, <1>7, <1>8, <1>9 DEF Handling

LEMMA ReadingTypes ==
  ASSUME TypeOK, NEW s \in Screen, Reading(s)
  PROVE  TypeOK'
<1>1. CASE Open(s)
  <2> PICK top \in VisibleTo(s) :
        screens' = [screens EXCEPT ![s] = [cursor |-> top, shown |-> VisibleTo(s)]]
    BY <1>1 DEF Open
  <2>1. top \in Nat /\ VisibleTo(s) \subseteq Nat
    BY DEF VisibleTo, Id
  <2>2. screens' \in [Screen -> [cursor: Nat, shown: SUBSET Nat]]
    BY <2>1 DEF TypeOK
  <2> QED BY <1>1, <2>2 DEF Open, TypeOK
<1>2. CASE Poll(s)
  <2> DEFINE new == {i \in VisibleTo(s) : i > screens[s].cursor}
  <2> PICK top \in new :
        screens' = [screens EXCEPT ![s] = [cursor |-> top, shown |-> screens[s].shown \cup new]]
    BY <1>2 DEF Poll
  <2>1. top \in Nat /\ new \subseteq Nat
    BY DEF VisibleTo, Id
  <2>2. screens[s].shown \subseteq Nat
    BY DEF TypeOK
  <2>3. screens' \in [Screen -> [cursor: Nat, shown: SUBSET Nat]]
    <3> HIDE DEF new
    <3> QED BY <2>1, <2>2 DEF TypeOK
  <2> QED BY <1>2, <2>3 DEF Poll, TypeOK
<1>3. CASE MarkRead(s)
  <2>1. conv' \in ConvType
    BY <1>3, ConvOf DEF MarkRead, ConvType
  <2> QED BY <1>3, <2>1 DEF MarkRead, TypeOK
<1> QED BY <1>1, <1>2, <1>3 DEF Reading

LEMMA SweepTypes ==
  ASSUME TypeOK, NEW w \in Sweeper, Sweep(w)
  PROVE  TypeOK'
<1>1. CASE FindOverdue(w)
  BY <1>1 DEF FindOverdue, TypeOK
<1>2. CASE Escalate(w)
  <2>1. conv' \in ConvType
    BY <1>2, ConvOf DEF Escalate, ConvType
  <2> QED BY <1>2, <2>1 DEF Escalate, TypeOK
<1> QED BY <1>1, <1>2 DEF Sweep

LEMMA TypesNext == TypeOK /\ ChatInvariant /\ [Next]_vars => TypeOK'
  BY PostingTypes, HandlingTypes, ReadingTypes, SweepTypes DEF Next, vars, TypeOK

-----------------------------------------------------------------------------
\* Every write to the conversation sets the clock and the last word together, a
\* transfer, which does not, is judged by what it read.
LEMMA WaitingInit == Init => WaitingTellsLastWord
  BY DEF Init, WaitingTellsLastWord

LEMMA WaitingNext == TypeOK /\ WaitingTellsLastWord /\ [Next]_vars => WaitingTellsLastWord'
<1> SUFFICES ASSUME TypeOK, WaitingTellsLastWord, [Next]_vars
             PROVE  WaitingTellsLastWord'
  OBVIOUS
<1> USE ConvOf
<1>1. CASE UNCHANGED <<conv, misjudged>>
  BY <1>1 DEF WaitingTellsLastWord
<1>2. ASSUME NEW r \in Slot, CommitPost(r)
      PROVE  WaitingTellsLastWord'
  <2>1. UNCHANGED conv \/ CustomerSaid(requests[r].id) \/ StaffSaid(requests[r].id)
    BY <1>2 DEF CommitPost
  <2>2. UNCHANGED misjudged
    BY <1>2 DEF CommitPost
  <2>3. CASE CustomerSaid(requests[r].id)
    BY <2>2, <2>3 DEF CustomerSaid, WaitingTellsLastWord, ConvType
  <2>4. CASE StaffSaid(requests[r].id)
    BY <2>2, <2>4 DEF StaffSaid, WaitingTellsLastWord, ConvType
  <2> QED BY <2>1, <2>2, <2>3, <2>4, <1>1
<1>3. ASSUME NEW r \in Slot, Transfer(r)
      PROVE  WaitingTellsLastWord'
  BY <1>3 DEF Transfer, WaitingTellsLastWord, ConvType
<1>4. ASSUME NEW r \in Slot, CommitClosure(r)
      PROVE  WaitingTellsLastWord'
  BY <1>4 DEF CommitClosure, WaitingTellsLastWord, ConvType
<1>5. ASSUME NEW r \in Slot, Reopen(r)
      PROVE  WaitingTellsLastWord'
  BY <1>5 DEF Reopen, WaitingTellsLastWord, ConvType
<1>6. ASSUME NEW s \in Screen, MarkRead(s)
      PROVE  WaitingTellsLastWord'
  BY <1>6 DEF MarkRead, WaitingTellsLastWord, ConvType
<1>7. ASSUME NEW w \in Sweeper, Escalate(w)
      PROVE  WaitingTellsLastWord'
  BY <1>7 DEF Escalate, WaitingTellsLastWord, ConvType
<1>8. ASSUME NEW r \in Slot, Posting(r) \/ Handling(r)
      PROVE  \/ UNCHANGED <<conv, misjudged>>
             \/ CommitPost(r) \/ Transfer(r) \/ CommitClosure(r) \/ Reopen(r)
  BY <1>8 DEF Posting, Handling, SendCustomer, BeginSend, SendStaff, AutoReply, Answer, RollBack,
              Lose, BeginTransfer, BeginClose, BeginReopen, InsertClosure, BeginRating, Rate
<1>9. ASSUME NEW s \in Screen, Reading(s)
      PROVE  UNCHANGED <<conv, misjudged>> \/ MarkRead(s)
  BY <1>9 DEF Reading, Open, Poll
<1>10. ASSUME NEW w \in Sweeper, Sweep(w)
       PROVE  UNCHANGED <<conv, misjudged>> \/ Escalate(w)
  BY <1>10 DEF Sweep, FindOverdue
<1> QED BY <1>1, <1>2, <1>3, <1>4, <1>5, <1>6, <1>7, <1>8, <1>9, <1>10 DEF Next, vars

-----------------------------------------------------------------------------
\* What one step does to the rows.
LEMMA InsertRows ==
  ASSUME TypeOK, NEW m \in MessageType, Insert(m)
  PROVE  /\ Id' = Id \cup {Len(messages) + 1} /\ Len(messages) + 1 \notin Id
         /\ \A i \in Id : messages'[i] = messages[i]
         /\ messages'[Len(messages) + 1] = m
<1>1. Len(messages) \in Nat /\ Len(messages') = Len(messages) + 1
  BY LenProperties, InsertTypes DEF TypeOK
<1> QED BY <1>1, AppendProperties DEF TypeOK, Insert, Id

LEMMA PublishRows ==
  ASSUME TypeOK, NEW i \in Id, Publish(i)
  PROVE  /\ Id' = Id
         /\ \A j \in Id \ {i} : messages'[j] = messages[j]
         /\ messages'[i].state = "stored"
         /\ messages'[i].late = \E j \in Id : j > i /\ Stored(j)
         /\ messages'[i].key = messages[i].key /\ messages'[i].from = messages[i].from
         /\ messages'[i].internal = messages[i].internal /\ messages'[i].event = messages[i].event
<1> DEFINE late == \E j \in Id : j > i /\ Stored(j)
           row == [messages[i] EXCEPT !.state = "stored", !.late = late]
<1>1. messages[i] \in MessageType
  BY ElementOfSeq DEF TypeOK, Id
<1>2. /\ row.state = "stored" /\ row.late = late /\ row.key = messages[i].key
      /\ row.from = messages[i].from /\ row.internal = messages[i].internal
      /\ row.event = messages[i].event
  <2> HIDE DEF late
  <2> QED BY <1>1 DEF MessageType
<1>3. row \in MessageType
  <2>1. late \in BOOLEAN OBVIOUS
  <2> HIDE DEF late
  <2> QED BY <1>1, <2>1, MarkedType
<1>4. messages' = [messages EXCEPT ![i] = row]
  BY DEF Publish
<1>5. late <=> \E j \in Id : j > i /\ Stored(j)
  OBVIOUS
<1> HIDE DEF row
<1>6. Id' = Id /\ \A j \in Id : messages'[j] = IF j = i THEN row ELSE messages[j]
  BY <1>3, <1>4, ExceptSeq DEF TypeOK, Id
<1> QED BY <1>2, <1>6

LEMMA DropRows ==
  ASSUME TypeOK, NEW i \in Id, Withdraw(i)
  PROVE  /\ Id' = Id
         /\ \A j \in Id \ {i} : messages'[j] = messages[j]
         /\ messages'[i].state = "gone"
         /\ messages'[i].key = messages[i].key /\ messages'[i].from = messages[i].from
         /\ messages'[i].internal = messages[i].internal /\ messages'[i].event = messages[i].event
<1> DEFINE row == [messages[i] EXCEPT !.state = "gone"]
<1>1. messages[i] \in MessageType
  BY ElementOfSeq DEF TypeOK, Id
<1>2. /\ row.state = "gone" /\ row.key = messages[i].key
      /\ row.from = messages[i].from /\ row.internal = messages[i].internal
      /\ row.event = messages[i].event
  BY <1>1 DEF MessageType
<1>3. row \in MessageType
  BY <1>1, MarkedType
<1> HIDE DEF row
<1>4. messages' = [messages EXCEPT ![i] = row]
  BY DEF row, Withdraw
<1>5. Id' = Id /\ \A j \in Id : messages'[j] = IF j = i THEN row ELSE messages[j]
  BY <1>3, <1>4, ExceptSeq DEF TypeOK, Id
<1> QED BY <1>2, <1>5

-----------------------------------------------------------------------------
(* What a step of request r may do, whichever it is. *)
Flying(r) == requests[r].op \in {"inserted", "closing"}
Answering(r) == requests[r].op \in {"after", "answer"}

\* Rows stay, but for the one that r inserted, which was pending.
RowsKept(r) ==
  /\ \A i \in Id :
       /\ i \in Id'
       /\ messages'[i].key = messages[i].key /\ messages'[i].from = messages[i].from
       /\ messages'[i].internal = messages[i].internal /\ messages'[i].event = messages[i].event
       /\ messages'[i] = messages[i] \/ (Flying(r) /\ i = requests[r].id)
  /\ \A i \in Id : messages'[i].state = "stored" =>
       Stored(i) \/ (messages'[i].late = \E j \in Id : j > i /\ Stored(j))

\* A new row is the last, and first of its key, which its author drew; only an
\* automatic reply is stored at once.
RowsNew ==
  \A i \in Id' \ Id :
    /\ i = Len(messages) + 1
    /\ messages'[i].key # NoKey => SameKey(messages'[i].key) = {}
    /\ messages'[i].key \in Key => messages'[i].from = Owner[messages'[i].key]
    /\ messages'[i].state = "stored" => messages'[i].event = "auto_reply"

\* A request that starts carries a key of its author, or none.
KeyGiven(q) ==
  /\ q.op = "post" => q.key \in Key /\ q.who = Owner[q.key]
  /\ q.op = "close" => q.key = NoKey /\ q.who = NoOne

\* The others' requests stay; r's own is in flight with the new row, or answers a
\* stored message of its key.
RequestMoved(r) ==
  /\ \A t \in Slot \ {r} : requests'[t] = requests[t]
  /\ KeyGiven(requests'[r])
  /\ Flying(r)' =>
       /\ requests'[r].id \in Id' \ Id /\ messages'[requests'[r].id].state = "pending"
       /\ messages'[requests'[r].id].key = requests'[r].key
       /\ messages'[requests'[r].id].from = requests'[r].who
       /\ requests'[r].op = "inserted" => messages'[requests'[r].id].internal = requests'[r].internal
  /\ Answering(r)' =>
       /\ requests'[r].id \in Id' /\ messages'[requests'[r].id].state = "stored"
       /\ messages'[requests'[r].id].key = requests'[r].key
       /\ messages'[requests'[r].id].from = requests'[r].who

SlotStep(r) == RowsKept(r) /\ RowsNew /\ RequestMoved(r)

LEMMA QuietStep ==
  ASSUME TypeOK, NEW r \in Slot, UNCHANGED messages, NEW q \in RequestType,
         requests' = [requests EXCEPT ![r] = q],
         q.op \notin {"inserted", "closing", "after", "answer"}, KeyGiven(q)
  PROVE  SlotStep(r)
<1>1. RowsKept(r) /\ RowsNew
  BY DEF RowsKept, RowsNew, Id, Stored
<1>2. requests'[r] = q /\ \A t \in Slot \ {r} : requests'[t] = requests[t]
  BY DEF TypeOK
<1>3. RequestMoved(r)
  BY <1>2 DEF RequestMoved, Flying, Answering
<1> QED BY <1>1, <1>3 DEF SlotStep

LEMMA EndStep ==
  ASSUME TypeOK, NEW r \in Slot, UNCHANGED messages, End(r)
  PROVE  SlotStep(r)
<1>1. NoRequest.op = "idle" /\ KeyGiven(NoRequest)
  BY DEF NoRequest, KeyGiven
<1> QED BY <1>1, NoRequestType, QuietStep DEF End

LEMMA NewRowStep ==
  ASSUME TypeOK, NEW r \in Slot, NEW m \in MessageType, Insert(m),
         m.key # NoKey => SameKey(m.key) = {}, m.key \in Key => m.from = Owner[m.key],
         m.state = "stored" => m.event = "auto_reply",
         NEW q \in RequestType,
         requests' = [requests EXCEPT ![r] = q],
         \/ /\ q.op \in {"inserted", "closing"} /\ q.id = Len(messages) + 1
            /\ m.state = "pending" /\ m.key = q.key /\ m.from = q.who
            /\ q.op = "inserted" => m.internal = q.internal
         \/ /\ q.op \in {"after", "answer"} /\ q.id \in Id /\ Stored(q.id)
            /\ messages[q.id].key = q.key /\ messages[q.id].from = q.who
  PROVE  SlotStep(r)
<1>1. /\ Id' = Id \cup {Len(messages) + 1} /\ Len(messages) + 1 \notin Id
      /\ \A i \in Id : messages'[i] = messages[i]
      /\ messages'[Len(messages) + 1] = m
  BY InsertRows
<1>2. RowsKept(r)
  BY <1>1 DEF RowsKept, Stored
<1>3. RowsNew
  BY <1>1 DEF RowsNew
<1>4. requests'[r] = q /\ \A t \in Slot \ {r} : requests'[t] = requests[t]
  BY DEF TypeOK
<1>5. RequestMoved(r)
  BY <1>1, <1>4 DEF RequestMoved, KeyGiven, Flying, Answering, Stored
<1> QED BY <1>2, <1>3, <1>5 DEF SlotStep

LEMMA PublishStep ==
  ASSUME TypeOK, NEW r \in Slot, Flying(r), InFlight(r), Publish(requests[r].id),
         NEW q \in RequestType, requests' = [requests EXCEPT ![r] = q],
         \/ q.op = "idle"
         \/ /\ q.op \in {"after", "answer"} /\ q.id = requests[r].id
            /\ q.key = requests[r].key /\ q.who = requests[r].who
  PROVE  SlotStep(r)
<1> PICK i : i = requests[r].id
  OBVIOUS
<1>1. /\ i \in Id /\ messages[i].state = "pending"
      /\ messages[i].key = requests[r].key /\ messages[i].from = requests[r].who
  BY DEF Flying, InFlight
<1>2. /\ Id' = Id
      /\ \A j \in Id \ {i} : messages'[j] = messages[j]
      /\ messages'[i].state = "stored"
      /\ messages'[i].late = \E j \in Id : j > i /\ Stored(j)
      /\ messages'[i].key = messages[i].key /\ messages'[i].from = messages[i].from
      /\ messages'[i].internal = messages[i].internal /\ messages'[i].event = messages[i].event
  BY <1>1, PublishRows
<1>3. RowsKept(r)
  <2>1. ASSUME NEW j \in Id
        PROVE  /\ j \in Id'
               /\ messages'[j].key = messages[j].key /\ messages'[j].from = messages[j].from
               /\ messages'[j].internal = messages[j].internal /\ messages'[j].event = messages[j].event
               /\ messages'[j] = messages[j] \/ (Flying(r) /\ j = requests[r].id)
    BY <1>2
  <2>2. ASSUME NEW j \in Id, messages'[j].state = "stored"
        PROVE  Stored(j) \/ (messages'[j].late = \E n \in Id : n > j /\ Stored(n))
    <3>1. CASE j = i
      BY <1>2, <3>1
    <3>2. CASE j # i
      BY <1>2, <2>2, <3>2 DEF Stored
    <3> QED BY <3>1, <3>2
  <2> QED BY <2>1, <2>2 DEF RowsKept
<1>4. RowsNew
  BY <1>2 DEF RowsNew
<1>5. requests'[r] = q /\ \A t \in Slot \ {r} : requests'[t] = requests[t]
  BY DEF TypeOK
<1>6. RequestMoved(r)
  BY <1>1, <1>2, <1>5 DEF RequestMoved, KeyGiven, Flying, Answering
<1> QED BY <1>3, <1>4, <1>6 DEF SlotStep

LEMMA RollBackStep ==
  ASSUME TypeOK, ChatInvariant, NEW r \in Slot, RollBack(r)
  PROVE  SlotStep(r)
<1>0. Flying(r) /\ InFlight(r)
  BY DEF RollBack, Flying, ChatInvariant
<1> PICK i : i = requests[r].id
  OBVIOUS
<1>1. i \in Id /\ messages[i].state = "pending"
  BY <1>0 DEF Flying, InFlight
<1>2. /\ Id' = Id
      /\ \A j \in Id \ {i} : messages'[j] = messages[j]
      /\ messages'[i].state = "gone"
      /\ messages'[i].key = messages[i].key /\ messages'[i].from = messages[i].from
      /\ messages'[i].internal = messages[i].internal /\ messages'[i].event = messages[i].event
  BY <1>1, DropRows DEF RollBack
<1>3. RowsKept(r)
  BY <1>0, <1>2 DEF RowsKept, Stored
<1>4. RowsNew
  BY <1>2 DEF RowsNew
<1>5. requests'[r] = NoRequest /\ \A t \in Slot \ {r} : requests'[t] = requests[t]
  BY DEF TypeOK, RollBack, End
<1>6. RequestMoved(r)
  BY <1>5 DEF RequestMoved, KeyGiven, Flying, Answering, NoRequest
<1> QED BY <1>3, <1>4, <1>6 DEF SlotStep

\* The insert of a post: a key is new, or was used by the same user.
LEMMA InsertPostStep ==
  ASSUME TypeOK, ChatInvariant, NEW r \in Slot, NEW k \in Key, NEW internal \in BOOLEAN,
         InsertPost(r, Owner[k], k, internal)
  PROVE  SlotStep(r)
<1> PICK u : u = Owner[k]
  OBVIOUS
<1>0. u \in Reader /\ k # NoKey
  OBVIOUS
<1>1. CASE /\ SameKey(k) = {}
           /\ Insert(Message(u, "text", internal, k, "pending"))
           /\ requests' = [requests EXCEPT ![r] =
                             [op |-> "inserted", who |-> u, key |-> k, id |-> Len(messages) + 1,
                              internal |-> internal, saw |-> FALSE]]
  <2> DEFINE m == Message(u, "text", internal, k, "pending")
             q == [op |-> "inserted", who |-> u, key |-> k, id |-> Len(messages) + 1,
                   internal |-> internal, saw |-> FALSE]
  <2>1. m \in MessageType /\ m.key = k /\ m.state = "pending" /\ m.from = u
        /\ m.internal = internal
    BY <1>0 DEF Message, MessageType, Events
  <2>2. q \in RequestType /\ q.op = "inserted" /\ q.id = Len(messages) + 1 /\ q.key = k /\ q.who = u
        /\ q.internal = internal
    BY <1>0, LenProperties DEF TypeOK, RequestType, Ops
  <2>3. Insert(m) /\ requests' = [requests EXCEPT ![r] = q]
    BY <1>1
  <2>4. SameKey(m.key) = {}
    BY <1>1, <2>1
  <2>5. /\ q.op \in {"inserted", "closing"} /\ q.id = Len(messages) + 1
        /\ m.state = "pending" /\ m.key = q.key /\ m.from = q.who
        /\ q.op = "inserted" => m.internal = q.internal
    BY <2>1, <2>2
  <2> HIDE DEF m, q
  <2> QED BY <2>1, <2>2, <2>3, <2>4, <2>5, NewRowStep
<1>2. CASE UNCHANGED messages /\ \E i \in SameKey(k) :
             /\ Stored(i)
             /\ requests' = [requests EXCEPT ![r] =
                            [NoRequest EXCEPT !.op = "answer", !.who = u, !.key = k, !.id = i]]
  <2> PICK i \in SameKey(k) :
             /\ Stored(i)
             /\ requests' = [requests EXCEPT ![r] =
                            [NoRequest EXCEPT !.op = "answer", !.who = u, !.key = k, !.id = i]]
    BY <1>2
  <2> DEFINE q == [NoRequest EXCEPT !.op = "answer", !.who = u, !.key = k, !.id = i]
  <2>1. i \in Id /\ i \in Nat /\ messages[i].key = k
    BY DEF SameKey, Id
  <2>2. messages[i].from = u
    BY <2>1 DEF ChatInvariant, KeysOwned
  <2>3. q \in RequestType /\ q.op = "answer" /\ q.id = i /\ q.key = k /\ q.who = u
    BY <1>0, <2>1 DEF NoRequest, RequestType, Ops
  <2>4. requests'[r] = q /\ \A t \in Slot \ {r} : requests'[t] = requests[t]
    BY DEF TypeOK
  <2>5. RowsKept(r) /\ RowsNew
    BY <1>2 DEF RowsKept, RowsNew, Id, Stored
  <2>6. RequestMoved(r)
    <3> HIDE DEF q
    <3> QED BY <1>2, <2>1, <2>2, <2>3, <2>4 DEF RequestMoved, KeyGiven, Flying, Answering, Stored, Id
  <2> QED BY <2>5, <2>6 DEF SlotStep
<1> QED BY <1>1, <1>2 DEF InsertPost

LEMMA PostingStep ==
  ASSUME TypeOK, ChatInvariant, SentOnce, NEW r \in Slot, Posting(r)
  PROVE  SlotStep(r)
<1> USE RequestOf
<1>1. ASSUME NEW k \in Key, SendCustomer(r, k)
      PROVE  SlotStep(r)
  BY <1>1, InsertPostStep DEF SendCustomer
<1>2. ASSUME NEW k \in Key, NEW internal \in BOOLEAN, BeginSend(r, k, internal)
      PROVE  SlotStep(r)
  <2> DEFINE q == [op |-> "post", who |-> Owner[k], key |-> k, id |-> 0, internal |-> internal, saw |-> FALSE]
  <2>1. q \in RequestType /\ q.op = "post" /\ KeyGiven(q)
    BY DEF RequestType, Ops, KeyGiven
  <2>2. UNCHANGED messages /\ requests' = [requests EXCEPT ![r] = q]
    BY <1>2 DEF BeginSend, Start
  <2> HIDE DEF q
  <2> QED BY <2>1, <2>2, QuietStep
<1>3. CASE SendStaff(r)
  <2>1. /\ requests[r].key \in Key /\ requests[r].who = Owner[requests[r].key]
        /\ requests[r].internal \in BOOLEAN
    BY <1>3 DEF SendStaff, ChatInvariant, KeysOwned, RequestType
  <2> QED BY <1>3, <2>1, InsertPostStep DEF SendStaff
<1>4. CASE CommitPost(r)
  <2> DEFINE op == IF requests[r].who = Customer THEN "after" ELSE "answer"
             q == [requests[r] EXCEPT !.op = op, !.id = requests[r].id]
  <2>1. /\ q \in RequestType /\ q.op \in {"after", "answer"} /\ q.id = requests[r].id
        /\ q.key = requests[r].key /\ q.who = requests[r].who
    <3>1. op \in Ops /\ op \in {"after", "answer"}
      BY DEF Ops
    <3> HIDE DEF op
    <3> QED BY <3>1 DEF RequestType
  <2>2. requests' = [requests EXCEPT ![r] = q] /\ Publish(requests[r].id)
    BY <1>4 DEF CommitPost, Proceed
  <2>3. Flying(r) /\ InFlight(r)
    BY <1>4 DEF CommitPost, Flying, ChatInvariant
  <2> HIDE DEF q
  <2> QED BY <2>1, <2>2, <2>3, PublishStep
<1>5. CASE AutoReply(r)
  <2> DEFINE m == Message(NoOne, "auto_reply", FALSE, NoKey, "stored")
             q == [requests[r] EXCEPT !.op = "answer", !.id = requests[r].id]
  <2>1. m \in MessageType /\ m.key = NoKey /\ m.event = "auto_reply"
    BY InsertedType DEF Events, Message
  <2>2. /\ q \in RequestType /\ q.op = "answer" /\ q.id = requests[r].id
        /\ q.key = requests[r].key /\ q.who = requests[r].who
    BY DEF RequestType, Ops
  <2>3. requests' = [requests EXCEPT ![r] = q] /\ Insert(m)
    BY <1>5 DEF AutoReply, Proceed
  <2>4. AnswersOwn(r) /\ requests[r].op = "after"
    BY <1>5 DEF AutoReply, SentOnce
  <2>5. /\ requests[r].id \in Id /\ Stored(requests[r].id)
        /\ messages[requests[r].id].key = requests[r].key
        /\ messages[requests[r].id].from = requests[r].who
    BY <2>4 DEF AnswersOwn
  <2> HIDE DEF q, m
  <2> QED BY <2>1, <2>2, <2>3, <2>5, NewRowStep
<1>6. CASE Answer(r)
  BY <1>6, EndStep DEF Answer
<1>7. CASE RollBack(r)
  BY <1>7, RollBackStep
<1>8. CASE Lose(r)
  BY <1>8, EndStep DEF Lose
<1> QED BY <1>1, <1>2, <1>3, <1>4, <1>5, <1>6, <1>7, <1>8 DEF Posting

LEMMA StartStep ==
  ASSUME TypeOK, NEW r \in Slot, UNCHANGED messages, NEW q \in RequestType,
         q.op \in {"transfer", "close", "reopen"}, KeyGiven(q), Start(r, q)
  PROVE  SlotStep(r)
  BY QuietStep DEF Start

LEMMA HandlingStep ==
  ASSUME TypeOK, ChatInvariant, NEW r \in Slot, Handling(r)
  PROVE  SlotStep(r)
<1> USE RequestOf, ConvOf
<1>1. CASE BeginTransfer(r)
  <2> DEFINE q == [NoRequest EXCEPT !.op = "transfer", !.saw = conv.awaiting]
  <2>1. q \in RequestType /\ q.op = "transfer" /\ KeyGiven(q)
    BY DEF NoRequest, RequestType, Ops, KeyGiven, ConvType
  <2>2. Start(r, q) /\ UNCHANGED messages
    BY <1>1 DEF BeginTransfer
  <2> HIDE DEF q
  <2> QED BY <2>1, <2>2, StartStep
<1>2. CASE BeginClose(r)
  <2> DEFINE q == [NoRequest EXCEPT !.op = "close"]
  <2>1. q \in RequestType /\ q.op = "close" /\ KeyGiven(q)
    BY DEF NoRequest, RequestType, Ops, KeyGiven
  <2>2. Start(r, q) /\ UNCHANGED messages
    BY <1>2 DEF BeginClose
  <2> HIDE DEF q
  <2> QED BY <2>1, <2>2, StartStep
<1>3. CASE BeginReopen(r)
  <2> DEFINE q == [NoRequest EXCEPT !.op = "reopen"]
  <2>1. q \in RequestType /\ q.op = "reopen" /\ KeyGiven(q)
    BY DEF NoRequest, RequestType, Ops, KeyGiven
  <2>2. Start(r, q) /\ UNCHANGED messages
    BY <1>3 DEF BeginReopen
  <2> HIDE DEF q
  <2> QED BY <2>1, <2>2, StartStep
<1>4. CASE InsertClosure(r)
  <2> DEFINE m == Message(NoOne, "closed", FALSE, NoKey, "pending")
             q == [requests[r] EXCEPT !.op = "closing", !.id = Len(messages) + 1]
  <2>1. m \in MessageType /\ m.key = NoKey /\ m.state = "pending" /\ m.from = NoOne
    BY InsertedType DEF Events, Message
  <2>2. Len(messages) + 1 \in Nat
    BY LenProperties DEF TypeOK
  <2>3. /\ q \in RequestType /\ q.op = "closing" /\ q.id = Len(messages) + 1
        /\ q.key = requests[r].key /\ q.who = requests[r].who
    BY <2>2 DEF RequestType, Ops
  <2>4. requests[r].key = NoKey /\ requests[r].who = NoOne
    BY <1>4 DEF InsertClosure, ChatInvariant, KeysOwned
  <2>5. requests' = [requests EXCEPT ![r] = q] /\ Insert(m)
    BY <1>4 DEF InsertClosure, Proceed
  <2> HIDE DEF q, m
  <2> QED BY <2>1, <2>3, <2>4, <2>5, NewRowStep
<1>5. CASE CommitClosure(r)
  <2>1. Flying(r) /\ InFlight(r)
    BY <1>5 DEF CommitClosure, Flying, ChatInvariant
  <2>2. NoRequest.op = "idle"
    BY DEF NoRequest
  <2>3. requests' = [requests EXCEPT ![r] = NoRequest] /\ Publish(requests[r].id)
    BY <1>5 DEF CommitClosure, End
  <2> QED BY <2>1, <2>2, <2>3, NoRequestType, PublishStep
<1>6. CASE BeginRating(r)
  <2> PICK c \in Closures : Start(r, [NoRequest EXCEPT !.op = "rate", !.id = c])
    BY <1>6 DEF BeginRating
  <2> DEFINE q == [NoRequest EXCEPT !.op = "rate", !.id = c]
  <2>1. c \in Nat
    BY DEF Closures, Id
  <2>2. q \in RequestType /\ q.op = "rate" /\ KeyGiven(q)
    BY <2>1 DEF NoRequest, RequestType, Ops, KeyGiven
  <2>3. UNCHANGED messages /\ requests' = [requests EXCEPT ![r] = q]
    BY <1>6 DEF BeginRating, Start
  <2> HIDE DEF q
  <2> QED BY <2>2, <2>3, QuietStep
<1>7. CASE Transfer(r) \/ Reopen(r) \/ Rate(r)
  BY <1>7, EndStep DEF Transfer, Reopen, Rate
<1> QED BY <1>1, <1>2, <1>3, <1>4, <1>5, <1>6, <1>7 DEF Handling

-----------------------------------------------------------------------------
(* The invariant: what every step of a request keeps of it. *)
LEMMA FlightKept ==
  ASSUME TypeOK, ChatInvariant, NEW r \in Slot, SlotStep(r), NEW t \in Slot
  PROVE  InFlight(t)'
<1> USE DEF SlotStep
<1>1. \A u \in Slot : InFlight(u)
  BY DEF ChatInvariant
<1>2. \A u \in Slot \ {r} : requests'[u] = requests[u]
  BY DEF RequestMoved
<1>3. \A u \in Slot : Flying(u) => requests[u].id \in Id
  BY <1>1 DEF InFlight, Flying
<1>4. Flying(r)' =>
       /\ requests'[r].id \in Id' \ Id /\ messages'[requests'[r].id].state = "pending"
       /\ messages'[requests'[r].id].key = requests'[r].key
       /\ messages'[requests'[r].id].from = requests'[r].who
       /\ requests'[r].op = "inserted" => messages'[requests'[r].id].internal = requests'[r].internal
  BY DEF RequestMoved
<1>5. CASE t = r
  <2>1. \A u \in Slot \ {r} : Flying(r)' /\ requests'[u].op \in {"inserted", "closing"} =>
                                requests'[u].id # requests'[r].id
    BY <1>2, <1>3, <1>4 DEF Flying
  <2> QED BY <1>4, <1>5, <2>1 DEF InFlight, Flying
<1>6. CASE t # r
  <2> SUFFICES ASSUME Flying(t)
               PROVE  InFlight(t)'
    BY <1>2, <1>6 DEF InFlight, Flying
  <2>1. requests'[t] = requests[t]
    BY <1>2, <1>6
  <2>2. /\ requests[t].id \in Id /\ messages[requests[t].id].state = "pending"
        /\ messages[requests[t].id].key = requests[t].key
        /\ messages[requests[t].id].from = requests[t].who
        /\ requests[t].op = "inserted" => messages[requests[t].id].internal = requests[t].internal
        /\ \A u \in Slot \ {t} : requests[u].op \in {"inserted", "closing"} => requests[u].id # requests[t].id
    BY <1>1 DEF InFlight, Flying
  <2>3. /\ requests[t].id \in Id' /\ messages'[requests[t].id] = messages[requests[t].id]
    BY <1>6, <2>2 DEF RowsKept, Flying
  <2>4. \A u \in Slot \ {t} : requests'[u].op \in {"inserted", "closing"} => requests'[u].id # requests'[t].id
    BY <1>2, <1>4, <2>1, <2>2 DEF Flying
  <2> QED BY <2>1, <2>2, <2>3, <2>4 DEF InFlight
<1> QED BY <1>5, <1>6

LEMMA AnswersKept ==
  ASSUME TypeOK, SentOnce, ChatInvariant, NEW r \in Slot, SlotStep(r), NEW t \in Slot
  PROVE  AnswersOwn(t)'
<1> USE DEF SlotStep
<1>1. CASE t = r
  BY <1>1 DEF RequestMoved, Answering, AnswersOwn, Stored
<1>2. CASE t # r
  <2> SUFFICES ASSUME Answering(t)
               PROVE  AnswersOwn(t)'
    BY <1>2 DEF AnswersOwn, Answering, RequestMoved
  <2>1. requests'[t] = requests[t]
    BY <1>2 DEF RequestMoved
  <2>2. /\ requests[t].id \in Id /\ Stored(requests[t].id)
        /\ messages[requests[t].id].key = requests[t].key
        /\ messages[requests[t].id].from = requests[t].who
    BY DEF SentOnce, AnswersOwn, Answering
  <2>3. Flying(r) => messages[requests[r].id].state = "pending"
    BY DEF ChatInvariant, InFlight, Flying
  <2>4. requests[t].id \in Id' /\ messages'[requests[t].id] = messages[requests[t].id]
    BY <2>2, <2>3 DEF RowsKept, Stored
  <2> QED BY <2>1, <2>2, <2>4 DEF AnswersOwn, Stored
<1> QED BY <1>1, <1>2

LEMMA OnePerKeyKept ==
  ASSUME TypeOK, SentOnce, ChatInvariant, NEW r \in Slot, SlotStep(r)
  PROVE  OnePerKey'
<1> USE DEF SlotStep
<1> SUFFICES ASSUME NEW i \in Id', NEW j \in Id', i # j, messages'[i].key = messages'[j].key,
                    messages'[i].key # NoKey
             PROVE  "gone" \in {messages'[i].state, messages'[j].state}
  BY DEF OnePerKey
<1>1. ASSUME NEW n \in Id, messages[n].state = "gone"
      PROVE  messages'[n].state = "gone"
  BY <1>1 DEF RowsKept, ChatInvariant, InFlight, Flying
<1>2. ASSUME NEW n \in Id, NEW l \in Id' \ Id, messages'[n].key = messages'[l].key,
             messages'[l].key # NoKey
      PROVE  messages[n].state = "gone"
  BY <1>2 DEF RowsKept, RowsNew, SameKey
<1>3. CASE i \in Id /\ j \in Id
  <2>1. messages[i].key = messages[j].key /\ messages[i].key # NoKey
    BY <1>3 DEF RowsKept
  <2>2. "gone" \in {messages[i].state, messages[j].state}
    BY <1>3, <2>1 DEF SentOnce, OnePerKey
  <2> QED BY <1>1, <1>3, <2>2
<1>4. CASE i \in Id /\ j \notin Id
  BY <1>1, <1>2, <1>4
<1>5. CASE i \notin Id /\ j \in Id
  BY <1>1, <1>2, <1>5
<1>6. CASE i \notin Id /\ j \notin Id
  BY <1>6 DEF RowsNew
<1> QED BY <1>3, <1>4, <1>5, <1>6

LEMMA KeysKept ==
  ASSUME TypeOK, ChatInvariant, NEW r \in Slot, SlotStep(r)
  PROVE  KeysOwned'
<1> USE DEF SlotStep
<1>1. ASSUME NEW i \in Id', messages'[i].key \in Key
      PROVE  messages'[i].from = Owner[messages'[i].key]
  <2>1. CASE i \in Id
    BY <1>1, <2>1 DEF RowsKept, ChatInvariant, KeysOwned
  <2>2. CASE i \notin Id
    BY <1>1, <2>2 DEF RowsNew
  <2> QED BY <2>1, <2>2
<1>2. ASSUME NEW t \in Slot
      PROVE  KeyGiven(requests'[t])
  BY DEF RequestMoved, ChatInvariant, KeysOwned, KeyGiven
<1> QED BY <1>1, <1>2 DEF KeysOwned, KeyGiven

\* A stored message stays as it is.
LEMMA StoredKept ==
  ASSUME ChatInvariant, NEW r \in Slot, SlotStep(r), NEW i \in Id, Stored(i)
  PROVE  i \in Id' /\ messages'[i] = messages[i] /\ Stored(i)'
<1>1. Flying(r) => messages[requests[r].id].state = "pending"
  BY DEF ChatInvariant, InFlight, Flying
<1> QED BY <1>1 DEF SlotStep, RowsKept, Stored

\* Requests change a screen only by answering its own message.
ScreensKept(r) == UNCHANGED screens \/ Answer(r)

LEMMA HoldsKept ==
  ASSUME TypeOK, ChatInvariant, SentOnce, NEW r \in Slot, SlotStep(r), ScreensKept(r), NEW s \in Screen
  PROVE  HoldsStored(s)'
<1>1. HoldsStored(s)
  BY DEF ChatInvariant
<1>2. CASE screens'[s] = screens[s]
  BY <1>1, <1>2, StoredKept DEF HoldsStored
<1>3. CASE screens'[s] = [cursor |-> IF requests[r].id > screens[s].cursor THEN requests[r].id
                                                                          ELSE screens[s].cursor,
                          shown |-> screens[s].shown \cup {requests[r].id}]
           /\ Answering(r)
  <2>1. requests[r].id \in Id /\ Stored(requests[r].id)
    BY <1>3 DEF SentOnce, AnswersOwn, Answering
  <2> QED BY <1>1, <1>3, <2>1, StoredKept DEF HoldsStored
<1> QED BY <1>2, <1>3 DEF ScreensKept, Answer, Answering

\* A message that appears below a cursor is late: the cursor is a stored message.
LEMMA SkippedKept ==
  ASSUME TypeOK, ChatInvariant, SentOnce, SkippedOnlyIfOvertaken,
         NEW r \in Slot, SlotStep(r), ScreensKept(r), NEW s \in Screen, NEW i \in Skipped(s)'
  PROVE  messages'[i].late \/ \E j \in screens'[s].shown : j > i /\ messages'[j].from = s
<1> DEFINE own == requests[r].id
<1>1. /\ i \in Id' /\ messages'[i].state = "stored" /\ i \notin screens'[s].shown
      /\ i <= screens'[s].cursor /\ (s = Customer => ~messages'[i].internal)
  BY DEF Skipped, VisibleTo, Stored
<1>2. HoldsStored(s)
  BY DEF ChatInvariant
<1>3. \/ screens'[s] = screens[s]
      \/ /\ screens'[s] = [cursor |-> IF own > screens[s].cursor THEN own ELSE screens[s].cursor,
                           shown |-> screens[s].shown \cup {own}]
         /\ own \in Id /\ Stored(own) /\ messages[own].from = s
  BY DEF ScreensKept, Answer, SentOnce, AnswersOwn
<1>4. /\ \A j \in screens'[s].shown : j \in Id /\ Stored(j)
      /\ screens'[s].cursor \in screens'[s].shown \cup {0}
  BY <1>2, <1>3 DEF HoldsStored
<1>5. (\A j \in Id : j \in Nat /\ j > 0) /\ Len(messages) \in Nat
  BY LenProperties DEF Id, TypeOK
<1>6. i \in Nat /\ i > 0
  <2>1. i \in Id \/ i = Len(messages) + 1
    BY <1>1 DEF SlotStep, RowsNew
  <2> QED BY <1>5, <2>1
<1>7. screens'[s].cursor \in Id /\ Stored(screens'[s].cursor) /\ screens'[s].cursor > i
  <2> PICK c : c = screens'[s].cursor
    OBVIOUS
  <2>1. c # 0
    BY <1>1, <1>6
  <2>2. c \in screens'[s].shown
    BY <1>4, <2>1
  <2>3. c # i /\ c \in Id /\ Stored(c)
    BY <1>1, <1>4, <2>2
  <2>4. c > i
    BY <1>1, <1>5, <1>6, <2>3
  <2> QED BY <2>3, <2>4
<1>8. i \in Id
  BY <1>1, <1>5, <1>7 DEF SlotStep, RowsNew, Id
<1>9. CASE ~Stored(i)
  BY <1>1, <1>7, <1>8, <1>9 DEF SlotStep, RowsKept
<1>10. CASE Stored(i)
  <2>1. messages'[i] = messages[i]
    BY <1>8, <1>10, StoredKept
  <2>2. CASE i <= screens[s].cursor
    <3>1. i \in Skipped(s)
      BY <1>1, <1>3, <1>8, <1>10, <2>1, <2>2 DEF Skipped, VisibleTo
    <3>2. messages[i].late \/ \E j \in screens[s].shown : j > i /\ messages[j].from = s
      BY <3>1 DEF SkippedOnlyIfOvertaken
    <3>3. \A j \in screens[s].shown : messages'[j] = messages[j] /\ j \in screens'[s].shown
      BY <1>2, <1>3, StoredKept DEF HoldsStored
    <3> QED BY <2>1, <3>2, <3>3
  <2>3. CASE ~(i <= screens[s].cursor)
    <3>1. own = screens'[s].cursor /\ own \in Id /\ Stored(own) /\ messages[own].from = s
      BY <1>1, <1>3, <2>3
    <3>2. messages'[own] = messages[own]
      BY <3>1, StoredKept
    <3>3. own \in screens'[s].shown
      BY <1>3, <3>1, <2>3, <1>1
    <3> QED BY <1>7, <3>1, <3>2, <3>3
  <2> QED BY <2>2, <2>3
<1> QED BY <1>9, <1>10

LEMMA RequestScreens ==
  ASSUME NEW r \in Slot, Posting(r) \/ Handling(r)
  PROVE  ScreensKept(r)
  BY DEF Posting, Handling, ScreensKept, SendCustomer, BeginSend, SendStaff, CommitPost, AutoReply,
         RollBack, Lose, BeginTransfer, BeginClose, BeginReopen, Transfer, InsertClosure,
         CommitClosure, Reopen, BeginRating, Rate

\* What becomes the last message is what has just been stored; what is stored otherwise
\* is internal.
LastStep(r) ==
  \/ /\ conv'.last = conv.last
     /\ \A i \in Id : messages'[i].state = "stored" => Stored(i) \/ messages'[i].internal
  \/ /\ Flying(r) /\ conv'.last = requests[r].id
     /\ messages'[requests[r].id].state = "stored"

LEMMA LastKept ==
  ASSUME TypeOK, ChatInvariant, LastIsLatest, NEW r \in Slot, SlotStep(r), LastStep(r)
  PROVE  LastIsLatest'
<1> USE DEF SlotStep
<1>0. /\ (\A i \in Id : i \in Nat /\ i > 0) /\ conv.last \in Nat
  BY DEF Id, TypeOK, ConvType
<1>1. CASE /\ conv'.last = conv.last
           /\ \A i \in Id : messages'[i].state = "stored" => Stored(i) \/ messages'[i].internal
  <2> PICK l : l = conv.last
    OBVIOUS
  <2>0. ASSUME l # 0
        PROVE  l \in Id' /\ messages'[l] = messages[l] /\ messages'[l].state = "stored"
    <3>1. l \in Id /\ Stored(l)
      BY <2>0 DEF LastIsLatest
    <3> QED BY <3>1, StoredKept DEF Stored
  <2>1. conv.last # 0 => /\ conv.last \in Id' /\ messages'[conv.last] = messages[conv.last]
                        /\ messages'[conv.last].state = "stored"
    BY <2>0
  <2>2. ASSUME NEW i \in Id', messages'[i].state = "stored", i > conv.last
        PROVE  \/ messages'[i].event = "auto_reply" \/ messages'[i].internal
               \/ conv.last # 0 /\ messages'[conv.last].late
    <3>1. CASE i \notin Id
      BY <2>2, <3>1 DEF RowsNew
    <3>2. CASE i \in Id /\ Stored(i)
      <4>1. messages'[i] = messages[i]
        BY <3>2, StoredKept
      <4> QED BY <2>1, <2>2, <3>2, <4>1 DEF LastIsLatest
    <3>3. CASE i \in Id /\ ~Stored(i)
      BY <1>1, <2>2, <3>3
    <3> QED BY <3>1, <3>2, <3>3
  <2> QED BY <1>1, <2>1, <2>2 DEF LastIsLatest, Stored
<1>2. CASE /\ Flying(r) /\ conv'.last = requests[r].id
           /\ messages'[requests[r].id].state = "stored"
  <2> PICK l : l = requests[r].id
    OBVIOUS
  <2>1. l \in Id /\ l \in Id' /\ ~Stored(l) /\ messages'[l].state = "stored"
    BY <1>2 DEF ChatInvariant, InFlight, Flying, RowsKept, Stored
  <2>2. messages'[l].late = \E j \in Id : j > l /\ Stored(j)
    BY <2>1 DEF RowsKept
  <2>3. ASSUME NEW i \in Id', messages'[i].state = "stored", i > l
        PROVE  messages'[i].event = "auto_reply" \/ messages'[l].late
    <3>1. CASE i \notin Id
      BY <2>3, <3>1 DEF RowsNew
    <3>2. CASE i \in Id
      <4>1. i # l
        BY <1>0, <2>1, <2>3, <3>2
      <4>2. messages'[i] = messages[i]
        BY <3>2, <4>1 DEF RowsKept
      <4> QED BY <2>2, <2>3, <3>2, <4>2 DEF Stored
    <3> QED BY <3>1, <3>2
  <2>4. l # 0
    BY <1>0, <2>1
  <2> QED BY <1>2, <2>1, <2>3, <2>4 DEF LastIsLatest, Stored
<1> QED BY <1>1, <1>2 DEF LastStep

LEMMA RequestLast ==
  ASSUME TypeOK, ChatInvariant, NEW r \in Slot, Posting(r) \/ Handling(r)
  PROVE  LastStep(r)
<1> USE ConvOf
<1>1. CASE UNCHANGED messages /\ conv'.last = conv.last
  BY <1>1 DEF LastStep, Stored
<1>2. ASSUME NEW m \in MessageType, Insert(m), UNCHANGED conv
      PROVE  LastStep(r)
  BY <1>2, InsertRows DEF LastStep, Stored
<1>3. CASE RollBack(r)
  <2>1. requests[r].id \in Id
    BY <1>3 DEF RollBack, ChatInvariant, InFlight
  <2>2. \A j \in Id \ {requests[r].id} : messages'[j] = messages[j]
    BY <1>3, <2>1, DropRows DEF RollBack
  <2>3. messages'[requests[r].id].state = "gone"
    BY <1>3, <2>1, DropRows DEF RollBack
  <2> QED BY <1>3, <2>2, <2>3 DEF RollBack, LastStep, Stored
<1>4. CASE CommitPost(r)
  <2> PICK i : i = requests[r].id
    OBVIOUS
  <2>1. /\ i \in Id /\ Flying(r) /\ messages[i].internal = requests[r].internal
    BY <1>4 DEF CommitPost, ChatInvariant, InFlight, Flying
  <2>2. /\ \A j \in Id \ {i} : messages'[j] = messages[j]
        /\ messages'[i].state = "stored" /\ messages'[i].internal = messages[i].internal
    BY <1>4, <2>1, PublishRows DEF CommitPost
  <2>3. CASE requests[r].internal
    BY <1>4, <2>1, <2>2, <2>3 DEF CommitPost, LastStep, Stored
  <2>4. CASE ~requests[r].internal
    <3>1. CustomerSaid(i) \/ StaffSaid(i)
      BY <1>4, <2>4 DEF CommitPost
    <3>2. conv'.last = i
      BY <3>1 DEF CustomerSaid, StaffSaid, ConvType
    <3> QED BY <2>1, <2>2, <3>2 DEF LastStep
  <2> QED BY <2>3, <2>4
<1>5. CASE CommitClosure(r)
  <2>1. requests[r].id \in Id /\ Flying(r)
    BY <1>5 DEF CommitClosure, ChatInvariant, InFlight, Flying
  <2>2. messages'[requests[r].id].state = "stored"
    BY <1>5, <2>1, PublishRows DEF CommitClosure
  <2>3. conv'.last = requests[r].id
    BY <1>5 DEF CommitClosure, ConvType
  <2> QED BY <2>1, <2>2, <2>3 DEF LastStep
<1>6. CASE Transfer(r) \/ Reopen(r)
  BY <1>1, <1>6 DEF Transfer, Reopen, ConvType
<1>7. ASSUME NEW k \in Key, SendCustomer(r, k)
      PROVE  LastStep(r)
  <2>1. UNCHANGED conv /\ InsertPost(r, Customer, k, FALSE)
    BY <1>7 DEF SendCustomer
  <2>2. Message(Customer, "text", FALSE, k, "pending") \in MessageType
    BY DEF Message, MessageType, Events, Reader
  <2> QED BY <1>1, <1>2, <2>1, <2>2 DEF InsertPost
<1>8. CASE SendStaff(r)
  <2>1. UNCHANGED conv /\ InsertPost(r, requests[r].who, requests[r].key, requests[r].internal)
    BY <1>8 DEF SendStaff
  <2>2. Message(requests[r].who, "text", requests[r].internal, requests[r].key, "pending") \in MessageType
    BY RequestOf DEF Message, MessageType, Events, RequestType
  <2> QED BY <1>1, <1>2, <2>1, <2>2 DEF InsertPost
<1>9. CASE AutoReply(r) \/ InsertClosure(r)
  BY <1>2, <1>9, InsertedType DEF AutoReply, InsertClosure, Events
<1> QED BY <1>1, <1>3, <1>4, <1>5, <1>6, <1>7, <1>8, <1>9
        DEF Posting, Handling, BeginSend, Answer, Lose, BeginTransfer, BeginClose, BeginReopen,
            BeginRating, Rate

\* Opening starts over; a poll takes all that is above the cursor.
LEMMA ReadingKeeps ==
  ASSUME TypeOK, ChatInvariant, SkippedOnlyIfOvertaken, NEW s \in Screen, Reading(s)
  PROVE  /\ \A t \in Screen : HoldsStored(t)'
         /\ SkippedOnlyIfOvertaken'
<1>1. UNCHANGED <<messages, requests>>
  BY DEF Reading, Open, Poll, MarkRead
<1>2. \A t \in Screen : VisibleTo(t)' = VisibleTo(t)
  BY <1>1 DEF VisibleTo, Stored, Id
<1>3. \A i \in Id : Stored(i)' = Stored(i) /\ Id' = Id
  BY <1>1 DEF Stored, Id
<1>4. \A t \in Screen : HoldsStored(t)
  BY DEF ChatInvariant
<1>5. \A t \in Screen : \A i \in VisibleTo(t) : i \in Id /\ Stored(i) /\ i \in Nat
  BY DEF VisibleTo, Id
<1>6. screens[s].cursor \in Nat
  BY DEF TypeOK
<1>7. ASSUME NEW t \in Screen, screens'[t] = screens[t]
      PROVE  HoldsStored(t)' /\ Skipped(t)' = Skipped(t)
  BY <1>2, <1>3, <1>4, <1>7 DEF HoldsStored, Skipped
<1>8. \A t \in Screen : screens'[t] = screens[t] \/ t = s
  BY DEF Reading, Open, Poll, MarkRead, TypeOK
<1>9. CASE \E top \in VisibleTo(s) : screens' = [screens EXCEPT ![s] = [cursor |-> top, shown |-> VisibleTo(s)]]
  <2> PICK top \in VisibleTo(s) : screens' = [screens EXCEPT ![s] = [cursor |-> top, shown |-> VisibleTo(s)]]
    BY <1>9
  <2>1. screens'[s].cursor = top /\ screens'[s].shown = VisibleTo(s)
    BY DEF TypeOK
  <2>2. HoldsStored(s)'
    BY <1>3, <1>5, <2>1 DEF HoldsStored
  <2>3. Skipped(s)' = {}
    BY <1>2, <2>1 DEF Skipped
  <2> QED BY <1>1, <1>7, <1>8, <2>2, <2>3 DEF SkippedOnlyIfOvertaken
<1>10. CASE Poll(s)
  <2> DEFINE new == {i \in VisibleTo(s) : i > screens[s].cursor}
  <2> PICK top \in new :
        /\ \A i \in new : i <= top
        /\ screens' = [screens EXCEPT ![s] = [cursor |-> top, shown |-> screens[s].shown \cup new]]
    BY <1>10 DEF Poll
  <2>1. screens'[s].cursor = top /\ screens'[s].shown = screens[s].shown \cup new
    BY DEF TypeOK
  <2>2. HoldsStored(s)'
    BY <1>3, <1>4, <1>5, <2>1 DEF HoldsStored
  <2>3. Skipped(s)' \subseteq Skipped(s)
    BY <1>2, <1>5, <1>6, <2>1 DEF Skipped
  <2>4. screens[s].shown \subseteq screens'[s].shown
    BY <2>1
  <2>5. ASSUME NEW t \in Screen, NEW i \in Skipped(t)'
        PROVE  messages'[i].late \/ \E j \in screens'[t].shown : j > i /\ messages'[j].from = t
    <3>1. i \in Skipped(t) /\ screens[t].shown \subseteq screens'[t].shown
      BY <1>7, <1>8, <2>3, <2>4
    <3>2. messages[i].late \/ \E j \in screens[t].shown : j > i /\ messages[j].from = t
      BY <3>1 DEF SkippedOnlyIfOvertaken
    <3> QED BY <1>1, <3>1, <3>2
  <2>6. SkippedOnlyIfOvertaken'
    BY <2>5 DEF SkippedOnlyIfOvertaken
  <2> QED BY <1>7, <1>8, <2>2, <2>6
<1>11. CASE MarkRead(s)
  BY <1>1, <1>7, <1>11 DEF MarkRead, SkippedOnlyIfOvertaken
<1> QED BY <1>9, <1>10, <1>11 DEF Reading, Open

-----------------------------------------------------------------------------
IInv == TypeOK /\ ChatInvariant /\ SentOnce /\ SkippedOnlyIfOvertaken /\ LastIsLatest

LEMMA IInvInit == Init => IInv
<1> SUFFICES ASSUME Init PROVE IInv
  OBVIOUS
<1>1. Id = {}
  BY DEF Init, Id
<1>2. \A r \in Slot : requests[r] = NoRequest /\ requests[r].op = "idle"
  BY DEF Init, NoRequest
<1>3. \A s \in Screen : screens[s].cursor = 0 /\ screens[s].shown = {}
  BY DEF Init
<1>4. ChatInvariant
  BY <1>1, <1>2, <1>3 DEF ChatInvariant, InFlight, KeysOwned, HoldsStored
<1>5. SentOnce
  BY <1>1, <1>2 DEF SentOnce, OnePerKey, AnswersOwn
<1>6. SkippedOnlyIfOvertaken
  BY <1>1 DEF SkippedOnlyIfOvertaken, Skipped, VisibleTo
<1>7. LastIsLatest
  BY <1>1 DEF Init, LastIsLatest
<1> QED BY <1>4, <1>5, <1>6, <1>7, InitTypes DEF IInv

LEMMA IInvNext == IInv /\ [Next]_vars => IInv'
<1> SUFFICES ASSUME IInv, [Next]_vars
             PROVE  IInv'
  OBVIOUS
<1> USE DEF IInv
<1>1. TypeOK'
  BY TypesNext
<1>2. ASSUME NEW r \in Slot, Posting(r) \/ Handling(r)
      PROVE  (ChatInvariant /\ SentOnce /\ SkippedOnlyIfOvertaken /\ LastIsLatest)'
  <2>1. SlotStep(r) /\ ScreensKept(r)
    BY <1>2, PostingStep, HandlingStep, RequestScreens
  <2>2. ChatInvariant'
    BY <2>1, FlightKept, KeysKept, HoldsKept DEF ChatInvariant
  <2>3. SentOnce'
    BY <2>1, AnswersKept, OnePerKeyKept DEF SentOnce
  <2>4. SkippedOnlyIfOvertaken'
    BY <2>1, SkippedKept DEF SkippedOnlyIfOvertaken
  <2>5. LastIsLatest'
    BY <1>2, <2>1, RequestLast, LastKept
  <2> QED BY <2>2, <2>3, <2>4, <2>5
<1>3. CASE UNCHANGED <<messages, requests, screens>> /\ conv'.last = conv.last
  <2>1. ChatInvariant'
    BY <1>3 DEF ChatInvariant, InFlight, KeysOwned, HoldsStored, Stored, Id
  <2>2. SentOnce'
    BY <1>3 DEF SentOnce, OnePerKey, AnswersOwn, Stored, Id
  <2>3. SkippedOnlyIfOvertaken'
    BY <1>3 DEF SkippedOnlyIfOvertaken, Skipped, VisibleTo, Stored, Id
  <2>4. LastIsLatest'
    BY <1>3 DEF LastIsLatest, Stored, Id
  <2> QED BY <1>1, <2>1, <2>2, <2>3, <2>4
<1>4. ASSUME NEW s \in Screen, Reading(s)
      PROVE  (ChatInvariant /\ SentOnce /\ SkippedOnlyIfOvertaken /\ LastIsLatest)'
  <2>1. UNCHANGED <<messages, requests>>
    BY <1>4 DEF Reading, Open, Poll, MarkRead
  <2>2. (\A r \in Slot : InFlight(r))' /\ KeysOwned' /\ SentOnce'
    BY <2>1 DEF ChatInvariant, InFlight, KeysOwned, SentOnce, OnePerKey, AnswersOwn, Stored, Id
  <2>3. conv'.last = conv.last
    BY <1>4, ConvOf DEF Reading, Open, Poll, MarkRead, ConvType
  <2>4. LastIsLatest'
    BY <2>1, <2>3 DEF LastIsLatest, Stored, Id
  <2> QED BY <1>4, <2>2, <2>4, ReadingKeeps DEF ChatInvariant
<1>5. ASSUME NEW w \in Sweeper, Sweep(w)
      PROVE  UNCHANGED <<messages, requests, screens>> /\ conv'.last = conv.last
  BY <1>5, ConvOf DEF Sweep, FindOverdue, Escalate, ConvType
<1> QED BY <1>1, <1>2, <1>3, <1>4, <1>5 DEF Next, vars

\* The invariant of the chat, whatever the number of requests and messages.
THEOREM ChatCorrect == Spec => []IInv
<1> QED BY IInvInit, IInvNext, PTL DEF Spec

\* A retried message is stored once and answered as itself.
THEOREM MessagesSentOnce == Spec => []SentOnce
<1>1. IInv => SentOnce
  BY DEF IInv
<1> QED BY <1>1, ChatCorrect, PTL

\* Polling leaves nothing behind but what was overtaken.
THEOREM PollingSkipsNothing == Spec => []SkippedOnlyIfOvertaken
<1>1. IInv => SkippedOnlyIfOvertaken
  BY DEF IInv
<1> QED BY <1>1, ChatCorrect, PTL

\* What an idle poll leaves out is above the last message for a known reason.
THEOREM IdlePollsAreIdle == Spec => []LastIsLatest
<1>1. IInv => LastIsLatest
  BY DEF IInv
<1> QED BY <1>1, ChatCorrect, PTL

\* The staff's clock tells who had the last word.
THEOREM ClockTellsLastWord == Spec => []WaitingTellsLastWord
<1>1. IInv => TypeOK
  BY DEF IInv
<1> QED BY <1>1, ChatCorrect, WaitingInit, WaitingNext, PTL DEF Spec
=============================================================================
