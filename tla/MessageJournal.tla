--------------------------- MODULE MessageJournal ---------------------------
(* The messages of one channel in the change journal (storage/repository.ts) *)
(* as operators over the journal: a sequence of changes whose cursor is      *)
(* their position.  A message is named by the cursor of its message.sent.    *)
EXTENDS AscendingOrder, SequencesExt

\* A message.sent change.  re is replyToEventId, root threadRootEventId (0 is
\* null), key the deduplication key of the correlation (<<>> is none).
SentChange(from, to, direct, re, root, key, text) ==
    [kind |-> "sent", from |-> from, to |-> to, direct |-> direct, re |-> re,
     root |-> root, key |-> key, text |-> text]

DeliveryChange(m, status) == [kind |-> "delivery", id |-> m, status |-> status]

ThreadChange(m, state) == [kind |-> "thread", id |-> m, state |-> state]

\* A control.committed change: who asked for it, and its request id.
ControlChange(from, request) ==
    [kind |-> "control", from |-> from, request |-> request]

CursorsOf(j) == 1..Len(j)

\* messageById, over all ids.
Messages(j) == {c \in CursorsOf(j) : j[c].kind = "sent"}

\* messageByDeduplicationKey and the same query in commitMessage: the oldest
\* message with this key, 0 if there is none.
MessageWithKey(j, key) ==
    LET hits == {m \in Messages(j) : j[m].key = key}
    IN IF key = <<>> \/ hits = {} THEN 0 ELSE Min(hits)

\* threadLifecycle: the state in message_threads, open when there is no row.
ThreadState(j, root) ==
    LET hits == {c \in CursorsOf(j) : j[c].kind = "thread" /\ j[c].id = root}
    IN IF hits = {} THEN "open" ELSE j[Max(hits)].state

IsThreadRoot(j, m) == m \in Messages(j) /\ j[m].re = 0

\* setThreadState: nothing is written when the thread is in this state.
SetThreadState(j, m, state) ==
    IF ThreadState(j, m) = state THEN j ELSE Append(j, ThreadChange(m, state))

\* resolveReplyMetadata: the thread of a reply to re.
RootOfReply(j, re) ==
    IF re = 0 THEN 0 ELSE IF j[re].root # 0 THEN j[re].root ELSE re

CanReply(j, re) ==
    \/ re = 0
    \/ re \in Messages(j) /\ ThreadState(j, RootOfReply(j, re)) = "open"

\* Mutant: the key is not looked up.
MutantCommittedJournal(j, from, to, direct, re, key, text) ==
    Append(j, SentChange(from, to, direct, re, RootOfReply(j, re), key, text))

\* commitMessage, for a message that CanReply: a known key appends nothing.
CommittedJournal(j, from, to, direct, re, key, text) ==
    IF MessageWithKey(j, key) # 0 THEN j
    ELSE Append(j, SentChange(from, to, direct, re, RootOfReply(j, re), key,
                              text))

\* The message that commitMessage answers with.
CommittedMessage(j, key) ==
    IF MessageWithKey(j, key) # 0 THEN MessageWithKey(j, key) ELSE Len(j) + 1

\* appendMessageDelivery.
AppendMessageDelivery(j, m, status) == Append(j, DeliveryChange(m, status))

-----------------------------------------------------------------------------
(* Pages of messages.                                                      *)

\* ORDER BY cursor DESC LIMIT n.
Newest(S, n) == {m \in S : Cardinality({k \in S : k > m}) < n}

\* Mutant: the query asks for limit rows.
MutantPageOf(relevant, limit, cursor) ==
    LET page == Newest(relevant, limit)
    IN [events |-> page, more |-> Cardinality(page) > limit, cursor |-> cursor,
        oldest |-> IF page = {} THEN 0 ELSE Min(page)]

\* The page made of a query that asked for limit + 1 rows.
PageOf(relevant, limit, cursor) ==
    LET rows == Newest(relevant, limit + 1)
        page == Newest(rows, limit)
    IN [events |-> page, more |-> Cardinality(rows) > limit, cursor |-> cursor,
        oldest |-> IF page = {} THEN 0 ELSE Min(page)]

\* The newest cursor of the changes after c.
LatestAfter(j, c) == IF Len(j) > c THEN Len(j) ELSE c

TakesPart(j, m, s) == j[m].from = s \/ s \in j[m].to

\* sessionMessages.
SessionMessages(j, s, after, limit) ==
    PageOf({m \in Messages(j) : m > after /\ TakesPart(j, m, s)}, limit,
           LatestAfter(j, after))

\* channelMessages.
ChannelMessages(j, after, limit) ==
    PageOf({m \in Messages(j) : m > after}, limit, LatestAfter(j, after))

\* messageReplies.
MessageReplies(j, re, after, limit) ==
    PageOf({m \in Messages(j) : m > after /\ j[m].re = re}, limit, Len(j))

-----------------------------------------------------------------------------
(* What became of a message, as two readers see it.                        *)

Deliveries(j, m) == {c \in CursorsOf(j) : j[c].kind = "delivery" /\ j[c].id = m}

\* foldMessageEvents: every message, with the last delivery record written
\* over those before it.
FoldMessageEvents(j) ==
    [m \in Messages(j) |->
        IF Deliveries(j, m) = {} THEN "none" ELSE j[Max(Deliveries(j, m))].status]

\* listMessages: the direct messages to s, each with the first delivery record.
ListMessages(j, s, after) ==
    [m \in {c \in Messages(j) : c > after /\ j[c].direct /\ j[c].to = {s}} |->
        IF Deliveries(j, m) = {} THEN "none" ELSE j[Min(Deliveries(j, m))].status]

-----------------------------------------------------------------------------
(* Controls.                                                               *)

Controls(j) == {c \in CursorsOf(j) : j[c].kind = "control"}

\* commitControl: a request of this sender that is known appends nothing.
CommitControl(j, from, request) ==
    IF \E c \in Controls(j) : j[c].from = from /\ j[c].request = request THEN j
    ELSE Append(j, ControlChange(from, request))

\* channelControlPages: the oldest rows by their rank; the cursor stays where
\* it was if there is none.
ChannelControlPage(j, after, limit) ==
    LET rows == {c \in Controls(j) : c > after}
        page == {c \in rows : Cardinality({k \in rows : k <= c}) <= limit}
    IN [events |-> page, more |-> page # {} /\ Cardinality(rows) > limit,
        cursor |-> IF page = {} THEN after ELSE Max(page)]

\* getControls: the replay of the changes after the cursor, in its order,
\* without those that are no controls.
GetControls(j, after, limit) ==
    LET found == Ascending({c \in Controls(j) : c > after})
        selected == SubSeq(found, 1, Min({limit, Len(found)}))
    IN [events |-> ToSet(selected), more |-> Len(found) > Len(selected),
        cursor |-> IF selected = <<>> THEN after ELSE Last(selected)]
=============================================================================
