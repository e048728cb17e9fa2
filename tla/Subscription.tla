---------------------------- MODULE Subscription ----------------------------
(***************************************************************************)
(* RoomsSubscriptionService (api/subscriptions/subscription.ts): streams   *)
(* of a snapshot or a replay followed by batches of committed changes, a   *)
(* bounded buffer, acknowledgements and closing.                           *)
(*                                                                         *)
(* Everything the service does is synchronous, so each method is one       *)
(* action.  The source of changes is an interface, implemented only by the *)
(* tests' FakeSource: it announces each commit to its listeners, and may   *)
(* announce again the last changes before it, up to Overlap of them.  A    *)
(* change is its cursor; `source` says which changes pass the stream's     *)
(* channel and filter tests.  A consumer asks for one item at a time.      *)
(***************************************************************************)
EXTENDS AscendingOrder, SequencesExt

CONSTANTS
    Stream,       \* subscriptions
    NoCursor,     \* an undefined cursor
    MaxBuffered,  \* batches a stream may buffer
    MaxBatch,     \* bound: changes of one commit
    Overlap,      \* bound: changes a source announces again
    MaxJournal    \* bound: changes the source commits

ASSUME SubscriptionAssumption ==
    /\ NoCursor \notin Nat
    /\ {MaxBuffered, MaxBatch} \subseteq Nat \ {0}
    /\ {Overlap, MaxJournal} \subseteq Nat

VARIABLES
    source,        \* its changes: whether each change passes the filter
    sessions,      \* keys of the service's map
    listening,     \* streams with an onCommit listener
    status,        \* per stream: "none", "open" or "closed"
    afterCursor,   \* per stream: where it was asked to continue
    delivered,     \* per stream: cursor of the last batch handed over
    acknowledged,  \* per stream: highest cursor acknowledged
    queue,         \* per stream: buffered items
    waiter,        \* streams with an unresolved next()
    received       \* history: items handed over

subscriptionVars == <<source, sessions, listening, status, afterCursor, delivered,
                      acknowledged, queue, waiter, received>>

OptCursor == (0 .. MaxJournal) \cup {NoCursor}
Item == [kind : {"snapshot", "delta"}, changes : Seq(1 .. MaxJournal),
         cursor : 0 .. MaxJournal]

SubscriptionTypeOK ==
    /\ source \in Seq(BOOLEAN) /\ Len(source) <= MaxJournal
    /\ sessions \subseteq Stream
    /\ listening \subseteq Stream
    /\ status \in [Stream -> {"none", "open", "closed"}]
    /\ afterCursor \in [Stream -> OptCursor]
    /\ delivered \in [Stream -> OptCursor]
    /\ acknowledged \in [Stream -> OptCursor]
    /\ queue \in [Stream -> Seq(Item)]
    /\ waiter \subseteq Stream
    /\ received \in [Stream -> Seq(Item)]

SubscriptionInit ==
    /\ source = <<>>
    /\ sessions = {} /\ listening = {} /\ waiter = {}
    /\ status = [s \in Stream |-> "none"]
    /\ afterCursor = [s \in Stream |-> NoCursor]
    /\ delivered = [s \in Stream |-> NoCursor]
    /\ acknowledged = [s \in Stream |-> NoCursor]
    /\ queue = [s \in Stream |-> <<>>]
    /\ received = [s \in Stream |-> <<>>]

-----------------------------------------------------------------------------
(* Plausible defects, used to show that the properties below can fail.     *)

\* A commit does not look for a waiting consumer.
MutantServed(s) == FALSE

\* The change right after the cursor is taken for one that was seen.
MutantWanted(s, batch, log) ==
    Ascending({n \in batch : log[n] /\ n > (IF afterCursor[s] = NoCursor
                                             THEN 0 ELSE afterCursor[s]) + 1})

-----------------------------------------------------------------------------
(* Helpers of a stream.                                                    *)

\* The cursor an incoming change must exceed.
After(s) == IF afterCursor[s] # NoCursor THEN afterCursor[s] ELSE delivered[s]

\* The distinct changes of a batch that the stream wants, in cursor order.
Wanted(s, batch, log) ==
    LET keep == {n \in batch : /\ log[n]
                               /\ n > (IF After(s) = NoCursor THEN 0
                                       ELSE After(s))}
    IN Ascending(keep)

LastCursor(b) == Last(b)
Delta(b) == [kind |-> "delta", changes |-> b, cursor |-> LastCursor(b)]

Overflows(s, q) == Len(q) > MaxBuffered

\* What is left in the buffer of a stream that closes.
Dropped(q) == <<>>

\* A consumer waits, and takes the head of what is buffered.
Served(s) == s \in waiter

\* What is left in the buffer once a waiting consumer was served.
Buffered(s, q) == IF Served(s) THEN Tail(q) ELSE q

-----------------------------------------------------------------------------
(* Operations.                                                             *)

\* subscribe after a cursor: the replay is buffered as one batch and the
\* listener registered, without a break in between.
SubscribeAfter(s, n) ==
    LET log == Ascending({m \in DOMAIN source : m > n /\ source[m]})
    IN /\ status[s] = "none" /\ n <= Len(source)
       /\ status' = [status EXCEPT ![s] = "open"]
       /\ afterCursor' = [afterCursor EXCEPT ![s] = n]
       /\ queue' = [queue EXCEPT ![s] = IF log = <<>> THEN <<>>
                                        ELSE <<Delta(log)>>]
       /\ sessions' = sessions \cup {s}
       /\ listening' = listening \cup {s}
       /\ UNCHANGED <<source, delivered, acknowledged, waiter, received>>

\* subscribe without a cursor: a snapshot first.
SubscribeSnapshot(s) ==
    /\ status[s] = "none"
    /\ status' = [status EXCEPT ![s] = "open"]
    /\ delivered' = [delivered EXCEPT ![s] = Len(source)]
    /\ queue' = [queue EXCEPT ![s] =
         <<[kind |-> "snapshot", changes |-> <<>>, cursor |-> Len(source)]>>]
    /\ sessions' = sessions \cup {s}
    /\ listening' = listening \cup {s}
    /\ UNCHANGED <<source, afterCursor, acknowledged, waiter, received>>

\* subscribe when the source throws: the stream is closed when it is returned.
SubscribeFails(s) ==
    /\ status[s] = "none"
    /\ status' = [status EXCEPT ![s] = "closed"]
    /\ UNCHANGED <<source, sessions, listening, afterCursor, delivered,
                   acknowledged, queue, waiter, received>>

\* The source commits `new` and announces `batch`; every listener enqueues the
\* changes it wants.  A stream whose buffer overflows closes; a consumer that
\* waits is served at once.
Announce(new, batch) ==
    LET log == source \o new
        Tells(s) == s \in listening /\ Wanted(s, batch, log) # <<>>
        Pushed(s) == Append(queue[s], Delta(Wanted(s, batch, log)))
        closing == {s \in Stream : Tells(s) /\ Overflows(s, Pushed(s))}
        keeping == {s \in Stream : Tells(s)} \ closing
        serving == {s \in keeping : Served(s)}
    IN /\ source' = log
       /\ status' = [s \in Stream |-> IF s \in closing THEN "closed"
                                      ELSE status[s]]
       /\ listening' = listening \ closing
       /\ sessions' = sessions \ closing
       /\ queue' = [s \in Stream |->
                      CASE s \in closing -> Dropped(Pushed(s))
                        [] s \in keeping -> Buffered(s, Pushed(s))
                        [] OTHER -> queue[s]]
       /\ received' = [s \in Stream |-> IF s \in serving
                         THEN Append(received[s], Head(Pushed(s)))
                         ELSE received[s]]
       /\ delivered' = [s \in Stream |->
                          IF s \in serving /\ Head(Pushed(s)).kind = "delta"
                          THEN Head(Pushed(s)).cursor ELSE delivered[s]]
       /\ waiter' = waiter \ (serving \cup closing)
       /\ UNCHANGED <<afterCursor, acknowledged>>

Commit(new, again) ==
    /\ Len(source) + Len(new) <= MaxJournal
    /\ again <= Len(source)
    /\ Announce(new, Len(source) + 1 - again .. Len(source) + Len(new))

\* next() with something buffered.
NextItem(s) ==
    /\ status[s] # "none" /\ s \notin waiter /\ queue[s] # <<>>
    /\ queue' = [queue EXCEPT ![s] = Tail(@)]
    /\ received' = [received EXCEPT ![s] = Append(@, Head(queue[s]))]
    /\ delivered' = [delivered EXCEPT ![s] =
         IF Head(queue[s]).kind = "delta" THEN Head(queue[s]).cursor ELSE @]
    /\ UNCHANGED <<source, sessions, listening, status, afterCursor,
                   acknowledged, waiter>>

\* next() of an open stream with nothing buffered.  On a closed one it reports
\* the end and changes nothing.
NextWaits(s) ==
    /\ status[s] = "open" /\ s \notin waiter /\ queue[s] = <<>>
    /\ waiter' = waiter \cup {s}
    /\ UNCHANGED <<source, sessions, listening, status, afterCursor, delivered,
                   acknowledged, queue, received>>

\* acknowledge of an open stream.  A cursor past `delivered` makes the call
\* throw; the stream is not touched.
Acknowledge(s, n) ==
    /\ s \in sessions /\ status[s] = "open"
    /\ acknowledged' = [acknowledged EXCEPT ![s] =
         IF delivered[s] # NoCursor /\ n > delivered[s] THEN @
         ELSE IF @ = NoCursor \/ n > @ THEN n ELSE @]
    /\ UNCHANGED <<source, sessions, listening, status, afterCursor, delivered,
                   queue, waiter, received>>

\* close, by the consumer or its abort signal.
Close(s) ==
    /\ status[s] = "open"
    /\ status' = [status EXCEPT ![s] = "closed"]
    /\ listening' = listening \ {s}
    /\ queue' = [queue EXCEPT ![s] = Dropped(@)]
    /\ waiter' = waiter \ {s}
    /\ sessions' = sessions \ {s}
    /\ UNCHANGED <<source, afterCursor, delivered, acknowledged, received>>

-----------------------------------------------------------------------------

SubscriptionNext ==
    \/ \E new \in SeqOf(BOOLEAN, MaxBatch) \ {<<>>}, k \in 0 .. Overlap :
         Commit(new, k)
    \/ \E s \in Stream : \/ SubscribeSnapshot(s) \/ SubscribeFails(s)
                         \/ NextItem(s) \/ NextWaits(s) \/ Close(s)
    \/ \E s \in Stream, n \in 0 .. MaxJournal :
         SubscribeAfter(s, n) \/ Acknowledge(s, n)

SubscriptionSpec == SubscriptionInit /\ [][SubscriptionNext]_subscriptionVars

-----------------------------------------------------------------------------
(* Properties.                                                             *)

\* The items handed over and buffered, in order.
Carried(s) == received[s] \o queue[s]

\* Where the stream began.
Start(s) == IF afterCursor[s] # NoCursor THEN afterCursor[s] ELSE Carried(s)[1].cursor

\* An open stream skips nothing: it carries every wanted change since it began
\* and no other, and none before a smaller one.  Nothing falls between the
\* replay or the snapshot and the listener, or between a buffered batch and a
\* consumer that waits, also when the source announces changes again.
NothingSkipped ==
    \A s \in Stream : status[s] = "open" =>
        LET wanted == {n \in DOMAIN source : n > Start(s) /\ source[n]}
            items == Carried(s)
        IN /\ \A n \in wanted : \E i \in DOMAIN items :
                \E k \in DOMAIN items[i].changes : items[i].changes[k] = n
           /\ \A i \in DOMAIN items : \A k \in DOMAIN items[i].changes :
                /\ items[i].changes[k] \in wanted
                /\ \A n \in wanted : n < items[i].changes[k] =>
                     \E j \in 1 .. i : \E l \in DOMAIN items[j].changes :
                       (j < i \/ l < k) /\ items[j].changes[l] = n

\* A consumer waits only while its stream is open and has nothing for it.
NobodyForgotten ==
    \A s \in waiter : status[s] = "open" /\ queue[s] = <<>>

=============================================================================
