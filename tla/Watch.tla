------------------------------- MODULE Watch -------------------------------
(***************************************************************************)
(* The Watch stream of the native composition (composition.ts, watch) over *)
(* the change journal of the store (repository.ts, replay, onChange and    *)
(* appendChange).                                                          *)
(*                                                                         *)
(* The generator runs only when its consumer asks for an item, and stops   *)
(* at the yield that hands it over; other requests commit in between.  So  *)
(* an action is one resumption of a generator up to its next yield or      *)
(* await, or one store transaction, which the code runs without a break.   *)
(*                                                                         *)
(* A change is its cursor and its scope: a channel, or Global for          *)
(* channel_id NULL.  Payloads are left out.                                *)
(***************************************************************************)
EXTENDS AscendingOrder, SequencesExt

CONSTANTS
    Watcher,     \* Watch streams
    Channel,     \* channel ids
    Global,      \* channel_id NULL of a change; no channelId of a request
    NoAfterCursor, \* a request without afterCursor
    Bound,       \* DEFAULT_MAX_BUFFERED_DELTA_BATCHES
    MaxChanges,  \* bound: changes the store commits
    MaxAborts    \* bound: transactions that publish and roll back

ASSUME WatchAssumption ==
    /\ Global \notin Channel
    /\ NoAfterCursor \notin Nat
    /\ {Bound, MaxChanges, MaxAborts} \subseteq Nat

VARIABLES
    changes,    \* table changes: the scope of each change, by cursor
    aborts,     \* transactions rolled back after publishing
    request,    \* per watcher: channelId and afterCursor
    at,         \* per watcher: where its generator is suspended
    replaying,  \* per watcher: replayed changes not yet yielded
    changeListeners, \* watchers with an entry in changeListeners
    buffered,   \* per watcher: its queue, what the listener buffered
    yielded,    \* per watcher: items its consumer received
    liveFrom    \* history: cursor at which the watcher began to listen

watchVars == <<changes, aborts, request, at, replaying, changeListeners, buffered,
               yielded, liveFrom>>

Scope == Channel \cup {Global}

DeltaItem == [kind : {"delta"}, cursor : 1 .. MaxChanges + 1, committed : BOOLEAN]
Snapshot == [kind : {"snapshot"}, cursor : 0 .. MaxChanges, committed : {TRUE}]

\* Suspended generators: created, at the yield of the snapshot, of a replayed
\* change or of a buffered change, awaiting a wake-up, woken; or finished.
Place == {"none", "created", "snapshot", "replay", "yield", "wait", "woken",
          "failed", "returned"}

WatchTypeOK ==
    /\ changes \in Seq(Scope) /\ Len(changes) <= MaxChanges
    /\ aborts \in 0 .. MaxAborts
    /\ request \in [Watcher -> [channel : Scope,
                                after : (0 .. MaxChanges) \cup {NoAfterCursor}]]
    /\ at \in [Watcher -> Place]
    /\ replaying \in [Watcher -> Seq(DeltaItem)]
    /\ changeListeners \subseteq Watcher
    /\ buffered \in [Watcher -> Seq(DeltaItem)]
    /\ yielded \in [Watcher -> Seq(DeltaItem \cup Snapshot)]
    /\ liveFrom \in [Watcher -> 0 .. MaxChanges]

WatchInit ==
    /\ changes = <<>>
    /\ aborts = 0
    /\ request = [w \in Watcher |-> [channel |-> Global, after |-> NoAfterCursor]]
    /\ at = [w \in Watcher |-> "none"]
    /\ replaying = [w \in Watcher |-> <<>>]
    /\ changeListeners = {}
    /\ buffered = [w \in Watcher |-> <<>>]
    /\ yielded = [w \in Watcher |-> <<>>]
    /\ liveFrom = [w \in Watcher |-> 0]

-----------------------------------------------------------------------------
(* The store.                                                              *)

Change(n, real) == [kind |-> "delta", cursor |-> n, committed |-> real]

\* A request sees the changes of its channel and those of no channel; without
\* a channel it sees all.
Matches(w, scope) == Global \in {scope, request[w].channel}
                       \/ scope = request[w].channel

\* repository.replay: the matching changes after a cursor, in cursor order.
Replay(w, after) ==
    LET matching == {n \in DOMAIN changes : n > after /\ Matches(w, changes[n])}
    IN [i \in 1 .. Cardinality(matching) |->
          Change(Ascending(matching)[i], TRUE)]

\* The listener buffers every change but wakes only on the first one past the
\* bound.
MutantPublish(scope, real) ==
    LET told == {w \in changeListeners : Matches(w, scope)}
    IN /\ buffered' = [w \in Watcher |-> IF w \in told
                      THEN Append(buffered[w], Change(Len(changes) + 1, real))
                      ELSE buffered[w]]
       /\ at' = [w \in Watcher |->
                   IF w \in told /\ at[w] = "wait" /\ Len(buffered[w]) >= Bound
                   THEN "woken" ELSE at[w]]

\* appendChange tells every listener at once, inside the transaction.
Publish(scope, real) ==
    LET told == {w \in changeListeners : Matches(w, scope)}
    IN /\ buffered' = [w \in Watcher |-> IF w \in told
                      THEN Append(buffered[w], Change(Len(changes) + 1, real))
                      ELSE buffered[w]]
       /\ at' = [w \in Watcher |-> IF w \in told /\ at[w] = "wait"
                                   THEN "woken" ELSE at[w]]

\* A mutation commits a change.
AppendChange(scope) ==
    /\ Len(changes) < MaxChanges
    /\ changes' = Append(changes, scope)
    /\ Publish(scope, TRUE)
    /\ UNCHANGED <<aborts, request, replaying, changeListeners, yielded, liveFrom>>

\* registerSession into a closed channel: session.registered is appended and
\* published, the membership is refused and the transaction rolls back.  The
\* cursor is given out again.
RollBack ==
    /\ aborts < MaxAborts
    /\ aborts' = aborts + 1
    /\ Publish(Global, FALSE)
    /\ UNCHANGED <<changes, request, replaying, changeListeners, yielded, liveFrom>>

-----------------------------------------------------------------------------
(* The generator.                                                          *)

\* A consumer calls watch.  The body does not run yet.
Open(w, c, after) ==
    /\ at[w] = "none"
    /\ after # NoAfterCursor => after <= Len(changes)
    /\ at' = [at EXCEPT ![w] = "created"]
    /\ request' = [request EXCEPT ![w] = [channel |-> c, after |-> after]]
    /\ UNCHANGED <<changes, aborts, replaying, changeListeners, buffered, yielded,
                   liveFrom>>

Yield(w, item) == yielded' = [yielded EXCEPT ![w] = Append(@, item)]

\* The first item of a request for a channel without a cursor.
YieldSnapshot(w) ==
    /\ at[w] = "created"
    /\ request[w].channel # Global /\ request[w].after = NoAfterCursor
    /\ Yield(w, [kind |-> "snapshot", cursor |-> Len(changes),
                 committed |-> TRUE])
    /\ at' = [at EXCEPT ![w] = "snapshot"]
    /\ UNCHANGED <<changes, aborts, request, replaying, changeListeners, buffered,
                   liveFrom>>

ReplayAfter(w) == IF request[w].after = NoAfterCursor THEN 0 ELSE request[w].after

\* The query is made again at every resumption.
MutantRemaining(w) == Replay(w, ReplayAfter(w))

\* What the replay loop has still to yield when the generator is resumed: the
\* query is made once, when the loop is entered.
Remaining(w) == IF at[w] = "replay" THEN replaying[w]
                ELSE Replay(w, ReplayAfter(w))

InReplay(w) ==
    \/ at[w] \in {"snapshot", "replay"}
    \/ at[w] = "created" /\ ~(request[w].channel # Global
                               /\ request[w].after = NoAfterCursor)

YieldReplayed(w) ==
    /\ InReplay(w) /\ Remaining(w) # <<>>
    /\ Yield(w, Head(Remaining(w)))
    /\ replaying' = [replaying EXCEPT ![w] = Tail(Remaining(w))]
    /\ at' = [at EXCEPT ![w] = "replay"]
    /\ UNCHANGED <<changes, aborts, request, changeListeners, buffered, liveFrom>>

\* The replay is exhausted: listen, and wait because the queue is empty.
GoLive(w) ==
    /\ InReplay(w) /\ Remaining(w) = <<>>
    /\ changeListeners' = changeListeners \cup {w}
    /\ liveFrom' = [liveFrom EXCEPT ![w] = Len(changes)]
    /\ at' = [at EXCEPT ![w] = "wait"]
    /\ UNCHANGED <<changes, aborts, request, replaying, buffered, yielded>>

\* The first change is skipped when the generator wakes.
MutantWake(w) ==
    /\ at[w] = "woken" /\ Len(buffered[w]) <= Bound
    /\ Yield(w, Last(buffered[w]))
    /\ buffered' = [buffered EXCEPT ![w] = <<>>]
    /\ at' = [at EXCEPT ![w] = "yield"]
    /\ UNCHANGED <<changes, aborts, request, replaying, changeListeners, liveFrom>>

\* The await returns and the backlog is within the bound.
Wake(w) ==
    /\ at[w] = "woken" /\ Len(buffered[w]) <= Bound
    /\ Yield(w, Head(buffered[w]))
    /\ buffered' = [buffered EXCEPT ![w] = Tail(@)]
    /\ at' = [at EXCEPT ![w] = "yield"]
    /\ UNCHANGED <<changes, aborts, request, replaying, changeListeners, liveFrom>>

\* The await returns past the bound: backpressure, and the listener goes.
Fail(w) ==
    /\ at[w] = "woken" /\ Len(buffered[w]) > Bound
    /\ at' = [at EXCEPT ![w] = "failed"]
    /\ changeListeners' = changeListeners \ {w}
    /\ buffered' = [buffered EXCEPT ![w] = <<>>]
    /\ UNCHANGED <<changes, aborts, request, replaying, yielded, liveFrom>>

\* The inner loop: the bound is not looked at while the queue is drained.
YieldBuffered(w) ==
    /\ at[w] = "yield" /\ buffered[w] # <<>>
    /\ Yield(w, Head(buffered[w]))
    /\ buffered' = [buffered EXCEPT ![w] = Tail(@)]
    /\ UNCHANGED <<changes, aborts, request, at, replaying, changeListeners, liveFrom>>

Wait(w) ==
    /\ at[w] = "yield" /\ buffered[w] = <<>>
    /\ at' = [at EXCEPT ![w] = "wait"]
    /\ UNCHANGED <<changes, aborts, request, replaying, changeListeners, buffered,
                   yielded, liveFrom>>

\* The consumer leaves its loop at a yield; the finally block runs if the
\* listener was registered.
Return(w) ==
    /\ at[w] \in {"created", "snapshot", "replay", "yield"}
    /\ at' = [at EXCEPT ![w] = "returned"]
    /\ changeListeners' = changeListeners \ {w}
    /\ buffered' = [buffered EXCEPT ![w] = <<>>]
    /\ replaying' = [replaying EXCEPT ![w] = <<>>]
    /\ UNCHANGED <<changes, aborts, request, yielded, liveFrom>>

-----------------------------------------------------------------------------

Step(w) == \/ YieldSnapshot(w) \/ YieldReplayed(w) \/ GoLive(w) \/ Wake(w)
           \/ Fail(w) \/ YieldBuffered(w) \/ Wait(w)

WatchNext ==
    \/ \E s \in Scope : AppendChange(s)
    \/ RollBack
    \/ \E w \in Watcher, c \in Scope, n \in (0 .. MaxChanges) \cup {NoAfterCursor} :
         Open(w, c, n)
    \/ \E w \in Watcher : Step(w) \/ Return(w)

WatchSpec == WatchInit /\ [][WatchNext]_watchVars

\* The transports' for-await loops ask for the next item as soon as they have
\* written one.
FairWatchSpec == WatchSpec /\ \A w \in Watcher : WF_watchVars(Step(w))

-----------------------------------------------------------------------------
(* Properties.                                                             *)

\* What a watcher received, or has still to receive of its replay and buffer.
Received(w) == yielded[w] \o replaying[w] \o buffered[w]

Real(item) == item.kind = "delta" /\ item.committed

\* A stream never hands over a committed change twice or out of cursor order,
\* across the switch from the replay to the listener.
CursorOrder ==
    \A w \in Watcher : \A i, j \in DOMAIN Received(w) :
        i < j /\ Real(Received(w)[i]) /\ Real(Received(w)[j]) =>
            Received(w)[i].cursor < Received(w)[j].cursor

\* From the moment a watcher listens, nothing it should see is missing: every
\* matching change is delivered or buffered.
NoGapWhileLive ==
    \A w \in changeListeners : \A n \in DOMAIN changes :
        n > liveFrom[w] /\ Matches(w, changes[n]) =>
            \E i \in DOMAIN Received(w) :
                Real(Received(w)[i]) /\ Received(w)[i].cursor = n

\* Whatever a listener buffers is handed over, unless the stream ends: no
\* wake-up is lost between the test of the queue and the wait.
BufferDrains ==
    \A w \in Watcher : (buffered[w] # <<>>) ~> (buffered[w] = <<>>)
=============================================================================
