--------------------------- MODULE FederatedChannel ---------------------------
(***************************************************************************)
(* A channel whose home is another machine.  The home answers channel      *)
(* commands of an authenticated peer (channel-home-handler.ts); this       *)
(* machine keeps a durable route with a cursor for each local session      *)
(* that joined (channel-route-store.ts), and its subscription manager      *)
(* pulls pages of canonical messages through one relay connection and      *)
(* injects them into the local runtimes                                    *)
(* (channel-subscription-manager.ts).  A handler that is delivering a page *)
(* outlives the connection that brought the page.                          *)
(***************************************************************************)
EXTENDS AscendingOrder, SequencesExt

CONSTANTS NumRoutes,    \* local sessions that may join, in the order of their files
          MaxEvents,    \* changes of the home journal, a bound of the model
          MaxFaults,    \* broken connections, failed deliveries, crashes and lost
                        \* runtimes, a bound of the model
          MaxPage,      \* MESSAGE_PAGE_LIMIT
          MaxTime       \* the last reading of a clock, a bound of the model

ASSUME ChannelAssumption ==
  /\ NumRoutes \in Nat \ {0} /\ MaxEvents \in Nat
  /\ MaxFaults \in Nat /\ MaxPage \in Nat \ {0} /\ MaxTime \in Nat

VARIABLES journal,    \* changes of the home: a channel message, whom it addresses and
                      \* the home's clock when it was committed (occurredAt)
          member,     \* remote sessions that are active members at the home
          admitted,   \* the home's admission of this machine to the channel
          call,       \* per session, the register or leave that waits for its reply
          clock,      \* the clock of this machine, which never goes back
          route,      \* the route files of this machine
          runtime,    \* local sessions with a live runtime
          worker,     \* the Worker of the manager for this home
          tasks,      \* handlers that are delivering a page
          retry,      \* "ready", "waiting" (retries) or "suppressed"
          injected,   \* per session, what its runtimes were given, first times only
          faults

home == <<journal, member, admitted>>
local == <<call, clock>>
channelVars == <<home, local, route, runtime, worker, tasks, retry, injected, faults>>

Routes == 1 .. NumRoutes
Positions == 1 .. MaxEvents
Cursors == 0 .. MaxEvents
Times == 0 .. MaxTime

\* What a handler remembers of a route when it asks for a page.
Asks == [route : Routes, cursor : Cursors, born : Times]
NoAsk == [route |-> 0, cursor |-> 0, born |-> 0]
Replies == [st : {"none", "refused", "page"}, todo : Seq(Positions), more : BOOLEAN]
Reply(st) == [st |-> st, todo |-> <<>>, more |-> FALSE]
\* A file has its createdAt (born), and, for the properties only, the length of
\* the home's journal when the session registered (from).
NoFile == [present |-> FALSE, cursor |-> 0, born |-> 0, from |-> 0]
Calls == [op : {"none", "register", "leave"}, cursor : Cursors, from : Cursors]
Call(op) == [op |-> op, cursor |-> 0, from |-> 0]
NoWorker == [st |-> "none", index |-> 0, current |-> NoAsk, resume |-> NoAsk,
             reply |-> Reply("none")]

Present == {r \in Routes : route[r].present}
AskOf(r) == [route |-> r, cursor |-> route[r].cursor, born |-> route[r].born]

ChannelInit ==
  /\ journal = <<>> /\ member = {} /\ admitted = TRUE
  /\ call = [r \in Routes |-> Call("none")] /\ clock = 0
  /\ route = [r \in Routes |-> NoFile]
  /\ runtime = Routes
  /\ worker = NoWorker /\ tasks = {} /\ retry = "ready"
  /\ injected = [r \in Routes |-> <<>>]
  /\ faults = 0

-----------------------------------------------------------------------------
(* The home, and the commands of the peer.                                 *)

\* Its clock agrees with the clock of this machine in nothing.
CommitMessage(channel, to) ==
  /\ Len(journal) < MaxEvents
  /\ \E at \in Times : journal' = Append(journal, [channel |-> channel, to |-> to, at |-> at])
  /\ UNCHANGED <<member, admitted, local, route, runtime, worker, tasks, retry, injected, faults>>

\* A session of the home machine posts to the channel.
Post == CommitMessage(TRUE, member)

\* A remote member broadcasts to the roster without itself.
RemoteSend(r) == r \in member /\ admitted /\ CommitMessage(TRUE, member \ {r})

\* directSend: a change that belongs to no channel.
DirectSend == CommitMessage(FALSE, {})

\* upsertFederatedChannelRoute: an existing file keeps its cursor and birth, a
\* new one is born by the clock of this machine.
Upsert(r, now) ==
  route' = [route EXCEPT ![r] =
              IF @.present THEN @
              ELSE [present |-> TRUE, cursor |-> call[r].cursor, born |-> now,
                    from |-> call[r].from]]

\* A file that was written ends a suppression.
Rewritten == retry' = IF retry = "suppressed" THEN "ready" ELSE retry

\* register at the home: the session joins, and the reply has the cursor of the
\* journal; homes that did not send it let the route start at 0.
Register(r, cursor) ==
  /\ admitted /\ call[r].op = "none"
  /\ cursor \in {0, Len(journal)}
  /\ member' = member \cup {r}
  /\ call' = [call EXCEPT ![r] = [op |-> "register", cursor |-> cursor, from |-> Len(journal)]]
  /\ UNCHANGED <<journal, admitted, clock, route, runtime, worker, tasks, retry, injected, faults>>

\* leave at the home.
Leave(r) ==
  /\ r \in member /\ call[r].op = "none"
  /\ member' = member \ {r}
  /\ call' = [call EXCEPT ![r] = Call("leave")]
  /\ UNCHANGED <<journal, admitted, clock, route, runtime, worker, tasks, retry, injected, faults>>

\* The reply of a register reaches the command, which writes the route file.
WriteRoute(r) ==
  /\ call[r].op = "register"
  /\ clock' \in clock .. MaxTime
  /\ Upsert(r, clock') /\ Rewritten
  /\ call' = [call EXCEPT ![r] = Call("none")]
  /\ UNCHANGED <<home, runtime, worker, tasks, injected, faults>>

\* The reply of a leave: removeFederatedChannelRoute.
RemoveRoute(r) ==
  /\ call[r].op = "leave"
  /\ route' = [route EXCEPT ![r] = NoFile]
  /\ call' = [call EXCEPT ![r] = Call("none")]
  /\ UNCHANGED <<home, clock, runtime, worker, tasks, retry, injected, faults>>

\* The channel owner admits the peer, or ends its admission.
SetAdmission ==
  /\ admitted' = ~admitted
  /\ UNCHANGED <<journal, member, local, route, runtime, worker, tasks, retry, injected, faults>>

\* A mutant: the newest messages come first.
MutantMessagesAfter(cursor) ==
  Reverse(Ascending({p \in 1 .. Len(journal) : p > cursor /\ journal[p].channel}))

\* channelMessagePage over replayChannelMessages: the first k messages after the
\* cursor, k at least 1 and cut by the page's limits.
MessagesAfter(cursor) ==
  Ascending({p \in 1 .. Len(journal) : p > cursor /\ journal[p].channel})

Page(cursor, k) ==
  LET all == MessagesAfter(cursor)
  IN  [st |-> "page", todo |-> SubSeq(all, 1, k), more |-> Len(all) > k]

\* The cursor of a page, which stays where it was when the page is empty.
PageEnd(reply, cursor) == IF reply.todo = <<>> THEN cursor ELSE Last(reply.todo)

\* The home's answer to a messages command.
Answer(k) ==
  LET n == Len(MessagesAfter(worker.current.cursor))
  IN  /\ worker.current # NoAsk /\ worker.reply.st = "none"
      /\ IF worker.current.route \in member /\ admitted
         THEN /\ k <= MaxPage /\ (k = 0 <=> n = 0) /\ k <= n
              /\ worker' = [worker EXCEPT !.reply = Page(worker.current.cursor, k)]
         ELSE k = 0 /\ worker' = [worker EXCEPT !.reply = Reply("refused")]
      /\ UNCHANGED <<home, local, route, runtime, tasks, retry, injected, faults>>

-----------------------------------------------------------------------------
(* The subscription manager.                                               *)

\* discover: one connection per home, not before the backoff is over.
Discover ==
  /\ worker.st = "none" /\ Present # {} /\ retry = "ready"
  /\ worker' = [NoWorker EXCEPT !.st = "connecting"]
  /\ UNCHANGED <<home, local, route, runtime, tasks, retry, injected, faults>>

Connected ==
  /\ worker.st = "connecting"
  /\ worker' = [worker EXCEPT !.st = "connected"]
  /\ UNCHANGED <<home, local, route, runtime, tasks, retry, injected, faults>>

\* isRetryableChannelSubscriptionClose and what follows a close; a handler in
\* its deliveries goes on.
Closed(retryable) ==
  /\ worker' = NoWorker
  /\ retry' = IF Present = {} THEN retry ELSE IF retryable THEN "waiting" ELSE "suppressed"
Disowned(S) == {[t EXCEPT !.own = FALSE] : t \in S}

\* pollNext and requestRoute: the same route again while it has more, else the
\* next of the sorted files; without routes the connection drains.
Poll ==
  LET files == Ascending(Present)
      i == worker.index % Len(files)
  IN  /\ worker.st = "connected" /\ worker.current = NoAsk
      /\ \A t \in tasks : ~t.own
      /\ IF worker.resume # NoAsk
         THEN /\ worker' = [worker EXCEPT !.current = worker.resume, !.resume = NoAsk]
              /\ UNCHANGED retry
         ELSE IF Present = {} THEN Closed(TRUE)
         ELSE /\ worker' = [worker EXCEPT !.current = AskOf(files[i + 1]), !.index = i + 1]
              /\ UNCHANGED retry
      /\ UNCHANGED <<home, local, route, runtime, tasks, injected, faults>>

\* The assembled result: a refusal breaks the connection, a page is delivered.
Accept ==
  /\ worker.reply.st # "none"
  /\ IF worker.reply.st = "refused"
     THEN Closed(TRUE) /\ UNCHANGED tasks
     ELSE /\ tasks' = tasks \cup {[ask |-> worker.current, todo |-> worker.reply.todo,
                                   more |-> worker.reply.more, own |-> TRUE,
                                   cursor |-> PageEnd(worker.reply, worker.current.cursor)]}
          /\ worker' = [worker EXCEPT !.current = NoAsk, !.reply = Reply("none")]
          /\ UNCHANGED retry
  /\ UNCHANGED <<home, local, route, runtime, injected, faults>>

\* What deliverFederatedMessage does to the runtime: the host knows the ids it
\* was given.
Injected(r, p) ==
  [injected EXCEPT ![r] = IF p \in {@[i] : i \in 1 .. Len(@)} THEN @ ELSE Append(@, p)]

\* A mutant: a message without a runtime is passed over.
MutantDeliver(t) ==
  LET p == Head(t.todo)
      r == t.ask.route
  IN  /\ t.todo # <<>>
      /\ tasks' = (tasks \ {t}) \cup {[t EXCEPT !.todo = Tail(@)]}
      /\ injected' = IF journal[p].at >= t.ask.born /\ r \in journal[p].to \cap runtime
                      THEN Injected(r, p) ELSE injected
      /\ UNCHANGED <<home, local, route, runtime, worker, retry, faults>>

\* The loop over the messages: stamped by the home before the createdAt of the
\* route, not addressed to the session, or injected; without a runtime the page
\* is given up.
Deliver(t) ==
  LET p == Head(t.todo)
      r == t.ask.route
      wanted == journal[p].at >= t.ask.born /\ r \in journal[p].to
  IN  /\ t.todo # <<>>
      /\ IF wanted /\ r \notin runtime THEN tasks' = tasks \ {t}
         ELSE tasks' = (tasks \ {t}) \cup {[t EXCEPT !.todo = Tail(@)]}
      /\ injected' = IF wanted /\ r \in runtime THEN Injected(r, p) ELSE injected
      /\ UNCHANGED <<home, local, route, runtime, worker, retry, faults>>

\* An error of a handler closes its connection, if that is still there.
Throws(t) ==
  /\ IF t.own THEN Closed(TRUE) ELSE UNCHANGED <<worker, retry>>
  /\ tasks' = tasks \ {t}

\* advanceFederatedChannelRouteCursor, never backwards; then the next request.
Advance(t) ==
  LET r == t.ask.route
      cursor == IF t.cursor > route[r].cursor THEN t.cursor ELSE route[r].cursor
  IN  /\ t.todo = <<>>
      /\ IF ~route[r].present
         THEN Throws(t) /\ UNCHANGED route
         ELSE /\ route' = [route EXCEPT ![r].cursor = cursor]
              /\ IF cursor > route[r].cursor THEN Rewritten ELSE UNCHANGED retry
              /\ worker' = IF t.own /\ t.more
                           THEN [worker EXCEPT !.resume = [AskOf(r) EXCEPT !.cursor = cursor]]
                           ELSE worker
              /\ tasks' = tasks \ {t}
      /\ UNCHANGED <<home, local, runtime, injected, faults>>

BackoffOver ==
  /\ retry = "waiting" /\ retry' = "ready"
  /\ UNCHANGED <<home, local, route, runtime, worker, tasks, injected, faults>>

-----------------------------------------------------------------------------
(* What goes wrong.                                                        *)

Fault == faults < MaxFaults /\ faults' = faults + 1

ConnectionCloses(retryable) ==
  /\ Fault /\ worker.st # "none"
  /\ Closed(retryable)
  /\ tasks' = Disowned(tasks)
  /\ UNCHANGED <<home, local, route, runtime, injected>>

DeliveryFails(t) ==
  /\ Fault /\ t.todo # <<>>
  /\ Throws(t)
  /\ UNCHANGED <<home, local, route, runtime, injected>>

RuntimeEnds(r) ==
  /\ Fault /\ r \in runtime
  /\ runtime' = runtime \ {r}
  /\ UNCHANGED <<home, local, route, worker, tasks, retry, injected>>

RuntimeResumes(r) ==
  /\ r \notin runtime
  /\ runtime' = runtime \cup {r}
  /\ UNCHANGED <<home, local, route, worker, tasks, retry, injected, faults>>

\* The connection of a command breaks, or its 15 seconds pass.
CallFails(r) ==
  /\ Fault /\ call[r].op # "none"
  /\ call' = [call EXCEPT ![r] = Call("none")]
  /\ UNCHANGED <<home, clock, route, runtime, worker, tasks, retry, injected>>

\* The daemon of this machine restarts.
Crash ==
  /\ Fault
  /\ worker' = NoWorker /\ tasks' = {} /\ retry' = "ready"
  /\ UNCHANGED <<home, local, route, runtime, injected>>

\* The manager and the home do these without being asked.
Progress ==
  \/ Discover \/ Connected \/ Poll \/ Accept \/ BackoffOver
  \/ \E k \in 0 .. MaxPage : Answer(k)
  \/ \E t \in tasks : Deliver(t) \/ Advance(t)

ChannelNext ==
  \/ Progress
  \/ Post \/ DirectSend \/ SetAdmission \/ Crash
  \/ \E retryable \in BOOLEAN : ConnectionCloses(retryable)
  \/ \E t \in tasks : DeliveryFails(t)
  \/ \E r \in Routes :
       \/ RemoteSend(r) \/ Leave(r) \/ RuntimeEnds(r) \/ RuntimeResumes(r)
       \/ WriteRoute(r) \/ RemoveRoute(r) \/ CallFails(r)
       \/ \E cursor \in Cursors : Register(r, cursor)

ChannelSpec == ChannelInit /\ [][ChannelNext]_channelVars

-----------------------------------------------------------------------------
(* Properties.                                                             *)

\* Type invariant of the home, the route files, the worker and its handlers.
ChannelTypeOK ==
  /\ journal \in Seq([channel : BOOLEAN, to : SUBSET Routes, at : Times]) /\ Len(journal) <= MaxEvents
  /\ member \subseteq Routes /\ admitted \in BOOLEAN /\ runtime \subseteq Routes
  /\ call \in [Routes -> Calls] /\ clock \in Times
  /\ route \in [Routes -> [present : BOOLEAN, cursor : Cursors, born : Times, from : Cursors]]
  /\ worker.st \in {"none", "connecting", "connected"}
  /\ worker.current \in Asks \cup {NoAsk} /\ worker.resume \in Asks \cup {NoAsk}
  /\ worker.reply \in Replies
  /\ \A t \in tasks : t.ask \in Asks /\ t.todo \in Seq(Positions) /\ t.cursor \in Cursors
  /\ retry \in {"ready", "waiting", "suppressed"} /\ faults \in 0 .. MaxFaults
  /\ injected \in [Routes -> Seq(Positions)]

\* A cursor never passes a message that its session was owed: whatever breaks
\* between the answer, the deliveries and the write of the file, every message
\* after the registration that addresses the session and that the home stamped no
\* earlier than the route's createdAt was injected before the cursor passed it.
\* The code skips the messages stamped earlier, though the session was a member
\* when they were posted: one that came between the registration and the write
\* of the file, and, while the home's clock is behind, one that came later.
NothingOwedIsSkipped ==
  \A r \in Present : \A p \in route[r].from + 1 .. route[r].cursor :
    journal[p].channel /\ r \in journal[p].to /\ journal[p].at >= route[r].born =>
      \E i \in 1 .. Len(injected[r]) : injected[r][i] = p

\* While a session keeps its route, it gets the messages in the order of the
\* home's journal, though two handlers may be delivering the same pages and a
\* handler of an earlier route of the session may still be at work.  Nothing is
\* said of a message stamped before the route's createdAt, which only such an
\* older handler delivers.
InOrder ==
  \A r \in Present : \A i, j \in 1 .. Len(injected[r]) :
    i < j /\ injected[r][j] > route[r].from /\ journal[injected[r][j]].at >= route[r].born
      => injected[r][i] < injected[r][j]
=============================================================================
