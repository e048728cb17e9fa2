---------------------------- MODULE Conversation ----------------------------
(* Questions to a provider and the answers Rooms publishes for it.          *)
(*                                                                          *)
(* Three sessions of one channel: the operator op, delivered to by the log;  *)
(* the planner lead; the worker w, whose runtime is a provider program.  op   *)
(* and lead send w direct messages (send in runtime/native/composition.ts);  *)
(* the host types them; the provider works and writes its log; the           *)
(* ProviderReplyBridge polls that log and publishes the final answer as a    *)
(* message of w, unless w sent one itself.  The daemon may die at any time.  *)
EXTENDS ProviderLog, MessageJournal

CONSTANTS
    Keys,      \* deduplication keys of the clients
    PageLimit, \* the limit of a page of messages
    Setups     \* conversations: the adapter of w, who asks it, policy and owner
               \* of the channel; contains, the pairs <<k, j>> of keys such
               \* that the text sent with k contains the one sent with j (of
               \* two equal texts, each the other); and two bounds: sends, on
               \* the requests of the asker, retries included; events, on what
               \* happens besides (records of work before the end of a turn,
               \* failed deliveries, time-outs, messages of w itself, crashes,
               \* departures, closings, thread changes, controls)

ASSUME ConversationAssumption ==
    /\ Keys \subseteq Nat \ {0}
    /\ PageLimit \in Nat \ {0}
    /\ Setups \subseteq [adapter : Adapters, asker : {"op", "lead"},
                         policy : {"open", "lead-upstream"},
                         owner : {"op", "none"},
                         contains : SUBSET (Keys \X Keys),
                         sends : Nat, events : Nat]

VARIABLES
    setup,    \* the conversation, one of Setups
    entries,  \* the journal of the channel
    log,      \* the files the provider writes
    inbox,    \* messages typed and not yet taken by the provider
    typed,    \* messages the host remembers as typed
    turn,     \* the message the provider works on, 0 if none
    since,    \* where the log stood at the last accepted delivery
    sends,    \* requests between the commit of their message and their answer
    jobs,     \* provider_reply_jobs, in the order of their insertion; start,
              \* the offsets they began with, is for the properties only
    batch,    \* the jobs the running tick has still to process
    reply,    \* the published message whose delivery the tick waits for, or 0
    armed,    \* the timer of the bridge is set
    thrown,   \* the last tick ended with an exception
    up,       \* the daemon runs
    leadIn,   \* lead is an active member
    alive,    \* the runtime of w has not ended
    active,   \* the channel is active
    counts    \* how much of the bounds is used

bridgeVars == <<jobs, batch, reply, armed, thrown>>
providerVars == <<log, inbox, turn>>
worldVars == <<up, leadIn, alive, active>>
conversationVars ==
    <<setup, entries, log, inbox, typed, turn, since, sends, jobs, batch,
      reply, armed, thrown, up, leadIn, alive, active, counts>>

ConversationInit ==
    /\ setup \in Setups
    /\ entries = <<>> /\ log = [f \in AllFiles |-> <<>>]
    /\ inbox = <<>> /\ typed = {} /\ turn = 0
    /\ since = Never /\ sends = {}
    /\ jobs = <<>> /\ batch = <<>> /\ reply = 0
    /\ armed = FALSE /\ thrown = FALSE
    /\ up = TRUE /\ leadIn = TRUE /\ alive = TRUE /\ active = TRUE
    /\ counts = [sends |-> 0, events |-> 0]

Lengths == [f \in AllFiles |-> Len(log[f])]

\* upstreamSessionId for the worker w, and the same rule in send.
Upstream(sender) ==
    IF setup.policy = "open" THEN sender
    ELSE IF leadIn THEN "lead" ELSE setup.owner

-----------------------------------------------------------------------------
(* send, from a client to w.                                               *)

\* shouldBridgeProviderReply.
Bridged(sender) == sender = "op" \/ setup.policy = "lead-upstream"

Count(bound) ==
    counts[bound] < setup[bound] /\ counts' = [counts EXCEPT ![bound] = @ + 1]

Event == Count("events")

Happens(unusual) == IF unusual THEN Event ELSE UNCHANGED counts

\* A client repeats a request, or uses its next key.
MayUse(k) ==
    \A i \in Keys : i < k => MessageWithKey(entries, <<"client", i>>) # 0

\* The messages whose text contains that of m.
Containing(m) ==
    {m} \union
    {n \in Messages(entries) :
        \E pair \in setup.contains :
            /\ m \in Messages(entries)
            /\ entries[n].key = <<"client", pair[1]>>
            /\ entries[m].key = <<"client", pair[2]>>}

\* send up to its first wait: the runtime is looked up and the offsets of the
\* log are taken, then the message is committed, or found by its key.
SendCommit(k) ==
    LET key == <<"client", k>>
        sender == setup.asker
    IN /\ up /\ alive /\ active /\ (sender = "lead" => leadIn)
       /\ MayUse(k)
       /\ Count("sends")
       /\ entries' = CommittedJournal(entries, sender, {"w"}, TRUE, 0, key, 0)
       /\ sends' = sends \union
            {[n |-> counts.sends, m |-> CommittedMessage(entries, key),
              sender |-> sender, scan |-> ScanStart(log), typed |-> FALSE]}
       /\ UNCHANGED <<setup, providerVars, typed, since, bridgeVars, worldVars>>

\* deliverMessage reaches the host, which types a message once.
HostTypes(s) ==
    /\ alive /\ ~s.typed
    /\ sends' = (sends \ {s}) \union {[s EXCEPT !.typed = TRUE]}
    /\ typed' = typed \union {s.m}
    /\ inbox' = IF s.m \in typed THEN inbox ELSE Append(inbox, s.m)
    /\ UNCHANGED <<setup, entries, log, turn, since, bridgeVars, worldVars,
                   counts>>

JobOf(js, m) == {i \in 1..Len(js) : js[i].m = m}

NewJob(s) == [m |-> s.m, sender |-> s.sender, state |-> "pending",
              scan |-> s.scan, start |-> s.scan.off]

\* Mutant: the timer is left to the running tick.
MutantEnqueue(s) ==
    /\ jobs' = IF JobOf(jobs, s.m) # {} THEN jobs ELSE Append(jobs, NewJob(s))
    /\ UNCHANGED <<batch, reply, armed, thrown>>

\* enqueue: INSERT OR IGNORE, and the timer.
Enqueue(s) ==
    /\ jobs' = IF JobOf(jobs, s.m) # {} THEN jobs ELSE Append(jobs, NewJob(s))
    /\ armed' = TRUE /\ thrown' = (thrown /\ armed)
    /\ UNCHANGED <<batch, reply>>

\* The rest of send after the wait.  A time-out may hide that the message was
\* typed; an uncertain answer counts as delivered but is no accepted delivery.
SendRecord(s, outcome) ==
    LET delivered == outcome # "failed"
    IN /\ outcome = "accepted" => s.typed
       /\ sends' = sends \ {s}
       /\ entries' = AppendMessageDelivery(entries, s.m,
                        IF delivered THEN "delivered" ELSE "undeliverable")
       /\ since' = IF outcome = "accepted" THEN Lengths ELSE since
       /\ IF delivered /\ Bridged(s.sender) THEN Enqueue(s)
          ELSE UNCHANGED bridgeVars
       /\ Happens(outcome # "accepted")
       /\ UNCHANGED <<setup, providerVars, typed, worldVars>>

-----------------------------------------------------------------------------
(* The provider and its log (external).                                    *)

Record(tok, m) == [tok |-> tok, m |-> m]

Unwritten == [f \in AllFiles |-> <<>>]

Write(recs) == log' = [f \in AllFiles |-> log[f] \o recs[f]]

\* What opens a turn of adapter a for message m, by file.
Opening(a, m) ==
    CASE a = "grok" ->
           [Unwritten EXCEPT !["history"] = <<Record("user", m)>>,
                             !["lifecycle"] = <<Record("start", m)>>]
      [] a = "codex" ->
           [Unwritten EXCEPT !["transcript"] =
               <<Record("start", m), Record("user", m)>>]
      [] OTHER -> [Unwritten EXCEPT !["transcript"] = <<Record("user", m)>>]

\* The provider takes the next prompt.
TakeInput ==
    /\ alive /\ turn = 0 /\ inbox # <<>>
    /\ turn' = Head(inbox)
    /\ inbox' = Tail(inbox)
    /\ Write(Opening(setup.adapter, Head(inbox)))
    /\ UNCHANGED <<setup, entries, typed, since, sends, bridgeVars, worldVars,
                   counts>>

\* It writes a record of its work; text ends a turn of gemini and agy.
Work(tok) ==
    /\ turn # 0
    /\ tok = "text" => setup.adapter \notin {"gemini", "agy"}
    /\ Event
    /\ Write([Unwritten EXCEPT ![FileOf(setup.adapter, tok)] =
                 <<Record(tok, turn)>>])
    /\ UNCHANGED <<setup, entries, inbox, typed, turn, since, sends,
                   bridgeVars, worldVars>>

\* A tool of claude returns the text of message n, say from a read of the
\* channel: the result is logged as a record of type user.
Quote(n) ==
    /\ turn # 0 /\ setup.adapter = "claude"
    /\ entries[n].from # "w"
    /\ Event
    /\ Write([Unwritten EXCEPT !["transcript"] = <<Record("result", n)>>])
    /\ UNCHANGED <<setup, entries, inbox, typed, turn, since, sends,
                   bridgeVars, worldVars>>

\* What closes a turn of adapter a, well or badly, by file.
Closing(a) ==
    CASE a = "codex" ->
           {[Unwritten EXCEPT !["transcript"] = <<Record("end", m)>>] :
              m \in {0, turn}}
      [] a = "claude" ->
           {[Unwritten EXCEPT !["transcript"] = recs] :
              recs \in {<<Record("text", turn), Record("end", turn)>>,
                       <<Record("fail", turn)>>}}
      [] a = "grok" ->
           {[Unwritten EXCEPT !["history"] = <<Record("text", turn)>>,
                              !["lifecycle"] = <<Record("end", turn)>>],
            [Unwritten EXCEPT !["lifecycle"] = <<Record("fail", turn)>>]}
      [] OTHER ->
           {[Unwritten EXCEPT !["transcript"] = <<Record(tok, turn)>>] :
              tok \in {"text", "fail"}}

EndTurn(recs) ==
    /\ turn # 0
    /\ turn' = 0
    /\ Write(recs)
    /\ UNCHANGED <<setup, entries, inbox, typed, since, sends, bridgeVars,
                   worldVars, counts>>

\* w uses Rooms itself: a direct message or a broadcast, perhaps as a reply.
\* Under lead-upstream send refuses all but a direct message upstream.
OwnMessage(to, re) ==
    LET direct == Cardinality(to) = 1
    IN /\ up /\ alive /\ active /\ ("lead" \in to => leadIn)
       /\ setup.policy = "lead-upstream" => direct /\ to = {Upstream("op")}
       /\ CanReply(entries, re)
       /\ Event
       /\ entries' = CommittedJournal(entries, "w", to, direct, re, <<>>, 0)
       /\ UNCHANGED <<setup, providerVars, typed, since, sends, bridgeVars,
                      worldVars>>

-----------------------------------------------------------------------------
(* The bridge (runtime/provider-reply-bridge.ts).                          *)

\* pendingJobs, with the end of the runtime as this query saw it.
PendingJobs ==
    LET rows == Ascending({i \in 1..Len(jobs) : jobs[i].state = "pending"})
    IN [n \in 1..Len(rows) |-> [i |-> rows[n], ended |-> ~alive]]

HasPendingJobs(js) == \E i \in 1..Len(js) : js[i].state = "pending"

\* hasCanonicalReply.
HasCanonicalReply(job) ==
    \E m \in Messages(entries) :
        /\ m > job.m /\ entries[m].from = "w"
        /\ \/ entries[m].re = job.m
           \/ entries[m].direct /\ entries[m].to = {Upstream(job.sender)}

\* finish.
Finished(js, i, state) ==
    IF js[i].state = "pending" THEN [js EXCEPT ![i].state = state] ELSE js

\* The timer fires.  A tick that finds another one running does nothing.
Tick ==
    /\ up /\ armed
    /\ armed' = FALSE /\ thrown' = FALSE
    /\ batch' = IF batch = <<>> THEN PendingJobs ELSE batch
    /\ UNCHANGED <<setup, entries, providerVars, typed, since, sends, jobs,
                   reply, worldVars, counts>>

\* The loop of tick after one job, and its end: js are the jobs now.
Proceed(js) ==
    /\ jobs' = js
    /\ batch' = Tail(batch)
    /\ armed' = (armed \/ (Len(batch) = 1 /\ HasPendingJobs(js)))
    /\ UNCHANGED thrown

\* process, up to the publication.
Settle(i, state) ==
    /\ Proceed(Finished(jobs, i, state))
    /\ UNCHANGED <<entries, reply>>

\* upstreamSessionId throws out of tick, which does not set the timer again.
Throw ==
    /\ batch' = <<>> /\ thrown' = TRUE
    /\ UNCHANGED <<jobs, entries, reply, armed>>

\* The answer is sent as w; a resolved thread refuses it.
PublishAnswer(i, scan) ==
    LET job == jobs[i]
        to == Upstream(job.sender)
        key == <<"final", job.m>>
        js == [jobs EXCEPT ![i].scan = scan]
    IN IF ~CanReply(entries, job.m) \/ (to = "lead" /\ ~leadIn)
       THEN /\ Proceed(Finished(js, i, "failed"))
            /\ UNCHANGED <<entries, reply>>
       ELSE /\ entries' = CommittedJournal(entries, "w", {to}, TRUE, job.m,
                                          key, scan.cand)
            /\ jobs' = js
            /\ reply' = CommittedMessage(entries, key)
            /\ UNCHANGED <<batch, armed, thrown>>

\* The scan of a job: late says that the input should have been seen by now.
ScanJob(i, upto, late) ==
    LET job == jobs[i]
        scan == Scan(setup.adapter, Containing(job.m), log, upto, job.scan)
        js == [jobs EXCEPT ![i].scan = scan]
        status == ScanStatus(scan)
    IN /\ late => ~scan.seen
       /\ IF status = "failed" \/ late
          THEN Proceed(Finished(js, i, "failed")) /\ UNCHANGED <<entries, reply>>
          ELSE IF status = "pending"
          THEN Proceed(js) /\ UNCHANGED <<entries, reply>>
          ELSE PublishAnswer(i, scan)

\* How far a scan reads.  Of grok's two files the history is read first, so
\* the lifecycle may show what the history did not yet; a read that stops at a
\* cut line is the read of an earlier tick.
ReadEnds(off) ==
    {[Lengths EXCEPT !["history"] = n] :
        n \in off["history"]..Len(log["history"])}

Process(late) ==
    LET i == Head(batch).i
        job == jobs[i]
    IN /\ up /\ batch # <<>> /\ reply = 0
       /\ IF Head(batch).ended THEN ~late /\ Settle(i, "failed")
          ELSE IF ~active THEN ~late /\ Settle(i, "skipped")
          ELSE IF Upstream(job.sender) = "none" THEN ~late /\ Throw
          ELSE IF HasCanonicalReply(job) THEN ~late /\ Settle(i, "skipped")
          ELSE \E upto \in ReadEnds(job.scan.off) : ScanJob(i, upto, late)
       /\ Happens(late)
       /\ UNCHANGED <<setup, providerVars, typed, since, sends, worldVars>>

ToLead == entries[reply].to = {"lead"}

\* send returns: at once for the operator, after the delivery for the lead;
\* when that failed, send throws.
PublishEnd(ok) ==
    /\ reply # 0
    /\ ~ok => ToLead
    /\ Happens(~ok)
    /\ reply' = 0
    /\ entries' = AppendMessageDelivery(entries, reply,
                      IF ok THEN "delivered" ELSE "undeliverable")
    /\ Proceed(Finished(jobs, Head(batch).i,
                        IF ok THEN "published" ELSE "failed"))
    /\ UNCHANGED <<setup, providerVars, typed, since, sends, worldVars>>

-----------------------------------------------------------------------------
(* What happens around them.                                               *)

DaemonDies ==
    /\ up /\ Event
    /\ up' = FALSE /\ sends' = {} /\ batch' = <<>> /\ reply' = 0
    /\ armed' = FALSE /\ thrown' = FALSE
    /\ UNCHANGED <<setup, entries, providerVars, typed, since, jobs, leadIn,
                   alive, active>>

\* start() of the bridge sets its timer.
Restart ==
    /\ ~up
    /\ up' = TRUE /\ armed' = TRUE
    /\ UNCHANGED <<setup, entries, providerVars, typed, since, sends, jobs,
                   batch, reply, thrown, leadIn, alive, active, counts>>

\* resolveThread and reopenThread.
SetThread(m, state) ==
    /\ up /\ active /\ IsThreadRoot(entries, m)
    /\ ThreadState(entries, m) # state
    /\ Event
    /\ entries' = SetThreadState(entries, m, state)
    /\ UNCHANGED <<setup, providerVars, typed, since, sends, bridgeVars,
                   worldVars>>

\* commitControl, by an active member of the active channel.
Control(from, request) ==
    /\ up /\ active /\ (from = "lead" => leadIn)
    /\ \A i \in Keys : i < request =>
         \E c \in Controls(entries) : entries[c].request = i
    /\ Event
    /\ entries' = CommitControl(entries, from, request)
    /\ UNCHANGED <<setup, providerVars, typed, since, sends, bridgeVars,
                   worldVars>>

LeadMoves ==
    /\ up /\ Event
    /\ leadIn' = ~leadIn
    /\ UNCHANGED <<setup, entries, providerVars, typed, since, sends,
                   bridgeVars, up, alive, active>>

WorkerEnds ==
    /\ alive /\ Event
    /\ alive' = FALSE
    /\ inbox' = <<>> /\ turn' = 0
    /\ UNCHANGED <<setup, entries, log, typed, since, sends, bridgeVars, up,
                   leadIn, active>>

CloseChannel ==
    /\ up /\ active /\ Event
    /\ active' = FALSE
    /\ UNCHANGED <<setup, entries, providerVars, typed, since, sends,
                   bridgeVars, up, leadIn, alive>>

\* The daemon is one thread: while a tick runs, only the wait for a delivery
\* lets anything else happen.
Yields == batch = <<>> \/ (reply # 0 /\ ToLead)

Around ==
    \/ \E k \in Keys : SendCommit(k)
    \/ \E s \in sends : HostTypes(s)
    \/ \E s \in sends, o \in {"accepted", "uncertain", "failed"} :
          SendRecord(s, o)
    \/ TakeInput
    \/ \E tok \in {"tool", "part", "text"} : Work(tok)
    \/ \E n \in Messages(entries) : Quote(n)
    \/ \E recs \in Closing(setup.adapter) : EndTurn(recs)
    \/ \E to \in {{"op"}, {"lead"}, {"op", "lead"}},
          re \in {0} \union Messages(entries) : OwnMessage(to, re)
    \/ Tick
    \/ \E m \in Messages(entries), st \in {"open", "resolved"} : SetThread(m, st)
    \/ \E from \in {"op", "lead"}, k \in Keys : Control(from, k)
    \/ LeadMoves
    \/ WorkerEnds
    \/ CloseChannel

ConversationNext ==
    \/ Yields /\ Around
    \/ \E late \in BOOLEAN : Process(late)
    \/ \E ok \in BOOLEAN : PublishEnd(ok)
    \/ DaemonDies
    \/ Restart

ConversationSpec ==
    ConversationInit /\ [][ConversationNext]_conversationVars

-----------------------------------------------------------------------------
(* Properties.                                                             *)

\* A request that is repeated, and an answer that is published again after a
\* crash, find what they committed: no deduplication key of a message and no
\* request id of a control is used twice.
KeysAreUnique ==
    /\ \A m, n \in Messages(entries) :
         entries[m].key = entries[n].key /\ entries[m].key # <<>> => m = n
    /\ \A c, d \in Controls(entries) : entries[c] = entries[d] => c = d

\* The file of the prompts: each begins a turn.
PromptLog == log[FileOf(setup.adapter, "user")]

IsPrompt(r, m) == r.tok = "user" /\ r.m = m

\* Where the provider took the prompt of m, 0 if it did not.
TurnOrder(m) ==
    LET at == {i \in 1..Len(PromptLog) : IsPrompt(PromptLog[i], m)}
    IN IF at = {} THEN 0 ELSE Min(at)

\* The records that show the text of the question of this job, from the offsets
\* on that were taken when it was sent.
Shown(job) ==
    {i \in (job.start[FileOf(setup.adapter, "user")] + 1)..Len(PromptLog) :
        IsInput(PromptLog[i], Containing(job.m))}

\* A published answer belongs to the turn in which the provider first showed
\* the text of the question, or to a later one, whatever else was in the log,
\* whenever the offsets were taken and however often the daemon was restarted:
\* no later turn had begun when the text was shown.  If no other message
\* contains the text and no tool result quotes it, that is the turn that the
\* question began.  If there are such, the code takes the first of them for the
\* question (provider-final-reply.ts:168-185) although :78 speaks of "this exact
\* input", and the answer may be that of another message.
AnswerFollowsQuestion ==
    \A r \in Messages(entries) :
        (entries[r].from = "w" /\ entries[r].key # <<>>) =>
            \E i \in JobOf(jobs, entries[r].re) :
                /\ Shown(jobs[i]) # {} /\ TurnOrder(entries[r].text) # 0
                /\ \A k \in 1..Min(Shown(jobs[i])) :
                     PromptLog[k].tok = "user" =>
                         k <= TurnOrder(entries[r].text)

\* While there are pending jobs the bridge polls: the timer is set or a tick is
\* running.  The one exception is a tick that ended with an exception.
NeverStranded ==
    up /\ HasPendingJobs(jobs) => armed \/ batch # <<>> \/ thrown

TurnLog == log[TurnFile(setup.adapter)]

\* The provider worked, and its last turn is closed, well or badly.
TurnIsOver == turn = 0 /\ TurnLog # <<>>

\* Nothing was written since the last accepted delivery: its message still
\* waits, or the turn was over before the delivery was recorded
\* (service.ts:731-733), as it is when a request is repeated late.
NothingSince == Len(TurnLog) = since[TurnFile(setup.adapter)]

\* Claude ended the turn with is_error, which resolveClaudeTurn does not read
\* (provider-turn.ts:238-275).
FailedUnread ==
    setup.adapter = "claude" /\ TurnLog[Len(TurnLog)].tok = "fail"

\* A session whose provider has nothing left to do is shown as idle: the turn
\* reader, which knows nothing of messages, does not leave it working.  It does
\* in two cases, until the next turn ends, although provider-turn.ts:11 defines
\* idle as "live runtime waiting for the next prompt": when the turn was over
\* before the delivery was recorded, and when a turn of claude failed.
EndedReadsIdle ==
    alive /\ TurnIsOver =>
        \/ TurnPhase(setup.adapter, log, since) = "idle"
        \/ NothingSince
        \/ FailedUnread

\* A page of messages against its definition: the newest ones and no others;
\* hasMore exactly if one was left out; and nothing new hides below the cursor
\* that the next poll starts from.
PageIsExact(S, page) ==
    /\ page.events \subseteq S
    /\ Cardinality(page.events) <= PageLimit
    /\ page.more = (page.events # S)
    /\ page.more => Cardinality(page.events) = PageLimit
    /\ \A m \in S \ page.events, n \in page.events : m < n
    /\ \A m \in S : m <= page.cursor

\* Controls are read from the oldest on, by two readers that agree: what a page
\* leaves out is what the next poll, from the cursor of this one, starts with.
ControlsAreExact(c) ==
    LET page == ChannelControlPage(entries, c, PageLimit)
        S == {k \in Controls(entries) : k > c}
    IN /\ page = GetControls(entries, c, PageLimit)
       /\ S \ page.events = {k \in S : k > page.cursor}
       /\ page.more = (S # page.events)

\* The listing and the fold show the same fate of a message that was delivered
\* or refused once (they differ when an attempt was repeated).
FatesAgree ==
    LET listed == ListMessages(entries, "w", 0)
    IN \A m \in DOMAIN listed : Cardinality(Deliveries(entries, m)) <= 1 =>
         listed[m] = FoldMessageEvents(entries)[m]

\* A reader of messages or controls that polls with the cursors it is given
\* misses nothing new, is told when something was left out, and sees the same as
\* a reader of another kind.
PagesAreExact ==
  /\ FatesAgree
  /\ \A c \in Messages(entries) \union {0} : ControlsAreExact(c)
  /\ \A c \in Messages(entries) \union {0} :
        LET S == {m \in Messages(entries) : m > c}
        IN /\ PageIsExact(S, ChannelMessages(entries, c, PageLimit))
           /\ PageIsExact({m \in S : TakesPart(entries, m, "op")},
                          SessionMessages(entries, "op", c, PageLimit))
           /\ c # 0 => PageIsExact({m \in S : entries[m].re = c},
                                  MessageReplies(entries, c, c, PageLimit))
=============================================================================
