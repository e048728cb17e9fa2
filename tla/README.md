# A TLA+ verification of Wardroom (Rooms)

Wardroom is a local authority for rooms in which people and coding agents talk.
A TypeScript daemon, `roomsd` (`src/roomsd/src`), keeps the sessions, channels,
memberships and messages in SQLite; every agent lives in a terminal owned by a
small Go process, the runtime host (`src/roomsd/runtime-host-go`); other
machines are reached through a relay protocol over ssh. This directory models
the parts of that system in which interleaving, failure, retries or long
histories matter, checks the models with TLC, and proves the safety properties of all of
them with TLAPS for every value of the constants.

## 1. The system

| Part | State | Operations | Talks to |
|---|---|---|---|
| **Authority** (`domain/application.ts`, `storage/repository.ts`) | tables `sessions`, `channels`, `memberships`, `changes` | register, join, leave, role change, end, recover, close, reopen, commit a message, thread state | every other part, one SQLite transaction per command |
| **Runtime host** (`main.go`, `ring.go`) | replay ring, attached clients and their queues, controller slot, used HELLO ids, table of delivered messages | attach, replay, output, input, renew, deliver, exit | one connection per client, one handler and one writer goroutine each |
| **Host client and runtime service** (`host/client.ts`, `runtime/service.ts`, `host/supervisor.ts`, `runtime-repository.ts`) | pending requests, supervisors, tables `runtimes`, `runtime_attachments` | create, attach, detach, deliver, terminate, recover, reconcile, discover the provider's thread | the host by frames, the authority by rows |
| **Watch and subscriptions** (`composition.ts` watch, `api/subscriptions`) | journal position, buffer, waiter | watch, subscribe, next, acknowledge, close | change listeners of the store |
| **Suspend and resume** (`lifecycle/suspend-resume.ts`, `blueprint-repository.ts`, `local-channel-lifecycle.ts`) | blueprint row with two leases, member outcomes, launches, resumed members | suspend, resume, take-over, rollback | runtime service (stop, launch), authority (reattach) |
| **Composition** (`composition.ts`, `runtime.ts`, `native/main.ts`) | none of its own | send, launch, end, start of the daemon | all of the above |
| **Provider replies** (`provider-reply-bridge.ts`, `provider-final-reply.ts`, `provider-turn.ts`) | job table, scan position | enqueue, tick, scan, publish; phase of a turn | provider transcripts, authority |
| **Rotation, restore** (`rotation/*`, `restore.ts`) | rotation audit rows | prepare, acknowledge, commit, cancel, retry of the cleanup | runtime service, memberships |
| **Federation** (`federation/*`, `identity/*`) | sequence numbers and queues of a connection, trust files, enrollment ledgers, routes with cursors | connect, reconnect, enroll, revoke, subscribe, forward | ssh child processes, authority |
| **Profiles and launch** (`profiles/*`, `codex-controlled-home.ts`, `cli/main.ts`) | revisions, controlled homes, bindings, lock files | create, materialize, bind, launch, undo | daemon and command line, two processes over one directory |
| **Edges** (other CLI commands, MCP, transports, provisioning, telemetry, credentials, migrations) | files | parse, format, install | the daemon's socket |

What is hard here: goroutines that release a lock between a test and its use;
generators that other requests overtake between two `yield`s; answers matched to
requests by arrival order, with timeouts; operations that read a row, wait for a
host, and write the row; leases that expire while their owner waits; files that
several processes read and write without a lock; a daemon that dies between two
transactions while its hosts go on; logs that another program is still writing;
and long histories of individually legal commands. The `hazards` of
`PROJECT.json` list each such place at its line with the property that would
catch it going wrong. What makes each part correct:

* authority: the tables agree with each other, one planner and one reviewer per
  channel, history is not rewritten;
* host: a client that stays attached gets every byte once, one controller,
  single-use credentials, the exit is told once;
* delivery: a message is typed into the terminal once and in order whatever is
  retried, and an answer belongs to its request;
* streams: cursor order, no gap, nobody waits for what is there;
* suspend and resume: never two hosts of a session, a suspended channel is
  quiet, a replaced coordinator does no harm;
* runtimes: one current generation, older hosts are given up first, a rotated
  place is held once;
* conversation: a retried request is one message, an answer follows its
  question, no job is forgotten, pages are exact;
* launches: a stored revision verifies, a provider sees its own revision, a
  conversation has one owner, every launch ends;
* federation: each direction of a connection is a FIFO link that may lose its
  tail, no cursor passes what is owed, trust is the result of a completed
  exchange.

## 2. Modules

| Module | Models | Granularity |
|---|---|---|
| `RoomsAuthority` | the directory and its commands | one transaction = one action; a command that throws is a disabled action |
| `RuntimeHost` | the attachment plane of the Go host | one critical section of `shared.mu`, or one socket write |
| `HostDelivery` | `deliverToRuntime`, `RuntimeHostClient`, the host's DELIVER handler | one event-loop turn of the client; one critical section, PTY write or frame of the host |
| `Watch` | the `watch` generator over the change journal | one resumption up to the next `yield`/`await`; one store transaction |
| `Subscription` | `RoomsSubscriptionService` | one (synchronous) method |
| `AscendingOrder` | a set of cursors in ascending order, shared by the streams | pure |
| `ChannelLifecycle` | suspend and resume of one channel | one coordinator from one wait to the next, or one transaction |
| `RuntimeLifecycle` | the generations of one session: rows, hosts, supervisors, daemon start | one operation from one wait to the next |
| `WorkerRotation` (extends `RuntimeLifecycle`) | rotation of a worker over the same runtimes | one call from one wait to the next |
| `MessageJournal` | messages, threads, delivery records and pages as operators over a journal | pure |
| `ProviderLog` | the two readers of the logs of five adapters: which records count for a question, which one decides | pure |
| `Conversation` (extends both) | questions, deliveries, the provider, the reply bridge, the turn reader | one event-loop turn of the daemon, one record of the provider |
| `ProfileStore` | profile revisions, controlled homes, bindings, lock files | one file operation |
| `ProviderThreads` (extends `ProfileStore`) | which conversation belongs to which runtime | one poll |
| `SessionLaunch` (extends `ProviderThreads`) | launches by daemon and command line | daemon: up to the next `await`; command line: one file operation or request |
| `RelayLink` | abstract: a lossy FIFO link | one frame |
| `RelayConnection` | both ends of the relay, redial loop, admission | one event-loop turn |
| `FederatedChannel` | home, routes, subscription manager, injection | one event-loop turn or one file write |
| `PeerEnrollment` | identity, trust records, enrollment ledgers, `connect` | one file operation of one process |
| `RoomsAuthorityProofs`, `RuntimeHostProofs`, `HostDeliveryProofs`, `ChannelLifecycleProofs`, `WorkerRotationProofs`, `SessionLaunchProofs` | theorems about the module they are named for (`WorkerRotationProofs` also about `RuntimeLifecycle`, `SessionLaunchProofs` also about `ProfileStore` and `ProviderThreads`) | |
| `FederationProofs` | theorems about `RelayConnection` and `PeerEnrollment` | |
| `StreamProofs` | theorems about `FederatedChannel`, `Subscription`, `Watch` and `Conversation` | |
| `MC*` | the instances TLC checks (symmetry sets and constraints) | |

`PROJECT.json` maps every definition to the lines it stands for. Definitions
whose names start with `Mutant` are wrong variants of the definition that
follows them, used to show that a property notices the mistake; no specification
refers to them. `TypeOK` documents the state of a module; where the module has a
`Proofs` module it is proved. Modules that are proved about together are extended
together, so their `Init`, `Next`, `Spec` and `TypeOK` carry the component's name
(`WatchSpec`, `ChannelSpec`, `SubscriptionSpec`, `EnrollmentSpec`,
`ConversationSpec`).

**RoomsAuthority.** `sessions`, `channels`, `memberships` are the tables;
`memberships` is a set of rows that only ever gains rows or has their
`left`/`ended` columns set. `joinedAt` keeps the order of one session's joins of
one channel. `RegisterSession`, `RegisterChannel`, `Join`, `Leave`,
`EndSession`, `ReactivateOperatorSession`, `CloseChannel`, `ReopenChannel` and
`UpdateSessionRole` carry the checks of `RoomsApplication` and the SQL of the
repository. `RegisterSessionInChannel` and `RegisterChannelSession` are the two
registrations that the store performs itself, without the role counts of join:
`CommandSpec` leaves them out, `Spec` has everything.

**RuntimeHost.** Terminal bytes are positions; an output frame is an interval.
`PtyRead` appends to the ring and to every queue at once and drops the clients
at their limit (`EnqueueAll`). A connection goes through `Accept`, `CheckHello`
(first lock), `ClaimId` (second), `Register` or `RefuseRegister` (third), then
writes its acknowledgement, replay and exit while its writer goroutine already
runs. `wire` is what the peer receives. `CheckInput`/`WriteInput` are the test
of the controller and the write that follows it after the lock is released.

**HostDelivery.** A *call* is one invocation of `deliverToRuntime`, a retry is
another call with the same message. `pending` is the client's map of requests
in insertion order; `Receive` resolves the oldest one. `Timeout` removes a
request and leaves the connection open. The host's handler claims the message
in `delivered` (`HostRead`), writes frame by frame without a lock
(`HostWrite`), and answers `written`, `duplicate` or an error.

**Watch.** `Open`, `YieldSnapshot`, `YieldReplayed`, `GoLive`, `Wake`, `Fail`,
`YieldBuffered`, `Wait` and `Return` are the segments of the generator.
`AppendChange` publishes inside its transaction; `RollBack` is a transaction that
publishes and then aborts, whose cursor is used again.

**Subscription.** The source is an interface only the tests implement; it may
repeat up to `Overlap` changes it announced before. A stream starts after a
cursor or with a snapshot, has at most one waiter, and is closed when its buffer
overflows.

**ChannelLifecycle.** A coordinator is one request, with its own owner id. A
lease is valid, expired or not set and may expire at any time; heartbeats renew
only a valid one, so an expired lease is lost. `ClaimSuspend` … `MarkSuspended`
is `suspend`; `ClaimResume`, the stop of abandoned launches, the reconciliation
of unrecorded runtimes, the launches with the two provider phases,
`Lost`/`Reattach`/`Install` and `FinishResume` are `resume`; `BeginUndo`,
`EndUndo`, `Release` its `catch` block. `Crash` forgets all coordinators and the
in-memory list of reattached sessions, and leaves hosts and tables. A runtime
row that is written `running` after it was terminated keeps `ended_at` and every
reader tests that column, so the model keeps it ended. `ended` holds the
sessions that ended by themselves and `Continuing` the others: the properties
speak of the latter, because a session that ends while its launch is under way
may come back (section 4). Left out: queued
canonical deliveries (nothing queues one in the daemon) and the drain of
provider processes of older releases.

**RuntimeLifecycle.** `row` is the `runtimes` table of one session, `host` and
`sock` the processes and their sockets, which outlive the daemon, `sup` and
`clients` what the daemon keeps in memory. `pend` has one pending operation of
each kind (create, attach, deliver, recover, terminate): `Request` starts it,
`Connect` is the answer or its absence, the `Finish*` actions write the row that
was read before. `PlanResume` is the command line, which computes the next
generation from an old read; `CreateNamed` a request that names any new
generation itself, and `astray` remembers those named out of turn. `HostListens`
and `HostEnds` are the host; `Crash`, `Reconcile`, `Restore` the next start of the
daemon. A delivery asks nothing of the row it is sent to (`Start`).

**WorkerRotation.** `audits` are the rotation rows, `commits` the running calls
of `commit`, each with the replacement it launched. `StartCommit`,
`LaunchReplacement`, `Swap`, `RuntimeStep` (termination of the old runtime, as
an operation of `RuntimeLifecycle`), `RollBack` and `RetryCleanup` are its
segments; `Prepare`, `Acknowledge`, `Cancel` and `WorkerLeaves` happen in
between. A worker does not join again after its rotation.

**MessageJournal, ProviderLog, Conversation.** A journal is a sequence of
changes and a message is named by its cursor. The log of a provider is a
sequence of records of eight kinds, each with the message of its turn in place
of its text, or of a tool's result the message it quotes. A message is found in
the log by its text, and a record belongs to it if its text contains that of the
message: `contains` says which texts contain which, `Containing` the messages
whose records count (`IsInput`). `ObserveX` says what one record means to the
search for a final answer, `ScanFile` what the loop over the unread records
comes to: the records after the prompt count (`Watched`) and the last one that
says or clears something decides. `XTurn` is the phase of the turn, which for
every adapter is decided by the last record of some kinds (`LastOf`).
`SendCommit`, `HostTypes`, `SendRecord` are a direct send; `TakeInput`, `Work`,
`Quote`, `EndTurn` the provider, which writes what `Opening` and `Closing` list
for its adapter; `start` of a job, which no action reads, keeps the offsets it
began with; `Tick`, `Process`, `PublishEnd` the bridge, whose publication to the
lead waits for a delivery. `Around` is everything else: thread states, controls,
departures, ends. Two readers show what became of a message: the listing takes
its first delivery record and `FoldMessageEvents` the last one, so they agree
only where there is one.

**ProfileStore, ProviderThreads, SessionLaunch.** A skill folder is two files
with numbered contents; a revision is staged, copied file by file, described and
renamed. `Listable` is `readChannelProfileRevision` over everything stored. A
transcript is a sequence of parts, each with the sessions it names. The contents
`Oversized` are those above the size that reads accept (`WithinLimit`).
`ResolveRoomsIdentity` is the lookup from a conversation to the session that
holds it, `ProviderIdentityState` the answer from a session to its conversation:
`ThreadsAreOwn` relates the two. A session whose search for a conversation died
with the daemon keeps reporting it as pending, as in the code. A launch
walks through `MakeHome`, `FillHome`, `LinkAuth`, `LockBinding`,
`PersistBinding`, `Register`, `CreateRuntime`, `HostStarted`, `ProviderReady`,
`AttemptPrompt` and the outcomes of the prompt, or through `UndoRuntime` and
`UndoSession`. The daemon does everything before its first wait at once (`Turn`);
the command line does not. `EndManagedSession`, `TerminateListed`, `EndListed`
are the segments of the end of a session; `CrashDaemon` and `CrashCli` leave
files, locks and rows.

**RelayLink, RelayConnection.** `ends` holds the two connection objects of every
dial. `sent` and `handled` of an end are the frames it numbered and the frames
whose handler it ran. `Receive` is the arrival of one frame: handshake,
sequence check and dispatch as a whole, with expiry, malformed content and
back-pressure as inputs. `Enqueue`/`OnDrain` are the bounded queue;
`Drain`, `DrainGraceElapsed`, the two time-outs, `TransportClose`, `Revoke` and
`Stop` end a connection; `LoopAfter` and `AdmissionAfter` carry what the end of
a connection means to the redial loop and to the admission counters.

**FederatedChannel.** `journal` is the home's, `route` the files of this
machine. A message carries the time of the home's clock, a route file the time of
this machine's, and nothing relates the two but that this machine's does not go
back. `Register` and `Leave` are what the home does with the command of a session,
`WriteRoute` and `RemoveRoute` what the command does with the reply, later or
never. `Poll`, `Answer`, `Accept`, `Deliver`, `Advance` are one round of the
subscription manager; a handler is a member of `tasks` and outlives the
connection. The subscription manager is woken by `Discover` and `BackoffOver`.
`injected` keeps the first injection of each message, since the host drops
repetitions (`HostDelivery`).

**PeerEnrollment.** Every command is a process: `Begin` checks its artifact,
`ReadRecord` and `WriteRecord` are the unlocked trust file, the four `*End`
actions write the ledger and print. Artifacts stay in `sent` and may be used any
number of times. `ConnectStart`/`ConnectStep` is `federation peer connect`
running the commands on both sides. `SetupLook`, `SetupMkdir`, `SetupRename` are
the creation of the identity. Keys and signatures are abstract: an artifact that
verifies is one its signer printed.

**Refinement.** `RelayConnection!ImplementsLink` instantiates `RelayLink` with
the frames each end numbered and the frames its peer handled, and is checked as
a property of `relay_link`: every step of the detailed specification is a send,
a delivery of the next frame, or a stutter of the link in each direction.

**Composition.** `WorkerRotation` runs over the runtimes of `RuntimeLifecycle`;
`SessionLaunch` over profile files and thread discovery; `Conversation` over the
journal and the logs. Between the larger parts the interfaces are assumptions
that another module checks: `FederatedChannel` and `Conversation` let the host
drop a repeated message (`HostDelivery!FramesOnceInOrder`); `FederatedChannel`
uses a connection that may break (`RelayConnection!ImplementsLink`).

## 3. Runs

All runs are expected to pass.

| Run | States | Checks |
|---|---|---|
| `authority` | 988,868 | `ActiveRowsAreLive`, `OneLeaderPerChannel`, `RolesAgree`, `HistoryKept` under the checked commands, three sessions and two channels: a role change in one channel reaches the other |
| `host_attach` | 234,944 | one connection, and a second that may meet it before the child prints or take over its slot while it is cut off, against PTY, writer, renewal, lag and exit: `NoLossNoDuplicate`, `OneController`, and `EverythingArrives` under fairness |
| `delivery_once` | 275,196 | two messages, three calls, two connections: `FramesOnceInOrder`, `WrittenIsComplete`, `AnswersAligned` |
| `watch_stream` | 306,189 | `CursorOrder`, `NoGapWhileLive`, and `BufferDrains` under fairness |
| `subscription_stream` | 75,080 | `NothingSkipped`, `NobodyForgotten` |
| `lifecycle_leases` | 827,984 | three requests, two members, three generations, one crash: `OneHost`, `SuspendedIsQuiet`, `StaleStopIsHarmless`, `ResumeIsComplete` |
| `runtime_lifecycle` | 812,918 | three generations, one restart, two requested operations (or one with the restart), one rotation with two commits: `OneCurrentGeneration`, `OlderHostsAreGivenUp`, `PlaceIsHeldOnce` |
| `conversation` | 563,038 | ten conversations over the five adapters, three with texts that contain each other: `KeysAreUnique`, `AnswerFollowsQuestion`, `NeverStranded`, `EndedReadsIdle`, `PagesAreExact` |
| `session_launch` | 85,097 | two revisions, an edit, a crash, two daemon launches and one of the command line, two sessions: `StoredVerifies`, `RunsAsPinned`, `ThreadsAreOwn`, and `LaunchEnds` under fairness |
| `relay_link` | 627,742 | two dials, a queue of one, one place per peer: `AdmissionExact`, `GivesUpOnce`, `ImplementsLink` |
| `federated_channel` | 2,204,432 | one route, two changes, two readings of each clock, pages of two, one fault: `NothingOwedIsSkipped`, `InOrder` |
| `peer_enrollment` | 347,880 | one enrollment, two policies, two processes at a time: `LedgersAgree`, `ActiveIsProven`, `ConnectIsTruthful`, `IdentityKept` |

Deadlock is not checked: every module has states in which the system rests
(nobody sends another command, the child has exited, every request has ended)
or in which a bound is reached.

**Bounds.** A channel with three sessions is enough for a handoff in which the
old and the new planner and the actor differ; two channels for one that reaches
across; three rows of history for leave-and-rejoin next to another member. A
ring of two bytes and an output of three make the ring wrap, put cursors at the
floor, below it, at the head and past it; a queue of two frames reaches its
limit. Three calls over two connections let a message be retried on the
connection of its first attempt and on another, with a second message in
between; two frames make a message interruptible. Four journal entries with a
backlog bound of two let the backlog be crossed both while the generator waits
and while it is suspended at a `yield`. Three coordinators are a suspend and two
resumes, or two suspends and a resume: an owner, its successor, and the request
whose result the stale owner could damage; longer chains of take-overs are
covered by the theorems, which hold for any number of them. Three generations
let an old host meet its successor beside one that a caller named out of turn;
two operations besides create let one be overtaken between its read and its
write. Two dials let an old session of the answering machine hold the only place
when the next one arrives; a queue of one frame overflows on the second. Two
changes, of which a page may hold one or both, split a backlog over pages; two
readings of a clock let the home's be behind, equal or ahead; one fault is put
at every step, and a session runs one command at a time. Two questions may have
texts of which one contains the other, or equal ones; these are sent without a
disturbance, and a disturbance of two questions is followed for texts that
differ. Two processes over one enrollment interleave their unlocked reads and
writes.

**Constraints of the MC modules.** They cut off combinations, never single
cases, and each is a conjunction the module explains. `MeetEarly`: the second
connection of the host comes before there is output (the disputes over slot and
ids need no output), or asks for the controller slot of the first one after that
was cut off, and is followed until it is admitted. `OneSided`: at most one
machine loses its trust in the other. `Together`: a rotation meets one requested
operation or crash, or a second commit; without a rotation two requested
operations, or one and a death of the daemon, come together, attachments and
recoveries among them. `OneClock`: with a fault, all messages carry the same reading of the home's clock,
which may be behind, equal or ahead.
`Apart`, `FewDisturbances`, `Regimes`: revisions are
written before launches start, one disturbance (edit, crash, failed revision,
end) at a time, and either one session with everything or two sessions with
thread discovery. TLC does not follow a behaviour past a constraint, so the two
liveness properties that are checked under one (`EverythingArrives`,
`LaunchEnds`) are shown for the behaviours that stay within it.

**Symmetry** is used for interchangeable sessions, channels, calls, connections,
coordinators and process slots, never in a run with a liveness property.

**Fairness.** `RuntimeHost!FairSpec` assumes weak fairness of each handler and
each writer goroutine: the Go scheduler runs runnable goroutines, and a write to
a peer that reads returns. The child, the peers and the daemon are not assumed
to do anything. `Watch!FairWatchSpec` assumes that a consumer asks for the next item
after it was handed one, which is what the `for await` loops of the transports
do; nothing is assumed of the requests that commit changes. `SessionLaunch!Spec`
assumes that the steps of a launch and of a revision are taken when they are
possible and that the deadline of the prompt, a timer, fires; nothing is assumed
of the provider.

## 4. What the code does that a reader may not expect

No run is expected to fail: the properties are what the code guarantees, and
where it guarantees less than a document or comment suggests, the model has the
code's behaviour and the property says under which condition it holds. The
places met while modelling (paths under `src/roomsd/src` unless given):

*Authority and messages.* `registerSession` joins without counting planners and
reviewers (`storage/repository.ts:657`, against `PROTOCOL.md:89`); so
`OneLeaderPerChannel` is a property of `CommandSpec`. `sessionMessages` and
`channelMessages` with `hasMore` move the cursor past the older messages of the
page (`PagesAreExact` states what a page is). The recovery of an operator
revives every row of an active channel that was ended and not left
(`storage/repository.ts:720`): after join, close, reopen, join and leave it
makes the operator a member again. `HistoryKept` leaves ended rows of operators
out. The listing takes the first delivery record of a message,
`foldMessageEvents` the last.

*Host and delivery.* The controller test of INPUT and the write to the terminal
are separate, so input of a client that just lost the slot may follow it
(`main.go:719`, `PROTOCOL.md:353`). After a timeout a late answer is given to
the next request (`runtime/host/client.ts:103`, `PROTOCOL.md:273`);
`AnswersAligned` shows that without a timeout matching by order is right.

*Watch.* Changes committed while the replay is handed out are in neither the
replay nor the live stream (`runtime/native/composition.ts:952`,
`PROTOCOL.md:114`); `NoGapWhileLive` starts with the listener.

*Runtimes.* `recover` marks a row running that ended meanwhile
(`runtime/service.ts:647`); a failed delivery overwrites `terminated` by
`crashed`, after which restore relaunches the session (`service.ts:720`,
`native/restore.ts:33`); a host that is slow after a restart gets its socket
unlinked (`service.ts:382`). `ended_at` is kept in all of these, which is why
`OneCurrentGeneration` holds. A caller may name any new generation, also beside a
live one (`runtime/service.ts:429`, `native/composition.ts:972`, `--generation` of
`cli/main.ts:473`): the store then has two current generations and two hosts run,
although a runtime "has a fenced generation" (`PROTOCOL.md:347`) and recovery or
replacement "must use authorized current identity and generation"
(`PROTOCOL.md:356`). The two properties except exactly the generations such a call
reaches over (`Forced`). A message, an attachment or a termination that names an
older runtime is sent to its host: `deliverMessage` looks neither at the state nor
at `ended_at` (`runtime/service.ts:658`). So "given up" means that the store offers
the runtime to nobody, not that nothing reaches it.

*Suspend and resume.* A session whose terminal ends while a resume is launching
it may come back. Request 1 waits for the launch of the member and the machine
sleeps, so its lease expires; the member's session ends; a suspend, even a
refused one, drops it from the blueprint (`retainMembers`,
`runtime/native/local-channel-lifecycle.ts:34`), and another resume takes over
without it and rolls back. When the launch of request 1 returns,
`ensureBlueprint` (`runtime/native/local-channel-lifecycle.ts:104`) puts the
ended member back into the blueprint beside a host that runs, and a later resume
launches it once more in the next generation. Four requests break
`SuspendedIsQuiet` for such a member and five break `OneHost`, which the three
of `lifecycle_leases` cannot reach; this came out of the attempt to prove both
for every member, and is why they are stated, checked and proved for
`Continuing`.

*Rotation.* A cancel during a commit is overwritten by the commit; of two
concurrent commits the one that fails writes `rolled_back` over the other's
state, after which its cleanup is not retried; a crash during a commit leaves
the replacement running (`rotation/service.ts:55`).

*Launch.* A second launch of a session id that is running fails and ends the
first one's session (`composition.ts:691`). Lock files of profiles left by a
crash are not reclaimed. Two command lines may give two revisions one version
(`cli/main.ts:700`), since only the daemon takes the channel lock. A skill is
copied file by file and only its list of files is compared, so a snapshot may
mix two versions. A stored file is read with a limit of 16 MiB
(`profiles/profile-revision-store.ts:40`, at `:145`, `:322`, `:341`), while a
skill is copied without one (`:250`, `:374`): a revision with a larger file is
renamed into the store, never verifies, and blocks every later listing and
creation in all channels. `StoredVerifies` is about the revisions within the
limit. The same holds of `profile.json` and of instruction texts that are
larger, which the model does not have. A home that the daemon and a command line
fill at once is excepted from `RunsAsPinned`. Discovery of a provider thread is
not resumed after a crash (`service.ts:477`).

*Replies.* The bridge looks for "this exact input"
(`runtime/provider-final-reply.ts:77`) but takes the first prompt, or tool
result of claude, whose text contains that of the question (`:168`). If an
earlier or later message contains the text, or has the same one, or a tool
quotes it, the answer of that turn is published for the question.
`AnswerFollowsQuestion` therefore speaks of the turn that first showed the text;
where no other message contains it and nothing quotes it, that is the turn of
the question. Two turns within one scan give the first question the second
answer, hence its inequality (`:43`). Prompts typed by hand into the terminal
are not modelled, and would match in the same way; a message of blanks matches
nothing and its job fails. A session reads as working although its provider
waits for the next prompt ("idle", `runtime/provider-turn.ts:11`) in two cases,
which `EndedReadsIdle` excepts by name: when the turn was over before the
delivery was recorded, or the record was repeated later
(`runtime/service.ts:731`), so that all its records are older (`NothingSince`);
and when a turn of claude ended with `is_error`, which only the reply scan reads
(`provider-turn.ts:238`, `FailedUnread`). Both last until the next turn ends.
The comparison of record time stamps with the time of the delivery is taken as
one of places in the file, since both are of one machine; a tick that throws
sets no new timer, the exception in `NeverStranded`
(`runtime/provider-reply-bridge.ts:112`).

*Federation.* A frame for which `write` returns false is both written and queued
(`federation/relay-connection.ts:403`, against the comment at `:90`); the peer's
sequence check closes the connection, so `ImplementsLink` holds. Trust files are
read and written without a lock (`federation/peer-trust.ts:24`), so a revocation
may be undone by a command that read before it; `ActiveIsProven` says what is
left. A retried remote send is committed twice. The subscription drains the cursor
"without injecting messages from before the route existed"
(`federation/channel-subscription-manager.ts:115`) by comparing the time that the
home gave a message with the `createdAt` that this machine gave the route (`:118`).
The route is written after the home registered the session
(`cli/federation.ts:174`, `channel-home-handler.ts:80`), so a message posted between
the two steps is skipped, and so is every message that the home stamps earlier
because its clock is behind, for as long as it is. `NothingOwedIsSkipped` says that
nothing else is skipped. A register that is repeated because its answer was lost
starts the route after the messages of the meantime.

## 5. Proofs

The theorems hold for every value of the constants that satisfies the named
`ASSUME`s: numbers are numbers, bounds that must let something happen are
positive, and values that mean "none" are not members of the sets they stand
beside. They are about the unconstrained specifications: the constraints of the
`MC` modules and the symmetry sets play no part. Each module follows one
pattern: an inductive invariant `IInv` of named parts, a lemma per action that
keeps it, `Invariant == Spec => []IInv`, and the properties as consequences. The
inductive invariants were checked by TLC on the runs' instances before they were
proved.

**RoomsAuthorityProofs**, for every set of sessions and channels, every set of
roles in use and every bound on the history (assumptions: `NoSession` is no
session, the bound is positive).

* `TypeCorrect`: `Spec => []TypeOK`. The invariant is `TypeInv`, which adds that
  the history is finite: a new row is numbered by the cardinality of the earlier
  ones, and only for finite sets is that a number within the bound.
* `MembershipsConsistent`: `Spec => []ActiveRowsAreLive`, inductive with
  `TypeInv`. The cases that need thought are the recovery of an operator, which
  revives rows of active channels only, and the closing of a channel, which ends
  its rows before it is closed.
* `CommandsKeepOneLeader`: `CommandSpec => [](OneLeaderPerChannel /\ RolesAgree)`.
  The two are inductive only together and with the former: the counts of join
  look at membership rows, role changes write sessions and rows, so a drift
  between the copies would let a second leader in. `JoinLeader` and
  `RoleChangeLeader` carry the argument. That the theorem is about
  `CommandSpec` is not a convenience: it does not hold of `Spec` (section 4).
  `RolesNeverDrift` is its second half by itself.
* `HistoryNeverLost`: `Spec => HistoryKept`, an action property. `Keeps` says
  what a step may make of one row; every command replaces rows only so.

**RuntimeHostProofs**, for any number of connections, ring, queue and chunk
sizes and any amount of output.

* `TypeCorrect`: `Spec => []TypeOK`, strengthened by "a replay never runs past
  its end", without which a replay frame could carry positions that were never
  printed.
* `SlotsAreExclusive`: `Spec => [](OneController /\ SingleUseIds)`. The
  invariant `SlotInv` adds that registered clients are past the handshake, that
  a connection which claimed an id and is not yet registered already owns it,
  and that owners of one id are equal. This bridges the three separate critical
  sections of the handshake, which is where the tests are stale. `NobodyAdmitted`
  covers every step that only lets clients go (lag drop, writer error, cleanup).
* `StreamIsExact`: `Spec => []NoLossNoDuplicate`. `StreamInv` counts: of every
  position from the start of a client's replay to the head of the ring there is
  exactly one copy on the wire, in the writer, in the queue, or still owed by
  the replay, and of every other position none. It needs in addition that a
  client has no frames before it is registered and that the writer holds frames
  only while it writes them. The step to think of is `Register`, which fixes the
  end of the replay and enters the list of clients in one critical section.

**HostDeliveryProofs**, for any messages, calls, connections and number of
frames: `OnceInOrder`, `Complete`, `AnswersMatch`. `WritesOK` says that a message
is written by one handler at most, which is exactly as far as the terminal shows;
`LinesOK` that whoever is pending was requested on an opened connection;
`AlignedOK` splits the list of pending requests into the answers under way, the
message being written, and the requests under way, place by place, because
"answers match in the order of arrival" says nothing about the middle of the
line and is not inductive.

**FederationProofs**, first about `RelayConnection`, for any number of dials and
any limits: `AdmissionIsExact`, `GivesUpExactlyOnce`, and `Refinement`:
`Spec => ImplementsLink`. `LogsOK` says that a frame on a stream or in a queue is
the one that was counted under its number and that what an end handled is a
beginning of what its peer counted; `FreshOK` that nothing exists before it is
dialed. The duplicated frame of section 4 is covered by the first part: a repeated
number is refused by the sequence check, whatever frame carries it.

Then about `PeerEnrollment`, for any processes, enrollments and policies:
`LedgersTellOneStory`, `ActiveRestsOnProof`, `ConnectTellsTheTruth` and the action
property `IdentityIsKept`. Processes act on what they read earlier, so the
invariant follows the evidence: `SentOK` says what every printed artifact proves
of the ledgers for ever, `ProcOK` what a process in the middle of its work was
given and has read, `ConnectOK` which process `connect` waits for. Nothing rests on a
lock, since there is none.

**WorkerRotationProofs**, for any number of generations, restarts, rotations and
commits: `StoreOffersOne` and `OlderAreGivenUp`, for `RuntimeLifecycle!Spec` and
for `RotationSpec`, and `PlaceHeldOnce`. The first two are proved of whatever
generations callers name. `EndedOK` says that a final row has ended for good
(`ended_at` is never cleared), `GivenUpOK` that of two generations the older has
ended or a caller brought them together (`Forced`), `AstrayOK` that what was named
out of turn exists, `PlanOK` that a planned generation comes after rows that have
ended, or was passed over by a caller.
That is why the stale writes of `recover` and of a failed delivery (section 4) do
no harm here. `AuditsOK` and `CommitsOK` say that a commit which cleans up has
already taken the place.

**ChannelLifecycleProofs**, for any number of requests, members, generations and
crashes: `NeverTwoHosts`, `QuietWhenSuspended`, `StaleStopsHarmless`, the action
property `ActiveOnlyComplete`, and `TypeCorrect`. `HostsOK` says which host may
live in which state of the channel; `SuspendOK`, `ResumeOK` and `LaunchedOK` what
the coordinator that holds a lease knows at each of its waits; `TargetsOK` that a
coordinator which lost its lease waits only for hosts that ended, and that an
ended generation of a session is never launched again. The proof attempt is what
brought up the members that come back (section 4).

**SessionLaunchProofs**, for any number of launches, sessions, revisions, edits,
adapters in use and crashes: `StoredAlwaysVerifies`, `PinnedRuns`,
`ThreadsNotSwapped`, `TypeCorrect`.

* `StoreOK`: revision ids are taken in order, a process writes into a staging
  directory of its own, and what it has copied is what its list says. From it
  follows that no rename publishes something that does not verify; a version
  may be given twice, but is never ahead of its id.
* `HomesOK`: the home of an uncontested session is made once and used by one
  launch (`Uses`), file by file. `CreatorsOK` ties a runtime to the launch that
  created it, which is past the point where a home can still change.
* `ThreadsOK`: while a host is being started its session has no transcript
  (`StartOK`), so a thread named by the launch cannot be held by anybody else; a
  claimed conversation has shown the session's id. This part needs that
  `NoThread` is no session, since a claim is recognised by the column being
  empty.

**StreamProofs**, about the three streams over a journal. What they hand out is
in cursor order, and the order itself is proved first: `Ascending` chooses a
listing of a set of numbers, `OrderExists` shows that there is one, by the least
bound for which there would be none (the library's minimum of a well-founded
order; the induction theorems are out of reach), and `AscendingIs` that it lists
every member once.

* `FederatedChannel`, for any number of routes, changes, faults and messages in a
  page, and whatever the two clocks show: `ChannelNothingSkipped`,
  `ChannelInOrder`, `ChannelTypeCorrect`. `RouteOK`
  relates the file of a route to the injections: whatever is owed up to its
  cursor, and not stamped before the route, was given, and what was given before
  a message includes everything owed before it. `AskOK` says that no request asks past the larger of the route's
  cursor and its birth, `ReplyOK` that a page is all messages between two cursors,
  `TaskOK` that the rest of a handler's page is what it still owes. So a second
  handler with the same page gives again, but never ahead.
* `Subscription`, for any number of streams and changes, any buffer and batch
  limits, and any number of repeated announcements: `StreamSkipsNothing`,
  `NobodyIsForgotten`, `SubscriptionTypeCorrect`. `Goes` is the invariant: an open
  stream began at a cursor of the source, carries all wanted changes since and no
  other, and its deltas end between that cursor and the head. The last part is
  why a repetition does no harm: the mark that an incoming change must exceed is
  never ahead of the source, so what is new is always wanted. `CompleteGrows` is
  the lemma of the argument: a batch that has all new changes, and maybe old ones,
  keeps the whole complete.
* `Watch`, for any number of watchers, channels, changes and rolled back
  transactions and any bound: `WatchInCursorOrder`, `WatchHasNoGap`,
  `WatchTypeCorrect`. `WatcherOK` says what is where at each place of the
  generator: no buffer without a listener, no replay with one, nothing committed
  handed over before the replay. `Forward` bounds the cursors of committed changes
  by the head of the journal, so the next commit is larger than all of them; a
  rolled back change is exempt, since its cursor is given out again.
  `PublishKeeps` is the commit, for all watchers at once.
* `Conversation`, for any number of questions, retries, disturbances, crashes and
  turns, any page limit, and all five adapters: `KeysNeverRepeat`,
  `JobsNotStranded`, `PagesMissNothing`, `AnswersFollow`, `OverReadsIdle`.

  The first two rest on `ConversationInv`. `NewChangeKeeps` is the lemma of the
  keys: `commitMessage` and `commitControl` append only what they did not find.
  For the jobs it is that only the tick that holds a batch waits for a delivery
  (`reply # 0 => batch # <<>>`), so that a batch which empties looks at the jobs
  once more (`ProceedKeeps`); what is enqueued meanwhile sets the timer itself.
  `PagesMissNothing` needs no invariant but that the journal is a sequence: what
  the queries compute, for any set of cursors and any limit (`NewestAre` and the
  lemmas after it).

  `AnswersFollow` relates three copies of one fact: the log, what a scan
  remembers of it, and what the journal says because of the scan, for all
  containments among the texts. `ProviderInv`
  is about the log: every prompt is taken once (`PromptsOK`), and a record with
  an answer stands in the turn of its message, so that the last prompt before it
  is its own (`TurnsIn`). `ScanOK` says of every request, job and saved scan that
  the input it saw is in the part it read, behind the offsets it began with, and
  that the turn of its candidate was not over there (`Follows`); `HitsGrow` and
  `LogGrows` carry it over every message sent and everything the provider writes
  later, which is why a scan saved before a crash, or offsets taken long before the
  commit, do no harm. The step to think of is a scan that reads past the prompt into the
  turns after it: the record that decides may belong to a later turn, never
  to one that was over. `AnswerInv` adds that every published answer was read so by
  the job of its question. For `grok` prompts and answers are in the history and completions in
  the lifecycle; the invariant says that the lifecycle has neither prompt nor text,
  so reading one file behind the other gives nothing a wrong owner.

  `OverReadsIdle` needs that a turn which is over was closed by a record that
  the reader of this adapter takes for an end (`ClosedBy`, `Closers`; a failure of
  claude is the exception), and that nothing is written between two turns, so that
  a place of the last delivery before the end of the file (`SinceOK`) is before
  that record; a runtime that ended is exempt, since it
  may have died in the middle of a turn.

**Only model-checked.** Liveness (`EverythingArrives`, `BufferDrains`,
`LaunchEnds`), since fairness and ENABLED are outside the prover. Every
invariant and every other action property that a run checks is the statement of
a theorem. The operators that flatten and sort (`FlattenSeq`, `SortSeq`) and the
folds are recursive and mean nothing to the prover, so the modules say the same
with `Ascending`, `Max`, `Min` and quantifiers. What a mapped operator computes,
as opposed to what the actions preserve, is proved for the pages of messages and
controls (`PagesMissNothing`) and otherwise shown by the instances only.

## 6. Not modelled

Byte-level framing and codecs (frames are atomic messages of the modules that
use them); cryptography beyond who signed what; credential files and file
permissions; MCP server, transports and the commands of the CLI that only make a
request, which hold no state between requests; provisioning, telemetry and
schema migration. RESIZE, SIGNAL and TERMINATE change no state of the host
modules. Terminal sharing forwards frames between a connection and an
attachment, which are modelled, under a token that is not. Within the modelled
parts: labels, renames and drafts of the authority; control pages of several
channels in one request; sends to several recipients (the bridge concerns direct
ones); the archive of a channel, a loop of terminations followed by
`CloseChannel`; the lock file of the relay dialer; the machine inventory;
`resolved-state-gate.ts`, which no launch uses. `RuntimeLifecycle` has one
session and one pending operation of each kind, and no content of attachments;
`WorkerRotation` one worker, who does not return after being replaced.

## 7. Plan

1. Proofs: the type of `RuntimeLifecycle` by itself; the refinement of a common
   abstract stream by `Subscription` and `Watch`.
2. Archive of a channel over `RoomsAuthority` and `RuntimeLifecycle`; the relay
   connection lock; terminal capabilities.
3. Two routes in `FederatedChannel` and two enrollments in `PeerEnrollment`,
   which need larger instances than the present ones.
