---------------------------- MODULE SessionLaunch ----------------------------
(***************************************************************************)
(* The launch of a managed session, by the daemon (launchSession) and by   *)
(* the command line (`rooms session launch`): the controlled home of a     *)
(* profile, its binding, the registration, the runtime and its thread, the *)
(* wait for the provider, the first prompt with its retries and deadline,  *)
(* and the undoing of a launch that failed.  The daemon does everything    *)
(* before its first await in one turn; the command line is another         *)
(* process.                                                                *)
(***************************************************************************)
EXTENDS ProviderThreads

CONSTANTS DaemonLaunch, CliLaunch,  \* the launches of either process
          NoLaunch,
          MaxCrashes                \* processes that die, a bound of the model

ASSUME LaunchAssumption ==
  /\ DaemonLaunch \cap CliLaunch = {} /\ NoLaunch \notin DaemonLaunch \cup CliLaunch
  /\ MaxCrashes \in Nat

VARIABLES launch,    \* the launches
          sessions,  \* the session rows
          ending,    \* endManagedSession, per session
          contested, \* sessions whose home two processes were filling at once
          crashes

launchVars == <<launch, sessions, ending, contested, crashes>>
vars == <<source, edits, revs, task, channelLock, homes, bindings, bindingLocks,
          runtime, transcripts, discovery, launch, sessions, ending, contested, crashes>>

Launch == DaemonLaunch \cup CliLaunch
Over == {"done", "failed", "lost"}

\* What the daemon does without giving way, and the filling of a home.
Filling == {"make", "fill", "link"}
Turn == Filling \cup {"bind", "binding", "register", "create"}

Idle == [at |-> "none", session |-> CHOOSE s \in Session : TRUE, rev |-> 0,
         adapter |-> "codex", dir |-> CHOOSE d \in Dirs : TRUE, left |-> {}, late |-> FALSE]

At(l, places) == launch[l].at \in places
InDaemon(l) == l \in DaemonLaunch
To(l, place) == launch' = [launch EXCEPT ![l].at = place]

\* No other request of the daemon is in the middle of its turn.
DaemonFree(l) ==
  /\ task["daemon"].at = "idle"
  /\ \A k \in DaemonLaunch \ {l} : ~At(k, Turn)

Init ==
  /\ StoreInit
  /\ launch = [l \in Launch |-> Idle]
  /\ sessions = [s \in Session |-> "none"]
  /\ runtime = [s \in Session |-> [st |-> "none", by |-> NoLaunch, adapter |-> "codex",
                                   dir |-> Idle.dir, controlled |-> FALSE, thread |-> NoThread]]
  /\ transcripts = <<>>
  /\ discovery = [s \in Session |-> NoDiscovery]
  /\ ending = [s \in Session |-> "no"]
  /\ contested = {}
  /\ crashes = 0

-----------------------------------------------------------------------------
(* Profile, home and binding.                                              *)

\* A launch without a profile goes on to the registration.  With one, which is
\* for codex only, the revision must verify and the home must not be there.
Prepare(l, s, r, adapter, dir) ==
  /\ At(l, {"none"})
  /\ r # 0 => r \in Stored /\ adapter = "codex"
  /\ launch' = [launch EXCEPT ![l] =
       [Idle EXCEPT !.at = IF r = 0 THEN "register"
                           ELSE IF ReadChannelProfileRevision(r) /\ HomeFree(s) THEN "make"
                           ELSE "failed",
                    !.session = s, !.rev = r, !.adapter = adapter, !.dir = dir]]
  /\ UNCHANGED <<storeVars, sessions, threadVars, ending, contested, crashes>>

LaunchSession(l, s, r, adapter, dir) ==
  InDaemon(l) /\ DaemonFree(l) /\ Prepare(l, s, r, adapter, dir)

\* `rooms session launch`, which makes the home itself.
LaunchFromCLI(l, s, r, adapter, dir) == ~InDaemon(l) /\ Prepare(l, s, r, adapter, dir)

\* mkdirSync with recursive, which does not mind an existing directory.
MakeHome(l) ==
  LET s == launch[l].session
  IN  /\ At(l, {"make"})
      /\ homes' = [homes EXCEPT ![s].exists = TRUE]
      /\ contested' = contested \cup
           {x \in {s} : \E k \in Launch \ {l} : launch[k].session = s /\ At(k, Filling)}
      /\ launch' = [launch EXCEPT ![l].at = "fill",
                                  ![l].left = Present(revs[launch[l].rev].copy)]
      /\ UNCHANGED <<source, edits, revs, task, channelLock, bindings, bindingLocks,
                     sessions, threadVars, ending, crashes>>

FillHome(l) ==
  LET f == NextFile(launch[l].left)
  IN  /\ At(l, {"fill"})
      /\ homes' = HomeWith(launch[l].session, launch[l].rev, f)
      /\ launch' = [launch EXCEPT ![l].left = @ \ {f},
                                  ![l].at = IF launch[l].left = {f} THEN "link" ELSE "fill"]
      /\ UNCHANGED <<source, edits, revs, task, channelLock, bindings, bindingLocks,
                     sessions, threadVars, ending, contested, crashes>>

\* AGENTS.md, config.toml and the link to the login; then the tool environment.
\* The command line writes no binding.
LinkAuth(l) ==
  LET s == launch[l].session
  IN  /\ At(l, {"link"})
      /\ homes' = [homes EXCEPT ![s].linked = TRUE]
      /\ To(l, IF ~MayLink(s) THEN "failed" ELSE IF InDaemon(l) THEN "bind" ELSE "register")
      /\ UNCHANGED <<source, edits, revs, task, channelLock, bindings, bindingLocks,
                     sessions, threadVars, ending, contested, crashes>>

\* No login, a missing tool source, a full disk: the launch throws, and what is
\* there of the home stays.
HomeFails(l) ==
  /\ At(l, Filling)
  /\ To(l, "failed")
  /\ UNCHANGED <<storeVars, sessions, threadVars, ending, contested, crashes>>

LockBinding(l) ==
  LET s == launch[l].session
  IN  /\ At(l, {"bind"})
      /\ bindingLocks' = bindingLocks \cup {s}
      /\ To(l, IF s \in bindingLocks THEN "failed" ELSE "binding")
      /\ UNCHANGED <<source, edits, revs, task, channelLock, homes, bindings,
                     sessions, threadVars, ending, contested, crashes>>

\* persistSessionProfileBinding under its lock; a model that the catalog does
\* not have is refused only now.
PersistBinding(l, known) ==
  LET s == launch[l].session
  IN  /\ At(l, {"binding"})
      /\ bindings' = [bindings EXCEPT ![s] = IF PermittedUpdate(s) THEN launch[l].rev ELSE @]
      /\ bindingLocks' = bindingLocks \ {s}
      /\ To(l, IF PermittedUpdate(s) /\ known THEN "register" ELSE "failed")
      /\ UNCHANGED <<source, edits, revs, task, channelLock, homes,
                     sessions, threadVars, ending, contested, crashes>>

-----------------------------------------------------------------------------
(* Registration, runtime and prompt.                                       *)

\* prepareManagedProviderLaunch: codex and gemini take the prompt as an argument,
\* and gemini the name of the conversation too.
Preloads(l) == InDaemon(l) /\ launch[l].adapter \in {"codex", "gemini"}
NamesThread(l) == InDaemon(l) /\ launch[l].adapter = "gemini"

\* registerSession: an ended session cannot join; an open one is taken as it is.
Register(l) ==
  LET s == launch[l].session
  IN  /\ At(l, {"register"}) /\ DaemonFree(l)
      /\ sessions' = [sessions EXCEPT ![s] = IF @ = "none" THEN "open" ELSE @]
      /\ To(l, IF sessions[s] = "ended" THEN "failed" ELSE "create")
      /\ UNCHANGED <<storeVars, threadVars, ending, contested, crashes>>

\* runtimeService.create inserts the row of generation 1, or throws because there
\* is one: the session is ended then, whoever it belongs to.
CreateRuntime(l, old) ==
  LET s == launch[l].session
      row == [st |-> "creating", by |-> l, adapter |-> launch[l].adapter, dir |-> launch[l].dir,
              controlled |-> launch[l].rev # 0,
              thread |-> IF NamesThread(l) THEN s ELSE NoThread]
  IN  /\ At(l, {"create"}) /\ DaemonFree(l)
      /\ \/ /\ runtime[s].st = "none"
            /\ runtime' = [runtime EXCEPT ![s] = row]
            /\ PlanDiscovery(s, old)
            /\ To(l, "start")
         \/ /\ runtime[s].st # "none" /\ old = {}
            /\ To(l, "undoEnd")
            /\ UNCHANGED <<runtime, discovery>>
      /\ UNCHANGED <<storeVars, sessions, transcripts, ending, contested, crashes>>

\* The host came up or did not.
HostStarted(l, up) ==
  LET s == launch[l].session
  IN  /\ At(l, {"start"}) /\ DaemonFree(l)
      /\ runtime' = [runtime EXCEPT ![s].st = IF up THEN "running" ELSE "ended"]
      /\ StartDiscovery(s, up)
      /\ To(l, IF up THEN "ready" ELSE "undoEnd")
      /\ UNCHANGED <<storeVars, sessions, transcripts, ending, contested, crashes>>

\* How drainRuntimeOutput ends: the screen is quiet, the time is over, or the
\* provider exits, its host answers with an error, the attachment closes.
DrainOutcomes == {"quiet", "deadline", "exit", "error", "closed"}

\* waitForProviderReady throws on the last three.
ProviderReady(l, outcome) ==
  /\ At(l, {"ready"})
  /\ To(l, IF outcome \in {"quiet", "deadline"} THEN "prompt" ELSE "undo")
  /\ UNCHANGED <<storeVars, sessions, threadVars, ending, contested, crashes>>

\* One poll of acceptPreloadedProviderPrompt, or one send and its verification.
AttemptPrompt(l) ==
  /\ At(l, {"prompt"})
  /\ To(l, "attempted")
  /\ UNCHANGED <<storeVars, sessions, threadVars, ending, contested, crashes>>

\* A preloaded prompt has to show in the transcript of the runtime's thread; one
\* that was sent, on the screen.
PromptAccepted(l) ==
  /\ At(l, {"attempted"})
  /\ Preloads(l) => LET s == launch[l].session
                    IN  runtime[s].thread = s /\ \E i \in TranscriptOf(s) : Shows(i, s)
  /\ To(l, "done")
  /\ UNCHANGED <<storeVars, sessions, threadVars, ending, contested, crashes>>

\* A mutant: the deadline is not looked at.
MutantPromptNotAccepted(l) ==
  /\ At(l, {"attempted"})
  /\ To(l, "prompt")
  /\ UNCHANGED <<storeVars, sessions, threadVars, ending, contested, crashes>>

\* A back-off and another attempt, or the deadline.
PromptNotAccepted(l) ==
  /\ At(l, {"attempted"})
  /\ To(l, IF launch[l].late THEN "undo" ELSE "prompt")
  /\ UNCHANGED <<storeVars, sessions, threadVars, ending, contested, crashes>>

\* promptTimeoutMs passes.
PromptDeadline(l) ==
  /\ At(l, {"prompt", "attempted"}) /\ ~launch[l].late
  /\ launch' = [launch EXCEPT ![l].late = TRUE]
  /\ UNCHANGED <<storeVars, sessions, threadVars, ending, contested, crashes>>

\* The catch block: terminate, whose own failure is swallowed, then endSession
\* if the session is still open.
UndoRuntime(l, stopped) ==
  LET s == launch[l].session
  IN  /\ At(l, {"undo"}) /\ DaemonFree(l)
      /\ runtime' = IF stopped THEN [runtime EXCEPT ![s].st = "ended"] ELSE runtime
      /\ To(l, "undoEnd")
      /\ UNCHANGED <<storeVars, sessions, transcripts, discovery, ending, contested, crashes>>

UndoSession(l) ==
  /\ At(l, {"undoEnd"}) /\ DaemonFree(l)
  /\ sessions' = [sessions EXCEPT ![launch[l].session] = "ended"]
  /\ To(l, "failed")
  /\ UNCHANGED <<storeVars, threadVars, ending, contested, crashes>>

LaunchStep(l) ==
  \/ MakeHome(l) \/ FillHome(l) \/ LinkAuth(l) \/ HomeFails(l) \/ LockBinding(l)
  \/ Register(l) \/ AttemptPrompt(l)
  \/ \E old \in SUBSET DOMAIN transcripts : CreateRuntime(l, old)
  \/ PromptAccepted(l) \/ PromptNotAccepted(l) \/ UndoSession(l)
  \/ \E ok \in BOOLEAN : PersistBinding(l, ok) \/ HostStarted(l, ok) \/ UndoRuntime(l, ok)
  \/ \E outcome \in DrainOutcomes : ProviderReady(l, outcome)

-----------------------------------------------------------------------------
(* What else happens to a session, and crashes.                            *)

\* endManagedSession lists the runtimes, terminates them, and ends the session;
\* endOwnedSessions does so for the sessions of one owner.
EndManagedSession(s) ==
  /\ ending[s] = "no" /\ sessions[s] = "open" /\ DaemonFree(NoLaunch)
  /\ ending' = [ending EXCEPT ![s] = IF runtime[s].st \in {"creating", "running"}
                                     THEN "terminate" ELSE "end"]
  /\ UNCHANGED <<storeVars, launch, sessions, threadVars, contested, crashes>>

TerminateListed(s) ==
  /\ ending[s] = "terminate" /\ DaemonFree(NoLaunch)
  /\ runtime' = [runtime EXCEPT ![s].st = "ended"]
  /\ ending' = [ending EXCEPT ![s] = "end"]
  /\ UNCHANGED <<storeVars, launch, sessions, transcripts, discovery, contested, crashes>>

EndListed(s) ==
  /\ ending[s] = "end" /\ DaemonFree(NoLaunch)
  /\ sessions' = [sessions EXCEPT ![s] = "ended"]
  /\ ending' = [ending EXCEPT ![s] = "over"]
  /\ UNCHANGED <<storeVars, launch, threadVars, contested, crashes>>

\* activeRuntimeSessionIdsForProviderThread.
ActiveSessionsOfThread(t) ==
  {s \in Session : sessions[s] = "open" /\ runtime[s].st = "running" /\ runtime[s].thread = t}

\* resolveRoomsIdentity, for a process whose environment has the id of a session
\* or else that of a conversation: the session it acts for, none if it throws.
ResolveRoomsIdentity(named, t) ==
  LET matches == IF named # {} THEN named ELSE ActiveSessionsOfThread(t)
  IN  IF Cardinality(matches) = 1 THEN {s \in matches : sessions[s] = "open"} ELSE {}

\* The daemon dies and is started again: its launches and polls are gone, the
\* launches of the command line fail, and hosts, files and lock files stay.
CrashDaemon ==
  /\ crashes < MaxCrashes
  /\ crashes' = crashes + 1
  /\ launch' = [l \in Launch |->
       IF At(l, {"none"} \cup Over) \/ (~InDaemon(l) /\ At(l, Filling)) THEN launch[l]
       ELSE [launch[l] EXCEPT !.at = "lost"]]
  /\ task' = [task EXCEPT !["daemon"] = NoTask]
  /\ ending' = [s \in Session |-> IF ending[s] = "no" THEN "no" ELSE "over"]
  /\ discovery' = [s \in Session |-> IF discovery[s].at = "gap" THEN discovery[s]
                                     ELSE NoDiscovery]
  /\ UNCHANGED <<source, edits, revs, channelLock, homes, bindings, bindingLocks,
                 sessions, runtime, transcripts, contested>>

CrashCli ==
  /\ crashes < MaxCrashes
  /\ crashes' = crashes + 1
  /\ launch' = [l \in Launch |-> IF InDaemon(l) \/ At(l, {"none"} \cup Over) THEN launch[l]
                                 ELSE [launch[l] EXCEPT !.at = "lost"]]
  /\ task' = [task EXCEPT !["cli"] = NoTask]
  /\ UNCHANGED <<source, edits, revs, channelLock, homes, bindings, bindingLocks,
                 sessions, threadVars, ending, contested>>

\* A revision is created by the daemon in one turn.
CreateRevision(p) ==
  /\ RevisionStep(p)
  /\ p = "daemon" => \A l \in DaemonLaunch : ~At(l, Turn)
  /\ UNCHANGED <<threadVars, launchVars>>

EditSource(f, content) ==
  /\ Edit(f, content)
  /\ UNCHANGED <<threadVars, launchVars>>

\* Transcripts grow, and the daemon looks for them.
ThreadStep(s) ==
  /\ \/ BeginTranscript(s)
     \/ \E named \in SUBSET Session : WriteTranscript(s, named)
     \/ DaemonFree(NoLaunch) /\ (DiscoverProviderThreadId(s) \/ RecordProviderIdentityGap(s))
  /\ UNCHANGED <<storeVars, launchVars>>

Next ==
  \/ \E p \in Procs : CreateRevision(p)
  \/ \E f \in Files, content \in Contents : EditSource(f, content)
  \/ \E l \in Launch, s \in Session, r \in 0 .. MaxRevisions, a \in AdapterKinds, d \in Dirs :
       LaunchSession(l, s, r, a, d) \/ LaunchFromCLI(l, s, r, a, d)
  \/ \E l \in Launch : LaunchStep(l) \/ PromptDeadline(l)
  \/ \E s \in Session : EndManagedSession(s) \/ TerminateListed(s) \/ EndListed(s) \/ ThreadStep(s)
  \/ CrashDaemon \/ CrashCli

\* Timers fire, calls return, and a process that can go on does.
Fairness ==
  /\ \A l \in Launch : WF_vars(LaunchStep(l)) /\ WF_vars(PromptDeadline(l))
  /\ \A p \in Procs : WF_vars(CreateRevision(p))

Spec == Init /\ [][Next]_vars /\ Fairness

-----------------------------------------------------------------------------
(* Properties.                                                             *)

\* A provider that runs in a controlled home sees exactly the files of the
\* revision of its launch, and a daemon launch has bound the session to that
\* revision: no earlier launch that failed or died half-way, no edit of the
\* live skill and no other revision shows through.  A home that the daemon and
\* a command line were filling at the same time is excepted.
RunsAsPinned ==
  \A s \in Session :
    LET l == runtime[s].by
    IN  /\ runtime[s].st = "running" /\ launch[l].rev # 0 /\ s \notin contested
        => /\ homes[s].linked /\ homes[s].copy = revs[launch[l].rev].copy
           /\ InDaemon(l) => bindings[s] = launch[l].rev

\* Two launches in one directory that poll at once, whose transcripts appear in
\* any order and whose runtimes end meanwhile, do not swap conversations.  A tool
\* that knows only the conversation of session s acts for s or for nobody, unless
\* the transcript has shown the id of another session; and nobody is told to wait
\* for a conversation that is no longer looked for, until a daemon dies.
ThreadsAreOwn ==
  /\ HoldersAreNamed
  /\ \A s \in Session : \A q \in ResolveRoomsIdentity({}, s) :
       q = s \/ \E i \in TranscriptOf(s) : Shows(i, q)
  /\ \A s \in Session : crashes = 0 /\ ProviderIdentityState(s) = "pending" =>
       discovery[s].at \in {"planned", "poll"}

\* Every launch comes to an end: lock files left behind, a provider that never
\* draws, a prompt that is never taken and a session ended meanwhile make it
\* fail, and never wait for ever.
LaunchEnds == \A l \in Launch : ~At(l, {"none"}) ~> At(l, Over)
=============================================================================
