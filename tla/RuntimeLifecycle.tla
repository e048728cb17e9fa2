--------------------------- MODULE RuntimeLifecycle ---------------------------
(***************************************************************************)
(* The runtime generations of one session: their rows (the runtime         *)
(* repository), the host processes, which outlive the daemon, the          *)
(* supervisors and the connections of the running daemon, and the          *)
(* operations of the runtime service, each of which waits at least once    *)
(* for a host between reading a row and writing it.  With them the daemon  *)
(* start: reconcile, then restore.                                         *)
(***************************************************************************)
EXTENDS Naturals, FiniteSets, FiniteSetsExt

CONSTANTS MaxGeneration,  \* generations of the session, a bound of the model
          MaxRestarts,    \* crashes of the daemon, a bound of the model
          MaxOps,         \* recovers, uses, terminations and creations by name, a
                          \* bound of the model
          MaxActive       \* maxActiveRuntimes of the machine's quota

ASSUME BoundsAssumption ==
  /\ MaxGeneration \in Nat \ {0} /\ MaxRestarts \in Nat
  /\ MaxOps \in Nat /\ MaxActive \in Nat \ {0}

VARIABLES row,      \* runtimes, by generation
          host,     \* the host processes
          sock,     \* which hosts still have their socket file
          sup,      \* RuntimeHostSupervisor objects of this daemon
          clients,  \* whether a connection of this daemon marks the row on EXIT
          pend,     \* what each kind of operation waits for
          plan,     \* the generation `session resume` computed, 0 for none
          daemon, restarts, session,
          ops,      \* operations requested so far
          astray    \* generations that a caller named out of turn, for the properties

vars == <<row, host, sock, sup, clients, pend, plan, daemon, restarts, session, ops, astray>>

Gens == 1 .. MaxGeneration
Live == {"creating", "running", "recovering"}
Final == {"exited", "crashed", "terminated"}
Connecting == {"recover", "deliver", "attach", "terminate"}
Kinds == Connecting \cup {"create"}

NoRow == [state |-> "none", ended |-> FALSE, why |-> "none"]
NoSup == [state |-> "none", child |-> FALSE, client |-> FALSE]
Idle == [gen |-> 0, phase |-> "idle", end |-> FALSE]

\* A row that deliveries and attachments by session may still choose.
Current(g) == row[g].state \in Live /\ ~row[g].ended
Known == {g \in Gens : row[g].state # "none"}
Newest == Max({0} \cup Known)

\* connect() answers ENOENT or ECONNREFUSED exactly when this is false.
Reachable(g) == host[g] = "up" /\ sock[g]
Gone(g) == host[g] \in {"none", "exited", "killed"}

\* A mutant of MarkState: the UPDATE writes ended_at without COALESCE.
MutantMarkState(g, state, why) ==
  [row EXCEPT ![g] = [state |-> state, ended |-> state \in Final,
                      why |-> IF why = "none" THEN @.why ELSE why]]

\* markState: ended_at is set once and never cleared; a reason replaces the old.
MarkState(g, state, why) ==
  [row EXCEPT ![g] = [state |-> state,
                      ended |-> @.ended \/ state \in Final,
                      why |-> IF why = "none" THEN @.why ELSE why]]

\* cleanup: stop() ends the host through the supervisor's own connection or its
\* child, unless it already did, and the files of the generation are unlinked.
Cleanup(g) ==
  LET stops == sup[g].state # "terminated" /\ (sup[g].child \/ sup[g].client) /\ ~Gone(g)
  IN  /\ host' = [host EXCEPT ![g] = IF stops THEN "killed" ELSE @]
      /\ sock' = [sock EXCEPT ![g] = FALSE]
      /\ sup' = [sup EXCEPT ![g].state = "terminated", ![g].client = FALSE]

\* Cleanup of a supervisor that rehydrateSupervisor just made.
UnlinkAll(S) ==
  /\ sock' = [g \in Gens |-> sock[g] /\ g \notin S]
  /\ sup' = [g \in Gens |-> IF g \in S THEN [NoSup EXCEPT !.state = "terminated"] ELSE sup[g]]

-----------------------------------------------------------------------------
Init ==
  /\ row = [g \in Gens |-> NoRow]
  /\ host = [g \in Gens |-> "none"]
  /\ sock = [g \in Gens |-> FALSE]
  /\ sup = [g \in Gens |-> NoSup]
  /\ clients = [g \in Gens |-> FALSE]
  /\ pend = [k \in Kinds |-> Idle]
  /\ plan = 0
  /\ daemon = "up" /\ restarts = 0 /\ session = "open" /\ ops = 0 /\ astray = {}

Up == daemon \in {"restoring", "up"}

\* RuntimeRepository.create: the quota, counted by state, and the unique
\* generation.
QuotaLeft == Cardinality({g \in Gens : row[g].state \in Live}) < MaxActive
InsertRow(g) ==
  /\ row[g].state = "none" /\ QuotaLeft
  /\ row' = MarkState(g, "creating", "none")

\* spawnAndEnroll: a detached child of a new supervisor.
Spawn(g) ==
  /\ host' = [host EXCEPT ![g] = "starting"]
  /\ sup' = [sup EXCEPT ![g] = [state |-> "starting", child |-> TRUE, client |-> FALSE]]

\* create up to its first wait.
StartCreate(g) ==
  /\ pend["create"].phase = "idle"
  /\ InsertRow(g) /\ Spawn(g)
  /\ pend' = [pend EXCEPT !["create"] = [Idle EXCEPT !.gen = g, !.phase = "waiting"]]
  /\ UNCHANGED <<sock, clients, restarts, session>>

\* The turn of a generation: the one after the newest, which is not live.
NewestIsDown == Newest > 0 => row[Newest].state \notin Live
InTurn(g) == g = Newest + 1 /\ NewestIsDown

\* A mutant of Resumable: only a running generation counts as already resumed.
MutantResumable == session = "open" /\ Newest < MaxGeneration
                   /\ (Newest > 0 => row[Newest].state # "running")

\* planSessionResume: nothing to do when the newest generation is in a live
\* state; else the generation after it.
Resumable == session = "open" /\ Newest < MaxGeneration /\ NewestIsDown

\* `session resume` reads the store in its own process, and asks later.
PlanResume ==
  /\ plan = 0 /\ Resumable
  /\ plan' = Newest + 1
  /\ UNCHANGED <<row, host, sock, sup, clients, pend, daemon, restarts, session, ops, astray>>

Create ==
  /\ Up /\ plan # 0
  /\ StartCreate(plan)
  /\ plan' = 0 /\ UNCHANGED <<daemon, ops, astray>>

\* runtimeCreate with the generation that the caller names, or 1: the store asks
\* only that it is new.
CreateNamed(g) ==
  /\ Up /\ ops < MaxOps /\ ops' = ops + 1
  /\ StartCreate(g)
  /\ astray' = IF InTurn(g) THEN astray ELSE astray \cup {g}
  /\ UNCHANGED <<plan, daemon>>

\* A generation that exists, or a full quota, refuses the request.
CreateRefused ==
  /\ Up /\ plan # 0
  /\ row[plan].state # "none" \/ ~QuotaLeft
  /\ plan' = 0
  /\ UNCHANGED <<row, host, sock, sup, clients, pend, daemon, restarts, session, ops, astray>>

\* The host enrolled, listens and serves, whether or not its daemon still runs.
HostListens(g) ==
  /\ host[g] = "starting"
  /\ host' = [host EXCEPT ![g] = "up"]
  /\ sock' = [sock EXCEPT ![g] = TRUE]
  /\ UNCHANGED <<row, sup, clients, pend, plan, daemon, restarts, session, ops, astray>>

\* The provider ends, which the host tells its clients, or the host is killed.
HostEnds(g, how) ==
  /\ host[g] \in {"starting", "up"}
  /\ host' = [host EXCEPT ![g] = how]
  /\ sup' = [sup EXCEPT ![g].state =
               IF sup[g].child /\ @ \in {"running", "starting"} THEN "crashed" ELSE @]
  /\ UNCHANGED <<row, sock, clients, pend, plan, daemon, restarts, session, ops, astray>>

\* READY, the exit of the child, or the timeout of the enrollment.
Enrolled(outcome) ==
  LET g == pend["create"].gen
  IN  /\ pend["create"].phase = "waiting"
      /\ \/ outcome = "ok" /\ host[g] = "up"
         \/ outcome = "absent" /\ Gone(g)
         \/ outcome = "slow" /\ host[g] = "starting"
      /\ pend' = [pend EXCEPT !["create"].phase = outcome]
      /\ UNCHANGED <<row, host, sock, sup, clients, plan, daemon, restarts, session, ops, astray>>

\* The rest of create: bound and running, or cleaned up.
FinishCreate ==
  LET g == pend["create"].gen
  IN  /\ \/ /\ pend["create"].phase = "ok"
            /\ row' = MarkState(g, "running", "none")
            /\ sup' = [sup EXCEPT ![g].state = "running"]
            /\ pend' = [pend EXCEPT !["create"] = Idle]
            /\ UNCHANGED <<host, sock>>
         \/ /\ pend["create"].phase \in {"absent", "slow"}
            /\ Cleanup(g)
            /\ pend' = [pend EXCEPT !["create"].phase = "cleaned"]
            /\ UNCHANGED row
      /\ UNCHANGED <<clients, plan, daemon, restarts, session, ops, astray>>

-----------------------------------------------------------------------------
(* recover, deliverToRuntime, openAttachment and terminate.                *)

\* Their reads: recover takes a crashed row too; deliverMessage and terminate take
\* any row, ended or not; terminate may be a part of endManagedSession.
Start(k, g, end) ==
  /\ Up /\ pend[k].phase = "idle"
  /\ row[g].state # "none"
  /\ k = "recover" => row[g].state \notin {"exited", "terminated"}
  /\ k = "attach" => row[g].state \notin Final
  /\ end => k = "terminate" /\ Current(g) /\ session = "open"
  /\ pend' = [pend EXCEPT ![k] = [gen |-> g, phase |-> "waiting", end |-> end]]
  /\ UNCHANGED <<row, host, sock, sup, clients, plan, daemon, restarts, session, astray>>

\* A request for one of them.
Request(k, g, end) == ops < MaxOps /\ ops' = ops + 1 /\ Start(k, g, end)

\* reconnect of the supervisor; an attachment connects on its own, and listens
\* from the start.
Connect(k, outcome) ==
  LET g == pend[k].gen
      own == k = "attach"
      shut == ~own /\ sup[g].state = "terminated"
  IN  /\ pend[k].phase = "waiting"
      /\ \/ outcome = "ok" /\ ~shut /\ Reachable(g)
         \/ outcome = "absent" /\ ~shut /\ ~Reachable(g)
         \/ outcome = "slow" /\ (shut \/ Reachable(g))
      /\ pend' = [pend EXCEPT ![k].phase = outcome]
      /\ sup' = IF own \/ shut THEN sup
                ELSE IF outcome = "ok"
                     THEN [sup EXCEPT ![g].state = "running", ![g].client = TRUE]
                     ELSE [sup EXCEPT ![g].state =
                             IF sup[g].child /\ ~Gone(g) THEN "recovering" ELSE "crashed"]
      /\ clients' = [clients EXCEPT ![g] = @ \/ (own /\ outcome = "ok")]
      /\ UNCHANGED <<row, host, sock, plan, daemon, restarts, session, ops, astray>>

\* The new connection marks the row on EXIT from now on; an EXIT that came while
\* nobody listened yet is lost.
Registered(g, missed) ==
  /\ missed => Gone(g)
  /\ clients' = [clients EXCEPT ![g] = @ \/ ~missed]

FinishRecover(missed) ==
  LET g == pend["recover"].gen
      p == pend["recover"].phase
  IN  /\ \/ /\ p = "ok"
            /\ Registered(g, missed)
            /\ row' = MarkState(g, "running", "none")
            /\ pend' = [pend EXCEPT !["recover"] = Idle]
            /\ UNCHANGED <<host, sock, sup>>
         \/ /\ p \in {"absent", "slow"} /\ ~missed
            /\ sup[g].state = "recovering"
            /\ row' = MarkState(g, "recovering", "failed")
            /\ pend' = [pend EXCEPT !["recover"] = Idle]
            /\ UNCHANGED <<host, sock, sup, clients>>
         \/ /\ p \in {"absent", "slow"} /\ ~missed
            /\ sup[g].state # "recovering"
            /\ Cleanup(g)
            /\ pend' = [pend EXCEPT !["recover"].phase = "cleaned"]
            /\ UNCHANGED <<row, clients>>
      /\ UNCHANGED <<plan, daemon, restarts, session, ops, astray>>

\* deliverToRuntime and openAttachment record an absent host, and only that.
RecordAbsence(k) ==
  /\ pend[k].phase = "absent"
  /\ row' = MarkState(pend[k].gen, "crashed", "absent")
  /\ pend' = [pend EXCEPT ![k].phase = "cleaning"]

FinishDeliver(missed) ==
  /\ \/ /\ pend["deliver"].phase = "ok"
        /\ Registered(pend["deliver"].gen, missed)
        /\ pend' = [pend EXCEPT !["deliver"] = Idle]
        /\ UNCHANGED row
     \/ /\ pend["deliver"].phase = "slow" /\ ~missed
        /\ pend' = [pend EXCEPT !["deliver"] = Idle]
        /\ UNCHANGED <<row, clients>>
     \/ RecordAbsence("deliver") /\ ~missed /\ UNCHANGED clients
  /\ UNCHANGED <<host, sock, sup, plan, daemon, restarts, session, ops, astray>>

FinishAttach ==
  /\ \/ /\ pend["attach"].phase \in {"ok", "slow"}
        /\ pend' = [pend EXCEPT !["attach"] = Idle]
        /\ UNCHANGED row
     \/ RecordAbsence("attach")
  /\ UNCHANGED <<host, sock, sup, clients, plan, daemon, restarts, session, ops, astray>>

\* detach of the last viewer.
Detach(g) ==
  /\ Up /\ clients[g]
  /\ clients' = [clients EXCEPT ![g] = FALSE]
  /\ UNCHANGED <<row, host, sock, sup, pend, plan, daemon, restarts, session, ops, astray>>

FinishTerminate ==
  LET g == pend["terminate"].gen
      p == pend["terminate"].phase
  IN  /\ \/ /\ p = "ok"
            /\ host' = [host EXCEPT ![g] = IF @ = "up" THEN "exited" ELSE @]
            /\ pend' = [pend EXCEPT !["terminate"].phase = "cleaned"]
            /\ UNCHANGED <<sock, sup>>
         \/ /\ p = "absent"
            /\ Cleanup(g)
            /\ pend' = [pend EXCEPT !["terminate"].phase = "cleaned"]
         \/ /\ p = "slow"
            /\ pend' = [pend EXCEPT !["terminate"] = Idle]
            /\ UNCHANGED <<host, sock, sup>>
      /\ UNCHANGED <<row, clients, plan, daemon, restarts, session, ops, astray>>

\* What comes after the last wait.
Settle(k) ==
  LET g == pend[k].gen
  IN  /\ \/ /\ pend[k].phase = "cleaning"
            /\ Cleanup(g)
            /\ UNCHANGED <<row, session>>
         \/ /\ pend[k].phase = "cleaned"
            /\ row' = IF k = "terminate" THEN MarkState(g, "terminated", "operator")
                      ELSE MarkState(g, "crashed", "failed")
            /\ session' = IF pend[k].end THEN "ended" ELSE session
            /\ UNCHANGED <<host, sock, sup>>
      /\ pend' = [pend EXCEPT ![k] = Idle]
      /\ UNCHANGED <<clients, plan, daemon, restarts, ops, astray>>

\* The connections of a host that ended: EXIT marks the row, a mere close does
\* not.
ClientsEnd(g) ==
  /\ Gone(g) /\ (clients[g] \/ sup[g].client)
  /\ clients' = [clients EXCEPT ![g] = FALSE]
  /\ row' = IF host[g] = "exited" /\ clients[g] THEN MarkState(g, "exited", "exit") ELSE row
  /\ sup' = [sup EXCEPT ![g].client = FALSE,
               ![g].state = IF ~sup[g].client THEN @
                            ELSE IF host[g] = "exited" THEN "terminated"
                            ELSE IF @ = "running" THEN "crashed" ELSE @]
  /\ UNCHANGED <<host, sock, pend, plan, daemon, restarts, session, ops, astray>>

-----------------------------------------------------------------------------
(* The daemon.                                                             *)

\* Everything in its memory is lost; the hosts are detached and stay.
Crash ==
  /\ restarts < MaxRestarts
  /\ restarts' = restarts + 1 /\ daemon' = "starting"
  /\ sup' = [g \in Gens |-> NoSup]
  /\ clients' = [g \in Gens |-> FALSE]
  /\ pend' = [k \in Kinds |-> Idle]
  /\ UNCHANGED <<row, host, sock, plan, session, ops, astray>>

\* reconcileLocalRuntimeHosts, before anybody is served.
Reconcile ==
  LET absent == {g \in Gens : Current(g) /\ ~Reachable(g)}
  IN  /\ daemon = "starting"
      /\ row' = [g \in Gens |-> IF g \in absent THEN MarkState(g, "crashed", "absent")[g] ELSE row[g]]
      /\ UnlinkAll(absent)
      /\ daemon' = "restoring"
      /\ UNCHANGED <<host, clients, pend, plan, restarts, session, ops, astray>>

\* interruptedSessions: an unbroken run of crashed generations on top, one of
\* which lost its host.
Interrupted ==
  \E g \in Gens : /\ row[g].why = "absent"
                  /\ \A h \in Known : h >= g => row[h].state = "crashed"

\* restoreInterruptedSessions: plan and create in one turn.
Restore ==
  /\ daemon = "restoring" /\ daemon' = "up"
  /\ IF Interrupted /\ Resumable /\ QuotaLeft /\ pend["create"].phase = "idle"
     THEN StartCreate(Newest + 1)
     ELSE UNCHANGED <<row, host, sock, sup, clients, pend, restarts, session>>
  /\ UNCHANGED <<plan, ops, astray>>

Next ==
  \/ PlanResume \/ Create \/ CreateRefused \/ FinishCreate \/ FinishAttach \/ FinishTerminate
  \/ Crash \/ Reconcile \/ Restore
  \/ \E g \in Gens :
       \/ HostListens(g) \/ ClientsEnd(g) \/ Detach(g) \/ CreateNamed(g)
       \/ \E how \in {"exited", "killed"} : HostEnds(g, how)
       \/ \E k \in Connecting, end \in BOOLEAN : Request(k, g, end)
  \/ \E outcome \in {"ok", "absent", "slow"} :
       Enrolled(outcome) \/ \E k \in Connecting : Connect(k, outcome)
  \/ \E missed \in BOOLEAN : FinishRecover(missed) \/ FinishDeliver(missed)
  \/ \E k \in Kinds : Settle(k)

Spec == Init /\ [][Next]_vars

-----------------------------------------------------------------------------
(* Properties.                                                             *)

\* Type invariant of the rows, the processes, the supervisors and the waiting
\* operations.
TypeOK ==
  /\ row \in [Gens -> [state : {"none"} \cup Live \cup Final, ended : BOOLEAN,
                       why : {"none", "absent", "failed", "exit", "operator"}]]
  /\ host \in [Gens -> {"none", "starting", "up", "exited", "killed"}]
  /\ sock \in [Gens -> BOOLEAN]
  /\ sup \in [Gens -> [state : {"none", "starting", "running", "recovering", "crashed", "terminated"},
                       child : BOOLEAN, client : BOOLEAN]]
  /\ clients \in [Gens -> BOOLEAN]
  /\ pend \in [Kinds -> [gen : 0 .. MaxGeneration, end : BOOLEAN,
                         phase : {"idle", "waiting", "ok", "absent", "slow", "cleaning", "cleaned"}]]
  /\ plan \in 0 .. MaxGeneration
  /\ daemon \in {"starting", "restoring", "up"} /\ restarts \in 0 .. MaxRestarts
  /\ session \in {"open", "ended"} /\ ops \in 0 .. MaxOps /\ astray \subseteq Gens

\* A caller brought g and h together: it named g, or h, or one between them, when
\* that generation's turn had not come.
Forced(g, h) == \E x \in astray : g <= x /\ x <= h

\* The store offers a generation beside a newer one only where a caller named one
\* out of turn, which runtimeCreate does not refuse.  Whatever recover, restore, a
\* resume planned from an old read, deliveries to ended rows and the late events of
\* old hosts do, else at most one row is live and not ended, and it is the newest.
OneCurrentGeneration ==
  \A g, h \in Known : g < h /\ Current(g) => Forced(g, h)

\* Two hosts of one session run together only after the store gave the older one
\* up, with the same exception: it ended that generation and offers it to nobody
\* who asks for the session's runtime.  A request that names the older runtime
\* itself still reaches its host: deliverMessage, attach and terminate ask no
\* more of the row than Start does.
OlderHostsAreGivenUp ==
  \A g, h \in Gens : g < h /\ ~Gone(g) /\ ~Gone(h) => row[g].ended \/ Forced(g, h)
=============================================================================
