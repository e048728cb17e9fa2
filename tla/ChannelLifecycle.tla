-------------------------- MODULE ChannelLifecycle --------------------------
(***************************************************************************)
(* Suspending and resuming one channel: DurableChannelLifecycle            *)
(* (lifecycle/suspend-resume.ts) over the lease rows of                    *)
(* storage/blueprint-repository.ts, as the daemon composes them            *)
(* (runtime/native/local-channel-lifecycle.ts).                            *)
(*                                                                         *)
(* Every request has a coordinator of its own with a fresh owner id, so    *)
(* owners stand for fence tokens and a coordinator runs one operation.     *)
(* Coordinators meet only in the database.  An action is what a            *)
(* coordinator does from one wait for a runtime to the next, or one        *)
(* transaction where a crash can fall in between.  Heartbeats renew a      *)
(* lease that is still valid and cannot revive one that expired, so a      *)
(* lease is valid, expired or not set, and may expire at any time (the     *)
(* machine sleeps).                                                        *)
(*                                                                         *)
(* The suspend key is the same for every request and the resume key is     *)
(* named after the generation, so keys need no state of their own.         *)
(* Members are numbered in blueprint order.  A runtime row is unique for   *)
(* its session and generation and stands for its host: it is live while    *)
(* it is creating or running.  Nothing queues deliveries in the daemon.    *)
(* The provider conversation is resumed by the runtime itself (mode        *)
(* "runtime"); the drain of older provider processes is left out, and so   *)
(* is the new place of a member that is added to the blueprint again.      *)
(***************************************************************************)
EXTENDS Naturals, Sequences, FiniteSets, FiniteSetsExt

CONSTANTS
    Owner,          \* coordinators, one for each request
    NoOwner,
    Members,        \* how many members the channel has
    WithProvider,   \* members with a provider conversation
    MaxGeneration,  \* bound: generations
    MaxCrashes      \* bound: crashes of the daemon

Member == 1 .. Members
Generation == 1 .. MaxGeneration

ASSUME LifecycleAssumption ==
    /\ NoOwner \notin Owner
    /\ Members \in Nat \ {0} /\ MaxGeneration \in Nat \ {0}
    /\ MaxCrashes \in Nat
    /\ WithProvider \subseteq Member

VARIABLES
    row,         \* the channel's row of channel_blueprints
    members,     \* members in the stored blueprint
    gen,         \* processGeneration of each member in the blueprint
    outcome,     \* blueprint_member_outcomes
    launches,    \* resume_launches
    resumed,     \* resumed_members: generation of each member, 0 if none
    runtime,     \* runtimes: state of each session's generation
    ended,       \* members whose session ended
    reattached,  \* SQLiteCanonicalMembers.resumed: sessions by generation
    co,          \* coordinators
    crashes      \* bound: crashes so far

vars == <<row, members, gen, outcome, launches, resumed, runtime, ended,
          reattached, co, crashes>>

Live == {"creating", "running"}
Lease == {"none", "valid", "expired"}
Row == [state : {"active", "suspending", "suspended", "resuming"},
        owner : Owner \cup {NoOwner}, lease : Lease,
        resumeOwner : Owner \cup {NoOwner}, resumeLease : Lease,
        generation : 0 .. MaxGeneration]
Launch == [member : Member, generation : Generation,
           phase : {"launched", "provider_resuming", "provider_resumed"}]
Place == {"idle", "stop", "stopping", "abandoned", "stopAbandoned",
          "reconcile", "stopClaim", "launch", "launching", "recorded",
          "provider", "finish", "undo", "undoing", "succeeded", "failed"}
Coordinator == [at : Place, i : 1 .. Members + 1, gens : [Member -> Generation],
                busy : SUBSET Member, plan : SUBSET Member,
                launched : SUBSET Member, clean : BOOLEAN,
                g : 0 .. MaxGeneration]

TypeOK ==
    /\ row \in Row
    /\ members \subseteq Member
    /\ gen \in [Member -> Generation]
    /\ outcome \in [Member -> {"none", "stopped", "failed"}]
    /\ launches \subseteq Launch
    /\ resumed \in [Member -> 0 .. MaxGeneration]
    /\ runtime \in [Member -> [Generation ->
                       {"none", "creating", "running", "ended"}]]
    /\ ended \subseteq Member
    /\ reattached \in [Generation -> SUBSET Member]
    /\ co \in [Owner -> Coordinator]
    /\ crashes \in 0 .. MaxCrashes

\* A channel that runs: every member has a host of generation 1.
Init ==
    /\ row = [state |-> "active", owner |-> NoOwner, lease |-> "none",
              resumeOwner |-> NoOwner, resumeLease |-> "none",
              generation |-> 0]
    /\ members = Member
    /\ gen = [m \in Member |-> 1]
    /\ outcome = [m \in Member |-> "none"]
    /\ launches = {}
    /\ resumed = [m \in Member |-> 0]
    /\ runtime = [m \in Member |->
                    [g \in Generation |-> IF g = 1 THEN "running" ELSE "none"]]
    /\ ended = {}
    /\ reattached = [g \in Generation |-> {}]
    /\ co = [o \in Owner |-> [at |-> "idle", i |-> 1,
                              gens |-> [m \in Member |-> 1], busy |-> {},
                              plan |-> {}, launched |-> {}, clean |-> TRUE,
                              g |-> 0]]
    /\ crashes = 0

-----------------------------------------------------------------------------
(* Helpers.                                                                *)

\* renewSuspend and renewResume succeed: the lease is the coordinator's own
\* and has not expired.
HoldsSuspend(o) ==
    row.state = "suspending" /\ row.owner = o /\ row.lease = "valid"
HoldsResume(o) ==
    row.state = "resuming" /\ row.resumeOwner = o /\ row.resumeLease = "valid"

Goto(o, place) == co' = [co EXCEPT ![o].at = place]
NextMember(o, place) == co' = [co EXCEPT ![o].at = place, ![o].i = @ + 1]
FirstMember(o, place) == co' = [co EXCEPT ![o].at = place, ![o].i = 1]
AtMember(o, place) == co[o].at = place /\ co[o].i <= Members
AtEnd(o, place) == co[o].at = place /\ co[o].i > Members

\* The runtimes once generation g of member m is stopped.
Stopped(m, g) ==
    [runtime EXCEPT ![m][g] = IF @ \in Live THEN "ended" ELSE @]

LaunchesOf(g) == {l \in launches : l.generation = g}

\* rollbackGeneration, rollbackResumedMembers and clearResumeLaunches.
Discard(g) ==
    /\ ended' = ended \cup reattached[g]
    /\ reattached' = [reattached EXCEPT ![g] = {}]
    /\ resumed' = [m \in Member |-> IF resumed[m] = g THEN 0 ELSE resumed[m]]
    /\ launches' = launches \ LaunchesOf(g)

-----------------------------------------------------------------------------
(* suspend.                                                                *)

\* The blueprint a suspend request stores first: without the members whose
\* sessions ended, and with the newest generation of the others.
RetainMembers == members \ ended
NewestGeneration(m) ==
    LET rows == {g \in Generation : runtime[m][g] # "none"}
    IN IF m \in RetainMembers /\ rows # {} THEN Max(rows) ELSE gen[m]
Busy == {m \in RetainMembers : runtime[m][NewestGeneration(m)] \in Live}
RetainedOutcome ==
    [m \in Member |-> IF m \in members \ RetainMembers THEN "none"
                      ELSE outcome[m]]
SuspensionComplete ==
    /\ RetainMembers # {}
    /\ Cardinality(RetainMembers) =
         Cardinality({m \in Member : RetainedOutcome[m] = "stopped"})

MayClaimSuspend ==
    \/ row.state \in {"active", "suspended"}
    \/ row.state = "suspending" /\ row.lease # "valid"

StoreBlueprint ==
    /\ members' = RetainMembers
    /\ gen' = [m \in Member |-> NewestGeneration(m)]

\* The suspension was completed before and nothing runs: nothing is claimed.
SuspendAgain(o) ==
    /\ co[o].at = "idle"
    /\ row.state \in {"suspending", "suspended"}
    /\ SuspensionComplete /\ Busy = {}
    /\ StoreBlueprint
    /\ outcome' = RetainedOutcome
    /\ Goto(o, "succeeded")
    /\ UNCHANGED <<row, launches, resumed, runtime, ended, reattached, crashes>>

ClaimSuspend(o) ==
    /\ co[o].at = "idle"
    /\ ~(row.state \in {"suspending", "suspended"}
          /\ SuspensionComplete /\ Busy = {})
    /\ MayClaimSuspend
    /\ StoreBlueprint
    /\ outcome' = IF row.state = "active" THEN [m \in Member |-> "none"]
                  ELSE RetainedOutcome
    /\ row' = [row EXCEPT !.state = "suspending", !.owner = o,
                          !.lease = "valid"]
    /\ co' = [co EXCEPT ![o] = [@ EXCEPT !.at = "stop", !.busy = Busy,
                !.gens = [m \in Member |-> NewestGeneration(m)],
                !.plan = RetainMembers]]
    /\ UNCHANGED <<launches, resumed, runtime, ended, reattached, crashes>>

\* Another coordinator has the channel.  The blueprint was stored already.
SuspendRefused(o) ==
    /\ co[o].at = "idle" /\ ~MayClaimSuspend
    /\ ~(row.state = "suspending" /\ SuspensionComplete /\ Busy = {})
    /\ StoreBlueprint
    /\ outcome' = RetainedOutcome
    /\ Goto(o, "failed")
    /\ UNCHANGED <<row, launches, resumed, runtime, ended, reattached, crashes>>

SkipStopped(o) ==
    /\ AtMember(o, "stop")
    /\ LET m == co[o].i
       IN m \notin co[o].plan \/ (outcome[m] = "stopped" /\ m \notin co[o].busy)
    /\ NextMember(o, "stop")
    /\ UNCHANGED <<row, members, gen, outcome, launches, resumed, runtime,
                   ended, reattached, crashes>>

\* The error path of one member: recordMemberOutcome and releaseSuspend do
\* nothing for a coordinator that was replaced.
SuspendFails(o) ==
    /\ IF row.state = "suspending" /\ row.owner = o
       THEN /\ outcome' = [outcome EXCEPT ![co[o].i] = "failed"]
            /\ row' = [row EXCEPT !.lease = "none"]
       ELSE UNCHANGED <<outcome, row>>
    /\ Goto(o, "failed")

\* Renew the lease, take the fence and ask for generation gens[m] to stop.
BeginStop(o) ==
    /\ AtMember(o, "stop")
    /\ LET m == co[o].i
       IN m \in co[o].plan /\ (outcome[m] # "stopped" \/ m \in co[o].busy)
    /\ IF HoldsSuspend(o) THEN Goto(o, "stopping") /\ UNCHANGED <<row, outcome>>
       ELSE SuspendFails(o)
    /\ UNCHANGED <<members, gen, launches, resumed, runtime, ended, reattached,
                   crashes>>

\* The generation is stopped.  The lease is renewed once more before the
\* outcome is recorded.
EndStop(o) ==
    LET m == co[o].i
    IN /\ co[o].at = "stopping"
       /\ runtime' = Stopped(m, co[o].gens[m])
       /\ IF HoldsSuspend(o)
          THEN /\ outcome' = [outcome EXCEPT ![m] = "stopped"]
               /\ NextMember(o, "stop")
               /\ UNCHANGED row
          ELSE SuspendFails(o)
       /\ UNCHANGED <<members, gen, launches, resumed, ended, reattached,
                      crashes>>

\* Stopping the runtime fails, or the provider after it.
StopFails(o) ==
    /\ co[o].at = "stopping"
    /\ runtime' \in {runtime, Stopped(co[o].i, co[o].gens[co[o].i])}
    /\ SuspendFails(o)
    /\ UNCHANGED <<members, gen, launches, resumed, ended, reattached, crashes>>

\* markSuspended asks for the owner and not for its lease.
MarkSuspended(o) ==
    /\ AtEnd(o, "stop")
    /\ IF row.state = "suspending" /\ row.owner = o
       THEN /\ row' = [row EXCEPT !.state = "suspended", !.lease = "none"]
            /\ Goto(o, "succeeded")
       ELSE Goto(o, "failed") /\ UNCHANGED row
    /\ UNCHANGED <<members, gen, outcome, launches, resumed, runtime, ended,
                   reattached, crashes>>

-----------------------------------------------------------------------------
(* resume.                                                                 *)

ResumeGeneration ==
    IF row.state = "resuming" /\ row.generation > 0 THEN row.generation
    ELSE Max({row.generation} \cup {gen[m] : m \in members}) + 1

\* Mutant: a resume does not wait for the suspension to end.
MutantMayClaimResume ==
    \/ row.state \in {"suspending", "suspended"}
    \/ row.state = "resuming" /\ row.resumeLease = "expired"

MayClaimResume ==
    \/ row.state = "suspended"
    \/ row.state = "resuming" /\ row.resumeLease = "expired"

\* The sessions and generations of the plan are read with the claim.
ClaimResume(o) ==
    /\ co[o].at = "idle" /\ ResumeGeneration \in Generation
    /\ MayClaimResume
    /\ row' = [row EXCEPT !.state = "resuming", !.resumeOwner = o,
                 !.resumeLease = "valid", !.generation = ResumeGeneration]
    /\ co' = [co EXCEPT ![o] = [@ EXCEPT !.at = "abandoned", !.plan = members,
                                         !.g = ResumeGeneration]]
    /\ UNCHANGED <<members, gen, outcome, launches, resumed, runtime, ended,
                   reattached, crashes>>

ResumeRefused(o) ==
    /\ co[o].at = "idle" /\ ~MayClaimResume
    /\ Goto(o, "failed")
    /\ UNCHANGED <<row, members, gen, outcome, launches, resumed, runtime,
                   ended, reattached, crashes>>

\* The phase of o's launch of member m, "none" if no row records one.
PhaseOf(o, m) ==
    LET rows == {l \in LaunchesOf(co[o].g) : l.member = m}
    IN IF rows = {} THEN "none" ELSE (CHOOSE l \in rows : TRUE).phase

\* A launch the last attempt left behind is stopped, unless it may have
\* reached the provider and nobody can tell.
BeginStopAbandoned(o) ==
    /\ AtMember(o, "abandoned")
    /\ \/ PhaseOf(o, co[o].i) = "none" /\ NextMember(o, "abandoned")
       \/ PhaseOf(o, co[o].i) = "provider_resuming" /\ Goto(o, "failed")
       \/ /\ PhaseOf(o, co[o].i) \in {"launched", "provider_resumed"}
          /\ Goto(o, IF HoldsResume(o) THEN "stopAbandoned" ELSE "failed")
    /\ UNCHANGED <<row, members, gen, outcome, launches, resumed, runtime,
                   ended, reattached, crashes>>

\* What a stop under the resume lease leads to, outside the rollback.
EndStopUnder(o, place, next) ==
    /\ co[o].at = place
    /\ \/ /\ runtime' = Stopped(co[o].i, co[o].g)
          /\ IF HoldsResume(o) THEN NextMember(o, next) ELSE Goto(o, "failed")
       \/ /\ UNCHANGED runtime      \* terminate throws
          /\ runtime[co[o].i][co[o].g] \in Live
          /\ Goto(o, "failed")
    /\ UNCHANGED <<row, members, gen, outcome, launches, resumed, ended,
                   reattached, crashes>>

EndStopAbandoned(o) == EndStopUnder(o, "stopAbandoned", "abandoned")

DiscardAbandoned(o) ==
    /\ AtEnd(o, "abandoned")
    /\ \/ /\ LaunchesOf(co[o].g) = {}
          /\ FirstMember(o, "reconcile")
          /\ UNCHANGED <<ended, reattached, resumed, launches>>
       \/ /\ LaunchesOf(co[o].g) # {} /\ HoldsResume(o)
          /\ Discard(co[o].g)
          /\ FirstMember(o, "reconcile")
       \/ /\ LaunchesOf(co[o].g) # {} /\ ~HoldsResume(o)
          /\ Goto(o, "failed")
          /\ UNCHANGED <<ended, reattached, resumed, launches>>
    /\ UNCHANGED <<row, members, gen, outcome, runtime, crashes>>

\* Mutant: a runtime without a recorded launch is not looked for.
MutantBeginReconcile(o) ==
    /\ AtMember(o, "reconcile")
    /\ NextMember(o, "reconcile")
    /\ UNCHANGED <<row, members, gen, outcome, launches, resumed, runtime,
                   ended, reattached, crashes>>

\* A runtime the last attempt created without recording its launch.
BeginReconcile(o) ==
    /\ AtMember(o, "reconcile")
    /\ IF co[o].i \notin co[o].plan THEN NextMember(o, "reconcile")
       ELSE IF ~HoldsResume(o) THEN Goto(o, "failed")
       ELSE IF runtime[co[o].i][co[o].g] \in Live THEN Goto(o, "stopClaim")
       ELSE NextMember(o, "reconcile")
    /\ UNCHANGED <<row, members, gen, outcome, launches, resumed, runtime,
                   ended, reattached, crashes>>

EndReconcile(o) == EndStopUnder(o, "stopClaim", "reconcile")

Reconciled(o) ==
    /\ AtEnd(o, "reconcile")
    /\ FirstMember(o, "launch")
    /\ UNCHANGED <<row, members, gen, outcome, launches, resumed, runtime,
                   ended, reattached, crashes>>

SkipLaunch(o) ==
    /\ AtMember(o, "launch") /\ co[o].i \notin co[o].plan
    /\ NextMember(o, "launch")
    /\ UNCHANGED <<row, members, gen, outcome, launches, resumed, runtime,
                   ended, reattached, crashes>>

\* Mutant: a generation that ended may be launched again.
MutantBeginLaunch(o) ==
    LET m == co[o].i
    IN /\ AtMember(o, "launch") /\ m \in co[o].plan
       /\ HoldsResume(o) /\ runtime[m][co[o].g] \notin Live
       /\ runtime' = [runtime EXCEPT ![m][co[o].g] = "creating"]
       /\ co' = [co EXCEPT ![o].at = "launching",
                           ![o].busy = members \cap {m}]
       /\ UNCHANGED <<row, members, gen, outcome, launches, resumed, ended,
                      reattached, crashes>>

\* RoomsRuntimeService.create inserts the row, which fails when the session
\* already has this generation or the machine has no quota left.
BeginLaunch(o) ==
    LET m == co[o].i
    IN /\ AtMember(o, "launch") /\ m \in co[o].plan
       /\ HoldsResume(o) /\ runtime[m][co[o].g] = "none"
       /\ runtime' = [runtime EXCEPT ![m][co[o].g] = "creating"]
       /\ co' = [co EXCEPT ![o].at = "launching",
                           ![o].busy = members \cap {m}]
       /\ UNCHANGED <<row, members, gen, outcome, launches, resumed, ended,
                      reattached, crashes>>

LaunchRefused(o) ==
    /\ AtMember(o, "launch") /\ co[o].i \in co[o].plan
    /\ Goto(o, "undo")
    /\ UNCHANGED <<row, members, gen, outcome, launches, resumed, runtime,
                   ended, reattached, crashes>>

\* The host is up.  The blueprint of a member with a provider is rewritten
\* even when the lease is lost.
EndLaunch(o) ==
    LET m == co[o].i
        g == co[o].g
        rewrite == m \in WithProvider /\ co[o].busy # {}
    IN /\ co[o].at = "launching"
       /\ runtime' = [runtime EXCEPT
                        ![m][g] = IF @ = "creating" THEN "running" ELSE @]
       /\ IF rewrite THEN /\ members' = members \cup {m}
                          /\ gen' = [gen EXCEPT ![m] = g]
                     ELSE UNCHANGED <<members, gen>>
       /\ IF HoldsResume(o)
          THEN /\ launches' = launches \cup
                    {[member |-> m, generation |-> g, phase |-> "launched"]}
               /\ co' = [co EXCEPT
                    ![o].launched = @ \cup {m},
                    ![o].at = IF m \in WithProvider THEN "recorded" ELSE "launch",
                    ![o].i = IF m \in WithProvider THEN @ ELSE @ + 1]
          ELSE Goto(o, "undo") /\ UNCHANGED launches
       /\ UNCHANGED <<row, outcome, resumed, ended, reattached, crashes>>

LaunchFails(o) ==
    /\ co[o].at = "launching"
    /\ runtime' = Stopped(co[o].i, co[o].g)
    /\ Goto(o, "undo")
    /\ UNCHANGED <<row, members, gen, outcome, launches, resumed, ended,
                   reattached, crashes>>

\* setResumeProviderPhase.  The runtime itself resumes the conversation.
SetPhase(o, phase) ==
    launches' = {IF l.member = co[o].i /\ l.generation = co[o].g
                 THEN [l EXCEPT !.phase = phase] ELSE l : l \in launches}

ProviderResuming(o) ==
    /\ co[o].at = "recorded"
    /\ IF HoldsResume(o) THEN SetPhase(o, "provider_resuming") /\ Goto(o, "provider")
       ELSE Goto(o, "undo") /\ UNCHANGED launches
    /\ UNCHANGED <<row, members, gen, outcome, resumed, runtime, ended,
                   reattached, crashes>>

ProviderResumed(o) ==
    /\ co[o].at = "provider"
    /\ IF HoldsResume(o)
       THEN SetPhase(o, "provider_resumed") /\ NextMember(o, "launch")
       ELSE Goto(o, "undo") /\ UNCHANGED launches
    /\ UNCHANGED <<row, members, gen, outcome, resumed, runtime, ended,
                   reattached, crashes>>

\* reattachMembers goes through the launched members in order and throws at the
\* first session that ended, whose membership cannot be inserted.
Lost(o) == co[o].launched \cap ended
Reattach(o) ==
    LET done == {m \in co[o].launched : \A l \in Lost(o) : m < l}
    IN reattached' = [reattached EXCEPT ![co[o].g] = @ \cup done]

\* installResumedMember for all, then reattachMembers.
Install(o) ==
    /\ AtEnd(o, "launch")
    /\ IF ~HoldsResume(o)
       THEN Goto(o, "undo") /\ UNCHANGED <<resumed, reattached>>
       ELSE /\ resumed' = [m \in Member |-> IF m \in co[o].launched
                                            THEN co[o].g ELSE resumed[m]]
            /\ Reattach(o)
            /\ Goto(o, IF Lost(o) = {} THEN "finish" ELSE "undo")
    /\ UNCHANGED <<row, members, gen, outcome, launches, runtime, ended, crashes>>

\* Mutant: the channel becomes active without asking who holds the lease.
MutantFinishResume(o) ==
    /\ co[o].at = "finish"
    /\ IF row.state = "resuming"
       THEN /\ launches' = launches \ LaunchesOf(co[o].g)
            /\ row' = [row EXCEPT !.state = "active", !.resumeOwner = NoOwner,
                                  !.resumeLease = "none"]
            /\ Goto(o, "succeeded")
       ELSE Goto(o, "undo") /\ UNCHANGED <<launches, row>>
    /\ UNCHANGED <<members, gen, outcome, resumed, runtime, ended, reattached,
                   crashes>>

FinishResume(o) ==
    /\ co[o].at = "finish"
    /\ IF HoldsResume(o)
       THEN /\ launches' = launches \ LaunchesOf(co[o].g)
            /\ row' = [row EXCEPT !.state = "active", !.resumeOwner = NoOwner,
                                  !.resumeLease = "none"]
            /\ Goto(o, "succeeded")
       ELSE Goto(o, "undo") /\ UNCHANGED <<launches, row>>
    /\ UNCHANGED <<members, gen, outcome, resumed, runtime, ended, reattached,
                   crashes>>

-----------------------------------------------------------------------------
(* The rollback of a resume that failed, from the last launch to the first.*)

\* Forget a launch whose teardown is over; it counts unless it failed.
TornDown(o, ok) ==
    co' = [co EXCEPT ![o].at = "undo", ![o].clean = @ /\ ok,
                     ![o].launched = @ \ {Max(@)}]

BeginUndo(o) ==
    /\ co[o].at = "undo" /\ co[o].launched # {}
    /\ IF HoldsResume(o) THEN Goto(o, "undoing") ELSE TornDown(o, FALSE)
    /\ UNCHANGED <<row, members, gen, outcome, launches, resumed, runtime,
                   ended, reattached, crashes>>

EndUndo(o) ==
    LET m == Max(co[o].launched)
    IN /\ co[o].at = "undoing"
       /\ \/ runtime' = Stopped(m, co[o].g) /\ TornDown(o, HoldsResume(o))
          \/ /\ runtime[m][co[o].g] \in Live
             /\ TornDown(o, FALSE) /\ UNCHANGED runtime
       /\ UNCHANGED <<row, members, gen, outcome, launches, resumed, ended,
                      reattached, crashes>>

\* Back to suspended, if everything is known to be down.
Release(o) ==
    /\ co[o].at = "undo" /\ co[o].launched = {}
    /\ Goto(o, "failed")
    /\ IF /\ co[o].clean
          /\ \A l \in LaunchesOf(co[o].g) : l.phase # "provider_resuming"
          /\ HoldsResume(o)
       THEN /\ Discard(co[o].g)
            /\ row' = [row EXCEPT !.state = "suspended",
                         !.resumeOwner = NoOwner, !.resumeLease = "none"]
       ELSE UNCHANGED <<row, ended, reattached, resumed, launches>>
    /\ UNCHANGED <<members, gen, outcome, runtime, crashes>>

-----------------------------------------------------------------------------
(* What happens around the coordinators.                                   *)

ExpireLease ==
    /\ \/ /\ row.lease = "valid"
          /\ row' = [row EXCEPT !.lease = "expired"]
       \/ /\ row.resumeLease = "valid"
          /\ row' = [row EXCEPT !.resumeLease = "expired"]
    /\ UNCHANGED <<members, gen, outcome, launches, resumed, runtime, ended,
                   reattached, co, crashes>>

\* The daemon dies: its coordinators and the sessions they reattached are
\* forgotten.  Hosts live on.
Crash ==
    /\ crashes < MaxCrashes
    /\ crashes' = crashes + 1
    /\ co' = [o \in Owner |-> IF co[o].at = "idle" THEN co[o]
                              ELSE [co[o] EXCEPT !.at = "failed"]]
    /\ reattached' = [g \in Generation |-> {}]
    /\ UNCHANGED <<row, members, gen, outcome, launches, resumed, runtime,
                   ended>>

HostExit(m, g) ==
    /\ runtime[m][g] = "running"
    /\ runtime' = Stopped(m, g)
    /\ UNCHANGED <<row, members, gen, outcome, launches, resumed, ended,
                   reattached, co, crashes>>

\* Ending a session leaves its runtime alone.
EndSession(m) ==
    /\ m \notin ended
    /\ ended' = ended \cup {m}
    /\ UNCHANGED <<row, members, gen, outcome, launches, resumed, runtime,
                   reattached, co, crashes>>

-----------------------------------------------------------------------------
SuspendStep(o) ==
    \/ SuspendAgain(o) \/ ClaimSuspend(o) \/ SuspendRefused(o) \/ SkipStopped(o)
    \/ BeginStop(o) \/ EndStop(o) \/ StopFails(o) \/ MarkSuspended(o)

ResumeStep(o) ==
    \/ ClaimResume(o) \/ ResumeRefused(o)
    \/ BeginStopAbandoned(o) \/ EndStopAbandoned(o) \/ DiscardAbandoned(o)
    \/ BeginReconcile(o) \/ EndReconcile(o) \/ Reconciled(o)
    \/ SkipLaunch(o) \/ BeginLaunch(o) \/ LaunchRefused(o) \/ EndLaunch(o)
    \/ LaunchFails(o) \/ ProviderResuming(o) \/ ProviderResumed(o)
    \/ Install(o) \/ FinishResume(o)
    \/ BeginUndo(o) \/ EndUndo(o) \/ Release(o)

Next ==
    \/ \E o \in Owner : SuspendStep(o) \/ ResumeStep(o)
    \/ ExpireLease \/ Crash
    \/ \E m \in Member : EndSession(m)
    \/ \E m \in Member, g \in Generation : HostExit(m, g)

Spec == Init /\ [][Next]_vars

-----------------------------------------------------------------------------
(* Properties.                                                             *)

\* The members whose sessions go on.  A request drops the others from the
\* blueprint, and a launch that was waiting meanwhile puts its member back.
Continuing == Member \ ended

\* A session never runs in two hosts.  Whatever leases expire and whoever
\* takes over, a generation is stopped before the next one is launched: two
\* agents with one identity would answer every message twice.
OneHost ==
    \A m \in Continuing :
        Cardinality({g \in Generation : runtime[m][g] \in Live}) <= 1

\* A channel that says it is suspended runs nothing: neither the path that
\* stops its members nor the rollback of a resume reaches the state while the
\* host of a member whose session goes on still lives, and no such member is
\* missing from the blueprint the next resume reads.
SuspendedIsQuiet ==
    row.state = "suspended" =>
        \A m \in Continuing :
            m \in members /\ \A g \in Generation : runtime[m][g] \notin Live

\* Only the coordinator that holds the lease makes a resumed channel active,
\* and every member it planned to bring back is installed with a runtime of
\* the channel's generation; no launch is left for a later takeover to stop.
ResumeIsComplete ==
    [][row.state = "resuming" /\ row'.state = "active" =>
         /\ HoldsResume(row.resumeOwner)
         /\ LaunchesOf(row.generation)' = {}
         /\ \A m \in co[row.resumeOwner].plan :
               /\ resumed[m] = row.generation
               /\ runtime[m][row.generation] \in {"running", "ended"}]_vars

\* The host a coordinator is waiting to see stopped, if it is.
StopTarget(o) ==
    {t \in Member \X Generation :
        \/ co[o].at = "stopping" /\ t = <<co[o].i, co[o].gens[co[o].i]>>
        \/ co[o].at \in {"stopAbandoned", "stopClaim"} /\ t = <<co[o].i, co[o].g>>
        \/ co[o].at = "undoing" /\ t = <<Max(co[o].launched), co[o].g>>}

\* A coordinator that lost its lease may still be waiting for a teardown it
\* began: terminate takes no fence.  The teardown never hits a host that a
\* member whose session goes on uses after the channel became active again.
StaleStopIsHarmless ==
    row.state = "active" =>
        \A o \in Owner : \A t \in StopTarget(o) :
            t[1] \in Continuing => runtime[t[1]][t[2]] \notin Live

=============================================================================
