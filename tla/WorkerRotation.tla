---------------------------- MODULE WorkerRotation ----------------------------
(***************************************************************************)
(* The rotation of a worker, composed with the life of the worker's        *)
(* runtimes (RuntimeLifecycle): the planner prepares it, the worker        *)
(* acknowledges, and the commit launches a replacement session, waits      *)
(* until its provider is known, gives it the worker's place in the channel *)
(* in one transaction, and terminates the old runtime.  The commit waits   *)
(* three times; meanwhile the rotation may be cancelled or committed       *)
(* again, the worker resumed, ended or removed, and the daemon may die.    *)
(***************************************************************************)
EXTENDS RuntimeLifecycle

CONSTANTS Commit,       \* calls of commit; each would launch its own replacement
          OldWorker,    \* the session that is rotated
          MaxRotations  \* rotations of the worker, a bound of the model

ASSUME RotationAssumption == OldWorker \notin Commit /\ MaxRotations \in Nat

VARIABLES audits,       \* the agent_rotations rows
          members,      \* active workers in this place: the old one, or the
                        \* replacement that a commit launched
          commits,      \* where the calls of commit are
          replacements  \* the runtimes they launched

rotationVars == <<audits, members, commits, replacements>>
allVars == <<vars, audits, members, commits, replacements>>

Rotations == 1 .. MaxRotations
NoAudit == [state |-> "none", gen |-> 0]
NoCommit == [at |-> "idle", rot |-> 0]

RotationInit ==
  /\ Init
  /\ audits = [r \in Rotations |-> NoAudit]
  /\ members = {OldWorker}
  /\ commits = [c \in Commit |-> NoCommit]
  /\ replacements = [c \in Commit |-> "none"]

\* inspectSession: the newest generation, whether or not it has ended.
InspectRotationRuntime == OldWorker \in members /\ Newest > 0

RequireWorker == InspectRotationRuntime /\ row[Newest].state = "running"

\* The worker still has the runtime that was prepared.
SameTarget(r) == RequireWorker /\ Newest = audits[r].gen

Update(r, state) == [audits EXCEPT ![r].state = state]

-----------------------------------------------------------------------------
(* prepare, acknowledge, cancel.                                           *)

\* The message with the nonce goes to the runtime that the store offers, if any,
\* which need not be the one that was inspected.
Offered == {g \in Gens : Current(g) /\ row[g].state # "creating"}
SendPrepare ==
  IF Offered = {} THEN UNCHANGED vars ELSE Start("deliver", Max(Offered), FALSE) /\ UNCHANGED ops

\* A worker with no active turn: the audit is stored, and the worker told.
Prepare(r) ==
  /\ Up /\ audits[r].state = "none" /\ (r > 1 => audits[r - 1].state # "none")
  /\ RequireWorker
  /\ audits' = [audits EXCEPT ![r] = [state |-> "prepared", gen |-> Newest]]
  /\ SendPrepare
  /\ UNCHANGED <<members, commits, replacements>>

\* Whoever knows the nonce: prepare returns it too, whether or not the message
\* was typed.
Acknowledge(r) ==
  /\ Up /\ audits[r].state = "prepared" /\ SameTarget(r)
  /\ audits' = Update(r, "acknowledged")
  /\ UNCHANGED <<vars, members, commits, replacements>>

Cancel(r) ==
  /\ Up /\ audits[r].state \in {"prepared", "acknowledged"}
  /\ audits' = Update(r, "cancelled")
  /\ UNCHANGED <<vars, members, commits, replacements>>

-----------------------------------------------------------------------------
(* commit.                                                                 *)

At(c, place) == commits[c].at = place
Goto(c, place) == commits' = [commits EXCEPT ![c].at = place]

\* A commit whose cleanup is pending goes on there; else the audit must be
\* acknowledged and the worker unchanged, and the replacement is launched.
StartCommit(c, r) ==
  /\ Up /\ At(c, "idle") /\ replacements[c] = "none"
  /\ \/ audits[r].state = "cleanup_pending"
        /\ commits' = [commits EXCEPT ![c] = [at |-> "cleanup", rot |-> r]]
     \/ audits[r].state = "acknowledged" /\ SameTarget(r)
        /\ commits' = [commits EXCEPT ![c] = [at |-> "launch", rot |-> r]]
  /\ UNCHANGED <<vars, audits, members, replacements>>

\* launchReplacement: a session row and its runtime.  If there is none, there is
\* nothing to take back.
LaunchReplacement(c, up) ==
  /\ At(c, "launch")
  /\ replacements' = [replacements EXCEPT ![c] = IF up THEN "running" ELSE "ended"]
  /\ commits' = [commits EXCEPT ![c] = IF up THEN [@ EXCEPT !.at = "inspect"] ELSE NoCommit]
  /\ audits' = IF up THEN audits ELSE Update(commits[c].rot, "rolled_back")
  /\ UNCHANGED <<vars, members>>

ReplacementEnds(c) ==
  /\ replacements[c] = "running"
  /\ replacements' = [replacements EXCEPT ![c] = "ended"]
  /\ UNCHANGED <<vars, audits, members, commits>>

\* inspectRuntime polls until the provider's thread is known, or gives up.
Verified(c, found) == found /\ replacements[c] = "running"

\* A mutant: nobody looks whether the old membership was there.
MutantSwapWorker(c) ==
  /\ Newest = audits[commits[c].rot].gen
  /\ members' = (members \ {OldWorker}) \cup {c}

\* swapWorker, one transaction: the old membership ends and the new one begins.
SwapWorker(c) ==
  /\ InspectRotationRuntime /\ Newest = audits[commits[c].rot].gen
  /\ members' = (members \ {OldWorker}) \cup {c}

\* After the wait the audit is not read again: it becomes cleanup_pending also
\* if it was cancelled, rolled back or committed meanwhile.
Swap(c, found) ==
  /\ At(c, "inspect")
  /\ Verified(c, found) /\ SwapWorker(c)
  /\ audits' = Update(commits[c].rot, "cleanup_pending")
  /\ Goto(c, "cleanup")
  /\ UNCHANGED <<vars, replacements>>

\* The replacement is not verified, or the worker is gone or resumed.
SwapFails(c, found) ==
  /\ At(c, "inspect")
  /\ ~(Verified(c, found) /\ InspectRotationRuntime /\ Newest = audits[commits[c].rot].gen)
  /\ Goto(c, "undo")
  /\ UNCHANGED <<vars, audits, members, replacements>>

\* The replacement is terminated; that this failed is not told.
RollBack(c, stopped) ==
  /\ At(c, "undo")
  /\ replacements' = [replacements EXCEPT ![c] = IF stopped THEN "ended" ELSE @]
  /\ audits' = Update(commits[c].rot, "rolled_back")
  /\ commits' = [commits EXCEPT ![c] = NoCommit]
  /\ UNCHANGED <<vars, members>>

\* retryCleanup asks the runtime service to terminate the old runtime.
RetryCleanup(c) ==
  /\ At(c, "cleanup")
  /\ Start("terminate", audits[commits[c].rot].gen, FALSE)
  /\ Goto(c, "terminate")
  /\ UNCHANGED <<ops, audits, members, replacements>>

-----------------------------------------------------------------------------
(* Steps of the runtimes.                                                  *)

\* The commit that waits for the termination, when this step ends it.
Released ==
  IF pend["terminate"].phase # "idle" /\ pend'["terminate"].phase = "idle"
  THEN {c \in Commit : At(c, "terminate")} ELSE {}

\* A step of the runtimes takes the waiting commit along: the audit is committed
\* if the old runtime was terminated, and pending if that failed, whatever it was
\* meanwhile.  The death of the daemon ends all calls.
RuntimeStep ==
  LET crashed == restarts' # restarts
      ended == IF crashed THEN {} ELSE {commits[c].rot : c \in Released}
      outcome == IF pend["terminate"].phase = "cleaned" THEN "committed" ELSE "cleanup_pending"
  IN  /\ Next
      /\ commits' = [c \in Commit |-> IF crashed \/ c \in Released THEN NoCommit ELSE commits[c]]
      /\ audits' = [r \in Rotations |-> IF r \in ended THEN [audits[r] EXCEPT !.state = outcome] ELSE audits[r]]
      /\ members' = IF session' = "ended" THEN members \ {OldWorker} ELSE members
      /\ UNCHANGED replacements

\* The worker leaves the channel or is removed; the end of its session, which is
\* a step of the runtimes, takes it out too.
WorkerLeaves ==
  /\ Up /\ OldWorker \in members
  /\ members' = members \ {OldWorker}
  /\ UNCHANGED <<vars, audits, commits, replacements>>

RotationNext ==
  \/ RuntimeStep \/ WorkerLeaves
  \/ \E r \in Rotations : \/ Acknowledge(r) \/ Cancel(r)
                          \/ Prepare(r)
                          \/ \E c \in Commit : StartCommit(c, r)
  \/ \E c \in Commit : \/ RetryCleanup(c) \/ ReplacementEnds(c)
                       \/ \E ok \in BOOLEAN : \/ LaunchReplacement(c, ok) \/ RollBack(c, ok)
                                              \/ Swap(c, ok) \/ SwapFails(c, ok)

RotationSpec == RotationInit /\ [][RotationNext]_allVars

-----------------------------------------------------------------------------
(* Properties.                                                             *)

\* The worker's place in the channel is never held twice, however often a
\* rotation is committed, cancelled, rolled back or interrupted; a replacement
\* holds it only after the old worker gave it up; and a rotation that says
\* committed has ended the runtime it was prepared for.
PlaceIsHeldOnce ==
  /\ Cardinality(members) <= 1
  /\ \A r \in Rotations : audits[r].state = "committed" =>
       OldWorker \notin members /\ row[audits[r].gen].ended
=============================================================================
