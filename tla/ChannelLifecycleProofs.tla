----------------------- MODULE ChannelLifecycleProofs -----------------------
(***************************************************************************)
(* Proofs about suspend and resume of a channel, for any number of         *)
(* requests, members, generations and crashes: a session that goes on      *)
(* never runs in two hosts, a suspended channel is quiet, a stale teardown *)
(* hits nothing in use, and a channel becomes active only complete.        *)
(***************************************************************************)
EXTENDS ChannelLifecycle, FiniteSetTheorems, WellFoundedInduction, TLAPS

SuspendPlaces == {"stop", "stopping"}
Launching == {"launch", "launching", "recorded", "provider", "finish"}
ResumePlaces == {"abandoned", "stopAbandoned", "reconcile", "stopClaim", "undo", "undoing"} \cup Launching

\* An idle coordinator owns nothing, and one that is busy with a member or a
\* generation has one.
PlaceOK(o) ==
    /\ co[o].at = "idle" =>
         /\ row.owner # o /\ row.resumeOwner # o
         /\ co[o].i = 1 /\ co[o].launched = {}
    /\ co[o].at \in {"stopping", "stopAbandoned", "stopClaim", "launching", "recorded", "provider"}
         => co[o].i \in Member
    /\ co[o].at = "undoing" => co[o].launched # {}
    /\ co[o].at \in ResumePlaces => co[o].g \in Generation

\* The rows of a member are those of the generations the channel has reached;
\* what was launched has a row; and only ended sessions leave the blueprint.
RowsOK ==
    /\ \A m \in Member : runtime[m][1] # "none"
    /\ \A m \in Member, g \in Generation :
         runtime[m][g] # "none" => g = 1 \/ g <= row.generation
    /\ row.state = "resuming" => row.generation > 0
    /\ \A l \in launches : runtime[l.member][l.generation] # "none"
    /\ Continuing \subseteq members

\* Of a session that goes on only the newest generation may live, none while
\* the channel is suspended, and only the channel's while it is resuming.
HostsOK ==
    \A m \in Continuing, g \in Generation : runtime[m][g] \in Live =>
        /\ \A h \in Generation : g < h => runtime[m][h] = "none"
        /\ row.state # "suspended"
        /\ row.state = "resuming" => g = row.generation

\* The coordinator that suspends the channel knows what lives: a member it has
\* not reached, in the generation it noted.
SuspendOK(o) ==
    co[o].at \in SuspendPlaces =>
        /\ \A m \in Continuing : runtime[m][co[o].gens[m]] # "none"
        /\ row.state = "suspending" /\ row.owner = o =>
             \A m \in Continuing :
                 /\ m \in co[o].plan
                 /\ \A g \in Generation : runtime[m][g] \in Live =>
                        g = co[o].gens[m] /\ m \in co[o].busy /\ co[o].i <= m

\* What may live of the generation coordinator o resumes.
Expected(o, m) ==
    /\ co[o].at \in {"reconcile", "stopClaim"} => co[o].i <= m
    /\ co[o].at \in Launching =>
         m \in co[o].launched \/ (co[o].at = "launching" /\ m = co[o].i)
    /\ co[o].at \in {"undo", "undoing"} /\ co[o].clean => m \in co[o].launched

\* The coordinator that holds the resume lease knows what lives.
ResumeOK(o) ==
    HoldsResume(o) /\ co[o].at \in ResumePlaces =>
        /\ co[o].g = row.generation
        /\ Continuing \subseteq co[o].plan
        /\ \A m \in Continuing : runtime[m][co[o].g] \in Live => Expected(o, m)
        /\ co[o].at = "finish" => \A m \in co[o].launched : resumed[m] = co[o].g

\* A coordinator launches the members of its plan in order.
LaunchedOK(o) ==
    /\ \A m \in co[o].launched :
         co[o].g \in Generation /\ runtime[m][co[o].g] \in {"running", "ended"}
    /\ co[o].at = "launching" => runtime[co[o].i][co[o].g] # "none"
    /\ co[o].at \in Launching \ {"finish"} =>
         \A m \in co[o].plan : m < co[o].i => m \in co[o].launched
    /\ co[o].at \in {"recorded", "provider"} => co[o].i \in co[o].launched
    /\ co[o].at = "finish" => co[o].plan \subseteq co[o].launched

\* The holder of the resume lease has stopped what earlier attempts left.
Past == \E o \in Owner : HoldsResume(o) /\ co[o].at \in Launching

\* The members whose hosts x may be waiting to see stopped in its generation.
Stops(x, m) ==
    \/ co[x].at \in {"stopAbandoned", "stopClaim"} /\ m = co[x].i
    \/ co[x].at = "undoing" /\ m \in co[x].launched

\* A teardown that was overtaken is of a generation that ended, which is for
\* ever: its session cannot be launched in it again.
TargetsOK(x) ==
    \A m \in Continuing :
        /\ co[x].at = "stopping" /\ m = co[x].i /\ row.state # "suspending" =>
             runtime[m][co[x].gens[m]] = "ended"
        /\ Stops(x, m) =>
             /\ runtime[m][co[x].g] # "none"
             /\ \/ row.state = "resuming" /\ co[x].g = row.generation /\ ~Past
                \/ runtime[m][co[x].g] = "ended"

CoordinatorOK(o) == PlaceOK(o) /\ SuspendOK(o) /\ ResumeOK(o) /\ LaunchedOK(o)

\* The inductive invariant.
IInv ==
    /\ TypeOK /\ RowsOK /\ HostsOK
    /\ \A o \in Owner : CoordinatorOK(o) /\ TargetsOK(o)

-----------------------------------------------------------------------------
(* What the model's operators do.                                          *)

\* A bounded set of numbers has a largest one.
LEMMA MaxIs ==
  ASSUME NEW S, S \subseteq Nat, S # {}, NEW n \in Nat, \A x \in S : x <= n
  PROVE  Max(S) \in S /\ \A x \in S : x <= Max(S)
<1> DEFINE T == {k \in Nat : \A x \in S : x <= k}
<1>1. T \subseteq Nat /\ T # {}
  OBVIOUS
<1>2. PICK k \in T : \A y \in T : ~(<<y, k>> \in OpToRel(<, Nat))
  BY <1>1, WFMin, NatLessThanWellFounded
<1>3. \A y \in T : ~(y < k)
  BY <1>1, <1>2 DEF OpToRel
<1>4. k \in S
  <2> SUFFICES ASSUME k \notin S PROVE FALSE
    OBVIOUS
  <2>1. PICK x \in S : TRUE
    OBVIOUS
  <2>2. k - 1 \in T
    BY <2>1
  <2> QED BY <1>3, <2>2
<1>5. \A x \in S : k >= x
  OBVIOUS
<1> QED BY <1>4, <1>5 DEF Max

\* Coordinator o goes to place p and member j, and nothing else of it changes.
Moves(o, p, j) ==
    /\ co' \in [Owner -> Coordinator]
    /\ \A x \in Owner \ {o} : co'[x] = co[x]
    /\ co'[o].at = p /\ co'[o].i = j
    /\ co'[o].gens = co[o].gens /\ co'[o].busy = co[o].busy /\ co'[o].plan = co[o].plan
    /\ co'[o].launched = co[o].launched /\ co'[o].clean = co[o].clean /\ co'[o].g = co[o].g

LEMMA GotoIs ==
  ASSUME TypeOK, NEW o \in Owner, NEW p \in Place, Goto(o, p)
  PROVE  Moves(o, p, co[o].i)
<1> DEFINE r == [co[o] EXCEPT !.at = p]
<1>1. co[o] \in Coordinator /\ co \in [Owner -> Coordinator]
  BY DEF TypeOK
<1>2. r \in Coordinator /\ r.at = p /\ r.i = co[o].i /\ r.gens = co[o].gens /\ r.busy = co[o].busy
      /\ r.plan = co[o].plan /\ r.launched = co[o].launched /\ r.clean = co[o].clean /\ r.g = co[o].g
  BY <1>1, Zenon DEF Coordinator
<1>3. co' = [co EXCEPT ![o] = r]
  BY DEF Goto
<1> HIDE DEF r
<1> QED BY <1>1, <1>2, <1>3 DEF Moves

LEMMA NextIs ==
  ASSUME TypeOK, NEW o \in Owner, NEW p \in Place, co[o].i \in Member, NextMember(o, p)
  PROVE  Moves(o, p, co[o].i + 1)
<1> DEFINE j == co[o].i + 1
           r == [co[o] EXCEPT !.at = p, !.i = j]
<1>1. co[o] \in Coordinator /\ co \in [Owner -> Coordinator] /\ j \in 1 .. Members + 1
  BY LifecycleAssumption DEF TypeOK, Member
<1>3. co' = [co EXCEPT ![o] = r]
  BY DEF NextMember
<1> HIDE DEF j
<1>2. r \in Coordinator /\ r.at = p /\ r.i = j /\ r.gens = co[o].gens /\ r.busy = co[o].busy
      /\ r.plan = co[o].plan /\ r.launched = co[o].launched /\ r.clean = co[o].clean /\ r.g = co[o].g
  BY <1>1, Zenon DEF Coordinator
<1> HIDE DEF r
<1>4. Moves(o, p, j)
  BY <1>1, <1>2, <1>3 DEF Moves
<1> QED BY <1>4 DEF j

LEMMA FirstIs ==
  ASSUME TypeOK, NEW o \in Owner, NEW p \in Place, FirstMember(o, p)
  PROVE  Moves(o, p, 1)
<1> DEFINE r == [co[o] EXCEPT !.at = p, !.i = 1]
<1>1. co[o] \in Coordinator /\ co \in [Owner -> Coordinator] /\ 1 \in 1 .. Members + 1
  BY LifecycleAssumption DEF TypeOK
<1>2. r \in Coordinator /\ r.at = p /\ r.i = 1 /\ r.gens = co[o].gens /\ r.busy = co[o].busy
      /\ r.plan = co[o].plan /\ r.launched = co[o].launched /\ r.clean = co[o].clean /\ r.g = co[o].g
  BY <1>1, Zenon DEF Coordinator
<1>3. co' = [co EXCEPT ![o] = r]
  BY DEF FirstMember
<1> HIDE DEF r
<1> QED BY <1>1, <1>2, <1>3 DEF Moves

RuntimeStates == {"none", "creating", "running", "ended"}

\* No host appears, no row is taken back, and no host starts twice.
Ages ==
    /\ runtime' \in [Member -> [Generation -> RuntimeStates]]
    /\ \A m \in Member, g \in Generation :
         /\ (runtime'[m][g] = "none") <=> (runtime[m][g] = "none")
         /\ runtime'[m][g] \in Live => runtime[m][g] \in Live
         /\ runtime[m][g] = "running" => runtime'[m][g] # "creating"

LEMMA UnchangedAges ==
  ASSUME TypeOK, UNCHANGED runtime
  PROVE  Ages
BY DEF TypeOK, Ages, RuntimeStates

\* The runtime of member m in generation g goes to state s.
LEMMA CellChanges ==
  ASSUME TypeOK, NEW m \in Member, NEW g \in Generation, NEW s \in RuntimeStates,
         runtime' = [runtime EXCEPT ![m][g] = s]
  PROVE  /\ runtime' \in [Member -> [Generation -> RuntimeStates]]
         /\ \A n \in Member, h \in Generation :
              runtime'[n][h] = IF n = m /\ h = g THEN s ELSE runtime[n][h]
<1>1. runtime \in [Member -> [Generation -> RuntimeStates]]
  BY DEF TypeOK, RuntimeStates
<1>2. [runtime[m] EXCEPT ![g] = s] \in [Generation -> RuntimeStates]
  BY <1>1
<1> QED BY <1>1, <1>2

\* Stopping a host is a way to age, and leaves the host dead.
LEMMA StoppedAges ==
  ASSUME TypeOK, NEW m \in Member, NEW g \in Generation, runtime' = Stopped(m, g)
  PROVE  /\ Ages /\ runtime'[m][g] \notin Live
         /\ \A n \in Member, h \in Generation : n # m \/ h # g => runtime'[n][h] = runtime[n][h]
<1>1. runtime[m][g] \in RuntimeStates
  BY DEF TypeOK, RuntimeStates
<1>2. PICK s \in RuntimeStates : s = IF runtime[m][g] \in Live THEN "ended" ELSE runtime[m][g]
  BY <1>1 DEF RuntimeStates
<1>3. runtime' = [runtime EXCEPT ![m][g] = s]
  BY <1>2 DEF Stopped
<1>4. s \notin Live /\ (s = "none" <=> runtime[m][g] = "none") /\ s # "creating"
  BY <1>2 DEF Live
<1>5. /\ runtime' \in [Member -> [Generation -> RuntimeStates]]
      /\ \A n \in Member, h \in Generation :
           runtime'[n][h] = IF n = m /\ h = g THEN s ELSE runtime[n][h]
  <2>1. runtime \in [Member -> [Generation -> RuntimeStates]]
    BY DEF TypeOK, RuntimeStates
  <2>2. [runtime[m] EXCEPT ![g] = s] \in [Generation -> RuntimeStates]
    BY <2>1
  <2> QED BY <2>1, <2>2, <1>3
<1> QED BY <1>4, <1>5 DEF Ages

-----------------------------------------------------------------------------
(* What a step means for the coordinators that do not take it.             *)

\* The row of the channel stays with its owners and no lease comes back.
RowFades ==
    /\ row'.state = row.state /\ row'.generation = row.generation
    /\ row'.owner = row.owner /\ row'.resumeOwner = row.resumeOwner
    /\ row'.resumeLease = "valid" => row.resumeLease = "valid"

\* What a coordinator knows stays true while others stop hosts, end sessions
\* or take the channel over.
LEMMA OthersKeep ==
  ASSUME IInv, NEW x \in Owner, co'[x] = co[x], Ages, ended \subseteq ended',
         resumed' = resumed \/ ~HoldsResume(x)',
         row'.owner = x => row.owner = x,
         row'.resumeOwner = x => row.resumeOwner = x,
         row'.state = "suspending" /\ row'.owner = x => row.state = "suspending",
         HoldsResume(x)' => HoldsResume(x) /\ row'.generation = row.generation
  PROVE  CoordinatorOK(x)'
<1>1. CoordinatorOK(x) /\ co[x] \in Coordinator
  BY DEF IInv, TypeOK
<1>2. Continuing' \subseteq Continuing /\ Continuing \subseteq Member
  BY DEF Continuing
<1>3. PlaceOK(x)'
  BY <1>1 DEF CoordinatorOK, PlaceOK
<1>4. SuspendOK(x)'
  <2>1. \A m \in Member : co[x].gens[m] \in Generation
    BY <1>1 DEF Coordinator
  <2> QED BY <1>1, <1>2, <2>1 DEF CoordinatorOK, SuspendOK, Ages
<1>5. ResumeOK(x)'
  <2> SUFFICES ASSUME HoldsResume(x)', co'[x].at \in ResumePlaces
               PROVE  /\ co'[x].g = row'.generation
                      /\ Continuing' \subseteq co'[x].plan
                      /\ \A m \in Continuing' : runtime'[m][co'[x].g] \in Live => Expected(x, m)'
                      /\ co'[x].at = "finish" => \A m \in co'[x].launched : resumed'[m] = co'[x].g
    BY DEF ResumeOK
  <2>1. HoldsResume(x) /\ co[x].at \in ResumePlaces /\ row'.generation = row.generation
    OBVIOUS
  <2>2. co[x].g \in Generation
    BY <1>1, <2>1 DEF CoordinatorOK, PlaceOK
  <2>3. \A m \in Continuing' : runtime'[m][co'[x].g] \in Live => Expected(x, m)'
    BY <1>1, <1>2, <2>1, <2>2 DEF CoordinatorOK, ResumeOK, Ages, Expected
  <2> QED BY <1>1, <1>2, <2>1, <2>3 DEF CoordinatorOK, ResumeOK
<1>6. LaunchedOK(x)'
  <2>1. \A m \in co[x].launched : m \in Member
    BY <1>1 DEF Coordinator
  <2>2. \A m \in co[x].launched : runtime'[m][co[x].g] \in {"running", "ended"}
    BY <1>1, <2>1 DEF CoordinatorOK, LaunchedOK, Ages, RuntimeStates, Live
  <2>3. co[x].at = "launching" => runtime'[co[x].i][co[x].g] # "none"
    BY <1>1 DEF CoordinatorOK, LaunchedOK, PlaceOK, ResumePlaces, Launching, Ages
  <2> QED BY <1>1, <2>2, <2>3 DEF CoordinatorOK, LaunchedOK
<1> QED BY <1>3, <1>4, <1>5, <1>6 DEF CoordinatorOK

\* Nobody waits for a host of the channel's generation to stop.
AllStopped ==
    \A x \in Owner, m \in Continuing :
        Stops(x, m) /\ co[x].g = row.generation => runtime[m][co[x].g] = "ended"

\* Overtaken teardowns stay overtaken.
LEMMA TargetsKeep ==
  ASSUME IInv, NEW x \in Owner, co'[x] = co[x], Ages, ended \subseteq ended', RowFades,
         Past' => Past \/ AllStopped
  PROVE  TargetsOK(x)'
<1>1. TargetsOK(x) /\ PlaceOK(x) /\ co[x] \in Coordinator
  BY DEF IInv, CoordinatorOK, TypeOK
<1>2. Continuing' \subseteq Continuing /\ Continuing \subseteq Member
  BY DEF Continuing
<1> SUFFICES ASSUME NEW m \in Continuing'
             PROVE  /\ co'[x].at = "stopping" /\ m = co'[x].i /\ row'.state # "suspending" =>
                         runtime'[m][co'[x].gens[m]] = "ended"
                    /\ Stops(x, m)' =>
                         /\ runtime'[m][co'[x].g] # "none"
                         /\ \/ row'.state = "resuming" /\ co'[x].g = row'.generation /\ ~Past'
                            \/ runtime'[m][co'[x].g] = "ended"
  BY DEF TargetsOK
<1>3. \A g \in Generation : runtime[m][g] = "ended" => runtime'[m][g] = "ended"
  BY <1>2 DEF Ages, RuntimeStates, Live
<1>4. ASSUME co[x].at = "stopping", m = co[x].i, row.state # "suspending"
      PROVE  runtime'[m][co[x].gens[m]] = "ended"
  BY <1>1, <1>2, <1>3, <1>4 DEF TargetsOK, Coordinator
<1>5. ASSUME Stops(x, m)
      PROVE  /\ runtime'[m][co[x].g] # "none"
             /\ \/ row.state = "resuming" /\ co[x].g = row.generation /\ ~Past'
                \/ runtime'[m][co[x].g] = "ended"
  <2>1. co[x].g \in Generation
    BY <1>1, <1>5 DEF Stops, PlaceOK, ResumePlaces
  <2>2. runtime'[m][co[x].g] # "none"
    BY <1>1, <1>2, <1>5, <2>1 DEF TargetsOK, Ages
  <2>3. \/ row.state = "resuming" /\ co[x].g = row.generation /\ ~Past
        \/ runtime[m][co[x].g] = "ended"
    BY <1>1, <1>2, <1>5 DEF TargetsOK
  <2>4. CASE runtime[m][co[x].g] = "ended"
    BY <1>3, <2>1, <2>2, <2>4
  <2>5. CASE row.state = "resuming" /\ co[x].g = row.generation /\ ~Past
    <3>1. CASE ~Past'
      BY <2>2, <2>5, <3>1
    <3>2. CASE AllStopped
      BY <1>2, <1>3, <1>5, <2>1, <2>2, <2>5, <3>2 DEF AllStopped
    <3> QED BY <2>5, <3>1, <3>2
  <2> QED BY <2>3, <2>4, <2>5
<1> QED BY <1>4, <1>5 DEF RowFades, Stops

\* The rows and hosts under a step that starts nothing.
LEMMA HostsKeep ==
  ASSUME IInv, Ages, RowFades, ended \subseteq ended', Continuing' \subseteq members',
         \A l \in launches' : l.member \in Member /\ l.generation \in Generation
                              /\ runtime[l.member][l.generation] # "none"
  PROVE  RowsOK' /\ HostsOK'
<1>1. Continuing' \subseteq Continuing /\ Continuing \subseteq Member /\ 1 \in Generation
  BY LifecycleAssumption DEF Continuing, Generation
<1>2. RowsOK'
  <2>1. \A m \in Member : runtime'[m][1] # "none"
    BY <1>1 DEF IInv, RowsOK, Ages
  <2>2. \A m \in Member, g \in Generation : runtime'[m][g] # "none" => g = 1 \/ g <= row'.generation
    BY DEF IInv, RowsOK, Ages, RowFades
  <2>3. \A l \in launches' : runtime'[l.member][l.generation] # "none"
    BY DEF Ages
  <2> QED BY <2>1, <2>2, <2>3 DEF IInv, RowsOK, RowFades
<1>3. HostsOK'
  <2> SUFFICES ASSUME NEW m \in Continuing', NEW g \in Generation, runtime'[m][g] \in Live
               PROVE  /\ \A h \in Generation : g < h => runtime'[m][h] = "none"
                      /\ row'.state # "suspended"
                      /\ row'.state = "resuming" => g = row'.generation
    BY DEF HostsOK
  <2>1. runtime[m][g] \in Live /\ m \in Continuing /\ m \in Member
    BY <1>1 DEF Ages
  <2> QED BY <2>1 DEF IInv, HostsOK, Ages, RowFades
<1> QED BY <1>2, <1>3

\* A step of coordinator o that leaves the channel where it is.
LEMMA QuietStep ==
  ASSUME IInv, TypeOK', NEW o \in Owner, Ages, RowFades,
         ended \subseteq ended', Continuing' \subseteq members',
         \A l \in launches' : l.member \in Member /\ l.generation \in Generation
                              /\ runtime[l.member][l.generation] # "none",
         resumed' = resumed \/ HoldsResume(o),
         \A x \in Owner \ {o} : co'[x] = co[x],
         CoordinatorOK(o)', TargetsOK(o)', Past' => Past \/ AllStopped
  PROVE  IInv'
<1>1. RowsOK' /\ HostsOK'
  BY HostsKeep
<1>2. ASSUME NEW x \in Owner, x # o PROVE CoordinatorOK(x)' /\ TargetsOK(x)'
  <2>1. co'[x] = co[x] /\ (resumed' = resumed \/ ~HoldsResume(x)')
    BY <1>2 DEF HoldsResume, RowFades
  <2>2. CoordinatorOK(x)'
    BY <2>1, OthersKeep DEF HoldsResume, RowFades
  <2>3. TargetsOK(x)'
    BY <2>1, TargetsKeep
  <2> QED BY <2>2, <2>3
<1> QED BY <1>1, <1>2 DEF IInv

\* A coordinator that is through knows nothing.
LEMMA RestKeeps ==
  ASSUME IInv, NEW o \in Owner, co'[o].at \in {"succeeded", "failed"},
         co'[o].launched \subseteq co[o].launched, co'[o].g = co[o].g, Ages
  PROVE  CoordinatorOK(o)' /\ TargetsOK(o)'
<1>1. LaunchedOK(o) /\ co[o] \in Coordinator
  BY DEF IInv, CoordinatorOK, TypeOK
<1>2. \A m \in co'[o].launched : m \in Member /\ m \in co[o].launched
  BY <1>1 DEF Coordinator
<1>3. \A m \in co'[o].launched : co'[o].g \in Generation /\ runtime'[m][co'[o].g] \in {"running", "ended"}
  BY <1>1, <1>2 DEF LaunchedOK, Ages, RuntimeStates, Live
<1>4. LaunchedOK(o)'
  BY <1>3 DEF LaunchedOK, Launching
<1>5. PlaceOK(o)' /\ SuspendOK(o)' /\ ResumeOK(o)'
  BY DEF PlaceOK, SuspendOK, ResumeOK, SuspendPlaces, ResumePlaces, Launching
<1>6. TargetsOK(o)'
  BY DEF TargetsOK, Stops
<1> QED BY <1>4, <1>5, <1>6 DEF CoordinatorOK

\* A step that moves coordinator o and at most stops hosts.
LEMMA MoveKeeps ==
  ASSUME IInv, NEW o \in Owner, NEW p, NEW j, Moves(o, p, j), Ages,
         UNCHANGED <<row, members, gen, outcome, launches, resumed, ended, reattached, crashes>>,
         CoordinatorOK(o)', TargetsOK(o)', Past' => Past \/ AllStopped
  PROVE  IInv'
<1>1. TypeOK'
  BY DEF IInv, TypeOK, Moves, Ages, RuntimeStates
<1>2. RowFades /\ Continuing' \subseteq members' /\ ended \subseteq ended'
  BY DEF RowFades, IInv, RowsOK, Continuing
<1>3. \A l \in launches' : l.member \in Member /\ l.generation \in Generation
                           /\ runtime[l.member][l.generation] # "none"
  BY DEF IInv, RowsOK, TypeOK, Launch
<1>4. \A x \in Owner \ {o} : co'[x] = co[x]
  BY DEF Moves
<1> QED BY <1>1, <1>2, <1>3, <1>4, QuietStep

\* A coordinator gives up, or is through, and at most a host stops.
LEMMA RestStep ==
  ASSUME IInv, NEW o \in Owner, NEW p \in {"succeeded", "failed"}, Goto(o, p), Ages,
         UNCHANGED <<row, members, gen, outcome, launches, resumed, ended, reattached, crashes>>
  PROVE  IInv'
<1>1. Moves(o, p, co[o].i)
  BY GotoIs DEF IInv, Place
<1>2. CoordinatorOK(o)' /\ TargetsOK(o)'
  BY <1>1, RestKeeps DEF Moves
<1>3. Past' => Past
  BY <1>1 DEF Past, Moves, HoldsResume, Launching
<1> QED BY <1>1, <1>2, <1>3, MoveKeeps

-----------------------------------------------------------------------------
(* suspend.                                                                *)

\* The newest generation of a member whose session goes on is the one that may
\* live.
LEMMA NewestIs ==
  ASSUME IInv, NEW m \in Member
  PROVE  /\ NewestGeneration(m) \in Generation
         /\ m \in Continuing =>
              /\ m \in RetainMembers
              /\ runtime[m][NewestGeneration(m)] # "none"
              /\ \A g \in Generation : runtime[m][g] \in Live => g = NewestGeneration(m)
<1> DEFINE rows == {g \in Generation : runtime[m][g] # "none"}
<1>1. rows \subseteq Nat /\ rows # {} /\ MaxGeneration \in Nat /\ \A g \in rows : g <= MaxGeneration
  BY LifecycleAssumption DEF IInv, RowsOK, Generation
<1>2. Max(rows) \in rows /\ \A g \in rows : g <= Max(rows)
  BY <1>1, MaxIs
<1>3. gen[m] \in Generation
  BY DEF IInv, TypeOK
<1>4. NewestGeneration(m) = IF m \in RetainMembers THEN Max(rows) ELSE gen[m]
  BY <1>1 DEF NewestGeneration
<1>5. m \in Continuing => m \in RetainMembers
  BY DEF IInv, RowsOK, Continuing, RetainMembers
<1>6. ASSUME m \in Continuing, NEW g \in Generation, runtime[m][g] \in Live
      PROVE  g = Max(rows)
  <2>1. g \in rows
    BY <1>6 DEF Live
  <2>2. ~(g < Max(rows))
    BY <1>2, <1>6 DEF IInv, HostsOK
  <2>3. Max(rows) \in Nat /\ g \in Nat
    BY <1>1, <1>2 DEF Generation
  <2> HIDE DEF rows
  <2> QED BY <1>2, <2>1, <2>2, <2>3
<1> QED BY <1>2, <1>3, <1>4, <1>5, <1>6

\* What every suspend request stores first.
LEMMA StoreIs ==
  ASSUME IInv, StoreBlueprint, UNCHANGED ended
  PROVE  /\ members' \subseteq Member /\ gen' \in [Member -> Generation]
         /\ RetainedOutcome \in [Member -> {"none", "stopped", "failed"}]
         /\ Continuing' \subseteq members'
<1>1. RetainMembers \subseteq Member /\ \A m \in Member : NewestGeneration(m) \in Generation
  BY NewestIs DEF IInv, TypeOK, RetainMembers
<1>2. Continuing' \subseteq members'
  BY DEF IInv, RowsOK, Continuing, RetainMembers, StoreBlueprint
<1>3. RetainedOutcome \in [Member -> {"none", "stopped", "failed"}]
  BY DEF RetainedOutcome, IInv, TypeOK
<1> QED BY <1>1, <1>2, <1>3 DEF StoreBlueprint

\* A request that stores the blueprint and does no more.
LEMMA StoreKeeps ==
  ASSUME IInv, NEW o \in Owner, NEW p \in {"succeeded", "failed"}, Goto(o, p), StoreBlueprint,
         outcome' = RetainedOutcome,
         UNCHANGED <<row, launches, resumed, runtime, ended, reattached, crashes>>
  PROVE  IInv'
<1>1. Moves(o, p, co[o].i) /\ Ages
  BY GotoIs, UnchangedAges DEF IInv, Place
<1>2. CoordinatorOK(o)' /\ TargetsOK(o)'
  BY <1>1, RestKeeps DEF Moves
<1>3. Past' => Past
  BY <1>1 DEF Past, Moves, HoldsResume, Launching
<1>4. TypeOK'
  BY <1>1, StoreIs DEF IInv, TypeOK, Moves
<1>5. \A l \in launches' : l.member \in Member /\ l.generation \in Generation
                           /\ runtime[l.member][l.generation] # "none"
  BY DEF IInv, RowsOK, TypeOK, Launch
<1>6. RowFades /\ \A x \in Owner \ {o} : co'[x] = co[x]
  BY <1>1 DEF RowFades, Moves
<1> QED BY <1>1, <1>2, <1>3, <1>4, <1>5, <1>6, StoreIs, QuietStep

LEMMA SuspendAgainKeeps ==
  ASSUME IInv, NEW o \in Owner, SuspendAgain(o)
  PROVE  IInv'
BY StoreKeeps DEF SuspendAgain

LEMMA SuspendRefusedKeeps ==
  ASSUME IInv, NEW o \in Owner, SuspendRefused(o)
  PROVE  IInv'
BY StoreKeeps DEF SuspendRefused

\* The claim of a suspend: what lives is noted, and every teardown that still
\* waits is of a generation that ended.
LEMMA ClaimSuspendKeeps ==
  ASSUME IInv, NEW o \in Owner, ClaimSuspend(o)
  PROVE  IInv'
<1> DEFINE b == Busy
           gs == [m \in Member |-> NewestGeneration(m)]
           pl == RetainMembers
           r == [co[o] EXCEPT !.at = "stop", !.busy = b, !.gens = gs, !.plan = pl]
<1>1. b \in SUBSET Member /\ gs \in [Member -> Generation] /\ pl \in SUBSET Member
  BY NewestIs DEF Busy, IInv, TypeOK, RetainMembers
<1>2. co[o] \in Coordinator /\ co \in [Owner -> Coordinator] /\ co[o].at = "idle"
      /\ co' = [co EXCEPT ![o] = r]
  BY DEF IInv, TypeOK, ClaimSuspend
<1>3. ASSUME NEW m \in Continuing
      PROVE  /\ m \in pl /\ runtime[m][gs[m]] # "none"
             /\ \A g \in Generation : runtime[m][g] \in Live => g = gs[m] /\ m \in b
  BY NewestIs DEF Busy, Continuing
<1> HIDE DEF b, gs, pl
<1>4. r \in Coordinator /\ r.at = "stop" /\ r.i = co[o].i /\ r.gens = gs /\ r.busy = b
      /\ r.plan = pl /\ r.launched = co[o].launched
  BY <1>1, <1>2, Zenon DEF Coordinator, Place
<1> HIDE DEF r
<1>5. /\ co' \in [Owner -> Coordinator] /\ co'[o] = r
      /\ \A x \in Owner \ {o} : co'[x] = co[x]
  BY <1>2, <1>4
<1>6. /\ row' \in Row /\ row'.state = "suspending" /\ row'.owner = o
      /\ row'.resumeOwner = row.resumeOwner /\ row'.generation = row.generation
  <2>1. row \in Row /\ row' = [row EXCEPT !.state = "suspending", !.owner = o, !.lease = "valid"]
    BY DEF IInv, TypeOK, ClaimSuspend
  <2> QED BY <2>1, Zenon DEF Row, Lease
<1>7. row.state # "resuming"
  BY DEF ClaimSuspend, MayClaimSuspend
<1>8. Ages /\ UNCHANGED <<launches, resumed, runtime, ended, reattached, crashes>> /\ StoreBlueprint
  BY UnchangedAges DEF ClaimSuspend, IInv
<1>9. TypeOK'
  <2>1. outcome' \in [Member -> {"none", "stopped", "failed"}]
    BY <1>8, StoreIs DEF ClaimSuspend
  <2> QED BY <1>5, <1>6, <1>8, <2>1, StoreIs DEF IInv, TypeOK
<1>10. RowsOK' /\ HostsOK'
  <2>1. Continuing' = Continuing
    BY <1>8 DEF Continuing
  <2>2. RowsOK'
    BY <1>6, <1>8, StoreIs DEF IInv, RowsOK
  <2>3. HostsOK'
    BY <1>6, <1>8, <2>1 DEF IInv, HostsOK
  <2> QED BY <2>2, <2>3
<1>11. CoordinatorOK(o)' /\ TargetsOK(o)'
  <2>1. co[o].i = 1 /\ co[o].launched = {}
    BY <1>2 DEF IInv, CoordinatorOK, PlaceOK
  <2>2. PlaceOK(o)' /\ ResumeOK(o)' /\ LaunchedOK(o)' /\ TargetsOK(o)'
    BY <1>4, <1>5, <2>1 DEF PlaceOK, ResumeOK, LaunchedOK, TargetsOK, Stops, ResumePlaces, Launching
  <2>3. \A m \in Continuing : 1 <= m
    BY DEF Continuing, Member
  <2>4. SuspendOK(o)'
    BY <1>3, <1>4, <1>5, <1>8, <2>1, <2>3 DEF SuspendOK, Continuing
  <2> QED BY <2>2, <2>4 DEF CoordinatorOK
<1>12. ASSUME NEW x \in Owner, x # o PROVE CoordinatorOK(x)' /\ TargetsOK(x)'
  <2>1. co'[x] = co[x]
    BY <1>5, <1>12
  <2>2. CoordinatorOK(x)'
    BY <1>6, <1>8, <1>12, <2>1, OthersKeep DEF HoldsResume
  <2>3. TargetsOK(x)'
    BY <1>6, <1>7, <1>8, <2>1 DEF IInv, TargetsOK, Stops, Continuing
  <2> QED BY <2>2, <2>3
<1> QED BY <1>9, <1>10, <1>11, <1>12 DEF IInv

LEMMA SkipStoppedKeeps ==
  ASSUME IInv, NEW o \in Owner, SkipStopped(o)
  PROVE  IInv'
<1>1. Moves(o, "stop", co[o].i + 1)
  <2>1. co[o].i \in Member
    BY LifecycleAssumption DEF IInv, TypeOK, Coordinator, SkipStopped, AtMember, Member
  <2> QED BY <2>1, NextIs DEF IInv, Place, SkipStopped
<1>2. co[o].at = "stop" /\ UNCHANGED <<row, runtime, ended>> /\ co[o].i \in Nat
  BY LifecycleAssumption DEF SkipStopped, AtMember, IInv, TypeOK, Coordinator
<1>3. SuspendOK(o)'
  <2> SUFFICES ASSUME row.state = "suspending", row.owner = o, NEW m \in Continuing, NEW g \in Generation,
                      runtime[m][g] \in Live, m \in co[o].plan, g = co[o].gens[m], m \in co[o].busy,
                      co[o].i <= m
               PROVE  co[o].i + 1 <= m
    BY <1>1, <1>2 DEF Moves, SuspendOK, SuspendPlaces, IInv, CoordinatorOK, Continuing
  <2>1. m # co[o].i
    BY DEF SkipStopped
  <2> QED BY <1>2, <2>1 DEF Continuing, Member
<1>4. CoordinatorOK(o)' /\ TargetsOK(o)'
  <2>1. LaunchedOK(o)'
    BY <1>1, <1>2 DEF Moves, LaunchedOK, Launching, IInv, CoordinatorOK
  <2> QED BY <1>1, <1>3, <2>1 DEF Moves, CoordinatorOK, PlaceOK, ResumeOK, TargetsOK, Stops, ResumePlaces, Launching
<1>5. Past' => Past
  BY <1>1, <1>2 DEF Past, Moves, HoldsResume, Launching
<1> QED BY <1>1, <1>4, <1>5, UnchangedAges, MoveKeeps DEF SkipStopped, IInv

\* A suspend that fails leaves the channel to whoever has it.
LEMMA FailKeeps ==
  ASSUME IInv, NEW o \in Owner, SuspendFails(o), Ages,
         UNCHANGED <<members, gen, launches, resumed, ended, reattached, crashes>>
  PROVE  IInv'
<1>1. Moves(o, "failed", co[o].i)
  BY GotoIs DEF IInv, Place, SuspendFails
<1>2. CoordinatorOK(o)' /\ TargetsOK(o)'
  BY <1>1, RestKeeps DEF Moves
<1>3. RowFades /\ row' \in Row
  BY DEF SuspendFails, RowFades, IInv, TypeOK, Row, Lease
<1>4. outcome' \in [Member -> {"none", "stopped", "failed"}]
  BY DEF SuspendFails, IInv, TypeOK
<1>5. TypeOK'
  BY <1>1, <1>3, <1>4 DEF IInv, TypeOK, Moves, Ages, RuntimeStates
<1>6. Past' => Past
  <2> SUFFICES ASSUME NEW x \in Owner, HoldsResume(x)', co'[x].at \in Launching
               PROVE  HoldsResume(x) /\ co[x].at \in Launching
    BY DEF Past
  <2> QED BY <1>1, <1>3 DEF Moves, RowFades, HoldsResume, Launching
<1>7. \A l \in launches' : l.member \in Member /\ l.generation \in Generation
                           /\ runtime[l.member][l.generation] # "none"
  BY DEF IInv, RowsOK, TypeOK, Launch
<1>8. Continuing' \subseteq members' /\ \A x \in Owner \ {o} : co'[x] = co[x]
  BY <1>1 DEF IInv, RowsOK, Continuing, Moves
<1> QED BY <1>2, <1>3, <1>5, <1>6, <1>7, <1>8, QuietStep

LEMMA BeginStopKeeps ==
  ASSUME IInv, NEW o \in Owner, BeginStop(o)
  PROVE  IInv'
<1>1. CASE ~HoldsSuspend(o)
  BY <1>1, FailKeeps, UnchangedAges DEF BeginStop, IInv
<1>2. CASE HoldsSuspend(o)
  <2>1. Moves(o, "stopping", co[o].i) /\ UNCHANGED <<row, runtime, outcome, ended>> /\ co[o].at = "stop"
    BY <1>2, GotoIs DEF IInv, Place, BeginStop, AtMember
  <2>2. co[o].i \in Member
    BY LifecycleAssumption DEF IInv, TypeOK, Coordinator, BeginStop, AtMember, Member
  <2>3. SuspendOK(o)'
    BY <2>1 DEF Moves, SuspendOK, SuspendPlaces, IInv, CoordinatorOK, Continuing
  <2>4. CoordinatorOK(o)'
    <3>1. LaunchedOK(o)'
      BY <2>1 DEF Moves, LaunchedOK, Launching, IInv, CoordinatorOK
    <3> QED BY <2>1, <2>2, <2>3, <3>1 DEF Moves, CoordinatorOK, PlaceOK, ResumeOK, ResumePlaces, Launching
  <2>5. TargetsOK(o)'
    BY <1>2, <2>1 DEF Moves, TargetsOK, Stops, HoldsSuspend
  <2>6. Past' => Past
    BY <2>1 DEF Past, Moves, HoldsResume, Launching
  <2> QED BY <2>1, <2>4, <2>5, <2>6, UnchangedAges, MoveKeeps DEF BeginStop, IInv
<1> QED BY <1>1, <1>2

LEMMA EndStopKeeps ==
  ASSUME IInv, NEW o \in Owner, EndStop(o)
  PROVE  IInv'
<1>1. co[o] \in Coordinator /\ co[o].at = "stopping" /\ co[o].i \in Member /\ PlaceOK(o) /\ SuspendOK(o)
  BY DEF EndStop, IInv, TypeOK, CoordinatorOK, PlaceOK
<1>2. PICK g \in Generation : g = co[o].gens[co[o].i]
  BY <1>1 DEF Coordinator
<1>3. Ages /\ runtime'[co[o].i][g] \notin Live
  BY <1>1, <1>2, StoppedAges DEF EndStop, IInv
<1>4. CASE ~HoldsSuspend(o)
  BY <1>3, <1>4, FailKeeps DEF EndStop
<1>5. CASE HoldsSuspend(o)
  <2>1. Moves(o, "stop", co[o].i + 1) /\ UNCHANGED <<row, members, launches, resumed, ended>>
    BY <1>1, <1>5, NextIs DEF IInv, Place, EndStop
  <2>2. TypeOK'
    <3>1. outcome' \in [Member -> {"none", "stopped", "failed"}]
      BY <1>1, <1>5 DEF EndStop, IInv, TypeOK
    <3> QED BY <1>3, <2>1, <3>1 DEF EndStop, IInv, TypeOK, Moves, Ages, RuntimeStates
  <2>3. SuspendOK(o)'
    <3>1. \A m \in Continuing : m \in Member /\ co[o].gens[m] \in Generation
      BY <1>1 DEF Continuing, Coordinator
    <3>2. \A m \in Continuing : runtime'[m][co[o].gens[m]] # "none"
      BY <1>1, <1>3, <3>1 DEF SuspendOK, SuspendPlaces, Ages
    <3>3. ASSUME NEW m \in Continuing, NEW h \in Generation, runtime'[m][h] \in Live
          PROVE  m \in co[o].plan /\ h = co[o].gens[m] /\ m \in co[o].busy /\ co[o].i + 1 <= m
      <4>1. runtime[m][h] \in Live
        BY <1>3, <3>1, <3>3 DEF Ages
      <4>2. m \in co[o].plan /\ h = co[o].gens[m] /\ m \in co[o].busy /\ co[o].i <= m
        BY <1>1, <1>5, <4>1 DEF SuspendOK, SuspendPlaces, HoldsSuspend
      <4>3. m # co[o].i
        BY <1>2, <1>3, <3>3, <4>2
      <4> QED BY <1>1, <3>1, <4>2, <4>3 DEF Member
    <3>4. \A m \in Continuing : m \in co[o].plan
      BY <1>1, <1>5 DEF SuspendOK, SuspendPlaces, HoldsSuspend
    <3> QED BY <2>1, <3>2, <3>3, <3>4 DEF Moves, SuspendOK, Continuing
  <2>4. CoordinatorOK(o)' /\ TargetsOK(o)'
    <3>1. \A m \in co[o].launched : m \in Member
      BY <1>1 DEF Coordinator
    <3>2. LaunchedOK(o)'
      BY <1>3, <2>1, <3>1 DEF Moves, LaunchedOK, Launching, IInv, CoordinatorOK, Ages, RuntimeStates, Live
    <3> QED BY <2>1, <2>3, <3>2 DEF Moves, CoordinatorOK, PlaceOK, ResumeOK, TargetsOK, Stops, ResumePlaces, Launching
  <2>5. Past' => Past
    BY <2>1 DEF Past, Moves, HoldsResume, Launching
  <2>6. \A l \in launches' : l.member \in Member /\ l.generation \in Generation
                             /\ runtime[l.member][l.generation] # "none"
    BY <2>1 DEF IInv, RowsOK, TypeOK, Launch
  <2>7. RowFades /\ Continuing' \subseteq members' /\ \A x \in Owner \ {o} : co'[x] = co[x]
    BY <2>1 DEF IInv, RowsOK, Continuing, Moves, RowFades
  <2> QED BY <1>3, <2>1, <2>2, <2>4, <2>5, <2>6, <2>7, QuietStep
<1> QED BY <1>4, <1>5

LEMMA StopFailsKeeps ==
  ASSUME IInv, NEW o \in Owner, StopFails(o)
  PROVE  IInv'
<1>1. co[o] \in Coordinator /\ co[o].i \in Member
  BY DEF StopFails, IInv, TypeOK, CoordinatorOK, PlaceOK
<1>2. PICK g \in Generation : g = co[o].gens[co[o].i]
  BY <1>1 DEF Coordinator
<1>3. runtime' = runtime \/ runtime' = Stopped(co[o].i, g)
  BY <1>2 DEF StopFails
<1>4. Ages
  BY <1>1, <1>3, UnchangedAges, StoppedAges DEF IInv
<1> QED BY <1>4, FailKeeps DEF StopFails

\* The channel is suspended: nothing of a session that goes on lives, so every
\* teardown that still waits is of a generation that ended.
LEMMA MarkSuspendedKeeps ==
  ASSUME IInv, NEW o \in Owner, MarkSuspended(o)
  PROVE  IInv'
<1>1. CASE ~(row.state = "suspending" /\ row.owner = o)
  BY <1>1, RestStep, UnchangedAges DEF MarkSuspended, IInv
<1>2. CASE row.state = "suspending" /\ row.owner = o
  <2>1. Moves(o, "succeeded", co[o].i) /\ Ages
        /\ UNCHANGED <<members, gen, outcome, launches, resumed, runtime, ended, reattached, crashes>>
    BY <1>2, GotoIs, UnchangedAges DEF MarkSuspended, IInv, Place
  <2>2. row' \in Row /\ row'.state = "suspended" /\ row'.owner = row.owner /\ row'.lease = "none"
        /\ row'.resumeOwner = row.resumeOwner /\ row'.generation = row.generation
    BY <1>2, ZenonT(40) DEF MarkSuspended, IInv, TypeOK, Row, Lease
  <2>3. ASSUME NEW m \in Continuing, NEW g \in Generation PROVE runtime[m][g] \notin Live
    <3>1. ~(co[o].i <= m)
      BY LifecycleAssumption DEF MarkSuspended, AtEnd, Continuing, Member, IInv, TypeOK, Coordinator
    <3> QED BY <1>2, <3>1 DEF MarkSuspended, AtEnd, IInv, CoordinatorOK, SuspendOK, SuspendPlaces
  <2>4. TypeOK'
    BY <2>1, <2>2 DEF IInv, TypeOK, Moves
  <2>5. RowsOK' /\ HostsOK'
    <3>1. RowsOK'
      BY <2>1, <2>2 DEF IInv, RowsOK, Continuing
    <3>2. HostsOK'
      BY <2>1, <2>3 DEF HostsOK, Continuing
    <3> QED BY <3>1, <3>2
  <2>6. CoordinatorOK(o)' /\ TargetsOK(o)'
    BY <2>1, RestKeeps DEF Moves
  <2>7. ASSUME NEW x \in Owner, x # o PROVE CoordinatorOK(x)' /\ TargetsOK(x)'
    <3>1. co'[x] = co[x]
      BY <2>1, <2>7 DEF Moves
    <3>2. CoordinatorOK(x)'
      BY <2>1, <2>2, <3>1, OthersKeep DEF HoldsResume
    <3>3. TargetsOK(x) /\ SuspendOK(x) /\ PlaceOK(x) /\ co[x] \in Coordinator
      BY DEF IInv, CoordinatorOK, TypeOK
    <3>4. ASSUME NEW m \in Continuing, co[x].at = "stopping" PROVE runtime[m][co[x].gens[m]] = "ended"
      <4>1. m \in Member /\ co[x].gens[m] \in Generation
        BY <3>3 DEF Continuing, Coordinator
      <4>2. runtime[m][co[x].gens[m]] # "none"
        BY <3>3, <3>4 DEF SuspendOK, SuspendPlaces
      <4>3. runtime[m][co[x].gens[m]] \in RuntimeStates
        BY <4>1 DEF IInv, TypeOK, RuntimeStates
      <4> QED BY <2>3, <4>1, <4>2, <4>3 DEF RuntimeStates, Live
    <3>5. TargetsOK(x)'
      BY <1>2, <2>1, <2>2, <3>1, <3>3, <3>4 DEF TargetsOK, Stops, Continuing
    <3> QED BY <3>2, <3>5
  <2> QED BY <2>4, <2>5, <2>6, <2>7 DEF IInv
<1> QED BY <1>1, <1>2

-----------------------------------------------------------------------------
(* resume.                                                                 *)

\* The resume lease has one holder.
LEMMA OneHolder ==
  ASSUME NEW o \in Owner, HoldsResume(o), co[o].at \notin Launching
  PROVE  ~Past
BY DEF Past, HoldsResume

\* A resume goes on at place p with member j, and what lives is expected there.
LEMMA ResumeMove ==
  ASSUME IInv, NEW o \in Owner, NEW p \in ResumePlaces, NEW j, Moves(o, p, j), Ages,
         co[o].at \in ResumePlaces, row' = row, ended \subseteq ended',
         p \in {"stopAbandoned", "stopClaim", "launching", "recorded", "provider"} => j \in Member,
         p = "undoing" => co[o].launched # {},
         p = "launching" => runtime'[j][co[o].g] # "none",
         p \in Launching \ {"finish"} => \A m \in co[o].plan : m < j => m \in co[o].launched,
         p \in {"recorded", "provider"} => j \in co[o].launched,
         p = "finish" => co[o].plan \subseteq co[o].launched
                         /\ \A m \in co[o].launched : resumed'[m] = co[o].g,
         HoldsResume(o) => \A m \in Continuing : runtime'[m][co[o].g] \in Live => Expected(o, m)'
  PROVE  CoordinatorOK(o)'
<1>1. CoordinatorOK(o) /\ co[o] \in Coordinator /\ co[o].g \in Generation
  BY DEF IInv, TypeOK, CoordinatorOK, PlaceOK
<1>2. Continuing' \subseteq Continuing
  BY DEF Continuing
<1>3. PlaceOK(o)'
  BY <1>1 DEF Moves, PlaceOK, ResumePlaces, Launching
<1>4. SuspendOK(o)'
  BY DEF Moves, SuspendOK, SuspendPlaces, ResumePlaces, Launching
<1>5. ResumeOK(o)'
  <2> SUFFICES ASSUME HoldsResume(o)'
               PROVE  /\ co'[o].g = row'.generation
                      /\ Continuing' \subseteq co'[o].plan
                      /\ \A m \in Continuing' : runtime'[m][co'[o].g] \in Live => Expected(o, m)'
                      /\ co'[o].at = "finish" => \A m \in co'[o].launched : resumed'[m] = co'[o].g
    BY DEF ResumeOK
  <2>1. HoldsResume(o) /\ co'[o].g = co[o].g /\ co'[o].plan = co[o].plan /\ co'[o].launched = co[o].launched
    BY DEF HoldsResume, Moves
  <2>2. co[o].g = row.generation /\ Continuing \subseteq co[o].plan
    BY <1>1, <2>1 DEF CoordinatorOK, ResumeOK
  <2> QED BY <1>2, <2>1, <2>2 DEF Moves
<1>6. LaunchedOK(o)'
  <2>1. \A m \in co[o].launched : m \in Member
    BY <1>1 DEF Coordinator
  <2>2. \A m \in co[o].launched : runtime'[m][co[o].g] \in {"running", "ended"}
    BY <1>1, <2>1 DEF CoordinatorOK, LaunchedOK, Ages, RuntimeStates, Live
  <2> QED BY <1>1, <2>2 DEF Moves, LaunchedOK
<1> QED BY <1>3, <1>4, <1>5, <1>6 DEF CoordinatorOK

\* The holder of the lease aims at hosts of the channel's generation.
LEMMA AimKeeps ==
  ASSUME IInv, NEW o \in Owner, NEW p \in {"stopAbandoned", "stopClaim", "undoing"}, NEW j, Moves(o, p, j),
         Ages, co[o].at \in ResumePlaces, HoldsResume(o), row' = row, ended \subseteq ended',
         \A m \in Continuing : Stops(o, m)' => runtime[m][co[o].g] # "none"
  PROVE  TargetsOK(o)'
<1>1. co[o].g = row.generation /\ co[o].g \in Generation
  BY DEF IInv, CoordinatorOK, ResumeOK, PlaceOK
<1>2. co'[o].at = p /\ co'[o].g = co[o].g
  BY DEF Moves
<1>3. ~Past'
  <2> SUFFICES ASSUME NEW x \in Owner, HoldsResume(x)', co'[x].at \in Launching PROVE FALSE
    BY DEF Past
  <2> QED BY <1>2 DEF HoldsResume, Launching
<1>4. \A m \in Continuing : Stops(o, m)' => runtime'[m][co[o].g] # "none"
  BY <1>1 DEF Ages, Continuing
<1>5. Continuing' \subseteq Continuing /\ row'.state = "resuming"
  BY DEF Continuing, HoldsResume
<1> QED BY <1>1, <1>2, <1>3, <1>4, <1>5 DEF TargetsOK

\* The claim of a resume: the generation is the channel's or a new one, and
\* only what is in the blueprint has to come back.
LEMMA ClaimResumeKeeps ==
  ASSUME IInv, NEW o \in Owner, ClaimResume(o)
  PROVE  IInv'
<1>1. PICK G \in Generation : G = ResumeGeneration
  BY DEF ClaimResume
<1>2. row \in Row /\ row.generation \in Nat /\ row.generation <= MaxGeneration
  BY LifecycleAssumption DEF IInv, TypeOK, Row
<1>3. row.generation <= G /\ (row.state = "resuming" => G = row.generation)
  <2>1. CASE row.state = "resuming"
    BY <1>1, <1>2, <2>1 DEF ResumeGeneration, IInv, RowsOK
  <2>2. CASE row.state # "resuming"
    <3> DEFINE S == {row.generation} \cup {gen[m] : m \in members}
    <3>0. \A m \in members : gen[m] \in Nat /\ gen[m] <= MaxGeneration
      BY LifecycleAssumption DEF IInv, TypeOK, Generation
    <3>1. S \subseteq Nat /\ S # {} /\ MaxGeneration \in Nat /\ \A n \in S : n <= MaxGeneration
      BY <1>2, <3>0, LifecycleAssumption
    <3>2. Max(S) \in S /\ \A n \in S : n <= Max(S)
      BY <3>1, MaxIs
    <3>3. G = Max(S) + 1
      BY <1>1, <2>2 DEF ResumeGeneration
    <3>4. row.generation <= Max(S) /\ Max(S) \in Nat
      BY <3>1, <3>2
    <3> HIDE DEF S
    <3> QED BY <1>2, <2>2, <3>3, <3>4
  <2> QED BY <2>1, <2>2
<1>4. /\ row' \in Row /\ row'.state = "resuming" /\ row'.owner = row.owner
      /\ row'.resumeOwner = o /\ row'.generation = G
  <2>1. row' = [row EXCEPT !.state = "resuming", !.resumeOwner = o, !.resumeLease = "valid",
                           !.generation = G] /\ G \in 0 .. MaxGeneration
    BY <1>1 DEF ClaimResume, Generation
  <2> QED BY <1>2, <2>1, Zenon DEF Row, Lease
<1>5. UNCHANGED <<members, gen, outcome, launches, resumed, runtime, ended, reattached, crashes>> /\ Ages
  BY UnchangedAges DEF ClaimResume, IInv
<1>6. co[o] \in Coordinator /\ co \in [Owner -> Coordinator] /\ co[o].at = "idle" /\ members \in SUBSET Member
  BY DEF IInv, TypeOK, ClaimResume
<1>7. PICK r \in Coordinator : /\ co' = [co EXCEPT ![o] = r] /\ r.at = "abandoned" /\ r.i = co[o].i
                               /\ r.plan = members /\ r.g = G /\ r.launched = co[o].launched
  <2> DEFINE r == [co[o] EXCEPT !.at = "abandoned", !.plan = members, !.g = G]
  <2>1. G \in 0 .. MaxGeneration
    BY DEF Generation
  <2>2. r \in Coordinator /\ r.at = "abandoned" /\ r.i = co[o].i /\ r.plan = members /\ r.g = G
        /\ r.launched = co[o].launched
    BY <1>6, <2>1, Zenon DEF Coordinator, Place
  <2>3. co' = [co EXCEPT ![o] = r]
    BY <1>1 DEF ClaimResume
  <2> HIDE DEF r
  <2> QED BY <2>2, <2>3
<1>8. co' \in [Owner -> Coordinator] /\ co'[o] = r /\ \A x \in Owner \ {o} : co'[x] = co[x]
  BY <1>6, <1>7
<1>9. TypeOK'
  BY <1>4, <1>5, <1>8 DEF IInv, TypeOK
<1>10. RowsOK'
  <2>1. \A m \in Member, g \in Generation : runtime[m][g] # "none" => g = 1 \/ g <= G
    BY <1>2, <1>3 DEF IInv, RowsOK, Generation
  <2>2. G > 0
    BY DEF Generation
  <2> QED BY <1>4, <1>5, <2>1, <2>2 DEF IInv, RowsOK, Continuing
<1>11. HostsOK'
  <2>1. row.state = "suspended" \/ row.state = "resuming"
    BY DEF ClaimResume, MayClaimResume
  <2> QED BY <1>3, <1>4, <1>5, <2>1 DEF IInv, HostsOK, Continuing
<1>12. ~Past'
  BY <1>4, <1>7, <1>8 DEF Past, HoldsResume, Launching
<1>13. CoordinatorOK(o)' /\ TargetsOK(o)'
  <2>1. co[o].i = 1 /\ co[o].launched = {}
    BY <1>6 DEF IInv, CoordinatorOK, PlaceOK
  <2>2. PlaceOK(o)' /\ SuspendOK(o)' /\ LaunchedOK(o)' /\ TargetsOK(o)'
    BY <1>7, <1>8, <2>1 DEF PlaceOK, SuspendOK, LaunchedOK, TargetsOK, Stops, SuspendPlaces, Launching
  <2>3. ResumeOK(o)'
    BY <1>4, <1>5, <1>7, <1>8 DEF ResumeOK, Expected, Launching, IInv, RowsOK, Continuing
  <2> QED BY <2>2, <2>3 DEF CoordinatorOK
<1>14. ASSUME NEW x \in Owner, x # o PROVE CoordinatorOK(x)' /\ TargetsOK(x)'
  <2>1. co'[x] = co[x]
    BY <1>8, <1>14
  <2>2. CoordinatorOK(x)'
    BY <1>4, <1>5, <1>14, <2>1, OthersKeep DEF HoldsResume
  <2>3. row.state # "suspending"
    BY DEF ClaimResume, MayClaimResume
  <2>4. TargetsOK(x)'
    BY <1>3, <1>4, <1>5, <1>12, <2>1, <2>3 DEF IInv, TargetsOK, Stops, Continuing
  <2> QED BY <2>2, <2>4
<1> QED BY <1>9, <1>10, <1>11, <1>13, <1>14 DEF IInv

LEMMA ResumeRefusedKeeps ==
  ASSUME IInv, NEW o \in Owner, ResumeRefused(o)
  PROVE  IInv'
BY RestStep, UnchangedAges DEF ResumeRefused, IInv

LEMMA BeginStopAbandonedKeeps ==
  ASSUME IInv, NEW o \in Owner, BeginStopAbandoned(o)
  PROVE  IInv'
<1>1. co[o].at = "abandoned" /\ co[o].i \in Member /\ co[o] \in Coordinator
      /\ co[o].at \in ResumePlaces /\ Ages
  <2>1. co[o] \in Coordinator /\ co[o].at = "abandoned" /\ co[o].i <= Members /\ Ages
    BY UnchangedAges DEF BeginStopAbandoned, AtMember, IInv, TypeOK
  <2>2. co[o].i \in Member
    BY <2>1, LifecycleAssumption DEF Coordinator, Member
  <2> QED BY <2>1, <2>2 DEF ResumePlaces
<1>2. CASE NextMember(o, "abandoned")
  <2>1. Moves(o, "abandoned", co[o].i + 1)
    BY <1>1, <1>2, NextIs DEF IInv, Place
  <2>2. CoordinatorOK(o)'
    BY <1>1, <2>1, ResumeMove DEF BeginStopAbandoned, Moves, Expected, ResumePlaces, Launching
  <2>3. TargetsOK(o)' /\ (Past' => Past)
    BY <2>1 DEF BeginStopAbandoned, Moves, TargetsOK, Stops, Past, HoldsResume, Launching
  <2> QED BY <1>1, <2>1, <2>2, <2>3, MoveKeeps DEF BeginStopAbandoned
<1>3. CASE Goto(o, "failed")
  BY <1>1, <1>3, RestStep DEF BeginStopAbandoned
<1>4. CASE PhaseOf(o, co[o].i) \in {"launched", "provider_resumed"} /\ HoldsResume(o)
           /\ Goto(o, "stopAbandoned")
  <2>1. Moves(o, "stopAbandoned", co[o].i)
    BY <1>4, GotoIs DEF IInv, Place
  <2>2. runtime[co[o].i][co[o].g] # "none"
    <3>1. {l \in LaunchesOf(co[o].g) : l.member = co[o].i} # {}
      BY <1>4 DEF PhaseOf
    <3> QED BY <3>1 DEF LaunchesOf, IInv, RowsOK
  <2>3. CoordinatorOK(o)'
    BY <1>1, <2>1, ResumeMove DEF BeginStopAbandoned, Moves, Expected, ResumePlaces, Launching
  <2>4. \A m \in Continuing : Stops(o, m)' => runtime[m][co[o].g] # "none"
    BY <2>1, <2>2 DEF Moves, Stops
  <2>5. TargetsOK(o)'
    BY <1>1, <1>4, <2>1, <2>4, AimKeeps DEF BeginStopAbandoned
  <2>6. Past' => Past
    BY <2>1 DEF BeginStopAbandoned, Moves, Past, HoldsResume, Launching
  <2> QED BY <1>1, <2>1, <2>3, <2>5, <2>6, MoveKeeps DEF BeginStopAbandoned
<1> QED BY <1>2, <1>3, <1>4 DEF BeginStopAbandoned

\* What was asked to stop under the resume lease is down, or the request gives
\* up.
LEMMA EndStopUnderKeeps ==
  ASSUME IInv, NEW o \in Owner,
         \/ EndStopUnder(o, "stopAbandoned", "abandoned")
         \/ EndStopUnder(o, "stopClaim", "reconcile")
  PROVE  IInv'
<1>1. /\ co[o] \in Coordinator /\ co[o].at \in {"stopAbandoned", "stopClaim"} /\ co[o].i \in Member
      /\ co[o].at \in ResumePlaces /\ co[o].g \in Generation
      /\ UNCHANGED <<row, members, gen, outcome, launches, resumed, ended, reattached, crashes>>
  BY DEF EndStopUnder, IInv, TypeOK, CoordinatorOK, PlaceOK, ResumePlaces
<1>2. CASE Goto(o, "failed")
  <2>1. runtime' = runtime \/ runtime' = Stopped(co[o].i, co[o].g)
    BY DEF EndStopUnder
  <2>2. Ages
    BY <1>1, <2>1, UnchangedAges, StoppedAges DEF IInv
  <2> QED BY <1>1, <1>2, <2>2, RestStep
<1>3. ASSUME runtime' = Stopped(co[o].i, co[o].g),
             NEW p \in {"abandoned", "reconcile"}, NextMember(o, p),
             p = "reconcile" => co[o].at = "stopClaim"
      PROVE  IInv'
  <2>1. Moves(o, p, co[o].i + 1)
    BY <1>1, <1>3, NextIs DEF IInv, Place
  <2>2. Ages /\ runtime'[co[o].i][co[o].g] \notin Live
    BY <1>1, <1>3, StoppedAges DEF IInv
  <2>3. ASSUME HoldsResume(o), NEW m \in Continuing, runtime'[m][co[o].g] \in Live
        PROVE  Expected(o, m)'
    <3>1. m \in Member /\ runtime[m][co[o].g] \in Live
      BY <1>1, <2>2, <2>3 DEF Continuing, Ages
    <3>2. Expected(o, m) /\ m # co[o].i
      BY <1>1, <2>2, <2>3, <3>1 DEF IInv, CoordinatorOK, ResumeOK
    <3>3. p = "reconcile" => co[o].i + 1 <= m
      BY <1>1, <1>3, <3>1, <3>2 DEF Expected, Member
    <3> QED BY <2>1, <3>3 DEF Moves, Expected, Launching
  <2>4. CoordinatorOK(o)'
    BY <1>1, <2>1, <2>2, <2>3, ResumeMove DEF ResumePlaces, Launching
  <2>5. TargetsOK(o)' /\ (Past' => Past)
    BY <1>1, <2>1 DEF Moves, TargetsOK, Stops, Past, HoldsResume, Launching
  <2> QED BY <1>1, <2>1, <2>2, <2>4, <2>5, MoveKeeps
<1> QED BY <1>2, <1>3 DEF EndStopUnder

\* The launches of the generation are forgotten by the holder of the lease.
LEMMA DiscardIs ==
  ASSUME IInv, NEW g \in Generation, Discard(g)
  PROVE  /\ ended \subseteq ended' /\ ended' \subseteq Member
         /\ resumed' \in [Member -> 0 .. MaxGeneration]
         /\ launches' \subseteq launches
         /\ reattached' \in [Generation -> SUBSET Member]
<1>1. reattached \in [Generation -> SUBSET Member] /\ ended \subseteq Member
      /\ resumed \in [Member -> 0 .. MaxGeneration]
  BY DEF IInv, TypeOK
<1>2. ended \subseteq ended' /\ ended' \subseteq Member
  BY <1>1 DEF Discard
<1>3. resumed' \in [Member -> 0 .. MaxGeneration]
  <2>1. \A m \in Member : (IF resumed[m] = g THEN 0 ELSE resumed[m]) \in 0 .. MaxGeneration
    BY <1>1, LifecycleAssumption
  <2> QED BY <2>1 DEF Discard
<1>4. reattached' \in [Generation -> SUBSET Member]
  BY <1>1 DEF Discard
<1> QED BY <1>2, <1>3, <1>4 DEF Discard

LEMMA DiscardAbandonedKeeps ==
  ASSUME IInv, NEW o \in Owner, DiscardAbandoned(o)
  PROVE  IInv'
<1>1. /\ co[o] \in Coordinator /\ co[o].at = "abandoned" /\ co[o].at \in ResumePlaces
      /\ co[o].g \in Generation /\ Ages /\ RowFades
      /\ UNCHANGED <<row, members, gen, outcome, runtime, crashes>>
  BY UnchangedAges DEF DiscardAbandoned, AtEnd, IInv, TypeOK, CoordinatorOK, PlaceOK, ResumePlaces, RowFades
<1>2. CASE Goto(o, "failed") /\ UNCHANGED <<ended, reattached, resumed, launches>>
  BY <1>1, <1>2, RestStep
<1>3. CASE FirstMember(o, "reconcile")
  <2>1. Moves(o, "reconcile", 1)
    BY <1>3, FirstIs DEF IInv, Place
  <2>2. /\ ended \subseteq ended' /\ ended' \subseteq Member
        /\ resumed' \in [Member -> 0 .. MaxGeneration] /\ launches' \subseteq launches
        /\ reattached' \in [Generation -> SUBSET Member]
        /\ resumed' = resumed \/ HoldsResume(o)
    <3>1. CASE UNCHANGED <<ended, reattached, resumed, launches>>
      BY <3>1 DEF IInv, TypeOK
    <3>2. CASE HoldsResume(o) /\ Discard(co[o].g)
      BY <1>1, <3>2, DiscardIs
    <3> QED BY <1>3, <3>1, <3>2, <2>1 DEF DiscardAbandoned, Goto, Moves
  <2>3. CoordinatorOK(o)'
    <3>1. \A m \in Continuing : 1 <= m
      BY DEF Continuing, Member
    <3>2. \A m \in Continuing : Expected(o, m)'
      BY <2>1, <3>1 DEF Moves, Expected, Launching
    <3> QED BY <1>1, <2>1, <2>2, <3>2, ResumeMove DEF ResumePlaces, Launching
  <2>4. TargetsOK(o)' /\ (Past' => Past)
    BY <1>1, <2>1 DEF Moves, TargetsOK, Stops, Past, HoldsResume, Launching
  <2>5. TypeOK'
    BY <1>1, <2>1, <2>2 DEF IInv, TypeOK, Moves
  <2>6. \A l \in launches' : l.member \in Member /\ l.generation \in Generation
                             /\ runtime[l.member][l.generation] # "none"
    BY <2>2 DEF IInv, RowsOK, TypeOK, Launch
  <2>7. Continuing' \subseteq members' /\ \A x \in Owner \ {o} : co'[x] = co[x]
    BY <1>1, <2>1, <2>2 DEF IInv, RowsOK, Continuing, Moves
  <2> QED BY <1>1, <2>2, <2>3, <2>4, <2>5, <2>6, <2>7, QuietStep
<1> QED BY <1>2, <1>3 DEF DiscardAbandoned

LEMMA BeginReconcileKeeps ==
  ASSUME IInv, NEW o \in Owner, BeginReconcile(o)
  PROVE  IInv'
<1>1. co[o].at = "reconcile" /\ co[o].i \in Member /\ co[o] \in Coordinator
      /\ co[o].at \in ResumePlaces /\ Ages
      /\ UNCHANGED <<row, members, gen, outcome, launches, resumed, runtime, ended, reattached, crashes>>
  <2>1. co[o] \in Coordinator /\ co[o].at = "reconcile" /\ co[o].i <= Members /\ Ages
    BY UnchangedAges DEF BeginReconcile, AtMember, IInv, TypeOK
  <2>2. co[o].i \in Member
    BY <2>1, LifecycleAssumption DEF Coordinator, Member
  <2> QED BY <2>1, <2>2 DEF ResumePlaces, BeginReconcile
<1>2. CASE Goto(o, "failed")
  BY <1>1, <1>2, RestStep
<1>3. ASSUME NextMember(o, "reconcile"),
             co[o].i \notin co[o].plan \/ runtime[co[o].i][co[o].g] \notin Live
      PROVE  IInv'
  <2>1. Moves(o, "reconcile", co[o].i + 1)
    BY <1>1, <1>3, NextIs DEF IInv, Place
  <2>2. ASSUME HoldsResume(o), NEW m \in Continuing, runtime'[m][co[o].g] \in Live
        PROVE  Expected(o, m)'
    <3>1. Expected(o, m) /\ m \in co[o].plan /\ m \in Member
      BY <1>1, <2>2 DEF IInv, CoordinatorOK, ResumeOK, Continuing
    <3>2. m # co[o].i
      BY <1>1, <1>3, <2>2, <3>1
    <3>3. co[o].i + 1 <= m
      BY <1>1, <3>1, <3>2 DEF Expected, Member
    <3> QED BY <2>1, <3>3 DEF Moves, Expected, Launching
  <2>4. CoordinatorOK(o)'
    BY <1>1, <2>1, <2>2, ResumeMove DEF ResumePlaces, Launching
  <2>5. TargetsOK(o)' /\ (Past' => Past)
    BY <1>1, <2>1 DEF Moves, TargetsOK, Stops, Past, HoldsResume, Launching
  <2> QED BY <1>1, <2>1, <2>4, <2>5, MoveKeeps
<1>4. ASSUME HoldsResume(o), runtime[co[o].i][co[o].g] \in Live, Goto(o, "stopClaim")
      PROVE  IInv'
  <2>1. Moves(o, "stopClaim", co[o].i)
    BY <1>4, GotoIs DEF IInv, Place
  <2>2. \A m \in Continuing : runtime'[m][co[o].g] \in Live => Expected(o, m)'
    BY <1>1, <1>4, <2>1 DEF Moves, Expected, Launching, IInv, CoordinatorOK, ResumeOK
  <2>3. CoordinatorOK(o)'
    BY <1>1, <2>1, <2>2, ResumeMove DEF ResumePlaces, Launching
  <2>4. \A m \in Continuing : Stops(o, m)' => runtime[m][co[o].g] # "none"
    BY <1>4, <2>1 DEF Moves, Stops, Live
  <2>5. TargetsOK(o)'
    BY <1>1, <1>4, <2>1, <2>4, AimKeeps
  <2>6. Past' => Past
    BY <1>1, <2>1 DEF Moves, Past, HoldsResume, Launching
  <2> QED BY <1>1, <2>1, <2>3, <2>5, <2>6, MoveKeeps
<1> QED BY <1>2, <1>3, <1>4 DEF BeginReconcile

\* Whoever went through all members found nothing of the generation alive:
\* every teardown that still waits comes too late to harm.
LEMMA ReconciledKeeps ==
  ASSUME IInv, NEW o \in Owner, Reconciled(o)
  PROVE  IInv'
<1>1. co[o].at = "reconcile" /\ co[o].i \in Nat /\ co[o].i > Members /\ co[o] \in Coordinator
      /\ co[o].at \in ResumePlaces /\ Ages
      /\ UNCHANGED <<row, members, gen, outcome, launches, resumed, runtime, ended, reattached, crashes>>
  <2>1. co[o] \in Coordinator /\ co[o].at = "reconcile" /\ co[o].i > Members /\ Ages
    BY UnchangedAges DEF Reconciled, AtEnd, IInv, TypeOK
  <2>2. co[o].i \in Nat
    BY <2>1, LifecycleAssumption DEF Coordinator
  <2> QED BY <2>1, <2>2 DEF ResumePlaces, Reconciled
<1>2. Moves(o, "launch", 1)
  BY FirstIs DEF IInv, Place, Reconciled
<1>3. ASSUME HoldsResume(o), NEW m \in Continuing PROVE runtime[m][co[o].g] \notin Live
  <2>1. ~(co[o].i <= m)
    BY <1>1, LifecycleAssumption DEF Continuing, Member
  <2> QED BY <1>1, <1>3, <2>1 DEF IInv, CoordinatorOK, ResumeOK, Expected
<1>4. CoordinatorOK(o)'
  <2>1. \A m \in co[o].plan : ~(m < 1)
    BY <1>1 DEF Coordinator, Member
  <2> QED BY <1>1, <1>2, <1>3, <2>1, ResumeMove DEF ResumePlaces, Launching
<1>5. TargetsOK(o)'
  BY <1>2 DEF Moves, TargetsOK, Stops
<1>6. CASE HoldsResume(o)
  <2>1. co[o].g = row.generation /\ co[o].g \in Generation
    BY <1>1, <1>6 DEF IInv, CoordinatorOK, ResumeOK, PlaceOK
  <2>2. ASSUME NEW x \in Owner, NEW m \in Continuing, Stops(x, m), co[x].g = row.generation
        PROVE  runtime[m][co[x].g] = "ended"
    <3>1. runtime[m][co[x].g] # "none"
      BY <2>2 DEF IInv, TargetsOK
    <3>2. runtime[m][co[x].g] \notin Live /\ runtime[m][co[x].g] \in RuntimeStates
      BY <1>3, <1>6, <2>1, <2>2 DEF IInv, TypeOK, RuntimeStates, Continuing
    <3> QED BY <3>1, <3>2 DEF RuntimeStates, Live
  <2>3. AllStopped
    BY <2>2 DEF AllStopped
  <2> QED BY <1>1, <1>2, <1>4, <1>5, <2>3, MoveKeeps
<1>7. CASE ~HoldsResume(o)
  <2>1. Past' => Past
    BY <1>1, <1>2, <1>7 DEF Moves, Past, HoldsResume, Launching
  <2> QED BY <1>1, <1>2, <1>4, <1>5, <2>1, MoveKeeps
<1> QED BY <1>6, <1>7

LEMMA SkipLaunchKeeps ==
  ASSUME IInv, NEW o \in Owner, SkipLaunch(o)
  PROVE  IInv'
<1>1. co[o].at = "launch" /\ co[o].i \in Member /\ co[o] \in Coordinator
      /\ co[o].at \in ResumePlaces /\ Ages
      /\ UNCHANGED <<row, members, gen, outcome, launches, resumed, runtime, ended, reattached, crashes>>
  <2>1. co[o] \in Coordinator /\ co[o].at = "launch" /\ co[o].i <= Members /\ Ages
    BY UnchangedAges DEF SkipLaunch, AtMember, IInv, TypeOK
  <2>2. co[o].i \in Member
    BY <2>1, LifecycleAssumption DEF Coordinator, Member
  <2> QED BY <2>1, <2>2 DEF ResumePlaces, Launching, SkipLaunch
<1>2. Moves(o, "launch", co[o].i + 1)
  BY <1>1, NextIs DEF IInv, Place, SkipLaunch
<1>3. \A m \in co[o].plan : m < co[o].i + 1 => m \in co[o].launched
  <2> SUFFICES ASSUME NEW m \in co[o].plan, m < co[o].i + 1 PROVE m \in co[o].launched
    OBVIOUS
  <2>1. m \in Member /\ m # co[o].i
    BY <1>1 DEF Coordinator, SkipLaunch
  <2>2. m < co[o].i
    BY <1>1, <2>1 DEF Member
  <2> QED BY <1>1, <2>2 DEF IInv, CoordinatorOK, LaunchedOK, Launching
<1>4. HoldsResume(o) => \A m \in Continuing : runtime'[m][co[o].g] \in Live => Expected(o, m)'
  BY <1>1, <1>2 DEF Moves, Expected, Launching, IInv, CoordinatorOK, ResumeOK
<1>5. CoordinatorOK(o)'
  BY <1>1, <1>2, <1>3, <1>4, ResumeMove DEF ResumePlaces, Launching
<1>6. TargetsOK(o)' /\ (Past' => Past)
  BY <1>1, <1>2 DEF Moves, TargetsOK, Stops, Past, HoldsResume, Launching
<1> QED BY <1>1, <1>2, <1>5, <1>6, MoveKeeps

\* A resume gives up and rolls back what it launched.
LEMMA UndoKeeps ==
  ASSUME IInv, NEW o \in Owner, co[o].at \in Launching, Goto(o, "undo"), Ages,
         UNCHANGED <<row, members, gen, outcome, launches, resumed, ended, reattached, crashes>>,
         co[o].at = "launching" /\ HoldsResume(o) => runtime'[co[o].i][co[o].g] \notin Live
  PROVE  IInv'
<1>1. Moves(o, "undo", co[o].i) /\ co[o].at \in ResumePlaces /\ PlaceOK(o)
  BY GotoIs DEF IInv, Place, ResumePlaces, CoordinatorOK
<1>2. ASSUME HoldsResume(o), NEW m \in Continuing, runtime'[m][co[o].g] \in Live
      PROVE  Expected(o, m)'
  <2>1. runtime[m][co[o].g] \in Live
    BY <1>1, <1>2 DEF PlaceOK, Ages, Continuing
  <2>2. Expected(o, m)
    BY <1>1, <1>2, <2>1 DEF IInv, CoordinatorOK, ResumeOK
  <2>3. m \in co[o].launched
    BY <1>2, <2>2 DEF Expected
  <2> QED BY <1>1, <2>3 DEF Moves, Expected, Launching
<1>3. CoordinatorOK(o)'
  BY <1>1, <1>2, ResumeMove DEF ResumePlaces, Launching
<1>4. TargetsOK(o)' /\ (Past' => Past)
  BY <1>1 DEF Moves, TargetsOK, Stops, Past, HoldsResume, Launching
<1> QED BY <1>1, <1>3, <1>4, MoveKeeps

LEMMA LaunchRefusedKeeps ==
  ASSUME IInv, NEW o \in Owner, LaunchRefused(o)
  PROVE  IInv'
BY UndoKeeps, UnchangedAges DEF LaunchRefused, AtMember, Launching, IInv

LEMMA LaunchFailsKeeps ==
  ASSUME IInv, NEW o \in Owner, LaunchFails(o)
  PROVE  IInv'
<1>1. co[o].at \in Launching /\ co[o].i \in Member /\ co[o].g \in Generation
  BY DEF LaunchFails, IInv, CoordinatorOK, PlaceOK, ResumePlaces, Launching
<1>2. Ages /\ runtime'[co[o].i][co[o].g] \notin Live
  BY <1>1, StoppedAges DEF IInv, LaunchFails
<1> QED BY <1>1, <1>2, UndoKeeps DEF LaunchFails

\* A new host is of the channel's generation and of a session that had none in
\* it: no older host lives and no teardown waits for the new one.
LEMMA BeginLaunchKeeps ==
  ASSUME IInv, NEW o \in Owner, BeginLaunch(o)
  PROVE  IInv'
<1>1. co[o] \in Coordinator /\ co[o].at = "launch" /\ HoldsResume(o) /\ CoordinatorOK(o)
      /\ UNCHANGED <<row, members, gen, outcome, launches, resumed, ended, reattached, crashes>>
  BY DEF BeginLaunch, AtMember, IInv, TypeOK
<1>2. PICK m \in Member, g \in Generation :
        /\ m = co[o].i /\ g = co[o].g /\ g = row.generation /\ runtime[m][g] = "none"
        /\ runtime' = [runtime EXCEPT ![m][g] = "creating"]
        /\ co' = [co EXCEPT ![o].at = "launching", ![o].busy = members \cap {m}]
  <2>1. co[o].i \in Member
    BY <1>1, LifecycleAssumption DEF BeginLaunch, AtMember, Coordinator, Member
  <2>2. co[o].g \in Generation /\ co[o].g = row.generation
    BY <1>1 DEF CoordinatorOK, PlaceOK, ResumeOK, ResumePlaces, Launching
  <2> QED BY <2>1, <2>2 DEF BeginLaunch
<1>3. /\ runtime' \in [Member -> [Generation -> RuntimeStates]]
      /\ runtime'[m][g] = "creating"
      /\ \A n \in Member, h \in Generation : n # m \/ h # g => runtime'[n][h] = runtime[n][h]
  <2>1. runtime \in [Member -> [Generation -> RuntimeStates]] /\ "creating" \in RuntimeStates
    BY DEF IInv, TypeOK, RuntimeStates
  <2>2. [runtime[m] EXCEPT ![g] = "creating"] \in [Generation -> RuntimeStates]
    BY <2>1
  <2> QED BY <2>1, <2>2, <1>2
<1>4. PICK r \in Coordinator : /\ co' = [co EXCEPT ![o] = r] /\ r.at = "launching" /\ r.i = m
                               /\ r.plan = co[o].plan /\ r.launched = co[o].launched
                               /\ r.clean = co[o].clean /\ r.g = g
  <2> DEFINE b == members \cap {m}
             r == [co[o] EXCEPT !.at = "launching", !.busy = b]
  <2>1. b \in SUBSET Member
    OBVIOUS
  <2>3. co' = [co EXCEPT ![o] = r]
    BY <1>2
  <2> HIDE DEF b
  <2>2. r \in Coordinator /\ r.at = "launching" /\ r.i = co[o].i /\ r.plan = co[o].plan
        /\ r.launched = co[o].launched /\ r.clean = co[o].clean /\ r.g = co[o].g
    BY <1>1, <2>1, Zenon DEF Coordinator, Place
  <2> HIDE DEF r
  <2> QED BY <1>2, <2>2, <2>3
<1>5. co' \in [Owner -> Coordinator] /\ co'[o] = r /\ \A x \in Owner \ {o} : co'[x] = co[x]
  BY <1>4 DEF IInv, TypeOK
<1>6. TypeOK'
  BY <1>1, <1>3, <1>5 DEF IInv, TypeOK, RuntimeStates
<1>7. RowsOK'
  <2>1. \A n \in Member : runtime'[n][1] # "none"
    BY <1>2, <1>3 DEF IInv, RowsOK, Generation
  <2>2. \A n \in Member, h \in Generation : runtime'[n][h] # "none" => h = 1 \/ h <= row.generation
    BY <1>2, <1>3 DEF IInv, RowsOK, Generation
  <2>3. \A l \in launches : runtime'[l.member][l.generation] # "none"
    <3>1. \A l \in launches : l.member \in Member /\ l.generation \in Generation
      BY DEF IInv, TypeOK, Launch
    <3> QED BY <1>2, <1>3, <3>1 DEF IInv, RowsOK
  <2> QED BY <1>1, <2>1, <2>2, <2>3 DEF IInv, RowsOK, Continuing
<1>8. row.state = "resuming" /\ row.resumeOwner = o
  BY <1>1 DEF HoldsResume
<1>9. HostsOK'
  <2> SUFFICES ASSUME NEW n \in Continuing, NEW h \in Generation, runtime'[n][h] \in Live
               PROVE  h = row.generation /\ \A k \in Generation : h < k => runtime'[n][k] = "none"
    BY <1>1, <1>8 DEF HostsOK, Continuing
  <2>1. n \in Member
    BY DEF Continuing
  <2>2. h = g
    BY <1>2, <1>3, <1>8, <2>1 DEF IInv, HostsOK
  <2>3. ASSUME NEW k \in Generation, h < k PROVE runtime'[n][k] = "none"
    <3>1. ~(k = 1 \/ k <= row.generation) /\ k # g
      BY <1>2, <2>2, <2>3 DEF Generation
    <3>2. runtime[n][k] = "none"
      BY <2>1, <3>1 DEF IInv, RowsOK
    <3> QED BY <1>3, <2>1, <3>1, <3>2
  <2> QED BY <1>2, <2>2, <2>3
<1>10. \A n \in Member, h \in Generation : runtime[n][h] # "none" => runtime'[n][h] = runtime[n][h]
  BY <1>2, <1>3
<1>11. CoordinatorOK(o)' /\ TargetsOK(o)'
  <2>1. PlaceOK(o)' /\ SuspendOK(o)' /\ TargetsOK(o)'
    BY <1>4, <1>5 DEF PlaceOK, SuspendOK, TargetsOK, Stops, SuspendPlaces, ResumePlaces, Launching
  <2>2. ASSUME NEW n \in Continuing, runtime'[n][g] \in Live PROVE Expected(o, n)'
    <3>1. n = m \/ runtime[n][g] \in Live
      BY <1>3, <2>2 DEF Continuing
    <3>2. n = m \/ n \in co[o].launched
      BY <1>1, <1>2, <3>1 DEF CoordinatorOK, ResumeOK, Expected, ResumePlaces, Launching
    <3> QED BY <1>4, <1>5, <3>2 DEF Expected, Launching
  <2>3. ResumeOK(o)'
    <3>1. Continuing \subseteq co[o].plan
      BY <1>1 DEF CoordinatorOK, ResumeOK, ResumePlaces, Launching
    <3> QED BY <1>1, <1>2, <1>4, <1>5, <2>2, <3>1 DEF ResumeOK, Continuing
  <2>4. \A n \in co[o].launched : n \in Member /\ runtime[n][g] \in {"running", "ended"}
    BY <1>1, <1>2 DEF CoordinatorOK, LaunchedOK, Coordinator
  <2>5. \A n \in co[o].launched : runtime'[n][g] \in {"running", "ended"}
    BY <1>10, <2>4
  <2>6. \A n \in co[o].plan : n < m => n \in co[o].launched
    BY <1>1, <1>2 DEF CoordinatorOK, LaunchedOK, Launching
  <2>7. LaunchedOK(o)'
    BY <1>3, <1>4, <1>5, <2>5, <2>6 DEF LaunchedOK
  <2> QED BY <2>1, <2>3, <2>7 DEF CoordinatorOK
<1>12. ASSUME NEW x \in Owner, x # o PROVE CoordinatorOK(x)' /\ TargetsOK(x)'
  <2>1. co'[x] = co[x] /\ CoordinatorOK(x) /\ TargetsOK(x) /\ co[x] \in Coordinator
    BY <1>5, <1>12 DEF IInv, TypeOK
  <2>2. Continuing' = Continuing /\ Continuing \subseteq Member
    BY <1>1 DEF Continuing
  <2>3. PlaceOK(x)'
    BY <1>1, <2>1 DEF CoordinatorOK, PlaceOK
  <2>4. SuspendOK(x)'
    <3>1. \A n \in Member : co[x].gens[n] \in Generation
      BY <2>1 DEF Coordinator
    <3> QED BY <1>1, <1>8, <1>10, <2>1, <2>2, <3>1 DEF CoordinatorOK, SuspendOK
  <2>5. ResumeOK(x)'
    BY <1>1, <1>8, <1>12 DEF ResumeOK, HoldsResume
  <2>6. LaunchedOK(x)'
    <3>1. \A n \in co[x].launched : co[x].g \in Generation /\ n \in Member
                                    /\ runtime[n][co[x].g] \in {"running", "ended"}
      BY <2>1 DEF CoordinatorOK, LaunchedOK, Coordinator
    <3>2. \A n \in co[x].launched : runtime'[n][co[x].g] \in {"running", "ended"}
      BY <1>10, <3>1
    <3>3. co[x].at = "launching" => runtime'[co[x].i][co[x].g] # "none"
      BY <1>10, <2>1 DEF CoordinatorOK, LaunchedOK, PlaceOK, ResumePlaces, Launching
    <3> QED BY <2>1, <3>1, <3>2, <3>3 DEF CoordinatorOK, LaunchedOK
  <2>7. TargetsOK(x)'
    <3>1. Past
      BY <1>1 DEF Past, Launching
    <3>2. \A n \in Member : co[x].gens[n] \in Generation
      BY <2>1 DEF Coordinator
    <3>3. ASSUME NEW n \in Continuing, co[x].at = "stopping", n = co[x].i
          PROVE  runtime'[n][co[x].gens[n]] = "ended"
      BY <1>8, <1>10, <2>1, <2>2, <3>2, <3>3 DEF TargetsOK
    <3>4. ASSUME NEW n \in Continuing, Stops(x, n)
          PROVE  runtime'[n][co[x].g] = "ended"
      <4>1. runtime[n][co[x].g] = "ended"
        BY <2>1, <3>1, <3>4 DEF TargetsOK
      <4>2. co[x].g \in Generation
        BY <2>1, <3>4 DEF Stops, CoordinatorOK, PlaceOK, ResumePlaces
      <4> QED BY <1>10, <2>2, <4>1, <4>2
    <3> QED BY <2>1, <2>2, <3>3, <3>4 DEF TargetsOK, Stops
  <2> QED BY <2>3, <2>4, <2>5, <2>6, <2>7 DEF CoordinatorOK
<1> QED BY <1>6, <1>7, <1>9, <1>11, <1>12 DEF IInv

LEMMA EndLaunchKeeps ==
  ASSUME IInv, NEW o \in Owner, EndLaunch(o)
  PROVE  IInv'
<1>1. co[o] \in Coordinator /\ co[o].at = "launching" /\ CoordinatorOK(o)
      /\ UNCHANGED <<row, outcome, resumed, ended, reattached, crashes>>
  BY DEF EndLaunch, IInv, TypeOK
<1>2. PICK m \in Member, g \in Generation : m = co[o].i /\ g = co[o].g /\ runtime[m][g] # "none"
  BY <1>1 DEF CoordinatorOK, PlaceOK, LaunchedOK, ResumePlaces, Launching
<1>3. PICK s \in RuntimeStates : /\ s = IF runtime[m][g] = "creating" THEN "running" ELSE runtime[m][g]
                                 /\ runtime' = [runtime EXCEPT ![m][g] = s]
  <2>1. runtime[m][g] \in RuntimeStates
    BY DEF IInv, TypeOK, RuntimeStates
  <2> QED BY <1>2, <2>1 DEF EndLaunch, RuntimeStates
<1>4. s \in {"running", "ended"}
  BY <1>2, <1>3 DEF RuntimeStates
<1>5. /\ runtime' \in [Member -> [Generation -> RuntimeStates]]
      /\ \A n \in Member, h \in Generation :
           runtime'[n][h] = IF n = m /\ h = g THEN s ELSE runtime[n][h]
  <2>1. runtime \in [Member -> [Generation -> RuntimeStates]]
    BY DEF IInv, TypeOK, RuntimeStates
  <2>2. [runtime[m] EXCEPT ![g] = s] \in [Generation -> RuntimeStates]
    BY <2>1
  <2> QED BY <2>1, <2>2, <1>3
<1>6. Ages
  <2>1. runtime[m][g] \in Live \/ s = runtime[m][g]
    BY <1>2, <1>3 DEF Live, RuntimeStates
  <2>2. ASSUME NEW n \in Member, NEW h \in Generation
        PROVE  /\ (runtime'[n][h] = "none") <=> (runtime[n][h] = "none")
               /\ runtime'[n][h] \in Live => runtime[n][h] \in Live
               /\ runtime[n][h] = "running" => runtime'[n][h] # "creating"
    <3>1. CASE n = m /\ h = g
      BY <1>2, <1>4, <1>5, <2>1, <3>1 DEF Live
    <3>2. CASE ~(n = m /\ h = g)
      BY <1>5, <3>2
    <3> QED BY <3>1, <3>2
  <2> QED BY <1>5, <2>2 DEF Ages
<1>7. members' \subseteq Member /\ members \subseteq members' /\ gen' \in [Member -> Generation]
  BY <1>2 DEF EndLaunch, IInv, TypeOK
<1>8. Continuing' \subseteq members' /\ RowFades /\ ended \subseteq ended'
  BY <1>1, <1>7 DEF IInv, RowsOK, Continuing, RowFades
<1>9. CASE ~HoldsResume(o)
  <2>1. Moves(o, "undo", co[o].i) /\ launches' = launches
    BY <1>9, GotoIs DEF EndLaunch, IInv, Place
  <2>2. CoordinatorOK(o)'
    BY <1>1, <1>6, <1>9, <2>1, ResumeMove DEF ResumePlaces, Launching
  <2>3. TargetsOK(o)' /\ (Past' => Past)
    BY <1>1, <2>1 DEF Moves, TargetsOK, Stops, Past, HoldsResume, Launching
  <2>4. TypeOK'
    BY <1>1, <1>5, <1>7, <2>1 DEF IInv, TypeOK, Moves, RuntimeStates
  <2>5. \A l \in launches' : l.member \in Member /\ l.generation \in Generation
                             /\ runtime[l.member][l.generation] # "none"
    BY <2>1 DEF IInv, RowsOK, TypeOK, Launch
  <2>6. \A x \in Owner \ {o} : co'[x] = co[x]
    BY <2>1 DEF Moves
  <2> QED BY <1>1, <1>6, <1>8, <2>2, <2>3, <2>4, <2>5, <2>6, QuietStep
<1>10. CASE HoldsResume(o)
  <2>1. PICK p \in {"recorded", "launch"}, j \in 1 .. Members + 1 :
          /\ p = "recorded" => j = m
          /\ p = "launch" => j = m + 1
          /\ co' = [co EXCEPT ![o].launched = @ \cup {m}, ![o].at = p, ![o].i = j]
    <3>1. m + 1 \in 1 .. Members + 1 /\ m \in 1 .. Members + 1
      BY LifecycleAssumption DEF Member
    <3>2. CASE m \in WithProvider
      BY <1>2, <1>10, <3>1, <3>2 DEF EndLaunch
    <3>3. CASE m \notin WithProvider
      BY <1>2, <1>10, <3>1, <3>3 DEF EndLaunch
    <3> QED BY <3>2, <3>3
  <2>2. PICK r \in Coordinator : /\ co' = [co EXCEPT ![o] = r] /\ r.at = p /\ r.i = j
                                 /\ r.plan = co[o].plan /\ r.launched = co[o].launched \cup {m}
                                 /\ r.g = g
    <3> DEFINE l == co[o].launched \cup {m}
               r == [co[o] EXCEPT !.launched = l, !.at = p, !.i = j]
    <3>1. l \in SUBSET Member
      BY <1>1 DEF Coordinator
    <3>2. co' = [co EXCEPT ![o] = r]
      BY <2>1
    <3>3. l = co[o].launched \cup {m}
      OBVIOUS
    <3> HIDE DEF l
    <3>4. r \in Coordinator /\ r.at = p /\ r.i = j /\ r.plan = co[o].plan
          /\ r.launched = l /\ r.g = co[o].g
      BY <1>1, <3>1, Zenon DEF Coordinator, Place
    <3> HIDE DEF r
    <3> QED BY <1>2, <3>2, <3>3, <3>4
  <2>3. co' \in [Owner -> Coordinator] /\ co'[o] = r /\ \A x \in Owner \ {o} : co'[x] = co[x]
    BY <2>2 DEF IInv, TypeOK
  <2>4. launches' = launches \cup {[member |-> m, generation |-> g, phase |-> "launched"]}
    BY <1>2, <1>10 DEF EndLaunch
  <2>5. launches' \subseteq Launch
    BY <2>4 DEF IInv, TypeOK, Launch
  <2>6. \A l \in launches' : l.member \in Member /\ l.generation \in Generation
                             /\ runtime[l.member][l.generation] # "none"
    BY <1>2, <2>4 DEF IInv, RowsOK, TypeOK, Launch
  <2>7. TypeOK'
    BY <1>1, <1>5, <1>7, <2>3, <2>5 DEF IInv, TypeOK, RuntimeStates
  <2>8. CoordinatorOK(o)'
    <3>1. PlaceOK(o)' /\ SuspendOK(o)'
      BY <2>1, <2>2, <2>3 DEF PlaceOK, SuspendOK, SuspendPlaces, ResumePlaces, Launching
    <3>2. g = row.generation /\ Continuing \subseteq co[o].plan
      BY <1>1, <1>2, <1>10 DEF CoordinatorOK, ResumeOK, ResumePlaces, Launching
    <3>3. ASSUME NEW n \in Continuing, runtime'[n][g] \in Live PROVE Expected(o, n)'
      <4>1. runtime[n][g] \in Live
        BY <1>6, <3>3 DEF Ages, Continuing
      <4>2. n \in co[o].launched \cup {m}
        BY <1>1, <1>2, <1>10, <4>1 DEF CoordinatorOK, ResumeOK, Expected, ResumePlaces, Launching
      <4> QED BY <2>2, <2>3, <4>2 DEF Expected, Launching
    <3>4. ResumeOK(o)'
      BY <1>1, <2>2, <2>3, <3>2, <3>3 DEF ResumeOK, Continuing
    <3>5. \A n \in co[o].launched \cup {m} : runtime'[n][g] \in {"running", "ended"}
      <4>1. \A n \in co[o].launched : n \in Member /\ runtime[n][g] \in {"running", "ended"}
        BY <1>1, <1>2 DEF CoordinatorOK, LaunchedOK, Coordinator
      <4> QED BY <1>4, <1>5, <4>1
    <3>6. \A n \in co[o].plan : n < j => n \in co[o].launched \cup {m}
      <4> SUFFICES ASSUME NEW n \in co[o].plan, n < j, n # m PROVE n \in co[o].launched
        OBVIOUS
      <4>1. n \in Member
        BY <1>1 DEF Coordinator
      <4>2. n < m
        BY <2>1, <4>1 DEF Member
      <4> QED BY <1>1, <1>2, <4>2 DEF CoordinatorOK, LaunchedOK, Launching
    <3>7. LaunchedOK(o)'
      BY <2>1, <2>2, <2>3, <3>5, <3>6 DEF LaunchedOK
    <3> QED BY <3>1, <3>4, <3>7 DEF CoordinatorOK
  <2>9. TargetsOK(o)'
    BY <2>2, <2>3 DEF TargetsOK, Stops
  <2>10. Past
    BY <1>1, <1>10 DEF Past, Launching
  <2> QED BY <1>1, <1>6, <1>8, <2>3, <2>6, <2>7, <2>8, <2>9, <2>10, QuietStep
<1> QED BY <1>9, <1>10

\* The holder of the lease records a phase and goes on.
LEMMA PhaseKeeps ==
  ASSUME IInv, NEW o \in Owner, NEW phase \in {"provider_resuming", "provider_resumed"},
         SetPhase(o, phase), HoldsResume(o), NEW p \in {"provider", "launch"}, NEW j \in Nat, Moves(o, p, j),
         co[o].at \in {"recorded", "provider"},
         p = "provider" => j = co[o].i, p = "launch" => j = co[o].i + 1,
         UNCHANGED <<row, members, gen, outcome, resumed, runtime, ended, reattached, crashes>>
  PROVE  IInv'
<1>1. co[o] \in Coordinator /\ CoordinatorOK(o) /\ co[o].i \in Member /\ Ages
  BY UnchangedAges DEF IInv, TypeOK, CoordinatorOK, PlaceOK
<1>2. ASSUME NEW l \in launches'
      PROVE  l \in Launch /\ runtime[l.member][l.generation] # "none"
  <2>1. PICK k \in launches :
          l = IF k.member = co[o].i /\ k.generation = co[o].g THEN [k EXCEPT !.phase = phase] ELSE k
    BY DEF SetPhase
  <2>2. k \in Launch /\ runtime[k.member][k.generation] # "none"
    BY DEF IInv, TypeOK, RowsOK
  <2>3. l \in Launch /\ l.member = k.member /\ l.generation = k.generation
    BY <2>1, <2>2 DEF Launch
  <2> QED BY <2>2, <2>3
<1>3. TypeOK'
  BY <1>1, <1>2 DEF IInv, TypeOK, Moves
<1>4. \A n \in co[o].plan : n < j => n \in co[o].launched
  <2> SUFFICES ASSUME NEW n \in co[o].plan, n < j PROVE n \in co[o].launched
    OBVIOUS
  <2>1. n \in Member
    BY <1>1 DEF Coordinator
  <2>2. n < co[o].i \/ n = co[o].i
    BY <1>1, <2>1 DEF Member
  <2> QED BY <1>1, <2>2 DEF CoordinatorOK, LaunchedOK, Launching
<1>5. \A m \in Continuing : runtime'[m][co[o].g] \in Live => Expected(o, m)'
  BY <1>1 DEF Moves, Expected, Launching, CoordinatorOK, ResumeOK, ResumePlaces
<1>6. CoordinatorOK(o)'
  <2>1. co[o].i \in co[o].launched
    BY <1>1 DEF CoordinatorOK, LaunchedOK
  <2> QED BY <1>1, <1>4, <1>5, <2>1, ResumeMove DEF ResumePlaces, Launching
<1>7. TargetsOK(o)' /\ Past
  BY DEF Moves, TargetsOK, Stops, Past, Launching
<1>8. \A l \in launches' : l.member \in Member /\ l.generation \in Generation
                           /\ runtime[l.member][l.generation] # "none"
  BY <1>2 DEF Launch
<1>9. RowFades /\ Continuing' \subseteq members' /\ ended \subseteq ended'
      /\ \A x \in Owner \ {o} : co'[x] = co[x]
  BY DEF IInv, RowsOK, Continuing, RowFades, Moves
<1> QED BY <1>1, <1>3, <1>6, <1>7, <1>8, <1>9, QuietStep

LEMMA ProviderResumingKeeps ==
  ASSUME IInv, NEW o \in Owner, ProviderResuming(o)
  PROVE  IInv'
<1>1. CASE HoldsResume(o)
  <2>1. Moves(o, "provider", co[o].i)
    BY <1>1, GotoIs DEF ProviderResuming, IInv, Place
  <2>2. co[o].i \in Nat
    BY LifecycleAssumption DEF IInv, TypeOK, Coordinator
  <2> QED BY <1>1, <2>1, <2>2, PhaseKeeps DEF ProviderResuming
<1>2. CASE ~HoldsResume(o)
  BY <1>2, UndoKeeps, UnchangedAges DEF ProviderResuming, Launching, IInv
<1> QED BY <1>1, <1>2

LEMMA ProviderResumedKeeps ==
  ASSUME IInv, NEW o \in Owner, ProviderResumed(o)
  PROVE  IInv'
<1>1. CASE HoldsResume(o)
  <2>1. co[o].i \in Member /\ co[o].i + 1 \in Nat
    BY DEF ProviderResumed, IInv, CoordinatorOK, PlaceOK, Member
  <2>2. Moves(o, "launch", co[o].i + 1)
    BY <1>1, <2>1, NextIs DEF ProviderResumed, IInv, Place
  <2> QED BY <1>1, <2>1, <2>2, PhaseKeeps DEF ProviderResumed
<1>2. CASE ~HoldsResume(o)
  BY <1>2, UndoKeeps, UnchangedAges DEF ProviderResumed, Launching, IInv
<1> QED BY <1>1, <1>2

\* Every member of the plan was launched by now, and is installed.
LEMMA InstallKeeps ==
  ASSUME IInv, NEW o \in Owner, Install(o)
  PROVE  IInv'
<1>1. CASE ~HoldsResume(o)
  BY <1>1, UndoKeeps, UnchangedAges DEF Install, AtEnd, Launching, IInv
<1>2. CASE HoldsResume(o)
  <2>1. co[o] \in Coordinator /\ co[o].at = "launch" /\ co[o].i > Members /\ CoordinatorOK(o)
        /\ UNCHANGED <<row, members, gen, outcome, launches, runtime, ended, crashes>> /\ Ages
        /\ co[o].g \in Generation
    BY UnchangedAges DEF Install, AtEnd, IInv, TypeOK, CoordinatorOK, PlaceOK, ResumePlaces, Launching
  <2>2. PICK p \in {"finish", "undo"} : Goto(o, p)
    BY <1>2 DEF Install
  <2>3. Moves(o, p, co[o].i)
    BY <2>2, GotoIs DEF IInv, Place
  <2>4. resumed' = [m \in Member |-> IF m \in co[o].launched THEN co[o].g ELSE resumed[m]]
    BY <1>2 DEF Install
  <2>5. resumed' \in [Member -> 0 .. MaxGeneration]
    BY <2>1, <2>4, LifecycleAssumption DEF IInv, TypeOK, Generation
  <2>6. reattached' \in [Generation -> SUBSET Member]
    <3>1. \A S \in SUBSET co[o].launched : S \subseteq Member
      BY <2>1 DEF Coordinator
    <3>2. PICK S \in SUBSET co[o].launched :
            reattached' = [reattached EXCEPT ![co[o].g] = @ \cup S]
      BY <1>2 DEF Install, Reattach
    <3> QED BY <2>1, <3>1, <3>2 DEF IInv, TypeOK
  <2>7. TypeOK'
    BY <2>1, <2>3, <2>5, <2>6 DEF IInv, TypeOK, Moves
  <2>8. \A m \in Continuing : runtime'[m][co[o].g] \in Live => Expected(o, m)'
    BY <1>2, <2>1, <2>3 DEF Moves, Expected, Launching, CoordinatorOK, ResumeOK, ResumePlaces
  <2>9. co[o].plan \subseteq co[o].launched
    <3> SUFFICES ASSUME NEW m \in co[o].plan PROVE m \in co[o].launched
      OBVIOUS
    <3>1. m \in Member /\ m < co[o].i
      BY <2>1, LifecycleAssumption DEF Coordinator, Member
    <3> QED BY <2>1, <3>1 DEF CoordinatorOK, LaunchedOK, Launching
  <2>10. \A m \in co[o].launched : resumed'[m] = co[o].g
    BY <2>1, <2>4 DEF Coordinator
  <2>11. CoordinatorOK(o)'
    BY <2>1, <2>3, <2>8, <2>9, <2>10, ResumeMove DEF ResumePlaces, Launching
  <2>12. TargetsOK(o)' /\ Past
    BY <1>2, <2>1, <2>3 DEF Moves, TargetsOK, Stops, Past, Launching
  <2>13. \A l \in launches' : l.member \in Member /\ l.generation \in Generation
                              /\ runtime[l.member][l.generation] # "none"
    BY <2>1 DEF IInv, RowsOK, TypeOK, Launch
  <2>14. RowFades /\ Continuing' \subseteq members' /\ ended \subseteq ended'
         /\ \A x \in Owner \ {o} : co'[x] = co[x]
    BY <2>1, <2>3 DEF IInv, RowsOK, Continuing, RowFades, Moves
  <2> QED BY <1>2, <2>1, <2>7, <2>11, <2>12, <2>13, <2>14, QuietStep
<1> QED BY <1>1, <1>2

\* The channel is active again.  The coordinator that brought it there had
\* stopped what went before, so that no teardown that waits can harm.
LEMMA FinishResumeKeeps ==
  ASSUME IInv, NEW o \in Owner, FinishResume(o)
  PROVE  IInv'
<1>1. CASE ~HoldsResume(o)
  BY <1>1, UndoKeeps, UnchangedAges DEF FinishResume, Launching, IInv
<1>2. CASE HoldsResume(o)
  <2>1. Moves(o, "succeeded", co[o].i) /\ Ages
        /\ UNCHANGED <<members, gen, outcome, resumed, runtime, ended, reattached, crashes>>
    BY <1>2, GotoIs, UnchangedAges DEF FinishResume, IInv, Place
  <2>2. row' \in Row /\ row'.state = "active" /\ row'.owner = row.owner
        /\ row'.resumeOwner = NoOwner /\ row'.generation = row.generation
    <3>1. row \in Row /\ row' = [row EXCEPT !.state = "active", !.resumeOwner = NoOwner,
                                            !.resumeLease = "none"]
      BY <1>2 DEF FinishResume, IInv, TypeOK
    <3> QED BY <3>1, Zenon DEF Row, Lease
  <2>3. launches' \subseteq launches
    BY <1>2 DEF FinishResume
  <2>4. TypeOK'
    BY <2>1, <2>2, <2>3 DEF IInv, TypeOK, Moves
  <2>5. RowsOK' /\ HostsOK'
    <3>1. RowsOK'
      BY <2>1, <2>2, <2>3 DEF IInv, RowsOK, Continuing
    <3>2. HostsOK'
      BY <2>1, <2>2 DEF IInv, HostsOK, Continuing
    <3> QED BY <3>1, <3>2
  <2>6. CoordinatorOK(o)' /\ TargetsOK(o)'
    BY <2>1, RestKeeps DEF Moves
  <2>7. Past /\ row.state = "resuming"
    BY <1>2 DEF FinishResume, Past, Launching, HoldsResume
  <2>8. ASSUME NEW x \in Owner, x # o PROVE CoordinatorOK(x)' /\ TargetsOK(x)'
    <3>1. co'[x] = co[x] /\ x # NoOwner
      BY <2>1, <2>8, LifecycleAssumption DEF Moves
    <3>2. CoordinatorOK(x)'
      BY <2>1, <2>2, <3>1, OthersKeep DEF HoldsResume
    <3>3. TargetsOK(x)'
      BY <2>1, <2>2, <2>7, <3>1 DEF IInv, TargetsOK, Stops, Continuing
    <3> QED BY <3>2, <3>3
  <2> QED BY <2>4, <2>5, <2>6, <2>8 DEF IInv
<1> QED BY <1>1, <1>2

-----------------------------------------------------------------------------
(* The rollback.                                                           *)

LEMMA LastIs ==
  ASSUME IInv, NEW o \in Owner, co[o].launched # {}
  PROVE  Max(co[o].launched) \in co[o].launched /\ Max(co[o].launched) \in Member
<1>1. co[o].launched \subseteq Member
  BY DEF IInv, TypeOK, Coordinator
<1>2. co[o].launched \subseteq Nat /\ Members \in Nat /\ \A m \in co[o].launched : m <= Members
  BY <1>1, LifecycleAssumption DEF Member
<1>3. Max(co[o].launched) \in co[o].launched
  BY <1>2, MaxIs
<1> QED BY <1>1, <1>3

\* The last launch is forgotten; the rollback stays clean only if it is down.
LEMMA TornKeeps ==
  ASSUME IInv, NEW o \in Owner, co[o].at \in {"undo", "undoing"}, co[o].launched # {},
         NEW ok \in BOOLEAN, TornDown(o, ok), Ages,
         ok => runtime'[Max(co[o].launched)][co[o].g] \notin Live,
         UNCHANGED <<row, members, gen, outcome, launches, resumed, ended, reattached, crashes>>
  PROVE  IInv'
<1>1. co[o] \in Coordinator /\ CoordinatorOK(o) /\ co[o].g \in Generation
  BY DEF IInv, TypeOK, CoordinatorOK, PlaceOK, ResumePlaces
<1>2. PICK m \in Member : m = Max(co[o].launched)
  BY LastIs
<1>3. PICK r \in Coordinator : /\ co' = [co EXCEPT ![o] = r] /\ r.at = "undo" /\ r.plan = co[o].plan
                               /\ r.launched = co[o].launched \ {m} /\ r.g = co[o].g
                               /\ r.clean => co[o].clean /\ ok
  <2> DEFINE l == co[o].launched \ {Max(co[o].launched)}
             c == co[o].clean /\ ok
             r == [co[o] EXCEPT !.at = "undo", !.clean = c, !.launched = l]
  <2>1. l \in SUBSET Member /\ c \in BOOLEAN
    BY <1>1 DEF Coordinator
  <2>2. co' = [co EXCEPT ![o] = r]
    BY DEF TornDown
  <2>3. l = co[o].launched \ {m} /\ (c => co[o].clean /\ ok)
    BY <1>2
  <2> HIDE DEF l, c
  <2>4. r \in Coordinator /\ r.at = "undo" /\ r.plan = co[o].plan
        /\ r.launched = l /\ r.g = co[o].g /\ r.clean = c
    BY <1>1, <2>1, Zenon DEF Coordinator, Place
  <2> HIDE DEF r
  <2> QED BY <2>2, <2>3, <2>4
<1>4. co' \in [Owner -> Coordinator] /\ co'[o] = r /\ \A x \in Owner \ {o} : co'[x] = co[x]
  BY <1>3 DEF IInv, TypeOK
<1>5. TypeOK'
  BY <1>4 DEF IInv, TypeOK, Ages, RuntimeStates
<1>6. PlaceOK(o)' /\ SuspendOK(o)' /\ TargetsOK(o)' /\ (Past' => Past)
  BY <1>1, <1>3, <1>4 DEF PlaceOK, SuspendOK, TargetsOK, Stops, SuspendPlaces, ResumePlaces, Launching,
                        Past, HoldsResume
<1>7. ResumeOK(o)'
  <2> SUFFICES ASSUME HoldsResume(o)'
               PROVE  /\ r.g = row.generation
                      /\ Continuing \subseteq r.plan
                      /\ \A n \in Continuing : runtime'[n][r.g] \in Live => Expected(o, n)'
    BY <1>3, <1>4 DEF ResumeOK, Continuing
  <2>1. HoldsResume(o)
    BY DEF HoldsResume
  <2>2. co[o].g = row.generation /\ Continuing \subseteq co[o].plan
    BY <1>1, <2>1 DEF CoordinatorOK, ResumeOK, ResumePlaces
  <2>3. ASSUME NEW n \in Continuing, runtime'[n][co[o].g] \in Live PROVE Expected(o, n)'
    <3>1. runtime[n][co[o].g] \in Live
      BY <1>1, <2>3 DEF Ages, Continuing
    <3>2. co[o].clean => n \in co[o].launched
      BY <1>1, <2>1, <3>1 DEF CoordinatorOK, ResumeOK, Expected, ResumePlaces
    <3>3. r.clean => n \in r.launched
      BY <1>2, <1>3, <2>3, <3>2
    <3> QED BY <1>3, <1>4, <3>3 DEF Expected, Launching
  <2> QED BY <1>3, <2>2, <2>3
<1>8. LaunchedOK(o)'
  <2>1. \A n \in co[o].launched : n \in Member /\ runtime[n][co[o].g] \in {"running", "ended"}
    BY <1>1 DEF CoordinatorOK, LaunchedOK, Coordinator
  <2>2. \A n \in co[o].launched : runtime'[n][co[o].g] \in {"running", "ended"}
    BY <1>1, <2>1 DEF Ages, RuntimeStates, Live
  <2> QED BY <1>1, <1>3, <1>4, <2>2 DEF LaunchedOK, Launching
<1>9. \A l \in launches' : l.member \in Member /\ l.generation \in Generation
                           /\ runtime[l.member][l.generation] # "none"
  BY DEF IInv, RowsOK, TypeOK, Launch
<1>10. RowFades /\ Continuing' \subseteq members' /\ ended \subseteq ended'
  BY DEF IInv, RowsOK, Continuing, RowFades
<1> QED BY <1>4, <1>5, <1>6, <1>7, <1>8, <1>9, <1>10, QuietStep DEF CoordinatorOK

LEMMA BeginUndoKeeps ==
  ASSUME IInv, NEW o \in Owner, BeginUndo(o)
  PROVE  IInv'
<1>1. co[o].at = "undo" /\ co[o].launched # {} /\ Ages /\ co[o].at \in ResumePlaces
      /\ UNCHANGED <<row, members, gen, outcome, launches, resumed, runtime, ended, reattached, crashes>>
  BY UnchangedAges DEF BeginUndo, ResumePlaces, IInv
<1>2. CASE ~HoldsResume(o)
  BY <1>1, <1>2, TornKeeps DEF BeginUndo
<1>3. CASE HoldsResume(o)
  <2>1. Moves(o, "undoing", co[o].i)
    BY <1>3, GotoIs DEF BeginUndo, IInv, Place
  <2>2. CoordinatorOK(o) /\ co[o].launched \subseteq Member
    BY DEF IInv, TypeOK, Coordinator
  <2>3. \A m \in Continuing : runtime'[m][co[o].g] \in Live => Expected(o, m)'
    BY <1>1, <1>3, <2>1, <2>2 DEF Moves, Expected, Launching, CoordinatorOK, ResumeOK
  <2>4. CoordinatorOK(o)'
    BY <1>1, <2>1, <2>3, ResumeMove DEF ResumePlaces, Launching
  <2>5. \A m \in Continuing : Stops(o, m)' => runtime[m][co[o].g] # "none"
    BY <2>1, <2>2 DEF Moves, Stops, CoordinatorOK, LaunchedOK
  <2>6. TargetsOK(o)'
    BY <1>1, <1>3, <2>1, <2>5, AimKeeps
  <2>7. Past' => Past
    BY <1>1, <2>1 DEF Moves, Past, HoldsResume, Launching
  <2> QED BY <1>1, <2>1, <2>4, <2>6, <2>7, MoveKeeps
<1> QED BY <1>2, <1>3

LEMMA EndUndoKeeps ==
  ASSUME IInv, NEW o \in Owner, EndUndo(o)
  PROVE  IInv'
<1>1. co[o].at = "undoing" /\ co[o].launched # {} /\ co[o].g \in Generation
      /\ UNCHANGED <<row, members, gen, outcome, launches, resumed, ended, reattached, crashes>>
  BY DEF EndUndo, IInv, CoordinatorOK, PlaceOK, ResumePlaces
<1>2. Max(co[o].launched) \in Member
  BY <1>1, LastIs
<1>3. ASSUME runtime' = Stopped(Max(co[o].launched), co[o].g)
      PROVE  Ages /\ runtime'[Max(co[o].launched)][co[o].g] \notin Live
  BY <1>1, <1>2, <1>3, StoppedAges DEF IInv
<1>4. CASE TornDown(o, FALSE) /\ UNCHANGED runtime
  BY <1>1, <1>4, TornKeeps, UnchangedAges DEF IInv
<1>5. CASE runtime' = Stopped(Max(co[o].launched), co[o].g) /\ TornDown(o, HoldsResume(o))
  <2>1. PICK ok \in BOOLEAN : ok = HoldsResume(o)
    BY DEF HoldsResume
  <2>2. TornDown(o, ok)
    BY <1>5, <2>1
  <2> QED BY <1>1, <1>3, <1>5, <2>2, TornKeeps
<1> QED BY <1>4, <1>5 DEF EndUndo

\* The channel is suspended again: a rollback that stayed clean left nothing.
LEMMA ReleaseKeeps ==
  ASSUME IInv, NEW o \in Owner, Release(o)
  PROVE  IInv'
<1>1. co[o].at = "undo" /\ co[o].launched = {} /\ Goto(o, "failed") /\ Ages
      /\ UNCHANGED <<members, gen, outcome, runtime, crashes>>
      /\ co[o].g \in Generation /\ CoordinatorOK(o)
  BY UnchangedAges DEF Release, IInv, CoordinatorOK, PlaceOK, ResumePlaces
<1>2. CASE UNCHANGED <<row, ended, reattached, resumed, launches>>
  BY <1>1, <1>2, RestStep
<1>3. ASSUME co[o].clean, HoldsResume(o), Discard(co[o].g),
             row' = [row EXCEPT !.state = "suspended", !.resumeOwner = NoOwner, !.resumeLease = "none"]
      PROVE  IInv'
  <2>1. Moves(o, "failed", co[o].i)
    BY <1>1, GotoIs DEF IInv, Place
  <2>2. /\ row' \in Row /\ row'.state = "suspended" /\ row'.owner = row.owner
        /\ row'.resumeOwner = NoOwner /\ row'.generation = row.generation
    <3>1. row \in Row
      BY DEF IInv, TypeOK
    <3> QED BY <1>3, <3>1, Zenon DEF Row, Lease
  <2>3. /\ ended \subseteq ended' /\ ended' \subseteq Member
        /\ resumed' \in [Member -> 0 .. MaxGeneration] /\ launches' \subseteq launches
        /\ reattached' \in [Generation -> SUBSET Member]
    BY <1>1, <1>3, DiscardIs
  <2>4. row.state = "resuming" /\ co[o].g = row.generation
    BY <1>1, <1>3 DEF HoldsResume, CoordinatorOK, ResumeOK, ResumePlaces
  <2>5. ASSUME NEW m \in Continuing, NEW g \in Generation PROVE runtime[m][g] \notin Live
    <3>1. runtime[m][co[o].g] \notin Live
      BY <1>1, <1>3 DEF CoordinatorOK, ResumeOK, Expected, ResumePlaces
    <3> QED BY <2>4, <3>1 DEF IInv, HostsOK
  <2>6. Continuing' \subseteq Continuing /\ Continuing \subseteq Member
    BY <2>3 DEF Continuing
  <2>7. TypeOK'
    BY <1>1, <2>1, <2>2, <2>3 DEF IInv, TypeOK, Moves
  <2>8. RowsOK' /\ HostsOK'
    <3>1. RowsOK'
      BY <1>1, <2>2, <2>3, <2>6 DEF IInv, RowsOK
    <3>2. HostsOK'
      BY <1>1, <2>5, <2>6 DEF HostsOK
    <3> QED BY <3>1, <3>2
  <2>9. CoordinatorOK(o)' /\ TargetsOK(o)'
    BY <1>1, <2>1, RestKeeps DEF Moves
  <2>10. ASSUME NEW x \in Owner, x # o PROVE CoordinatorOK(x)' /\ TargetsOK(x)'
    <3>1. co'[x] = co[x] /\ x # NoOwner
      BY <2>1, <2>10, LifecycleAssumption DEF Moves
    <3>2. CoordinatorOK(x)'
      BY <1>1, <2>2, <2>3, <3>1, OthersKeep DEF HoldsResume
    <3>3. TargetsOK(x) /\ PlaceOK(x)
      BY DEF IInv, CoordinatorOK
    <3>4. ASSUME NEW m \in Continuing, Stops(x, m) PROVE runtime[m][co[x].g] = "ended"
      <4>1. runtime[m][co[x].g] # "none"
        BY <3>3, <3>4 DEF TargetsOK
      <4>2. co[x].g \in Generation
        BY <3>3, <3>4 DEF Stops, PlaceOK, ResumePlaces
      <4>3. runtime[m][co[x].g] \in RuntimeStates
        BY <2>6, <4>2 DEF IInv, TypeOK, RuntimeStates
      <4> QED BY <2>5, <4>1, <4>2, <4>3 DEF RuntimeStates, Live
    <3>5. TargetsOK(x)'
      BY <1>1, <2>2, <2>4, <2>6, <3>1, <3>3, <3>4 DEF TargetsOK, Stops
    <3> QED BY <3>2, <3>5
  <2> QED BY <2>7, <2>8, <2>9, <2>10 DEF IInv
<1> QED BY <1>2, <1>3 DEF Release

-----------------------------------------------------------------------------
(* What happens around the coordinators.                                   *)

\* A lease runs out, a host exits or a session ends.
LEMMA AroundKeeps ==
  ASSUME IInv, TypeOK', Ages, RowFades, ended \subseteq ended', UNCHANGED <<members, launches, resumed, co>>
  PROVE  IInv'
<1>1. \A l \in launches' : l.member \in Member /\ l.generation \in Generation
                           /\ runtime[l.member][l.generation] # "none"
  BY DEF IInv, RowsOK, TypeOK, Launch
<1>2. Continuing' \subseteq members'
  BY DEF IInv, RowsOK, Continuing
<1>3. RowsOK' /\ HostsOK'
  BY <1>1, <1>2, HostsKeep
<1>4. Past' => Past
  BY DEF Past, HoldsResume, RowFades
<1>5. ASSUME NEW x \in Owner PROVE CoordinatorOK(x)' /\ TargetsOK(x)'
  <2>1. CoordinatorOK(x)'
    BY OthersKeep DEF HoldsResume, RowFades
  <2>2. TargetsOK(x)'
    BY <1>4, TargetsKeep
  <2> QED BY <2>1, <2>2
<1> QED BY <1>3, <1>5 DEF IInv

LEMMA ExpireLeaseKeeps ==
  ASSUME IInv, ExpireLease
  PROVE  IInv'
<1>1. row' \in Row /\ RowFades
  <2>1. row \in Row
    BY DEF IInv, TypeOK
  <2> QED BY <2>1 DEF ExpireLease, Row, Lease, RowFades
<1>2. Ages /\ TypeOK' /\ ended \subseteq ended'
  BY <1>1, UnchangedAges DEF ExpireLease, IInv, TypeOK
<1> QED BY <1>1, <1>2, AroundKeeps DEF ExpireLease

LEMMA HostExitKeeps ==
  ASSUME IInv, NEW m \in Member, NEW g \in Generation, HostExit(m, g)
  PROVE  IInv'
<1>1. Ages
  BY StoppedAges DEF HostExit, IInv
<1>2. RowFades /\ TypeOK' /\ ended \subseteq ended'
  BY <1>1 DEF HostExit, IInv, TypeOK, Ages, RuntimeStates, RowFades
<1> QED BY <1>1, <1>2, AroundKeeps DEF HostExit

LEMMA EndSessionKeeps ==
  ASSUME IInv, NEW m \in Member, EndSession(m)
  PROVE  IInv'
<1>1. RowFades /\ TypeOK' /\ ended \subseteq ended' /\ Ages
  BY UnchangedAges DEF EndSession, IInv, TypeOK, RowFades
<1> QED BY <1>1, AroundKeeps DEF EndSession

\* After a crash no coordinator goes on; the leases are as they were.
LEMMA CrashKeeps ==
  ASSUME IInv, Crash
  PROVE  IInv'
<1>1. RowFades /\ Ages /\ ended \subseteq ended'
      /\ UNCHANGED <<row, members, gen, outcome, launches, resumed, runtime, ended>>
  BY UnchangedAges DEF Crash, IInv, RowFades
<1>2. ASSUME NEW x \in Owner, co[x].at # "idle"
      PROVE  /\ co'[x] \in Coordinator /\ co'[x].at = "failed"
             /\ co'[x].launched = co[x].launched /\ co'[x].g = co[x].g
  <2>1. co[x] \in Coordinator
    BY DEF IInv, TypeOK
  <2>2. co'[x] = [co[x] EXCEPT !.at = "failed"]
    BY <1>2 DEF Crash
  <2> QED BY <2>1, <2>2, Zenon DEF Coordinator, Place
<1>3. ASSUME NEW x \in Owner, co[x].at = "idle" PROVE co'[x] = co[x]
  BY <1>3 DEF Crash
<1>4. TypeOK'
  <2>1. co' \in [Owner -> Coordinator]
    BY <1>2, <1>3 DEF Crash, IInv, TypeOK
  <2>2. crashes' \in 0 .. MaxCrashes
    BY LifecycleAssumption DEF Crash, IInv, TypeOK
  <2>3. reattached' \in [Generation -> SUBSET Member]
    BY DEF Crash
  <2> QED BY <1>1, <2>1, <2>2, <2>3 DEF IInv, TypeOK
<1>5. ~Past'
  BY <1>2, <1>3 DEF Past, Launching
<1>6. \A l \in launches' : l.member \in Member /\ l.generation \in Generation
                           /\ runtime[l.member][l.generation] # "none"
  BY <1>1 DEF IInv, RowsOK, TypeOK, Launch
<1>7. Continuing' \subseteq members'
  BY <1>1 DEF IInv, RowsOK, Continuing
<1>8. RowsOK' /\ HostsOK'
  BY <1>1, <1>6, <1>7, HostsKeep
<1>9. ASSUME NEW x \in Owner PROVE CoordinatorOK(x)' /\ TargetsOK(x)'
  <2>1. CASE co[x].at # "idle"
    BY <1>1, <1>2, <2>1, RestKeeps
  <2>2. CASE co[x].at = "idle"
    <3>1. co'[x] = co[x]
      BY <1>3, <2>2
    <3>2. CoordinatorOK(x)'
      BY <1>1, <3>1, OthersKeep DEF HoldsResume
    <3>3. TargetsOK(x)'
      BY <1>1, <1>5, <3>1, TargetsKeep
    <3> QED BY <3>2, <3>3
  <2> QED BY <2>1, <2>2
<1> QED BY <1>4, <1>8, <1>9 DEF IInv

-----------------------------------------------------------------------------
LEMMA InitKeeps ==
  ASSUME Init
  PROVE  IInv
<1>1. 1 \in Generation /\ 1 \in 1 .. Members + 1 /\ 0 \in 0 .. MaxGeneration /\ 0 \in 0 .. MaxCrashes
  BY LifecycleAssumption DEF Generation
<1>2. TypeOK
  <2>1. row \in Row
    BY <1>1 DEF Init, Row, Lease
  <2>2. co \in [Owner -> Coordinator]
    BY <1>1 DEF Init, Coordinator, Place
  <2>3. runtime \in [Member -> [Generation -> {"none", "creating", "running", "ended"}]]
    BY DEF Init
  <2> QED BY <1>1, <2>1, <2>2, <2>3 DEF Init, TypeOK
<1>3. \A m \in Member, g \in Generation : runtime[m][g] = IF g = 1 THEN "running" ELSE "none"
  BY DEF Init
<1>4. RowsOK
  BY <1>1, <1>3 DEF Init, RowsOK, Continuing
<1>5. HostsOK
  BY <1>3 DEF Init, HostsOK, Continuing, Live, Generation
<1>6. ASSUME NEW o \in Owner PROVE CoordinatorOK(o) /\ TargetsOK(o)
  <2>1. co[o].at = "idle" /\ co[o].i = 1 /\ co[o].launched = {} /\ row.owner # o /\ row.resumeOwner # o
    BY LifecycleAssumption DEF Init
  <2> QED BY <2>1 DEF CoordinatorOK, PlaceOK, SuspendOK, ResumeOK, LaunchedOK, TargetsOK, Stops,
                      SuspendPlaces, ResumePlaces, Launching
<1> QED BY <1>2, <1>4, <1>5, <1>6 DEF IInv

LEMMA SuspendKeeps ==
  ASSUME IInv, NEW o \in Owner, SuspendStep(o)
  PROVE  IInv'
BY SuspendAgainKeeps, ClaimSuspendKeeps, SuspendRefusedKeeps, SkipStoppedKeeps, BeginStopKeeps,
   EndStopKeeps, StopFailsKeeps, MarkSuspendedKeeps DEF SuspendStep

LEMMA ResumeKeeps ==
  ASSUME IInv, NEW o \in Owner, ResumeStep(o)
  PROVE  IInv'
<1>1. CASE ClaimResume(o) \/ ResumeRefused(o) \/ BeginStopAbandoned(o) \/ EndStopAbandoned(o)
           \/ DiscardAbandoned(o)
  BY <1>1, ClaimResumeKeeps, ResumeRefusedKeeps, BeginStopAbandonedKeeps, EndStopUnderKeeps,
     DiscardAbandonedKeeps DEF EndStopAbandoned
<1>2. CASE BeginReconcile(o) \/ EndReconcile(o) \/ Reconciled(o) \/ SkipLaunch(o) \/ BeginLaunch(o)
  BY <1>2, BeginReconcileKeeps, EndStopUnderKeeps, ReconciledKeeps, SkipLaunchKeeps, BeginLaunchKeeps
     DEF EndReconcile
<1>3. CASE LaunchRefused(o) \/ EndLaunch(o) \/ LaunchFails(o) \/ ProviderResuming(o)
           \/ ProviderResumed(o)
  BY <1>3, LaunchRefusedKeeps, EndLaunchKeeps, LaunchFailsKeeps, ProviderResumingKeeps,
     ProviderResumedKeeps
<1>4. CASE Install(o) \/ FinishResume(o) \/ BeginUndo(o) \/ EndUndo(o) \/ Release(o)
  BY <1>4, InstallKeeps, FinishResumeKeeps, BeginUndoKeeps, EndUndoKeeps, ReleaseKeeps
<1> QED BY <1>1, <1>2, <1>3, <1>4 DEF ResumeStep

LEMMA NextKeeps ==
  ASSUME IInv, [Next]_vars
  PROVE  IInv'
<1>1. CASE Next
  BY <1>1, SuspendKeeps, ResumeKeeps, ExpireLeaseKeeps, CrashKeeps, EndSessionKeeps, HostExitKeeps
     DEF Next
<1>2. CASE UNCHANGED vars
  <2>1. TypeOK' /\ RowFades
    BY <1>2 DEF vars, IInv, TypeOK, RowFades
  <2>2. Ages
    BY <1>2, UnchangedAges DEF vars, IInv
  <2> QED BY <1>2, <2>1, <2>2, AroundKeeps DEF vars
<1> QED BY <1>1, <1>2

-----------------------------------------------------------------------------
(* The theorems.                                                           *)

\* The inductive invariant: at every step of every coordinator, whatever leases
\* run out and whoever takes over, the rows, the hosts and what each
\* coordinator believes about them fit together.
THEOREM Invariant == Spec => []IInv
<1>1. Init => IInv
  BY InitKeeps
<1>2. IInv /\ [Next]_vars => IInv'
  BY NextKeeps
<1> QED BY <1>1, <1>2, PTL DEF Spec

\* Every variable of suspend and resume keeps its type, for any number of
\* requests, members, generations and crashes.
THEOREM TypeCorrect == Spec => []TypeOK
<1>1. IInv => TypeOK
  BY DEF IInv
<1> QED BY <1>1, Invariant, PTL

\* A session that goes on never runs in two hosts: the takeovers of an expired
\* lease stop a generation before the next one is launched.
THEOREM NeverTwoHosts == Spec => []OneHost
<1>1. IInv => OneHost
  <2> SUFFICES ASSUME IInv, NEW m \in Continuing
               PROVE  Cardinality({g \in Generation : runtime[m][g] \in Live}) <= 1
    BY DEF OneHost
  <2> DEFINE hosts == {g \in Generation : runtime[m][g] \in Live}
  <2>1. \A g, h \in hosts : g = h
    <3> SUFFICES ASSUME NEW g \in hosts, NEW h \in hosts PROVE g = h
      OBVIOUS
    <3>1. ~(g < h) /\ ~(h < g)
      BY DEF IInv, HostsOK, Live
    <3>2. g \in Nat /\ h \in Nat
      BY DEF Generation
    <3> HIDE DEF hosts
    <3> QED BY <3>1, <3>2
  <2>2. CASE hosts = {}
    BY <2>2, FS_EmptySet
  <2>3. CASE hosts # {}
    <3>1. PICK g \in hosts : TRUE
      BY <2>3
    <3>2. hosts = {g}
      BY <2>1, <3>1
    <3> HIDE DEF hosts
    <3>3. Cardinality(hosts) = 1
      BY <3>2, FS_Singleton
    <3> QED BY <3>3 DEF hosts
  <2> QED BY <2>2, <2>3
<1> QED BY <1>1, Invariant, PTL

\* A suspended channel runs nothing of a session that goes on, whether it was
\* suspended or a resume was rolled back, and misses none in its blueprint.
THEOREM QuietWhenSuspended == Spec => []SuspendedIsQuiet
<1>1. IInv => SuspendedIsQuiet
  BY DEF IInv, RowsOK, HostsOK, SuspendedIsQuiet
<1> QED BY <1>1, Invariant, PTL

\* The late teardown of a coordinator that was replaced finds only hosts that
\* are down already, once the channel is active again.
THEOREM StaleStopsHarmless == Spec => []StaleStopIsHarmless
<1>1. IInv => StaleStopIsHarmless
  <2> SUFFICES ASSUME IInv, row.state = "active", NEW x \in Owner, NEW t \in StopTarget(x),
                      t[1] \in Continuing
               PROVE  runtime[t[1]][t[2]] \notin Live
    BY DEF StaleStopIsHarmless
  <2>1. TargetsOK(x) /\ PlaceOK(x)
    BY DEF IInv, CoordinatorOK
  <2>2. CASE co[x].at = "stopping" /\ t = <<co[x].i, co[x].gens[co[x].i]>>
    BY <2>1, <2>2 DEF TargetsOK, Live
  <2>3. CASE co[x].at \in {"stopAbandoned", "stopClaim"} /\ t = <<co[x].i, co[x].g>>
    BY <2>1, <2>3 DEF TargetsOK, Stops, Live
  <2>4. CASE co[x].at = "undoing" /\ t = <<Max(co[x].launched), co[x].g>>
    <3>1. Max(co[x].launched) \in co[x].launched
      BY <2>1, <2>4, LastIs DEF PlaceOK
    <3> QED BY <2>1, <2>4, <3>1 DEF TargetsOK, Stops, Live
  <2> QED BY <2>2, <2>3, <2>4 DEF StopTarget
<1> QED BY <1>1, Invariant, PTL

\* Only FinishResume makes a resuming channel active.
LEMMA OnlyFinishResume ==
  ASSUME Next, row.state = "resuming", row'.state = "active", row \in Row
  PROVE  \E o \in Owner : FinishResume(o) /\ HoldsResume(o)
<1>1. row' # row /\ row'.state # row.state
  OBVIOUS
<1>2. ASSUME NEW o \in Owner, SuspendStep(o) PROVE FALSE
  <2>1. ~SuspendFails(o)
    BY <1>1 DEF SuspendFails
  <2>2. ~ClaimSuspend(o)
    BY DEF ClaimSuspend, MayClaimSuspend
  <2>3. ~MarkSuspended(o)
    BY <1>1 DEF MarkSuspended
  <2> QED BY <1>1, <1>2, <2>1, <2>2, <2>3
          DEF SuspendStep, SuspendAgain, SuspendRefused, SkipStopped, BeginStop, EndStop, StopFails
<1>3. ASSUME NEW o \in Owner, ResumeStep(o), ~(FinishResume(o) /\ HoldsResume(o)) PROVE FALSE
  <2>1. ~ClaimResume(o)
    BY <1>1 DEF ClaimResume, Row
  <2>2. ~Release(o)
    BY <1>1 DEF Release, Row
  <2>3. ~FinishResume(o)
    BY <1>1, <1>3 DEF FinishResume
  <2>4. ~(BeginStopAbandoned(o) \/ EndStopAbandoned(o) \/ DiscardAbandoned(o) \/ ResumeRefused(o))
    BY <1>1 DEF BeginStopAbandoned, EndStopAbandoned, EndStopUnder, DiscardAbandoned, ResumeRefused
  <2>5. ~(BeginReconcile(o) \/ EndReconcile(o) \/ Reconciled(o) \/ SkipLaunch(o) \/ BeginLaunch(o))
    BY <1>1 DEF BeginReconcile, EndReconcile, EndStopUnder, Reconciled, SkipLaunch, BeginLaunch
  <2>6. ~(LaunchRefused(o) \/ EndLaunch(o) \/ LaunchFails(o) \/ ProviderResuming(o) \/ ProviderResumed(o))
    BY <1>1 DEF LaunchRefused, EndLaunch, LaunchFails, ProviderResuming, ProviderResumed
  <2>7. ~(Install(o) \/ BeginUndo(o) \/ EndUndo(o))
    BY <1>1 DEF Install, BeginUndo, EndUndo
  <2> QED BY <1>3, <2>1, <2>2, <2>3, <2>4, <2>5, <2>6, <2>7 DEF ResumeStep
<1>4. ~ExpireLease
  BY <1>1 DEF ExpireLease, Row
<1>5. ~Crash /\ ~(\E m \in Member : EndSession(m)) /\ ~(\E m \in Member, g \in Generation : HostExit(m, g))
  BY <1>1 DEF Crash, EndSession, HostExit
<1> QED BY <1>2, <1>3, <1>4, <1>5 DEF Next

\* A channel becomes active again only by the coordinator that holds the lease,
\* with every member of its plan installed in a runtime of the channel's
\* generation, and with no launch left to be stopped by a later takeover.
THEOREM ActiveOnlyComplete == Spec => ResumeIsComplete
<1>1. ASSUME IInv, Next, row.state = "resuming", row'.state = "active"
      PROVE  /\ HoldsResume(row.resumeOwner)
             /\ LaunchesOf(row.generation)' = {}
             /\ \A m \in co[row.resumeOwner].plan :
                   resumed[m] = row.generation /\ runtime[m][row.generation] \in {"running", "ended"}
  <2>1. row \in Row
    BY <1>1 DEF IInv, TypeOK
  <2>2. PICK o \in Owner : FinishResume(o) /\ HoldsResume(o)
    BY <1>1, <2>1, OnlyFinishResume
  <2>3. row.resumeOwner = o /\ co[o].at = "finish" /\ CoordinatorOK(o)
    BY <1>1, <2>2 DEF HoldsResume, FinishResume, IInv
  <2>4. co[o].g = row.generation /\ \A m \in co[o].launched : resumed[m] = co[o].g
    BY <2>2, <2>3 DEF CoordinatorOK, ResumeOK, ResumePlaces, Launching
  <2>5. \A m \in co[o].plan : m \in co[o].launched /\ runtime[m][co[o].g] \in {"running", "ended"}
    BY <2>3 DEF CoordinatorOK, LaunchedOK
  <2>6. launches' = launches \ LaunchesOf(co[o].g) /\ row'.generation = row.generation
    BY <2>1, <2>2 DEF FinishResume, Row
  <2>7. LaunchesOf(row.generation)' = {}
    BY <2>4, <2>6 DEF LaunchesOf
  <2> QED BY <2>2, <2>3, <2>4, <2>5, <2>7
<1>2. IInv /\ [Next]_vars =>
        [row.state = "resuming" /\ row'.state = "active" =>
           /\ HoldsResume(row.resumeOwner)
           /\ LaunchesOf(row.generation)' = {}
           /\ \A m \in co[row.resumeOwner].plan :
                 /\ resumed[m] = row.generation
                 /\ runtime[m][row.generation] \in {"running", "ended"}]_vars
  BY <1>1
<1> QED BY <1>2, Invariant, PTL DEF Spec, ResumeIsComplete

=============================================================================
