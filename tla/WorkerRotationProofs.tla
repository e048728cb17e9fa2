------------------------ MODULE WorkerRotationProofs ------------------------
(***************************************************************************)
(* Proofs about the runtimes of a session and the rotation of a worker,    *)
(* for any number of generations, restarts, rotations and commits: where   *)
(* nobody named a generation out of turn, the store offers one, the        *)
(* newest, and the hosts of older ones are given up; and the worker's      *)
(* place in the channel is held once.                                      *)
(***************************************************************************)
EXTENDS WorkerRotation, FiniteSetTheorems, WellFoundedInduction, TLAPS

\* A final state is for ever.
EndedOK == \A g \in Gens : row[g].state \in Final => row[g].ended

\* Of two generations the older has ended, or a caller brought them together.
GivenUpOK == \A g, h \in Known : g < h => row[g].ended \/ Forced(g, h)

\* Who was named out of turn was created.
AstrayOK == astray \subseteq Known

\* Hosts and waiting operations have rows.
HostsOK == \A g \in Gens : host[g] # "none" => row[g].state # "none"

PendOK == \A k \in Kinds : pend[k].phase # "idle" =>
              pend[k].gen \in Gens /\ row[pend[k].gen].state # "none"

\* What `session resume` computed is the next generation, or refused, or was
\* passed over by a caller.
PlanOK ==
    plan # 0 => /\ plan <= Newest + 1
                /\ \A g \in Known : g < plan => row[g].ended \/ Forced(g, plan)
                /\ \A g \in Known : plan < g => plan \in Known \/ Forced(plan, g)

RuntimesOK ==
    TypeOK /\ EndedOK /\ GivenUpOK /\ AstrayOK /\ HostsOK /\ PendOK /\ PlanOK

AuditStates == {"none", "prepared", "acknowledged", "cancelled", "rolled_back", "cleanup_pending",
                "committed"}

Audit == [state : AuditStates, gen : 0 .. MaxGeneration]

Places == {"idle", "launch", "inspect", "undo", "cleanup", "terminate"}

CommitCall == [at : Places, rot : 0 .. MaxRotations]

RotationTypeOK ==
    /\ audits \in [Rotations -> Audit]
    /\ members \subseteq Commit \cup {OldWorker}
    /\ commits \in [Commit -> CommitCall]
    /\ replacements \in [Commit -> {"none", "running", "ended"}]

\* One holds the place.
HeldOK == \A x, y \in members : x = y

\* A rotation that was prepared has a generation, and one that swapped has
\* taken the old worker's place.
AuditsOK ==
    \A r \in Rotations :
      /\ audits[r].state # "none" => audits[r].gen \in Gens
      /\ audits[r].state \in {"cleanup_pending", "committed"} => OldWorker \notin members
      /\ audits[r].state = "committed" => row[audits[r].gen].ended

\* So has a commit that cleans up; the one that waits for the termination
\* started it, for the generation of its rotation.
CommitsOK ==
    \A c \in Commit : commits[c].at # "idle" =>
      /\ commits[c].rot \in Rotations /\ audits[commits[c].rot].state # "none"
      /\ commits[c].at \in {"cleanup", "terminate"} => OldWorker \notin members
      /\ commits[c].at = "terminate" =>
           pend["terminate"].phase # "idle" /\ pend["terminate"].gen = audits[commits[c].rot].gen

\* The inductive invariant.
IInv == RuntimesOK /\ RotationTypeOK /\ HeldOK /\ AuditsOK /\ CommitsOK
-----------------------------------------------------------------------------
(* Rows.                                                                   *)

RowType == [state : {"none"} \cup Live \cup Final, ended : BOOLEAN,
            why : {"none", "absent", "failed", "exit", "operator"}]

SupType == [state : {"none", "starting", "running", "recovering", "crashed", "terminated"},
            child : BOOLEAN, client : BOOLEAN]

Phases == {"idle", "waiting", "ok", "absent", "slow", "cleaning", "cleaned"}

PendType == [gen : 0 .. MaxGeneration, end : BOOLEAN, phase : Phases]

LEMMA Types ==
  TypeOK <=> /\ row \in [Gens -> RowType]
             /\ host \in [Gens -> {"none", "starting", "up", "exited", "killed"}]
             /\ sock \in [Gens -> BOOLEAN]
             /\ sup \in [Gens -> SupType]
             /\ clients \in [Gens -> BOOLEAN]
             /\ pend \in [Kinds -> PendType]
             /\ plan \in 0 .. MaxGeneration
             /\ daemon \in {"starting", "restoring", "up"} /\ restarts \in 0 .. MaxRestarts
             /\ session \in {"open", "ended"} /\ ops \in 0 .. MaxOps /\ astray \subseteq Gens
BY Zenon DEF TypeOK, RowType, SupType, PendType, Phases

\* A bounded set of numbers has a largest one.
LEMMA MaxIs ==
  ASSUME NEW S, S \subseteq Nat, S # {}, NEW n \in Nat, \A x \in S : x <= n
  PROVE  Max(S) \in S /\ \A x \in S : x <= Max(S)
<1> DEFINE T == {k \in Nat : \A x \in S : x <= k}
<1>1. T \subseteq Nat /\ T # {}
  OBVIOUS
<1>2. PICK k \in T : \A y \in T : ~(<<y, k>> \in OpToRel(<, Nat))
  BY <1>1, WFMin, NatLessThanWellFounded
<1>3. \A y \in T : ~(y < k)
  BY <1>1, <1>2 DEF OpToRel
<1>4. k \in S
  <2> SUFFICES ASSUME k \notin S PROVE FALSE
    OBVIOUS
  <2>1. PICK x \in S : TRUE
    OBVIOUS
  <2>2. k - 1 \in T
    BY <2>1
  <2> QED BY <1>3, <2>2
<1> QED BY <1>4 DEF Max

\* The newest of the known generations.
LEMMA NewestIs ==
  ASSUME NEW S, S \subseteq Gens
  PROVE  /\ Max({0} \cup S) \in 0 .. MaxGeneration /\ \A g \in S : g <= Max({0} \cup S)
         /\ Max({0} \cup S) # 0 => Max({0} \cup S) \in S
<1> DEFINE Z == {0} \cup S
<1>1. Z \subseteq Nat /\ Z # {} /\ MaxGeneration \in Nat /\ \A x \in Z : x <= MaxGeneration
  BY BoundsAssumption DEF Gens
<1> HIDE DEF Z
<1>2. Max(Z) \in Z /\ \A x \in Z : x <= Max(Z)
  BY <1>1, MaxIs
<1>3. \A m \in Z : m \in 0 .. MaxGeneration
  BY <1>1
<1> QED BY <1>2, <1>3 DEF Z

LEMMA NewestType ==
  /\ Newest \in 0 .. MaxGeneration /\ \A g \in Known : g <= Newest
  /\ Newest # 0 => Newest \in Known
<1>1. Known \subseteq Gens
  BY DEF Known
<1> QED BY <1>1, NewestIs DEF Newest

\* A step that adds no row, and undoes no end.
SameRows ==
    \A g \in Gens :
      /\ row'[g].state = "none" <=> row[g].state = "none"
      /\ row[g].ended => row'[g].ended
      /\ row'[g].state \in Final => row'[g].ended

LEMMA SameRowsKeep ==
  ASSUME EndedOK, GivenUpOK, AstrayOK, SameRows, astray' = astray
  PROVE  /\ EndedOK' /\ GivenUpOK' /\ AstrayOK'
         /\ Known' = Known /\ Newest' = Newest
<1>1. Known' = Known
  BY Zenon DEF Known, SameRows
<1>2. Newest' = Newest
  BY <1>1, Zenon DEF Newest
<1>3. EndedOK' /\ AstrayOK'
  BY <1>1, Zenon DEF EndedOK, AstrayOK, SameRows
<1>4. GivenUpOK'
  <2> SUFFICES ASSUME NEW g \in Known, NEW h \in Known, g < h PROVE row'[g].ended \/ Forced(g, h)
    BY <1>1 DEF GivenUpOK, Forced
  <2> QED BY Zenon DEF GivenUpOK, SameRows, Known
<1> QED BY <1>1, <1>2, <1>3, <1>4

LEMMA MarkStep ==
  ASSUME TypeOK, EndedOK, NEW g \in Gens, row[g].state # "none", NEW st \in Live \cup Final,
         NEW why \in {"none", "absent", "failed", "exit", "operator"}, row' = MarkState(g, st, why)
  PROVE  row' \in [Gens -> RowType] /\ SameRows /\ (st \in Final => row'[g].ended)
<1> DEFINE r == [state |-> st, ended |-> row[g].ended \/ st \in Final,
                 why |-> IF why = "none" THEN row[g].why ELSE why]
<1>1. row \in [Gens -> RowType] /\ row[g] \in RowType
  BY Types
<1>2. row' = [row EXCEPT ![g] = r]
  BY DEF MarkState
<1>3. row[g].why \in {"none", "absent", "failed", "exit", "operator"}
  BY <1>1 DEF RowType
<1>4. r \in RowType
  BY <1>3 DEF RowType
<1>5. r.state = st /\ (r.ended <=> row[g].ended \/ st \in Final)
  OBVIOUS
<1> HIDE DEF r
<1>6. row' \in [Gens -> RowType] /\ row'[g] = r /\ \A h \in Gens \ {g} : row'[h] = row[h]
  BY <1>1, <1>2, <1>4
<1>7. st # "none"
  BY DEF Live, Final
<1>8. SameRows
  BY <1>5, <1>6, <1>7 DEF SameRows, EndedOK
<1> QED BY <1>5, <1>6, <1>8

LEMMA RowsStay ==
  ASSUME TypeOK, EndedOK, row' = row
  PROVE  row' \in [Gens -> RowType] /\ SameRows
BY Types DEF SameRows, EndedOK

-----------------------------------------------------------------------------
(* Waiting operations.                                                     *)

\* After a step that adds no row.
PendKept ==
    /\ pend' \in [Kinds -> PendType]
    /\ \A k \in Kinds : pend'[k].phase # "idle" =>
         pend'[k].gen \in Gens /\ row[pend'[k].gen].state # "none"

LEMMA PendSame ==
  ASSUME TypeOK, PendOK, pend' = pend
  PROVE  PendKept
BY Types DEF PendKept, PendOK

LEMMA IdleType == Idle \in PendType /\ Idle.phase = "idle" /\ Idle.gen = 0
BY BoundsAssumption DEF Idle, PendType, Phases

LEMMA PendIdle ==
  ASSUME TypeOK, PendOK, NEW k \in Kinds, pend' = [pend EXCEPT ![k] = Idle]
  PROVE  PendKept
<1>1. pend \in [Kinds -> PendType] /\ Idle \in PendType /\ Idle.phase = "idle"
  BY Types, IdleType
<1> QED BY <1>1 DEF PendKept, PendOK

LEMMA PendPhase ==
  ASSUME TypeOK, PendOK, NEW k \in Kinds, NEW ph \in Phases, pend[k].phase # "idle",
         pend' = [pend EXCEPT ![k].phase = ph]
  PROVE  /\ PendKept /\ pend'[k].phase = ph /\ pend'[k].gen = pend[k].gen
         /\ \A j \in Kinds \ {k} : pend'[j] = pend[j]
<1> DEFINE r == [pend[k] EXCEPT !.phase = ph]
<1>1. pend \in [Kinds -> PendType] /\ pend[k] \in PendType
  BY Types
<1>2. r \in PendType /\ r.gen = pend[k].gen /\ r.phase = ph
  BY <1>1, Zenon DEF PendType
<1>3. pend' = [pend EXCEPT ![k] = r]
  OBVIOUS
<1> HIDE DEF r
<1>4. pend'[k] = r /\ \A j \in Kinds \ {k} : pend'[j] = pend[j]
  BY <1>1, <1>3
<1>5. pend' \in [Kinds -> PendType]
  BY <1>1, <1>2, <1>3
<1> QED BY <1>2, <1>4, <1>5 DEF PendKept, PendOK

LEMMA PendStart ==
  ASSUME TypeOK, PendOK, NEW k \in Kinds, NEW g \in Gens, NEW end \in BOOLEAN, row[g].state # "none",
         pend' = [pend EXCEPT ![k] = [gen |-> g, phase |-> "waiting", end |-> end]]
  PROVE  PendKept
<1> DEFINE r == [gen |-> g, phase |-> "waiting", end |-> end]
<1>1. pend \in [Kinds -> PendType]
  BY Types
<1>2. r \in PendType /\ r.gen = g
  BY BoundsAssumption DEF PendType, Phases, Gens
<1> HIDE DEF r
<1>3. pend' = [pend EXCEPT ![k] = r]
  BY DEF r
<1> QED BY <1>1, <1>2, <1>3 DEF PendKept, PendOK

-----------------------------------------------------------------------------
(* Hosts and supervisors.                                                  *)

HostStates == {"none", "starting", "up", "exited", "killed"}

HostKept ==
    /\ host' \in [Gens -> {"none", "starting", "up", "exited", "killed"}]
    /\ \A g \in Gens : host'[g] # "none" => row[g].state # "none"

LEMMA HostSame ==
  ASSUME TypeOK, HostsOK, host' = host
  PROVE  HostKept
BY Types DEF HostsOK, HostKept

LEMMA HostSet ==
  ASSUME TypeOK, HostsOK, NEW g \in Gens, NEW x \in HostStates, row[g].state # "none",
         host' = [host EXCEPT ![g] = x]
  PROVE  HostKept
BY Types DEF HostsOK, HostKept, HostStates

LEMMA SupState ==
  ASSUME TypeOK, NEW g \in Gens,
         NEW x \in {"none", "starting", "running", "recovering", "crashed", "terminated"}
  PROVE  [sup EXCEPT ![g].state = x] \in [Gens -> SupType]
<1> DEFINE r == [sup[g] EXCEPT !.state = x]
<1>1. sup \in [Gens -> SupType] /\ sup[g] \in SupType
  BY Types
<1>2. r \in SupType
  BY <1>1, Zenon DEF SupType
<1>3. [sup EXCEPT ![g].state = x] = [sup EXCEPT ![g] = r]
  OBVIOUS
<1> HIDE DEF r
<1> QED BY <1>1, <1>2, <1>3

LEMMA SupBoth ==
  ASSUME TypeOK, NEW g \in Gens, NEW y \in BOOLEAN,
         NEW x \in {"none", "starting", "running", "recovering", "crashed", "terminated"}
  PROVE  /\ [sup EXCEPT ![g].state = x, ![g].client = y] \in [Gens -> SupType]
         /\ [sup EXCEPT ![g].client = y, ![g].state = x] \in [Gens -> SupType]
<1> DEFINE r == [sup[g] EXCEPT !.state = x, !.client = y]
           s == [sup[g] EXCEPT !.client = y, !.state = x]
<1>1. sup \in [Gens -> SupType] /\ sup[g] \in SupType
  BY Types
<1>2. r \in SupType /\ s \in SupType
  BY <1>1, Zenon DEF SupType
<1>3. /\ [sup EXCEPT ![g].state = x, ![g].client = y] = [sup EXCEPT ![g] = r]
      /\ [sup EXCEPT ![g].client = y, ![g].state = x] = [sup EXCEPT ![g] = s]
  BY <1>1
<1> HIDE DEF r, s
<1> QED BY <1>1, <1>2, <1>3

LEMMA CleanupKeeps ==
  ASSUME TypeOK, HostsOK, NEW g \in Gens, Cleanup(g)
  PROVE  HostKept /\ sock' \in [Gens -> BOOLEAN] /\ sup' \in [Gens -> SupType]
<1>1. host \in [Gens -> {"none", "starting", "up", "exited", "killed"}] /\ sock \in [Gens -> BOOLEAN]
  BY Types
<1>2. sup' \in [Gens -> SupType]
  BY SupBoth DEF Cleanup
<1>3. sock' \in [Gens -> BOOLEAN]
  BY <1>1 DEF Cleanup
<1>4. host' = host \/ (row[g].state # "none" /\ host' = [host EXCEPT ![g] = "killed"])
  BY <1>1 DEF Cleanup, Gone, HostsOK
<1>5. HostKept
  BY <1>4, HostSame, HostSet DEF HostStates
<1> QED BY <1>2, <1>3, <1>5

\* A step that adds no row and plans nothing.
LEMMA QuietStep ==
  ASSUME RuntimesOK, row' \in [Gens -> RowType], SameRows, astray' = astray,
         HostKept, sock' \in [Gens -> BOOLEAN], sup' \in [Gens -> SupType], clients' \in [Gens -> BOOLEAN],
         PendKept, plan' \in {0, plan}, daemon' \in {"starting", "restoring", "up"},
         restarts' \in 0 .. MaxRestarts, session' \in {"open", "ended"}, ops' \in 0 .. MaxOps
  PROVE  RuntimesOK'
<1>1. /\ TypeOK /\ EndedOK /\ GivenUpOK /\ AstrayOK /\ PlanOK /\ plan \in 0 .. MaxGeneration
      /\ astray \subseteq Gens
  BY Types DEF RuntimesOK
<1>2. plan' \in 0 .. MaxGeneration /\ astray' \subseteq Gens
  BY <1>1, BoundsAssumption
<1>3. TypeOK'
  BY <1>2, Zenon DEF PendKept, HostKept, TypeOK, RowType, SupType, PendType, Phases
<1>4. EndedOK' /\ GivenUpOK' /\ AstrayOK' /\ Known' = Known /\ Newest' = Newest
  BY <1>1, SameRowsKeep
<1>5. HostsOK' /\ PendOK'
  BY Zenon DEF HostsOK, HostKept, PendOK, PendKept, SameRows
<1>6. PlanOK'
  <2>1. CASE plan' = 0
    BY <2>1 DEF PlanOK
  <2>2. CASE plan' = plan /\ plan # 0
    <3>1. plan' <= Newest' + 1
      BY <1>1, <1>4, <2>2, Zenon DEF PlanOK
    <3>2. ASSUME NEW g \in Known, g < plan PROVE row'[g].ended \/ Forced(g, plan)
      BY <1>1, <2>2, <3>2, Zenon DEF PlanOK, SameRows, Known
    <3>3. ASSUME NEW g \in Known, plan < g PROVE plan \in Known \/ Forced(plan, g)
      BY <1>1, <2>2, <3>3, Zenon DEF PlanOK
    <3> QED BY <1>4, <2>2, <3>1, <3>2, <3>3 DEF PlanOK, Forced
  <2> QED BY <2>1, <2>2
<1> QED BY <1>3, <1>4, <1>5, <1>6 DEF RuntimesOK

LEMMA Parts ==
  ASSUME RuntimesOK
  PROVE  /\ TypeOK /\ EndedOK /\ GivenUpOK /\ AstrayOK /\ HostsOK /\ PendOK /\ PlanOK
         /\ row \in [Gens -> RowType] /\ host \in [Gens -> {"none", "starting", "up", "exited", "killed"}]
         /\ sock \in [Gens -> BOOLEAN] /\ sup \in [Gens -> SupType] /\ clients \in [Gens -> BOOLEAN]
         /\ pend \in [Kinds -> PendType] /\ plan \in 0 .. MaxGeneration
         /\ daemon \in {"starting", "restoring", "up"} /\ restarts \in 0 .. MaxRestarts
         /\ session \in {"open", "ended"} /\ ops \in 0 .. MaxOps /\ astray \subseteq Gens
BY Types DEF RuntimesOK

-----------------------------------------------------------------------------
(* The steps of the hosts and the ends of their connections.               *)

LEMMA HostListensKeeps ==
  ASSUME RuntimesOK, NEW g \in Gens, HostListens(g)
  PROVE  RuntimesOK'
<1>1. row[g].state # "none" /\ host' = [host EXCEPT ![g] = "up"] /\ "up" \in HostStates
  BY Parts DEF HostListens, HostsOK, HostStates
<1>2. HostKept
  BY <1>1, Parts, HostSet
<1>3. sock' \in [Gens -> BOOLEAN]
  BY Parts DEF HostListens
<1>4. UNCHANGED <<row, sup, clients, pend, plan, daemon, restarts, session, ops, astray>>
  BY DEF HostListens
<1> QED BY <1>2, <1>3, <1>4, Parts, RowsStay, PendSame, QuietStep

LEMMA HostEndsKeeps ==
  ASSUME RuntimesOK, NEW g \in Gens, NEW how \in {"exited", "killed"}, HostEnds(g, how)
  PROVE  RuntimesOK'
<1>1. row[g].state # "none" /\ host' = [host EXCEPT ![g] = how] /\ how \in HostStates
  BY Parts DEF HostEnds, HostsOK, HostStates
<1>2. HostKept
  BY <1>1, Parts, HostSet
<1>3. sup' \in [Gens -> SupType]
  <2> DEFINE x == IF sup[g].child /\ sup[g].state \in {"running", "starting"} THEN "crashed" ELSE sup[g].state
  <2>1. x \in {"none", "starting", "running", "recovering", "crashed", "terminated"}
    BY Parts DEF SupType
  <2>2. sup' = [sup EXCEPT ![g].state = x]
    BY DEF HostEnds
  <2> HIDE DEF x
  <2> QED BY <2>1, <2>2, Parts, SupState
<1>4. UNCHANGED <<row, sock, clients, pend, plan, daemon, restarts, session, ops, astray>>
  BY DEF HostEnds
<1> QED BY <1>2, <1>3, <1>4, Parts, RowsStay, PendSame, QuietStep

LEMMA DetachKeeps ==
  ASSUME RuntimesOK, NEW g \in Gens, Detach(g)
  PROVE  RuntimesOK'
<1>1. clients' \in [Gens -> BOOLEAN]
  BY Parts DEF Detach
<1>2. UNCHANGED <<row, host, sock, sup, pend, plan, daemon, restarts, session, ops, astray>>
  BY DEF Detach
<1> QED BY <1>1, <1>2, Parts, RowsStay, PendSame, HostSame, QuietStep

LEMMA ClientsEndKeeps ==
  ASSUME RuntimesOK, NEW g \in Gens, ClientsEnd(g)
  PROVE  RuntimesOK'
<1>1. UNCHANGED <<host, sock, pend, plan, daemon, restarts, session, ops, astray>>
  BY DEF ClientsEnd
<1>2. clients' \in [Gens -> BOOLEAN]
  BY Parts DEF ClientsEnd
<1>3. row' \in [Gens -> RowType] /\ SameRows
  <2>1. CASE row' = row
    BY <2>1, Parts, RowsStay
  <2>2. CASE host[g] = "exited" /\ row' = MarkState(g, "exited", "exit")
    <3>1. row[g].state # "none" /\ "exited" \in Live \cup Final
      BY <2>2, Parts DEF HostsOK, Final
    <3> QED BY <2>2, <3>1, Parts, MarkStep
  <2> QED BY <2>1, <2>2 DEF ClientsEnd
<1>4. sup' \in [Gens -> SupType]
  <2> DEFINE x == IF ~sup[g].client THEN sup[g].state
                  ELSE IF host[g] = "exited" THEN "terminated"
                  ELSE IF sup[g].state = "running" THEN "crashed" ELSE sup[g].state
  <2>1. x \in {"none", "starting", "running", "recovering", "crashed", "terminated"}
    BY Parts DEF SupType
  <2> DEFINE r == [sup[g] EXCEPT !.client = FALSE, !.state = x]
  <2>2. sup' = [sup EXCEPT ![g] = r]
    BY Parts DEF ClientsEnd, SupType
  <2> HIDE DEF x
  <2>3. r \in SupType
    <3>1. sup[g] \in SupType /\ FALSE \in BOOLEAN
      BY Parts
    <3> QED BY <2>1, <3>1, Zenon DEF SupType
  <2> HIDE DEF r
  <2> QED BY <2>2, <2>3, Parts
<1> QED BY <1>1, <1>2, <1>3, <1>4, Parts, PendSame, HostSame, QuietStep
-----------------------------------------------------------------------------
(* The operations.                                                         *)

LEMMA KindFacts ==
  /\ "create" \in Kinds /\ "recover" \in Kinds /\ "deliver" \in Kinds /\ "attach" \in Kinds
  /\ "terminate" \in Kinds /\ Connecting \subseteq Kinds
BY DEF Kinds, Connecting

\* An operation that waits has a row to write.
LEMMA PendRow ==
  ASSUME RuntimesOK, NEW k \in Kinds, pend[k].phase # "idle"
  PROVE  pend[k].gen \in Gens /\ row[pend[k].gen].state # "none"
BY Parts DEF PendOK

LEMMA EnrolledKeeps ==
  ASSUME RuntimesOK, NEW outcome \in {"ok", "absent", "slow"}, Enrolled(outcome)
  PROVE  RuntimesOK'
<1>1. pend["create"].phase # "idle" /\ pend' = [pend EXCEPT !["create"].phase = outcome] /\ outcome \in Phases
  BY DEF Enrolled, Phases
<1>2. PendKept
  BY <1>1, Parts, KindFacts, PendPhase
<1>3. UNCHANGED <<row, host, sock, sup, clients, plan, daemon, restarts, session, ops, astray>>
  BY DEF Enrolled
<1> QED BY <1>2, <1>3, Parts, RowsStay, HostSame, QuietStep

LEMMA FinishCreateKeeps ==
  ASSUME RuntimesOK, FinishCreate
  PROVE  RuntimesOK'
<1> DEFINE g == pend["create"].gen
<1>1. UNCHANGED <<clients, plan, daemon, restarts, session, ops, astray>> /\ pend["create"].phase # "idle"
  BY DEF FinishCreate
<1>2. g \in Gens /\ row[g].state # "none"
  BY <1>1, KindFacts, PendRow
<1>3. CASE /\ row' = MarkState(g, "running", "none")
           /\ sup' = [sup EXCEPT ![g].state = "running"]
           /\ pend' = [pend EXCEPT !["create"] = Idle]
           /\ UNCHANGED <<host, sock>>
  <2> HIDE DEF g
  <2>1. row' \in [Gens -> RowType] /\ SameRows
    <3>1. "running" \in Live \cup Final
      BY DEF Live
    <3> QED BY <1>2, <1>3, <3>1, Parts, MarkStep
  <2>2. sup' \in [Gens -> SupType]
    BY <1>2, <1>3, Parts, SupState
  <2>3. PendKept
    BY <1>3, Parts, KindFacts, PendIdle
  <2> QED BY <1>1, <1>3, <2>1, <2>2, <2>3, Parts, HostSame, QuietStep
<1>4. CASE Cleanup(g) /\ pend' = [pend EXCEPT !["create"].phase = "cleaned"] /\ row' = row
  <2> HIDE DEF g
  <2>1. HostKept /\ sock' \in [Gens -> BOOLEAN] /\ sup' \in [Gens -> SupType]
    BY <1>2, <1>4, Parts, CleanupKeeps
  <2>2. PendKept
    BY <1>1, <1>4, Parts, KindFacts, PendPhase DEF Phases
  <2> QED BY <1>1, <1>4, <2>1, <2>2, Parts, RowsStay, QuietStep
<1> QED BY <1>3, <1>4 DEF FinishCreate

\* Also the start of an operation that the rotation asks for.
LEMMA StartKeeps ==
  ASSUME RuntimesOK, NEW k \in Kinds, NEW g \in Gens, NEW end \in BOOLEAN, Start(k, g, end),
         ops' \in 0 .. MaxOps
  PROVE  RuntimesOK'
<1>1. /\ UNCHANGED <<row, host, sock, sup, clients, plan, daemon, restarts, session, astray>>
      /\ row[g].state # "none"
      /\ pend' = [pend EXCEPT ![k] = [gen |-> g, phase |-> "waiting", end |-> end]]
  BY DEF Start
<1>2. PendKept
  BY <1>1, Parts, PendStart
<1> QED BY <1>1, <1>2, Parts, RowsStay, HostSame, QuietStep

LEMMA RequestKeeps ==
  ASSUME RuntimesOK, NEW k \in Connecting, NEW g \in Gens, NEW end \in BOOLEAN, Request(k, g, end)
  PROVE  RuntimesOK'
<1>1. ops' \in 0 .. MaxOps
  BY Parts, BoundsAssumption DEF Request
<1> QED BY <1>1, KindFacts, StartKeeps DEF Request

LEMMA ConnectKeeps ==
  ASSUME RuntimesOK, NEW k \in Connecting, NEW outcome \in {"ok", "absent", "slow"}, Connect(k, outcome)
  PROVE  RuntimesOK'
<1> DEFINE g == pend[k].gen
<1>1. /\ UNCHANGED <<row, host, sock, plan, daemon, restarts, session, ops, astray>>
      /\ pend[k].phase # "idle" /\ pend' = [pend EXCEPT ![k].phase = outcome] /\ outcome \in Phases
      /\ k \in Kinds
  BY KindFacts DEF Connect, Phases
<1>2. g \in Gens
  BY <1>1, PendRow
<1>3. PendKept
  BY <1>1, Parts, PendPhase
<1>4. sup' \in [Gens -> SupType]
  <2> DEFINE x == IF sup[g].child /\ ~Gone(g) THEN "recovering" ELSE "crashed"
  <2>1. \/ sup' = sup
        \/ sup' = [sup EXCEPT ![g].state = "running", ![g].client = TRUE]
        \/ sup' = [sup EXCEPT ![g].state = x]
    BY DEF Connect
  <2>2. x \in {"none", "starting", "running", "recovering", "crashed", "terminated"}
    OBVIOUS
  <2> HIDE DEF x, g
  <2>3. [sup EXCEPT ![g].state = x] \in [Gens -> SupType]
    BY <1>2, <2>2, Parts, SupState
  <2>4. [sup EXCEPT ![g].state = "running", ![g].client = TRUE] \in [Gens -> SupType]
    BY <1>2, Parts, SupBoth
  <2> QED BY <2>1, <2>3, <2>4, Parts
<1>5. clients' \in [Gens -> BOOLEAN]
  BY <1>2, Parts DEF Connect
<1> QED BY <1>1, <1>3, <1>4, <1>5, Parts, RowsStay, HostSame, QuietStep

LEMMA FinishRecoverKeeps ==
  ASSUME RuntimesOK, NEW missed \in BOOLEAN, FinishRecover(missed)
  PROVE  RuntimesOK'
<1> DEFINE g == pend["recover"].gen
<1>1. UNCHANGED <<plan, daemon, restarts, session, ops, astray>> /\ pend["recover"].phase # "idle"
  BY DEF FinishRecover
<1>2. g \in Gens /\ row[g].state # "none" /\ "running" \in Live \cup Final /\ "recovering" \in Live \cup Final
  BY <1>1, KindFacts, PendRow DEF Live
<1>3. CASE /\ Registered(g, missed) /\ row' = MarkState(g, "running", "none")
           /\ pend' = [pend EXCEPT !["recover"] = Idle] /\ UNCHANGED <<host, sock, sup>>
  <2> HIDE DEF g
  <2>1. row' \in [Gens -> RowType] /\ SameRows
    BY <1>2, <1>3, Parts, MarkStep
  <2>2. PendKept
    BY <1>3, Parts, KindFacts, PendIdle
  <2>3. clients' \in [Gens -> BOOLEAN]
    BY <1>2, <1>3, Parts DEF Registered
  <2> QED BY <1>1, <1>3, <2>1, <2>2, <2>3, Parts, HostSame, QuietStep
<1>4. CASE /\ row' = MarkState(g, "recovering", "failed")
           /\ pend' = [pend EXCEPT !["recover"] = Idle] /\ UNCHANGED <<host, sock, sup, clients>>
  <2> HIDE DEF g
  <2>1. row' \in [Gens -> RowType] /\ SameRows
    BY <1>2, <1>4, Parts, MarkStep
  <2>2. PendKept
    BY <1>4, Parts, KindFacts, PendIdle
  <2> QED BY <1>1, <1>4, <2>1, <2>2, Parts, HostSame, QuietStep
<1>5. CASE Cleanup(g) /\ pend' = [pend EXCEPT !["recover"].phase = "cleaned"] /\ UNCHANGED <<row, clients>>
  <2> HIDE DEF g
  <2>1. HostKept /\ sock' \in [Gens -> BOOLEAN] /\ sup' \in [Gens -> SupType]
    BY <1>2, <1>5, Parts, CleanupKeeps
  <2>2. PendKept
    BY <1>1, <1>5, Parts, KindFacts, PendPhase DEF Phases
  <2> QED BY <1>1, <1>5, <2>1, <2>2, Parts, RowsStay, QuietStep
<1> QED BY <1>3, <1>4, <1>5 DEF FinishRecover

LEMMA RecordAbsenceKeeps ==
  ASSUME RuntimesOK, NEW k \in Kinds, RecordAbsence(k)
  PROVE  row' \in [Gens -> RowType] /\ SameRows /\ PendKept
<1>1. /\ pend[k].phase # "idle" /\ row' = MarkState(pend[k].gen, "crashed", "absent")
      /\ pend' = [pend EXCEPT ![k].phase = "cleaning"]
  BY DEF RecordAbsence
<1>2. pend[k].gen \in Gens /\ row[pend[k].gen].state # "none" /\ "crashed" \in Live \cup Final
  BY <1>1, PendRow DEF Final
<1>3. row' \in [Gens -> RowType] /\ SameRows
  BY <1>1, <1>2, Parts, MarkStep
<1>4. PendKept
  BY <1>1, Parts, PendPhase DEF Phases
<1> QED BY <1>3, <1>4

LEMMA FinishDeliverKeeps ==
  ASSUME RuntimesOK, NEW missed \in BOOLEAN, FinishDeliver(missed)
  PROVE  RuntimesOK'
<1>1. UNCHANGED <<host, sock, sup, plan, daemon, restarts, session, ops, astray>> /\ pend["deliver"].phase # "idle"
  BY DEF FinishDeliver, RecordAbsence
<1>2. row' \in [Gens -> RowType] /\ SameRows /\ PendKept
  <2>1. CASE row' = row /\ pend' = [pend EXCEPT !["deliver"] = Idle]
    BY <2>1, Parts, KindFacts, PendIdle, RowsStay
  <2>2. CASE RecordAbsence("deliver")
    BY <2>2, KindFacts, RecordAbsenceKeeps
  <2> QED BY <2>1, <2>2 DEF FinishDeliver
<1>3. clients' \in [Gens -> BOOLEAN]
  <2>1. pend["deliver"].gen \in Gens
    BY <1>1, KindFacts, PendRow
  <2>2. clients' = clients \/ clients' = [clients EXCEPT ![pend["deliver"].gen] = @ \/ ~missed]
    BY DEF FinishDeliver, Registered
  <2> QED BY <2>1, <2>2, Parts
<1> QED BY <1>1, <1>2, <1>3, Parts, HostSame, QuietStep

LEMMA FinishAttachKeeps ==
  ASSUME RuntimesOK, FinishAttach
  PROVE  RuntimesOK'
<1>1. UNCHANGED <<host, sock, sup, clients, plan, daemon, restarts, session, ops, astray>>
  BY DEF FinishAttach
<1>2. row' \in [Gens -> RowType] /\ SameRows /\ PendKept
  <2>1. CASE row' = row /\ pend' = [pend EXCEPT !["attach"] = Idle]
    BY <2>1, Parts, KindFacts, PendIdle, RowsStay
  <2>2. CASE RecordAbsence("attach")
    BY <2>2, KindFacts, RecordAbsenceKeeps
  <2> QED BY <2>1, <2>2 DEF FinishAttach
<1> QED BY <1>1, <1>2, Parts, HostSame, QuietStep

LEMMA FinishTerminateKeeps ==
  ASSUME RuntimesOK, FinishTerminate
  PROVE  RuntimesOK'
<1> DEFINE g == pend["terminate"].gen
<1>1. UNCHANGED <<row, clients, plan, daemon, restarts, session, ops, astray>> /\ pend["terminate"].phase # "idle"
  BY DEF FinishTerminate
<1>2. g \in Gens /\ row[g].state # "none"
  BY <1>1, KindFacts, PendRow
<1>3. PendKept
  BY <1>1, Parts, KindFacts, PendPhase, PendIdle DEF FinishTerminate, Phases
<1>4. HostKept /\ sock' \in [Gens -> BOOLEAN] /\ sup' \in [Gens -> SupType]
  <2>1. CASE host' = [host EXCEPT ![g] = IF @ = "up" THEN "exited" ELSE @] /\ UNCHANGED <<sock, sup>>
    <3>1. (IF host[g] = "up" THEN "exited" ELSE host[g]) \in HostStates
      BY <1>2, Parts DEF HostStates
    <3> HIDE DEF g
    <3> QED BY <1>2, <2>1, <3>1, Parts, HostSet
  <2>2. CASE Cleanup(g)
    BY <1>2, <2>2, Parts, CleanupKeeps
  <2>3. CASE UNCHANGED <<host, sock, sup>>
    BY <2>3, Parts, HostSame
  <2> QED BY <2>1, <2>2, <2>3 DEF FinishTerminate
<1> QED BY <1>1, <1>3, <1>4, Parts, RowsStay, QuietStep

LEMMA SettleKeeps ==
  ASSUME RuntimesOK, NEW k \in Kinds, Settle(k)
  PROVE  /\ RuntimesOK'
         /\ k = "terminate" /\ pend[k].phase = "cleaned" => row'[pend[k].gen].ended
<1> DEFINE g == pend[k].gen
<1>1. /\ UNCHANGED <<clients, plan, daemon, restarts, ops, astray>> /\ pend[k].phase # "idle"
      /\ pend' = [pend EXCEPT ![k] = Idle]
  BY DEF Settle
<1>2. g \in Gens /\ row[g].state # "none" /\ "terminated" \in Final /\ "crashed" \in Final
  BY <1>1, PendRow DEF Final
<1>3. PendKept
  BY <1>1, Parts, PendIdle
<1>4. CASE pend[k].phase = "cleaning"
  <2>1. Cleanup(g) /\ UNCHANGED <<row, session>>
    BY <1>4 DEF Settle
  <2>2. HostKept /\ sock' \in [Gens -> BOOLEAN] /\ sup' \in [Gens -> SupType]
    BY <1>2, <2>1, Parts, CleanupKeeps
  <2> QED BY <1>1, <1>3, <1>4, <2>1, <2>2, Parts, RowsStay, QuietStep
<1>5. CASE pend[k].phase = "cleaned"
  <2>1. /\ UNCHANGED <<host, sock, sup>> /\ session' \in {"open", "ended"}
        /\ row' = IF k = "terminate" THEN MarkState(g, "terminated", "operator")
                  ELSE MarkState(g, "crashed", "failed")
    BY <1>5, Parts DEF Settle
  <2>2. row' \in [Gens -> RowType] /\ SameRows /\ row'[g].ended
    <3> HIDE DEF g
    <3>1. CASE k = "terminate"
      BY <1>2, <2>1, <3>1, Parts, MarkStep
    <3>2. CASE k # "terminate"
      BY <1>2, <2>1, <3>2, Parts, MarkStep
    <3> QED BY <3>1, <3>2
  <2> QED BY <1>1, <1>3, <2>1, <2>2, Parts, HostSame, QuietStep
<1> QED BY <1>4, <1>5 DEF Settle
-----------------------------------------------------------------------------
(* New generations and the daemon.                                         *)

\* A generation of A from g up to h.
Between(A, g, h) == \E x \in A : g <= x /\ x <= h

\* A new generation, when the older ones have ended and the newer ones and the
\* plan were reached in turn, unless a caller named one out of turn.
LEMMA StartCreateKeeps ==
  ASSUME RuntimesOK, NEW g \in Gens, StartCreate(g), plan' \in {0, plan},
         daemon' \in {"starting", "restoring", "up"}, ops' \in 0 .. MaxOps,
         astray' \in {astray, astray \cup {g}},
         \A f \in Known : f < g => row[f].ended \/ Between(astray', f, g),
         \A h \in Known : g < h => Between(astray', g, h),
         plan' # 0 /\ g < plan => Between(astray', g, plan),
         plan' # 0 /\ plan < g => plan \in Known \/ Between(astray', plan, g)
  PROVE  RuntimesOK'
<1> DEFINE new == [state |-> "creating", ended |-> row[g].ended \/ "creating" \in Final, why |-> row[g].why]
           s == [state |-> "starting", child |-> TRUE, client |-> FALSE]
           w == [Idle EXCEPT !.gen = g, !.phase = "waiting"]
<1>1. /\ row[g].state = "none" /\ row' = [row EXCEPT ![g] = new]
      /\ host' = [host EXCEPT ![g] = "starting"] /\ sup' = [sup EXCEPT ![g] = s]
      /\ pend' = [pend EXCEPT !["create"] = w]
      /\ UNCHANGED <<sock, clients, restarts, session>>
  BY DEF StartCreate, InsertRow, Spawn, MarkState
<1>2. new \in RowType /\ new.state = "creating"
  BY Parts DEF RowType, Live
<1>3. s \in SupType
  BY DEF SupType
<1>4. w \in PendType /\ w.gen = g
  <2>1. g \in 0 .. MaxGeneration /\ "waiting" \in Phases /\ Idle \in PendType
    BY BoundsAssumption, IdleType DEF Phases, Gens
  <2> QED BY <2>1, Zenon DEF PendType
<1> HIDE DEF new, s, w
<1>5. /\ row' \in [Gens -> RowType] /\ row'[g] = new /\ \A h \in Gens \ {g} : row'[h] = row[h]
      /\ host' \in [Gens -> {"none", "starting", "up", "exited", "killed"}]
      /\ \A h \in Gens \ {g} : host'[h] = host[h]
      /\ sup' \in [Gens -> SupType]
      /\ pend' \in [Kinds -> PendType] /\ pend'["create"] = w
      /\ \A k \in Kinds \ {"create"} : pend'[k] = pend[k]
  BY <1>1, <1>2, <1>3, <1>4, Parts, KindFacts
<1>6. Known' = Known \cup {g} /\ g \notin Known
  <2>1. \A h \in Gens : row'[h].state # "none" <=> h = g \/ row[h].state # "none"
    BY <1>2, <1>5
  <2> QED BY <1>1, <2>1 DEF Known
<1>7. astray \subseteq astray' /\ astray' \subseteq Gens /\ AstrayOK'
  BY <1>6, Parts DEF AstrayOK
<1>8. \A f, h : Between(astray, f, h) => Between(astray', f, h)
  BY <1>7 DEF Between
<1>9. \A h \in Known : row'[h] = row[h]
  BY <1>5, <1>6 DEF Known
<1>10. EndedOK'
  <2> SUFFICES ASSUME NEW h \in Gens, row'[h].state \in Final PROVE row'[h].ended
    BY DEF EndedOK
  <2>1. h # g
    BY <1>2, <1>5 DEF Final
  <2> QED BY <1>5, <2>1, Parts DEF EndedOK
<1>11. GivenUpOK'
  <2> SUFFICES ASSUME NEW f \in Known', NEW h \in Known', f < h
               PROVE  row'[f].ended \/ Between(astray', f, h)
    BY DEF GivenUpOK, Forced, Between
  <2>1. CASE f \in Known /\ h \in Known
    <3>1. row[f].ended \/ Between(astray, f, h)
      BY <2>1, Parts DEF GivenUpOK, Forced, Between
    <3> QED BY <1>8, <1>9, <2>1, <3>1
  <2>2. CASE f \in Known /\ h = g
    BY <1>9, <2>2
  <2>3. CASE f = g /\ h \in Known
    BY <2>3
  <2>4. ~(f = g /\ h = g)
    BY DEF Gens
  <2> QED BY <1>6, <2>1, <2>2, <2>3, <2>4
<1>12. HostsOK' /\ PendOK'
  <2>1. \A h \in Gens : row[h].state # "none" => row'[h].state # "none"
    BY <1>1, <1>5
  <2>2. row'[g].state # "none"
    BY <1>2, <1>5
  <2> QED BY <1>4, <1>5, <2>1, <2>2, Parts, Zenon DEF HostsOK, PendOK
<1>13. Newest \in Nat /\ Newest' \in Nat /\ Newest <= Newest'
  <2>1. Known' \subseteq Gens
    BY <1>6 DEF Known
  <2>2. Newest' \in 0 .. MaxGeneration /\ \A h \in Known' : h <= Newest'
    BY <2>1, NewestIs DEF Newest
  <2>3. Newest \in 0 .. MaxGeneration /\ (Newest = 0 \/ Newest \in Known')
    BY <1>6, NewestType
  <2> QED BY <2>2, <2>3, BoundsAssumption
<1>14. PlanOK'
  <2>1. CASE plan' = 0
    BY <2>1 DEF PlanOK
  <2>2. CASE plan' = plan /\ plan # 0
    <3>1. plan <= Newest + 1 /\ plan \in Nat
      BY <2>2, Parts, BoundsAssumption DEF PlanOK
    <3>2. plan' <= Newest' + 1
      <4> DEFINE m == Newest
                 n == Newest'
      <4>1. m \in Nat /\ n \in Nat /\ m <= n /\ plan <= m + 1
        BY <1>13, <3>1
      <4> HIDE DEF m, n
      <4>2. plan <= n + 1
        BY <3>1, <4>1
      <4> QED BY <2>2, <4>2 DEF n
    <3>3. ASSUME NEW h \in Known', h < plan PROVE row'[h].ended \/ Between(astray', h, plan)
      <4>1. CASE h \in Known
        <5>1. row[h].ended \/ Between(astray, h, plan)
          BY <2>2, <3>3, <4>1, Parts DEF PlanOK, Forced, Between
        <5> QED BY <1>8, <1>9, <4>1, <5>1
      <4>2. CASE h = g
        BY <2>2, <3>3, <4>2
      <4> QED BY <1>6, <4>1, <4>2
    <3>4. ASSUME NEW h \in Known', plan < h PROVE plan \in Known' \/ Between(astray', plan, h)
      <4>1. CASE h \in Known
        <5>1. plan \in Known \/ Between(astray, plan, h)
          BY <2>2, <3>4, <4>1, Parts DEF PlanOK, Forced, Between
        <5> QED BY <1>6, <1>8, <5>1
      <4>2. CASE h = g
        BY <1>6, <2>2, <3>4, <4>2
      <4> QED BY <1>6, <4>1, <4>2
    <3> QED BY <2>2, <3>2, <3>3, <3>4 DEF PlanOK, Forced, Between
  <2> QED BY <2>1, <2>2
<1>15. TypeOK'
  <2>1. plan' \in 0 .. MaxGeneration
    BY Parts, BoundsAssumption
  <2>2. /\ sock' \in [Gens -> BOOLEAN] /\ clients' \in [Gens -> BOOLEAN] /\ restarts' \in 0 .. MaxRestarts
        /\ session' \in {"open", "ended"}
    BY <1>1, Parts
  <2> QED BY <1>5, <1>7, <2>1, <2>2, Zenon DEF TypeOK, RowType, SupType, PendType, Phases
<1> QED BY <1>7, <1>10, <1>11, <1>12, <1>14, <1>15 DEF RuntimesOK

\* A newest generation that is not live has ended, and so has each older one that
\* nobody brought together with it.
LEMMA DownEnded ==
  ASSUME RuntimesOK, NewestIsDown, NEW f \in Known
  PROVE  row[f].ended \/ Forced(f, Newest)
<1>1. f \in Gens /\ f <= Newest /\ Newest \in 0 .. MaxGeneration
  BY NewestType DEF Known
<1>2. f < Newest \/ f = Newest
  BY <1>1, BoundsAssumption DEF Gens
<1>3. Newest \in Known /\ Newest \in Gens /\ Newest > 0
  BY <1>1, NewestType, BoundsAssumption DEF Known, Gens
<1>4. CASE f < Newest
  BY <1>3, <1>4, Parts DEF GivenUpOK
<1>5. CASE f = Newest
  <2>1. row[f].state \notin Live /\ row[f].state # "none"
    BY <1>3, <1>5 DEF NewestIsDown, Known
  <2>2. row[f].state \in Final
    BY <1>1, <2>1, Parts DEF RowType
  <2> QED BY <1>1, <2>2, Parts DEF EndedOK
<1> QED BY <1>2, <1>4, <1>5

\* The generation whose turn it is.
LEMMA InTurnKeeps ==
  ASSUME RuntimesOK, NEW g \in Gens, InTurn(g), StartCreate(g), plan' \in {0, plan},
         daemon' \in {"starting", "restoring", "up"}, ops' \in 0 .. MaxOps, astray' = astray
  PROVE  RuntimesOK'
<1>1. g = Newest + 1 /\ Newest \in Nat /\ \A f \in Known : f \in Nat /\ f <= Newest
  BY NewestType, BoundsAssumption DEF InTurn, Known, Gens
<1>2. astray \subseteq Nat
  BY Parts, BoundsAssumption DEF Gens
<1>3. ASSUME NEW f \in Known PROVE row[f].ended \/ Between(astray', f, g)
  <2>1. row[f].ended \/ Forced(f, Newest)
    BY DownEnded DEF InTurn
  <2> QED BY <1>1, <1>2, <2>1 DEF Forced, Between
<1>4. \A h \in Known : ~(g < h)
  BY <1>1
<1>5. ASSUME plan' # 0 PROVE ~(g < plan) /\ (plan < g => plan \in Known \/ Between(astray', plan, g))
  <2>1. plan # 0 /\ plan \in Nat /\ plan <= Newest + 1
    BY <1>5, Parts, BoundsAssumption DEF PlanOK
  <2>2. ASSUME plan < Newest PROVE plan \in Known \/ Between(astray', plan, g)
    <3>1. Newest \in Known
      BY <1>1, <2>1, <2>2, NewestType
    <3>2. plan \in Known \/ Forced(plan, Newest)
      BY <2>1, <2>2, <3>1, Parts DEF PlanOK
    <3> QED BY <1>1, <1>2, <3>2 DEF Forced, Between
  <2>3. ASSUME plan = Newest PROVE plan \in Known
    BY <2>1, <2>3, NewestType
  <2> QED BY <1>1, <2>1, <2>2, <2>3
<1> QED BY <1>3, <1>4, <1>5, Parts, StartCreateKeeps

\* A resumable session has room for the next generation, whose turn it is.
LEMMA ResumableTurn ==
  ASSUME Resumable
  PROVE  Newest + 1 \in Gens /\ InTurn(Newest + 1)
BY NewestType, BoundsAssumption DEF Resumable, InTurn, Gens

LEMMA PlanResumeKeeps ==
  ASSUME RuntimesOK, PlanResume
  PROVE  RuntimesOK'
<1>1. /\ Resumable /\ plan' = Newest + 1
      /\ UNCHANGED <<row, host, sock, sup, clients, pend, daemon, restarts, session, ops, astray>>
  BY DEF PlanResume
<1>2. Newest + 1 \in Gens /\ NewestIsDown
  BY <1>1, ResumableTurn DEF InTurn
<1>3. Newest' = Newest /\ Known' = Known
  BY <1>1 DEF Newest, Known
<1>4. /\ Newest \in Nat /\ plan' \in 0 .. MaxGeneration
      /\ astray \subseteq Nat /\ \A f \in Known : f \in Nat /\ f <= Newest
  BY <1>1, <1>2, Parts, NewestType, BoundsAssumption DEF Gens, Known
<1>5. PlanOK'
  <2>1. ASSUME NEW f \in Known PROVE row[f].ended \/ Between(astray, f, Newest + 1)
    <3>1. row[f].ended \/ Forced(f, Newest)
      BY <1>2, DownEnded
    <3> QED BY <1>4, <3>1 DEF Forced, Between
  <2>2. \A f \in Known : ~(Newest + 1 < f)
    BY <1>4
  <2> QED BY <1>1, <1>3, <1>4, <2>1, <2>2 DEF PlanOK, Forced, Between
<1>6. EndedOK' /\ GivenUpOK' /\ AstrayOK' /\ HostsOK' /\ PendOK'
  BY <1>1, <1>3, Parts DEF EndedOK, GivenUpOK, AstrayOK, Forced, HostsOK, PendOK
<1>7. TypeOK'
  BY <1>1, <1>4, Parts DEF TypeOK
<1> QED BY <1>5, <1>6, <1>7 DEF RuntimesOK

LEMMA CreateKeeps ==
  ASSUME RuntimesOK, Create
  PROVE  RuntimesOK'
<1>1. /\ plan # 0 /\ StartCreate(plan) /\ plan' = 0 /\ row[plan].state = "none"
      /\ UNCHANGED <<daemon, ops, astray>>
  BY DEF Create, StartCreate, InsertRow
<1>2. plan \in Gens /\ plan \notin Known
  BY <1>1, Parts, BoundsAssumption DEF Gens, Known
<1> DEFINE g == plan
<1>3. \A f \in Known : f < g => row[f].ended \/ Between(astray', f, g)
  BY <1>1, Parts DEF PlanOK, Forced, Between
<1>4. \A h \in Known : g < h => Between(astray', g, h)
  BY <1>1, <1>2, Parts DEF PlanOK, Forced, Between
<1> HIDE DEF g
<1>5. g \in Gens /\ StartCreate(g)
  BY <1>1, <1>2 DEF g
<1> QED BY <1>1, <1>3, <1>4, <1>5, Parts, StartCreateKeeps

LEMMA CreateNamedKeeps ==
  ASSUME RuntimesOK, NEW g \in Gens, CreateNamed(g)
  PROVE  RuntimesOK'
<1>1. /\ StartCreate(g) /\ UNCHANGED <<plan, daemon>>
      /\ astray' = IF InTurn(g) THEN astray ELSE astray \cup {g}
  BY DEF CreateNamed
<1>2. ops' \in 0 .. MaxOps
  BY Parts, BoundsAssumption DEF CreateNamed
<1>3. CASE InTurn(g)
  BY <1>1, <1>2, <1>3, Parts, InTurnKeeps
<1>4. CASE ~InTurn(g)
  <2>1. g \in astray' /\ g \in Nat /\ plan \in Nat /\ Known \subseteq Nat
    BY <1>1, <1>4, Parts, BoundsAssumption DEF Gens, Known
  <2>2. \A f \in Nat : /\ f < g => Between(astray', f, g)
                       /\ g < f => Between(astray', g, f)
    BY <2>1 DEF Between
  <2>3. /\ \A f \in Known : f < g => Between(astray', f, g)
        /\ \A h \in Known : g < h => Between(astray', g, h)
        /\ g < plan => Between(astray', g, plan)
        /\ plan < g => Between(astray', plan, g)
    BY <2>1, <2>2
  <2> QED BY <1>1, <1>2, <1>4, <2>3, Parts, StartCreateKeeps
<1> QED BY <1>3, <1>4

LEMMA CreateRefusedKeeps ==
  ASSUME RuntimesOK, CreateRefused
  PROVE  RuntimesOK'
<1>1. plan' = 0 /\ UNCHANGED <<row, host, sock, sup, clients, pend, daemon, restarts, session, ops, astray>>
  BY DEF CreateRefused
<1> QED BY <1>1, Parts, RowsStay, PendSame, HostSame, QuietStep

LEMMA CrashKeeps ==
  ASSUME RuntimesOK, Crash
  PROVE  RuntimesOK'
<1>1. /\ UNCHANGED <<row, host, sock, plan, session, ops, astray>> /\ daemon' = "starting"
      /\ sup' = [g \in Gens |-> NoSup] /\ clients' = [g \in Gens |-> FALSE]
      /\ pend' = [k \in Kinds |-> Idle]
  BY DEF Crash
<1>2. restarts' \in 0 .. MaxRestarts
  BY Parts, BoundsAssumption DEF Crash
<1>3. NoSup \in SupType
  BY DEF NoSup, SupType
<1>4. sup' \in [Gens -> SupType] /\ clients' \in [Gens -> BOOLEAN]
  BY <1>1, <1>3
<1>5. PendKept
  BY <1>1, IdleType DEF PendKept
<1> QED BY <1>1, <1>2, <1>4, <1>5, Parts, RowsStay, HostSame, QuietStep

LEMMA ReconcileKeeps ==
  ASSUME RuntimesOK, Reconcile
  PROVE  RuntimesOK'
<1> DEFINE absent == {g \in Gens : Current(g) /\ ~Reachable(g)}
<1>1. /\ row' = [g \in Gens |-> IF g \in absent THEN MarkState(g, "crashed", "absent")[g] ELSE row[g]]
      /\ UnlinkAll(absent) /\ daemon' = "restoring"
      /\ UNCHANGED <<host, clients, pend, plan, restarts, session, ops, astray>>
  BY DEF Reconcile
<1>2. \A g \in absent : row[g].state # "none"
  BY DEF Current, Live
<1> HIDE DEF absent
<1>3. ASSUME NEW g \in Gens
      PROVE  /\ row'[g] \in RowType
             /\ row'[g].state = "none" <=> row[g].state = "none"
             /\ row[g].ended => row'[g].ended
             /\ row'[g].state \in Final => row'[g].ended
  <2>1. CASE g \notin absent
    BY <1>1, <2>1, Parts DEF EndedOK
  <2>2. CASE g \in absent
    <3> DEFINE r == [state |-> "crashed", ended |-> row[g].ended \/ "crashed" \in Final,
                     why |-> "absent"]
    <3>1. row'[g] = r
      BY <1>1, <2>2, Parts DEF MarkState
    <3>2. r \in RowType /\ r.state = "crashed" /\ r.ended
      BY DEF RowType, Final
    <3> HIDE DEF r
    <3> QED BY <1>2, <2>2, <3>1, <3>2
  <2> QED BY <2>1, <2>2
<1>4. row' \in [Gens -> RowType] /\ SameRows
  <2>1. row' = [g \in Gens |-> row'[g]]
    BY <1>1
  <2> QED BY <1>3, <2>1, Zenon DEF SameRows
<1>5. sock' \in [Gens -> BOOLEAN]
  BY <1>1, Parts DEF UnlinkAll
<1>6. sup' \in [Gens -> SupType]
  <2> DEFINE t == [NoSup EXCEPT !.state = "terminated"]
  <2>1. t \in SupType
    BY DEF NoSup, SupType
  <2>2. sup' = [g \in Gens |-> IF g \in absent THEN t ELSE sup[g]]
    BY <1>1 DEF UnlinkAll
  <2> HIDE DEF t
  <2> QED BY <2>1, <2>2, Parts
<1> QED BY <1>1, <1>4, <1>5, <1>6, Parts, PendSame, HostSame, QuietStep

LEMMA RestoreKeeps ==
  ASSUME RuntimesOK, Restore
  PROVE  RuntimesOK'
<1>1. daemon' = "up" /\ UNCHANGED <<plan, ops, astray>>
  BY DEF Restore
<1>2. CASE UNCHANGED <<row, host, sock, sup, clients, pend, restarts, session>>
  BY <1>1, <1>2, Parts, RowsStay, PendSame, HostSame, QuietStep
<1>3. CASE Resumable /\ StartCreate(Newest + 1)
  <2>1. Newest + 1 \in Gens /\ InTurn(Newest + 1)
    BY <1>3, ResumableTurn
  <2> QED BY <1>1, <1>3, <2>1, Parts, InTurnKeeps
<1> QED BY <1>2, <1>3 DEF Restore

LEMMA RuntimesNext ==
  ASSUME RuntimesOK, Next
  PROVE  RuntimesOK'
<1>1. CASE PlanResume \/ Create \/ CreateRefused \/ FinishCreate \/ FinishAttach \/ FinishTerminate
  BY <1>1, PlanResumeKeeps, CreateKeeps, CreateRefusedKeeps, FinishCreateKeeps, FinishAttachKeeps,
     FinishTerminateKeeps
<1>2. CASE Crash \/ Reconcile \/ Restore
  BY <1>2, CrashKeeps, ReconcileKeeps, RestoreKeeps
<1>3. ASSUME NEW g \in Gens,
             \/ HostListens(g) \/ ClientsEnd(g) \/ Detach(g) \/ CreateNamed(g)
             \/ \E how \in {"exited", "killed"} : HostEnds(g, how)
             \/ \E k \in Connecting, end \in BOOLEAN : Request(k, g, end)
      PROVE  RuntimesOK'
  BY <1>3, HostListensKeeps, ClientsEndKeeps, DetachKeeps, CreateNamedKeeps, HostEndsKeeps, RequestKeeps
<1>4. ASSUME NEW outcome \in {"ok", "absent", "slow"},
             Enrolled(outcome) \/ \E k \in Connecting : Connect(k, outcome)
      PROVE  RuntimesOK'
  BY <1>4, EnrolledKeeps, ConnectKeeps
<1>5. ASSUME NEW missed \in BOOLEAN, FinishRecover(missed) \/ FinishDeliver(missed) PROVE RuntimesOK'
  BY <1>5, FinishRecoverKeeps, FinishDeliverKeeps
<1>6. ASSUME NEW k \in Kinds, Settle(k) PROVE RuntimesOK'
  BY <1>6, SettleKeeps
<1> QED BY <1>1, <1>2, <1>3, <1>4, <1>5, <1>6, Zenon DEF Next

LEMMA RuntimesInit ==
  ASSUME Init
  PROVE  RuntimesOK
<1>1. NoRow \in RowType /\ NoSup \in SupType /\ NoRow.state = "none"
  BY DEF NoRow, NoSup, RowType, SupType
<1>2. TypeOK
  <2>1. 0 \in 0 .. MaxGeneration /\ 0 \in 0 .. MaxRestarts /\ 0 \in 0 .. MaxOps
    BY BoundsAssumption
  <2>2. /\ row \in [Gens -> RowType] /\ host \in [Gens -> {"none", "starting", "up", "exited", "killed"}]
        /\ sock \in [Gens -> BOOLEAN] /\ sup \in [Gens -> SupType] /\ clients \in [Gens -> BOOLEAN]
        /\ pend \in [Kinds -> PendType]
    BY <1>1, IdleType DEF Init
  <2> QED BY <2>1, <2>2, Types DEF Init
<1>3. \A g \in Gens : row[g].state = "none"
  BY <1>1 DEF Init
<1>4. Known = {} /\ astray = {}
  BY <1>3 DEF Init, Known
<1>5. EndedOK /\ GivenUpOK /\ AstrayOK
  BY <1>3, <1>4 DEF EndedOK, GivenUpOK, AstrayOK, Final
<1>6. HostsOK /\ PendOK /\ PlanOK
  BY IdleType DEF Init, HostsOK, PendOK, PlanOK
<1> QED BY <1>2, <1>5, <1>6 DEF RuntimesOK

LEMMA RuntimesStay ==
  ASSUME RuntimesOK, UNCHANGED vars
  PROVE  RuntimesOK'
<1>1. UNCHANGED <<row, host, sock, sup, clients, pend, plan, daemon, restarts, session, ops, astray>>
  BY DEF vars
<1> QED BY <1>1, Parts, RowsStay, PendSame, HostSame, QuietStep

\* An invariant of the rows gives the two properties of the store.
LEMMA RuntimesMean ==
  ASSUME RuntimesOK
  PROVE  OneCurrentGeneration /\ OlderHostsAreGivenUp
<1>1. ASSUME NEW g \in Known, NEW h \in Known, g < h, Current(g) PROVE Forced(g, h)
  BY <1>1, Parts DEF GivenUpOK, Current
<1>2. ASSUME NEW g \in Gens, NEW h \in Gens, g < h, ~Gone(g), ~Gone(h)
      PROVE  row[g].ended \/ Forced(g, h)
  <2>1. g \in Known /\ h \in Known
    BY <1>2, Parts DEF Gone, HostsOK, Known
  <2> QED BY <1>2, <2>1, Parts DEF GivenUpOK
<1> QED BY <1>1, <1>2 DEF OneCurrentGeneration, OlderHostsAreGivenUp
-----------------------------------------------------------------------------
(* What a step of the runtimes means to the rotation.                      *)

LEMMA MarkEnds ==
  ASSUME TypeOK, NEW g, NEW st, NEW why, row' = MarkState(g, st, why), NEW h \in Gens, row[h].ended
  PROVE  row'[h].ended
<1> DEFINE r == [state |-> st, ended |-> row[g].ended \/ st \in Final,
                 why |-> IF why = "none" THEN row[g].why ELSE why]
<1>1. row \in [Gens -> RowType] /\ row' = [row EXCEPT ![g] = r]
  BY Types DEF MarkState
<1>2. r.ended <=> row[g].ended \/ st \in Final
  OBVIOUS
<1> HIDE DEF r
<1>3. CASE h = g
  BY <1>1, <1>2, <1>3
<1>4. CASE h # g
  BY <1>1, <1>4
<1> QED BY <1>3, <1>4

\* No step clears ended_at.
LEMMA EndsStay ==
  ASSUME RuntimesOK, Next, NEW h \in Gens, row[h].ended
  PROVE  row'[h].ended
<1>1. CASE row' = row
  BY <1>1
<1>2. ASSUME NEW g, NEW st, NEW why, row' = MarkState(g, st, why) PROVE row'[h].ended
  BY <1>2, Parts, MarkEnds
<1>3. CASE Reconcile
  <2> DEFINE absent == {g \in Gens : Current(g) /\ ~Reachable(g)}
  <2>1. h \notin absent
    BY DEF Current
  <2>2. row'[h] = row[h]
    BY <1>3, <2>1 DEF Reconcile
  <2> QED BY <2>2
<1>4. CASE PlanResume \/ CreateRefused \/ FinishTerminate \/ Crash
  BY <1>1, <1>4, Zenon DEF PlanResume, CreateRefused, FinishTerminate, Crash
<1>5. CASE Create \/ Restore
  <2>1. \/ row' = row \/ row' = MarkState(plan, "creating", "none")
        \/ row' = MarkState(Newest + 1, "creating", "none")
    BY <1>5, Zenon DEF Create, Restore, StartCreate, InsertRow
  <2> QED BY <1>1, <1>2, <2>1
<1>6. CASE FinishCreate \/ FinishAttach
  <2>1. \/ row' = row \/ row' = MarkState(pend["create"].gen, "running", "none")
        \/ row' = MarkState(pend["attach"].gen, "crashed", "absent")
    BY <1>6, Zenon DEF FinishCreate, FinishAttach, RecordAbsence
  <2> QED BY <1>1, <1>2, <2>1
<1>7. ASSUME NEW g \in Gens,
             \/ HostListens(g) \/ ClientsEnd(g) \/ Detach(g) \/ CreateNamed(g)
             \/ \E how \in {"exited", "killed"} : HostEnds(g, how)
             \/ \E k \in Connecting, end \in BOOLEAN : Request(k, g, end)
      PROVE  row'[h].ended
  <2>1. CASE CreateNamed(g)
    <3>1. row' = MarkState(g, "creating", "none")
      BY <2>1 DEF CreateNamed, StartCreate, InsertRow
    <3> QED BY <1>2, <3>1
  <2> QED BY <1>1, <1>2, <1>7, <2>1 DEF HostListens, ClientsEnd, Detach, HostEnds, Request, Start
<1>8. ASSUME NEW outcome \in {"ok", "absent", "slow"},
             Enrolled(outcome) \/ \E k \in Connecting : Connect(k, outcome)
      PROVE  row'[h].ended
  BY <1>1, <1>8, Zenon DEF Enrolled, Connect
<1>9. ASSUME NEW missed \in BOOLEAN, FinishRecover(missed) \/ FinishDeliver(missed) PROVE row'[h].ended
  <2>1. \/ row' = row \/ row' = MarkState(pend["recover"].gen, "running", "none")
        \/ row' = MarkState(pend["recover"].gen, "recovering", "failed")
        \/ row' = MarkState(pend["deliver"].gen, "crashed", "absent")
    BY <1>9, Zenon DEF FinishRecover, FinishDeliver, RecordAbsence
  <2> QED BY <1>1, <1>2, <2>1
<1>10. ASSUME NEW k \in Kinds, Settle(k) PROVE row'[h].ended
  BY <1>1, <1>2, <1>10 DEF Settle
<1> QED BY <1>3, <1>4, <1>5, <1>6, <1>7, <1>8, <1>9, <1>10, Zenon DEF Next

\* The termination goes on, or ends: with the daemon, or with the row it was for,
\* or without success.
TermStep ==
    \/ pend'["terminate"] = pend["terminate"]
    \/ pend["terminate"].phase = "idle"
    \/ /\ pend["terminate"].phase # "cleaned"
       /\ \/ pend'["terminate"].phase = "idle"
          \/ pend'["terminate"].gen = pend["terminate"].gen
    \/ /\ pend'["terminate"].phase = "idle"
       /\ \/ restarts' # restarts
          \/ pend["terminate"].phase = "cleaned" => row'[pend["terminate"].gen].ended

LEMMA TerminationSteps ==
  ASSUME RuntimesOK, Next
  PROVE  TermStep
<1>1. CASE pend' = pend
  BY <1>1 DEF TermStep
<1>2. ASSUME NEW k \in Kinds \ {"terminate"}, NEW x, pend' = [pend EXCEPT ![k] = x] PROVE TermStep
  BY <1>2, Parts, KindFacts DEF TermStep
<1>3. ASSUME NEW k \in Kinds \ {"terminate"}, NEW x, pend' = [pend EXCEPT ![k].phase = x] PROVE TermStep
  BY <1>3, Parts, KindFacts DEF TermStep
<1>4. "create" # "terminate" /\ "recover" # "terminate" /\ "deliver" # "terminate" /\ "attach" # "terminate"
  OBVIOUS
<1>5. CASE Crash
  <2>1. restarts' # restarts
    BY <1>5, Parts, BoundsAssumption DEF Crash
  <2>2. pend'["terminate"].phase = "idle"
    BY <1>5, KindFacts, IdleType DEF Crash
  <2> QED BY <2>1, <2>2 DEF TermStep
<1>6. CASE PlanResume \/ CreateRefused \/ Reconcile
  BY <1>1, <1>6, Zenon DEF PlanResume, CreateRefused, Reconcile
<1>7. CASE Create \/ Restore
  BY <1>1, <1>2, <1>4, <1>7, KindFacts, Zenon DEF Create, Restore, StartCreate
<1>8. CASE FinishCreate \/ FinishAttach
  BY <1>2, <1>3, <1>4, <1>8, KindFacts, Zenon DEF FinishCreate, FinishAttach, RecordAbsence
<1>9. CASE FinishTerminate
  <2>1. CASE /\ pend["terminate"].phase \in {"ok", "absent"}
             /\ pend' = [pend EXCEPT !["terminate"].phase = "cleaned"]
    <3>1. pend'["terminate"].gen = pend["terminate"].gen
      BY <2>1, Parts, KindFacts, PendPhase DEF Phases
    <3> QED BY <2>1, <3>1 DEF TermStep
  <2>2. CASE pend["terminate"].phase = "slow" /\ pend' = [pend EXCEPT !["terminate"] = Idle]
    <3>1. pend'["terminate"] = Idle
      BY <2>2, Parts, KindFacts
    <3> QED BY <2>2, <3>1, IdleType DEF TermStep
  <2> QED BY <1>9, <2>1, <2>2 DEF FinishTerminate
<1>10. ASSUME NEW g \in Gens,
             \/ HostListens(g) \/ ClientsEnd(g) \/ Detach(g) \/ CreateNamed(g)
             \/ \E how \in {"exited", "killed"} : HostEnds(g, how)
      PROVE  TermStep
  <2>1. CASE CreateNamed(g)
    BY <1>2, <1>4, <2>1, KindFacts, Zenon DEF CreateNamed, StartCreate
  <2> QED BY <1>1, <1>10, <2>1, Zenon DEF HostListens, ClientsEnd, Detach, HostEnds
<1>11. ASSUME NEW k \in Connecting, NEW g \in Gens, NEW end \in BOOLEAN, Request(k, g, end) PROVE TermStep
  <2>1. CASE k = "terminate"
    BY <1>11, <2>1 DEF Request, Start, TermStep
  <2>2. CASE k # "terminate"
    BY <1>2, <1>11, <2>2, KindFacts DEF Request, Start
  <2> QED BY <2>1, <2>2
<1>12. ASSUME NEW k \in Connecting, NEW outcome \in {"ok", "absent", "slow"}, Connect(k, outcome) PROVE TermStep
  <2>1. CASE k = "terminate"
    <3>1. /\ pend["terminate"].phase = "waiting" /\ outcome \in Phases
          /\ pend' = [pend EXCEPT !["terminate"].phase = outcome]
      BY <1>12, <2>1 DEF Connect, Phases
    <3>2. pend'["terminate"].gen = pend["terminate"].gen
      BY <3>1, Parts, KindFacts, PendPhase
    <3> QED BY <3>1, <3>2 DEF TermStep
  <2>2. CASE k # "terminate"
    BY <1>3, <1>12, <2>2, KindFacts DEF Connect
  <2> QED BY <2>1, <2>2
<1>13. ASSUME NEW outcome \in {"ok", "absent", "slow"}, Enrolled(outcome) PROVE TermStep
  BY <1>3, <1>4, <1>13, KindFacts DEF Enrolled
<1>14. ASSUME NEW missed \in BOOLEAN, FinishRecover(missed) \/ FinishDeliver(missed) PROVE TermStep
  BY <1>2, <1>3, <1>4, <1>14, KindFacts, Zenon DEF FinishRecover, FinishDeliver, RecordAbsence
<1>15. ASSUME NEW k \in Kinds, Settle(k) PROVE TermStep
  <2>1. CASE k = "terminate"
    <3>1. pend' = [pend EXCEPT !["terminate"] = Idle]
      BY <1>15, <2>1 DEF Settle
    <3>2. pend'["terminate"].phase = "idle"
      BY <3>1, Parts, KindFacts, IdleType
    <3>3. pend["terminate"].phase = "cleaned" => row'[pend["terminate"].gen].ended
      BY <1>15, <2>1, SettleKeeps
    <3> QED BY <3>2, <3>3 DEF TermStep
  <2>2. CASE k # "terminate"
    BY <1>2, <1>15, <2>2 DEF Settle
  <2> QED BY <2>1, <2>2
<1> QED BY <1>5, <1>6, <1>7, <1>8, <1>9, <1>10, <1>11, <1>12, <1>13, <1>14, <1>15, Zenon DEF Next
-----------------------------------------------------------------------------
(* The steps of the rotation.                                              *)

LEMMA AuditUpdate ==
  ASSUME RotationTypeOK, NEW r \in Rotations, NEW st \in AuditStates, audits' = Update(r, st)
  PROVE  /\ audits' \in [Rotations -> Audit]
         /\ audits'[r].state = st /\ audits'[r].gen = audits[r].gen
         /\ \A q \in Rotations \ {r} : audits'[q] = audits[q]
<1> DEFINE x == [audits[r] EXCEPT !.state = st]
<1>1. audits \in [Rotations -> Audit] /\ audits[r] \in Audit
  BY DEF RotationTypeOK
<1>2. x \in Audit /\ x.state = st /\ x.gen = audits[r].gen
  BY <1>1, Zenon DEF Audit
<1>3. audits' = [audits EXCEPT ![r] = x]
  BY DEF Update
<1> HIDE DEF x
<1> QED BY <1>1, <1>2, <1>3

LEMMA CommitMove ==
  ASSUME RotationTypeOK, NEW c \in Commit, NEW x \in CommitCall, commits' = [commits EXCEPT ![c] = x]
  PROVE  /\ commits' \in [Commit -> CommitCall] /\ commits'[c] = x
         /\ \A d \in Commit \ {c} : commits'[d] = commits[d]
BY DEF RotationTypeOK

LEMMA GotoMove ==
  ASSUME RotationTypeOK, NEW c \in Commit, NEW place \in Places, Goto(c, place)
  PROVE  /\ commits' \in [Commit -> CommitCall]
         /\ commits'[c].at = place /\ commits'[c].rot = commits[c].rot
         /\ \A d \in Commit \ {c} : commits'[d] = commits[d]
<1> DEFINE x == [commits[c] EXCEPT !.at = place]
<1>1. commits \in [Commit -> CommitCall] /\ commits[c] \in CommitCall
  BY DEF RotationTypeOK
<1>2. x \in CommitCall /\ x.at = place /\ x.rot = commits[c].rot
  BY <1>1, Zenon DEF CommitCall
<1>3. commits' = [commits EXCEPT ![c] = x]
  BY DEF Goto
<1> HIDE DEF x
<1> QED BY <1>1, <1>2, <1>3

LEMMA NoCommitType == NoCommit \in CommitCall /\ NoCommit.at = "idle"
BY RotationAssumption DEF NoCommit, CommitCall, Places

\* An audit changes its state while the runtimes rest.
LEMMA AuditStep ==
  ASSUME IInv, NEW r \in Rotations, NEW st \in AuditStates \ {"none", "committed"}, audits' = Update(r, st),
         audits[r].state # "none", st = "cleanup_pending" => OldWorker \notin members', row' = row,
         OldWorker \notin members => OldWorker \notin members'
  PROVE  /\ audits' \in [Rotations -> Audit] /\ AuditsOK'
         /\ \A q \in Rotations : audits[q].state # "none" =>
              audits'[q].state # "none" /\ audits'[q].gen = audits[q].gen
<1>1. RotationTypeOK /\ AuditsOK
  BY DEF IInv
<1>2. /\ audits' \in [Rotations -> Audit]
      /\ audits'[r].state = st /\ audits'[r].gen = audits[r].gen
      /\ \A q \in Rotations \ {r} : audits'[q] = audits[q]
  BY <1>1, AuditUpdate
<1>3. \A q \in Rotations : audits[q].state # "none" =>
        audits'[q].state # "none" /\ audits'[q].gen = audits[q].gen
  BY <1>2
<1>4. AuditsOK'
  <2> SUFFICES ASSUME NEW q \in Rotations
               PROVE  /\ audits'[q].state # "none" => audits'[q].gen \in Gens
                      /\ audits'[q].state \in {"cleanup_pending", "committed"} => OldWorker \notin members'
                      /\ audits'[q].state = "committed" => row'[audits'[q].gen].ended
    BY DEF AuditsOK
  <2>1. CASE q = r
    BY <1>1, <1>2, <2>1 DEF AuditsOK
  <2>2. CASE q # r
    BY <1>1, <1>2, <2>2 DEF AuditsOK
  <2> QED BY <2>1, <2>2
<1> QED BY <1>2, <1>3, <1>4

\* The commits other than c, when nothing they rest on is undone.
LEMMA OthersStep ==
  ASSUME IInv, NEW c \in Commit, \A d \in Commit \ {c} : commits'[d] = commits[d],
         \A q \in Rotations : audits[q].state # "none" =>
           audits'[q].state # "none" /\ audits'[q].gen = audits[q].gen,
         OldWorker \notin members => OldWorker \notin members',
         pend'["terminate"] = pend["terminate"],
         commits'[c].at # "idle" =>
           /\ commits'[c].rot \in Rotations /\ audits'[commits'[c].rot].state # "none"
           /\ commits'[c].at = "cleanup" => OldWorker \notin members'
           /\ commits'[c].at # "terminate"
  PROVE  CommitsOK'
<1> SUFFICES ASSUME NEW d \in Commit, commits'[d].at # "idle"
             PROVE  /\ commits'[d].rot \in Rotations /\ audits'[commits'[d].rot].state # "none"
                    /\ commits'[d].at \in {"cleanup", "terminate"} => OldWorker \notin members'
                    /\ commits'[d].at = "terminate" =>
                         /\ pend'["terminate"].phase # "idle"
                         /\ pend'["terminate"].gen = audits'[commits'[d].rot].gen
  BY DEF CommitsOK
<1>1. CASE d = c
  BY <1>1
<1>2. CASE d # c
  <2>1. commits'[d] = commits[d]
    BY <1>2
  <2> QED BY <2>1 DEF IInv, CommitsOK
<1> QED BY <1>1, <1>2

LEMMA AcknowledgeKeeps ==
  ASSUME IInv, NEW r \in Rotations, Acknowledge(r) \/ Cancel(r)
  PROVE  IInv'
<1>1. /\ UNCHANGED vars /\ UNCHANGED <<members, commits, replacements>> /\ audits[r].state # "none"
  BY DEF Acknowledge, Cancel
<1>2. PICK st \in {"acknowledged", "cancelled"} : audits' = Update(r, st)
  BY DEF Acknowledge, Cancel
<1>3. row' = row /\ pend' = pend /\ RuntimesOK'
  BY <1>1, RuntimesStay DEF IInv, vars
<1>4. st \in AuditStates \ {"none", "committed"} /\ st # "cleanup_pending"
  BY DEF AuditStates
<1>5. /\ audits' \in [Rotations -> Audit] /\ AuditsOK'
      /\ \A q \in Rotations : audits[q].state # "none" =>
           audits'[q].state # "none" /\ audits'[q].gen = audits[q].gen
  BY <1>1, <1>2, <1>3, <1>4, AuditStep
<1>6. CommitsOK'
  BY <1>1, <1>3, <1>5 DEF IInv, CommitsOK
<1>7. RotationTypeOK' /\ HeldOK'
  BY <1>1, <1>5 DEF IInv, RotationTypeOK, HeldOK
<1> QED BY <1>3, <1>5, <1>6, <1>7 DEF IInv

LEMMA PrepareKeeps ==
  ASSUME IInv, NEW r \in Rotations, Prepare(r)
  PROVE  IInv'
<1> DEFINE x == [state |-> "prepared", gen |-> Newest]
<1>1. /\ audits[r].state = "none" /\ audits' = [audits EXCEPT ![r] = x] /\ Newest > 0
      /\ UNCHANGED <<members, commits, replacements>>
      /\ \/ UNCHANGED vars
         \/ Offered # {} /\ Start("deliver", Max(Offered), FALSE) /\ ops' = ops
  BY DEF Prepare, RequireWorker, InspectRotationRuntime, SendPrepare
<1>2. Newest \in Gens /\ Newest \in 0 .. MaxGeneration
  BY <1>1, NewestType, BoundsAssumption DEF Gens
<1>3. RuntimesOK' /\ row' = row /\ pend'["terminate"] = pend["terminate"]
  <2>1. CASE UNCHANGED vars
    BY <2>1, RuntimesStay DEF IInv, vars
  <2>2. CASE Offered # {} /\ Start("deliver", Max(Offered), FALSE) /\ ops' = ops
    <3>0. Max(Offered) \in Gens
      <4>1. Offered \subseteq Gens
        BY DEF Offered
      <4>2. Offered \subseteq Nat /\ \A g \in Offered : g <= MaxGeneration
        BY <4>1, BoundsAssumption DEF Gens
      <4> QED BY <2>2, <4>1, <4>2, BoundsAssumption, MaxIs
    <3>1. RuntimesOK'
      BY <2>2, <3>0, Parts, KindFacts, StartKeeps DEF IInv
    <3>2. row' = row /\ pend'["terminate"] = pend["terminate"]
      BY <2>2, Parts, KindFacts DEF IInv, Start
    <3> QED BY <3>1, <3>2
  <2> QED BY <1>1, <2>1, <2>2
<1>4. x \in Audit /\ x.state = "prepared" /\ x.gen = Newest
  BY <1>2 DEF Audit, AuditStates
<1> HIDE DEF x
<1>5. /\ audits' \in [Rotations -> Audit] /\ audits'[r] = x
      /\ \A q \in Rotations \ {r} : audits'[q] = audits[q]
  BY <1>1, <1>4 DEF IInv, RotationTypeOK
<1>6. AuditsOK'
  <2> SUFFICES ASSUME NEW q \in Rotations
               PROVE  /\ audits'[q].state # "none" => audits'[q].gen \in Gens
                      /\ audits'[q].state \in {"cleanup_pending", "committed"} => OldWorker \notin members'
                      /\ audits'[q].state = "committed" => row'[audits'[q].gen].ended
    BY DEF AuditsOK
  <2>1. CASE q = r
    BY <1>2, <1>4, <1>5, <2>1
  <2>2. CASE q # r
    BY <1>1, <1>3, <1>5, <2>2 DEF IInv, AuditsOK
  <2> QED BY <2>1, <2>2
<1>7. CommitsOK'
  <2>1. \A c \in Commit : commits[c].at # "idle" =>
          commits[c].rot \in Rotations /\ audits'[commits[c].rot] = audits[commits[c].rot]
    BY <1>1, <1>5 DEF IInv, CommitsOK
  <2> QED BY <1>1, <1>3, <2>1 DEF IInv, CommitsOK
<1>8. RotationTypeOK' /\ HeldOK'
  BY <1>1, <1>5 DEF IInv, RotationTypeOK, HeldOK
<1> QED BY <1>3, <1>6, <1>7, <1>8 DEF IInv

\* The audits rest.
LEMMA AuditsStay ==
  ASSUME IInv, audits' = audits, row' = row, OldWorker \notin members => OldWorker \notin members'
  PROVE  /\ audits' \in [Rotations -> Audit] /\ AuditsOK'
         /\ \A q \in Rotations : audits[q].state # "none" =>
              audits'[q].state # "none" /\ audits'[q].gen = audits[q].gen
BY DEF IInv, AuditsOK, RotationTypeOK

LEMMA StartCommitKeeps ==
  ASSUME IInv, NEW c \in Commit, NEW r \in Rotations, StartCommit(c, r)
  PROVE  IInv'
<1>1. UNCHANGED vars /\ UNCHANGED <<audits, members, replacements>>
  BY DEF StartCommit
<1>2. PICK place \in {"cleanup", "launch"} :
        /\ commits' = [commits EXCEPT ![c] = [at |-> place, rot |-> r]]
        /\ audits[r].state # "none" /\ (place = "cleanup" => audits[r].state = "cleanup_pending")
  BY DEF StartCommit
<1> DEFINE x == [at |-> place, rot |-> r]
<1>3. x \in CommitCall /\ x.at = place /\ x.rot = r
  BY RotationAssumption DEF CommitCall, Places, Rotations
<1> HIDE DEF x
<1>4. /\ commits' \in [Commit -> CommitCall] /\ commits'[c] = x
      /\ \A d \in Commit \ {c} : commits'[d] = commits[d]
  BY <1>2, <1>3, CommitMove DEF IInv, x
<1>5. row' = row /\ pend' = pend /\ RuntimesOK'
  BY <1>1, RuntimesStay DEF IInv, vars
<1>6. /\ audits' \in [Rotations -> Audit] /\ AuditsOK'
      /\ \A q \in Rotations : audits[q].state # "none" =>
           audits'[q].state # "none" /\ audits'[q].gen = audits[q].gen
  BY <1>1, <1>5, AuditsStay
<1>7. CommitsOK'
  <2>1. place = "cleanup" => OldWorker \notin members
    BY <1>2 DEF IInv, AuditsOK
  <2> QED BY <1>1, <1>2, <1>3, <1>4, <1>5, <1>6, <2>1, OthersStep
<1>8. RotationTypeOK' /\ HeldOK'
  BY <1>1, <1>4, <1>6 DEF IInv, RotationTypeOK, HeldOK
<1> QED BY <1>5, <1>6, <1>7, <1>8 DEF IInv

\* The rotation of a commit under way.
LEMMA CommitRot ==
  ASSUME IInv, NEW c \in Commit, commits[c].at # "idle"
  PROVE  commits[c].rot \in Rotations /\ audits[commits[c].rot].state # "none"
BY DEF IInv, CommitsOK

LEMMA LaunchReplacementKeeps ==
  ASSUME IInv, NEW c \in Commit, NEW up \in BOOLEAN, LaunchReplacement(c, up)
  PROVE  IInv'
<1> DEFINE r == commits[c].rot
<1>1. UNCHANGED vars /\ members' = members /\ commits[c].at = "launch"
  BY DEF LaunchReplacement, At
<1>2. row' = row /\ pend' = pend /\ RuntimesOK'
  BY <1>1, RuntimesStay DEF IInv, vars
<1>3. r \in Rotations /\ audits[r].state # "none"
  BY <1>1, CommitRot
<1>4. replacements' \in [Commit -> {"none", "running", "ended"}]
  BY DEF IInv, RotationTypeOK, LaunchReplacement
<1>5. /\ audits' \in [Rotations -> Audit] /\ AuditsOK'
      /\ \A q \in Rotations : audits[q].state # "none" =>
           audits'[q].state # "none" /\ audits'[q].gen = audits[q].gen
  <2>1. CASE audits' = audits
    BY <1>1, <1>2, <2>1, AuditsStay
  <2>2. CASE audits' = Update(r, "rolled_back")
    BY <1>1, <1>2, <1>3, <2>2, AuditStep DEF AuditStates
  <2> QED BY <2>1, <2>2 DEF LaunchReplacement
<1>6. /\ commits' \in [Commit -> CommitCall] /\ \A d \in Commit \ {c} : commits'[d] = commits[d]
      /\ commits'[c].at = "idle" \/ (commits'[c].at = "inspect" /\ commits'[c].rot = r)
  <2>1. CASE up
    <3>1. Goto(c, "inspect")
      BY <2>1 DEF LaunchReplacement, Goto
    <3> QED BY <3>1, GotoMove DEF IInv, Places
  <2>2. CASE ~up
    <3>1. commits' = [commits EXCEPT ![c] = NoCommit]
      BY <2>2 DEF LaunchReplacement
    <3> QED BY <3>1, CommitMove, NoCommitType DEF IInv
  <2> QED BY <2>1, <2>2
<1>7. CommitsOK'
  BY <1>1, <1>2, <1>3, <1>5, <1>6, OthersStep
<1>8. RotationTypeOK' /\ HeldOK'
  BY <1>1, <1>4, <1>5, <1>6 DEF IInv, RotationTypeOK, HeldOK
<1> QED BY <1>2, <1>5, <1>7, <1>8 DEF IInv
LEMMA ReplacementEndsKeeps ==
  ASSUME IInv, NEW c \in Commit, ReplacementEnds(c)
  PROVE  IInv'
<1>1. UNCHANGED vars /\ UNCHANGED <<audits, members, commits>>
  BY DEF ReplacementEnds
<1>2. row' = row /\ pend' = pend /\ RuntimesOK'
  BY <1>1, RuntimesStay DEF IInv, vars
<1>3. replacements' \in [Commit -> {"none", "running", "ended"}]
  BY DEF IInv, RotationTypeOK, ReplacementEnds
<1>4. AuditsOK' /\ CommitsOK'
  BY <1>1, <1>2 DEF IInv, AuditsOK, CommitsOK
<1>5. RotationTypeOK' /\ HeldOK'
  BY <1>1, <1>3 DEF IInv, RotationTypeOK, HeldOK
<1> QED BY <1>2, <1>4, <1>5 DEF IInv

\* The place goes from the old worker, who had it, to the replacement.
LEMMA SwapKeeps ==
  ASSUME IInv, NEW c \in Commit, NEW found \in BOOLEAN, Swap(c, found)
  PROVE  IInv'
<1> DEFINE r == commits[c].rot
<1>1. /\ UNCHANGED vars /\ replacements' = replacements /\ commits[c].at = "inspect"
      /\ OldWorker \in members /\ members' = (members \ {OldWorker}) \cup {c}
      /\ audits' = Update(r, "cleanup_pending") /\ Goto(c, "cleanup")
  BY DEF Swap, At, SwapWorker, InspectRotationRuntime
<1>2. row' = row /\ pend' = pend /\ RuntimesOK'
  BY <1>1, RuntimesStay DEF IInv, vars
<1>3. r \in Rotations /\ audits[r].state # "none"
  BY <1>1, CommitRot
<1>4. members' = {c} /\ OldWorker \notin members'
  BY <1>1, RotationAssumption DEF IInv, HeldOK
<1>5. /\ audits' \in [Rotations -> Audit] /\ AuditsOK'
      /\ \A q \in Rotations : audits[q].state # "none" =>
           audits'[q].state # "none" /\ audits'[q].gen = audits[q].gen
  <2> HIDE DEF r
  <2> QED BY <1>1, <1>2, <1>3, <1>4, AuditStep DEF AuditStates
<1>6. /\ commits' \in [Commit -> CommitCall]
      /\ commits'[c].at = "cleanup" /\ commits'[c].rot = r
      /\ \A d \in Commit \ {c} : commits'[d] = commits[d]
  BY <1>1, GotoMove DEF IInv, Places
<1>7. CommitsOK'
  BY <1>2, <1>3, <1>4, <1>5, <1>6, OthersStep
<1>8. RotationTypeOK' /\ HeldOK'
  BY <1>1, <1>4, <1>5, <1>6 DEF IInv, RotationTypeOK, HeldOK
<1> QED BY <1>2, <1>5, <1>7, <1>8 DEF IInv

LEMMA SwapFailsKeeps ==
  ASSUME IInv, NEW c \in Commit, NEW found \in BOOLEAN, SwapFails(c, found)
  PROVE  IInv'
<1>1. UNCHANGED vars /\ UNCHANGED <<audits, members, replacements>> /\ commits[c].at = "inspect" /\ Goto(c, "undo")
  BY DEF SwapFails, At
<1>2. row' = row /\ pend' = pend /\ RuntimesOK'
  BY <1>1, RuntimesStay DEF IInv, vars
<1>3. /\ audits' \in [Rotations -> Audit] /\ AuditsOK'
      /\ \A q \in Rotations : audits[q].state # "none" =>
           audits'[q].state # "none" /\ audits'[q].gen = audits[q].gen
  BY <1>1, <1>2, AuditsStay
<1>4. /\ commits' \in [Commit -> CommitCall]
      /\ commits'[c].at = "undo" /\ commits'[c].rot = commits[c].rot
      /\ \A d \in Commit \ {c} : commits'[d] = commits[d]
  BY <1>1, GotoMove DEF IInv, Places
<1>5. CommitsOK'
  <2>1. commits[c].rot \in Rotations /\ audits[commits[c].rot].state # "none"
    BY <1>1, CommitRot
  <2> QED BY <1>1, <1>2, <1>3, <1>4, <2>1, OthersStep
<1>6. RotationTypeOK' /\ HeldOK'
  BY <1>1, <1>3, <1>4 DEF IInv, RotationTypeOK, HeldOK
<1> QED BY <1>2, <1>3, <1>5, <1>6 DEF IInv

LEMMA RollBackKeeps ==
  ASSUME IInv, NEW c \in Commit, NEW stopped \in BOOLEAN, RollBack(c, stopped)
  PROVE  IInv'
<1> DEFINE r == commits[c].rot
<1>1. /\ UNCHANGED vars /\ members' = members /\ commits[c].at = "undo"
      /\ audits' = Update(r, "rolled_back") /\ commits' = [commits EXCEPT ![c] = NoCommit]
  BY DEF RollBack, At
<1>2. row' = row /\ pend' = pend /\ RuntimesOK'
  BY <1>1, RuntimesStay DEF IInv, vars
<1>3. r \in Rotations /\ audits[r].state # "none"
  BY <1>1, CommitRot
<1>4. replacements' \in [Commit -> {"none", "running", "ended"}]
  BY DEF IInv, RotationTypeOK, RollBack
<1>5. /\ audits' \in [Rotations -> Audit] /\ AuditsOK'
      /\ \A q \in Rotations : audits[q].state # "none" =>
           audits'[q].state # "none" /\ audits'[q].gen = audits[q].gen
  <2> HIDE DEF r
  <2> QED BY <1>1, <1>2, <1>3, AuditStep DEF AuditStates
<1>6. /\ commits' \in [Commit -> CommitCall] /\ commits'[c].at = "idle"
      /\ \A d \in Commit \ {c} : commits'[d] = commits[d]
  BY <1>1, CommitMove, NoCommitType DEF IInv
<1>7. CommitsOK'
  BY <1>1, <1>2, <1>5, <1>6, OthersStep
<1>8. RotationTypeOK' /\ HeldOK'
  BY <1>1, <1>4, <1>5, <1>6 DEF IInv, RotationTypeOK, HeldOK
<1> QED BY <1>2, <1>5, <1>7, <1>8 DEF IInv

\* Nobody waits for a termination while there is none.
LEMMA RetryCleanupKeeps ==
  ASSUME IInv, NEW c \in Commit, RetryCleanup(c)
  PROVE  IInv'
<1> DEFINE g == audits[commits[c].rot].gen
           w == [gen |-> g, phase |-> "waiting", end |-> FALSE]
<1>1. /\ UNCHANGED <<ops, audits, members, replacements>> /\ commits[c].at = "cleanup"
      /\ Start("terminate", g, FALSE) /\ Goto(c, "terminate")
  BY DEF RetryCleanup, At
<1>2. /\ commits[c].rot \in Rotations /\ g \in Gens /\ OldWorker \notin members
      /\ audits[commits[c].rot].state # "none"
  BY <1>1 DEF IInv, CommitsOK, AuditsOK
<1>3. /\ row' = row /\ pend["terminate"].phase = "idle"
      /\ pend'["terminate"].phase # "idle" /\ pend'["terminate"].gen = g
  <2>1. row' = row /\ pend["terminate"].phase = "idle" /\ pend' = [pend EXCEPT !["terminate"] = w]
    BY <1>1 DEF Start
  <2>2. w.phase = "waiting" /\ w.gen = g
    OBVIOUS
  <2> HIDE DEF w
  <2>3. pend'["terminate"] = w
    BY <2>1, Parts, KindFacts DEF IInv
  <2> QED BY <2>1, <2>2, <2>3
<1>4. RuntimesOK'
  BY <1>1, <1>2, Parts, KindFacts, StartKeeps DEF IInv
<1>5. /\ commits' \in [Commit -> CommitCall]
      /\ commits'[c].at = "terminate" /\ commits'[c].rot = commits[c].rot
      /\ \A d \in Commit \ {c} : commits'[d] = commits[d]
  BY <1>1, GotoMove DEF IInv, Places
<1>6. AuditsOK'
  BY <1>1, <1>3 DEF IInv, AuditsOK
<1>7. CommitsOK'
  <2> SUFFICES ASSUME NEW d \in Commit, commits'[d].at # "idle"
               PROVE  /\ commits'[d].rot \in Rotations /\ audits[commits'[d].rot].state # "none"
                      /\ commits'[d].at \in {"cleanup", "terminate"} => OldWorker \notin members
                      /\ commits'[d].at = "terminate" =>
                           /\ pend'["terminate"].phase # "idle"
                           /\ pend'["terminate"].gen = audits[commits'[d].rot].gen
    BY <1>1 DEF CommitsOK
  <2>1. CASE d = c
    BY <1>2, <1>3, <1>5, <2>1
  <2>2. CASE d # c
    <3>1. commits'[d] = commits[d]
      BY <1>5, <2>2
    <3>2. commits[d].at # "terminate"
      BY <1>3 DEF IInv, CommitsOK
    <3> QED BY <3>1, <3>2 DEF IInv, CommitsOK
  <2> QED BY <2>1, <2>2
<1>8. RotationTypeOK' /\ HeldOK'
  BY <1>1, <1>5 DEF IInv, RotationTypeOK, HeldOK
<1> QED BY <1>4, <1>6, <1>7, <1>8 DEF IInv

LEMMA WorkerLeavesKeeps ==
  ASSUME IInv, WorkerLeaves
  PROVE  IInv'
<1>1. UNCHANGED vars /\ members' = members \ {OldWorker} /\ UNCHANGED <<audits, commits, replacements>>
  BY DEF WorkerLeaves
<1>2. row' = row /\ pend' = pend /\ RuntimesOK'
  BY <1>1, RuntimesStay DEF IInv, vars
<1>3. AuditsOK' /\ CommitsOK'
  BY <1>1, <1>2 DEF IInv, AuditsOK, CommitsOK
<1>4. RotationTypeOK' /\ HeldOK'
  BY <1>1 DEF IInv, RotationTypeOK, HeldOK
<1> QED BY <1>2, <1>3, <1>4 DEF IInv

\* A commit that the step releases learns what became of the row it waited for.
LEMMA RuntimeStepKeeps ==
  ASSUME IInv, RuntimeStep
  PROVE  IInv'
<1> DEFINE crashed == restarts' # restarts
           free == Released
           ended == IF crashed THEN {} ELSE {commits[c].rot : c \in free}
           outcome == IF pend["terminate"].phase = "cleaned" THEN "committed" ELSE "cleanup_pending"
<1>1. /\ Next
      /\ commits' = [c \in Commit |-> IF crashed \/ c \in free THEN NoCommit ELSE commits[c]]
      /\ audits' = [r \in Rotations |-> IF r \in ended THEN [audits[r] EXCEPT !.state = outcome] ELSE audits[r]]
      /\ members' \subseteq members
      /\ replacements' = replacements
  BY DEF RuntimeStep
<1>2. RuntimesOK' /\ TermStep /\ \A h \in Gens : row[h].ended => row'[h].ended
  BY <1>1, RuntimesNext, TerminationSteps, EndsStay DEF IInv
<1>3. free \subseteq Commit /\ \A c \in free : /\ commits[c].at = "terminate"
                                              /\ pend["terminate"].phase # "idle"
                                              /\ pend'["terminate"].phase = "idle"
  BY DEF Released, At
<1>4. \A c \in Commit \ free : commits[c].at = "terminate" => pend'["terminate"].phase # "idle"
  BY DEF Released, At, IInv, CommitsOK
<1>5. outcome \in AuditStates \ {"none"}
  BY DEF AuditStates
<1>6. ASSUME NEW r \in ended
      PROVE  /\ ~crashed /\ r \in Rotations /\ audits[r].state # "none" /\ OldWorker \notin members
             /\ pend["terminate"].gen = audits[r].gen /\ pend["terminate"].phase # "idle"
             /\ pend'["terminate"].phase = "idle"
  <2>1. PICK c \in free : r = commits[c].rot
    BY <1>6
  <2> QED BY <1>3, <1>6, <2>1 DEF IInv, CommitsOK
<1> HIDE DEF ended, outcome, free, crashed
<1>7. ASSUME NEW r \in Rotations
      PROVE  /\ audits'[r] \in Audit /\ audits'[r].gen = audits[r].gen
             /\ r \in ended => audits'[r].state = outcome
             /\ r \notin ended => audits'[r] = audits[r]
  <2>1. audits[r] \in Audit
    BY DEF IInv, RotationTypeOK
  <2>2. CASE r \in ended
    <3> DEFINE x == [audits[r] EXCEPT !.state = outcome]
    <3>1. x \in Audit /\ x.state = outcome /\ x.gen = audits[r].gen
      BY <1>5, <2>1, Zenon DEF Audit
    <3>2. audits'[r] = x
      BY <1>1, <2>2
    <3> HIDE DEF x
    <3> QED BY <2>2, <3>1, <3>2
  <2>3. CASE r \notin ended
    BY <1>1, <2>1, <2>3
  <2> QED BY <2>2, <2>3
<1>8. ASSUME NEW r \in ended, outcome = "committed" PROVE row'[audits[r].gen].ended
  <2>1. pend["terminate"].phase = "cleaned" /\ restarts' = restarts
    BY <1>6, <1>8 DEF outcome, crashed
  <2>2. pend'["terminate"] # pend["terminate"] /\ pend["terminate"].phase # "idle"
    BY <1>6
  <2>3. row'[pend["terminate"].gen].ended
    BY <1>2, <2>1, <2>2 DEF TermStep
  <2> QED BY <1>6, <2>3
<1>9. AuditsOK'
  <2> SUFFICES ASSUME NEW r \in Rotations
               PROVE  /\ audits'[r].state # "none" => audits'[r].gen \in Gens
                      /\ audits'[r].state \in {"cleanup_pending", "committed"} => OldWorker \notin members'
                      /\ audits'[r].state = "committed" => row'[audits'[r].gen].ended
    BY DEF AuditsOK
  <2>1. CASE r \in ended
    <3>1. audits[r].gen \in Gens
      BY <1>6, <2>1 DEF IInv, AuditsOK
    <3> QED BY <1>1, <1>6, <1>7, <1>8, <2>1, <3>1
  <2>2. CASE r \notin ended
    <3>1. /\ audits[r].state # "none" => audits[r].gen \in Gens
          /\ audits[r].state \in {"cleanup_pending", "committed"} => OldWorker \notin members
          /\ audits[r].state = "committed" => row[audits[r].gen].ended
      BY DEF IInv, AuditsOK
    <3> QED BY <1>1, <1>2, <1>7, <2>2, <3>1
  <2> QED BY <2>1, <2>2
<1>10. CommitsOK'
  <2> SUFFICES ASSUME NEW c \in Commit, commits'[c].at # "idle"
               PROVE  /\ commits'[c].rot \in Rotations /\ audits'[commits'[c].rot].state # "none"
                      /\ commits'[c].at \in {"cleanup", "terminate"} => OldWorker \notin members'
                      /\ commits'[c].at = "terminate" =>
                           /\ pend'["terminate"].phase # "idle"
                           /\ pend'["terminate"].gen = audits'[commits'[c].rot].gen
    BY DEF CommitsOK
  <2>1. commits'[c] = commits[c] /\ ~crashed /\ c \notin free
    BY <1>1, NoCommitType
  <2>2. /\ commits[c].rot \in Rotations /\ audits[commits[c].rot].state # "none"
        /\ commits[c].at \in {"cleanup", "terminate"} => OldWorker \notin members
        /\ commits[c].at = "terminate" =>
             /\ pend["terminate"].phase # "idle"
             /\ pend["terminate"].gen = audits[commits[c].rot].gen
    BY <2>1 DEF IInv, CommitsOK
  <2>3. audits'[commits[c].rot].state # "none" /\ audits'[commits[c].rot].gen = audits[commits[c].rot].gen
    BY <1>5, <1>7, <2>2
  <2>4. commits[c].at = "terminate" =>
          pend'["terminate"].phase # "idle" /\ pend'["terminate"].gen = pend["terminate"].gen
    BY <1>2, <1>4, <2>1, <2>2 DEF TermStep
  <2> QED BY <1>1, <2>1, <2>2, <2>3, <2>4
<1>11. RotationTypeOK' /\ HeldOK'
  <2>1. audits' = [r \in Rotations |-> audits'[r]]
    BY <1>1
  <2>2. audits' \in [Rotations -> Audit]
    BY <1>7, <2>1
  <2>3. commits' \in [Commit -> CommitCall]
    BY <1>1, NoCommitType DEF IInv, RotationTypeOK
  <2> QED BY <1>1, <2>2, <2>3 DEF IInv, RotationTypeOK, HeldOK
<1> QED BY <1>2, <1>9, <1>10, <1>11 DEF IInv

-----------------------------------------------------------------------------
(* The theorems.                                                           *)

LEMMA RotationInitKeeps ==
  ASSUME RotationInit
  PROVE  IInv
<1>1. RuntimesOK
  BY RuntimesInit DEF RotationInit
<1>2. NoAudit \in Audit /\ NoAudit.state = "none"
  BY BoundsAssumption DEF NoAudit, Audit, AuditStates
<1>3. RotationTypeOK /\ HeldOK
  BY <1>2, NoCommitType DEF RotationInit, RotationTypeOK, HeldOK
<1>4. AuditsOK /\ CommitsOK
  BY <1>2, NoCommitType DEF RotationInit, AuditsOK, CommitsOK
<1> QED BY <1>1, <1>3, <1>4 DEF IInv

LEMMA RotationNextKeeps ==
  ASSUME IInv, [RotationNext]_allVars
  PROVE  IInv'
<1>1. CASE UNCHANGED allVars
  <2>1. UNCHANGED vars /\ UNCHANGED <<audits, members, commits, replacements>>
    BY <1>1 DEF allVars
  <2>2. row' = row /\ pend' = pend /\ RuntimesOK'
    BY <2>1, RuntimesStay DEF IInv, vars
  <2> QED BY <2>1, <2>2 DEF IInv, RotationTypeOK, HeldOK, AuditsOK, CommitsOK
<1>2. CASE RuntimeStep \/ WorkerLeaves
  BY <1>2, RuntimeStepKeeps, WorkerLeavesKeeps
<1>3. ASSUME NEW r \in Rotations, \/ Acknowledge(r) \/ Cancel(r) \/ Prepare(r)
                                  \/ \E c \in Commit : StartCommit(c, r)
      PROVE  IInv'
  BY <1>3, AcknowledgeKeeps, PrepareKeeps, StartCommitKeeps
<1>4. ASSUME NEW c \in Commit, \/ RetryCleanup(c) \/ ReplacementEnds(c)
                               \/ \E ok \in BOOLEAN : \/ LaunchReplacement(c, ok) \/ RollBack(c, ok)
                                                      \/ Swap(c, ok) \/ SwapFails(c, ok)
      PROVE  IInv'
  BY <1>4, RetryCleanupKeeps, ReplacementEndsKeeps, LaunchReplacementKeeps, RollBackKeeps, SwapKeeps,
     SwapFailsKeeps
<1> QED BY <1>1, <1>2, <1>3, <1>4, Zenon DEF RotationNext

\* The inductive invariant of the runtimes, rotated or not.
THEOREM RuntimesInvariant == Spec => []RuntimesOK
<1>1. Init => RuntimesOK
  BY RuntimesInit
<1>2. RuntimesOK /\ [Next]_vars => RuntimesOK'
  BY RuntimesNext, RuntimesStay
<1> QED BY <1>1, <1>2, PTL DEF Spec

\* The inductive invariant of the rotation.
THEOREM Invariant == RotationSpec => []IInv
<1>1. RotationInit => IInv
  BY RotationInitKeeps
<1>2. IInv /\ [RotationNext]_allVars => IInv'
  BY RotationNextKeeps
<1> QED BY <1>1, <1>2, PTL DEF RotationSpec

\* The store offers one generation of a session, the newest, whatever recover,
\* restore and late events do (RuntimeRepository, planSessionResume); two only
\* where a caller of create named a generation out of turn (service.ts:429-439).
THEOREM StoreOffersOne == (Spec => []OneCurrentGeneration) /\ (RotationSpec => []OneCurrentGeneration)
<1>1. RuntimesOK => OneCurrentGeneration
  BY RuntimesMean
<1>2. IInv => RuntimesOK
  BY DEF IInv
<1> QED BY <1>1, <1>2, RuntimesInvariant, Invariant, PTL

\* Of two hosts of a session that run, the older was given up by the store, with
\* the same exception.
THEOREM OlderAreGivenUp == (Spec => []OlderHostsAreGivenUp) /\ (RotationSpec => []OlderHostsAreGivenUp)
<1>1. RuntimesOK => OlderHostsAreGivenUp
  BY RuntimesMean
<1>2. IInv => RuntimesOK
  BY DEF IInv
<1> QED BY <1>1, <1>2, RuntimesInvariant, Invariant, PTL

\* A rotation never puts two into the worker's place, and a committed one has
\* ended the runtime it was prepared for (swapWorker, retryCleanup).
THEOREM PlaceHeldOnce == RotationSpec => []PlaceIsHeldOnce
<1>1. ASSUME IInv PROVE PlaceIsHeldOnce
  <2>1. Cardinality(members) <= 1
    <3>1. CASE members = {}
      BY <3>1, FS_EmptySet
    <3>2. CASE members # {}
      <4>1. PICK x \in members : members = {x}
        BY <1>1, <3>2 DEF IInv, HeldOK
      <4>2. Cardinality({x}) = 1
        BY FS_Singleton
      <4> QED BY <4>1, <4>2
    <3> QED BY <3>1, <3>2
  <2> QED BY <1>1, <2>1 DEF IInv, AuditsOK, PlaceIsHeldOnce
<1> QED BY <1>1, Invariant, PTL
=============================================================================
