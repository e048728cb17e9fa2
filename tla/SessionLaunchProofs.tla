------------------------ MODULE SessionLaunchProofs ------------------------
(***************************************************************************)
(* Proofs about revisions, controlled homes and conversations, for any     *)
(* number of launches, sessions, revisions, edits and crashes: a stored    *)
(* revision verifies, a provider sees its own revision, and conversations  *)
(* are not swapped.                                                        *)
(***************************************************************************)
EXTENDS SessionLaunch, FiniteSetTheorems, WellFoundedInduction, TLAPS

-----------------------------------------------------------------------------
(* Types.                                                                  *)

Folder == [Files -> Contents]

Revision == [st : {"none", "staging", "stored", "removed"}, version : Nat, copy : Folder,
             record : Folder, complete : BOOLEAN]

Task == [at : {"idle", "copy", "rename"}, rev : 0 .. MaxRevisions, list : SUBSET Files,
         left : SUBSET Files]

Home == [exists : BOOLEAN, copy : Folder, linked : BOOLEAN]

StoreType ==
    /\ source \in Folder /\ edits \in Nat
    /\ revs \in [RevIds -> Revision]
    /\ task \in [Procs -> Task]
    /\ channelLock \in BOOLEAN
    /\ homes \in [Session -> Home]
    /\ bindings \in [Session -> 0 .. MaxRevisions]
    /\ bindingLocks \subseteq Session

Adapters == {"claude", "codex", "grok", "agy", "gemini"}

RuntimeRow == [st : {"none", "creating", "running", "ended"}, by : Launch \cup {NoLaunch},
               adapter : Adapters, dir : Dirs \cup {Idle.dir}, controlled : BOOLEAN,
               thread : Session \cup {NoThread}]

Transcript == [of : Session, text : Seq(SUBSET Session)]

Discovery == [at : {"no", "planned", "poll", "found", "gap"}, old : SUBSET Nat,
              read : [Numbers -> Nat] \cup {<<>>}]

ThreadType ==
    /\ runtime \in [Session -> RuntimeRow]
    /\ transcripts \in Seq(Transcript)
    /\ discovery \in [Session -> Discovery]
    /\ \A s \in Session : discovery[s].at \in {"planned", "poll"} =>
         discovery[s].read \in [Numbers -> Nat]

\* Where a launch without a profile may be too, and where it has a home.
After == {"register", "create", "start", "ready", "prompt", "attempted", "undo", "undoEnd", "done"}
Places == {"none", "make", "fill", "link", "bind", "binding", "failed", "lost"} \cup After

LaunchRow == [at : Places, session : Session \cup {Idle.session}, rev : 0 .. MaxRevisions,
              adapter : Adapters, dir : Dirs \cup {Idle.dir}, left : SUBSET Files, late : BOOLEAN]

LaunchType ==
    /\ launch \in [Launch -> LaunchRow]
    /\ sessions \in [Session -> {"none", "open", "ended"}]
    /\ ending \in [Session -> {"no", "terminate", "end", "over"}]
    /\ contested \subseteq Session
    /\ crashes \in Nat

TypeOK == StoreType /\ ThreadType /\ LaunchType

-----------------------------------------------------------------------------
(* The inductive invariant.                                                *)

\* The revisions begun so far.  Ids are taken in order, and a version is never
\* ahead of its id.
Begun == Cardinality({r \in RevIds : revs[r].st # "none"})

IdsOK == \A r \in RevIds :
    /\ revs[r].st = "none" => revs[r] = NoRevision
    /\ revs[r].st # "none" <=> r <= Begun
    /\ revs[r].version <= r

Verified(x) == x.complete /\ x.record = x.copy /\ x.record["SKILL.md"] # 0

StoredOK == \A r \in RevIds : revs[r].st = "stored" => Verified(revs[r])

\* A process writes into a staging directory of its own, which has the files it
\* has copied.
TaskOK(p) ==
    task[p].at # "idle" =>
      /\ task[p].rev \in RevIds /\ revs[task[p].rev].st = "staging"
      /\ task[p].at = "copy" =>
           /\ task[p].left \subseteq task[p].list
           /\ \A f \in Files : revs[task[p].rev].copy[f] # 0 <=> f \in task[p].list \ task[p].left
      /\ task[p].at = "rename" => Verified(revs[task[p].rev])

OwnTasks == \A p, q \in Procs :
    task[p].at # "idle" /\ task[q].at # "idle" /\ task[p].rev = task[q].rev => p = q

StoreOK == IdsOK /\ StoredOK /\ (\A p \in Procs : TaskOK(p)) /\ OwnTasks

\* A launch that has begun has a session, and a stored revision or none.
LaunchesOK == \A l \in Launch :
    /\ launch[l].at # "none" =>
         /\ launch[l].session \in Session
         /\ launch[l].rev # 0 => revs[launch[l].rev].st = "stored"
    /\ launch[l].at \in Filling \cup {"bind", "binding"} => launch[l].rev # 0
    /\ launch[l].at = "fill" => launch[l].left # {}

\* A runtime was created by a launch of its session that came so far.
CreatorsOK == \A s \in Session :
    /\ runtime[s].by \in Launch =>
         /\ launch[runtime[s].by].session = s
         /\ launch[runtime[s].by].at \notin Turn \cup {"none"}
    /\ runtime[s].st = "none" => runtime[s].by = NoLaunch
    /\ runtime[s].st \in {"creating", "running"} => runtime[s].by \in Launch

\* Launch l uses the controlled home of its session.
Uses(l) ==
    /\ launch[l].rev # 0
    /\ \/ launch[l].at \notin {"none", "make", "failed", "lost"}
       \/ \E s \in Session : runtime[s].by = l

\* The home of an uncontested session is made once, by the launch that uses it,
\* file by file.
HomeOK(l) ==
    LET s == launch[l].session
        r == launch[l].rev
    IN  /\ launch[l].at = "make" => ~homes[s].exists
        /\ Uses(l) =>
             /\ homes[s].exists
             /\ \A f \in Files : homes[s].copy[f] =
                  IF launch[l].at = "fill" /\ f \in launch[l].left THEN 0 ELSE revs[r].copy[f]
             /\ launch[l].at \notin {"fill", "link"} => homes[s].linked
             /\ InDaemon(l) /\ launch[l].at \notin {"fill", "link", "bind", "binding"} =>
                  bindings[s] = r

Uncontested(l) == launch[l].at # "none" /\ launch[l].session \notin contested

HomesOK ==
    /\ \A s \in Session : ~homes[s].exists => homes[s] = NoHome
    /\ \A l \in Launch : launch[l].at \in {"fill", "link"} => homes[launch[l].session].exists
    /\ \A l \in Launch : Uncontested(l) => HomeOK(l)
    /\ \A l, k \in Launch : Uncontested(l) /\ Uses(l) /\ Uses(k) /\ launch[l].session = launch[k].session
                              => l = k

\* Nothing has happened yet to the conversation of a host that is being started.
StartOK(l) ==
    LET s == launch[l].session
    IN  launch[l].at = "start" =>
          /\ runtime[s].by = l /\ runtime[s].st \in {"creating", "ended"}
          /\ runtime[s].thread \in {s, NoThread} /\ TranscriptOf(s) = {}
          /\ discovery[s].at = "planned"

\* Who has another's conversation was named in it; live runtimes have different
\* ones; and one without is looked for, as long as no daemon has died.
ThreadsOK ==
    /\ \A l \in Launch : StartOK(l)
    /\ \A s \in Session : TranscriptOf(s) # {} => runtime[s].st \in {"running", "ended"}
    /\ \A s \in Session : runtime[s].thread \notin {s, NoThread} =>
         \E i \in TranscriptOf(runtime[s].thread) : Shows(i, s)
    /\ \A s, q \in Session : Live(s) /\ Live(q) /\ runtime[s].thread = runtime[q].thread =>
         s = q \/ runtime[s].thread = NoThread
    /\ \A s \in Session : crashes = 0 /\ Live(s) /\ runtime[s].thread = NoThread =>
         discovery[s].at \in {"planned", "poll", "gap"}

IInv == TypeOK /\ StoreOK /\ LaunchesOK /\ CreatorsOK /\ HomesOK /\ ThreadsOK

-----------------------------------------------------------------------------
(* Revisions.                                                              *)

\* A bounded set of numbers has a largest one.
LEMMA MaxIs ==
  ASSUME NEW S, S \subseteq Nat, S # {}, NEW n \in Nat, \A x \in S : x <= n
  PROVE  Max(S) \in S
<1> DEFINE T == {k \in Nat : \A x \in S : x <= k}
<1>1. T \subseteq Nat /\ T # {}
  OBVIOUS
<1>2. PICK k \in T : \A y \in T : ~(<<y, k>> \in OpToRel(<, Nat))
  BY <1>1, WFMin, NatLessThanWellFounded
<1>3. \A y \in T : ~(y < k)
  BY <1>1, <1>2 DEF OpToRel
<1>4. k \in S
  <2> SUFFICES ASSUME k \notin S PROVE FALSE
    OBVIOUS
  <2>1. PICK x \in S : TRUE
    OBVIOUS
  <2>2. k - 1 \in T
    BY <2>1
  <2> QED BY <1>3, <2>2
<1> QED BY <1>4 DEF Max

\* The revisions of rows that were begun in the order of their ids.
LEMMA BegunIs ==
  ASSUME NEW rows, NEW n \in 0 .. MaxRevisions,
         \A r \in RevIds : rows[r].st # "none" <=> r <= n
  PROVE  Cardinality({r \in RevIds : rows[r].st # "none"}) = n
<1>1. {r \in RevIds : rows[r].st # "none"} = 1 .. n
  BY StoreAssumption DEF RevIds
<1>2. n \in Int /\ 1 \in Int /\ n - 1 + 1 = n
  BY StoreAssumption
<1>3. Cardinality(1 .. n) = IF 1 > n THEN 0 ELSE n - 1 + 1
  BY <1>2, FS_Interval
<1>4. (IF 1 > n THEN 0 ELSE n - 1 + 1) = n
  BY StoreAssumption
<1> QED BY <1>1, <1>3, <1>4

LEMMA BegunType == Begun \in 0 .. MaxRevisions
<1>1. IsFiniteSet(RevIds) /\ Cardinality(RevIds) = MaxRevisions
  <2>1. Cardinality(1 .. MaxRevisions) = IF 1 > MaxRevisions THEN 0 ELSE MaxRevisions - 1 + 1
    BY StoreAssumption, FS_Interval
  <2> QED BY <2>1, StoreAssumption, FS_Interval DEF RevIds
<1>2. {r \in RevIds : revs[r].st # "none"} \subseteq RevIds
  OBVIOUS
<1>3. /\ IsFiniteSet({r \in RevIds : revs[r].st # "none"})
      /\ Cardinality({r \in RevIds : revs[r].st # "none"}) <= Cardinality(RevIds)
  BY <1>1, <1>2, FS_Subset
<1> QED BY <1>1, <1>3, FS_CardinalityType, StoreAssumption DEF Begun

\* The versions of what is stored are below the next id, so the next version is
\* not ahead of it.
LEMMA NextVersionIs ==
  ASSUME StoreType, IdsOK
  PROVE  NextVersion \in Nat /\ NextVersion <= Begun + 1
<1> DEFINE S == {0} \cup {revs[r].version : r \in Stored}
<1>1. Begun \in Nat
  BY BegunType, StoreAssumption
<1>2. \A r \in Stored : revs[r].version \in Nat /\ revs[r].version <= Begun
  <2> SUFFICES ASSUME NEW r \in Stored PROVE revs[r].version \in Nat /\ revs[r].version <= Begun
    OBVIOUS
  <2>1. r \in RevIds /\ revs[r].st = "stored" /\ r \in Nat
    BY StoreAssumption DEF Stored, RevIds
  <2>2. revs[r].version \in Nat
    BY <2>1 DEF StoreType, Revision
  <2>3. r <= Begun /\ revs[r].version <= r
    BY <2>1, Zenon DEF IdsOK
  <2> QED BY <1>1, <2>1, <2>2, <2>3
<1>3. S \subseteq Nat /\ S # {} /\ \A x \in S : x <= Begun
  BY <1>1, <1>2
<1>4. Max(S) \in S
  BY <1>1, <1>3, MaxIs
<1>5. Max(S) \in Nat /\ Max(S) <= Begun
  BY <1>3, <1>4
<1>6. NextVersion = Max(S) + 1
  BY DEF NextVersion
<1> HIDE DEF S
<1> QED BY <1>1, <1>5, <1>6

\* The next file of a list that is not empty is in it.
LEMMA NextFileIs ==
  ASSUME NEW left \in SUBSET Files, left # {}
  PROVE  NextFile(left) \in left
<1>1. \E f \in left : f = "SKILL.md" \/ left = {f}
  <2>1. CASE "SKILL.md" \in left
    BY <2>1
  <2>2. CASE "SKILL.md" \notin left
    <3>1. left = {"tool"}
      BY <2>2 DEF Files
    <3> QED BY <3>1
  <2> QED BY <2>1, <2>2
<1> QED BY <1>1 DEF NextFile

LEMMA Constants1 ==
  /\ Empty \in Folder /\ NoRevision \in Revision /\ NoTask \in Task /\ NoHome \in Home
  /\ NoRevision.st = "none" /\ NoRevision.version = 0 /\ NoRevision.copy = Empty
  /\ NoTask.at = "idle" /\ ~NoHome.exists /\ NoHome.copy = Empty /\ ~NoHome.linked
  /\ \A f \in Files : Empty[f] = 0
<1>1. Empty \in Folder /\ \A f \in Files : Empty[f] = 0
  BY DEF Empty, Folder, Contents
<1>2. NoRevision \in Revision /\ NoRevision.st = "none" /\ NoRevision.version = 0 /\ NoRevision.copy = Empty
  BY <1>1 DEF NoRevision, Revision
<1>3. NoTask \in Task /\ NoTask.at = "idle"
  BY StoreAssumption DEF NoTask, Task
<1>4. NoHome \in Home /\ ~NoHome.exists /\ NoHome.copy = Empty /\ ~NoHome.linked
  BY <1>1 DEF NoHome, Home
<1> QED BY <1>1, <1>2, <1>3, <1>4

\* What a step means for the revisions that are stored.
KeepsStored == \A r \in RevIds : revs[r].st = "stored" => revs'[r] = revs[r]

\* Process p, which writes revision r, changes it to x and goes on as t; it
\* stays in staging, or is done with it.
LEMMA OneRevision ==
  ASSUME StoreType, StoreOK, NEW p \in Procs, NEW r \in RevIds, NEW x \in Revision, NEW t \in Task,
         task[p].at # "idle", task[p].rev = r,
         revs' = [revs EXCEPT ![r] = x], task' = [task EXCEPT ![p] = t],
         x.st \in {"staging", "stored", "removed"}, x.version <= r,
         x.st = "stored" => Verified(x),
         t.at # "idle" =>
           /\ t.rev = r /\ x.st = "staging"
           /\ t.at = "copy" => /\ t.left \subseteq t.list
                               /\ \A f \in Files : x.copy[f] # 0 <=> f \in t.list \ t.left
           /\ t.at = "rename" => Verified(x)
  PROVE  /\ StoreOK' /\ KeepsStored
         /\ revs' \in [RevIds -> Revision] /\ task' \in [Procs -> Task]
<1>1. revs \in [RevIds -> Revision] /\ task \in [Procs -> Task]
  BY DEF StoreType
<1>2. /\ revs' \in [RevIds -> Revision] /\ task' \in [Procs -> Task]
      /\ revs'[r] = x /\ \A q \in RevIds \ {r} : revs'[q] = revs[q]
      /\ task'[p] = t /\ \A q \in Procs \ {p} : task'[q] = task[q]
  BY <1>1
<1>3. revs[r].st = "staging" /\ \A q \in Procs \ {p} : task[q].at # "idle" => task[q].rev # r
  BY Zenon DEF StoreOK, TaskOK, OwnTasks
<1>4. KeepsStored
  BY <1>2, <1>3 DEF KeepsStored
<1>5. \A q \in RevIds : revs'[q].st = "none" <=> revs[q].st = "none"
  BY <1>2, <1>3
<1>6. Begun' = Begun
  <2>1. \A q \in RevIds : revs'[q].st # "none" <=> q <= Begun
    BY <1>5, Zenon DEF StoreOK, IdsOK
  <2>2. Cardinality({q \in RevIds : revs'[q].st # "none"}) = Begun
    BY <2>1, BegunType, BegunIs
  <2> QED BY <2>2 DEF Begun
<1>7. IdsOK'
  BY <1>2, <1>3, <1>6, Zenon DEF StoreOK, IdsOK
<1>8. StoredOK'
  BY <1>2, Zenon DEF StoreOK, StoredOK
<1>9. ASSUME NEW q \in Procs PROVE TaskOK(q)'
  <2>1. CASE q = p
    BY <1>2, <2>1, Zenon DEF TaskOK
  <2>2. CASE q # p
    <3>1. task'[q] = task[q] /\ TaskOK(q)
      BY <1>2, <2>2 DEF StoreOK
    <3>2. task[q].at # "idle" => revs'[task[q].rev] = revs[task[q].rev]
      BY <1>2, <1>3, <2>2, <3>1, Zenon DEF TaskOK
    <3> QED BY <3>1, <3>2, Zenon DEF TaskOK
  <2> QED BY <2>1, <2>2
<1>10. OwnTasks'
  BY <1>2, <1>3, SMTT(30) DEF StoreOK, OwnTasks
<1> QED BY <1>2, <1>4, <1>7, <1>8, <1>9, <1>10 DEF StoreOK

LEMMA TaskTypes ==
  ASSUME StoreType, NEW p \in Procs
  PROVE  /\ task[p] \in Task /\ task[p].at \in {"idle", "copy", "rename"}
         /\ task[p].list \in SUBSET Files /\ task[p].left \in SUBSET Files
<1>1. task[p] \in Task
  BY DEF StoreType
<1> QED BY <1>1 DEF Task

LEMMA RevisionTypes ==
  ASSUME StoreType, NEW r \in RevIds
  PROVE  /\ revs[r] \in Revision /\ revs[r].copy \in Folder /\ revs[r].record \in Folder
         /\ revs[r].version \in Nat
<1>1. revs[r] \in Revision
  BY DEF StoreType
<1> QED BY <1>1 DEF Revision

LEMMA StageKeeps ==
  ASSUME StoreType, StoreOK, NEW p \in Procs, StageRevision(p)
  PROVE  /\ StoreOK' /\ KeepsStored
         /\ revs' \in [RevIds -> Revision] /\ task' \in [Procs -> Task]
<1> DEFINE n == Begun
<1>1. n \in Nat /\ n <= MaxRevisions /\ NextVersion \in Nat /\ NextVersion <= n + 1
  BY BegunType, NextVersionIs, StoreAssumption DEF StoreOK
<1>2. PICK v \in Nat : v = NextVersion
  BY <1>1
<1>3. PICK r \in Nat : r = n + 1
  BY <1>1
<1>4. r = Cardinality({q \in RevIds : revs[q].st # "none"}) + 1
  BY <1>3 DEF Begun
<1> DEFINE x == [revs[r] EXCEPT !.st = "staging", !.version = v]
           t == [at |-> "copy", rev |-> r, list |-> Present(source), left |-> Present(source)]
<1>5. /\ task[p].at = "idle" /\ r \in RevIds
      /\ revs' = [revs EXCEPT ![r].st = "staging", ![r].version = v]
      /\ task' = [task EXCEPT ![p] = t]
  BY <1>2, <1>4 DEF StageRevision
<1>6. revs \in [RevIds -> Revision] /\ task \in [Procs -> Task] /\ revs[r] \in Revision
  BY <1>5 DEF StoreType
<1>7. revs' = [revs EXCEPT ![r] = x]
  BY <1>5
<1>8. x \in Revision /\ x.st = "staging" /\ x.version = v /\ x.copy = revs[r].copy
  BY <1>6, Zenon DEF Revision
<1>9. t \in Task /\ t.at = "copy" /\ t.rev = r /\ t.left = t.list
  BY <1>5, StoreAssumption DEF Task, Present, RevIds
<1> HIDE DEF x, t, n
<1>10. /\ revs' \in [RevIds -> Revision] /\ task' \in [Procs -> Task]
       /\ revs'[r] = x /\ \A q \in RevIds \ {r} : revs'[q] = revs[q]
       /\ task'[p] = t /\ \A q \in Procs \ {p} : task'[q] = task[q]
  <2>1. r \in RevIds /\ x \in Revision /\ t \in Task /\ task' = [task EXCEPT ![p] = t]
    BY <1>5, <1>8, <1>9
  <2> QED BY <1>6, <1>7, <2>1
<1>11. revs[r].st = "none" /\ revs[r] = NoRevision
  <2>1. revs[r].st # "none" <=> r <= n
    BY <1>5, Zenon DEF StoreOK, IdsOK, n
  <2>2. ~(r <= n)
    BY <1>1, <1>3
  <2> QED BY <1>5, <2>1, <2>2, Zenon DEF StoreOK, IdsOK
<1>12. KeepsStored
  BY <1>10, <1>11 DEF KeepsStored
<1>13. IdsOK'
  <2>1. ASSUME NEW q \in RevIds PROVE revs'[q].st # "none" <=> q <= r
    <3>1. CASE q = r
      BY <1>8, <1>10, <1>3, <3>1
    <3>2. CASE q # r
      <4>1. revs'[q] = revs[q] /\ (revs[q].st # "none" <=> q <= n)
        BY <1>10, <3>2, Zenon DEF StoreOK, IdsOK, n
      <4>2. q <= n <=> q <= r
        BY <1>1, <1>3, <3>2, StoreAssumption DEF RevIds
      <4> QED BY <4>1, <4>2
    <3> QED BY <3>1, <3>2
  <2>2. Begun' = r
    <3>1. r \in 0 .. MaxRevisions
      BY <1>5, StoreAssumption DEF RevIds
    <3>2. Cardinality({q \in RevIds : revs'[q].st # "none"}) = r
      BY <2>1, <3>1, BegunIs
    <3> QED BY <3>2 DEF Begun
  <2>3. ASSUME NEW q \in RevIds PROVE revs'[q].version <= q /\ (revs'[q].st = "none" => revs'[q] = NoRevision)
    <3>1. CASE q = r
      BY <1>1, <1>2, <1>3, <1>8, <1>10, <3>1
    <3>2. CASE q # r
      BY <1>10, <3>2, Zenon DEF StoreOK, IdsOK
    <3> QED BY <3>1, <3>2
  <2> QED BY <2>1, <2>2, <2>3 DEF IdsOK
<1>14. StoredOK'
  BY <1>8, <1>10, Zenon DEF StoreOK, StoredOK
<1>15. ASSUME NEW q \in Procs PROVE TaskOK(q)'
  <2>1. CASE q = p
    <3>1. \A f \in Files : x.copy[f] = 0
      BY <1>8, <1>11, Constants1
    <3> QED BY <1>5, <1>8, <1>9, <1>10, <2>1, <3>1 DEF TaskOK
  <2>2. CASE q # p
    <3>1. task'[q] = task[q] /\ TaskOK(q)
      BY <1>10, <2>2 DEF StoreOK
    <3>2. task[q].at # "idle" => revs'[task[q].rev] = revs[task[q].rev]
      BY <1>10, <1>11, <3>1, Zenon DEF TaskOK
    <3> QED BY <3>1, <3>2, Zenon DEF TaskOK
  <2> QED BY <2>1, <2>2
<1>16. OwnTasks'
  <2>1. \A q \in Procs : task[q].at # "idle" => task[q].rev # r
    BY <1>11, Zenon DEF StoreOK, TaskOK
  <2>2. t.rev = r /\ OwnTasks
    BY <1>9 DEF StoreOK
  <2> QED BY <1>10, <2>1, <2>2 DEF OwnTasks
<1> QED BY <1>10, <1>12, <1>13, <1>14, <1>15, <1>16 DEF StoreOK

LEMMA SnapshotKeeps ==
  ASSUME StoreType, StoreOK, NEW p \in Procs, SnapshotFile(p)
  PROVE  /\ StoreOK' /\ KeepsStored
         /\ revs' \in [RevIds -> Revision] /\ task' \in [Procs -> Task]
<1>1. task[p].at = "copy" /\ task[p].left # {} /\ TaskOK(p)
  BY DEF SnapshotFile, StoreOK
<1>2. PICK r \in RevIds : r = task[p].rev
  BY <1>1 DEF TaskOK
<1>3. PICK f \in task[p].left : f = NextFile(task[p].left)
  BY <1>1, NextFileIs, TaskTypes
<1>4. f \in Files /\ source[f] \in Contents
  BY TaskTypes DEF StoreType, Folder
<1>5. PICK c \in Contents : c = source[f] /\ c # 0
  BY <1>3, <1>4 DEF SnapshotFile
<1> DEFINE d == [revs[r].copy EXCEPT ![f] = c]
           x == [revs[r] EXCEPT !.copy = d]
           l == task[p].left \ {f}
           t == [task[p] EXCEPT !.left = l]
<1>6. revs' = [revs EXCEPT ![r] = x] /\ task' = [task EXCEPT ![p] = t]
  BY <1>2, <1>3, <1>5 DEF SnapshotFile
<1>7. d \in Folder /\ \A g \in Files : d[g] = IF g = f THEN c ELSE revs[r].copy[g]
  BY <1>4, RevisionTypes DEF Folder
<1>8. l \in SUBSET Files
  BY TaskTypes
<1>9. revs[r] \in Revision /\ task[p] \in Task
  BY RevisionTypes, TaskTypes
<1> HIDE DEF d, l
<1>10. x \in Revision /\ x.copy = d /\ x.st = revs[r].st /\ x.version = revs[r].version
  BY <1>7, <1>9, Zenon DEF Revision
<1>11. t \in Task /\ t.at = task[p].at /\ t.rev = task[p].rev /\ t.list = task[p].list /\ t.left = l
  BY <1>8, <1>9, Zenon DEF Task
<1> HIDE DEF x, t
<1>12. x.st = "staging" /\ x.version <= r /\ t.at = "copy" /\ t.rev = r /\ t.left \subseteq t.list
  BY <1>1, <1>2, <1>10, <1>11 DEF StoreOK, IdsOK, TaskOK, l
<1>13. \A g \in Files : x.copy[g] # 0 <=> g \in t.list \ t.left
  BY <1>1, <1>2, <1>3, <1>5, <1>7, <1>10, <1>11 DEF TaskOK, l
<1> QED BY <1>1, <1>2, <1>6, <1>10, <1>11, <1>12, <1>13, OneRevision

LEMMA WriteProfileKeeps ==
  ASSUME StoreType, StoreOK, NEW p \in Procs, WriteProfile(p)
  PROVE  /\ StoreOK' /\ KeepsStored
         /\ revs' \in [RevIds -> Revision] /\ task' \in [Procs -> Task]
<1>1. task[p].at = "copy" /\ task[p].left = {} /\ "SKILL.md" \in task[p].list /\ TaskOK(p)
  BY DEF WriteProfile, StoreOK
<1>2. PICK r \in RevIds : r = task[p].rev
  BY <1>1 DEF TaskOK
<1> DEFINE d == revs[r].copy
           x == [revs[r] EXCEPT !.record = d, !.complete = TRUE]
           t == [task[p] EXCEPT !.at = "rename"]
<1>3. revs' = [revs EXCEPT ![r] = x] /\ task' = [task EXCEPT ![p] = t]
  <2>1. revs' = [revs EXCEPT ![r].record = d, ![r].complete = TRUE]
    BY <1>2 DEF WriteProfile
  <2>2. task' = [task EXCEPT ![p].at = "rename"]
    BY DEF WriteProfile
  <2> QED BY <2>1, <2>2 DEF StoreType
<1>4. revs[r] \in Revision /\ task[p] \in Task /\ d \in Folder
  BY RevisionTypes, TaskTypes
<1>5. d["SKILL.md"] # 0
  BY <1>1, <1>2 DEF TaskOK, Files
<1>6. d = revs[r].copy
  OBVIOUS
<1> HIDE DEF d
<1>7. /\ x \in Revision /\ x.copy = revs[r].copy /\ x.record = d /\ x.complete
      /\ x.st = revs[r].st /\ x.version = revs[r].version
  BY <1>4, Zenon DEF Revision
<1>8. t \in Task /\ t.at = "rename" /\ t.rev = task[p].rev
  BY <1>4, Zenon DEF Task
<1> HIDE DEF x, t
<1>9. x.st = "staging" /\ x.version <= r /\ Verified(x)
  BY <1>1, <1>2, <1>5, <1>6, <1>7 DEF StoreOK, IdsOK, TaskOK, Verified
<1> QED BY <1>1, <1>2, <1>3, <1>7, <1>8, <1>9, OneRevision

LEMMA PublishKeeps ==
  ASSUME StoreType, StoreOK, NEW p \in Procs, Publish(p) \/ FailRevision(p)
  PROVE  /\ StoreOK' /\ KeepsStored
         /\ revs' \in [RevIds -> Revision] /\ task' \in [Procs -> Task]
<1>1. task[p].at # "idle" /\ TaskOK(p) /\ task' = [task EXCEPT ![p] = NoTask]
  BY DEF Publish, FailRevision, StoreOK
<1>2. PICK r \in RevIds : r = task[p].rev
  BY <1>1 DEF TaskOK
<1>3. revs[r] \in Revision /\ revs[r].version <= r
  BY RevisionTypes DEF StoreOK, IdsOK
<1>4. CASE Publish(p)
  <2> DEFINE x == [revs[r] EXCEPT !.st = "stored"]
  <2>1. revs' = [revs EXCEPT ![r] = x]
    BY <1>2, <1>4 DEF Publish
  <2>2. /\ x \in Revision /\ x.st = "stored" /\ x.version = revs[r].version
        /\ x.complete = revs[r].complete /\ x.copy = revs[r].copy /\ x.record = revs[r].record
    BY <1>3, Zenon DEF Revision
  <2> HIDE DEF x
  <2>3. Verified(x)
    BY <1>1, <1>2, <1>4, <2>2 DEF TaskOK, Verified, Publish
  <2> QED BY <1>1, <1>2, <1>3, <2>1, <2>2, <2>3, Constants1, OneRevision
<1>5. CASE FailRevision(p)
  <2> DEFINE x == [NoRevision EXCEPT !.st = "removed"]
  <2>1. revs' = [revs EXCEPT ![r] = x]
    BY <1>2, <1>5 DEF FailRevision
  <2>2. NoRevision \in Revision /\ NoRevision.version = 0
    BY Constants1
  <2>3. x \in Revision /\ x.st = "removed" /\ x.version = NoRevision.version
    BY <2>2, Zenon DEF Revision
  <2> HIDE DEF x
  <2>4. x.version <= r
    BY <2>2, <2>3, StoreAssumption DEF RevIds
  <2> QED BY <1>1, <1>2, <2>1, <2>3, <2>4, Constants1, OneRevision
<1> QED BY <1>4, <1>5

\* A process dies, and nothing of its work is removed.
LEMMA DeathKeeps ==
  ASSUME StoreType, StoreOK, NEW p \in Procs, task' = [task EXCEPT ![p] = NoTask], revs' = revs
  PROVE  StoreOK' /\ KeepsStored /\ task' \in [Procs -> Task]
<1>1. /\ task' \in [Procs -> Task] /\ task'[p].at = "idle"
      /\ \A q \in Procs \ {p} : task'[q] = task[q]
  BY Constants1 DEF StoreType
<1>2. IdsOK' /\ StoredOK'
  BY DEF StoreOK, IdsOK, StoredOK, Begun
<1>3. (\A q \in Procs : TaskOK(q)') /\ OwnTasks'
  BY <1>1, Zenon DEF StoreOK, TaskOK, OwnTasks
<1> QED BY <1>1, <1>2, <1>3 DEF StoreOK, KeepsStored

LEMMA StoreStays ==
  ASSUME StoreOK, UNCHANGED <<revs, task>>
  PROVE  StoreOK' /\ KeepsStored
BY DEF StoreOK, IdsOK, StoredOK, Begun, TaskOK, OwnTasks, KeepsStored

\* The steps of the writers of revisions.
LEMMA RevisionStepKeeps ==
  ASSUME StoreType, StoreOK, NEW p \in Procs, RevisionStep(p)
  PROVE  StoreOK' /\ KeepsStored /\ StoreType'
         /\ UNCHANGED <<homes, bindings, bindingLocks>>
<1>1. StageRevision(p) \/ SnapshotFile(p) \/ WriteProfile(p) \/ Publish(p) \/ FailRevision(p)
  BY DEF RevisionStep, CreateNextChannelProfileRevision, CreateProfileFromCLI
<1>2. /\ StoreOK' /\ KeepsStored
      /\ revs' \in [RevIds -> Revision] /\ task' \in [Procs -> Task]
  BY <1>1, StageKeeps, SnapshotKeeps, WriteProfileKeeps, PublishKeeps
<1>3. UNCHANGED <<source, edits, homes, bindings, bindingLocks>>
  BY <1>1 DEF StageRevision, SnapshotFile, WriteProfile, Publish, FailRevision
<1>4. channelLock' \in BOOLEAN
  BY DEF RevisionStep, CreateNextChannelProfileRevision, CreateProfileFromCLI, LockChannel,
         StageRevision, SnapshotFile, WriteProfile, Publish, FailRevision, StoreType
<1> QED BY <1>2, <1>3, <1>4 DEF StoreType

\* The user's edits.
LEMMA EditKeeps ==
  ASSUME StoreType, StoreOK, NEW f \in Files, NEW content \in Contents, Edit(f, content)
  PROVE  StoreOK' /\ KeepsStored /\ StoreType'
         /\ UNCHANGED <<homes, bindings, bindingLocks>>
<1>1. UNCHANGED <<revs, task, channelLock, homes, bindings, bindingLocks>>
  BY DEF Edit
<1>2. source' \in Folder /\ edits' \in Nat
  BY DEF Edit, StoreType, Folder
<1> QED BY <1>1, <1>2, StoreStays DEF StoreType

\* What is stored and within the limit verifies.
LEMMA StoredMeans ==
  ASSUME StoreType, StoreOK
  PROVE  StoredVerifies
<1> SUFFICES ASSUME NEW r \in RevIds, revs[r].st = "stored", WithinLimit(r)
             PROVE  ParseProfile(r) /\ VerifySkillSnapshot(r)
  BY DEF StoredVerifies, Stored, ReadChannelProfileRevision
<1>1. Verified(revs[r])
  BY DEF StoreOK, StoredOK
<1> QED BY <1>1 DEF Verified, ParseProfile, VerifySkillSnapshot, Present, Files

-----------------------------------------------------------------------------
(* What a step that makes no home and finds no conversation keeps.         *)

Later == {"start", "ready", "prompt", "attempted", "undo", "undoEnd", "done"}

\* Launch k stays, fails, or goes on outside its home.
Progress(k) ==
    /\ launch'[k].session = launch[k].session
    /\ launch'[k].rev = launch[k].rev /\ launch'[k].left = launch[k].left
    /\ \/ launch'[k].at = launch[k].at
       \/ launch[k].at # "none" /\ launch'[k].at \in {"failed", "lost"}
       \/ launch[k].at \in After /\ launch'[k].at \in Later
       \/ launch[k].at = "register" /\ launch'[k].at = "create"
       \/ launch[k].at = "bind" /\ launch'[k].at = "binding"

\* A runtime keeps its launch, or is created by one that is about to.
SameCreators == \A s \in Session :
    \/ runtime'[s].by = runtime[s].by
    \/ \E k \in Launch : runtime'[s].by = k /\ launch[k].at = "create"

LEMMA LaunchTypes ==
  ASSUME LaunchType, NEW l \in Launch
  PROVE  /\ launch[l] \in LaunchRow /\ launch[l].at \in Places /\ launch[l].rev \in 0 .. MaxRevisions
         /\ launch[l].left \in SUBSET Files /\ launch[l].adapter \in Adapters
         /\ launch[l].dir \in Dirs \cup {Idle.dir}
<1>1. launch[l] \in LaunchRow
  BY DEF LaunchType
<1> QED BY <1>1 DEF LaunchRow

\* The revision of a launch that has one is stored, and stays as it is.
LEMMA PinnedStays ==
  ASSUME LaunchType, LaunchesOK, KeepsStored, NEW l \in Launch, launch[l].at # "none", launch[l].rev # 0
  PROVE  /\ launch[l].rev \in RevIds /\ revs[launch[l].rev].st = "stored"
         /\ revs'[launch[l].rev] = revs[launch[l].rev]
<1>1. launch[l].rev \in RevIds
  BY LaunchTypes, StoreAssumption DEF RevIds
<1> QED BY <1>1 DEF LaunchesOK, KeepsStored

\* A launch that goes on and uses its home has used it, and is as far with it.
LEMMA UsesKeep ==
  ASSUME CreatorsOK, SameCreators, NEW k \in Launch, Progress(k), Uses(k)'
  PROVE  /\ Uses(k) /\ launch[k].at # "none"
         /\ \/ launch'[k].at = launch[k].at
            \/ /\ launch[k].at \notin {"fill", "link", "bind", "binding"}
               /\ launch'[k].at \notin {"fill", "link", "bind", "binding"}
            \/ launch[k].at = "bind" /\ launch'[k].at = "binding"
<1>1. launch[k].rev # 0
  BY DEF Uses, Progress
<1>2. CASE \E s \in Session : runtime'[s].by = k
  <2>1. PICK s \in Session : runtime[s].by = k \/ launch[k].at = "create"
    BY <1>2 DEF SameCreators
  <2>2. CASE runtime[s].by = k
    <3>1. Uses(k) /\ launch[k].at \notin Turn \cup {"none"}
      BY <1>1, <2>2, Zenon DEF Uses, CreatorsOK
    <3> QED BY <3>1 DEF Progress, Turn, Filling, After, Later
  <2>3. CASE launch[k].at = "create"
    BY <1>1, <2>3 DEF Uses, Progress, After, Later
  <2> QED BY <2>1, <2>2, <2>3
<1>3. CASE launch'[k].at \notin {"none", "make", "failed", "lost"}
  BY <1>1, <1>3 DEF Uses, Progress, After, Later
<1> QED BY <1>2, <1>3 DEF Uses

LEMMA HomesKeep ==
  ASSUME LaunchType, LaunchesOK, CreatorsOK, HomesOK, KeepsStored, SameCreators,
         \A k \in Launch : Progress(k), UNCHANGED <<homes, bindings, contested>>
  PROVE  LaunchesOK' /\ HomesOK'
<1>1. LaunchesOK'
  <2> SUFFICES ASSUME NEW l \in Launch
               PROVE  /\ launch'[l].at # "none" =>
                           /\ launch'[l].session \in Session
                           /\ launch'[l].rev # 0 => revs'[launch'[l].rev].st = "stored"
                      /\ launch'[l].at \in Filling \cup {"bind", "binding"} => launch'[l].rev # 0
                      /\ launch'[l].at = "fill" => launch'[l].left # {}
    BY DEF LaunchesOK
  <2>1. launch'[l].at # "none" => launch[l].at # "none"
    BY DEF Progress, After
  <2>2. launch'[l].at # "none" /\ launch'[l].rev # 0 => revs'[launch'[l].rev].st = "stored"
    BY <2>1, PinnedStays DEF Progress
  <2>3. launch'[l].at # "none" => launch'[l].session \in Session
    BY <2>1 DEF Progress, LaunchesOK
  <2>4. /\ launch'[l].at \in Filling \cup {"bind", "binding"} =>
             launch[l].at \in Filling \cup {"bind", "binding"}
        /\ launch'[l].at = "fill" => launch[l].at = "fill"
    BY DEF Progress, Filling, Later
  <2> QED BY <2>2, <2>3, <2>4 DEF Progress, LaunchesOK
<1>2. \A l \in Launch : Uncontested(l)' => Uncontested(l)
  BY DEF Uncontested, Progress, After
<1>3. ASSUME NEW l \in Launch, Uncontested(l)'
      PROVE  HomeOK(l)'
  <2>1. HomeOK(l) /\ launch[l].at # "none" /\ Progress(l)
    BY <1>2, <1>3 DEF HomesOK, Uncontested
  <2>2. launch'[l].at = "make" => ~homes'[launch'[l].session].exists
    BY <2>1 DEF HomeOK, Progress, Later
  <2>3. ASSUME Uses(l)'
        PROVE  /\ homes'[launch'[l].session].exists
               /\ \A f \in Files : homes'[launch'[l].session].copy[f] =
                    IF launch'[l].at = "fill" /\ f \in launch'[l].left THEN 0
                    ELSE revs'[launch'[l].rev].copy[f]
               /\ launch'[l].at \notin {"fill", "link"} => homes'[launch'[l].session].linked
               /\ InDaemon(l) /\ launch'[l].at \notin {"fill", "link", "bind", "binding"} =>
                    bindings'[launch'[l].session] = launch'[l].rev
    <3>1. /\ Uses(l)
          /\ \/ launch'[l].at = launch[l].at
             \/ /\ launch[l].at \notin {"fill", "link", "bind", "binding"}
                /\ launch'[l].at \notin {"fill", "link", "bind", "binding"}
             \/ launch[l].at = "bind" /\ launch'[l].at = "binding"
      BY <2>3, UsesKeep
    <3>2. revs'[launch[l].rev] = revs[launch[l].rev]
      BY <2>1, <3>1, PinnedStays DEF Uses
    <3> QED BY <2>1, <3>1, <3>2 DEF HomeOK, Progress
  <2> QED BY <2>2, <2>3, Zenon DEF HomeOK
<1>4. \A l, k \in Launch : Uncontested(l)' /\ Uses(l)' /\ Uses(k)' /\ launch'[l].session = launch'[k].session
                             => l = k
  BY <1>2, UsesKeep, SMTT(30) DEF HomesOK, Progress
<1>5. \A s \in Session : ~homes'[s].exists => homes'[s] = NoHome
  BY DEF HomesOK
<1>6. \A l \in Launch : launch'[l].at \in {"fill", "link"} => homes'[launch'[l].session].exists
  BY DEF HomesOK, Progress, Later
<1> QED BY <1>1, <1>3, <1>4, <1>5, <1>6 DEF HomesOK

LEMMA CreatorsKeep ==
  ASSUME CreatorsOK, \A k \in Launch : Progress(k),
         \A s \in Session : /\ runtime'[s].by = runtime[s].by
                            /\ \/ runtime'[s].st \in {runtime[s].st, "ended"}
                               \/ runtime'[s].st # "none" /\ runtime[s].by \in Launch
  PROVE  CreatorsOK'
<1>1. \A k \in Launch : launch[k].at \notin Turn \cup {"none"} => launch'[k].at \notin Turn \cup {"none"}
  BY DEF Progress, Turn, Filling, After, Later
<1> SUFFICES ASSUME NEW s \in Session
             PROVE  /\ runtime'[s].by \in Launch =>
                         /\ launch'[runtime'[s].by].session = s
                         /\ launch'[runtime'[s].by].at \notin Turn \cup {"none"}
                    /\ runtime'[s].st = "none" => runtime'[s].by = NoLaunch
                    /\ runtime'[s].st \in {"creating", "running"} => runtime'[s].by \in Launch
  BY DEF CreatorsOK
<1>2. runtime'[s].by \in Launch => /\ launch'[runtime'[s].by].session = s
                                   /\ launch'[runtime'[s].by].at \notin Turn \cup {"none"}
  <2> SUFFICES ASSUME NEW k \in Launch, runtime[s].by = k
               PROVE  launch'[k].session = s /\ launch'[k].at \notin Turn \cup {"none"}
    BY Zenon
  <2>1. launch[k].session = s /\ launch[k].at \notin Turn \cup {"none"}
    BY DEF CreatorsOK
  <2> QED BY <1>1, <2>1, Zenon DEF Progress
<1> QED BY <1>2 DEF CreatorsOK

\* Conversations stay with their rows, and no host is new.
LEMMA ThreadsKeep ==
  ASSUME ThreadsOK, UNCHANGED transcripts,
         \A l \in Launch : launch'[l].at = "start" =>
            launch[l].at = "start" /\ launch'[l].session = launch[l].session /\ launch[l].session \in Session,
         \A s \in Session : /\ runtime'[s].by = runtime[s].by /\ runtime'[s].thread = runtime[s].thread
                            /\ runtime'[s].st \in {runtime[s].st, "ended"},
         \/ /\ crashes' = crashes
            /\ \A s \in Session : \/ discovery'[s].at = discovery[s].at
                                  \/ discovery[s].at = "poll" /\ discovery'[s].at = "gap"
         \/ crashes' # 0 /\ \A l \in Launch : launch'[l].at = "start" =>
              discovery'[launch'[l].session].at = discovery[launch'[l].session].at
  PROVE  ThreadsOK'
<1>1. \A s : TranscriptOf(s)' = TranscriptOf(s)
  BY DEF TranscriptOf
<1>2. \A i, s : Shows(i, s)' <=> Shows(i, s)
  BY DEF Shows
<1>3. \A s \in Session : Live(s)' => Live(s)
  BY DEF Live
<1>4. ASSUME NEW l \in Launch PROVE StartOK(l)'
  BY <1>1 DEF ThreadsOK, StartOK
<1>5. \A s \in Session : TranscriptOf(s)' # {} => runtime'[s].st \in {"running", "ended"}
  BY <1>1 DEF ThreadsOK
<1>6. ASSUME NEW s \in Session, runtime'[s].thread \notin {s, NoThread}
      PROVE  \E i \in TranscriptOf(runtime[s].thread)' : Shows(i, s)'
  <2>1. runtime'[s].thread = runtime[s].thread
    OBVIOUS
  <2>2. PICK i \in TranscriptOf(runtime[s].thread) : Shows(i, s)
    BY <1>6, <2>1, Zenon DEF ThreadsOK
  <2>3. i \in TranscriptOf(runtime[s].thread)'
    BY <2>1, <2>2 DEF TranscriptOf
  <2> QED BY <1>2, <2>2, <2>3
<1>7. \A s, q \in Session : Live(s)' /\ Live(q)' /\ runtime'[s].thread = runtime'[q].thread =>
        s = q \/ runtime'[s].thread = NoThread
  BY <1>3 DEF ThreadsOK
<1>8. \A s \in Session : crashes' = 0 /\ Live(s)' /\ runtime'[s].thread = NoThread =>
        discovery'[s].at \in {"planned", "poll", "gap"}
  BY <1>3 DEF ThreadsOK
<1> QED BY <1>4, <1>5, <1>6, <1>7, <1>8, Zenon DEF ThreadsOK

\* A step without homes and conversations, whose types are right.
LEMMA QuietStep ==
  ASSUME IInv, TypeOK', StoreOK', KeepsStored, \A k \in Launch : Progress(k),
         UNCHANGED <<homes, bindings, contested, transcripts>>,
         \A s \in Session : /\ runtime'[s].by = runtime[s].by /\ runtime'[s].thread = runtime[s].thread
                            /\ runtime'[s].st \in {runtime[s].st, "ended"},
         \/ /\ crashes' = crashes
            /\ \A s \in Session : \/ discovery'[s].at = discovery[s].at
                                  \/ discovery[s].at = "poll" /\ discovery'[s].at = "gap"
         \/ crashes' # 0 /\ \A l \in Launch : launch'[l].at # "start",
         \A l \in Launch : launch'[l].at = "start" => launch[l].at = "start"
  PROVE  IInv'
<1>1. LaunchType /\ LaunchesOK /\ CreatorsOK /\ HomesOK /\ ThreadsOK
  BY DEF IInv, TypeOK
<1>2. SameCreators
  BY DEF SameCreators
<1>3. LaunchesOK' /\ HomesOK'
  BY <1>1, <1>2, HomesKeep
<1>4. CreatorsOK'
  BY <1>1, CreatorsKeep
<1>5. \A l \in Launch : launch'[l].at = "start" =>
        launch[l].at = "start" /\ launch'[l].session = launch[l].session /\ launch[l].session \in Session
  BY <1>1 DEF Progress, LaunchesOK
<1>6. ThreadsOK'
  BY <1>1, <1>5, ThreadsKeep
<1> QED BY <1>3, <1>4, <1>6 DEF IInv

\* Launch l goes to another place.
LEMMA Moved ==
  ASSUME LaunchType, NEW l \in Launch, NEW place \in Places, To(l, place)
  PROVE  /\ launch' \in [Launch -> LaunchRow]
         /\ \A k \in Launch \ {l} : launch'[k] = launch[k]
         /\ launch'[l].at = place /\ launch'[l].session = launch[l].session
         /\ launch'[l].rev = launch[l].rev /\ launch'[l].left = launch[l].left
<1> DEFINE x == [launch[l] EXCEPT !.at = place]
<1>1. launch \in [Launch -> LaunchRow] /\ launch[l] \in LaunchRow
  BY DEF LaunchType
<1>2. /\ x \in LaunchRow /\ x.at = place /\ x.session = launch[l].session
      /\ x.rev = launch[l].rev /\ x.left = launch[l].left
  BY <1>1, Zenon DEF LaunchRow
<1>3. launch' = [launch EXCEPT ![l] = x]
  BY DEF To
<1> HIDE DEF x
<1> QED BY <1>1, <1>2, <1>3

\* The runtime of session s is over.
LEMMA RuntimeEnds ==
  ASSUME ThreadType, NEW s \in Session, runtime' = [runtime EXCEPT ![s].st = "ended"]
  PROVE  /\ runtime' \in [Session -> RuntimeRow]
         /\ \A q \in Session : /\ runtime'[q].by = runtime[q].by /\ runtime'[q].thread = runtime[q].thread
                               /\ runtime'[q].st \in {runtime[q].st, "ended"}
<1> DEFINE x == [runtime[s] EXCEPT !.st = "ended"]
<1>1. runtime \in [Session -> RuntimeRow] /\ runtime[s] \in RuntimeRow
  BY DEF ThreadType
<1>2. x \in RuntimeRow /\ x.st = "ended" /\ x.by = runtime[s].by /\ x.thread = runtime[s].thread
  BY <1>1, Zenon DEF RuntimeRow
<1>3. runtime' = [runtime EXCEPT ![s] = x]
  OBVIOUS
<1> HIDE DEF x
<1>4. runtime' \in [Session -> RuntimeRow] /\ runtime'[s] = x
      /\ \A q \in Session \ {s} : runtime'[q] = runtime[q]
  BY <1>1, <1>2, <1>3
<1> QED BY <1>2, <1>4

\* One launch moves as Progress allows, and files, conversations and counters
\* stay as they are.
LEMMA MoveKeeps ==
  ASSUME IInv, NEW l \in Launch, launch' \in [Launch -> LaunchRow],
         \A k \in Launch \ {l} : launch'[k] = launch[k],
         Progress(l), launch'[l].at = "start" => launch[l].at = "start",
         UNCHANGED <<source, edits, revs, task, channelLock, homes, bindings>>,
         UNCHANGED <<transcripts, discovery, ending, contested, crashes>>,
         bindingLocks' \subseteq Session,
         sessions' \in [Session -> {"none", "open", "ended"}],
         runtime' \in [Session -> RuntimeRow],
         \A q \in Session : /\ runtime'[q].by = runtime[q].by /\ runtime'[q].thread = runtime[q].thread
                            /\ runtime'[q].st \in {runtime[q].st, "ended"}
  PROVE  IInv'
<1>1. \A k \in Launch : Progress(k)
  BY DEF Progress
<1>2. StoreType' /\ ThreadType' /\ LaunchType'
  BY DEF IInv, TypeOK, StoreType, ThreadType, LaunchType
<1>3. StoreOK' /\ KeepsStored
  BY StoreStays DEF IInv
<1>4. TypeOK'
  BY <1>2 DEF TypeOK
<1> QED BY <1>1, <1>3, <1>4, QuietStep, Zenon

LEMMA Placed ==
  /\ Later \subseteq After /\ After \subseteq Places
  /\ {"none", "make", "fill", "link", "bind", "binding", "failed", "lost"} \subseteq Places
BY DEF Later, After, Places

LEMMA IInvTypes ==
  ASSUME IInv
  PROVE  /\ LaunchType /\ ThreadType /\ StoreType /\ StoreOK /\ LaunchesOK /\ CreatorsOK
         /\ runtime \in [Session -> RuntimeRow] /\ bindingLocks \subseteq Session
         /\ sessions \in [Session -> {"none", "open", "ended"}]
         /\ \A l \in Launch : launch[l].at # "none" => launch[l].session \in Session
BY DEF IInv, TypeOK, LaunchType, ThreadType, StoreType, LaunchesOK

\* The launch steps that only move.
LEMMA PlainKeeps ==
  ASSUME IInv, NEW l \in Launch,
         \/ HomeFails(l) \/ AttemptPrompt(l) \/ PromptAccepted(l) \/ PromptNotAccepted(l)
         \/ \E outcome \in DrainOutcomes : ProviderReady(l, outcome)
  PROVE  IInv'
<1>1. PICK place \in Later \cup {"failed"} :
        /\ To(l, place) /\ place # "start"
        /\ launch[l].at # "none"
        /\ place = "failed" \/ launch[l].at \in After
  <2>1. CASE HomeFails(l)
    BY <2>1 DEF HomeFails, At, Filling
  <2>2. CASE AttemptPrompt(l)
    BY <2>2 DEF AttemptPrompt, At, Later, After
  <2>3. CASE PromptAccepted(l)
    BY <2>3 DEF PromptAccepted, At, Later, After
  <2>4. CASE PromptNotAccepted(l)
    BY <2>4 DEF PromptNotAccepted, At, Later, After
  <2>5. CASE \E outcome \in DrainOutcomes : ProviderReady(l, outcome)
    BY <2>5 DEF ProviderReady, At, Later, After
  <2> QED BY <2>1, <2>2, <2>3, <2>4, <2>5
<1>2. UNCHANGED <<storeVars, sessions, threadVars, ending, contested, crashes>>
  BY DEF HomeFails, AttemptPrompt, PromptAccepted, PromptNotAccepted, ProviderReady
<1>3. /\ launch' \in [Launch -> LaunchRow] /\ \A k \in Launch \ {l} : launch'[k] = launch[k]
      /\ launch'[l].at = place /\ launch'[l].session = launch[l].session
      /\ launch'[l].rev = launch[l].rev /\ launch'[l].left = launch[l].left
  BY <1>1, IInvTypes, Placed, Moved
<1>4. Progress(l) /\ launch'[l].at # "start"
  BY <1>1, <1>3 DEF Progress
<1>5. UNCHANGED <<source, edits, revs, task, channelLock, homes, bindings, bindingLocks,
                 runtime, transcripts, discovery, sessions, ending, contested, crashes>>
  BY <1>2 DEF storeVars, threadVars
<1> QED BY <1>3, <1>4, <1>5, IInvTypes, MoveKeeps

LEMMA DeadlineKeeps ==
  ASSUME IInv, NEW l \in Launch, PromptDeadline(l)
  PROVE  IInv'
<1> DEFINE x == [launch[l] EXCEPT !.late = TRUE]
<1>1. launch \in [Launch -> LaunchRow] /\ launch[l] \in LaunchRow
  BY IInvTypes DEF LaunchType
<1>2. /\ x \in LaunchRow /\ x.at = launch[l].at /\ x.session = launch[l].session
      /\ x.rev = launch[l].rev /\ x.left = launch[l].left
  BY <1>1, Zenon DEF LaunchRow
<1>3. launch' = [launch EXCEPT ![l] = x]
  BY DEF PromptDeadline
<1> HIDE DEF x
<1>4. /\ launch' \in [Launch -> LaunchRow] /\ \A k \in Launch \ {l} : launch'[k] = launch[k]
      /\ launch'[l] = x
  BY <1>1, <1>2, <1>3
<1>5. Progress(l) /\ launch'[l].at = launch[l].at
  BY <1>2, <1>4 DEF Progress
<1>6. UNCHANGED <<source, edits, revs, task, channelLock, homes, bindings, bindingLocks,
                 runtime, transcripts, discovery, sessions, ending, contested, crashes>>
  BY DEF PromptDeadline, storeVars, threadVars
<1> QED BY <1>4, <1>5, <1>6, IInvTypes, MoveKeeps

LEMMA LockKeeps ==
  ASSUME IInv, NEW l \in Launch, LockBinding(l)
  PROVE  IInv'
<1>1. launch[l].at = "bind" /\ launch[l].session \in Session
  BY IInvTypes DEF LockBinding, At
<1>2. PICK place \in {"failed", "binding"} : To(l, place)
  BY DEF LockBinding
<1>3. /\ launch' \in [Launch -> LaunchRow] /\ \A k \in Launch \ {l} : launch'[k] = launch[k]
      /\ launch'[l].at = place /\ launch'[l].session = launch[l].session
      /\ launch'[l].rev = launch[l].rev /\ launch'[l].left = launch[l].left
  BY <1>2, IInvTypes, Placed, Moved
<1>4. Progress(l) /\ launch'[l].at # "start"
  BY <1>1, <1>2, <1>3 DEF Progress
<1>5. bindingLocks' \subseteq Session
  BY <1>1, IInvTypes DEF LockBinding
<1>6. UNCHANGED <<source, edits, revs, task, channelLock, homes, bindings,
                 runtime, transcripts, discovery, sessions, ending, contested, crashes>>
  BY DEF LockBinding, threadVars
<1> QED BY <1>3, <1>4, <1>5, <1>6, IInvTypes, MoveKeeps

LEMMA SessionRowKeeps ==
  ASSUME IInv, NEW l \in Launch, Register(l) \/ UndoSession(l)
  PROVE  IInv'
<1>1. launch[l].session \in Session
  BY IInvTypes DEF Register, UndoSession, At
<1>2. PICK place \in {"failed", "create"} :
        To(l, place) /\ launch[l].at \in {"register", "undoEnd"} /\ (launch[l].at = "undoEnd" => place = "failed")
  BY DEF Register, UndoSession, At
<1>3. /\ launch' \in [Launch -> LaunchRow] /\ \A k \in Launch \ {l} : launch'[k] = launch[k]
      /\ launch'[l].at = place /\ launch'[l].session = launch[l].session
      /\ launch'[l].rev = launch[l].rev /\ launch'[l].left = launch[l].left
  <2>1. place \in Places
    BY <1>2, Placed DEF After
  <2> QED BY <1>2, <2>1, IInvTypes, Moved
<1>4. Progress(l) /\ launch'[l].at # "start"
  BY <1>2, <1>3 DEF Progress
<1>5. sessions' \in [Session -> {"none", "open", "ended"}]
  BY <1>1, IInvTypes DEF Register, UndoSession
<1>6. UNCHANGED <<source, edits, revs, task, channelLock, homes, bindings, bindingLocks,
                 runtime, transcripts, discovery, ending, contested, crashes>>
  BY DEF Register, UndoSession, threadVars, storeVars
<1> QED BY <1>3, <1>4, <1>5, <1>6, IInvTypes, MoveKeeps

LEMMA UndoRuntimeKeeps ==
  ASSUME IInv, NEW l \in Launch, NEW stopped \in BOOLEAN, UndoRuntime(l, stopped)
  PROVE  IInv'
<1>1. launch[l].at = "undo" /\ launch[l].session \in Session /\ To(l, "undoEnd")
  BY IInvTypes DEF UndoRuntime, At
<1>2. /\ launch' \in [Launch -> LaunchRow] /\ \A k \in Launch \ {l} : launch'[k] = launch[k]
      /\ launch'[l].at = "undoEnd" /\ launch'[l].session = launch[l].session
      /\ launch'[l].rev = launch[l].rev /\ launch'[l].left = launch[l].left
  <2>1. "undoEnd" \in Places
    BY Placed DEF After
  <2> QED BY <1>1, <2>1, IInvTypes, Moved
<1>3. Progress(l) /\ launch'[l].at # "start"
  BY <1>1, <1>2 DEF Progress, After, Later
<1>4. /\ runtime' \in [Session -> RuntimeRow]
      /\ \A q \in Session : /\ runtime'[q].by = runtime[q].by /\ runtime'[q].thread = runtime[q].thread
                            /\ runtime'[q].st \in {runtime[q].st, "ended"}
  <2>1. CASE stopped
    <3>1. runtime' = [runtime EXCEPT ![launch[l].session].st = "ended"]
      BY <2>1 DEF UndoRuntime
    <3> QED BY <1>1, <3>1, IInvTypes, RuntimeEnds
  <2>2. CASE ~stopped
    BY <2>2, IInvTypes DEF UndoRuntime
  <2> QED BY <2>1, <2>2
<1>5. UNCHANGED <<source, edits, revs, task, channelLock, homes, bindings, bindingLocks,
                 sessions, transcripts, discovery, ending, contested, crashes>>
  BY DEF UndoRuntime, storeVars
<1> QED BY <1>2, <1>3, <1>4, <1>5, IInvTypes, MoveKeeps

-----------------------------------------------------------------------------
(* Ends, searches that give up, revisions and crashes.                     *)

LEMMA LaunchesStay ==
  ASSUME launch' = launch
  PROVE  \A k \in Launch : Progress(k)
BY DEF Progress

LEMMA RowsStay ==
  ASSUME runtime' = runtime
  PROVE  \A s \in Session : /\ runtime'[s].by = runtime[s].by /\ runtime'[s].thread = runtime[s].thread
                            /\ runtime'[s].st \in {runtime[s].st, "ended"}
OBVIOUS

LEMMA EndKeeps ==
  ASSUME IInv, NEW s \in Session, EndManagedSession(s) \/ TerminateListed(s) \/ EndListed(s)
  PROVE  IInv'
<1>1. /\ UNCHANGED <<source, edits, revs, task, channelLock, homes, bindings, bindingLocks>>
      /\ UNCHANGED <<launch, transcripts, discovery, contested, crashes>>
  BY DEF EndManagedSession, TerminateListed, EndListed, storeVars, threadVars
<1>2. /\ sessions' \in [Session -> {"none", "open", "ended"}]
      /\ ending' \in [Session -> {"no", "terminate", "end", "over"}]
  BY DEF EndManagedSession, TerminateListed, EndListed, IInv, TypeOK, LaunchType
<1>3. /\ runtime' \in [Session -> RuntimeRow]
      /\ \A q \in Session : /\ runtime'[q].by = runtime[q].by /\ runtime'[q].thread = runtime[q].thread
                            /\ runtime'[q].st \in {runtime[q].st, "ended"}
  <2>1. CASE TerminateListed(s)
    <3>1. runtime' = [runtime EXCEPT ![s].st = "ended"]
      BY <2>1 DEF TerminateListed
    <3> QED BY <3>1, IInvTypes, RuntimeEnds
  <2>2. CASE EndManagedSession(s) \/ EndListed(s)
    <3>1. runtime' = runtime
      BY <2>2 DEF EndManagedSession, EndListed, threadVars
    <3> QED BY <3>1, IInvTypes, RowsStay
  <2> QED BY <2>1, <2>2
<1>4. StoreOK' /\ KeepsStored
  BY <1>1, StoreStays, IInvTypes
<1>5. TypeOK'
  <2>1. StoreType' /\ ThreadType' /\ LaunchType'
    BY <1>1, <1>2, <1>3 DEF IInv, TypeOK, StoreType, ThreadType, LaunchType
  <2> QED BY <2>1 DEF TypeOK
<1> QED BY <1>1, <1>3, <1>4, <1>5, LaunchesStay, QuietStep

LEMMA DiscoveryTypes ==
  ASSUME ThreadType, NEW s \in Session
  PROVE  /\ discovery \in [Session -> Discovery] /\ discovery[s] \in Discovery
         /\ NoDiscovery \in Discovery /\ NoDiscovery.at = "no"
<1>1. NoDiscovery \in Discovery /\ NoDiscovery.at = "no"
  BY DEF NoDiscovery, Discovery
<1> QED BY <1>1 DEF ThreadType

\* One search goes over into d.
LEMMA DiscoverySet ==
  ASSUME ThreadType, NEW s \in Session, NEW d \in Discovery,
         d.at \in {"planned", "poll"} => d.read \in [Numbers -> Nat],
         discovery' = [discovery EXCEPT ![s] = d]
  PROVE  /\ discovery' \in [Session -> Discovery] /\ discovery'[s] = d
         /\ \A q \in Session \ {s} : discovery'[q] = discovery[q]
         /\ \A q \in Session : discovery'[q].at \in {"planned", "poll"} =>
              discovery'[q].read \in [Numbers -> Nat]
<1>1. discovery \in [Session -> Discovery]
  BY DEF ThreadType
<1>2. /\ discovery' \in [Session -> Discovery] /\ discovery'[s] = d
      /\ \A q \in Session \ {s} : discovery'[q] = discovery[q]
  BY <1>1
<1> QED BY <1>2 DEF ThreadType

LEMMA GapKeeps ==
  ASSUME IInv, NEW s \in Session, RecordProviderIdentityGap(s), UNCHANGED <<storeVars, launchVars>>
  PROVE  IInv'
<1> DEFINE d == [NoDiscovery EXCEPT !.at = "gap"]
<1>1. UNCHANGED <<source, edits, revs, task, channelLock, homes, bindings, bindingLocks,
                 launch, sessions, ending, contested, crashes, runtime, transcripts>>
  BY DEF RecordProviderIdentityGap, storeVars, launchVars
<1>2. d \in Discovery /\ d.at = "gap"
  <2>1. NoDiscovery \in Discovery
    BY IInvTypes, DiscoveryTypes
  <2> QED BY <2>1, Zenon DEF Discovery
<1>3. discovery[s].at = "poll" /\ discovery' = [discovery EXCEPT ![s] = d]
  BY DEF RecordProviderIdentityGap
<1> HIDE DEF d
<1>4. /\ discovery' \in [Session -> Discovery] /\ discovery'[s] = d
      /\ \A q \in Session \ {s} : discovery'[q] = discovery[q]
      /\ \A q \in Session : discovery'[q].at \in {"planned", "poll"} =>
           discovery'[q].read \in [Numbers -> Nat]
  BY <1>2, <1>3, IInvTypes, DiscoverySet
<1>5. \A q \in Session : \/ discovery'[q].at = discovery[q].at
                         \/ discovery[q].at = "poll" /\ discovery'[q].at = "gap"
  BY <1>2, <1>3, <1>4
<1>6. StoreOK' /\ KeepsStored
  BY <1>1, StoreStays, IInvTypes
<1>7. TypeOK'
  <2>1. StoreType' /\ ThreadType' /\ LaunchType'
    BY <1>1, <1>4 DEF IInv, TypeOK, StoreType, ThreadType, LaunchType
  <2> QED BY <2>1 DEF TypeOK
<1> QED BY <1>1, <1>5, <1>6, <1>7, LaunchesStay, RowsStay, QuietStep

LEMMA WriterKeeps ==
  ASSUME IInv, \/ \E p \in Procs : CreateRevision(p)
               \/ \E f \in Files, content \in Contents : EditSource(f, content)
  PROVE  IInv'
<1>1. UNCHANGED <<runtime, transcripts, discovery, launch, sessions, ending, contested, crashes>>
  BY DEF CreateRevision, EditSource, threadVars, launchVars
<1>2. StoreOK' /\ KeepsStored /\ StoreType' /\ UNCHANGED <<homes, bindings, bindingLocks>>
  BY IInvTypes, RevisionStepKeeps, EditKeeps DEF CreateRevision, EditSource
<1>3. TypeOK'
  <2>1. ThreadType' /\ LaunchType'
    BY <1>1 DEF IInv, TypeOK, ThreadType, LaunchType
  <2> QED BY <1>2, <2>1 DEF TypeOK
<1> QED BY <1>1, <1>2, <1>3, LaunchesStay, RowsStay, QuietStep

\* Launches that a crash loses.
Falls(k) ==
    \/ launch'[k] = launch[k]
    \/ launch[k].at # "none" /\ launch'[k] = [launch[k] EXCEPT !.at = "lost"]

LEMMA FallsIs ==
  ASSUME LaunchType, NEW k \in Launch, Falls(k)
  PROVE  launch'[k] \in LaunchRow /\ Progress(k) /\ launch'[k].at \in {launch[k].at, "lost"}
<1>1. launch[k] \in LaunchRow
  BY DEF LaunchType
<1> DEFINE x == [launch[k] EXCEPT !.at = "lost"]
<1>2. /\ x \in LaunchRow /\ x.at = "lost" /\ x.session = launch[k].session
      /\ x.rev = launch[k].rev /\ x.left = launch[k].left
  <2>1. "lost" \in Places
    BY DEF Places
  <2> QED BY <1>1, <2>1, Zenon DEF LaunchRow
<1>3. launch'[k] = launch[k] \/ (launch[k].at # "none" /\ launch'[k] = x)
  BY DEF Falls
<1> HIDE DEF x
<1> QED BY <1>1, <1>2, <1>3 DEF Progress

LEMMA CrashDaemonKeeps ==
  ASSUME IInv, CrashDaemon
  PROVE  IInv'
<1>1. /\ UNCHANGED <<source, edits, revs, channelLock, homes, bindings, bindingLocks>>
      /\ UNCHANGED <<sessions, runtime, transcripts, contested>>
      /\ crashes' = crashes + 1 /\ task' = [task EXCEPT !["daemon"] = NoTask]
  BY DEF CrashDaemon
<1>2. /\ launch' = [k \in Launch |-> launch'[k]]
      /\ \A k \in Launch : Falls(k) /\ launch'[k].at # "start"
  <2>1. \A k \in Launch : launch'[k] =
          IF At(k, {"none"} \cup Over) \/ (~InDaemon(k) /\ At(k, Filling)) THEN launch[k]
          ELSE [launch[k] EXCEPT !.at = "lost"]
    BY DEF CrashDaemon
  <2>2. launch' = [k \in Launch |-> launch'[k]]
    BY DEF CrashDaemon
  <2>3. \A k \in Launch : Falls(k)
    BY <2>1 DEF Falls, At
  <2>4. ASSUME NEW k \in Launch PROVE launch'[k].at # "start"
    <3>1. CASE At(k, {"none"} \cup Over) \/ (~InDaemon(k) /\ At(k, Filling))
      <4>1. launch[k].at # "start" /\ launch'[k] = launch[k]
        BY <2>1, <3>1 DEF At, Over, Filling
      <4> QED BY <4>1
    <3>2. CASE ~(At(k, {"none"} \cup Over) \/ (~InDaemon(k) /\ At(k, Filling)))
      <4>1. launch'[k] = [launch[k] EXCEPT !.at = "lost"]
        BY <2>1, <3>2
      <4>2. launch[k] \in LaunchRow
        BY IInvTypes, LaunchTypes
      <4>3. launch'[k].at = "lost"
        BY <4>1, <4>2 DEF LaunchRow
      <4> QED BY <4>3
    <3> QED BY <3>1, <3>2
  <2> QED BY <2>2, <2>3, <2>4
<1>3. \A k \in Launch : launch'[k] \in LaunchRow /\ Progress(k)
  BY <1>2, FallsIs, IInvTypes
<1>4. launch' \in [Launch -> LaunchRow]
  BY <1>2, <1>3
<1>5. StoreOK' /\ KeepsStored /\ task' \in [Procs -> Task]
  BY <1>1, IInvTypes, DeathKeeps DEF Procs
<1>6. /\ discovery' \in [Session -> Discovery]
      /\ \A q \in Session : discovery'[q].at \notin {"planned", "poll"}
  <2>1. \A q \in Session : discovery'[q] = IF discovery[q].at = "gap" THEN discovery[q] ELSE NoDiscovery
    BY DEF CrashDaemon
  <2>2. \A q \in Session : discovery'[q] \in Discovery /\ discovery'[q].at \notin {"planned", "poll"}
    BY <2>1, DiscoveryTypes, IInvTypes
  <2>3. discovery' = [q \in Session |-> discovery'[q]]
    BY DEF CrashDaemon
  <2> QED BY <2>2, <2>3
<1>7. /\ ending' \in [Session -> {"no", "terminate", "end", "over"}]
      /\ crashes' \in Nat /\ crashes' # 0
  <2>1. crashes \in Nat
    BY IInvTypes DEF LaunchType
  <2>2. ending' \in [Session -> {"no", "terminate", "end", "over"}]
    BY DEF CrashDaemon
  <2> QED BY <1>1, <2>1, <2>2
<1>8. TypeOK'
  <2>1. StoreType' /\ ThreadType' /\ LaunchType'
    BY <1>1, <1>4, <1>5, <1>6, <1>7 DEF IInv, TypeOK, StoreType, ThreadType, LaunchType
  <2> QED BY <2>1 DEF TypeOK
<1> QED BY <1>1, <1>2, <1>3, <1>5, <1>7, <1>8, RowsStay, QuietStep, Zenon

LEMMA CrashCliKeeps ==
  ASSUME IInv, CrashCli
  PROVE  IInv'
<1>1. /\ UNCHANGED <<source, edits, revs, channelLock, homes, bindings, bindingLocks>>
      /\ UNCHANGED <<sessions, runtime, transcripts, discovery, ending, contested>>
      /\ crashes' = crashes + 1 /\ task' = [task EXCEPT !["cli"] = NoTask]
  BY DEF CrashCli, threadVars
<1>2. launch' = [k \in Launch |-> launch'[k]] /\ \A k \in Launch : Falls(k)
  <2>1. \A k \in Launch : launch'[k] = IF InDaemon(k) \/ At(k, {"none"} \cup Over) THEN launch[k]
                                       ELSE [launch[k] EXCEPT !.at = "lost"]
    BY DEF CrashCli
  <2>2. launch' = [k \in Launch |-> launch'[k]]
    BY DEF CrashCli
  <2>3. \A k \in Launch : Falls(k)
    BY <2>1 DEF Falls, At
  <2> QED BY <2>2, <2>3
<1>3. \A k \in Launch : launch'[k] \in LaunchRow /\ Progress(k) /\ launch'[k].at \in {launch[k].at, "lost"}
  BY <1>2, FallsIs, IInvTypes
<1>4. launch' \in [Launch -> LaunchRow]
  BY <1>2, <1>3
<1>5. StoreOK' /\ KeepsStored /\ task' \in [Procs -> Task]
  BY <1>1, IInvTypes, DeathKeeps DEF Procs
<1>6. crashes \in Nat /\ crashes' \in Nat /\ crashes' # 0
  <2>1. crashes \in Nat
    BY IInvTypes DEF LaunchType
  <2> QED BY <1>1, <2>1
<1>7. TypeOK'
  <2>1. StoreType' /\ ThreadType' /\ LaunchType'
    BY <1>1, <1>4, <1>5, <1>6 DEF IInv, TypeOK, StoreType, ThreadType, LaunchType
  <2> QED BY <2>1 DEF TypeOK
<1>8. LaunchesOK' /\ HomesOK' /\ CreatorsOK' /\ ThreadsOK'
  <2>1. LaunchType /\ LaunchesOK /\ CreatorsOK /\ HomesOK /\ ThreadsOK
    BY DEF IInv, TypeOK
  <2>2. LaunchesOK' /\ HomesOK'
    BY <1>1, <1>3, <1>5, <2>1, HomesKeep DEF SameCreators
  <2>3. CreatorsOK'
    BY <1>1, <1>3, <2>1, CreatorsKeep
  <2>4. \A l \in Launch : launch'[l].at = "start" =>
          launch[l].at = "start" /\ launch'[l].session = launch[l].session /\ launch[l].session \in Session
    BY <1>3, IInvTypes DEF Progress
  <2>5. ThreadsOK'
    BY <1>1, <1>6, <2>1, <2>4, ThreadsKeep
  <2> QED BY <2>2, <2>3, <2>5
<1> QED BY <1>5, <1>7, <1>8 DEF IInv

-----------------------------------------------------------------------------
(* The steps that make homes and bindings.                                 *)

\* Before its runtime is there, a launch has created none.
LEMMA NoCreator ==
  ASSUME CreatorsOK, NEW l \in Launch, launch[l].at \in Turn \cup {"none"}
  PROVE  \A s \in Session : runtime[s].by # l
BY DEF CreatorsOK

\* Launch l does something before its runtime is there.
LEMMA CreatorsSkip ==
  ASSUME CreatorsOK, NEW l \in Launch, launch[l].at \in Turn \cup {"none"},
         \A k \in Launch \ {l} : launch'[k] = launch[k], runtime' = runtime
  PROVE  CreatorsOK'
BY NoCreator DEF CreatorsOK

\* The home of a launch that does nothing, if nobody touches it.
LEMMA OtherHome ==
  ASSUME LaunchType, LaunchesOK, KeepsStored, NEW k \in Launch, launch'[k] = launch[k],
         runtime' = runtime, launch[k].at # "none",
         homes'[launch[k].session] = homes[launch[k].session],
         bindings'[launch[k].session] = bindings[launch[k].session]
  PROVE  (Uses(k)' <=> Uses(k)) /\ (HomeOK(k) => HomeOK(k)')
<1>1. Uses(k)' <=> Uses(k)
  BY DEF Uses
<1>2. Uses(k) => revs'[launch[k].rev] = revs[launch[k].rev]
  BY PinnedStays DEF Uses
<1> QED BY <1>1, <1>2 DEF HomeOK

\* Launch l, which uses its home, changes it or the binding and goes on.
LEMMA UserActs ==
  ASSUME LaunchType, LaunchesOK, CreatorsOK, HomesOK, KeepsStored,
         NEW l \in Launch, launch[l].at \in {"fill", "link", "binding"},
         \A k \in Launch \ {l} : launch'[k] = launch[k],
         launch'[l].session = launch[l].session, launch'[l].rev = launch[l].rev,
         launch'[l].at \notin {"none", "make"},
         launch'[l].at = "fill" => launch'[l].left # {},
         runtime' = runtime, contested' = contested,
         \A s \in Session : /\ homes'[s].exists = homes[s].exists
                            /\ s # launch[l].session => homes'[s] = homes[s] /\ bindings'[s] = bindings[s],
         launch[l].at = "binding" => homes' = homes /\ launch'[l].at \notin {"fill", "link"},
         Uncontested(l) /\ HomeOK(l) /\ Uses(l) => HomeOK(l)'
  PROVE  LaunchesOK' /\ CreatorsOK' /\ HomesOK'
<1>1. launch[l].at # "none" /\ launch[l].session \in Session /\ launch[l].rev # 0
  BY DEF LaunchesOK, Filling
<1>2. /\ launch[l].rev \in RevIds /\ revs[launch[l].rev].st = "stored"
      /\ revs'[launch[l].rev] = revs[launch[l].rev]
  BY <1>1, PinnedStays
<1>3. Uses(l)
  BY <1>1 DEF Uses
<1>4. CreatorsOK'
  BY CreatorsSkip DEF Turn, Filling
<1>5. LaunchesOK'
  <2> SUFFICES ASSUME NEW k \in Launch
               PROVE  /\ launch'[k].at # "none" =>
                           /\ launch'[k].session \in Session
                           /\ launch'[k].rev # 0 => revs'[launch'[k].rev].st = "stored"
                      /\ launch'[k].at \in Filling \cup {"bind", "binding"} => launch'[k].rev # 0
                      /\ launch'[k].at = "fill" => launch'[k].left # {}
    BY DEF LaunchesOK
  <2>1. CASE k = l
    BY <1>1, <1>2, <2>1
  <2>2. CASE k # l
    <3>1. launch'[k] = launch[k]
      BY <2>2
    <3>2. launch[k].at # "none" /\ launch[k].rev # 0 => revs'[launch[k].rev].st = "stored"
      BY PinnedStays
    <3> QED BY <3>1, <3>2 DEF LaunchesOK
  <2> QED BY <2>1, <2>2
<1>6. \A k \in Launch : launch'[k].at # "none" => launch[k].at # "none" /\ launch'[k].session = launch[k].session
  BY <1>1
<1>7. \A k \in Launch : Uncontested(k)' => Uncontested(k)
  BY <1>6 DEF Uncontested
<1>8. \A k \in Launch \ {l} : Uses(k)' => Uses(k)
  BY DEF Uses
<1>9. ASSUME NEW k \in Launch, Uncontested(k)'
      PROVE  HomeOK(k)'
  <2>1. Uncontested(k) /\ HomeOK(k) /\ launch[k].session \in Session /\ launch[k].at # "none"
    BY <1>7, <1>9 DEF HomesOK, Uncontested, LaunchesOK
  <2>2. CASE k = l
    BY <1>3, <2>1, <2>2
  <2>3. CASE k # l /\ launch[k].session # launch[l].session
    BY <2>1, <2>3, OtherHome
  <2>4. CASE k # l /\ launch[k].session = launch[l].session
    <3>1. ~Uses(k)' /\ Uncontested(l)
      BY <1>1, <1>3, <1>8, <2>1, <2>4 DEF HomesOK, Uncontested
    <3>2. homes[launch[l].session].exists
      BY <1>3, <3>1 DEF HomesOK, HomeOK
    <3>3. launch'[k].at # "make"
      BY <2>1, <2>4, <3>2 DEF HomeOK
    <3> QED BY <3>1, <3>3 DEF HomeOK
  <2> QED BY <2>2, <2>3, <2>4
<1>10. ASSUME NEW j \in Launch, NEW k \in Launch, Uncontested(j)', Uses(j)', Uses(k)',
              launch'[j].session = launch'[k].session
       PROVE  j = k
  <2>1. Uses(j) /\ Uses(k)
    BY <1>3, <1>8, <1>10
  <2>2. launch[j].session = launch[k].session
    <3>1. launch'[j].session = launch[j].session /\ launch'[k].session = launch[k].session
      OBVIOUS
    <3> QED BY <1>10, <3>1
  <2> QED BY <1>7, <1>10, <2>1, <2>2 DEF HomesOK
<1>11. ASSUME NEW s \in Session, ~homes'[s].exists PROVE homes'[s] = NoHome
  <2>1. homes[s] = NoHome
    BY <1>11 DEF HomesOK
  <2>2. homes'[s] = homes[s]
    <3>1. CASE s # launch[l].session
      BY <3>1
    <3>2. CASE s = launch[l].session
      <4>1. launch[l].at = "binding"
        BY <1>11, <3>2 DEF HomesOK
      <4> QED BY <4>1
    <3> QED BY <3>1, <3>2
  <2> QED BY <2>1, <2>2
<1>12. ASSUME NEW k \in Launch, launch'[k].at \in {"fill", "link"}
       PROVE  homes'[launch'[k].session].exists
  <2>1. CASE k = l
    <3>1. launch'[l].session = launch[l].session /\ launch[l].session \in Session
      BY <1>1
    <3>2. launch[l].at \in {"fill", "link"}
      BY <1>12, <2>1
    <3> QED BY <2>1, <3>1, <3>2 DEF HomesOK
  <2>2. CASE k # l
    BY <1>12, <2>2 DEF HomesOK, LaunchesOK
  <2> QED BY <2>1, <2>2
<1> QED BY <1>4, <1>5, <1>9, <1>10, <1>11, <1>12 DEF HomesOK

LEMMA HomeTypes ==
  ASSUME StoreType, NEW s \in Session
  PROVE  /\ homes \in [Session -> Home] /\ homes[s] \in Home /\ homes[s].copy \in Folder
         /\ bindings \in [Session -> 0 .. MaxRevisions]
<1>1. homes \in [Session -> Home]
  BY DEF StoreType
<1> QED BY <1>1 DEF Home, StoreType

\* The home of session s is x.
LEMMA HomeSet ==
  ASSUME StoreType, NEW s \in Session, NEW x \in Home, homes' = [homes EXCEPT ![s] = x]
  PROVE  /\ homes' \in [Session -> Home] /\ homes'[s] = x
         /\ \A q \in Session \ {s} : homes'[q] = homes[q]
BY HomeTypes

\* What is left of a step of launch l that moves no conversation.
LEMMA HomeStep ==
  ASSUME IInv, NEW l \in Launch, launch' \in [Launch -> LaunchRow],
         \A k \in Launch \ {l} : launch'[k] = launch[k], launch'[l].at # "start",
         UNCHANGED <<source, edits, revs, task, channelLock>>,
         UNCHANGED <<runtime, transcripts, discovery, sessions, ending, crashes>>,
         homes' \in [Session -> Home], bindings' \in [Session -> 0 .. MaxRevisions],
         bindingLocks' \subseteq Session, contested' \subseteq Session,
         LaunchesOK' /\ CreatorsOK' /\ HomesOK'
  PROVE  IInv'
<1>1. StoreOK'
  BY StoreStays, IInvTypes
<1>2. TypeOK'
  <2>1. StoreType' /\ ThreadType' /\ LaunchType'
    BY DEF IInv, TypeOK, StoreType, ThreadType, LaunchType
  <2> QED BY <2>1 DEF TypeOK
<1>3. \A k \in Launch : launch'[k].at = "start" =>
        launch[k].at = "start" /\ launch'[k].session = launch[k].session /\ launch[k].session \in Session
  BY IInvTypes
<1>4. ThreadsOK'
  <2>1. ThreadsOK
    BY DEF IInv
  <2> QED BY <1>3, <2>1, RowsStay, ThreadsKeep
<1> QED BY <1>1, <1>2, <1>4 DEF IInv

LEMMA FillKeeps ==
  ASSUME IInv, NEW l \in Launch, FillHome(l)
  PROVE  IInv'
<1>1. /\ launch[l].at = "fill" /\ launch[l].session \in Session /\ launch[l].left # {}
      /\ launch[l].rev # 0 /\ LaunchType /\ LaunchesOK /\ StoreType /\ CreatorsOK /\ HomesOK
  BY IInvTypes DEF FillHome, At, IInv, LaunchesOK, Filling
<1>2. PICK f \in launch[l].left : f = NextFile(launch[l].left)
  BY <1>1, NextFileIs, LaunchTypes
<1>3. PICK s \in Session : s = launch[l].session
  BY <1>1
<1>4. PICK r \in RevIds : r = launch[l].rev
  BY <1>1, PinnedStays, StoreStays, IInvTypes, LaunchTypes, StoreAssumption DEF RevIds
<1>5. f \in Files /\ launch[l].left \in SUBSET Files
  BY <1>1, LaunchTypes
<1>6. PICK c \in Contents : c = revs[r].copy[f]
  BY <1>1, <1>5, RevisionTypes DEF Folder
<1>7. PICK left \in SUBSET Files : left = launch[l].left \ {f}
  BY <1>5
<1>8. PICK place \in {"link", "fill"} : place = IF launch[l].left = {f} THEN "link" ELSE "fill"
  OBVIOUS
<1> DEFINE d == [homes[s].copy EXCEPT ![f] = c]
           x == [homes[s] EXCEPT !.copy = d]
           y == [launch[l] EXCEPT !.left = left, !.at = place]
<1>9. homes' = [homes EXCEPT ![s] = x]
  BY <1>2, <1>3, <1>4, <1>6 DEF FillHome, HomeWith
<1>10. d \in Folder /\ \A g \in Files : d[g] = IF g = f THEN c ELSE homes[s].copy[g]
  BY <1>1, <1>5, HomeTypes DEF Folder
<1>11. homes[s] \in Home /\ launch[l] \in LaunchRow /\ launch \in [Launch -> LaunchRow]
  BY <1>1, HomeTypes, LaunchTypes DEF LaunchType
<1>12. launch' = [launch EXCEPT ![l] = y]
  <2>1. launch' = [launch EXCEPT ![l].left = left, ![l].at = place]
    BY <1>2, <1>7, <1>8, <1>11 DEF FillHome
  <2> QED BY <1>11, <2>1
<1> HIDE DEF d
<1>13. x \in Home /\ x.copy = d /\ x.exists = homes[s].exists /\ x.linked = homes[s].linked
  BY <1>10, <1>11, Zenon DEF Home
<1>14. /\ y \in LaunchRow /\ y.left = left /\ y.at = place
       /\ y.session = launch[l].session /\ y.rev = launch[l].rev
  <2>1. place \in Places
    BY Placed
  <2> QED BY <1>11, <2>1, Zenon DEF LaunchRow
<1> HIDE DEF x, y
<1>15. /\ homes' \in [Session -> Home] /\ homes'[s] = x
       /\ \A q \in Session \ {s} : homes'[q] = homes[q]
  BY <1>1, <1>9, <1>13, HomeSet
<1>16. /\ launch' \in [Launch -> LaunchRow] /\ launch'[l] = y
       /\ \A k \in Launch \ {l} : launch'[k] = launch[k]
  BY <1>11, <1>12, <1>14
<1>17. UNCHANGED <<source, edits, revs, task, channelLock, bindings, bindingLocks,
                   runtime, transcripts, discovery, sessions, ending, contested, crashes>>
  BY DEF FillHome, threadVars
<1>18. KeepsStored
  BY <1>17, StoreStays, IInvTypes
<1>19. place = "fill" => left # {}
  BY <1>2, <1>7, <1>8
<1>20. ASSUME HomeOK(l), Uses(l)
       PROVE  HomeOK(l)'
  <2>1. \A g \in Files : homes[s].copy[g] = IF g \in launch[l].left THEN 0 ELSE revs[r].copy[g]
    BY <1>1, <1>3, <1>4, <1>20 DEF HomeOK
  <2>2. \A g \in Files : homes'[s].copy[g] = IF place = "fill" /\ g \in left THEN 0 ELSE revs[r].copy[g]
    <3> SUFFICES ASSUME NEW g \in Files
                 PROVE  d[g] = IF place = "fill" /\ g \in left THEN 0 ELSE revs[r].copy[g]
      BY <1>13, <1>15
    <3>1. CASE g = f
      BY <1>6, <1>7, <1>10, <3>1
    <3>2. CASE g # f
      <4>1. d[g] = IF g \in launch[l].left THEN 0 ELSE revs[r].copy[g]
        BY <1>10, <2>1, <3>2
      <4>2. g \in launch[l].left <=> g \in left
        BY <1>7, <3>2
      <4>3. g \in left => place = "fill"
        BY <1>2, <1>7, <1>8
      <4> QED BY <4>1, <4>2, <4>3
    <3> QED BY <3>1, <3>2
  <2>3. homes'[s].exists /\ revs' = revs
    BY <1>3, <1>13, <1>15, <1>17, <1>20 DEF HomeOK
  <2>4. launch'[l].session = s /\ launch'[l].rev = r /\ launch'[l].at = place /\ launch'[l].left = left
    BY <1>3, <1>4, <1>14, <1>16
  <2> QED BY <1>8, <2>2, <2>3, <2>4, Zenon DEF HomeOK
<1>21. LaunchesOK' /\ CreatorsOK' /\ HomesOK'
  <2>1. /\ launch'[l].session = launch[l].session /\ launch'[l].rev = launch[l].rev
        /\ launch'[l].at \notin {"none", "make"} /\ (launch'[l].at = "fill" => launch'[l].left # {})
    BY <1>8, <1>14, <1>16, <1>19
  <2>2. \A q \in Session : /\ homes'[q].exists = homes[q].exists
                           /\ q # launch[l].session => homes'[q] = homes[q] /\ bindings'[q] = bindings[q]
    BY <1>3, <1>13, <1>15, <1>17
  <2> QED BY <1>1, <1>16, <1>17, <1>18, <1>20, <2>1, <2>2, UserActs
<1>22. launch'[l].at # "start"
  BY <1>8, <1>14, <1>16
<1>23. bindings' \in [Session -> 0 .. MaxRevisions] /\ contested' \subseteq Session
  BY <1>17 DEF IInv, TypeOK, StoreType, LaunchType
<1> QED BY <1>15, <1>16, <1>17, <1>21, <1>22, <1>23, HomeStep, IInvTypes

LEMMA LinkKeeps ==
  ASSUME IInv, NEW l \in Launch, LinkAuth(l)
  PROVE  IInv'
<1>1. /\ launch[l].at = "link" /\ launch[l].session \in Session
      /\ launch[l].rev # 0 /\ LaunchType /\ LaunchesOK /\ StoreType /\ CreatorsOK /\ HomesOK
  BY IInvTypes DEF LinkAuth, At, IInv, LaunchesOK, Filling
<1>2. PICK s \in Session : s = launch[l].session
  BY <1>1
<1>3. PICK place \in {"failed", "bind", "register"} :
        /\ place = IF ~MayLink(s) THEN "failed" ELSE IF InDaemon(l) THEN "bind" ELSE "register"
        /\ To(l, place)
  BY <1>2 DEF LinkAuth
<1>4. /\ launch' \in [Launch -> LaunchRow] /\ \A k \in Launch \ {l} : launch'[k] = launch[k]
      /\ launch'[l].at = place /\ launch'[l].session = launch[l].session
      /\ launch'[l].rev = launch[l].rev /\ launch'[l].left = launch[l].left
  <2>1. place \in Places
    BY Placed DEF After
  <2> QED BY <1>1, <1>3, <2>1, Moved
<1> DEFINE x == [homes[s] EXCEPT !.linked = TRUE]
<1>5. homes' = [homes EXCEPT ![s] = x]
  BY <1>2 DEF LinkAuth
<1>6. homes[s] \in Home
  BY <1>1, HomeTypes
<1>7. x \in Home /\ x.copy = homes[s].copy /\ x.exists = homes[s].exists /\ x.linked
  BY <1>6, Zenon DEF Home
<1> HIDE DEF x
<1>8. /\ homes' \in [Session -> Home] /\ homes'[s] = x
      /\ \A q \in Session \ {s} : homes'[q] = homes[q]
  BY <1>1, <1>5, <1>7, HomeSet
<1>9. UNCHANGED <<source, edits, revs, task, channelLock, bindings, bindingLocks,
                  runtime, transcripts, discovery, sessions, ending, contested, crashes>>
  BY DEF LinkAuth, threadVars
<1>10. KeepsStored
  BY <1>9, StoreStays, IInvTypes
<1>11. ASSUME HomeOK(l), Uses(l)
       PROVE  HomeOK(l)'
  <2>1. Uses(l)' => homes'[s].exists /\ homes'[s].linked
                    /\ \A f \in Files : homes'[s].copy[f] = revs'[launch[l].rev].copy[f]
    BY <1>1, <1>2, <1>7, <1>8, <1>9, <1>11 DEF HomeOK
  <2>2. InDaemon(l) => place \in {"failed", "bind"}
    BY <1>3
  <2>3. place = "failed" => ~Uses(l)'
    <3>1. \A q \in Session : runtime'[q].by # l
      BY <1>1, <1>9, NoCreator DEF Turn, Filling
    <3> QED BY <1>4, <3>1 DEF Uses
  <2> QED BY <1>2, <1>4, <2>1, <2>2, <2>3 DEF HomeOK
<1>12. LaunchesOK' /\ CreatorsOK' /\ HomesOK'
  <2>1. /\ launch'[l].at \notin {"none", "make", "fill"}
    BY <1>4
  <2>2. \A q \in Session : /\ homes'[q].exists = homes[q].exists
                           /\ q # launch[l].session => homes'[q] = homes[q] /\ bindings'[q] = bindings[q]
    BY <1>2, <1>7, <1>8, <1>9
  <2> QED BY <1>1, <1>4, <1>9, <1>10, <1>11, <2>1, <2>2, UserActs
<1>13. launch'[l].at # "start" /\ bindings' \in [Session -> 0 .. MaxRevisions] /\ contested' \subseteq Session
  BY <1>4, <1>9 DEF IInv, TypeOK, StoreType, LaunchType
<1> QED BY <1>4, <1>8, <1>9, <1>12, <1>13, HomeStep, IInvTypes

LEMMA PersistKeeps ==
  ASSUME IInv, NEW l \in Launch, NEW known \in BOOLEAN, PersistBinding(l, known)
  PROVE  IInv'
<1>1. /\ launch[l].at = "binding" /\ launch[l].session \in Session
      /\ launch[l].rev # 0 /\ LaunchType /\ LaunchesOK /\ StoreType /\ CreatorsOK /\ HomesOK
  BY IInvTypes DEF PersistBinding, At, IInv, LaunchesOK, Filling
<1>2. PICK s \in Session : s = launch[l].session
  BY <1>1
<1>3. PICK place \in {"failed", "register"} :
        (place = "register" => PermittedUpdate(s)) /\ To(l, place)
  BY <1>2 DEF PersistBinding
<1>4. /\ launch' \in [Launch -> LaunchRow] /\ \A k \in Launch \ {l} : launch'[k] = launch[k]
      /\ launch'[l].at = place /\ launch'[l].session = launch[l].session
      /\ launch'[l].rev = launch[l].rev /\ launch'[l].left = launch[l].left
  <2>1. place \in Places
    BY Placed DEF After
  <2> QED BY <1>1, <1>3, <2>1, Moved
<1>5. PICK b \in 0 .. MaxRevisions : b = IF PermittedUpdate(s) THEN launch[l].rev ELSE bindings[s]
  BY <1>1, LaunchTypes, HomeTypes
<1>6. bindings' = [bindings EXCEPT ![s] = b]
  BY <1>2, <1>5 DEF PersistBinding
<1>7. /\ bindings' \in [Session -> 0 .. MaxRevisions] /\ bindings'[s] = b
      /\ \A q \in Session \ {s} : bindings'[q] = bindings[q]
  BY <1>1, <1>6, HomeTypes
<1>8. /\ UNCHANGED <<source, edits, revs, task, channelLock, homes,
                     runtime, transcripts, discovery, sessions, ending, contested, crashes>>
      /\ bindingLocks' \subseteq Session
  <2>1. bindingLocks' = bindingLocks \ {s}
    BY <1>2 DEF PersistBinding
  <2> QED BY <2>1, IInvTypes DEF PersistBinding, threadVars
<1>9. KeepsStored
  BY <1>8, StoreStays, IInvTypes
<1>10. ASSUME HomeOK(l), Uses(l)
       PROVE  HomeOK(l)'
  <2>1. /\ homes'[s].exists /\ homes'[s].linked
        /\ \A f \in Files : homes'[s].copy[f] = revs'[launch[l].rev].copy[f]
    BY <1>1, <1>2, <1>8, <1>10 DEF HomeOK
  <2>2. place = "register" => bindings'[s] = launch[l].rev
    BY <1>3, <1>5, <1>7
  <2>3. place = "failed" => ~Uses(l)'
    <3>1. \A q \in Session : runtime'[q].by # l
      BY <1>1, <1>8, NoCreator DEF Turn, Filling
    <3> QED BY <1>4, <3>1 DEF Uses
  <2> QED BY <1>2, <1>4, <2>1, <2>2, <2>3 DEF HomeOK
<1>11. LaunchesOK' /\ CreatorsOK' /\ HomesOK'
  <2>1. launch'[l].at \notin {"none", "make", "fill", "link"}
    BY <1>4
  <2>2. \A q \in Session : /\ homes'[q].exists = homes[q].exists
                           /\ q # launch[l].session => homes'[q] = homes[q] /\ bindings'[q] = bindings[q]
    BY <1>2, <1>7, <1>8
  <2> QED BY <1>1, <1>4, <1>8, <1>9, <1>10, <2>1, <2>2, UserActs
<1>12. launch'[l].at # "start" /\ homes' \in [Session -> Home] /\ contested' \subseteq Session
  BY <1>4, <1>8 DEF IInv, TypeOK, StoreType, LaunchType
<1> QED BY <1>4, <1>7, <1>8, <1>11, <1>12, HomeStep, IInvTypes

\* The files of a stored revision, SKILL.md among them.
LEMMA StoredFiles ==
  ASSUME StoreOK, NEW r \in RevIds, revs[r].st = "stored"
  PROVE  /\ Present(revs[r].copy) # {} /\ Present(revs[r].copy) \in SUBSET Files
         /\ \A f \in Files : f \notin Present(revs[r].copy) => revs[r].copy[f] = 0
<1>1. Verified(revs[r])
  BY DEF StoreOK, StoredOK
<1>2. "SKILL.md" \in Present(revs[r].copy)
  BY <1>1 DEF Verified, Present, Files
<1> QED BY <1>2 DEF Present

LEMMA MakeKeeps ==
  ASSUME IInv, NEW l \in Launch, MakeHome(l)
  PROVE  IInv'
<1>1. /\ launch[l].at = "make" /\ launch[l].session \in Session
      /\ launch[l].rev # 0 /\ LaunchType /\ LaunchesOK /\ StoreType /\ StoreOK /\ CreatorsOK /\ HomesOK
  BY IInvTypes DEF MakeHome, At, IInv, LaunchesOK, Filling
<1>2. PICK s \in Session : s = launch[l].session
  BY <1>1
<1>3. UNCHANGED <<source, edits, revs, task, channelLock, bindings, bindingLocks,
                  runtime, transcripts, discovery, sessions, ending, crashes>>
  BY DEF MakeHome, threadVars
<1>4. KeepsStored
  BY <1>3, StoreStays, IInvTypes
<1>5. PICK r \in RevIds : r = launch[l].rev /\ revs[r].st = "stored"
  BY <1>1, <1>4, PinnedStays
<1>6. PICK left \in SUBSET Files : left = Present(revs[r].copy) /\ left # {}
  BY <1>1, <1>5, StoredFiles
<1> DEFINE x == [homes[s] EXCEPT !.exists = TRUE]
           y == [launch[l] EXCEPT !.at = "fill", !.left = left]
<1>7. homes' = [homes EXCEPT ![s] = x]
  BY <1>2 DEF MakeHome
<1>8. homes[s] \in Home /\ launch[l] \in LaunchRow /\ launch \in [Launch -> LaunchRow]
  BY <1>1, HomeTypes, LaunchTypes DEF LaunchType
<1>9. launch' = [launch EXCEPT ![l] = y]
  <2>1. launch' = [launch EXCEPT ![l].at = "fill", ![l].left = left]
    BY <1>5, <1>6 DEF MakeHome
  <2> QED BY <1>8, <2>1
<1>10. x \in Home /\ x.copy = homes[s].copy /\ x.exists
  BY <1>8, Zenon DEF Home
<1>11. /\ y \in LaunchRow /\ y.left = left /\ y.at = "fill"
       /\ y.session = launch[l].session /\ y.rev = launch[l].rev
  <2>1. "fill" \in Places
    BY Placed
  <2> QED BY <1>8, <2>1, Zenon DEF LaunchRow
<1> HIDE DEF x, y
<1>12. /\ homes' \in [Session -> Home] /\ homes'[s] = x
       /\ \A q \in Session \ {s} : homes'[q] = homes[q]
  BY <1>1, <1>7, <1>10, HomeSet
<1>13. /\ launch' \in [Launch -> LaunchRow] /\ launch'[l] = y
       /\ \A k \in Launch \ {l} : launch'[k] = launch[k]
  BY <1>8, <1>9, <1>11
<1>14. /\ launch'[l].session = s /\ launch'[l].rev = r /\ launch'[l].at = "fill" /\ launch'[l].left = left
  BY <1>2, <1>5, <1>11, <1>13
<1>15. /\ contested \subseteq contested' /\ contested' \subseteq Session
       /\ s \notin contested' => \A k \in Launch \ {l} : launch[k].session = s => launch[k].at \notin Filling
  <2>1. contested' = contested \cup
          {q \in {s} : \E k \in Launch \ {l} : launch[k].session = q /\ At(k, Filling)}
    BY <1>2 DEF MakeHome
  <2> QED BY <2>1 DEF IInv, TypeOK, LaunchType, At
<1>16. \A q \in Session : runtime'[q].by # l /\ runtime[q].by # l
  BY <1>1, <1>3, NoCreator DEF Turn, Filling
<1>17. CreatorsOK'
  BY <1>1, <1>3, <1>13, CreatorsSkip DEF Turn, Filling
<1>18. LaunchesOK'
  BY <1>1, <1>3, <1>5, <1>6, <1>13, <1>14 DEF LaunchesOK
<1>19. \A k \in Launch \ {l} : Uses(k)' <=> Uses(k)
  BY <1>3, <1>13 DEF Uses
<1>20. \A k \in Launch \ {l} : Uncontested(k)' => Uncontested(k)
  BY <1>13, <1>15 DEF Uncontested
<1>21. ASSUME NEW k \in Launch \ {l}, Uncontested(k)', launch[k].session = s
       PROVE  ~Uses(k) /\ launch[k].at # "make" /\ s \notin contested'
  <2>1. s \notin contested' /\ s \notin contested
    BY <1>13, <1>15, <1>21 DEF Uncontested
  <2>2. launch[k].at # "make"
    BY <1>15, <1>21, <2>1 DEF Filling
  <2>3. ~homes[s].exists
    BY <1>1, <1>2, <2>1 DEF HomesOK, HomeOK, Uncontested
  <2>4. HomeOK(k)
    BY <1>1, <1>20, <1>21 DEF HomesOK
  <2>5. ~Uses(k)
    BY <1>21, <2>3, <2>4 DEF HomeOK
  <2> QED BY <2>1, <2>2, <2>5
<1>22. ASSUME NEW k \in Launch, Uncontested(k)'
       PROVE  HomeOK(k)'
  <2>1. CASE k = l
    <3>1. s \notin contested /\ ~homes[s].exists
      BY <1>1, <1>2, <1>14, <1>15, <1>22, <2>1 DEF HomesOK, HomeOK, Uncontested
    <3>2. \A f \in Files : homes'[s].copy[f] = 0
      <4>1. homes[s] = NoHome
        BY <1>1, <3>1 DEF HomesOK
      <4>2. homes'[s].copy = Empty
        BY <1>10, <1>12, <4>1, Constants1
      <4> QED BY <4>2, Constants1
    <3>3. \A f \in Files : homes'[s].copy[f] = IF f \in left THEN 0 ELSE revs'[r].copy[f]
      BY <1>1, <1>3, <1>5, <1>6, <3>2, StoredFiles
    <3> QED BY <1>10, <1>12, <1>14, <2>1, <3>3 DEF HomeOK
  <2>2. CASE k # l /\ launch[k].session # s
    <3>1. Uncontested(k) /\ HomeOK(k) /\ launch[k].session \in Session /\ launch[k].at # "none"
      BY <1>1, <1>20, <1>22, <2>2 DEF HomesOK, Uncontested, LaunchesOK
    <3>2. homes'[launch[k].session] = homes[launch[k].session] /\ launch'[k] = launch[k]
      BY <1>12, <1>13, <2>2, <3>1
    <3> QED BY <1>1, <1>3, <1>4, <3>1, <3>2, OtherHome
  <2>3. CASE k # l /\ launch[k].session = s
    <3>1. ~Uses(k)' /\ launch'[k].at # "make"
      BY <1>13, <1>19, <1>21, <1>22, <2>3
    <3> QED BY <3>1 DEF HomeOK
  <2> QED BY <2>1, <2>2, <2>3
<1>23. ASSUME NEW j \in Launch, NEW k \in Launch, Uncontested(j)', Uses(j)', Uses(k)',
              launch'[j].session = launch'[k].session
       PROVE  j = k
  <2>1. Uncontested(k)'
    <3>1. launch'[k].at # "none"
      <4>1. CASE k = l
        BY <1>14, <4>1
      <4>2. CASE k # l
        <5>1. Uses(k)
          BY <1>19, <1>23, <4>2
        <5>2. launch[k].at # "none"
          BY <1>1, <5>1 DEF Uses, CreatorsOK
        <5> QED BY <1>13, <4>2, <5>2
      <4> QED BY <4>1, <4>2
    <3> QED BY <1>23, <3>1 DEF Uncontested
  <2>2. CASE j # l /\ k # l
    <3>1. launch[j].session = launch[k].session /\ Uses(j) /\ Uses(k) /\ Uncontested(j)
      BY <1>13, <1>19, <1>20, <1>23, <2>2
    <3> QED BY <1>1, <3>1 DEF HomesOK
  <2>3. CASE j = l /\ k # l
    BY <1>13, <1>14, <1>19, <1>21, <1>23, <2>1, <2>3
  <2>4. CASE j # l /\ k = l
    BY <1>13, <1>14, <1>19, <1>21, <1>23, <2>4
  <2> QED BY <2>2, <2>3, <2>4
<1>24. \A q \in Session : ~homes'[q].exists => homes'[q] = NoHome
  BY <1>1, <1>10, <1>12 DEF HomesOK
<1>25. \A k \in Launch : launch'[k].at \in {"fill", "link"} => homes'[launch'[k].session].exists
  BY <1>1, <1>10, <1>12, <1>13, <1>14 DEF HomesOK, LaunchesOK
<1>26. HomesOK'
  BY <1>22, <1>23, <1>24, <1>25 DEF HomesOK
<1>27. launch'[l].at # "start" /\ bindings' \in [Session -> 0 .. MaxRevisions] /\ bindingLocks' \subseteq Session
  BY <1>3, <1>14 DEF IInv, TypeOK, StoreType
<1> QED BY <1>3, <1>12, <1>13, <1>15, <1>17, <1>18, <1>26, <1>27, HomeStep

\* A launch begins: its session may be new or in use, and no home is touched.
LEMMA PrepareKeeps ==
  ASSUME IInv, NEW l \in Launch, NEW s \in Session, NEW r \in 0 .. MaxRevisions,
         NEW adapter \in AdapterKinds, NEW dir \in Dirs,
         LaunchSession(l, s, r, adapter, dir) \/ LaunchFromCLI(l, s, r, adapter, dir)
  PROVE  IInv'
<1>1. /\ launch[l].at = "none"
      /\ LaunchType /\ LaunchesOK /\ StoreType /\ StoreOK /\ CreatorsOK /\ HomesOK
  BY IInvTypes DEF LaunchSession, LaunchFromCLI, Prepare, At, IInv
<1>2. PICK place \in {"register", "make", "failed"} :
        /\ place = "register" => r = 0
        /\ place = "make" => r # 0 /\ HomeFree(s)
        /\ launch' = [launch EXCEPT ![l] = [Idle EXCEPT !.at = place, !.session = s, !.rev = r,
                                                        !.adapter = adapter, !.dir = dir]]
  BY Zenon DEF LaunchSession, LaunchFromCLI, Prepare
<1>3. r # 0 => r \in Stored
  BY DEF LaunchSession, LaunchFromCLI, Prepare
<1>4. UNCHANGED <<source, edits, revs, task, channelLock, homes, bindings, bindingLocks,
                  runtime, transcripts, discovery, sessions, ending, contested, crashes>>
  BY DEF LaunchSession, LaunchFromCLI, Prepare, storeVars, threadVars
<1>5. KeepsStored
  BY <1>4, StoreStays, IInvTypes
<1> DEFINE y == [Idle EXCEPT !.at = place, !.session = s, !.rev = r, !.adapter = adapter, !.dir = dir]
<1>6. Idle \in LaunchRow
  BY StoreAssumption DEF Idle, LaunchRow, Places, Adapters
<1>7. /\ y \in LaunchRow /\ y.at = place /\ y.session = s /\ y.rev = r
  <2>1. place \in Places /\ adapter \in Adapters
    BY ThreadAssumption DEF Adapters, Places, After
  <2>2. s \in Session \cup {Idle.session} /\ dir \in Dirs \cup {Idle.dir}
    OBVIOUS
  <2> QED BY <1>6, <2>1, <2>2, Zenon DEF LaunchRow
<1>8. launch \in [Launch -> LaunchRow] /\ launch' = [launch EXCEPT ![l] = y]
  BY <1>1, <1>2 DEF LaunchType
<1> HIDE DEF y
<1>9. /\ launch' \in [Launch -> LaunchRow] /\ launch'[l] = y
      /\ \A k \in Launch \ {l} : launch'[k] = launch[k]
  BY <1>7, <1>8
<1>10. CreatorsOK'
  BY <1>1, <1>4, <1>9, CreatorsSkip
<1>11. LaunchesOK'
  <2>1. r # 0 => revs[r].st = "stored"
    BY <1>3 DEF Stored
  <2> QED BY <1>1, <1>2, <1>4, <1>7, <1>9, <2>1 DEF LaunchesOK, Filling
<1>12. \A q \in Session : runtime'[q].by # l
  BY <1>1, <1>4, NoCreator
<1>13. ~Uses(l)'
  BY <1>2, <1>7, <1>9, <1>12 DEF Uses
<1>14. \A k \in Launch \ {l} : /\ Uses(k)' <=> Uses(k)
                               /\ Uncontested(k)' <=> Uncontested(k)
  BY <1>4, <1>9 DEF Uses, Uncontested
<1>15. ASSUME NEW k \in Launch, Uncontested(k)'
       PROVE  HomeOK(k)'
  <2>1. CASE k = l
    <3>1. launch'[l].at = "make" => ~homes'[launch'[l].session].exists
      BY <1>2, <1>4, <1>7, <1>9 DEF HomeFree
    <3> QED BY <1>13, <2>1, <3>1 DEF HomeOK
  <2>2. CASE k # l
    <3>1. Uncontested(k) /\ HomeOK(k) /\ launch[k].at # "none" /\ launch'[k] = launch[k]
      BY <1>1, <1>9, <1>14, <1>15, <2>2 DEF HomesOK, Uncontested
    <3>2. homes'[launch[k].session] = homes[launch[k].session]
          /\ bindings'[launch[k].session] = bindings[launch[k].session] /\ runtime' = runtime
      BY <1>4
    <3> QED BY <1>1, <1>5, <3>1, <3>2, OtherHome
  <2> QED BY <2>1, <2>2
<1>16. ASSUME NEW j \in Launch, NEW k \in Launch, Uncontested(j)', Uses(j)', Uses(k)',
              launch'[j].session = launch'[k].session
       PROVE  j = k
  <2>1. j # l /\ k # l
    BY <1>13, <1>16
  <2>2. launch[j].session = launch[k].session /\ Uses(j) /\ Uses(k) /\ Uncontested(j)
    BY <1>9, <1>14, <1>16, <2>1
  <2> QED BY <1>1, <2>2 DEF HomesOK
<1>17. \A k \in Launch : launch'[k].at \in {"fill", "link"} => homes'[launch'[k].session].exists
  BY <1>1, <1>2, <1>4, <1>7, <1>9 DEF HomesOK
<1>18. HomesOK'
  <2>1. \A q \in Session : ~homes'[q].exists => homes'[q] = NoHome
    BY <1>1, <1>4 DEF HomesOK
  <2> QED BY <1>15, <1>16, <1>17, <2>1 DEF HomesOK
<1>19. /\ launch'[l].at # "start" /\ homes' \in [Session -> Home]
       /\ bindings' \in [Session -> 0 .. MaxRevisions]
       /\ bindingLocks' \subseteq Session /\ contested' \subseteq Session
  BY <1>2, <1>4, <1>7, <1>9 DEF IInv, TypeOK, StoreType, LaunchType
<1> QED BY <1>4, <1>9, <1>10, <1>11, <1>18, <1>19, HomeStep

-----------------------------------------------------------------------------
(* The runtime is created and started.                                     *)

\* The conversation of session s is still to come, and its runtime belongs to
\* launch l from now on.
LEMMA RowStarts ==
  ASSUME ThreadsOK, NEW l \in Launch, NEW s \in Session, TranscriptOf(s) = {},
         UNCHANGED <<transcripts, crashes>>, runtime[s].by \in {l, NoLaunch},
         \A k \in Launch \ {l} : launch'[k] = launch[k],
         \A k \in Launch : launch[k].at = "start" => launch[k].session \in Session,
         launch'[l].session = s, runtime'[s].by = l, runtime'[s].thread \in {s, NoThread},
         launch'[l].at = "start" => runtime'[s].st = "creating" /\ discovery'[s].at = "planned",
         Live(s)' /\ runtime'[s].thread = NoThread => discovery'[s].at \in {"planned", "poll"},
         \A q \in Session \ {s} : runtime'[q] = runtime[q] /\ discovery'[q] = discovery[q]
  PROVE  ThreadsOK'
<1>1. \A q : TranscriptOf(q)' = TranscriptOf(q)
  BY DEF TranscriptOf
<1>2. \A i, q : Shows(i, q)' <=> Shows(i, q)
  BY DEF Shows
<1>3. \A q \in Session \ {s} : Live(q)' <=> Live(q)
  BY DEF Live
<1>4. ASSUME NEW k \in Launch PROVE StartOK(k)'
  <2>1. CASE k = l
    BY <1>1, <2>1 DEF StartOK
  <2>2. CASE k # l
    <3> SUFFICES ASSUME launch[k].at = "start" PROVE StartOK(k)'
      BY <2>2 DEF StartOK
    <3>1. PICK q \in Session : q = launch[k].session
      OBVIOUS
    <3>2. StartOK(k) /\ runtime[q].by = k
      BY <3>1 DEF ThreadsOK, StartOK
    <3>3. q # s
      BY <2>2, <3>2, LaunchAssumption DEF Launch
    <3>4. runtime'[q] = runtime[q] /\ discovery'[q] = discovery[q] /\ launch'[k] = launch[k]
      BY <2>2, <3>3
    <3> QED BY <1>1, <3>1, <3>2, <3>4 DEF StartOK
  <2> QED BY <2>1, <2>2
<1>5. \A q \in Session : TranscriptOf(q)' # {} => runtime'[q].st \in {"running", "ended"}
  BY <1>1 DEF ThreadsOK
<1>6. ASSUME NEW q \in Session, runtime'[q].thread \notin {q, NoThread}
      PROVE  \E i \in TranscriptOf(runtime[q].thread)' : Shows(i, q)'
  <2>1. q # s /\ runtime'[q].thread = runtime[q].thread
    BY <1>6
  <2>2. PICK i \in TranscriptOf(runtime[q].thread) : Shows(i, q)
    BY <1>6, <2>1, Zenon DEF ThreadsOK
  <2>3. i \in TranscriptOf(runtime[q].thread)'
    BY <2>1, <2>2 DEF TranscriptOf
  <2> QED BY <1>2, <2>2, <2>3
<1>7. ASSUME NEW q \in Session \ {s}, runtime[q].thread = s
      PROVE  FALSE
  <2>1. runtime[q].thread \notin {q, NoThread}
    BY <1>7, NoThreadAssumption
  <2>2. TranscriptOf(runtime[q].thread) # {}
    BY <2>1, Zenon DEF ThreadsOK
  <2> QED BY <1>7, <2>2
<1>8. ASSUME NEW p \in Session, NEW q \in Session, Live(p)', Live(q)',
             runtime'[p].thread = runtime'[q].thread
      PROVE  p = q \/ runtime'[p].thread = NoThread
  <2>1. CASE p # s /\ q # s
    BY <1>3, <1>8, <2>1 DEF ThreadsOK
  <2>2. CASE p = s /\ q # s
    BY <1>7, <1>8, <2>2
  <2>3. CASE p # s /\ q = s
    BY <1>7, <1>8, <2>3
  <2> QED BY <2>1, <2>2, <2>3
<1>9. \A q \in Session : crashes' = 0 /\ Live(q)' /\ runtime'[q].thread = NoThread =>
        discovery'[q].at \in {"planned", "poll", "gap"}
  BY <1>3 DEF ThreadsOK
<1> QED BY <1>4, <1>5, <1>6, <1>8, <1>9, Zenon DEF ThreadsOK

\* A launch that creates or starts a runtime of its session, with types that are
\* right.
LEMMA StartStep ==
  ASSUME IInv, NEW l \in Launch, NEW s \in Session, s = launch[l].session,
         TranscriptOf(s) = {},
         \/ launch[l].at = "start" /\ runtime[s].by = l
         \/ launch[l].at = "create" /\ runtime[s].by = NoLaunch,
         launch' \in [Launch -> LaunchRow], \A k \in Launch \ {l} : launch'[k] = launch[k],
         Progress(l), launch'[l].at \in Later,
         UNCHANGED <<source, edits, revs, task, channelLock, homes, bindings, bindingLocks>>,
         UNCHANGED <<sessions, transcripts, ending, contested, crashes>>,
         NEW x \in RuntimeRow, runtime' = [runtime EXCEPT ![s] = x],
         x.by = l, x.thread \in {s, NoThread}, x.st \in {"creating", "running", "ended"},
         NEW d \in Discovery, discovery' = [discovery EXCEPT ![s] = d],
         d.at \in {"planned", "poll"} => d.read \in [Numbers -> Nat],
         launch'[l].at = "start" => x.st = "creating" /\ d.at = "planned",
         x.st # "ended" /\ x.thread = NoThread => d.at \in {"planned", "poll"}
  PROVE  IInv'
<1>1. /\ ThreadType /\ LaunchType /\ LaunchesOK /\ CreatorsOK /\ HomesOK /\ ThreadsOK
      /\ runtime \in [Session -> RuntimeRow]
  BY IInvTypes DEF IInv
<1>2. /\ runtime' \in [Session -> RuntimeRow] /\ runtime'[s] = x
      /\ \A q \in Session \ {s} : runtime'[q] = runtime[q]
  BY <1>1
<1>3. /\ discovery' \in [Session -> Discovery] /\ discovery'[s] = d
      /\ \A q \in Session \ {s} : discovery'[q] = discovery[q]
      /\ \A q \in Session : discovery'[q].at \in {"planned", "poll"} =>
           discovery'[q].read \in [Numbers -> Nat]
  BY <1>1, DiscoverySet
<1>4. \A k \in Launch : Progress(k)
  BY DEF Progress
<1>5. SameCreators
  <2> SUFFICES ASSUME NEW q \in Session
               PROVE  \/ runtime'[q].by = runtime[q].by
                      \/ \E k \in Launch : runtime'[q].by = k /\ launch[k].at = "create"
    BY DEF SameCreators
  <2> QED BY <1>2
<1>6. StoreOK' /\ KeepsStored
  BY StoreStays, IInvTypes
<1>7. LaunchesOK' /\ HomesOK'
  BY <1>1, <1>4, <1>5, <1>6, HomesKeep
<1>8. CreatorsOK'
  <2> SUFFICES ASSUME NEW q \in Session
               PROVE  /\ runtime'[q].by \in Launch =>
                           /\ launch'[runtime'[q].by].session = q
                           /\ launch'[runtime'[q].by].at \notin Turn \cup {"none"}
                      /\ runtime'[q].st = "none" => runtime'[q].by = NoLaunch
                      /\ runtime'[q].st \in {"creating", "running"} => runtime'[q].by \in Launch
    BY DEF CreatorsOK
  <2>1. CASE q = s
    <3>1. launch'[l].session = s /\ launch'[l].at \notin Turn \cup {"none"}
      BY DEF Progress, Later, Turn, Filling
    <3> QED BY <1>2, <2>1, <3>1
  <2>2. CASE q # s
    <3>1. runtime'[q] = runtime[q]
      BY <1>2, <2>2
    <3>2. ASSUME NEW k \in Launch, runtime[q].by = k
          PROVE  launch'[k].session = q /\ launch'[k].at \notin Turn \cup {"none"}
      <4>1. launch[k].session = q /\ launch[k].at \notin Turn \cup {"none"}
        BY <1>1, <3>2 DEF CreatorsOK
      <4>2. k # l
        BY <2>2, <4>1
      <4> QED BY <4>1, <4>2
    <3> QED BY <1>1, <3>1, <3>2 DEF CreatorsOK
  <2> QED BY <2>1, <2>2
<1>9. ThreadsOK'
  <2>1. \A k \in Launch : launch[k].at = "start" => launch[k].session \in Session
    BY IInvTypes
  <2>2. launch'[l].session = s
    BY DEF Progress
  <2>3. Live(s)' /\ runtime'[s].thread = NoThread => discovery'[s].at \in {"planned", "poll"}
    BY <1>2, <1>3 DEF Live
  <2> QED BY <1>1, <1>2, <1>3, <2>1, <2>2, <2>3, RowStarts
<1>10. TypeOK'
  <2>1. StoreType' /\ ThreadType' /\ LaunchType'
    BY <1>2, <1>3 DEF IInv, TypeOK, StoreType, ThreadType, LaunchType
  <2> QED BY <2>1 DEF TypeOK
<1> QED BY <1>6, <1>7, <1>8, <1>9, <1>10 DEF IInv

LEMMA CreateRuntimeKeeps ==
  ASSUME IInv, NEW l \in Launch, NEW old \in SUBSET DOMAIN transcripts, CreateRuntime(l, old)
  PROVE  IInv'
<1>1. launch[l].at = "create" /\ launch[l].session \in Session
  BY IInvTypes DEF CreateRuntime, At
<1>2. PICK s \in Session : s = launch[l].session
  BY <1>1
<1>3. /\ UNCHANGED <<source, edits, revs, task, channelLock, homes, bindings, bindingLocks>>
      /\ UNCHANGED <<sessions, transcripts, ending, contested, crashes>>
  BY DEF CreateRuntime, storeVars
<1>4. CASE runtime[s].st # "none"
  <2>1. To(l, "undoEnd") /\ UNCHANGED <<runtime, discovery>>
    BY <1>2, <1>4 DEF CreateRuntime
  <2>2. "undoEnd" \in Places
    BY Placed DEF After
  <2>3. /\ launch' \in [Launch -> LaunchRow] /\ \A k \in Launch \ {l} : launch'[k] = launch[k]
        /\ launch'[l].at = "undoEnd" /\ launch'[l].session = launch[l].session
        /\ launch'[l].rev = launch[l].rev /\ launch'[l].left = launch[l].left
    BY <2>1, <2>2, IInvTypes, Moved
  <2>4. Progress(l) /\ launch'[l].at # "start"
    BY <1>1, <2>3 DEF Progress, After, Later
  <2> QED BY <1>3, <2>1, <2>3, <2>4, IInvTypes, MoveKeeps
<1>5. CASE runtime[s].st = "none"
  <2>1. To(l, "start")
    BY <1>2, <1>5 DEF CreateRuntime
  <2>2. "start" \in Places
    BY Placed DEF After
  <2>3. /\ launch' \in [Launch -> LaunchRow] /\ \A k \in Launch \ {l} : launch'[k] = launch[k]
        /\ launch'[l].at = "start" /\ launch'[l].session = launch[l].session
        /\ launch'[l].rev = launch[l].rev /\ launch'[l].left = launch[l].left
    BY <2>1, <2>2, IInvTypes, Moved
  <2>4. Progress(l) /\ launch'[l].at \in Later
    BY <1>1, <2>3 DEF Progress, After, Later
  <2>5. PICK t \in {s, NoThread} : t = IF NamesThread(l) THEN s ELSE NoThread
    OBVIOUS
  <2>6. PICK c \in BOOLEAN : c = (launch[l].rev # 0)
    OBVIOUS
  <2> DEFINE x == [st |-> "creating", by |-> l, adapter |-> launch[l].adapter, dir |-> launch[l].dir,
                   controlled |-> c, thread |-> t]
             d == [at |-> "planned", old |-> old, read |-> [i \in Numbers |-> 0]]
  <2>7. runtime' = [runtime EXCEPT ![s] = x] /\ discovery' = [discovery EXCEPT ![s] = d]
    BY <1>2, <1>5, <2>5, <2>6 DEF CreateRuntime, PlanDiscovery
  <2>8. x \in RuntimeRow
    <3>1. launch[l].adapter \in Adapters /\ launch[l].dir \in Dirs \cup {Idle.dir}
      BY IInvTypes, LaunchTypes
    <3> QED BY <2>5, <2>6, <3>1 DEF RuntimeRow
  <2>9. d \in Discovery /\ d.read \in [Numbers -> Nat]
    <3>1. old \in SUBSET Nat
      BY DEF IInv, TypeOK, ThreadType
    <3> QED BY <3>1 DEF Discovery
  <2>10. x.by = l /\ x.thread = t /\ x.st = "creating" /\ d.at = "planned"
    OBVIOUS
  <2> HIDE DEF x, d
  <2>11. runtime[s].by = NoLaunch
    BY <1>5, IInvTypes DEF CreatorsOK
  <2>12. TranscriptOf(s) = {}
    BY <1>5 DEF IInv, ThreadsOK
  <2> QED BY <1>1, <1>2, <1>3, <2>3, <2>4, <2>5, <2>7, <2>8, <2>9, <2>10, <2>11, <2>12, StartStep
<1> QED BY <1>4, <1>5

LEMMA HostStartedKeeps ==
  ASSUME IInv, NEW l \in Launch, NEW up \in BOOLEAN, HostStarted(l, up)
  PROVE  IInv'
<1>1. launch[l].at = "start" /\ launch[l].session \in Session
  BY IInvTypes DEF HostStarted, At
<1>2. PICK s \in Session : s = launch[l].session
  BY <1>1
<1>3. /\ runtime[s].by = l /\ runtime[s].thread \in {s, NoThread} /\ TranscriptOf(s) = {}
      /\ discovery[s].at = "planned"
  BY <1>1, <1>2 DEF IInv, ThreadsOK, StartOK
<1>4. PICK place \in {"ready", "undoEnd"} : To(l, place)
  BY DEF HostStarted
<1>5. PICK st \in {"running", "ended"} : st = IF up THEN "running" ELSE "ended"
  OBVIOUS
<1>6. /\ launch' \in [Launch -> LaunchRow] /\ \A k \in Launch \ {l} : launch'[k] = launch[k]
      /\ launch'[l].at = place /\ launch'[l].session = launch[l].session
      /\ launch'[l].rev = launch[l].rev /\ launch'[l].left = launch[l].left
  <2>1. place \in Places
    BY Placed DEF After
  <2> QED BY <1>4, <2>1, IInvTypes, Moved
<1>7. Progress(l) /\ launch'[l].at \in Later /\ launch'[l].at # "start"
  BY <1>1, <1>4, <1>6 DEF Progress, After, Later
<1>8. /\ UNCHANGED <<source, edits, revs, task, channelLock, homes, bindings, bindingLocks>>
      /\ UNCHANGED <<sessions, transcripts, ending, contested, crashes>>
  BY DEF HostStarted, storeVars
<1> DEFINE x == [runtime[s] EXCEPT !.st = st]
           p == [discovery[s] EXCEPT !.at = "poll"]
<1>9. runtime' = [runtime EXCEPT ![s] = x]
  BY <1>2, <1>5 DEF HostStarted
<1>10. runtime[s] \in RuntimeRow /\ discovery[s] \in Discovery
  BY IInvTypes, DiscoveryTypes
<1>11. x \in RuntimeRow /\ x.by = l /\ x.st = st /\ x.thread = runtime[s].thread
  BY <1>3, <1>10, Zenon DEF RuntimeRow
<1>12. p \in Discovery /\ p.at = "poll" /\ p.read = discovery[s].read
  BY <1>10, Zenon DEF Discovery
<1>13. p.read \in [Numbers -> Nat]
  <2>1. discovery[s].read \in [Numbers -> Nat]
    BY <1>3, IInvTypes DEF ThreadType
  <2> QED BY <1>12, <2>1
<1>14. discovery' = [discovery EXCEPT ![s] =
          IF up /\ runtime[s].thread = NoThread THEN p ELSE NoDiscovery]
  BY <1>2 DEF HostStarted, StartDiscovery
<1> HIDE DEF x, p
<1>15. PICK d \in Discovery : /\ discovery' = [discovery EXCEPT ![s] = d]
                              /\ d.at \in {"planned", "poll"} => d.read \in [Numbers -> Nat]
                              /\ up /\ runtime[s].thread = NoThread => d.at = "poll"
  <2>1. NoDiscovery \in Discovery /\ NoDiscovery.at = "no"
    BY IInvTypes, DiscoveryTypes
  <2>2. CASE up /\ runtime[s].thread = NoThread
    BY <1>12, <1>13, <1>14, <2>2
  <2>3. CASE ~(up /\ runtime[s].thread = NoThread)
    BY <1>14, <2>1, <2>3
  <2> QED BY <2>2, <2>3
<1>16. x.st # "ended" /\ x.thread = NoThread => d.at \in {"planned", "poll"}
  BY <1>5, <1>11, <1>15
<1>17. /\ x.by = l /\ x.thread \in {s, NoThread} /\ x.st \in {"creating", "running", "ended"}
       /\ launch'[l].at = "start" => x.st = "creating" /\ d.at = "planned"
  BY <1>3, <1>5, <1>7, <1>11
<1> QED BY <1>1, <1>2, <1>3, <1>6, <1>7, <1>8, <1>9, <1>11, <1>15, <1>16, <1>17, StartStep

-----------------------------------------------------------------------------
(* Transcripts grow, and are found.                                        *)

\* Transcripts of session s, which has been running, grow, and nothing else
\* happens.
LEMMA TranscriptsGrow ==
  ASSUME IInv, NEW s \in Session, runtime[s].st = "running" \/ TranscriptOf(s) # {},
         UNCHANGED <<source, edits, revs, task, channelLock, homes, bindings, bindingLocks>>,
         UNCHANGED <<launch, sessions, runtime, discovery, ending, contested, crashes>>,
         transcripts' \in Seq(Transcript),
         \A q \in Session \ {s} : TranscriptOf(q)' = TranscriptOf(q),
         \A q \in Session : TranscriptOf(q) \subseteq TranscriptOf(q)',
         \A i \in DOMAIN transcripts, q \in Session : Shows(i, q) => Shows(i, q)'
  PROVE  IInv'
<1>1. LaunchType /\ LaunchesOK /\ CreatorsOK /\ HomesOK /\ ThreadsOK /\ ThreadType
  BY IInvTypes DEF IInv
<1>2. StoreOK' /\ KeepsStored /\ SameCreators
  BY StoreStays, IInvTypes DEF SameCreators
<1>3. LaunchesOK' /\ HomesOK' /\ CreatorsOK'
  BY <1>1, <1>2, LaunchesStay, HomesKeep, CreatorsKeep
<1>4. \A q \in Session : Live(q)' <=> Live(q)
  BY DEF Live
<1>5. ASSUME NEW k \in Launch, launch[k].at = "start" PROVE StartOK(k)'
  <2>1. PICK q \in Session : q = launch[k].session
    BY <1>5, IInvTypes
  <2>2. StartOK(k)
    BY <1>1 DEF ThreadsOK
  <2>3. /\ runtime[q].by = k /\ runtime[q].st \in {"creating", "ended"}
        /\ runtime[q].thread \in {q, NoThread} /\ TranscriptOf(q) = {}
        /\ discovery[q].at = "planned"
    BY <1>5, <2>1, <2>2, Zenon DEF StartOK
  <2>4. q # s
    BY <2>3
  <2>5. TranscriptOf(q)' = {}
    BY <2>3, <2>4
  <2> QED BY <2>1, <2>3, <2>5, Zenon DEF StartOK
<1>6. \A k \in Launch : StartOK(k)'
  BY <1>5 DEF StartOK
<1>7. \A q \in Session : TranscriptOf(q)' # {} => runtime'[q].st \in {"running", "ended"}
  BY <1>1 DEF ThreadsOK
<1>8. ASSUME NEW q \in Session, runtime'[q].thread \notin {q, NoThread}
      PROVE  \E i \in TranscriptOf(runtime[q].thread)' : Shows(i, q)'
  <2>1. PICK i \in TranscriptOf(runtime[q].thread) : Shows(i, q)
    BY <1>1, <1>8, Zenon DEF ThreadsOK
  <2>2. runtime[q].thread \in Session
    BY <1>1, <1>8 DEF ThreadType, RuntimeRow
  <2>3. i \in TranscriptOf(runtime[q].thread)'
    BY <2>1, <2>2
  <2>4. i \in DOMAIN transcripts
    BY <2>1 DEF TranscriptOf
  <2> QED BY <2>1, <2>3, <2>4
<1>9. \A p, q \in Session : Live(p)' /\ Live(q)' /\ runtime'[p].thread = runtime'[q].thread =>
        p = q \/ runtime'[p].thread = NoThread
  BY <1>1, <1>4 DEF ThreadsOK
<1>10. \A q \in Session : crashes' = 0 /\ Live(q)' /\ runtime'[q].thread = NoThread =>
         discovery'[q].at \in {"planned", "poll", "gap"}
  BY <1>1, <1>4 DEF ThreadsOK
<1>11. ThreadsOK'
  BY <1>6, <1>7, <1>8, <1>9, <1>10, Zenon DEF ThreadsOK
<1>12. TypeOK'
  <2>1. StoreType' /\ ThreadType' /\ LaunchType'
    BY DEF IInv, TypeOK, StoreType, ThreadType, LaunchType
  <2> QED BY <2>1 DEF TypeOK
<1> QED BY <1>2, <1>3, <1>11, <1>12 DEF IInv

LEMMA BeginKeeps ==
  ASSUME IInv, NEW s \in Session, BeginTranscript(s), UNCHANGED <<storeVars, launchVars>>
  PROVE  IInv'
<1>1. /\ UNCHANGED <<source, edits, revs, task, channelLock, homes, bindings, bindingLocks>>
      /\ UNCHANGED <<launch, sessions, runtime, discovery, ending, contested, crashes>>
      /\ runtime[s].st = "running" /\ transcripts \in Seq(Transcript)
  BY DEF BeginTranscript, storeVars, launchVars, IInv, TypeOK, ThreadType
<1>2. PICK t \in Transcript : t.of = s /\ transcripts' = Append(transcripts, t)
  <2>1. [of |-> s, text |-> <<>>] \in Transcript
    BY DEF Transcript
  <2> QED BY <2>1 DEF BeginTranscript
<1>3. /\ transcripts' \in Seq(Transcript) /\ DOMAIN transcripts \subseteq DOMAIN transcripts'
      /\ \A i \in DOMAIN transcripts : transcripts'[i] = transcripts[i]
      /\ \A i \in DOMAIN transcripts' \ DOMAIN transcripts : transcripts'[i] = t
  BY <1>1, <1>2
<1>4. \A q \in Session \ {s} : TranscriptOf(q)' = TranscriptOf(q)
  BY <1>2, <1>3 DEF TranscriptOf
<1>5. \A q \in Session : TranscriptOf(q) \subseteq TranscriptOf(q)'
  BY <1>3 DEF TranscriptOf
<1>6. \A i \in DOMAIN transcripts, q \in Session : Shows(i, q) => Shows(i, q)'
  BY <1>3 DEF Shows
<1> QED BY <1>1, <1>3, <1>4, <1>5, <1>6, TranscriptsGrow

LEMMA WriteKeeps ==
  ASSUME IInv, NEW s \in Session, NEW named \in SUBSET Session, WriteTranscript(s, named),
         UNCHANGED <<storeVars, launchVars>>
  PROVE  IInv'
<1>1. /\ UNCHANGED <<source, edits, revs, task, channelLock, homes, bindings, bindingLocks>>
      /\ UNCHANGED <<launch, sessions, runtime, discovery, ending, contested, crashes>>
      /\ transcripts \in Seq(Transcript)
  BY DEF WriteTranscript, storeVars, launchVars, IInv, TypeOK, ThreadType
<1>2. PICK i \in TranscriptOf(s) :
        transcripts' = [transcripts EXCEPT ![i].text = Append(@, named)]
  BY DEF WriteTranscript
<1>3. i \in DOMAIN transcripts /\ transcripts[i] \in Transcript
  BY <1>1, <1>2 DEF TranscriptOf
<1>4. transcripts[i].text \in Seq(SUBSET Session)
  BY <1>3 DEF Transcript
<1>5. PICK text \in Seq(SUBSET Session) : text = Append(transcripts[i].text, named)
  <2>1. ASSUME NEW S, NEW e \in S, NEW u \in Seq(S) PROVE Append(u, e) \in Seq(S)
    OBVIOUS
  <2>2. Append(transcripts[i].text, named) \in Seq(SUBSET Session)
    BY <1>4, <2>1
  <2> QED BY <2>2
<1> DEFINE t == [transcripts[i] EXCEPT !.text = text]
<1>6. transcripts' = [transcripts EXCEPT ![i] = t]
  BY <1>2, <1>3, <1>5
<1>7. t \in Transcript /\ t.of = transcripts[i].of /\ t.text = text
  BY <1>3, Zenon DEF Transcript
<1> HIDE DEF t
<1>8. /\ transcripts' \in Seq(Transcript) /\ DOMAIN transcripts' = DOMAIN transcripts
      /\ transcripts'[i] = t /\ \A j \in DOMAIN transcripts \ {i} : transcripts'[j] = transcripts[j]
  BY <1>1, <1>3, <1>6, <1>7
<1>9. \A q \in Session : TranscriptOf(q)' = TranscriptOf(q)
  BY <1>7, <1>8 DEF TranscriptOf
<1>10. \A k \in DOMAIN transcripts[i].text :
         k \in DOMAIN text /\ text[k] = transcripts[i].text[k]
  BY <1>4, <1>5
<1>11. ASSUME NEW j \in DOMAIN transcripts, NEW q \in Session, Shows(j, q)
       PROVE  Shows(j, q)'
  <2>1. CASE j = i
    <3>1. PICK k \in DOMAIN transcripts[i].text : q \in transcripts[i].text[k]
      BY <1>11, <2>1 DEF Shows
    <3>2. transcripts'[i].text = text
      BY <1>7, <1>8
    <3>3. k \in DOMAIN transcripts'[i].text /\ q \in transcripts'[i].text[k]
      BY <1>10, <3>1, <3>2
    <3> QED BY <2>1, <3>3 DEF Shows
  <2>2. CASE j # i
    <3>1. transcripts'[j] = transcripts[j]
      BY <1>8, <2>2
    <3> QED BY <1>11, <3>1 DEF Shows
  <2> QED BY <2>1, <2>2
<1>12. TranscriptOf(s) # {}
  BY <1>2
<1> QED BY <1>1, <1>8, <1>9, <1>11, <1>12, TranscriptsGrow

LEMMA MinOfTwo ==
  ASSUME NEW a \in Nat, NEW b \in Nat
  PROVE  Min({a, b}) \in Nat
<1>1. \E x \in {a, b} : \A y \in {a, b} : x <= y
  BY a <= b \/ b <= a
<1> QED BY <1>1 DEF Min

\* A poll that finds nothing.
LEMMA PollKeeps ==
  ASSUME IInv, NEW s \in Session, NEW free, UNCHANGED <<storeVars, launchVars>>,
         discovery[s].at = "poll",
         discovery' = [discovery EXCEPT ![s].read = [i \in Numbers |->
            IF i \in free THEN Min({@[i] + 1, Len(transcripts[i].text)}) ELSE @[i]]],
         free \subseteq DOMAIN transcripts, UNCHANGED <<runtime, transcripts>>
  PROVE  IInv'
<1>1. UNCHANGED <<source, edits, revs, task, channelLock, homes, bindings, bindingLocks,
                 launch, sessions, ending, contested, crashes, runtime, transcripts>>
  BY DEF storeVars, launchVars
<1>2. /\ discovery[s] \in Discovery /\ discovery[s].read \in [Numbers -> Nat]
      /\ transcripts \in Seq(Transcript)
  BY IInvTypes, DiscoveryTypes DEF ThreadType
<1>3. PICK read \in [Numbers -> Nat] : read = [i \in Numbers |->
        IF i \in free THEN Min({discovery[s].read[i] + 1, Len(transcripts[i].text)})
        ELSE discovery[s].read[i]]
  <2>1. ASSUME NEW i \in Numbers
        PROVE  (IF i \in free THEN Min({discovery[s].read[i] + 1, Len(transcripts[i].text)})
                ELSE discovery[s].read[i]) \in Nat
    <3>1. discovery[s].read[i] \in Nat
      BY <1>2
    <3>2. CASE i \in free
      <4>1. transcripts[i].text \in Seq(SUBSET Session)
        <5>1. transcripts[i] \in Transcript
          BY <1>2, <3>2
        <5> QED BY <5>1 DEF Transcript
      <4>2. Len(transcripts[i].text) \in Nat /\ discovery[s].read[i] + 1 \in Nat
        BY <3>1, <4>1
      <4>3. Min({discovery[s].read[i] + 1, Len(transcripts[i].text)}) \in Nat
        BY <4>2, MinOfTwo
      <4> QED BY <3>2, <4>3
    <3>3. CASE i \notin free
      BY <3>1, <3>3
    <3> QED BY <3>2, <3>3
  <2> QED BY <2>1
<1> DEFINE d == [discovery[s] EXCEPT !.read = read]
<1>4. discovery' = [discovery EXCEPT ![s] = d]
  <2>1. discovery' = [discovery EXCEPT ![s].read = read]
    BY <1>3
  <2> QED BY <2>1
<1>5. d \in Discovery /\ d.at = "poll" /\ d.read = read
  <2>1. read \in [Numbers -> Nat] \cup {<<>>}
    OBVIOUS
  <2> QED BY <1>2, <2>1, Zenon DEF Discovery
<1> HIDE DEF d
<1>6. /\ discovery' \in [Session -> Discovery] /\ discovery'[s] = d
      /\ \A q \in Session \ {s} : discovery'[q] = discovery[q]
      /\ \A q \in Session : discovery'[q].at \in {"planned", "poll"} =>
           discovery'[q].read \in [Numbers -> Nat]
  BY <1>4, <1>5, IInvTypes, DiscoverySet
<1>7. \A q \in Session : discovery'[q].at = discovery[q].at
  BY <1>5, <1>6
<1>8. StoreOK' /\ KeepsStored
  BY <1>1, StoreStays, IInvTypes
<1>9. TypeOK'
  <2>1. StoreType' /\ ThreadType' /\ LaunchType'
    BY <1>1, <1>6 DEF IInv, TypeOK, StoreType, ThreadType, LaunchType
  <2> QED BY <2>1 DEF TypeOK
<1> QED BY <1>1, <1>7, <1>8, <1>9, LaunchesStay, RowsStay, QuietStep

\* What is looked at is there.
LEMMA CandidatesAre ==
  ASSUME ThreadType, NEW s \in Session
  PROVE  Candidates(s) \subseteq DOMAIN transcripts
<1>1. Recent(s) \subseteq DOMAIN transcripts
  BY DEF Recent
<1>2. /\ ListTranscripts(s) \subseteq Recent(s) /\ ListGeminiSessionCandidates(s) \subseteq Recent(s)
      /\ ListAgySessionCandidates(s) \subseteq Recent(s) /\ ListGrokSessionCandidates(s) \subseteq Recent(s)
  BY DEF ListTranscripts, ListGeminiSessionCandidates, ListAgySessionCandidates, ListGrokSessionCandidates
<1>3. runtime[s].adapter \in Adapters
  BY DEF ThreadType, RuntimeRow
<1>4. CASE runtime[s].adapter \in {"claude", "codex"}
  BY <1>1, <1>2, <1>4 DEF Candidates
<1>5. CASE runtime[s].adapter = "gemini"
  BY <1>1, <1>2, <1>5 DEF Candidates
<1>6. CASE runtime[s].adapter = "agy"
  BY <1>1, <1>2, <1>6 DEF Candidates
<1>7. CASE runtime[s].adapter = "grok"
  BY <1>1, <1>2, <1>7 DEF Candidates
<1> QED BY <1>3, <1>4, <1>5, <1>6, <1>7 DEF Adapters

\* A conversation is claimed: it is free, and shows the id of the session.
LEMMA ClaimKeeps ==
  ASSUME IInv, NEW s \in Session, NEW i \in DOMAIN transcripts, UNCHANGED <<storeVars, launchVars>>,
         discovery[s].at = "poll", runtime[s].thread = NoThread, Live(s), Shows(i, s),
         ~ProviderThreadHolder(transcripts[i].of, s),
         runtime' = [runtime EXCEPT ![s].thread = transcripts[i].of],
         discovery' = [discovery EXCEPT ![s] = [NoDiscovery EXCEPT !.at = "found"]],
         UNCHANGED transcripts
  PROVE  IInv'
<1>1. UNCHANGED <<source, edits, revs, task, channelLock, homes, bindings, bindingLocks,
                 launch, sessions, ending, contested, crashes, transcripts>>
  BY DEF storeVars, launchVars
<1>2. /\ ThreadType /\ LaunchType /\ LaunchesOK /\ CreatorsOK /\ HomesOK /\ ThreadsOK
      /\ runtime \in [Session -> RuntimeRow] /\ runtime[s] \in RuntimeRow
  BY IInvTypes DEF IInv
<1>3. PICK t \in Session : t = transcripts[i].of
  <2>1. transcripts[i] \in Transcript
    BY <1>2 DEF ThreadType
  <2> QED BY <2>1 DEF Transcript
<1> DEFINE x == [runtime[s] EXCEPT !.thread = t]
           d == [NoDiscovery EXCEPT !.at = "found"]
<1>4. x \in RuntimeRow /\ x.thread = t /\ x.st = runtime[s].st /\ x.by = runtime[s].by
  <2>1. t \in Session \cup {NoThread}
    OBVIOUS
  <2> QED BY <1>2, <2>1, Zenon DEF RuntimeRow
<1>5. d \in Discovery /\ d.at = "found"
  <2>1. NoDiscovery \in Discovery
    BY IInvTypes, DiscoveryTypes
  <2> QED BY <2>1, Zenon DEF Discovery
<1>6. runtime' = [runtime EXCEPT ![s] = x] /\ discovery' = [discovery EXCEPT ![s] = d]
  BY <1>3
<1> HIDE DEF x, d
<1>7. /\ runtime' \in [Session -> RuntimeRow] /\ runtime'[s] = x
      /\ \A q \in Session \ {s} : runtime'[q] = runtime[q]
  BY <1>2, <1>4, <1>6
<1>8. /\ discovery' \in [Session -> Discovery] /\ discovery'[s] = d
      /\ \A q \in Session \ {s} : discovery'[q] = discovery[q]
      /\ \A q \in Session : discovery'[q].at \in {"planned", "poll"} =>
           discovery'[q].read \in [Numbers -> Nat]
  BY <1>2, <1>5, <1>6, DiscoverySet
<1>9. \A q \in Session : runtime'[q].by = runtime[q].by /\ runtime'[q].st = runtime[q].st
  BY <1>4, <1>7
<1>10. StoreOK' /\ KeepsStored /\ SameCreators
  BY <1>1, <1>9, StoreStays, IInvTypes DEF SameCreators
<1>11. LaunchesOK' /\ HomesOK' /\ CreatorsOK'
  BY <1>1, <1>2, <1>9, <1>10, LaunchesStay, HomesKeep, CreatorsKeep
<1>12. \A q : TranscriptOf(q)' = TranscriptOf(q)
  BY <1>1 DEF TranscriptOf
<1>13. \A j, q : Shows(j, q)' <=> Shows(j, q)
  BY <1>1 DEF Shows
<1>14. \A q \in Session : Live(q)' <=> Live(q)
  BY <1>9 DEF Live
<1>15. ASSUME NEW k \in Launch, launch[k].at = "start" PROVE StartOK(k)'
  <2>1. PICK q \in Session : q = launch[k].session
    BY <1>15, IInvTypes
  <2>2. StartOK(k)
    BY <1>2 DEF ThreadsOK
  <2>3. q # s
    BY <1>15, <2>1, <2>2 DEF StartOK
  <2>4. runtime'[q] = runtime[q] /\ discovery'[q] = discovery[q]
    BY <1>7, <1>8, <2>3
  <2> QED BY <1>1, <1>12, <2>1, <2>2, <2>4 DEF StartOK
<1>16. \A k \in Launch : StartOK(k)'
  BY <1>1, <1>15 DEF StartOK
<1>17. \A q \in Session : TranscriptOf(q)' # {} => runtime'[q].st \in {"running", "ended"}
  BY <1>2, <1>9, <1>12 DEF ThreadsOK
<1>18. ASSUME NEW q \in Session, runtime'[q].thread \notin {q, NoThread}
       PROVE  \E j \in TranscriptOf(runtime'[q].thread) : Shows(j, q)
  <2>1. CASE q = s
    <3>1. runtime'[q].thread = t /\ i \in TranscriptOf(t)
      BY <1>3, <1>4, <1>7, <2>1 DEF TranscriptOf
    <3> QED BY <2>1, <3>1
  <2>2. CASE q # s
    <3>1. runtime'[q].thread = runtime[q].thread
      BY <1>7, <2>2
    <3> QED BY <1>2, <1>18, <3>1 DEF ThreadsOK
  <2> QED BY <2>1, <2>2
<1>19. \A q \in Session \ {s} : Live(q) => runtime[q].thread # t
  BY <1>3 DEF ProviderThreadHolder
<1>20. ASSUME NEW p \in Session, NEW q \in Session, Live(p)', Live(q)',
              runtime'[p].thread = runtime'[q].thread
       PROVE  p = q \/ runtime'[p].thread = NoThread
  <2>1. CASE p # s /\ q # s
    BY <1>2, <1>7, <1>14, <1>20, <2>1 DEF ThreadsOK
  <2>2. CASE p = s /\ q # s
    BY <1>4, <1>7, <1>14, <1>19, <1>20, <2>2
  <2>3. CASE p # s /\ q = s
    BY <1>4, <1>7, <1>14, <1>19, <1>20, <2>3
  <2> QED BY <2>1, <2>2, <2>3
<1>21. ASSUME NEW q \in Session, crashes' = 0, Live(q)', runtime'[q].thread = NoThread
       PROVE  discovery'[q].at \in {"planned", "poll", "gap"}
  <2>1. q # s
    BY <1>4, <1>7, <1>21, NoThreadAssumption
  <2> QED BY <1>1, <1>2, <1>7, <1>8, <1>14, <1>21, <2>1 DEF ThreadsOK
<1>22. ASSUME NEW q \in Session, runtime'[q].thread \notin {q, NoThread}
       PROVE  \E j \in TranscriptOf(runtime[q].thread)' : Shows(j, q)'
  <2>1. PICK j \in TranscriptOf(runtime'[q].thread) : Shows(j, q)
    BY <1>18, <1>22
  <2>2. j \in TranscriptOf(runtime[q].thread)'
    BY <1>1, <2>1 DEF TranscriptOf
  <2> QED BY <1>13, <2>1, <2>2
<1>23. ThreadsOK'
  BY <1>16, <1>17, <1>20, <1>21, <1>22, Zenon DEF ThreadsOK
<1>24. TypeOK'
  <2>1. StoreType' /\ ThreadType' /\ LaunchType'
    BY <1>1, <1>7, <1>8 DEF IInv, TypeOK, StoreType, ThreadType, LaunchType
  <2> QED BY <2>1 DEF TypeOK
<1> QED BY <1>10, <1>11, <1>23, <1>24 DEF IInv

LEMMA DiscoverKeeps ==
  ASSUME IInv, NEW s \in Session, DiscoverProviderThreadId(s), UNCHANGED <<storeVars, launchVars>>
  PROVE  IInv'
<1> DEFINE free == {i \in Candidates(s) : ~ProviderThreadHolder(transcripts[i].of, s)}
<1>1. /\ discovery[s].at = "poll" /\ runtime[s].thread = NoThread /\ Live(s)
      /\ UNCHANGED transcripts
  BY DEF DiscoverProviderThreadId, KeepPolling
<1>2. free \subseteq DOMAIN transcripts
  BY IInvTypes, CandidatesAre
<1>3. CASE /\ UNCHANGED runtime
           /\ discovery' = [discovery EXCEPT ![s].read = [i \in Numbers |->
                IF i \in free THEN Min({@[i] + 1, Len(transcripts[i].text)}) ELSE @[i]]]
  <2> HIDE DEF free
  <2> QED BY <1>1, <1>2, <1>3, PollKeeps
<1>4. CASE \E i \in free :
             /\ FileContainsMarker(i, s)
             /\ runtime' = [runtime EXCEPT ![s].thread = transcripts[i].of]
             /\ discovery' = [discovery EXCEPT ![s] = [NoDiscovery EXCEPT !.at = "found"]]
  <2>1. PICK i \in free :
             /\ FileContainsMarker(i, s)
             /\ runtime' = [runtime EXCEPT ![s].thread = transcripts[i].of]
             /\ discovery' = [discovery EXCEPT ![s] = [NoDiscovery EXCEPT !.at = "found"]]
    BY <1>4
  <2>2. i \in DOMAIN transcripts /\ ~ProviderThreadHolder(transcripts[i].of, s)
    BY <1>2, <2>1
  <2>3. Shows(i, s)
    BY <2>1 DEF FileContainsMarker, Shows
  <2> HIDE DEF free
  <2> QED BY <1>1, <2>1, <2>2, <2>3, ClaimKeeps
<1> QED BY <1>3, <1>4, Zenon DEF DiscoverProviderThreadId

-----------------------------------------------------------------------------
(* The invariant of the specification, and what follows from it.           *)

LEMMA InitKeeps ==
  ASSUME Init
  PROVE  IInv
<1>1. /\ \A r \in RevIds : revs[r] = NoRevision
      /\ \A p \in Procs : task[p] = NoTask
      /\ \A s \in Session : homes[s] = NoHome
      /\ \A l \in Launch : launch[l] = Idle
      /\ transcripts = <<>> /\ contested = {}
      /\ \A s \in Session : discovery[s] = NoDiscovery
  BY DEF Init, StoreInit
<1>2. StoreType
  <2>1. source \in Folder
    BY DEF Init, StoreInit, Folder, Contents
  <2>2. /\ revs \in [RevIds -> Revision] /\ task \in [Procs -> Task]
        /\ homes \in [Session -> Home]
    BY Constants1 DEF Init, StoreInit
  <2>3. bindings \in [Session -> 0 .. MaxRevisions]
    BY StoreAssumption DEF Init, StoreInit
  <2>4. edits \in Nat /\ channelLock \in BOOLEAN /\ bindingLocks \subseteq Session
    BY DEF Init, StoreInit
  <2> QED BY <2>1, <2>2, <2>3, <2>4 DEF StoreType
<1>3. ThreadType
  <2>1. NoDiscovery \in Discovery /\ NoDiscovery.at = "no"
    BY DEF NoDiscovery, Discovery
  <2>2. runtime \in [Session -> RuntimeRow]
    BY DEF Init, RuntimeRow, Adapters
  <2>3. transcripts \in Seq(Transcript)
    BY <1>1
  <2>4. discovery \in [Session -> Discovery]
    BY <2>1 DEF Init
  <2> QED BY <1>1, <2>1, <2>2, <2>3, <2>4 DEF ThreadType
<1>4. Idle \in LaunchRow /\ Idle.at = "none" /\ Idle.rev = 0
  BY StoreAssumption DEF Idle, LaunchRow, Places, Adapters
<1>5. LaunchType
  BY <1>4 DEF Init, LaunchType
<1>6. StoreOK
  <2>1. Begun = 0
    <3>1. 0 \in 0 .. MaxRevisions /\ \A r \in RevIds : revs[r].st # "none" <=> r <= 0
      BY <1>1, Constants1, StoreAssumption DEF RevIds
    <3> QED BY <3>1, BegunIs DEF Begun
  <2>2. IdsOK
    BY <1>1, <2>1, Constants1, StoreAssumption DEF IdsOK, RevIds
  <2>3. StoredOK
    BY <1>1, Constants1 DEF StoredOK
  <2>4. (\A p \in Procs : TaskOK(p)) /\ OwnTasks
    BY <1>1, Constants1 DEF TaskOK, OwnTasks
  <2> QED BY <2>2, <2>3, <2>4 DEF StoreOK
<1>7. LaunchesOK
  BY <1>1, <1>4 DEF LaunchesOK, Filling
<1>8. \A s \in Session : /\ runtime[s].st = "none" /\ runtime[s].by = NoLaunch
                         /\ runtime[s].thread = NoThread
  BY DEF Init
<1>9. CreatorsOK
  BY <1>8, LaunchAssumption DEF CreatorsOK, Launch
<1>10. HomesOK
  BY <1>1, <1>4 DEF HomesOK, Uncontested
<1>11. ThreadsOK
  <2>1. \A s : TranscriptOf(s) = {}
    BY <1>1 DEF TranscriptOf
  <2>2. \A l \in Launch : StartOK(l)
    BY <1>1, <1>4 DEF StartOK
  <2>3. \A s \in Session : ~Live(s)
    BY <1>8 DEF Live
  <2> QED BY <1>8, <2>1, <2>2, <2>3 DEF ThreadsOK
<1> QED BY <1>2, <1>3, <1>5, <1>6, <1>7, <1>9, <1>10, <1>11 DEF IInv, TypeOK

LEMMA NextKeeps ==
  ASSUME IInv, Next
  PROVE  IInv'
<1>1. CASE \/ \E p \in Procs : CreateRevision(p)
           \/ \E f \in Files, content \in Contents : EditSource(f, content)
  BY <1>1, WriterKeeps
<1>2. CASE \E l \in Launch, s \in Session, r \in 0 .. MaxRevisions, a \in AdapterKinds, d \in Dirs :
             LaunchSession(l, s, r, a, d) \/ LaunchFromCLI(l, s, r, a, d)
  BY <1>2, PrepareKeeps
<1>3. CASE \E l \in Launch : LaunchStep(l) \/ PromptDeadline(l)
  <2>1. PICK l \in Launch : LaunchStep(l) \/ PromptDeadline(l)
    BY <1>3
  <2>2. CASE PromptDeadline(l)
    BY <2>2, DeadlineKeeps
  <2>3. CASE MakeHome(l) \/ FillHome(l) \/ LinkAuth(l) \/ LockBinding(l)
    BY <2>3, MakeKeeps, FillKeeps, LinkKeeps, LockKeeps
  <2>4. CASE \/ HomeFails(l) \/ AttemptPrompt(l) \/ PromptAccepted(l) \/ PromptNotAccepted(l)
             \/ \E outcome \in DrainOutcomes : ProviderReady(l, outcome)
    BY <2>4, PlainKeeps
  <2>5. CASE Register(l) \/ UndoSession(l)
    BY <2>5, SessionRowKeeps
  <2>6. CASE \E old \in SUBSET DOMAIN transcripts : CreateRuntime(l, old)
    BY <2>6, CreateRuntimeKeeps
  <2>7. CASE \E ok \in BOOLEAN : PersistBinding(l, ok) \/ HostStarted(l, ok) \/ UndoRuntime(l, ok)
    BY <2>7, PersistKeeps, HostStartedKeeps, UndoRuntimeKeeps
  <2> QED BY <2>1, <2>2, <2>3, <2>4, <2>5, <2>6, <2>7 DEF LaunchStep
<1>4. CASE \E s \in Session : EndManagedSession(s) \/ TerminateListed(s) \/ EndListed(s)
  BY <1>4, EndKeeps
<1>5. CASE \E s \in Session : ThreadStep(s)
  BY <1>5, BeginKeeps, WriteKeeps, DiscoverKeeps, GapKeeps DEF ThreadStep
<1>6. CASE CrashDaemon \/ CrashCli
  BY <1>6, CrashDaemonKeeps, CrashCliKeeps
<1> QED BY <1>1, <1>2, <1>3, <1>4, <1>5, <1>6 DEF Next

LEMMA StutterKeeps ==
  ASSUME IInv, UNCHANGED vars
  PROVE  IInv'
<1>1. UNCHANGED <<source, edits, revs, task, channelLock, homes, bindings, bindingLocks,
                 runtime, transcripts, discovery, launch, sessions, ending, contested, crashes>>
  BY DEF vars
<1>2. StoreOK' /\ KeepsStored
  BY <1>1, StoreStays, IInvTypes
<1>3. TypeOK'
  <2>1. StoreType' /\ ThreadType' /\ LaunchType'
    BY <1>1 DEF IInv, TypeOK, StoreType, ThreadType, LaunchType
  <2> QED BY <2>1 DEF TypeOK
<1> QED BY <1>1, <1>2, <1>3, LaunchesStay, RowsStay, QuietStep

\* The inductive invariant of launches, profiles and conversations.
THEOREM Invariant == Spec => []IInv
<1>1. Init => IInv
  BY InitKeeps
<1>2. IInv /\ [Next]_vars => IInv'
  BY NextKeeps, StutterKeeps
<1> QED BY <1>1, <1>2, PTL DEF Spec

\* Revisions, homes, runtime rows, transcripts and launches keep their type.
THEOREM TypeCorrect == Spec => []TypeOK
<1>1. IInv => TypeOK
  BY DEF IInv
<1> QED BY <1>1, Invariant, PTL

\* In every state a stored revision in which no file is above the limit of
\* readOwnerFile is complete and has the bytes that its profile.json records, so
\* it is never the one at which a listing throws: for any number of edits,
\* writers that interleave, errors and crashes.
THEOREM StoredAlwaysVerifies == Spec => []StoredVerifies
<1>1. IInv => StoredVerifies
  BY StoredMeans DEF IInv, TypeOK
<1> QED BY <1>1, Invariant, PTL

\* What runs in a controlled home has the files of its launch's revision, and
\* the binding of a daemon launch is that revision.
LEMMA PinnedMeans ==
  ASSUME IInv
  PROVE  RunsAsPinned
<1> SUFFICES ASSUME NEW s \in Session, runtime[s].st = "running",
                    launch[runtime[s].by].rev # 0, s \notin contested
             PROVE  /\ homes[s].linked
                    /\ homes[s].copy = revs[launch[runtime[s].by].rev].copy
                    /\ InDaemon(runtime[s].by) => bindings[s] = launch[runtime[s].by].rev
  BY DEF RunsAsPinned
<1>1. PICK l \in Launch : l = runtime[s].by
  BY IInvTypes DEF CreatorsOK
<1>2. launch[l].session = s /\ launch[l].at \notin Turn \cup {"none"}
  BY <1>1, IInvTypes DEF CreatorsOK
<1>3. Uncontested(l) /\ Uses(l)
  BY <1>1, <1>2 DEF Uncontested, Uses
<1>4. HomeOK(l)
  BY <1>3 DEF IInv, HomesOK
<1>5. launch[l].at \notin {"fill", "link", "bind", "binding"}
  BY <1>2 DEF Turn, Filling
<1>6. /\ homes[s].linked /\ \A f \in Files : homes[s].copy[f] = revs[launch[l].rev].copy[f]
      /\ InDaemon(l) => bindings[s] = launch[l].rev
  BY <1>2, <1>3, <1>4, <1>5 DEF HomeOK
<1>7. launch[l].rev \in RevIds
  BY <1>1, IInvTypes, LaunchTypes, StoreAssumption DEF RevIds
<1>8. homes[s].copy \in Folder /\ revs[launch[l].rev].copy \in Folder
  BY <1>7, IInvTypes, HomeTypes, RevisionTypes
<1> QED BY <1>1, <1>6, <1>8 DEF Folder

\* A provider never runs on a home that a failed launch, an edit of the skill or
\* another revision has shown through, unless two processes were filling it.
THEOREM PinnedRuns == Spec => []RunsAsPinned
<1>1. IInv => RunsAsPinned
  BY PinnedMeans
<1> QED BY <1>1, Invariant, PTL

LEMMA ThreadsMean ==
  ASSUME IInv
  PROVE  ThreadsAreOwn
<1>1. ThreadsOK
  BY DEF IInv
<1>2. HoldersAreNamed
  <2> SUFFICES ASSUME NEW s \in Session, Live(s), runtime[s].thread # NoThread
               PROVE  /\ \A q \in Session \ {s} : Live(q) => runtime[q].thread # runtime[s].thread
                      /\ \/ runtime[s].thread = s
                         \/ \E i \in TranscriptOf(runtime[s].thread) : Shows(i, s)
    BY DEF HoldersAreNamed
  <2> QED BY <1>1 DEF ThreadsOK
<1>3. ASSUME NEW s \in Session, NEW q \in ResolveRoomsIdentity({}, s)
      PROVE  q = s \/ \E i \in TranscriptOf(s) : Shows(i, q)
  <2>1. q \in Session /\ runtime[q].thread = s
    BY <1>3 DEF ResolveRoomsIdentity, ActiveSessionsOfThread
  <2>2. s # NoThread
    BY NoThreadAssumption
  <2> QED BY <1>1, <2>1, <2>2 DEF ThreadsOK
<1>4. ASSUME NEW s \in Session, crashes = 0, ProviderIdentityState(s) = "pending"
      PROVE  discovery[s].at \in {"planned", "poll"}
  <2>1. runtime[s].thread = NoThread /\ discovery[s].at # "gap" /\ Live(s)
    BY <1>4 DEF ProviderIdentityState
  <2> QED BY <1>1, <1>4, <2>1 DEF ThreadsOK
<1> QED BY <1>2, <1>3, <1>4 DEF ThreadsAreOwn

\* Conversations are never swapped or shared by live runtimes, whatever the
\* order in which transcripts appear and polls look; a tool that knows only a
\* conversation acts for the session that is named in it; and nobody is told to
\* wait for one that is no longer looked for, until a daemon dies.
THEOREM ThreadsNotSwapped == Spec => []ThreadsAreOwn
<1>1. IInv => ThreadsAreOwn
  BY ThreadsMean
<1> QED BY <1>1, Invariant, PTL
=============================================================================
