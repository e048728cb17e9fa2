---------------------------- MODULE ProfileStore ----------------------------
(***************************************************************************)
(* Channel profiles on disk: the immutable revisions under                 *)
(* profiles/revisions, written by the daemon and by `rooms profile create` *)
(* while the skill folder they copy may be edited; the controlled homes    *)
(* made from a revision; and the session bindings.  A process may die at   *)
(* every step, and nothing cleans up after it.                             *)
(***************************************************************************)
EXTENDS Naturals, FiniteSets, FiniteSetsExt

CONSTANTS Session,         \* session ids that are launched
          MaxRevisions,    \* revisions of the channel, a bound of the model
          MaxEdits         \* edits of the skill folder, a bound of the model

ASSUME StoreAssumption ==
  MaxRevisions \in Nat \ {0} /\ MaxEdits \in Nat

VARIABLES source,       \* the live skill folder: 0 for no file, else its content
          edits,        \* edits so far
          revs,         \* the revision directories
          task,         \* per process, the revision it is writing
          channelLock,  \* the lock file of createNextChannelProfileRevision exists
          homes,        \* controlled homes, by session
          bindings,     \* session profile bindings: the revision id, 0 for none
          bindingLocks  \* sessions whose binding lock file exists

storeVars == <<source, edits, revs, task, channelLock, homes, bindings, bindingLocks>>

Procs == {"daemon", "cli"}
Files == {"SKILL.md", "tool"}
Contents == 0 .. 3
RevIds == 1 .. MaxRevisions

\* A content above MAX_PROFILE_BYTES; as SKILL.md also one that makes the
\* profile.json that quotes it larger than that.
Oversized == 3
Empty == [f \in Files |-> 0]

\* A directory starts as .id.tmp-uuid and takes its name by a rename.  record
\* is what profile.json says of the files: their list, sizes and hashes.
NoRevision == [st |-> "none", version |-> 0, copy |-> Empty, record |-> Empty, complete |-> FALSE]
NoTask == [at |-> "idle", rev |-> 0, list |-> {}, left |-> {}]
NoHome == [exists |-> FALSE, copy |-> Empty, linked |-> FALSE]

Present(folder) == {f \in Files : folder[f] # 0}

\* collectSkillFiles and snapshotFiles sort by name: SKILL.md comes first.
NextFile(left) == CHOOSE f \in left : f = "SKILL.md" \/ left = {f}

StoreInit ==
  /\ source = [f \in Files |-> 1]
  /\ edits = 0
  /\ revs = [r \in RevIds |-> NoRevision]
  /\ task = [p \in Procs |-> NoTask]
  /\ channelLock = FALSE
  /\ homes = [s \in Session |-> NoHome]
  /\ bindings = [s \in Session |-> 0]
  /\ bindingLocks = {}

\* The user edits, adds or removes a file of the skill.
Edit(f, content) ==
  /\ edits < MaxEdits /\ content # source[f]
  /\ source' = [source EXCEPT ![f] = content]
  /\ edits' = edits + 1
  /\ UNCHANGED <<revs, task, channelLock, homes, bindings, bindingLocks>>

-----------------------------------------------------------------------------
(* Revisions.                                                              *)

\* readOwnerFile, by which all of a stored revision is read, refuses a file above
\* the limit.  Nothing refuses to store one.
WithinLimit(r) == \A f \in Files : revs[r].copy[f] # Oversized

\* verifySkillSnapshot and collectStoredSnapshotFiles: the files are those of
\* the record, and their bytes can be read and are the recorded ones.
VerifySkillSnapshot(r) ==
  /\ WithinLimit(r)
  /\ "SKILL.md" \in Present(revs[r].record)
  /\ Present(revs[r].copy) = Present(revs[r].record)
  /\ \A f \in Files : revs[r].copy[f] = revs[r].record[f]

\* parseProfile of profile.json, which is there and whole.
ParseProfile(r) == revs[r].complete

\* readChannelProfileRevision: a name that does not start with a dot, a complete
\* profile.json whose own hash agrees, and every snapshot.
ReadChannelProfileRevision(r) ==
  revs[r].st = "stored" /\ ParseProfile(r) /\ VerifySkillSnapshot(r)

\* listChannelProfileRevisions reads all directories, and throws if one of them
\* does not verify.
Stored == {r \in RevIds : revs[r].st = "stored"}
Listable == \A r \in Stored : ReadChannelProfileRevision(r)
NextVersion == Max({0} \cup {revs[r].version : r \in Stored}) + 1

\* A mutant: the directory has its final name from the start.
MutantStageRevision(p) ==
  LET r == Cardinality({q \in RevIds : revs[q].st # "none"}) + 1
  IN  /\ task[p].at = "idle" /\ r \in RevIds /\ Listable
      /\ revs' = [revs EXCEPT ![r].st = "stored", ![r].version = NextVersion]
      /\ task' = [task EXCEPT ![p] = [at |-> "copy", rev |-> r,
                                      list |-> Present(source), left |-> Present(source)]]
      /\ UNCHANGED <<source, edits, homes, bindings, bindingLocks>>

\* The next version and a new id; the staging directory is made, the instructions
\* are stored in it, and the files of the skill are collected.
StageRevision(p) ==
  LET r == Cardinality({q \in RevIds : revs[q].st # "none"}) + 1
  IN  /\ task[p].at = "idle" /\ r \in RevIds /\ Listable
      /\ revs' = [revs EXCEPT ![r].st = "staging", ![r].version = NextVersion]
      /\ task' = [task EXCEPT ![p] = [at |-> "copy", rev |-> r,
                                      list |-> Present(source), left |-> Present(source)]]
      /\ UNCHANGED <<source, edits, homes, bindings, bindingLocks>>

\* withOwnerFileLock: the lock file is created exclusively.  Who finds it there
\* fails and does not wait, and nobody removes it for a dead process.
LockChannel == ~channelLock /\ channelLock' = TRUE

\* The daemon lists the revisions and creates the next under the channel's lock.
CreateNextChannelProfileRevision == LockChannel /\ StageRevision("daemon")

\* `rooms profile create` does the same without it.
CreateProfileFromCLI == StageRevision("cli") /\ UNCHANGED channelLock

\* snapshotSkill: one file is read and written; its hash is that of the bytes.
SnapshotFile(p) ==
  LET r == task[p].rev
      f == NextFile(task[p].left)
  IN  /\ task[p].at = "copy" /\ task[p].left # {} /\ source[f] # 0
      /\ revs' = [revs EXCEPT ![r].copy[f] = source[f]]
      /\ task' = [task EXCEPT ![p].left = @ \ {f}]
      /\ UNCHANGED <<source, edits, channelLock, homes, bindings, bindingLocks>>

\* The second collectSkillFiles, where the list and not the contents is compared,
\* and writeJson of profile.json with the hashes computed on the way.
WriteProfile(p) ==
  LET r == task[p].rev
  IN  /\ task[p].at = "copy" /\ task[p].left = {}
      /\ Present(source) = task[p].list /\ "SKILL.md" \in task[p].list
      /\ revs' = [revs EXCEPT ![r].record = revs[r].copy, ![r].complete = TRUE]
      /\ task' = [task EXCEPT ![p].at = "rename"]
      /\ UNCHANGED <<source, edits, channelLock, homes, bindings, bindingLocks>>

\* renameSync, and the locks are removed.
Publish(p) ==
  /\ task[p].at = "rename"
  /\ revs' = [revs EXCEPT ![task[p].rev].st = "stored"]
  /\ task' = [task EXCEPT ![p] = NoTask]
  /\ channelLock' = (channelLock /\ p # "daemon")
  /\ UNCHANGED <<source, edits, homes, bindings, bindingLocks>>

\* A file that is gone or cannot be written, a list that changed, a rename that
\* fails: the staging directory is removed, and so are the locks.
FailRevision(p) ==
  /\ task[p].at # "idle"
  /\ revs' = [revs EXCEPT ![task[p].rev] = [NoRevision EXCEPT !.st = "removed"]]
  /\ task' = [task EXCEPT ![p] = NoTask]
  /\ channelLock' = (channelLock /\ p # "daemon")
  /\ UNCHANGED <<source, edits, homes, bindings, bindingLocks>>

RevisionStep(p) ==
  \/ p = "daemon" /\ CreateNextChannelProfileRevision
  \/ p = "cli" /\ CreateProfileFromCLI
  \/ SnapshotFile(p) \/ WriteProfile(p) \/ Publish(p) \/ FailRevision(p)

-----------------------------------------------------------------------------
(* Controlled homes and bindings, as functions of the variables that the   *)
(* launches of SessionLaunch use.                                          *)

\* materializeCodexControlledHome refuses a home that is there.
\* A mutant: it does not.
MutantHomeFree(s) == TRUE

HomeFree(s) == ~homes[s].exists

\* hashSnapshotRoot and copySnapshot, one file.
HomeWith(s, r, f) == [homes EXCEPT ![s].copy[f] = revs[r].copy[f]]

\* symlinkSync of auth.json fails if the link is there.
MayLink(s) == ~homes[s].linked

\* assertPermittedUpdate: a binding for the same session has other time stamps
\* and is refused.
PermittedUpdate(s) == bindings[s] = 0

-----------------------------------------------------------------------------
(* Properties.                                                             *)

\* What is found under the name of a revision is complete and verifies, unless
\* the skill had a file above the limit when it was copied: edits during the
\* copy, two writers, errors and crashes at any step leave nothing else that
\* readChannelProfileRevision refuses.  The oversized revision it does refuse,
\* and with it every later listing and creation in all channels.
StoredVerifies == \A r \in Stored : WithinLimit(r) => ReadChannelProfileRevision(r)
=============================================================================
