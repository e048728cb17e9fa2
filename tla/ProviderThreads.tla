--------------------------- MODULE ProviderThreads ---------------------------
(***************************************************************************)
(* Which provider conversation belongs to which runtime.  A provider names *)
(* its conversation itself and writes a transcript for it, so the daemon   *)
(* looks through the provider's directory, poll by poll, for a new         *)
(* transcript that contains the id of the session, and claims it in the    *)
(* runtime's row.  Several launches in one working directory look at once. *)
(* One runtime, of generation 1, is started for a session here; its        *)
(* conversation is named by the session.                                   *)
(***************************************************************************)
EXTENDS ProfileStore, Sequences

CONSTANTS Dirs,          \* working directories of launches
          AdapterKinds,  \* adapters in use, among the five known ones
          MaxEntries     \* parts of a transcript, a bound of the model

ASSUME ThreadAssumption ==
  /\ AdapterKinds \subseteq {"claude", "codex", "grok", "agy", "gemini"}
  /\ MaxEntries \in Nat

VARIABLES runtime,      \* the runtime rows: state, launch, adapter, directory, thread
          transcripts,  \* in the order of their creation
          discovery     \* discoverProviderThreadId, per runtime

threadVars == <<runtime, transcripts, discovery>>

NoThread == "none"

ASSUME NoThreadAssumption == NoThread \notin Session

NoDiscovery == [at |-> "no", old |-> {}, read |-> <<>>]
Numbers == 1 .. Cardinality(Session)

TranscriptOf(s) == {i \in DOMAIN transcripts : transcripts[i].of = s}

-----------------------------------------------------------------------------
(* The provider's side.                                                    *)

\* The file of a conversation is created, empty.
BeginTranscript(s) ==
  /\ runtime[s].st = "running" /\ TranscriptOf(s) = {}
  /\ transcripts' = Append(transcripts, [of |-> s, text |-> <<>>])
  /\ UNCHANGED <<runtime, discovery>>

\* A part of the text is written: named are the session ids its bytes contain.
\* Briefings, messages and longer ids may contain the ids of other sessions.
WriteTranscript(s, named) ==
  \E i \in TranscriptOf(s) :
    /\ Len(transcripts[i].text) < MaxEntries
    /\ transcripts' = [transcripts EXCEPT ![i].text = Append(@, named)]
    /\ UNCHANGED <<runtime, discovery>>

Shows(i, s) == \E k \in DOMAIN transcripts[i].text : s \in transcripts[i].text[k]

-----------------------------------------------------------------------------
(* The runtime rows.                                                       *)

Live(s) == runtime[s].st \in {"creating", "running"}

\* A mutant: only the row itself is looked at.
MutantProviderThreadHolder(thread, s) == FALSE

\* Another live runtime holds the conversation.
ProviderThreadHolder(thread, s) ==
  \E q \in Session \ {s} : runtime[q].thread = thread /\ Live(q)

\* The claim, in one transaction: a row that is bound keeps its conversation.
TryClaimProviderThreadId(s, thread) ==
  \/ runtime[s].thread = thread
  \/ runtime[s].thread = NoThread /\ ~ProviderThreadHolder(thread, s)

-----------------------------------------------------------------------------
(* Candidates, by adapter, in the order they are tried.                    *)

\* The transcripts under one provider's directory of one home that are not
\* older than the launch by more than a second.  A controlled home is the
\* session's own.
Recent(s) ==
  {i \in DOMAIN transcripts \ discovery[s].old :
     LET q == transcripts[i].of
     IN  /\ runtime[q].adapter = runtime[s].adapter
         /\ q = s \/ ~(runtime[q].controlled \/ runtime[s].controlled)}

SameDir(i, s) == runtime[transcripts[i].of].dir = runtime[s].dir

\* The metadata record is there.
ReadFirstLine(i) == transcripts[i].text # <<>>

ListTranscripts(s) == {i \in Recent(s) : ReadFirstLine(i) /\ SameDir(i, s)}
ListGeminiSessionCandidates(s) == {i \in Recent(s) : ReadFirstLine(i) /\ SameDir(i, s)}
ListAgySessionCandidates(s) == Recent(s)
ListGrokSessionCandidates(s) == {i \in Recent(s) : SameDir(i, s)}

Candidates(s) ==
  CASE runtime[s].adapter \in {"claude", "codex"} -> ListTranscripts(s)
    [] runtime[s].adapter = "gemini" -> ListGeminiSessionCandidates(s)
    [] runtime[s].adapter = "agy" -> ListAgySessionCandidates(s)
    [] runtime[s].adapter = "grok" -> ListGrokSessionCandidates(s)

\* The oldest is tried first, by grok the newest.
TriedBefore(s, i, j) == IF runtime[s].adapter = "grok" THEN i > j ELSE i < j

\* One chunk per poll, from where the last one ended.
FileContainsMarker(i, s) ==
  LET k == discovery[s].read[i] + 1
  IN  k \in DOMAIN transcripts[i].text /\ s \in transcripts[i].text[k]

-----------------------------------------------------------------------------
(* The discovery.                                                          *)

\* create notes the time of the launch: old are the transcripts that are then
\* there for more than a second.
PlanDiscovery(s, old) ==
  discovery' = [discovery EXCEPT ![s] = [at |-> "planned", old |-> old,
                                         read |-> [i \in Numbers |-> 0]]]

\* It starts when the host is up.  A conversation that the launch has named
\* itself is not looked for.
StartDiscovery(s, up) ==
  discovery' = [discovery EXCEPT ![s] =
    IF up /\ runtime[s].thread = NoThread THEN [@ EXCEPT !.at = "poll"] ELSE NoDiscovery]

KeepPolling(s) == runtime[s].thread = NoThread /\ Live(s)

\* One poll: the candidates nobody holds are read in turn, up to the first that
\* shows the id of the session, which is claimed.
DiscoverProviderThreadId(s) ==
  LET free == {i \in Candidates(s) : ~ProviderThreadHolder(transcripts[i].of, s)}
      hits == {i \in free : /\ FileContainsMarker(i, s)
                            /\ TryClaimProviderThreadId(s, transcripts[i].of)}
  IN  /\ discovery[s].at = "poll" /\ KeepPolling(s) /\ free # {}
      /\ \/ /\ hits = {}
            /\ discovery' = [discovery EXCEPT ![s].read = [i \in Numbers |->
                 IF i \in free THEN Min({@[i] + 1, Len(transcripts[i].text)}) ELSE @[i]]]
            /\ UNCHANGED runtime
         \/ \E i \in hits :
              /\ \A j \in hits : ~TriedBefore(s, j, i)
              /\ runtime' = [runtime EXCEPT ![s].thread = transcripts[i].of]
              /\ discovery' = [discovery EXCEPT ![s] = [NoDiscovery EXCEPT !.at = "found"]]
      /\ UNCHANGED transcripts

\* The runtime is over, or ten minutes are: the gap is recorded.
RecordProviderIdentityGap(s) ==
  /\ discovery[s].at = "poll"
  /\ discovery' = [discovery EXCEPT ![s] = [NoDiscovery EXCEPT !.at = "gap"]]
  /\ UNCHANGED <<runtime, transcripts>>

\* providerIdentityState: what an inspection says about the conversation.
ProviderIdentityState(s) ==
  IF runtime[s].thread # NoThread THEN "attached"
  ELSE IF discovery[s].at = "gap" \/ ~Live(s) THEN "unavailable"
  ELSE "pending"

-----------------------------------------------------------------------------
(* Parts of ThreadsAreOwn, a property of SessionLaunch.                    *)

\* Two live runtimes never share a conversation, and a runtime has taken a
\* conversation that is not its own only if the transcript shows its session id.
HoldersAreNamed ==
  \A s \in Session :
    LET t == runtime[s].thread
    IN  Live(s) /\ t # NoThread =>
          /\ \A q \in Session \ {s} : Live(q) => runtime[q].thread # t
          /\ t = s \/ \E i \in TranscriptOf(t) : Shows(i, s)
=============================================================================
