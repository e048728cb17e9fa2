----------------------------- MODULE ProviderLog -----------------------------
(* How Rooms reads the log a provider keeps of its turns.  Two readers share *)
(* these files: runtime/provider-final-reply.ts looks for the final answer   *)
(* to one message, runtime/provider-turn.ts for the phase of the turn.       *)
(*                                                                          *)
(* A record is [tok, m]: what kind of record it is, and the message whose    *)
(* turn wrote it, which stands for its text; of a tool result, the message   *)
(* that it quotes.  The kinds are those the five adapters distinguish under   *)
(* other names:                                                              *)
(*   user    the prompt (response_item, user, USER_INPUT)                    *)
(*   start   task_started, turn_started                                      *)
(*   tool    tool_use, tool_calls, function_call, RUN_COMMAND                *)
(*   result  what a tool returned, of claude a record of type user           *)
(*   text    assistant text; the closing record of gemini and agy            *)
(*   part    streamed output that is no answer                               *)
(*   end     task_complete, turn_duration, turn_ended                        *)
(*   fail    is_error, turn_ended with a bad outcome, error, ERROR           *)
EXTENDS Integers, Sequences, SequencesExt

Adapters == {"codex", "claude", "grok", "gemini", "agy"}

Tokens == {"user", "start", "tool", "result", "text", "part", "end", "fail"}

AllFiles == {"transcript", "history", "lifecycle"}

\* providerTranscriptArtifacts: the file that a record is written to.  Grok
\* writes two, the others one.
FileOf(a, tok) ==
    IF a # "grok" THEN "transcript"
    ELSE IF tok \in {"user", "tool", "text"} THEN "history" ELSE "lifecycle"

-----------------------------------------------------------------------------
(* The final answer.                                                       *)

\* ProviderReplyScanState; 0 is no text.
ScanStart(log) ==
    [off |-> [f \in AllFiles |-> Len(log[f])], seen |-> FALSE, cand |-> 0,
     done |-> FALSE, failed |-> FALSE]

\* providerInputContains: a prompt, or a tool result of claude, with the text
\* of one of the messages in hits, those whose text contains the one looked for.
IsInput(r, hits) == r.tok \in {"user", "result"} /\ r.m \in hits

Nothing == [cand |-> 0, clear |-> FALSE, done |-> FALSE, failed |-> FALSE]

Says(m) == [Nothing EXCEPT !.cand = m]

Clears == [Nothing EXCEPT !.clear = TRUE]

Completes(m) == [Nothing EXCEPT !.cand = m, !.done = TRUE]

Fails == [Nothing EXCEPT !.clear = TRUE, !.failed = TRUE]

\* observeProviderRecord, adapter by adapter.
ObserveCodex(r) == IF r.tok = "end" THEN Completes(r.m) ELSE Nothing

ObserveClaude(r) ==
    CASE r.tok = "tool" -> Clears
      [] r.tok = "text" -> Says(r.m)
      [] r.tok = "end" -> Completes(0)
      [] r.tok = "fail" -> Fails
      [] OTHER -> Nothing

ObserveGrok(r) == ObserveClaude(r)

ObserveGemini(r) ==
    CASE r.tok = "tool" -> Clears
      [] r.tok = "text" -> Completes(r.m)
      [] r.tok = "part" -> Completes(0)
      [] r.tok = "fail" -> Fails
      [] OTHER -> Nothing

ObserveAgy(r) ==
    CASE r.tok = "text" -> Completes(r.m)
      [] r.tok = "fail" -> Fails
      [] OTHER -> Nothing

Observe(a, r) ==
    CASE a = "codex" -> ObserveCodex(r)
      [] a = "claude" -> ObserveClaude(r)
      [] a = "grok" -> ObserveGrok(r)
      [] a = "gemini" -> ObserveGemini(r)
      [] OTHER -> ObserveAgy(r)

\* readJsonlAppend: the whole lines of file f between the saved offset and the
\* place this read stops at, upto[f].
Unread(s, upto, f) == (s.off[f] + 1)..upto[f]

PromptsIn(hits, log, upto, s, f) ==
    {i \in Unread(s, upto, f) : IsInput(log[f][i], hits)}

\* Mutant: records before the prompt count.
MutantWatched(hits, log, upto, s, f) == Unread(s, upto, f)

\* The records that the loop of scanProviderFinalReply looks at: all of them
\* once the input was seen, until then those after it.
Watched(hits, log, upto, s, f) ==
    {i \in Unread(s, upto, f) :
        s.seen \/ \E k \in PromptsIn(hits, log, upto, s, f) : k < i}

\* That loop.  The last record that says or clears something decides.  Before
\* the input is seen nothing is noted, so that seeing it resets nothing.
ScanFile(a, hits, log, upto, s, f) ==
    LET O(i) == Observe(a, log[f][i])
        watched == Watched(hits, log, upto, s, f)
        deciding == {i \in watched : O(i).cand # 0 \/ O(i).clear}
    IN [off |-> [s.off EXCEPT ![f] = upto[f]],
        seen |-> s.seen \/ PromptsIn(hits, log, upto, s, f) # {},
        cand |-> IF deciding = {} THEN s.cand ELSE O(Max(deciding)).cand,
        done |-> s.done \/ \E i \in watched : O(i).done,
        failed |-> s.failed \/ \E i \in watched : O(i).failed]

\* scanProviderFinalReply, for the message that hits belong to.  The lifecycle
\* of grok is not read until its history has shown the input.
Scan(a, hits, log, upto, s) ==
    IF a # "grok" THEN ScanFile(a, hits, log, upto, s, "transcript")
    ELSE LET h == ScanFile(a, hits, log, upto, s, "history")
         IN IF h.seen THEN ScanFile(a, hits, log, upto, h, "lifecycle") ELSE h

\* Its status.
ScanStatus(s) ==
    IF s.failed \/ (s.done /\ s.cand = 0) THEN "failed"
    ELSE IF s.done THEN "complete" ELSE "pending"

-----------------------------------------------------------------------------
(* The phase of the turn.                                                  *)

\* The last of the records after from that is of one of these kinds, or 0.
LastOf(recs, from, toks) ==
    LET hits == {i \in (from + 1)..Len(recs) : recs[i].tok \in toks}
    IN IF hits = {} THEN 0 ELSE Max(hits)

\* The phase after a record of this kind.
PhaseAfter(a, tok) ==
    CASE tok = "tool" -> "tool"
      [] tok \in {"start", "result"} -> "thinking"
      [] tok = "user" -> IF a = "codex" THEN "streaming" ELSE "thinking"
      [] tok = "part" -> IF a = "codex" THEN "thinking" ELSE "streaming"
      [] tok = "text" -> IF a \in {"gemini", "agy"} THEN "idle"
                         ELSE "streaming"
      [] OTHER -> "idle"

\* The loop of a reader that acts on these kinds.
LastPhase(a, recs, from, toks) ==
    LET i == LastOf(recs, from, toks)
    IN IF i = 0 THEN "busy" ELSE PhaseAfter(a, recs[i].tok)

\* Mutant: a completion whose start was not seen does not count.
MutantCodexTurn(recs, from) ==
    LET mark == LastOf(recs, from, {"start", "end"})
    IN IF LastOf(recs, from, {"start"}) = 0 THEN "busy"
       ELSE IF recs[mark].tok = "end" THEN "idle"
       ELSE LastPhase("codex", recs, mark - 1,
                      {"start", "tool", "user", "text", "part"})

\* resolveCodexTurn: without a start or an end it is busy, after an end only a
\* start is listened to.
CodexTurn(recs, from) ==
    LET mark == LastOf(recs, from, {"start", "end"})
    IN IF mark = 0 THEN "busy"
       ELSE IF recs[mark].tok = "end" THEN "idle"
       ELSE LastPhase("codex", recs, mark - 1,
                      {"start", "tool", "user", "text", "part"})

\* resolveClaudeTurn: the turn is closed for good by its first turn_duration.
ClaudeTurn(recs, from) ==
    IF LastOf(recs, from, {"end"}) # 0 THEN "idle"
    ELSE LastPhase("claude", recs, from, {"tool", "result", "text", "part", "user"})

\* resolveGrokTurn, over the lifecycle file.
GrokTurn(recs, from) ==
    LastPhase("grok", recs, from, {"start", "end", "fail", "part"})

GeminiTurn(recs, from) ==
    LastPhase("gemini", recs, from, {"user", "tool", "part", "text", "fail"})

AgyTurn(recs, from) ==
    LastPhase("agy", recs, from, {"user", "tool", "part", "text", "fail"})

\* loadProviderTranscriptLines: the file with the lifecycle.  It is read from
\* its tail, which is taken to hold the last turn.
TurnFile(a) == IF a = "grok" THEN "lifecycle" ELSE "transcript"

\* No delivery was ever accepted.
Never == [f \in AllFiles |-> -1]

\* resolveProviderTurn, over the records since the last accepted delivery.  Its
\* comparison of time stamps is one of places: both clocks are this machine's.
TurnPhase(a, log, since) ==
    LET f == TurnFile(a)
    IN IF since = Never THEN "idle"
       ELSE CASE a = "codex" -> CodexTurn(log[f], since[f])
              [] a = "claude" -> ClaudeTurn(log[f], since[f])
              [] a = "grok" -> GrokTurn(log[f], since[f])
              [] a = "gemini" -> GeminiTurn(log[f], since[f])
              [] OTHER -> AgyTurn(log[f], since[f])
=============================================================================
