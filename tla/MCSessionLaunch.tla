--------------------------- MODULE MCSessionLaunch ---------------------------
(* An instance of SessionLaunch for TLC; the configuration gives the bounds. *)
EXTENDS SessionLaunch

FirstDaemonLaunch == CHOOSE l \in DaemonLaunch : TRUE
Launched == {l \in Launch : ~At(l, {"none"})}

\* Revisions are written first: none, one, one with an oversized tool, or two
\* that differ.  Then comes a launch of the daemon, and one more of either
\* process.
Apart ==
  /\ Launched # {} => /\ \A r \in RevIds : revs[r].st \in {"none", "stored"}
                      /\ \/ edits = 0 /\ Stored \subseteq {1}
                         \/ edits = 1 /\ Stored = {1} /\ ~WithinLimit(1)
                         \/ /\ Stored = {1, 2} /\ revs[1].version < revs[2].version
                            /\ revs[1].copy["SKILL.md"] < revs[2].copy["SKILL.md"]
                      /\ FirstDaemonLaunch \in Launched
                      /\ launch[FirstDaemonLaunch].session = Idle.session
                      /\ launch[FirstDaemonLaunch].dir = Idle.dir
  /\ Launched # Launch

\* Of an edit, a crash and a revision that fails, one happens while revisions
\* are written; of a crash and an end of the session, one during the launches.
\* The edit changes SKILL.md, or removes the tool or makes it oversized.
Disturbances ==
  crashes + Cardinality({r \in RevIds : revs[r].st = "removed"})
    + Cardinality({s \in Session : ending[s] # "no"})

FewDisturbances ==
  /\ Disturbances + (IF Launched # {} THEN 0 ELSE edits) <= 1
  /\ source["SKILL.md"] \notin {0, Oversized} /\ source["tool"] # 2

\* Either revisions, disturbances and one session with one adapter, whose
\* transcript starts with its own prompt and is found in time; or launches of
\* two sessions with one adapter, in one directory except for agy, up to the
\* prompt, whose transcripts have it at the end at the latest.
OneSession ==
  /\ \A l \in Launched : launch[l].session = Idle.session /\ launch[l].adapter = Idle.adapter
                         /\ launch[l].dir = Idle.dir
  /\ \A i \in DOMAIN transcripts : transcripts[i].text \in {<<>>, <<{transcripts[i].of}>>}
  /\ transcripts # <<>> => Disturbances = 0 /\ \A l \in Launch : ~At(l, {"ready"})
  /\ \A s \in Session : discovery[s].at = "gap" => ~Live(s)

Undone == {"undo", "undoEnd", "failed"}

TwoSessions ==
  /\ Disturbances = 0 /\ \A r \in RevIds : revs[r].st = "none"
  /\ Launched \subseteq DaemonLaunch
  /\ \A l, k \in Launched : /\ launch[l].adapter = launch[k].adapter
                            /\ l # k => /\ launch[l].session # launch[k].session
                                        /\ (launch[l].dir = launch[k].dir) = (launch[l].adapter # "agy")
                            /\ ~At(l, {"prompt", "attempted", "done"})
                            /\ l # k => ~(At(l, Undone) /\ At(k, Undone))
  /\ \A s \in Session : discovery[s].at = "gap" => ~Live(s)
  /\ \A i \in DOMAIN transcripts :
       LET text == transcripts[i].text
           own == transcripts[i].of
       IN  /\ Len(text) >= 1 => text[1] # {}
           /\ Len(text) = 2 => own \notin text[1] /\ text[2] = {own}

Regimes == OneSession \/ TwoSessions
=============================================================================
