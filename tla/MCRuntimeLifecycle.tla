------------------------- MODULE MCRuntimeLifecycle -------------------------
(* Model checking of RuntimeLifecycle and of the rotation that uses it: the  *)
(* bounds are in the cfg file.                                               *)
EXTENDS WorkerRotation

Unused(c) == commits[c].at = "idle" /\ replacements[c] = "none"

Rotating == \E r \in Rotations : audits[r].state # "none"
Swapped == members \cap Commit # {}

Commits == Cardinality({c \in Commit : ~Unused(c)})
In(states) == \E r \in Rotations : audits[r].state \in states

\* A rotation meets a termination that somebody requests, hosts that end, a
\* resumption and the death of the daemon, one request or crash together with one
\* commit, or two commits, or one commit while the worker leaves.  Attachments and
\* recoveries happen without a rotation, where two requests, or one and a death of
\* the daemon, come together; and the message that prepares it is
\* answered before anything else happens.  The calls of commit are
\* interchangeable: they are numbered as they start.  A rotation that is cancelled
\* before its commit is not followed.  A third generation needs one that was named
\* out of turn, and comes without a rotation or a crash.
Together ==
  IF ~Rotating THEN /\ session = "ended" \/ OldWorker \in members
                    /\ Newest = 3 => astray # {} /\ restarts = 0
                    /\ ops + restarts <= 2
  ELSE /\ Newest <= 2
       /\ ops + restarts + Commits <= IF members = {} /\ session = "open" THEN 1 ELSE 2
       /\ \A c, d \in Commit : c < d /\ Unused(c) => Unused(d)
       /\ \A k \in {"attach", "recover"} : pend[k].phase = "idle"
       /\ IF In({"prepared"}) THEN plan = 0 /\ (ops + restarts = 0 \/ (restarts = 0 /\ row[Newest].ended))
          ELSE pend["deliver"].phase = "idle"
       /\ In({"cancelled"}) => Commits > 0
=============================================================================
