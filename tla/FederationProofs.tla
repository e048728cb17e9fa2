-------------------------- MODULE FederationProofs ---------------------------
(***************************************************************************)
(* Proofs about federation.  The relay, for any number of connections and  *)
(* any bounds on queues, sessions and traffic: each direction is a         *)
(* RelayLink, the redial loop gives up once, and the admission counters    *)
(* are exact.  The enrollment that lets two machines use one, for any      *)
(* number of processes, enrollments and policies: see the second half.     *)
(***************************************************************************)
EXTENDS RelayConnection, PeerEnrollment, FiniteSetTheorems, SequenceTheorems, TLAPS

\* One log is the beginning of another.
Begins(s, t) == Len(s) <= Len(t) /\ \A i \in 1 .. Len(s) : t[i] = s[i]

\* A frame that is numbered is the one that was counted under its number.
Counted(f, log) ==
  f.kind \notin Handshake => f.seq \in 1 .. Len(log) /\ log[f.seq] = f.kind

\* Whatever an end has on its stream or in its queue was counted when it was
\* sent.
Sound(x) ==
  /\ x \in EndRecords
  /\ \A i \in 1 .. Len(x.wire) : Counted(x.wire[i], x.sent)
  /\ \A i \in 1 .. Len(x.queue) : Counted(x.queue[i], x.sent)

\* What the engine makes of an end when it writes: it handles nothing, its log
\* of sent frames may grow, and it may fail.
Follows(x, y) ==
  Sound(y) /\ Begins(x.sent, y.sent) /\ y.handled = x.handled /\ y.cut = x.cut
Grows(x, y) == Follows(x, y) /\ y.st \in {x.st, "closed"}

\* The next frame of the peer of e, in the order in which the peer counted them.
HandlesNext(e, h) ==
  /\ Len(ends[e].handled) < Len(ends[Peer(e)].sent)
  /\ h = Append(ends[e].handled, ends[Peer(e)].sent[Len(ends[e].handled) + 1])

\* What one turn of its event loop makes of a live end e.
Reacts(e, x) ==
  /\ Sound(x) /\ Begins(ends[e].sent, x.sent) /\ x.cut = ends[e].cut
  /\ x.handled = ends[e].handled \/ HandlesNext(e, x.handled)
  /\ ends[e].st = "handshaking" => x.st \in {"handshaking", "connected", "closed"}
  /\ ends[e].st \in Open => x.st \in Open \cup {"closed"}

\* The logs: an end has handled a beginning of what its peer counted.
LogsOK ==
  /\ \A e \in Ends : Sound(ends[e])
  /\ \A e \in Ends : Begins(ends[e].handled, ends[Peer(e)].sent)

\* A connection that was not dialed has no initiator, and an end that was never
\* there has neither sent nor handled.
FreshOK ==
  /\ \A c \in Conns : c > loop.current => ends[<<c, "initiator">>].st = "off"
  /\ \A e \in Ends : ends[e].st = "off" => ends[e].sent = <<>> /\ ends[e].handled = <<>>

\* The inductive invariant.
IInv == TypeOK /\ LogsOK /\ FreshOK /\ GivesUpOnce /\ AdmissionExact

-----------------------------------------------------------------------------
(* The engine.                                                             *)

\* The fields of an end.
LEMMA EndFields ==
  ASSUME NEW x \in EndRecords
  PROVE  /\ x.st \in States /\ x.why \in {"none", "transient", "durable"}
         /\ x.sent \in Seq(Kinds) /\ x.handled \in Seq(Kinds)
         /\ x.queue \in Seq(Frames) /\ x.wire \in Seq(Frames) /\ x.cut \in BOOLEAN
BY DEF EndRecords

\* A log is the beginning of itself and of what extends it.
LEMMA BeginsBasic ==
  ASSUME NEW S, NEW s \in Seq(S), NEW k \in S
  PROVE  Begins(s, s) /\ Begins(s, Append(s, k))
BY DEF Begins

LEMMA BeginsTransitive ==
  ASSUME NEW S, NEW s \in Seq(S), NEW t \in Seq(S), NEW u \in Seq(S),
         Begins(s, t), Begins(t, u)
  PROVE  Begins(s, u)
BY DEF Begins

\* Sending more does not change what was counted.
LEMMA CountedStays ==
  ASSUME NEW f, NEW s \in Seq(Kinds), NEW t \in Seq(Kinds), Counted(f, s), Begins(s, t)
  PROVE  Counted(f, t)
BY DEF Counted, Begins

\* Growing in two steps.
LEMMA GrowsTransitive ==
  ASSUME NEW x, Sound(x), NEW y, NEW z, Grows(x, y), Grows(y, z)
  PROVE  Grows(x, z)
<1>1. x.sent \in Seq(Kinds) /\ y.sent \in Seq(Kinds) /\ z.sent \in Seq(Kinds)
  BY EndFields DEF Grows, Follows, Sound
<1>2. Begins(x.sent, z.sent)
  BY <1>1, BeginsTransitive DEF Grows, Follows
<1> QED BY <1>2 DEF Grows, Follows

LEMMA FailGrows ==
  ASSUME NEW x, Sound(x), NEW reason
  PROVE  Grows(x, Fail(x, reason)) /\ Fail(x, reason).st = "closed"
<1>1. x.sent \in Seq(Kinds)
  BY EndFields DEF Sound
<1>2. Begins(x.sent, x.sent)
  BY <1>1 DEF Begins
<1>3. CASE x.st = "closed"
  BY <1>2, <1>3 DEF Fail, Grows, Follows
<1>4. CASE x.st # "closed"
  <2> DEFINE y == [x EXCEPT !.st = "closed", !.why = Class(reason), !.queue = <<>>]
  <2>1. Fail(x, reason) = y
    BY <1>4 DEF Fail
  <2>2. /\ Class(reason) \in {"none", "transient", "durable"} /\ "closed" \in States
        /\ <<>> \in Seq(Frames) /\ x \in EndRecords
    BY DEF Class, States, Sound
  <2>3. /\ y \in EndRecords /\ y.sent = x.sent /\ y.handled = x.handled /\ y.cut = x.cut
        /\ y.st = "closed" /\ y.wire = x.wire /\ y.queue = <<>>
    BY <2>2, Zenon DEF EndRecords
  <2> QED BY <1>2, <2>1, <2>3 DEF Grows, Follows, Sound
<1> QED BY <1>3, <1>4

LEMMA EnqueueGrows ==
  ASSUME NEW x, Sound(x), NEW f \in Frames, Counted(f, x.sent)
  PROVE  Grows(x, Enqueue(x, f))
<1>1. CASE Len(x.queue) + 1 > MaxQueue
  BY <1>1, FailGrows DEF Enqueue
<1>2. CASE ~(Len(x.queue) + 1 > MaxQueue)
  <2> DEFINE y == [x EXCEPT !.queue = Append(@, f)]
  <2>1. Enqueue(x, f) = y
    BY <1>2 DEF Enqueue
  <2>2. /\ x \in EndRecords /\ x.sent \in Seq(Kinds) /\ x.queue \in Seq(Frames)
        /\ Append(x.queue, f) \in Seq(Frames)
    BY EndFields, AppendProperties DEF Sound
  <2>3. /\ y \in EndRecords /\ y.sent = x.sent /\ y.handled = x.handled /\ y.cut = x.cut
        /\ y.st = x.st /\ y.wire = x.wire /\ y.queue = Append(x.queue, f)
    BY <2>2, Zenon DEF EndRecords
  <2>4. \A i \in 1 .. Len(y.queue) : Counted(y.queue[i], y.sent)
    BY <2>2, <2>3 DEF Sound
  <2> QED BY <2>1, <2>2, <2>3, <2>4 DEF Grows, Follows, Sound, Begins
<1> QED BY <1>1, <1>2

LEMMA WireGrows ==
  ASSUME NEW x, Sound(x), NEW f \in Frames, Counted(f, x.sent)
  PROVE  Grows(x, [x EXCEPT !.wire = Append(@, f)])
<1> DEFINE y == [x EXCEPT !.wire = Append(@, f)]
<1>2. /\ x \in EndRecords /\ x.sent \in Seq(Kinds) /\ x.wire \in Seq(Frames)
      /\ Append(x.wire, f) \in Seq(Frames)
  BY EndFields, AppendProperties DEF Sound
<1>3. /\ y \in EndRecords /\ y.sent = x.sent /\ y.handled = x.handled /\ y.cut = x.cut
      /\ y.st = x.st /\ y.queue = x.queue /\ y.wire = Append(x.wire, f)
  BY <1>2, Zenon DEF EndRecords
<1>4. \A i \in 1 .. Len(y.wire) : Counted(y.wire[i], y.sent)
  BY <1>2, <1>3 DEF Sound
<1> QED BY <1>2, <1>3, <1>4 DEF Grows, Follows, Sound, Begins

\* Back-pressure, queueing and the copy that is queued of a frame the stream
\* took: only counted frames are written.
LEMMA WriteFrameGrows ==
  ASSUME NEW x, Sound(x), NEW f \in Frames, Counted(f, x.sent), NEW ok \in BOOLEAN
  PROVE  Grows(x, WriteFrame(x, f, ok))
<1> DEFINE w == [x EXCEPT !.wire = Append(@, f)]
<1>1. Grows(x, x)
  BY EndFields DEF Grows, Follows, Sound, Begins
<1>2. Grows(x, Enqueue(x, f))
  BY EnqueueGrows
<1>3. Grows(x, w)
  BY WireGrows
<1>4. Grows(x, Enqueue(w, f))
  <2>1. Sound(w) /\ Begins(x.sent, w.sent) /\ w.sent \in Seq(Kinds) /\ x.sent \in Seq(Kinds)
    BY <1>3, EndFields DEF Grows, Follows, Sound
  <2>2. Counted(f, w.sent)
    BY <2>1, CountedStays
  <2> HIDE DEF w
  <2>3. Grows(w, Enqueue(w, f))
    BY <2>1, <2>2, EnqueueGrows
  <2> QED BY <1>3, <2>3, GrowsTransitive
<1> HIDE DEF w
<1>5. WriteFrame(x, f, ok) \in {x, Enqueue(x, f), w, Enqueue(w, f)}
  BY DEF WriteFrame, w
<1> QED BY <1>1, <1>2, <1>3, <1>4, <1>5

LEMMA SendSequencedGrows ==
  ASSUME NEW x, Sound(x), NEW kind \in Kinds, NEW ok \in BOOLEAN
  PROVE  Grows(x, SendSequenced(x, kind, ok))
<1> DEFINE y == [x EXCEPT !.sent = Append(@, kind)]
           f == [kind |-> kind, seq |-> Len(x.sent) + 1]
<1>1. /\ x \in EndRecords /\ x.sent \in Seq(Kinds) /\ Len(x.sent) \in Nat
      /\ Append(x.sent, kind) \in Seq(Kinds)
  BY EndFields, AppendProperties DEF Sound
<1>2. /\ y \in EndRecords /\ y.sent = Append(x.sent, kind) /\ y.handled = x.handled
      /\ y.cut = x.cut /\ y.st = x.st /\ y.wire = x.wire /\ y.queue = x.queue
  BY <1>1, Zenon DEF EndRecords
<1>3. Begins(x.sent, y.sent) /\ y.sent \in Seq(Kinds)
  BY <1>1, <1>2, BeginsBasic
<1>4. Sound(y)
  BY <1>1, <1>2, <1>3, CountedStays DEF Sound
<1>5. Grows(x, y)
  BY <1>2, <1>3, <1>4 DEF Grows, Follows
<1>6. f \in Frames /\ Counted(f, y.sent)
  BY <1>1, <1>2 DEF Frames, Counted
<1>7. SendSequenced(x, kind, ok) = WriteFrame(y, f, ok)
  BY DEF SendSequenced
<1> HIDE DEF y, f
<1> QED BY <1>4, <1>5, <1>6, <1>7, WriteFrameGrows, GrowsTransitive

LEMMA CloseGrows ==
  ASSUME NEW x, Sound(x), NEW reason, NEW ok \in BOOLEAN
  PROVE  Grows(x, Close(x, reason, ok)) /\ Close(x, reason, ok).st = "closed"
<1>1. Grows(x, x)
  BY EndFields DEF Grows, Follows, Sound, Begins
<1> DEFINE y == SendSequenced(x, "close", ok)
<1>2. Grows(x, y)
  BY SendSequencedGrows DEF Kinds
<1>3. Sound(y)
  BY <1>2 DEF Grows, Follows
<1> HIDE DEF y
<1>4. Grows(y, Fail(y, reason)) /\ Fail(y, reason).st = "closed"
  BY <1>3, FailGrows
<1>5. Grows(x, Fail(y, reason))
  BY <1>2, <1>4, GrowsTransitive
<1>6. Close(x, reason, ok) = IF x.st = "closed" THEN x ELSE Fail(y, reason)
  BY DEF Close, y
<1> QED BY <1>1, <1>4, <1>5, <1>6

LEMMA RevalidateGrows ==
  ASSUME NEW x, Sound(x), NEW active \in BOOLEAN, NEW ok \in BOOLEAN
  PROVE  Grows(x, Revalidate(x, active, ok))
<1>1. Grows(x, x)
  BY EndFields DEF Grows, Follows, Sound, Begins
<1> QED BY <1>1, CloseGrows DEF Revalidate

LEMMA RejectGrows ==
  ASSUME NEW x, Sound(x), NEW reason, NEW ok \in BOOLEAN
  PROVE  Grows(x, RejectHandshake(x, reason, ok))
<1> DEFINE f == [kind |-> "reject", seq |-> 0]
           y == WriteFrame(x, f, ok)
<1>1. f \in Frames /\ Counted(f, x.sent)
  BY DEF Frames, Handshake, Counted
<1>2. Grows(x, y)
  BY <1>1, WriteFrameGrows
<1>3. RejectHandshake(x, reason, ok) = Fail(y, reason)
  BY DEF RejectHandshake
<1> HIDE DEF f, y
<1>4. Sound(y)
  BY <1>2 DEF Grows, Follows
<1> QED BY <1>2, <1>3, <1>4, FailGrows, GrowsTransitive

\* The state of an end is set, the rest of it kept.
LEMMA StateSet ==
  ASSUME NEW x, Sound(x), NEW s \in States
  PROVE  Follows(x, [x EXCEPT !.st = s]) /\ [x EXCEPT !.st = s].st = s
<1> DEFINE y == [x EXCEPT !.st = s]
<1>1. x \in EndRecords /\ x.sent \in Seq(Kinds)
  BY EndFields DEF Sound
<1>2. /\ y \in EndRecords /\ y.sent = x.sent /\ y.handled = x.handled /\ y.cut = x.cut
      /\ y.st = s /\ y.wire = x.wire /\ y.queue = x.queue
  BY <1>1, Zenon DEF EndRecords
<1>3. Begins(x.sent, y.sent)
  BY <1>1, <1>2 DEF Begins
<1> HIDE DEF y
<1>4. Sound(y)
  BY <1>2 DEF Sound
<1>5. Follows(x, y) /\ y.st = s
  BY <1>2, <1>3, <1>4 DEF Follows
<1> QED BY <1>5 DEF y

LEMMA FollowsTransitive ==
  ASSUME NEW x, Sound(x), NEW y, NEW z, Follows(x, y), Follows(y, z)
  PROVE  Follows(x, z)
<1>1. x.sent \in Seq(Kinds) /\ y.sent \in Seq(Kinds) /\ z.sent \in Seq(Kinds)
  BY EndFields DEF Follows, Sound
<1>2. Begins(x.sent, z.sent)
  BY <1>1, BeginsTransitive DEF Follows
<1> QED BY <1>2 DEF Follows

\* The handshake: an end stays in it, is connected, or is closed.
LEMMA HandshakeFollows ==
  ASSUME NEW x, Sound(x), x.st = "handshaking", NEW role \in Roles, NEW f \in Frames,
         NEW t, NEW expired \in BOOLEAN, NEW ok \in BOOLEAN
  PROVE  LET y == OnHandshakeFrame(x, role, f, t, expired, ok)
         IN  Follows(x, y) /\ y.st \in {"handshaking", "connected", "closed"}
<1> DEFINE Outcome(y) == Follows(x, y) /\ y.st \in {"handshaking", "connected", "closed"}
           g == [kind |-> "accept", seq |-> 0]
           w == WriteFrame(x, g, ok)
<1>1. ASSUME NEW reason
      PROVE  Outcome(Fail(x, reason)) /\ Outcome(RejectHandshake(x, reason, ok))
  BY FailGrows, RejectGrows DEF Grows
<1>2. Outcome([x EXCEPT !.st = "connected"])
  BY StateSet DEF States
<1>3. Outcome([w EXCEPT !.st = "connected"])
  <2>1. g \in Frames /\ Counted(g, x.sent)
    BY DEF Frames, Handshake, Counted
  <2>2. Follows(x, w) /\ Sound(w)
    BY <2>1, WriteFrameGrows DEF Grows, Follows
  <2> HIDE DEF w
  <2>3. Follows(w, [w EXCEPT !.st = "connected"]) /\ [w EXCEPT !.st = "connected"].st = "connected"
    BY <2>2, StateSet DEF States
  <2> QED BY <2>2, <2>3, FollowsTransitive
<1> HIDE DEF Outcome, w
<1>4. Outcome(OnHandshakeInit(x, t, expired, ok))
  BY <1>1, <1>3 DEF OnHandshakeInit, w
<1>5. Outcome(OnHandshakeAccept(x, t, expired))
  BY <1>1, <1>2 DEF OnHandshakeAccept
<1>6. Outcome(OnHandshakeFrame(x, role, f, t, expired, ok))
  BY <1>1, <1>4, <1>5 DEF OnHandshakeFrame
<1> QED BY <1>6 DEF Outcome

\* A frame that is dispatched may be answered, or close the end.
LEMMA DispatchGrows ==
  ASSUME NEW x, Sound(x), NEW kind \in Kinds, NEW t, NEW bad \in BOOLEAN, NEW ok \in BOOLEAN
  PROVE  Grows(x, Dispatch(x, kind, t, bad, ok))
<1>1. Grows(x, x)
  BY EndFields DEF Grows, Follows, Sound, Begins
<1>2. Grows(x, SendSequenced(x, "response", ok))
  BY SendSequencedGrows DEF Kinds
<1>3. Grows(x, Revalidate(x, t # "none", ok)) /\ Grows(x, Close(x, "peerDrained", ok))
  BY RevalidateGrows, CloseGrows
<1>4. Grows(x, Fail(x, "peerClosed")) /\ Grows(x, Fail(x, "protocolError"))
  BY FailGrows
<1>5. Dispatch(x, kind, t, bad, ok) \in
        {x, SendSequenced(x, "response", ok), Revalidate(x, t # "none", ok),
         Close(x, "peerDrained", ok), Fail(x, "peerClosed"), Fail(x, "protocolError")}
  BY DEF Dispatch, Kinds
<1> QED BY <1>1, <1>2, <1>3, <1>4, <1>5

\* A numbered frame is counted as handled, which changes nothing else.
LEMMA HandledGrows ==
  ASSUME NEW x, Sound(x), NEW kind \in Kinds
  PROVE  LET y == [x EXCEPT !.handled = Append(@, kind)]
         IN  /\ Sound(y) /\ y.sent = x.sent /\ y.handled = Append(x.handled, kind)
             /\ y.cut = x.cut /\ y.st = x.st
<1> DEFINE y == [x EXCEPT !.handled = Append(@, kind)]
<1>1. /\ x \in EndRecords /\ x.handled \in Seq(Kinds) /\ Append(x.handled, kind) \in Seq(Kinds)
  BY EndFields, AppendProperties DEF Sound
<1>2. /\ y \in EndRecords /\ y.sent = x.sent /\ y.handled = Append(x.handled, kind)
      /\ y.cut = x.cut /\ y.st = x.st /\ y.wire = x.wire /\ y.queue = x.queue
  BY <1>1, Zenon DEF EndRecords
<1> HIDE DEF y
<1>3. Sound(y)
  BY <1>2 DEF Sound
<1> QED BY <1>2, <1>3 DEF y

\* The next frame is counted and dispatched, any other one is refused.
Handles(x, f, y) ==
  /\ Sound(y) /\ Begins(x.sent, y.sent) /\ y.cut = x.cut /\ y.st \in {x.st, "closed"}
  /\ \/ y.handled = x.handled
     \/ /\ f.kind \notin Handshake /\ f.seq = Len(x.handled) + 1
        /\ y.handled = Append(x.handled, f.kind)

\* A frame on an open connection is refused, or is the next one and is handled.
LEMMA ApplicationGrows ==
  ASSUME NEW x, Sound(x), NEW f \in Frames, NEW t, NEW bad \in BOOLEAN, NEW ok \in BOOLEAN
  PROVE  Handles(x, f, OnApplicationFrame(x, f, t, bad, ok))
<1> USE DEF Handles
<1> DEFINE y == OnApplicationFrame(x, f, t, bad, ok)
           h == [x EXCEPT !.handled = Append(@, f.kind)]
<1>1. CASE f.kind \in Handshake \/ ~SeqExpected(x, f)
  <2>1. y \in {Fail(x, "protocolDowngrade"), Fail(x, "sequenceViolation")}
    BY <1>1 DEF OnApplicationFrame
  <2> QED BY <2>1, FailGrows DEF Grows, Follows
<1>2. CASE f.kind \notin Handshake /\ SeqExpected(x, f)
  <2>1. f.kind \in Kinds /\ f.seq = Len(x.handled) + 1
    BY <1>2 DEF Frames, SeqExpected
  <2>2. /\ Sound(h) /\ h.sent = x.sent /\ h.handled = Append(x.handled, f.kind)
        /\ h.cut = x.cut /\ h.st = x.st
    BY <2>1, HandledGrows
  <2>3. y = Dispatch(h, f.kind, t, bad, ok)
    BY <1>2 DEF OnApplicationFrame
  <2> HIDE DEF h, y
  <2>4. Grows(h, y)
    BY <2>1, <2>2, <2>3, DispatchGrows
  <2>5. /\ Sound(y) /\ Begins(x.sent, y.sent) /\ y.cut = x.cut /\ y.st \in {x.st, "closed"}
        /\ y.handled = Append(x.handled, f.kind)
    BY <2>2, <2>4 DEF Grows, Follows
  <2> QED BY <1>2, <2>1, <2>5 DEF y
<1> QED BY <1>1, <1>2

\* Flushing hands to the stream what was queued.
LEMMA FlushedGrows ==
  ASSUME NEW x, Sound(x), NEW k \in Nat, k <= Len(x.queue)
  PROVE  Grows(x, Flushed(x, k))
<1> DEFINE q == SubSeq(x.queue, 1, k)
           r == SubSeq(x.queue, k + 1, Len(x.queue))
           y == [x EXCEPT !.wire = x.wire \o q, !.queue = r]
<1>1. /\ x \in EndRecords /\ x.sent \in Seq(Kinds) /\ x.wire \in Seq(Frames)
      /\ x.queue \in Seq(Frames) /\ Len(x.queue) \in Nat
  BY EndFields, LenProperties DEF Sound
<1>2. /\ q \in Seq(Frames) /\ Len(q) = k /\ \A i \in 1 .. k : q[i] = x.queue[i]
  BY <1>1, SubSeqProperties
<1>3. /\ r \in Seq(Frames) /\ Len(r) = Len(x.queue) - k
      /\ \A i \in 1 .. Len(r) : r[i] = x.queue[k + i]
  BY <1>1, SubSeqProperties
<1> HIDE DEF q, r
<1>4. /\ x.wire \o q \in Seq(Frames) /\ Len(x.wire \o q) = Len(x.wire) + k
      /\ \A i \in 1 .. Len(x.wire) + k :
            (x.wire \o q)[i] = IF i <= Len(x.wire) THEN x.wire[i] ELSE q[i - Len(x.wire)]
  <2>0. x.wire \o q \in Seq(Frames)
    BY <1>1, <1>2, ConcatProperties, Zenon
  <2>1. Len(x.wire \o q) = Len(x.wire) + k
    BY <1>1, <1>2, ConcatProperties, Zenon
  <2>2. \A i \in 1 .. Len(x.wire) + k :
          (x.wire \o q)[i] = IF i <= Len(x.wire) THEN x.wire[i] ELSE q[i - Len(x.wire)]
    BY <1>1, <1>2
  <2> QED BY <2>0, <2>1, <2>2
<1>5. /\ y \in EndRecords /\ y.sent = x.sent /\ y.handled = x.handled /\ y.cut = x.cut
      /\ y.st = x.st /\ y.wire = x.wire \o q /\ y.queue = r
  BY <1>1, <1>3, <1>4, Zenon DEF EndRecords
<1>6. Flushed(x, k) = y
  BY DEF Flushed, q, r
<1> HIDE DEF y
<1>7. ASSUME NEW i \in 1 .. Len(y.wire) PROVE Counted(y.wire[i], y.sent)
  <2>1. i \in 1 .. Len(x.wire) + k /\ Len(x.wire) \in Nat
    BY <1>1, <1>4, <1>5, LenProperties
  <2>2. CASE i <= Len(x.wire)
    <3>1. i \in 1 .. Len(x.wire) /\ y.wire[i] = x.wire[i]
      BY <1>4, <1>5, <2>1, <2>2
    <3> QED BY <1>5, <3>1 DEF Sound
  <2>3. CASE ~(i <= Len(x.wire))
    <3>1. i - Len(x.wire) \in 1 .. k /\ y.wire[i] = x.queue[i - Len(x.wire)]
      BY <1>2, <1>4, <1>5, <2>1, <2>3
    <3>2. i - Len(x.wire) \in 1 .. Len(x.queue)
      BY <1>1, <3>1
    <3> QED BY <1>5, <3>1, <3>2 DEF Sound
  <2> QED BY <2>2, <2>3
<1>8. \A i \in 1 .. Len(y.queue) : Counted(y.queue[i], y.sent)
  BY <1>1, <1>3, <1>5, SMTT(40) DEF Sound
<1>9. Begins(x.sent, y.sent)
  BY <1>1, <1>5 DEF Begins
<1>10. Sound(y)
  BY <1>5, <1>7, <1>8 DEF Sound
<1> QED BY <1>5, <1>6, <1>9, <1>10 DEF Grows, Follows

-----------------------------------------------------------------------------
(* The two ends of a connection.                                           *)

\* One step changes the logs of one end, e, which sends, handles the next frame
\* of its peer, or both; of the others it changes what is under way at most.
StepOf(e) ==
  /\ ends' \in [Ends -> EndRecords]
  /\ \A d \in Ends : Sound(ends'[d])
  /\ \A d \in Ends \ {e} :
       /\ ends'[d].sent = ends[d].sent /\ ends'[d].handled = ends[d].handled
       /\ ends'[d].st = ends[d].st /\ ends'[d].cut = ends[d].cut
  /\ Begins(ends[e].sent, ends'[e].sent)
  /\ ends'[e].handled = ends[e].handled \/ HandlesNext(e, ends'[e].handled)
  /\ ends'[e].st # "off"

LEMMA PeerFacts ==
  ASSUME NEW e \in Ends
  PROVE  /\ Peer(e) \in Ends /\ Peer(e) # e /\ Peer(Peer(e)) = e
         /\ e[1] \in Conns /\ e[2] \in Roles /\ e = <<e[1], e[2]>>
BY DEF Ends, Peer, Roles

\* The stream of an end loses frames.
LEMMA ShorterWire ==
  ASSUME NEW x, Sound(x), NEW w \in Seq(Frames),
         \A i \in 1 .. Len(w) : \E j \in 1 .. Len(x.wire) : w[i] = x.wire[j]
  PROVE  LET y == [x EXCEPT !.wire = w]
         IN  /\ Sound(y) /\ y.wire = w
             /\ y.sent = x.sent /\ y.handled = x.handled /\ y.st = x.st /\ y.cut = x.cut
<1> DEFINE y == [x EXCEPT !.wire = w]
<1>1. x \in EndRecords
  BY DEF Sound
<1>2. /\ y \in EndRecords /\ y.sent = x.sent /\ y.handled = x.handled /\ y.cut = x.cut
      /\ y.st = x.st /\ y.wire = w /\ y.queue = x.queue
  BY <1>1, Zenon DEF EndRecords
<1> HIDE DEF y
<1>3. Sound(y)
  BY <1>2 DEF Sound
<1> QED BY <1>2, <1>3 DEF y

\* The end e is replaced by x and some of what is under way to it is dropped.
LEMMA ReplaceIsStep ==
  ASSUME ends \in [Ends -> EndRecords], LogsOK, NEW e \in Ends, NEW x,
         Sound(x), Begins(ends[e].sent, x.sent), x.st # "off",
         x.handled = ends[e].handled \/ HandlesNext(e, x.handled),
         NEW w \in Seq(Frames),
         \A i \in 1 .. Len(w) : \E j \in 1 .. Len(ends[Peer(e)].wire) : w[i] = ends[Peer(e)].wire[j],
         ends' = [ends EXCEPT ![e] = x, ![Peer(e)].wire = w]
  PROVE  StepOf(e) /\ ends'[e] = x
<1> DEFINE p == Peer(e)
<1>1. p \in Ends /\ p # e /\ Sound(ends[p]) /\ x \in EndRecords
  BY PeerFacts DEF LogsOK, Sound
<1>2. /\ ends' \in [Ends -> EndRecords] /\ ends'[e] = x
      /\ ends'[p] = [ends[p] EXCEPT !.wire = w]
      /\ \A d \in Ends \ {e, p} : ends'[d] = ends[d]
  <2>1. [ends[p] EXCEPT !.wire = w] \in EndRecords
    BY <1>1, Zenon DEF EndRecords
  <2> QED BY <1>1, <2>1
<1>3. /\ Sound(ends'[p]) /\ ends'[p].sent = ends[p].sent /\ ends'[p].handled = ends[p].handled
      /\ ends'[p].st = ends[p].st /\ ends'[p].cut = ends[p].cut
  BY <1>1, <1>2, ShorterWire
<1> HIDE DEF p
<1>4. \A d \in Ends : Sound(ends'[d])
  BY <1>2, <1>3 DEF LogsOK
<1> QED BY <1>2, <1>3, <1>4 DEF StepOf

\* A step of one end keeps the logs of all in order.
LEMMA StepKeepsLogs ==
  ASSUME ends \in [Ends -> EndRecords], LogsOK, NEW e \in Ends, StepOf(e)
  PROVE  LogsOK'
<1>1. \A d \in Ends : Sound(ends'[d])
  BY DEF StepOf
<1>2. ASSUME NEW d \in Ends PROVE Begins(ends'[d].handled, ends'[Peer(d)].sent)
  <2> DEFINE p == Peer(d)
  <2>1. /\ p \in Ends /\ p # d /\ ends[d] \in EndRecords /\ ends[p] \in EndRecords
        /\ ends'[d] \in EndRecords /\ ends'[p] \in EndRecords
    BY PeerFacts DEF StepOf
  <2>2. /\ ends[d].handled \in Seq(Kinds) /\ ends[p].sent \in Seq(Kinds)
        /\ ends'[d].handled \in Seq(Kinds) /\ ends'[p].sent \in Seq(Kinds)
    BY <2>1, EndFields
  <2>3. Begins(ends[d].handled, ends[p].sent)
    BY DEF LogsOK
  <2>4. Begins(ends[p].sent, ends'[p].sent)
    BY <2>1, <2>2 DEF StepOf, Begins
  <2>5. CASE ends'[d].handled = ends[d].handled
    BY <2>2, <2>3, <2>4, <2>5, BeginsTransitive
  <2>6. CASE HandlesNext(d, ends'[d].handled)
    <3>1. Begins(ends'[d].handled, ends[p].sent)
      BY <2>2, <2>3, <2>6 DEF HandlesNext, Begins
    <3> QED BY <2>2, <2>4, <3>1, BeginsTransitive
  <2> QED BY <2>5, <2>6 DEF StepOf
<1> QED BY <1>1, <1>2 DEF LogsOK

\* In the terms of the link: one direction goes on by frames that are sent, the
\* other by the next frame handled, and every other direction stays.
LEMMA StepIsLinkStep ==
  ASSUME ends \in [Ends -> EndRecords], LogsOK, NEW e \in Ends, StepOf(e)
  PROVE  Link!Next
<1> DEFINE s == [d \in Ends |-> ends[d].sent]
           h == [d \in Ends |-> ends[Peer(d)].handled]
           s1 == [d \in Ends |-> ends'[d].sent]
           h1 == [d \in Ends |-> ends'[Peer(d)].handled]
<1>1. ASSUME NEW d \in Ends
      PROVE  \/ /\ s1[d] \in Seq(Kinds) /\ Len(s[d]) <= Len(s1[d])
                /\ SubSeq(s1[d], 1, Len(s[d])) = s[d] /\ h1[d] = h[d]
             \/ /\ Len(h[d]) < Len(s[d]) /\ h1[d] = Append(h[d], s[d][Len(h[d]) + 1])
                /\ s1[d] = s[d]
  <2> DEFINE p == Peer(d)
  <2>1. /\ p \in Ends /\ p # d /\ Peer(p) = d /\ ends[d] \in EndRecords /\ ends[p] \in EndRecords
        /\ ends'[d] \in EndRecords /\ ends'[p] \in EndRecords
    BY PeerFacts DEF StepOf
  <2>2. ends[d].sent \in Seq(Kinds) /\ ends'[d].sent \in Seq(Kinds)
    BY <2>1, EndFields
  <2>3. CASE ends'[p].handled = ends[p].handled
    <3>1. Begins(ends[d].sent, ends'[d].sent)
      BY <2>1, <2>2 DEF StepOf, Begins
    <3>2. Len(ends[d].sent) <= Len(ends'[d].sent)
      BY <3>1 DEF Begins
    <3>3. SubSeq(ends'[d].sent, 1, Len(ends[d].sent)) = ends[d].sent
      BY <2>2, <3>1 DEF Begins
    <3> QED BY <2>1, <2>2, <2>3, <3>2, <3>3
  <2>4. CASE ends'[p].handled # ends[p].handled
    <3>1. p = e /\ HandlesNext(p, ends'[p].handled) /\ ends'[d].sent = ends[d].sent
      BY <2>1, <2>4 DEF StepOf
    <3> QED BY <2>1, <3>1 DEF HandlesNext
  <2> QED BY <2>3, <2>4
<1> QED BY <1>1 DEF Link!Next, Link!Send, Link!Deliver

-----------------------------------------------------------------------------
(* A turn of a live end: Settle.                                           *)

\* The surroundings of e: as they were, or with the first frame to e read.
Around(e, es) ==
  \/ es = ends
  \/ ends[Peer(e)].wire # <<>> /\ es = [ends EXCEPT ![Peer(e)].wire = Tail(@)]

\* A live end reacts, and the rest of the turn follows.
Turn(e, x, es) ==
  /\ ends[e].st \in {"handshaking"} \cup Open
  /\ Reacts(e, x) /\ Around(e, es) /\ Settle(e, x, es)

\* The socket of an end is destroyed or not, the rest of the end kept.
LEMMA CutSet ==
  ASSUME NEW x, Sound(x), NEW b \in BOOLEAN
  PROVE  LET y == [x EXCEPT !.cut = b]
         IN  /\ Sound(y) /\ y.cut = b
             /\ y.sent = x.sent /\ y.handled = x.handled /\ y.st = x.st
<1> DEFINE y == [x EXCEPT !.cut = b]
<1>1. x \in EndRecords
  BY DEF Sound
<1>2. /\ y \in EndRecords /\ y.sent = x.sent /\ y.handled = x.handled /\ y.cut = b
      /\ y.st = x.st /\ y.wire = x.wire /\ y.queue = x.queue
  BY <1>1, Zenon DEF EndRecords
<1> HIDE DEF y
<1>3. Sound(y)
  BY <1>2 DEF Sound
<1> QED BY <1>2, <1>3 DEF y

LEMMA TurnIsStep ==
  ASSUME TypeOK, LogsOK, NEW e \in Ends, NEW x, NEW es, Turn(e, x, es)
  PROVE  /\ StepOf(e) /\ ends'[e].st = x.st
         /\ ends'[e].cut = IF Authenticates(e, x) THEN ~SlotFree ELSE ends[e].cut
<1> DEFINE p == Peer(e)
           z == IF Authenticates(e, x) THEN [x EXCEPT !.cut = ~SlotFree] ELSE x
           v == IF es = ends THEN ends[p].wire ELSE Tail(ends[p].wire)
           w == IF x.st = "closed" THEN <<>> ELSE v
<1>1. /\ p \in Ends /\ p # e /\ ends \in [Ends -> EndRecords]
      /\ ends[p] \in EndRecords /\ ends[p].wire \in Seq(Frames)
  BY PeerFacts, EndFields DEF TypeOK
<1>2. /\ Sound(z) /\ z.sent = x.sent /\ z.handled = x.handled /\ z.st = x.st
      /\ z.cut = IF Authenticates(e, x) THEN ~SlotFree ELSE ends[e].cut
  <2>1. CASE Authenticates(e, x)
    <3>1. (~SlotFree) \in BOOLEAN
      OBVIOUS
    <3> QED BY <2>1, <3>1, CutSet DEF Turn, Reacts
  <2>2. CASE ~Authenticates(e, x)
    BY <2>2 DEF Turn, Reacts
  <2> QED BY <2>1, <2>2
<1>3. /\ w \in Seq(Frames)
      /\ \A i \in 1 .. Len(w) : \E j \in 1 .. Len(ends[p].wire) : w[i] = ends[p].wire[j]
  <2>1. CASE x.st = "closed"
    BY <2>1
  <2>2. CASE es = ends /\ x.st # "closed"
    BY <1>1, <2>2
  <2>3. CASE es # ends /\ x.st # "closed"
    <3>1. ends[p].wire # <<>> /\ w = Tail(ends[p].wire)
      BY <2>3 DEF Turn, Around
    <3> HIDE DEF w
    <3>2. /\ w \in Seq(Frames) /\ Len(w) = Len(ends[p].wire) - 1 /\ Len(ends[p].wire) \in Nat
          /\ \A i \in 1 .. Len(w) : w[i] = ends[p].wire[i + 1]
      BY <1>1, <3>1, HeadTailProperties, LenProperties, Zenon
    <3>3. \A i \in 1 .. Len(w) : i + 1 \in 1 .. Len(ends[p].wire)
      BY <3>2
    <3> QED BY <3>2, <3>3
  <2> QED BY <2>1, <2>2, <2>3
<1>4. ends' = [ends EXCEPT ![e] = z, ![p].wire = w]
  <2>1. ends' = [es EXCEPT ![e] = z, ![p].wire = IF x.st = "closed" THEN <<>> ELSE es[p].wire]
    BY DEF Turn, Settle
  <2>2. CASE es = ends
    BY <2>1, <2>2
  <2>3. CASE es # ends
    <3>1. es = [ends EXCEPT ![p].wire = Tail(ends[p].wire)]
      BY <2>3 DEF Turn, Around
    <3>2. es[p].wire = v
      BY <1>1, <2>3, <3>1, Zenon DEF EndRecords
    <3>3. ends' = [es EXCEPT ![e] = z, ![p].wire = w]
      BY <2>1, <3>2
    <3> HIDE DEF z, w, v
    <3>4. ASSUME NEW d \in Ends
          PROVE  ends'[d] = IF d = e THEN z ELSE IF d = p THEN [ends[p] EXCEPT !.wire = w] ELSE ends[d]
      <4>1. [[ends[p] EXCEPT !.wire = Tail(ends[p].wire)] EXCEPT !.wire = w] = [ends[p] EXCEPT !.wire = w]
        BY <1>1 DEF EndRecords
      <4>2. es[p] = [ends[p] EXCEPT !.wire = Tail(ends[p].wire)]
        BY <1>1, <3>1
      <4>3. d # p => es[d] = ends[d]
        BY <1>1, <3>1
      <4> QED BY <1>1, <3>1, <3>3, <4>1, <4>2, <4>3
    <3>5. /\ DOMAIN ends' = Ends /\ ends' = [d \in Ends |-> ends'[d]]
      BY <1>1, <3>1, <3>3
    <3> QED BY <1>1, <3>4, <3>5
  <2> QED BY <2>2, <2>3
<1>5. z.st # "off" /\ Begins(ends[e].sent, z.sent)
  BY <1>2 DEF Turn, Reacts, Open
<1>6. z.handled = ends[e].handled \/ HandlesNext(e, z.handled)
  BY <1>2 DEF Turn, Reacts
<1> HIDE DEF z, w
<1>7. StepOf(e) /\ ends'[e] = z
  BY <1>1, <1>2, <1>3, <1>4, <1>5, <1>6, ReplaceIsStep
<1> QED BY <1>2, <1>7

\* The redial loop after a turn.
LEMMA TurnKeepsLoop ==
  ASSUME IInv, NEW e \in Ends, NEW x, NEW es, Turn(e, x, es)
  PROVE  /\ loop' \in [phase : {"idle", "live", "waiting", "stopped"}, current : 0 .. MaxDials,
                       stopRequested : BOOLEAN, giveUps : Nat]
         /\ GivesUpOnce' /\ FreshOK'
<1>1. /\ StepOf(e) /\ ends'[e].st = x.st /\ loop' = LoopAfter(e, x)
      /\ loop \in [phase : {"idle", "live", "waiting", "stopped"}, current : 0 .. MaxDials,
                   stopRequested : BOOLEAN, giveUps : Nat]
      /\ x.st # "off" /\ ends[e].st \notin {"off", "closed"}
  BY TurnIsStep DEF IInv, TypeOK, Turn, Settle, Reacts, Open
<1>2. \A d \in Ends \ {e} : ends'[d].st = ends[d].st
  BY <1>1 DEF StepOf
<1>3. e[2] = "initiator" => loop.phase = "live" /\ e = <<loop.current, "initiator">>
  BY <1>1, PeerFacts DEF IInv, GivesUpOnce
<1>4. \A c \in Conns : <<c, "initiator">> \in Ends
  BY DEF Ends, Roles
<1>5. CASE e[2] = "initiator" /\ x.st = "closed"
  <2>1. CASE loop.stopRequested \/ x.why # "transient"
    <3>1. loop' = [loop EXCEPT !.phase = "stopped", !.giveUps = @ + 1]
      BY <1>1, <1>5, <2>1 DEF LoopAfter
    <3>2. /\ loop' \in [phase : {"idle", "live", "waiting", "stopped"}, current : 0 .. MaxDials,
                       stopRequested : BOOLEAN, giveUps : Nat]
          /\ loop'.phase = "stopped" /\ loop'.giveUps = loop.giveUps + 1 /\ loop'.current = loop.current
      <4>1. loop.giveUps + 1 \in Nat
        BY <1>1
      <4> QED BY <1>1, <3>1, <4>1, Zenon
    <3>3. GivesUpOnce'
      BY <1>1, <1>2, <1>3, <1>4, <1>5, <3>2 DEF IInv, GivesUpOnce
    <3>4. FreshOK'
      BY <1>1, <1>2, <1>4, <3>2 DEF IInv, FreshOK, StepOf
    <3> QED BY <3>2, <3>3, <3>4
  <2>2. CASE ~(loop.stopRequested \/ x.why # "transient")
    <3>1. loop' = [loop EXCEPT !.phase = "waiting"]
      BY <1>1, <1>5, <2>2 DEF LoopAfter
    <3>2. /\ loop' \in [phase : {"idle", "live", "waiting", "stopped"}, current : 0 .. MaxDials,
                       stopRequested : BOOLEAN, giveUps : Nat]
          /\ loop'.phase = "waiting" /\ loop'.giveUps = loop.giveUps /\ loop'.current = loop.current
      BY <1>1, <3>1
    <3>3. GivesUpOnce'
      BY <1>1, <1>2, <1>3, <1>4, <1>5, <3>2 DEF IInv, GivesUpOnce
    <3>4. FreshOK'
      BY <1>1, <1>2, <1>4, <3>2 DEF IInv, FreshOK, StepOf
    <3> QED BY <3>2, <3>3, <3>4
  <2> QED BY <2>1, <2>2
<1>6. CASE ~(e[2] = "initiator" /\ x.st = "closed")
  <2>1. loop' = loop
    BY <1>1, <1>6 DEF LoopAfter
  <2>2. GivesUpOnce'
    BY <1>1, <1>2, <1>3, <1>4, <1>6, <2>1 DEF IInv, GivesUpOnce
  <2>3. FreshOK'
    BY <1>1, <1>2, <1>4, <2>1 DEF IInv, FreshOK, StepOf
  <2> QED BY <1>1, <2>1, <2>2, <2>3
<1> QED BY <1>5, <1>6

\* The sessions of the answering daemon that are in their handshake, and those
\* that hold a slot of the peer.
InHandshake == {c \in Conns : ends[<<c, "responder">>].st = "handshaking"}
HoldSlot == {c \in Conns : ends[<<c, "responder">>].st \in Open /\ ~ends[<<c, "responder">>].cut}

LEMMA AdmissionCounts ==
  /\ IsFiniteSet(InHandshake) /\ Cardinality(InHandshake) \in Nat
  /\ IsFiniteSet(HoldSlot) /\ Cardinality(HoldSlot) \in Nat
  /\ AdmissionExact <=> /\ admission.handshaking = Cardinality(InHandshake)
                        /\ admission.authenticated = Cardinality(HoldSlot)
                        /\ admission.authenticated <= MaxPerPeer
                        /\ admission.handshaking <= MaxHandshaking
<1>1. IsFiniteSet(Conns)
  BY FS_Interval, BoundsAssumption DEF Conns
<1>2. IsFiniteSet(InHandshake) /\ IsFiniteSet(HoldSlot)
  BY <1>1, FS_Subset DEF InHandshake, HoldSlot
<1> QED BY <1>2, FS_CardinalityType DEF AdmissionExact, InHandshake, HoldSlot

\* The counters after a turn.
LEMMA TurnKeepsAdmission ==
  ASSUME IInv, NEW e \in Ends, NEW x, NEW es, Turn(e, x, es)
  PROVE  AdmissionExact' /\ admission' \in [handshaking : Nat, authenticated : Nat]
<1> DEFINE c0 == e[1]
           leaves == e[2] = "responder" /\ ends[e].st = "handshaking" /\ x.st # "handshaking"
           releases == e[2] = "responder" /\ ends[e].st \in Open /\ ~ends[e].cut /\ x.st = "closed"
           takes == Authenticates(e, x) /\ SlotFree
<1>1. /\ StepOf(e) /\ ends'[e].st = x.st
      /\ ends'[e].cut = IF Authenticates(e, x) THEN ~SlotFree ELSE ends[e].cut
      /\ admission' = AdmissionAfter(e, x)
      /\ ends[e].st \in {"handshaking"} \cup Open
      /\ ends[e].st = "handshaking" => x.st \in {"handshaking", "connected", "closed"}
      /\ ends[e].st \in Open => x.st \in Open \cup {"closed"}
  BY TurnIsStep DEF IInv, Turn, Settle, Reacts
<1>2. \A d \in Ends \ {e} : ends'[d].st = ends[d].st /\ ends'[d].cut = ends[d].cut
  BY <1>1 DEF StepOf
<1>3. /\ c0 \in Conns /\ e[2] \in Roles /\ e = <<c0, e[2]>>
      /\ \A c \in Conns : <<c, "responder">> \in Ends
      /\ \A c \in Conns \ {c0} : <<c, "responder">> # e
  BY PeerFacts DEF Ends, Roles
<1>4. /\ admission.handshaking = Cardinality(InHandshake)
      /\ admission.authenticated = Cardinality(HoldSlot)
      /\ admission.authenticated <= MaxPerPeer /\ admission.handshaking <= MaxHandshaking
      /\ admission.handshaking \in Nat /\ admission.authenticated \in Nat
  BY AdmissionCounts DEF IInv, TypeOK
<1>5. admission'.handshaking = admission.handshaking - (IF leaves THEN 1 ELSE 0)
  BY <1>1 DEF AdmissionAfter
<1>6. admission'.authenticated =
        admission.authenticated + (IF takes THEN 1 ELSE 0) - (IF releases THEN 1 ELSE 0)
  BY <1>1 DEF AdmissionAfter
<1>7. /\ leaves => c0 \in InHandshake /\ InHandshake' = InHandshake \ {c0}
      /\ ~leaves => InHandshake' = InHandshake
  BY <1>1, <1>2, <1>3 DEF InHandshake, Open
<1>8. /\ takes => c0 \notin HoldSlot /\ HoldSlot' = HoldSlot \cup {c0} /\ ~releases
      /\ releases => c0 \in HoldSlot /\ HoldSlot' = HoldSlot \ {c0}
      /\ ~takes /\ ~releases => HoldSlot' = HoldSlot
  <2>1. \A c \in Conns \ {c0} : c \in HoldSlot' <=> c \in HoldSlot
    BY <1>2, <1>3 DEF HoldSlot
  <2>2. e[2] # "responder" => (c0 \in HoldSlot' <=> c0 \in HoldSlot)
    BY <1>2, <1>3 DEF HoldSlot
  <2>3. e[2] = "responder" =>
          /\ c0 \in HoldSlot <=> ends[e].st \in Open /\ ~ends[e].cut
          /\ c0 \in HoldSlot' <=> ends'[e].st \in Open /\ ~ends'[e].cut
    BY <1>3 DEF HoldSlot
  <2>4. takes => e[2] = "responder" /\ c0 \notin HoldSlot /\ c0 \in HoldSlot' /\ ~releases
    BY <1>1, <2>3 DEF Authenticates, Open
  <2>5. releases => c0 \in HoldSlot /\ c0 \notin HoldSlot'
    BY <1>1, <2>3 DEF Open
  <2>6. ~takes /\ ~releases => (c0 \in HoldSlot' <=> c0 \in HoldSlot)
    BY <1>1, <2>2, <2>3 DEF Open, Authenticates
  <2>7. HoldSlot \subseteq Conns /\ HoldSlot' \subseteq Conns
    BY DEF HoldSlot
  <2> HIDE DEF takes, releases
  <2> QED BY <1>3, <2>1, <2>4, <2>5, <2>6, <2>7
<1> HIDE DEF leaves, takes, releases
<1>9. /\ admission'.handshaking = Cardinality(InHandshake') /\ admission'.handshaking \in Nat
      /\ admission'.handshaking <= MaxHandshaking
  <2>1. CASE leaves
    <3>1. Cardinality(InHandshake') = Cardinality(InHandshake) - 1 /\ Cardinality(InHandshake') \in Nat
      BY <1>7, <2>1, AdmissionCounts, FS_RemoveElement, FS_CardinalityType
    <3> QED BY <1>4, <1>5, <2>1, <3>1, BoundsAssumption
  <2>2. CASE ~leaves
    BY <1>4, <1>5, <1>7, <2>2, BoundsAssumption
  <2> QED BY <2>1, <2>2
<1>10. /\ admission'.authenticated = Cardinality(HoldSlot') /\ admission'.authenticated \in Nat
       /\ admission'.authenticated <= MaxPerPeer
  <2>1. CASE takes
    <3>1. admission.authenticated < MaxPerPeer
      BY <2>1 DEF takes, SlotFree
    <3> QED BY <1>4, <1>6, <1>8, <2>1, <3>1, AdmissionCounts, FS_AddElement, BoundsAssumption
  <2>2. CASE releases
    <3>1. Cardinality(HoldSlot') = Cardinality(HoldSlot) - 1 /\ Cardinality(HoldSlot') \in Nat
      BY <1>8, <2>2, AdmissionCounts, FS_RemoveElement, FS_CardinalityType
    <3> QED BY <1>4, <1>6, <1>8, <2>2, <3>1, BoundsAssumption
  <2>3. CASE ~takes /\ ~releases
    BY <1>4, <1>6, <1>8, <2>3, BoundsAssumption
  <2> QED BY <2>1, <2>2, <2>3
<1>11. admission' \in [handshaking : Nat, authenticated : Nat]
  BY <1>1, <1>9, <1>10 DEF AdmissionAfter
<1>12. AdmissionExact'
  BY <1>9, <1>10 DEF AdmissionExact, InHandshake, HoldSlot
<1> QED BY <1>11, <1>12

\* A turn keeps the invariant, and is a step of the link.
LEMMA TurnKeeps ==
  ASSUME IInv, NEW e \in Ends, NEW x, NEW es, Turn(e, x, es)
  PROVE  IInv' /\ Link!Next
<1>1. StepOf(e) /\ ends \in [Ends -> EndRecords]
  BY TurnIsStep DEF IInv, TypeOK
<1>2. LogsOK' /\ Link!Next
  BY <1>1, StepKeepsLogs, StepIsLinkStep DEF IInv
<1>3. peerTrust' = peerTrust
  BY DEF Turn, Settle
<1>4. TypeOK'
  BY <1>1, <1>3, TurnKeepsLoop, TurnKeepsAdmission DEF IInv, TypeOK, StepOf
<1> QED BY <1>2, <1>4, TurnKeepsLoop, TurnKeepsAdmission DEF IInv

-----------------------------------------------------------------------------
(* The actions.                                                            *)

\* What an end writes of its own accord is a reaction.
LEMMA GrowsReacts ==
  ASSUME NEW e \in Ends, NEW x, ends[e].st \in {"handshaking"} \cup Open, Grows(ends[e], x)
  PROVE  Reacts(e, x)
BY DEF Grows, Follows, Reacts, Open

LEMMA ReceiveKeeps ==
  ASSUME IInv, NEW e \in Ends, NEW expired \in BOOLEAN, NEW bad \in BOOLEAN, NEW ok \in BOOLEAN,
         Receive(e, expired, bad, ok)
  PROVE  IInv' /\ Link!Next
<1> DEFINE p == Peer(e)
           f == Head(ends[p].wire)
           t == peerTrust[e[2]]
           x == IF ends[e].st = "handshaking" THEN OnHandshakeFrame(ends[e], e[2], f, t, expired, ok)
                ELSE OnApplicationFrame(ends[e], f, t, bad, ok)
           es == [ends EXCEPT ![p].wire = Tail(@)]
<1>1. /\ ends[e].st \in {"handshaking"} \cup Open /\ ends[p].wire # <<>> /\ Settle(e, x, es)
  BY DEF Receive, Live
<1>2. /\ p \in Ends /\ e[2] \in Roles /\ Sound(ends[e]) /\ Sound(ends[p])
      /\ ends[p].wire \in Seq(Frames) /\ ends[p].sent \in Seq(Kinds) /\ ends[e].handled \in Seq(Kinds)
  BY PeerFacts, EndFields DEF IInv, LogsOK, Sound
<1>3. f \in Frames /\ Counted(f, ends[p].sent)
  <2>1. f = ends[p].wire[1] /\ 1 \in 1 .. Len(ends[p].wire) /\ f \in Frames
    BY <1>1, <1>2
  <2> QED BY <1>2, <2>1 DEF Sound
<1> HIDE DEF f, t
<1>4. CASE ends[e].st = "handshaking"
  <2>1. Follows(ends[e], x) /\ x.st \in {"handshaking", "connected", "closed"}
    BY <1>2, <1>3, <1>4, HandshakeFollows
  <2>2. Reacts(e, x)
    BY <1>4, <2>1 DEF Reacts, Follows, Open
  <2> HIDE DEF x
  <2>3. Turn(e, x, es)
    BY <1>1, <2>2 DEF Turn, Around
  <2> QED BY <2>3, TurnKeeps
<1>5. CASE ends[e].st # "handshaking"
  <2>0. x = OnApplicationFrame(ends[e], f, t, bad, ok)
    BY <1>5
  <2> HIDE DEF x
  <2>1. Handles(ends[e], f, x)
    BY <1>2, <1>3, <2>0, ApplicationGrows
  <2>2. x.handled = ends[e].handled \/ HandlesNext(e, x.handled)
    BY <1>2, <1>3, <2>1, SMTT(40) DEF Counted, Handles, HandlesNext
  <2>3. Reacts(e, x)
    BY <1>1, <1>5, <2>1, <2>2 DEF Handles, Reacts, Open
  <2>4. Turn(e, x, es)
    BY <1>1, <2>3 DEF Turn, Around
  <2> QED BY <2>4, TurnKeeps
<1> QED BY <1>4, <1>5

\* The turns in which an end sends, flushes, or loses its connection.
LEMMA WritesKeep ==
  ASSUME IInv, NEW e \in Ends,
         \/ \E ok \in BOOLEAN : \/ SendRequest(e, ok) \/ SendData(e, ok) \/ SendHeartbeat(e, ok)
                               \/ Drain(e, ok) \/ DrainGraceElapsed(e, ok)
         \/ \E k \in 1 .. MaxQueue : OnDrain(e, k)
         \/ HandshakeTimeout(e) \/ IdleTimeout(e) \/ TransportClose(e)
  PROVE  IInv' /\ Link!Next
<1>1. Sound(ends[e])
  BY DEF IInv, LogsOK
<1>2. SUFFICES \E x : /\ ends[e].st \in {"handshaking"} \cup Open
                      /\ Reacts(e, x) /\ Settle(e, x, ends)
  BY TurnKeeps DEF Turn, Around
<1>3. ASSUME NEW ok \in BOOLEAN, SendRequest(e, ok)
      PROVE  ends[e].st \in Open /\ Grows(ends[e], SendSequenced(ends[e], "request", ok))
  BY <1>1, <1>3, SendSequencedGrows DEF SendRequest, Open, Kinds
<1>4. ASSUME NEW ok \in BOOLEAN, SendData(e, ok)
      PROVE  ends[e].st \in Open /\ Grows(ends[e], SendSequenced(ends[e], "data", ok))
  BY <1>1, <1>4, SendSequencedGrows DEF SendData, Kinds
<1>5. ASSUME NEW ok \in BOOLEAN, SendHeartbeat(e, ok)
      PROVE  /\ ends[e].st \in Open
             /\ Grows(ends[e], Revalidate(SendSequenced(ends[e], "heartbeat", ok), peerTrust[e[2]] # "none", ok))
  <2> DEFINE y == SendSequenced(ends[e], "heartbeat", ok)
             active == peerTrust[e[2]] # "none"
  <2>1. Grows(ends[e], y) /\ Sound(y) /\ active \in BOOLEAN
    BY <1>1, SendSequencedGrows DEF Kinds, Grows, Follows
  <2> HIDE DEF y, active
  <2>2. Grows(ends[e], Revalidate(y, active, ok))
    BY <1>1, <2>1, RevalidateGrows, GrowsTransitive
  <2> QED BY <1>5, <2>2 DEF SendHeartbeat, y, active
<1>6. ASSUME NEW ok \in BOOLEAN, Drain(e, ok)
      PROVE  /\ ends[e].st \in Open
             /\ Reacts(e, SendSequenced([ends[e] EXCEPT !.st = "draining"], "drain", ok))
  <2> DEFINE y == [ends[e] EXCEPT !.st = "draining"]
             z == SendSequenced(y, "drain", ok)
  <2>1. Follows(ends[e], y) /\ y.st = "draining"
    BY <1>1, StateSet DEF States
  <2> HIDE DEF y
  <2>2. Follows(y, z) /\ z.st \in {"draining", "closed"}
    BY <2>1, SendSequencedGrows DEF Follows, Grows, Kinds
  <2> HIDE DEF z
  <2>3. Follows(ends[e], z)
    BY <1>1, <2>1, <2>2, FollowsTransitive
  <2>4. ends[e].st = "connected"
    BY <1>6 DEF Drain
  <2>5. Reacts(e, z)
    BY <2>2, <2>3, <2>4 DEF Follows, Reacts, Open
  <2> QED BY <2>4, <2>5 DEF Open, y, z
<1>7. ASSUME NEW ok \in BOOLEAN, DrainGraceElapsed(e, ok)
      PROVE  ends[e].st \in Open /\ Grows(ends[e], Close(ends[e], "gracefulClose", ok))
  BY <1>1, <1>7, CloseGrows DEF DrainGraceElapsed, Open
<1>8. ASSUME NEW k \in 1 .. MaxQueue, OnDrain(e, k)
      PROVE  ends[e].st \in {"handshaking"} \cup Open /\ Grows(ends[e], Flushed(ends[e], k))
  BY <1>1, <1>8, FlushedGrows DEF OnDrain, Live
<1>9. ASSUME NEW reason PROVE Grows(ends[e], Fail(ends[e], reason))
  BY <1>1, FailGrows
<1>10. CASE \E ok \in BOOLEAN : SendRequest(e, ok)
  BY <1>3, <1>10, GrowsReacts DEF SendRequest
<1>11. CASE \E ok \in BOOLEAN : SendData(e, ok)
  BY <1>4, <1>11, GrowsReacts DEF SendData
<1>12. CASE \E ok \in BOOLEAN : SendHeartbeat(e, ok)
  BY <1>5, <1>12, GrowsReacts DEF SendHeartbeat
<1>13. CASE \E ok \in BOOLEAN : Drain(e, ok)
  BY <1>6, <1>13 DEF Drain
<1>14. CASE \E ok \in BOOLEAN : DrainGraceElapsed(e, ok)
  BY <1>7, <1>14, GrowsReacts DEF DrainGraceElapsed
<1>15. CASE \E k \in 1 .. MaxQueue : OnDrain(e, k)
  BY <1>8, <1>15, GrowsReacts DEF OnDrain
<1>16. CASE HandshakeTimeout(e)
  BY <1>9, <1>16, GrowsReacts DEF HandshakeTimeout
<1>17. CASE IdleTimeout(e)
  BY <1>9, <1>17, GrowsReacts DEF IdleTimeout
<1>18. CASE TransportClose(e)
  BY <1>9, <1>18, GrowsReacts DEF TransportClose
<1> QED BY <1>10, <1>11, <1>12, <1>13, <1>14, <1>15, <1>16, <1>17, <1>18

\* A step of an initiator leaves the sessions of the answering daemon alone.
LEMMA InitiatorKeepsAdmission ==
  ASSUME IInv, NEW e \in Ends, e[2] = "initiator", StepOf(e), admission' = admission
  PROVE  AdmissionExact'
<1>1. \A c \in Conns : <<c, "responder">> \in Ends \ {e}
  BY DEF Ends, Roles
<1>2. InHandshake' = InHandshake /\ HoldSlot' = HoldSlot
  BY <1>1 DEF StepOf, InHandshake, HoldSlot
<1>3. /\ admission.handshaking = Cardinality(InHandshake)
      /\ admission.authenticated = Cardinality(HoldSlot)
      /\ admission.authenticated <= MaxPerPeer /\ admission.handshaking <= MaxHandshaking
  BY AdmissionCounts DEF IInv
<1> QED BY <1>2, <1>3 DEF AdmissionExact, InHandshake, HoldSlot

LEMMA UnbornSound == Sound(Unborn)
<1>1. Unborn \in EndRecords
  BY Zenon, EmptySeq DEF Unborn, EndRecords, States
<1> QED BY <1>1 DEF Sound, Unborn

LEMMA DialKeeps ==
  ASSUME IInv, NEW ok \in BOOLEAN, Dial(ok)
  PROVE  IInv' /\ Link!Next
<1> DEFINE e == <<loop.current + 1, "initiator">>
           x == [Unborn EXCEPT !.st = "handshaking"]
           f == [kind |-> "init", seq |-> 0]
           y == IF peerTrust["initiator"] = "none" THEN Fail(x, "peerNotActive") ELSE WriteFrame(x, f, ok)
<1>1. /\ loop.phase \in {"idle", "waiting"} /\ loop.current \in Nat /\ loop.current < MaxDials
      /\ ends' = [ends EXCEPT ![e] = y]
      /\ loop' = [loop EXCEPT !.current = @ + 1,
                              !.phase = IF y.st = "closed" THEN "stopped" ELSE "live",
                              !.giveUps = @ + IF y.st = "closed" THEN 1 ELSE 0]
      /\ peerTrust' = peerTrust /\ admission' = admission
  BY DEF Dial, IInv, TypeOK
<1>2. loop.current + 1 \in Conns /\ e \in Ends /\ e[2] = "initiator"
  BY <1>1, BoundsAssumption DEF Conns, Ends, Roles
<1>3. ends[e].st = "off" /\ ends[e].sent = <<>> /\ ends[e].handled = <<>>
  BY <1>1, <1>2 DEF IInv, FreshOK
<1>4. Follows(Unborn, x) /\ x.st = "handshaking"
  BY UnbornSound, StateSet DEF States
<1>5. x.sent = <<>> /\ x.handled = <<>> /\ Sound(x)
  BY <1>4 DEF Follows, Unborn
<1> HIDE DEF x
<1>6. Grows(x, y)
  <2>1. f \in Frames /\ Counted(f, x.sent)
    BY DEF Frames, Handshake, Counted
  <2> QED BY <1>5, <2>1, FailGrows, WriteFrameGrows
<1>7. Sound(y) /\ y.handled = <<>> /\ y.st \in {"handshaking", "closed"} /\ y \in EndRecords
  BY <1>4, <1>5, <1>6 DEF Grows, Follows, Sound
<1> HIDE DEF y
<1>8. /\ ends \in [Ends -> EndRecords] /\ ends' \in [Ends -> EndRecords]
      /\ ends'[e] = y /\ \A d \in Ends \ {e} : ends'[d] = ends[d]
  BY <1>1, <1>2, <1>7 DEF IInv, TypeOK
<1>9. Begins(ends[e].sent, y.sent)
  <2>1. y.sent \in Seq(Kinds)
    BY <1>7, EndFields
  <2> QED BY <1>3, <2>1 DEF Begins
<1>10. StepOf(e)
  BY <1>3, <1>7, <1>8, <1>9 DEF StepOf, IInv, LogsOK
<1> HIDE DEF e
<1>11. LogsOK' /\ Link!Next
  BY <1>2, <1>8, <1>10, StepKeepsLogs, StepIsLinkStep DEF IInv
<1>12. AdmissionExact'
  BY <1>1, <1>2, <1>10, InitiatorKeepsAdmission
<1>13. /\ loop' \in [phase : {"idle", "live", "waiting", "stopped"}, current : 0 .. MaxDials,
                     stopRequested : BOOLEAN, giveUps : Nat]
       /\ loop'.phase = (IF y.st = "closed" THEN "stopped" ELSE "live")
       /\ loop'.current = loop.current + 1
       /\ loop'.giveUps = loop.giveUps + (IF y.st = "closed" THEN 1 ELSE 0)
  <2> DEFINE c == loop.current + 1
             ph == IF y.st = "closed" THEN "stopped" ELSE "live"
             g == loop.giveUps + (IF y.st = "closed" THEN 1 ELSE 0)
  <2>1. c \in 0 .. MaxDials /\ ph \in {"idle", "live", "waiting", "stopped"} /\ g \in Nat
    BY <1>1, BoundsAssumption DEF IInv, TypeOK
  <2>2. /\ loop' = [loop EXCEPT !.current = c, !.phase = ph, !.giveUps = g]
        /\ loop \in [phase : {"idle", "live", "waiting", "stopped"}, current : 0 .. MaxDials,
                     stopRequested : BOOLEAN, giveUps : Nat]
    BY <1>1 DEF IInv, TypeOK
  <2> HIDE DEF c, ph, g
  <2>3. /\ loop' \in [phase : {"idle", "live", "waiting", "stopped"}, current : 0 .. MaxDials,
                     stopRequested : BOOLEAN, giveUps : Nat]
        /\ loop'.phase = ph /\ loop'.current = c /\ loop'.giveUps = g
    BY <2>1, <2>2, Zenon
  <2> QED BY <2>3 DEF c, ph, g
<1>14. \A c \in Conns : <<c, "initiator">> \in Ends /\ (<<c, "initiator">> = e <=> c = loop.current + 1)
  BY DEF e, Ends, Roles
<1>15. GivesUpOnce'
  BY <1>1, <1>7, <1>8, <1>13, <1>14 DEF IInv, GivesUpOnce
<1>16. FreshOK'
  <2>1. ASSUME NEW c \in Conns, c > loop'.current PROVE ends'[<<c, "initiator">>].st = "off"
    <3>1. c > loop.current /\ c # loop.current + 1
      BY <1>1, <1>13, <2>1 DEF Conns
    <3> QED BY <1>8, <1>14, <3>1 DEF IInv, FreshOK
  <2>2. \A d \in Ends : ends'[d].st = "off" => ends'[d].sent = <<>> /\ ends'[d].handled = <<>>
    BY <1>7, <1>8 DEF IInv, FreshOK
  <2> QED BY <2>1, <2>2 DEF FreshOK
<1>17. TypeOK'
  BY <1>1, <1>8, <1>13 DEF IInv, TypeOK
<1> QED BY <1>11, <1>12, <1>15, <1>16, <1>17 DEF IInv

LEMMA StopKeeps ==
  ASSUME IInv, NEW ok \in BOOLEAN, Stop(ok)
  PROVE  IInv' /\ Link!Next
<1> DEFINE e == <<loop.current, "initiator">>
           x == Close(ends[e], "gracefulClose", ok)
<1>1. /\ loop.current > 0 /\ loop.current \in 0 .. MaxDials
      /\ ends' = [ends EXCEPT ![e] = x, ![Peer(e)].wire = <<>>]
      /\ loop' = [loop EXCEPT !.stopRequested = TRUE, !.phase = "stopped",
                              !.giveUps = @ + IF loop.phase = "stopped" THEN 0 ELSE 1]
      /\ peerTrust' = peerTrust /\ admission' = admission
  BY DEF Stop, IInv, TypeOK
<1>2. loop.current \in Conns /\ e \in Ends /\ e[2] = "initiator"
  BY <1>1, BoundsAssumption DEF Conns, Ends, Roles
<1>3. Sound(ends[e]) /\ ends \in [Ends -> EndRecords]
  BY <1>2 DEF IInv, LogsOK, TypeOK
<1> HIDE DEF e
<1>4. Grows(ends[e], x) /\ x.st = "closed"
  BY <1>3, CloseGrows
<1> HIDE DEF x
<1>5. StepOf(e) /\ ends'[e] = x
  <2>1. /\ Sound(x) /\ Begins(ends[e].sent, x.sent) /\ x.st # "off"
        /\ x.handled = ends[e].handled /\ <<>> \in Seq(Frames)
        /\ \A i \in 1 .. Len(<<>>) : \E j \in 1 .. Len(ends[Peer(e)].wire) : <<>>[i] = ends[Peer(e)].wire[j]
    BY <1>4 DEF Grows, Follows
  <2> QED BY <1>1, <1>2, <1>3, <2>1, ReplaceIsStep DEF IInv
<1>6. LogsOK' /\ Link!Next
  BY <1>2, <1>3, <1>5, StepKeepsLogs, StepIsLinkStep DEF IInv
<1>7. AdmissionExact'
  BY <1>1, <1>2, <1>5, InitiatorKeepsAdmission
<1>8. /\ loop' \in [phase : {"idle", "live", "waiting", "stopped"}, current : 0 .. MaxDials,
                    stopRequested : BOOLEAN, giveUps : Nat]
      /\ loop'.phase = "stopped" /\ loop'.current = loop.current
      /\ loop'.giveUps = loop.giveUps + (IF loop.phase = "stopped" THEN 0 ELSE 1)
  <2> DEFINE g == loop.giveUps + (IF loop.phase = "stopped" THEN 0 ELSE 1)
  <2>1. g \in Nat
    BY DEF IInv, TypeOK
  <2>2. /\ loop' = [loop EXCEPT !.stopRequested = TRUE, !.phase = "stopped", !.giveUps = g]
        /\ loop \in [phase : {"idle", "live", "waiting", "stopped"}, current : 0 .. MaxDials,
                     stopRequested : BOOLEAN, giveUps : Nat]
    BY <1>1 DEF IInv, TypeOK
  <2> HIDE DEF g
  <2>3. /\ loop' \in [phase : {"idle", "live", "waiting", "stopped"}, current : 0 .. MaxDials,
                     stopRequested : BOOLEAN, giveUps : Nat]
        /\ loop'.phase = "stopped" /\ loop'.current = loop.current /\ loop'.giveUps = g
    BY <2>1, <2>2, Zenon
  <2> QED BY <2>3 DEF g
<1>9. \A c \in Conns : <<c, "initiator">> \in Ends /\ (<<c, "initiator">> = e <=> c = loop.current)
  BY DEF e, Ends, Roles
<1>10. GivesUpOnce'
  BY <1>4, <1>5, <1>8, <1>9 DEF IInv, GivesUpOnce, StepOf
<1>11. FreshOK'
  <2>1. ASSUME NEW c \in Conns, c > loop'.current PROVE ends'[<<c, "initiator">>].st = "off"
    <3>1. c > loop.current /\ c # loop.current
      BY <1>1, <1>8, <2>1 DEF Conns
    <3> QED BY <1>5, <1>9, <3>1 DEF IInv, FreshOK, StepOf
  <2>2. \A d \in Ends : ends'[d].st = "off" => ends'[d].sent = <<>> /\ ends'[d].handled = <<>>
    BY <1>5 DEF IInv, FreshOK, StepOf
  <2> QED BY <2>1, <2>2 DEF FreshOK
<1>12. TypeOK'
  BY <1>1, <1>5, <1>8 DEF IInv, TypeOK, StepOf
<1> QED BY <1>6, <1>7, <1>10, <1>11, <1>12 DEF IInv

LEMMA ServeKeeps ==
  ASSUME IInv, NEW c0 \in Conns, Serve(c0)
  PROVE  IInv' /\ Link!Next
<1> DEFINE e == <<c0, "responder">>
           admitted == admission.handshaking < MaxHandshaking
           s == IF admitted THEN "handshaking" ELSE "closed"
           w == IF admitted THEN "none" ELSE "transient"
           y == [ends[e] EXCEPT !.st = s, !.why = w]
<1>1. /\ ends[e].st = "off"
      /\ ends' = [ends EXCEPT ![e].st = s, ![e].why = w]
      /\ admission' = [admission EXCEPT !.handshaking = @ + IF admitted THEN 1 ELSE 0]
      /\ peerTrust' = peerTrust /\ loop' = loop
  BY DEF Serve
<1>2. e \in Ends /\ \A c \in Conns : <<c, "initiator">> \in Ends \ {e}
  BY DEF Ends, Roles
<1>3. /\ ends \in [Ends -> EndRecords] /\ ends[e] \in EndRecords /\ Sound(ends[e])
      /\ ends[e].sent \in Seq(Kinds)
      /\ s \in States /\ s # "off" /\ w \in {"none", "transient", "durable"}
  BY <1>2, EndFields DEF IInv, TypeOK, LogsOK, States
<1> HIDE DEF s, w
<1>4. /\ y \in EndRecords /\ y.sent = ends[e].sent /\ y.handled = ends[e].handled
      /\ y.cut = ends[e].cut /\ y.st = s /\ y.wire = ends[e].wire /\ y.queue = ends[e].queue
  BY <1>3, Zenon DEF EndRecords
<1>5. ends' \in [Ends -> EndRecords] /\ ends'[e] = y /\ \A d \in Ends \ {e} : ends'[d] = ends[d]
  BY <1>1, <1>2, <1>3, <1>4
<1> HIDE DEF y
<1>6. Sound(y) /\ Begins(ends[e].sent, y.sent)
  <2>1. Sound(y)
    BY <1>3, <1>4 DEF Sound
  <2>2. Begins(ends[e].sent, ends[e].sent)
    BY <1>3 DEF Begins
  <2> QED BY <1>4, <2>1, <2>2
<1>7. StepOf(e)
  BY <1>3, <1>4, <1>5, <1>6 DEF StepOf, IInv, LogsOK
<1>8. LogsOK' /\ Link!Next
  BY <1>2, <1>3, <1>7, StepKeepsLogs, StepIsLinkStep DEF IInv
<1>9. GivesUpOnce' /\ FreshOK'
  BY <1>1, <1>2, <1>3, <1>4, <1>5 DEF IInv, GivesUpOnce, FreshOK
<1>10. /\ admission.handshaking = Cardinality(InHandshake)
       /\ admission.authenticated = Cardinality(HoldSlot)
       /\ admission.authenticated <= MaxPerPeer /\ admission.handshaking <= MaxHandshaking
       /\ admission.handshaking \in Nat /\ admission.authenticated \in Nat
       /\ admission \in [handshaking : Nat, authenticated : Nat]
  BY AdmissionCounts DEF IInv, TypeOK
<1>11. HoldSlot' = HoldSlot
  <2>1. \A c \in Conns \ {c0} : <<c, "responder">> \in Ends \ {e}
    BY DEF Ends, Roles
  <2>2. s \notin Open /\ "off" \notin Open
    BY DEF s, Open
  <2> QED BY <1>1, <1>4, <1>5, <2>1, <2>2 DEF HoldSlot
<1>12. /\ c0 \notin InHandshake
       /\ InHandshake' = IF admitted THEN InHandshake \cup {c0} ELSE InHandshake
  <2>1. \A c \in Conns \ {c0} : <<c, "responder">> \in Ends \ {e}
    BY DEF Ends, Roles
  <2>2. s = "handshaking" <=> admitted
    BY DEF s
  <2>3. \A c \in Conns \ {c0} : c \in InHandshake' <=> c \in InHandshake
    BY <1>5, <2>1 DEF InHandshake
  <2>4. c0 \notin InHandshake /\ (c0 \in InHandshake' <=> admitted)
    BY <1>1, <1>4, <1>5, <2>2 DEF InHandshake
  <2>5. InHandshake \subseteq Conns /\ InHandshake' \subseteq Conns
    BY DEF InHandshake
  <2> QED BY <2>3, <2>4, <2>5
<1>13. /\ admission'.handshaking = Cardinality(InHandshake')
       /\ admission'.handshaking \in Nat /\ admission'.handshaking <= MaxHandshaking
       /\ admission'.authenticated = admission.authenticated
       /\ admission' \in [handshaking : Nat, authenticated : Nat]
  <2>1. CASE admitted
    <3>1. Cardinality(InHandshake') = Cardinality(InHandshake) + 1
      BY <1>12, <2>1, AdmissionCounts, FS_AddElement
    <3>2. admission' = [admission EXCEPT !.handshaking = admission.handshaking + 1]
      BY <1>1, <2>1
    <3> QED BY <1>10, <2>1, <3>1, <3>2, BoundsAssumption
  <2>2. CASE ~admitted
    BY <1>1, <1>10, <1>12, <2>2
  <2> QED BY <2>1, <2>2
<1>14. AdmissionExact'
  BY <1>10, <1>11, <1>13 DEF AdmissionExact, InHandshake, HoldSlot
<1>15. TypeOK'
  BY <1>1, <1>5, <1>13 DEF IInv, TypeOK
<1> QED BY <1>8, <1>9, <1>14, <1>15 DEF IInv

\* Nothing but the trust records changes.
LEMMA RevokeKeeps ==
  ASSUME IInv, NEW r \in Roles, Revoke(r)
  PROVE  IInv' /\ UNCHANGED ends
<1>1. UNCHANGED <<ends, loop, admission>> /\ peerTrust' = [peerTrust EXCEPT ![r] = "none"]
  BY DEF Revoke
<1>2. TypeOK'
  BY <1>1 DEF IInv, TypeOK
<1>3. LogsOK' /\ FreshOK' /\ GivesUpOnce'
  BY <1>1 DEF IInv, LogsOK, FreshOK, GivesUpOnce, HandlesNext
<1>4. AdmissionExact'
  BY <1>1 DEF IInv, AdmissionExact
<1> QED BY <1>1, <1>2, <1>3, <1>4 DEF IInv

LEMMA InitKeeps ==
  ASSUME Init
  PROVE  IInv /\ Link!Init
<1>1. \A e \in Ends : ends[e] = Unborn /\ Peer(e) \in Ends
  BY PeerFacts DEF Init
<1>2. Unborn \in EndRecords /\ Sound(Unborn)
  BY UnbornSound DEF Sound
<1>3. TypeOK
  BY <1>2, BoundsAssumption DEF Init, TypeOK
<1>4. LogsOK /\ FreshOK /\ GivesUpOnce
  <2>1. \A c \in Conns : <<c, "initiator">> \in Ends
    BY DEF Ends, Roles
  <2>2. Begins(Unborn.handled, Unborn.sent)
    BY DEF Unborn, Begins
  <2> QED BY <1>1, <1>2, <2>1, <2>2 DEF Init, LogsOK, FreshOK, GivesUpOnce, Unborn
<1>5. AdmissionExact
  <2>1. \A c \in Conns : <<c, "responder">> \in Ends
    BY DEF Ends, Roles
  <2>2. InHandshake = {} /\ HoldSlot = {}
    BY <1>1, <2>1 DEF InHandshake, HoldSlot, Unborn, Open
  <2>3. Cardinality(InHandshake) = 0 /\ Cardinality(HoldSlot) = 0
    BY <2>2, FS_EmptySet
  <2>4. admission.handshaking = 0 /\ admission.authenticated = 0
    BY DEF Init
  <2> QED BY <2>3, <2>4, AdmissionCounts, BoundsAssumption
<1>6. Link!Init
  BY <1>1 DEF Link!Init, Unborn
<1> QED BY <1>3, <1>4, <1>5, <1>6 DEF IInv

LEMMA NextKeeps ==
  ASSUME IInv, [Next]_vars
  PROVE  IInv' /\ [Link!Next]_(Link!vars)
<1>1. ASSUME ends' = ends PROVE UNCHANGED Link!vars
  BY <1>1 DEF Link!vars
<1>2. CASE UNCHANGED vars
  <2>1. IInv'
    BY <1>2 DEF vars, IInv, TypeOK, LogsOK, FreshOK, GivesUpOnce, AdmissionExact
  <2> QED BY <1>1, <1>2, <2>1 DEF vars
<1>3. CASE \E ok \in BOOLEAN : Dial(ok) \/ Stop(ok)
  BY <1>3, DialKeeps, StopKeeps
<1>4. CASE \E c \in Conns : Serve(c)
  BY <1>4, ServeKeeps
<1>5. CASE \E r \in Roles : Revoke(r)
  BY <1>1, <1>5, RevokeKeeps
<1>6. CASE \E e \in Ends : \E expired, bad, ok \in BOOLEAN : Receive(e, expired, bad, ok)
  BY <1>6, ReceiveKeeps
<1>7. ASSUME NEW e \in Ends,
             \/ \E ok \in BOOLEAN : \/ SendRequest(e, ok) \/ SendData(e, ok) \/ SendHeartbeat(e, ok)
                                   \/ Drain(e, ok) \/ DrainGraceElapsed(e, ok)
             \/ \E k \in 1 .. MaxQueue : OnDrain(e, k)
             \/ HandshakeTimeout(e) \/ IdleTimeout(e) \/ TransportClose(e)
      PROVE  IInv' /\ [Link!Next]_(Link!vars)
  BY <1>7, WritesKeep
<1> QED BY <1>2, <1>3, <1>4, <1>5, <1>6, <1>7 DEF Next

-----------------------------------------------------------------------------
(* The theorems.                                                           *)

\* The inductive invariant holds.
THEOREM Invariant == Spec => []IInv
<1>1. Init => IInv
  BY InitKeeps
<1>2. IInv /\ [Next]_vars => IInv'
  BY NextKeeps
<1> QED BY <1>1, <1>2, PTL DEF Spec

\* Type correctness of the engines, the loop and the admission counters, which
\* never go below zero.
THEOREM TypeCorrect == Spec => []TypeOK
<1>1. IInv => TypeOK
  BY DEF IInv
<1> QED BY <1>1, Invariant, PTL

\* The redial loop of relay-reconnect.ts reports once that it gave up, when it
\* has stopped, and never has more than one connection.
THEOREM GivesUpExactlyOnce == Spec => []GivesUpOnce
<1>1. IInv => GivesUpOnce
  BY DEF IInv
<1> QED BY <1>1, Invariant, PTL

\* The counters of createRelayAdmission (relay-local-server.ts) are those of the
\* sessions, and no bound is exceeded, however sessions begin and end.
THEOREM AdmissionIsExact == Spec => []AdmissionExact
<1>1. IInv => AdmissionExact
  BY DEF IInv
<1> QED BY <1>1, Invariant, PTL

\* The relay connection implements a RelayLink in each of its directions: what
\* back-pressure, the queue, duplicates and breakdowns do to the frames that
\* relay-connection.ts numbered, its peer handles them in order and once.
THEOREM Refinement == Spec => ImplementsLink
<1>1. Init => Link!Init
  BY InitKeeps
<1>2. IInv /\ [Next]_vars => [Link!Next]_(Link!vars)
  BY NextKeeps
<1> QED BY <1>1, <1>2, Invariant, PTL DEF Spec, ImplementsLink, Link!Spec
-----------------------------------------------------------------------------
(***************************************************************************)
(* The enrollment of a peer: the ledgers of the two machines agree, an     *)
(* active trust record rests on a completed exchange, a connect that says  *)
(* done has completed one, and an identity is never replaced.              *)
(***************************************************************************)

Stages == {"challenge", "accept", "confirm", "finalize"}
Running == {"offer", "challenge", "accept", "confirm"}

\* What an artifact that verifies says of the ledgers.
Backed(art) ==
    /\ Initiates(art.origin, art.id)
    /\ ledger[art.origin][art.id].op = art.op
    /\ art.kind # "offer" =>
         /\ art.dp \in Policy
         /\ ledger[OtherMachine(art.origin)][art.id] # None
         /\ ledger[OtherMachine(art.origin)][art.id].role = "responder"
         /\ ledger[OtherMachine(art.origin)][art.id].op = art.op
         /\ ledger[OtherMachine(art.origin)][art.id].dp = art.dp
    /\ art.kind \in {"accept", "confirm"} => Agree(art.origin, art.id)
    /\ art.kind = "confirm" => ledger[OtherMachine(art.origin)][art.id].stage = "confirmed"

SentOK == \A art \in sent : Backed(art)

\* A process that runs stage r.cmd was given an artifact that was printed, of
\* the kind its stage takes, and read an entry that echoes it.
Given(r, arts, kind, from) == r.art \in arts /\ r.art.kind = kind /\ r.art.origin = from

HasRead(r, role, stage) ==
    r.entry \in Entries /\ r.entry.role = role /\ r.entry.stage = stage /\ r.entry.op = r.art.op

SoundProc(r, arts) ==
    r.at \in Steps =>
      /\ r.cmd # "revoke" \/ r.at = "write" => r.policy \in Policy
      /\ r.cmd = "challenge" => Given(r, arts, "offer", OtherMachine(r.m))
      /\ r.cmd = "accept" =>
           Given(r, arts, "challenge", r.m) /\ HasRead(r, "initiator", "offered")
      /\ r.cmd = "confirm" =>
           /\ Given(r, arts, "accept", OtherMachine(r.m)) /\ HasRead(r, "responder", "challenged")
           /\ r.entry.dp = r.art.dp /\ r.policy = r.entry.dp
      /\ r.cmd = "finalize" =>
           /\ Given(r, arts, "confirm", r.m) /\ HasRead(r, "initiator", "accepted")
           /\ r.entry.dp = r.art.dp /\ r.policy = r.entry.op

ProcOK == \A p \in Process : SoundProc(proc[p], sent)

\* A process that connect waits for works on its enrollment.
Waited(r, c) ==
    r.auto => /\ r.at \in Steps /\ r.art.id = c.id /\ c.at \in Running
              /\ r.cmd = "finalize" => r.m = c.m

ConnectOK ==
    /\ \A p \in Process : Waited(proc[p], connect)
    /\ \A p, q \in Process : proc[p].auto /\ proc[q].auto => p = q
    /\ connect.at # "idle" => connect.id \in Id /\ connect.policy \in Policy

\* The inductive invariant.
EnrollmentInv == /\ EnrollmentTypeOK /\ SentOK /\ LedgersAgree /\ ProcOK /\ ActiveIsProven
        /\ ConnectOK /\ ConnectIsTruthful
-----------------------------------------------------------------------------
(* Machines, rows and ledgers.                                             *)

LEMMA OtherMachineFacts ==
  \A m \in Machine : OtherMachine(m) \in Machine /\ OtherMachine(m) # m /\ OtherMachine(OtherMachine(m)) = m
BY DEF Machine, OtherMachine

\* A process at a step of a command has a full row.
LEMMA RowTypes ==
  ASSUME EnrollmentTypeOK, NEW p \in Process
  PROVE  /\ proc[p].at \in Steps => proc[p] \in Commanded
         /\ proc[p].at \in {"mkdir", "rename"} => proc[p] \in SettingUp
         /\ proc[p].auto \in BOOLEAN
         /\ proc[p].m \in Machine
<1>1. proc[p] \in Commanded \/ proc[p] \in SettingUp \/ proc[p] = Idle
  BY DEF EnrollmentTypeOK
<1>2. CASE proc[p] \in Commanded
  BY <1>2 DEF Commanded, Steps
<1>3. CASE proc[p] \in SettingUp
  BY <1>3 DEF SettingUp, Steps
<1>4. CASE proc[p] = Idle
  BY <1>4 DEF Idle, Steps, Machine
<1> QED BY <1>1, <1>2, <1>3, <1>4

\* A command goes on to its next step.
LEMMA AtStep ==
  ASSUME NEW r \in Commanded, NEW a \in Steps, NEW arts, SoundProc(r, arts), NEW c,
         r.at \in Steps, a = "write" => r.cmd # "revoke"
  PROVE  /\ [r EXCEPT !.at = a] \in Commanded
         /\ SoundProc([r EXCEPT !.at = a], arts)
         /\ [r EXCEPT !.at = a].auto = r.auto
         /\ Waited(r, c) => Waited([r EXCEPT !.at = a], c)
<1> DEFINE s == [r EXCEPT !.at = a]
<1>1. s \in Commanded
  BY Zenon DEF Commanded
<1>2. /\ s.at = a /\ s.cmd = r.cmd /\ s.m = r.m /\ s.art = r.art
      /\ s.policy = r.policy /\ s.entry = r.entry /\ s.auto = r.auto
  BY Zenon DEF Commanded
<1> HIDE DEF s
<1>3. SoundProc(s, arts)
  BY <1>2, Zenon DEF SoundProc, Given, HasRead
<1>4. Waited(r, c) => Waited(s, c)
  BY <1>2, Zenon DEF Waited
<1> QED BY <1>1, <1>2, <1>3, <1>4 DEF s

\* What may not be undone in the ledgers.
LedgersGrow ==
    \A m \in Machine, i \in Id : ledger[m][i] # None =>
      /\ ledger'[m][i] # None
      /\ ledger'[m][i].role = ledger[m][i].role
      /\ ledger'[m][i].op = ledger[m][i].op
      /\ ledger[m][i].role = "responder" =>
           /\ ledger'[m][i].dp = ledger[m][i].dp
           /\ ledger[m][i].stage = "confirmed" => ledger'[m][i].stage = "confirmed"
      /\ ledger[m][i].role = "initiator" /\ ledger[m][i].stage # "offered" =>
           /\ ledger'[m][i].dp = ledger[m][i].dp
           /\ ledger'[m][i].stage \in {"accepted", "confirmed"}

LEMMA AgreeStays ==
  ASSUME LedgersGrow, NEW m \in Machine, NEW i \in Id, Agree(m, i)
  PROVE  /\ Agree(m, i)'
         /\ ledger'[m][i].op = ledger[m][i].op
         /\ ledger'[OtherMachine(m)][i].dp = ledger[OtherMachine(m)][i].dp
         /\ ledger[OtherMachine(m)][i].stage = "confirmed" => ledger'[OtherMachine(m)][i].stage = "confirmed"
<1>1. OtherMachine(m) \in Machine
  BY OtherMachineFacts
<1>2. ledger[m][i].stage # "offered"
  BY DEF Agree
<1> QED BY <1>1, <1>2 DEF Agree, Initiates, LedgersGrow

LEMMA BackedStays ==
  ASSUME LedgersGrow, NEW art \in Artifacts, Backed(art)
  PROVE  Backed(art)'
<1>1. art.origin \in Machine /\ art.id \in Id
  BY DEF Artifacts
<1>2. OtherMachine(art.origin) \in Machine
  BY <1>1, OtherMachineFacts
<1>3. Initiates(art.origin, art.id)' /\ ledger'[art.origin][art.id].op = art.op
  BY <1>1 DEF Backed, Initiates, LedgersGrow
<1>4. art.kind # "offer" =>
         /\ art.dp \in Policy
         /\ ledger'[OtherMachine(art.origin)][art.id] # None
         /\ ledger'[OtherMachine(art.origin)][art.id].role = "responder"
         /\ ledger'[OtherMachine(art.origin)][art.id].op = art.op
         /\ ledger'[OtherMachine(art.origin)][art.id].dp = art.dp
  BY <1>1, <1>2 DEF Backed, LedgersGrow
<1>5. art.kind \in {"accept", "confirm"} => Agree(art.origin, art.id)'
  BY <1>1, AgreeStays DEF Backed
<1>6. art.kind = "confirm" => ledger'[OtherMachine(art.origin)][art.id].stage = "confirmed"
  BY <1>1, <1>2 DEF Backed, LedgersGrow
<1> QED BY <1>3, <1>4, <1>5, <1>6 DEF Backed

\* What the ledgers support, they support from then on.
LEMMA GrowsKeeps ==
  ASSUME EnrollmentTypeOK, SentOK, ActiveIsProven, ConnectIsTruthful, LedgersGrow
  PROVE  /\ \A art \in sent : Backed(art)'
         /\ trust' = trust => ActiveIsProven'
         /\ connect \in Connects /\ connect' = connect /\ (connect.at = "done" => connect.id \in Id)
              => ConnectIsTruthful'
<1>1. \A art \in sent : Backed(art)'
  BY BackedStays DEF SentOK, EnrollmentTypeOK
<1>2. ASSUME trust' = trust PROVE ActiveIsProven'
  <2> SUFFICES ASSUME NEW m \in Machine, trust[m] # None, trust[m].state = "active"
               PROVE  \E i \in Id :
                        \/ Agree(m, i)' /\ ledger'[m][i].op = trust[m].policy
                           /\ ledger'[OtherMachine(m)][i].stage = "confirmed"
                        \/ Agree(OtherMachine(m), i)' /\ ledger'[m][i].dp = trust[m].policy
    BY <1>2 DEF ActiveIsProven
  <2>1. OtherMachine(m) \in Machine /\ OtherMachine(OtherMachine(m)) = m
    BY OtherMachineFacts
  <2>2. PICK i \in Id :
          \/ Agree(m, i) /\ ledger[m][i].op = trust[m].policy
             /\ ledger[OtherMachine(m)][i].stage = "confirmed"
          \/ Agree(OtherMachine(m), i) /\ ledger[m][i].dp = trust[m].policy
    BY DEF ActiveIsProven
  <2>3. CASE Agree(m, i) /\ ledger[m][i].op = trust[m].policy
             /\ ledger[OtherMachine(m)][i].stage = "confirmed"
    BY <2>3, AgreeStays
  <2>4. CASE Agree(OtherMachine(m), i) /\ ledger[m][i].dp = trust[m].policy
    <3>1. Agree(OtherMachine(m), i)' /\ ledger'[OtherMachine(OtherMachine(m))][i].dp = ledger[OtherMachine(OtherMachine(m))][i].dp
      BY <2>1, <2>4, AgreeStays
    <3> QED BY <2>1, <2>4, <3>1
  <2> QED BY <2>2, <2>3, <2>4
<1>3. ASSUME connect \in Connects, connect' = connect, connect.at = "done" => connect.id \in Id
      PROVE  ConnectIsTruthful'
  <2>1. connect.m \in Machine
    BY <1>3 DEF Connects
  <2>2. connect.at = "done" =>
          /\ Agree(connect.m, connect.id)'
          /\ ledger'[OtherMachine(connect.m)][connect.id].stage = "confirmed"
    BY <1>3, <2>1, AgreeStays DEF ConnectIsTruthful
  <2> QED BY <1>3, <2>2 DEF ConnectIsTruthful, Agree, Initiates
<1> QED BY <1>1, <1>2, <1>3

\* Agree, of ledgers that are given.
AgreeIn(books, m, i) ==
    /\ books[m][i] # None /\ books[m][i].role = "initiator"
    /\ books[m][i].stage \in {"accepted", "confirmed"}
    /\ books[OtherMachine(m)][i] # None
    /\ books[OtherMachine(m)][i].role = "responder"
    /\ books[m][i].op = books[OtherMachine(m)][i].op
    /\ books[m][i].dp = books[OtherMachine(m)][i].dp

LEMMA AgreeAfter ==
  \A m, i : (Agree(m, i) <=> AgreeIn(ledger, m, i)) /\ (Agree(m, i)' <=> AgreeIn(ledger', m, i))
BY DEF Agree, AgreeIn, Initiates

\* One entry is written.
LEMMA EntryGrows ==
  ASSUME EnrollmentTypeOK, LedgersAgree, NEW m \in Machine, NEW i \in Id, NEW e \in Entries,
         SetEntry(m, i, e),
         ledger[m][i] # None =>
           /\ e.role = ledger[m][i].role /\ e.op = ledger[m][i].op
           /\ e.role = "responder" => e.dp = ledger[m][i].dp /\ e.stage = "confirmed"
           /\ e.role = "initiator" /\ ledger[m][i].stage # "offered" =>
                e.dp = ledger[m][i].dp /\ e.stage \in {"accepted", "confirmed"},
         e.role = "initiator" /\ e.stage # "offered" => AgreeIn(ledger', m, i)
  PROVE  /\ ledger' \in [Machine -> [Id -> Entries \cup {None}]]
         /\ LedgersGrow /\ LedgersAgree'
         /\ ledger'[m][i] = e
         /\ \A n \in Machine, j \in Id : n # m \/ j # i => ledger'[n][j] = ledger[n][j]
<1>1. /\ ledger \in [Machine -> [Id -> Entries \cup {None}]]
      /\ ledger' = [ledger EXCEPT ![m][i] = e]
  BY DEF EnrollmentTypeOK, SetEntry
<1>2. /\ ledger' \in [Machine -> [Id -> Entries \cup {None}]]
      /\ ledger'[m][i] = e
      /\ \A n \in Machine, j \in Id : n # m \/ j # i => ledger'[n][j] = ledger[n][j]
  BY <1>1
<1>3. e # None
  BY NoneAssumption
<1>4. LedgersGrow
  <2> SUFFICES ASSUME NEW n \in Machine, NEW j \in Id, ledger[n][j] # None
               PROVE  /\ ledger'[n][j] # None
                      /\ ledger'[n][j].role = ledger[n][j].role
                      /\ ledger'[n][j].op = ledger[n][j].op
                      /\ ledger[n][j].role = "responder" =>
                           /\ ledger'[n][j].dp = ledger[n][j].dp
                           /\ ledger[n][j].stage = "confirmed" => ledger'[n][j].stage = "confirmed"
                      /\ ledger[n][j].role = "initiator" /\ ledger[n][j].stage # "offered" =>
                           /\ ledger'[n][j].dp = ledger[n][j].dp
                           /\ ledger'[n][j].stage \in {"accepted", "confirmed"}
    BY Zenon DEF LedgersGrow
  <2>1. CASE n = m /\ j = i
    BY <1>2, <1>3, <2>1
  <2>2. CASE n # m \/ j # i
    <3>1. ledger[n][j].role = "initiator" /\ ledger[n][j].stage # "offered" =>
            ledger[n][j].stage \in {"accepted", "confirmed"}
      BY Zenon DEF LedgersAgree, Initiates, Agree
    <3> QED BY <1>2, <2>2, <3>1
  <2> QED BY <2>1, <2>2
<1>5. LedgersAgree'
  <2> SUFFICES ASSUME NEW n \in Machine, NEW j \in Id, Initiates(n, j)',
                      ledger'[n][j].stage # "offered"
               PROVE  Agree(n, j)'
    BY DEF LedgersAgree
  <2>1. CASE n = m /\ j = i
    BY <1>2, <2>1, AgreeAfter DEF Initiates
  <2>2. CASE n # m \/ j # i
    <3>1. Agree(n, j)
      BY <1>2, <2>2 DEF LedgersAgree, Initiates
    <3> QED BY <1>4, <3>1, AgreeStays
  <2> QED BY <2>1, <2>2
<1> QED BY <1>2, <1>4, <1>5

\* The ledgers are left alone.
LEMMA SameGrows ==
  ASSUME LedgersAgree, ledger' = ledger
  PROVE  LedgersGrow /\ LedgersAgree'
BY DEF LedgersAgree, Initiates, Agree, LedgersGrow
-----------------------------------------------------------------------------
(* Processes and the run of connect.                                       *)

\* The row of a process changes, and no artifact is withdrawn.
LEMMA ProcStep ==
  ASSUME EnrollmentTypeOK, ProcOK, NEW p \in Process, NEW r, Become(p, r),
         r \in Commanded \cup SettingUp \cup {Idle}, sent \subseteq sent', SoundProc(r, sent')
  PROVE  /\ proc' \in [Process -> Commanded \cup SettingUp \cup {Idle}]
         /\ ProcOK'
<1>1. proc \in [Process -> Commanded \cup SettingUp \cup {Idle}] /\ proc' = [proc EXCEPT ![p] = r]
  BY DEF EnrollmentTypeOK, Become
<1>2. proc' \in [Process -> Commanded \cup SettingUp \cup {Idle}]
  BY <1>1, Zenon
<1>3. ASSUME NEW q \in Process PROVE SoundProc(proc'[q], sent')
  <2>1. CASE q = p
    BY <1>1, <2>1
  <2>2. CASE q # p
    <3>1. proc'[q] = proc[q] /\ SoundProc(proc[q], sent)
      BY <1>1, <2>2 DEF ProcOK
    <3>2. proc[q].art \in sent => proc[q].art \in sent'
      OBVIOUS
    <3> QED BY <3>1, <3>2, Zenon DEF SoundProc, Given
  <2> QED BY <2>1, <2>2
<1> QED BY <1>2, <1>3 DEF ProcOK

LEMMA IdleIsSound ==
  ASSUME NEW arts PROVE SoundProc(Idle, arts) /\ ~Idle.auto
BY DEF SoundProc, Idle, Steps

\* The row changes and connect does not learn of it.
LEMMA WaitedStep ==
  ASSUME EnrollmentTypeOK, ConnectOK, NEW p \in Process, NEW r, Become(p, r), connect' = connect,
         Waited(r, connect), r.auto => proc[p].auto
  PROVE  ConnectOK'
<1>1. proc' = [proc EXCEPT ![p] = r] /\ proc'[p] = r /\ \A q \in Process \ {p} : proc'[q] = proc[q]
  BY DEF EnrollmentTypeOK, Become
<1>2. \A q \in Process : proc'[q].auto => proc[q].auto
  BY <1>1
<1>3. \A q \in Process : Waited(proc'[q], connect)
  BY <1>1 DEF ConnectOK
<1> QED BY <1>2, <1>3 DEF ConnectOK

\* The process ends and connect, if it waits for it, is told.
LEMMA ReportedStep ==
  ASSUME EnrollmentTypeOK, ConnectOK, NEW p \in Process, Become(p, Idle), NEW ok \in BOOLEAN,
         Reported(p, ok), ok => proc[p].cmd \in Stages
  PROVE  /\ ConnectOK' /\ connect' \in Connects
         /\ \/ connect' = connect
            \/ connect'.at # "done"
            \/ /\ ok /\ proc[p].cmd = "finalize" /\ proc[p].at \in Steps
               /\ connect'.m = proc[p].m /\ connect'.id = proc[p].art.id
<1>1. /\ proc' = [proc EXCEPT ![p] = Idle] /\ proc'[p] = Idle
      /\ \A q \in Process \ {p} : proc'[q] = proc[q]
  BY DEF EnrollmentTypeOK, Become
<1>2. connect \in Connects /\ ~Idle.auto
  BY IdleIsSound DEF EnrollmentTypeOK
<1>3. CASE ~proc[p].auto
  <2>1. connect' = connect
    BY <1>3 DEF Reported
  <2>2. ConnectOK'
    BY <1>2, <2>1, WaitedStep DEF Waited
  <2> QED BY <1>2, <2>1, <2>2
<1>4. CASE proc[p].auto
  <2> DEFINE a == IF ~ok THEN "failed" ELSE IF proc[p].cmd = "finalize" THEN "done" ELSE proc[p].cmd
  <2>1. connect' = [connect EXCEPT !.at = a]
    BY <1>4 DEF Reported
  <2>2. a \in {"challenge", "accept", "confirm", "done", "failed"} /\ (a = "done" => ok /\ proc[p].cmd = "finalize")
    BY DEF Stages
  <2> HIDE DEF a
  <2>3. /\ connect' \in Connects /\ connect'.at = a /\ connect'.m = connect.m
        /\ connect'.id = connect.id /\ connect'.policy = connect.policy
    BY <1>2, <2>1, <2>2, Zenon DEF Connects
  <2>4. Waited(proc[p], connect)
    BY DEF ConnectOK
  <2>5. \A q \in Process : ~proc'[q].auto
    BY <1>1, <1>2, <1>4 DEF ConnectOK
  <2>6. connect.at # "idle"
    BY <1>4, <2>4 DEF Waited, Running
  <2>7. ConnectOK'
    BY <2>3, <2>5, <2>6 DEF ConnectOK, Waited
  <2> QED BY <1>4, <2>2, <2>3, <2>4, <2>7 DEF Waited
<1> QED BY <1>3, <1>4

\* A step that leaves ledgers, trust and artifacts alone.
LEMMA QuietStep ==
  ASSUME EnrollmentInv, ledger' = ledger, trust' = trust, sent' = sent,
         key' \in [Machine -> 0 .. 1], temp' \in [Machine -> SUBSET Process],
         proc' \in [Process -> Commanded \cup SettingUp \cup {Idle}], connect' \in Connects,
         ProcOK', ConnectOK', connect' = connect \/ connect'.at # "done"
  PROVE  EnrollmentInv'
<1>1. LedgersGrow /\ LedgersAgree'
  BY SameGrows DEF EnrollmentInv
<1>2. SentOK' /\ ActiveIsProven'
  BY <1>1, GrowsKeeps DEF EnrollmentInv, SentOK
<1>3. ConnectIsTruthful'
  <2>1. CASE connect' = connect
    <3>1. connect \in Connects /\ (connect.at = "done" => connect.id \in Id)
      BY DEF EnrollmentInv, EnrollmentTypeOK, ConnectOK
    <3> QED BY <1>1, <2>1, <3>1, GrowsKeeps DEF EnrollmentInv
  <2>2. CASE connect'.at # "done"
    BY <2>2 DEF ConnectIsTruthful
  <2> QED BY <2>1, <2>2
<1>4. EnrollmentTypeOK'
  BY DEF EnrollmentInv, EnrollmentTypeOK
<1> QED BY <1>1, <1>2, <1>3, <1>4 DEF EnrollmentInv

-----------------------------------------------------------------------------
(* The identity of a machine.                                              *)

LEMMA SetupLookKeeps ==
  ASSUME EnrollmentInv, NEW p \in Process, NEW m \in Machine, SetupLook(p, m)
  PROVE  EnrollmentInv'
<1> DEFINE r == [Idle EXCEPT !.at = "mkdir", !.cmd = "setup", !.m = m]
<1>1. Become(p, r) /\ UNCHANGED <<key, temp, ledger, trust, sent, connect>>
  BY DEF SetupLook
<1>2. r \in SettingUp /\ r.auto = FALSE /\ r.at = "mkdir"
  BY DEF SettingUp, Idle
<1> HIDE DEF r
<1>3. SoundProc(r, sent) /\ Waited(r, connect)
  BY <1>2 DEF SoundProc, Steps, Waited
<1>4. proc' \in [Process -> Commanded \cup SettingUp \cup {Idle}] /\ ProcOK'
  BY <1>1, <1>2, <1>3, ProcStep DEF EnrollmentInv
<1>5. ConnectOK'
  BY <1>1, <1>2, <1>3, WaitedStep DEF EnrollmentInv
<1> QED BY <1>1, <1>4, <1>5, QuietStep DEF EnrollmentInv, EnrollmentTypeOK

LEMMA SetupMkdirKeeps ==
  ASSUME EnrollmentInv, NEW p \in Process, SetupMkdir(p)
  PROVE  EnrollmentInv'
<1> DEFINE r == [proc[p] EXCEPT !.at = "rename"]
<1>1. Become(p, r) /\ UNCHANGED <<key, ledger, trust, sent, connect>>
  BY DEF SetupMkdir
<1>2. proc[p] \in SettingUp
  BY RowTypes DEF EnrollmentInv, SetupMkdir
<1>3. r \in SettingUp /\ r.auto = FALSE /\ r.at = "rename"
  BY <1>2 DEF SettingUp
<1> HIDE DEF r
<1>4. SoundProc(r, sent) /\ Waited(r, connect)
  BY <1>3 DEF SoundProc, Steps, Waited
<1>5. proc' \in [Process -> Commanded \cup SettingUp \cup {Idle}] /\ ProcOK'
  BY <1>1, <1>3, <1>4, ProcStep DEF EnrollmentInv
<1>6. ConnectOK'
  BY <1>1, <1>3, <1>4, WaitedStep DEF EnrollmentInv
<1>7. temp' \in [Machine -> SUBSET Process]
  BY DEF EnrollmentInv, EnrollmentTypeOK, SetupMkdir
<1> QED BY <1>1, <1>5, <1>6, <1>7, QuietStep DEF EnrollmentInv, EnrollmentTypeOK

LEMMA SetupRenameKeeps ==
  ASSUME EnrollmentInv, NEW p \in Process, SetupRename(p)
  PROVE  EnrollmentInv'
<1>1. Become(p, Idle) /\ UNCHANGED <<ledger, trust, sent, connect>>
  BY DEF SetupRename
<1>2. SoundProc(Idle, sent) /\ ~Idle.auto /\ Waited(Idle, connect)
  BY IdleIsSound DEF Waited
<1>3. proc' \in [Process -> Commanded \cup SettingUp \cup {Idle}] /\ ProcOK'
  BY <1>1, <1>2, ProcStep DEF EnrollmentInv
<1>4. ConnectOK'
  BY <1>1, <1>2, WaitedStep DEF EnrollmentInv
<1>5. proc[p].m \in Machine
  BY RowTypes DEF EnrollmentInv
<1>6. key' \in [Machine -> 0 .. 1] /\ temp' \in [Machine -> SUBSET Process]
  BY <1>5 DEF EnrollmentInv, EnrollmentTypeOK, SetupRename, Renamed
<1> QED BY <1>1, <1>3, <1>4, <1>6, QuietStep DEF EnrollmentInv, EnrollmentTypeOK

LEMMA RemoveLeftoverKeeps ==
  ASSUME EnrollmentInv, NEW m \in Machine, RemoveLeftover(m)
  PROVE  EnrollmentInv'
<1>1. UNCHANGED <<key, ledger, trust, sent, proc, connect>> /\ temp' \in [Machine -> SUBSET Process]
  BY DEF EnrollmentInv, EnrollmentTypeOK, RemoveLeftover
<1>2. ProcOK' /\ ConnectOK'
  BY <1>1 DEF EnrollmentInv, ProcOK, ConnectOK
<1> QED BY <1>1, <1>2, QuietStep DEF EnrollmentInv, EnrollmentTypeOK
-----------------------------------------------------------------------------
(* The beginning of a stage.                                               *)

\* The row of a process that passed its checks.
Row(m, cmd, art, policy, auto) ==
    [at |-> "read", cmd |-> cmd, m |-> m, art |-> art,
     policy |-> Pinned(m, cmd, art, policy), entry |-> ledger[m][art.id], auto |-> auto]

LEMMA RowIsSound ==
  ASSUME EnrollmentInv, NEW m \in Machine, NEW cmd \in Stages, NEW art \in sent,
         NEW policy \in Policy \cup {None}, cmd = "challenge" => policy \in Policy,
         NEW auto \in BOOLEAN, Checks(m, cmd, art)
  PROVE  /\ Row(m, cmd, art, policy, auto) \in Commanded
         /\ SoundProc(Row(m, cmd, art, policy, auto), sent)
<1> DEFINE r == Row(m, cmd, art, policy, auto)
           e == ledger[m][art.id]
           pin == Pinned(m, cmd, art, policy)
<1>1. /\ r.at = "read" /\ r.cmd = cmd /\ r.m = m /\ r.art = art
      /\ r.policy = pin /\ r.entry = e /\ r.auto = auto
  BY DEF Row
<1>2. art \in Artifacts /\ art.id \in Id /\ Backed(art)
  BY DEF EnrollmentInv, EnrollmentTypeOK, SentOK, Artifacts
<1>3. e \in Entries \cup {None}
  BY <1>2 DEF EnrollmentInv, EnrollmentTypeOK
<1>4. /\ cmd = "challenge" => ChallengeChecks(m, art) /\ pin = policy
      /\ cmd = "accept" => AcceptChecks(m, art) /\ pin = e.op
      /\ cmd = "confirm" => ConfirmChecks(m, art) /\ pin = e.dp
      /\ cmd = "finalize" => FinalizeChecks(m, art) /\ pin = e.op
  BY DEF Checks, Pinned
<1>5. /\ cmd = "challenge" => art.kind = "offer" /\ art.origin = OtherMachine(m)
      /\ cmd = "accept" => art.kind = "challenge" /\ art.origin = m /\ e # None
           /\ e.role = "initiator" /\ e.stage = "offered" /\ e.op = art.op
      /\ cmd = "confirm" => art.kind = "accept" /\ art.origin = OtherMachine(m) /\ e # None
           /\ e.role = "responder" /\ e.stage = "challenged" /\ e.op = art.op /\ e.dp = art.dp
      /\ cmd = "finalize" => art.kind = "confirm" /\ art.origin = m /\ e # None
           /\ e.role = "initiator" /\ e.stage = "accepted" /\ e.op = art.op /\ e.dp = art.dp
  BY <1>4 DEF ChallengeChecks, AcceptChecks, ConfirmChecks, FinalizeChecks, EchoesOrigin, EchoesFull
<1> HIDE DEF e, pin
<1>6. e # None => e \in Entries /\ e.op \in Policy
  BY <1>3 DEF Entries
<1>7. pin \in Policy
  <2>1. cmd = "confirm" => art.dp \in Policy
    BY <1>2, <1>5 DEF Backed
  <2> QED BY <1>4, <1>5, <1>6, <2>1 DEF Stages
<1>8. r \in Commanded
  <2>1. /\ "read" \in Steps /\ cmd \in Commands /\ art \in Artifacts \cup {None}
        /\ pin \in Policy \cup {None}
    BY <1>2, <1>7 DEF Steps, Stages, Commands
  <2> QED BY <1>3, <2>1 DEF Row, Commanded, e, pin
<1> HIDE DEF r
<1>9. SoundProc(r, sent)
  BY <1>1, <1>4, <1>5, <1>6, <1>7 DEF SoundProc, Given, HasRead
<1> QED BY <1>8, <1>9 DEF r

LEMMA BeginKeeps ==
  ASSUME EnrollmentInv, NEW p \in Process, NEW m \in Machine, NEW cmd \in Stages, NEW art \in sent,
         NEW policy \in Policy, Begin(p, m, cmd, art, policy)
  PROVE  EnrollmentInv'
<1> DEFINE r == Row(m, cmd, art, policy, FALSE)
<1>1. Become(p, r) /\ Checks(m, cmd, art) /\ UNCHANGED <<key, temp, ledger, trust, sent, connect>>
  BY DEF Begin, Begun, Row
<1>2. r \in Commanded /\ SoundProc(r, sent)
  BY <1>1, RowIsSound
<1>3. ~r.auto
  BY DEF Row
<1> HIDE DEF r
<1>4. proc' \in [Process -> Commanded \cup SettingUp \cup {Idle}] /\ ProcOK'
  BY <1>1, <1>2, ProcStep DEF EnrollmentInv
<1>5. ConnectOK'
  BY <1>1, <1>3, WaitedStep DEF EnrollmentInv, Waited
<1> QED BY <1>1, <1>4, <1>5, QuietStep DEF EnrollmentInv, EnrollmentTypeOK

LEMMA ConnectStepKeeps ==
  ASSUME EnrollmentInv, NEW p \in Process, NEW art \in sent, ConnectStep(p, art)
  PROVE  EnrollmentInv'
<1> DEFINE m == RunsOn(NextStage)
           cmd == NextStage
           r == Row(m, cmd, art, connect.policy, TRUE)
<1>1. /\ Become(p, r) /\ Checks(m, cmd, art) /\ UNCHANGED <<key, temp, ledger, trust, sent, connect>>
      /\ connect.at \in Running /\ ~Waiting /\ art.id = connect.id
  BY DEF ConnectStep, Begun, Row, Running
<1>2. cmd \in Stages
  BY <1>1 DEF Running, NextStage, Stages
<1>3. m \in Machine /\ (cmd = "finalize" => m = connect.m)
  <2>1. connect.m \in Machine
    BY DEF EnrollmentInv, EnrollmentTypeOK, Connects
  <2> QED BY <2>1, OtherMachineFacts DEF RunsOn, Remote
<1>4. connect.policy \in Policy
  BY <1>1 DEF EnrollmentInv, ConnectOK, Running
<1>5. /\ r.auto = TRUE /\ r.at = "read" /\ r.cmd = cmd /\ r.m = m /\ r.art = art
  BY DEF Row
<1> HIDE DEF r, m, cmd
<1>6. r \in Commanded /\ SoundProc(r, sent)
  BY <1>1, <1>2, <1>3, <1>4, RowIsSound DEF r
<1>7. proc' \in [Process -> Commanded \cup SettingUp \cup {Idle}] /\ ProcOK'
  BY <1>1, <1>6, ProcStep DEF EnrollmentInv
<1>8. ConnectOK'
  <2>1. proc'[p] = r /\ \A q \in Process \ {p} : proc'[q] = proc[q]
    BY <1>1 DEF EnrollmentInv, EnrollmentTypeOK, Become
  <2>2. \A q \in Process : ~proc[q].auto
    BY <1>1 DEF Waiting
  <2>3. Waited(r, connect)
    BY <1>1, <1>3, <1>5 DEF Waited, Steps
  <2>4. \A q \in Process : Waited(proc'[q], connect')
    BY <1>1, <2>1, <2>2, <2>3 DEF Waited
  <2> QED BY <1>1, <2>1, <2>2, <2>4 DEF EnrollmentInv, ConnectOK
<1> QED BY <1>1, <1>7, <1>8, QuietStep DEF EnrollmentInv, EnrollmentTypeOK

LEMMA BeginTrustKeeps ==
  ASSUME EnrollmentInv, NEW p \in Process, NEW m \in Machine, NEW cmd \in {"prepare", "revoke"},
         NEW policy \in Policy \cup {None}, cmd = "prepare" => policy \in Policy,
         BeginTrust(p, m, cmd, policy)
  PROVE  EnrollmentInv'
<1> DEFINE r == [Idle EXCEPT !.at = "read", !.cmd = cmd, !.m = m, !.policy = policy]
<1>1. Become(p, r) /\ UNCHANGED <<key, temp, ledger, trust, sent, connect>>
  BY DEF BeginTrust
<1>2. r \in Commanded
  BY DEF Idle, Commanded, Steps, Commands
<1>3. r.at = "read" /\ r.cmd = cmd /\ r.policy = policy /\ r.auto = FALSE
  BY DEF Idle
<1> HIDE DEF r
<1>4. SoundProc(r, sent) /\ Waited(r, connect)
  BY <1>3 DEF SoundProc, Waited
<1>5. proc' \in [Process -> Commanded \cup SettingUp \cup {Idle}] /\ ProcOK'
  BY <1>1, <1>2, <1>4, ProcStep DEF EnrollmentInv
<1>6. ConnectOK'
  BY <1>1, <1>3, <1>4, WaitedStep DEF EnrollmentInv
<1> QED BY <1>1, <1>5, <1>6, QuietStep DEF EnrollmentInv, EnrollmentTypeOK

-----------------------------------------------------------------------------
(* The trust record.                                                       *)

\* A step that ends the process, without any other effect than on connect.
LEMMA EndedKeeps ==
  ASSUME EnrollmentInv, NEW p \in Process, Become(p, Idle), UNCHANGED <<key, temp, ledger, trust, sent>>,
         connect' = connect \/ Reported(p, FALSE)
  PROVE  EnrollmentInv'
<1>1. SoundProc(Idle, sent) /\ ~Idle.auto /\ Waited(Idle, connect)
  BY IdleIsSound DEF Waited
<1>2. proc' \in [Process -> Commanded \cup SettingUp \cup {Idle}] /\ ProcOK'
  BY <1>1, ProcStep DEF EnrollmentInv
<1>3. ConnectOK' /\ connect' \in Connects /\ (connect' = connect \/ connect'.at # "done")
  <2>1. CASE connect' = connect
    BY <1>1, <2>1, WaitedStep DEF EnrollmentInv, EnrollmentTypeOK
  <2>2. CASE Reported(p, FALSE)
    BY <2>2, ReportedStep DEF EnrollmentInv
  <2> QED BY <2>1, <2>2
<1> QED BY <1>2, <1>3, QuietStep DEF EnrollmentInv, EnrollmentTypeOK

LEMMA ReadRecordKeeps ==
  ASSUME EnrollmentInv, NEW p \in Process, ReadRecord(p)
  PROVE  EnrollmentInv'
<1>1. proc[p].at = "read" /\ proc[p] \in Commanded /\ UNCHANGED <<key, temp, ledger, trust, sent>>
  BY RowTypes DEF EnrollmentInv, ReadRecord, Steps
<1>2. SoundProc(proc[p], sent) /\ Waited(proc[p], connect)
  BY DEF EnrollmentInv, ProcOK, ConnectOK
<1> DEFINE t == trust[proc[p].m]
           w == [proc[p] EXCEPT !.at = "write"]
           v == [proc[p] EXCEPT !.at = "write", !.policy = t.policy]
           g == [proc[p] EXCEPT !.at = "ledger"]
<1>3. t \in Records \cup {None}
  BY <1>1 DEF EnrollmentInv, EnrollmentTypeOK, Commanded
<1>4. CASE Become(p, Idle) /\ (connect' = connect \/ Reported(p, FALSE))
  BY <1>1, <1>4, EndedKeeps
<1>5. CASE connect' = connect /\ proc[p].cmd # "revoke" /\ (Become(p, w) \/ Become(p, g))
  <2>1. PICK a \in {"write", "ledger"} : Become(p, [proc[p] EXCEPT !.at = a])
    BY <1>5
  <2> DEFINE r == [proc[p] EXCEPT !.at = a]
  <2>2. a \in Steps /\ proc[p].at \in Steps
    BY <1>1 DEF Steps
  <2>3. r \in Commanded /\ SoundProc(r, sent) /\ r.auto = proc[p].auto /\ Waited(r, connect)
    BY <1>1, <1>2, <1>5, <2>2, AtStep
  <2> HIDE DEF r
  <2>4. proc' \in [Process -> Commanded \cup SettingUp \cup {Idle}] /\ ProcOK'
    BY <1>1, <2>1, <2>3, ProcStep DEF EnrollmentInv, r
  <2>5. ConnectOK'
    BY <1>5, <2>1, <2>3, WaitedStep DEF EnrollmentInv, r
  <2> QED BY <1>1, <1>5, <2>4, <2>5, QuietStep DEF EnrollmentInv, EnrollmentTypeOK
<1>6. CASE connect' = connect /\ proc[p].cmd = "revoke" /\ t # None /\ Become(p, v)
  <2>1. t.policy \in Policy
    BY <1>3, <1>6 DEF Records
  <2> HIDE DEF t
  <2>2. /\ v.at = "write" /\ v.cmd = proc[p].cmd /\ v.m = proc[p].m /\ v.art = proc[p].art
        /\ v.policy = t.policy /\ v.entry = proc[p].entry /\ v.auto = proc[p].auto
    BY <1>1, Zenon DEF Commanded
  <2>3. v \in Commanded
    <3>1. t.policy \in Policy \cup {None} /\ "write" \in Steps
      BY <2>1 DEF Steps
    <3> QED BY <1>1, <3>1, Zenon DEF Commanded
  <2> HIDE DEF v
  <2>4. SoundProc(v, sent)
    BY <1>6, <2>1, <2>2 DEF SoundProc
  <2>5. Waited(v, connect)
    BY <1>2, <2>2 DEF Waited, Steps
  <2>6. proc' \in [Process -> Commanded \cup SettingUp \cup {Idle}] /\ ProcOK'
    BY <1>1, <1>6, <2>3, <2>4, ProcStep DEF EnrollmentInv
  <2>7. ConnectOK'
    BY <1>6, <2>2, <2>5, WaitedStep DEF EnrollmentInv
  <2> QED BY <1>1, <1>6, <2>6, <2>7, QuietStep DEF EnrollmentInv, EnrollmentTypeOK
<1> QED
  <2>1. CASE proc[p].cmd = "prepare"
    BY <1>4, <1>5, <2>1 DEF ReadRecord
  <2>2. CASE proc[p].cmd = "revoke"
    BY <1>4, <1>6, <2>2 DEF ReadRecord
  <2>3. CASE proc[p].cmd \notin {"prepare", "revoke"}
    BY <1>4, <1>5, <2>3 DEF ReadRecord
  <2> QED BY <2>1, <2>2, <2>3
\* A record becomes active by a confirm or a finalize only, whose artifact says
\* what the ledgers hold.
LEMMA WriteRecordKeeps ==
  ASSUME EnrollmentInv, NEW p \in Process, WriteRecord(p)
  PROVE  EnrollmentInv'
<1> DEFINE m == proc[p].m
           cmd == proc[p].cmd
           g == [proc[p] EXCEPT !.at = "ledger"]
           t == [state |-> ToState(cmd), policy |-> proc[p].policy]
<1>1. /\ proc[p].at = "write" /\ proc[p] \in Commanded /\ UNCHANGED <<key, temp, ledger, sent, connect>>
      /\ proc[p].at \in Steps
  BY RowTypes DEF EnrollmentInv, WriteRecord, Steps
<1>2. SoundProc(proc[p], sent) /\ Waited(proc[p], connect)
  BY DEF EnrollmentInv, ProcOK, ConnectOK
<1>3. m \in Machine /\ proc[p].policy \in Policy
  BY <1>1, <1>2 DEF Commanded, SoundProc
<1>4. t \in Records /\ t # None /\ t.policy = proc[p].policy /\ t.state = ToState(cmd)
  BY <1>3, NoneAssumption DEF Records, ToState
<1>5. trust' = [trust EXCEPT ![m] = t] /\ trust \in [Machine -> Records \cup {None}]
  BY DEF WriteRecord, EnrollmentInv, EnrollmentTypeOK
<1> HIDE DEF t
<1>6. trust' \in [Machine -> Records \cup {None}] /\ trust'[m] = t
  BY <1>3, <1>4, <1>5
<1>7. /\ proc' \in [Process -> Commanded \cup SettingUp \cup {Idle}]
      /\ ProcOK' /\ ConnectOK'
  <2>1. CASE cmd \in {"prepare", "revoke"}
    <3>1. Become(p, Idle)
      BY <2>1 DEF WriteRecord
    <3>2. SoundProc(Idle, sent) /\ ~Idle.auto /\ Waited(Idle, connect)
      BY IdleIsSound DEF Waited
    <3> QED BY <1>1, <3>1, <3>2, ProcStep, WaitedStep DEF EnrollmentInv
  <2>2. CASE cmd \notin {"prepare", "revoke"}
    <3>1. Become(p, g)
      BY <2>2 DEF WriteRecord
    <3>2. g \in Commanded /\ SoundProc(g, sent) /\ g.auto = proc[p].auto /\ Waited(g, connect)
      <4>1. "ledger" \in Steps /\ ("ledger" = "write" => proc[p].cmd # "revoke")
        BY DEF Steps
      <4> QED BY <1>1, <1>2, <4>1, AtStep
    <3> HIDE DEF g
    <3>3. proc' \in [Process -> Commanded \cup SettingUp \cup {Idle}] /\ ProcOK'
      BY <1>1, <3>1, <3>2, ProcStep DEF EnrollmentInv
    <3>4. ConnectOK'
      BY <1>1, <3>1, <3>2, WaitedStep DEF EnrollmentInv
    <3> QED BY <3>3, <3>4
  <2> QED BY <2>1, <2>2
<1>8. LedgersGrow /\ LedgersAgree'
  BY <1>1, SameGrows DEF EnrollmentInv
<1>9. SentOK' /\ ConnectIsTruthful'
  BY <1>1, SMTT(30) DEF EnrollmentInv, SentOK, Backed, ConnectIsTruthful, Agree, Initiates
<1>10. ActiveIsProven'
  <2> SUFFICES ASSUME NEW n \in Machine, trust'[n] # None, trust'[n].state = "active"
               PROVE  \E i \in Id :
                        \/ Agree(n, i) /\ ledger[n][i].op = trust'[n].policy
                           /\ ledger[OtherMachine(n)][i].stage = "confirmed"
                        \/ Agree(OtherMachine(n), i) /\ ledger[n][i].dp = trust'[n].policy
    BY <1>1 DEF ActiveIsProven, Agree, Initiates
  <2>1. CASE n # m
    <3>1. trust'[n] = trust[n]
      BY <1>5, <2>1
    <3> QED BY <3>1 DEF EnrollmentInv, ActiveIsProven
  <2>2. CASE n = m
    <3>1. cmd \in {"confirm", "finalize"} /\ trust'[n].policy = proc[p].policy
      <4>1. ToState(cmd) = "active" /\ cmd \in Commands
        BY <1>1, <1>4, <1>6, <2>2 DEF Commanded
      <4> QED BY <1>4, <1>6, <2>2, <4>1 DEF ToState, Commands
    <3> DEFINE art == proc[p].art
    <3>2. art \in sent
      BY <1>1, <1>2, <3>1 DEF SoundProc, Given
    <3>3. art.id \in Id /\ Backed(art)
      BY <3>2 DEF EnrollmentInv, EnrollmentTypeOK, SentOK, Artifacts
    <3>4. CASE cmd = "finalize"
      <4>1. /\ art.kind = "confirm" /\ art.origin = m /\ proc[p].entry.op = art.op
            /\ proc[p].policy = proc[p].entry.op
        BY <1>1, <1>2, <3>4 DEF SoundProc, Given, HasRead
      <4> HIDE DEF art
      <4>2. Agree(m, art.id) /\ ledger[m][art.id].op = proc[p].policy
            /\ ledger[OtherMachine(m)][art.id].stage = "confirmed"
        BY <3>3, <4>1 DEF Backed
      <4> QED BY <2>2, <3>1, <3>3, <4>2
    <3>5. CASE cmd = "confirm"
      <4>1. /\ art.kind = "accept" /\ art.origin = OtherMachine(m) /\ proc[p].entry.dp = art.dp
            /\ proc[p].policy = proc[p].entry.dp
        BY <1>1, <1>2, <3>5 DEF SoundProc, Given, HasRead
      <4>2. OtherMachine(OtherMachine(m)) = m
        BY <1>3, OtherMachineFacts
      <4> HIDE DEF art
      <4>3. Agree(OtherMachine(m), art.id) /\ ledger[m][art.id].dp = proc[p].policy
        BY <3>3, <4>1, <4>2 DEF Backed
      <4> QED BY <2>2, <3>1, <3>3, <4>3
    <3> QED BY <3>1, <3>4, <3>5
  <2> QED BY <2>1, <2>2
<1>11. EnrollmentTypeOK'
  BY <1>1, <1>6, <1>7 DEF EnrollmentInv, EnrollmentTypeOK
<1> QED BY <1>7, <1>8, <1>9, <1>10, <1>11 DEF EnrollmentInv

-----------------------------------------------------------------------------
(* The ledger entries.                                                     *)

\* A stage ends well: it wrote its entry and printed arts.
LEMMA StageEnds ==
  ASSUME EnrollmentInv, NEW p \in Process, Become(p, Idle), Reported(p, TRUE), proc[p].cmd \in Stages,
         NEW arts \in SUBSET Artifacts, sent' = sent \cup arts, \A art \in arts : Backed(art)',
         UNCHANGED <<key, temp, trust>>,
         ledger' \in [Machine -> [Id -> Entries \cup {None}]], LedgersGrow, LedgersAgree',
         proc[p].cmd = "finalize" =>
           AgreeIn(ledger', proc[p].m, proc[p].art.id)
             /\ ledger'[OtherMachine(proc[p].m)][proc[p].art.id].stage = "confirmed"
  PROVE  EnrollmentInv'
<1>1. SoundProc(Idle, sent') /\ sent \subseteq sent'
  BY IdleIsSound
<1>2. proc' \in [Process -> Commanded \cup SettingUp \cup {Idle}] /\ ProcOK'
  BY <1>1, ProcStep DEF EnrollmentInv
<1>3. /\ ConnectOK' /\ connect' \in Connects
      /\ \/ connect' = connect
         \/ connect'.at # "done"
         \/ /\ proc[p].cmd = "finalize"
            /\ connect'.m = proc[p].m /\ connect'.id = proc[p].art.id
  BY ReportedStep DEF EnrollmentInv
<1>4. SentOK' /\ ActiveIsProven'
  BY GrowsKeeps DEF EnrollmentInv, SentOK
<1>5. ConnectIsTruthful'
  <2>1. CASE connect' = connect
    <3>1. connect \in Connects /\ (connect.at = "done" => connect.id \in Id)
      BY DEF EnrollmentInv, EnrollmentTypeOK, ConnectOK
    <3> QED BY <2>1, <3>1, GrowsKeeps DEF EnrollmentInv
  <2>2. CASE connect'.at # "done"
    BY <2>2 DEF ConnectIsTruthful
  <2>3. CASE /\ proc[p].cmd = "finalize"
             /\ connect'.m = proc[p].m /\ connect'.id = proc[p].art.id
    BY <2>3 DEF ConnectIsTruthful, Agree, AgreeIn, Initiates
  <2> QED BY <1>3, <2>1, <2>2, <2>3
<1>6. EnrollmentTypeOK'
  BY <1>2, <1>3 DEF EnrollmentInv, EnrollmentTypeOK
<1> QED BY <1>2, <1>3, <1>4, <1>5, <1>6 DEF EnrollmentInv

LEMMA ChallengeEndKeeps ==
  ASSUME EnrollmentInv, NEW p \in Process, ChallengeEnd(p)
  PROVE  EnrollmentInv'
<1> DEFINE m == proc[p].m
           offer == proc[p].art
           i == offer.id
           art == [offer EXCEPT !.kind = "challenge", !.dp = proc[p].policy]
           e == [role |-> "responder", stage |-> "challenged", op |-> art.op, dp |-> art.dp]
<1>1. /\ proc[p].at \in Steps /\ proc[p].cmd = "challenge" /\ proc[p] \in Commanded
      /\ Become(p, Idle) /\ UNCHANGED <<key, temp, trust>>
  BY RowTypes DEF EnrollmentInv, ChallengeEnd, Steps
<1>2. /\ offer \in sent /\ offer.kind = "offer" /\ offer.origin = OtherMachine(m)
      /\ proc[p].policy \in Policy /\ m \in Machine
  BY <1>1 DEF EnrollmentInv, ProcOK, SoundProc, Given, Commanded
<1>3. offer \in Artifacts /\ i \in Id /\ offer.op \in Policy /\ Backed(offer)
  BY <1>2 DEF EnrollmentInv, EnrollmentTypeOK, SentOK, Artifacts
<1>4. /\ art \in Artifacts /\ art.kind = "challenge" /\ art.id = i /\ art.origin = OtherMachine(m)
      /\ art.op = offer.op /\ art.dp = proc[p].policy
  BY <1>2, <1>3, Zenon DEF Artifacts
<1>5. CASE ~CanCreateEntry(m, i)
  <2>1. Reported(p, FALSE) /\ UNCHANGED <<ledger, sent>>
    BY <1>4, <1>5 DEF ChallengeEnd
  <2> QED BY <1>1, <2>1, EndedKeeps
<1>6. CASE CanCreateEntry(m, i)
  <2>1. SetEntry(m, i, e) /\ sent' = sent \cup {art} /\ Reported(p, TRUE)
    BY <1>4, <1>6 DEF ChallengeEnd, Emit
  <2>2. e \in Entries /\ e.role = "responder" /\ e.op = art.op /\ e.dp = art.dp
    BY <1>2, <1>3, <1>4 DEF Entries
  <2>3. ledger[m][i] = None
    BY <1>6 DEF CanCreateEntry
  <2> HIDE DEF e, art, offer, i, m
  <2>4. /\ ledger' \in [Machine -> [Id -> Entries \cup {None}]] /\ LedgersGrow /\ LedgersAgree'
        /\ ledger'[m][i] = e
        /\ \A n \in Machine, j \in Id : n # m \/ j # i => ledger'[n][j] = ledger[n][j]
    BY <1>2, <1>3, <2>1, <2>2, <2>3, EntryGrows DEF EnrollmentInv
  <2>5. OtherMachine(m) \in Machine /\ OtherMachine(m) # m /\ OtherMachine(OtherMachine(m)) = m
    BY <1>2, OtherMachineFacts
  <2>6. ledger'[OtherMachine(m)][i] = ledger[OtherMachine(m)][i]
    BY <1>3, <2>4, <2>5
  <2>7. ASSUME NEW x \in {art} PROVE Backed(x)'
    <3>1. x.kind = "challenge" /\ x.id = i /\ x.origin = OtherMachine(m) /\ x.op = offer.op /\ x.dp \in Policy
      BY <1>2, <1>4, <2>7
    <3>2. e # None /\ e.op = x.op /\ e.dp = x.dp
      BY <2>2, <2>7, NoneAssumption
    <3>3. /\ ledger[OtherMachine(m)][i] # None /\ ledger[OtherMachine(m)][i].role = "initiator"
          /\ ledger[OtherMachine(m)][i].op = offer.op
      BY <1>2, <1>3 DEF Backed, Initiates, i
    <3> QED BY <2>2, <2>4, <2>5, <2>6, <3>1, <3>2, <3>3 DEF Backed, Initiates
  <2>8. proc[p].cmd \in Stages /\ proc[p].cmd # "finalize" /\ {art} \in SUBSET Artifacts
    BY <1>1, <1>4 DEF Stages
  <2> QED BY <1>1, <2>1, <2>4, <2>7, <2>8, StageEnds
<1> QED BY <1>5, <1>6

LEMMA AcceptEndKeeps ==
  ASSUME EnrollmentInv, NEW p \in Process, AcceptEnd(p)
  PROVE  EnrollmentInv'
<1> DEFINE m == proc[p].m
           challenge == proc[p].art
           i == challenge.id
           art == [challenge EXCEPT !.kind = "accept"]
           e == [proc[p].entry EXCEPT !.stage = "accepted", !.dp = challenge.dp]
<1>1. /\ proc[p].at \in Steps /\ proc[p].cmd = "accept" /\ proc[p] \in Commanded
      /\ Become(p, Idle) /\ UNCHANGED <<key, temp, trust>> /\ Reported(p, TRUE)
  BY RowTypes DEF EnrollmentInv, AcceptEnd, Steps
<1>2. /\ challenge \in sent /\ challenge.kind = "challenge" /\ challenge.origin = m /\ m \in Machine
      /\ proc[p].entry \in Entries /\ proc[p].entry.role = "initiator"
      /\ proc[p].entry.op = challenge.op
  BY <1>1 DEF EnrollmentInv, ProcOK, SoundProc, Given, HasRead, Commanded
<1>3. challenge \in Artifacts /\ i \in Id /\ Backed(challenge)
  BY <1>2 DEF EnrollmentInv, EnrollmentTypeOK, SentOK, Artifacts
<1>4. challenge.dp \in Policy
  BY <1>2, <1>3 DEF Backed
<1>5. /\ art \in Artifacts /\ art.kind = "accept" /\ art.id = i /\ art.origin = m
      /\ art.op = challenge.op /\ art.dp = challenge.dp
  BY <1>2, <1>3, <1>4, Zenon DEF Artifacts
<1>6. /\ e \in Entries /\ e.role = "initiator" /\ e.stage = "accepted"
      /\ e.op = challenge.op /\ e.dp = challenge.dp
  BY <1>2, <1>4, Zenon DEF Entries
<1>7. SetEntry(m, i, e) /\ sent' = sent \cup {art}
  BY <1>5 DEF AcceptEnd, Emit
<1> HIDE DEF e, art
<1>8. OtherMachine(m) \in Machine /\ OtherMachine(m) # m
  BY <1>2, OtherMachineFacts
<1>9. /\ ledger[m][i] # None /\ ledger[m][i].role = "initiator" /\ ledger[m][i].op = challenge.op
      /\ ledger[OtherMachine(m)][i] # None /\ ledger[OtherMachine(m)][i].role = "responder"
      /\ ledger[OtherMachine(m)][i].op = challenge.op /\ ledger[OtherMachine(m)][i].dp = challenge.dp
  BY <1>2, <1>3 DEF Backed, Initiates
<1>10. ledger[m][i].stage # "offered" => ledger[m][i].dp = challenge.dp
  BY <1>2, <1>3, <1>9, SMTT(30) DEF EnrollmentInv, LedgersAgree, Initiates, Agree
<1>11. ledger'[m][i] = e /\ ledger'[OtherMachine(m)][i] = ledger[OtherMachine(m)][i]
  BY <1>2, <1>3, <1>7, <1>8 DEF EnrollmentInv, EnrollmentTypeOK, SetEntry
<1> HIDE DEF m, i, challenge
<1>12. AgreeIn(ledger', m, i)
  <2>1. e # None
    BY <1>6, NoneAssumption
  <2> QED BY <1>6, <1>9, <1>11, <2>1 DEF AgreeIn
<1>13. ledger' \in [Machine -> [Id -> Entries \cup {None}]] /\ LedgersGrow /\ LedgersAgree'
  BY <1>2, <1>3, <1>6, <1>7, <1>9, <1>10, <1>12, EntryGrows DEF EnrollmentInv, i
<1>14. ASSUME NEW x \in {art} PROVE Backed(x)'
  <2>1. x.kind = "accept" /\ x.id = i /\ x.origin = m /\ x.op = challenge.op /\ x.dp = challenge.dp
    BY <1>5, <1>14
  <2>2. Agree(x.origin, x.id)'
    BY <1>12, <2>1, AgreeAfter
  <2> QED BY <1>4, <1>6, <1>9, <1>11, <2>1, <2>2 DEF Backed, Agree
<1>15. proc[p].cmd \in Stages /\ proc[p].cmd # "finalize" /\ {art} \in SUBSET Artifacts
  BY <1>1, <1>5 DEF Stages
<1> QED BY <1>1, <1>7, <1>13, <1>14, <1>15, StageEnds

LEMMA ConfirmEndKeeps ==
  ASSUME EnrollmentInv, NEW p \in Process, ConfirmEnd(p)
  PROVE  EnrollmentInv'
<1> DEFINE m == proc[p].m
           accept == proc[p].art
           i == accept.id
           art == [accept EXCEPT !.kind = "confirm"]
           e == [proc[p].entry EXCEPT !.stage = "confirmed"]
<1>1. /\ proc[p].at \in Steps /\ proc[p].cmd = "confirm" /\ proc[p] \in Commanded
      /\ Become(p, Idle) /\ UNCHANGED <<key, temp, trust>> /\ Reported(p, TRUE)
  BY RowTypes DEF EnrollmentInv, ConfirmEnd, Steps
<1>2. /\ accept \in sent /\ accept.kind = "accept" /\ accept.origin = OtherMachine(m) /\ m \in Machine
      /\ proc[p].entry \in Entries /\ proc[p].entry.role = "responder"
      /\ proc[p].entry.op = accept.op /\ proc[p].entry.dp = accept.dp
  BY <1>1 DEF EnrollmentInv, ProcOK, SoundProc, Given, HasRead, Commanded
<1>3. accept \in Artifacts /\ i \in Id /\ Backed(accept)
  BY <1>2 DEF EnrollmentInv, EnrollmentTypeOK, SentOK, Artifacts
<1>4. accept.dp \in Policy
  BY <1>2, <1>3 DEF Backed
<1>5. /\ art \in Artifacts /\ art.kind = "confirm" /\ art.id = i /\ art.origin = OtherMachine(m)
      /\ art.op = accept.op /\ art.dp = accept.dp
  BY <1>2, <1>3, <1>4, Zenon DEF Artifacts
<1>6. /\ e \in Entries /\ e.role = "responder" /\ e.stage = "confirmed"
      /\ e.op = accept.op /\ e.dp = accept.dp
  BY <1>2, <1>4, Zenon DEF Entries
<1>7. SetEntry(m, i, e) /\ sent' = sent \cup {art}
  BY <1>5 DEF ConfirmEnd, Emit
<1> HIDE DEF e, art
<1>8. OtherMachine(m) \in Machine /\ OtherMachine(m) # m /\ OtherMachine(OtherMachine(m)) = m
  BY <1>2, OtherMachineFacts
<1>9. /\ ledger[m][i] # None /\ ledger[m][i].role = "responder"
      /\ ledger[m][i].op = accept.op /\ ledger[m][i].dp = accept.dp
      /\ AgreeIn(ledger, OtherMachine(m), i)
      /\ ledger[OtherMachine(m)][i].op = accept.op
  BY <1>2, <1>3, <1>8, AgreeAfter DEF Backed, Initiates
<1>10. ledger'[m][i] = e /\ ledger'[OtherMachine(m)][i] = ledger[OtherMachine(m)][i]
  BY <1>2, <1>3, <1>7, <1>8 DEF EnrollmentInv, EnrollmentTypeOK, SetEntry
<1> HIDE DEF m, i, accept
<1>11. e # None
  BY <1>6, NoneAssumption
<1>12. AgreeIn(ledger', OtherMachine(m), i)
  BY <1>6, <1>8, <1>9, <1>10, <1>11 DEF AgreeIn
<1>13. ledger' \in [Machine -> [Id -> Entries \cup {None}]] /\ LedgersGrow /\ LedgersAgree'
  BY <1>2, <1>3, <1>6, <1>7, <1>9, EntryGrows DEF EnrollmentInv, i
<1>14. ASSUME NEW x \in {art} PROVE Backed(x)'
  <2>1. x.kind = "confirm" /\ x.id = i /\ x.origin = OtherMachine(m) /\ x.op = accept.op /\ x.dp = accept.dp
    BY <1>5, <1>14
  <2>2. Agree(x.origin, x.id)'
    BY <1>12, <2>1, AgreeAfter
  <2> QED BY <1>4, <1>6, <1>8, <1>9, <1>10, <1>11, <2>1, <2>2 DEF Backed, Agree
<1>15. proc[p].cmd \in Stages /\ proc[p].cmd # "finalize" /\ {art} \in SUBSET Artifacts
  BY <1>1, <1>5 DEF Stages
<1> QED BY <1>1, <1>7, <1>13, <1>14, <1>15, StageEnds

LEMMA FinalizeEndKeeps ==
  ASSUME EnrollmentInv, NEW p \in Process, FinalizeEnd(p)
  PROVE  EnrollmentInv'
<1> DEFINE m == proc[p].m
           confirm == proc[p].art
           i == confirm.id
           e == [proc[p].entry EXCEPT !.stage = "confirmed"]
<1>1. /\ proc[p].at \in Steps /\ proc[p].cmd = "finalize" /\ proc[p] \in Commanded
      /\ Become(p, Idle) /\ UNCHANGED <<key, temp, trust>> /\ Reported(p, TRUE)
      /\ sent' = sent \cup {}
  BY RowTypes DEF EnrollmentInv, FinalizeEnd, Steps
<1>2. /\ confirm \in sent /\ confirm.kind = "confirm" /\ confirm.origin = m /\ m \in Machine
      /\ proc[p].entry \in Entries /\ proc[p].entry.role = "initiator"
      /\ proc[p].entry.op = confirm.op /\ proc[p].entry.dp = confirm.dp
  BY <1>1 DEF EnrollmentInv, ProcOK, SoundProc, Given, HasRead, Commanded
<1>3. confirm \in Artifacts /\ i \in Id /\ Backed(confirm)
  BY <1>2 DEF EnrollmentInv, EnrollmentTypeOK, SentOK, Artifacts
<1>4. /\ e \in Entries /\ e.role = "initiator" /\ e.stage = "confirmed"
      /\ e.op = confirm.op /\ e.dp = confirm.dp
  <2>1. confirm.dp \in Policy
    BY <1>2, <1>3 DEF Backed
  <2> QED BY <1>2, <2>1, Zenon DEF Entries
<1>5. SetEntry(m, i, e)
  BY DEF FinalizeEnd
<1> HIDE DEF e
<1>6. OtherMachine(m) \in Machine /\ OtherMachine(m) # m
  BY <1>2, OtherMachineFacts
<1>7. /\ AgreeIn(ledger, m, i) /\ ledger[m][i].op = confirm.op
      /\ ledger[OtherMachine(m)][i].dp = confirm.dp /\ ledger[OtherMachine(m)][i].stage = "confirmed"
  BY <1>2, <1>3, AgreeAfter DEF Backed
<1>8. ledger'[m][i] = e /\ ledger'[OtherMachine(m)][i] = ledger[OtherMachine(m)][i]
  BY <1>2, <1>3, <1>5, <1>6 DEF EnrollmentInv, EnrollmentTypeOK, SetEntry
<1>9. e # None
  BY <1>4, NoneAssumption
<1> HIDE DEF m, i, confirm
<1>10. AgreeIn(ledger', m, i)
  BY <1>4, <1>7, <1>8, <1>9 DEF AgreeIn
<1>11. ledger' \in [Machine -> [Id -> Entries \cup {None}]] /\ LedgersGrow /\ LedgersAgree'
  <2>1. /\ e.role = ledger[m][i].role /\ e.op = ledger[m][i].op /\ e.dp = ledger[m][i].dp
        /\ e.role # "responder" /\ e.stage \in {"accepted", "confirmed"}
    BY <1>4, <1>7 DEF AgreeIn
  <2> QED BY <1>2, <1>3, <1>4, <1>5, <1>10, <2>1, EntryGrows DEF EnrollmentInv, i
<1>12. proc[p].cmd \in Stages /\ {} \in SUBSET Artifacts
  BY <1>1 DEF Stages
<1>13. AgreeIn(ledger', proc[p].m, proc[p].art.id)
         /\ ledger'[OtherMachine(proc[p].m)][proc[p].art.id].stage = "confirmed"
  BY <1>7, <1>8, <1>10 DEF m, i, confirm
<1> QED BY <1>1, <1>11, <1>12, <1>13, StageEnds
\* An offer is entered under an id that no ledger holds.
LEMMA OfferedKeeps ==
  ASSUME EnrollmentInv, NEW m \in Machine, NEW i \in Id, NEW policy \in Policy, Offered(m, i, policy)
  PROVE  /\ ledger' \in [Machine -> [Id -> Entries \cup {None}]] /\ LedgersGrow /\ LedgersAgree'
         /\ sent' \subseteq Artifacts /\ SentOK' /\ ActiveIsProven' /\ ProcOK'
<1> DEFINE e == [role |-> "initiator", stage |-> "offered", op |-> policy, dp |-> None]
           art == [kind |-> "offer", id |-> i, origin |-> m, op |-> policy, dp |-> None]
<1>1. /\ SetEntry(m, i, e) /\ sent' = sent \cup {art} /\ UNCHANGED <<key, temp, trust, proc>>
      /\ ledger[m][i] = None
  BY DEF Offered, FreshId
<1>2. e \in Entries /\ e.role = "initiator" /\ e.stage = "offered" /\ e.op = policy
  BY DEF Entries
<1>3. /\ art \in Artifacts /\ art.kind = "offer" /\ art.id = i /\ art.origin = m /\ art.op = policy
  BY DEF Artifacts
<1> HIDE DEF e, art
<1>4. /\ ledger' \in [Machine -> [Id -> Entries \cup {None}]] /\ LedgersGrow /\ LedgersAgree'
      /\ ledger'[m][i] = e
  BY <1>1, <1>2, EntryGrows DEF EnrollmentInv
<1>5. ASSUME NEW x \in {art} PROVE Backed(x)'
  <2>1. x.kind = "offer" /\ x.id = i /\ x.origin = m /\ x.op = policy
    BY <1>3, <1>5
  <2>2. e # None
    BY <1>2, NoneAssumption
  <2> QED BY <1>2, <1>4, <2>1, <2>2 DEF Backed, Initiates
<1>6. (\A x \in sent : Backed(x)') /\ ActiveIsProven'
  BY <1>1, <1>4, GrowsKeeps DEF EnrollmentInv
<1>7. SentOK'
  BY <1>1, <1>5, <1>6 DEF SentOK
<1>8. sent' \subseteq Artifacts
  BY <1>1, <1>3 DEF EnrollmentInv, EnrollmentTypeOK
<1>9. ASSUME NEW q \in Process PROVE SoundProc(proc'[q], sent')
  <2>1. proc'[q] = proc[q] /\ SoundProc(proc[q], sent)
    BY <1>1 DEF EnrollmentInv, ProcOK
  <2>2. proc[q].art \in sent => proc[q].art \in sent'
    BY <1>1
  <2> QED BY <2>1, <2>2, Zenon DEF SoundProc, Given
<1> QED BY <1>4, <1>6, <1>7, <1>8, <1>9 DEF ProcOK

LEMMA OfferKeeps ==
  ASSUME EnrollmentInv, NEW m \in Machine, NEW i \in Id, NEW policy \in Policy, Offer(m, i, policy)
  PROVE  EnrollmentInv'
<1>1. Offered(m, i, policy) /\ connect' = connect /\ UNCHANGED <<key, temp, trust, proc>>
  BY DEF Offer, Offered
<1>2. /\ ledger' \in [Machine -> [Id -> Entries \cup {None}]] /\ LedgersGrow /\ LedgersAgree'
      /\ sent' \subseteq Artifacts /\ SentOK' /\ ActiveIsProven' /\ ProcOK'
  BY <1>1, OfferedKeeps
<1>3. ConnectOK' /\ ConnectIsTruthful'
  <2>1. connect \in Connects /\ (connect.at = "done" => connect.id \in Id)
    BY DEF EnrollmentInv, EnrollmentTypeOK, ConnectOK
  <2> QED BY <1>1, <1>2, <2>1, GrowsKeeps DEF EnrollmentInv, ConnectOK
<1>4. EnrollmentTypeOK'
  BY <1>1, <1>2 DEF EnrollmentInv, EnrollmentTypeOK
<1> QED BY <1>2, <1>3, <1>4 DEF EnrollmentInv

LEMMA ConnectStartKeeps ==
  ASSUME EnrollmentInv, NEW m \in Machine, NEW i \in Id, NEW policy \in Policy, ConnectStart(m, i, policy)
  PROVE  EnrollmentInv'
<1>1. /\ Offered(m, i, policy) /\ connect.at \in {"idle", "done", "failed"}
      /\ connect' = [at |-> "offer", m |-> m, id |-> i, policy |-> policy]
      /\ UNCHANGED <<key, temp, trust, proc>>
  BY DEF ConnectStart, Offered
<1>2. /\ ledger' \in [Machine -> [Id -> Entries \cup {None}]] /\ LedgersGrow /\ LedgersAgree'
      /\ sent' \subseteq Artifacts /\ SentOK' /\ ActiveIsProven' /\ ProcOK'
  BY <1>1, OfferedKeeps
<1>3. connect' \in Connects /\ connect'.at = "offer" /\ connect'.id = i /\ connect'.policy = policy
  BY <1>1 DEF Connects
<1>4. \A q \in Process : ~proc[q].auto
  BY <1>1 DEF EnrollmentInv, ConnectOK, Waited, Running
<1>5. ConnectOK' /\ ConnectIsTruthful'
  BY <1>1, <1>3, <1>4 DEF ConnectOK, Waited, ConnectIsTruthful
<1>6. EnrollmentTypeOK'
  BY <1>1, <1>2, <1>3 DEF EnrollmentInv, EnrollmentTypeOK
<1> QED BY <1>2, <1>5, <1>6 DEF EnrollmentInv

-----------------------------------------------------------------------------
(* Failures.                                                               *)

LEMMA CrashKeeps ==
  ASSUME EnrollmentInv, NEW p \in Process, Crash(p)
  PROVE  EnrollmentInv'
BY EndedKeeps DEF Crash

\* A row that connect no longer waits for.
LEMMA Forgotten ==
  ASSUME NEW r \in Commanded, NEW arts, SoundProc(r, arts)
  PROVE  /\ [r EXCEPT !.auto = FALSE] \in Commanded
         /\ [r EXCEPT !.auto = FALSE].auto = FALSE
         /\ SoundProc([r EXCEPT !.auto = FALSE], arts)
<1> DEFINE s == [r EXCEPT !.auto = FALSE]
<1>1. FALSE \in BOOLEAN
  OBVIOUS
<1>2. s \in Commanded
  BY <1>1, Zenon DEF Commanded
<1>3. /\ s.at = r.at /\ s.cmd = r.cmd /\ s.m = r.m /\ s.art = r.art
      /\ s.policy = r.policy /\ s.entry = r.entry /\ s.auto = FALSE
  BY Zenon DEF Commanded
<1> HIDE DEF s
<1>4. SoundProc(s, arts)
  BY <1>3, Zenon DEF SoundProc, Given, HasRead
<1> QED BY <1>2, <1>3, <1>4 DEF s

LEMMA ConnectFailsKeeps ==
  ASSUME EnrollmentInv, ConnectFails
  PROVE  EnrollmentInv'
<1>1. /\ connect' = [connect EXCEPT !.at = "failed"] /\ connect.at \in Running
      /\ proc' = [q \in Process |-> IF proc[q].auto THEN [proc[q] EXCEPT !.auto = FALSE]
                                   ELSE proc[q]]
      /\ UNCHANGED <<key, temp, ledger, trust, sent>>
  BY DEF ConnectFails, Running
<1>2. ASSUME NEW q \in Process
      PROVE  /\ proc'[q] \in Commanded \cup SettingUp \cup {Idle} /\ proc'[q].auto = FALSE
             /\ SoundProc(proc'[q], sent')
  <2>1. proc[q] \in Commanded \cup SettingUp \cup {Idle} /\ SoundProc(proc[q], sent)
    BY DEF EnrollmentInv, EnrollmentTypeOK, ProcOK
  <2>2. CASE ~proc[q].auto
    <3>1. proc'[q] = proc[q] /\ sent' = sent /\ proc[q].auto \in BOOLEAN
      BY <1>1, <2>2, RowTypes DEF EnrollmentInv
    <3> QED BY <2>1, <2>2, <3>1
  <2>3. CASE proc[q].auto
    <3>1. proc'[q] = [proc[q] EXCEPT !.auto = FALSE] /\ sent' = sent
      BY <1>1, <2>3
    <3>2. proc[q] \in Commanded
      BY <2>3, RowTypes DEF EnrollmentInv, ConnectOK, Waited
    <3> QED BY <2>1, <3>1, <3>2, Forgotten
  <2> QED BY <2>2, <2>3
<1>3. proc' \in [Process -> Commanded \cup SettingUp \cup {Idle}] /\ ProcOK'
  <2>1. proc' = [q \in Process |-> proc'[q]]
    BY <1>1
  <2> QED BY <1>2, <2>1 DEF ProcOK
<1>4. connect' \in Connects /\ connect'.at = "failed" /\ connect'.id = connect.id
      /\ connect'.policy = connect.policy
  BY <1>1 DEF EnrollmentInv, EnrollmentTypeOK, Connects
<1>5. ConnectOK'
  <2>1. connect.at # "idle"
    BY <1>1 DEF Running
  <2> QED BY <1>2, <1>4, <2>1 DEF EnrollmentInv, ConnectOK, Waited
<1> QED BY <1>1, <1>3, <1>4, <1>5, QuietStep DEF EnrollmentInv, EnrollmentTypeOK

-----------------------------------------------------------------------------
(* The theorems.                                                           *)

LEMMA EnrollmentInitKeeps ==
  ASSUME EnrollmentInit
  PROVE  EnrollmentInv
<1>1. connect \in Connects /\ connect.at = "idle"
  BY DEF EnrollmentInit, Connects, Machine
<1>2. EnrollmentTypeOK
  BY <1>1 DEF EnrollmentInit, EnrollmentTypeOK
<1>3. \A q \in Process : proc[q] = Idle
  BY DEF EnrollmentInit
<1>4. ProcOK /\ ConnectOK
  BY <1>1, <1>3, IdleIsSound DEF ProcOK, ConnectOK, Waited
<1>5. SentOK /\ LedgersAgree /\ ActiveIsProven /\ ConnectIsTruthful
  BY <1>1 DEF EnrollmentInit, SentOK, LedgersAgree, Initiates, ActiveIsProven, ConnectIsTruthful
<1> QED BY <1>2, <1>4, <1>5 DEF EnrollmentInv

LEMMA EnrollmentNextKeeps ==
  ASSUME EnrollmentInv, [EnrollmentNext]_enrollmentVars
  PROVE  EnrollmentInv'
<1>1. CASE UNCHANGED enrollmentVars
  <2>1. ProcOK' /\ ConnectOK'
    BY <1>1 DEF enrollmentVars, EnrollmentInv, ProcOK, ConnectOK
  <2> QED BY <1>1, <2>1, QuietStep DEF enrollmentVars, EnrollmentInv, EnrollmentTypeOK
<1>2. ASSUME NEW p \in Process, (\E m \in Machine : SetupLook(p, m)) \/ SetupMkdir(p) \/ SetupRename(p)
      PROVE  EnrollmentInv'
  BY <1>2, SetupLookKeeps, SetupMkdirKeeps, SetupRenameKeeps
<1>3. ASSUME NEW p \in Process, NEW m \in Machine, NEW cmd \in Commands \ {"prepare", "revoke"},
             NEW art \in sent, NEW policy \in Policy, Begin(p, m, cmd, art, policy)
      PROVE  EnrollmentInv'
  <2>1. cmd \in Stages
    BY DEF Commands, Stages
  <2> QED BY <1>3, <2>1, BeginKeeps
<1>4. ASSUME NEW p \in Process, NEW m \in Machine,
             (\E policy \in Policy : BeginTrust(p, m, "prepare", policy)) \/ BeginTrust(p, m, "revoke", None)
      PROVE  EnrollmentInv'
  <2>1. ASSUME NEW policy \in Policy, BeginTrust(p, m, "prepare", policy) PROVE EnrollmentInv'
    BY <2>1, BeginTrustKeeps
  <2>2. ASSUME BeginTrust(p, m, "revoke", None) PROVE EnrollmentInv'
    BY <2>2, BeginTrustKeeps
  <2> QED BY <1>4, <2>1, <2>2
<1>5. ASSUME NEW p \in Process,
             \/ ReadRecord(p) \/ WriteRecord(p)
             \/ ChallengeEnd(p) \/ AcceptEnd(p) \/ ConfirmEnd(p) \/ FinalizeEnd(p)
             \/ \E art \in sent : ConnectStep(p, art)
             \/ Crash(p)
      PROVE  EnrollmentInv'
  BY <1>5, ReadRecordKeeps, WriteRecordKeeps, ChallengeEndKeeps, AcceptEndKeeps, ConfirmEndKeeps,
     FinalizeEndKeeps, ConnectStepKeeps, CrashKeeps
<1>6. ASSUME NEW m \in Initiators, NEW i \in Id, NEW policy \in Policy,
             Offer(m, i, policy) \/ ConnectStart(m, i, policy)
      PROVE  EnrollmentInv'
  <2>1. m \in Machine
    BY InitiatorsAssumption DEF Machine
  <2> QED BY <1>6, <2>1, OfferKeeps, ConnectStartKeeps
<1>7. CASE (\E m \in Machine : RemoveLeftover(m)) \/ ConnectFails
  BY <1>7, RemoveLeftoverKeeps, ConnectFailsKeeps
<1> QED BY <1>1, <1>2, <1>3, <1>4, <1>5, <1>6, <1>7 DEF EnrollmentNext

\* The inductive invariant holds.
THEOREM EnrollmentInvariant == EnrollmentSpec => []EnrollmentInv
<1>1. EnrollmentInit => EnrollmentInv
  BY EnrollmentInitKeeps
<1>2. EnrollmentInv /\ [EnrollmentNext]_enrollmentVars => EnrollmentInv'
  BY EnrollmentNextKeeps
<1> QED BY <1>1, <1>2, PTL DEF EnrollmentSpec

\* Type correctness of identities, ledgers, trust records, artifacts and
\* processes.
THEOREM EnrollmentTypeCorrect == EnrollmentSpec => []EnrollmentTypeOK
<1>1. EnrollmentInv => EnrollmentTypeOK
  BY DEF EnrollmentInv
<1> QED BY <1>1, EnrollmentInvariant, PTL

\* The ledgers of the two machines agree on every enrollment that was accepted,
\* whatever is replayed (createLedgerEntry).
THEOREM LedgersTellOneStory == EnrollmentSpec => []LedgersAgree
<1>1. EnrollmentInv => LedgersAgree
  BY DEF EnrollmentInv
<1> QED BY <1>1, EnrollmentInvariant, PTL

\* A trust record is active only by a completed exchange about its policy
\* (advancePeerTrustFromEnrollmentProof).
THEOREM ActiveRestsOnProof == EnrollmentSpec => []ActiveIsProven
<1>1. EnrollmentInv => ActiveIsProven
  BY DEF EnrollmentInv
<1> QED BY <1>1, EnrollmentInvariant, PTL

\* connectPeerOverSsh reports success only of a complete enrollment.
THEOREM ConnectTellsTheTruth == EnrollmentSpec => []ConnectIsTruthful
<1>1. EnrollmentInv => ConnectIsTruthful
  BY DEF EnrollmentInv
<1> QED BY <1>1, EnrollmentInvariant, PTL

\* No setup replaces an identity (setupMachineIdentity).
THEOREM IdentityIsKept == EnrollmentSpec => IdentityKept
<1>1. EnrollmentInv /\ [EnrollmentNext]_enrollmentVars => [\A m \in Machine : key[m] # 0 => key'[m] = key[m]]_enrollmentVars
  <2> SUFFICES ASSUME EnrollmentInv, EnrollmentNext PROVE \A m \in Machine : key[m] # 0 => key'[m] = key[m]
    OBVIOUS
  <2>1. ASSUME NEW p \in Process, SetupRename(p)
        PROVE  \A m \in Machine : key[m] # 0 => key'[m] = key[m]
    BY <2>1, RowTypes DEF SetupRename, Renamed, EnrollmentInv, EnrollmentTypeOK
  <2>2. ASSUME NEW p \in Process,
               \/ \E m \in Machine : SetupLook(p, m)
               \/ SetupMkdir(p)
               \/ \E m \in Machine, cmd \in Commands \ {"prepare", "revoke"},
                     art \in sent, policy \in Policy : Begin(p, m, cmd, art, policy)
               \/ \E m \in Machine, policy \in Policy : BeginTrust(p, m, "prepare", policy)
               \/ \E m \in Machine : BeginTrust(p, m, "revoke", None)
        PROVE  key' = key
    BY <2>2 DEF SetupLook, SetupMkdir, Begin, Begun, BeginTrust
  <2>3. ASSUME NEW p \in Process,
               \/ ReadRecord(p) \/ WriteRecord(p)
               \/ ChallengeEnd(p) \/ AcceptEnd(p) \/ ConfirmEnd(p) \/ FinalizeEnd(p)
               \/ \E art \in sent : ConnectStep(p, art)
               \/ Crash(p)
        PROVE  key' = key
    BY <2>3, Zenon DEF ReadRecord, WriteRecord, ChallengeEnd, AcceptEnd, ConfirmEnd, FinalizeEnd,
       ConnectStep, Begun, Crash
  <2>4. ASSUME \/ \E m \in Machine : RemoveLeftover(m)
               \/ \E m \in Initiators, i \in Id, policy \in Policy :
                    Offer(m, i, policy) \/ ConnectStart(m, i, policy)
               \/ ConnectFails
        PROVE  key' = key
    BY <2>4 DEF RemoveLeftover, Offer, ConnectStart, Offered, ConnectFails
  <2>5. (\E p \in Process : SetupRename(p)) \/ key' = key
    BY <2>2, <2>3, <2>4 DEF EnrollmentNext
  <2> QED BY <2>1, <2>5
<1> QED BY <1>1, EnrollmentInvariant, PTL DEF EnrollmentSpec, IdentityKept
=============================================================================
