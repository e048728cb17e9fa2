--------------------------- MODULE RelayConnection ---------------------------
(***************************************************************************)
(* The federation relay between two enrolled machines: the connection      *)
(* engine of both ends (relay-connection.ts), the redial loop of the       *)
(* dialing machine (relay-reconnect.ts), and the admission of sessions by  *)
(* the daemon that answers (relay-local-server.ts).  One action is one     *)
(* turn of an event loop.  Both programs are the ones in the repository;   *)
(* the transport may be slow, and may break at any moment, losing what is  *)
(* under way.                                                              *)
(***************************************************************************)
EXTENDS Naturals, Sequences, FiniteSets

CONSTANTS MaxDials,        \* connections the redial loop makes, a bound of the model
          MaxSent,         \* no end sends of its own accord after this many frames, a bound
          MaxQueue,        \* maxQueuedFrames
          MaxHandshaking,  \* MAX_HANDSHAKING_SESSIONS
          MaxPerPeer       \* MAX_AUTHENTICATED_SESSIONS_PER_PEER

ASSUME BoundsAssumption ==
  /\ MaxDials \in Nat \ {0} /\ MaxSent \in Nat
  /\ MaxQueue \in Nat \ {0} /\ MaxHandshaking \in Nat \ {0} /\ MaxPerPeer \in Nat \ {0}

VARIABLES ends,       \* the two RelayConnection objects of every dial
          peerTrust,  \* per machine, its peer-trust record for the other one
          loop,       \* the RelayReconnectLoop
          admission   \* the counters of createRelayAdmission

vars == <<ends, peerTrust, loop, admission>>

Roles == {"initiator", "responder"}
Conns == 1 .. MaxDials
Ends == Conns \X Roles
Peer(e) == <<e[1], IF e[2] = "initiator" THEN "responder" ELSE "initiator">>

\* "request" is an echo or status request, which is answered; "data" stands for
\* the channel, inventory and terminal frames.
Handshake == {"init", "accept", "reject"}
Kinds == {"request", "response", "data", "heartbeat", "drain", "close"}
States == {"off", "handshaking", "connected", "draining", "closed"}
Open == {"connected", "draining"}

\* isRetryableDisconnectReason: the reasons of a disconnect worth a new dial;
\* "transport" stands for childExited, childSignaled, childSpawnFailed and
\* transportError.
Retryable == {"transport", "handshakeTimeout", "handshakeExpired", "queueOverflow",
              "idleTimeout", "protocolError"}

\* The reason of a closed end, as far as anything depends on it.
Class(reason) == IF reason \in Retryable THEN "transient" ELSE "durable"

\* A numbered frame carries its place in its direction, a handshake frame 0.
Frames == [kind : Handshake, seq : {0}] \cup [kind : Kinds, seq : Nat]

\* outgoingSeq is the length of sent, incomingSeq that of handled.  wire holds
\* what was handed to the stream and is not yet read by the peer; cut is a socket
\* destroyed under a live connection.
EndRecords ==
  [st : States, why : {"none", "transient", "durable"}, sent : Seq(Kinds), handled : Seq(Kinds),
   queue : Seq(Frames), wire : Seq(Frames), cut : BOOLEAN]

Unborn == [st |-> "off", why |-> "none", sent |-> <<>>, handled |-> <<>>,
           queue |-> <<>>, wire |-> <<>>, cut |-> FALSE]

-----------------------------------------------------------------------------
(* The engine, as functions of an end x.  ok is what stream.write returns, *)
(* false when the stream is above its mark.                                *)

\* fail destroys the stream; what a dead end still had queued is dropped.
Fail(x, reason) ==
  IF x.st = "closed" THEN x
  ELSE [x EXCEPT !.st = "closed", !.why = Class(reason), !.queue = <<>>]

Enqueue(x, f) ==
  IF Len(x.queue) + 1 > MaxQueue THEN Fail(x, "queueOverflow")
  ELSE [x EXCEPT !.queue = Append(@, f)]

\* A frame that the stream took while it reports back-pressure is queued too.
WriteFrame(x, f, ok) ==
  IF x.st = "closed" THEN x
  ELSE IF x.queue # <<>> THEN Enqueue(x, f)
  ELSE IF ok THEN [x EXCEPT !.wire = Append(@, f)]
  ELSE Enqueue([x EXCEPT !.wire = Append(@, f)], f)

SendSequenced(x, kind, ok) ==
  WriteFrame([x EXCEPT !.sent = Append(@, kind)],
             [kind |-> kind, seq |-> Len(x.sent) + 1], ok)

Close(x, reason, ok) ==
  IF x.st = "closed" THEN x ELSE Fail(SendSequenced(x, "close", ok), reason)

Revalidate(x, active, ok) ==
  IF active THEN x ELSE Close(x, "peerTrustRevoked", ok)

RejectHandshake(x, reason, ok) ==
  Fail(WriteFrame(x, [kind |-> "reject", seq |-> 0], ok), reason)

\* The responder's answer to an init: t is its trust record for the initiator.
OnHandshakeInit(x, t, expired, ok) ==
  IF t = "none" THEN RejectHandshake(x, "peerNotActive", ok)
  ELSE IF t = "otherTransport" THEN RejectHandshake(x, "peerTrustMismatch", ok)
  ELSE IF expired THEN RejectHandshake(x, "handshakeExpired", ok)
  ELSE [WriteFrame(x, [kind |-> "accept", seq |-> 0], ok) EXCEPT !.st = "connected"]

OnHandshakeAccept(x, t, expired) ==
  IF expired THEN Fail(x, "handshakeExpired")
  ELSE IF t = "none" THEN Fail(x, "peerNotActive")
  ELSE IF t = "otherTransport" THEN Fail(x, "peerTrustMismatch")
  ELSE [x EXCEPT !.st = "connected"]

OnHandshakeFrame(x, role, f, t, expired, ok) ==
  IF role = "responder"
  THEN IF f.kind = "init" THEN OnHandshakeInit(x, t, expired, ok)
       ELSE RejectHandshake(x, "protocolDowngrade", ok)
  ELSE IF f.kind = "reject" THEN Fail(x, "handshakeRejected")
  ELSE IF f.kind = "accept" THEN OnHandshakeAccept(x, t, expired)
  ELSE Fail(x, "protocolDowngrade")

\* The switch over the kinds, after the frame was counted.  bad is a handler of
\* data that throws or rejects.
Dispatch(x, kind, t, bad, ok) ==
  CASE kind = "request"   -> SendSequenced(x, "response", ok)
    [] kind = "heartbeat" -> Revalidate(x, t # "none", ok)
    [] kind = "drain"     -> Close(x, "peerDrained", ok)
    [] kind = "close"     -> Fail(x, "peerClosed")
    [] kind = "data"      -> IF bad THEN Fail(x, "protocolError") ELSE x
    [] OTHER              -> x

\* A mutant: any number is taken.
MutantSeqExpected(x, f) == f.seq >= Len(x.handled)

SeqExpected(x, f) == f.seq = Len(x.handled) + 1

OnApplicationFrame(x, f, t, bad, ok) ==
  IF f.kind \in Handshake THEN Fail(x, "protocolDowngrade")
  ELSE IF ~SeqExpected(x, f) THEN Fail(x, "sequenceViolation")
  ELSE Dispatch([x EXCEPT !.handled = Append(@, f.kind)], f.kind, t, bad, ok)

\* flushQueue wrote the first k frames, and the last write reported the mark
\* again or the queue is empty.
Flushed(x, k) ==
  [x EXCEPT !.wire = @ \o SubSeq(x.queue, 1, k), !.queue = SubSeq(@, k + 1, Len(@))]

-----------------------------------------------------------------------------
(* What follows an end's change of state within the same turn.             *)

\* RelayReconnectLoop.onClosed: finalize, or wait for the next dial.
LoopAfter(e, x) ==
  IF e[2] = "initiator" /\ ends[e].st # "closed" /\ x.st = "closed"
  THEN IF loop.stopRequested \/ x.why # "transient"
       THEN [loop EXCEPT !.phase = "stopped", !.giveUps = @ + 1]
       ELSE [loop EXCEPT !.phase = "waiting"]
  ELSE loop

\* The responder's first "connected" status and its last one.
Authenticates(e, x) ==
  e[2] = "responder" /\ ends[e].st = "handshaking" /\ x.st = "connected"
SlotFree == admission.authenticated < MaxPerPeer

\* A mutant: a session that fails its handshake keeps its place.
MutantAdmissionKept(e, x) ==
  IF e[2] = "responder" /\ ends[e].st = "handshaking" /\ x.st \in Open
  THEN [handshaking |-> admission.handshaking - 1,
        authenticated |-> admission.authenticated + IF SlotFree THEN 1 ELSE 0]
  ELSE IF e[2] = "responder" /\ ends[e].st \in Open /\ ~ends[e].cut /\ x.st = "closed"
  THEN [admission EXCEPT !.authenticated = @ - 1]
  ELSE admission

\* onStatusChange of serve: the handshake's place is given back when it ends,
\* the peer's slot is taken at its success and given back at the close.
AdmissionAfter(e, x) ==
  LET leavesHandshake ==
        e[2] = "responder" /\ ends[e].st = "handshaking" /\ x.st # "handshaking"
      releases ==
        e[2] = "responder" /\ ends[e].st \in Open /\ ~ends[e].cut /\ x.st = "closed"
  IN  [handshaking |-> admission.handshaking - IF leavesHandshake THEN 1 ELSE 0,
       authenticated |-> admission.authenticated
                         + (IF Authenticates(e, x) /\ SlotFree THEN 1 ELSE 0)
                         - (IF releases THEN 1 ELSE 0)]

\* The end e becomes x, its surroundings being es; a peer that still holds its
\* session has the socket of a second one destroyed.  Nobody reads what is under
\* way to a closed end.
Settle(e, x, es) ==
  /\ ends' = [es EXCEPT ![e] =
                IF Authenticates(e, x) THEN [x EXCEPT !.cut = ~SlotFree] ELSE x,
                        ![Peer(e)].wire = IF x.st = "closed" THEN <<>> ELSE @]
  /\ loop' = LoopAfter(e, x)
  /\ admission' = AdmissionAfter(e, x)
  /\ UNCHANGED peerTrust

-----------------------------------------------------------------------------
(* The actions.                                                            *)

Init ==
  /\ ends = [e \in Ends |-> Unborn]
  /\ peerTrust \in [Roles -> {"active", "otherTransport"}]
  /\ loop = [phase |-> "idle", current |-> 0, stopRequested |-> FALSE, giveUps |-> 0]
  /\ admission = [handshaking |-> 0, authenticated |-> 0]

\* dial and start of the initiator: a fresh transport, and the signed init
\* when there is an active record for the peer.
Dial(ok) ==
  LET e == <<loop.current + 1, "initiator">>
      x == [Unborn EXCEPT !.st = "handshaking"]
      y == IF peerTrust["initiator"] = "none" THEN Fail(x, "peerNotActive")
           ELSE WriteFrame(x, [kind |-> "init", seq |-> 0], ok)
  IN  /\ loop.phase \in {"idle", "waiting"}
      /\ loop.current < MaxDials
      /\ ends' = [ends EXCEPT ![e] = y]
      /\ loop' = [loop EXCEPT !.current = @ + 1,
                              !.phase = IF y.st = "closed" THEN "stopped" ELSE "live",
                              !.giveUps = @ + IF y.st = "closed" THEN 1 ELSE 0]
      /\ UNCHANGED <<peerTrust, admission>>

\* The ssh child reaches the responder's relay socket, which serves the session
\* or destroys it because too many are in their handshake.
Serve(c) ==
  LET e == <<c, "responder">>
      admitted == admission.handshaking < MaxHandshaking
  IN  /\ ends[Peer(e)].st # "off" /\ ends[e].st = "off"
      /\ ends' = [ends EXCEPT ![e].st = IF admitted THEN "handshaking" ELSE "closed",
                              ![e].why = IF admitted THEN "none" ELSE "transient"]
      /\ admission' = [admission EXCEPT !.handshaking = @ + IF admitted THEN 1 ELSE 0]
      /\ UNCHANGED <<peerTrust, loop>>

\* The bound on traffic: frames numbered so far, over all connections.
MaySend ==
  Cardinality({p \in Ends \X (1 .. MaxSent) : p[2] <= Len(ends[p[1]].sent)}) < MaxSent

\* An end whose timers run and whose stream delivers.
Live(e) == ends[e].st \in {"handshaking"} \cup Open /\ ~ends[e].cut

\* One line is read, parsed and handled; expired and bad are what may happen to
\* a handshake and to a frame of data.
Receive(e, expired, bad, ok) ==
  LET p == Peer(e)
      f == Head(ends[p].wire)
      t == peerTrust[e[2]]
  IN  /\ Live(e) /\ ends[p].wire # <<>>
      /\ expired => f.kind \in {"init", "accept"}
      /\ bad => f.kind = "data"
      /\ Settle(e, IF ends[e].st = "handshaking"
                   THEN OnHandshakeFrame(ends[e], e[2], f, t, expired, ok)
                   ELSE OnApplicationFrame(ends[e], f, t, bad, ok),
                [ends EXCEPT ![p].wire = Tail(@)])

\* sendEcho and requestStatus; sendChannel, sendInventory and sendTerminal.
SendRequest(e, ok) ==
  /\ e[2] = "initiator" /\ ends[e].st = "connected" /\ MaySend
  /\ Settle(e, SendSequenced(ends[e], "request", ok), ends)

SendData(e, ok) ==
  /\ ends[e].st \in Open /\ ~ends[e].cut /\ MaySend
  /\ Settle(e, SendSequenced(ends[e], "data", ok), ends)

\* The heartbeat timer: a frame, and a look at the trust record.
SendHeartbeat(e, ok) ==
  LET active == peerTrust[e[2]] # "none"
  IN  /\ ends[e].st \in Open /\ ~ends[e].cut
      /\ MaySend \/ ~active
      /\ Settle(e, Revalidate(SendSequenced(ends[e], "heartbeat", ok), active, ok), ends)

Drain(e, ok) ==
  /\ ends[e].st = "connected" /\ ~ends[e].cut /\ MaySend
  /\ Settle(e, SendSequenced([ends[e] EXCEPT !.st = "draining"], "drain", ok), ends)

DrainGraceElapsed(e, ok) ==
  /\ ends[e].st = "draining"
  /\ Settle(e, Close(ends[e], "gracefulClose", ok), ends)

\* The stream has room again: flushQueue.
OnDrain(e, k) ==
  /\ Live(e) /\ k <= Len(ends[e].queue)
  /\ Settle(e, Flushed(ends[e], k), ends)

HandshakeTimeout(e) ==
  /\ ends[e].st = "handshaking"
  /\ Settle(e, Fail(ends[e], "handshakeTimeout"), ends)

IdleTimeout(e) ==
  /\ ends[e].st \in Open
  /\ Settle(e, Fail(ends[e], "idleTimeout"), ends)

\* The ssh child exits, or the local socket closes: onTransportClose.
TransportClose(e) ==
  /\ ends[e].st \in {"handshaking"} \cup Open
  /\ Settle(e, Fail(ends[e], IF e[2] = "initiator" THEN "transport" ELSE "peerClosed"), ends)

\* A mutant: stop reports again what the loop has reported before.
MutantStop(ok) ==
  LET e == <<loop.current, "initiator">>
  IN  /\ loop.current > 0 /\ ~loop.stopRequested
      /\ ends' = [ends EXCEPT ![e] = Close(ends[e], "gracefulClose", ok),
                              ![Peer(e)].wire = <<>>]
      /\ loop' = [loop EXCEPT !.stopRequested = TRUE, !.phase = "stopped", !.giveUps = @ + 1]
      /\ UNCHANGED <<peerTrust, admission>>

\* stop of the redial loop, which has been started.
Stop(ok) ==
  LET e == <<loop.current, "initiator">>
      x == Close(ends[e], "gracefulClose", ok)
  IN  /\ loop.current > 0 /\ ~loop.stopRequested
      /\ ends' = [ends EXCEPT ![e] = x, ![Peer(e)].wire = <<>>]
      /\ loop' = [loop EXCEPT !.stopRequested = TRUE, !.phase = "stopped",
                              !.giveUps = @ + IF loop.phase = "stopped" THEN 0 ELSE 1]
      /\ UNCHANGED <<peerTrust, admission>>

\* Another process of a machine revokes the peer (peer-trust.ts).
Revoke(r) ==
  /\ peerTrust[r] # "none"
  /\ peerTrust' = [peerTrust EXCEPT ![r] = "none"]
  /\ UNCHANGED <<ends, loop, admission>>

Next ==
  \/ \E ok \in BOOLEAN : Dial(ok) \/ Stop(ok)
  \/ \E c \in Conns : Serve(c)
  \/ \E r \in Roles : Revoke(r)
  \/ \E e \in Ends :
       \/ \E expired, bad, ok \in BOOLEAN : Receive(e, expired, bad, ok)
       \/ \E ok \in BOOLEAN :
            \/ SendRequest(e, ok) \/ SendData(e, ok) \/ SendHeartbeat(e, ok)
            \/ Drain(e, ok) \/ DrainGraceElapsed(e, ok)
       \/ \E k \in 1 .. MaxQueue : OnDrain(e, k)
       \/ HandshakeTimeout(e) \/ IdleTimeout(e) \/ TransportClose(e)

Spec == Init /\ [][Next]_vars

-----------------------------------------------------------------------------
(* Properties.                                                             *)

\* Type invariant of the two engines, the trust records, the redial loop and
\* the admission counters, which never go below zero.
TypeOK ==
  /\ ends \in [Ends -> EndRecords]
  /\ peerTrust \in [Roles -> {"active", "otherTransport", "none"}]
  /\ loop \in [phase : {"idle", "live", "waiting", "stopped"}, current : 0 .. MaxDials,
               stopRequested : BOOLEAN, giveUps : Nat]
  /\ admission \in [handshaking : Nat, authenticated : Nat]

\* Each direction of every connection is a RelayLink: whatever back-pressure,
\* queueing, duplicates and breakdowns do, the frames that a peer handles are
\* those that were numbered, in order and once.
Link == INSTANCE RelayLink WITH
          sent <- [e \in Ends |-> ends[e].sent],
          handled <- [e \in Ends |-> ends[Peer(e)].handled]
ImplementsLink == Link!Spec

\* The admission counters of the answering daemon agree with the sessions it
\* has: no way a session can end leaves a place taken, and none frees it twice.
AdmissionExact ==
  /\ admission.handshaking =
       Cardinality({c \in Conns : ends[<<c, "responder">>].st = "handshaking"})
  /\ admission.authenticated =
       Cardinality({c \in Conns : LET x == ends[<<c, "responder">>]
                                  IN  x.st \in Open /\ ~x.cut})
  /\ admission.authenticated <= MaxPerPeer
  /\ admission.handshaking <= MaxHandshaking

\* onGiveUp is called once, when the loop stops and never before; then no
\* connection is open, and there is never more than one.
GivesUpOnce ==
  /\ loop.giveUps = IF loop.phase = "stopped" THEN 1 ELSE 0
  /\ \A c \in Conns : ends[<<c, "initiator">>].st \notin {"off", "closed"}
                        => c = loop.current /\ loop.phase = "live"
=============================================================================
