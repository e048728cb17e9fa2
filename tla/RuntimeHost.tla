---------------------------- MODULE RuntimeHost ----------------------------
(***************************************************************************)
(* The attachment plane of the Go runtime host (runtime-host-go/main.go,   *)
(* ring.go): the PTY reader, the replay ring, the HELLO handshake, one     *)
(* handler and one writer goroutine per connection, the controller slot    *)
(* and the dropping of clients that lag.                                   *)
(*                                                                         *)
(* An action is what one goroutine does between two points where it holds  *)
(* no lock: a critical section of shared.mu, or one write on a socket.     *)
(* Go's net.Conn makes one Write atomic with respect to other Writes on    *)
(* the same connection, so a write appends its frames to `wire` at once.   *)
(*                                                                         *)
(* Terminal bytes are positions 0 .. total - 1; an output frame carries    *)
(* the half-open interval from .. to.  A client is one connection.  Queue  *)
(* space is counted in frames.  Secrets, expiry and the other fields of    *)
(* the HELLO envelope only refuse a connection and are left out; so are     *)
(* frames a peer still has in the host's buffer when it is dropped.        *)
(***************************************************************************)
EXTENDS Naturals, Sequences, FiniteSets

CONSTANTS
    Client,       \* connections, numbered by the accept loop
    NoClient,     \* hasCtl = false
    Credential,   \* single-use HELLO ids
    Cursor,       \* bound: replay cursors a HELLO may carry
    RingCap,      \* bytes the ring retains
    QueueCap,     \* frames a client may lag behind
    ObserverCap,  \* observers attached at once
    MaxChunk,     \* bytes one PTY read or one replay frame carries
    MaxOutput     \* bound: bytes the child prints

ASSUME HostAssumption ==
    /\ NoClient \notin Client
    /\ {RingCap, QueueCap, ObserverCap, MaxChunk, MaxOutput} \subseteq Nat \ {0}
    /\ Cursor \subseteq Nat
    /\ Cursor # {} /\ Credential # {}

VARIABLES
    up,          \* the host process runs
    total,       \* ring.Total(): bytes read from the PTY
    exited,      \* the child's exit was recorded
    registered,  \* keys of shared.clients
    controller,  \* shared.controller, NoClient when hasCtl is false
    seenHello,   \* HELLO ids already used
    conn,        \* per client: socket "none", "open" or "closed"
    pc,          \* per client: where its handler goroutine is
    hello,       \* per client: what its handler holds in local variables
    writer,      \* per client: its clientWriter goroutine
    queue,       \* per client: frames queued for it
    wire         \* per client: frames written on its open socket

vars == <<up, total, exited, registered, controller, seenHello, conn, pc,
          hello, writer, queue, wire>>

Frame == [kind : {"ack", "output", "exit"}, from : 0 .. MaxOutput,
          to : 0 .. MaxOutput]
Ack(a, b) == [kind |-> "ack", from |-> a, to |-> b]
Output(a, b) == [kind |-> "output", from |-> a, to |-> b]
Exit == [kind |-> "exit", from |-> 0, to |-> 0]

Mode == {"controller", "observer"}

HandlerState == {"accepted", "checked", "claimed", "ack", "replay", "exit",
                 "serving", "renewing", "input", "closing", "done"}

\* Local variables of a handler: the HELLO's mode, id and cursor, the
\* controllerBusy snapshot, the replay still to write (from .. to), and the
\* exited flag seen when it registered.
Hello == [mode : Mode, id : Credential, cursor : Cursor, busy : BOOLEAN,
          start : 0 .. MaxOutput, from : 0 .. MaxOutput, to : 0 .. MaxOutput,
          exited : BOOLEAN]

\* A writer goroutine: absent, waiting on its wake channel (capacity one),
\* looking at its queue, or writing the frames it took.
Writer == [at : {"none", "wait", "drain", "write", "gone"}, wake : BOOLEAN,
           inFlight : Seq(Frame)]

TypeOK ==
    /\ up \in BOOLEAN /\ exited \in BOOLEAN
    /\ total \in 0 .. MaxOutput
    /\ registered \subseteq Client
    /\ controller \in Client \cup {NoClient}
    /\ seenHello \subseteq Credential
    /\ conn \in [Client -> {"none", "open", "closed"}]
    /\ pc \in [Client -> HandlerState \cup {"none"}]
    /\ hello \in [Client -> Hello]
    /\ writer \in [Client -> Writer]
    /\ queue \in [Client -> Seq(Frame)]
    /\ wire \in [Client -> Seq(Frame)]

Init ==
    /\ up = TRUE /\ total = 0 /\ exited = FALSE
    /\ registered = {} /\ controller = NoClient /\ seenHello = {}
    /\ conn = [c \in Client |-> "none"]
    /\ pc = [c \in Client |-> "none"]
    /\ hello = [c \in Client |->
                  [mode |-> "observer", id |-> CHOOSE k \in Credential : TRUE,
                   cursor |-> CHOOSE k \in Cursor : TRUE, busy |-> FALSE,
                   start |-> 0, from |-> 0, to |-> 0, exited |-> FALSE]]
    /\ writer = [c \in Client |-> [at |-> "none", wake |-> FALSE,
                                   inFlight |-> <<>>]]
    /\ queue = [c \in Client |-> <<>>]
    /\ wire = [c \in Client |-> <<>>]

-----------------------------------------------------------------------------
(* The ring.                                                               *)

\* First position the ring still holds.
Base == IF total > RingCap THEN total - RingCap ELSE 0

\* Where the replay for a valid cursor starts: the cursor, or the retained
\* floor (a gap) when the ring has moved past it.
ReplayFrom(cursor) == IF cursor >= Base THEN cursor ELSE Base

-----------------------------------------------------------------------------
(* Plausible defects, used to show that the properties below can fail.     *)

\* The registration trusts the controllerBusy snapshot.
MutantMayRegister(c) ==
    IF hello[c].mode = "controller" THEN ~hello[c].busy
    ELSE Cardinality({d \in registered : hello[d].mode = "observer"})
           < ObserverCap

\* A client that lags misses the frame and stays.
MutantEnqueueAll(f) ==
    LET kept == {c \in registered : Len(queue[c]) + Len(writer[c].inFlight)
                                       < QueueCap}
    IN /\ queue' = [c \in Client |-> IF c \in kept THEN Append(queue[c], f)
                                     ELSE queue[c]]
       /\ writer' = [c \in Client |-> IF c \in kept
                       THEN [writer[c] EXCEPT !.wake = TRUE] ELSE writer[c]]
       /\ UNCHANGED <<conn, registered, controller>>

\* Every replay frame is taken to be full.
MutantWriteReplay(c) ==
    /\ up /\ pc[c] = "replay"
    /\ IF hello[c].to = hello[c].from
       THEN pc' = [pc EXCEPT ![c] = "exit"] /\ UNCHANGED hello
       ELSE hello' = [hello EXCEPT ![c].from = @ + MaxChunk] /\ UNCHANGED pc
    /\ UNCHANGED <<up, total, exited, registered, controller, seenHello,
                   conn, writer, queue, wire>>

\* The writer clears its wake flag after writing and waits for a new one.
MutantWriterWrite(c) ==
    /\ up /\ writer[c].at = "write" /\ conn[c] = "open"
    /\ wire' = [wire EXCEPT ![c] = @ \o writer[c].inFlight]
    /\ writer' = [writer EXCEPT ![c].at = "wait", ![c].wake = FALSE,
                                ![c].inFlight = <<>>]
    /\ UNCHANGED <<up, total, exited, registered, controller, seenHello, conn,
                   pc, hello, queue>>

-----------------------------------------------------------------------------
(* The PTY reader.                                                         *)

\* A client that another frame would push past its queue cap.
Lagging(c) == Len(queue[c]) + Len(writer[c].inFlight) + 1 > QueueCap

\* Delete the clients of S: the controller slot is released when its holder is
\* among them.  The queue of a deleted client is never read again, so it is
\* forgotten here.
Release(S) == controller' = IF controller \in S THEN NoClient ELSE controller

Forget(S, q) == queue' = [c \in Client |-> IF c \in S THEN <<>> ELSE q[c]]

\* enqueueAllLocked: append to every client, wake its writer, and drop the
\* clients that lag.
EnqueueAll(f) ==
    LET lagged == {c \in registered : Lagging(c)}
        kept == registered \ lagged
    IN /\ Forget(lagged, [c \in Client |-> IF c \in kept
                             THEN Append(queue[c], f) ELSE queue[c]])
       /\ writer' = [c \in Client |-> IF c \in kept
                       THEN [writer[c] EXCEPT !.wake = TRUE] ELSE writer[c]]
       /\ conn' = [c \in Client |-> IF c \in lagged THEN "closed" ELSE conn[c]]
       /\ registered' = kept
       /\ Release(lagged)

PtyRead(n) ==
    /\ up /\ ~exited
    /\ total + n <= MaxOutput
    /\ total' = total + n
    /\ EnqueueAll(Output(total, total + n))
    /\ UNCHANGED <<up, exited, seenHello, pc, hello, wire>>

PtyExit ==
    /\ up /\ ~exited
    /\ exited' = TRUE
    /\ EnqueueAll(Exit)
    /\ UNCHANGED <<up, total, seenHello, pc, hello, wire>>

\* SIGTERM, or ten seconds after the exit: the accept loop ends, every client
\* is closed and the process returns.
Shutdown ==
    /\ up
    /\ up' = FALSE
    /\ registered' = {} /\ controller' = NoClient
    /\ conn' = [c \in Client |-> IF conn[c] = "none" THEN "none" ELSE "closed"]
    /\ Forget(Client, queue)
    /\ UNCHANGED <<total, exited, seenHello, pc, hello, writer, wire>>

-----------------------------------------------------------------------------
(* Connections and the HELLO handshake.                                    *)

\* A connection arrives with a HELLO in its buffer.
Accept(c, m, id, cur) ==
    /\ up /\ conn[c] = "none"
    /\ conn' = [conn EXCEPT ![c] = "open"]
    /\ pc' = [pc EXCEPT ![c] = "accepted"]
    /\ hello' = [hello EXCEPT ![c].mode = m, ![c].id = id, ![c].cursor = cur]
    /\ UNCHANGED <<up, total, exited, registered, controller, seenHello,
                   writer, queue, wire>>

\* First look at the id and at the controller slot.
CheckHello(c) ==
    /\ up /\ pc[c] = "accepted"
    /\ pc' = [pc EXCEPT ![c] = IF hello[c].id \in seenHello THEN "closing"
                               ELSE "checked"]
    /\ hello' = [hello EXCEPT ![c].busy = controller # NoClient]
    /\ UNCHANGED <<up, total, exited, registered, controller, seenHello, conn,
                   writer, queue, wire>>

\* Second look at the id, which claims it.
ClaimId(c) ==
    /\ up /\ pc[c] = "checked"
    /\ pc' = [pc EXCEPT ![c] = IF hello[c].id \in seenHello THEN "closing"
                               ELSE "claimed"]
    /\ seenHello' = seenHello \cup {hello[c].id}
    /\ UNCHANGED <<up, total, exited, registered, controller, conn, hello,
                   writer, queue, wire>>

\* Neither the busy snapshot nor the state under the lock refuses the client.
MayRegister(c) ==
    IF hello[c].mode = "controller"
    THEN ~hello[c].busy /\ controller = NoClient
    ELSE Cardinality({d \in registered : hello[d].mode = "observer"})
           < ObserverCap

\* The exited flag read while registering.
ExitSeen(c) == hello[c].exited

\* Claim capacity, snapshot the replay, register, start the writer.  A cursor
\* past the head is refused only after that.
Register(c) ==
    /\ up /\ pc[c] = "claimed" /\ MayRegister(c)
    /\ registered' = registered \cup {c}
    /\ controller' = IF hello[c].mode = "controller" THEN c ELSE controller
    /\ writer' = [writer EXCEPT ![c].at = "wait"]
    /\ IF hello[c].cursor > total
       THEN pc' = [pc EXCEPT ![c] = "closing"] /\ UNCHANGED hello
       ELSE /\ pc' = [pc EXCEPT ![c] = "ack"]
            /\ hello' = [hello EXCEPT ![c].start = ReplayFrom(hello[c].cursor),
                                      ![c].from = ReplayFrom(hello[c].cursor),
                                      ![c].to = total, ![c].exited = exited]
    /\ UNCHANGED <<up, total, exited, seenHello, conn, queue, wire>>

RefuseRegister(c) ==
    /\ up /\ pc[c] = "claimed" /\ ~MayRegister(c)
    /\ pc' = [pc EXCEPT ![c] = "closing"]
    /\ UNCHANGED <<up, total, exited, registered, controller, seenHello, conn,
                   hello, writer, queue, wire>>

\* One write of the handler: lost when the socket is closed.
HandlerWrite(c, f) ==
    wire' = IF conn[c] = "open" THEN [wire EXCEPT ![c] = Append(@, f)] ELSE wire

\* HELLO_ACK; an error of this write is ignored.
WriteAck(c) ==
    /\ up /\ pc[c] = "ack"
    /\ HandlerWrite(c, Ack(hello[c].from, hello[c].to))
    /\ pc' = [pc EXCEPT ![c] = "replay"]
    /\ UNCHANGED <<up, total, exited, registered, controller, seenHello, conn,
                   hello, writer, queue>>

\* The next replay frame; a write error ends the connection.
WriteReplay(c) ==
    LET rest == hello[c].to - hello[c].from
        n == IF rest > MaxChunk THEN MaxChunk ELSE rest
    IN /\ up /\ pc[c] = "replay"
       /\ IF rest = 0
          THEN pc' = [pc EXCEPT ![c] = "exit"] /\ UNCHANGED <<hello, wire>>
          ELSE IF conn[c] = "open"
          THEN /\ HandlerWrite(c, Output(hello[c].from, hello[c].from + n))
               /\ hello' = [hello EXCEPT ![c].from = @ + n]
               /\ UNCHANGED pc
          ELSE pc' = [pc EXCEPT ![c] = "closing"] /\ UNCHANGED <<hello, wire>>
       /\ UNCHANGED <<up, total, exited, registered, controller, seenHello,
                      conn, writer, queue>>

\* The exit frame of a child that had exited when the client registered.
WriteExit(c) ==
    /\ up /\ pc[c] = "exit"
    /\ IF ExitSeen(c) THEN HandlerWrite(c, Exit) ELSE UNCHANGED wire
    /\ pc' = [pc EXCEPT ![c] = "serving"]
    /\ UNCHANGED <<up, total, exited, registered, controller, seenHello, conn,
                   hello, writer, queue>>

-----------------------------------------------------------------------------
(* Frames of an attached client.                                           *)

\* A second HELLO with a fresh id renews the capability: same slot, no
\* replay.  A used id or a change of mode ends the connection.
Renew(c, m, id) ==
    /\ up /\ pc[c] = "serving" /\ c \in registered
    /\ seenHello' = seenHello \cup {id}
    /\ IF id \in seenHello \/ m # hello[c].mode
       THEN pc' = [pc EXCEPT ![c] = "closing"] /\ UNCHANGED hello
       ELSE /\ pc' = [pc EXCEPT ![c] = "renewing"]
            /\ hello' = [hello EXCEPT ![c].id = id, ![c].from = total,
                                      ![c].to = total]
    /\ UNCHANGED <<up, total, exited, registered, controller, conn, writer,
                   queue, wire>>

WriteRenewAck(c) ==
    /\ up /\ pc[c] = "renewing"
    /\ HandlerWrite(c, Ack(hello[c].from, hello[c].to))
    /\ pc' = [pc EXCEPT ![c] = "serving"]
    /\ UNCHANGED <<up, total, exited, registered, controller, seenHello, conn,
                   hello, writer, queue>>

\* INPUT: the controller test is made under the lock ...
CheckInput(c) ==
    /\ up /\ pc[c] = "serving" /\ c \in registered
    /\ pc' = [pc EXCEPT ![c] = IF controller = c /\ ~exited THEN "input"
                               ELSE "closing"]
    /\ UNCHANGED <<up, total, exited, registered, controller, seenHello, conn,
                   hello, writer, queue, wire>>

\* ... and the PTY is written after the unlock.
WriteInput(c) ==
    /\ up /\ pc[c] = "input"
    /\ pc' = [pc EXCEPT ![c] = "serving"]
    /\ UNCHANGED <<up, total, exited, registered, controller, seenHello, conn,
                   hello, writer, queue, wire>>

\* The peer goes away, and what it read with it.
PeerClose(c) ==
    /\ up /\ conn[c] = "open"
    /\ conn' = [conn EXCEPT ![c] = "closed"]
    /\ wire' = [wire EXCEPT ![c] = <<>>]
    /\ UNCHANGED <<up, total, exited, registered, controller, seenHello, pc,
                   hello, writer, queue>>

\* The handler reads the end of its connection.
ReadEnd(c) ==
    /\ up /\ pc[c] = "serving" /\ conn[c] = "closed"
    /\ pc' = [pc EXCEPT ![c] = "closing"]
    /\ UNCHANGED <<up, total, exited, registered, controller, seenHello, conn,
                   hello, writer, queue, wire>>

\* The deferred function of serve.
Cleanup(c) ==
    /\ up /\ pc[c] = "closing"
    /\ pc' = [pc EXCEPT ![c] = "done"]
    /\ registered' = registered \ {c}
    /\ Release({c})
    /\ Forget({c}, queue)
    /\ conn' = [conn EXCEPT ![c] = "closed"]
    /\ wire' = [wire EXCEPT ![c] = <<>>]
    /\ UNCHANGED <<up, total, exited, seenHello, hello, writer>>

-----------------------------------------------------------------------------
(* The writer goroutine of a client.                                       *)

WriterWake(c) ==
    /\ up /\ writer[c].at = "wait" /\ writer[c].wake
    /\ writer' = [writer EXCEPT ![c].at = "drain", ![c].wake = FALSE]
    /\ UNCHANGED <<up, total, exited, registered, controller, seenHello, conn,
                   pc, hello, queue, wire>>

WriterTake(c) ==
    /\ up /\ writer[c].at = "drain"
    /\ IF c \in registered /\ queue[c] # <<>>
       THEN /\ writer' = [writer EXCEPT ![c].at = "write",
                                        ![c].inFlight = queue[c]]
            /\ queue' = [queue EXCEPT ![c] = <<>>]
       ELSE writer' = [writer EXCEPT ![c].at = "wait"] /\ UNCHANGED queue
    /\ UNCHANGED <<up, total, exited, registered, controller, seenHello, conn,
                   pc, hello, wire>>

WriterWrite(c) ==
    /\ up /\ writer[c].at = "write" /\ conn[c] = "open"
    /\ wire' = [wire EXCEPT ![c] = @ \o writer[c].inFlight]
    /\ writer' = [writer EXCEPT ![c].at = "drain", ![c].inFlight = <<>>]
    /\ UNCHANGED <<up, total, exited, registered, controller, seenHello, conn,
                   pc, hello, queue>>

WriterFail(c) ==
    /\ up /\ writer[c].at = "write" /\ conn[c] = "closed"
    /\ writer' = [writer EXCEPT ![c].at = "gone", ![c].inFlight = <<>>]
    /\ registered' = registered \ {c}
    /\ Release({c} \cap registered)
    /\ Forget({c}, queue)
    /\ UNCHANGED <<up, total, exited, seenHello, conn, pc, hello, wire>>

-----------------------------------------------------------------------------

HandlerStep(c) ==
    \/ CheckHello(c) \/ ClaimId(c) \/ Register(c) \/ RefuseRegister(c)
    \/ WriteAck(c) \/ WriteReplay(c) \/ WriteExit(c) \/ WriteRenewAck(c)
    \/ WriteInput(c) \/ ReadEnd(c) \/ Cleanup(c)

WriterStep(c) ==
    WriterWake(c) \/ WriterTake(c) \/ WriterWrite(c) \/ WriterFail(c)

Next ==
    \/ \E n \in 1 .. MaxChunk : PtyRead(n)
    \/ PtyExit
    \/ Shutdown
    \/ \E c \in Client, m \in Mode, id \in Credential, cur \in Cursor :
         Accept(c, m, id, cur)
    \/ \E c \in Client, m \in Mode, id \in Credential : Renew(c, m, id)
    \/ \E c \in Client : \/ CheckInput(c) \/ PeerClose(c)
                         \/ HandlerStep(c) \/ WriterStep(c)

Spec == Init /\ [][Next]_vars

\* Goroutines are scheduled and a socket whose peer reads accepts writes.
FairSpec == Spec /\ \A c \in Client : /\ WF_vars(HandlerStep(c))
                                      /\ WF_vars(WriterStep(c))

-----------------------------------------------------------------------------
(* Properties.                                                             *)

\* The slot and the registry agree: a registered controller holds the slot,
\* and the slot is never kept by a connection that is gone.  So no two
\* controllers are attached, whichever of the lag drop, the writer's error
\* and the handler's cleanup come first.
OneController ==
    /\ \A c \in registered : hello[c].mode = "controller" => controller = c
    /\ controller # NoClient => /\ controller \in registered
                                /\ hello[controller].mode = "controller"

\* A HELLO id admits one connection, although the id is tested twice with
\* the lock released in between.
SingleUseIds ==
    \A c, d \in registered : hello[c].id = hello[d].id => c = d

Covers(f, i) == f.kind = "output" /\ f.from <= i /\ i < f.to

\* Frames of sequence s that carry position i.
Copies(s, i) == Cardinality({k \in DOMAIN s : Covers(s[k], i)})

Attached(c) ==
    /\ up /\ c \in registered /\ conn[c] = "open"
    /\ pc[c] \in {"ack", "replay", "exit", "serving", "renewing", "input"}

\* Every byte from the start of the replay to the head is, for an attached
\* client, in exactly one place: written, in flight, queued, or still to be
\* replayed.  Nothing is lost or sent twice around the moment of attaching,
\* and nothing the client did not ask for is sent.
NoLossNoDuplicate ==
    \A c \in Client : Attached(c) => \A i \in 0 .. MaxOutput :
        LET held == Copies(wire[c], i) + Copies(writer[c].inFlight, i)
                      + Copies(queue[c], i)
            owed == IF pc[c] \in {"ack", "replay"} /\ hello[c].from <= i
                         /\ i < hello[c].to THEN 1 ELSE 0
        IN held + owed = IF hello[c].start <= i /\ i < total THEN 1 ELSE 0

\* Whatever the child printed, and its exit, reaches every client that stays
\* attached: no wake-up of a writer is lost.
EverythingArrives ==
    \A c \in Client :
        /\ \A i \in 0 .. MaxOutput - 1 :
             (Attached(c) /\ hello[c].start <= i /\ i < total) ~>
                (~Attached(c) \/ \E k \in DOMAIN wire[c] : Covers(wire[c][k], i))
        /\ (Attached(c) /\ exited) ~>
             (~Attached(c) \/ \E k \in DOMAIN wire[c] : wire[c][k].kind = "exit")
=============================================================================
