---------------------------- MODULE HostDelivery ----------------------------
(***************************************************************************)
(* Delivery of canonical messages into a runtime: the service's calls      *)
(* (RuntimeService.deliverToRuntime), the client that matches the host's   *)
(* answers to its requests by arrival order (host/client.ts), and the      *)
(* host's DELIVER handler with its deduplication table (main.go).          *)
(*                                                                         *)
(* A call is one invocation of deliverToRuntime; a retry of a message, by  *)
(* a sender or by the federation worker, is another call for the same      *)
(* message.  A connection is one RuntimeHostClient and the host goroutine  *)
(* that serves it.  A client that closes its side loses what the host      *)
(* still writes; the host still reads what was sent before.                *)
(***************************************************************************)
EXTENDS Naturals, Sequences, FiniteSets, SequencesExt

CONSTANTS
    Message,   \* canonical message ids
    Call,      \* bound: invocations of deliverToRuntime
    Conn,      \* bound: connections the service opens
    NoConn,    \* no delivery client registered
    Frames     \* byte frames of one message

ASSUME DeliveryAssumption ==
    /\ NoConn \notin Conn
    /\ Message # {}
    /\ Frames \in Nat \ {0}

VARIABLES
    call,       \* per call: its progress, message, connection and answer
    client,     \* clients.get("delivery:" + runtimeId), or NoConn
    socket,     \* per connection: "new", "open" or "closed"
    pending,    \* per connection: calls awaiting an answer, oldest first
    toHost,     \* per connection: requests in transit
    toClient,   \* per connection: answers in transit
    handler,    \* per connection: the host goroutine
    delivered,  \* the host's deduplication table
    pty,        \* frames written on the PTY, in order
    exited,     \* the child exited
    timedOut    \* history: connections on which a request timed out

vars == <<call, client, socket, pending, toHost, toClient, handler, delivered,
          pty, exited, timedOut>>

Answer == [msg : Message, outcome : {"written", "duplicate", "error"}]

CallRow == [at : {"idle", "connecting", "waiting", "accepted", "failed"},
            msg : Message, conn : Conn \cup {NoConn}, ackOf : Message]

TypeOK ==
    /\ call \in [Call -> CallRow]
    /\ client \in Conn \cup {NoConn}
    /\ socket \in [Conn -> {"new", "open", "closed"}]
    /\ pending \in [Conn -> Seq(Call)]
    /\ toHost \in [Conn -> Seq(Message)]
    /\ toClient \in [Conn -> Seq(Answer)]
    /\ handler \in [Conn -> [at : {"idle", "write", "gone"}, msg : Message,
                             frame : 0 .. Frames]]
    /\ delivered \in [Message -> {"none", "inProgress", "written", "uncertain"}]
    /\ pty \in Seq([msg : Message, frame : 1 .. Frames])
    /\ exited \in BOOLEAN
    /\ timedOut \subseteq Conn

AnyMessage == CHOOSE m \in Message : TRUE

Init ==
    /\ call = [d \in Call |-> [at |-> "idle", msg |-> AnyMessage,
                               conn |-> NoConn, ackOf |-> AnyMessage]]
    /\ client = NoConn
    /\ socket = [k \in Conn |-> "new"]
    /\ pending = [k \in Conn |-> <<>>]
    /\ toHost = [k \in Conn |-> <<>>]
    /\ toClient = [k \in Conn |-> <<>>]
    /\ handler = [k \in Conn |-> [at |-> "idle", msg |-> AnyMessage,
                                  frame |-> 0]]
    /\ delivered = [m \in Message |-> "none"]
    /\ pty = <<>>
    /\ exited = FALSE
    /\ timedOut = {}

-----------------------------------------------------------------------------
(* Plausible defects, used to show that the properties below can fail.     *)

\* The host enters a message in its table only when all frames are written.
MutantClaim(k, m) ==
    /\ handler' = [handler EXCEPT ![k] = [at |-> "write", msg |-> m,
                                          frame |-> 0]]
    /\ UNCHANGED <<delivered, toClient, socket>>

\* The handler finishes one frame early.
MutantHasNextFrame(k) == handler[k].frame + 1 < Frames

\* The answer goes to the newest request.
MutantAnswered(k) == Len(pending[k])

-----------------------------------------------------------------------------
(* The service and its client.                                             *)

\* Request the delivery of m for call d on connection k.
Request(d, m, k) ==
    /\ call' = [call EXCEPT ![d] = [@ EXCEPT !.at = "waiting", !.msg = m,
                                             !.conn = k]]
    /\ pending' = [pending EXCEPT ![k] = Append(@, d)]
    /\ toHost' = [toHost EXCEPT ![k] = Append(@, m)]

\* deliverToRuntime with a registered client.
Deliver(d, m) ==
    /\ call[d].at = "idle" /\ client # NoConn
    /\ Request(d, m, client)
    /\ UNCHANGED <<client, socket, toClient, handler, delivered, pty, exited,
                   timedOut>>

\* deliverToRuntime without one: reconnect.
DeliverConnecting(d, m) ==
    /\ call[d].at = "idle" /\ client = NoConn
    /\ call' = [call EXCEPT ![d].at = "connecting", ![d].msg = m]
    /\ UNCHANGED <<client, socket, pending, toHost, toClient, handler,
                   delivered, pty, exited, timedOut>>

\* The reconnect succeeds: the supervisor closes its previous client, which
\* is the last connection opened, and the new one becomes the delivery client.
Connected(d, k) ==
    /\ call[d].at = "connecting" /\ socket[k] = "new"
    /\ socket' = [j \in Conn |-> IF j = k THEN "open"
                                 ELSE IF socket[j] = "open" THEN "closed"
                                 ELSE socket[j]]
    /\ client' = k
    /\ Request(d, call[d].msg, k)
    /\ UNCHANGED <<toClient, handler, delivered, pty, exited, timedOut>>

ConnectFailed(d) ==
    /\ call[d].at = "connecting"
    /\ call' = [call EXCEPT ![d].at = "failed"]
    /\ UNCHANGED <<client, socket, pending, toHost, toClient, handler,
                   delivered, pty, exited, timedOut>>

\* Ten seconds without an answer: the request is forgotten.
Timeout(d) ==
    LET k == call[d].conn IN
    /\ call[d].at = "waiting"
    /\ call' = [call EXCEPT ![d].at = "failed"]
    /\ \E i \in DOMAIN pending[k] :
         pending[k][i] = d /\ pending' = [pending EXCEPT ![k] = RemoveAt(@, i)]
    /\ timedOut' = timedOut \cup {k}
    /\ UNCHANGED <<client, socket, toHost, toClient, handler, delivered, pty,
                   exited>>

\* The socket closes under the service.
Disconnect(k) ==
    /\ socket[k] = "open"
    /\ socket' = [socket EXCEPT ![k] = "closed"]
    /\ client' = IF client = k THEN NoConn ELSE client
    /\ UNCHANGED <<call, pending, toHost, toClient, handler, delivered, pty,
                   exited, timedOut>>

\* The place of the pending request that takes the next answer: the oldest.
Answered(k) == 1

Receive(k) ==
    /\ socket[k] = "open" /\ toClient[k] # <<>>
    /\ toClient' = [toClient EXCEPT ![k] = Tail(@)]
    /\ IF pending[k] = <<>> THEN UNCHANGED <<call, pending>>
       ELSE LET d == pending[k][Answered(k)]
                a == Head(toClient[k])
            IN /\ call' = [call EXCEPT
                     ![d].at = IF a.outcome = "error" THEN "failed"
                               ELSE "accepted",
                     ![d].ackOf = a.msg]
               /\ pending' = [pending EXCEPT ![k] = RemoveAt(@, Answered(k))]
    /\ UNCHANGED <<client, socket, toHost, handler, delivered, pty, exited,
                   timedOut>>

-----------------------------------------------------------------------------
(* The host.                                                               *)

\* Write an answer; it is lost when the client closed its side.
Reply(k, m, o) ==
    toClient' = IF socket[k] = "open"
                THEN [toClient EXCEPT ![k] = Append(@, [msg |-> m, outcome |-> o])]
                ELSE toClient

\* A message the table does not hold is claimed for this handler; one it holds
\* is answered "duplicate", whatever its state.
Claim(k, m) ==
    IF delivered[m] = "none"
    THEN /\ delivered' = [delivered EXCEPT ![m] = "inProgress"]
         /\ handler' = [handler EXCEPT ![k] = [at |-> "write", msg |-> m,
                                               frame |-> 0]]
         /\ UNCHANGED <<toClient, socket>>
    ELSE /\ Reply(k, m, "duplicate")
         /\ UNCHANGED <<delivered, handler, socket>>

\* A handler takes the next request.
HostRead(k) ==
    /\ handler[k].at = "idle" /\ toHost[k] # <<>> /\ ~exited
    /\ toHost' = [toHost EXCEPT ![k] = Tail(@)]
    /\ Claim(k, Head(toHost[k]))
    /\ UNCHANGED <<call, client, pending, pty, exited, timedOut>>

\* The child exited, the capability expired or the table is full: the request
\* is answered with an error and the connection closes.
HostRefuse(k) ==
    /\ handler[k].at = "idle" /\ toHost[k] # <<>>
    /\ toHost' = [toHost EXCEPT ![k] = Tail(@)]
    /\ Reply(k, Head(toHost[k]), "error")
    /\ handler' = [handler EXCEPT ![k].at = "gone"]
    /\ UNCHANGED <<call, client, socket, pending, delivered, pty, exited,
                   timedOut>>

HasNextFrame(k) == handler[k].frame < Frames

NextFrame(k) == handler[k].frame + 1

\* One frame reaches the PTY; no lock is held between two frames.
HostWrite(k) ==
    /\ handler[k].at = "write" /\ HasNextFrame(k)
    /\ pty' = Append(pty, [msg |-> handler[k].msg, frame |-> NextFrame(k)])
    /\ handler' = [handler EXCEPT ![k].frame = NextFrame(k)]
    /\ UNCHANGED <<call, client, socket, pending, toHost, toClient, delivered,
                   exited, timedOut>>

\* All frames are written: record and acknowledge.
HostDone(k) ==
    /\ handler[k].at = "write" /\ ~HasNextFrame(k)
    /\ delivered' = [delivered EXCEPT ![handler[k].msg] = "written"]
    /\ Reply(k, handler[k].msg, "written")
    /\ handler' = [handler EXCEPT ![k].at = "idle"]
    /\ UNCHANGED <<call, client, socket, pending, toHost, pty, exited, timedOut>>

\* A PTY write fails: the outcome is uncertain and the connection closes
\* without an answer.
HostFail(k) ==
    /\ handler[k].at = "write" /\ HasNextFrame(k)
    /\ delivered' = [delivered EXCEPT ![handler[k].msg] = "uncertain"]
    /\ handler' = [handler EXCEPT ![k].at = "gone"]
    /\ UNCHANGED <<call, client, socket, pending, toHost, toClient, pty, exited,
                   timedOut>>

\* The host drops the connection as an observer that lags.
HostDrop(k) ==
    /\ socket[k] = "open" /\ handler[k].at = "idle"
    /\ handler' = [handler EXCEPT ![k].at = "gone"]
    /\ UNCHANGED <<call, client, socket, pending, toHost, toClient, delivered,
                   pty, exited, timedOut>>

ChildExit ==
    /\ ~exited
    /\ exited' = TRUE
    /\ UNCHANGED <<call, client, socket, pending, toHost, toClient, handler,
                   delivered, pty, timedOut>>

-----------------------------------------------------------------------------

Next ==
    \/ \E d \in Call, m \in Message : Deliver(d, m) \/ DeliverConnecting(d, m)
    \/ \E d \in Call, k \in Conn : Connected(d, k)
    \/ \E d \in Call : ConnectFailed(d) \/ Timeout(d)
    \/ \E k \in Conn : \/ Disconnect(k) \/ Receive(k) \/ HostRead(k)
                       \/ HostRefuse(k) \/ HostWrite(k) \/ HostDone(k) \/ HostFail(k)
                       \/ HostDrop(k)
    \/ ChildExit

Spec == Init /\ [][Next]_vars

-----------------------------------------------------------------------------
(* Properties.                                                             *)

\* The places of the frames of m among the first n on the PTY out.
PlacesOf(out, m, n) == {i \in 1 .. n : out[i].msg = m}

\* However often a message is retried, over however many connections and
\* concurrent calls, its frames reach the PTY at most once and in order: the
\* n-th that is there is its n-th.
FramesOnceInOrder ==
    \A i \in DOMAIN pty : pty[i].frame = Cardinality(PlacesOf(pty, pty[i].msg, i))

\* The table says "written" only of a message all of whose frames were.
WrittenIsComplete ==
    \A m \in Message :
        delivered[m] = "written" => Cardinality(PlacesOf(pty, m, Len(pty))) = Frames

\* The requests on a connection and everything on its way back, in the order
\* the host answers them.
Owed(k) ==
    [i \in DOMAIN toClient[k] |-> toClient[k][i].msg]
      \o (IF handler[k].at = "write" THEN <<handler[k].msg>> ELSE <<>>)
      \o toHost[k]

Waiting(k) == [i \in DOMAIN pending[k] |-> call[pending[k][i]].msg]

\* While no request of a connection timed out, its pending requests are, in
\* order, those the host has still to answer: matching answers by arrival
\* order is right.
AnswersAligned ==
    \A k \in Conn :
        socket[k] = "open" /\ k \notin timedOut /\ handler[k].at # "gone" =>
            Waiting(k) = Owed(k)
=============================================================================
