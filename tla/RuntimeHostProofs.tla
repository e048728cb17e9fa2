------------------------- MODULE RuntimeHostProofs -------------------------
(***************************************************************************)
(* Proofs about RuntimeHost, for any number of connections, any ring and   *)
(* queue sizes and any output.                                             *)
(***************************************************************************)
EXTENDS RuntimeHost, FiniteSetTheorems, TLAPS

\* TypeOK is not inductive by itself: a replay must also never run past its
\* end, or the next frame would carry positions that do not exist.
TypeInv ==
    /\ TypeOK
    /\ \A c \in Client : hello[c].from <= hello[c].to

-----------------------------------------------------------------------------

\* Frames are built from positions.
LEMMA FrameType ==
    ASSUME NEW a \in 0 .. MaxOutput, NEW b \in 0 .. MaxOutput
    PROVE  Ack(a, b) \in Frame /\ Output(a, b) \in Frame /\ Exit \in Frame
BY HostAssumption DEF Ack, Output, Exit, Frame

\* No frames are frames.
LEMMA NoFrames == <<>> \in Seq(Frame)
OBVIOUS

\* A handler's write keeps the type of the wires.
LEMMA HandlerWriteType ==
    ASSUME TypeOK, NEW c \in Client, NEW f \in Frame, HandlerWrite(c, f)
    PROVE  wire' \in [Client -> Seq(Frame)]
BY DEF TypeOK, HandlerWrite

\* Forgetting queues keeps their type.
LEMMA ForgetType ==
    ASSUME NEW S, NEW q \in [Client -> Seq(Frame)], Forget(S, q)
    PROVE  queue' \in [Client -> Seq(Frame)]
BY DEF Forget

\* A released slot is free or keeps its holder.
LEMMA ReleaseType ==
    ASSUME TypeOK, NEW S, Release(S)
    PROVE  controller' \in Client \cup {NoClient}
BY DEF TypeOK, Release

\* A broadcast frame keeps the type of everything it touches.
LEMMA EnqueueAllType ==
    ASSUME TypeOK, NEW f \in Frame, EnqueueAll(f)
    PROVE  /\ queue' \in [Client -> Seq(Frame)]
           /\ writer' \in [Client -> Writer]
           /\ conn' \in [Client -> {"none", "open", "closed"}]
           /\ registered' \subseteq Client
           /\ controller' \in Client \cup {NoClient}
<1> DEFINE lagged == {c \in registered : Lagging(c)}
           kept == registered \ lagged
           q == [c \in Client |-> IF c \in kept THEN Append(queue[c], f)
                                  ELSE queue[c]]
<1>1. q \in [Client -> Seq(Frame)]
  BY DEF TypeOK
<1>2. Forget(lagged, q) /\ Release(lagged)
  BY DEF EnqueueAll
<1>3. queue' \in [Client -> Seq(Frame)]
  <2> HIDE DEF lagged, q
  <2> QED BY <1>1, <1>2, ForgetType
<1>4. controller' \in Client \cup {NoClient}
  <2> HIDE DEF lagged
  <2> QED BY <1>2, ReleaseType
<1>5. writer' \in [Client -> Writer]
  <2>1. \A c \in Client : [writer[c] EXCEPT !.wake = TRUE] \in Writer
    BY ZenonT(40) DEF TypeOK, Writer
  <2> QED BY <2>1 DEF TypeOK, EnqueueAll
<1>6. conn' \in [Client -> {"none", "open", "closed"}]
  BY DEF TypeOK, EnqueueAll
<1>7. registered' \subseteq Client
  BY DEF TypeOK, EnqueueAll
<1> QED BY <1>3, <1>4, <1>5, <1>6, <1>7

\* A replay lies within what was printed.
LEMMA ReplayFromType ==
    ASSUME TypeOK, NEW cursor \in Cursor, cursor <= total
    PROVE  ReplayFrom(cursor) \in 0 .. total
BY HostAssumption DEF TypeOK, ReplayFrom, Base

-----------------------------------------------------------------------------

LEMMA InitType == Init => TypeInv
<1> SUFFICES ASSUME Init PROVE TypeInv
  OBVIOUS
<1> DEFINE k0 == CHOOSE k \in Credential : TRUE
           n0 == CHOOSE k \in Cursor : TRUE
<1>1. k0 \in Credential /\ n0 \in Cursor
  BY HostAssumption
<1>2. 0 \in 0 .. MaxOutput
  BY HostAssumption
<1> HIDE DEF k0, n0
<1>3. [mode |-> "observer", id |-> k0, cursor |-> n0, busy |-> FALSE,
       start |-> 0, from |-> 0, to |-> 0, exited |-> FALSE] \in Hello
  BY <1>1, <1>2 DEF Hello, Mode
<1>4. hello = [c \in Client |->
                 [mode |-> "observer", id |-> k0, cursor |-> n0,
                  busy |-> FALSE, start |-> 0, from |-> 0, to |-> 0,
                  exited |-> FALSE]]
  BY Zenon DEF Init, k0, n0
<1>5. hello \in [Client -> Hello]
  BY <1>3, <1>4
<1>6. \A c \in Client : hello[c].from <= hello[c].to
  BY <1>4
<1>7. writer \in [Client -> Writer]
  BY DEF Init, Writer
<1>8. /\ queue \in [Client -> Seq(Frame)] /\ wire \in [Client -> Seq(Frame)]
      /\ pc \in [Client -> HandlerState \cup {"none"}]
      /\ conn \in [Client -> {"none", "open", "closed"}]
  BY DEF Init, HandlerState
<1> QED BY <1>2, <1>5, <1>6, <1>7, <1>8 DEF Init, TypeInv, TypeOK

\* The steps of a handler.
LEMMA HandlerType ==
    ASSUME TypeInv, NEW c \in Client, HandlerStep(c)
    PROVE  TypeInv'
<1> USE DEF TypeInv
<1>a. /\ MaxOutput \in Nat /\ MaxChunk \in Nat /\ MaxChunk > 0
      /\ Cursor \subseteq Nat
  BY HostAssumption
<1>b. /\ total \in 0 .. MaxOutput /\ hello \in [Client -> Hello]
      /\ hello[c] \in Hello
  BY DEF TypeOK
<1>c. /\ hello[c].from \in 0 .. MaxOutput /\ hello[c].to \in 0 .. MaxOutput
      /\ hello[c].cursor \in Cursor /\ hello[c].id \in Credential
  BY <1>b DEF Hello
<1>d. hello[c].from <= hello[c].to
  OBVIOUS
<1>e. total \in Nat
  BY <1>a, <1>b
<1>f. hello[c].cursor \in Nat
  BY <1>a, <1>c, Zenon
<1>0. /\ total \in 0 .. MaxOutput /\ total \in Nat /\ MaxOutput \in Nat
      /\ MaxChunk \in Nat /\ MaxChunk > 0
      /\ hello \in [Client -> Hello] /\ hello[c] \in Hello
      /\ hello[c].from \in 0 .. MaxOutput /\ hello[c].to \in 0 .. MaxOutput
      /\ hello[c].cursor \in Cursor /\ hello[c].cursor \in Nat
      /\ hello[c].id \in Credential
      /\ hello[c].from <= hello[c].to
  BY <1>a, <1>b, <1>c, <1>d, <1>e, <1>f, Zenon
<1>1. CASE CheckHello(c)
  <2>1. \A b \in BOOLEAN : [hello[c] EXCEPT !.busy = b] \in Hello
    BY <1>0 DEF Hello
  <2>2. hello' \in [Client -> Hello]
    BY <1>0, <1>1, <2>1 DEF CheckHello
  <2>3. \A d \in Client : hello'[d].from = hello[d].from /\ hello'[d].to = hello[d].to
    BY <1>1 DEF CheckHello, TypeOK, Hello
  <2>4. pc' \in [Client -> HandlerState \cup {"none"}]
    BY <1>1 DEF CheckHello, TypeOK, HandlerState
  <2> QED BY <1>1, <2>2, <2>3, <2>4 DEF CheckHello, TypeOK
<1>2. CASE ClaimId(c)
  BY <1>0, <1>2 DEF ClaimId, TypeOK, HandlerState
<1>3. CASE Register(c)
  <2>1. hello' \in [Client -> Hello] /\ \A d \in Client : hello'[d].from <= hello'[d].to
    <3>1. CASE hello[c].cursor > total
      BY <1>0, <1>3, <3>1 DEF Register
    <3>2. CASE ~(hello[c].cursor > total)
      <4> DEFINE r == ReplayFrom(hello[c].cursor)
      <4>1. r \in 0 .. total
        BY <1>0, <3>2, ReplayFromType
      <4>2. hello' = [hello EXCEPT ![c].start = r, ![c].from = r,
                                   ![c].to = total, ![c].exited = exited]
        BY <1>3, <3>2 DEF Register
      <4> HIDE DEF r
      <4>3. r \in 0 .. MaxOutput /\ r <= total
        BY <1>0, <4>1
      <4>4. hello'[c] \in Hello /\ hello'[c].from = r /\ hello'[c].to = total
        BY <1>0, <4>2, <4>3 DEF Hello, TypeOK
      <4>5. \A d \in Client \ {c} : hello'[d] = hello[d]
        BY <1>0, <4>2
      <4>6. DOMAIN hello' = Client
        BY <1>0, <4>2
      <4>7. hello' = [d \in Client |-> hello'[d]]
        BY <1>0, <4>2
      <4>8. hello' \in [Client -> Hello]
        BY <1>0, <4>4, <4>5, <4>7
      <4> QED BY <4>3, <4>4, <4>5, <4>8
    <3> QED BY <3>1, <3>2
  <2>2. writer' \in [Client -> Writer]
    <3>1. [writer[c] EXCEPT !.at = "wait"] \in Writer
      BY DEF TypeOK, Writer
    <3> QED BY <1>3, <3>1 DEF Register, TypeOK
  <2>3. pc' \in [Client -> HandlerState \cup {"none"}]
    BY <1>3, ZenonT(40) DEF Register, TypeOK, HandlerState
  <2> QED BY <1>3, <2>1, <2>2, <2>3 DEF Register, TypeOK
<1>4. CASE RefuseRegister(c)
  BY <1>4 DEF RefuseRegister, TypeOK, HandlerState
<1>5. CASE WriteAck(c)
  <2>1. wire' \in [Client -> Seq(Frame)]
    BY <1>0, <1>5, HandlerWriteType, FrameType DEF WriteAck
  <2> QED BY <1>5, <2>1 DEF WriteAck, TypeOK, HandlerState
<1>6. CASE WriteReplay(c)
  <2> DEFINE rest == hello[c].to - hello[c].from
             n == IF rest > MaxChunk THEN MaxChunk ELSE rest
  <2>1. hello[c].from + n \in 0 .. MaxOutput /\ hello[c].from + n <= hello[c].to
    BY <1>0
  <2>2. CASE rest # 0 /\ conn[c] = "open"
    <3>1. /\ HandlerWrite(c, Output(hello[c].from, hello[c].from + n))
          /\ hello' = [hello EXCEPT ![c].from = @ + n]
          /\ UNCHANGED pc
      BY <1>6, <2>2 DEF WriteReplay
    <3> HIDE DEF n
    <3>2. wire' \in [Client -> Seq(Frame)]
      BY <1>0, <2>1, <3>1, HandlerWriteType, FrameType
    <3>3. hello'[c] \in Hello /\ hello'[c].from <= hello'[c].to
      BY <1>0, <2>1, <3>1 DEF Hello
    <3>4. \A d \in Client \ {c} : hello'[d] = hello[d]
      BY <1>0, <3>1
    <3>5. hello' = [d \in Client |-> hello'[d]]
      BY <1>0, <3>1
    <3>6. hello' \in [Client -> Hello]
      BY <1>0, <3>3, <3>4, <3>5
    <3> QED BY <1>6, <3>1, <3>2, <3>3, <3>4, <3>6 DEF WriteReplay, TypeOK
  <2>3. CASE ~(rest # 0 /\ conn[c] = "open")
    BY <1>6, <2>3 DEF WriteReplay, TypeOK, HandlerState
  <2> QED BY <2>2, <2>3
<1>7. CASE WriteExit(c)
  <2>1. Exit \in Frame
    BY <1>0, FrameType
  <2>2. wire' \in [Client -> Seq(Frame)]
    BY <1>7, <2>1, HandlerWriteType DEF WriteExit, TypeOK
  <2> QED BY <1>7, <2>2 DEF WriteExit, TypeOK, HandlerState
<1>8. CASE WriteRenewAck(c)
  <2>1. wire' \in [Client -> Seq(Frame)]
    BY <1>0, <1>8, HandlerWriteType, FrameType DEF WriteRenewAck
  <2> QED BY <1>8, <2>1 DEF WriteRenewAck, TypeOK, HandlerState
<1>9. CASE WriteInput(c)
  BY <1>9 DEF WriteInput, TypeOK, HandlerState
<1>10. CASE ReadEnd(c)
  BY <1>10 DEF ReadEnd, TypeOK, HandlerState
<1>11. CASE Cleanup(c)
  <2>1. controller' \in Client \cup {NoClient}
    BY <1>11, ReleaseType DEF Cleanup
  <2>2. queue' \in [Client -> Seq(Frame)]
    BY <1>11, ForgetType DEF Cleanup, TypeOK
  <2>3. wire' \in [Client -> Seq(Frame)]
    BY <1>11 DEF Cleanup, TypeOK
  <2> QED BY <1>11, <2>1, <2>2, <2>3 DEF Cleanup, TypeOK, HandlerState
<1> QED BY <1>1, <1>2, <1>3, <1>4, <1>5, <1>6, <1>7, <1>8, <1>9, <1>10, <1>11
        DEF HandlerStep

\* The steps of a writer goroutine.
LEMMA WriterType ==
    ASSUME TypeInv, NEW c \in Client, WriterStep(c)
    PROVE  TypeInv'
<1> USE DEF TypeInv
<1>0. /\ writer[c] \in Writer /\ queue[c] \in Seq(Frame)
      /\ writer[c].inFlight \in Seq(Frame) /\ wire[c] \in Seq(Frame)
  BY DEF TypeOK, Writer
<1>1. CASE WriterWake(c)
  <2>1. [writer[c] EXCEPT !.at = "drain", !.wake = FALSE] \in Writer
    BY <1>0 DEF Writer
  <2> QED BY <1>1, <2>1 DEF WriterWake, TypeOK
<1>2. CASE WriterTake(c)
  <2>1. /\ [writer[c] EXCEPT !.at = "write", !.inFlight = queue[c]] \in Writer
        /\ [writer[c] EXCEPT !.at = "wait"] \in Writer
    BY <1>0 DEF Writer
  <2>2. writer' \in [Client -> Writer]
    BY <1>2, <2>1 DEF WriterTake, TypeOK
  <2>3. queue' \in [Client -> Seq(Frame)]
    BY <1>2, NoFrames DEF WriterTake, TypeOK
  <2> QED BY <1>2, <2>2, <2>3 DEF WriterTake, TypeOK
<1>3. CASE WriterWrite(c)
  <2>1. [writer[c] EXCEPT !.at = "drain", !.inFlight = <<>>] \in Writer
    BY <1>0, NoFrames DEF Writer
  <2>2. writer' \in [Client -> Writer]
    BY <1>3, <2>1 DEF WriterWrite, TypeOK
  <2>3. wire[c] \o writer[c].inFlight \in Seq(Frame)
    BY <1>0
  <2>4. wire' \in [Client -> Seq(Frame)]
    BY <1>3, <2>3 DEF WriterWrite, TypeOK
  <2> QED BY <1>3, <2>2, <2>4 DEF WriterWrite, TypeOK
<1>4. CASE WriterFail(c)
  <2>1. [writer[c] EXCEPT !.at = "gone", !.inFlight = <<>>] \in Writer
    BY <1>0, NoFrames DEF Writer
  <2>2. writer' \in [Client -> Writer]
    BY <1>4, <2>1 DEF WriterFail, TypeOK
  <2>3. queue' \in [Client -> Seq(Frame)]
    BY <1>4, ForgetType DEF WriterFail, TypeOK
  <2>4. controller' \in Client \cup {NoClient}
    BY <1>4, ReleaseType DEF WriterFail
  <2> QED BY <1>4, <2>2, <2>3, <2>4 DEF WriterFail, TypeOK
<1> QED BY <1>1, <1>2, <1>3, <1>4 DEF WriterStep

\* TypeInv is inductive.
LEMMA NextType == TypeInv /\ [Next]_vars => TypeInv'
<1> SUFFICES ASSUME TypeInv, [Next]_vars PROVE TypeInv'
  OBVIOUS
<1> USE DEF TypeInv
<1>0. total \in 0 .. MaxOutput /\ MaxOutput \in Nat /\ MaxChunk \in Nat
  BY HostAssumption DEF TypeOK
<1>1. ASSUME NEW n \in 1 .. MaxChunk, PtyRead(n) PROVE TypeInv'
  <2>1. total + n \in 0 .. MaxOutput
    BY <1>0, <1>1 DEF PtyRead
  <2>2. Output(total, total + n) \in Frame
    BY <1>0, <2>1, FrameType
  <2>3. EnqueueAll(Output(total, total + n))
    BY <1>1 DEF PtyRead
  <2> QED BY <1>1, <2>1, <2>2, <2>3, EnqueueAllType DEF PtyRead, TypeOK
<1>2. CASE PtyExit
  <2>1. Exit \in Frame
    BY <1>0, FrameType
  <2>2. EnqueueAll(Exit)
    BY <1>2 DEF PtyExit
  <2> QED BY <1>2, <2>1, <2>2, EnqueueAllType DEF PtyExit, TypeOK
<1>3. CASE Shutdown
  <2>1. queue' \in [Client -> Seq(Frame)]
    BY <1>3, ForgetType DEF Shutdown, TypeOK
  <2> QED BY <1>3, <2>1 DEF Shutdown, TypeOK
<1>4. ASSUME NEW c \in Client, NEW m \in Mode, NEW id \in Credential,
             NEW cur \in Cursor, Accept(c, m, id, cur)
      PROVE  TypeInv'
  <2>1. [hello[c] EXCEPT !.mode = m, !.id = id, !.cursor = cur] \in Hello
    BY ZenonT(40) DEF TypeOK, Hello
  <2>2. hello' \in [Client -> Hello]
    BY <1>4, <2>1 DEF Accept, TypeOK
  <2>3. \A d \in Client : hello'[d].from = hello[d].from /\ hello'[d].to = hello[d].to
    BY <1>4, SMTT(40) DEF Accept, TypeOK, Hello
  <2> QED BY <1>4, <2>2, <2>3 DEF Accept, TypeOK, HandlerState
<1>5. ASSUME NEW c \in Client, NEW m \in Mode, NEW id \in Credential,
             Renew(c, m, id)
      PROVE  TypeInv'
  <2>1. /\ hello' \in [Client -> Hello]
        /\ \A d \in Client : hello'[d].from <= hello'[d].to
    <3>1. CASE id \in seenHello \/ m # hello[c].mode
      BY <1>5, <3>1 DEF Renew, TypeOK
    <3>2. CASE ~(id \in seenHello \/ m # hello[c].mode)
      <4>1. hello' = [hello EXCEPT ![c].id = id, ![c].from = total,
                                   ![c].to = total]
        BY <1>5, <3>2 DEF Renew
      <4>2. hello'[c] \in Hello /\ hello'[c].from <= hello'[c].to
        <5>1. hello[c] \in Hello /\ hello \in [Client -> Hello]
          BY DEF TypeOK
        <5>2. hello'[c] = [hello[c] EXCEPT !.id = id, !.from = total,
                                           !.to = total]
          BY <4>1, <5>1
        <5>3. [hello[c] EXCEPT !.id = id, !.from = total, !.to = total] \in Hello
          BY <1>0, <5>1 DEF Hello
        <5>4. /\ hello'[c].from = total
              /\ hello'[c].to = total
          BY <5>1, <5>2 DEF Hello
        <5> QED BY <1>0, <5>2, <5>3, <5>4
      <4>3. \A d \in Client \ {c} : hello'[d] = hello[d]
        BY <4>1 DEF TypeOK
      <4>4. hello' = [d \in Client |-> hello'[d]]
        BY <4>1 DEF TypeOK
      <4> QED BY <4>2, <4>3, <4>4 DEF TypeOK
    <3> QED BY <3>1, <3>2
  <2> QED BY <1>5, <2>1 DEF Renew, TypeOK, HandlerState
<1>6. ASSUME NEW c \in Client, CheckInput(c) PROVE TypeInv'
  BY <1>6 DEF CheckInput, TypeOK, HandlerState
<1>7. ASSUME NEW c \in Client, PeerClose(c) PROVE TypeInv'
  <2>1. wire' \in [Client -> Seq(Frame)]
    BY <1>7, NoFrames DEF PeerClose, TypeOK
  <2> QED BY <1>7, <2>1 DEF PeerClose, TypeOK
<1>8. CASE UNCHANGED vars
  BY <1>8 DEF vars, TypeOK
<1> QED BY <1>1, <1>2, <1>3, <1>4, <1>5, <1>6, <1>7, <1>8, HandlerType,
           WriterType DEF Next

\* Every reachable state of the host has its type: replays and frames carry
\* only positions the child printed (main.go, handle and clientWriter).
THEOREM TypeCorrect == Spec => []TypeOK
<1>1. TypeInv => TypeOK
  BY DEF TypeInv
<1> QED BY <1>1, InitType, NextType, PTL DEF Spec

-----------------------------------------------------------------------------
(* The controller slot and the single-use ids.                             *)

\* Handlers that have not registered.
Early == {"none", "accepted", "checked", "claimed"}

\* A connection that owns its HELLO id: it claimed it, and is on its way to
\* being registered or is registered.
Holder(c) == pc[c] = "claimed" \/ c \in registered

\* Registered clients are past the handshake, so their mode and id are fixed
\* (but for a renewal with a fresh id); ids of holders are used up and differ.
SlotInv ==
    /\ OneController
    /\ \A c \in registered : pc[c] \notin Early
    /\ \A c \in Client : conn[c] = "none" => pc[c] = "none"
    /\ \A c \in Client : Holder(c) => hello[c].id \in seenHello
    /\ \A c, d \in Client :
         Holder(c) /\ Holder(d) /\ hello[c].id = hello[d].id => c = d

LEMMA InitSlot == Init => SlotInv
BY DEF Init, SlotInv, OneController, Holder

\* Steps that admit nobody: clients may go, the slot is released exactly when
\* its holder goes, and no handler moves back into the handshake.
LEMMA NobodyAdmitted ==
    ASSUME TypeInv, SlotInv,
           registered' \subseteq registered,
           controller' = IF controller \in registered' THEN controller
                         ELSE NoClient,
           \A c \in Client : /\ hello'[c].mode = hello[c].mode
                             /\ hello'[c].id = hello[c].id,
           seenHello \subseteq seenHello',
           \A c \in Client : pc'[c] = "claimed" => pc[c] = "claimed",
           \A c \in Client : pc'[c] \in Early => pc[c] \in Early,
           \A c \in Client : conn'[c] = "none" =>
                conn[c] = "none" /\ pc'[c] = pc[c]
    PROVE  SlotInv'
<1> registered \subseteq Client
  BY DEF TypeInv, TypeOK
<1>1. OneController'
  BY HostAssumption DEF OneController, SlotInv
<1>2. \A c \in registered' : pc'[c] \notin Early
  BY DEF SlotInv
<1>3. \A c \in Client : conn'[c] = "none" => pc'[c] = "none"
  BY DEF SlotInv
<1>4. \A c \in Client : Holder(c)' => Holder(c)
  BY DEF Holder
<1> QED BY <1>1, <1>2, <1>3, <1>4 DEF SlotInv, Early

\* A slot released for the clients of S, when those clients go.
LEMMA Released ==
    ASSUME TypeInv, SlotInv, NEW S, registered' = registered \ S,
           Release(S) \/ Release(S \cap registered)
    PROVE  /\ registered' \subseteq registered
           /\ controller' = IF controller \in registered' THEN controller
                            ELSE NoClient
<1>1. NoClient \notin registered
  BY HostAssumption DEF TypeInv, TypeOK
<1> QED BY <1>1 DEF Release, SlotInv, OneController

\* The slot is kept when nobody goes.
LEMMA SlotKept ==
    ASSUME TypeInv, SlotInv, UNCHANGED <<registered, controller>>
    PROVE  controller' = IF controller \in registered' THEN controller
                         ELSE NoClient
BY DEF SlotInv, OneController

\* A broadcast drops clients and nothing else.
LEMMA EnqueueAllSlot ==
    ASSUME TypeInv, SlotInv, NEW f, EnqueueAll(f),
           UNCHANGED <<seenHello, pc, hello>>
    PROVE  SlotInv'
<1> DEFINE lagged == {c \in registered : Lagging(c)}
<1>1. registered' = registered \ lagged /\ Release(lagged)
  BY DEF EnqueueAll
<1>2. \A c \in Client : conn'[c] = "none" => conn[c] = "none"
  BY DEF EnqueueAll
<1> HIDE DEF lagged
<1>3. /\ registered' \subseteq registered
      /\ controller' = IF controller \in registered' THEN controller
                       ELSE NoClient
  BY <1>1, Released
<1> QED BY <1>2, <1>3, NobodyAdmitted

LEMMA HandlerSlot ==
    ASSUME TypeInv, SlotInv, NEW c \in Client, HandlerStep(c)
    PROVE  SlotInv'
<1>0. /\ hello \in [Client -> Hello] /\ pc \in [Client -> HandlerState \cup {"none"}]
      /\ registered \subseteq Client /\ conn \in [Client -> {"none", "open", "closed"}]
      /\ NoClient \notin Client
  BY HostAssumption DEF TypeInv, TypeOK
<1>1. CASE CheckHello(c)
  <2>1. \A d \in Client : hello'[d].mode = hello[d].mode /\ hello'[d].id = hello[d].id
    BY <1>0, <1>1 DEF CheckHello, Hello
  <2>2. /\ \A d \in Client : pc'[d] = "claimed" => pc[d] = "claimed"
        /\ \A d \in Client : pc'[d] \in Early => pc[d] \in Early
        /\ \A d \in Client : conn'[d] = "none" => conn[d] = "none" /\ pc'[d] = pc[d]
    BY <1>0, <1>1 DEF CheckHello, Early, SlotInv
  <2> QED BY <1>1, <2>1, <2>2, SlotKept, NobodyAdmitted DEF CheckHello
<1>2. CASE ClaimId(c)
  <2>1. /\ OneController'
        /\ \A d \in registered' : pc'[d] \notin Early
        /\ \A d \in Client : conn'[d] = "none" => pc'[d] = "none"
    BY <1>0, <1>2 DEF ClaimId, SlotInv, OneController, Early
  <2>2. \A d \in Client \ {c} : Holder(d)' <=> Holder(d)
    BY <1>0, <1>2 DEF ClaimId, Holder
  <2>3. Holder(c)' => hello[c].id \notin seenHello
    BY <1>0, <1>2 DEF ClaimId, Holder, SlotInv, Early
  <2> QED BY <1>2, <2>1, <2>2, <2>3 DEF ClaimId, SlotInv
<1>3. CASE Register(c)
  <2>1. \A d \in Client : hello'[d].mode = hello[d].mode /\ hello'[d].id = hello[d].id
    BY <1>0, <1>3 DEF Register, Hello
  <2>2. \A d \in Client : Holder(d)' <=> Holder(d)
    BY <1>0, <1>3 DEF Register, Holder
  <2>3. OneController'
    BY <1>0, <1>3, <2>1 DEF Register, MayRegister, SlotInv, OneController
  <2>4. /\ \A d \in registered' : pc'[d] \notin Early
        /\ \A d \in Client : conn'[d] = "none" => pc'[d] = "none"
    BY <1>0, <1>3 DEF Register, SlotInv, Early
  <2>5. seenHello' = seenHello
    BY <1>3 DEF Register
  <2> QED BY <2>1, <2>2, <2>3, <2>4, <2>5 DEF SlotInv
<1>4. CASE RefuseRegister(c) \/ WriteAck(c) \/ WriteExit(c) \/ WriteRenewAck(c)
           \/ WriteInput(c) \/ ReadEnd(c)
  <2>1. UNCHANGED <<hello, registered, controller, seenHello, conn>>
    BY <1>4 DEF RefuseRegister, WriteAck, WriteExit, WriteRenewAck, WriteInput,
                ReadEnd
  <2>2. /\ pc[c] # "none"
        /\ \E x \in {"closing", "replay", "serving"} : pc' = [pc EXCEPT ![c] = x]
    BY <1>4 DEF RefuseRegister, WriteAck, WriteExit, WriteRenewAck, WriteInput,
                ReadEnd
  <2>3. /\ \A d \in Client : pc'[d] = "claimed" => pc[d] = "claimed"
        /\ \A d \in Client : pc'[d] \in Early => pc[d] \in Early
        /\ \A d \in Client : conn'[d] = "none" => conn[d] = "none" /\ pc'[d] = pc[d]
    BY <1>0, <2>1, <2>2 DEF Early, SlotInv
  <2> QED BY <2>1, <2>3, SlotKept, NobodyAdmitted
<1>5. CASE WriteReplay(c)
  <2>1. UNCHANGED <<registered, controller, seenHello, conn>>
    BY <1>5 DEF WriteReplay
  <2>2. \A d \in Client : hello'[d].mode = hello[d].mode /\ hello'[d].id = hello[d].id
    BY <1>0, <1>5 DEF WriteReplay, Hello
  <2>3. /\ pc[c] = "replay"
        /\ pc' = pc \/ pc' = [pc EXCEPT ![c] = "exit"]
                    \/ pc' = [pc EXCEPT ![c] = "closing"]
    BY <1>5 DEF WriteReplay
  <2>4. /\ \A d \in Client : pc'[d] = "claimed" => pc[d] = "claimed"
        /\ \A d \in Client : pc'[d] \in Early => pc[d] \in Early
        /\ \A d \in Client : conn'[d] = "none" => conn[d] = "none" /\ pc'[d] = pc[d]
    BY <1>0, <2>1, <2>3 DEF Early, SlotInv
  <2> QED BY <2>1, <2>2, <2>4, SlotKept, NobodyAdmitted
<1>6. CASE Cleanup(c)
  <2>1. /\ registered' = registered \ {c} /\ Release({c})
        /\ UNCHANGED <<hello, seenHello>>
    BY <1>6 DEF Cleanup
  <2>2. /\ \A d \in Client : pc'[d] = "claimed" => pc[d] = "claimed"
        /\ \A d \in Client : pc'[d] \in Early => pc[d] \in Early
        /\ \A d \in Client : conn'[d] = "none" => conn[d] = "none" /\ pc'[d] = pc[d]
    BY <1>0, <1>6 DEF Cleanup, Early
  <2>3. /\ registered' \subseteq registered
        /\ controller' = IF controller \in registered' THEN controller
                         ELSE NoClient
    BY <2>1, Released
  <2> QED BY <2>1, <2>2, <2>3, NobodyAdmitted
<1> QED BY <1>1, <1>2, <1>3, <1>4, <1>5, <1>6 DEF HandlerStep

LEMMA WriterSlot ==
    ASSUME TypeInv, SlotInv, NEW c \in Client, WriterStep(c)
    PROVE  SlotInv'
<1>0. UNCHANGED <<hello, pc, conn, seenHello>>
  BY DEF WriterStep, WriterWake, WriterTake, WriterWrite, WriterFail
<1>1. CASE WriterFail(c)
  <2>1. registered' = registered \ {c} /\ Release({c} \cap registered)
    BY <1>1 DEF WriterFail
  <2>2. /\ registered' \subseteq registered
        /\ controller' = IF controller \in registered' THEN controller
                         ELSE NoClient
    BY <2>1, Released
  <2> QED BY <1>0, <2>2, NobodyAdmitted
<1>2. CASE WriterWake(c) \/ WriterTake(c) \/ WriterWrite(c)
  <2>1. UNCHANGED <<registered, controller>>
    BY <1>2 DEF WriterWake, WriterTake, WriterWrite
  <2> QED BY <1>0, <2>1, SlotKept, NobodyAdmitted
<1> QED BY <1>1, <1>2 DEF WriterStep

LEMMA NextSlot == TypeInv /\ SlotInv /\ [Next]_vars => SlotInv'
<1> SUFFICES ASSUME TypeInv, SlotInv, [Next]_vars PROVE SlotInv'
  OBVIOUS
<1>0. /\ hello \in [Client -> Hello] /\ pc \in [Client -> HandlerState \cup {"none"}]
      /\ registered \subseteq Client /\ conn \in [Client -> {"none", "open", "closed"}]
      /\ NoClient \notin Client
  BY HostAssumption DEF TypeInv, TypeOK
<1>1. ASSUME NEW n \in 1 .. MaxChunk, PtyRead(n) PROVE SlotInv'
  BY <1>1, EnqueueAllSlot DEF PtyRead
<1>2. CASE PtyExit
  BY <1>2, EnqueueAllSlot DEF PtyExit
<1>3. CASE Shutdown
  <2>1. /\ registered' = {} /\ controller' = NoClient
        /\ UNCHANGED <<hello, pc, seenHello>>
        /\ \A c \in Client : conn'[c] = "none" => conn[c] = "none"
    BY <1>3 DEF Shutdown
  <2> QED BY <2>1, NobodyAdmitted
<1>4. ASSUME NEW c \in Client, NEW m \in Mode, NEW id \in Credential,
             NEW cur \in Cursor, Accept(c, m, id, cur)
      PROVE  SlotInv'
  <2>1. /\ UNCHANGED <<registered, controller, seenHello>>
        /\ c \notin registered /\ pc'[c] = "accepted" /\ conn'[c] = "open"
        /\ \A d \in Client \ {c} : /\ hello'[d] = hello[d] /\ pc'[d] = pc[d]
                                   /\ conn'[d] = conn[d]
    BY <1>0, <1>4 DEF Accept, SlotInv, Early
  <2>2. OneController'
    BY <1>0, <2>1 DEF SlotInv, OneController
  <2>3. \A d \in Client : Holder(d)' => d # c /\ Holder(d)
    BY <2>1 DEF Holder
  <2>4. /\ \A d \in registered' : pc'[d] \notin Early
        /\ \A d \in Client : conn'[d] = "none" => pc'[d] = "none"
    BY <1>0, <2>1 DEF SlotInv
  <2> QED BY <2>1, <2>2, <2>3, <2>4 DEF SlotInv
<1>5. ASSUME NEW c \in Client, NEW m \in Mode, NEW id \in Credential,
             Renew(c, m, id)
      PROVE  SlotInv'
  <2>1. /\ UNCHANGED <<registered, controller, conn>> /\ pc[c] = "serving"
        /\ c \in registered /\ seenHello' = seenHello \cup {id}
        /\ pc' = [pc EXCEPT ![c] = "closing"] \/ pc' = [pc EXCEPT ![c] = "renewing"]
    BY <1>5 DEF Renew
  <2>2. /\ \A d \in registered' : pc'[d] \notin Early
        /\ \A d \in Client : conn'[d] = "none" => pc'[d] = "none"
        /\ \A d \in Client : Holder(d)' <=> Holder(d)
    BY <1>0, <2>1 DEF SlotInv, Early, Holder
  <2>3. CASE hello' = hello
    BY <2>1, <2>2, <2>3 DEF SlotInv, OneController
  <2>4. CASE hello' # hello
    <3>1. /\ hello' = [hello EXCEPT ![c].id = id, ![c].from = total,
                                    ![c].to = total]
          /\ id \notin seenHello
      BY <1>5, <2>4 DEF Renew
    <3>2. /\ \A d \in Client : hello'[d].mode = hello[d].mode
          /\ \A d \in Client \ {c} : hello'[d].id = hello[d].id
          /\ hello'[c].id = id
      BY <1>0, <3>1 DEF Hello
    <3>3. OneController'
      BY <1>0, <2>1, <3>2 DEF SlotInv, OneController
    <3>4. \A d \in Client : Holder(d)' => hello'[d].id \in seenHello'
      BY <2>1, <2>2, <3>2 DEF SlotInv
    <3>5. \A d, e \in Client : Holder(d)' /\ Holder(e)' /\ hello'[d].id = hello'[e].id
             => d = e
      <4>0. /\ \A d \in Client : Holder(d) => hello[d].id \in seenHello
            /\ id \notin seenHello
        BY <3>1 DEF SlotInv
      <4>1. \A d \in Client \ {c} : Holder(d)' => hello'[d].id # id
        BY <2>2, <3>2, <4>0
      <4>2. \A d, e \in Client : Holder(d) /\ Holder(e) /\ hello[d].id = hello[e].id
               => d = e
        BY DEF SlotInv
      <4> QED BY <2>2, <3>2, <4>1, <4>2
    <3> QED BY <2>2, <3>3, <3>4, <3>5 DEF SlotInv
  <2> QED BY <2>3, <2>4
<1>6. ASSUME NEW c \in Client, CheckInput(c) PROVE SlotInv'
  <2>1. UNCHANGED <<hello, registered, controller, seenHello, conn>>
    BY <1>6 DEF CheckInput
  <2>2. /\ \A d \in Client : pc'[d] = "claimed" => pc[d] = "claimed"
        /\ \A d \in Client : pc'[d] \in Early => pc[d] \in Early
        /\ \A d \in Client : conn'[d] = "none" => conn[d] = "none" /\ pc'[d] = pc[d]
    BY <1>0, <1>6 DEF CheckInput, Early, SlotInv
  <2> QED BY <2>1, <2>2, SlotKept, NobodyAdmitted
<1>7. ASSUME NEW c \in Client, PeerClose(c) PROVE SlotInv'
  <2>1. /\ UNCHANGED <<hello, registered, controller, seenHello, pc>>
        /\ \A d \in Client : conn'[d] = "none" => conn[d] = "none"
    BY <1>0, <1>7 DEF PeerClose
  <2> QED BY <2>1, SlotKept, NobodyAdmitted
<1>8. CASE UNCHANGED vars
  BY <1>8, SlotKept, NobodyAdmitted DEF vars
<1> QED BY <1>1, <1>2, <1>3, <1>4, <1>5, <1>6, <1>7, <1>8, HandlerSlot,
           WriterSlot DEF Next

\* The host never has two controllers, and the slot is never held by a client
\* that is gone, in whichever order the lag drop, the writer's error and the
\* handler's cleanup happen; and an id admits one connection although it is
\* tested twice under separate locks (main.go, HELLO, enqueueAllLocked,
\* clientWriter and serve's deferred function).
THEOREM SlotsAreExclusive == Spec => [](OneController /\ SingleUseIds)
<1>1. TypeInv /\ SlotInv => OneController /\ SingleUseIds
  BY DEF TypeInv, TypeOK, SlotInv, SingleUseIds, Holder
<1> QED BY <1>1, InitType, NextType, InitSlot, NextSlot, PTL DEF Spec

-----------------------------------------------------------------------------
(* The stream of an attached client.                                       *)

\* The frames of s that carry position i.
Carriers(s, i) == {k \in DOMAIN s : Covers(s[k], i)}

LEMMA CarriersFinite ==
    ASSUME NEW s \in Seq(Frame), NEW i
    PROVE  IsFiniteSet(Carriers(s, i)) /\ Copies(s, i) = Cardinality(Carriers(s, i))
           /\ Copies(s, i) \in Nat
<1>1. DOMAIN s = 1 .. Len(s) /\ Len(s) \in Nat /\ Carriers(s, i) \in SUBSET (1 .. Len(s))
  BY DEF Carriers
<1>2. IsFiniteSet(1 .. Len(s))
  BY <1>1, FS_Interval
<1> QED BY <1>1, <1>2, FS_Subset, FS_CardinalityType DEF Copies, Carriers

LEMMA CopiesEmpty ==
    ASSUME NEW i
    PROVE  Copies(<<>>, i) = 0
<1>1. Carriers(<<>>, i) = {}
  BY DEF Carriers
<1> QED BY <1>1, FS_EmptySet DEF Copies, Carriers

\* A frame at the end adds a copy of the positions it carries.
LEMMA CopiesAppend ==
    ASSUME NEW s \in Seq(Frame), NEW f \in Frame, NEW i
    PROVE  Copies(Append(s, f), i) = Copies(s, i) + (IF Covers(f, i) THEN 1 ELSE 0)
<1> DEFINE n == Len(s) + 1
           t == Append(s, f)
<1>1. t \in Seq(Frame) /\ DOMAIN s = 1 .. Len(s) /\ DOMAIN t = 1 .. n /\ Len(s) \in Nat
      /\ t[n] = f /\ \A k \in 1 .. Len(s) : t[k] = s[k]
  OBVIOUS
<1>2. n \notin Carriers(s, i)
  BY <1>1 DEF Carriers
<1>3. Carriers(t, i) = IF Covers(f, i) THEN Carriers(s, i) \cup {n} ELSE Carriers(s, i)
  <2>1. \A k : k \in 1 .. n <=> k \in 1 .. Len(s) \/ k = n
    BY <1>1
  <2> HIDE DEF n, t
  <2> QED BY <1>1, <2>1 DEF Carriers
<1> HIDE DEF n, t
<1>4. Cardinality(Carriers(s, i) \cup {n}) = Cardinality(Carriers(s, i)) + 1
  BY <1>2, CarriersFinite, FS_AddElement
<1>5. Copies(t, i) = Cardinality(Carriers(t, i)) /\ Copies(s, i) = Cardinality(Carriers(s, i))
      /\ Copies(s, i) \in Nat
  BY <1>1, CarriersFinite
<1>6. Copies(t, i) = Copies(s, i) + (IF Covers(f, i) THEN 1 ELSE 0)
  BY <1>3, <1>4, <1>5
<1> QED BY <1>6 DEF t

\* Frames that are written together keep their copies.
LEMMA CopiesConcat ==
    ASSUME NEW s \in Seq(Frame), NEW t \in Seq(Frame), NEW i
    PROVE  Copies(s \o t, i) = Copies(s, i) + Copies(t, i)
<1> DEFINE n == Len(s)
           u == s \o t
           A == Carriers(s, i)
           B == Carriers(t, i)
           C == {n + k : k \in B}
<1>1. u \in Seq(Frame) /\ n \in Nat /\ Len(t) \in Nat /\ DOMAIN s = 1 .. n /\ DOMAIN t = 1 .. Len(t)
      /\ DOMAIN u = 1 .. n + Len(t)
  OBVIOUS
<1>2. (\A k \in 1 .. n : u[k] = s[k]) /\ (\A k \in 1 .. Len(t) : u[n + k] = t[k])
  OBVIOUS
<1> HIDE DEF n, u
<1>3. Carriers(u, i) = A \cup C
  <2>1. ASSUME NEW k \in Carriers(u, i) PROVE k \in A \cup C
    <3>1. k \in 1 .. n + Len(t) /\ Covers(u[k], i)
      BY <1>1 DEF Carriers
    <3>2. CASE k <= n
      BY <1>1, <1>2, <3>1, <3>2 DEF Carriers
    <3>3. CASE ~(k <= n)
      <4>1. k - n \in 1 .. Len(t) /\ k = n + (k - n)
        BY <1>1, <3>1, <3>3
      <4>2. k - n \in B
        BY <1>1, <1>2, <3>1, <4>1 DEF Carriers
      <4> QED BY <4>1, <4>2
    <3> QED BY <3>2, <3>3
  <2>2. ASSUME NEW k \in A PROVE k \in Carriers(u, i)
    BY <1>1, <1>2, <2>2 DEF Carriers
  <2>3. ASSUME NEW k \in B PROVE n + k \in Carriers(u, i)
    <3>1. k \in 1 .. Len(t) /\ Covers(t[k], i)
      BY <1>1 DEF Carriers
    <3>2. n + k \in 1 .. n + Len(t) /\ u[n + k] = t[k]
      BY <1>1, <1>2, <3>1
    <3> QED BY <1>1, <3>1, <3>2 DEF Carriers
  <2> QED BY <2>1, <2>2, <2>3
<1>4. A \cap C = {}
  BY <1>1 DEF Carriers
<1>5. IsFiniteSet(B) /\ IsFiniteSet(A) /\ Cardinality(B) \in Nat /\ Cardinality(A) \in Nat
  BY CarriersFinite
<1>6. IsFiniteSet(C) /\ Cardinality(C) = Cardinality(B)
  <2>1. \A k \in B : k \in Nat
    BY <1>1 DEF Carriers
  <2> DEFINE b == [k \in B |-> n + k]
  <2>2. b \in [B -> C] /\ (\A j, k \in B : b[j] = b[k] => j = k) /\ (\A x \in C : \E k \in B : b[k] = x)
    BY <1>1, <2>1
  <2> HIDE DEF C, B, b
  <2>3. b \in Bijection(B, C)
    BY <2>2 DEF Bijection, Injection, Surjection, IsInjective
  <2> QED BY <1>5, <2>3, FS_Bijection DEF ExistsBijection
<1> HIDE DEF A, B, C
<1>7. Cardinality(A \cup C) = Cardinality(A) + Cardinality(B)
  <2>1. Cardinality(A \cap C) = 0
    BY <1>4, FS_EmptySet
  <2>2. Cardinality(A \cup C) = Cardinality(A) + Cardinality(C) - Cardinality(A \cap C)
    BY <1>5, <1>6, FS_Union
  <2> QED BY <1>5, <1>6, <2>1, <2>2
<1>8. Copies(u, i) = Cardinality(Carriers(u, i)) /\ Copies(s, i) = Cardinality(A)
      /\ Copies(t, i) = Cardinality(B)
  BY <1>1, CarriersFinite DEF A, B
<1>9. Copies(u, i) = Copies(s, i) + Copies(t, i)
  BY <1>3, <1>7, <1>8
<1> QED BY <1>9 DEF u

\* Copies of position i that client c has or will be sent by its writer, and
\* the one its handler still has to replay.
Held(c, i) == Copies(wire[c], i) + Copies(writer[c].inFlight, i) + Copies(queue[c], i)
Owed(c, i) == IF pc[c] \in {"ack", "replay"} /\ hello[c].from <= i /\ i < hello[c].to THEN 1 ELSE 0

\* The stream of client c: it starts with the registration, a writer holds
\* frames only while it writes them, and every position is in one place.
StreamOK(c) ==
    /\ pc[c] \in Early => wire[c] = <<>> /\ queue[c] = <<>> /\ writer[c].inFlight = <<>>
    /\ writer[c].inFlight # <<>> => writer[c].at = "write"
    /\ Attached(c) =>
         /\ hello[c].start <= total
         /\ \A i \in 0 .. MaxOutput :
              Held(c, i) + Owed(c, i) = IF hello[c].start <= i /\ i < total THEN 1 ELSE 0

StreamInv == \A c \in Client : StreamOK(c)

LEMMA InitStream == Init => StreamInv
BY DEF Init, StreamInv, StreamOK, Attached

\* What the type says of one client.
LEMMA ClientType ==
    ASSUME TypeInv, NEW c \in Client
    PROVE  /\ wire[c] \in Seq(Frame) /\ queue[c] \in Seq(Frame) /\ writer[c].inFlight \in Seq(Frame)
           /\ hello[c] \in Hello /\ writer[c] \in Writer
           /\ hello[c].start \in Nat /\ hello[c].from \in Nat /\ hello[c].to \in Nat
           /\ hello[c].from <= hello[c].to /\ total \in Nat
<1>1. hello[c] \in Hello /\ writer[c] \in Writer /\ total \in 0 .. MaxOutput /\ MaxOutput \in Nat
  BY HostAssumption DEF TypeInv, TypeOK
<1> QED BY <1>1 DEF TypeInv, TypeOK, Hello, Writer

\* A step that leaves the stream of client d as it is, or detaches it.
LEMMA StreamKept ==
    ASSUME NEW d \in Client, StreamOK(d),
           UNCHANGED <<wire[d], queue[d], writer[d].inFlight>>,
           pc'[d] \in Early => pc[d] \in Early,
           writer'[d].at = writer[d].at \/ writer[d].inFlight = <<>>,
           Attached(d)' => /\ Attached(d) /\ total' = total /\ hello'[d].start = hello[d].start
                           /\ \A i \in 0 .. MaxOutput : Owed(d, i)' = Owed(d, i)
    PROVE  StreamOK(d)'
BY DEF StreamOK, Held

\* A frame for everybody carries the positions that were just printed.
LEMMA EnqueueAllStream ==
    ASSUME TypeInv, TypeInv', SlotInv, StreamInv, NEW f \in Frame, EnqueueAll(f),
           UNCHANGED <<up, pc, hello, wire>>, total <= total',
           \A i \in 0 .. MaxOutput : Covers(f, i) <=> total <= i /\ i < total'
    PROVE  StreamInv'
<1> SUFFICES ASSUME NEW d \in Client PROVE StreamOK(d)'
  BY DEF StreamInv
<1> DEFINE lagged == {c \in registered : Lagging(c)}
           kept == registered \ lagged
<1>0. StreamOK(d) /\ writer \in [Client -> Writer] /\ (d \in registered => pc[d] \notin Early)
  BY DEF StreamInv, TypeInv, TypeOK, SlotInv
<1>1. writer'[d].inFlight = writer[d].inFlight /\ writer'[d].at = writer[d].at
  BY <1>0 DEF EnqueueAll, Writer
<1>2. CASE d \notin kept
  <2>1. d \notin registered'
    BY <1>2 DEF EnqueueAll
  <2>2. queue'[d] = queue[d] \/ queue'[d] = <<>>
    BY <1>2 DEF EnqueueAll, Forget
  <2> QED BY <1>0, <1>1, <2>1, <2>2 DEF StreamOK, Attached
<1>3. CASE d \in kept
  <2>1. queue'[d] = Append(queue[d], f)
    BY <1>3 DEF EnqueueAll, Forget
  <2>2. conn'[d] = conn[d] /\ d \in registered
    BY <1>3 DEF EnqueueAll
  <2> HIDE DEF lagged, kept
  <2>3. SUFFICES ASSUME Attached(d)'
                 PROVE  /\ hello'[d].start <= total'
                        /\ \A i \in 0 .. MaxOutput :
                             Held(d, i)' + Owed(d, i)' =
                               IF hello'[d].start <= i /\ i < total' THEN 1 ELSE 0
    BY <1>0, <1>1, <2>2 DEF StreamOK
  <2>4. Attached(d)
    BY <2>2, <2>3 DEF Attached
  <2>5. /\ hello[d].start \in Nat /\ total \in Nat /\ total' \in Nat /\ hello[d].start <= total
        /\ wire[d] \in Seq(Frame) /\ queue[d] \in Seq(Frame) /\ writer[d].inFlight \in Seq(Frame)
    BY <1>0, <2>4, ClientType, HostAssumption DEF StreamOK, TypeInv, TypeOK
  <2>6. ASSUME NEW i \in 0 .. MaxOutput
        PROVE  Held(d, i)' + Owed(d, i)' = IF hello[d].start <= i /\ i < total' THEN 1 ELSE 0
    <3>1. Copies(queue'[d], i) = Copies(queue[d], i) + (IF Covers(f, i) THEN 1 ELSE 0)
      BY <2>1, <2>5, CopiesAppend
    <3>2. /\ Copies(queue[d], i) \in Nat /\ Copies(wire[d], i) \in Nat
          /\ Copies(writer[d].inFlight, i) \in Nat /\ Owed(d, i) \in Nat
      BY <2>5, CarriersFinite DEF Owed
    <3>3. Held(d, i)' = Held(d, i) + (IF Covers(f, i) THEN 1 ELSE 0) /\ Held(d, i) \in Nat
      BY <1>1, <3>1, <3>2 DEF Held
    <3>4. Owed(d, i)' = Owed(d, i)
      BY DEF Owed
    <3>5. Held(d, i) + Owed(d, i) = IF hello[d].start <= i /\ i < total THEN 1 ELSE 0
      BY <1>0, <2>4 DEF StreamOK
    <3>6. i \in Nat
      BY HostAssumption
    <3>7. CASE Covers(f, i)
      <4>1. total <= i /\ i < total'
        BY <3>7
      <4>2. Held(d, i) + Owed(d, i) = 0
        BY <2>5, <3>5, <3>6, <4>1
      <4>3. Held(d, i)' + Owed(d, i)' = 1
        BY <3>2, <3>3, <3>4, <3>7, <4>2
      <4>4. hello[d].start <= i
        BY <2>5, <3>6, <4>1
      <4>5. hello'[d].start <= i
        BY <4>4
      <4> QED BY <4>1, <4>3, <4>5
    <3>8. CASE ~Covers(f, i)
      <4>1. i < total <=> i < total'
        BY <2>5, <3>6, <3>8
      <4>2. Held(d, i)' + Owed(d, i)' = Held(d, i) + Owed(d, i)
        BY <3>2, <3>3, <3>4, <3>8
      <4> QED BY <3>5, <4>1, <4>2
    <3> QED BY <3>7, <3>8
  <2> QED BY <2>5, <2>6
<1> QED BY <1>2, <1>3

\* A handler writes a frame that carries no bytes.
LEMMA PlainFrameStream ==
    ASSUME TypeInv, StreamInv, NEW c \in Client, NEW f \in Frame, f.kind # "output",
           HandlerWrite(c, f) \/ UNCHANGED wire, pc[c] \notin Early,
           NEW p \in HandlerState \ Early, pc' = [pc EXCEPT ![c] = p],
           Attached(c)' => Attached(c), \A i \in 0 .. MaxOutput : Owed(c, i)' = Owed(c, i),
           UNCHANGED <<up, total, exited, registered, controller, seenHello, conn, hello, writer, queue>>
    PROVE  StreamInv'
<1> SUFFICES ASSUME NEW d \in Client PROVE StreamOK(d)'
  BY DEF StreamInv
<1>0. StreamOK(d) /\ pc \in [Client -> HandlerState \cup {"none"}] /\ wire \in [Client -> Seq(Frame)]
      /\ StreamOK(c)
  BY DEF StreamInv, TypeInv, TypeOK
<1>1. CASE d # c
  BY <1>0, <1>1, StreamKept DEF HandlerWrite, Attached, Owed
<1>2. CASE d = c
  <2>1. pc'[c] = p
    BY <1>0
  <2>2. wire'[c] = wire[c] \/ wire'[c] = Append(wire[c], f)
    BY <1>0 DEF HandlerWrite
  <2>3. ASSUME NEW i \in 0 .. MaxOutput PROVE Held(c, i)' = Held(c, i)
    <3>1. ~Covers(f, i)
      BY DEF Covers
    <3>2. wire[c] \in Seq(Frame) /\ Copies(wire[c], i) \in Nat
      BY <1>0, CarriersFinite
    <3>3. Copies(Append(wire[c], f), i) = Copies(wire[c], i)
      BY <3>1, <3>2, CopiesAppend
    <3> QED BY <2>2, <3>3 DEF Held
  <2> QED BY <1>0, <1>2, <2>1, <2>3 DEF StreamOK
<1> QED BY <1>1, <1>2

\* The client attaches: what the ring still has of its cursor is to be
\* replayed, and what is printed from now on goes to its queue.
LEMMA RegisterStream ==
    ASSUME TypeInv, SlotInv, StreamInv, NEW c \in Client, Register(c)
    PROVE  StreamInv'
<1> SUFFICES ASSUME NEW d \in Client PROVE StreamOK(d)'
  BY DEF StreamInv
<1>0. /\ StreamOK(d) /\ StreamOK(c) /\ pc \in [Client -> HandlerState \cup {"none"}]
      /\ writer \in [Client -> Writer] /\ hello \in [Client -> Hello]
      /\ UNCHANGED <<up, total, conn, queue, wire>>
      /\ pc[c] = "claimed" /\ writer' = [writer EXCEPT ![c].at = "wait"]
      /\ registered' = registered \cup {c}
  BY DEF StreamInv, TypeInv, TypeOK, Register
<1>1. CASE d # c
  <2>1. hello'[d] = hello[d] /\ pc'[d] = pc[d] /\ writer'[d] = writer[d]
    BY <1>0, <1>1 DEF Register
  <2> QED BY <1>0, <1>1, <2>1, StreamKept DEF Attached, Owed
<1>2. CASE d = c
  <2>1. wire[c] = <<>> /\ queue[c] = <<>> /\ writer[c].inFlight = <<>>
    BY <1>0 DEF StreamOK, Early
  <2>2. writer'[c].inFlight = <<>>
    BY <1>0, <2>1 DEF Writer
  <2>3. pc'[c] \in {"ack", "closing"}
    BY <1>0 DEF Register
  <2>4. SUFFICES ASSUME Attached(c)'
                 PROVE  /\ hello'[c].start <= total
                        /\ \A i \in 0 .. MaxOutput :
                             Held(c, i)' + Owed(c, i)' =
                               IF hello'[c].start <= i /\ i < total THEN 1 ELSE 0
    BY <1>0, <1>2, <2>1, <2>2, <2>3 DEF StreamOK, Early
  <2>5. pc'[c] = "ack" /\ hello[c].cursor <= total
    <3>1. pc'[c] = "ack"
      BY <2>3, <2>4 DEF Attached
    <3>2. ~(hello[c].cursor > total)
      BY <1>0, <3>1 DEF Register
    <3>3. hello[c].cursor \in Nat /\ total \in Nat
      BY <1>0, HostAssumption DEF Hello, TypeInv, TypeOK
    <3> QED BY <3>1, <3>2, <3>3
  <2>6. /\ hello'[c].start = ReplayFrom(hello[c].cursor) /\ hello'[c].from = ReplayFrom(hello[c].cursor)
        /\ hello'[c].to = total
    <3>1. ~(hello[c].cursor > total)
      BY <1>0, <2>5 DEF Register
    <3>2. hello' = [hello EXCEPT ![c].start = ReplayFrom(hello[c].cursor),
                                 ![c].from = ReplayFrom(hello[c].cursor),
                                 ![c].to = total, ![c].exited = exited]
      BY <3>1 DEF Register
    <3> QED BY <1>0, <3>2 DEF Hello
  <2>7. hello[c].cursor \in Cursor
    BY <1>0 DEF Hello
  <2>8. ReplayFrom(hello[c].cursor) \in 0 .. total
    BY <2>5, <2>7, ReplayFromType DEF TypeInv
  <2>9. ASSUME NEW i \in 0 .. MaxOutput PROVE Held(c, i)' = 0
    BY <1>0, <2>1, <2>2, CopiesEmpty DEF Held
  <2>10. ASSUME NEW i \in 0 .. MaxOutput
         PROVE  Owed(c, i)' = IF hello'[c].start <= i /\ i < total THEN 1 ELSE 0
    BY <2>5, <2>6 DEF Owed
  <2>11. total \in Nat
    BY HostAssumption DEF TypeInv, TypeOK
  <2> QED BY <2>6, <2>8, <2>9, <2>10, <2>11
<1> QED BY <1>1, <1>2

\* A replay frame carries the positions the replay advances by.
LEMMA WriteReplayStream ==
    ASSUME TypeInv, StreamInv, NEW c \in Client, WriteReplay(c)
    PROVE  StreamInv'
<1> SUFFICES ASSUME NEW d \in Client PROVE StreamOK(d)'
  BY DEF StreamInv
<1>0. /\ StreamOK(d) /\ StreamOK(c) /\ pc \in [Client -> HandlerState \cup {"none"}]
      /\ hello \in [Client -> Hello] /\ wire \in [Client -> Seq(Frame)]
      /\ UNCHANGED <<up, total, registered, conn, writer, queue>> /\ pc[c] = "replay" /\ up
  BY DEF StreamInv, TypeInv, TypeOK, WriteReplay
<1>1. CASE d # c
  <2>1. hello'[d] = hello[d] /\ pc'[d] = pc[d] /\ wire'[d] = wire[d]
    BY <1>0, <1>1 DEF WriteReplay, HandlerWrite
  <2> QED BY <1>0, <1>1, <2>1, StreamKept DEF Attached, Owed
<1>2. /\ hello[c].start \in Nat /\ hello[c].from \in Nat /\ hello[c].to \in Nat /\ total \in Nat
      /\ hello[c].from <= hello[c].to /\ MaxChunk \in Nat /\ MaxChunk > 0
      /\ wire[c] \in Seq(Frame)
  BY <1>0, ClientType, HostAssumption
<1>3. CASE hello' = hello /\ wire' = wire
  <2>1. pc'[c] \in {"exit", "closing"} /\ (pc'[c] = "exit" => hello[c].to - hello[c].from = 0)
    <3> DEFINE rest == hello[c].to - hello[c].from
               n == IF rest > MaxChunk THEN MaxChunk ELSE rest
    <3>1. ASSUME rest # 0, conn[c] = "open" PROVE FALSE
      <4>1. hello' = [hello EXCEPT ![c].from = @ + n]
        BY <1>0, <3>1 DEF WriteReplay
      <4>2. hello'[c].from = hello[c].from + n
        BY <1>0, <4>1 DEF Hello
      <4>3. n > 0 /\ n \in Nat
        BY <1>2, <3>1
      <4> HIDE DEF n
      <4> QED BY <1>2, <1>3, <4>2, <4>3
    <3> QED BY <1>0, <3>1 DEF WriteReplay
  <2>2. Attached(c)' => Attached(c) /\ \A i \in 0 .. MaxOutput : Owed(c, i)' = Owed(c, i)
    BY <1>0, <1>2, <1>3, <2>1 DEF Attached, Owed
  <2> QED BY <1>0, <1>1, <1>3, <2>1, <2>2, StreamKept DEF Early
<1>4. CASE ~(hello' = hello /\ wire' = wire)
  <2> DEFINE rest == hello[c].to - hello[c].from
             n == IF rest > MaxChunk THEN MaxChunk ELSE rest
             b == hello[c].from + n
  <2>1. /\ conn[c] = "open" /\ HandlerWrite(c, Output(hello[c].from, b)) /\ pc' = pc
        /\ hello' = [hello EXCEPT ![c].from = @ + n]
    BY <1>4 DEF WriteReplay
  <2>2. n \in Nat /\ b \in Nat /\ b <= hello[c].to /\ hello[c].from <= b
    BY <1>2
  <2> HIDE DEF n
  <2>3. /\ hello'[c].from = b /\ hello'[c].to = hello[c].to /\ hello'[c].start = hello[c].start
    BY <1>0, <2>1 DEF Hello
  <2>4. wire'[c] = Append(wire[c], Output(hello[c].from, b))
    BY <1>0, <2>1 DEF HandlerWrite
  <2>5. Output(hello[c].from, b) \in Frame
    <3>1. hello[c].to \in 0 .. MaxOutput /\ MaxOutput \in Nat
      BY <1>0, HostAssumption DEF Hello
    <3>2. hello[c].from \in 0 .. MaxOutput /\ b \in 0 .. MaxOutput
      BY <1>2, <2>2, <3>1
    <3> HIDE DEF b
    <3> QED BY <3>2, FrameType
  <2> HIDE DEF b
  <2>6. Attached(c)' => Attached(c)
    BY <1>0, <2>1 DEF Attached
  <2>7. ASSUME NEW i \in 0 .. MaxOutput PROVE Held(c, i)' + Owed(c, i)' = Held(c, i) + Owed(c, i)
    <3>1. Covers(Output(hello[c].from, b), i) <=> hello[c].from <= i /\ i < b
      BY DEF Covers, Output
    <3>2. Copies(wire'[c], i) = Copies(wire[c], i)
                                  + (IF Covers(Output(hello[c].from, b), i) THEN 1 ELSE 0)
      BY <1>2, <2>4, <2>5, CopiesAppend
    <3>3. /\ Copies(queue[c], i) \in Nat /\ Copies(wire[c], i) \in Nat
          /\ Copies(writer[c].inFlight, i) \in Nat
      BY ClientType, CarriersFinite
    <3>4. Held(c, i)' = Held(c, i) + (IF hello[c].from <= i /\ i < b THEN 1 ELSE 0)
          /\ Held(c, i) \in Nat
      <4>1. Copies(wire'[c], i) = Copies(wire[c], i) + (IF hello[c].from <= i /\ i < b THEN 1 ELSE 0)
        BY <3>1, <3>2
      <4>2. Held(c, i)' = Copies(wire'[c], i) + Copies(writer[c].inFlight, i) + Copies(queue[c], i)
        BY <1>0 DEF Held, Copies, Covers
      <4>3. PICK x \in Nat, y \in Nat, z \in Nat :
              x = Copies(wire[c], i) /\ y = Copies(writer[c].inFlight, i) /\ z = Copies(queue[c], i)
        BY <3>3
      <4>4. Held(c, i) = x + y + z
        BY <4>3 DEF Held
      <4> QED BY <4>1, <4>2, <4>3, <4>4
    <3>5. Owed(c, i) = (IF hello[c].from <= i /\ i < b THEN 1 ELSE 0)
                         + (IF b <= i /\ i < hello[c].to THEN 1 ELSE 0)
      BY <1>0, <1>2, <2>2, HostAssumption DEF Owed
    <3>6. Owed(c, i)' = IF b <= i /\ i < hello[c].to THEN 1 ELSE 0
      BY <1>0, <2>1, <2>3 DEF Owed
    <3> QED BY <3>4, <3>5, <3>6
  <2> QED BY <1>0, <1>1, <2>1, <2>3, <2>6, <2>7 DEF StreamOK, Early
<1> QED BY <1>3, <1>4

LEMMA HandlerStream ==
    ASSUME TypeInv, SlotInv, StreamInv, NEW c \in Client, HandlerStep(c)
    PROVE  StreamInv'
<1>0. /\ pc \in [Client -> HandlerState \cup {"none"}] /\ hello \in [Client -> Hello]
      /\ wire \in [Client -> Seq(Frame)] /\ queue \in [Client -> Seq(Frame)]
      /\ \A d \in Client : StreamOK(d)
      /\ MaxOutput \in Nat
  BY HostAssumption DEF TypeInv, TypeOK, StreamInv
<1>1. CASE CheckHello(c) \/ ClaimId(c) \/ RefuseRegister(c) \/ ReadEnd(c)
  <2>1. /\ UNCHANGED <<up, total, registered, conn, wire, queue, writer>>
        /\ \A d \in Client \ {c} : pc'[d] = pc[d] /\ hello'[d] = hello[d]
        /\ pc'[c] \in {"closing", "checked", "claimed"}
        /\ pc'[c] \in Early => pc[c] \in Early
    BY <1>0, <1>1 DEF CheckHello, ClaimId, RefuseRegister, ReadEnd, Early
  <2>2. ASSUME NEW d \in Client PROVE StreamOK(d)'
    BY <1>0, <2>1, StreamKept DEF Attached, Owed
  <2> QED BY <2>2 DEF StreamInv
<1>2. CASE Register(c)
  BY <1>2, RegisterStream
<1>3. CASE WriteAck(c)
  <2>1. Ack(hello[c].from, hello[c].to) \in Frame /\ Ack(hello[c].from, hello[c].to).kind # "output"
    BY <1>0, FrameType DEF Hello, Ack
  <2>2. /\ HandlerWrite(c, Ack(hello[c].from, hello[c].to)) /\ pc' = [pc EXCEPT ![c] = "replay"]
        /\ pc[c] = "ack" /\ up
        /\ UNCHANGED <<up, total, exited, registered, controller, seenHello, conn, hello, writer, queue>>
    BY <1>3 DEF WriteAck
  <2>3. /\ Attached(c)' => Attached(c)
        /\ \A i \in 0 .. MaxOutput : Owed(c, i)' = Owed(c, i)
    BY <1>0, <2>2 DEF Attached, Owed
  <2>4. "replay" \in HandlerState \ Early /\ pc[c] \notin Early
    BY <2>2 DEF HandlerState, Early
  <2> QED BY <2>1, <2>2, <2>3, <2>4, PlainFrameStream
<1>4. CASE WriteReplay(c)
  BY <1>4, WriteReplayStream
<1>5. CASE WriteExit(c)
  <2>1. Exit \in Frame /\ Exit.kind # "output"
    <3>1. 0 \in 0 .. MaxOutput
      BY <1>0
    <3> QED BY <3>1, FrameType DEF Exit
  <2>2. /\ HandlerWrite(c, Exit) \/ UNCHANGED wire
        /\ pc' = [pc EXCEPT ![c] = "serving"] /\ pc[c] = "exit" /\ up
        /\ UNCHANGED <<up, total, exited, registered, controller, seenHello, conn, hello, writer, queue>>
    BY <1>5 DEF WriteExit
  <2>3. /\ Attached(c)' => Attached(c)
        /\ \A i \in 0 .. MaxOutput : Owed(c, i)' = Owed(c, i)
    BY <1>0, <2>2 DEF Attached, Owed
  <2>4. "serving" \in HandlerState \ Early /\ pc[c] \notin Early
    BY <2>2 DEF HandlerState, Early
  <2> QED BY <2>1, <2>2, <2>3, <2>4, PlainFrameStream
<1>6. CASE WriteRenewAck(c) \/ WriteInput(c)
  <2>1. Ack(hello[c].from, hello[c].to) \in Frame /\ Ack(hello[c].from, hello[c].to).kind # "output"
    BY <1>0, FrameType DEF Hello, Ack
  <2>2. /\ HandlerWrite(c, Ack(hello[c].from, hello[c].to)) \/ UNCHANGED wire
        /\ pc' = [pc EXCEPT ![c] = "serving"] /\ pc[c] \in {"renewing", "input"} /\ up
        /\ UNCHANGED <<up, total, exited, registered, controller, seenHello, conn, hello, writer, queue>>
    BY <1>6 DEF WriteRenewAck, WriteInput
  <2>3. /\ Attached(c)' => Attached(c)
        /\ \A i \in 0 .. MaxOutput : Owed(c, i)' = Owed(c, i)
    BY <1>0, <2>2 DEF Attached, Owed
  <2>4. "serving" \in HandlerState \ Early /\ pc[c] \notin Early
    BY <2>2 DEF HandlerState, Early
  <2> QED BY <2>1, <2>2, <2>3, <2>4, PlainFrameStream
<1>7. CASE Cleanup(c)
  <2>1. /\ UNCHANGED <<up, total, hello, writer>>
        /\ pc'[c] = "done"
        /\ \A d \in Client \ {c} : pc'[d] = pc[d] /\ wire'[d] = wire[d] /\ queue'[d] = queue[d]
                                   /\ conn'[d] = conn[d] /\ (d \in registered' => d \in registered)
    BY <1>0, <1>7 DEF Cleanup, Forget
  <2>2. ASSUME NEW d \in Client, d # c PROVE StreamOK(d)'
    BY <1>0, <2>1, <2>2, StreamKept DEF Attached, Owed
  <2>3. StreamOK(c)'
    BY <1>0, <2>1 DEF StreamOK, Attached, Early
  <2> QED BY <2>2, <2>3 DEF StreamInv
<1> QED BY <1>1, <1>2, <1>3, <1>4, <1>5, <1>6, <1>7 DEF HandlerStep

LEMMA WriterStream ==
    ASSUME TypeInv, SlotInv, StreamInv, NEW c \in Client, WriterStep(c)
    PROVE  StreamInv'
<1>0. /\ wire \in [Client -> Seq(Frame)] /\ queue \in [Client -> Seq(Frame)]
      /\ writer \in [Client -> Writer]
      /\ (\A d \in Client : StreamOK(d)) /\ StreamOK(c)
      /\ UNCHANGED <<up, total, hello, pc, conn>> /\ registered' \subseteq registered
  BY DEF TypeInv, TypeOK, StreamInv, WriterStep, WriterWake, WriterTake, WriterWrite, WriterFail
<1>1. \A d \in Client \ {c} : wire'[d] = wire[d] /\ queue'[d] = queue[d] /\ writer'[d] = writer[d]
  BY <1>0 DEF WriterStep, WriterWake, WriterTake, WriterWrite, WriterFail, Forget
<1>2. ASSUME NEW d \in Client, d # c PROVE StreamOK(d)'
  BY <1>0, <1>1, <1>2, StreamKept DEF Attached, Owed
<1>3. CASE WriterWake(c)
  <2>1. writer[c].inFlight = <<>>
    BY <1>0, <1>3 DEF WriterWake, StreamOK
  <2>2. writer'[c].inFlight = writer[c].inFlight /\ UNCHANGED <<wire, queue>>
    BY <1>0, <1>3 DEF WriterWake, Writer
  <2>3. StreamOK(c)'
    BY <1>0, <2>1, <2>2, StreamKept DEF Attached, Owed
  <2> QED BY <1>2, <2>3 DEF StreamInv
<1>4. CASE WriterTake(c)
  <2>1. writer[c].inFlight = <<>> /\ UNCHANGED wire
    BY <1>0, <1>4 DEF WriterTake, StreamOK
  <2>2. CASE c \in registered /\ queue[c] # <<>>
    <3>1. writer'[c].at = "write" /\ writer'[c].inFlight = queue[c] /\ queue'[c] = <<>>
      BY <1>0, <1>4, <2>2 DEF WriterTake, Writer
    <3>2. pc[c] \notin Early
      BY <2>2 DEF SlotInv
    <3>3. ASSUME NEW i \in 0 .. MaxOutput PROVE Held(c, i)' = Held(c, i)
      <4>1. Copies(<<>>, i) = 0 /\ Copies(queue[c], i) \in Nat /\ Copies(wire[c], i) \in Nat
        BY <1>0, CopiesEmpty, CarriersFinite
      <4>2. Held(c, i)' = Copies(wire[c], i) + Copies(queue[c], i) + 0
        BY <2>1, <3>1, <4>1 DEF Held
      <4>3. Held(c, i) = Copies(wire[c], i) + 0 + Copies(queue[c], i)
        BY <2>1, <4>1 DEF Held
      <4> QED BY <4>1, <4>2, <4>3
    <3>4. \A i \in 0 .. MaxOutput : Owed(c, i)' = Owed(c, i)
      BY <1>0 DEF Owed
    <3>5. Attached(c)' => Attached(c)
      BY <1>0 DEF Attached
    <3>6. StreamOK(c)'
      BY <1>0, <3>1, <3>2, <3>3, <3>4, <3>5 DEF StreamOK
    <3> QED BY <1>2, <3>6 DEF StreamInv
  <2>3. CASE ~(c \in registered /\ queue[c] # <<>>)
    <3>1. writer'[c].inFlight = writer[c].inFlight /\ UNCHANGED queue
      BY <1>0, <1>4, <2>3 DEF WriterTake, Writer
    <3>2. StreamOK(c)'
      BY <1>0, <2>1, <3>1, StreamKept DEF Attached, Owed
    <3> QED BY <1>2, <3>2 DEF StreamInv
  <2> QED BY <2>2, <2>3
<1>5. CASE WriterWrite(c)
  <2>1. /\ wire'[c] = wire[c] \o writer[c].inFlight /\ writer'[c].inFlight = <<>>
        /\ writer'[c].at = "drain" /\ UNCHANGED queue
    BY <1>0, <1>5 DEF WriterWrite, Writer
  <2>2. pc'[c] \in Early => wire'[c] = <<>> /\ queue'[c] = <<>> /\ writer'[c].inFlight = <<>>
    BY <1>0, <2>1 DEF StreamOK
  <2>3. ASSUME NEW i \in 0 .. MaxOutput PROVE Held(c, i)' = Held(c, i)
    <3>1. /\ Copies(<<>>, i) = 0 /\ Copies(queue[c], i) \in Nat
          /\ Copies(wire[c], i) \in Nat /\ Copies(writer[c].inFlight, i) \in Nat
      BY CopiesEmpty, CarriersFinite, ClientType
    <3>2. Copies(wire'[c], i) = Copies(wire[c], i) + Copies(writer[c].inFlight, i)
      BY <2>1, CopiesConcat, ClientType
    <3>3. Held(c, i)' = Copies(wire[c], i) + Copies(writer[c].inFlight, i) + 0 + Copies(queue[c], i)
      BY <2>1, <3>1, <3>2 DEF Held
    <3>4. Held(c, i) = Copies(wire[c], i) + Copies(writer[c].inFlight, i) + Copies(queue[c], i)
      BY DEF Held
    <3> QED BY <3>1, <3>3, <3>4
  <2>4. \A i \in 0 .. MaxOutput : Owed(c, i)' = Owed(c, i)
    BY <1>0 DEF Owed
  <2>5. Attached(c)' => Attached(c)
    BY <1>0 DEF Attached
  <2>6. StreamOK(c)'
    BY <1>0, <2>1, <2>2, <2>3, <2>4, <2>5 DEF StreamOK
  <2> QED BY <1>2, <2>6 DEF StreamInv
<1>6. CASE WriterFail(c)
  <2>1. writer'[c].inFlight = <<>> /\ c \notin registered' /\ queue'[c] = <<>> /\ UNCHANGED wire
    BY <1>0, <1>6 DEF WriterFail, Writer, Forget
  <2>2. StreamOK(c)'
    BY <1>0, <2>1 DEF StreamOK, Attached
  <2> QED BY <1>2, <2>2 DEF StreamInv
<1> QED BY <1>3, <1>4, <1>5, <1>6 DEF WriterStep

LEMMA NextStream == TypeInv /\ TypeInv' /\ SlotInv /\ StreamInv /\ [Next]_vars => StreamInv'
<1> SUFFICES ASSUME TypeInv, TypeInv', SlotInv, StreamInv, [Next]_vars PROVE StreamInv'
  OBVIOUS
<1>0. /\ pc \in [Client -> HandlerState \cup {"none"}] /\ hello \in [Client -> Hello]
      /\ wire \in [Client -> Seq(Frame)] /\ conn \in [Client -> {"none", "open", "closed"}]
      /\ \A d \in Client : StreamOK(d)
      /\ MaxOutput \in Nat /\ total \in 0 .. MaxOutput /\ total \in Nat
  BY HostAssumption, SMTT(30) DEF TypeInv, TypeOK, StreamInv
<1>1. ASSUME NEW n \in 1 .. MaxChunk, PtyRead(n) PROVE StreamInv'
  <2>1. total + n \in 0 .. MaxOutput /\ total' = total + n /\ total <= total'
    BY <1>0, <1>1, HostAssumption DEF PtyRead
  <2>2. Output(total, total + n) \in Frame
    BY <1>0, <2>1, FrameType
  <2>3. \A i \in 0 .. MaxOutput : Covers(Output(total, total + n), i) <=> total <= i /\ i < total'
    BY <2>1 DEF Covers, Output
  <2> QED BY <1>1, <2>1, <2>2, <2>3, EnqueueAllStream DEF PtyRead
<1>2. CASE PtyExit
  <2>1. Exit \in Frame
    BY <1>0, FrameType
  <2>2. \A i \in 0 .. MaxOutput : Covers(Exit, i) <=> total <= i /\ i < total'
    BY <1>0, <1>2 DEF Covers, Exit, PtyExit
  <2>3. total <= total'
    BY <1>0, <1>2 DEF PtyExit
  <2> QED BY <1>2, <2>1, <2>2, <2>3, EnqueueAllStream DEF PtyExit
<1>3. CASE Shutdown
  <2>1. ASSUME NEW d \in Client PROVE StreamOK(d)'
    BY <1>0, <1>3 DEF Shutdown, Forget, StreamOK, Attached
  <2> QED BY <2>1 DEF StreamInv
<1>4. ASSUME NEW c \in Client, NEW m \in Mode, NEW id \in Credential,
             NEW cur \in Cursor, Accept(c, m, id, cur)
      PROVE  StreamInv'
  <2>1. /\ UNCHANGED <<up, total, registered, writer, queue, wire>>
        /\ pc[c] = "none" /\ pc'[c] = "accepted"
        /\ \A d \in Client \ {c} : /\ hello'[d] = hello[d] /\ pc'[d] = pc[d]
                                   /\ conn'[d] = conn[d]
    BY <1>0, <1>4 DEF Accept, SlotInv
  <2>2. ASSUME NEW d \in Client PROVE StreamOK(d)'
    BY <1>0, <2>1, StreamKept DEF Attached, Owed, Early
  <2> QED BY <2>2 DEF StreamInv
<1>5. ASSUME NEW c \in Client, NEW m \in Mode, NEW id \in Credential,
             Renew(c, m, id)
      PROVE  StreamInv'
  <2>1. /\ UNCHANGED <<up, total, registered, conn, writer, queue, wire>>
        /\ pc[c] = "serving" /\ pc'[c] \in {"closing", "renewing"} /\ up /\ c \in registered
        /\ hello'[c].start = hello[c].start
        /\ \A d \in Client \ {c} : hello'[d] = hello[d] /\ pc'[d] = pc[d]
    BY <1>0, <1>5 DEF Renew, Hello
  <2>2. ASSUME NEW d \in Client PROVE StreamOK(d)'
    BY <1>0, <2>1, StreamKept DEF Attached, Owed, Early
  <2> QED BY <2>2 DEF StreamInv
<1>6. ASSUME NEW c \in Client, CheckInput(c) PROVE StreamInv'
  <2>1. /\ UNCHANGED <<up, total, registered, conn, hello, writer, queue, wire>>
        /\ pc[c] = "serving" /\ pc'[c] \in {"closing", "input"} /\ up
        /\ \A d \in Client \ {c} : pc'[d] = pc[d]
    BY <1>0, <1>6 DEF CheckInput
  <2>2. ASSUME NEW d \in Client PROVE StreamOK(d)'
    BY <1>0, <2>1, StreamKept DEF Attached, Owed, Early
  <2> QED BY <2>2 DEF StreamInv
<1>7. ASSUME NEW c \in Client, PeerClose(c) PROVE StreamInv'
  <2>1. /\ UNCHANGED <<up, total, registered, pc, hello, writer, queue>>
        /\ conn'[c] = "closed" /\ wire'[c] = <<>>
        /\ \A d \in Client \ {c} : conn'[d] = conn[d] /\ wire'[d] = wire[d]
    BY <1>0, <1>7 DEF PeerClose
  <2>2. ASSUME NEW d \in Client, d # c PROVE StreamOK(d)'
    BY <1>0, <2>1, <2>2, StreamKept DEF Attached, Owed
  <2>3. StreamOK(c)'
    BY <1>0, <2>1 DEF StreamOK, Attached
  <2> QED BY <2>2, <2>3 DEF StreamInv
<1>8. CASE UNCHANGED vars
  <2>1. ASSUME NEW d \in Client PROVE StreamOK(d)'
    BY <1>0, <1>8, StreamKept DEF vars, Attached, Owed
  <2> QED BY <2>1 DEF StreamInv
<1> QED BY <1>1, <1>2, <1>3, <1>4, <1>5, <1>6, <1>7, <1>8, HandlerStream,
           WriterStream DEF Next

\* Every byte from the start of a client's replay to the head of the ring is
\* for an attached client in exactly one place: the snapshot of the replay and
\* the registration under one lock leave no gap and no overlap, however the
\* handler, the writer and the PTY reader interleave (main.go, HELLO,
\* enqueueAllLocked and clientWriter).
THEOREM StreamIsExact == Spec => []NoLossNoDuplicate
<1>1. StreamInv => NoLossNoDuplicate
  BY DEF StreamInv, StreamOK, NoLossNoDuplicate, Held, Owed
<1>2. TypeInv /\ SlotInv /\ StreamInv /\ [Next]_vars => (TypeInv /\ SlotInv /\ StreamInv)'
  BY NextType, NextSlot, NextStream
<1>3. Init => TypeInv /\ SlotInv /\ StreamInv
  BY InitType, InitSlot, InitStream
<1> QED BY <1>1, <1>2, <1>3, PTL DEF Spec

=============================================================================
