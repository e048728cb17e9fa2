------------------------- MODULE HostDeliveryProofs -------------------------
(***************************************************************************)
(* Proofs about the delivery of messages into a runtime, for any number of *)
(* messages, calls, connections and frames: the frames of a message reach  *)
(* the PTY once and in order, "written" is said of complete messages only, *)
(* and answers match requests on a connection where nothing timed out.     *)
(***************************************************************************)
EXTENDS HostDelivery, FiniteSetTheorems, SequenceTheorems, TLAPS

\* The number of frames of m on the PTY out.
Placed(out, m) == Cardinality(PlacesOf(out, m, Len(out)))

\* A message is written by one handler at most, which knows how far it is; a
\* message the table does not hold was not begun.
WritesOK ==
    /\ \A k \in Conn : handler[k].at = "write" =>
           /\ delivered[handler[k].msg] = "inProgress"
           /\ handler[k].frame = Placed(pty, handler[k].msg)
    /\ \A j, k \in Conn :
           handler[j].at = "write" /\ handler[k].at = "write" /\ handler[j].msg = handler[k].msg
             => j = k
    /\ \A m \in Message : delivered[m] = "none" => Placed(pty, m) = 0

\* Who is pending was requested, on a connection that was opened.
LinesOK ==
    /\ client # NoConn => socket[client] = "open"
    /\ \A k \in Conn : socket[k] = "new" =>
           pending[k] = <<>> /\ toHost[k] = <<>> /\ toClient[k] = <<>> /\ handler[k].at = "idle"
    /\ \A k \in Conn : \A i \in 1 .. Len(pending[k]) :
           call[pending[k][i]].at \notin {"idle", "connecting"}
    /\ \A d \in Call : call[d].at = "waiting" => call[d].conn \in Conn

\* AnswersAligned place by place: the answers under way, the message that is
\* being written, and the requests under way.
Writing(k) == IF handler[k].at = "write" THEN 1 ELSE 0

Aligned(k) ==
    LET a == Len(toClient[k])
        b == Writing(k)
        c == Len(toHost[k])
    IN  /\ Len(pending[k]) = a + b + c
        /\ \A i \in 1 .. a : call[pending[k][i]].msg = toClient[k][i].msg
        /\ b = 1 => call[pending[k][a + 1]].msg = handler[k].msg
        /\ \A i \in 1 .. c : call[pending[k][a + b + i]].msg = toHost[k][i]

InOrder(k) == socket[k] = "open" /\ k \notin timedOut /\ handler[k].at # "gone"

AlignedOK == \A k \in Conn : InOrder(k) => Aligned(k)

\* The inductive invariant.
IInv == TypeOK /\ WritesOK /\ FramesOnceInOrder /\ WrittenIsComplete /\ LinesOK /\ AlignedOK

-----------------------------------------------------------------------------
(* Lists.                                                                  *)

LEMMA RemoveAtProperties ==
  ASSUME NEW S, NEW s \in Seq(S), NEW i \in 1 .. Len(s)
  PROVE  /\ RemoveAt(s, i) \in Seq(S) /\ Len(RemoveAt(s, i)) = Len(s) - 1
         /\ \A j \in 1 .. Len(s) - 1 : RemoveAt(s, i)[j] = IF j < i THEN s[j] ELSE s[j + 1]
<1> DEFINE a == SubSeq(s, 1, i - 1)
           b == SubSeq(s, i + 1, Len(s))
<1>1. a \in Seq(S) /\ Len(a) = i - 1 /\ \A j \in 1 .. i - 1 : a[j] = s[j]
  BY SubSeqProperties
<1>2. b \in Seq(S) /\ Len(b) = Len(s) - i /\ \A j \in 1 .. Len(s) - i : b[j] = s[i + j]
  BY SubSeqProperties
<1>3. RemoveAt(s, i) = a \o b
  BY DEF RemoveAt
<1> HIDE DEF a, b
<1>4. a \o b \in Seq(S) /\ Len(a \o b) = Len(a) + Len(b)
  BY <1>1, <1>2, ConcatProperties, Zenon
<1>5. \A j \in 1 .. Len(s) - 1 : (a \o b)[j] = IF j < i THEN s[j] ELSE s[j + 1]
  BY <1>1, <1>2
<1> QED BY <1>1, <1>2, <1>3, <1>4, <1>5

LEMMA TailProperties ==
  ASSUME NEW S, NEW s \in Seq(S), s # <<>>
  PROVE  /\ Head(s) \in S /\ Head(s) = s[1] /\ Len(s) \in Nat \ {0}
         /\ Tail(s) \in Seq(S) /\ Len(Tail(s)) = Len(s) - 1
         /\ \A j \in 1 .. Len(s) - 1 : Tail(s)[j] = s[j + 1]
OBVIOUS

\* The first request is removed.
LEMMA RemoveOldest ==
  ASSUME NEW S, NEW s \in Seq(S), s # <<>>
  PROVE  /\ RemoveAt(s, 1) \in Seq(S) /\ Len(RemoveAt(s, 1)) = Len(s) - 1
         /\ \A j \in 1 .. Len(s) - 1 : RemoveAt(s, 1)[j] = s[j + 1]
<1>1. Len(s) \in Nat \ {0}
  BY TailProperties, Zenon
<1>2. Len(s) >= 1 /\ 1 \in 1 .. Len(s)
  BY <1>1
<1>3. /\ RemoveAt(s, 1) \in Seq(S) /\ Len(RemoveAt(s, 1)) = Len(s) - 1
      /\ \A j \in 1 .. Len(s) - 1 : RemoveAt(s, 1)[j] = IF j < 1 THEN s[j] ELSE s[j + 1]
  BY <1>2, RemoveAtProperties, Zenon
<1>4. \A j \in 1 .. Len(s) - 1 : ~(j < 1)
  BY <1>1
<1> QED BY <1>1, <1>3, <1>4, Zenon

LEMMA AppendMember ==
  ASSUME NEW S, NEW s \in Seq(S), NEW d \in S, NEW i \in 1 .. Len(Append(s, d))
  PROVE  Append(s, d)[i] = d \/ (i \in 1 .. Len(s) /\ Append(s, d)[i] = s[i])
OBVIOUS

-----------------------------------------------------------------------------
(* The table of the host and the frames on the PTY.                        *)

LEMMA PlacedType ==
  ASSUME NEW out, NEW m, NEW n \in Nat
  PROVE  IsFiniteSet(PlacesOf(out, m, n)) /\ Cardinality(PlacesOf(out, m, n)) \in Nat
<1>1. IsFiniteSet(1 .. n)
  BY FS_Interval
<1> QED BY <1>1, FS_Subset, FS_CardinalityType DEF PlacesOf

\* One frame more on the PTY.
LEMMA PlacedAppend ==
  ASSUME NEW R, NEW out \in Seq(R), NEW r \in R
  PROVE  /\ \A m : Placed(Append(out, r), m) = Placed(out, m) + (IF m = r.msg THEN 1 ELSE 0)
         /\ \A m : \A n \in 1 .. Len(out) : PlacesOf(Append(out, r), m, n) = PlacesOf(out, m, n)
<1> DEFINE more == Append(out, r)
<1>1. /\ Len(out) \in Nat /\ Len(more) = Len(out) + 1 /\ more[Len(out) + 1] = r
      /\ \A i \in 1 .. Len(out) : more[i] = out[i]
  OBVIOUS
<1> HIDE DEF more
<1>2. ASSUME NEW m, NEW n \in 0 .. Len(out) PROVE PlacesOf(more, m, n) = PlacesOf(out, m, n)
  BY <1>1 DEF PlacesOf
<1>3. ASSUME NEW m PROVE Placed(more, m) = Placed(out, m) + (IF m = r.msg THEN 1 ELSE 0)
  <2> DEFINE P == PlacesOf(out, m, Len(out))
             Q == PlacesOf(more, m, Len(more))
  <2>1. IsFiniteSet(P) /\ Cardinality(P) \in Nat
    BY <1>1, PlacedType
  <2>2. Len(out) + 1 \notin P
    BY <1>1 DEF PlacesOf
  <2>3. Q = IF m = r.msg THEN P \cup {Len(out) + 1} ELSE P
    BY <1>1 DEF PlacesOf
  <2> HIDE DEF P, Q
  <2>4. Cardinality(Q) = Cardinality(P) + (IF m = r.msg THEN 1 ELSE 0)
    <3>1. CASE m = r.msg
      BY <2>1, <2>2, <2>3, <3>1, FS_AddElement
    <3>2. CASE m # r.msg
      BY <2>1, <2>3, <3>2
    <3> QED BY <3>1, <3>2
  <2> QED BY <2>4 DEF Placed, P, Q
<1> QED BY <1>1, <1>2, <1>3 DEF more

HostOK == WritesOK /\ FramesOnceInOrder /\ WrittenIsComplete

\* Steps of the service leave the table and the PTY alone.
LEMMA HostUnchanged ==
  ASSUME HostOK, UNCHANGED <<handler, delivered, pty>>
  PROVE  HostOK'
BY DEF HostOK, WritesOK, FramesOnceInOrder, WrittenIsComplete

\* A message is claimed by the handler of k, or answered as a duplicate.
LEMMA ClaimKeeps ==
  ASSUME TypeOK, HostOK, NEW k \in Conn, NEW m \in Message, handler[k].at = "idle",
         Claim(k, m), pty' = pty
  PROVE  HostOK'
<1>1. CASE delivered[m] = "none"
  <2>1. /\ \A n \in Message : delivered'[n] = IF n = m THEN "inProgress" ELSE delivered[n]
        /\ handler'[k].at = "write" /\ handler'[k].msg = m /\ handler'[k].frame = 0
        /\ \A j \in Conn \ {k} : handler'[j] = handler[j]
    BY <1>1 DEF Claim, TypeOK
  <2>2. \A n : Placed(pty', n) = Placed(pty, n)
    OBVIOUS
  <2>3. \A j \in Conn : handler[j].at = "write" => handler[j].msg # m /\ handler[j].msg \in Message
    BY <1>1 DEF HostOK, WritesOK, TypeOK
  <2>4. Placed(pty, m) = 0
    BY <1>1 DEF HostOK, WritesOK
  <2>5. WritesOK'
    <3>1. ASSUME NEW j \in Conn, handler'[j].at = "write"
          PROVE  delivered'[handler'[j].msg] = "inProgress" /\ handler'[j].frame = Placed(pty', handler'[j].msg)
      <4>1. CASE j = k
        BY <2>1, <2>2, <2>4, <4>1
      <4>2. CASE j # k
        BY <2>1, <2>2, <2>3, <3>1, <4>2 DEF HostOK, WritesOK
      <4> QED BY <4>1, <4>2
    <3>2. ASSUME NEW i \in Conn, NEW j \in Conn, handler'[i].at = "write", handler'[j].at = "write",
                 handler'[i].msg = handler'[j].msg
          PROVE  i = j
      BY <2>1, <2>3, <3>2 DEF HostOK, WritesOK
    <3>3. ASSUME NEW n \in Message, delivered'[n] = "none" PROVE Placed(pty', n) = 0
      BY <2>1, <2>2, <3>3 DEF HostOK, WritesOK
    <3> QED BY <3>1, <3>2, <3>3 DEF WritesOK
  <2>6. FramesOnceInOrder'
    BY DEF HostOK, FramesOnceInOrder
  <2>7. WrittenIsComplete'
    BY <2>1 DEF HostOK, WrittenIsComplete
  <2> QED BY <2>5, <2>6, <2>7 DEF HostOK
<1>2. CASE delivered[m] # "none"
  BY <1>2, HostUnchanged DEF Claim
<1> QED BY <1>1, <1>2

\* The next frame of a message reaches the PTY.
LEMMA WriteKeeps ==
  ASSUME TypeOK, HostOK, NEW k \in Conn, HostWrite(k)
  PROVE  HostOK' /\ pty' \in Seq([msg : Message, frame : 1 .. Frames])
<1> DEFINE m == handler[k].msg
           r == [msg |-> m, frame |-> handler[k].frame + 1]
<1>1. /\ handler[k].at = "write" /\ handler[k].frame < Frames /\ pty' = Append(pty, r)
      /\ handler' = [handler EXCEPT ![k].frame = handler[k].frame + 1] /\ delivered' = delivered
  BY DEF HostWrite, HasNextFrame, NextFrame
<1>2. /\ m \in Message /\ handler[k].frame \in Nat /\ r \in [msg : Message, frame : 1 .. Frames]
      /\ Len(pty) \in Nat
  BY <1>1, DeliveryAssumption DEF TypeOK
<1>3. /\ handler'[k].at = "write" /\ handler'[k].msg = m /\ handler'[k].frame = handler[k].frame + 1
      /\ \A j \in Conn \ {k} : handler'[j] = handler[j]
  BY <1>1 DEF TypeOK
<1>4. delivered[m] = "inProgress" /\ handler[k].frame = Placed(pty, m)
  BY <1>1 DEF HostOK, WritesOK
<1>5. /\ \A n : Placed(pty', n) = Placed(pty, n) + (IF n = m THEN 1 ELSE 0)
      /\ \A n : \A i \in 1 .. Len(pty) : PlacesOf(pty', n, i) = PlacesOf(pty, n, i)
  <2> HIDE DEF r
  <2>1. /\ \A n : Placed(pty', n) = Placed(pty, n) + (IF n = r.msg THEN 1 ELSE 0)
        /\ \A n : \A i \in 1 .. Len(pty) : PlacesOf(pty', n, i) = PlacesOf(pty, n, i)
    <3>1. pty \in Seq([msg : Message, frame : 1 .. Frames])
      BY DEF TypeOK
    <3>2. pty' = Append(pty, r) /\ r \in [msg : Message, frame : 1 .. Frames]
      BY <1>1, <1>2
    <3> QED BY <3>1, <3>2, PlacedAppend, Zenon
  <2>2. r.msg = m
    BY DEF r
  <2> QED BY <2>1, <2>2
<1>6. \A n : Placed(pty, n) \in Nat
  BY <1>2, PlacedType DEF Placed
<1>7. WritesOK'
  <2>1. ASSUME NEW j \in Conn, handler'[j].at = "write"
        PROVE  delivered'[handler'[j].msg] = "inProgress" /\ handler'[j].frame = Placed(pty', handler'[j].msg)
    <3>1. CASE j = k
      BY <1>1, <1>3, <1>4, <1>5, <3>1
    <3>2. CASE j # k
      <4>1. handler[j].msg # m /\ handler'[j] = handler[j] /\ handler[j].at = "write"
        BY <1>1, <1>3, <2>1, <3>2 DEF HostOK, WritesOK
      <4> QED BY <1>1, <1>5, <1>6, <4>1 DEF HostOK, WritesOK
    <3> QED BY <3>1, <3>2
  <2>2. ASSUME NEW i \in Conn, NEW j \in Conn, handler'[i].at = "write", handler'[j].at = "write",
               handler'[i].msg = handler'[j].msg
        PROVE  i = j
    BY <1>1, <1>3, <2>2 DEF HostOK, WritesOK
  <2>3. ASSUME NEW n \in Message, delivered'[n] = "none" PROVE Placed(pty', n) = 0
    BY <1>1, <1>4, <1>5, <2>3 DEF HostOK, WritesOK
  <2> QED BY <2>1, <2>2, <2>3 DEF WritesOK
<1>8. FramesOnceInOrder'
  <2>1. /\ Len(pty') = Len(pty) + 1 /\ pty'[Len(pty) + 1] = r
        /\ \A i \in 1 .. Len(pty) : pty'[i] = pty[i]
        /\ DOMAIN pty' = 1 .. Len(pty) + 1 /\ DOMAIN pty = 1 .. Len(pty)
    BY <1>1, <1>2 DEF TypeOK
  <2>2. ASSUME NEW i \in DOMAIN pty' PROVE pty'[i].frame = Cardinality(PlacesOf(pty', pty'[i].msg, i))
    <3>1. CASE i \in 1 .. Len(pty)
      BY <1>5, <2>1, <3>1 DEF HostOK, FramesOnceInOrder
    <3>2. CASE i = Len(pty) + 1
      <4>1. pty'[i].msg = m /\ pty'[i].frame = handler[k].frame + 1
        BY <2>1, <3>2
      <4>2. Cardinality(PlacesOf(pty', m, i)) = Placed(pty', m)
        BY <2>1, <3>2 DEF Placed
      <4> QED BY <1>4, <1>5, <4>1, <4>2
    <3> QED BY <2>1, <3>1, <3>2
  <2> QED BY <2>2 DEF FramesOnceInOrder
<1>9. WrittenIsComplete'
  <2>1. ASSUME NEW n \in Message, delivered'[n] = "written" PROVE Placed(pty', n) = Frames
    <3>1. n # m /\ Placed(pty, n) = Frames
      BY <1>1, <1>4, <2>1 DEF HostOK, WrittenIsComplete, Placed
    <3> QED BY <1>5, <1>6, <3>1
  <2> QED BY <2>1 DEF WrittenIsComplete, Placed
<1>10. pty' \in Seq([msg : Message, frame : 1 .. Frames])
  BY <1>1, <1>2, AppendProperties DEF TypeOK
<1> QED BY <1>7, <1>8, <1>9, <1>10 DEF HostOK

\* A message is recorded as written, or as uncertain.
LEMMA EndWriteKeeps ==
  ASSUME TypeOK, HostOK, NEW k \in Conn, handler[k].at = "write", NEW s \in {"written", "uncertain"},
         s = "written" => ~HasNextFrame(k), pty' = pty,
         delivered' = [delivered EXCEPT ![handler[k].msg] = s],
         NEW at \in {"idle", "gone"}, handler' = [handler EXCEPT ![k].at = at]
  PROVE  HostOK'
<1> DEFINE m == handler[k].msg
<1>1. /\ m \in Message /\ handler[k].frame \in 0 .. Frames /\ Len(pty) \in Nat
      /\ \A n \in Message : delivered'[n] = IF n = m THEN s ELSE delivered[n]
      /\ handler'[k].at = at /\ \A j \in Conn \ {k} : handler'[j] = handler[j]
  BY DEF TypeOK
<1>2. handler[k].frame = Placed(pty, m)
  BY DEF HostOK, WritesOK
<1>3. WritesOK'
  <2>1. ASSUME NEW j \in Conn, handler'[j].at = "write"
        PROVE  delivered'[handler'[j].msg] = "inProgress" /\ handler'[j].frame = Placed(pty', handler'[j].msg)
    <3>1. j # k /\ handler'[j] = handler[j] /\ handler[j].at = "write"
      BY <1>1, <2>1
    <3>2. handler[j].msg # m /\ handler[j].msg \in Message
      BY <3>1 DEF HostOK, WritesOK, TypeOK
    <3> QED BY <1>1, <3>1, <3>2 DEF HostOK, WritesOK
  <2>2. ASSUME NEW i \in Conn, NEW j \in Conn, handler'[i].at = "write", handler'[j].at = "write",
               handler'[i].msg = handler'[j].msg
        PROVE  i = j
    BY <1>1, <2>2 DEF HostOK, WritesOK
  <2>3. ASSUME NEW n \in Message, delivered'[n] = "none" PROVE Placed(pty', n) = 0
    BY <1>1, <2>3 DEF HostOK, WritesOK
  <2> QED BY <2>1, <2>2, <2>3 DEF WritesOK
<1>4. FramesOnceInOrder'
  BY DEF HostOK, FramesOnceInOrder
<1>5. WrittenIsComplete'
  <2>1. ASSUME NEW n \in Message, delivered'[n] = "written" PROVE Placed(pty', n) = Frames
    <3>1. CASE n = m
      BY <1>1, <1>2, <2>1, <3>1, DeliveryAssumption DEF HasNextFrame
    <3>2. CASE n # m
      BY <1>1, <2>1, <3>2 DEF HostOK, WrittenIsComplete, Placed
    <3> QED BY <3>1, <3>2
  <2> QED BY <2>1 DEF WrittenIsComplete, Placed
<1> QED BY <1>3, <1>4, <1>5 DEF HostOK

-----------------------------------------------------------------------------
(* Requests and answers.                                                   *)

\* A step that touches none of the lists of k, nor the messages of the requests
\* pending there.
LEMMA AlignedStays ==
  ASSUME TypeOK, NEW k \in Conn, Aligned(k),
         pending'[k] = pending[k], toClient'[k] = toClient[k], toHost'[k] = toHost[k],
         handler'[k].at = handler[k].at, handler'[k].msg = handler[k].msg,
         \A i \in 1 .. Len(pending[k]) : call'[pending[k][i]].msg = call[pending[k][i]].msg
  PROVE  Aligned(k)'
<1> DEFINE a == Len(toClient[k])
           b == Writing(k)
           c == Len(toHost[k])
<1>1. a \in Nat /\ b \in 0 .. 1 /\ c \in Nat /\ Writing(k)' = b
  BY DEF TypeOK, Writing
<1>2. /\ Len(pending[k]) = a + b + c
      /\ \A i \in 1 .. a : call[pending[k][i]].msg = toClient[k][i].msg
      /\ b = 1 => call[pending[k][a + 1]].msg = handler[k].msg
      /\ \A i \in 1 .. c : call[pending[k][a + b + i]].msg = toHost[k][i]
  BY DEF Aligned
<1>3. Len(toClient'[k]) = a /\ Len(toHost'[k]) = c
  OBVIOUS
<1> HIDE DEF a, b, c
<1>4. \A i \in 1 .. a : i \in 1 .. Len(pending[k])
  BY <1>1, <1>2
<1>5. \A i \in 1 .. c : a + b + i \in 1 .. Len(pending[k])
  BY <1>1, <1>2
<1>6. b = 1 => a + 1 \in 1 .. Len(pending[k])
  BY <1>1, <1>2
<1>7. /\ Len(pending'[k]) = a + b + c
      /\ \A i \in 1 .. a : call'[pending'[k][i]].msg = toClient'[k][i].msg
      /\ b = 1 => call'[pending'[k][a + 1]].msg = handler'[k].msg
      /\ \A i \in 1 .. c : call'[pending'[k][a + b + i]].msg = toHost'[k][i]
  BY <1>2, <1>4, <1>5, <1>6
<1> QED BY <1>1, <1>3, <1>7 DEF Aligned

\* A request is written on connection k.
LEMMA RequestAligned ==
  ASSUME TypeOK, LinesOK, NEW d \in Call, NEW m \in Message, NEW k \in Conn,
         call[d].at \in {"idle", "connecting"}, Request(d, m, k), UNCHANGED <<toClient, handler>>
  PROVE  /\ Aligned(k) => Aligned(k)'
         /\ \A j \in Conn \ {k} : Aligned(j) => Aligned(j)'
         /\ call' \in [Call -> CallRow] /\ pending' \in [Conn -> Seq(Call)]
         /\ toHost' \in [Conn -> Seq(Message)]
         /\ \A x \in Call : call'[x].at = IF x = d THEN "waiting" ELSE call[x].at
         /\ \A x \in Call : call'[x].conn = IF x = d THEN k ELSE call[x].conn
         /\ \A j \in Conn : pending'[j] = IF j = k THEN Append(pending[j], d) ELSE pending[j]
         /\ \A j \in Conn \ {k} : toHost'[j] = toHost[j]
         /\ \A j \in Conn : \A i \in 1 .. Len(pending'[j]) :
               call'[pending'[j][i]].at \notin {"idle", "connecting"}
<1>1. /\ call' = [call EXCEPT ![d] = [@ EXCEPT !.at = "waiting", !.msg = m, !.conn = k]]
      /\ pending' = [pending EXCEPT ![k] = Append(@, d)]
      /\ toHost' = [toHost EXCEPT ![k] = Append(@, m)]
  BY DEF Request
<1> DEFINE r == [call[d] EXCEPT !.at = "waiting", !.msg = m, !.conn = k]
<1>2. r \in CallRow /\ r.at = "waiting" /\ r.msg = m /\ r.conn = k
  <2>1. call[d] \in CallRow
    BY DEF TypeOK
  <2> QED BY <2>1, Zenon DEF CallRow
<1>3. call' = [call EXCEPT ![d] = r]
  BY <1>1
<1> HIDE DEF r
<1>4. /\ call' \in [Call -> CallRow] /\ call'[d] = r /\ \A x \in Call \ {d} : call'[x] = call[x]
  BY <1>2, <1>3 DEF TypeOK
<1>5. /\ pending' \in [Conn -> Seq(Call)] /\ toHost' \in [Conn -> Seq(Message)]
      /\ pending'[k] = Append(pending[k], d) /\ toHost'[k] = Append(toHost[k], m)
      /\ \A j \in Conn \ {k} : pending'[j] = pending[j] /\ toHost'[j] = toHost[j]
  BY <1>1, AppendProperties DEF TypeOK
<1>6. /\ pending[k] \in Seq(Call) /\ toHost[k] \in Seq(Message) /\ toClient[k] \in Seq(Answer)
      /\ Len(pending[k]) \in Nat /\ Len(toHost[k]) \in Nat /\ Len(toClient[k]) \in Nat
      /\ Writing(k) \in 0 .. 1 /\ Writing(k)' = Writing(k)
  BY DEF TypeOK, Writing
<1>7. ASSUME NEW j \in Conn, NEW i \in 1 .. Len(pending[j])
      PROVE  call'[pending[j][i]].msg = call[pending[j][i]].msg
  <2>1. pending[j][i] \in Call
    BY DEF TypeOK
  <2>2. pending[j][i] # d
    BY DEF LinesOK
  <2> QED BY <1>4, <2>1, <2>2
<1>8. ASSUME NEW j \in Conn \ {k}, Aligned(j) PROVE Aligned(j)'
  BY <1>5, <1>7, <1>8, AlignedStays
<1>9. ASSUME Aligned(k) PROVE Aligned(k)'
  <2> DEFINE a == Len(toClient[k])
             b == Writing(k)
             c == Len(toHost[k])
             p == Append(pending[k], d)
             h == Append(toHost[k], m)
  <2>1. /\ Len(pending[k]) = a + b + c
        /\ \A i \in 1 .. a : call[pending[k][i]].msg = toClient[k][i].msg
        /\ b = 1 => call[pending[k][a + 1]].msg = handler[k].msg
        /\ \A i \in 1 .. c : call[pending[k][a + b + i]].msg = toHost[k][i]
    BY <1>9 DEF Aligned
  <2>2. /\ Len(p) = Len(pending[k]) + 1 /\ p[Len(pending[k]) + 1] = d
        /\ \A i \in 1 .. Len(pending[k]) : p[i] = pending[k][i]
    BY <1>6
  <2>3. Len(h) = c + 1 /\ h[c + 1] = m /\ \A i \in 1 .. c : h[i] = toHost[k][i]
    BY <1>6
  <2>4. /\ a \in Nat /\ b \in 0 .. 1 /\ c \in Nat
        /\ pending'[k] = p /\ toHost'[k] = h /\ Writing(k)' = b /\ Len(toClient'[k]) = a
    BY <1>5, <1>6
  <2> HIDE DEF a, b, c, p, h
  <2>5. \A i \in 1 .. a + b + c : call'[p[i]].msg = call[pending[k][i]].msg
    BY <1>7, <2>1, <2>2
  <2>6. call'[p[a + b + c + 1]].msg = m
    BY <1>2, <1>4, <2>1, <2>2
  <2>7. \A i \in 1 .. a : call'[p[i]].msg = toClient'[k][i].msg
    <3>1. \A i \in 1 .. a : i \in 1 .. a + b + c
      BY <2>4
    <3> QED BY <2>1, <2>5, <3>1
  <2>8. b = 1 => call'[p[a + 1]].msg = handler'[k].msg
    <3>1. b = 1 => a + 1 \in 1 .. a + b + c
      BY <2>4
    <3> QED BY <2>1, <2>5, <3>1
  <2>9. ASSUME NEW i \in 1 .. c + 1 PROVE call'[p[a + b + i]].msg = h[i]
    <3>1. CASE i \in 1 .. c
      <4>1. a + b + i \in 1 .. a + b + c
        BY <2>4, <3>1
      <4> QED BY <2>1, <2>3, <2>5, <3>1, <4>1
    <3>2. CASE i = c + 1
      <4>1. a + b + i = a + b + c + 1
        BY <2>4, <3>2
      <4> QED BY <2>3, <2>6, <3>2, <4>1
    <3> QED BY <2>4, <3>1, <3>2
  <2>10. Len(p) = a + b + (c + 1)
    BY <2>1, <2>2, <2>4
  <2> QED BY <2>3, <2>4, <2>7, <2>8, <2>9, <2>10 DEF Aligned
<1>10. ASSUME NEW j \in Conn, NEW i \in 1 .. Len(pending'[j])
       PROVE  call'[pending'[j][i]].at \notin {"idle", "connecting"}
  <2>1. pending[j] \in Seq(Call) /\ pending'[j] \in Seq(Call)
    BY <1>5 DEF TypeOK
  <2>2. pending'[j][i] = d \/ (i \in 1 .. Len(pending[j]) /\ pending'[j][i] = pending[j][i])
    <3>1. CASE j = k
      BY <1>5, <2>1, <3>1, AppendMember
    <3>2. CASE j # k
      BY <1>5, <3>2
    <3> QED BY <3>1, <3>2
  <2>3. pending'[j][i] \in Call
    BY <2>1
  <2>4. CASE pending'[j][i] = d
    BY <1>2, <1>4, <2>4
  <2>5. CASE pending'[j][i] # d
    <3>1. call'[pending'[j][i]] = call[pending[j][i]] /\ i \in 1 .. Len(pending[j])
      BY <1>4, <2>2, <2>3, <2>5
    <3> QED BY <3>1 DEF LinesOK
  <2> QED BY <2>4, <2>5
<1> QED BY <1>2, <1>4, <1>5, <1>8, <1>9, <1>10

-----------------------------------------------------------------------------
(* The steps of the service.                                               *)

LEMMA DeliverKeeps ==
  ASSUME IInv, NEW d \in Call, NEW m \in Message, Deliver(d, m)
  PROVE  IInv'
<1>0. PICK k \in Conn : k = client
  BY DEF Deliver, IInv, TypeOK, LinesOK
<1>1. /\ call[d].at = "idle" /\ Request(d, m, k) /\ socket[k] = "open"
      /\ UNCHANGED <<client, socket, toClient, handler, delivered, pty, exited, timedOut>>
  BY <1>0 DEF Deliver, IInv, TypeOK, LinesOK
<1>2. /\ \A j \in Conn : Aligned(j) => Aligned(j)'
      /\ call' \in [Call -> CallRow] /\ pending' \in [Conn -> Seq(Call)]
      /\ toHost' \in [Conn -> Seq(Message)]
      /\ \A x \in Call : call'[x].at = IF x = d THEN "waiting" ELSE call[x].at
      /\ \A x \in Call : call'[x].conn = IF x = d THEN k ELSE call[x].conn
      /\ \A j \in Conn : pending'[j] = IF j = k THEN Append(pending[j], d) ELSE pending[j]
      /\ \A j \in Conn \ {k} : toHost'[j] = toHost[j]
      /\ \A j \in Conn : \A i \in 1 .. Len(pending'[j]) :
            call'[pending'[j][i]].at \notin {"idle", "connecting"}
  <2>1. TypeOK /\ LinesOK /\ call[d].at \in {"idle", "connecting"}
    BY <1>1 DEF IInv
  <2>2. /\ Aligned(k) => Aligned(k)'
        /\ \A j \in Conn \ {k} : Aligned(j) => Aligned(j)'
    BY <1>1, <2>1, RequestAligned
  <2>3. \A j \in Conn : Aligned(j) => Aligned(j)'
    BY <2>2
  <2> QED BY <1>1, <2>1, <2>3, RequestAligned
<1>3. TypeOK'
  BY <1>1, <1>2 DEF IInv, TypeOK
<1>4. HostOK'
  BY <1>1, HostUnchanged DEF IInv, HostOK
<1>5. LinesOK'
  <2>1. ASSUME NEW j \in Conn, NEW i \in 1 .. Len(pending'[j])
        PROVE  call'[pending'[j][i]].at \notin {"idle", "connecting"}
    BY <1>2
  <2>2. \A j \in Conn : socket'[j] = "new" => j # k /\ socket[j] = "new"
    BY <1>1
  <2>3. \A x \in Call : call'[x].at = "waiting" => call'[x].conn \in Conn
    BY <1>1, <1>2 DEF IInv, LinesOK
  <2> QED BY <1>1, <1>2, <2>1, <2>2, <2>3, ZenonT(60) DEF IInv, LinesOK
<1>6. AlignedOK'
  BY <1>1, <1>2 DEF IInv, AlignedOK, InOrder
<1> QED BY <1>3, <1>4, <1>5, <1>6 DEF IInv, HostOK

\* The calls of a step that changes no message but that of idle calls, and no
\* list.
LEMMA CallStepKeeps ==
  ASSUME IInv, call' \in [Call -> CallRow], NEW d \in Call,
         \A x \in Call \ {d} : call'[x] = call[x],
         call'[d].msg = call[d].msg \/ call[d].at = "idle",
         call'[d].at \in {"connecting", "failed"}, call'[d].at = "failed" \/ call[d].at = "idle",
         UNCHANGED <<client, socket, pending, toHost, toClient, handler, delivered, pty, exited, timedOut>>
  PROVE  IInv'
<1>1. TypeOK'
  BY DEF IInv, TypeOK
<1>2. HostOK'
  BY HostUnchanged DEF IInv, HostOK
<1>3. ASSUME NEW k \in Conn, NEW i \in 1 .. Len(pending[k])
      PROVE  /\ call'[pending[k][i]].msg = call[pending[k][i]].msg
             /\ call'[pending[k][i]].at \notin {"idle", "connecting"}
  <2>1. pending[k][i] \in Call /\ call[pending[k][i]].at \notin {"idle", "connecting"}
    BY DEF IInv, TypeOK, LinesOK
  <2> QED BY <2>1
<1>4. LinesOK'
  <2>1. \A x \in Call : call'[x].at = "waiting" => call'[x].conn \in Conn
    BY DEF IInv, LinesOK
  <2> QED BY <1>3, <2>1 DEF IInv, LinesOK
<1>5. ASSUME NEW k \in Conn, InOrder(k)' PROVE Aligned(k)'
  <2>1. Aligned(k)
    BY <1>5 DEF IInv, AlignedOK, InOrder
  <2> QED BY <1>3, <2>1, AlignedStays DEF IInv
<1> QED BY <1>1, <1>2, <1>4, <1>5 DEF IInv, HostOK, AlignedOK

LEMMA ConnectingKeeps ==
  ASSUME IInv, NEW d \in Call, NEW m \in Message, DeliverConnecting(d, m)
  PROVE  IInv'
<1>1. /\ call[d].at = "idle" /\ call' = [call EXCEPT ![d].at = "connecting", ![d].msg = m]
      /\ UNCHANGED <<client, socket, pending, toHost, toClient, handler, delivered, pty, exited, timedOut>>
  BY DEF DeliverConnecting
<1> DEFINE r == [call[d] EXCEPT !.at = "connecting", !.msg = m]
<1>2. call \in [Call -> CallRow] /\ call[d] \in CallRow
  BY DEF IInv, TypeOK
<1>3. r \in CallRow /\ r.at = "connecting"
  BY <1>2, Zenon DEF CallRow
<1>4. call' = [call EXCEPT ![d] = r]
  BY <1>1, <1>2
<1> HIDE DEF r
<1>5. call' \in [Call -> CallRow] /\ call'[d] = r /\ \A x \in Call \ {d} : call'[x] = call[x]
  BY <1>2, <1>3, <1>4
<1> QED BY <1>1, <1>3, <1>5, CallStepKeeps

LEMMA ConnectFailedKeeps ==
  ASSUME IInv, NEW d \in Call, ConnectFailed(d)
  PROVE  IInv'
<1>1. /\ call[d].at = "connecting" /\ call' = [call EXCEPT ![d].at = "failed"]
      /\ UNCHANGED <<client, socket, pending, toHost, toClient, handler, delivered, pty, exited, timedOut>>
  BY DEF ConnectFailed
<1> DEFINE r == [call[d] EXCEPT !.at = "failed"]
<1>2. call \in [Call -> CallRow] /\ call[d] \in CallRow
  BY DEF IInv, TypeOK
<1>3. r \in CallRow /\ r.at = "failed" /\ r.msg = call[d].msg
  BY <1>2, Zenon DEF CallRow
<1>4. call' = [call EXCEPT ![d] = r]
  BY <1>1, <1>2
<1> HIDE DEF r
<1>5. call' \in [Call -> CallRow] /\ call'[d] = r /\ \A x \in Call \ {d} : call'[x] = call[x]
  BY <1>2, <1>3, <1>4
<1> QED BY <1>1, <1>3, <1>5, CallStepKeeps

LEMMA ConnectedKeeps ==
  ASSUME IInv, NEW d \in Call, NEW k \in Conn, Connected(d, k)
  PROVE  IInv'
<1> DEFINE m == call[d].msg
<1>1. /\ call[d].at = "connecting" /\ socket[k] = "new" /\ client' = k /\ Request(d, m, k)
      /\ socket' = [j \in Conn |-> IF j = k THEN "open" ELSE IF socket[j] = "open" THEN "closed" ELSE socket[j]]
      /\ UNCHANGED <<toClient, handler, delivered, pty, exited, timedOut>>
  BY DEF Connected
<1>2. m \in Message
  BY DEF IInv, TypeOK, CallRow
<1> HIDE DEF m
<1>3. /\ Aligned(k) => Aligned(k)'
      /\ call' \in [Call -> CallRow] /\ pending' \in [Conn -> Seq(Call)]
      /\ toHost' \in [Conn -> Seq(Message)]
      /\ \A x \in Call : call'[x].at = IF x = d THEN "waiting" ELSE call[x].at
      /\ \A x \in Call : call'[x].conn = IF x = d THEN k ELSE call[x].conn
      /\ \A j \in Conn : pending'[j] = IF j = k THEN Append(pending[j], d) ELSE pending[j]
      /\ \A j \in Conn \ {k} : toHost'[j] = toHost[j]
      /\ \A j \in Conn : \A i \in 1 .. Len(pending'[j]) :
            call'[pending'[j][i]].at \notin {"idle", "connecting"}
  <2>1. TypeOK /\ LinesOK /\ call[d].at \in {"idle", "connecting"}
    BY <1>1 DEF IInv
  <2> QED BY <1>1, <1>2, <2>1, RequestAligned
<1>4. Aligned(k)
  <2>1. pending[k] = <<>> /\ toHost[k] = <<>> /\ toClient[k] = <<>> /\ handler[k].at = "idle"
    BY <1>1 DEF IInv, LinesOK
  <2>2. Len(pending[k]) = 0 /\ Len(toHost[k]) = 0 /\ Len(toClient[k]) = 0 /\ Writing(k) = 0
    BY <2>1 DEF Writing
  <2> QED BY <2>2 DEF Aligned
<1>5. TypeOK'
  BY <1>1, <1>3 DEF IInv, TypeOK
<1>6. HostOK'
  BY <1>1, HostUnchanged DEF IInv, HostOK
<1>7. LinesOK'
  <2>1. ASSUME NEW j \in Conn, NEW i \in 1 .. Len(pending'[j])
        PROVE  call'[pending'[j][i]].at \notin {"idle", "connecting"}
    BY <1>3
  <2>2. \A j \in Conn : socket'[j] = "new" => j # k /\ socket[j] = "new"
    BY <1>1
  <2>3. \A x \in Call : call'[x].at = "waiting" => call'[x].conn \in Conn
    BY <1>1, <1>3 DEF IInv, LinesOK
  <2> QED BY <1>1, <1>3, <2>1, <2>2, <2>3, ZenonT(60) DEF IInv, LinesOK
<1>8. AlignedOK'
  <2>1. \A j \in Conn : InOrder(j)' => j = k
    BY <1>1 DEF InOrder
  <2> QED BY <1>3, <1>4, <2>1 DEF AlignedOK
<1> QED BY <1>5, <1>6, <1>7, <1>8 DEF IInv, HostOK

\* The call d, which is pending at place p of k, ends; the requests after it move
\* up.  Common to an answer and to a timeout.
LEMMA EndCall ==
  ASSUME TypeOK, LinesOK, NEW k \in Conn, NEW p \in 1 .. Len(pending[k]),
         NEW d \in Call, pending[k][p] = d, NEW r \in CallRow,
         r.at \in {"accepted", "failed"}, r.msg = call[d].msg, call' = [call EXCEPT ![d] = r],
         pending' = [pending EXCEPT ![k] = RemoveAt(pending[k], p)],
         client' = client, socket' = socket, toHost' = toHost, handler' = handler,
         \A j \in Conn \ {k} : toClient'[j] = toClient[j], socket[k] # "new"
  PROVE  /\ LinesOK' /\ call' \in [Call -> CallRow] /\ pending' \in [Conn -> Seq(Call)]
         /\ \A x \in Call : call'[x].msg = call[x].msg
         /\ \A j \in Conn \ {k} : Aligned(j) => Aligned(j)'
<1>1. d \in Call /\ pending[k] \in Seq(Call) /\ call[d].at \notin {"idle", "connecting"}
  BY DEF TypeOK, LinesOK
<1>2. /\ RemoveAt(pending[k], p) \in Seq(Call) /\ Len(RemoveAt(pending[k], p)) = Len(pending[k]) - 1
      /\ \A j \in 1 .. Len(pending[k]) - 1 :
            RemoveAt(pending[k], p)[j] = IF j < p THEN pending[k][j] ELSE pending[k][j + 1]
  BY <1>1, RemoveAtProperties
<1>3. /\ pending' \in [Conn -> Seq(Call)] /\ pending'[k] = RemoveAt(pending[k], p)
      /\ \A j \in Conn \ {k} : pending'[j] = pending[j]
  BY <1>2 DEF TypeOK
<1>4. call' \in [Call -> CallRow] /\ call'[d] = r /\ \A x \in Call \ {d} : call'[x] = call[x]
  BY <1>1 DEF TypeOK
<1>5. \A x \in Call : call'[x].msg = call[x].msg
  BY <1>4
<1>6. ASSUME NEW j \in Conn, NEW i \in 1 .. Len(pending'[j])
      PROVE  call'[pending'[j][i]].at \notin {"idle", "connecting"}
  <2>1. \E n \in 1 .. Len(pending[j]) : pending'[j][i] = pending[j][n]
    <3>1. CASE j = k
      <4>1. Len(pending[k]) \in Nat /\ i \in 1 .. Len(pending[k]) - 1
        BY <1>1, <1>2, <1>3, <3>1, LenProperties
      <4>2. i \in 1 .. Len(pending[k]) /\ i + 1 \in 1 .. Len(pending[k])
        BY <4>1
      <4> QED BY <1>2, <1>3, <3>1, <4>1, <4>2
    <3>2. CASE j # k
      BY <1>3, <3>2
    <3> QED BY <3>1, <3>2
  <2>2. PICK n \in 1 .. Len(pending[j]) : pending'[j][i] = pending[j][n]
    BY <2>1
  <2>3. pending[j][n] \in Call /\ call[pending[j][n]].at \notin {"idle", "connecting"}
    BY DEF TypeOK, LinesOK
  <2>4. CASE pending[j][n] = d
    BY <1>4, <2>2, <2>4
  <2>5. CASE pending[j][n] # d
    BY <1>4, <2>2, <2>3, <2>5
  <2> QED BY <2>4, <2>5
<1>7. \A x \in Call : call'[x].at = "waiting" => call'[x].conn \in Conn
  BY <1>4 DEF LinesOK
<1>8. LinesOK'
  BY <1>3, <1>6, <1>7 DEF LinesOK
<1>9. ASSUME NEW j \in Conn \ {k}, Aligned(j) PROVE Aligned(j)'
  <2>1. \A i \in 1 .. Len(pending[j]) : pending[j][i] \in Call
    BY DEF TypeOK
  <2> QED BY <1>3, <1>5, <1>9, <2>1, AlignedStays
<1> QED BY <1>3, <1>4, <1>5, <1>8, <1>9

LEMMA TimeoutKeeps ==
  ASSUME IInv, NEW d \in Call, Timeout(d)
  PROVE  IInv'
<1> DEFINE k == call[d].conn
           r == [call[d] EXCEPT !.at = "failed"]
<1>1. /\ call[d].at = "waiting" /\ call' = [call EXCEPT ![d].at = "failed"]
      /\ timedOut' = timedOut \cup {k}
      /\ UNCHANGED <<client, socket, toHost, toClient, handler, delivered, pty, exited>>
  BY DEF Timeout
<1>2. k \in Conn /\ call \in [Call -> CallRow] /\ call[d] \in CallRow /\ pending[k] \in Seq(Call)
  BY <1>1 DEF IInv, TypeOK, LinesOK
<1>3. PICK p \in 1 .. Len(pending[k]) :
        pending[k][p] = d /\ pending' = [pending EXCEPT ![k] = RemoveAt(pending[k], p)]
  <2>1. DOMAIN pending[k] = 1 .. Len(pending[k])
    BY <1>2
  <2> QED BY <2>1 DEF Timeout
<1>4. r \in CallRow /\ r.at = "failed" /\ r.msg = call[d].msg
  BY <1>2, Zenon DEF CallRow
<1>5. call' = [call EXCEPT ![d] = r]
  BY <1>1, <1>2
<1>6. socket[k] # "new"
  BY <1>2, <1>3 DEF IInv, LinesOK
<1> HIDE DEF k, r
<1>7. /\ LinesOK' /\ call' \in [Call -> CallRow] /\ pending' \in [Conn -> Seq(Call)]
      /\ \A j \in Conn \ {k} : Aligned(j) => Aligned(j)'
  <2>1. TypeOK /\ LinesOK /\ r.at \in {"accepted", "failed"} /\ \A j \in Conn \ {k} : toClient'[j] = toClient[j]
    BY <1>1, <1>4 DEF IInv
  <2>2. client' = client /\ socket' = socket /\ toHost' = toHost /\ handler' = handler
    BY <1>1
  <2> QED BY <1>2, <1>3, <1>4, <1>5, <1>6, <2>1, <2>2, EndCall
<1>8. TypeOK'
  BY <1>1, <1>2, <1>7 DEF IInv, TypeOK
<1>9. HostOK'
  BY <1>1, HostUnchanged DEF IInv, HostOK
<1>10. AlignedOK'
  BY <1>1, <1>7 DEF IInv, AlignedOK, InOrder
<1> QED BY <1>7, <1>8, <1>9, <1>10 DEF IInv, HostOK

LEMMA DisconnectKeeps ==
  ASSUME IInv, NEW k \in Conn, Disconnect(k)
  PROVE  IInv'
<1>1. /\ socket[k] = "open" /\ socket' = [socket EXCEPT ![k] = "closed"]
      /\ client' = IF client = k THEN NoConn ELSE client
      /\ UNCHANGED <<call, pending, toHost, toClient, handler, delivered, pty, exited, timedOut>>
  BY DEF Disconnect
<1>2. TypeOK'
  BY <1>1 DEF IInv, TypeOK
<1>3. HostOK'
  BY <1>1, HostUnchanged DEF IInv, HostOK
<1>4. \A j \in Conn : socket'[j] = IF j = k THEN "closed" ELSE socket[j]
  BY <1>1 DEF IInv, TypeOK
<1>5. LinesOK'
  BY <1>1, <1>4 DEF IInv, LinesOK, TypeOK
<1>6. ASSUME NEW j \in Conn, InOrder(j)' PROVE Aligned(j)'
  <2>1. Aligned(j)
    BY <1>1, <1>4, <1>6 DEF IInv, AlignedOK, InOrder
  <2> QED BY <1>1, <2>1, AlignedStays DEF IInv
<1> QED BY <1>2, <1>3, <1>5, <1>6 DEF IInv, HostOK, AlignedOK

LEMMA ExitKeeps ==
  ASSUME IInv, ChildExit
  PROVE  IInv'
<1>1. /\ exited' = TRUE
      /\ UNCHANGED <<call, client, socket, pending, toHost, toClient, handler, delivered, pty, timedOut>>
  BY DEF ChildExit
<1>2. TypeOK'
  BY <1>1 DEF IInv, TypeOK
<1>3. HostOK'
  BY <1>1, HostUnchanged DEF IInv, HostOK
<1>4. LinesOK'
  BY <1>1 DEF IInv, LinesOK
<1>5. ASSUME NEW j \in Conn, InOrder(j)' PROVE Aligned(j)'
  <2>1. Aligned(j)
    BY <1>1, <1>5 DEF IInv, AlignedOK, InOrder
  <2> QED BY <1>1, <2>1, AlignedStays DEF IInv
<1> QED BY <1>2, <1>3, <1>4, <1>5 DEF IInv, HostOK, AlignedOK

\* The oldest request takes the oldest answer.
LEMMA ReceiveKeeps ==
  ASSUME IInv, NEW k \in Conn, Receive(k)
  PROVE  IInv'
<1>1. /\ socket[k] = "open" /\ toClient[k] # <<>> /\ toClient' = [toClient EXCEPT ![k] = Tail(@)]
      /\ UNCHANGED <<client, socket, toHost, handler, delivered, pty, exited, timedOut>>
  BY DEF Receive
<1>2. /\ toClient[k] \in Seq(Answer) /\ pending[k] \in Seq(Call) /\ toHost[k] \in Seq(Message)
      /\ call \in [Call -> CallRow] /\ toClient \in [Conn -> Seq(Answer)]
  BY DEF IInv, TypeOK
<1>3. /\ Head(toClient[k]) \in Answer /\ Head(toClient[k]) = toClient[k][1] /\ Len(toClient[k]) \in Nat \ {0}
      /\ Tail(toClient[k]) \in Seq(Answer) /\ Len(Tail(toClient[k])) = Len(toClient[k]) - 1
      /\ \A j \in 1 .. Len(toClient[k]) - 1 : Tail(toClient[k])[j] = toClient[k][j + 1]
  BY <1>1, <1>2, TailProperties
<1>4. /\ toClient' \in [Conn -> Seq(Answer)] /\ toClient'[k] = Tail(toClient[k])
      /\ \A j \in Conn \ {k} : toClient'[j] = toClient[j]
  BY <1>1, <1>2, <1>3
<1>5. HostOK'
  BY <1>1, HostUnchanged DEF IInv, HostOK
<1>6. CASE pending[k] = <<>>
  <2>1. call' = call /\ pending' = pending
    BY <1>6 DEF Receive
  <2>2. TypeOK' /\ LinesOK'
    BY <1>1, <1>4, <2>1 DEF IInv, TypeOK, LinesOK
  <2>3. ASSUME NEW j \in Conn, InOrder(j)' PROVE Aligned(j)'
    <3>1. InOrder(j)
      BY <1>1, <2>3 DEF InOrder
    <3>2. Aligned(j)
      BY <3>1 DEF IInv, AlignedOK
    <3>3. j # k
      <4>1. SUFFICES ASSUME j = k PROVE FALSE
        OBVIOUS
      <4>2. Len(pending[k]) = Len(toClient[k]) + Writing(k) + Len(toHost[k])
        BY <3>2, <4>1 DEF Aligned
      <4>3. Len(pending[k]) = 0 /\ Len(toHost[k]) \in Nat /\ Writing(k) \in Nat
        BY <1>2, <1>6 DEF Writing
      <4> QED BY <1>3, <4>2, <4>3
    <3> QED BY <1>1, <1>4, <2>1, <3>2, <3>3, AlignedStays DEF IInv
  <2> QED BY <1>5, <2>2, <2>3 DEF IInv, HostOK, AlignedOK
<1>7. CASE pending[k] # <<>>
  <2> DEFINE d == pending[k][1]
             o == Head(toClient[k])
             at == IF o.outcome = "error" THEN "failed" ELSE "accepted"
             r == [call[d] EXCEPT !.at = at, !.ackOf = o.msg]
             q == RemoveAt(pending[k], 1)
  <2>1. /\ call' = [call EXCEPT ![d].at = at, ![d].ackOf = o.msg]
        /\ pending' = [pending EXCEPT ![k] = RemoveAt(@, 1)]
    BY <1>7 DEF Receive, Answered
  <2>2. /\ Len(pending[k]) \in Nat \ {0} /\ 1 \in 1 .. Len(pending[k]) /\ d \in Call
        /\ q \in Seq(Call) /\ Len(q) = Len(pending[k]) - 1
        /\ \A j \in 1 .. Len(pending[k]) - 1 : q[j] = pending[k][j + 1]
    BY <1>2, <1>7, RemoveOldest, TailProperties
  <2>3. call[d] \in CallRow /\ o.msg \in Message /\ at \in {"accepted", "failed"}
    BY <1>2, <1>3, <2>2 DEF Answer
  <2> HIDE DEF at, o
  <2>4. r \in CallRow /\ r.at = at /\ r.msg = call[d].msg
    BY <2>3, Zenon DEF CallRow
  <2>5. call' = [call EXCEPT ![d] = r]
    BY <1>2, <2>1, <2>2
  <2> HIDE DEF r
  <2>6. /\ LinesOK' /\ call' \in [Call -> CallRow] /\ pending' \in [Conn -> Seq(Call)]
        /\ \A x \in Call : call'[x].msg = call[x].msg
        /\ \A j \in Conn \ {k} : Aligned(j) => Aligned(j)'
    <3>1. TypeOK /\ LinesOK /\ r.at \in {"accepted", "failed"} /\ socket[k] # "new"
      BY <1>1, <2>3, <2>4 DEF IInv
    <3>2. client' = client /\ socket' = socket /\ toHost' = toHost /\ handler' = handler
      BY <1>1
    <3>3. pending' = [pending EXCEPT ![k] = RemoveAt(pending[k], 1)]
      BY <2>1
    <3> QED BY <1>4, <2>2, <2>4, <2>5, <3>1, <3>2, <3>3, EndCall
  <2>7. TypeOK'
    BY <1>1, <1>4, <2>6 DEF IInv, TypeOK
  <2>8. ASSUME Aligned(k) PROVE Aligned(k)'
    <3> DEFINE a == Len(toClient[k])
               b == Writing(k)
               c == Len(toHost[k])
               n == Len(pending[k])
               t == Tail(toClient[k])
    <3>1. /\ n = a + b + c
          /\ \A i \in 1 .. a : call[pending[k][i]].msg = toClient[k][i].msg
          /\ b = 1 => call[pending[k][a + 1]].msg = handler[k].msg
          /\ \A i \in 1 .. c : call[pending[k][a + b + i]].msg = toHost[k][i]
      BY <2>8 DEF Aligned
    <3>2. /\ a \in Nat \ {0} /\ b \in 0 .. 1 /\ c \in Nat /\ n \in Nat \ {0}
          /\ Writing(k)' = b /\ Len(toHost'[k]) = c /\ Len(toClient'[k]) = a - 1
          /\ toClient'[k] = t /\ pending'[k] = q
          /\ \A i \in 1 .. a - 1 : t[i] = toClient[k][i + 1]
          /\ Len(q) = n - 1 /\ \A i \in 1 .. n - 1 : q[i] = pending[k][i + 1]
          /\ \A i \in 1 .. n - 1 : pending[k][i + 1] \in Call
      <4>1. pending \in [Conn -> Seq(Call)]
        BY DEF IInv, TypeOK
      <4>2. pending'[k] = q
        BY <2>1, <4>1
      <4>3. a \in Nat \ {0} /\ b \in 0 .. 1 /\ c \in Nat /\ n \in Nat \ {0} /\ Writing(k)' = b
        BY <1>1, <1>2, <1>3, <2>2 DEF Writing
      <4>4. \A i \in 1 .. n - 1 : pending[k][i + 1] \in Call
        BY <1>2, <4>3
      <4> QED BY <1>1, <1>3, <1>4, <2>2, <4>2, <4>3, <4>4
    <3> HIDE DEF a, b, c, n, t, q
    <3>3. \A i \in 1 .. n - 1 : call'[q[i]].msg = call[pending[k][i + 1]].msg
      BY <2>6, <3>2
    <3>0. n = a + b + c /\ a \in Nat \ {0} /\ b \in 0 .. 1 /\ c \in Nat
      BY <3>1, <3>2
    <3>4. ASSUME NEW i \in 1 .. a - 1 PROVE call'[q[i]].msg = t[i].msg
      <4>1. i \in 1 .. n - 1 /\ i + 1 \in 1 .. a
        BY <3>0
      <4>2. call[pending[k][i + 1]].msg = toClient[k][i + 1].msg
        BY <3>1, <4>1
      <4> QED BY <3>2, <3>3, <4>1, <4>2
    <3>5. b = 1 => call'[q[(a - 1) + 1]].msg = handler'[k].msg
      <4>1. b = 1 => a \in 1 .. n - 1 /\ (a - 1) + 1 = a
        BY <3>1, <3>2
      <4> QED BY <1>1, <3>1, <3>3, <4>1
    <3>6. ASSUME NEW i \in 1 .. c PROVE call'[q[(a - 1) + b + i]].msg = toHost'[k][i]
      <4>1. (a - 1) + b + i \in 1 .. n - 1 /\ ((a - 1) + b + i) + 1 = a + b + i
        BY <3>0
      <4>2. call'[q[(a - 1) + b + i]].msg = call[pending[k][a + b + i]].msg
        BY <3>3, <4>1
      <4> QED BY <1>1, <3>1, <4>2
    <3>7. n - 1 = (a - 1) + b + c
      BY <3>1, <3>2
    <3> QED BY <3>2, <3>4, <3>5, <3>6, <3>7 DEF Aligned
  <2>9. AlignedOK'
    BY <1>1, <2>6, <2>8 DEF IInv, AlignedOK, InOrder
  <2> QED BY <1>5, <2>6, <2>7, <2>9 DEF IInv, HostOK
<1> QED BY <1>6, <1>7

-----------------------------------------------------------------------------
(* The steps of the host.                                                  *)

\* A step of the handler of k touches the lists of k only; what is left to show
\* is that k stays aligned if it is still in order.
LEMMA HandlerStepKeeps ==
  ASSUME IInv, NEW k \in Conn, TypeOK', HostOK', socket[k] # "new",
         call' = call, client' = client, socket' = socket, pending' = pending, timedOut' = timedOut,
         \A j \in Conn \ {k} :
            toHost'[j] = toHost[j] /\ toClient'[j] = toClient[j] /\ handler'[j] = handler[j],
         InOrder(k)' => Aligned(k)'
  PROVE  IInv'
<1>1. LinesOK'
  BY DEF IInv, LinesOK
<1>2. ASSUME NEW j \in Conn, InOrder(j)' PROVE Aligned(j)'
  <2>1. CASE j = k
    BY <1>2, <2>1
  <2>2. CASE j # k
    <3>1. Aligned(j)
      BY <1>2, <2>2 DEF IInv, AlignedOK, InOrder
    <3> QED BY <2>2, <3>1, AlignedStays DEF IInv
  <2> QED BY <2>1, <2>2
<1> QED BY <1>1, <1>2 DEF IInv, HostOK, AlignedOK

LEMMA ReplyFacts ==
  ASSUME TypeOK, NEW k \in Conn, NEW m \in Message, NEW o \in {"written", "duplicate", "error"},
         Reply(k, m, o)
  PROVE  /\ toClient' \in [Conn -> Seq(Answer)]
         /\ \A j \in Conn \ {k} : toClient'[j] = toClient[j]
         /\ socket[k] = "open" =>
               /\ Len(toClient'[k]) = Len(toClient[k]) + 1
               /\ toClient'[k][Len(toClient[k]) + 1].msg = m
               /\ \A i \in 1 .. Len(toClient[k]) : toClient'[k][i] = toClient[k][i]
<1> DEFINE r == [msg |-> m, outcome |-> o]
<1>1. r \in Answer /\ r.msg = m
  BY DEF Answer
<1>2. toClient' = IF socket[k] = "open" THEN [toClient EXCEPT ![k] = Append(@, r)] ELSE toClient
  BY DEF Reply
<1> HIDE DEF r
<1>3. toClient \in [Conn -> Seq(Answer)] /\ toClient[k] \in Seq(Answer)
  BY DEF TypeOK
<1>4. /\ Append(toClient[k], r) \in Seq(Answer) /\ Len(Append(toClient[k], r)) = Len(toClient[k]) + 1
      /\ Append(toClient[k], r)[Len(toClient[k]) + 1] = r
      /\ \A i \in 1 .. Len(toClient[k]) : Append(toClient[k], r)[i] = toClient[k][i]
  BY <1>1, <1>3, AppendProperties
<1> QED BY <1>1, <1>2, <1>3, <1>4

\* A handler that takes the next request, and answers it or begins to write.
LEMMA TakeAligned ==
  ASSUME TypeOK, NEW k \in Conn, Aligned(k), toHost[k] # <<>>, toHost'[k] = Tail(toHost[k]),
         call' = call, pending' = pending, handler[k].at = "idle",
         \/ /\ toClient'[k] = toClient[k]
            /\ handler'[k].at = "write" /\ handler'[k].msg = Head(toHost[k])
         \/ /\ Len(toClient'[k]) = Len(toClient[k]) + 1 /\ handler'[k] = handler[k]
            /\ toClient'[k][Len(toClient[k]) + 1].msg = Head(toHost[k])
            /\ \A i \in 1 .. Len(toClient[k]) : toClient'[k][i] = toClient[k][i]
  PROVE  Aligned(k)'
<1> DEFINE a == Len(toClient[k])
           c == Len(toHost[k])
           h == Head(toHost[k])
<1>1. /\ Len(pending[k]) = a + c
      /\ \A i \in 1 .. a : call[pending[k][i]].msg = toClient[k][i].msg
      /\ \A i \in 1 .. c : call[pending[k][a + i]].msg = toHost[k][i]
  <2>1. a \in Nat /\ c \in Nat /\ Writing(k) = 0
    BY DEF TypeOK, Writing
  <2>2. /\ Len(pending[k]) = a + 0 + c
        /\ \A i \in 1 .. a : call[pending[k][i]].msg = toClient[k][i].msg
        /\ \A i \in 1 .. c : call[pending[k][a + 0 + i]].msg = toHost[k][i]
    BY <2>1 DEF Aligned
  <2> HIDE DEF a, c
  <2> QED BY <2>1, <2>2
<1>2. /\ h = toHost[k][1] /\ c \in Nat \ {0} /\ a \in Nat /\ Len(toHost'[k]) = c - 1
      /\ \A i \in 1 .. c - 1 : toHost'[k][i] = toHost[k][i + 1]
  <2>1. toHost[k] \in Seq(Message) /\ toClient[k] \in Seq(Answer)
    BY DEF TypeOK
  <2>2. /\ h = toHost[k][1] /\ c \in Nat \ {0} /\ Len(Tail(toHost[k])) = c - 1
        /\ \A i \in 1 .. c - 1 : Tail(toHost[k])[i] = toHost[k][i + 1]
    BY <2>1, TailProperties
  <2> QED BY <2>1, <2>2, LenProperties
<1>3. CASE toClient'[k] = toClient[k] /\ handler'[k].at = "write" /\ handler'[k].msg = h
  <2>1. Writing(k)' = 1 /\ Len(toClient'[k]) = a
    BY <1>3 DEF Writing
  <2> HIDE DEF a, c, h
  <2>2. ASSUME NEW i \in 1 .. c - 1 PROVE call'[pending'[k][a + 1 + i]].msg = toHost'[k][i]
    <3>1. i + 1 \in 1 .. c /\ a + 1 + i = a + (i + 1)
      BY <1>2, SMTT(30)
    <3> QED BY <1>1, <1>2, <3>1
  <2>3. 1 \in 1 .. c /\ a + 1 + (c - 1) = a + c
    BY <1>2
  <2>4. call'[pending'[k][a + 1]].msg = handler'[k].msg
    BY <1>1, <1>2, <1>3, <2>3
  <2> QED BY <1>1, <1>2, <1>3, <2>1, <2>2, <2>3, <2>4, ZenonT(40) DEF Aligned
<1>4. CASE /\ Len(toClient'[k]) = a + 1 /\ handler'[k] = handler[k]
           /\ toClient'[k][a + 1].msg = h /\ \A i \in 1 .. a : toClient'[k][i] = toClient[k][i]
  <2>1. Writing(k)' = 0 /\ Len(toClient'[k]) = a + 1 /\ Len(toHost'[k]) = c - 1
    BY <1>2, <1>4 DEF Writing
  <2> HIDE DEF a, c, h
  <2>2. ASSUME NEW i \in 1 .. c - 1 PROVE call'[pending'[k][(a + 1) + 0 + i]].msg = toHost'[k][i]
    <3>1. i + 1 \in 1 .. c /\ (a + 1) + 0 + i = a + (i + 1)
      BY <1>2
    <3> QED BY <1>1, <1>2, <3>1
  <2>3. 1 \in 1 .. c /\ (a + 1) + 0 + (c - 1) = a + c
    BY <1>2
  <2>4. ASSUME NEW i \in 1 .. a + 1 PROVE call'[pending'[k][i]].msg = toClient'[k][i].msg
    <3>1. CASE i \in 1 .. a
      BY <1>1, <1>4, <3>1
    <3>2. CASE i = a + 1
      BY <1>1, <1>2, <1>4, <2>3, <3>2
    <3> QED BY <1>2, <3>1, <3>2
  <2>5. Len(pending'[k]) = (a + 1) + 0 + (c - 1)
    BY <1>1, <2>3
  <2>6. /\ Len(pending'[k]) = Len(toClient'[k]) + Writing(k)' + Len(toHost'[k])
        /\ \A i \in 1 .. Len(toClient'[k]) : call'[pending'[k][i]].msg = toClient'[k][i].msg
    BY <2>1, <2>4, <2>5
  <2>7. \A i \in 1 .. Len(toHost'[k]) :
          call'[pending'[k][Len(toClient'[k]) + Writing(k)' + i]].msg = toHost'[k][i]
    BY <2>1, <2>2
  <2>8. ~(Writing(k)' = 1)
    BY <2>1
  <2> QED BY <2>6, <2>7, <2>8, Zenon DEF Aligned
<1> QED BY <1>3, <1>4

\* A handler that has written all frames answers.
LEMMA DoneAligned ==
  ASSUME TypeOK, NEW k \in Conn, Aligned(k), handler[k].at = "write", handler'[k].at = "idle",
         call' = call, pending' = pending, toHost' = toHost,
         Len(toClient'[k]) = Len(toClient[k]) + 1,
         toClient'[k][Len(toClient[k]) + 1].msg = handler[k].msg,
         \A i \in 1 .. Len(toClient[k]) : toClient'[k][i] = toClient[k][i]
  PROVE  Aligned(k)'
<1> DEFINE a == Len(toClient[k])
           c == Len(toHost[k])
<1>1. a \in Nat /\ c \in Nat /\ Writing(k) = 1 /\ Writing(k)' = 0 /\ Len(toHost'[k]) = c /\ Len(toClient'[k]) = a + 1
  BY DEF TypeOK, Writing
<1>2. /\ Len(pending[k]) = a + 1 + c
      /\ \A i \in 1 .. a : call[pending[k][i]].msg = toClient[k][i].msg
      /\ call[pending[k][a + 1]].msg = handler[k].msg
      /\ \A i \in 1 .. c : call[pending[k][a + 1 + i]].msg = toHost[k][i]
  BY <1>1 DEF Aligned
<1>3. toClient'[k][a + 1].msg = handler[k].msg /\ \A i \in 1 .. a : toClient'[k][i] = toClient[k][i]
  OBVIOUS
<1> HIDE DEF a, c
<1>4. ASSUME NEW i \in 1 .. a + 1 PROVE call'[pending'[k][i]].msg = toClient'[k][i].msg
  <2>1. CASE i \in 1 .. a
    BY <1>2, <1>3, <2>1
  <2>2. CASE i = a + 1
    BY <1>2, <1>3, <2>2
  <2> QED BY <1>1, <2>1, <2>2
<1>5. ASSUME NEW i \in 1 .. c PROVE call'[pending'[k][(a + 1) + 0 + i]].msg = toHost'[k][i]
  <2>1. (a + 1) + 0 + i = a + 1 + i
    BY <1>1
  <2> QED BY <1>2, <2>1
<1>6. Len(pending'[k]) = (a + 1) + 0 + c
  BY <1>1, <1>2
<1> QED BY <1>1, <1>4, <1>5, <1>6 DEF Aligned

LEMMA HostReadKeeps ==
  ASSUME IInv, NEW k \in Conn, HostRead(k)
  PROVE  IInv'
<1> DEFINE m == Head(toHost[k])
<1>1. /\ handler[k].at = "idle" /\ toHost[k] # <<>> /\ toHost' = [toHost EXCEPT ![k] = Tail(@)]
      /\ Claim(k, m)
      /\ call' = call /\ client' = client /\ pending' = pending /\ pty' = pty /\ exited' = exited
      /\ timedOut' = timedOut /\ socket' = socket
  BY DEF HostRead, Claim
<1>2. /\ TypeOK /\ HostOK /\ toHost \in [Conn -> Seq(Message)] /\ toHost[k] \in Seq(Message)
      /\ m \in Message /\ Tail(toHost[k]) \in Seq(Message) /\ socket[k] # "new"
  BY <1>1, TailProperties DEF IInv, HostOK, TypeOK, LinesOK
<1>3. /\ toHost' \in [Conn -> Seq(Message)] /\ toHost'[k] = Tail(toHost[k])
      /\ \A j \in Conn \ {k} : toHost'[j] = toHost[j]
  BY <1>1, <1>2
<1> HIDE DEF m
<1>4. HostOK'
  BY <1>1, <1>2, ClaimKeeps
<1>5. CASE delivered[m] = "none"
  <2>1. /\ delivered' = [delivered EXCEPT ![m] = "inProgress"] /\ toClient' = toClient
        /\ handler' = [handler EXCEPT ![k] = [at |-> "write", msg |-> m, frame |-> 0]]
    BY <1>1, <1>5 DEF Claim
  <2>2. /\ handler'[k].at = "write" /\ handler'[k].msg = m /\ \A j \in Conn \ {k} : handler'[j] = handler[j]
    BY <1>2, <2>1 DEF TypeOK
  <2>3. TypeOK'
    BY <1>1, <1>2, <1>3, <2>1, DeliveryAssumption DEF TypeOK
  <2>4. InOrder(k)' => Aligned(k)'
    <3>1. InOrder(k)' => Aligned(k)
      BY <1>1 DEF InOrder, IInv, AlignedOK
    <3> QED BY <1>1, <1>2, <1>3, <2>1, <2>2, <3>1, TakeAligned DEF m
  <2> QED BY <1>1, <1>2, <1>3, <1>4, <2>1, <2>2, <2>3, <2>4, HandlerStepKeeps
<1>6. CASE delivered[m] # "none"
  <2>1. Reply(k, m, "duplicate") /\ delivered' = delivered /\ handler' = handler
    BY <1>1, <1>6 DEF Claim
  <2>2. /\ toClient' \in [Conn -> Seq(Answer)]
        /\ \A j \in Conn \ {k} : toClient'[j] = toClient[j]
        /\ socket[k] = "open" =>
              /\ Len(toClient'[k]) = Len(toClient[k]) + 1
              /\ toClient'[k][Len(toClient[k]) + 1].msg = m
              /\ \A i \in 1 .. Len(toClient[k]) : toClient'[k][i] = toClient[k][i]
    BY <1>2, <2>1, ReplyFacts
  <2>3. TypeOK'
    BY <1>1, <1>2, <1>3, <2>1, <2>2 DEF TypeOK
  <2>4. InOrder(k)' => Aligned(k)'
    <3>1. InOrder(k)' => Aligned(k) /\ socket[k] = "open"
      BY <1>1 DEF InOrder, IInv, AlignedOK
    <3> QED BY <1>1, <1>2, <1>3, <2>1, <2>2, <3>1, TakeAligned DEF m
  <2> QED BY <1>1, <1>2, <1>3, <1>4, <2>1, <2>2, <2>3, <2>4, HandlerStepKeeps
<1> QED BY <1>5, <1>6

\* The handler of k goes, with an answer or without.
LEMMA GoneFacts ==
  ASSUME TypeOK, NEW k \in Conn, NEW at \in {"idle", "gone"}, handler' = [handler EXCEPT ![k].at = at]
  PROVE  /\ handler' \in [Conn -> [at : {"idle", "write", "gone"}, msg : Message, frame : 0 .. Frames]]
         /\ handler'[k].at = at /\ \A j \in Conn \ {k} : handler'[j] = handler[j]
BY DEF TypeOK

LEMMA HostRefuseKeeps ==
  ASSUME IInv, NEW k \in Conn, HostRefuse(k)
  PROVE  IInv'
<1> DEFINE m == Head(toHost[k])
<1>1. /\ handler[k].at = "idle" /\ toHost[k] # <<>> /\ toHost' = [toHost EXCEPT ![k] = Tail(@)]
      /\ Reply(k, m, "error") /\ handler' = [handler EXCEPT ![k].at = "gone"]
      /\ call' = call /\ client' = client /\ pending' = pending /\ pty' = pty /\ exited' = exited
      /\ timedOut' = timedOut /\ socket' = socket /\ delivered' = delivered
  BY DEF HostRefuse
<1>2. /\ TypeOK /\ HostOK /\ toHost \in [Conn -> Seq(Message)] /\ toHost[k] \in Seq(Message)
      /\ m \in Message /\ Tail(toHost[k]) \in Seq(Message) /\ socket[k] # "new"
  BY <1>1, TailProperties DEF IInv, HostOK, TypeOK, LinesOK
<1>3. /\ toHost' \in [Conn -> Seq(Message)] /\ \A j \in Conn \ {k} : toHost'[j] = toHost[j]
  BY <1>1, <1>2
<1> HIDE DEF m
<1>4. toClient' \in [Conn -> Seq(Answer)] /\ \A j \in Conn \ {k} : toClient'[j] = toClient[j]
  BY <1>1, <1>2, ReplyFacts
<1>5. /\ handler' \in [Conn -> [at : {"idle", "write", "gone"}, msg : Message, frame : 0 .. Frames]]
      /\ handler'[k].at = "gone" /\ \A j \in Conn \ {k} : handler'[j] = handler[j]
  BY <1>1, <1>2, GoneFacts
<1>6. TypeOK'
  BY <1>1, <1>2, <1>3, <1>4, <1>5 DEF TypeOK
<1>7. HostOK'
  BY <1>1, <1>2, <1>5 DEF HostOK, WritesOK, FramesOnceInOrder, WrittenIsComplete
<1>8. ~InOrder(k)'
  BY <1>5 DEF InOrder
<1> QED BY <1>1, <1>2, <1>3, <1>4, <1>5, <1>6, <1>7, <1>8, HandlerStepKeeps

LEMMA HostWriteKeeps ==
  ASSUME IInv, NEW k \in Conn, HostWrite(k)
  PROVE  IInv'
<1>1. /\ handler[k].at = "write" /\ handler[k].frame < Frames
      /\ handler' = [handler EXCEPT ![k].frame = handler[k].frame + 1]
      /\ call' = call /\ client' = client /\ pending' = pending /\ exited' = exited /\ timedOut' = timedOut
      /\ socket' = socket /\ delivered' = delivered /\ toHost' = toHost /\ toClient' = toClient
  BY DEF HostWrite, HasNextFrame, NextFrame
<1>2. HostOK' /\ pty' \in Seq([msg : Message, frame : 1 .. Frames])
  BY WriteKeeps DEF IInv, HostOK
<1>3. /\ handler[k].frame + 1 \in 0 .. Frames /\ socket[k] # "new"
      /\ handler \in [Conn -> [at : {"idle", "write", "gone"}, msg : Message, frame : 0 .. Frames]]
  BY <1>1, DeliveryAssumption DEF IInv, TypeOK, LinesOK
<1>4. /\ handler' \in [Conn -> [at : {"idle", "write", "gone"}, msg : Message, frame : 0 .. Frames]]
      /\ handler'[k].at = handler[k].at /\ handler'[k].msg = handler[k].msg
      /\ \A j \in Conn \ {k} : handler'[j] = handler[j]
  BY <1>1, <1>3
<1>5. TypeOK'
  BY <1>1, <1>2, <1>4 DEF IInv, TypeOK
<1>6. InOrder(k)' => Aligned(k)'
  <2>1. InOrder(k)' => Aligned(k)
    BY <1>1, <1>4 DEF InOrder, IInv, AlignedOK
  <2> QED BY <1>1, <1>4, <2>1, AlignedStays DEF IInv
<1> QED BY <1>1, <1>2, <1>3, <1>4, <1>5, <1>6, HandlerStepKeeps

LEMMA HostDoneKeeps ==
  ASSUME IInv, NEW k \in Conn, HostDone(k)
  PROVE  IInv'
<1> DEFINE m == handler[k].msg
<1>1. /\ handler[k].at = "write" /\ ~HasNextFrame(k) /\ handler' = [handler EXCEPT ![k].at = "idle"]
      /\ delivered' = [delivered EXCEPT ![m] = "written"] /\ Reply(k, m, "written")
      /\ call' = call /\ client' = client /\ pending' = pending /\ pty' = pty /\ exited' = exited
      /\ timedOut' = timedOut /\ socket' = socket /\ toHost' = toHost
  BY DEF HostDone
<1>2. TypeOK /\ HostOK /\ m \in Message /\ socket[k] # "new"
  BY <1>1 DEF IInv, HostOK, TypeOK, LinesOK
<1>3. /\ toClient' \in [Conn -> Seq(Answer)]
      /\ \A j \in Conn \ {k} : toClient'[j] = toClient[j]
      /\ socket[k] = "open" =>
            /\ Len(toClient'[k]) = Len(toClient[k]) + 1
            /\ toClient'[k][Len(toClient[k]) + 1].msg = m
            /\ \A i \in 1 .. Len(toClient[k]) : toClient'[k][i] = toClient[k][i]
  BY <1>1, <1>2, ReplyFacts
<1>4. /\ handler' \in [Conn -> [at : {"idle", "write", "gone"}, msg : Message, frame : 0 .. Frames]]
      /\ handler'[k].at = "idle" /\ \A j \in Conn \ {k} : handler'[j] = handler[j]
  BY <1>1, <1>2, GoneFacts
<1>5. TypeOK'
  BY <1>1, <1>2, <1>3, <1>4 DEF TypeOK
<1>6. HostOK'
  BY <1>1, <1>2, EndWriteKeeps
<1>7. InOrder(k)' => Aligned(k)'
  <2>1. InOrder(k)' => Aligned(k) /\ socket[k] = "open"
    BY <1>1 DEF InOrder, IInv, AlignedOK
  <2> QED BY <1>1, <1>2, <1>3, <1>4, <2>1, DoneAligned
<1> QED BY <1>1, <1>2, <1>3, <1>4, <1>5, <1>6, <1>7, HandlerStepKeeps

\* A write that fails, and a connection that is dropped for its lag.
LEMMA HostGoesKeeps ==
  ASSUME IInv, NEW k \in Conn, HostFail(k) \/ HostDrop(k)
  PROVE  IInv'
<1>1. /\ handler' = [handler EXCEPT ![k].at = "gone"]
      /\ call' = call /\ client' = client /\ pending' = pending /\ pty' = pty /\ exited' = exited
      /\ timedOut' = timedOut /\ socket' = socket /\ toHost' = toHost /\ toClient' = toClient
  BY DEF HostFail, HostDrop
<1>2. TypeOK /\ HostOK /\ socket[k] # "new"
  BY DEF IInv, HostOK, LinesOK, HostFail, HostDrop
<1>3. /\ handler' \in [Conn -> [at : {"idle", "write", "gone"}, msg : Message, frame : 0 .. Frames]]
      /\ handler'[k].at = "gone" /\ \A j \in Conn \ {k} : handler'[j] = handler[j]
  BY <1>1, <1>2, GoneFacts
<1>4. HostOK' /\ delivered' \in [Message -> {"none", "inProgress", "written", "uncertain"}]
  <2>1. CASE HostFail(k)
    <3>1. handler[k].at = "write" /\ delivered' = [delivered EXCEPT ![handler[k].msg] = "uncertain"]
      BY <2>1 DEF HostFail
    <3>2. HostOK'
      BY <1>1, <1>2, <3>1, EndWriteKeeps
    <3> QED BY <1>2, <3>1, <3>2 DEF TypeOK
  <2>2. CASE HostDrop(k)
    <3>1. delivered' = delivered
      BY <2>2 DEF HostDrop
    <3>2. HostOK'
      BY <1>1, <1>2, <1>3, <3>1 DEF HostOK, WritesOK, FramesOnceInOrder, WrittenIsComplete
    <3> QED BY <1>2, <3>1, <3>2 DEF TypeOK
  <2> QED BY <2>1, <2>2
<1>5. TypeOK'
  BY <1>1, <1>2, <1>3, <1>4 DEF TypeOK
<1>6. ~InOrder(k)'
  BY <1>3 DEF InOrder
<1> QED BY <1>1, <1>2, <1>3, <1>4, <1>5, <1>6, HandlerStepKeeps

LEMMA InitKeeps ==
  ASSUME Init
  PROVE  IInv
<1>1. AnyMessage \in Message
  BY DeliveryAssumption DEF AnyMessage
<1>2. TypeOK
  <2>1. [at |-> "idle", msg |-> AnyMessage, conn |-> NoConn, ackOf |-> AnyMessage] \in CallRow
    BY <1>1 DEF CallRow
  <2>2. [at |-> "idle", msg |-> AnyMessage, frame |-> 0]
          \in [at : {"idle", "write", "gone"}, msg : Message, frame : 0 .. Frames]
    BY <1>1, DeliveryAssumption
  <2>3. call \in [Call -> CallRow]
    BY <2>1 DEF Init
  <2>4. handler \in [Conn -> [at : {"idle", "write", "gone"}, msg : Message, frame : 0 .. Frames]]
    BY <2>2, Zenon DEF Init
  <2>5. /\ client \in Conn \cup {NoConn}
        /\ socket \in [Conn -> {"new", "open", "closed"}]
        /\ delivered \in [Message -> {"none", "inProgress", "written", "uncertain"}]
        /\ exited \in BOOLEAN
        /\ timedOut \subseteq Conn
    BY DEF Init
  <2>6. \A S : <<>> \in Seq(S)
    OBVIOUS
  <2>7. /\ pending \in [Conn -> Seq(Call)]
        /\ toHost \in [Conn -> Seq(Message)]
        /\ toClient \in [Conn -> Seq(Answer)]
    BY <2>6, Zenon DEF Init
  <2>8. pty \in Seq([msg : Message, frame : 1 .. Frames])
    BY <2>6, Zenon DEF Init
  <2> QED BY <2>3, <2>4, <2>5, <2>7, <2>8, Zenon DEF TypeOK
<1>3. WritesOK /\ FramesOnceInOrder /\ WrittenIsComplete
  <2>1. \A m : Placed(<<>>, m) = 0
    <3>1. \A m : PlacesOf(<<>>, m, 0) = {}
      BY DEF PlacesOf
    <3>2. Len(<<>>) = 0
      OBVIOUS
    <3> QED BY <3>1, <3>2, FS_EmptySet DEF Placed
  <2> QED BY <2>1 DEF Init, WritesOK, FramesOnceInOrder, WrittenIsComplete
<1>4. LinesOK
  BY DEF Init, LinesOK
<1>5. AlignedOK
  BY DEF Init, AlignedOK, InOrder
<1> QED BY <1>2, <1>3, <1>4, <1>5 DEF IInv

LEMMA NextKeeps ==
  ASSUME IInv, [Next]_vars
  PROVE  IInv'
<1>1. CASE UNCHANGED vars
  <2>1. HostOK'
    BY <1>1, HostUnchanged DEF vars, IInv, HostOK
  <2>2. TypeOK' /\ LinesOK'
    BY <1>1 DEF vars, IInv, TypeOK, LinesOK
  <2>3. ASSUME NEW j \in Conn, InOrder(j)' PROVE Aligned(j)'
    <3>1. Aligned(j)
      BY <1>1, <2>3 DEF vars, IInv, AlignedOK, InOrder
    <3> QED BY <1>1, <3>1, AlignedStays DEF vars, IInv
  <2> QED BY <2>1, <2>2, <2>3 DEF IInv, HostOK, AlignedOK
<1>2. CASE \E d \in Call, m \in Message : Deliver(d, m) \/ DeliverConnecting(d, m)
  BY <1>2, DeliverKeeps, ConnectingKeeps
<1>3. CASE \E d \in Call, k \in Conn : Connected(d, k)
  BY <1>3, ConnectedKeeps
<1>4. CASE \E d \in Call : ConnectFailed(d) \/ Timeout(d)
  BY <1>4, ConnectFailedKeeps, TimeoutKeeps
<1>5. CASE \E k \in Conn : \/ Disconnect(k) \/ Receive(k) \/ HostRead(k)
                          \/ HostRefuse(k) \/ HostWrite(k) \/ HostDone(k) \/ HostFail(k)
                          \/ HostDrop(k)
  BY <1>5, DisconnectKeeps, ReceiveKeeps, HostReadKeeps, HostRefuseKeeps, HostWriteKeeps,
     HostDoneKeeps, HostGoesKeeps
<1>6. CASE ChildExit
  BY <1>6, ExitKeeps
<1> QED BY <1>1, <1>2, <1>3, <1>4, <1>5, <1>6 DEF Next

\* Place by place is in order.
LEMMA AlignedIsInOrder ==
  ASSUME TypeOK, AlignedOK
  PROVE  AnswersAligned
<1> SUFFICES ASSUME NEW k \in Conn, InOrder(k) PROVE Waiting(k) = Owed(k)
  BY DEF AnswersAligned, InOrder
<1> DEFINE a == Len(toClient[k])
           b == Writing(k)
           c == Len(toHost[k])
           A == [i \in DOMAIN toClient[k] |-> toClient[k][i].msg]
           B == IF handler[k].at = "write" THEN <<handler[k].msg>> ELSE <<>>
           H == toHost[k]
           W == [i \in DOMAIN pending[k] |-> call[pending[k][i]].msg]
<1>1. /\ Len(pending[k]) = a + b + c
      /\ \A i \in 1 .. a : call[pending[k][i]].msg = toClient[k][i].msg
      /\ b = 1 => call[pending[k][a + 1]].msg = handler[k].msg
      /\ \A i \in 1 .. c : call[pending[k][a + b + i]].msg = toHost[k][i]
  BY DEF AlignedOK, Aligned
<1>2. /\ toClient[k] \in Seq(Answer) /\ H \in Seq(Message) /\ pending[k] \in Seq(Call)
      /\ handler[k].msg \in Message /\ call \in [Call -> CallRow]
      /\ a \in Nat /\ b \in 0 .. 1 /\ c \in Nat
  BY LenProperties DEF TypeOK, Writing
<1>3. A \in Seq(Message) /\ Len(A) = a /\ \A i \in 1 .. a : A[i] = toClient[k][i].msg
  <2>1. DOMAIN toClient[k] = 1 .. a /\ \A i \in 1 .. a : toClient[k][i] \in Answer
    BY <1>2
  <2>2. \A i \in 1 .. a : toClient[k][i].msg \in Message
    BY <2>1 DEF Answer
  <2>3. A = [i \in 1 .. a |-> toClient[k][i].msg] /\ a \in Nat
    BY <1>2, <2>1
  <2> HIDE DEF A, a
  <2>4. A \in [1 .. a -> Message] /\ \A i \in 1 .. a : A[i] = toClient[k][i].msg
    BY <2>2, <2>3, Zenon
  <2> QED BY <2>3, <2>4
<1>4. B \in Seq(Message) /\ Len(B) = b /\ (b = 1 => B[1] = handler[k].msg)
  BY <1>2 DEF Writing
<1>5. W \in Seq(Message) /\ Len(W) = a + b + c /\ \A i \in 1 .. a + b + c : W[i] = call[pending[k][i]].msg
  <2>1. /\ DOMAIN pending[k] = 1 .. a + b + c
        /\ \A i \in 1 .. a + b + c : pending[k][i] \in Call
    BY <1>1, <1>2
  <2>2. \A i \in 1 .. a + b + c : call[pending[k][i]].msg \in Message
    BY <1>2, <2>1 DEF CallRow
  <2>3. W = [i \in 1 .. a + b + c |-> call[pending[k][i]].msg] /\ a + b + c \in Nat
    BY <1>2, <2>1
  <2> QED BY <2>2, <2>3
<1> DEFINE AB == A \o B
           O == AB \o H
<1> HIDE DEF A, B, W, a, b, c, H
<1>6. /\ AB \in Seq(Message) /\ Len(AB) = Len(A) + Len(B)
      /\ \A i \in 1 .. Len(A) + Len(B) : AB[i] = IF i <= Len(A) THEN A[i] ELSE B[i - Len(A)]
  BY <1>3, <1>4, ConcatProperties, Zenon
<1> HIDE DEF AB
<1>7. /\ O \in Seq(Message) /\ Len(O) = Len(AB) + Len(H)
      /\ \A i \in 1 .. Len(AB) + Len(H) : O[i] = IF i <= Len(AB) THEN AB[i] ELSE H[i - Len(AB)]
  <2>1. H \in Seq(Message) /\ AB \in Seq(Message)
    BY <1>2, <1>6, Zenon
  <2> QED BY <2>1, ConcatProperties, Zenon
<1>8. Len(H) = c
  BY DEF c, H
<1> HIDE DEF O
<1>9. Len(O) = a + b + c /\ Len(AB) = a + b
  BY <1>2, <1>3, <1>4, <1>6, <1>7, <1>8
<1>10. ASSUME NEW i \in 1 .. a + b + c PROVE W[i] = O[i]
  <2>1. CASE i <= a
    <3>1. i \in 1 .. a /\ i \in 1 .. a + b /\ i <= a + b
      BY <1>2, <2>1
    <3>2. AB[i] = A[i]
      BY <1>3, <1>4, <1>6, <2>1, <3>1
    <3>3. O[i] = AB[i]
      BY <1>7, <1>8, <1>9, <3>1
    <3> QED BY <1>1, <1>3, <1>5, <3>1, <3>2, <3>3
  <2>2. CASE ~(i <= a) /\ i <= a + b
    <3>1. b = 1 /\ i = a + 1 /\ i - a = 1
      BY <1>2, <2>2
    <3>2. AB[i] = B[1]
      <4>1. i \in 1 .. Len(A) + Len(B) /\ ~(i <= Len(A)) /\ i - Len(A) = 1
        BY <1>2, <1>3, <1>4, <2>2, <3>1
      <4> QED BY <1>6, <4>1
    <3>3. O[i] = AB[i]
      <4>1. i \in 1 .. Len(AB) + Len(H) /\ i <= Len(AB)
        BY <1>2, <1>8, <1>9, <2>2
      <4> QED BY <1>7, <4>1
    <3> QED BY <1>1, <1>4, <1>5, <3>1, <3>2, <3>3
  <2>3. CASE ~(i <= a + b)
    <3>1. i - (a + b) \in 1 .. c /\ a + b + (i - (a + b)) = i
      BY <1>2, <2>3
    <3>2. O[i] = H[i - (a + b)]
      BY <1>2, <1>7, <1>8, <1>9, <2>3
    <3>3. H[i - (a + b)] = call[pending[k][i]].msg
      BY <1>1, <3>1 DEF H
    <3> QED BY <1>5, <3>2, <3>3
  <2> QED BY <2>1, <2>2, <2>3
<1>11. W = O
  BY <1>5, <1>7, <1>9, <1>10, SeqEqual
<1> QED BY <1>11 DEF Waiting, Owed, W, O, AB, A, B, H

-----------------------------------------------------------------------------
(* The theorems.                                                           *)

\* The inductive invariant holds.
THEOREM Invariant == Spec => []IInv
<1>1. Init => IInv
  BY InitKeeps
<1>2. IInv /\ [Next]_vars => IInv'
  BY NextKeeps
<1> QED BY <1>1, <1>2, PTL DEF Spec

\* Type correctness of the calls, the lines and the host's table.
THEOREM TypeCorrect == Spec => []TypeOK
<1>1. IInv => TypeOK
  BY DEF IInv
<1> QED BY <1>1, Invariant, PTL

\* The frames of a message reach the PTY once and in order, however often its
\* delivery is retried (main.go, DELIVER).
THEOREM OnceInOrder == Spec => []FramesOnceInOrder
<1>1. IInv => FramesOnceInOrder
  BY DEF IInv
<1> QED BY <1>1, Invariant, PTL

\* The host's table says "written" of messages all of whose frames were.
THEOREM Complete == Spec => []WrittenIsComplete
<1>1. IInv => WrittenIsComplete
  BY DEF IInv
<1> QED BY <1>1, Invariant, PTL

\* The answers of a connection on which nothing timed out match the requests of
\* client.ts in order of arrival.
THEOREM AnswersMatch == Spec => []AnswersAligned
<1>1. IInv => AnswersAligned
  BY AlignedIsInOrder DEF IInv
<1> QED BY <1>1, Invariant, PTL
=============================================================================
