------------------------------ MODULE RelayLink ------------------------------
(***************************************************************************)
(* What a relay connection promises about each of its two directions: the  *)
(* peer handles the frames that were sent, in order, each at most once and *)
(* none that was not sent.  Frames that were sent may never arrive.  A     *)
(* direction is named by the end that sends.                               *)
(***************************************************************************)
EXTENDS Naturals, Sequences

CONSTANTS Ends,    \* the sending ends
          Kinds    \* the kinds of frames

VARIABLES sent,    \* per end, the kinds of the frames it numbered, in order
          handled  \* per end, the kinds of its frames the peer handled

vars == <<sent, handled>>

Init ==
  /\ sent = [e \in Ends |-> <<>>]
  /\ handled = [e \in Ends |-> <<>>]

\* An end sends frames (a heartbeat may be followed by a close at once).
Send(e) ==
  /\ sent'[e] \in Seq(Kinds)
  /\ Len(sent[e]) <= Len(sent'[e])
  /\ SubSeq(sent'[e], 1, Len(sent[e])) = sent[e]
  /\ handled'[e] = handled[e]

\* The peer handles the next frame.
Deliver(e) ==
  /\ Len(handled[e]) < Len(sent[e])
  /\ handled'[e] = Append(handled[e], sent[e][Len(handled[e]) + 1])
  /\ sent'[e] = sent[e]

\* The directions are independent: one step of the program may handle a frame
\* of one and send an answer on the other.
Next ==
  /\ DOMAIN sent' = Ends /\ DOMAIN handled' = Ends
  /\ \A e \in Ends : Send(e) \/ Deliver(e)

Spec == Init /\ [][Next]_vars
=============================================================================
