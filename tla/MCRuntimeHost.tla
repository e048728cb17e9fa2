--------------------------- MODULE MCRuntimeHost ---------------------------
(* An instance of RuntimeHost.                                           *)
EXTENDS RuntimeHost

\* One connection comes first; a second one meets it before the child prints,
\* or takes the controller slot over from it once it is cut, by the lag drop or
\* by its peer, while its writer and its handler are still to release the slot.
First == CHOOSE c \in Client : TRUE

TakesOver(c) ==
    /\ conn[First] = "closed"
    /\ pc[c] \in {"accepted", "checked", "claimed", "ack"}
    /\ hello[First].mode = "controller" /\ hello[c].mode = "controller"

MeetEarly ==
    \A c \in Client \ {First} : conn[c] # "none" =>
        /\ conn[First] # "none"
        /\ up /\ ~exited /\ (total = 0 \/ TakesOver(c))
        /\ \A d \in Client : hello[d].cursor = 0
=============================================================================
