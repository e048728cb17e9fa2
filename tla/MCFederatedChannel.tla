------------------------- MODULE MCFederatedChannel -------------------------
(* Model checking of FederatedChannel: the bounds are in the cfg file.     *)
EXTENDS FederatedChannel

\* A fault meets a home whose clock stands, before, at or after the clock of this
\* machine, which goes on; the home's clock moves between messages without a fault.
OneClock ==
  faults > 0 => \A i, j \in DOMAIN journal : journal[i].at = journal[j].at
=============================================================================
