-------------------------- MODULE MCHostDelivery --------------------------
(* TLC instances of HostDelivery.                                          *)
EXTENDS HostDelivery

\* Calls, connections and messages are interchangeable.  Init picks one
\* message by CHOOSE, so messages are not part of the symmetry set.
Symmetry == Permutations(Call) \cup Permutations(Conn)
=============================================================================
