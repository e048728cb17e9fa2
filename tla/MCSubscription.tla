--------------------------- MODULE MCSubscription ---------------------------
(* TLC instances of Subscription.                                          *)
EXTENDS Subscription, TLC

\* Streams are interchangeable.
Symmetry == Permutations(Stream)
=============================================================================
