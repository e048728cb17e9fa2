------------------------- MODULE MCChannelLifecycle -------------------------
(* A small instance of ChannelLifecycle.  Coordinators are interchangeable. *)
EXTENDS ChannelLifecycle, TLC

Coordinators == Permutations(Owner)
=============================================================================
