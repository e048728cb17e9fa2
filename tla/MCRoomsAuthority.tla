-------------------------- MODULE MCRoomsAuthority --------------------------
(* TLC instances of RoomsAuthority.                                        *)
EXTENDS RoomsAuthority, TLC

\* Sessions are interchangeable, and so are channels.
Symmetry == Permutations(Session) \cup Permutations(Channel)
=============================================================================
