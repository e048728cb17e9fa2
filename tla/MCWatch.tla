------------------------------ MODULE MCWatch ------------------------------
(* TLC instances of Watch.                                                 *)
EXTENDS Watch, TLC

\* Watchers are interchangeable.
Symmetry == Permutations(Watcher)
=============================================================================
