---------------------------- MODULE AscendingOrder --------------------------
(***************************************************************************)
(* The order in which a store hands out its changes, and a directory its   *)
(* files.                                                                  *)
(***************************************************************************)
EXTENDS Naturals, Sequences, FiniteSets

\* The numbers of a set in ascending order.
Ascending(S) ==
  CHOOSE s \in [1 .. Cardinality(S) -> S] :
    \A i, j \in 1 .. Cardinality(S) : i < j => s[i] < s[j]
=============================================================================
