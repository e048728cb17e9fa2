-------------------------- MODULE MCPeerEnrollment --------------------------
(* Two machines; the process slots are interchangeable.                    *)
EXTENDS PeerEnrollment, TLC

Symmetry == Permutations(Process)
=============================================================================
