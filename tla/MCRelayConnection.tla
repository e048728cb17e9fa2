-------------------------- MODULE MCRelayConnection --------------------------
(* Instances of RelayConnection for TLC; the configurations give the bounds. *)
EXTENDS RelayConnection

\* At most one of the two machines loses its trust in the other.
OneSided == \E r \in Roles : peerTrust[r] = "active"
=============================================================================
