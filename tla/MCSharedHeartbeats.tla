------------------------- MODULE MCSharedHeartbeats -------------------------
(* Instances of SharedHeartbeats for TLC. *)
EXTENDS SharedHeartbeats

=============================================================================
