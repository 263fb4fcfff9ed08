----------------------------- MODULE MCReplayer -----------------------------
(* Instances of Replayer for TLC. *)
EXTENDS Replayer

=============================================================================
