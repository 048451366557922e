-------------------------- MODULE MCLivePredictor --------------------------
(* Small instances of LivePredictor for TLC. *)
EXTENDS LivePredictor

=============================================================================
