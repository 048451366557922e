-------------------------- MODULE MCResultsHistory --------------------------
(* Small instances of ResultsHistory for TLC. *)
EXTENDS ResultsHistory

=============================================================================
