---------------------------- MODULE MCTransport ----------------------------
(* Small instances of Transport for TLC. *)
EXTENDS Transport, TLC

CONSTANTS c1, c2, c3

Symmetry == Permutations(Callers)

=============================================================================
