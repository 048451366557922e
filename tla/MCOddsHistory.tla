--------------------------- MODULE MCOddsHistory ---------------------------
(* Small instances of OddsHistory for TLC. *)
EXTENDS OddsHistory

CONSTANTS g1, g2, s1, s2, o1, o2

\* Quotations with three decimals at most, which the column gives back unchanged.
Exact == [o \in Odds \cup {Absent} |-> o]

=============================================================================
