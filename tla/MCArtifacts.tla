----------------------------- MODULE MCArtifacts -----------------------------
(* Values for TLC. *)
EXTENDS Artifacts

\* The days of exam have rounds, or a day without a round may come.
DaysWithRounds == {"short", "full"}
AllDays == DaysWithRounds \cup {"none"}

=============================================================================
