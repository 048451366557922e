---------------------------- MODULE MCScheduler ----------------------------
\* Model values and symmetry for the runs of Scheduler.
EXTENDS Scheduler, TLC

CONSTANTS l1, l2


Symmetry == Permutations(Leagues)
=============================================================================
