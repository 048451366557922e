------------------------------ MODULE Artifacts ------------------------------
(***************************************************************************)
(* The volume ml_artifacts and the two programs that share it: the daily run   *)
(* (Champions) and the prediction service, whose cycle, step() of             *)
(* src/src/forecasting/live.py, loads the models, logs the rounds and           *)
(* publishes the daily report (DailyReport).                                  *)
(*                                                                         *)
(*   load --> champions --> log --> report --> date                            *)
(*                                                                         *)
(* The container restarts a service that dies; a run that dies is not restarted,  *)
(* the next one is another run.                                               *)
(***************************************************************************)
EXTENDS Naturals, Sequences, FiniteSets

CONSTANTS
  Targets, ExamSizes, AnyHour, MaxRuns,  \* see Champions
  MaxDay, MaxRounds,                      \* see DailyReport
  MaxFaults                               \* bound on what goes wrong

ASSUME ArtifactsAssumption ==
  /\ Targets \in Nat \ {0} /\ ExamSizes \subseteq {"none", "short", "full"}
  /\ AnyHour \in BOOLEAN
  /\ MaxRuns \in Nat /\ MaxDay \in Nat \ {0} /\ MaxRounds \in Nat /\ MaxFaults \in Nat

VARIABLES
  runStep, runId, target, mine, files, evals, champions, beaten, newest, sig, served,
  day, early, resolved, logged, saved, journal, last, told, reporting, dropped, dated,
  step,   \* step of the service, "down" when it is dead
  faults  \* what went wrong so far

Models == INSTANCE Champions
Reports == INSTANCE DailyReport

runVars == <<runStep, runId, target, mine, files, evals, champions, beaten>>
loadVars == <<newest, sig, served>>
reportVars == <<day, early, resolved, logged, saved, journal, last, told, reporting, dropped, dated>>
vars == <<runVars, loadVars, reportVars, step, faults>>

TypeOK ==
  /\ Models!TypeOK /\ Reports!TypeOK
  /\ step \in {"down", "load", "champions", "log", "report", "date"}
  /\ faults \in 0..MaxFaults

Init ==
  /\ Models!Init /\ Reports!Init
  /\ step = "load" /\ faults = 0

-----------------------------------------------------------------------------
(* The daily run.                                                            *)

\* Every day ("réentraînés chaque jour").
StartRun ==
  /\ Models!StartRun
  /\ runId' <= day
  /\ UNCHANGED <<loadVars, reportVars, step, faults>>

RunStep ==
  /\ Models!RunStep
  /\ UNCHANGED <<loadVars, reportVars, step, faults>>

RunDies ==
  /\ faults < MaxFaults /\ faults' = faults + 1
  /\ Models!RunDies
  /\ UNCHANGED <<loadVars, reportVars, step>>

-----------------------------------------------------------------------------
(* The service.                                                              *)

LoadModels ==
  /\ Models!ReadNewest \/ Models!ReadChampions
  /\ UNCHANGED <<runVars, reportVars, faults>>

LogAndReport ==
  /\ Reports!Cycle
  /\ UNCHANGED <<runVars, loadVars, faults>>

Restart ==
  /\ Reports!Restart
  /\ UNCHANGED <<runVars, loadVars, faults>>

\* A cycle that goes wrong; the service may die of it.
Fault ==
  /\ faults < MaxFaults /\ faults' = faults + 1
  /\ Reports!Fault
  /\ IF step' = "down" THEN Models!Forget ELSE UNCHANGED loadVars
  /\ UNCHANGED runVars

\* A model, or a journal, that cannot be read kills the service.
ReadKills ==
  /\ Models!CannotLoad \/ Reports!CannotRead
  /\ Reports!Die /\ Models!Forget
  /\ UNCHANGED <<runVars, faults>>

World ==
  /\ Reports!Tomorrow \/ Reports!FiveMinutes \/ Reports!Resolve
  /\ UNCHANGED <<runVars, loadVars, faults>>

Service == LoadModels \/ LogAndReport \/ Restart

Next == StartRun \/ RunStep \/ RunDies \/ Service \/ Fault \/ ReadKills \/ World

Spec == Init /\ [][Next]_vars

\* The service and a run that has begun go on, as any process does.
Fairness == WF_vars(Service) /\ WF_vars(RunStep)

FairSpec == Spec /\ Fairness

-----------------------------------------------------------------------------
(* Properties.                                                               *)

\* champion.json never names a model that is not entirely on disk, wherever the runs die
\* (load_champions would kill the service at each of its cycles).
ChampionsAreWhole == Models!ChampionsAreWhole

\* A model in place is replaced only by one that passed an exam against it ("le challenger n'est
\* promu que s'il fait au moins aussi bien que le champion sur ce jour-là").
ReplacedAfterExam ==
  [][\A i \in 1..Targets : champions[i] # 0 /\ champions'[i] # champions[i]
       => <<i, champions[i], champions'[i]>> \in beaten]_vars

\* The service ends up predicting with the champions in place ("recharge les modèles dès qu'il
\* change"), unless a run that died has left an evaluation that it cannot read, or a cut a journal.
ServesChampions == <>[](Models!NewestIsTorn \/ Reports!Garbled \/ Models!Served)

\* As long as the journal can be decoded, the rounds that are marked and have no record that is
\* read were dropped by _forget_old on a full disk, or are lost to a write that was cut: one for
\* each cut, a failed cycle and a death in between, and several, included.
LossIsExplained ==
  ~Reports!Garbled =>
    Cardinality({n \in (1..logged) \ dropped :
        ~\E i \in DOMAIN journal : Reports!Readable(i) /\ journal[i].round = n})
      <= Cardinality({i \in DOMAIN journal : journal[i].kind # "ended"})

\* The report of a day is published once ("une seule fois"), but for a message whose answer or whose
\* date was lost; and of all the days that are dated after the first start, those that have records
\* had their report in the chat.
ReportsAreAccounted ==
  \A d \in DOMAIN told :
    /\ told[d] <= 1 + faults
    /\ (d \in dated /\ Reports!HasRecords(d)) => told[d] >= 1

\* What journal.read says of itself: "ligne tronquée (arrêt brutal pendant l'écriture) : ignorée".
\* A record that was written whole, after one that was, is read whatever was cut elsewhere.  A
\* cut inside a letter of two bytes breaks it (README, section 6).
TruncatedLineIsIgnored ==
  \A i \in DOMAIN journal :
    (journal[i].kind = "ended" /\ (i > 1 => journal[i - 1].kind = "ended")) => Reports!Readable(i)

=============================================================================
