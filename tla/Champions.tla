------------------------------ MODULE Champions ------------------------------
(***************************************************************************)
(* The production models: src/src/forecasting/production.py, the daily run     *)
(* that makes them (__main__.py) and the way the prediction service reads      *)
(* them (live.py).  Artifacts composes it with the life of the service.        *)
(*                                                                         *)
(*   dump, judge (each target) --> champion.json --> evaluation directory      *)
(*                                                                         *)
(* One run at a time.  The runs are numbered by the hour of their data, which   *)
(* names their directories: a run of an hour already taken writes there again.  *)
(* A file is torn while it is written, and for good if the run dies then.      *)
(***************************************************************************)
EXTENDS Naturals

CONSTANTS
  Targets,    \* number of targets, in the order of train_production
  ExamSizes,  \* rounds of the exam day: "none", "short" (below MIN_HOLDOUT) or "full"
  AnyHour,    \* a run may take the hour of an earlier one (--as-of, or twice within the hour)
  MaxRuns     \* bound on the runs

VARIABLES
  runStep,    \* "idle", "dump", "judge", "replace", "save" or "saving"
  runId,      \* the directory of this run, or of the last one
  target,     \* index of the target in hand
  mine,       \* the dictionary of champions in the memory of the run
  files,      \* production/<run>/<target>.joblib: "none", "torn" or "whole"
  evals,      \* <run>/<target>.joblib, the models of the evaluation
  champions,  \* champion.json: the run of each champion, 0 when there is none
  beaten,     \* history: <<target, old, new>> of the exams passed in this run
  step,       \* step of the service
  newest,     \* the evaluation it has just read: its run and its targets
  sig,        \* self.model_sig
  served      \* self.models: the run each model comes from

runVars == <<runStep, runId, target, mine, files, evals, champions, beaten>>
loadVars == <<newest, sig, served>>

RunIds == 1..MaxRuns
Indexes == 1..Targets
NoModels == [i \in Indexes |-> 0]
NoSig == <<0, NoModels>>
Nothing == [run |-> 0, has |-> {}]
States == {"none", "torn", "whole"}

TypeOK ==
  /\ runStep \in {"idle", "dump", "judge", "replace", "save", "saving"}
  /\ runId \in 0..MaxRuns /\ target \in Indexes
  /\ mine \in [Indexes -> 0..MaxRuns] /\ champions \in [Indexes -> 0..MaxRuns]
  /\ files \in [RunIds -> [Indexes -> States]] /\ evals \in [RunIds -> [Indexes -> States]]
  /\ beaten \subseteq Indexes \X RunIds \X RunIds
  /\ newest \in [run : 0..MaxRuns, has : SUBSET Indexes]
  /\ sig \in (0..MaxRuns) \X [Indexes -> 0..MaxRuns]
  /\ served \in [Indexes -> 0..MaxRuns]

Init ==
  /\ runStep = "idle" /\ runId = 0 /\ target = 1
  /\ mine = NoModels /\ champions = NoModels
  /\ files = [r \in RunIds |-> [i \in Indexes |-> "none"]] /\ evals = files
  /\ beaten = {}
  /\ newest = Nothing /\ sig = NoSig /\ served = NoModels

-----------------------------------------------------------------------------
(* The daily run.                                                            *)

\* promote() reads champion.json once.
StartRun ==
  /\ runStep = "idle"
  /\ \E r \in RunIds : (r = runId + 1 \/ AnyHour) /\ runId' = r
  /\ runStep' = "dump" /\ target' = 1 /\ mine' = champions
  /\ UNCHANGED <<files, evals, champions, beaten>>

NextTarget(stage, after) ==
  IF target < Targets THEN target' = target + 1 /\ runStep' = stage
  ELSE target' = 1 /\ runStep' = after

\* A target without enough data has no challenger.
Skip ==
  /\ runStep = "dump"
  /\ NextTarget("dump", "replace")
  /\ UNCHANGED <<runId, mine, files, evals, champions, beaten>>

\* Mutant of Dump: the file is written behind the run, which does not wait for it.
DumpUnflushed ==
  /\ runStep = "dump" /\ runStep' = "judge"
  /\ files' = [files EXCEPT ![runId][target] = "torn"]
  /\ UNCHANGED <<runId, target, mine, evals, champions, beaten>>

\* The file of the challenger, whatever it is worth.
Dump ==
  /\ runStep = "dump" /\ runStep' = "judge"
  /\ files' = [files EXCEPT ![runId][target] = "whole"]
  /\ UNCHANGED <<runId, target, mine, evals, champions, beaten>>

\* Mutant of Promoted: a short exam day is trusted.
PromotedOnShortExam(current, exam, better) ==
  \/ current = 0 \/ exam = "none"
  \/ better

\* Without a round in the exam day the champion is not evaluated, and counts as unreadable.
Promoted(current, exam, better) ==
  \/ current = 0 \/ exam = "none"
  \/ exam = "full" /\ better

\* The champion in place is read for the exam: a torn one kills the run.
Judge ==
  /\ runStep = "judge"
  /\ \E exam \in ExamSizes, better \in BOOLEAN :
       /\ (mine[target] # 0 /\ exam # "none") => files[mine[target]][target] = "whole"
       /\ mine' = IF Promoted(mine[target], exam, better) THEN [mine EXCEPT ![target] = runId] ELSE mine
       /\ beaten' = IF mine[target] # 0 /\ exam = "full" /\ better
                    THEN beaten \cup {<<target, mine[target], runId>>} ELSE beaten
  /\ NextTarget("dump", "replace")
  /\ UNCHANGED <<runId, files, evals, champions>>

Replace ==
  /\ runStep = "replace" /\ runStep' = "save"
  /\ champions' = mine /\ mine' = NoModels /\ beaten' = {}
  /\ UNCHANGED <<runId, target, files, evals>>

\* _save_artifacts: the models of the evaluation, file by file.
Save ==
  /\ \/ /\ runStep = "save" /\ runStep' = "saving" /\ evals' = [evals EXCEPT ![runId][target] = "torn"]
        /\ UNCHANGED target
     \/ /\ runStep = "saving" /\ evals' = [evals EXCEPT ![runId][target] = "whole"]
        /\ NextTarget("save", "idle")
  /\ UNCHANGED <<runId, mine, files, champions, beaten>>

\* The run dies and leaves what it has written; a model is torn if it dies in Dump, which the
\* service does not see before that.
RunDies ==
  /\ runStep # "idle" /\ runStep' = "idle"
  /\ \/ files' = files
     \/ runStep = "dump" /\ files' = [files EXCEPT ![runId][target] = "torn"]
  /\ target' = 1 /\ mine' = NoModels /\ beaten' = {}
  /\ UNCHANGED <<runId, evals, champions>>

RunStep == Skip \/ Dump \/ Judge \/ Replace \/ Save

-----------------------------------------------------------------------------
(* The service, at each of its cycles.                                       *)

Evaluated == {r \in RunIds : \E i \in Indexes : evals[r][i] # "none"}
Newest(r) == r \in Evaluated /\ \A q \in Evaluated : q <= r

\* joblib cannot read one of the files of the newest evaluation, or one of the champions.
NewestIsTorn == \E r \in RunIds, i \in Indexes : Newest(r) /\ evals[r][i] = "torn"
ChampionIsTorn == \E i \in Indexes : champions[i] # 0 /\ files[champions[i]][i] = "torn"

\* latest_models.
ReadNewest ==
  /\ step = "load" /\ ~NewestIsTorn
  /\ \/ Evaluated = {} /\ newest' = Nothing
     \/ \E r \in RunIds :
          Newest(r) /\ newest' = [run |-> r, has |-> {i \in Indexes : evals[r][i] = "whole"}]
  /\ step' = "champions"
  /\ UNCHANGED <<sig, served>>

\* Mutant of Signature: only the name of the evaluation.
SignatureOfEvaluation(run, champs) == <<run, NoModels>>

Signature(run, champs) == <<run, champs>>

\* load_champions completes them; they are kept when the signature has changed.
ReadChampions ==
  /\ step = "champions" /\ ~ChampionIsTorn
  /\ LET new == Signature(newest.run, champions)
         models == [i \in Indexes |->
           IF champions[i] # 0 THEN champions[i] ELSE IF i \in newest.has THEN newest.run ELSE 0]
     IN  IF models = NoModels
         THEN step' = "load" /\ UNCHANGED <<sig, served>>
         ELSE /\ step' = "log"
              /\ sig' = new
              /\ served' = IF new = sig THEN served ELSE models
  /\ newest' = Nothing

\* What joblib raises is not one of the errors run_forever expects: the service dies.
CannotLoad == (step = "load" /\ NewestIsTorn) \/ (step = "champions" /\ ChampionIsTorn)

Forget ==
  /\ newest' = Nothing /\ sig' = NoSig /\ served' = NoModels

-----------------------------------------------------------------------------
(* Properties.                                                               *)

\* champion.json never names a model that is not entirely on disk, wherever the runs die
\* (load_champions would kill the service at each of its cycles).
ChampionsAreWhole ==
  \A i \in Indexes : champions[i] # 0 => files[champions[i]][i] = "whole"

\* The service uses the champions in place.
Served == \A i \in Indexes : champions[i] # 0 => served[i] = champions[i]

=============================================================================
