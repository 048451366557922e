---------------------------- MODULE ArtifactsProof ----------------------------
(***************************************************************************)
(* What holds of the production models, of the journal and of the daily report  *)
(* for any number of targets, runs, days, rounds and faults.                  *)
(***************************************************************************)
EXTENDS Artifacts, FiniteSetTheorems, TLAPS

\* A champion is on disk, those of the run in hand are as well, and a run that has not replaced
\* champion.json yet is in a directory no champion is in.
WholeInv ==
  /\ ChampionsAreWhole
  /\ \A i \in Models!Indexes : mine[i] # 0 => files[mine[i]][i] = "whole"
  /\ runStep = "judge" => files[runId][target] = "whole"
  /\ \A i \in Models!Indexes : champions[i] <= runId /\ mine[i] <= runId
  /\ runStep \in {"dump", "judge", "replace"} => \A i \in Models!Indexes : champions[i] < runId

\* A run in hand differs from champion.json only by targets that it has judged and promoted.
ExamInv ==
  /\ runStep \in {"dump", "judge", "replace"} => \A i \in Models!Indexes :
       mine[i] # champions[i] /\ champions[i] # 0 => <<i, champions[i], mine[i]>> \in beaten
  /\ runStep \in {"dump", "judge"} => \A i \in Models!Indexes :
       i >= target => mine[i] = champions[i]

\* The variables of the run.
RunTypes ==
  /\ runStep \in {"idle", "dump", "judge", "replace", "save", "saving"}
  /\ runId \in 0..MaxRuns /\ target \in Models!Indexes
  /\ runStep # "idle" => runId \in Models!RunIds
  /\ mine \in [Models!Indexes -> 0..MaxRuns] /\ champions \in [Models!Indexes -> 0..MaxRuns]
  /\ files \in [Models!RunIds -> [Models!Indexes -> Models!States]]

IInv == RunTypes /\ WholeInv

\* A step of the run, or none.
RunsOrNot ==
  Models!StartRun \/ Models!Skip \/ Models!Dump \/ Models!Judge \/ Models!Replace \/ Models!Save
    \/ Models!RunDies \/ UNCHANGED runVars

LEMMA StepRuns == [Next]_vars => RunsOrNot
BY DEF Next, vars, runVars, RunsOrNot, StartRun, RunStep, RunDies, Service, LoadModels, LogAndReport,
  Restart, Fault, ReadKills, World, Models!RunStep

LEMMA InitInv == Init => IInv /\ ExamInv
<1>. SUFFICES ASSUME Init PROVE IInv /\ ExamInv
  OBVIOUS
<1>1. Targets \in Nat \ {0} /\ MaxRuns \in Nat
  BY ArtifactsAssumption
<1>2. RunTypes
  BY <1>1 DEF Init, Models!Init, RunTypes, Models!Indexes, Models!RunIds, Models!States, Models!NoModels
<1>3. WholeInv /\ ExamInv
  BY <1>1 DEF Init, Models!Init, WholeInv, ExamInv, ChampionsAreWhole, Models!ChampionsAreWhole,
    Models!Indexes, Models!NoModels
<1>. QED
  BY <1>2, <1>3 DEF IInv

\* What an exam may change.
LEMMA JudgeChanges ==
  ASSUME Models!Judge
  PROVE  /\ runStep = "judge" /\ runStep' \in {"dump", "replace"}
         /\ mine' \in {mine, [mine EXCEPT ![target] = runId]}
         /\ Models!NextTarget("dump", "replace")
         /\ UNCHANGED <<runId, files, evals, champions>>
BY DEF Models!Judge, Models!NextTarget

LEMMA TypesKept ==
  ASSUME RunTypes, RunsOrNot PROVE RunTypes'
<1>. DEFINE I == Models!Indexes  R == Models!RunIds
<1>0. /\ Targets \in Nat \ {0} /\ MaxRuns \in Nat
      /\ I = 1..Targets /\ R = 1..MaxRuns /\ 1 \in I
      /\ Models!NoModels \in [I -> 0..MaxRuns]
  BY ArtifactsAssumption DEF Models!Indexes, Models!RunIds, Models!NoModels
<1>1. CASE Models!StartRun
  BY <1>0, <1>1 DEF RunTypes, Models!StartRun
<1>2. CASE Models!Skip
  BY <1>0, <1>2 DEF RunTypes, Models!Skip, Models!NextTarget
<1>3. CASE Models!Dump
  BY <1>0, <1>3 DEF RunTypes, Models!Dump, Models!States
<1>4. CASE Models!Judge
  <2>1. runId \in 0..MaxRuns /\ mine \in [I -> 0..MaxRuns]
    BY DEF RunTypes
  <2>2. mine' \in [I -> 0..MaxRuns]
    BY <1>4, <2>1, JudgeChanges
  <2>3. target' \in I
    BY <1>0, <1>4, JudgeChanges DEF RunTypes, Models!NextTarget
  <2>. QED
    BY <1>0, <1>4, <2>1, <2>2, <2>3, JudgeChanges DEF RunTypes
<1>5. CASE Models!Replace
  BY <1>0, <1>5 DEF RunTypes, Models!Replace
<1>6. CASE Models!Save
  BY <1>0, <1>6 DEF RunTypes, Models!Save, Models!NextTarget
<1>7. CASE Models!RunDies
  <2>1. files' \in [Models!RunIds -> [I -> Models!States]]
    <3>1. files \in [Models!RunIds -> [I -> Models!States]] /\ "torn" \in Models!States
      BY DEF RunTypes, Models!States
    <3>. QED
      BY <1>7, <3>1 DEF Models!RunDies
  <2>. QED
    BY <1>0, <1>7, <2>1 DEF RunTypes, Models!RunDies
<1>8. CASE UNCHANGED runVars
  BY <1>8 DEF RunTypes, runVars
<1>. QED
  BY <1>1, <1>2, <1>3, <1>4, <1>5, <1>6, <1>7, <1>8 DEF RunsOrNot

LEMMA WholeKept ==
  ASSUME ~AnyHour, RunTypes, RunTypes', WholeInv, RunsOrNot
  PROVE  WholeInv'
<1>. DEFINE I == Models!Indexes
<1>0. /\ Targets \in Nat \ {0} /\ MaxRuns \in Nat
      /\ I = 1..Targets /\ Models!RunIds = 1..MaxRuns
      /\ \A i \in I : Models!NoModels[i] = 0
  BY ArtifactsAssumption DEF Models!Indexes, Models!RunIds, Models!NoModels
<1>1. CASE Models!StartRun
  BY <1>0, <1>1 DEF RunTypes, WholeInv, ChampionsAreWhole, Models!ChampionsAreWhole, Models!StartRun
<1>2. CASE Models!Skip
  BY <1>0, <1>2 DEF RunTypes, WholeInv, ChampionsAreWhole, Models!ChampionsAreWhole, Models!Skip,
    Models!NextTarget
<1>3. CASE Models!Dump
  <2>1. \A r \in Models!RunIds, i \in I : files[r][i] = "whole" => files'[r][i] = "whole"
    BY <1>0, <1>3 DEF RunTypes, Models!Dump
  <2>2. files'[runId'][target'] = "whole"
    BY <1>0, <1>3 DEF RunTypes, Models!Dump
  <2>3. UNCHANGED <<runId, mine, champions>> /\ runStep = "dump"
    BY <1>3 DEF Models!Dump
  <2>4. \A i \in I : champions[i] \in 0..MaxRuns /\ mine[i] \in 0..MaxRuns
    BY DEF RunTypes
  <2>5. ChampionsAreWhole' /\ \A i \in I : mine'[i] # 0 => files'[mine'[i]][i] = "whole"
    BY <1>0, <2>1, <2>3, <2>4 DEF WholeInv, ChampionsAreWhole, Models!ChampionsAreWhole
  <2>. QED
    BY <2>2, <2>3, <2>5 DEF WholeInv
<1>4. CASE Models!Judge
  <2>1. mine \in [I -> 0..MaxRuns]
    BY DEF RunTypes
  <2>2. \A i \in I : mine'[i] = mine[i] \/ (i = target /\ mine'[i] = runId)
    BY <1>4, <2>1, JudgeChanges
  <2>3. UNCHANGED <<files, champions, runId>> /\ runStep = "judge" /\ runStep' # "judge"
    BY <1>4, JudgeChanges
  <2>4. ChampionsAreWhole'
    BY <2>3 DEF WholeInv, ChampionsAreWhole, Models!ChampionsAreWhole
  <2>5. \A i \in I : (mine'[i] # 0 => files'[mine'[i]][i] = "whole") /\ mine'[i] <= runId'
    <3>1. runId \in Nat /\ files[runId][target] = "whole"
      BY <1>0, <2>3 DEF WholeInv, RunTypes
    <3>. QED
      BY <1>0, <2>2, <2>3, <3>1 DEF WholeInv
  <2>. QED
    BY <2>3, <2>4, <2>5 DEF WholeInv
<1>5. CASE Models!Replace
  <2>1. \A i \in I : mine[i] <= runId
    BY <1>0, <1>5 DEF RunTypes, WholeInv, Models!Replace
  <2>. QED
    BY <1>0, <1>5, <2>1 DEF RunTypes, WholeInv, ChampionsAreWhole, Models!ChampionsAreWhole, Models!Replace
<1>6. CASE Models!Save
  BY <1>0, <1>6 DEF RunTypes, WholeInv, ChampionsAreWhole, Models!ChampionsAreWhole, Models!Save,
    Models!NextTarget
<1>7. CASE Models!RunDies
  BY <1>0, <1>7 DEF RunTypes, WholeInv, ChampionsAreWhole, Models!ChampionsAreWhole, Models!RunDies
<1>8. CASE UNCHANGED runVars
  BY <1>8 DEF RunTypes, WholeInv, ChampionsAreWhole, Models!ChampionsAreWhole, runVars
<1>. QED
  BY <1>1, <1>2, <1>3, <1>4, <1>5, <1>6, <1>7, <1>8 DEF RunsOrNot

\* The champions in place are always whole on disk, when no run takes the hour of an earlier one.
THEOREM ChampionsStayWhole == ~AnyHour => (Spec => []ChampionsAreWhole)
<1>. SUFFICES ASSUME ~AnyHour PROVE Spec => []ChampionsAreWhole
  OBVIOUS
<1>1. Init => IInv
  BY InitInv
<1>2. IInv /\ [Next]_vars => IInv'
  BY StepRuns, TypesKept, WholeKept DEF IInv
<1>3. IInv => ChampionsAreWhole
  BY DEF IInv, WholeInv
<1>. QED
  BY <1>1, <1>2, <1>3, PTL DEF Spec

-----------------------------------------------------------------------------
(* The exam.                                                                 *)

\* What an exam promotes, when its day has rounds.
LEMMA JudgePromotes ==
  ASSUME RunTypes, Models!Judge, "none" \notin ExamSizes
  PROVE  \/ mine' = mine /\ beaten \subseteq beaten'
         \/ /\ mine' = [mine EXCEPT ![target] = runId] /\ beaten \subseteq beaten'
            /\ mine[target] # 0 => <<target, mine[target], runId>> \in beaten'
BY DEF Models!Judge, Models!Promoted

LEMMA ExamKept ==
  ASSUME "none" \notin ExamSizes, RunTypes, RunTypes', ExamInv, RunsOrNot
  PROVE  ExamInv'
<1>. DEFINE I == Models!Indexes
<1>0. Targets \in Nat \ {0} /\ I = 1..Targets
  BY ArtifactsAssumption DEF Models!Indexes
<1>1. CASE Models!StartRun
  BY <1>0, <1>1 DEF ExamInv, Models!StartRun
<1>2. CASE Models!Skip
  BY <1>0, <1>2 DEF RunTypes, ExamInv, Models!Skip, Models!NextTarget
<1>3. CASE Models!Dump
  BY <1>0, <1>3 DEF ExamInv, Models!Dump
<1>4. CASE Models!Judge
  <2>1. /\ UNCHANGED champions /\ runStep = "judge" /\ target \in I /\ mine \in [I -> 0..MaxRuns]
        /\ runStep' # "judge"
    BY <1>4, JudgeChanges DEF RunTypes
  <2>2. mine[target] = champions[target]
    BY <1>0, <2>1 DEF ExamInv
  <2>3. \A i \in I : mine'[i] # champions'[i] /\ champions'[i] # 0 => <<i, champions'[i], mine'[i]>> \in beaten'
    <3>1. CASE mine' = mine /\ beaten \subseteq beaten'
      BY <2>1, <3>1 DEF ExamInv
    <3>2. CASE /\ mine' = [mine EXCEPT ![target] = runId] /\ beaten \subseteq beaten'
               /\ mine[target] # 0 => <<target, mine[target], runId>> \in beaten'
      BY <2>1, <2>2, <3>2 DEF ExamInv
    <3>. QED
      BY <1>4, <3>1, <3>2, JudgePromotes
  <2>4. runStep' = "dump" => target' = target + 1
    BY <1>4, JudgeChanges DEF Models!NextTarget
  <2>5. \A i \in I : i # target => mine'[i] = mine[i]
    BY <1>4, <2>1, JudgeChanges
  <2>6. runStep' = "dump" => \A i \in I : i >= target' => mine'[i] = champions'[i]
    BY <1>0, <2>1, <2>4, <2>5 DEF ExamInv
  <2>. QED
    BY <2>1, <2>3, <2>6 DEF ExamInv
<1>5. CASE Models!Replace
  BY <1>5 DEF ExamInv, Models!Replace
<1>6. CASE Models!Save
  BY <1>6 DEF ExamInv, Models!Save, Models!NextTarget
<1>7. CASE Models!RunDies
  BY <1>7 DEF ExamInv, Models!RunDies
<1>8. CASE UNCHANGED runVars
  BY <1>8 DEF ExamInv, runVars
<1>. QED
  BY <1>1, <1>2, <1>3, <1>4, <1>5, <1>6, <1>7, <1>8 DEF RunsOrNot

LEMMA StepExamined ==
  ASSUME RunTypes, ExamInv, RunsOrNot
  PROVE  \A i \in 1..Targets : champions[i] # 0 /\ champions'[i] # champions[i]
           => <<i, champions[i], champions'[i]>> \in beaten
<1>1. CASE Models!Replace
  BY <1>1 DEF ExamInv, Models!Replace, Models!Indexes
<1>2. CASE ~Models!Replace
  BY <1>2 DEF RunsOrNot, Models!StartRun, Models!Skip, Models!Dump, Models!Judge, Models!Save,
    Models!RunDies, runVars
<1>. QED
  BY <1>1, <1>2

\* A champion is replaced only by a challenger that passed an exam against it, when there is no day
\* of exam without a round.
THEOREM ChampionsAreBeaten == "none" \notin ExamSizes => (Spec => ReplacedAfterExam)
<1>. SUFFICES ASSUME "none" \notin ExamSizes PROVE Spec => ReplacedAfterExam
  OBVIOUS
<1>. DEFINE EInv == RunTypes /\ ExamInv
<1>1. Init => EInv
  BY InitInv DEF IInv
<1>2. EInv /\ [Next]_vars => EInv'
  BY StepRuns, TypesKept, ExamKept
<1>3. EInv /\ [Next]_vars =>
        [\A i \in 1..Targets : champions[i] # 0 /\ champions'[i] # champions[i]
           => <<i, champions[i], champions'[i]>> \in beaten]_vars
  BY StepRuns, StepExamined
<1>. QED
  BY <1>1, <1>2, <1>3, PTL DEF Spec, ReplacedAfterExam

-----------------------------------------------------------------------------
(* The types.                                                                *)

LEMMA ReportTypes ==
  ASSUME Reports!TypeOK,
         Reports!Cycle \/ Reports!Fault \/ Reports!Restart \/ Reports!Tomorrow \/ Reports!FiveMinutes
           \/ Reports!Resolve \/ UNCHANGED reportVars
  PROVE  Reports!TypeOK'
<1>0. /\ MaxDay \in Nat \ {0} /\ MaxRounds \in Nat
      /\ Reports!Days = 0..MaxDay /\ Reports!None = MaxDay + 1
  BY ArtifactsAssumption DEF Reports!Days, Reports!None
<1>a. Reports!Yesterday \in Reports!Days
  BY <1>0 DEF Reports!TypeOK, Reports!Yesterday
<1>. DEFINE P == [round : 1..MaxRounds, day : Reports!Days, kind : Reports!Kinds]
<1>b. \A k \in Reports!Kinds :
        logged < resolved => Append(journal, Reports!Piece(k)) \in Seq(P)
  <2>. SUFFICES ASSUME NEW k \in Reports!Kinds, logged < resolved
                PROVE  Append(journal, Reports!Piece(k)) \in Seq(P)
    OBVIOUS
  <2>1. journal \in Seq(P) /\ logged + 1 \in 1..MaxRounds /\ day \in Reports!Days
    BY <1>0 DEF Reports!TypeOK
  <2>2. Reports!Piece(k) \in P
    BY <2>1 DEF Reports!Piece
  <2>. QED
    BY <2>1, <2>2
<1>c. /\ "ended" \in Reports!Kinds /\ Reports!Cuts \subseteq Reports!Kinds
      /\ [told EXCEPT ![Reports!Yesterday] = @ + 1] \in [Reports!Days -> Nat]
  BY <1>a DEF Reports!TypeOK, Reports!Kinds
<1>d. Reports!Reload => logged' \in 0..resolved /\ dropped' \subseteq 1..MaxRounds
  BY DEF Reports!TypeOK, Reports!Reload
<1>1. CASE Reports!LogRound
  BY <1>0, <1>b, <1>c, <1>1 DEF Reports!TypeOK, Reports!LogRound
<1>2. CASE Reports!SaveState
  BY <1>0, <1>2 DEF Reports!TypeOK, Reports!SaveState
<1>3. CASE Reports!FirstReport
  BY <1>0, <1>a, <1>3 DEF Reports!TypeOK, Reports!FirstReport
<1>4. CASE Reports!NotDue
  BY <1>4 DEF Reports!TypeOK, Reports!NotDue, Reports!reportVars
<1>5. CASE Reports!NothingToTell
  BY <1>0, <1>a, <1>5 DEF Reports!TypeOK, Reports!NothingToTell
<1>6. CASE Reports!Tell
  BY <1>0, <1>a, <1>c, <1>6 DEF Reports!TypeOK, Reports!Tell
<1>7. CASE Reports!SaveDate
  BY <1>0, <1>7 DEF Reports!TypeOK, Reports!SaveDate
<1>8. CASE Reports!CutByDeath
  BY <1>0, <1>b, <1>c, <1>d, <1>8 DEF Reports!TypeOK, Reports!CutByDeath
<1>9. CASE Reports!LogFails
  <2>1. /\ UNCHANGED <<day, early, resolved, saved, last, told, reporting, dated>>
        /\ \/ journal' = journal
           \/ logged < resolved /\ \E k \in Reports!Cuts : journal' = Append(journal, Reports!Piece(k))
    BY <1>9 DEF Reports!LogFails
  <2>2. journal' \in Seq(P)
    BY <1>b, <1>c, <2>1 DEF Reports!TypeOK
  <2>3. \/ UNCHANGED <<logged, dropped>>
        \/ \E n \in logged..resolved : logged' = n /\ dropped' = dropped \cup ((logged + 1)..n)
    BY <1>9 DEF Reports!LogFails
  <2>4. logged' \in 0..resolved /\ dropped' \subseteq 1..MaxRounds
    <3>1. logged \in 0..resolved /\ resolved \in 0..MaxRounds /\ dropped \subseteq 1..MaxRounds
      BY DEF Reports!TypeOK
    <3>2. CASE UNCHANGED <<logged, dropped>>
      BY <3>1, <3>2
    <3>3. ASSUME NEW n \in logged..resolved, logged' = n, dropped' = dropped \cup ((logged + 1)..n)
          PROVE  logged' \in 0..resolved /\ dropped' \subseteq 1..MaxRounds
      <4>1. n \in Int /\ logged <= n /\ n <= resolved /\ resolved <= MaxRounds
            /\ logged \in Nat /\ resolved \in Nat /\ MaxRounds \in Nat
        BY <1>0, <3>1
      <4>2. (logged + 1)..n \subseteq 1..MaxRounds
        BY <4>1
      <4>. QED
        BY <3>1, <3>3, <4>1, <4>2
    <3>. QED
      BY <2>3, <3>2, <3>3
  <2>. QED
    BY <2>1, <2>2, <2>4 DEF Reports!TypeOK
<1>10. CASE Reports!Die
  BY <1>0, <1>d, <1>10 DEF Reports!TypeOK, Reports!Die
<1>11. CASE Reports!TellInVain
  BY <1>c, <1>11 DEF Reports!TypeOK, Reports!TellInVain
<1>12. CASE Reports!SaveFails
  BY <1>0, <1>12 DEF Reports!TypeOK, Reports!SaveFails
<1>13. CASE Reports!Restart
  BY <1>13 DEF Reports!TypeOK, Reports!Restart, Reports!reportVars
<1>14. CASE Reports!Tomorrow
  BY <1>0, <1>14 DEF Reports!TypeOK, Reports!Tomorrow
<1>15. CASE Reports!FiveMinutes
  BY <1>15 DEF Reports!TypeOK, Reports!FiveMinutes
<1>16. CASE Reports!Resolve
  BY <1>0, <1>16 DEF Reports!TypeOK, Reports!Resolve
<1>17. CASE UNCHANGED reportVars
  BY <1>17 DEF Reports!TypeOK, reportVars
<1>18. CASE Reports!DateUnread
  BY <1>0, <1>a, <1>18 DEF Reports!TypeOK, Reports!DateUnread
<1>. QED
  BY <1>1, <1>2, <1>3, <1>4, <1>5, <1>6, <1>7, <1>8, <1>9, <1>10, <1>11, <1>12, <1>13, <1>14, <1>15, <1>16,
     <1>17, <1>18 DEF Reports!Cycle, Reports!Fault

\* The files of the evaluation, and the history of the exams.
MoreRunTypes ==
  /\ evals \in [Models!RunIds -> [Models!Indexes -> Models!States]]
  /\ beaten \subseteq Models!Indexes \X Models!RunIds \X Models!RunIds

LEMMA MoreTypesKept ==
  ASSUME RunTypes, MoreRunTypes, RunsOrNot PROVE MoreRunTypes'
<1>1. CASE Models!Judge
  <2>1. beaten' \in {beaten, beaten \cup {<<target, mine[target], runId>>}}
    BY <1>1 DEF Models!Judge
  <2>2. beaten' # beaten => mine[target] # 0
    BY <1>1 DEF Models!Judge
  <2>3. target \in Models!Indexes /\ runId \in Models!RunIds
        /\ (mine[target] # 0 => mine[target] \in Models!RunIds)
    BY <1>1, ArtifactsAssumption DEF RunTypes, Models!Judge, Models!RunIds
  <2>. QED
    BY <1>1, <2>1, <2>2, <2>3 DEF MoreRunTypes, Models!Judge
<1>2. CASE Models!Save
  <2>1. evals' \in [Models!RunIds -> [Models!Indexes -> Models!States]]
    <3>1. "torn" \in Models!States /\ "whole" \in Models!States
      BY DEF Models!States
    <3>. QED
      BY <1>2, <3>1 DEF MoreRunTypes, Models!Save
  <2>. QED
    BY <1>2, <2>1 DEF MoreRunTypes, Models!Save
<1>3. CASE ~Models!Judge /\ ~Models!Save
  BY <1>3 DEF RunsOrNot, MoreRunTypes, Models!StartRun, Models!Skip, Models!Dump, Models!Replace,
    Models!RunDies, runVars
<1>. QED
  BY <1>1, <1>2, <1>3

\* What the service has read.
LoadTypes ==
  /\ newest \in [run : 0..MaxRuns, has : SUBSET Models!Indexes]
  /\ sig \in (0..MaxRuns) \X [Models!Indexes -> 0..MaxRuns]
  /\ served \in [Models!Indexes -> 0..MaxRuns]

LEMMA LoadTypesKept ==
  ASSUME RunTypes, LoadTypes,
         Models!ReadNewest \/ Models!ReadChampions \/ Models!Forget \/ UNCHANGED loadVars
  PROVE  LoadTypes'
<1>. DEFINE I == Models!Indexes
<1>0. /\ MaxRuns \in Nat /\ 0 \in 0..MaxRuns
      /\ Models!NoModels \in [I -> 0..MaxRuns]
      /\ champions \in [I -> 0..MaxRuns] /\ {} \in SUBSET I
  BY ArtifactsAssumption DEF Models!NoModels, RunTypes
<1>1. CASE Models!ReadNewest
  <2>1. UNCHANGED <<sig, served>> /\ Models!Nothing \in [run : 0..MaxRuns, has : SUBSET I]
    BY <1>0, <1>1 DEF Models!ReadNewest, Models!Nothing
  <2>2. CASE newest' = Models!Nothing
    BY <2>1, <2>2 DEF LoadTypes
  <2>3. CASE \E r \in Models!RunIds : newest' = [run |-> r, has |-> {i \in I : evals[r][i] = "whole"}]
    BY <1>0, <2>1, <2>3 DEF LoadTypes, Models!RunIds
  <2>. QED
    BY <1>1, <2>2, <2>3 DEF Models!ReadNewest
<1>2. CASE Models!ReadChampions
  <2>1. newest' \in [run : 0..MaxRuns, has : SUBSET I]
    BY <1>0, <1>2 DEF Models!ReadChampions, Models!Nothing
  <2>2. sig' \in {sig, <<newest.run, champions>>}
    BY <1>2 DEF Models!ReadChampions, Models!Signature
  <2>. DEFINE M == [i \in I |->
         IF champions[i] # 0 THEN champions[i] ELSE IF i \in newest.has THEN newest.run ELSE 0]
  <2>3. served' \in {served, M}
    BY <1>2 DEF Models!ReadChampions
  <2>4. newest.run \in 0..MaxRuns
    BY DEF LoadTypes
  <2>5. M \in [I -> 0..MaxRuns]
    BY <1>0, <2>4
  <2>. QED
    BY <1>0, <2>1, <2>2, <2>3, <2>4, <2>5 DEF LoadTypes
<1>3. CASE Models!Forget
  BY <1>0, <1>3 DEF LoadTypes, Models!Forget, Models!NoSig, Models!Nothing
<1>4. CASE UNCHANGED loadVars
  BY <1>4 DEF LoadTypes, loadVars
<1>. QED
  BY <1>1, <1>2, <1>3, <1>4

TypeInv ==
  /\ RunTypes /\ MoreRunTypes /\ LoadTypes /\ Reports!TypeOK
  /\ step \in {"down", "load", "champions", "log", "report", "date"}
  /\ faults \in 0..MaxFaults

LEMMA TypeInvInit == Init => TypeInv
<1>. SUFFICES ASSUME Init PROVE TypeInv
  OBVIOUS
<1>0. MaxRuns \in Nat /\ MaxDay \in Nat \ {0} /\ MaxRounds \in Nat /\ MaxFaults \in Nat
  BY ArtifactsAssumption
<1>1. RunTypes
  BY InitInv DEF IInv
<1>2. MoreRunTypes
  BY DEF Init, Models!Init, MoreRunTypes, Models!States
<1>3. LoadTypes
  BY <1>0 DEF Init, Models!Init, LoadTypes, Models!NoSig, Models!NoModels, Models!Nothing
<1>4. Reports!TypeOK
  <2>1. /\ journal = <<>> /\ dropped = {} /\ dated = {} /\ told = [d \in Reports!Days |-> 0]
        /\ day = 1 /\ early = FALSE /\ resolved = 0 /\ logged = 0 /\ saved = 0
        /\ last = Reports!None /\ reporting = 0
    BY DEF Init, Reports!Init
  <2>2. journal \in Seq([round : 1..MaxRounds, day : Reports!Days, kind : Reports!Kinds])
    BY <2>1
  <2>3. told \in [Reports!Days -> Nat] /\ dropped \subseteq 1..MaxRounds /\ dated \subseteq Reports!Days
    BY <2>1
  <2>4. /\ day \in 1..MaxDay /\ early \in BOOLEAN
        /\ resolved \in 0..MaxRounds /\ logged \in 0..resolved /\ saved \in 0..resolved
        /\ last \in Reports!Days \cup {Reports!None} /\ reporting \in Reports!Days
    <3>1. /\ 1 \in 1..MaxDay /\ 0 \in 0..MaxRounds /\ 0 \in 0..0 /\ 0 \in Reports!Days
      BY <1>0 DEF Reports!Days
    <3>2. day \in 1..MaxDay /\ early \in BOOLEAN
      BY <2>1, <3>1
    <3>3. resolved \in 0..MaxRounds /\ logged \in 0..resolved /\ saved \in 0..resolved
      BY <2>1, <3>1
    <3>4. last \in Reports!Days \cup {Reports!None} /\ reporting \in Reports!Days
      BY <2>1, <3>1
    <3>. QED
      BY <3>2, <3>3, <3>4
  <2>. QED
    BY <2>2, <2>3, <2>4 DEF Reports!TypeOK
<1>5. step = "load" /\ faults = 0
  BY DEF Init
<1>. QED
  BY <1>0, <1>1, <1>2, <1>3, <1>4, <1>5 DEF TypeInv

LEMMA StepTypes ==
  ASSUME TypeInv, [Next]_vars
  PROVE  /\ step' \in {"down", "load", "champions", "log", "report", "date"}
         /\ faults' \in 0..MaxFaults
<1>1. faults' \in 0..MaxFaults
  <2>1. faults' = faults \/ (faults < MaxFaults /\ faults' = faults + 1)
    BY DEF Next, vars, StartRun, RunStep, RunDies, Service, LoadModels, LogAndReport, Restart, Fault,
      ReadKills, World
  <2>. QED
    BY <2>1, ArtifactsAssumption DEF TypeInv
<1>2. CASE Reports!Cycle \/ Reports!Fault \/ Reports!Restart \/ Reports!Die
  BY <1>1, <1>2 DEF TypeInv, Reports!Cycle, Reports!Fault, Reports!Restart, Reports!LogRound, Reports!SaveState,
    Reports!FirstReport, Reports!NotDue, Reports!NothingToTell, Reports!Tell, Reports!SaveDate,
    Reports!CutByDeath, Reports!LogFails, Reports!Die, Reports!DateUnread, Reports!TellInVain,
    Reports!SaveFails
<1>3. CASE Models!ReadNewest \/ Models!ReadChampions
  BY <1>1, <1>3 DEF Models!ReadNewest, Models!ReadChampions
<1>4. CASE step' = step
  BY <1>1, <1>4 DEF TypeInv
<1>5. \/ Reports!Cycle \/ Reports!Fault \/ Reports!Restart \/ Reports!Die
      \/ Models!ReadNewest \/ Models!ReadChampions \/ step' = step
  BY DEF Next, vars, StartRun, RunStep, RunDies, Service, LoadModels, LogAndReport, Restart, Fault,
    ReadKills, World, Reports!Tomorrow, Reports!FiveMinutes, Reports!Resolve
<1>. QED
  BY <1>2, <1>3, <1>4, <1>5

LEMMA TypeInvKept == TypeInv /\ [Next]_vars => TypeInv'
<1>. SUFFICES ASSUME TypeInv, [Next]_vars PROVE TypeInv'
  OBVIOUS
<1>1. RunTypes' /\ MoreRunTypes'
  BY StepRuns, TypesKept, MoreTypesKept DEF TypeInv
<1>2. Models!ReadNewest \/ Models!ReadChampions \/ Models!Forget \/ UNCHANGED loadVars
  BY DEF Next, vars, StartRun, RunStep, RunDies, Service, LoadModels, LogAndReport, Restart, Fault,
    ReadKills, World
<1>3. Reports!Cycle \/ Reports!Fault \/ Reports!Restart \/ Reports!Tomorrow \/ Reports!FiveMinutes
        \/ Reports!Resolve \/ UNCHANGED reportVars
  BY DEF Next, vars, StartRun, RunStep, RunDies, Service, LoadModels, LogAndReport, Restart, Fault,
    ReadKills, World, Reports!Fault
<1>. QED
  BY <1>1, <1>2, <1>3, LoadTypesKept, ReportTypes, StepTypes DEF TypeInv

\* The type invariant of the two programs that share the volume.
THEOREM ArtifactTypes == Spec => []TypeOK
<1>1. TypeInv => TypeOK
  BY DEF TypeInv, TypeOK, RunTypes, MoreRunTypes, LoadTypes, Models!TypeOK
<1>. QED
  BY <1>1, TypeInvInit, TypeInvKept, PTL DEF Spec

-----------------------------------------------------------------------------
(* The journal.                                                              *)

\* A round that is marked and was not dropped has an ended record, which may be glued to what is
\* before it, and what the disk says is never ahead of the memory.
JournalInv ==
  /\ saved <= logged
  /\ \A n \in (1..logged) \ dropped :
       \E i \in DOMAIN journal : journal[i].round = n /\ journal[i].kind = "ended"

\* Rounds leave the memory with a match whose append has failed.
Drops == \E n \in logged..resolved : logged' = n /\ dropped' = dropped \cup ((logged + 1)..n)

\* How a step changes the journal and the marks.
LEMMA StepJournal ==
  ASSUME [Next]_vars
  PROVE  \/ UNCHANGED <<journal, logged, saved, dropped>>
         \/ /\ journal' = Append(journal, Reports!Piece("ended")) /\ logged' = logged + 1
            /\ UNCHANGED <<saved, dropped>>
         \/ /\ journal' = journal \/ \E k \in Reports!Cuts : journal' = Append(journal, Reports!Piece(k))
            /\ Drops \/ Reports!Reload
            /\ saved' = saved
         \/ journal' = journal /\ logged' = logged /\ saved' = logged /\ dropped' = dropped
<1>1. CASE Reports!Cycle \/ Reports!Restart
  BY <1>1 DEF Reports!Cycle, Reports!Restart, Reports!LogRound, Reports!SaveState,
    Reports!FirstReport, Reports!NotDue, Reports!NothingToTell, Reports!Tell, Reports!SaveDate,
    Reports!reportVars
<1>2. CASE UNCHANGED <<journal, logged, saved, dropped>>
  BY <1>2
<1>3. CASE Reports!CutByDeath \/ Reports!Die
  BY <1>3 DEF Reports!CutByDeath, Reports!Die
<1>4. CASE Reports!LogFails
  BY <1>4 DEF Reports!LogFails, Drops
<1>5. CASE Reports!DateUnread \/ Reports!TellInVain \/ Reports!SaveFails
  BY <1>5 DEF Reports!DateUnread, Reports!TellInVain, Reports!SaveFails
<1>6. \/ Reports!Cycle \/ Reports!Fault \/ Reports!Restart \/ Reports!Die
      \/ UNCHANGED <<journal, logged, saved, dropped>>
  BY DEF Next, vars, reportVars, StartRun, RunStep, RunDies, Service, LoadModels, LogAndReport, Restart,
    Fault, ReadKills, World, Reports!Tomorrow, Reports!FiveMinutes, Reports!Resolve
<1>. QED
  BY <1>1, <1>2, <1>3, <1>4, <1>5, <1>6 DEF Reports!Fault

LEMMA JournalKept ==
  ASSUME TypeInv, JournalInv, [Next]_vars
  PROVE  JournalInv'
<1>. DEFINE P == [round : 1..MaxRounds, day : Reports!Days, kind : Reports!Kinds]
            Written(j, n) == \E i \in DOMAIN j : j[i].round = n /\ j[i].kind = "ended"
<1>0. /\ journal \in Seq(P) /\ logged \in Nat /\ saved \in Nat /\ saved <= logged
      /\ \A n \in (1..logged) \ dropped : Written(journal, n)
  BY ArtifactsAssumption DEF TypeInv, Reports!TypeOK, JournalInv
<1>1. ASSUME NEW k, NEW n, Written(journal, n)
      PROVE  Written(Append(journal, Reports!Piece(k)), n)
  <2>1. PICK i \in 1..Len(journal) : journal[i].round = n /\ journal[i].kind = "ended"
    BY <1>0, <1>1
  <2>2. /\ i \in 1..Len(Append(journal, Reports!Piece(k)))
        /\ Append(journal, Reports!Piece(k))[i] = journal[i]
    BY <1>0, <2>1
  <2>3. DOMAIN Append(journal, Reports!Piece(k)) = 1..Len(Append(journal, Reports!Piece(k)))
    BY <1>0
  <2>. QED
    BY <2>1, <2>2, <2>3
<1>a. \A n \in 1..(logged + 1) : n \in 1..logged \/ n = logged + 1
  BY <1>0
<1>b. JournalInv' <=> saved' <= logged' /\ \A n \in (1..logged') \ dropped' : Written(journal', n)
  BY DEF JournalInv
<1>. HIDE DEF Written
<1>2. CASE UNCHANGED <<journal, logged, saved, dropped>>
  BY <1>2 DEF JournalInv
<1>3. CASE /\ journal' = Append(journal, Reports!Piece("ended")) /\ logged' = logged + 1
           /\ UNCHANGED <<saved, dropped>>
  <2>1. Written(journal', logged + 1)
    <3>1. /\ Len(journal) + 1 \in DOMAIN journal'
          /\ journal'[Len(journal) + 1] = Reports!Piece("ended")
      BY <1>0, <1>3
    <3>. QED
      BY <3>1 DEF Reports!Piece, Written
  <2>2. \A n \in (1..logged) \ dropped : Written(journal', n)
    BY <1>0, <1>1, <1>3
  <2>3. \A n \in (1..logged') \ dropped' : Written(journal', n)
    BY <1>a, <1>3, <2>1, <2>2
  <2>. QED
    BY <1>0, <1>b, <1>3, <2>3
<1>4. CASE /\ journal' = journal \/ \E k \in Reports!Cuts : journal' = Append(journal, Reports!Piece(k))
           /\ Drops \/ Reports!Reload
           /\ saved' = saved
  <2>1. \A n \in (1..logged) \ dropped : Written(journal', n)
    BY <1>0, <1>1, <1>4
  <2>2. CASE Drops
    <3>1. PICK k \in logged..resolved : logged' = k /\ dropped' = dropped \cup ((logged + 1)..k)
      BY <2>2 DEF Drops
    <3>2. k \in Int /\ logged <= k
      BY <1>0, <3>1 DEF TypeInv, Reports!TypeOK
    <3>3. \A n \in (1..logged') \ dropped' : n \in (1..logged) \ dropped
      BY <1>0, <3>1, <3>2
    <3>. QED
      BY <1>0, <1>b, <1>4, <2>1, <3>1, <3>2, <3>3
  <2>3. CASE Reports!Reload
    <3>1. \A n \in (1..logged') \ dropped' : n \in (1..logged) \ dropped
      BY <1>0, <2>3 DEF Reports!Reload
    <3>2. saved' <= logged'
      BY <1>0, <1>4, <2>3 DEF Reports!Reload
    <3>. QED
      BY <1>b, <2>1, <3>1, <3>2
  <2>. QED
    BY <1>4, <2>2, <2>3
<1>5. CASE journal' = journal /\ logged' = logged /\ saved' = logged /\ dropped' = dropped
  BY <1>0, <1>b, <1>5
<1>. QED
  BY <1>2, <1>3, <1>4, <1>5, StepJournal

\* An ended record that cannot be read is glued to the piece before it, which a cut has left without
\* its end: each lost round is charged to the cut before its record.
LEMMA LostAreCharged == TypeInv /\ JournalInv => LossIsExplained
<1>. SUFFICES ASSUME TypeInv, JournalInv, ~Reports!Garbled PROVE LossIsExplained
  BY DEF LossIsExplained
<1>. DEFINE Lost == {n \in (1..logged) \ dropped :
                        ~\E i \in DOMAIN journal : Reports!Readable(i) /\ journal[i].round = n}
            Cuts == {i \in DOMAIN journal : journal[i].kind # "ended"}
            At(n) == CHOOSE i \in DOMAIN journal : journal[i].round = n /\ journal[i].kind = "ended"
            Before == [n \in Lost |-> At(n) - 1]
<1>0. DOMAIN journal = 1..Len(journal) /\ Len(journal) \in Nat
  BY DEF TypeInv, Reports!TypeOK
<1>1. \A n \in Lost : At(n) \in DOMAIN journal /\ journal[At(n)].round = n /\ journal[At(n)].kind = "ended"
  BY DEF JournalInv
<1>2. ASSUME NEW n \in Lost PROVE At(n) - 1 \in Cuts
  <2>1. At(n) > 1 /\ journal[At(n) - 1].kind # "ended"
    BY <1>1 DEF Reports!Readable
  <2>. QED
    BY <1>0, <1>1, <2>1
<1>3. Before \in [Lost -> Cuts]
  BY <1>2
<1>4. ASSUME NEW n \in Lost, NEW m \in Lost, Before[n] = Before[m] PROVE n = m
  <2>1. At(n) - 1 = At(m) - 1
    BY <1>4
  <2>2. At(n) = At(m)
    BY <1>0, <1>1, <2>1
  <2>. QED
    BY <1>1, <2>2
<1>5. IsFiniteSet(Cuts)
  <2>1. IsFiniteSet(1..Len(journal))
    BY <1>0, FS_Interval
  <2>. QED
    BY <1>0, <2>1, FS_Subset
<1>6. Before \in Injection(Lost, Cuts)
  BY <1>3, <1>4 DEF Injection, IsInjective
<1>7. Cardinality(Lost) <= Cardinality(Cuts)
  BY <1>5, <1>6, FS_Injection
<1>. QED
  BY <1>7 DEF LossIsExplained

\* In a journal that can be decoded, each round that is marked, was not dropped by _forget_old and
\* is read nowhere is paid by a write of its own that was cut.
THEOREM LossesAreExplained == Spec => []LossIsExplained
<1>1. Init => JournalInv
  BY DEF Init, Reports!Init, JournalInv
<1>2. TypeInv /\ JournalInv /\ [Next]_vars => JournalInv'
  BY JournalKept
<1>. QED
  BY <1>1, <1>2, TypeInvInit, TypeInvKept, LostAreCharged, PTL DEF Spec

-----------------------------------------------------------------------------
(* The daily report.                                                         *)

\* The report in hand is of a day that is over, not dated yet, and has reached the chat; a message
\* too many of a day that is not dated, or whose date is to come, is paid by a fault; and each day that
\* was dated with no message had nothing to tell.
ReportInv ==
  /\ last # Reports!None => last < day
  /\ \A d \in dated : d < day
  /\ step = "date" =>
       last # Reports!None /\ last < reporting /\ reporting < day /\ told[reporting] >= 1
  /\ \A d \in Reports!Days :
       /\ told[d] <= 1 + faults
       /\ (last = Reports!None \/ last < d) /\ ~(step = "date" /\ reporting = d) => told[d] <= faults
       /\ (d \in dated /\ Reports!HasRecords(d)) => told[d] >= 1

\* What is written today adds nothing to a day that is over.
LEMMA PastRecords ==
  ASSUME TypeInv, [Next]_vars, NEW d \in Reports!Days, d < day, Reports!HasRecords(d)'
  PROVE  Reports!HasRecords(d)
<1>. DEFINE P == [round : 1..MaxRounds, day : Reports!Days, kind : Reports!Kinds]
<1>0. journal \in Seq(P) /\ day \in Nat /\ d \in Nat
  BY ArtifactsAssumption DEF TypeInv, Reports!TypeOK, Reports!Days
<1>1. PICK i \in DOMAIN journal' : Reports!Readable(i)' /\ journal'[i].day = d
  BY DEF Reports!HasRecords
<1>2. journal' = journal \/ \E k : journal' = Append(journal, Reports!Piece(k))
  BY StepJournal
<1>3. CASE journal' = journal
  BY <1>1, <1>3 DEF Reports!HasRecords, Reports!Readable, Reports!Garbled
<1>4. ASSUME NEW k, journal' = Append(journal, Reports!Piece(k)) PROVE Reports!HasRecords(d)
  <2>1. Len(journal) \in Nat /\ Len(journal') = Len(journal) + 1 /\ DOMAIN journal = 1..Len(journal)
        /\ DOMAIN journal' = 1..(Len(journal) + 1)
        /\ journal'[Len(journal) + 1] = Reports!Piece(k)
        /\ \A n \in 1..Len(journal) : journal'[n] = journal[n]
    BY <1>0, <1>4
  <2>2. Reports!Piece(k).day = day
    BY DEF Reports!Piece
  <2>3. i \in 1..Len(journal)
    BY <1>0, <1>1, <2>1, <2>2
  <2>4. journal[i].day = d /\ journal[i].kind = "ended"
    BY <1>1, <2>1, <2>3 DEF Reports!Readable
  <2>5. i > 1 => journal[i - 1].kind = "ended"
    BY <1>1, <2>1, <2>3 DEF Reports!Readable
  <2>6. ~Reports!Garbled
    <3>1. ~\E n \in DOMAIN journal' : journal'[n].kind = "garbled"
      BY <1>1 DEF Reports!Readable, Reports!Garbled
    <3>. QED
      BY <2>1, <3>1 DEF Reports!Garbled
  <2>. QED
    BY <2>1, <2>3, <2>4, <2>5, <2>6 DEF Reports!HasRecords, Reports!Readable
<1>. QED
  BY <1>2, <1>3, <1>4

\* The steps of the report, one by one.
LEMMA StepReport ==
  ASSUME TypeInv, [Next]_vars
  PROVE  \/ Reports!FirstReport /\ faults' = faults
         \/ Reports!DateUnread /\ faults' = faults + 1
         \/ Reports!NothingToTell /\ faults' = faults
         \/ Reports!Tell /\ faults' = faults
         \/ Reports!TellInVain /\ faults' = faults + 1
         \/ Reports!SaveDate /\ faults' = faults
         \/ Reports!SaveFails /\ faults' = faults + 1
         \/ Reports!Tomorrow /\ faults' = faults
         \/ /\ UNCHANGED <<day, last, told, dated>> /\ reporting' \in {reporting, 0}
            /\ \/ faults' = faults + 1 /\ step' # "date"
               \/ faults' = faults /\ step # "date" /\ step' # "date"
               \/ faults' \in {faults, faults + 1} /\ UNCHANGED <<step, reporting>>
<1>1. CASE Reports!Cycle /\ faults' = faults
  BY <1>1 DEF Reports!Cycle, Reports!LogRound, Reports!SaveState, Reports!NotDue, Reports!reportVars
<1>2. CASE Reports!Fault /\ faults' = faults + 1
  BY <1>2 DEF Reports!Fault, Reports!CutByDeath, Reports!LogFails, Reports!Die
<1>3. CASE Reports!Restart /\ faults' = faults
  BY <1>3 DEF Reports!Restart, Reports!reportVars
<1>4. CASE ReadKills
  BY <1>4 DEF ReadKills, Models!CannotLoad, Reports!CannotRead, Reports!Die
<1>5. CASE Models!ReadNewest /\ UNCHANGED reportVars /\ faults' = faults
  BY <1>5 DEF Models!ReadNewest, reportVars
<1>6. CASE Models!ReadChampions /\ UNCHANGED reportVars /\ faults' = faults
  BY <1>6 DEF Models!ReadChampions, reportVars
<1>7. CASE World
  BY <1>7 DEF World, Reports!FiveMinutes, Reports!Resolve
<1>8. CASE UNCHANGED <<reportVars, step>> /\ faults' \in {faults, faults + 1}
  BY <1>8 DEF reportVars
<1>. QED
  BY <1>1, <1>2, <1>3, <1>4, <1>5, <1>6, <1>7, <1>8 DEF Next, vars, StartRun, RunStep, RunDies, Service,
    LoadModels, LogAndReport, Restart, Fault

LEMMA ReportKept ==
  ASSUME TypeInv, ReportInv, [Next]_vars
  PROVE  ReportInv'
<1>. DEFINE Days == Reports!Days  None == Reports!None  Y == Reports!Yesterday
<1>0. /\ MaxDay \in Nat /\ Days = 0..MaxDay /\ None = MaxDay + 1
      /\ day \in Nat /\ day >= 1 /\ day <= MaxDay /\ Y = day - 1 /\ Y \in Days
      /\ last \in Nat /\ faults \in Nat /\ told \in [Days -> Nat] /\ reporting \in Days
      /\ \A d \in Days : d \in Nat /\ d # None
  BY ArtifactsAssumption DEF TypeInv, Reports!TypeOK, Reports!Days, Reports!None, Reports!Yesterday
<1>1. \A d \in Days : d \in dated /\ Reports!HasRecords(d)' => Reports!HasRecords(d)
  BY <1>0, PastRecords DEF ReportInv
<1>2. CASE Reports!FirstReport /\ faults' = faults
  <2>1. /\ last = None /\ last' = Y /\ step = "report" /\ step' = "load"
        /\ UNCHANGED <<told, day, dated>>
    BY <1>2 DEF Reports!FirstReport
  <2>. QED
    BY <1>0, <1>1, <1>2, <2>1 DEF ReportInv
<1>10. CASE Reports!DateUnread /\ faults' = faults + 1
  <2>1. /\ last # None /\ last' = Y /\ step = "report" /\ step' = "load"
        /\ UNCHANGED <<told, day, dated>>
    BY <1>10 DEF Reports!DateUnread
  <2>2. last < day
    BY <2>1 DEF ReportInv
  <2>. QED
    BY <1>0, <1>1, <1>10, <2>1, <2>2 DEF ReportInv
<1>3. CASE Reports!NothingToTell /\ faults' = faults
  <2>1. /\ last # None /\ last < Y /\ last' = Y /\ step = "report" /\ step' = "load"
        /\ dated' = dated \cup {Y} /\ ~Reports!HasRecords(Y) /\ UNCHANGED <<told, day>>
    BY <1>3 DEF Reports!NothingToTell, Reports!Due
  <2>2. ASSUME NEW d \in Days, d = Y PROVE ~Reports!HasRecords(d)'
    <3>1. d < day /\ ~Reports!HasRecords(d)
      BY <1>0, <2>1, <2>2
    <3>. QED
      BY <3>1, PastRecords
  <2>3. \A d \in Days : d \in dated' /\ Reports!HasRecords(d)' => told[d] >= 1
    BY <1>1, <2>1, <2>2 DEF ReportInv
  <2>. QED
    BY <1>0, <1>3, <2>1, <2>3 DEF ReportInv
<1>4. CASE Reports!Tell /\ faults' = faults
  <2>1. /\ last # None /\ last < Y /\ step = "report" /\ step' = "date" /\ reporting' = Y
        /\ told' = [told EXCEPT ![Y] = @ + 1] /\ UNCHANGED <<last, day, dated>>
    BY <1>4 DEF Reports!Tell, Reports!Due
  <2>2. \A d \in Days : told'[d] = IF d = Y THEN told[d] + 1 ELSE told[d]
    BY <1>0, <2>1
  <2>. QED
    BY <1>0, <1>1, <1>4, <2>1, <2>2 DEF ReportInv
<1>5. CASE Reports!TellInVain /\ faults' = faults + 1
  <2>1. /\ last # None /\ last < Y /\ step = "report" /\ step' = "load"
        /\ told' \in {told, [told EXCEPT ![Y] = @ + 1]} /\ UNCHANGED <<last, day, dated>>
    BY <1>5 DEF Reports!TellInVain, Reports!Due
  <2>2. \A d \in Days : told'[d] = told[d] \/ (d = Y /\ told'[d] = told[d] + 1)
    BY <1>0, <2>1
  <2>3. \A d \in Days : told[d] \in Nat /\ told'[d] >= told[d]
    BY <1>0, <2>2
  <2>4. ASSUME NEW d \in Days
        PROVE  /\ told'[d] <= 1 + faults'
               /\ last' = None \/ last' < d => told'[d] <= faults'
    <3>1. /\ told[d] <= 1 + faults
          /\ last = None \/ last < d => told[d] <= faults
      BY <1>0, <2>1 DEF ReportInv
    <3>2. d = Y => last < d
      BY <2>1
    <3>3. told[d] \in Nat /\ (told'[d] = told[d] \/ (d = Y /\ told'[d] = told[d] + 1))
      BY <2>2, <2>3
    <3>4. faults \in Nat /\ faults' = faults + 1 /\ last' = last
      BY <1>0, <1>5, <2>1
    <3>5. told'[d] <= 1 + faults'
      BY <2>1, <3>1, <3>2, <3>3, <3>4
    <3>6. last' = None \/ last' < d => told'[d] <= faults'
      BY <3>1, <3>3, <3>4
    <3>. QED
      BY <3>5, <3>6
  <2>5. ASSUME NEW d \in Days, d \in dated', Reports!HasRecords(d)' PROVE told'[d] >= 1
    <3>1. d \in dated /\ Reports!HasRecords(d)
      BY <1>1, <2>1, <2>5
    <3>2. told[d] >= 1
      BY <3>1 DEF ReportInv
    <3>3. told[d] \in Nat /\ told'[d] \in Nat /\ told'[d] >= told[d]
      BY <2>2, <2>3
    <3>. QED
      BY <3>2, <3>3
  <2>. QED
    BY <1>0, <2>1, <2>4, <2>5 DEF ReportInv
<1>6. CASE Reports!SaveDate /\ faults' = faults
  <2>1. /\ step = "date" /\ step' = "load" /\ last' = reporting /\ dated' = dated \cup {reporting}
        /\ UNCHANGED <<told, day>>
    BY <1>6 DEF Reports!SaveDate
  <2>. QED
    BY <1>0, <1>1, <1>6, <2>1 DEF ReportInv
<1>7. CASE Reports!SaveFails /\ faults' = faults + 1
  <2>1. step = "date" /\ step' = "load" /\ UNCHANGED <<last, told, day, dated>>
    BY <1>7 DEF Reports!SaveFails
  <2>. QED
    BY <1>0, <1>1, <1>7, <2>1 DEF ReportInv
<1>8. CASE Reports!Tomorrow /\ faults' = faults
  <2>1. day' = day + 1 /\ UNCHANGED <<step, reporting, last, told, dated>>
    BY <1>8 DEF Reports!Tomorrow
  <2>2. \A d \in dated' : d \in Days /\ d < day'
    BY <1>0, <2>1 DEF ReportInv, TypeInv, Reports!TypeOK
  <2>3. last' # None => last' < day'
    BY <1>0, <2>1 DEF ReportInv
  <2>4. step' = "date" =>
          last' # None /\ last' < reporting' /\ reporting' < day' /\ told'[reporting'] >= 1
    BY <1>0, <2>1 DEF ReportInv
  <2>5. \A d \in Days :
          /\ told'[d] <= 1 + faults'
          /\ (last' = None \/ last' < d) /\ ~(step' = "date" /\ reporting' = d) => told'[d] <= faults'
          /\ (d \in dated' /\ Reports!HasRecords(d)') => told'[d] >= 1
    BY <1>1, <1>8, <2>1 DEF ReportInv
  <2>. QED
    BY <2>2, <2>3, <2>4, <2>5 DEF ReportInv
<1>9. CASE /\ UNCHANGED <<day, last, told, dated>> /\ reporting' \in {reporting, 0}
           /\ \/ faults' = faults + 1 /\ step' # "date"
              \/ faults' = faults /\ step # "date" /\ step' # "date"
              \/ faults' \in {faults, faults + 1} /\ UNCHANGED <<step, reporting>>
  BY <1>0, <1>1, <1>9 DEF ReportInv
<1>. QED
  BY <1>2, <1>3, <1>4, <1>5, <1>6, <1>7, <1>8, <1>9, <1>10, StepReport

\* The report of a day is published once, but for a message whose answer or whose date was lost, and
\* every day that was dated, but by a first start, had its report in the chat or no record to tell.
THEOREM ReportsAreKept == Spec => []ReportsAreAccounted
<1>1. TypeInv /\ Init => ReportInv
  <2>. SUFFICES ASSUME TypeInv, Init PROVE ReportInv
    OBVIOUS
  <2>1. /\ last = Reports!None /\ told = [d \in Reports!Days |-> 0] /\ dated = {}
        /\ step = "load" /\ faults = 0
    BY DEF Init, Reports!Init
  <2>2. \A d \in Reports!Days : d # Reports!None
    BY ArtifactsAssumption DEF Reports!Days, Reports!None
  <2>. QED
    BY <2>1, <2>2 DEF ReportInv
<1>2. TypeInv /\ ReportInv /\ [Next]_vars => ReportInv'
  BY ReportKept
<1>3. TypeInv /\ ReportInv => ReportsAreAccounted
  BY DEF TypeInv, Reports!TypeOK, ReportInv, ReportsAreAccounted
<1>. QED
  BY <1>1, <1>2, <1>3, TypeInvInit, TypeInvKept, PTL DEF Spec

=============================================================================
