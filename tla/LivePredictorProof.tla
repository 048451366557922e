------------------------- MODULE LivePredictorProof -------------------------
(***************************************************************************)
(* The prediction service keeps one prediction open at a time, journals each   *)
(* one once and sends no message in vain, but for its crashes, its lost        *)
(* answers and its failed edits: for any number of rounds and of faults.       *)
(***************************************************************************)
EXTENDS LivePredictor, FiniteSetTheorems, TLAPS

Preds == UNION {[S -> Prediction] : S \in SUBSET Rounds}
Messages == {Message(m) : m \in MatchState} \cup {Deleted}

Shape ==
  /\ played \in 0..MaxRounds
  /\ base \in [score : 0..MaxRounds, told : 0..MaxRounds, detailed : 0..MaxRounds, finished : BOOLEAN]
  /\ step \in {"idle", "scores", "finished", "rounds", "publish", "save"}
  /\ seen \in [score : 0..MaxRounds, finished : BOOLEAN]
  /\ mem \in MatchState \cup {None} /\ disk \in MatchState \cup {None}
  /\ journal \in [Rounds -> Nat]
  /\ chat \in Seq(Messages)
  /\ editFailures \in Nat /\ failedEdits \in Nat /\ lostSends \in Nat
  /\ hour \in BOOLEAN /\ faults \in [Kinds -> Nat]

\* Every round before a predicted one has its winner.
Ordered(preds) == \A k, n \in DOMAIN preds : k < n => preds[k].winner

\* The score read by a step, and that of the database, are not behind the predictions.
OrderInv ==
  /\ \A m \in {mem, disk} : m # None =>
       Ordered(m.preds) /\ \A n \in DOMAIN m.preds : n <= base.score + 1
  /\ step \in {"finished", "rounds"} =>
       seen.score <= base.score /\ (mem # None => \A n \in DOMAIN mem.preds : n <= seen.score + 1)

\* A match that is forgotten is over.
Fresh == mem = None /\ ~base.finished

\* What is not marked in memory was journalled once for each crash at most.
JournalInv ==
  /\ hour => base.finished
  /\ \A n \in Rounds :
       /\ journal[n] <= 1 + faults["crash"]
       /\ Fresh => journal[n] <= faults["crash"]
       /\ mem # None /\ (n \in DOMAIN mem.preds => ~mem.preds[n].logged) => journal[n] <= faults["crash"]

\* q messages were sent again after as many rows of MaxEditFailures failures.
Streak == IF editFailures < MaxEditFailures THEN editFailures ELSE MaxEditFailures
FirstSent == IF Fresh \/ (mem # None /\ mem.id = None) THEN 0 ELSE 1
MessageInv ==
  \E q \in Nat :
    /\ Len(chat) <= FirstSent + faults["crash"] + lostSends + q
    /\ q * MaxEditFailures + Streak <= failedEdits

IInv == Shape /\ OrderInv /\ JournalInv /\ MessageInv

-----------------------------------------------------------------------------
(* What a step does with the predictions.                                    *)

LEMMA ReadShape ==
  ASSUME NEW p \in Preds
  PROVE  /\ Read(p) \in Preds /\ DOMAIN Read(p) = DOMAIN p
         /\ \A n \in DOMAIN p : /\ Read(p)[n].winner <=> p[n].winner \/ n <= base.told
                                /\ Read(p)[n].logged <=> p[n].logged
<1>1. PICK S \in SUBSET Rounds : p \in [S -> Prediction]
  BY DEF Preds
<1>2. DOMAIN Read(p) = S /\ DOMAIN p = S
  BY <1>1 DEF Read
<1>3. ASSUME NEW n \in S
      PROVE  /\ Read(p)[n] \in Prediction
             /\ Read(p)[n].winner <=> p[n].winner \/ n <= base.told
             /\ Read(p)[n].logged <=> p[n].logged
  <2>1. p[n] \in Prediction
    BY <1>1
  <2>2. Read(p)[n] = [p[n] EXCEPT !.winner = @ \/ n <= base.told,
                                  !.detail = @ \/ (n \in WithDetail /\ n <= base.detailed)]
    BY <1>1 DEF Read
  <2>. QED
    BY <2>1, <2>2 DEF Prediction
<1>4. Read(p) \in [S -> Prediction]
  BY <1>2, <1>3 DEF Read
<1>. QED
  BY <1>2, <1>3, <1>4 DEF Preds

LEMMA LogInShape ==
  ASSUME NEW p \in Preds, NEW S
  PROVE  /\ LogIn(p, S) \in Preds /\ DOMAIN LogIn(p, S) = DOMAIN p
         /\ \A n \in DOMAIN p : /\ LogIn(p, S)[n].winner <=> p[n].winner
                                /\ LogIn(p, S)[n].logged <=> p[n].logged \/ n \in S
<1>1. PICK T \in SUBSET Rounds : p \in [T -> Prediction]
  BY DEF Preds
<1>2. DOMAIN LogIn(p, S) = T /\ DOMAIN p = T
  BY <1>1 DEF LogIn
<1>3. ASSUME NEW n \in T
      PROVE  /\ LogIn(p, S)[n] \in Prediction
             /\ LogIn(p, S)[n].winner <=> p[n].winner
             /\ LogIn(p, S)[n].logged <=> p[n].logged \/ n \in S
  <2>1. p[n] \in Prediction
    BY <1>1
  <2>2. LogIn(p, S)[n] = [p[n] EXCEPT !.logged = @ \/ n \in S]
    BY <1>1 DEF LogIn
  <2>. QED
    BY <2>1, <2>2 DEF Prediction
<1>4. LogIn(p, S) \in [T -> Prediction]
  BY <1>2, <1>3 DEF LogIn
<1>. QED
  BY <1>2, <1>3, <1>4 DEF Preds

LEMMA WithNextShape ==
  ASSUME NEW p \in Preds, NextRound \in Rounds, NextRound \notin DOMAIN p
  PROVE  /\ WithNext(p) \in Preds /\ DOMAIN WithNext(p) = DOMAIN p \cup {NextRound}
         /\ \A n \in DOMAIN p : WithNext(p)[n] = p[n]
         /\ ~WithNext(p)[NextRound].winner /\ ~WithNext(p)[NextRound].logged
<1>1. PICK S \in SUBSET Rounds : p \in [S -> Prediction]
  BY DEF Preds
<1>. DEFINE open == [winner |-> FALSE, detail |-> FALSE, logged |-> FALSE]
<1>2. open \in Prediction /\ ~open.winner /\ ~open.logged
  BY DEF Prediction
<1>3. WithNext(p) = [n \in S \cup {NextRound} |-> IF n \in S THEN p[n] ELSE open]
  BY <1>1 DEF WithNext
<1>. HIDE DEF open
<1>4. WithNext(p) \in [S \cup {NextRound} -> Prediction]
  BY <1>1, <1>2, <1>3
<1>. QED
  BY <1>1, <1>2, <1>3, <1>4 DEF Preds

-----------------------------------------------------------------------------
(* The inductive invariant.                                                  *)

LEMMA InitInv == Init => IInv
<1>. SUFFICES ASSUME Init PROVE IInv
  OBVIOUS
<1>1. Shape
  <2>1. base \in [score : 0..MaxRounds, told : 0..MaxRounds, detailed : 0..MaxRounds, finished : BOOLEAN]
    BY PredictorAssumption DEF Init
  <2>2. seen \in [score : 0..MaxRounds, finished : BOOLEAN] /\ played \in 0..MaxRounds
    BY PredictorAssumption DEF Init
  <2>3. journal \in [Rounds -> Nat] /\ faults \in [Kinds -> Nat]
    BY DEF Init
  <2>4. chat \in Seq(Messages)
    BY DEF Init
  <2>. QED
    BY <2>1, <2>2, <2>3, <2>4 DEF Init, Shape
<1>2. OrderInv /\ JournalInv
  BY DEF Init, OrderInv, JournalInv, Kinds
<1>3. MessageInv
  <2>1. Len(chat) = 0 /\ FirstSent = 0 /\ faults["crash"] = 0 /\ lostSends = 0 /\ failedEdits = 0 /\ Streak = 0
    BY PredictorAssumption DEF Init, FirstSent, Fresh, Streak, Kinds
  <2>2. 0 * MaxEditFailures = 0
    BY PredictorAssumption
  <2>. QED
    BY <2>1, <2>2 DEF MessageInv
<1>. QED
  BY <1>1, <1>2, <1>3 DEF IInv

\* The numbers of a state.
LEMMA Numbers ==
  ASSUME Shape
  PROVE  /\ faults["crash"] \in Nat /\ lostSends \in Nat /\ failedEdits \in Nat /\ editFailures \in Nat
         /\ Len(chat) \in Nat /\ Streak \in Nat /\ Streak <= MaxEditFailures
         /\ base.score \in Nat /\ base.told \in Nat /\ seen.score \in Nat
         /\ \A n \in Rounds : journal[n] \in Nat
BY PredictorAssumption DEF Shape, Kinds, Streak

LEMMA OtherFault ==
  ASSUME Shape, NEW k \in Kinds, Fault(k)
  PROVE  /\ faults' \in [Kinds -> Nat]
         /\ faults'["crash"] = IF k = "crash" THEN faults["crash"] + 1 ELSE faults["crash"]
BY DEF Shape, Fault, Kinds

\* A step that neither journals nor sends, and leaves the memory alone.
LEMMA Frame ==
  ASSUME Shape, JournalInv, MessageInv,
         UNCHANGED <<mem, journal, editFailures, failedEdits, lostSends>>, Len(chat') = Len(chat),
         faults'["crash"] = faults["crash"], base.finished => base'.finished, hour' => base'.finished
  PROVE  JournalInv' /\ MessageInv'
<1>1. JournalInv'
  BY DEF JournalInv, Fresh
<1>2. MessageInv'
  <2>1. FirstSent <= FirstSent' /\ FirstSent \in Nat /\ FirstSent' \in Nat /\ Streak' = Streak
    BY DEF FirstSent, Fresh, Streak
  <2>2. PICK q \in Nat :
          /\ Len(chat) <= FirstSent + faults["crash"] + lostSends + q
          /\ q * MaxEditFailures + Streak <= failedEdits
    BY DEF MessageInv
  <2>3. /\ Len(chat) \in Nat /\ lostSends \in Nat /\ faults["crash"] \in Nat
        /\ Len(chat) <= FirstSent + faults["crash"] + lostSends + q
    BY <2>2, Numbers
  <2>4. Len(chat) <= FirstSent' + faults["crash"] + lostSends + q
    BY <2>1, <2>3
  <2>5. /\ Len(chat') <= FirstSent' + faults'["crash"] + lostSends' + q
        /\ q * MaxEditFailures + Streak' <= failedEdits'
    BY <2>1, <2>2, <2>4
  <2>. QED
    BY <2>5 DEF MessageInv
<1>. QED
  BY <1>1, <1>2

LEMMA CollectorInv == IInv /\ Collector => IInv'
<1>. SUFFICES ASSUME IInv, Collector PROVE IInv'
  OBVIOUS
<1>. USE DEF IInv
<1>1. UNCHANGED <<step, seen, mem, disk, journal, talkVars, hour, faults>>
  BY DEF Collector, Play, WriteScore, WriteWinners, WriteDetails, WriteEnd, Write
<1>2. /\ played' \in 0..MaxRounds
      /\ base' \in [score : 0..MaxRounds, told : 0..MaxRounds, detailed : 0..MaxRounds, finished : BOOLEAN]
      /\ base.score <= base'.score /\ (base.finished => base'.finished)
  <2>0. /\ played \in 0..MaxRounds /\ MaxRounds \in Nat
        /\ base \in [score : 0..MaxRounds, told : 0..MaxRounds, detailed : 0..MaxRounds, finished : BOOLEAN]
    BY PredictorAssumption DEF Shape
  <2>1. CASE Play
    BY <2>1, PredictorAssumption DEF Play, Shape
  <2>2. CASE WriteScore
    <3>1. base' = [base EXCEPT !.score = played] /\ played' = played
      BY <2>2 DEF WriteScore, Write
    <3>. QED
      BY <2>2, <2>0, <3>1 DEF WriteScore
  <2>3. CASE WriteWinners
    <3>1. base' = [base EXCEPT !.told = played] /\ played' = played
      BY <2>3 DEF WriteWinners, Write
    <3>. QED
      BY <2>3, <2>0, <3>1 DEF WriteWinners
  <2>4. CASE WriteDetails
    <3>1. base' = [base EXCEPT !.detailed = base.told] /\ played' = played
      BY <2>4 DEF WriteDetails, Write
    <3>. QED
      BY <2>4, <2>0, <3>1 DEF WriteDetails
  <2>5. CASE WriteEnd
    <3>1. base' = [base EXCEPT !.finished = TRUE] /\ played' = played
      BY <2>5 DEF WriteEnd, Write
    <3>2. base'.score = base.score /\ base'.finished = TRUE
      BY <2>0, <3>1
    <3>3. base' \in [score : 0..MaxRounds, told : 0..MaxRounds, detailed : 0..MaxRounds, finished : BOOLEAN]
      BY <2>0, <3>1
    <3>4. base.score <= base'.score
      BY <2>0, <3>2
    <3>. QED
      BY <2>0, <3>1, <3>2, <3>3, <3>4
  <2>. QED
    BY <2>1, <2>2, <2>3, <2>4, <2>5 DEF Collector
<1>3. Shape'
  BY <1>1, <1>2 DEF Shape, talkVars
<1>4. OrderInv'
  <2>1. \A n \in Rounds : n <= base.score + 1 => n <= base'.score + 1
    BY <1>2, PredictorAssumption DEF Shape, Rounds
  <2>2. \A m \in {mem, disk} : m # None => DOMAIN m.preds \subseteq Rounds
    BY DEF Shape, MatchState
  <2>3. seen.score <= base.score => seen.score <= base'.score
    BY <1>2 DEF Shape
  <2>. QED
    BY <1>1, <2>1, <2>2, <2>3 DEF OrderInv
<1>5. JournalInv' /\ MessageInv'
  BY <1>1, <1>2, Frame DEF talkVars, JournalInv
<1>. QED
  BY <1>3, <1>4, <1>5

LEMMA WorldInv == IInv /\ (HourPasses \/ HalfMinute \/ DeleteMessage) => IInv'
<1>. SUFFICES ASSUME IInv, HourPasses \/ HalfMinute \/ DeleteMessage PROVE IInv'
  OBVIOUS
<1>. USE DEF IInv
<1>1. UNCHANGED <<baseVars, step, seen, mem, disk, journal, editFailures, failedEdits, lostSends>>
  BY DEF HourPasses, HalfMinute, DeleteMessage, talkVars
<1>2. (hour' => hour \/ base.finished) /\ hour' \in BOOLEAN
  <2>1. CASE HourPasses
    BY <2>1 DEF HourPasses
  <2>2. CASE HalfMinute \/ DeleteMessage
    <3>1. hour' = hour
      BY <2>2 DEF HalfMinute, DeleteMessage
    <3>. QED
      BY <3>1 DEF Shape
  <2>. QED
    BY <2>1, <2>2
<1>3. chat' \in Seq(Messages) /\ Len(chat') = Len(chat)
  <2>1. CASE UNCHANGED chat
    BY <2>1 DEF Shape
  <2>2. CASE \E i \in DOMAIN chat : chat' = [chat EXCEPT ![i] = Deleted]
    BY <2>2 DEF Shape, Messages
  <2>. QED
    BY <2>1, <2>2 DEF HourPasses, HalfMinute, DeleteMessage, talkVars
<1>4. faults' \in [Kinds -> Nat] /\ faults'["crash"] = faults["crash"]
  <2>1. CASE UNCHANGED faults
    BY <2>1 DEF Shape
  <2>2. CASE Fault("deletion")
    BY <2>2, OtherFault DEF Kinds
  <2>. QED
    BY <2>1, <2>2 DEF HourPasses, HalfMinute, DeleteMessage
<1>5. Shape'
  BY <1>1, <1>2, <1>3, <1>4 DEF Shape, baseVars
<1>6. OrderInv'
  BY <1>1 DEF OrderInv, baseVars
<1>7. JournalInv' /\ MessageInv'
  BY <1>1, <1>2, <1>3, <1>4, Frame DEF baseVars, JournalInv
<1>. QED
  BY <1>5, <1>6, <1>7

\* The match is seen for the first time, or again.
LEMMA BeginInv == \A other \in BOOLEAN : IInv /\ Begin(other) => IInv'
<1>. SUFFICES ASSUME NEW other \in BOOLEAN, IInv, Begin(other) PROVE IInv'
  OBVIOUS
<1>. USE DEF IInv
<1>1. /\ UNCHANGED <<baseVars, seen, disk, journal, talkVars, hour, faults>>
      /\ step' \in {"scores", "save"}
      /\ mem' = IF Fresh THEN NewMatch ELSE mem
  BY DEF Begin, Fresh
<1>2. NewMatch \in MatchState /\ DOMAIN NewMatch.preds = {} /\ NewMatch.id = None
  BY DEF NewMatch, MatchState, Prediction
<1>3. Shape'
  BY <1>1, <1>2 DEF Shape, baseVars, talkVars
<1>4. OrderInv'
  BY <1>1, <1>2 DEF OrderInv, Ordered, baseVars
<1>5. CASE ~Fresh
  <2>1. mem' = mem
    BY <1>1, <1>5
  <2>. QED
    BY <1>1, <1>3, <1>4, <2>1, Frame DEF baseVars, talkVars, JournalInv
<1>6. CASE Fresh
  <2>1. mem' = NewMatch /\ mem' # None /\ ~Fresh'
    BY <1>1, <1>2, <1>6, NoMatchAssumption DEF Fresh
  <2>2. JournalInv'
    BY <1>1, <1>2, <1>6, <2>1 DEF JournalInv, baseVars
  <2>3. FirstSent = 0 /\ FirstSent' = 0 /\ Streak' = Streak
    BY <1>1, <1>2, <1>6, <2>1 DEF FirstSent, Streak, talkVars
  <2>4. MessageInv'
    BY <1>1, <2>3 DEF MessageInv, talkVars
  <2>. QED
    BY <1>3, <1>4, <2>2, <2>4
<1>. QED
  BY <1>5, <1>6

LEMMA ReadInv == IInv /\ (ReadScores \/ ReadFinished \/ QueryFails \/ OtherFails \/ PublishNothing) => IInv'
<1>. SUFFICES ASSUME IInv, ReadScores \/ ReadFinished \/ QueryFails \/ OtherFails \/ PublishNothing PROVE IInv'
  OBVIOUS
<1>. USE DEF IInv
<1>1. UNCHANGED <<baseVars, mem, disk, journal, talkVars, hour>>
  BY DEF ReadScores, ReadFinished, QueryFails, OtherFails, PublishNothing
<1>2. faults' \in [Kinds -> Nat] /\ faults'["crash"] = faults["crash"]
  <2>1. CASE UNCHANGED faults
    BY <2>1 DEF Shape
  <2>2. CASE Fault("query") \/ Fault("save")
    BY <2>2, OtherFault DEF Kinds
  <2>. QED
    BY <2>1, <2>2 DEF ReadScores, ReadFinished, QueryFails, OtherFails, PublishNothing
<1>3. seen' \in [score : 0..MaxRounds, finished : BOOLEAN] /\ step' \in {"finished", "rounds", "idle", "save"}
  <2>1. seen \in [score : 0..MaxRounds, finished : BOOLEAN] /\ base.score \in 0..MaxRounds
        /\ base.finished \in BOOLEAN /\ 0 \in 0..MaxRounds
    BY PredictorAssumption DEF Shape
  <2>2. CASE ReadScores
    BY <2>1, <2>2 DEF ReadScores
  <2>3. CASE ReadFinished
    BY <2>1, <2>3 DEF ReadFinished
  <2>4. CASE QueryFails
    BY <2>1, <2>4 DEF QueryFails
  <2>5. CASE PublishNothing
    BY <2>1, <2>5 DEF PublishNothing
  <2>6. CASE OtherFails
    BY <2>1, <2>6 DEF OtherFails
  <2>. QED
    BY <2>2, <2>3, <2>4, <2>5, <2>6
<1>4. Shape'
  BY <1>1, <1>2, <1>3 DEF Shape, baseVars, talkVars
<1>5. OrderInv'
  <2>1. CASE ReadScores
    <3>1. seen'.score = base.score
      BY <2>1 DEF ReadScores, Shape
    <3>. QED
      BY <1>1, <3>1, Numbers DEF OrderInv, baseVars
  <2>2. CASE ReadFinished
    <3>1. seen'.score = seen.score /\ step = "finished"
      BY <2>2 DEF ReadFinished, Shape
    <3>. QED
      BY <1>1, <3>1 DEF OrderInv, baseVars
  <2>3. CASE QueryFails \/ OtherFails \/ PublishNothing
    BY <1>1, <2>3 DEF QueryFails, OtherFails, PublishNothing, OrderInv, baseVars
  <2>. QED
    BY <2>1, <2>2, <2>3
<1>6. JournalInv' /\ MessageInv'
  BY <1>1, <1>2, Frame DEF baseVars, talkVars, JournalInv
<1>. QED
  BY <1>4, <1>5, <1>6

LEMMA UpdateInv == IInv /\ Update => IInv'
<1>. SUFFICES ASSUME IInv, Update PROVE IInv'
  OBVIOUS
<1>. USE DEF IInv
<1>0. /\ step = "rounds" /\ step' = "publish" /\ seen' = [score |-> 0, finished |-> FALSE]
      /\ UNCHANGED <<baseVars, disk, talkVars, hour, faults>>
  BY DEF Update
<1>1. CASE mem = None \/ mem.done
  <2>1. UNCHANGED <<mem, journal>>
    BY <1>1 DEF Update
  <2>2. Shape'
    BY <1>0, <2>1, PredictorAssumption DEF Shape, baseVars, talkVars
  <2>3. OrderInv'
    BY <1>0, <2>1 DEF OrderInv, baseVars
  <2>4. JournalInv' /\ MessageInv'
    BY <1>0, <2>1, Frame DEF baseVars, talkVars, JournalInv
  <2>. QED
    BY <2>2, <2>3, <2>4
<1>2. CASE ~(mem = None \/ mem.done)
  <2>. DEFINE p == mem.preds
              read == Read(p)
              logged == LogIn(read, ToLog(read))
              new == IF Predicts(logged) THEN WithNext(logged) ELSE logged
              dirty == mem.dirty \/ read # p \/ new # logged \/ IsDone(new)
  <2>1. mem \in MatchState /\ mem # None /\ p \in Preds
    BY <1>2 DEF Shape, MatchState, Preds
  <2>2. /\ journal' = Journalled(ToLog(read))
        /\ mem' = [mem EXCEPT !.preds = new, !.done = IsDone(new), !.dirty = dirty]
    <3>1. mem' = [mem EXCEPT !.preds = new, !.done = IsDone(new),
                             !.dirty = @ \/ read # p \/ new # logged \/ IsDone(new)]
      BY <1>2, Zenon DEF Update
    <3>2. journal' = Journalled(ToLog(read))
      BY <1>2, Zenon DEF Update
    <3>. QED
      BY <2>1, <3>1, <3>2 DEF MatchState
  <2>. HIDE DEF p
  <2>3. /\ read \in Preds /\ DOMAIN read = DOMAIN p
        /\ \A n \in DOMAIN p : /\ read[n].winner <=> p[n].winner \/ n <= base.told
                               /\ read[n].logged <=> p[n].logged
    BY <2>1, ReadShape
  <2>. HIDE DEF read
  <2>4. /\ logged \in Preds /\ DOMAIN logged = DOMAIN p
        /\ \A n \in DOMAIN p : /\ logged[n].winner <=> read[n].winner
                               /\ logged[n].logged <=> read[n].logged \/ n \in ToLog(read)
    BY <2>3, LogInShape
  <2>. HIDE DEF logged
  <2>5. Predicts(logged) => NextRound \in Rounds /\ NextRound \notin DOMAIN p /\ base.told >= NextRound - 1
    BY <2>4, PredictorAssumption DEF Predicts, Over, NextRound, Rounds, Shape
  <2>6. /\ new \in Preds
        /\ DOMAIN new = IF Predicts(logged) THEN DOMAIN p \cup {NextRound} ELSE DOMAIN p
        /\ \A n \in DOMAIN p : new[n] = logged[n]
        /\ Predicts(logged) => ~new[NextRound].winner /\ ~new[NextRound].logged
    <3>1. CASE Predicts(logged)
      <4>1. new = WithNext(logged)
        BY <3>1
      <4>. QED
        BY <2>4, <2>5, <3>1, <4>1, WithNextShape
    <3>2. CASE ~Predicts(logged)
      BY <2>4, <3>2
    <3>. QED
      BY <3>1, <3>2
  <2>. HIDE DEF new
  <2>7. mem' \in MatchState /\ mem' # None /\ mem'.preds = new /\ mem'.id = mem.id
    <3>1. IsDone(new) \in BOOLEAN /\ dirty \in BOOLEAN
      BY <2>1 DEF IsDone, MatchState
    <3>. HIDE DEF dirty
    <3>2. mem' \in MatchState
      BY <2>1, <2>2, <2>6, <3>1 DEF MatchState, Preds
    <3>. QED
      BY <2>1, <2>2, <3>2, NoMatchAssumption DEF MatchState
  <2>8. \A n \in Rounds : journal'[n] = IF n \in ToLog(read) THEN journal[n] + 1 ELSE journal[n]
    BY <2>2 DEF Journalled
  <2>9. Shape'
    <3>1. journal' \in [Rounds -> Nat]
      BY <2>2 DEF Journalled, Shape
    <3>. QED
      BY <1>0, <2>7, <3>1, PredictorAssumption DEF Shape, baseVars, talkVars
  <2>10. \A n \in DOMAIN p : n \in Rounds /\ n \in Nat /\ n <= seen.score + 1 /\ n <= base.score + 1
    <3>1. DOMAIN p \subseteq Rounds
      BY <2>1 DEF Preds
    <3>2. Rounds \subseteq Nat
      BY PredictorAssumption DEF Rounds
    <3>. QED
      BY <1>0, <2>1, <3>1, <3>2 DEF OrderInv, p
  <2>11. Ordered(new)
    <3>. SUFFICES ASSUME NEW k \in DOMAIN new, NEW n \in DOMAIN new, k < n PROVE new[k].winner
      BY DEF Ordered
    <3>1. CASE n \in DOMAIN p /\ k \in DOMAIN p
      <4>1. p[k].winner
        BY <2>1, <3>1 DEF OrderInv, Ordered, p
      <4>. QED
        BY <2>3, <2>4, <2>6, <3>1, <4>1
    <3>2. CASE n = NextRound /\ k \in DOMAIN p /\ Predicts(logged)
      <4>1. k <= base.told
        BY <2>5, <2>10, <3>2, Numbers DEF NextRound
      <4>. QED
        BY <2>3, <2>4, <2>6, <3>2, <4>1
    <3>3. CASE k = NextRound
      BY <2>6, <2>10, <3>3, Numbers DEF NextRound
    <3>. QED
      BY <2>6, <3>1, <3>2, <3>3
  <2>12. OrderInv'
    <3>1. \A n \in DOMAIN new : n <= base.score + 1
      BY <1>0, <2>6, <2>10, Numbers DEF NextRound, OrderInv
    <3>. QED
      BY <1>0, <2>7, <2>11, <3>1 DEF OrderInv, baseVars
  <2>13. JournalInv'
    <3>1. ASSUME NEW n \in Rounds
          PROVE  /\ journal'[n] <= 1 + faults["crash"]
                 /\ (n \in DOMAIN new => ~new[n].logged) => journal'[n] <= faults["crash"]
      <4>1. journal[n] \in Nat /\ faults["crash"] \in Nat
        BY Numbers
      <4>2. (n \in DOMAIN p => ~p[n].logged) => journal[n] <= faults["crash"]
        BY <2>1 DEF JournalInv, p
      <4>3. CASE n \in ToLog(read)
        <5>1. n \in DOMAIN p /\ ~p[n].logged
          BY <2>3, <4>3 DEF ToLog, Resolved
        <5>2. new[n].logged /\ n \in DOMAIN new
          BY <2>4, <2>6, <4>3, <5>1
        <5>. QED
          BY <2>8, <4>1, <4>2, <4>3, <5>1, <5>2
      <4>4. CASE n \notin ToLog(read)
        <5>1. journal'[n] = journal[n] /\ journal[n] <= 1 + faults["crash"]
          BY <2>8, <4>4 DEF JournalInv
        <5>2. (n \in DOMAIN new => ~new[n].logged) => (n \in DOMAIN p => ~p[n].logged)
          BY <2>3, <2>4, <2>6
        <5>. QED
          BY <4>2, <5>1, <5>2
      <4>. QED
        BY <4>3, <4>4
    <3>2. ~Fresh'
      BY <2>7 DEF Fresh
    <3>. QED
      BY <1>0, <2>7, <3>1, <3>2 DEF JournalInv, baseVars
  <2>14. MessageInv'
    <3>1. FirstSent' = FirstSent /\ Streak' = Streak
      BY <1>0, <2>1, <2>7 DEF FirstSent, Fresh, Streak, talkVars
    <3>. QED
      BY <1>0, <3>1 DEF MessageInv, talkVars
  <2>. QED
    BY <2>9, <2>12, <2>13, <2>14
<1>. QED
  BY <1>1, <1>2

\* A cycle that an append ends halfway: what it had read and journalled is kept.
LEMMA UpdateFailsInv == IInv /\ UpdateFails => IInv'
<1>. SUFFICES ASSUME IInv, UpdateFails PROVE IInv'
  OBVIOUS
<1>. USE DEF IInv
<1>. DEFINE p == mem.preds
            read == Read(p)
<1>0. /\ step = "rounds" /\ step' = "idle" /\ seen' = [score |-> 0, finished |-> FALSE]
      /\ mem # None /\ Fault("save")
      /\ UNCHANGED <<baseVars, disk, talkVars, hour>>
  BY DEF UpdateFails
<1>1. PICK k \in ToLog(read) :
        /\ journal' = Journalled({n \in ToLog(read) : n < k})
        /\ mem' = [mem EXCEPT !.preds = LogIn([n \in DOMAIN p |-> IF n <= k THEN read[n] ELSE p[n]],
                                             {n \in ToLog(read) : n < k}),
                             !.dirty = @ \/ [n \in DOMAIN p |-> IF n <= k THEN read[n] ELSE p[n]] # p]
  BY Zenon DEF UpdateFails
<1>. DEFINE part == [n \in DOMAIN p |-> IF n <= k THEN read[n] ELSE p[n]]
            written == {n \in ToLog(read) : n < k}
            new == LogIn(part, written)
            dirty == mem.dirty \/ part # p
<1>2. mem \in MatchState /\ p \in Preds
  BY <1>0 DEF Shape, MatchState, Preds
<1>3. journal' = Journalled(written) /\ mem' = [mem EXCEPT !.preds = new, !.dirty = dirty]
  BY <1>1, <1>2 DEF MatchState
<1>. HIDE DEF p
<1>4. /\ read \in Preds /\ DOMAIN read = DOMAIN p
      /\ \A n \in DOMAIN p : /\ read[n].winner <=> p[n].winner \/ n <= base.told
                             /\ read[n].logged <=> p[n].logged
  BY <1>2, ReadShape
<1>. HIDE DEF read
<1>5. /\ part \in Preds /\ DOMAIN part = DOMAIN p
      /\ \A n \in DOMAIN p : (p[n].winner => part[n].winner) /\ (part[n].logged <=> p[n].logged)
  <2>1. PICK S \in SUBSET Rounds : p \in [S -> Prediction]
    BY <1>2 DEF Preds
  <2>2. DOMAIN p = S /\ read \in [S -> Prediction]
    BY <1>4, <2>1 DEF Preds
  <2>3. part \in [S -> Prediction]
    BY <2>1, <2>2
  <2>4. \A n \in S : part[n] = read[n] \/ part[n] = p[n]
    BY <2>2
  <2>. QED
    BY <1>4, <2>2, <2>3, <2>4 DEF Preds
<1>. HIDE DEF part
<1>6. /\ new \in Preds /\ DOMAIN new = DOMAIN p
      /\ \A n \in DOMAIN p : /\ new[n].winner <=> part[n].winner
                             /\ new[n].logged <=> part[n].logged \/ n \in written
  BY <1>5, LogInShape
<1>. HIDE DEF new
<1>7. mem' \in MatchState /\ mem' # None /\ mem'.preds = new /\ mem'.id = mem.id
  <2>1. dirty \in BOOLEAN
    BY <1>2 DEF MatchState
  <2>. HIDE DEF dirty
  <2>2. mem' \in MatchState
    BY <1>2, <1>3, <1>6, <2>1 DEF MatchState, Preds
  <2>. QED
    BY <1>2, <1>3, <2>2, NoMatchAssumption DEF MatchState
<1>8. \A n \in Rounds : journal'[n] = IF n \in written THEN journal[n] + 1 ELSE journal[n]
  BY <1>3 DEF Journalled
<1>9. faults' \in [Kinds -> Nat] /\ faults'["crash"] = faults["crash"]
  BY <1>0, OtherFault DEF Kinds
<1>10. Shape'
  <2>1. journal' \in [Rounds -> Nat]
    BY <1>3 DEF Journalled, Shape
  <2>. QED
    BY <1>0, <1>7, <1>9, <2>1, PredictorAssumption DEF Shape, baseVars, talkVars
<1>11. OrderInv'
  <2>1. Ordered(p) /\ \A n \in DOMAIN p : n <= base.score + 1
    BY <1>0 DEF OrderInv, p
  <2>2. Ordered(new) /\ \A n \in DOMAIN new : n <= base.score + 1
    BY <1>5, <1>6, <2>1 DEF Ordered
  <2>. QED
    BY <1>0, <1>7, <2>2 DEF OrderInv, baseVars
<1>12. JournalInv'
  <2>1. ASSUME NEW n \in Rounds
        PROVE  /\ journal'[n] <= 1 + faults["crash"]
               /\ (n \in DOMAIN new => ~new[n].logged) => journal'[n] <= faults["crash"]
    <3>1. journal[n] \in Nat /\ faults["crash"] \in Nat
      BY Numbers
    <3>2. (n \in DOMAIN p => ~p[n].logged) => journal[n] <= faults["crash"]
      BY <1>0 DEF JournalInv, p
    <3>3. CASE n \in written
      <4>1. n \in DOMAIN p /\ ~p[n].logged
        BY <1>4, <3>3 DEF ToLog, Resolved
      <4>2. new[n].logged /\ n \in DOMAIN new
        BY <1>6, <3>3, <4>1
      <4>. QED
        BY <1>8, <3>1, <3>2, <3>3, <4>1, <4>2
    <3>4. CASE n \notin written
      <4>1. journal'[n] = journal[n] /\ journal[n] <= 1 + faults["crash"]
        BY <1>8, <3>4 DEF JournalInv
      <4>2. (n \in DOMAIN new => ~new[n].logged) => (n \in DOMAIN p => ~p[n].logged)
        BY <1>5, <1>6
      <4>. QED
        BY <3>2, <4>1, <4>2
    <3>. QED
      BY <3>3, <3>4
  <2>2. ~Fresh'
    BY <1>7 DEF Fresh
  <2>. QED
    BY <1>0, <1>7, <1>9, <2>1, <2>2 DEF JournalInv, baseVars
<1>13. MessageInv'
  <2>1. FirstSent' = FirstSent /\ Streak' = Streak
    BY <1>0, <1>7 DEF FirstSent, Fresh, Streak, talkVars
  <2>. QED
    BY <1>0, <1>9, <2>1 DEF MessageInv, talkVars
<1>. QED
  BY <1>10, <1>11, <1>12, <1>13

\* What a call of Telegram may leave behind.
LEMMA OutcomeShape ==
  ASSUME Shape, mem \in MatchState, NEW o \in Outcomes
  PROVE  /\ o.chat \in Seq(Messages) /\ o.id \in Nat \cup {None}
         /\ SendsNew => Len(o.chat) = IF o.id # None \/ o.chat # chat THEN Len(chat) + 1 ELSE Len(chat)
         /\ ~SendsNew => Len(o.chat) = Len(chat)
<1>1. chat \in Seq(Messages) /\ Message(mem) \in Messages /\ Deleted \in Messages /\ mem.id \in Nat \cup {None}
  BY DEF Shape, Messages, MatchState
<1>2. CASE SendsNew
  <2>1. o \in Send(chat, Message(mem))
    BY <1>2 DEF Outcomes
  <2>2. /\ Append(chat, Message(mem)) \in Seq(Messages)
        /\ Len(Append(chat, Message(mem))) = Len(chat) + 1
        /\ Len(chat) \in Nat /\ Len(chat) + 1 # Len(chat)
    BY <1>1
  <2>3. Append(chat, Message(mem)) # chat
    BY <2>2
  <2>4. CASE o = [chat |-> Append(chat, Message(mem)), id |-> Len(chat) + 1, faults |-> 0]
    BY <1>2, <2>2, <2>3, <2>4
  <2>5. CASE o = [chat |-> chat, id |-> None, faults |-> 1]
    BY <1>1, <1>2, <2>5
  <2>6. CASE o = [chat |-> Append(chat, Message(mem)), id |-> None, faults |-> 1]
    BY <1>2, <2>2, <2>3, <2>6
  <2>. QED
    BY <2>1, <2>4, <2>5, <2>6 DEF Send
<1>3. CASE ~SendsNew
  <2>1. PICK e \in Edit(chat, mem.id, Message(mem)) :
          o = [chat |-> e.chat, id |-> IF e.ok THEN mem.id ELSE None, faults |-> e.faults]
    BY <1>3 DEF Outcomes
  <2>2. o.chat = e.chat /\ o.id \in {mem.id, None}
    BY <2>1
  <2>3. e.chat = chat \/ e.chat = [chat EXCEPT ![mem.id] = Message(mem)]
    BY DEF Edit
  <2>4. e.chat \in Seq(Messages) /\ Len(e.chat) = Len(chat)
    BY <1>1, <2>3
  <2>. QED
    BY <1>1, <1>3, <2>2, <2>4
<1>. QED
  BY <1>2, <1>3

LEMMA Carry ==
  \A m, s, t, f, g \in Nat : m + s <= f /\ t + f <= s + g => m + t <= g
OBVIOUS

LEMMA Multiples ==
  ASSUME NEW q \in Nat
  PROVE  q * MaxEditFailures \in Nat /\ (q + 1) * MaxEditFailures = q * MaxEditFailures + MaxEditFailures
BY PredictorAssumption

LEMMA PublishInv == IInv /\ Publish => IInv'
<1>. SUFFICES ASSUME IInv, Publish PROVE IInv'
  OBVIOUS
<1>. USE DEF IInv
<1>1. mem # None /\ mem \in MatchState
  BY DEF Publish, Quiet, Shape
<1>2. step' = "save" /\ UNCHANGED <<baseVars, seen, disk, journal, hour>>
  BY DEF Publish
<1>3. PICK o \in Outcomes :
        /\ chat' = o.chat
        /\ IF o.id # None
             THEN mem' = [mem EXCEPT !.id = o.id, !.dirty = FALSE] /\ editFailures' = 0
             ELSE /\ editFailures' = IF mem.id = None THEN editFailures ELSE editFailures + 1
                  /\ UNCHANGED mem
        /\ IF o.faults > 0 THEN Fault("network") ELSE UNCHANGED faults
        /\ failedEdits' = IF ~SendsNew /\ o.id = None THEN failedEdits + 1 ELSE failedEdits
        /\ lostSends' = IF SendsNew /\ o.id = None /\ o.chat # chat THEN lostSends + 1 ELSE lostSends
  BY DEF Publish
<1>4. /\ chat' \in Seq(Messages) /\ o.id \in Nat \cup {None}
      /\ SendsNew => Len(chat') = IF o.id # None \/ chat' # chat THEN Len(chat) + 1 ELSE Len(chat)
      /\ ~SendsNew => Len(chat') = Len(chat)
  BY <1>1, <1>3, OutcomeShape
<1>5. faults' \in [Kinds -> Nat] /\ faults'["crash"] = faults["crash"]
  <2>1. CASE UNCHANGED faults
    BY <2>1 DEF Shape
  <2>2. CASE Fault("network")
    BY <2>2, OtherFault DEF Kinds
  <2>. QED
    BY <1>3, <2>1, <2>2
<1>6. /\ mem' \in MatchState /\ mem' # None /\ mem'.preds = mem.preds
      /\ mem'.id = IF o.id # None THEN o.id ELSE mem.id
  <2>1. CASE o.id = None
    BY <1>1, <1>3, <2>1
  <2>2. CASE o.id # None
    <3>1. mem' = [mem EXCEPT !.id = o.id, !.dirty = FALSE]
      BY <1>3, <2>2
    <3>2. mem' \in MatchState
      BY <1>1, <1>4, <3>1 DEF MatchState
    <3>3. mem'.preds = mem.preds /\ mem'.id = o.id
      BY <1>1, <3>1 DEF MatchState
    <3>. QED
      BY <2>2, <3>2, <3>3, NoMatchAssumption
  <2>. QED
    BY <2>1, <2>2
<1>7. editFailures' \in Nat /\ failedEdits' \in Nat /\ lostSends' \in Nat
  BY <1>3, Numbers
<1>8. Shape'
  BY <1>2, <1>4, <1>5, <1>6, <1>7 DEF Shape, baseVars
<1>9. OrderInv'
  BY <1>1, <1>2, <1>6 DEF OrderInv, baseVars
<1>10. JournalInv'
  BY <1>1, <1>2, <1>5, <1>6 DEF JournalInv, Fresh, baseVars
<1>11. MessageInv'
  <2>1. PICK q \in Nat :
          /\ Len(chat) <= FirstSent + faults["crash"] + lostSends + q
          /\ q * MaxEditFailures + Streak <= failedEdits
    BY DEF MessageInv
  <2>2. /\ q * MaxEditFailures \in Nat
        /\ (q + 1) * MaxEditFailures = q * MaxEditFailures + MaxEditFailures
        /\ MaxEditFailures \in Nat \ {0}
    BY Multiples, PredictorAssumption
  <2>3. /\ FirstSent = IF mem.id = None THEN 0 ELSE 1
        /\ FirstSent' = IF mem'.id = None THEN 0 ELSE 1
    BY <1>1, <1>6 DEF FirstSent, Fresh
  <2>7. PICK m \in Nat : m = q * MaxEditFailures
    BY <2>2
  <2>4. /\ m \in Nat /\ m + Streak <= failedEdits /\ (q + 1) * MaxEditFailures = m + MaxEditFailures
        /\ Len(chat) <= FirstSent + faults["crash"] + lostSends + q
    BY <2>1, <2>2, <2>7
  <2>0. /\ faults["crash"] \in Nat /\ lostSends \in Nat /\ failedEdits \in Nat /\ editFailures \in Nat
        /\ Len(chat) \in Nat /\ Streak \in Nat /\ Streak <= MaxEditFailures
    BY Numbers
  <2>5. CASE SendsNew /\ o.id # None
    <3>1. Len(chat') = Len(chat) + 1 /\ lostSends' = lostSends /\ failedEdits' = failedEdits /\ Streak' = 0
      BY <1>3, <1>4, <2>2, <2>5 DEF Streak
    <3>2. FirstSent' = 1
      BY <1>6, <2>3, <2>5
    <3>3. CASE mem.id = None
      <4>1. Len(chat') <= FirstSent' + faults'["crash"] + lostSends' + q /\ m + Streak' <= failedEdits'
        BY <1>5, <2>0, <2>3, <2>4, <3>1, <3>2, <3>3
      <4>. QED
        BY <2>7, <4>1 DEF MessageInv
    <3>4. CASE mem.id # None
      <4>1. Streak = MaxEditFailures
        BY <2>0, <2>2, <2>5, <3>4 DEF SendsNew, Streak
      <4>2. /\ Len(chat') <= FirstSent' + faults'["crash"] + lostSends' + (q + 1)
            /\ (q + 1) * MaxEditFailures + Streak' <= failedEdits'
        BY <1>5, <2>0, <2>2, <2>3, <2>4, <3>1, <3>2, <3>4, <4>1
      <4>. QED
        BY <4>2 DEF MessageInv
    <3>. QED
      BY <3>3, <3>4
  <2>6. CASE ~(SendsNew /\ o.id # None)
    <3>1. FirstSent' = FirstSent
      BY <1>6, <2>3, <2>6 DEF SendsNew
    <3>2. Len(chat') + lostSends <= Len(chat) + lostSends'
      <4>1. CASE SendsNew
        <5>1. o.id = None /\ lostSends' = (IF chat' # chat THEN lostSends + 1 ELSE lostSends)
          BY <1>3, <2>6, <4>1
        <5>2. Len(chat') = IF chat' # chat THEN Len(chat) + 1 ELSE Len(chat)
          BY <1>4, <4>1, <5>1
        <5>. QED
          BY <2>0, <5>1, <5>2
      <4>2. CASE ~SendsNew
        <5>1. Len(chat') = Len(chat) /\ lostSends' = lostSends
          BY <1>3, <1>4, <4>2
        <5>. QED
          BY <2>0, <5>1
      <4>. QED
        BY <4>1, <4>2
    <3>3. Streak' + failedEdits <= Streak + failedEdits'
      <4>1. CASE SendsNew
        <5>1. /\ o.id = None /\ failedEdits' = failedEdits
              /\ editFailures' = IF mem.id = None THEN editFailures ELSE editFailures + 1
          BY <1>3, <2>6, <4>1
        <5>2. Streak' = Streak
          BY <2>0, <2>2, <4>1, <5>1 DEF SendsNew, Streak
        <5>. QED
          BY <2>0, <5>1, <5>2
      <4>2. CASE ~SendsNew /\ o.id # None
        <5>1. editFailures' = 0 /\ failedEdits' = failedEdits
          BY <1>3, <4>2
        <5>2. Streak' = 0
          BY <2>2, <5>1 DEF Streak
        <5>. QED
          BY <5>1, <5>2, Numbers
      <4>3. CASE ~SendsNew /\ o.id = None
        <5>1. editFailures' = editFailures + 1 /\ failedEdits' = failedEdits + 1
          BY <1>3, <4>3 DEF SendsNew
        <5>. QED
          BY <2>2, <5>1, Numbers DEF Streak
      <4>. QED
        BY <4>1, <4>2, <4>3
    <3>4. /\ Len(chat') <= FirstSent' + faults'["crash"] + lostSends' + q
          /\ m + Streak' <= failedEdits'
      <4>0. m \in Nat /\ m + Streak <= failedEdits /\ Len(chat) <= FirstSent + faults["crash"] + lostSends + q
        BY <2>4
      <4>1. FirstSent \in Nat /\ Streak' \in Nat /\ Len(chat') \in Nat
        BY <1>4, <1>7, <2>2, <2>3 DEF Streak
      <4>2. Len(chat') <= FirstSent + faults["crash"] + lostSends' + q
        <5>1. /\ Len(chat) \in Nat /\ lostSends \in Nat /\ faults["crash"] \in Nat /\ FirstSent \in Nat
              /\ Len(chat') \in Nat /\ lostSends' \in Nat
              /\ Len(chat) <= FirstSent + faults["crash"] + lostSends + q
              /\ Len(chat') + lostSends <= Len(chat) + lostSends'
          BY <1>7, <2>0, <3>2, <4>0, <4>1
        <5>. QED
          BY <5>1
      <4>3. m + Streak' <= failedEdits'
        <5>1. /\ m \in Nat /\ Streak \in Nat /\ failedEdits \in Nat /\ Streak' \in Nat /\ failedEdits' \in Nat
              /\ m + Streak <= failedEdits /\ Streak' + failedEdits <= Streak + failedEdits'
          BY <1>7, <2>0, <3>3, <4>0, <4>1
        <5>. QED
          BY <5>1, Carry
      <4>. QED
        BY <1>5, <3>1, <4>2, <4>3
    <3>. QED
      BY <2>7, <3>4 DEF MessageInv
  <2>. QED
    BY <2>5, <2>6
<1>. QED
  BY <1>8, <1>9, <1>10, <1>11

\* Forgetting journals what is left, or a part of it, and a forgotten match is over.
LEMMA SaveInv == IInv /\ (Save \/ SaveFails \/ ForgetFails) => IInv'
<1>. SUFFICES ASSUME IInv, Save \/ SaveFails \/ ForgetFails PROVE IInv'
  OBVIOUS
<1>. USE DEF IInv
<1>0. step' = "idle" /\ disk' \in {mem', disk} /\ UNCHANGED <<baseVars, seen, talkVars>>
  BY DEF Save, SaveFails, ForgetFails
<1>1. \/ ~Forgets /\ UNCHANGED <<mem, journal, hour>>
      \/ Forgets /\ mem' = None /\ hour' = FALSE /\ \E S \in SUBSET LastNet : journal' = Journalled(S)
  <2>1. CASE Forget
    BY <2>1 DEF Forget
  <2>2. CASE ForgetFails
    BY <2>2 DEF ForgetFails
  <2>. QED
    BY <2>1, <2>2 DEF Save, SaveFails
<1>2. faults' \in [Kinds -> Nat] /\ faults'["crash"] = faults["crash"]
  <2>1. CASE UNCHANGED faults
    BY <2>1 DEF Shape
  <2>2. CASE Fault("save")
    BY <2>2, OtherFault DEF Kinds
  <2>. QED
    BY <2>1, <2>2 DEF Save, SaveFails, ForgetFails
<1>3. CASE ~Forgets
  <2>1. UNCHANGED <<mem, journal, hour>>
    BY <1>1, <1>3
  <2>2. Shape'
    BY <1>0, <1>2, <2>1 DEF Shape, baseVars, talkVars
  <2>3. OrderInv'
    BY <1>0, <2>1 DEF OrderInv, baseVars
  <2>4. JournalInv' /\ MessageInv'
    BY <1>0, <1>2, <2>1, Frame DEF baseVars, talkVars, JournalInv
  <2>. QED
    BY <2>2, <2>3, <2>4
<1>4. CASE Forgets
  <2>0. PICK S \in SUBSET LastNet : journal' = Journalled(S)
    BY <1>1, <1>4
  <2>1. mem' = None /\ hour' = FALSE /\ mem # None /\ hour /\ base.finished
    BY <1>1, <1>4 DEF Forgets, JournalInv
  <2>2. \A n \in Rounds : journal'[n] = IF n \in S THEN journal[n] + 1 ELSE journal[n]
    BY <2>0 DEF Journalled
  <2>3. Shape'
    <3>1. journal' \in [Rounds -> Nat]
      BY <2>0 DEF Journalled, Shape
    <3>. QED
      BY <1>0, <1>2, <2>1, <3>1 DEF Shape, baseVars, talkVars
  <2>4. OrderInv'
    BY <1>0, <2>1 DEF OrderInv, baseVars
  <2>5. JournalInv'
    <3>1. ASSUME NEW n \in Rounds PROVE journal'[n] <= 1 + faults["crash"]
      <4>1. journal[n] \in Nat /\ faults["crash"] \in Nat /\ journal[n] <= 1 + faults["crash"]
        BY Numbers DEF JournalInv
      <4>2. n \in S => journal[n] <= faults["crash"]
        BY <2>1 DEF LastNet, JournalInv
      <4>. QED
        BY <2>2, <4>1, <4>2
    <3>. QED
      BY <1>0, <1>2, <2>1, <3>1 DEF JournalInv, Fresh, baseVars
  <2>6. MessageInv'
    <3>1. FirstSent \in {0, 1} /\ FirstSent' = 1 /\ Streak' = Streak
      BY <1>0, <2>1 DEF FirstSent, Fresh, Streak, baseVars, talkVars
    <3>2. FirstSent <= FirstSent' /\ FirstSent \in Nat /\ FirstSent' \in Nat
      BY <3>1
    <3>. QED
      BY <1>0, <1>2, <3>1, <3>2, Numbers DEF MessageInv, talkVars
  <2>. QED
    BY <2>3, <2>4, <2>5, <2>6
<1>. QED
  BY <1>3, <1>4

LEMMA CrashInv == IInv /\ CrashAndRestart => IInv'
<1>. SUFFICES ASSUME IInv, CrashAndRestart PROVE IInv'
  OBVIOUS
<1>. USE DEF IInv
<1>1. /\ mem' = disk /\ step' = "idle" /\ seen' = [score |-> 0, finished |-> FALSE]
      /\ hour' = (hour /\ disk # None /\ (disk.done \/ disk.preds = <<>>))
      /\ editFailures' = 0
      /\ UNCHANGED <<baseVars, disk, journal, chat, failedEdits, lostSends>>
  BY DEF CrashAndRestart
<1>2. faults' \in [Kinds -> Nat] /\ faults'["crash"] = faults["crash"] + 1
  BY OtherFault DEF CrashAndRestart, Kinds
<1>3. Shape'
  <2>1. seen' \in [score : 0..MaxRounds, finished : BOOLEAN]
    BY <1>1, PredictorAssumption
  <2>2. hour' \in BOOLEAN
    BY <1>1
  <2>. QED
    BY <1>1, <1>2, <2>1, <2>2 DEF Shape, baseVars
<1>4. OrderInv'
  BY <1>1 DEF OrderInv, baseVars
<1>5. JournalInv'
  <2>1. ASSUME NEW n \in Rounds PROVE journal[n] <= faults'["crash"] /\ journal[n] <= 1 + faults'["crash"]
    BY <1>2, Numbers DEF JournalInv
  <2>2. hour' => hour
    BY <1>1
  <2>. QED
    BY <1>1, <2>1, <2>2 DEF JournalInv, baseVars
<1>6. MessageInv'
  <2>1. PICK q \in Nat :
          /\ Len(chat) <= FirstSent + faults["crash"] + lostSends + q
          /\ q * MaxEditFailures + Streak <= failedEdits
    BY DEF MessageInv
  <2>2. q * MaxEditFailures \in Nat
    BY Multiples
  <2>3. FirstSent \in {0, 1} /\ FirstSent' \in {0, 1} /\ Streak' = 0
    BY <1>1, PredictorAssumption DEF FirstSent, Streak
  <2>. DEFINE m == q * MaxEditFailures
  <2>4. /\ faults["crash"] \in Nat /\ lostSends \in Nat /\ failedEdits \in Nat
        /\ Len(chat) \in Nat /\ Streak \in Nat
        /\ m \in Nat /\ m + Streak <= failedEdits
    BY <2>1, <2>2, Numbers
  <2>. HIDE DEF m
  <2>5. Len(chat) <= FirstSent' + (faults["crash"] + 1) + lostSends + q
    <3>1. FirstSent' \in Nat /\ FirstSent \in Nat /\ FirstSent <= 1
      BY <2>3
    <3>. QED
      BY <2>1, <2>4, <3>1
  <2>6. m + 0 <= failedEdits
    BY <2>4
  <2>. QED
    BY <1>1, <1>2, <2>3, <2>5, <2>6 DEF MessageInv, m
<1>. QED
  BY <1>3, <1>4, <1>5, <1>6

LEMMA StepInv == IInv /\ [Next]_vars => IInv'
<1>. SUFFICES ASSUME IInv, [Next]_vars PROVE IInv'
  OBVIOUS
<1>1. CASE UNCHANGED vars
  <2>. USE <1>1 DEF vars, IInv, baseVars, talkVars
  <2>1. Shape' /\ OrderInv'
    BY DEF Shape, OrderInv
  <2>2. JournalInv' /\ MessageInv'
    BY DEF JournalInv, MessageInv, Fresh, FirstSent, Streak
  <2>. QED
    BY <2>1, <2>2
<1>2. CASE Next
  BY <1>2, CollectorInv, WorldInv, BeginInv, ReadInv, UpdateInv, UpdateFailsInv, PublishInv, SaveInv, CrashInv
     DEF Next, InStep
<1>. QED
  BY <1>1, <1>2

LEMMA SpecInv == Spec => []IInv
BY InitInv, StepInv, PTL DEF Spec

-----------------------------------------------------------------------------
(* Theorems.                                                                 *)

\* A round is predicted only when every earlier prediction knows its winner (_update_match).
THEOREM OnePredictionIsOpen == Spec => []OneOpenPrediction
<1>1. IInv => OneOpenPrediction
  <2>. SUFFICES ASSUME IInv, mem # None
                PROVE  Cardinality({n \in DOMAIN mem.preds : ~mem.preds[n].winner}) <= 1
    BY DEF OneOpenPrediction
  <2>. DEFINE open == {n \in DOMAIN mem.preds : ~mem.preds[n].winner}
  <2>1. mem \in MatchState /\ Ordered(mem.preds)
    BY DEF IInv, Shape, OrderInv
  <2>2. DOMAIN mem.preds \subseteq Nat
    <3>1. PICK S \in SUBSET Rounds : mem.preds \in [S -> Prediction]
      BY <2>1 DEF MatchState
    <3>2. Rounds \subseteq Nat
      BY PredictorAssumption DEF Rounds
    <3>. QED
      BY <3>1, <3>2
  <2>3. ASSUME NEW k \in open, NEW n \in open PROVE k = n
    BY <2>1, <2>2, <2>3 DEF Ordered
  <2>4. CASE open = {}
    BY <2>4, FS_EmptySet
  <2>5. CASE open # {}
    <3>1. PICK n \in open : TRUE
      BY <2>5
    <3>2. open = {n}
      BY <2>3, <3>1
    <3>3. Cardinality({n}) = 1
      BY FS_Singleton
    <3>. QED
      BY <3>2, <3>3
  <2>. QED
    BY <2>4, <2>5
<1>. QED
  BY <1>1, SpecInv, PTL

\* A crash is the only reason for a prediction to be journalled again (_log_round, _forget_old).
THEOREM JournalledOncePerCrash == Spec => []JournalledOnce
<1>1. IInv => JournalledOnce
  BY DEF IInv, JournalInv, JournalledOnce
<1>. QED
  BY <1>1, SpecInv, PTL

\* A message is sent again only after a crash, a lost answer or MAX_EDIT_FAILURES failed edits
\* (_publish).
THEOREM MessagesAreExplained == Spec => []MessagesAreAccounted
<1>1. IInv => MessagesAreAccounted
  <2>. SUFFICES ASSUME IInv
                PROVE  Len(chat) <= 1 + faults["crash"] + lostSends + failedEdits \div MaxEditFailures
    BY DEF MessagesAreAccounted
  <2>1. PICK q \in Nat :
          /\ Len(chat) <= FirstSent + faults["crash"] + lostSends + q
          /\ q * MaxEditFailures + Streak <= failedEdits
    BY DEF IInv, MessageInv
  <2>2. q * MaxEditFailures \in Nat /\ Shape
    BY Multiples DEF IInv
  <2>. DEFINE m == q * MaxEditFailures
  <2>0. /\ faults["crash"] \in Nat /\ lostSends \in Nat /\ failedEdits \in Nat
        /\ Len(chat) \in Nat /\ Streak \in Nat
    BY <2>2, Numbers
  <2>3. m \in Nat /\ m <= failedEdits
    BY <2>0, <2>1, <2>2
  <2>4. q <= failedEdits \div MaxEditFailures
    <3>1. failedEdits \in Nat /\ MaxEditFailures \in Nat \ {0}
      BY <2>2, Numbers, PredictorAssumption
    <3>. QED
      BY <2>3, <3>1
  <2>5. failedEdits \div MaxEditFailures \in Nat /\ FirstSent \in {0, 1}
    BY <2>2, Numbers, PredictorAssumption DEF FirstSent
  <2>6. Len(chat) <= FirstSent + faults["crash"] + lostSends + q
    BY <2>1
  <2>. HIDE DEF m
  <2>. QED
    BY <2>0, <2>4, <2>5, <2>6
<1>. QED
  BY <1>1, SpecInv, PTL

-----------------------------------------------------------------------------
(* The types.                                                                *)

\* An identifier is the place of a message of the chat.
IdIn(m, c) == m = None \/ m.id \in 1..Len(c) \cup {None}

\* The database is not ahead of the match, nor the details of a round ahead of its winner.
DetailInv ==
  /\ base.score <= played /\ base.told <= played /\ base.detailed <= base.told
  /\ IdIn(mem, chat) /\ IdIn(disk, chat)
  /\ retryLater \in BOOLEAN /\ late \subseteq Rounds /\ dropped \subseteq Rounds

LEMMA CollectorTypes == Shape /\ DetailInv /\ Collector => DetailInv'
<1>. SUFFICES ASSUME Shape, DetailInv, Collector PROVE DetailInv'
  OBVIOUS
<1>0. /\ played \in Nat /\ base.score \in Nat /\ base.told \in Nat /\ base.detailed \in Nat
      /\ base = [score |-> base.score, told |-> base.told, detailed |-> base.detailed,
                 finished |-> base.finished]
      /\ base.score <= played /\ base.told <= played /\ base.detailed <= base.told
  BY PredictorAssumption DEF Shape, DetailInv
<1>1. UNCHANGED <<mem, disk, chat, retryLater, history>>
  BY DEF Collector, Play, WriteScore, WriteWinners, WriteDetails, WriteEnd, Write, talkVars
<1>2. base'.score <= played' /\ base'.told <= played' /\ base'.detailed <= base'.told
  <2>1. CASE Play
    BY <1>0, <2>1 DEF Play
  <2>2. CASE WriteScore
    BY <1>0, <2>2 DEF WriteScore, Write
  <2>3. CASE WriteWinners
    BY <1>0, <2>3 DEF WriteWinners, Write
  <2>4. CASE WriteDetails
    BY <1>0, <2>4 DEF WriteDetails, Write
  <2>5. CASE WriteEnd
    BY <1>0, <2>5 DEF WriteEnd, Write
  <2>. QED
    BY <2>1, <2>2, <2>3, <2>4, <2>5 DEF Collector
<1>. QED
  BY <1>1, <1>2 DEF DetailInv, IdIn, history

\* A message that is sent is the last one; one that is edited keeps its place.
LEMMA PublishTypes == Shape /\ DetailInv /\ Publish => DetailInv'
<1>. SUFFICES ASSUME Shape, DetailInv, Publish PROVE DetailInv'
  OBVIOUS
<1>1. mem # None /\ mem \in MatchState /\ Len(chat) \in Nat
  BY DEF Publish, Quiet, Shape
<1>2. UNCHANGED <<baseVars, disk, history>> /\ retryLater' \in BOOLEAN
  BY DEF Publish, DetailInv
<1>3. PICK o \in Outcomes :
        /\ chat' = o.chat
        /\ \/ o.id # None /\ mem' = [mem EXCEPT !.id = o.id, !.dirty = FALSE]
           \/ mem' = mem
  BY DEF Publish
<1>4. Len(chat') \in Nat /\ Len(chat) <= Len(chat')
  BY <1>1, <1>3, OutcomeShape
<1>5. IdIn(mem, chat')
  BY <1>1, <1>4 DEF DetailInv, IdIn
<1>6. o.id = None \/ o.id = mem.id \/ o.id = Len(chat')
  <2>1. CASE SendsNew
    <3>1. o \in Send(chat, Message(mem))
      BY <2>1 DEF Outcomes
    <3>2. Len(Append(chat, Message(mem))) = Len(chat) + 1
      BY DEF Shape, Messages
    <3>3. o = [chat |-> Append(chat, Message(mem)), id |-> Len(chat) + 1, faults |-> 0] \/ o.id = None
      BY <3>1 DEF Send
    <3>. QED
      BY <1>3, <3>2, <3>3
  <2>2. CASE ~SendsNew
    BY <2>2 DEF Outcomes
  <2>. QED
    BY <2>1, <2>2
<1>7. IdIn(mem', chat')
  <2>1. CASE mem' = mem
    BY <1>5, <2>1
  <2>2. CASE o.id # None /\ mem' = [mem EXCEPT !.id = o.id, !.dirty = FALSE]
    <3>1. mem'.id = o.id
      BY <1>1, <2>2 DEF MatchState
    <3>2. Len(chat') \in 1..Len(chat') \/ o.id # Len(chat')
      <4>1. CASE SendsNew
        BY <1>1, <1>3, <1>4, <2>2, <4>1, OutcomeShape
      <4>2. CASE ~SendsNew
        BY <1>1, <1>3, <1>5, <2>2, <4>2 DEF Outcomes, IdIn
      <4>. QED
        BY <4>1, <4>2
    <3>. QED
      BY <1>1, <1>5, <1>6, <2>2, <3>1, <3>2 DEF IdIn
  <2>. QED
    BY <1>3, <2>1, <2>2
<1>8. IdIn(disk, chat')
  BY <1>4 DEF DetailInv, IdIn
<1>. QED
  BY <1>2, <1>7, <1>8 DEF DetailInv, baseVars, IdIn, history

LEMMA UpdateTypes == Shape /\ DetailInv /\ Update => DetailInv'
<1>. SUFFICES ASSUME Shape, DetailInv, Update PROVE DetailInv'
  OBVIOUS
<1>1. UNCHANGED <<baseVars, disk, chat, retryLater, dropped>>
  BY DEF Update, talkVars
<1>2. late' \subseteq Rounds
  <2>1. late' = late \/ (~Over /\ late' = late \cup {NextRound})
    BY DEF Update, Predicts
  <2>2. ~Over => NextRound \in Rounds
    BY PredictorAssumption DEF Shape, Over, NextRound, Rounds
  <2>. QED
    BY <2>1, <2>2 DEF DetailInv
<1>3. IdIn(mem', chat)
  <2>1. CASE mem' = mem
    BY <2>1 DEF DetailInv
  <2>2. CASE mem # None /\ \E p, d, e : mem' = [mem EXCEPT !.preds = p, !.done = d, !.dirty = e]
    BY <2>2 DEF Shape, DetailInv, IdIn, MatchState
  <2>3. mem' = mem \/ (mem # None /\ \E p, d, e : mem' = [mem EXCEPT !.preds = p, !.done = d, !.dirty = e])
    <3>1. CASE mem = None \/ mem.done
      BY <3>1 DEF Update
    <3>2. CASE ~(mem = None \/ mem.done)
      <4>. DEFINE read == Read(mem.preds)
                  logged == LogIn(read, ToLog(read))
                  new == IF Predicts(logged) THEN WithNext(logged) ELSE logged
      <4>1. mem' = [mem EXCEPT !.preds = new, !.done = IsDone(new),
                      !.dirty = @ \/ read # mem.preds \/ new # logged \/ IsDone(new)]
        BY <3>2 DEF Update
      <4>. HIDE DEF read, logged, new
      <4>. QED
        BY <3>2, <4>1
    <3>. QED
      BY <3>1, <3>2
  <2>. QED
    BY <2>1, <2>2, <2>3
<1>. QED
  BY <1>1, <1>2, <1>3 DEF DetailInv, baseVars, IdIn, history

LEMMA DetailKept == IInv /\ DetailInv /\ [Next]_vars => DetailInv'
<1>. SUFFICES ASSUME Shape, DetailInv, [Next]_vars PROVE DetailInv'
  BY DEF IInv
<1>1. CASE DeleteMessage
  <2>1. Len(chat') = Len(chat) /\ UNCHANGED <<baseVars, mem, disk, retryLater, history>>
    BY <1>1 DEF DeleteMessage, Shape
  <2>. QED
    BY <2>1 DEF DetailInv, IdIn, baseVars, history
<1>2. CASE \E other \in BOOLEAN : Begin(other)
  <2>1. NewMatch.id = None
    BY DEF NewMatch
  <2>2. mem' \in {mem, NewMatch} /\ UNCHANGED <<baseVars, disk, chat, retryLater, history>>
    BY <1>2 DEF Begin, talkVars
  <2>. QED
    BY <2>1, <2>2 DEF DetailInv, IdIn, baseVars, history
<1>3. CASE Save \/ SaveFails \/ ForgetFails \/ CrashAndRestart
  <2>1. /\ mem' \in {mem, disk, None} /\ disk' \in {mem', disk} /\ retryLater' \in {retryLater, FALSE}
        /\ UNCHANGED <<baseVars, chat, late>>
    BY <1>3 DEF Save, SaveFails, ForgetFails, Forget, CrashAndRestart, talkVars, history
  <2>2. dropped' = dropped \/ (dropped' \subseteq dropped \cup DOMAIN mem.preds /\ mem \in MatchState)
    BY <1>3 DEF Save, SaveFails, ForgetFails, Forgets, LastNet, CrashAndRestart, history, Shape
  <2>3. dropped' \subseteq Rounds
    BY <2>2 DEF DetailInv, MatchState
  <2>. QED
    BY <2>1, <2>3 DEF DetailInv, IdIn, baseVars, history
<1>4. CASE \/ HourPasses \/ HalfMinute \/ ReadScores \/ ReadFinished \/ QueryFails \/ OtherFails \/ PublishNothing
           \/ UNCHANGED vars
  <2>1. UNCHANGED <<baseVars, mem, disk, chat, history>> /\ retryLater' \in {retryLater, FALSE}
    BY <1>4 DEF HourPasses, HalfMinute, ReadScores, ReadFinished, QueryFails, OtherFails, PublishNothing, vars, talkVars
  <2>. QED
    BY <2>1 DEF DetailInv, IdIn, baseVars, history
<1>5. CASE UpdateFails
  <2>1. UNCHANGED <<baseVars, disk, chat, retryLater, history>> /\ mem # None
    BY <1>5 DEF UpdateFails, talkVars
  <2>2. \E p, e : mem' = [mem EXCEPT !.preds = p, !.dirty = e]
    BY <1>5, Zenon DEF UpdateFails
  <2>3. IdIn(mem', chat)
    BY <2>1, <2>2 DEF Shape, DetailInv, IdIn, MatchState
  <2>. QED
    BY <2>1, <2>3 DEF DetailInv, IdIn, baseVars, history
<1>. QED
  BY <1>1, <1>2, <1>3, <1>4, <1>5, CollectorTypes, UpdateTypes, PublishTypes DEF Next, InStep

\* The predictions are of rounds of the match and the message that is known is one of the chat,
\* whatever the network and the crashes do.
THEOREM PredictorTypes == Spec => []TypeOK
<1>1. Init => DetailInv
  <2>. SUFFICES ASSUME Init PROVE DetailInv
    OBVIOUS
  <2>1. /\ base.score = 0 /\ base.told = 0 /\ base.detailed = 0 /\ played = 0
        /\ mem = None /\ disk = None /\ retryLater = FALSE /\ late = {} /\ dropped = {}
    BY DEF Init
  <2>2. retryLater \in BOOLEAN
    BY <2>1
  <2>. QED
    BY <2>1, <2>2 DEF DetailInv, IdIn
<1>2. IInv /\ DetailInv => TypeOK
  <2>. SUFFICES ASSUME Shape, DetailInv PROVE TypeOK
    BY DEF IInv
  <2>1. /\ base.score \in 0..played /\ base.told \in 0..played /\ base.detailed \in 0..base.told
        /\ base.finished \in BOOLEAN
    BY PredictorAssumption DEF Shape, DetailInv
  <2>2. ASSUME NEW m \in {mem, disk}, m # None
        PROVE  /\ DOMAIN m.preds \subseteq Rounds /\ \A n \in DOMAIN m.preds : m.preds[n] \in Prediction
               /\ m.id \in 1..Len(chat) \cup {None} /\ m.done \in BOOLEAN /\ m.dirty \in BOOLEAN
    <3>1. m \in MatchState /\ IdIn(m, chat)
      BY <2>2 DEF Shape, DetailInv
    <3>2. PICK S \in SUBSET Rounds : m.preds \in [S -> Prediction]
      BY <3>1 DEF MatchState
    <3>. QED
      BY <2>2, <3>1, <3>2 DEF IdIn, MatchState
  <2>. QED
    BY <2>1, <2>2 DEF TypeOK, Shape, DetailInv
<1>. QED
  BY <1>1, <1>2, DetailKept, SpecInv, PTL DEF Spec

=============================================================================
