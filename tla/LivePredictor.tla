--------------------------- MODULE LivePredictor ---------------------------
(***************************************************************************)
(* The prediction service for one match: src/src/forecasting/live.py.         *)
(*                                                                         *)
(* Every few seconds step() reads the database in several queries, predicts    *)
(* the next round, judges the predictions whose result has come, publishes one *)
(* message per match and saves its state in live_state.json.  The collector    *)
(* writes meanwhile; the process may die between any two awaits, and what was  *)
(* published or journalled is then ahead of the saved state.                  *)
(* Matches share nothing but the cycle: publishing happens only in a cycle      *)
(* where some match is active.  Market quotes are left out.                  *)
(***************************************************************************)
EXTENDS Naturals, Sequences, FiniteSets

CONSTANTS
  MaxRounds,        \* rounds that decide the match
  WithDetail,       \* rounds whose prediction also says the finish or the duration
  MaxEditFailures,  \* MAX_EDIT_FAILURES
  MaxFaults,        \* bound on failures, crashes and deletions
  None, Deleted

ASSUME PredictorAssumption ==
  /\ MaxRounds \in Nat \ {0} /\ WithDetail \subseteq 1..MaxRounds
  /\ MaxEditFailures \in Nat \ {0} /\ MaxFaults \in Nat
  /\ None \notin Nat

INSTANCE Telegram

Kinds == {"crash", "query", "save", "network", "deletion"}

VARIABLES
  base,          \* the database: score, rounds with a winner, with details, end of the match
  played,        \* rounds over for the site
  step,          \* where step() is
  seen,          \* score and end as read by this step
  mem,           \* self.state for this match, or None
  disk,          \* live_state.json for this match, or None
  journal,       \* lines of predictions_log.jsonl for each round
  chat,          \* messages
  editFailures,  \* self.edit_failures
  retryLater,    \* self.retry_at is in the future
  hour,          \* FORGET_AFTER_SECONDS have passed since the match was done or seen
  faults,        \* how many times each kind of fault happened
  failedEdits,   \* history: edits that failed
  lostSends,     \* history: messages sent whose answer was lost
  late,          \* history: rounds predicted while round_results had their winner
  dropped        \* history: predictions forgotten though their append had failed

baseVars == <<base, played>>
talkVars == <<chat, editFailures, retryLater, failedEdits, lostSends>>
history == <<late, dropped>>
vars == <<baseVars, step, seen, mem, disk, journal, talkVars, hour, faults, history>>

Rounds == 1..MaxRounds
Prediction == [winner : BOOLEAN, detail : BOOLEAN, logged : BOOLEAN]
MatchState == [preds : UNION {[S -> Prediction] : S \in SUBSET Rounds},
               id : Nat \cup {None}, done : BOOLEAN, dirty : BOOLEAN]
ASSUME NoMatchAssumption == None \notin MatchState
NewMatch == [preds |-> <<>>, id |-> None, done |-> FALSE, dirty |-> FALSE]

TypeOK ==
  /\ played \in 0..MaxRounds
  /\ base.score \in 0..played /\ base.told \in 0..played /\ base.detailed \in 0..base.told
  /\ base.finished \in BOOLEAN
  /\ step \in {"idle", "scores", "finished", "rounds", "publish", "save"}
  /\ seen \in [score : 0..MaxRounds, finished : BOOLEAN]
  /\ \A m \in {mem, disk} : m = None \/
       /\ DOMAIN m.preds \subseteq Rounds /\ \A n \in DOMAIN m.preds : m.preds[n] \in Prediction
       /\ m.id \in 1..Len(chat) \cup {None} /\ m.done \in BOOLEAN /\ m.dirty \in BOOLEAN
  /\ journal \in [Rounds -> Nat]
  /\ retryLater \in BOOLEAN /\ hour \in BOOLEAN
  /\ late \subseteq Rounds /\ dropped \subseteq Rounds

Init ==
  /\ base = [score |-> 0, told |-> 0, detailed |-> 0, finished |-> FALSE] /\ played = 0
  /\ step = "idle" /\ seen = [score |-> 0, finished |-> FALSE]
  /\ mem = None /\ disk = None
  /\ journal = [n \in Rounds |-> 0]
  /\ chat = <<>> /\ editFailures = 0 /\ retryLater = FALSE
  /\ failedEdits = 0 /\ lostSends = 0
  /\ hour = FALSE
  /\ faults = [k \in Kinds |-> 0]
  /\ late = {} /\ dropped = {}

Total(f) == f["crash"] + f["query"] + f["save"] + f["network"] + f["deletion"]
Fault(k) == Total(faults) < MaxFaults /\ faults' = [faults EXCEPT ![k] = @ + 1]

-----------------------------------------------------------------------------
(* The match, and what the collector writes of it.                           *)

Play ==
  /\ played < MaxRounds /\ played' = played + 1
  /\ UNCHANGED <<base, step, seen, mem, disk, journal, talkVars, hour, faults, history>>

Write(b) ==
  /\ base' = b
  /\ UNCHANGED <<played, step, seen, mem, disk, journal, talkVars, hour, faults, history>>

\* game_state, at each response.
WriteScore == base.score < played /\ Write([base EXCEPT !.score = played])

\* round_results: the live feed asks for the round table once the response counts a round,
\* and the table may be ahead of the response (LiveFeed).
WriteWinners == base.score > 0 /\ base.told < played /\ Write([base EXCEPT !.told = played])

WriteDetails == base.detailed < base.told /\ Write([base EXCEPT !.detailed = base.told])

\* events.finished_at, with a response that counts every round.
WriteEnd ==
  /\ base.score = MaxRounds /\ ~base.finished
  /\ Write([base EXCEPT !.finished = TRUE])

Collector == Play \/ WriteScore \/ WriteWinners \/ WriteDetails \/ WriteEnd

\* An hour later: the match is no more on the list and Telegram has answered by then.
HourPasses ==
  /\ ~hour /\ base.finished
  /\ mem # None /\ (mem.done \/ mem.preds = <<>>) /\ (mem.dirty => mem.preds = <<>>)
  /\ hour' = TRUE
  /\ UNCHANGED <<baseVars, step, seen, mem, disk, journal, talkVars, faults, history>>

HalfMinute ==
  /\ retryLater /\ retryLater' = FALSE
  /\ UNCHANGED <<baseVars, step, seen, mem, disk, journal, chat, editFailures, failedEdits,
                 lostSends, hour, faults, history>>

DeleteMessage ==
  /\ \E i \in DOMAIN chat : chat[i] # Deleted /\ chat' = [chat EXCEPT ![i] = Deleted]
  /\ Fault("deletion")
  /\ UNCHANGED <<baseVars, step, seen, mem, disk, journal, editFailures, retryLater,
                 failedEdits, lostSends, hour, history>>

-----------------------------------------------------------------------------
(* step(): the queries, one after the other.                                 *)

\* LIVE_MATCHES_SQL.  "other" tells whether some other match is active.
Begin(other) ==
  /\ step = "idle"
  /\ mem' = IF mem = None /\ ~base.finished THEN NewMatch ELSE mem
  /\ step' = IF other \/ (mem' # None /\ ~mem'.done) THEN "scores" ELSE "save"
  /\ UNCHANGED <<baseVars, seen, disk, journal, talkVars, hour, faults, history>>

ReadScores ==
  /\ step = "scores"
  /\ seen' = [seen EXCEPT !.score = base.score]
  /\ step' = "finished"
  /\ UNCHANGED <<baseVars, mem, disk, journal, talkVars, hour, faults, history>>

ReadFinished ==
  /\ step = "finished"
  /\ seen' = [seen EXCEPT !.finished = base.finished]
  /\ step' = "rounds"
  /\ UNCHANGED <<baseVars, mem, disk, journal, talkVars, hour, faults, history>>

\* The database fails: run_forever starts the cycle again, the memory stays.
QueryFails ==
  /\ step \in {"scores", "finished", "rounds"}
  /\ Fault("query")
  /\ step' = "idle" /\ seen' = [score |-> 0, finished |-> FALSE]
  /\ UNCHANGED <<baseVars, mem, disk, journal, talkVars, hour, history>>

-----------------------------------------------------------------------------
(* _update_match, from the rounds read now.                                  *)

Over == seen.score = MaxRounds \/ seen.finished
NextRound == seen.score + 1

Read(preds) ==
  [n \in DOMAIN preds |->
     [preds[n] EXCEPT !.winner = @ \/ n <= base.told,
                      !.detail = @ \/ (n \in WithDetail /\ n <= base.detailed)]]

Resolved(preds) == {n \in DOMAIN preds : preds[n].winner /\ (n \in WithDetail => preds[n].detail)}

\* Mutant of ToLog: what is already in the journal is written again.
ToLogAlways(preds) == Resolved(preds)

\* _is_resolved, and not logged yet.
ToLog(preds) == {n \in Resolved(preds) : ~preds[n].logged}

LogIn(preds, S) == [n \in DOMAIN preds |-> [preds[n] EXCEPT !.logged = @ \/ n \in S]]
Journalled(S) == [n \in Rounds |-> IF n \in S THEN journal[n] + 1 ELSE journal[n]]

\* Mutant of Predicts: the results of the earlier rounds are not awaited.
PredictsBlindly(preds) == ~Over /\ NextRound \notin DOMAIN preds

\* The next round is predicted once every earlier round has its winner.
Predicts(preds) == ~Over /\ NextRound \notin DOMAIN preds /\ base.told >= NextRound - 1

WithNext(preds) ==
  [n \in DOMAIN preds \cup {NextRound} |->
     IF n \in DOMAIN preds THEN preds[n] ELSE [winner |-> FALSE, detail |-> FALSE, logged |-> FALSE]]

\* Mutant of IsDone: every prediction must be resolved in full.
IsDoneInFull(preds) == Over /\ \A n \in DOMAIN preds : preds[n].logged

IsDone(preds) == Over /\ \A n \in DOMAIN preds : preds[n].winner

Update ==
  /\ step = "rounds"
  /\ IF mem = None \/ mem.done THEN UNCHANGED <<mem, journal, late>>
     ELSE LET read == Read(mem.preds)
              logged == LogIn(read, ToLog(read))
              new == IF Predicts(logged) THEN WithNext(logged) ELSE logged
          IN  /\ journal' = Journalled(ToLog(read))
              /\ mem' = [mem EXCEPT !.preds = new, !.done = IsDone(new),
                           !.dirty = @ \/ read # mem.preds \/ new # logged \/ IsDone(new)]
              /\ late' = IF Predicts(logged) /\ base.told >= NextRound
                           THEN late \cup {NextRound} ELSE late
  /\ step' = "publish" /\ seen' = [score |-> 0, finished |-> FALSE]
  /\ UNCHANGED <<baseVars, disk, talkVars, hour, faults, dropped>>

\* The append of round k fails, the disk being full: the cycle ends there, with the rounds
\* before k up to date and journalled, and k up to date but still to be journalled.
UpdateFails ==
  /\ step = "rounds" /\ mem # None /\ ~mem.done
  /\ Fault("save")
  /\ \E k \in ToLog(Read(mem.preds)) :
       LET part == [n \in DOMAIN mem.preds |->
                      IF n <= k THEN Read(mem.preds)[n] ELSE mem.preds[n]]
           written == {n \in ToLog(Read(mem.preds)) : n < k}
       IN  /\ journal' = Journalled(written)
           /\ mem' = [mem EXCEPT !.preds = LogIn(part, written), !.dirty = @ \/ part # mem.preds]
  /\ step' = "idle" /\ seen' = [score |-> 0, finished |-> FALSE]
  /\ UNCHANGED <<baseVars, disk, talkVars, hour, history>>

\* The append of another match fails, in its _update_match or in _forget_old.
OtherFails ==
  /\ step \in {"rounds", "publish", "save"}
  /\ Fault("save")
  /\ step' = "idle" /\ seen' = [score |-> 0, finished |-> FALSE]
  /\ UNCHANGED <<baseVars, mem, disk, journal, talkVars, hour, history>>

-----------------------------------------------------------------------------
(* _publish.                                                                 *)

\* render_message, with what the properties look at.
Message(m) == [photo |-> FALSE, told |-> [n \in DOMAIN m.preds |-> m.preds[n].winner], over |-> m.done]

\* Mutant of Quiet: a match that is done is left alone.
QuietOnceDone == mem # None => mem.done \/ ~mem.dirty \/ mem.preds = <<>> \/ retryLater

Quiet == mem # None => ~mem.dirty \/ mem.preds = <<>> \/ retryLater

PublishNothing ==
  /\ step = "publish" /\ Quiet
  /\ step' = "save"
  /\ UNCHANGED <<baseVars, seen, mem, disk, journal, talkVars, hour, faults, history>>

\* Mutant of SendsNew: a failed edit is enough.
SendsNewAtOnce == mem.id = None \/ editFailures >= 1

\* A new message: the first one, or after MAX_EDIT_FAILURES failures in a row.
SendsNew == mem.id = None \/ editFailures >= MaxEditFailures

Outcomes ==
  IF SendsNew THEN Send(chat, Message(mem))
  ELSE {[chat |-> e.chat, id |-> IF e.ok THEN mem.id ELSE None, faults |-> e.faults] :
          e \in Edit(chat, mem.id, Message(mem))}

Publish ==
  /\ step = "publish" /\ ~Quiet
  /\ \E o \in Outcomes :
       /\ chat' = o.chat
       /\ IF o.id # None
            THEN /\ mem' = [mem EXCEPT !.id = o.id, !.dirty = FALSE]
                 /\ editFailures' = 0
                 /\ UNCHANGED retryLater
            ELSE /\ editFailures' = IF mem.id = None THEN editFailures ELSE editFailures + 1
                 /\ retryLater' = TRUE
                 /\ UNCHANGED mem
       /\ IF o.faults > 0 THEN Fault("network") ELSE UNCHANGED faults
       /\ failedEdits' = IF ~SendsNew /\ o.id = None THEN failedEdits + 1 ELSE failedEdits
       /\ lostSends' = IF SendsNew /\ o.id = None /\ o.chat # chat THEN lostSends + 1 ELSE lostSends
  /\ step' = "save"
  /\ UNCHANGED <<baseVars, seen, disk, journal, hour, history>>

-----------------------------------------------------------------------------
(* _forget_old and _save_json.                                               *)

Forgets == mem # None /\ hour /\ (mem.done \/ mem.preds = <<>>)

\* Mutant of LastNet: what is not resolved in full is dropped.
LastNetEmpty == {}

\* "rien de predit ne sort du journal": the predictions that know their winner.
LastNet == {n \in DOMAIN mem.preds : ~mem.preds[n].logged /\ mem.preds[n].winner}

Forget ==
  IF Forgets THEN mem' = None /\ journal' = Journalled(LastNet) /\ hour' = FALSE
  ELSE UNCHANGED <<mem, journal, hour>>

Save ==
  /\ step = "save"
  /\ Forget
  /\ disk' = mem'
  /\ step' = "idle"
  /\ UNCHANGED <<baseVars, seen, talkVars, faults, history>>

\* The append of round k fails: the match is already out of the memory, with the rounds from
\* k on, and the next cycle saves the state without it.
ForgetFails ==
  /\ step = "save" /\ Forgets
  /\ Fault("save")
  /\ \E k \in LastNet :
       /\ journal' = Journalled({n \in LastNet : n < k})
       /\ dropped' = dropped \cup {n \in LastNet : n >= k}
  /\ mem' = None /\ hour' = FALSE
  /\ step' = "idle"
  /\ UNCHANGED <<baseVars, seen, disk, talkVars, late>>

\* The file itself cannot be written.
SaveFails ==
  /\ step = "save"
  /\ Fault("save")
  /\ Forget
  /\ step' = "idle"
  /\ UNCHANGED <<baseVars, seen, disk, talkVars, history>>

\* The process dies and starts again from live_state.json.
CrashAndRestart ==
  /\ Fault("crash")
  /\ mem' = disk
  /\ hour' = (hour /\ disk # None /\ (disk.done \/ disk.preds = <<>>))
  /\ step' = "idle" /\ seen' = [score |-> 0, finished |-> FALSE]
  /\ editFailures' = 0 /\ retryLater' = FALSE
  /\ UNCHANGED <<baseVars, disk, journal, chat, failedEdits, lostSends, history>>

InStep == ReadScores \/ ReadFinished \/ Update \/ PublishNothing \/ Publish \/ Save

Next ==
  \/ Collector \/ HourPasses \/ HalfMinute \/ DeleteMessage
  \/ (\E other \in BOOLEAN : Begin(other)) \/ InStep
  \/ QueryFails \/ UpdateFails \/ OtherFails \/ ForgetFails \/ SaveFails \/ CrashAndRestart

Spec == Init /\ [][Next]_vars

\* The match is played to its end and the collector writes it; time passes; the loop of
\* run_forever turns, and in some of its cycles another match is active.
FairSpec ==
  /\ Spec
  /\ WF_vars(Play) /\ WF_vars(WriteScore) /\ WF_vars(WriteWinners) /\ WF_vars(WriteEnd)
  /\ WF_vars(HourPasses) /\ WF_vars(HalfMinute)
  /\ WF_vars(\E other \in BOOLEAN : Begin(other)) /\ SF_vars(Begin(TRUE))
  /\ WF_vars(InStep)

-----------------------------------------------------------------------------
(* Properties.                                                               *)

\* At most one prediction is open: each round is predicted knowing the winner of all those
\* before it (_update_match, previous_known), whatever the order of the queries.
OneOpenPrediction ==
  mem # None => Cardinality({n \in DOMAIN mem.preds : ~mem.preds[n].winner}) <= 1

\* A prediction is journalled once, and once more at most for each crash between the journal
\* and live_state.json.
JournalledOnce == \A n \in Rounds : journal[n] <= 1 + faults["crash"]

\* A new message is sent only when the first one is not known to exist or after
\* MAX_EDIT_FAILURES failed edits: a mere cut of the network makes no duplicate.
MessagesAreAccounted ==
  Len(chat) <= 1 + faults["crash"] + lostSends + failedEdits \div MaxEditFailures

\* Once saved, a prediction ends up in the journal, in full or by the last net of
\* _forget_old, across crashes and failed cycles, unless that net found the disk full.
SavedIsJournalled ==
  \A n \in Rounds :
    (disk # None /\ n \in DOMAIN disk.preds) ~> (journal[n] >= 1 \/ n \in dropped)

\* The message of a match that is done ends up telling every winner and the end.
MessageIsCompleted ==
  (disk # None /\ disk.done /\ disk.preds # <<>>) ~>
    \E i \in DOMAIN chat : chat[i] = Deleted \/ (chat[i].over /\ \A n \in DOMAIN chat[i].told : chat[i].told[n])

\* The state of a match that is over ends up forgotten, in memory and on disk.
MatchIsForgotten == <>[](mem = None /\ disk = None)

\* What the code says of itself: each round is predicted "avant qu'elle commence".
PredictedBeforeResult == late = {}

\* What _forget_old says of itself: "rien de prédit ne sort du journal".  A saved state
\* that is forgotten leaves every prediction that knew its winner in the journal.  A full disk
\* breaks it (README, section 6).
NothingLeavesTheJournal ==
  [][disk # None /\ disk' = None =>
       \A n \in DOMAIN disk.preds : disk.preds[n].winner => journal'[n] >= 1]_vars

=============================================================================
