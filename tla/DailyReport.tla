----------------------------- MODULE DailyReport -----------------------------
(***************************************************************************)
(* The permanent journal of the predictions and the daily report:              *)
(* src/src/forecasting/journal.py and _daily_bilan, _log_round of live.py.      *)
(*                                                                         *)
(* predictions_log.jsonl is a sequence of pieces, one per write.  A write that   *)
(* is cut leaves half a record, or a record without its end of line, and what is  *)
(* written next is glued to it; or it is cut inside the first letter of         *)
(* "évaluation", and the file can no longer be decoded.  The rounds are logged   *)
(* in the order in which they are resolved; LivePredictor has the detail.      *)
(***************************************************************************)
EXTENDS Naturals, Sequences, FiniteSets

CONSTANTS
  MaxDay,    \* bound on the days
  MaxRounds  \* bound on the rounds that are resolved

VARIABLES
  day,       \* today (UTC); the service is installed on day 1
  early,     \* today is not five minutes old
  resolved,  \* rounds resolved in the database
  logged,    \* rounds marked "logged" in memory
  saved,     \* the same in live_state.json
  journal,   \* predictions_log.jsonl
  last,      \* "dernier_bilan" of bilan_state.json, None at first
  told,      \* history: messages of the report of each day that have reached the chat
  reporting, \* the day of the report in hand
  dropped,   \* rounds that _forget_old has lost: forgotten, their append failed
  dated,     \* history: days dated once told, or for want of a record
  step       \* step of the service

reportVars == <<day, early, resolved, logged, saved, journal, last, told, reporting, dropped, dated>>

Days == 0..MaxDay
None == MaxDay + 1
Cuts == {"half", "unended", "garbled"}
Kinds == {"ended"} \cup Cuts

TypeOK ==
  /\ day \in 1..MaxDay /\ early \in BOOLEAN
  /\ resolved \in 0..MaxRounds /\ logged \in 0..resolved /\ saved \in 0..resolved
  /\ journal \in Seq([round : 1..MaxRounds, day : Days, kind : Kinds])
  /\ last \in Days \cup {None}
  /\ told \in [Days -> Nat]
  /\ reporting \in Days /\ dropped \subseteq 1..MaxRounds /\ dated \subseteq Days

Init ==
  /\ day = 1 /\ early = FALSE
  /\ resolved = 0 /\ logged = 0 /\ saved = 0
  /\ journal = <<>>
  /\ last = None
  /\ told = [d \in Days |-> 0] /\ reporting = 0
  /\ dropped = {} /\ dated = {}

-----------------------------------------------------------------------------
(* The world.                                                                *)

Tomorrow ==
  /\ day < MaxDay /\ day' = day + 1 /\ early' = TRUE
  /\ UNCHANGED <<resolved, logged, saved, journal, last, told, reporting, dropped, dated, step>>

FiveMinutes ==
  /\ early /\ early' = FALSE
  /\ UNCHANGED <<day, resolved, logged, saved, journal, last, told, reporting, dropped, dated, step>>

\* A cycle reads the rounds as it begins.
Resolve ==
  /\ resolved < MaxRounds /\ resolved' = resolved + 1
  /\ step # "log"
  /\ UNCHANGED <<day, early, logged, saved, journal, last, told, reporting, dropped, dated, step>>

-----------------------------------------------------------------------------
(* The journal.                                                              *)

Piece(kind) == [round |-> logged + 1, day |-> day, kind |-> kind]

\* read_text decodes the whole file, before any line is looked at.
Garbled == \E i \in DOMAIN journal : journal[i].kind = "garbled"

\* journal.read: the line of this piece holds one record and nothing else.
Readable(i) ==
  /\ ~Garbled
  /\ i > 1 => journal[i - 1].kind = "ended"
  /\ \/ journal[i].kind = "ended"
     \/ journal[i].kind = "unended" /\ i = Len(journal)

HasRecords(d) == \E i \in DOMAIN journal : Readable(i) /\ journal[i].day = d

\* _log_round
LogRound ==
  /\ step = "log" /\ logged < resolved
  /\ journal' = Append(journal, Piece("ended")) /\ logged' = logged + 1
  /\ UNCHANGED <<day, early, resolved, saved, last, told, reporting, dropped, dated, step>>

\* The memory is that of live_state.json again, rounds that were dropped since included.
Reload == logged' = saved /\ dropped' = {n \in dropped : n <= saved}

\* The service dies in the middle of a write.
CutByDeath ==
  /\ step = "log" /\ logged < resolved
  /\ \E kind \in Cuts : journal' = Append(journal, Piece(kind))
  /\ Reload /\ step' = "down"
  /\ UNCHANGED <<day, early, resolved, saved, last, told, reporting, dated>>

\* Mutant of LogFails: a round is marked before it is written.
LogFailsMarked ==
  /\ step = "log" /\ logged < resolved
  /\ journal' = journal \/ journal' = Append(journal, Piece("half"))
  /\ logged' = logged + 1 /\ step' = "load"
  /\ UNCHANGED <<day, early, resolved, saved, last, told, reporting, dropped, dated>>

\* The database is lost as the cycle reads it, or the disk is full (as the rounds or the state
\* are written): run_forever starts a new cycle.  _update_match logs the round again then;
\* _forget_old has taken the match out of the memory, with the rounds it had still to log.
LogFails ==
  /\ step = "log"
  /\ \/ journal' = journal /\ UNCHANGED <<logged, dropped>>
     \/ /\ logged < resolved
        /\ \/ journal' = journal
           \/ \E kind \in Cuts : journal' = Append(journal, Piece(kind))
        /\ \E n \in logged..resolved : logged' = n /\ dropped' = dropped \cup ((logged + 1)..n)
  /\ step' = "load"
  /\ UNCHANGED <<day, early, resolved, saved, last, told, reporting, dated>>

\* The messages are published by then.
SaveState ==
  /\ step = "log" /\ logged = resolved
  /\ step' = "report" /\ saved' = logged
  /\ UNCHANGED <<day, early, resolved, logged, journal, last, told, reporting, dropped, dated>>

Restart ==
  /\ step = "down" /\ step' = "load"
  /\ UNCHANGED reportVars

\* The memory of the service is lost.
Die ==
  /\ step # "down" /\ step' = "down" /\ Reload /\ reporting' = 0
  /\ UNCHANGED <<day, early, resolved, saved, journal, last, told, dated>>

-----------------------------------------------------------------------------
(* The report of the day before, at the end of each cycle.  "date" is the point   *)
(* between the message and its date.                                         *)

Yesterday == day - 1

\* At the first start, the first report will be for today, tomorrow.
FirstReport ==
  /\ step = "report" /\ last = None
  /\ last' = Yesterday /\ step' = "load"
  /\ UNCHANGED <<day, early, resolved, logged, saved, journal, told, reporting, dropped, dated>>

\* bilan_state.json cannot be read: it passes for a first start.
DateUnread ==
  /\ step = "report" /\ last # None
  /\ last' = Yesterday /\ step' = "load"
  /\ UNCHANGED <<day, early, resolved, logged, saved, journal, told, reporting, dropped, dated>>

\* The report of yesterday is still to be told.
Due == last # None /\ last < Yesterday /\ ~early

NotDue ==
  /\ step = "report" /\ last # None /\ ~Due
  /\ step' = "load"
  /\ UNCHANGED reportVars

\* What read_text raises is not one of the errors that run_forever expects: the service dies.
CannotRead == step = "report" /\ Due /\ Garbled

NothingToTell ==
  /\ step = "report" /\ Due /\ ~Garbled /\ ~HasRecords(Yesterday)
  /\ last' = Yesterday /\ dated' = dated \cup {Yesterday} /\ step' = "load"
  /\ UNCHANGED <<day, early, resolved, logged, saved, journal, told, reporting, dropped>>

Tell ==
  /\ step = "report" /\ Due /\ HasRecords(Yesterday)
  /\ told' = [told EXCEPT ![Yesterday] = @ + 1]
  /\ reporting' = Yesterday /\ step' = "date"
  /\ UNCHANGED <<day, early, resolved, logged, saved, journal, last, dropped, dated>>

\* Mutant of TellInVain: a report that was refused is dated all the same.
TellInVainAndDate ==
  /\ step = "report" /\ Due /\ HasRecords(Yesterday)
  /\ told' = told
  /\ reporting' = Yesterday /\ step' = "date"
  /\ UNCHANGED <<day, early, resolved, logged, saved, journal, last, dropped, dated>>

\* Telegram refuses the message, or its answer is lost: the next cycle tries again.
TellInVain ==
  /\ step = "report" /\ Due /\ HasRecords(Yesterday)
  /\ told' \in {told, [told EXCEPT ![Yesterday] = @ + 1]}
  /\ step' = "load"
  /\ UNCHANGED <<day, early, resolved, logged, saved, journal, last, reporting, dropped, dated>>

SaveDate ==
  /\ step = "date" /\ step' = "load" /\ reporting' = 0
  /\ last' = reporting /\ dated' = dated \cup {reporting}
  /\ UNCHANGED <<day, early, resolved, logged, saved, journal, told, dropped>>

\* The disk is full.
SaveFails ==
  /\ step = "date" /\ step' = "load" /\ reporting' = 0
  /\ UNCHANGED <<day, early, resolved, logged, saved, journal, last, told, dropped, dated>>

Cycle ==
  \/ LogRound \/ SaveState
  \/ FirstReport \/ NotDue \/ NothingToTell \/ Tell \/ SaveDate

Fault == CutByDeath \/ LogFails \/ Die \/ DateUnread \/ TellInVain \/ SaveFails

=============================================================================
