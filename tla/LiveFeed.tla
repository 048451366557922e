------------------------------ MODULE LiveFeed ------------------------------
(***************************************************************************)
(* LiveFeedProcessor for one match: src/src/collector/live_feed.py.           *)
(*                                                                         *)
(* One message per match tells its rounds.  The response says how many rounds *)
(* are over; the round table, asked from the site, tells them and may be       *)
(* behind or ahead of the response.  The row of match_feed remembers what was  *)
(* published, so that a restart neither repeats a message nor skips a round.   *)
(***************************************************************************)
EXTENDS Naturals, Sequences

CONSTANTS
  None, Deleted,  \* no identifier; a deleted message
  MaxRounds        \* bound on the rounds of a match

INSTANCE Telegram

VARIABLES
  step,        \* where the writer is with the response
  response,    \* the response being written, or None
  table,       \* rounds told by the round table of the site
  sport,       \* "kombat": the score decides the match; "tennis": its label does
  fetched,     \* rounds read from the round table for this response
  feedId,      \* answer of Telegram for this response
  feedRow,     \* row of match_feed, or None
  feedChat,    \* messages of the feed
  stored,      \* rounds of the match in round_results
  faults       \* failures so far

feedVars == <<fetched, feedId, feedRow, feedChat, stored>>

Texts == [photo : {FALSE}, rounds : 0..MaxRounds, over : BOOLEAN]
Rows == [id : Nat \cup {None}, notified : 0..MaxRounds, finished : BOOLEAN]

TypeOK ==
  /\ fetched \in 0..MaxRounds
  /\ feedChat \in Seq(Texts \cup {Deleted})
  /\ feedId \in DOMAIN feedChat \cup {None}
  /\ feedRow \in Rows \cup {None}
  /\ feedRow # None => feedRow.id \in DOMAIN feedChat \cup {None}
  /\ stored \in 0..MaxRounds

Init == fetched = 0 /\ feedId = None /\ feedRow = None /\ feedChat = <<>> /\ stored = 0

\* The text for n rounds: a match of Mortal Kombat is over with its last round.
Text(n, over) ==
  [photo |-> FALSE, rounds |-> n, over |-> IF sport = "tennis" THEN over ELSE n = MaxRounds]

Notified == IF feedRow = None THEN 0 ELSE feedRow.notified
Finished == feedRow # None /\ feedRow.finished

\* Mutant of NothingNew: only a new round is news.
NothingNewBut == response.rounds = 0 \/ response.rounds <= Notified

\* Neither one more round nor an end that is not recorded yet.
NothingNew ==
  \/ response.rounds = 0
  \/ response.rounds <= Notified /\ (Finished \/ ~response.over)

FeedSkip ==
  /\ step = "feed" /\ NothingNew
  /\ step' = "pre"
  /\ UNCHANGED <<response, feedVars, faults>>

\* The site does not answer (ServerError, ParserError): the next cycle tries again.
FeedFails ==
  /\ step = "feed" /\ ~NothingNew
  /\ faults' = faults + 1
  /\ step' = "pre"
  /\ UNCHANGED <<response, feedVars>>

\* The round table is behind the response: the next cycle tries again.
FeedTooEarly ==
  /\ step = "feed" /\ ~NothingNew
  /\ table < response.rounds
  /\ step' = "pre"
  /\ UNCHANGED <<response, feedVars, faults>>

\* _complete_round_results stores every round of the table.
FeedFetch ==
  /\ step = "feed" /\ ~NothingNew
  /\ table >= response.rounds
  /\ fetched' = table
  /\ stored' = IF table > stored THEN table ELSE stored
  /\ step' = "feedRow"
  /\ UNCHANGED <<response, feedId, feedRow, feedChat, faults>>

FeedInsert ==
  /\ step = "feedRow"
  /\ feedRow' = IF feedRow = None THEN [id |-> None, notified |-> 0, finished |-> FALSE] ELSE feedRow
  /\ step' = "feedSend"
  /\ UNCHANGED <<response, fetched, feedId, feedChat, stored, faults>>

\* Mutant of FeedSend: an answer that never came is recorded as published.
FeedSendUnchecked ==
  /\ step = "feedSend"
  /\ LET text == Text(fetched, response.over)
     IN  \E o \in EditOrSend(feedChat, feedRow.id, text, text) :
           /\ feedChat' = o.chat /\ faults' = faults + o.faults
           /\ feedId' = IF o.id = None THEN feedRow.id ELSE o.id
           /\ step' = "feedSave"
  /\ UNCHANGED <<response, fetched, feedRow, stored>>

FeedSend ==
  /\ step = "feedSend"
  /\ LET text == Text(fetched, response.over)
     IN  \E o \in EditOrSend(feedChat, feedRow.id, text, text) :
           /\ feedChat' = o.chat /\ faults' = faults + o.faults
           /\ feedId' = o.id
           /\ IF o.id = None THEN step' = "pre" /\ fetched' = 0
              ELSE step' = "feedSave" /\ UNCHANGED fetched
  /\ UNCHANGED <<response, feedRow, stored>>

FeedSave ==
  /\ step = "feedSave"
  /\ feedRow' = [id |-> feedId, notified |-> fetched, finished |-> response.over]
  /\ step' = "pre" /\ fetched' = 0 /\ feedId' = None
  /\ UNCHANGED <<response, feedChat, stored, faults>>

Next == FeedSkip \/ FeedFails \/ FeedTooEarly \/ FeedFetch \/ FeedInsert \/ FeedSend \/ FeedSave

=============================================================================
