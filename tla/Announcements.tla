---------------------------- MODULE Announcements ----------------------------
(***************************************************************************)
(* The two Telegram messages of a match, as the writer publishes them.        *)
(*                                                                         *)
(* For every response, in the order of the queue, Scheduler.write_once calls    *)
(* live_feed.process_games then pre_match.process_games (scheduler.py), after   *)
(* the odds are committed (OddsHistory).  Matches are handled one by one and     *)
(* share nothing, so one match is modelled.  A response may be old when it is    *)
(* written; the process may die between any two statements; Telegram may fail.   *)
(***************************************************************************)
EXTENDS Naturals, Sequences

CONSTANTS
  None, Deleted,
  MaxRounds,   \* bound on the rounds of a match
  MaxLeft,     \* bound on the countdown
  MaxQueue,    \* bound on the responses waiting to be written
  MaxFaults    \* bound on failures, crashes and deletions

VARIABLES
  match,       \* the match for the site: countdown, rounds, label
  queue,       \* responses waiting
  misled,      \* history: the fallback answered while the match was counting down
  step, response, table, sport, portraits, faults,
  fetched, feedId, feedRow, feedChat, stored,
  recent, annId, annPhoto, annRow, annChat

siteVars == <<match, table, sport, portraits>>

feedVars == <<fetched, feedId, feedRow, feedChat, stored>>
annVars == <<recent, annId, annPhoto, annRow, annChat>>

Feed == INSTANCE LiveFeed
Ann == INSTANCE PreMatch

ASSUME AnnouncementsAssumption ==
  /\ MaxRounds \in Nat \ {0} /\ MaxLeft \in Nat
  /\ MaxQueue \in Nat \ {0} /\ MaxFaults \in Nat
  /\ None \notin Nat /\ None \notin Feed!Rows /\ None \notin Ann!Rows
  /\ Deleted \notin Feed!Texts /\ Deleted \notin Ann!Captions

vars == <<siteVars, queue, misled, step, response, faults, feedVars, annVars>>

Steps == {"idle", "feed", "feedRow", "feedSend", "feedSave", "pre", "annSend", "annSave", "annClose"}
Responses == [counting : BOOLEAN, left : 0..MaxLeft, rounds : 0..MaxRounds, over : BOOLEAN]

TypeOK ==
  /\ match \in Responses /\ table \in 0..match.rounds /\ sport \in {"kombat", "tennis"}
  /\ queue \in Seq(Responses) /\ Len(queue) <= MaxQueue /\ misled \in BOOLEAN
  /\ step \in Steps
  /\ IF step = "idle" THEN response = None ELSE response \in Responses
  /\ faults \in 0..MaxFaults
  /\ Feed!TypeOK /\ Ann!TypeOK

Init ==
  /\ match = [counting |-> TRUE, left |-> MaxLeft, rounds |-> 0, over |-> FALSE]
  /\ table = 0 /\ sport \in {"kombat", "tennis"} /\ portraits \in BOOLEAN
  /\ queue = <<>> /\ misled = FALSE /\ step = "idle" /\ response = None /\ faults = 0
  /\ Feed!Init /\ Ann!Init

-----------------------------------------------------------------------------
(* The site and the readers of the chats.                                    *)

CountDown ==
  /\ match.counting /\ match.left > 0
  /\ match' = [match EXCEPT !.left = @ - 1]
  /\ UNCHANGED <<table, sport, portraits, queue, misled, step, response, faults, feedVars, annVars>>

StartMatch ==
  /\ match.counting
  /\ match' = [match EXCEPT !.counting = FALSE, !.left = 0]
  /\ UNCHANGED <<table, sport, portraits, queue, misled, step, response, faults, feedVars, annVars>>

PlayRound ==
  /\ ~match.counting /\ match.rounds < MaxRounds
  /\ match' = [match EXCEPT !.rounds = @ + 1]
  /\ UNCHANGED <<table, sport, portraits, queue, misled, step, response, faults, feedVars, annVars>>

\* "Jeu termine" may come after the last round.
EndMatch ==
  /\ match.rounds = MaxRounds /\ ~match.over
  /\ match' = [match EXCEPT !.over = TRUE]
  /\ UNCHANGED <<table, sport, portraits, queue, misled, step, response, faults, feedVars, annVars>>

TableCatchesUp ==
  /\ table < match.rounds
  /\ table' = table + 1
  /\ UNCHANGED <<match, sport, portraits, queue, misled, step, response, faults, feedVars, annVars>>

\* Somebody deletes a message by hand.
DeleteMessage ==
  /\ \/ /\ \E i \in DOMAIN feedChat :
             feedChat[i] # Deleted /\ feedChat' = [feedChat EXCEPT ![i] = Deleted]
        /\ UNCHANGED annChat
     \/ /\ \E i \in DOMAIN annChat :
             annChat[i] # Deleted /\ annChat' = [annChat EXCEPT ![i] = Deleted]
        /\ UNCHANGED feedChat
  /\ faults' = faults + 1
  /\ UNCHANGED <<siteVars, queue, misled, step, response, fetched, feedId, feedRow, stored,
                 recent, annId, annPhoto, annRow>>

-----------------------------------------------------------------------------
(* The collector.                                                            *)

\* What a source says of the match: the fallback does not tell which way its timer runs, so
\* that its responses never count down.
Answer(source) == IF source = "main" THEN match ELSE [match EXCEPT !.counting = FALSE]

\* One of the two sources answers; the response waits for the writer.
Poll ==
  /\ Len(queue) < MaxQueue
  /\ \E source \in {"main", "fallback"} :
       /\ queue' = Append(queue, Answer(source))
       /\ misled' = (misled \/ Answer(source) # match)
  /\ UNCHANGED <<siteVars, step, response, faults, feedVars, annVars>>

\* Mutant of TakeJob: the newest response first.
TakeNewest ==
  /\ step = "idle" /\ queue # <<>>
  /\ response' = queue[Len(queue)]
  /\ queue' = SubSeq(queue, 1, Len(queue) - 1)
  /\ step' = "feed"
  /\ UNCHANGED <<siteVars, misled, faults, feedVars, annVars>>

\* The writer takes the oldest response and commits its odds.
TakeJob ==
  /\ step = "idle" /\ queue # <<>>
  /\ response' = Head(queue) /\ queue' = Tail(queue)
  /\ step' = "feed"
  /\ UNCHANGED <<siteVars, misled, faults, feedVars, annVars>>

\* Ten seconds after the last edit of the announcement.
TenSeconds ==
  /\ recent /\ recent' = FALSE
  /\ UNCHANGED <<siteVars, queue, misled, step, response, faults, feedVars, annId, annPhoto, annRow, annChat>>

\* The process dies and starts again.
CrashAndRestart ==
  /\ faults' = faults + 1
  /\ queue' = <<>> /\ step' = "idle" /\ response' = None
  /\ fetched' = 0 /\ feedId' = None
  /\ recent' = FALSE /\ annId' = None /\ annPhoto' = FALSE
  /\ UNCHANGED <<siteVars, misled, feedRow, feedChat, stored, annRow, annChat>>

Site == CountDown \/ StartMatch \/ PlayRound \/ EndMatch \/ TableCatchesUp
FeedStep == Feed!Next /\ UNCHANGED <<siteVars, queue, misled, annVars>>
AnnounceStep == Ann!Next /\ UNCHANGED <<siteVars, queue, misled, feedVars>>

Next ==
  /\ \/ Site \/ DeleteMessage
     \/ Poll \/ TakeJob \/ FeedStep \/ AnnounceStep \/ TenSeconds
     \/ CrashAndRestart
  /\ faults' <= MaxFaults

Spec == Init /\ [][Next]_vars

\* Time passes, the two loops run, and the site ends up telling the rounds it counted.
FairSpec ==
  /\ Spec
  /\ WF_vars(TableCatchesUp) /\ WF_vars(TenSeconds)
  /\ WF_vars(Poll)
  /\ WF_vars((TakeJob \/ FeedStep \/ AnnounceStep) /\ faults' <= MaxFaults)

-----------------------------------------------------------------------------
(* Properties.                                                               *)

\* What match_feed remembers was really published: the message it names shows at least the
\* rounds it counts, and the end if it says so, unless somebody deleted that message; and
\* those rounds are in round_results.
FeedRowIsHonest ==
  feedRow # None /\ feedRow.notified > 0 =>
    /\ feedRow.notified <= stored
    /\ feedRow.id # None
    /\ \/ feedChat[feedRow.id] = Deleted
       \/ /\ feedChat[feedRow.id].rounds >= feedRow.notified
          /\ feedRow.finished => feedChat[feedRow.id].over

\* "Un message par match": each message beyond the first one of each kind is the effect of
\* a failure, a crash or a deletion of its own.
ExtraMessagesAreExplained == Len(feedChat) + Len(annChat) <= 2 + faults

\* No message goes back.  The message of the feed loses neither a round nor the end it told.
\* The countdown of an announcement never goes up, and a match said to have started counts
\* down again only if the fallback answered before the start and the process failed to record
\* the last edit.
MessagesGoForward ==
  [][/\ \A i \in DOMAIN feedChat :
          feedChat[i] # Deleted /\ feedChat'[i] # Deleted =>
            /\ feedChat'[i].rounds >= feedChat[i].rounds
            /\ feedChat[i].over => feedChat'[i].over
     /\ \A i \in DOMAIN annChat :
          annChat[i] # Deleted /\ annChat'[i] # Deleted /\ annChat'[i] # annChat[i] =>
            \/ annChat'[i].left = None
            \/ IF annChat[i].left = None THEN misled /\ faults > 0
               ELSE annChat'[i].left < annChat[i].left]_vars

\* "seconds_remaining is None signale que le match a demarre" (telegram_feed.py): a message
\* that says the match starts is about a match that has started.  The fallback breaks it
\* (README, section 6).
AnnouncedStartIsReal ==
  \A i \in DOMAIN annChat : annChat[i] # Deleted /\ annChat[i].left = None => ~match.counting

\* A match the site says over is published to its end, if it stays listed: all its rounds
\* and its end, even when the label comes a cycle after the last round.
FeedIsCompleted ==
  match.over ~>
    /\ feedRow # None /\ feedRow.finished /\ feedRow.notified = MaxRounds
    /\ feedChat[feedRow.id] = Deleted \/ feedChat[feedRow.id] = Feed!Text(MaxRounds, TRUE)

=============================================================================
