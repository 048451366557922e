------------------------- MODULE AnnouncementsProof -------------------------
(***************************************************************************)
(* What holds of the two messages of a match for any number of rounds, any     *)
(* countdown, any queue and any number of failures.                          *)
(***************************************************************************)
EXTENDS Announcements, TLAPS

-----------------------------------------------------------------------------
(* The responses.                                                            *)

\* The site says a match over after its last round only.
EndInv ==
  /\ match.over => match.rounds = MaxRounds
  /\ \A i \in DOMAIN queue : queue[i].over => queue[i].rounds = MaxRounds
  /\ step # "idle" /\ response.over => response.rounds = MaxRounds

\* a was answered before b: the countdown goes down, the match ends once, and it starts once
\* unless the fallback said so before the start.
Before(a, b) ==
  /\ b.left <= a.left
  /\ a.over => b.over
  /\ misled \/ (b.counting => a.counting)

\* The responses are written in the order of the site.
OrderInv ==
  /\ \A i, j \in DOMAIN queue : i < j => Before(queue[i], queue[j])
  /\ \A i \in DOMAIN queue : Before(queue[i], match)
  /\ step # "idle" => Before(response, match) /\ \A i \in DOMAIN queue : Before(response, queue[i])

-----------------------------------------------------------------------------
(* The feed.                                                                 *)

\* The message shows n rounds, and the end if over, or it was deleted.
Shows(message, n, over) ==
  message = Deleted \/ (message.rounds >= n /\ (over => message.over))

RowInv ==
  feedRow # None =>
    /\ feedRow.notified <= stored
    /\ feedRow.finished => feedRow.notified = MaxRounds
    /\ feedRow.notified > 0 =>
         feedRow.id # None /\ Shows(feedChat[feedRow.id], feedRow.notified, feedRow.finished)

\* What has been read covers what has been published; an end is not published twice.
FetchInv ==
  /\ stored <= table
  /\ \A i \in DOMAIN feedChat : feedChat[i] # Deleted => feedChat[i].rounds <= table
  /\ step \in {"feedRow", "feedSend", "feedSave"} =>
       /\ response.rounds <= fetched /\ fetched <= stored
       /\ feedRow # None => feedRow.notified <= fetched /\ ~feedRow.finished
  /\ step \in {"feedRow", "feedSend"} =>
       \A i \in DOMAIN feedChat : feedChat[i] # Deleted => feedChat[i].rounds <= fetched
  /\ step \in {"feedSend", "feedSave"} => feedRow # None
  /\ step = "feedSave" => feedId # None /\ Shows(feedChat[feedId], fetched, response.over)

\* A message that tells the end: the label said so to every response since, or, where the
\* score decides, the message shows every round.
OverInv ==
  \A i \in DOMAIN feedChat : feedChat[i] # Deleted /\ feedChat[i].over =>
    IF sport = "tennis"
    THEN match.over /\ (\A j \in DOMAIN queue : queue[j].over) /\ (step # "idle" => response.over)
    ELSE feedChat[i].rounds = MaxRounds

-----------------------------------------------------------------------------
(* The announcement.                                                         *)

\* What the caption tells is not younger than the response.
Told(caption, r) ==
  caption = Deleted \/ IF caption.left = None THEN misled \/ ~r.counting ELSE r.left <= caption.left

CaptionInv ==
  \A i \in DOMAIN annChat :
    /\ Told(annChat[i], match)
    /\ \A j \in DOMAIN queue : Told(annChat[i], queue[j])
    /\ step # "idle" => Told(annChat[i], response)

\* Without a failure, the match that is said to have started is closed, or about to be.
StartedInv ==
  faults = 0 =>
    \A i \in DOMAIN annChat : annChat[i] # Deleted /\ annChat[i].left = None =>
      annRow # None /\ (annRow.done \/ step = "annClose")

\* The kind of the message is the one the row remembers; what is sent or saved has a response
\* of before the start.
KindInv ==
  /\ annRow # None /\ annRow.id # None /\ annChat[annRow.id] # Deleted =>
       annChat[annRow.id].photo = annRow.photo
  /\ step = "annSave" =>
       annId # None /\ (annChat[annId] # Deleted => annChat[annId].photo = annPhoto)
  /\ step \in {"annSend", "annSave", "annClose"} => annRow # None /\ ~annRow.done
  /\ step = "annSend" => annRow.id = None

-----------------------------------------------------------------------------
(* The count of the messages.                                                *)

\* The next message of the feed can only be a new one.
FeedGone(id) == id = None \/ feedChat[id] = Deleted
FeedOwes ==
  IF step = "feedSave" THEN FeedGone(feedId) ELSE feedRow = None \/ FeedGone(feedRow.id)

\* The next message of the announcement may be a new one: the old one is gone, or it is a
\* photo whose caption is ahead of the row.
AnnGone(id, photo, last) == id = None \/ annChat[id] = Deleted \/ (photo /\ annChat[id].left # last)
AnnOwes ==
  IF step = "annSave" THEN AnnGone(annId, annPhoto, response.left)
  ELSE /\ step # "annClose"
       /\ annRow = None \/ (~annRow.done /\ AnnGone(annRow.id, annRow.photo, annRow.last))

Debt(owes) == IF owes THEN 1 ELSE 0

CountInv == Len(feedChat) + Len(annChat) + Debt(FeedOwes) + Debt(AnnOwes) <= 2 + faults

Inv ==
  /\ TypeOK /\ EndInv /\ OrderInv /\ RowInv /\ FetchInv /\ OverInv
  /\ CaptionInv /\ StartedInv /\ KindInv /\ CountInv

-----------------------------------------------------------------------------
(* What a call of Telegram may do to a chat.                                 *)

\* The edition that the chat refuses without a failure.
Refused(chat, id, message) ==
  \/ id = None \/ chat[id] = Deleted \/ chat[id].photo # message.photo
  \/ chat[id] = message /\ message.photo

LEMMA EditOutcome ==
  ASSUME NEW chat, NEW id, NEW message, NEW e \in Feed!Edit(chat, id, message)
  PROVE  \/ Refused(chat, id, message) /\ e = [chat |-> chat, ok |-> FALSE, faults |-> 0]
         \/ /\ ~Refused(chat, id, message)
            /\ \/ e = [chat |-> [chat EXCEPT ![id] = message], ok |-> TRUE, faults |-> 0]
               \/ e = [chat |-> chat, ok |-> FALSE, faults |-> 1]
               \/ e = [chat |-> [chat EXCEPT ![id] = message], ok |-> FALSE, faults |-> 1]
<1>1. CASE Refused(chat, id, message)
  BY <1>1 DEF Refused, Feed!Edit
<1>2. CASE ~Refused(chat, id, message)
  BY <1>2 DEF Refused, Feed!Edit
<1>. QED
  BY <1>1, <1>2

LEMMA SendOutcome ==
  ASSUME NEW chat, NEW other, NEW s \in Feed!Send(chat, other)
  PROVE  \/ s = [chat |-> Append(chat, other), id |-> Len(chat) + 1, faults |-> 0]
         \/ s = [chat |-> chat, id |-> None, faults |-> 1]
         \/ s = [chat |-> Append(chat, other), id |-> None, faults |-> 1]
BY DEF Feed!Send

\* One message at most is added, at the end; the only one that may change is the one that is
\* edited; and a second message is the price of a failure unless the first one is lost.
LEMMA EditOrSendOutcome ==
  ASSUME NEW S, Deleted \notin S, NEW message \in S, NEW other \in S,
         NEW chat \in Seq(S \cup {Deleted}), NEW id \in DOMAIN chat \cup {None},
         NEW o \in Feed!EditOrSend(chat, id, message, other)
  PROVE  /\ o.chat \in Seq(S \cup {Deleted}) /\ Len(o.chat) \in {Len(chat), Len(chat) + 1}
         /\ \A i \in DOMAIN chat :
              o.chat[i] = chat[i]
              \/ (i = id /\ chat[i] # Deleted /\ chat[i].photo = message.photo /\ o.chat[i] = message)
         /\ \A i \in DOMAIN o.chat \ DOMAIN chat : o.chat[i] = other
         /\ o.faults \in 0..2
         /\ \/ /\ id # None /\ o.id = id /\ Len(o.chat) = Len(chat) /\ o.chat[id] = message
               /\ chat[id] # Deleted /\ chat[id].photo = message.photo /\ o.faults = 0
            \/ /\ o.id = Len(chat) + 1 /\ Len(o.chat) = Len(chat) + 1
               /\ o.faults = 0 => Refused(chat, id, message)
            \/ /\ o.id = None
               /\ \/ o.faults = 1 /\ \A i \in DOMAIN chat : o.chat[i] = chat[i]
                  \/ o.faults = 2
<1>1. PICK e \in Feed!Edit(chat, id, message) :
        o \in IF e.ok THEN {[chat |-> e.chat, id |-> id, faults |-> e.faults]}
              ELSE {[s EXCEPT !.faults = @ + e.faults] : s \in Feed!Send(e.chat, other)}
  BY DEF Feed!EditOrSend
<1>2. e.chat = chat \/ (~Refused(chat, id, message) /\ e.chat = [chat EXCEPT ![id] = message])
  BY EditOutcome
<1>3. ~Refused(chat, id, message) =>
        /\ id \in DOMAIN chat /\ chat[id] # Deleted /\ chat[id].photo = message.photo
        /\ [chat EXCEPT ![id] = message] \in Seq(S \cup {Deleted})
        /\ Len([chat EXCEPT ![id] = message]) = Len(chat)
        /\ [chat EXCEPT ![id] = message][id] = message
  BY DEF Refused
<1>4. /\ e.chat \in Seq(S \cup {Deleted}) /\ Len(e.chat) = Len(chat)
      /\ \A i \in DOMAIN chat :
           e.chat[i] = chat[i]
           \/ (i = id /\ chat[i] # Deleted /\ chat[i].photo = message.photo /\ e.chat[i] = message)
  BY <1>2, <1>3
<1>5. CASE e.ok
  <2>1. /\ ~Refused(chat, id, message)
        /\ e = [chat |-> [chat EXCEPT ![id] = message], ok |-> TRUE, faults |-> 0]
    BY <1>5, EditOutcome
  <2>2. o = [chat |-> e.chat, id |-> id, faults |-> e.faults]
    BY <1>1, <1>5
  <2>3. o.chat = e.chat /\ o.id = id /\ o.faults = 0 /\ e.chat[id] = message /\ id # None
    BY <2>1, <2>2, <1>3 DEF Refused
  <2>. QED
    BY <2>1, <2>3, <1>3, <1>4
<1>6. CASE ~e.ok
  <2>1. PICK s \in Feed!Send(e.chat, other) : o = [s EXCEPT !.faults = @ + e.faults]
    BY <1>1, <1>6
  <2>2. \/ e.faults = 0 /\ e.chat = chat /\ Refused(chat, id, message)
        \/ e.faults = 1
    BY <1>6, EditOutcome
  <2>3. \/ s = [chat |-> Append(e.chat, other), id |-> Len(e.chat) + 1, faults |-> 0]
        \/ s = [chat |-> e.chat, id |-> None, faults |-> 1]
        \/ s = [chat |-> Append(e.chat, other), id |-> None, faults |-> 1]
    BY <2>1, SendOutcome
  <2>4. o.chat = s.chat /\ o.id = s.id /\ o.faults = s.faults + e.faults
    BY <2>1, <2>3
  <2>5. /\ Append(e.chat, other) \in Seq(S \cup {Deleted})
        /\ Len(Append(e.chat, other)) = Len(chat) + 1
        /\ \A i \in DOMAIN chat : Append(e.chat, other)[i] = e.chat[i]
        /\ \A i \in DOMAIN Append(e.chat, other) \ DOMAIN chat : Append(e.chat, other)[i] = other
    BY <1>4
  <2>6. CASE s = [chat |-> e.chat, id |-> None, faults |-> 1]
    <3>1. o.chat = e.chat /\ o.id = None /\ o.faults = 1 + e.faults
      BY <2>4, <2>6, <2>2
    <3>. QED
      BY <3>1, <1>4, <2>2
  <2>7. CASE s = [chat |-> Append(e.chat, other), id |-> None, faults |-> 1]
    <3>1. o.chat = Append(e.chat, other) /\ o.id = None /\ o.faults = 1 + e.faults
      BY <2>4, <2>7, <2>2
    <3>. QED
      BY <3>1, <1>4, <2>2, <2>5
  <2>8. CASE s = [chat |-> Append(e.chat, other), id |-> Len(e.chat) + 1, faults |-> 0]
    <3>1. o.chat = Append(e.chat, other) /\ o.id = Len(chat) + 1 /\ o.faults = e.faults
      BY <2>4, <2>8, <2>2, <1>4
    <3>. QED
      BY <3>1, <1>4, <2>2, <2>5
  <2>. QED
    BY <2>3, <2>6, <2>7, <2>8
<1>. QED
  BY <1>5, <1>6

LEMMA SameTelegram ==
  ASSUME NEW chat, NEW id, NEW message, NEW other
  PROVE  /\ Ann!Send(chat, message) = Feed!Send(chat, message)
         /\ Ann!Edit(chat, id, message) = Feed!Edit(chat, id, message)
         /\ Ann!EditOrSend(chat, id, message, other) = Feed!EditOrSend(chat, id, message, other)
<1>1. Ann!Send(chat, message) = Feed!Send(chat, message)
  BY DEF Ann!Send, Feed!Send
<1>2. Ann!Edit(chat, id, message) = Feed!Edit(chat, id, message)
  BY DEF Ann!Edit, Feed!Edit
<1>3. Ann!EditOrSend(chat, id, message, other) = Feed!EditOrSend(chat, id, message, other)
  BY DEF Ann!EditOrSend, Feed!EditOrSend, Ann!Edit, Feed!Edit, Ann!Send, Feed!Send
<1>. QED
  BY <1>1, <1>2, <1>3

-----------------------------------------------------------------------------
(* Types.                                                                    *)

LEMMA Bounds ==
  /\ MaxRounds \in Nat \ {0} /\ MaxLeft \in Nat /\ MaxQueue \in Nat \ {0} /\ MaxFaults \in Nat
  /\ None \notin Nat /\ None \notin Feed!Rows /\ None \notin Ann!Rows
  /\ Deleted \notin Feed!Texts /\ Deleted \notin Ann!Captions
BY AnnouncementsAssumption

SiteTypes == match \in Responses /\ table \in 0..match.rounds /\ sport \in {"kombat", "tennis"}

QueueTypes ==
  /\ queue \in Seq(Responses) /\ Len(queue) <= MaxQueue /\ misled \in BOOLEAN
  /\ step \in Steps
  /\ IF step = "idle" THEN response = None ELSE response \in Responses

LEMMA TypeParts == TypeOK <=> SiteTypes /\ QueueTypes /\ faults \in 0..MaxFaults /\ Feed!TypeOK /\ Ann!TypeOK
BY DEF TypeOK, SiteTypes, QueueTypes

\* What a step of the writer leaves alone, in the feed and in the announcement.
LEMMA FeedFrame ==
  ASSUME FeedStep
  PROVE  /\ UNCHANGED <<siteVars, queue, misled, annVars, response>>
         /\ step \in {"feed", "feedRow", "feedSend", "feedSave"}
         /\ step' \in {"feedRow", "feedSend", "feedSave", "pre"}
BY DEF FeedStep, Feed!Next, Feed!FeedSkip, Feed!FeedFails, Feed!FeedTooEarly, Feed!FeedFetch,
  Feed!FeedInsert, Feed!FeedSend, Feed!FeedSave

LEMMA AnnFrame ==
  ASSUME AnnounceStep
  PROVE  /\ UNCHANGED <<siteVars, queue, misled, feedVars>>
         /\ step \in {"pre", "annSend", "annSave", "annClose"}
         /\ \/ step' = "idle" /\ response' = None
            \/ step' \in {"annSend", "annSave", "annClose"} /\ response' = response
BY DEF AnnounceStep, Ann!Next, Ann!AnnSkip, Ann!AnnInsert, Ann!AnnSend, Ann!AnnEdit, Ann!AnnSave,
  Ann!AnnLastEdit, Ann!AnnClose, Ann!AnnFails

\* What a source answers is the match, but for the countdown that the fallback leaves out.
LEMMA Polled ==
  ASSUME SiteTypes, Poll
  PROVE  \E a \in Responses :
           /\ queue' = Append(queue, a) /\ Len(queue) < MaxQueue
           /\ a.left = match.left /\ a.rounds = match.rounds /\ a.over = match.over
           /\ a = match \/ misled'
           /\ misled' \in BOOLEAN
           /\ misled => misled'
           /\ UNCHANGED <<siteVars, step, response, faults, feedVars, annVars>>
<1>1. PICK source \in {"main", "fallback"} :
        queue' = Append(queue, Answer(source)) /\ misled' = (misled \/ Answer(source) # match)
  BY DEF Poll
<1>2. /\ Answer(source) \in Responses /\ Answer(source).left = match.left
      /\ Answer(source).rounds = match.rounds /\ Answer(source).over = match.over
  BY DEF Answer, SiteTypes, Responses
<1>. QED
  BY <1>1, <1>2 DEF Poll

LEMMA SiteTypesStep ==
  ASSUME SiteTypes, Next
  PROVE  SiteTypes'
<1>. USE Bounds DEF SiteTypes, Responses
<1>1. CASE CountDown
  BY <1>1 DEF CountDown
<1>2. CASE StartMatch
  <2>1. match' = [match EXCEPT !.counting = FALSE, !.left = 0] /\ UNCHANGED <<table, sport>>
    BY <1>2 DEF StartMatch
  <2>2. 0 \in 0..MaxLeft /\ FALSE \in BOOLEAN
    OBVIOUS
  <2>3. match' = [counting |-> FALSE, left |-> 0, rounds |-> match.rounds, over |-> match.over]
    BY <2>1
  <2>4. match' \in Responses /\ match'.rounds = match.rounds
    BY <2>2, <2>3
  <2>. QED
    BY <2>1, <2>4
<1>3. CASE PlayRound
  BY <1>3 DEF PlayRound
<1>4. CASE EndMatch
  BY <1>4 DEF EndMatch
<1>5. CASE TableCatchesUp
  BY <1>5 DEF TableCatchesUp
<1>6. CASE DeleteMessage \/ Poll \/ TakeJob \/ TenSeconds \/ CrashAndRestart
  BY <1>6 DEF DeleteMessage, Poll, TakeJob, TenSeconds, CrashAndRestart, siteVars
<1>7. CASE FeedStep \/ AnnounceStep
  BY <1>7 DEF FeedStep, AnnounceStep, siteVars
<1>. QED
  BY <1>1, <1>2, <1>3, <1>4, <1>5, <1>6, <1>7 DEF Next, Site

LEMMA QueueTypesStep ==
  ASSUME SiteTypes, QueueTypes, Next
  PROVE  QueueTypes'
<1>. USE Bounds DEF QueueTypes
<1>1. CASE Site \/ DeleteMessage \/ TenSeconds
  BY <1>1 DEF Site, CountDown, StartMatch, PlayRound, EndMatch, TableCatchesUp, DeleteMessage, TenSeconds
<1>2. CASE Poll
  <2>1. PICK a \in Responses :
          /\ queue' = Append(queue, a) /\ Len(queue) < MaxQueue /\ misled' \in BOOLEAN
          /\ UNCHANGED <<step, response>>
    BY <1>2, Polled
  <2>2. queue' \in Seq(Responses) /\ Len(queue') = Len(queue) + 1
    BY <2>1
  <2>. QED
    BY <2>1, <2>2
<1>3. CASE TakeJob
  <2>1. /\ queue # <<>> /\ response' = Head(queue) /\ queue' = Tail(queue) /\ step' = "feed"
        /\ UNCHANGED misled
    BY <1>3 DEF TakeJob
  <2>2. queue' \in Seq(Responses) /\ Len(queue') <= Len(queue) /\ response' \in Responses
    BY <2>1
  <2>. QED
    BY <2>1, <2>2 DEF Steps
<1>4. CASE CrashAndRestart
  BY <1>4 DEF CrashAndRestart, Steps
<1>5. CASE FeedStep
  BY <1>5, FeedFrame DEF Steps
<1>6. CASE AnnounceStep
  BY <1>6, AnnFrame DEF Steps
<1>. QED
  BY <1>1, <1>2, <1>3, <1>4, <1>5, <1>6 DEF Next

\* A text, a caption and the rows are what they look like.
LEMMA TextType ==
  ASSUME NEW n \in 0..MaxRounds, NEW over \in BOOLEAN
  PROVE  /\ Feed!Text(n, over) \in Feed!Texts
         /\ Feed!Text(n, over).rounds = n /\ Feed!Text(n, over).photo = FALSE
         /\ Feed!Text(n, over).over = (IF sport = "tennis" THEN over ELSE n = MaxRounds)
BY DEF Feed!Text, Feed!Texts

LEMMA CaptionType ==
  ASSUME NEW photo \in BOOLEAN, NEW left \in 0..MaxLeft \cup {None}
  PROVE  /\ Ann!Caption(photo, left) \in Ann!Captions
         /\ Ann!Caption(photo, left).photo = photo /\ Ann!Caption(photo, left).left = left
BY DEF Ann!Caption, Ann!Captions

-----------------------------------------------------------------------------
(* The two sends, as they change the chats.                                  *)

LEMMA FeedSent ==
  ASSUME Inv, Feed!FeedSend
  PROVE  /\ step = "feedSend" /\ feedRow \in Feed!Rows /\ feedRow.id \in DOMAIN feedChat \cup {None}
         /\ UNCHANGED <<response, feedRow, stored>>
         /\ feedChat' \in Seq(Feed!Texts \cup {Deleted})
         /\ Len(feedChat') \in {Len(feedChat), Len(feedChat) + 1}
         /\ \A i \in DOMAIN feedChat :
              feedChat'[i] = feedChat[i]
              \/ (i = feedRow.id /\ feedChat[i] # Deleted
                  /\ feedChat'[i] = Feed!Text(fetched, response.over))
         /\ \A i \in DOMAIN feedChat' \ DOMAIN feedChat :
              feedChat'[i] = Feed!Text(fetched, response.over)
         /\ faults' \in Nat
         /\ \/ /\ step' = "feedSave" /\ fetched' = fetched /\ faults' = faults
               /\ feedId' = feedRow.id /\ feedId' \in DOMAIN feedChat /\ Len(feedChat') = Len(feedChat)
               /\ feedChat[feedRow.id] # Deleted
               /\ feedChat'[feedId'] = Feed!Text(fetched, response.over)
            \/ /\ step' = "feedSave" /\ fetched' = fetched
               /\ feedId' = Len(feedChat) + 1 /\ Len(feedChat') = Len(feedChat) + 1
               /\ faults' > faults \/ (faults' = faults /\ FeedGone(feedRow.id))
            \/ /\ step' = "pre" /\ fetched' = 0 /\ feedId' = None
               /\ \/ faults' = faults + 1 /\ \A i \in DOMAIN feedChat : feedChat'[i] = feedChat[i]
                  \/ faults' = faults + 2
<1>. DEFINE text == Feed!Text(fetched, response.over)
<1>1. /\ feedChat \in Seq(Feed!Texts \cup {Deleted}) /\ feedRow \in Feed!Rows
      /\ feedRow.id \in DOMAIN feedChat \cup {None} /\ faults \in Nat /\ step = "feedSend"
      /\ fetched \in 0..MaxRounds /\ response \in Responses
  BY DEF Inv, TypeOK, Feed!TypeOK, FetchInv, Feed!FeedSend
<1>2. text \in Feed!Texts /\ text.photo = FALSE
  BY <1>1, TextType DEF Responses
<1>. HIDE DEF text
<1>3. PICK o \in Feed!EditOrSend(feedChat, feedRow.id, text, text) :
        /\ feedChat' = o.chat /\ faults' = faults + o.faults /\ feedId' = o.id
        /\ IF o.id = None THEN step' = "pre" /\ fetched' = 0
           ELSE step' = "feedSave" /\ UNCHANGED fetched
  BY DEF Feed!FeedSend, text
<1>4. UNCHANGED <<response, feedRow, stored>>
  BY DEF Feed!FeedSend
<1>5. /\ o.chat \in Seq(Feed!Texts \cup {Deleted}) /\ Len(o.chat) \in {Len(feedChat), Len(feedChat) + 1}
      /\ \A i \in DOMAIN feedChat :
           o.chat[i] = feedChat[i]
           \/ (i = feedRow.id /\ feedChat[i] # Deleted /\ feedChat[i].photo = text.photo /\ o.chat[i] = text)
      /\ \A i \in DOMAIN o.chat \ DOMAIN feedChat : o.chat[i] = text
      /\ o.faults \in 0..2
      /\ \/ /\ feedRow.id # None /\ o.id = feedRow.id /\ Len(o.chat) = Len(feedChat)
            /\ o.chat[feedRow.id] = text
            /\ feedChat[feedRow.id] # Deleted /\ feedChat[feedRow.id].photo = text.photo /\ o.faults = 0
         \/ /\ o.id = Len(feedChat) + 1 /\ Len(o.chat) = Len(feedChat) + 1
            /\ o.faults = 0 => Refused(feedChat, feedRow.id, text)
         \/ /\ o.id = None
            /\ \/ o.faults = 1 /\ \A i \in DOMAIN feedChat : o.chat[i] = feedChat[i]
               \/ o.faults = 2
  BY <1>1, <1>2, <1>3, Bounds, EditOrSendOutcome
<1>6. Refused(feedChat, feedRow.id, text) => FeedGone(feedRow.id)
  <2>1. feedRow.id = None \/ feedChat[feedRow.id] = Deleted \/ feedChat[feedRow.id] \in Feed!Texts
    BY <1>1
  <2>2. \A t \in Feed!Texts : t.photo = FALSE
    BY DEF Feed!Texts
  <2>. QED
    BY <1>2, <2>1, <2>2 DEF Refused, FeedGone
<1>7. /\ feedChat' \in Seq(Feed!Texts \cup {Deleted})
      /\ Len(feedChat') \in {Len(feedChat), Len(feedChat) + 1} /\ faults' \in Nat
      /\ \A i \in DOMAIN feedChat :
           feedChat'[i] = feedChat[i] \/ (i = feedRow.id /\ feedChat[i] # Deleted /\ feedChat'[i] = text)
      /\ \A i \in DOMAIN feedChat' \ DOMAIN feedChat : feedChat'[i] = text
  BY <1>1, <1>3, <1>5
<1>8. CASE o.id = None
  BY <1>1, <1>3, <1>4, <1>5, <1>7, <1>8, Bounds DEF text
<1>9. CASE o.id # None /\ Len(o.chat) = Len(feedChat)
  <2>1. /\ feedRow.id # None /\ o.id = feedRow.id /\ o.chat[feedRow.id] = text
        /\ feedChat[feedRow.id] # Deleted /\ o.faults = 0
    BY <1>1, <1>5, <1>9
  <2>. QED
    BY <1>1, <1>3, <1>4, <1>7, <1>9, <2>1 DEF text
<1>10. CASE o.id # None /\ Len(o.chat) # Len(feedChat)
  <2>1. /\ o.id = Len(feedChat) + 1 /\ Len(o.chat) = Len(feedChat) + 1
        /\ o.faults = 0 => FeedGone(feedRow.id)
    BY <1>5, <1>6, <1>10
  <2>2. faults' > faults \/ (faults' = faults /\ FeedGone(feedRow.id))
    BY <1>1, <1>3, <1>5, <2>1
  <2>. QED
    BY <1>1, <1>3, <1>4, <1>7, <1>10, <2>1, <2>2 DEF text
<1>. QED
  BY <1>8, <1>9, <1>10

LEMMA AnnSent ==
  ASSUME Inv, Ann!AnnSend
  PROVE  /\ step = "annSend" /\ annRow \in Ann!Rows /\ annRow.id = None /\ response \in Responses
         /\ UNCHANGED <<recent, annRow>>
         /\ annChat' \in Seq(Ann!Captions \cup {Deleted})
         /\ Len(annChat') \in {Len(annChat), Len(annChat) + 1}
         /\ \A i \in DOMAIN annChat : annChat'[i] = annChat[i]
         /\ \A i \in DOMAIN annChat' \ DOMAIN annChat :
              annChat'[i] = Ann!Caption(portraits, response.left)
         /\ \/ /\ step' = "annSave" /\ response' = response /\ faults' = faults
               /\ annId' = Len(annChat) + 1 /\ Len(annChat') = Len(annChat) + 1
               /\ annPhoto' = portraits
            \/ /\ step' = "idle" /\ response' = None /\ faults' = faults + 1
               /\ annId' = None /\ annPhoto' = FALSE
<1>. DEFINE text == Ann!Caption(portraits, response.left)
<1>1. /\ annChat \in Seq(Ann!Captions \cup {Deleted}) /\ annRow \in Ann!Rows /\ annRow.id = None
      /\ faults \in Nat /\ step = "annSend" /\ response \in Responses /\ portraits \in BOOLEAN
  BY DEF Inv, TypeOK, Ann!TypeOK, KindInv, Ann!AnnSend
<1>2. text \in Ann!Captions
  BY <1>1, CaptionType DEF Responses
<1>. HIDE DEF text
<1>3. PICK o \in Ann!Send(annChat, text) :
        /\ annChat' = o.chat /\ faults' = faults + o.faults
        /\ annId' = o.id /\ annPhoto' = (portraits /\ o.id # None)
        /\ IF o.id = None THEN step' = "idle" /\ response' = None
           ELSE step' = "annSave" /\ UNCHANGED response
  BY DEF Ann!AnnSend, text
<1>4. UNCHANGED <<recent, annRow>>
  BY DEF Ann!AnnSend
<1>5. \/ o = [chat |-> Append(annChat, text), id |-> Len(annChat) + 1, faults |-> 0]
      \/ o = [chat |-> annChat, id |-> None, faults |-> 1]
      \/ o = [chat |-> Append(annChat, text), id |-> None, faults |-> 1]
  <2>1. o \in Feed!Send(annChat, text)
    BY <1>3, SameTelegram
  <2>. QED
    BY <2>1, SendOutcome
<1>6. /\ Append(annChat, text) \in Seq(Ann!Captions \cup {Deleted})
      /\ Len(Append(annChat, text)) = Len(annChat) + 1 /\ Len(annChat) + 1 # None
      /\ \A i \in DOMAIN annChat : Append(annChat, text)[i] = annChat[i]
      /\ \A i \in DOMAIN Append(annChat, text) \ DOMAIN annChat : Append(annChat, text)[i] = text
  BY <1>1, <1>2, Bounds
<1>7. CASE o = [chat |-> Append(annChat, text), id |-> Len(annChat) + 1, faults |-> 0]
  BY <1>1, <1>3, <1>4, <1>6, <1>7 DEF text
<1>8. CASE \/ o = [chat |-> annChat, id |-> None, faults |-> 1]
           \/ o = [chat |-> Append(annChat, text), id |-> None, faults |-> 1]
  <2>0. o.id = None /\ o.faults = 1 /\ (o.chat = annChat \/ o.chat = Append(annChat, text))
    BY <1>8
  <2>1. /\ step' = "idle" /\ response' = None /\ annId' = None /\ annPhoto' = FALSE
        /\ faults' = faults + 1
    BY <1>3, <2>0
  <2>2. annChat' = annChat \/ annChat' = Append(annChat, text)
    BY <1>3, <2>0
  <2>3. /\ annChat' \in Seq(Ann!Captions \cup {Deleted})
        /\ Len(annChat') \in {Len(annChat), Len(annChat) + 1}
        /\ \A i \in DOMAIN annChat : annChat'[i] = annChat[i]
        /\ \A i \in DOMAIN annChat' \ DOMAIN annChat : annChat'[i] = text
    BY <1>1, <1>6, <2>2
  <2>. QED
    BY <1>1, <1>4, <2>1, <2>3 DEF text
<1>. QED
  BY <1>5, <1>7, <1>8

LEMMA AnnEdited ==
  ASSUME Inv, Ann!AnnEdit
  PROVE  /\ step = "pre" /\ annRow \in Ann!Rows /\ annRow.id \in DOMAIN annChat \cup {None}
         /\ response \in Responses /\ response.counting /\ ~annRow.done /\ annRow.last # response.left
         /\ UNCHANGED <<recent, annRow>>
         /\ annChat' \in Seq(Ann!Captions \cup {Deleted})
         /\ Len(annChat') \in {Len(annChat), Len(annChat) + 1}
         /\ \A i \in DOMAIN annChat :
              annChat'[i] = annChat[i]
              \/ (i = annRow.id /\ annChat[i] # Deleted /\ annChat[i].photo = annRow.photo
                  /\ annChat'[i] = Ann!Caption(annRow.photo, response.left))
         /\ \A i \in DOMAIN annChat' \ DOMAIN annChat :
              annChat'[i] = Ann!Caption(FALSE, response.left)
         /\ faults' \in Nat
         /\ \/ /\ step' = "annSave" /\ response' = response /\ faults' = faults
               /\ annId' = annRow.id /\ annId' \in DOMAIN annChat /\ Len(annChat') = Len(annChat)
               /\ annPhoto' = annRow.photo /\ annChat[annRow.id] # Deleted
               /\ annChat'[annId'] = Ann!Caption(annRow.photo, response.left)
            \/ /\ step' = "annSave" /\ response' = response
               /\ annId' = Len(annChat) + 1 /\ Len(annChat') = Len(annChat) + 1 /\ annPhoto' = FALSE
               /\ \/ faults' > faults
                  \/ faults' = faults
                     /\ Refused(annChat, annRow.id, Ann!Caption(annRow.photo, response.left))
            \/ /\ step' = "idle" /\ response' = None /\ annId' = None /\ annPhoto' = FALSE
               /\ \/ faults' = faults + 1 /\ \A i \in DOMAIN annChat : annChat'[i] = annChat[i]
                  \/ faults' = faults + 2
<1>. DEFINE text == Ann!Caption(annRow.photo, response.left)
            other == Ann!Caption(FALSE, response.left)
<1>1. /\ annChat \in Seq(Ann!Captions \cup {Deleted}) /\ annRow \in Ann!Rows
      /\ annRow.id \in DOMAIN annChat \cup {None} /\ response \in Responses
      /\ faults \in Nat /\ step = "pre"
      /\ response.counting /\ ~annRow.done /\ annRow.last # response.left
  BY DEF Inv, TypeOK, Ann!TypeOK, Ann!AnnEdit
<1>2. /\ text \in Ann!Captions /\ other \in Ann!Captions /\ text.photo = annRow.photo
      /\ annRow.photo \in BOOLEAN
  BY <1>1, CaptionType DEF Responses, Ann!Rows
<1>. HIDE DEF text, other
<1>3. PICK o \in Ann!EditOrSend(annChat, annRow.id, text, other) :
        /\ annChat' = o.chat /\ faults' = faults + o.faults
        /\ annId' = o.id /\ annPhoto' = (annRow.photo /\ o.id # None /\ o.id = annRow.id)
        /\ IF o.id = None THEN step' = "idle" /\ response' = None
           ELSE step' = "annSave" /\ UNCHANGED response
  BY DEF Ann!AnnEdit, text, other
<1>4. UNCHANGED <<recent, annRow>>
  BY DEF Ann!AnnEdit
<1>5. /\ o.chat \in Seq(Ann!Captions \cup {Deleted}) /\ Len(o.chat) \in {Len(annChat), Len(annChat) + 1}
      /\ \A i \in DOMAIN annChat :
           o.chat[i] = annChat[i]
           \/ (i = annRow.id /\ annChat[i] # Deleted /\ annChat[i].photo = text.photo /\ o.chat[i] = text)
      /\ \A i \in DOMAIN o.chat \ DOMAIN annChat : o.chat[i] = other
      /\ o.faults \in 0..2
      /\ \/ /\ annRow.id # None /\ o.id = annRow.id /\ Len(o.chat) = Len(annChat)
            /\ o.chat[annRow.id] = text
            /\ annChat[annRow.id] # Deleted /\ annChat[annRow.id].photo = text.photo /\ o.faults = 0
         \/ /\ o.id = Len(annChat) + 1 /\ Len(o.chat) = Len(annChat) + 1
            /\ o.faults = 0 => Refused(annChat, annRow.id, text)
         \/ /\ o.id = None
            /\ \/ o.faults = 1 /\ \A i \in DOMAIN annChat : o.chat[i] = annChat[i]
               \/ o.faults = 2
  BY <1>1, <1>2, <1>3, Bounds, SameTelegram, EditOrSendOutcome
<1>7. /\ annChat' \in Seq(Ann!Captions \cup {Deleted})
      /\ Len(annChat') \in {Len(annChat), Len(annChat) + 1} /\ faults' \in Nat
      /\ \A i \in DOMAIN annChat :
           annChat'[i] = annChat[i]
           \/ (i = annRow.id /\ annChat[i] # Deleted /\ annChat[i].photo = annRow.photo /\ annChat'[i] = text)
      /\ \A i \in DOMAIN annChat' \ DOMAIN annChat : annChat'[i] = other
  BY <1>1, <1>2, <1>3, <1>5
<1>8. CASE o.id = None
  <2>1. step' = "idle" /\ response' = None /\ annId' = None /\ annPhoto' = FALSE
    BY <1>3, <1>8
  <2>2. \/ faults' = faults + 1 /\ \A i \in DOMAIN annChat : annChat'[i] = annChat[i]
        \/ faults' = faults + 2
    BY <1>1, <1>3, <1>5, <1>8, Bounds
  <2>. QED
    BY <1>1, <1>4, <1>7, <2>1, <2>2 DEF text, other
<1>9. CASE o.id # None /\ Len(o.chat) = Len(annChat)
  <2>1. /\ annRow.id # None /\ o.id = annRow.id /\ o.chat[annRow.id] = text
        /\ annChat[annRow.id] # Deleted /\ o.faults = 0
    BY <1>1, <1>5, <1>9
  <2>2. /\ step' = "annSave" /\ response' = response /\ faults' = faults /\ annId' = annRow.id
        /\ annPhoto' = annRow.photo /\ annId' \in DOMAIN annChat /\ Len(annChat') = Len(annChat)
    BY <1>1, <1>2, <1>3, <1>9, <2>1
  <2>. QED
    BY <1>1, <1>3, <1>4, <1>7, <2>1, <2>2 DEF text, other
<1>10. CASE o.id # None /\ Len(o.chat) # Len(annChat)
  <2>1. /\ o.id = Len(annChat) + 1 /\ Len(o.chat) = Len(annChat) + 1
        /\ o.faults = 0 => Refused(annChat, annRow.id, text)
    BY <1>5, <1>10
  <2>2. faults' > faults \/ (faults' = faults /\ Refused(annChat, annRow.id, text))
    BY <1>1, <1>3, <1>5, <2>1
  <2>3. o.id # annRow.id
    BY <1>1, <1>10, <2>1
  <2>4. step' = "annSave" /\ response' = response /\ annPhoto' = FALSE
    BY <1>3, <1>10, <2>3
  <2>. QED
    BY <1>1, <1>3, <1>4, <1>7, <2>1, <2>2, <2>4 DEF text, other
<1>. QED
  BY <1>8, <1>9, <1>10

LEMMA AnnLastEdited ==
  ASSUME Inv, Ann!AnnLastEdit
  PROVE  /\ step = "pre" /\ step' = "annClose" /\ annRow \in Ann!Rows /\ annRow.id \in DOMAIN annChat
         /\ ~annRow.done /\ response \in Responses /\ ~response.counting
         /\ UNCHANGED <<response, recent, annId, annPhoto, annRow>>
         /\ annChat' \in Seq(Ann!Captions \cup {Deleted}) /\ DOMAIN annChat' = DOMAIN annChat
         /\ Len(annChat') = Len(annChat)
         /\ \A i \in DOMAIN annChat :
              annChat'[i] = annChat[i]
              \/ (i = annRow.id /\ annChat[i] # Deleted /\ annChat[i].photo = annRow.photo
                  /\ annChat'[i] = Ann!Caption(annRow.photo, None))
         /\ faults' \in {faults, faults + 1}
<1>. DEFINE text == Ann!Caption(annRow.photo, None)
<1>1. /\ annChat \in Seq(Ann!Captions \cup {Deleted}) /\ annRow \in Ann!Rows
      /\ annRow.id \in DOMAIN annChat /\ response \in Responses
      /\ step = "pre" /\ step' = "annClose" /\ ~response.counting /\ ~annRow.done
      /\ UNCHANGED <<response, recent, annId, annPhoto, annRow>>
  BY DEF Inv, TypeOK, Ann!TypeOK, Ann!AnnLastEdit
<1>2. text \in Ann!Captions /\ text.photo = annRow.photo
  BY <1>1, CaptionType DEF Ann!Rows
<1>. HIDE DEF text
<1>3. PICK e \in Feed!Edit(annChat, annRow.id, text) :
        annChat' = e.chat /\ faults' = faults + e.faults
  BY SameTelegram DEF Ann!AnnLastEdit, text
<1>4. \/ e.chat = annChat /\ e.faults \in {0, 1}
      \/ /\ ~Refused(annChat, annRow.id, text) /\ e.chat = [annChat EXCEPT ![annRow.id] = text]
         /\ e.faults \in {0, 1}
  BY EditOutcome
<1>5. /\ annChat' \in Seq(Ann!Captions \cup {Deleted}) /\ DOMAIN annChat' = DOMAIN annChat
      /\ Len(annChat') = Len(annChat)
      /\ \A i \in DOMAIN annChat :
           annChat'[i] = annChat[i]
           \/ (i = annRow.id /\ annChat[i] # Deleted /\ annChat[i].photo = annRow.photo /\ annChat'[i] = text)
  <2>1. CASE e.chat = annChat
    BY <1>1, <1>3, <2>1
  <2>2. CASE ~Refused(annChat, annRow.id, text) /\ e.chat = [annChat EXCEPT ![annRow.id] = text]
    <3>1. annChat[annRow.id] # Deleted /\ annChat[annRow.id].photo = annRow.photo
      BY <1>2, <2>2 DEF Refused
    <3>. QED
      BY <1>1, <1>2, <1>3, <2>2, <3>1
  <2>. QED
    BY <1>4, <2>1, <2>2
<1>6. faults' \in {faults, faults + 1}
  <2>1. faults \in Nat
    BY DEF Inv, TypeOK
  <2>. QED
    BY <1>3, <1>4, <2>1
<1>. QED
  BY <1>1, <1>5, <1>6 DEF text

-----------------------------------------------------------------------------
(* Every step keeps the types.                                               *)

LEMMA ChatOfDeletion ==
  ASSUME NEW S, NEW chat \in Seq(S \cup {Deleted}), NEW i \in DOMAIN chat,
         NEW new, new = [chat EXCEPT ![i] = Deleted]
  PROVE  /\ new \in Seq(S \cup {Deleted}) /\ Len(new) = Len(chat) /\ DOMAIN new = DOMAIN chat
         /\ \A j \in DOMAIN chat : new[j] = chat[j] \/ (j = i /\ new[j] = Deleted)
OBVIOUS

LEMMA FeedTypesStep ==
  ASSUME Inv, Next
  PROVE  Feed!TypeOK'
<1>0. /\ fetched \in 0..MaxRounds /\ feedChat \in Seq(Feed!Texts \cup {Deleted})
      /\ feedId \in DOMAIN feedChat \cup {None} /\ feedRow \in Feed!Rows \cup {None}
      /\ feedRow # None => feedRow.id \in DOMAIN feedChat \cup {None}
      /\ stored \in 0..MaxRounds /\ table \in 0..MaxRounds
  BY Bounds DEF Inv, TypeOK, Feed!TypeOK, Responses
<1>1. CASE Site \/ Poll \/ TakeJob \/ TenSeconds \/ AnnounceStep
  <2>1. UNCHANGED feedVars
    BY <1>1 DEF Site, CountDown, StartMatch, PlayRound, EndMatch, TableCatchesUp, Poll, TakeJob,
      TenSeconds, AnnounceStep, feedVars
  <2>. QED
    BY <1>0, <2>1 DEF feedVars, Feed!TypeOK
<1>2. CASE DeleteMessage
  <2>1. UNCHANGED <<fetched, feedId, feedRow, stored>>
    BY <1>2 DEF DeleteMessage
  <2>2. feedChat' \in Seq(Feed!Texts \cup {Deleted}) /\ DOMAIN feedChat' = DOMAIN feedChat
    BY <1>0, <1>2, ChatOfDeletion DEF DeleteMessage
  <2>. QED
    BY <1>0, <2>1, <2>2 DEF Feed!TypeOK
<1>3. CASE CrashAndRestart
  <2>1. fetched' = 0 /\ feedId' = None /\ UNCHANGED <<feedRow, feedChat, stored>> /\ 0 \in 0..MaxRounds
    BY <1>3, Bounds DEF CrashAndRestart
  <2>. QED
    BY <1>0, <2>1 DEF Feed!TypeOK
<1>4. CASE Feed!FeedSkip \/ Feed!FeedFails \/ Feed!FeedTooEarly
  <2>1. UNCHANGED feedVars
    BY <1>4 DEF Feed!FeedSkip, Feed!FeedFails, Feed!FeedTooEarly, Feed!feedVars, feedVars
  <2>. QED
    BY <1>0, <2>1 DEF feedVars, Feed!TypeOK
<1>5. CASE Feed!FeedFetch
  <2>1. fetched' = table /\ stored' \in {table, stored} /\ UNCHANGED <<feedId, feedRow, feedChat>>
    BY <1>5 DEF Feed!FeedFetch
  <2>. QED
    BY <1>0, <2>1 DEF Feed!TypeOK
<1>6. CASE Feed!FeedInsert
  <2>1. [id |-> None, notified |-> 0, finished |-> FALSE] \in Feed!Rows
    BY Bounds DEF Feed!Rows
  <2>2. /\ feedRow' \in Feed!Rows \cup {None}
        /\ feedRow' # None => feedRow'.id \in DOMAIN feedChat \cup {None}
        /\ UNCHANGED <<fetched, feedId, feedChat, stored>>
    BY <1>0, <1>6, <2>1 DEF Feed!FeedInsert
  <2>. QED
    BY <1>0, <2>2 DEF Feed!TypeOK
<1>7. CASE Feed!FeedSend
  <2>1. /\ feedChat' \in Seq(Feed!Texts \cup {Deleted}) /\ Len(feedChat') \in {Len(feedChat), Len(feedChat) + 1}
        /\ fetched' \in {0, fetched} /\ UNCHANGED <<feedRow, stored>>
        /\ \/ feedId' \in DOMAIN feedChat \cup {None}
           \/ feedId' = Len(feedChat) + 1 /\ Len(feedChat') = Len(feedChat) + 1
    BY <1>7, FeedSent
  <2>2. DOMAIN feedChat \subseteq DOMAIN feedChat' /\ feedId' \in DOMAIN feedChat' \cup {None}
    BY <1>0, <2>1
  <2>. QED
    BY <1>0, <2>1, <2>2, Bounds DEF Feed!TypeOK
<1>8. CASE Feed!FeedSave
  <2>1. /\ feedRow' = [id |-> feedId, notified |-> fetched, finished |-> response.over]
        /\ fetched' = 0 /\ feedId' = None /\ UNCHANGED <<feedChat, stored>>
    BY <1>8 DEF Feed!FeedSave
  <2>2. response.over \in BOOLEAN /\ 0 \in 0..MaxRounds
    BY <1>8, Bounds DEF Feed!FeedSave, Inv, TypeOK, Responses
  <2>3. feedRow' \in Feed!Rows /\ feedRow'.id \in DOMAIN feedChat \cup {None}
    BY <1>0, <2>1, <2>2 DEF Feed!Rows
  <2>. QED
    BY <1>0, <2>1, <2>2, <2>3 DEF Feed!TypeOK
<1>. QED
  BY <1>1, <1>2, <1>3, <1>4, <1>5, <1>6, <1>7, <1>8 DEF Next, FeedStep, Feed!Next

LEMMA AnnTypesStep ==
  ASSUME Inv, Next
  PROVE  Ann!TypeOK'
<1>0. /\ portraits \in BOOLEAN /\ recent \in BOOLEAN /\ annPhoto \in BOOLEAN
      /\ annChat \in Seq(Ann!Captions \cup {Deleted})
      /\ annId \in DOMAIN annChat \cup {None} /\ annRow \in Ann!Rows \cup {None}
      /\ annRow # None => annRow.id \in DOMAIN annChat \cup {None}
  BY DEF Inv, TypeOK, Ann!TypeOK
<1>1. CASE Site \/ Poll \/ TakeJob \/ FeedStep
  <2>1. UNCHANGED <<portraits, annVars>>
    BY <1>1 DEF Site, CountDown, StartMatch, PlayRound, EndMatch, TableCatchesUp, Poll, TakeJob,
      FeedStep, annVars, siteVars
  <2>. QED
    BY <1>0, <2>1 DEF annVars, Ann!TypeOK
<1>2. CASE TenSeconds \/ CrashAndRestart
  <2>1. /\ UNCHANGED <<portraits, annRow, annChat>> /\ recent' = FALSE
        /\ annId' \in {annId, None} /\ annPhoto' \in BOOLEAN
    BY <1>0, <1>2 DEF TenSeconds, CrashAndRestart, siteVars
  <2>. QED
    BY <1>0, <2>1 DEF Ann!TypeOK
<1>3. CASE DeleteMessage
  <2>1. UNCHANGED <<portraits, recent, annId, annPhoto, annRow>>
    BY <1>3 DEF DeleteMessage, siteVars
  <2>2. annChat' \in Seq(Ann!Captions \cup {Deleted}) /\ DOMAIN annChat' = DOMAIN annChat
    BY <1>0, <1>3, ChatOfDeletion DEF DeleteMessage
  <2>. QED
    BY <1>0, <2>1, <2>2 DEF Ann!TypeOK
<1>. USE DEF siteVars
<1>4. CASE AnnounceStep
  <2>0. UNCHANGED portraits
    BY <1>4, AnnFrame
  <2>1. CASE Ann!AnnSkip
    BY <1>0, <2>0, <2>1 DEF Ann!AnnSkip, Ann!annVars, Ann!TypeOK
  <2>2. CASE Ann!AnnInsert
    <3>1. [id |-> None, photo |-> FALSE, last |-> None, done |-> FALSE] \in Ann!Rows
      BY DEF Ann!Rows
    <3>. QED
      BY <1>0, <2>0, <2>2, <3>1 DEF Ann!AnnInsert, Ann!TypeOK
  <2>3. CASE Ann!AnnSend \/ Ann!AnnEdit
    <3>1. /\ annChat' \in Seq(Ann!Captions \cup {Deleted}) /\ UNCHANGED <<recent, annRow>>
          /\ Len(annChat') \in {Len(annChat), Len(annChat) + 1}
          /\ \/ annId' \in DOMAIN annChat \cup {None}
             \/ annId' = Len(annChat) + 1 /\ Len(annChat') = Len(annChat) + 1
      <4>1. CASE Ann!AnnSend
        BY <4>1, AnnSent
      <4>2. CASE Ann!AnnEdit
        BY <4>2, AnnEdited
      <4>. QED
        BY <2>3, <4>1, <4>2
    <3>2. annPhoto' \in BOOLEAN
      BY <2>3 DEF Ann!AnnSend, Ann!AnnEdit
    <3>3. DOMAIN annChat \subseteq DOMAIN annChat' /\ annId' \in DOMAIN annChat' \cup {None}
      BY <1>0, <3>1
    <3>. QED
      BY <1>0, <2>0, <3>1, <3>2, <3>3 DEF Ann!TypeOK
  <2>4. CASE Ann!AnnSave
    <3>1. /\ annRow' = [id |-> annId, photo |-> annPhoto, last |-> response.left, done |-> FALSE]
          /\ recent' = TRUE /\ annId' = None /\ annPhoto' = FALSE /\ UNCHANGED annChat
      BY <2>4 DEF Ann!AnnSave
    <3>2. response.left \in 0..MaxLeft
      BY <2>4 DEF Ann!AnnSave, Inv, TypeOK, Responses
    <3>3. annRow' \in Ann!Rows /\ annRow'.id \in DOMAIN annChat \cup {None}
      BY <1>0, <3>1, <3>2 DEF Ann!Rows
    <3>. QED
      BY <1>0, <2>0, <3>1, <3>3 DEF Ann!TypeOK
  <2>5. CASE Ann!AnnLastEdit
    <3>1. /\ UNCHANGED <<recent, annId, annPhoto, annRow>> /\ DOMAIN annChat' = DOMAIN annChat
          /\ annChat' \in Seq(Ann!Captions \cup {Deleted})
      BY <2>5, AnnLastEdited
    <3>. QED
      BY <1>0, <2>0, <3>1 DEF Ann!TypeOK
  <2>6. CASE Ann!AnnClose
    <3>1. annRow' = [annRow EXCEPT !.last = None, !.done = TRUE] /\ UNCHANGED <<recent, annId, annPhoto, annChat>>
      BY <2>6 DEF Ann!AnnClose
    <3>2. annRow \in Ann!Rows
      BY <1>0, <2>6 DEF Inv, KindInv, Ann!AnnClose
    <3>3. annRow' \in Ann!Rows /\ annRow'.id = annRow.id
      BY <3>1, <3>2 DEF Ann!Rows
    <3>. QED
      BY <1>0, <2>0, <3>1, <3>2, <3>3, Bounds DEF Ann!TypeOK
  <2>7. CASE Ann!AnnFails
    <3>1. /\ UNCHANGED <<annRow, annChat>> /\ recent' \in BOOLEAN /\ annId' = None /\ annPhoto' = FALSE
      BY <2>7 DEF Ann!AnnFails
    <3>. QED
      BY <1>0, <2>0, <3>1 DEF Ann!TypeOK
  <2>. QED
    BY <1>4, <2>1, <2>2, <2>3, <2>4, <2>5, <2>6, <2>7 DEF AnnounceStep, Ann!Next
<1>. QED
  BY <1>1, <1>2, <1>3, <1>4 DEF Next

LEMMA FaultsStep ==
  ASSUME Inv, Next
  PROVE  faults' \in 0..MaxFaults /\ faults <= faults'
<1>0. faults \in Nat /\ faults' <= MaxFaults /\ MaxFaults \in Nat
  BY Bounds DEF Inv, TypeOK, Next
<1>1. faults' \in Nat /\ faults <= faults'
  <2>1. CASE Site \/ Poll \/ TakeJob \/ TenSeconds
    BY <1>0, <2>1 DEF Site, CountDown, StartMatch, PlayRound, EndMatch, TableCatchesUp, Poll, TakeJob,
      TenSeconds
  <2>2. CASE DeleteMessage \/ CrashAndRestart \/ Ann!AnnFails
    BY <1>0, <2>2 DEF DeleteMessage, CrashAndRestart, Ann!AnnFails
  <2>3. CASE Feed!FeedSkip \/ Feed!FeedFails \/ Feed!FeedTooEarly \/ Feed!FeedFetch \/ Feed!FeedInsert
             \/ Feed!FeedSave
    BY <1>0, <2>3 DEF Feed!FeedSkip, Feed!FeedFails, Feed!FeedTooEarly, Feed!FeedFetch, Feed!FeedInsert,
      Feed!FeedSave
  <2>4. CASE Feed!FeedSend
    BY <1>0, <2>4, FeedSent
  <2>5. CASE Ann!AnnSkip \/ Ann!AnnInsert \/ Ann!AnnSave \/ Ann!AnnClose
    BY <1>0, <2>5 DEF Ann!AnnSkip, Ann!AnnInsert, Ann!AnnSave, Ann!AnnClose
  <2>6. CASE Ann!AnnSend
    <3>1. faults' = faults \/ faults' = faults + 1
      BY <2>6, AnnSent
    <3>. QED
      BY <1>0, <3>1
  <2>7. CASE Ann!AnnEdit
    <3>1. faults' = faults \/ faults' = faults + 1 \/ faults' = faults + 2 \/ (faults' \in Nat /\ faults' > faults)
      BY <2>7, AnnEdited
    <3>. QED
      BY <1>0, <3>1
  <2>8. CASE Ann!AnnLastEdit
    <3>1. faults' \in {faults, faults + 1}
      BY <2>8, AnnLastEdited
    <3>. QED
      BY <1>0, <3>1
  <2>. QED
    BY <2>1, <2>2, <2>3, <2>4, <2>5, <2>6, <2>7, <2>8 DEF Next, FeedStep, AnnounceStep, Feed!Next, Ann!Next
<1>. QED
  BY <1>0, <1>1

LEMMA TypesStep == Inv /\ Next => TypeOK'
BY TypeParts, SiteTypesStep, QueueTypesStep, FeedTypesStep, AnnTypesStep, FaultsStep
  DEF Inv, TypeOK, SiteTypes, QueueTypes

-----------------------------------------------------------------------------
(* Every step keeps the order of the responses.                              *)

LEMMA ResponseShape ==
  ASSUME NEW r \in Responses
  PROVE  r.counting \in BOOLEAN /\ r.left \in 0..MaxLeft /\ r.rounds \in 0..MaxRounds /\ r.over \in BOOLEAN
BY DEF Responses

LEMMA BeforeTransitive ==
  ASSUME NEW a \in Responses, NEW b \in Responses, NEW c \in Responses, Before(a, b), Before(b, c)
  PROVE  Before(a, c)
<1>1. a.left \in Nat /\ b.left \in Nat /\ c.left \in Nat
  BY ResponseShape, Bounds
<1>2. /\ b.left <= a.left /\ c.left <= b.left
      /\ (a.over => b.over) /\ (b.over => c.over)
      /\ misled \/ ((b.counting => a.counting) /\ (c.counting => b.counting))
  BY DEF Before
<1>3. c.left <= a.left
  BY <1>1, <1>2
<1>. QED
  BY <1>2, <1>3 DEF Before

LEMMA BeforeItself ==
  ASSUME NEW a \in Responses
  PROVE  Before(a, a)
<1>1. a.left \in Nat
  BY ResponseShape, Bounds
<1>. QED
  BY <1>1 DEF Before

LEMMA SiteGoesForward ==
  ASSUME Inv, Site
  PROVE  /\ match' \in Responses /\ (match'.over => match'.rounds = MaxRounds) /\ Before(match, match')
         /\ match.over => match'.over
<1>0. /\ match \in Responses /\ match.left \in Nat /\ match.rounds \in Nat
      /\ match = [counting |-> match.counting, left |-> match.left,
                  rounds |-> match.rounds, over |-> match.over]
      /\ match.over => match.rounds = MaxRounds
  BY ResponseShape, Bounds DEF Inv, TypeOK, EndInv, Responses
<1>1. SiteTypes'
  BY SiteTypesStep DEF Inv, TypeOK, SiteTypes, Next, Site, CountDown, StartMatch, PlayRound, EndMatch,
    TableCatchesUp
<1>2. match' \in Responses
  BY <1>1 DEF SiteTypes
<1>3. CASE CountDown
  <2>1. match' = [match EXCEPT !.left = @ - 1]
    BY <1>3 DEF CountDown
  <2>2. (match'.over => match'.rounds = MaxRounds) /\ Before(match, match')
    BY <1>0, <2>1 DEF Before
  <2>. QED
    BY <1>2, <2>2 DEF Before
<1>4. CASE StartMatch
  <2>1. match' = [match EXCEPT !.counting = FALSE, !.left = 0]
    BY <1>4 DEF StartMatch
  <2>2. match' = [counting |-> FALSE, left |-> 0, rounds |-> match.rounds, over |-> match.over]
    BY <1>0, <2>1 DEF Responses
  <2>3. (match'.over => match'.rounds = MaxRounds) /\ Before(match, match')
    BY <1>0, <2>2 DEF Before
  <2>. QED
    BY <1>2, <2>3 DEF Before
<1>5. CASE PlayRound
  <2>1. match' = [match EXCEPT !.rounds = @ + 1] /\ match.rounds < MaxRounds
    BY <1>5 DEF PlayRound
  <2>2. (match'.over => match'.rounds = MaxRounds) /\ Before(match, match')
    BY <1>0, <2>1 DEF Before
  <2>. QED
    BY <1>2, <2>2 DEF Before
<1>6. CASE EndMatch
  <2>1. match' = [match EXCEPT !.over = TRUE] /\ match.rounds = MaxRounds
    BY <1>6 DEF EndMatch
  <2>2. (match'.over => match'.rounds = MaxRounds) /\ Before(match, match')
    BY <1>0, <2>1 DEF Before
  <2>. QED
    BY <1>2, <2>2 DEF Before
<1>7. CASE TableCatchesUp
  <2>1. match' = match
    BY <1>7 DEF TableCatchesUp
  <2>2. (match'.over => match'.rounds = MaxRounds) /\ Before(match, match')
    BY <1>0, <2>1 DEF Before
  <2>. QED
    BY <1>2, <2>2 DEF Before
<1>8. match'.over => match'.rounds = MaxRounds
  BY <1>3, <1>4, <1>5, <1>6, <1>7 DEF Site
<1>9. Before(match, match')
  BY <1>3, <1>4, <1>5, <1>6, <1>7 DEF Site
<1>. QED
  BY <1>2, <1>8, <1>9 DEF Before

LEMMA ResponsesStep ==
  ASSUME Inv, Next
  PROVE  EndInv' /\ OrderInv'
<1>0. /\ match \in Responses /\ queue \in Seq(Responses)
      /\ step # "idle" => response \in Responses
      /\ MaxRounds \in Nat
  BY Bounds DEF Inv, TypeOK
<1>1. /\ match.over => match.rounds = MaxRounds
      /\ \A i \in DOMAIN queue : queue[i].over => queue[i].rounds = MaxRounds
      /\ step # "idle" /\ response.over => response.rounds = MaxRounds
  BY DEF Inv, EndInv
<1>2. /\ \A i, j \in DOMAIN queue : i < j => Before(queue[i], queue[j])
      /\ \A i \in DOMAIN queue : Before(queue[i], match)
      /\ step # "idle" => Before(response, match) /\ \A i \in DOMAIN queue : Before(response, queue[i])
  BY DEF Inv, OrderInv
<1>3. ASSUME UNCHANGED <<queue, misled, step, response>>, match' \in Responses,
             match'.over => match'.rounds = MaxRounds, Before(match, match')
      PROVE  EndInv' /\ OrderInv'
  <2>1. ASSUME NEW r \in Responses, Before(r, match) PROVE Before(r, match')
    BY <1>0, <1>3, <2>1, BeforeTransitive
  <2>2. \A i \in DOMAIN queue : Before(queue[i], match')
    <3>1. \A i \in DOMAIN queue : queue[i] \in Responses
      BY <1>0
    <3>. QED
      BY <1>2, <2>1, <3>1
  <2>3. step # "idle" => Before(response, match')
    BY <1>0, <1>2, <2>1
  <2>4. EndInv'
    BY <1>1, <1>3 DEF EndInv
  <2>5. OrderInv'
    BY <1>2, <1>3, <2>2, <2>3 DEF OrderInv, Before
  <2>. QED
    BY <2>4, <2>5
<1>4. CASE Site
  <2>1. UNCHANGED <<queue, misled, step, response>>
    BY <1>4 DEF Site, CountDown, StartMatch, PlayRound, EndMatch, TableCatchesUp
  <2>. QED
    BY <1>3, <1>4, <2>1, SiteGoesForward
<1>5. CASE Poll
  <2>1. PICK a \in Responses :
          /\ queue' = Append(queue, a) /\ UNCHANGED <<match, step, response>>
          /\ a.left = match.left /\ a.rounds = match.rounds /\ a.over = match.over
          /\ a = match \/ misled'
          /\ misled => misled'
    BY <1>5, Polled DEF Inv, TypeOK, SiteTypes, siteVars
  <2>2. /\ Len(queue') = Len(queue) + 1 /\ queue'[Len(queue) + 1] = a
        /\ \A i \in DOMAIN queue' : (i \in DOMAIN queue /\ queue'[i] = queue[i]) \/ i = Len(queue) + 1
        /\ Before(match, match)
    BY <1>0, <2>1, BeforeItself
  <2>3. EndInv'
    BY <1>1, <2>1, <2>2 DEF EndInv
  <2>8. ASSUME NEW r, NEW q, Before(r, q) 
        PROVE  q.left <= r.left /\ (r.over => q.over) /\ (misled' \/ (q.counting => r.counting))
    BY <2>1, <2>8 DEF Before
  <2>9. ASSUME NEW r, Before(r, match)
        PROVE  a.left <= r.left /\ (r.over => a.over) /\ (misled' \/ (a.counting => r.counting))
    BY <2>1, <2>9 DEF Before
  <2>10. match.left <= a.left /\ (a.over => match.over) /\ (misled' \/ (match.counting => a.counting))
    BY <2>1, <2>2 DEF Before
  <2>4. ASSUME NEW i \in DOMAIN queue', NEW j \in DOMAIN queue', i < j
        PROVE  /\ queue'[j].left <= queue'[i].left /\ (queue'[i].over => queue'[j].over)
               /\ misled' \/ (queue'[j].counting => queue'[i].counting)
    <3>1. i \in DOMAIN queue /\ i # Len(queue) + 1
      BY <1>0, <2>1, <2>4
    <3>2. CASE j = Len(queue) + 1
      BY <1>2, <2>2, <2>9, <3>1, <3>2
    <3>3. CASE j \in DOMAIN queue /\ queue'[j] = queue[j]
      <4>1. Before(queue[i], queue[j]) /\ queue'[i] = queue[i]
        BY <1>2, <2>2, <2>4, <3>1, <3>3
      <4>. QED
        BY <2>8, <3>3, <4>1 DEF Before
    <3>. QED
      BY <2>2, <3>2, <3>3
  <2>5. ASSUME NEW i \in DOMAIN queue'
        PROVE  /\ match.left <= queue'[i].left /\ (queue'[i].over => match.over)
               /\ misled' \/ (match.counting => queue'[i].counting)
    <3>1. CASE i = Len(queue) + 1
      BY <2>2, <2>10, <3>1
    <3>2. CASE i \in DOMAIN queue /\ queue'[i] = queue[i]
      BY <1>2, <2>8, <3>2 DEF Before
    <3>. QED
      BY <2>2, <3>1, <3>2
  <2>6. ASSUME step # "idle", NEW i \in DOMAIN queue'
        PROVE  /\ queue'[i].left <= response.left /\ (response.over => queue'[i].over)
               /\ misled' \/ (queue'[i].counting => response.counting)
    <3>1. CASE i = Len(queue) + 1
      BY <1>2, <2>2, <2>6, <2>9, <3>1
    <3>2. CASE i \in DOMAIN queue /\ queue'[i] = queue[i]
      BY <1>2, <2>6, <2>8, <3>2 DEF Before
    <3>. QED
      BY <2>2, <3>1, <3>2
  <2>11. step # "idle" =>
           /\ match.left <= response.left /\ (response.over => match.over)
           /\ misled' \/ (match.counting => response.counting)
    BY <1>2, <2>1 DEF Before
  <2>7. OrderInv'
    BY <2>1, <2>4, <2>5, <2>6, <2>11 DEF OrderInv, Before
  <2>. QED
    BY <2>3, <2>7
<1>6. CASE TakeJob
  <2>1. queue # <<>> /\ queue' = Tail(queue) /\ response' = Head(queue) /\ UNCHANGED <<match, misled>>
    BY <1>6 DEF TakeJob, siteVars
  <2>2. /\ response' = queue[1] /\ 1 \in DOMAIN queue
        /\ \A i \in DOMAIN queue' : i + 1 \in DOMAIN queue /\ i + 1 > 1 /\ queue'[i] = queue[i + 1] /\ i \in Nat
    BY <1>0, <2>1
  <2>3. EndInv'
    BY <1>1, <2>1, <2>2 DEF EndInv
  <2>4. /\ \A i \in DOMAIN queue' : Before(response', queue'[i]) /\ Before(queue'[i], match)
        /\ Before(response', match)
    BY <1>2, <2>2
  <2>5. \A i, j \in DOMAIN queue' : i < j => Before(queue'[i], queue'[j])
    BY <1>2, <2>2
  <2>6. OrderInv'
    BY <2>1, <2>4, <2>5 DEF OrderInv, Before
  <2>. QED
    BY <2>3, <2>6
<1>7. CASE CrashAndRestart
  <2>1. queue' = <<>> /\ step' = "idle" /\ UNCHANGED match
    BY <1>7 DEF CrashAndRestart, siteVars
  <2>. QED
    BY <1>1, <2>1 DEF EndInv, OrderInv
<1>8. CASE FeedStep \/ AnnounceStep \/ DeleteMessage \/ TenSeconds
  <2>1. UNCHANGED <<match, queue, misled>> /\ (step' # "idle" => step # "idle" /\ response' = response)
    <3>1. CASE FeedStep
      BY <3>1, FeedFrame DEF siteVars
    <3>2. CASE AnnounceStep
      BY <3>2, AnnFrame DEF siteVars
    <3>3. CASE DeleteMessage \/ TenSeconds
      BY <3>3 DEF DeleteMessage, TenSeconds, siteVars
    <3>. QED
      BY <1>8, <3>1, <3>2, <3>3
  <2>. QED
    BY <1>1, <1>2, <2>1 DEF EndInv, OrderInv, Before
<1>. QED
  BY <1>4, <1>5, <1>6, <1>7, <1>8 DEF Next

-----------------------------------------------------------------------------
(* Every step keeps what the feed knows.                                     *)

LEMMA FeedShape ==
  ASSUME Inv
  PROVE  /\ fetched \in 0..MaxRounds /\ stored \in 0..MaxRounds /\ table \in 0..MaxRounds
         /\ feedChat \in Seq(Feed!Texts \cup {Deleted}) /\ feedId \in DOMAIN feedChat \cup {None}
         /\ feedRow # None =>
              /\ feedRow \in Feed!Rows /\ feedRow.id \in DOMAIN feedChat \cup {None}
              /\ feedRow.notified \in 0..MaxRounds /\ feedRow.finished \in BOOLEAN
         /\ step # "idle" =>
              response \in Responses /\ response.rounds \in 0..MaxRounds /\ response.over \in BOOLEAN
         /\ \A i \in DOMAIN feedChat : feedChat[i] # Deleted => feedChat[i].rounds \in 0..MaxRounds
<1>1. /\ fetched \in 0..MaxRounds /\ stored \in 0..MaxRounds
      /\ feedChat \in Seq(Feed!Texts \cup {Deleted}) /\ feedId \in DOMAIN feedChat \cup {None}
      /\ feedRow # None => feedRow \in Feed!Rows /\ feedRow.id \in DOMAIN feedChat \cup {None}
  BY DEF Inv, TypeOK, Feed!TypeOK
<1>2. \A r \in Feed!Rows : r.notified \in 0..MaxRounds /\ r.finished \in BOOLEAN
  BY DEF Feed!Rows
<1>3. table \in 0..MaxRounds
  BY ResponseShape, Bounds DEF Inv, TypeOK
<1>4. step # "idle" =>
        response \in Responses /\ response.rounds \in 0..MaxRounds /\ response.over \in BOOLEAN
  BY ResponseShape DEF Inv, TypeOK
<1>5. \A t \in Feed!Texts : t.rounds \in 0..MaxRounds
  BY DEF Feed!Texts
<1>6. \A i \in DOMAIN feedChat : feedChat[i] # Deleted => feedChat[i].rounds \in 0..MaxRounds
  BY <1>1, <1>5
<1>. QED
  BY <1>1, <1>2, <1>3, <1>4, <1>6

\* The table may only grow, and a step that ends the work on the feed forgets what was read.
LEMMA FeedUntouched ==
  ASSUME Inv, UNCHANGED <<feedRow, feedChat, stored>>, table' \in Nat, table <= table',
         \/ step' \notin {"feedRow", "feedSend", "feedSave"}
         \/ UNCHANGED <<step, response, fetched, feedId>>
  PROVE  RowInv' /\ FetchInv'
<1>1. RowInv'
  BY DEF Inv, RowInv, Shows
<1>2. /\ stored <= table'
      /\ \A i \in DOMAIN feedChat : feedChat[i] # Deleted => feedChat[i].rounds <= table'
  BY FeedShape, Bounds DEF Inv, FetchInv
<1>3. FetchInv'
  BY <1>2 DEF Inv, FetchInv, Shows
<1>. QED
  BY <1>1, <1>3

LEMMA DeletionInFeed ==
  ASSUME Inv, DeleteMessage
  PROVE  RowInv' /\ FetchInv'
<1>1. /\ UNCHANGED <<table, step, response, fetched, feedId, feedRow, stored>>
      /\ \A i \in DOMAIN feedChat : feedChat'[i] = feedChat[i] \/ feedChat'[i] = Deleted
      /\ DOMAIN feedChat' = DOMAIN feedChat
  BY FeedShape, ChatOfDeletion DEF DeleteMessage, siteVars
<1>2. ASSUME NEW i \in DOMAIN feedChat, NEW n, NEW over, Shows(feedChat[i], n, over)
      PROVE  Shows(feedChat'[i], n, over)
  BY <1>1, <1>2 DEF Shows
<1>3. RowInv'
  <2>1. feedRow # None /\ feedRow.notified > 0 =>
          /\ feedRow.id \in DOMAIN feedChat /\ feedRow.id # None
          /\ Shows(feedChat[feedRow.id], feedRow.notified, feedRow.finished)
    BY FeedShape DEF Inv, RowInv
  <2>2. feedRow # None /\ feedRow.notified > 0 =>
          feedRow.id # None /\ Shows(feedChat'[feedRow.id], feedRow.notified, feedRow.finished)
    BY <1>2, <2>1
  <2>. QED
    BY <1>1, <2>2 DEF Inv, RowInv, Shows
<1>4. FetchInv'
  <2>1. step = "feedSave" =>
          /\ feedId \in DOMAIN feedChat /\ feedId # None
          /\ Shows(feedChat[feedId], fetched, response.over)
    BY FeedShape DEF Inv, FetchInv
  <2>2. step = "feedSave" => feedId # None /\ Shows(feedChat'[feedId], fetched, response.over)
    BY <1>2, <2>1
  <2>. QED
    BY <1>1, <2>2 DEF Inv, FetchInv, Shows
<1>. QED
  BY <1>3, <1>4

LEMMA FetchStep ==
  ASSUME Inv, Feed!FeedFetch, table' = table
  PROVE  RowInv' /\ FetchInv'
<1>1. /\ step' = "feedRow" /\ fetched' = table /\ stored' = (IF table > stored THEN table ELSE stored)
      /\ table >= response.rounds /\ ~Feed!NothingNew /\ step = "feed"
      /\ UNCHANGED <<response, feedId, feedRow, feedChat>>
  BY DEF Feed!FeedFetch
<1>2. stored <= table /\ (\A i \in DOMAIN feedChat : feedChat[i] # Deleted => feedChat[i].rounds <= table)
  BY DEF Inv, FetchInv
<1>3. stored' = table
  BY <1>1, <1>2, FeedShape
<1>4. response.rounds \in 0..MaxRounds /\ response.over => response.rounds = MaxRounds
  BY <1>1, FeedShape DEF Inv, EndInv
<1>5. feedRow # None =>
        /\ feedRow.notified \in 0..MaxRounds /\ feedRow.notified <= stored
        /\ feedRow.finished => feedRow.notified = MaxRounds
  BY FeedShape DEF Inv, RowInv
<1>6. feedRow # None => feedRow.notified <= table /\ ~feedRow.finished
  <2>1. response.rounds # 0 /\ (response.rounds <= Feed!Notified => ~Feed!Finished /\ response.over)
    BY <1>1, <1>4 DEF Feed!NothingNew
  <2>2. ASSUME feedRow # None, feedRow.finished PROVE FALSE
    <3>1. Feed!Notified = MaxRounds /\ Feed!Finished
      BY <1>5, <2>2 DEF Feed!Notified, Feed!Finished
    <3>. QED
      BY <1>1, <2>1, <3>1, FeedShape
  <2>3. feedRow # None => feedRow.notified <= table
    BY <1>2, <1>5, FeedShape
  <2>. QED
    BY <2>2, <2>3
<1>7. RowInv'
  <2>1. feedRow # None => feedRow.notified <= stored'
    BY <1>3, <1>6
  <2>. QED
    BY <1>1, <2>1 DEF Inv, RowInv, Shows
<1>8. FetchInv'
  <2>1. /\ stored' <= table' /\ response'.rounds <= fetched' /\ fetched' <= stored'
        /\ \A i \in DOMAIN feedChat' : feedChat'[i] # Deleted => feedChat'[i].rounds <= table'
        /\ \A i \in DOMAIN feedChat' : feedChat'[i] # Deleted => feedChat'[i].rounds <= fetched'
    BY <1>1, <1>2, <1>3, FeedShape
  <2>. QED
    BY <1>1, <1>6, <2>1 DEF FetchInv
<1>. QED
  BY <1>7, <1>8

LEMMA InsertStep ==
  ASSUME Inv, Feed!FeedInsert, table' = table
  PROVE  RowInv' /\ FetchInv'
<1>1. /\ step = "feedRow" /\ step' = "feedSend" /\ UNCHANGED <<response, fetched, feedId, feedChat, stored>>
      /\ feedRow' = IF feedRow = None THEN [id |-> None, notified |-> 0, finished |-> FALSE] ELSE feedRow
  BY DEF Feed!FeedInsert
<1>2. CASE feedRow # None
  <2>1. feedRow' = feedRow
    BY <1>1, <1>2
  <2>. QED
    BY <1>1, <1>2, <2>1 DEF Inv, RowInv, FetchInv, Shows
<1>3. CASE feedRow = None
  <2>1. feedRow' = [id |-> None, notified |-> 0, finished |-> FALSE]
    BY <1>1, <1>3
  <2>2. feedRow' \in Feed!Rows /\ feedRow' # None
    <3>1. 0 \in 0..MaxRounds
      BY Bounds
    <3>2. feedRow' \in Feed!Rows
      BY <2>1, <3>1 DEF Feed!Rows
    <3>. QED
      BY <3>2, Bounds
  <2>3. feedRow'.notified = 0 /\ feedRow'.finished = FALSE
    BY <2>1
  <2>4. 0 <= stored /\ 0 <= fetched
    BY FeedShape
  <2>5. RowInv'
    BY <1>1, <2>3, <2>4 DEF RowInv
  <2>6. FetchInv'
    BY <1>1, <2>2, <2>3, <2>4 DEF Inv, FetchInv
  <2>. QED
    BY <2>5, <2>6
<1>. QED
  BY <1>2, <1>3

LEMMA SendStep ==
  ASSUME Inv, Feed!FeedSend, table' = table
  PROVE  RowInv' /\ FetchInv'
<1>. DEFINE text == Feed!Text(fetched, response.over)
<1>1. /\ step = "feedSend" /\ feedRow \in Feed!Rows /\ feedRow.id \in DOMAIN feedChat \cup {None}
      /\ UNCHANGED <<response, feedRow, stored>>
      /\ feedChat' \in Seq(Feed!Texts \cup {Deleted})
      /\ Len(feedChat') \in {Len(feedChat), Len(feedChat) + 1}
      /\ \A i \in DOMAIN feedChat :
           feedChat'[i] = feedChat[i] \/ (i = feedRow.id /\ feedChat'[i] = text)
      /\ \A i \in DOMAIN feedChat' \ DOMAIN feedChat : feedChat'[i] = text
      /\ \/ /\ step' = "feedSave" /\ fetched' = fetched
            /\ feedId' \in DOMAIN feedChat /\ feedChat'[feedId'] = text
         \/ /\ step' = "feedSave" /\ fetched' = fetched
            /\ feedId' = Len(feedChat) + 1 /\ Len(feedChat') = Len(feedChat) + 1
         \/ step' = "pre"
  BY FeedSent
<1>2. /\ text.rounds = fetched
      /\ response.over => text.over
  <2>1. fetched \in 0..MaxRounds /\ response.over \in BOOLEAN /\ response.rounds \in 0..MaxRounds
    BY <1>1, FeedShape
  <2>2. response.over => fetched = MaxRounds
    BY <1>1, <2>1 DEF Inv, EndInv, FetchInv
  <2>. QED
    BY <2>1, <2>2, TextType
<1>3. /\ stored <= table /\ response.rounds <= fetched /\ fetched <= stored
      /\ feedRow # None => feedRow.notified <= fetched /\ ~feedRow.finished
      /\ feedRow # None
      /\ \A i \in DOMAIN feedChat : feedChat[i] # Deleted => feedChat[i].rounds <= table
  BY <1>1 DEF Inv, FetchInv
<1>. HIDE DEF text
<1>4. (feedId' # None /\ feedChat'[feedId'] = text) \/ step' = "pre"
  <2>1. CASE feedId' = Len(feedChat) + 1 /\ Len(feedChat') = Len(feedChat) + 1
    <3>1. feedId' \in DOMAIN feedChat' \ DOMAIN feedChat
      BY <1>1, <2>1, FeedShape
    <3>. QED
      BY <1>1, <3>1, Bounds
  <2>. QED
    BY <1>1, <2>1, FeedShape, Bounds
<1>5. RowInv'
  <2>1. ASSUME feedRow.notified > 0
        PROVE  feedRow.id # None /\ Shows(feedChat'[feedRow.id], feedRow.notified, feedRow.finished)
    <3>1. feedRow.id \in DOMAIN feedChat /\ feedRow.id # None
          /\ Shows(feedChat[feedRow.id], feedRow.notified, feedRow.finished)
      BY <1>1, <1>3, <2>1 DEF Inv, RowInv
    <3>2. CASE feedChat'[feedRow.id] = feedChat[feedRow.id]
      BY <3>1, <3>2
    <3>3. CASE feedChat'[feedRow.id] = text
      <4>1. text.rounds >= feedRow.notified /\ ~feedRow.finished
        BY <1>1, <1>2, <1>3, FeedShape
      <4>. QED
        BY <3>1, <3>3, <4>1 DEF Shows
    <3>. QED
      BY <1>1, <3>1, <3>2, <3>3
  <2>. QED
    BY <1>1, <2>1 DEF Inv, RowInv, Shows
<1>6. \A i \in DOMAIN feedChat' : feedChat'[i] # Deleted => feedChat'[i].rounds <= table'
  <2>1. fetched <= table
    BY <1>3, FeedShape
  <2>2. ASSUME NEW i \in DOMAIN feedChat', feedChat'[i] # Deleted PROVE feedChat'[i].rounds <= table
    <3>1. CASE i \in DOMAIN feedChat /\ feedChat'[i] = feedChat[i]
      BY <1>3, <2>2, <3>1
    <3>2. CASE feedChat'[i] = text
      BY <1>2, <2>1, <3>2
    <3>. QED
      BY <1>1, <3>1, <3>2
  <2>. QED
    BY <2>2
<1>7. step' = "feedSave" => feedId' # None /\ Shows(feedChat'[feedId'], fetched, response.over)
  <2>1. fetched <= fetched
    BY FeedShape
  <2>. QED
    BY <1>2, <1>4, <2>1 DEF Shows
<1>8. FetchInv'
  BY <1>1, <1>3, <1>6, <1>7 DEF FetchInv, Shows
<1>. QED
  BY <1>5, <1>8

LEMMA SaveStep ==
  ASSUME Inv, Feed!FeedSave, table' = table
  PROVE  RowInv' /\ FetchInv'
<1>1. /\ feedRow' = [id |-> feedId, notified |-> fetched, finished |-> response.over]
      /\ step = "feedSave" /\ step' = "pre" /\ UNCHANGED <<feedChat, stored>>
  BY DEF Feed!FeedSave
<1>2. feedRow'.id = feedId /\ feedRow'.notified = fetched /\ feedRow'.finished = response.over
  BY <1>1
<1>3. /\ response.rounds <= fetched /\ fetched <= stored
      /\ feedId # None /\ Shows(feedChat[feedId], fetched, response.over)
  BY <1>1 DEF Inv, FetchInv
<1>4. response.over => fetched = MaxRounds
  BY <1>1, <1>3, FeedShape DEF Inv, EndInv
<1>5. RowInv'
  BY <1>1, <1>2, <1>3, <1>4 DEF RowInv, Shows
<1>6. FetchInv'
  BY <1>1 DEF Inv, FetchInv
<1>. QED
  BY <1>5, <1>6

LEMMA FeedKnowledgeStep ==
  ASSUME Inv, Next
  PROVE  RowInv' /\ FetchInv'
<1>1. table \in Nat
  BY FeedShape, Bounds
<1>2. CASE Site \/ TenSeconds \/ Poll
  <2>1. UNCHANGED <<step, response, fetched, feedId, feedRow, feedChat, stored>>
    BY <1>2 DEF Site, CountDown, StartMatch, PlayRound, EndMatch, TableCatchesUp, Poll, TenSeconds,
      feedVars
  <2>2. table' \in Nat /\ table <= table'
    BY <1>1, <1>2 DEF Site, CountDown, StartMatch, PlayRound, EndMatch, TableCatchesUp, Poll,
      TenSeconds, siteVars
  <2>. QED
    BY <2>1, <2>2, FeedUntouched
<1>3. CASE TakeJob \/ CrashAndRestart \/ AnnounceStep
  <2>1. UNCHANGED <<feedRow, feedChat, stored, table>> /\ step' \notin {"feedRow", "feedSend", "feedSave"}
    <3>1. CASE TakeJob \/ CrashAndRestart
      BY <3>1 DEF TakeJob, CrashAndRestart, siteVars, feedVars
    <3>2. CASE AnnounceStep
      BY <3>2, AnnFrame DEF siteVars, feedVars
    <3>. QED
      BY <1>3, <3>1, <3>2
  <2>2. table' \in Nat /\ table <= table'
    BY <1>1, <2>1
  <2>. QED
    BY <2>1, <2>2, FeedUntouched
<1>4. CASE FeedStep
  <2>0. table' = table
    BY <1>4 DEF FeedStep, siteVars
  <2>1. CASE Feed!FeedSkip \/ Feed!FeedFails \/ Feed!FeedTooEarly
    <3>1. UNCHANGED <<feedRow, feedChat, stored>> /\ step' = "pre"
      BY <2>1 DEF Feed!FeedSkip, Feed!FeedFails, Feed!FeedTooEarly, Feed!feedVars
    <3>2. table' \in Nat /\ table <= table'
      BY <1>1, <2>0
    <3>. QED
      BY <3>1, <3>2, FeedUntouched
  <2>. QED
    BY <1>4, <2>0, <2>1, FetchStep, InsertStep, SendStep, SaveStep DEF FeedStep, Feed!Next
<1>. QED
  BY <1>2, <1>3, <1>4, DeletionInFeed DEF Next

\* An end that was told stays true of every response to come.
LEMMA OverStep ==
  ASSUME Inv, Next
  PROVE  OverInv'
<1>1. CASE Site
  <2>1. UNCHANGED <<sport, queue, step, response, feedChat>>
    BY <1>1 DEF Site, CountDown, StartMatch, PlayRound, EndMatch, TableCatchesUp, feedVars
  <2>2. match.over => match'.over
    BY <1>1, SiteGoesForward
  <2>. QED
    BY <2>1, <2>2 DEF Inv, OverInv
<1>2. CASE Poll
  <2>1. PICK a \in Responses :
          /\ queue' = Append(queue, a) /\ a.over = match.over
          /\ UNCHANGED <<match, sport, step, response, feedChat>>
    BY <1>2, Polled DEF Inv, TypeOK, SiteTypes, siteVars, feedVars
  <2>2. \A j \in DOMAIN queue' : (j \in DOMAIN queue /\ queue'[j] = queue[j]) \/ queue'[j] = a
    BY <2>1 DEF Inv, TypeOK
  <2>. QED
    BY <2>1, <2>2 DEF Inv, OverInv
<1>3. CASE TakeJob
  <2>1. queue # <<>> /\ queue' = Tail(queue) /\ response' = Head(queue) /\ UNCHANGED <<match, sport, feedChat>>
    BY <1>3 DEF TakeJob, siteVars, feedVars
  <2>2. /\ response' = queue[1] /\ 1 \in DOMAIN queue
        /\ \A i \in DOMAIN queue' : i + 1 \in DOMAIN queue /\ queue'[i] = queue[i + 1]
    BY <2>1 DEF Inv, TypeOK
  <2>. QED
    BY <2>1, <2>2 DEF Inv, OverInv
<1>4. CASE CrashAndRestart
  <2>1. queue' = <<>> /\ step' = "idle" /\ UNCHANGED <<match, sport, feedChat>>
    BY <1>4 DEF CrashAndRestart, siteVars
  <2>. QED
    BY <2>1 DEF Inv, OverInv
<1>5. CASE DeleteMessage
  <2>1. /\ UNCHANGED <<match, sport, queue, step, response>> /\ DOMAIN feedChat' = DOMAIN feedChat
        /\ \A i \in DOMAIN feedChat : feedChat'[i] = feedChat[i] \/ feedChat'[i] = Deleted
    BY <1>5, FeedShape, ChatOfDeletion DEF DeleteMessage, siteVars
  <2>. QED
    BY <2>1 DEF Inv, OverInv
<1>6. CASE TenSeconds
  <2>1. UNCHANGED <<match, sport, queue, step, response, feedChat>>
    BY <1>6 DEF TenSeconds, siteVars, feedVars
  <2>. QED
    BY <2>1 DEF Inv, OverInv
<1>7. CASE AnnounceStep
  <2>1. /\ UNCHANGED <<match, sport, queue, feedChat>> /\ step # "idle"
        /\ step' = "idle" \/ response' = response
    BY <1>7, AnnFrame DEF siteVars, feedVars
  <2>. QED
    BY <2>1 DEF Inv, OverInv
<1>8. CASE FeedStep /\ ~Feed!FeedSend
  <2>1. /\ UNCHANGED <<match, sport, queue, response>> /\ step # "idle"
    BY <1>8, FeedFrame DEF siteVars
  <2>2. UNCHANGED feedChat
    BY <1>8 DEF FeedStep, Feed!Next, Feed!FeedSkip, Feed!FeedFails, Feed!FeedTooEarly, Feed!FeedFetch,
      Feed!FeedInsert, Feed!FeedSave, Feed!feedVars
  <2>. QED
    BY <2>1, <2>2 DEF Inv, OverInv
<1>9. CASE FeedStep /\ Feed!FeedSend
  <2>. DEFINE text == Feed!Text(fetched, response.over)
  <2>1. /\ UNCHANGED <<match, sport, queue, response>> /\ step = "feedSend"
        /\ \A i \in DOMAIN feedChat' :
             feedChat'[i] = text \/ (i \in DOMAIN feedChat /\ feedChat'[i] = feedChat[i])
    BY <1>9, FeedFrame, FeedSent DEF siteVars
  <2>2. /\ text.rounds = fetched
        /\ text.over = (IF sport = "tennis" THEN response.over ELSE fetched = MaxRounds)
    BY <2>1, FeedShape, TextType
  <2>3. response.over => match.over /\ \A j \in DOMAIN queue : queue[j].over
    BY <2>1 DEF Inv, OrderInv, Before
  <2>. HIDE DEF text
  <2>4. ASSUME NEW i \in DOMAIN feedChat', feedChat'[i] # Deleted, feedChat'[i].over
        PROVE  IF sport = "tennis"
               THEN match.over /\ (\A j \in DOMAIN queue : queue[j].over) /\ response.over
               ELSE feedChat'[i].rounds = MaxRounds
    <3>1. CASE feedChat'[i] = text
      BY <2>2, <2>3, <2>4, <3>1
    <3>2. CASE i \in DOMAIN feedChat /\ feedChat'[i] = feedChat[i]
      BY <2>1, <2>4, <3>2 DEF Inv, OverInv
    <3>. QED
      BY <2>1, <3>1, <3>2
  <2>. QED
    BY <2>1, <2>4 DEF OverInv
<1>. QED
  BY <1>1, <1>2, <1>3, <1>4, <1>5, <1>6, <1>7, <1>8, <1>9 DEF Next

-----------------------------------------------------------------------------
(* Every step keeps what the announcement knows.                             *)

LEMMA AnnShape ==
  ASSUME Inv
  PROVE  /\ annChat \in Seq(Ann!Captions \cup {Deleted})
         /\ annId \in DOMAIN annChat \cup {None} /\ annPhoto \in BOOLEAN
         /\ annRow # None =>
              /\ annRow \in Ann!Rows /\ annRow.id \in DOMAIN annChat \cup {None}
              /\ annRow.photo \in BOOLEAN /\ annRow.done \in BOOLEAN
         /\ match \in Responses /\ queue \in Seq(Responses)
         /\ step # "idle" => response \in Responses
         /\ \A i \in DOMAIN annChat : annChat[i] # Deleted =>
              annChat[i].left \in 0..MaxLeft \cup {None} /\ annChat[i].photo \in BOOLEAN
<1>1. /\ annChat \in Seq(Ann!Captions \cup {Deleted})
      /\ annId \in DOMAIN annChat \cup {None} /\ annPhoto \in BOOLEAN
      /\ annRow # None => annRow \in Ann!Rows /\ annRow.id \in DOMAIN annChat \cup {None}
  BY DEF Inv, TypeOK, Ann!TypeOK
<1>2. /\ match \in Responses /\ queue \in Seq(Responses)
      /\ step # "idle" => response \in Responses
  BY DEF Inv, TypeOK
<1>3. /\ \A r \in Ann!Rows : r.photo \in BOOLEAN /\ r.done \in BOOLEAN
      /\ \A c \in Ann!Captions : c.left \in 0..MaxLeft \cup {None} /\ c.photo \in BOOLEAN
  BY DEF Ann!Rows, Ann!Captions
<1>4. \A i \in DOMAIN annChat : annChat[i] # Deleted =>
        annChat[i].left \in 0..MaxLeft \cup {None} /\ annChat[i].photo \in BOOLEAN
  BY <1>1, <1>3
<1>. QED
  BY <1>1, <1>2, <1>3, <1>4

LEMMA ToldLater ==
  ASSUME NEW a \in Responses, NEW b \in Responses, Before(a, b),
         NEW c, c = Deleted \/ c.left \in 0..MaxLeft \cup {None}, Told(c, a)
  PROVE  Told(c, b)
<1>1. a.left \in Nat /\ b.left \in Nat /\ b.left <= a.left /\ (misled \/ (b.counting => a.counting))
  BY ResponseShape, Bounds DEF Before
<1>2. CASE c = Deleted
  BY <1>2 DEF Told
<1>3. CASE c # Deleted /\ c.left = None
  BY <1>1, <1>3 DEF Told
<1>4. CASE c # Deleted /\ c.left # None
  <2>1. c.left \in Nat /\ a.left <= c.left
    BY <1>4, Bounds DEF Told
  <2>2. b.left <= c.left
    BY <1>1, <2>1
  <2>. QED
    BY <1>4, <2>2 DEF Told
<1>. QED
  BY <1>2, <1>3, <1>4

\* The chat is told no other news than the response that is being written.
LEMMA CaptionsOfStep ==
  ASSUME Inv, UNCHANGED <<match, queue, misled>>,
         step' = "idle" \/ (step # "idle" /\ response' = response),
         \A i \in DOMAIN annChat' :
           \/ annChat'[i] = Deleted
           \/ i \in DOMAIN annChat /\ annChat'[i] = annChat[i]
           \/ step # "idle" /\ annChat'[i].left = response.left
           \/ step # "idle" /\ annChat'[i].left = None /\ ~response.counting
  PROVE  CaptionInv'
<1>1. ASSUME NEW i \in DOMAIN annChat', i \in DOMAIN annChat, annChat'[i] = annChat[i]
      PROVE  /\ Told(annChat'[i], match)
             /\ \A j \in DOMAIN queue : Told(annChat'[i], queue[j])
             /\ step # "idle" => Told(annChat'[i], response)
  BY <1>1 DEF Inv, CaptionInv
<1>2. ASSUME NEW i \in DOMAIN annChat', step # "idle",
             annChat'[i].left = response.left \/ (annChat'[i].left = None /\ ~response.counting)
      PROVE  /\ Told(annChat'[i], match)
             /\ \A j \in DOMAIN queue : Told(annChat'[i], queue[j])
             /\ step # "idle" => Told(annChat'[i], response)
  <2>1. /\ response \in Responses /\ response.left \in 0..MaxLeft /\ match \in Responses
        /\ \A j \in DOMAIN queue : queue[j] \in Responses
    BY <1>2, AnnShape, ResponseShape
  <2>2. Before(response, match) /\ \A j \in DOMAIN queue : Before(response, queue[j])
    BY <1>2 DEF Inv, OrderInv
  <2>3. Told(annChat'[i], response)
    <3>1. response.left \in Nat /\ response.left # None /\ response.left <= response.left
      BY <2>1, Bounds
    <3>. QED
      BY <1>2, <3>1 DEF Told
  <2>4. annChat'[i].left \in 0..MaxLeft \cup {None}
    BY <1>2, <2>1
  <2>. QED
    BY <2>1, <2>2, <2>3, <2>4, ToldLater
<1>3. \A i \in DOMAIN annChat' :
        /\ Told(annChat'[i], match)
        /\ \A j \in DOMAIN queue : Told(annChat'[i], queue[j])
        /\ step # "idle" => Told(annChat'[i], response)
  BY <1>1, <1>2 DEF Told
<1>. QED
  BY <1>3 DEF CaptionInv, Told

LEMMA CaptionStep ==
  ASSUME Inv, Next
  PROVE  CaptionInv'
<1>1. CASE Site
  <2>1. UNCHANGED <<queue, misled, step, response, annChat>>
    BY <1>1 DEF Site, CountDown, StartMatch, PlayRound, EndMatch, TableCatchesUp, annVars
  <2>2. \A i \in DOMAIN annChat : Told(annChat[i], match')
    <3>. SUFFICES ASSUME NEW i \in DOMAIN annChat PROVE Told(annChat[i], match')
      OBVIOUS
    <3>1. match' \in Responses /\ Before(match, match')
      BY <1>1, SiteGoesForward
    <3>2. annChat[i] = Deleted \/ annChat[i].left \in 0..MaxLeft \cup {None}
      BY AnnShape
    <3>3. match \in Responses /\ Told(annChat[i], match)
      BY AnnShape DEF Inv, CaptionInv
    <3>. QED
      BY <3>1, <3>2, <3>3, ToldLater
  <2>. QED
    BY <2>1, <2>2 DEF Inv, CaptionInv, Told
<1>2. CASE Poll
  <2>1. PICK a \in Responses :
          /\ queue' = Append(queue, a) /\ UNCHANGED <<match, step, response, annChat>>
          /\ a.left = match.left
          /\ a = match \/ misled'
          /\ misled => misled'
    BY <1>2, Polled DEF Inv, TypeOK, SiteTypes, siteVars, annVars
  <2>2. \A j \in DOMAIN queue' : (j \in DOMAIN queue /\ queue'[j] = queue[j]) \/ queue'[j] = a
    BY <2>1, AnnShape
  <2>3. ASSUME NEW c, NEW r, Told(c, r)
        PROVE  c = Deleted \/ IF c.left = None THEN misled' \/ ~r.counting ELSE r.left <= c.left
    BY <2>1, <2>3 DEF Told
  <2>4. ASSUME NEW c, Told(c, match)
        PROVE  c = Deleted \/ IF c.left = None THEN misled' \/ ~a.counting ELSE a.left <= c.left
    BY <2>1, <2>4 DEF Told
  <2>5. \A i \in DOMAIN annChat : Told(annChat[i], match)
    BY DEF Inv, CaptionInv
  <2>6. ASSUME NEW i \in DOMAIN annChat, NEW j \in DOMAIN queue'
        PROVE  annChat[i] = Deleted \/ IF annChat[i].left = None THEN misled' \/ ~queue'[j].counting
                                       ELSE queue'[j].left <= annChat[i].left
    <3>1. CASE queue'[j] = a
      BY <2>4, <2>5, <3>1
    <3>2. CASE j \in DOMAIN queue /\ queue'[j] = queue[j]
      <4>1. Told(annChat[i], queue[j])
        BY <3>2 DEF Inv, CaptionInv
      <4>. QED
        BY <2>3, <3>2, <4>1
    <3>. QED
      BY <2>2, <3>1, <3>2
  <2>7. ASSUME NEW i \in DOMAIN annChat, step # "idle"
        PROVE  annChat[i] = Deleted \/ IF annChat[i].left = None THEN misled' \/ ~response.counting
                                       ELSE response.left <= annChat[i].left
    <3>1. Told(annChat[i], response)
      BY <2>7 DEF Inv, CaptionInv
    <3>. QED
      BY <2>3, <3>1
  <2>8. ASSUME NEW i \in DOMAIN annChat
        PROVE  annChat[i] = Deleted \/ IF annChat[i].left = None THEN misled' \/ ~match.counting
                                       ELSE match.left <= annChat[i].left
    BY <2>3, <2>5
  <2>. QED
    BY <2>1, <2>6, <2>7, <2>8 DEF CaptionInv, Told
<1>3. CASE TakeJob
  <2>1. queue # <<>> /\ queue' = Tail(queue) /\ response' = Head(queue) /\ UNCHANGED <<match, misled, annChat>>
    BY <1>3 DEF TakeJob, siteVars, annVars
  <2>2. /\ response' = queue[1] /\ 1 \in DOMAIN queue
        /\ \A i \in DOMAIN queue' : i + 1 \in DOMAIN queue /\ queue'[i] = queue[i + 1]
    BY <2>1, AnnShape
  <2>. QED
    BY <2>1, <2>2 DEF Inv, CaptionInv, Told
<1>4. CASE CrashAndRestart
  <2>1. queue' = <<>> /\ step' = "idle" /\ UNCHANGED <<match, misled, annChat>>
    BY <1>4 DEF CrashAndRestart, siteVars
  <2>. QED
    BY <2>1 DEF Inv, CaptionInv, Told
<1>5. CASE DeleteMessage
  <2>1. /\ UNCHANGED <<match, queue, misled, step, response>> /\ DOMAIN annChat' = DOMAIN annChat
        /\ \A i \in DOMAIN annChat : annChat'[i] = annChat[i] \/ annChat'[i] = Deleted
    BY <1>5, AnnShape, ChatOfDeletion DEF DeleteMessage, siteVars
  <2>. QED
    BY <2>1 DEF Inv, CaptionInv, Told
<1>6. CASE TenSeconds \/ FeedStep
  <2>1. UNCHANGED <<match, queue, misled, response, annChat>> /\ (step' = step \/ step # "idle")
    <3>1. CASE TenSeconds
      BY <3>1 DEF TenSeconds, siteVars
    <3>2. CASE FeedStep
      BY <3>2, FeedFrame DEF siteVars, annVars
    <3>. QED
      BY <1>6, <3>1, <3>2
  <2>. QED
    BY <2>1 DEF Inv, CaptionInv, Told
<1>7. CASE AnnounceStep
  <2>1. /\ UNCHANGED <<match, queue, misled>> /\ step # "idle" /\ response \in Responses
        /\ step' = "idle" \/ (step # "idle" /\ response' = response)
    BY <1>7, AnnFrame, AnnShape DEF siteVars
  <2>2. response.left \in 0..MaxLeft
    BY <2>1, ResponseShape
  <2>3. ASSUME NEW i \in DOMAIN annChat'
        PROVE  \/ i \in DOMAIN annChat /\ annChat'[i] = annChat[i]
               \/ annChat'[i].left = response.left
               \/ annChat'[i].left = None /\ ~response.counting
    <3>1. CASE Ann!AnnSkip \/ Ann!AnnInsert \/ Ann!AnnSave \/ Ann!AnnClose \/ Ann!AnnFails
      BY <3>1 DEF Ann!AnnSkip, Ann!AnnInsert, Ann!AnnSave, Ann!AnnClose, Ann!AnnFails, Ann!annVars
    <3>2. CASE Ann!AnnSend
      <4>1. (i \in DOMAIN annChat /\ annChat'[i] = annChat[i]) \/ annChat'[i] = Ann!Caption(portraits, response.left)
        BY <3>2, AnnSent
      <4>. QED
        BY <4>1 DEF Ann!Caption
    <3>3. CASE Ann!AnnEdit
      <4>1. \/ i \in DOMAIN annChat /\ annChat'[i] = annChat[i]
            \/ annChat'[i] = Ann!Caption(annRow.photo, response.left)
            \/ annChat'[i] = Ann!Caption(FALSE, response.left)
        BY <3>3, AnnEdited
      <4>. QED
        BY <4>1 DEF Ann!Caption
    <3>4. CASE Ann!AnnLastEdit
      <4>1. ~response.counting
        BY <3>4, AnnLastEdited
      <4>2. (i \in DOMAIN annChat /\ annChat'[i] = annChat[i]) \/ annChat'[i] = Ann!Caption(annRow.photo, None)
        BY <3>4, AnnLastEdited
      <4>. QED
        BY <4>1, <4>2 DEF Ann!Caption
    <3>. QED
      BY <1>7, <3>1, <3>2, <3>3, <3>4 DEF AnnounceStep, Ann!Next
  <2>. QED
    BY <2>1, <2>3, CaptionsOfStep
<1>. QED
  BY <1>1, <1>2, <1>3, <1>4, <1>5, <1>6, <1>7 DEF Next

\* Nothing of what KindInv is about changes, or its process dies.
LEMMA KindUntouched ==
  ASSUME Inv, UNCHANGED <<annRow, annChat>>,
         \/ step' \notin {"annSend", "annSave", "annClose"}
         \/ UNCHANGED <<step, annId, annPhoto>>
  PROVE  KindInv'
BY DEF Inv, KindInv

LEMMA DeletionOfAnnouncement ==
  ASSUME Inv, DeleteMessage
  PROVE  KindInv'
<1>1. /\ UNCHANGED <<step, annId, annPhoto, annRow>>
      /\ \A i \in DOMAIN annChat : annChat'[i] = annChat[i] \/ annChat'[i] = Deleted
  BY AnnShape, ChatOfDeletion DEF DeleteMessage
<1>2. annRow # None /\ annRow.id # None => annRow.id \in DOMAIN annChat
  BY AnnShape
<1>3. annId # None => annId \in DOMAIN annChat
  BY AnnShape
<1>. QED
  BY <1>1, <1>2, <1>3 DEF Inv, KindInv

LEMMA KindOfAnnouncement ==
  ASSUME Inv, AnnounceStep
  PROVE  KindInv'
<1>0. /\ annRow # None /\ annRow.id # None /\ annChat[annRow.id] # Deleted =>
           annChat[annRow.id].photo = annRow.photo
      /\ step = "annSave" =>
           annId # None /\ (annChat[annId] # Deleted => annChat[annId].photo = annPhoto)
      /\ step \in {"annSend", "annSave", "annClose"} => annRow # None /\ ~annRow.done
  BY DEF Inv, KindInv
<1>1. CASE Ann!AnnSkip \/ Ann!AnnFails
  <2>1. UNCHANGED <<annRow, annChat>> /\ step' = "idle"
    BY <1>1 DEF Ann!AnnSkip, Ann!AnnFails, Ann!annVars
  <2>. QED
    BY <2>1, KindUntouched
<1>2. CASE Ann!AnnInsert
  <2>1. annRow' = [id |-> None, photo |-> FALSE, last |-> None, done |-> FALSE] /\ step' = "annSend"
    BY <1>2 DEF Ann!AnnInsert
  <2>2. annRow' \in Ann!Rows
    BY <2>1 DEF Ann!Rows
  <2>3. annRow' # None /\ annRow'.id = None /\ ~annRow'.done
    BY <2>1, <2>2, Bounds
  <2>. QED
    BY <2>1, <2>3 DEF KindInv
<1>3. CASE Ann!AnnSend
  <2>1. /\ step = "annSend" /\ annRow.id = None /\ UNCHANGED annRow
        /\ \A i \in DOMAIN annChat' \ DOMAIN annChat : annChat'[i] = Ann!Caption(portraits, response.left)
        /\ step' \in {"annSave", "idle"}
        /\ step' = "annSave" =>
             annId' = Len(annChat) + 1 /\ Len(annChat') = Len(annChat) + 1 /\ annPhoto' = portraits
        /\ annChat' \in Seq(Ann!Captions \cup {Deleted})
    BY <1>3, AnnSent
  <2>2. step' = "annSave" => annId' # None /\ annChat'[annId'] = Ann!Caption(portraits, response.left)
    <3>1. step' = "annSave" => annId' \in DOMAIN annChat' \ DOMAIN annChat
      BY <2>1, AnnShape
    <3>. QED
      BY <2>1, <3>1, Bounds
  <2>3. Ann!Caption(portraits, response.left).photo = portraits
    BY DEF Ann!Caption
  <2>. QED
    BY <1>0, <2>1, <2>2, <2>3 DEF KindInv
<1>4. CASE Ann!AnnEdit
  <2>1. /\ step = "pre" /\ annRow \in Ann!Rows /\ annRow.id \in DOMAIN annChat \cup {None} /\ ~annRow.done
        /\ UNCHANGED annRow
        /\ \A i \in DOMAIN annChat :
             annChat'[i] = annChat[i]
             \/ (i = annRow.id /\ annChat[i] # Deleted /\ annChat[i].photo = annRow.photo
                 /\ annChat'[i] = Ann!Caption(annRow.photo, response.left))
        /\ \A i \in DOMAIN annChat' \ DOMAIN annChat : annChat'[i] = Ann!Caption(FALSE, response.left)
        /\ \/ /\ step' = "annSave" /\ annId' = annRow.id /\ annId' \in DOMAIN annChat
              /\ annPhoto' = annRow.photo /\ annChat'[annId'] = Ann!Caption(annRow.photo, response.left)
           \/ /\ step' = "annSave" /\ annId' = Len(annChat) + 1 /\ Len(annChat') = Len(annChat) + 1
              /\ annPhoto' = FALSE
           \/ step' = "idle"
        /\ annChat' \in Seq(Ann!Captions \cup {Deleted})
    BY <1>4, AnnEdited
  <2>2. annRow # None
    BY <2>1, Bounds
  <2>3. /\ Ann!Caption(annRow.photo, response.left).photo = annRow.photo
        /\ Ann!Caption(FALSE, response.left).photo = FALSE
    BY DEF Ann!Caption
  <2>4. annRow.id # None /\ annChat'[annRow.id] # Deleted => annChat'[annRow.id].photo = annRow.photo
    <3>1. annRow.id # None => annRow.id \in DOMAIN annChat
      BY <2>1
    <3>2. annRow.id # None /\ annChat[annRow.id] # Deleted => annChat[annRow.id].photo = annRow.photo
      BY <1>0, <2>2
    <3>. QED
      BY <2>1, <2>3, <3>1, <3>2
  <2>5. step' = "annSave" => annId' # None /\ annChat'[annId'].photo = annPhoto'
    <3>1. CASE step' = "annSave" /\ annId' = Len(annChat) + 1 /\ Len(annChat') = Len(annChat) + 1 /\ annPhoto' = FALSE
      <4>1. annId' \in DOMAIN annChat' \ DOMAIN annChat
        BY <2>1, <3>1, AnnShape
      <4>2. annChat'[annId'] = Ann!Caption(FALSE, response.left)
        BY <2>1, <4>1
      <4>3. annId' # None
        BY <2>1, <4>1, Bounds
      <4>. QED
        BY <2>3, <3>1, <4>2, <4>3
    <3>2. CASE step' = "annSave" /\ annId' \in DOMAIN annChat
               /\ annPhoto' = annRow.photo /\ annChat'[annId'] = Ann!Caption(annRow.photo, response.left)
      <4>1. annId' # None
        BY <3>2, AnnShape, Bounds
      <4>. QED
        BY <2>3, <3>2, <4>1
    <3>. QED
      BY <2>1, <3>1, <3>2
  <2>. QED
    BY <2>1, <2>2, <2>4, <2>5 DEF KindInv
<1>5. CASE Ann!AnnSave
  <2>1. /\ annRow' = [id |-> annId, photo |-> annPhoto, last |-> response.left, done |-> FALSE]
        /\ step = "annSave" /\ step' = "idle" /\ UNCHANGED annChat
    BY <1>5 DEF Ann!AnnSave
  <2>2. annRow'.id = annId /\ annRow'.photo = annPhoto
    BY <2>1
  <2>. QED
    BY <1>0, <2>1, <2>2 DEF KindInv
<1>6. CASE Ann!AnnLastEdit
  <2>1. /\ annRow \in Ann!Rows /\ annRow.id \in DOMAIN annChat /\ ~annRow.done /\ step' = "annClose"
        /\ UNCHANGED annRow
        /\ \A i \in DOMAIN annChat :
             annChat'[i] = annChat[i] \/ (i = annRow.id /\ annChat'[i] = Ann!Caption(annRow.photo, None))
    BY <1>6, AnnLastEdited
  <2>2. annRow # None
    BY <2>1, Bounds
  <2>3. Ann!Caption(annRow.photo, None).photo = annRow.photo
    BY DEF Ann!Caption
  <2>. QED
    BY <1>0, <2>1, <2>2, <2>3 DEF KindInv
<1>7. CASE Ann!AnnClose
  <2>1. /\ annRow' = [annRow EXCEPT !.last = None, !.done = TRUE] /\ step' = "idle" /\ UNCHANGED annChat
        /\ step = "annClose"
    BY <1>7 DEF Ann!AnnClose
  <2>2. annRow \in Ann!Rows
    BY <1>0, <2>1, AnnShape
  <2>3. annRow'.id = annRow.id /\ annRow'.photo = annRow.photo
    BY <2>1, <2>2 DEF Ann!Rows
  <2>. QED
    BY <1>0, <2>1, <2>2, <2>3, Bounds DEF KindInv
<1>. QED
  BY <1>1, <1>2, <1>3, <1>4, <1>5, <1>6, <1>7 DEF AnnounceStep, Ann!Next

LEMMA KindStep ==
  ASSUME Inv, Next
  PROVE  KindInv'
<1>1. CASE Site \/ Poll \/ TenSeconds
  <2>1. UNCHANGED <<step, annId, annPhoto, annRow, annChat>>
    BY <1>1 DEF Site, CountDown, StartMatch, PlayRound, EndMatch, TableCatchesUp, Poll, TenSeconds, annVars
  <2>. QED
    BY <2>1, KindUntouched
<1>2. CASE TakeJob \/ CrashAndRestart \/ FeedStep
  <2>1. UNCHANGED <<annRow, annChat>> /\ step' \notin {"annSend", "annSave", "annClose"}
    <3>1. CASE TakeJob \/ CrashAndRestart
      BY <3>1 DEF TakeJob, CrashAndRestart, annVars
    <3>2. CASE FeedStep
      BY <3>2, FeedFrame DEF annVars
    <3>. QED
      BY <1>2, <3>1, <3>2
  <2>. QED
    BY <2>1, KindUntouched
<1>. QED
  BY <1>1, <1>2, DeletionOfAnnouncement, KindOfAnnouncement DEF Next

\* A step that neither touches the announcement nor comes back from the last edit.
LEMMA StartedUntouched ==
  ASSUME Inv, UNCHANGED <<annRow, annChat, faults>>, step # "annClose" \/ step' = "annClose"
  PROVE  StartedInv'
BY DEF Inv, StartedInv

LEMMA StartedStep ==
  ASSUME Inv, Next
  PROVE  StartedInv'
<1>0. /\ faults \in Nat
      /\ step = "annClose" \/ annRow = None \/ ~annRow.done =>
           (faults = 0 /\ step # "annClose" =>
              \A i \in DOMAIN annChat : annChat[i] = Deleted \/ annChat[i].left # None)
  BY DEF Inv, TypeOK, StartedInv
<1>00. faults' \in Nat /\ faults <= faults'
  BY FaultsStep, Bounds
<1>1. CASE Site \/ Poll \/ TenSeconds
  <2>1. UNCHANGED <<annRow, annChat, faults, step>>
    BY <1>1 DEF Site, CountDown, StartMatch, PlayRound, EndMatch, TableCatchesUp, Poll, TenSeconds, annVars
  <2>. QED
    BY <2>1, StartedUntouched
<1>2. CASE TakeJob
  <2>1. UNCHANGED <<annRow, annChat, faults>> /\ step = "idle"
    BY <1>2 DEF TakeJob, annVars
  <2>. QED
    BY <2>1, StartedUntouched
<1>3. CASE DeleteMessage \/ CrashAndRestart \/ Ann!AnnFails
  <2>1. faults' = faults + 1
    BY <1>3 DEF DeleteMessage, CrashAndRestart, Ann!AnnFails
  <2>. QED
    BY <1>0, <2>1 DEF StartedInv
<1>4. CASE FeedStep
  <2>1. UNCHANGED <<annRow, annChat>> /\ step # "annClose"
    BY <1>4, FeedFrame DEF annVars
  <2>. QED
    BY <1>0, <1>00, <2>1 DEF Inv, StartedInv
<1>5. CASE Ann!AnnSkip
  <2>1. UNCHANGED <<annRow, annChat, faults>> /\ step = "pre"
    BY <1>5 DEF Ann!AnnSkip, Ann!annVars
  <2>. QED
    BY <2>1, StartedUntouched
<1>6. CASE Ann!AnnInsert
  <2>1. UNCHANGED <<annChat, faults>> /\ annRow = None /\ step = "pre"
    BY <1>6 DEF Ann!AnnInsert
  <2>. QED
    BY <1>0, <2>1 DEF StartedInv
<1>7. CASE Ann!AnnSave
  <2>1. UNCHANGED <<annChat, faults>> /\ step = "annSave"
    BY <1>7 DEF Ann!AnnSave
  <2>2. ~annRow.done
    BY <2>1 DEF Inv, KindInv
  <2>. QED
    BY <1>0, <2>1, <2>2 DEF StartedInv
<1>8. CASE Ann!AnnSend \/ Ann!AnnEdit
  <2>1. /\ step # "annClose" /\ ~annRow.done /\ response \in Responses
        /\ \A i \in DOMAIN annChat' :
             \/ i \in DOMAIN annChat /\ annChat'[i] = annChat[i]
             \/ annChat'[i].left = response.left
    <3>1. CASE Ann!AnnSend
      <4>1. /\ step = "annSend" /\ response \in Responses
            /\ \A i \in DOMAIN annChat' :
                 \/ i \in DOMAIN annChat /\ annChat'[i] = annChat[i]
                 \/ annChat'[i] = Ann!Caption(portraits, response.left)
        BY <3>1, AnnSent
      <4>2. ~annRow.done
        BY <4>1 DEF Inv, KindInv
      <4>. QED
        BY <4>1, <4>2 DEF Ann!Caption
    <3>2. CASE Ann!AnnEdit
      <4>1. /\ step = "pre" /\ response \in Responses /\ ~annRow.done
            /\ \A i \in DOMAIN annChat' :
                 \/ i \in DOMAIN annChat /\ annChat'[i] = annChat[i]
                 \/ annChat'[i] = Ann!Caption(annRow.photo, response.left)
                 \/ annChat'[i] = Ann!Caption(FALSE, response.left)
        BY <3>2, AnnEdited
      <4>. QED
        BY <4>1 DEF Ann!Caption
    <3>. QED
      BY <1>8, <3>1, <3>2
  <2>2. response.left # None
    BY <2>1, ResponseShape, Bounds
  <2>3. faults' = 0 => \A i \in DOMAIN annChat' : annChat'[i] = Deleted \/ annChat'[i].left # None
    <3>1. faults' = 0 => faults = 0
      BY <1>0, <1>00
    <3>. QED
      BY <1>0, <2>1, <2>2, <3>1
  <2>. QED
    BY <2>3 DEF StartedInv
<1>9. CASE Ann!AnnLastEdit
  <2>1. step' = "annClose" /\ annRow \in Ann!Rows /\ UNCHANGED annRow
    BY <1>9, AnnLastEdited
  <2>. QED
    BY <2>1, Bounds DEF StartedInv
<1>10. CASE Ann!AnnClose
  <2>1. annRow' = [annRow EXCEPT !.last = None, !.done = TRUE] /\ step = "annClose"
    BY <1>10 DEF Ann!AnnClose
  <2>2. annRow \in Ann!Rows
    BY <2>1, AnnShape DEF Inv, KindInv
  <2>3. annRow' \in Ann!Rows /\ annRow'.done
    BY <2>1, <2>2 DEF Ann!Rows
  <2>. QED
    BY <2>3, Bounds DEF StartedInv
<1>. QED
  BY <1>1, <1>2, <1>3, <1>4, <1>5, <1>6, <1>7, <1>8, <1>9, <1>10 DEF Next, AnnounceStep, Ann!Next

-----------------------------------------------------------------------------
(* Every step pays for its messages.                                         *)

LEMMA DebtShape ==
  /\ \A p \in BOOLEAN : Debt(p) \in {0, 1}
  /\ \A p, q \in BOOLEAN : (p => q) => Debt(p) <= Debt(q)
  /\ Debt(TRUE) = 1 /\ Debt(FALSE) = 0
BY DEF Debt

LEMMA OwesShape == FeedOwes \in BOOLEAN /\ AnnOwes \in BOOLEAN /\ FeedOwes' \in BOOLEAN /\ AnnOwes' \in BOOLEAN
BY DEF FeedOwes, AnnOwes, FeedGone, AnnGone

\* What is sent and still owed never grows faster than the faults.
Pays ==
  Len(feedChat') + Len(annChat') + Debt(FeedOwes') + Debt(AnnOwes') + faults
    <= Len(feedChat) + Len(annChat) + Debt(FeedOwes) + Debt(AnnOwes) + faults'

LEMMA CountShape ==
  ASSUME Inv
  PROVE  /\ Len(feedChat) \in Nat /\ Len(annChat) \in Nat /\ faults \in Nat
         /\ Debt(FeedOwes) \in {0, 1} /\ Debt(AnnOwes) \in {0, 1}
         /\ Debt(FeedOwes') \in {0, 1} /\ Debt(AnnOwes') \in {0, 1}
BY OwesShape, DebtShape DEF Inv, TypeOK, Feed!TypeOK, Ann!TypeOK

LEMMA QuietPays ==
  ASSUME Inv, Len(feedChat') = Len(feedChat), Len(annChat') = Len(annChat), faults' \in Nat,
         \/ faults' >= faults /\ (FeedOwes' => FeedOwes) /\ (AnnOwes' => AnnOwes)
         \/ faults' > faults /\ ((FeedOwes' => FeedOwes) \/ (AnnOwes' => AnnOwes))
  PROVE  Pays
<1>1. /\ (FeedOwes' => FeedOwes) => Debt(FeedOwes') <= Debt(FeedOwes)
      /\ (AnnOwes' => AnnOwes) => Debt(AnnOwes') <= Debt(AnnOwes)
  BY OwesShape, DebtShape
<1>2. CASE faults' >= faults /\ Debt(FeedOwes') <= Debt(FeedOwes) /\ Debt(AnnOwes') <= Debt(AnnOwes)
  BY <1>2, CountShape DEF Pays
<1>3. CASE faults' > faults /\ (Debt(FeedOwes') <= Debt(FeedOwes) \/ Debt(AnnOwes') <= Debt(AnnOwes))
  BY <1>3, CountShape DEF Pays
<1>. QED
  BY <1>1, <1>2, <1>3

LEMMA FeedSendPays ==
  ASSUME Inv, Feed!FeedSend, UNCHANGED annVars
  PROVE  Pays
<1>. DEFINE text == Feed!Text(fetched, response.over)
<1>1. /\ step = "feedSend" /\ feedRow \in Feed!Rows /\ feedRow.id \in DOMAIN feedChat \cup {None}
      /\ UNCHANGED <<response, feedRow>>
      /\ Len(feedChat') \in {Len(feedChat), Len(feedChat) + 1}
      /\ feedChat' \in Seq(Feed!Texts \cup {Deleted})
      /\ \A i \in DOMAIN feedChat' \ DOMAIN feedChat : feedChat'[i] = text
      /\ faults' \in Nat
      /\ \/ /\ step' = "feedSave" /\ faults' = faults /\ Len(feedChat') = Len(feedChat)
            /\ feedId' \in DOMAIN feedChat /\ feedChat'[feedId'] = text
         \/ /\ step' = "feedSave" /\ feedId' = Len(feedChat) + 1 /\ Len(feedChat') = Len(feedChat) + 1
            /\ faults' > faults \/ (faults' = faults /\ FeedGone(feedRow.id))
         \/ /\ step' = "pre"
            /\ \/ faults' = faults + 1 /\ \A i \in DOMAIN feedChat : feedChat'[i] = feedChat[i]
               \/ faults' = faults + 2
  BY FeedSent
<1>2. text # Deleted
  <2>1. fetched \in 0..MaxRounds /\ response.over \in BOOLEAN
    BY <1>1, FeedShape
  <2>. QED
    BY <2>1, TextType, Bounds
<1>. HIDE DEF text
<1>3. AnnOwes' = AnnOwes /\ Len(annChat') = Len(annChat)
  BY <1>1 DEF AnnOwes, AnnGone, annVars
<1>4. FeedOwes = FeedGone(feedRow.id)
  BY <1>1, Bounds DEF FeedOwes, FeedGone
<1>5. CASE /\ step' = "feedSave" /\ faults' = faults /\ Len(feedChat') = Len(feedChat)
           /\ feedId' \in DOMAIN feedChat /\ feedChat'[feedId'] = text
  <2>1. feedId' # None
    BY <1>5, FeedShape, Bounds
  <2>2. ~FeedOwes'
    BY <1>2, <1>5, <2>1 DEF FeedOwes, FeedGone
  <2>. QED
    BY <1>1, <1>3, <1>5, <2>2, QuietPays, CountShape
<1>6. CASE /\ step' = "feedSave" /\ feedId' = Len(feedChat) + 1 /\ Len(feedChat') = Len(feedChat) + 1
           /\ faults' > faults \/ (faults' = faults /\ FeedGone(feedRow.id))
  <2>1. feedId' \in DOMAIN feedChat' \ DOMAIN feedChat /\ feedId' # None
    BY <1>1, <1>6, FeedShape, Bounds
  <2>2. feedChat'[feedId'] = text
    BY <1>1, <2>1
  <2>3. ~FeedOwes'
    BY <1>2, <1>6, <2>1, <2>2 DEF FeedOwes, FeedGone
  <2>4. Debt(FeedOwes') = 0 /\ Debt(AnnOwes') = Debt(AnnOwes)
    BY <1>3, <2>3, OwesShape, DebtShape
  <2>5. faults' > faults \/ (faults' = faults /\ Debt(FeedOwes) = 1)
    BY <1>4, <1>6, DebtShape
  <2>. QED
    BY <1>1, <1>3, <1>6, <2>4, <2>5, CountShape DEF Pays
<1>7. CASE /\ step' = "pre" /\ faults' = faults + 1
           /\ \A i \in DOMAIN feedChat : feedChat'[i] = feedChat[i]
  <2>1. FeedGone(feedRow.id)' = FeedGone(feedRow.id)
    BY <1>1, <1>7 DEF FeedGone
  <2>2. FeedOwes' = FeedOwes
    BY <1>1, <1>4, <1>7, <2>1, Bounds DEF FeedOwes
  <2>3. Debt(FeedOwes') = Debt(FeedOwes) /\ Debt(AnnOwes') = Debt(AnnOwes)
    BY <1>3, <2>2
  <2>. QED
    BY <1>1, <1>3, <1>7, <2>3, CountShape DEF Pays
<1>8. CASE faults' = faults + 2
  <2>1. Debt(AnnOwes') = Debt(AnnOwes)
    BY <1>3
  <2>. QED
    BY <1>1, <1>3, <1>8, <2>1, CountShape DEF Pays
<1>. QED
  BY <1>1, <1>5, <1>6, <1>7, <1>8

LEMMA FeedStepPays ==
  ASSUME Inv, FeedStep
  PROVE  Pays
<1>0. UNCHANGED annVars /\ faults \in Nat /\ UNCHANGED response
  BY FeedFrame DEF Inv, TypeOK
<1>1. CASE Feed!FeedSend
  BY <1>0, <1>1, FeedSendPays
<1>2. CASE Feed!FeedSkip \/ Feed!FeedFails \/ Feed!FeedTooEarly \/ Feed!FeedFetch
  <2>1. /\ UNCHANGED <<feedRow, feedChat>> /\ faults' \in Nat /\ faults' >= faults
        /\ step \in {"feed"} /\ step' \in {"pre", "feedRow"}
    BY <1>0, <1>2 DEF Feed!FeedSkip, Feed!FeedFails, Feed!FeedTooEarly, Feed!FeedFetch, Feed!feedVars
  <2>2. FeedOwes' = FeedOwes /\ AnnOwes' = AnnOwes
    BY <1>0, <2>1 DEF FeedOwes, AnnOwes, FeedGone, AnnGone, annVars
  <2>. QED
    BY <1>0, <2>1, <2>2, QuietPays DEF annVars
<1>3. CASE Feed!FeedInsert
  <2>1. /\ UNCHANGED <<faults, feedChat>> /\ step = "feedRow" /\ step' = "feedSend"
        /\ feedRow = None \/ feedRow' = feedRow
    BY <1>3 DEF Feed!FeedInsert
  <2>2. (FeedOwes' => FeedOwes) /\ AnnOwes' = AnnOwes
    BY <1>0, <2>1 DEF FeedOwes, AnnOwes, FeedGone, AnnGone, annVars
  <2>. QED
    BY <1>0, <2>1, <2>2, QuietPays DEF annVars
<1>4. CASE Feed!FeedSave
  <2>1. /\ UNCHANGED <<faults, feedChat>> /\ step = "feedSave" /\ step' = "pre"
        /\ feedRow' = [id |-> feedId, notified |-> fetched, finished |-> response.over]
    BY <1>4 DEF Feed!FeedSave
  <2>2. feedRow' \in Feed!Rows /\ feedRow'.id = feedId
    <3>1. feedId \in Nat \cup {None} /\ fetched \in 0..MaxRounds /\ response.over \in BOOLEAN
      BY <2>1, FeedShape
    <3>. QED
      BY <2>1, <3>1 DEF Feed!Rows
  <2>3. feedRow' # None
    BY <2>2, Bounds
  <2>4. FeedOwes' = FeedOwes /\ AnnOwes' = AnnOwes
    BY <1>0, <2>1, <2>2, <2>3 DEF FeedOwes, AnnOwes, FeedGone, AnnGone, annVars
  <2>. QED
    BY <1>0, <2>1, <2>4, QuietPays DEF annVars
<1>. QED
  BY <1>1, <1>2, <1>3, <1>4 DEF FeedStep, Feed!Next

LEMMA AnnSendPays ==
  ASSUME Inv, Ann!AnnSend, UNCHANGED feedVars
  PROVE  Pays
<1>. DEFINE text == Ann!Caption(portraits, response.left)
<1>1. /\ step = "annSend" /\ annRow \in Ann!Rows /\ annRow.id = None /\ response \in Responses
      /\ Len(annChat') \in {Len(annChat), Len(annChat) + 1}
      /\ annChat' \in Seq(Ann!Captions \cup {Deleted})
      /\ \A i \in DOMAIN annChat' \ DOMAIN annChat : annChat'[i] = text
      /\ \/ /\ step' = "annSave" /\ response' = response /\ faults' = faults
            /\ annId' = Len(annChat) + 1 /\ Len(annChat') = Len(annChat) + 1
         \/ step' = "idle" /\ faults' = faults + 1
  BY AnnSent
<1>2. text # Deleted /\ text.left = response.left
  <2>1. response.left \in 0..MaxLeft /\ portraits \in BOOLEAN
    BY <1>1, ResponseShape DEF Inv, TypeOK, Ann!TypeOK
  <2>. QED
    BY <2>1, CaptionType, Bounds
<1>. HIDE DEF text
<1>3. FeedOwes' = FeedOwes /\ Len(feedChat') = Len(feedChat)
  BY <1>1 DEF FeedOwes, FeedGone, feedVars
<1>4. AnnOwes
  <2>1. annRow # None /\ ~annRow.done
    BY <1>1 DEF Inv, KindInv
  <2>. QED
    BY <1>1, <2>1 DEF AnnOwes, AnnGone
<1>5. Debt(AnnOwes) = 1 /\ Debt(FeedOwes') = Debt(FeedOwes)
  <2>1. AnnOwes = TRUE
    BY <1>4, OwesShape
  <2>. QED
    BY <1>3, <2>1, DebtShape
<1>6. CASE /\ step' = "annSave" /\ response' = response /\ faults' = faults
           /\ annId' = Len(annChat) + 1 /\ Len(annChat') = Len(annChat) + 1
  <2>1. annId' \in DOMAIN annChat' \ DOMAIN annChat /\ annId' # None
    BY <1>1, <1>6, AnnShape, Bounds
  <2>2. annChat'[annId'] = text
    BY <1>1, <2>1
  <2>3. ~AnnOwes'
    BY <1>2, <1>6, <2>1, <2>2 DEF AnnOwes, AnnGone
  <2>4. Debt(AnnOwes') = 0
    BY <2>3, OwesShape, DebtShape
  <2>. QED
    BY <1>3, <1>5, <1>6, <2>4, CountShape DEF Pays
<1>7. CASE faults' = faults + 1
  BY <1>1, <1>3, <1>5, <1>7, CountShape DEF Pays
<1>. QED
  BY <1>1, <1>6, <1>7

LEMMA AnnEditPays ==
  ASSUME Inv, Ann!AnnEdit, UNCHANGED feedVars
  PROVE  Pays
<1>. DEFINE text == Ann!Caption(annRow.photo, response.left)
            other == Ann!Caption(FALSE, response.left)
<1>1. /\ step = "pre" /\ annRow \in Ann!Rows /\ annRow.id \in DOMAIN annChat \cup {None}
      /\ response \in Responses /\ ~annRow.done /\ annRow.last # response.left
      /\ UNCHANGED annRow
      /\ annChat' \in Seq(Ann!Captions \cup {Deleted})
      /\ Len(annChat') \in {Len(annChat), Len(annChat) + 1}
      /\ \A i \in DOMAIN annChat' \ DOMAIN annChat : annChat'[i] = other
      /\ faults' \in Nat
      /\ \/ /\ step' = "annSave" /\ response' = response /\ faults' = faults
            /\ annId' \in DOMAIN annChat /\ Len(annChat') = Len(annChat) /\ annChat'[annId'] = text
         \/ /\ step' = "annSave" /\ response' = response
            /\ annId' = Len(annChat) + 1 /\ Len(annChat') = Len(annChat) + 1 /\ annPhoto' = FALSE
            /\ faults' > faults \/ (faults' = faults /\ Refused(annChat, annRow.id, text))
         \/ /\ step' = "idle"
            /\ \/ faults' = faults + 1 /\ \A i \in DOMAIN annChat : annChat'[i] = annChat[i]
               \/ faults' = faults + 2
  BY AnnEdited
<1>2. /\ text # Deleted /\ text.left = response.left /\ text.photo = annRow.photo
      /\ other # Deleted /\ annRow # None
  <2>1. response.left \in 0..MaxLeft /\ annRow.photo \in BOOLEAN
    BY <1>1, ResponseShape DEF Ann!Rows
  <2>2. /\ text \in Ann!Captions /\ text.left = response.left /\ text.photo = annRow.photo
        /\ other \in Ann!Captions
    BY <2>1, CaptionType
  <2>. QED
    BY <1>1, <2>2, Bounds
<1>. HIDE DEF text, other
<1>3. /\ FeedOwes' = FeedOwes /\ Len(feedChat') = Len(feedChat)
      /\ Debt(FeedOwes') = Debt(FeedOwes)
  BY <1>1 DEF FeedOwes, FeedGone, feedVars
<1>4. AnnOwes = AnnGone(annRow.id, annRow.photo, annRow.last)
  BY <1>1, <1>2 DEF AnnOwes, AnnGone
<1>5. CASE /\ step' = "annSave" /\ response' = response /\ faults' = faults
           /\ annId' \in DOMAIN annChat /\ Len(annChat') = Len(annChat) /\ annChat'[annId'] = text
  <2>1. annId' # None
    BY <1>5, AnnShape, Bounds
  <2>2. ~AnnOwes'
    BY <1>2, <1>5, <2>1 DEF AnnOwes, AnnGone
  <2>3. Debt(AnnOwes') = 0
    BY <2>2, OwesShape, DebtShape
  <2>. QED
    BY <1>3, <1>5, <2>3, CountShape DEF Pays
<1>6. CASE /\ step' = "annSave" /\ response' = response
           /\ annId' = Len(annChat) + 1 /\ Len(annChat') = Len(annChat) + 1 /\ annPhoto' = FALSE
           /\ faults' > faults \/ (faults' = faults /\ Refused(annChat, annRow.id, text))
  <2>1. annId' \in DOMAIN annChat' \ DOMAIN annChat /\ annId' # None
    BY <1>1, <1>6, AnnShape, Bounds
  <2>2. annChat'[annId'] = other
    BY <1>1, <2>1
  <2>3. ~AnnOwes'
    BY <1>2, <1>6, <2>1, <2>2 DEF AnnOwes, AnnGone
  <2>4. Debt(AnnOwes') = 0
    BY <2>3, OwesShape, DebtShape
  <2>5. Refused(annChat, annRow.id, text) => AnnOwes
    <3>1. annRow.id # None /\ annChat[annRow.id] # Deleted => annChat[annRow.id].photo = text.photo
      BY <1>2 DEF Inv, KindInv
    <3>2. annChat[annRow.id] = text => annChat[annRow.id].left # annRow.last
      BY <1>1, <1>2
    <3>. QED
      BY <1>2, <1>4, <3>1, <3>2 DEF Refused, AnnGone
  <2>6. faults' > faults \/ (faults' = faults /\ Debt(AnnOwes) = 1)
    BY <1>6, <2>5, OwesShape, DebtShape
  <2>. QED
    BY <1>1, <1>3, <1>6, <2>4, <2>6, CountShape DEF Pays
<1>7. CASE /\ step' = "idle" /\ faults' = faults + 1
           /\ \A i \in DOMAIN annChat : annChat'[i] = annChat[i]
  <2>1. AnnGone(annRow.id, annRow.photo, annRow.last)' = AnnGone(annRow.id, annRow.photo, annRow.last)
    BY <1>1, <1>7 DEF AnnGone
  <2>2. AnnOwes' = AnnOwes
    BY <1>1, <1>2, <1>4, <1>7, <2>1 DEF AnnOwes
  <2>3. Debt(AnnOwes') = Debt(AnnOwes)
    BY <2>2
  <2>. QED
    BY <1>1, <1>3, <1>7, <2>3, CountShape DEF Pays
<1>8. CASE faults' = faults + 2
  BY <1>1, <1>3, <1>8, CountShape DEF Pays
<1>. QED
  BY <1>1, <1>5, <1>6, <1>7, <1>8

LEMMA AnnounceStepPays ==
  ASSUME Inv, AnnounceStep
  PROVE  Pays
<1>0. UNCHANGED feedVars /\ faults \in Nat
  BY AnnFrame DEF Inv, TypeOK
<1>00. step \in {"pre", "annSend", "annSave", "annClose"} /\ step' # "feedSave"
  BY AnnFrame
<1>000. FeedOwes' = FeedOwes
  BY <1>0, <1>00 DEF FeedOwes, FeedGone, feedVars
<1>1. CASE Ann!AnnSend
  BY <1>0, <1>1, AnnSendPays
<1>2. CASE Ann!AnnEdit
  BY <1>0, <1>2, AnnEditPays
<1>3. CASE Ann!AnnSkip \/ Ann!AnnInsert
  <2>1. /\ UNCHANGED <<annId, annPhoto, annChat, faults>> /\ step = "pre" /\ step' \in {"idle", "annSend"}
        /\ annRow' = annRow \/ annRow = None
    BY <1>3 DEF Ann!AnnSkip, Ann!AnnInsert, Ann!annVars
  <2>2. AnnOwes' => AnnOwes
    BY <2>1 DEF AnnOwes, AnnGone
  <2>. QED
    BY <1>0, <1>000, <2>1, <2>2, QuietPays DEF feedVars
<1>4. CASE Ann!AnnSave
  <2>1. /\ UNCHANGED <<annChat, faults>> /\ step = "annSave" /\ step' = "idle"
        /\ annRow' = [id |-> annId, photo |-> annPhoto, last |-> response.left, done |-> FALSE]
    BY <1>4 DEF Ann!AnnSave
  <2>2. /\ annRow' \in Ann!Rows /\ annRow'.id = annId /\ annRow'.photo = annPhoto
        /\ annRow'.last = response.left
    <3>1. annId \in Nat \cup {None} /\ annPhoto \in BOOLEAN /\ response.left \in 0..MaxLeft
      BY <2>1, AnnShape, ResponseShape
    <3>. QED
      BY <2>1, <3>1 DEF Ann!Rows
  <2>3. AnnOwes' => AnnOwes
    BY <2>1, <2>2, Bounds DEF AnnOwes, AnnGone
  <2>. QED
    BY <1>0, <1>000, <2>1, <2>3, QuietPays DEF feedVars
<1>5. CASE Ann!AnnLastEdit
  <2>1. step' = "annClose" /\ Len(annChat') = Len(annChat) /\ faults' \in {faults, faults + 1}
    BY <1>5, AnnLastEdited
  <2>2. ~AnnOwes'
    BY <2>1 DEF AnnOwes
  <2>3. faults' \in Nat /\ faults' >= faults
    BY <1>0, <2>1
  <2>. QED
    BY <1>0, <1>000, <2>1, <2>2, <2>3, QuietPays DEF feedVars
<1>6. CASE Ann!AnnClose
  <2>1. /\ UNCHANGED <<annChat, faults>> /\ step = "annClose" /\ step' = "idle"
        /\ annRow' = [annRow EXCEPT !.last = None, !.done = TRUE]
    BY <1>6 DEF Ann!AnnClose
  <2>2. annRow \in Ann!Rows
    BY <2>1, AnnShape DEF Inv, KindInv
  <2>3. annRow' \in Ann!Rows /\ annRow'.done
    BY <2>1, <2>2 DEF Ann!Rows
  <2>4. ~AnnOwes'
    BY <2>1, <2>3, Bounds DEF AnnOwes
  <2>. QED
    BY <1>0, <1>000, <2>1, <2>4, QuietPays DEF feedVars
<1>7. CASE Ann!AnnFails
  <2>1. UNCHANGED <<annRow, annChat>> /\ step' = "idle" /\ faults' = faults + 1
    BY <1>7 DEF Ann!AnnFails
  <2>2. faults' \in Nat /\ faults' > faults
    BY <1>0, <2>1
  <2>. QED
    BY <1>0, <1>000, <2>1, <2>2, QuietPays DEF feedVars
<1>. QED
  BY <1>1, <1>2, <1>3, <1>4, <1>5, <1>6, <1>7 DEF AnnounceStep, Ann!Next

LEMMA OtherStepPays ==
  ASSUME Inv, Site \/ DeleteMessage \/ Poll \/ TakeJob \/ TenSeconds \/ CrashAndRestart
  PROVE  Pays
<1>0. faults \in Nat
  BY DEF Inv, TypeOK
<1>1. CASE Site \/ Poll \/ TenSeconds
  <2>1. UNCHANGED <<step, response, faults, feedVars, annId, annPhoto, annRow, annChat>>
    BY <1>1 DEF Site, CountDown, StartMatch, PlayRound, EndMatch, TableCatchesUp, Poll, TenSeconds, annVars
  <2>2. FeedOwes' = FeedOwes /\ AnnOwes' = AnnOwes
    BY <2>1 DEF FeedOwes, FeedGone, AnnOwes, AnnGone, feedVars
  <2>. QED
    BY <1>0, <2>1, <2>2, QuietPays DEF feedVars
<1>2. CASE TakeJob
  <2>1. UNCHANGED <<faults, feedVars, annVars>> /\ step = "idle" /\ step' = "feed"
    BY <1>2 DEF TakeJob
  <2>2. FeedOwes' = FeedOwes /\ AnnOwes' = AnnOwes
    BY <2>1 DEF FeedOwes, FeedGone, AnnOwes, AnnGone, feedVars, annVars
  <2>. QED
    BY <1>0, <2>1, <2>2, QuietPays DEF feedVars, annVars
<1>3. CASE CrashAndRestart
  <2>1. UNCHANGED <<feedRow, feedChat, annRow, annChat>> /\ step' = "idle" /\ faults' = faults + 1
    BY <1>3 DEF CrashAndRestart
  <2>2. step # "feedSave" => FeedOwes' = FeedOwes
    BY <2>1 DEF FeedOwes, FeedGone
  <2>3. step = "feedSave" => AnnOwes' = AnnOwes
    BY <2>1 DEF AnnOwes, AnnGone
  <2>4. faults' \in Nat /\ faults' > faults
    BY <1>0, <2>1
  <2>. QED
    BY <2>1, <2>2, <2>3, <2>4, QuietPays
<1>4. CASE DeleteMessage
  <2>1. /\ UNCHANGED <<step, response, feedId, feedRow, annId, annPhoto, annRow>> /\ faults' = faults + 1
    BY <1>4 DEF DeleteMessage
  <2>2. Len(feedChat') = Len(feedChat) /\ Len(annChat') = Len(annChat)
    BY <1>4, FeedShape, AnnShape, ChatOfDeletion DEF DeleteMessage
  <2>3. annChat' = annChat \/ feedChat' = feedChat
    BY <1>4 DEF DeleteMessage
  <2>4. (FeedOwes' = FeedOwes) \/ (AnnOwes' = AnnOwes)
    BY <2>1, <2>3 DEF FeedOwes, FeedGone, AnnOwes, AnnGone
  <2>5. faults' \in Nat /\ faults' > faults
    BY <1>0, <2>1
  <2>. QED
    BY <2>2, <2>4, <2>5, QuietPays
<1>. QED
  BY <1>1, <1>2, <1>3, <1>4

LEMMA CountStep ==
  ASSUME Inv, Next
  PROVE  CountInv'
<1>1. Pays
  BY FeedStepPays, AnnounceStepPays, OtherStepPays DEF Next
<1>2. faults' \in Nat /\ Len(feedChat') \in Nat /\ Len(annChat') \in Nat
  BY FaultsStep, FeedTypesStep, AnnTypesStep DEF Feed!TypeOK, Ann!TypeOK
<1>3. Len(feedChat) + Len(annChat) + Debt(FeedOwes) + Debt(AnnOwes) <= 2 + faults
  BY DEF Inv, CountInv
<1>4. Len(feedChat') + Len(annChat') + Debt(FeedOwes') + Debt(AnnOwes') <= 2 + faults'
  <2>1. PICK l \in Nat, m \in Nat, d \in Nat, e \in Nat, f \in Nat :
          l = Len(feedChat) /\ m = Len(annChat) /\ d = Debt(FeedOwes) /\ e = Debt(AnnOwes) /\ f = faults
    BY CountShape
  <2>2. PICK l2 \in Nat, m2 \in Nat, d2 \in Nat, e2 \in Nat, f2 \in Nat :
          /\ l2 = Len(feedChat') /\ m2 = Len(annChat') /\ d2 = Debt(FeedOwes') /\ e2 = Debt(AnnOwes')
          /\ f2 = faults'
    BY <1>2, CountShape
  <2>3. l + m + d + e <= 2 + f
    BY <1>3, <2>1
  <2>4. l2 + m2 + d2 + e2 + f <= l + m + d + e + f2
    BY <1>1, <2>1, <2>2 DEF Pays
  <2>5. l2 + m2 + d2 + e2 <= 2 + f2
    BY <2>3, <2>4
  <2>. QED
    BY <2>2, <2>5
<1>. QED
  BY <1>4 DEF CountInv

-----------------------------------------------------------------------------
(* The theorems.                                                             *)

LEMMA Inductive == Spec => []Inv
<1>1. Init => Inv
  <2>. SUFFICES ASSUME Init PROVE Inv
    OBVIOUS
  <2>. USE DEF Init, Feed!Init, Ann!Init
  <2>1. TypeOK
    <3>1. match \in Responses /\ table \in 0..match.rounds /\ queue \in Seq(Responses) /\ Len(queue) = 0
      BY Bounds DEF Responses
    <3>2. 0 \in 0..MaxRounds /\ 0 \in 0..MaxFaults /\ 0 <= MaxQueue
      BY Bounds
    <3>3. feedChat \in Seq(Feed!Texts \cup {Deleted}) /\ annChat \in Seq(Ann!Captions \cup {Deleted})
      OBVIOUS
    <3>. QED
      BY <3>1, <3>2, <3>3 DEF TypeOK, Steps, Feed!TypeOK, Ann!TypeOK
  <2>2. EndInv /\ OrderInv
    BY DEF EndInv, OrderInv
  <2>3. RowInv /\ FetchInv /\ OverInv
    BY DEF RowInv, FetchInv, OverInv
  <2>4. CaptionInv /\ StartedInv /\ KindInv
    BY DEF CaptionInv, StartedInv, KindInv
  <2>5. CountInv
    <3>1. Len(feedChat) = 0 /\ Len(annChat) = 0 /\ faults = 0
      OBVIOUS
    <3>2. FeedOwes \in BOOLEAN /\ AnnOwes \in BOOLEAN
      BY DEF FeedOwes, AnnOwes, FeedGone, AnnGone
    <3>. QED
      BY <3>1, <3>2, DebtShape DEF CountInv
  <2>. QED
    BY <2>1, <2>2, <2>3, <2>4, <2>5 DEF Inv
<1>2. Inv /\ [Next]_vars => Inv'
  <2>1. ASSUME Inv, Next PROVE Inv'
    BY <2>1, TypesStep, ResponsesStep, FeedKnowledgeStep, OverStep, CaptionStep, StartedStep, KindStep,
      CountStep DEF Inv
  <2>2. ASSUME Inv, UNCHANGED vars PROVE Inv'
    <3>. USE <2>2 DEF vars, siteVars, feedVars, annVars
    <3>1. TypeOK'
      BY DEF Inv, TypeOK, Feed!TypeOK, Ann!TypeOK
    <3>2. EndInv' /\ OrderInv' /\ RowInv' /\ FetchInv'
      BY DEF Inv, EndInv, OrderInv, RowInv, FetchInv, Shows, Before
    <3>5. OverInv' /\ StartedInv'
      BY DEF Inv, OverInv, StartedInv
    <3>3. CaptionInv' /\ KindInv'
      BY DEF Inv, CaptionInv, KindInv, Told
    <3>4. CountInv'
      BY DEF Inv, CountInv, FeedOwes, AnnOwes, FeedGone, AnnGone
    <3>. QED
      BY <3>1, <3>2, <3>3, <3>4, <3>5 DEF Inv
  <2>. QED
    BY <2>1, <2>2
<1>. QED
  BY <1>1, <1>2, PTL DEF Spec

\* The variables of the writer, of the two rows and of the two chats keep their types.
THEOREM AnnouncementTypes == Spec => []TypeOK
BY Inductive, PTL DEF Inv

\* Whatever is lost, deleted or cut by a crash, the message that match_feed names shows at least
\* the rounds it counts and the end it says, and these rounds are in round_results.
THEOREM RowsAreHonest == Spec => []FeedRowIsHonest
<1>1. Inv => FeedRowIsHonest
  BY FeedShape DEF Inv, RowInv, Shows, FeedRowIsHonest
<1>. QED
  BY <1>1, Inductive, PTL

\* Two messages per match, and one more for each failure, crash or deletion at most, however
\* long the countdown and the match.
THEOREM MessagesAreCounted == Spec => []ExtraMessagesAreExplained
<1>1. Inv => ExtraMessagesAreExplained
  <2>. SUFFICES ASSUME Inv PROVE ExtraMessagesAreExplained
    OBVIOUS
  <2>1. Len(feedChat) + Len(annChat) + Debt(FeedOwes) + Debt(AnnOwes) <= 2 + faults
    BY DEF Inv, CountInv
  <2>. QED
    BY <2>1, CountShape DEF ExtraMessagesAreExplained
<1>. QED
  BY <1>1, Inductive, PTL

\* No step of the writer takes back a round or an end that was told.
LEMMA FeedGoesForward ==
  ASSUME Inv, Next, NEW i \in DOMAIN feedChat, feedChat[i] # Deleted, feedChat'[i] # Deleted
  PROVE  feedChat'[i].rounds >= feedChat[i].rounds /\ (feedChat[i].over => feedChat'[i].over)
<1>0. feedChat[i].rounds \in Nat
  BY FeedShape, Bounds
<1>1. CASE feedChat'[i] = feedChat[i]
  BY <1>0, <1>1
<1>2. CASE Feed!FeedSend
  <2>1. step = "feedSend" /\ (feedChat'[i] = feedChat[i] \/ feedChat'[i] = Feed!Text(fetched, response.over))
    BY <1>2, FeedSent
  <2>2. fetched \in 0..MaxRounds /\ feedChat[i].rounds <= fetched /\ response.over \in BOOLEAN
    BY <2>1, FeedShape DEF Inv, FetchInv
  <2>3. /\ Feed!Text(fetched, response.over).rounds = fetched
        /\ Feed!Text(fetched, response.over).over = (IF sport = "tennis" THEN response.over ELSE fetched = MaxRounds)
    BY <2>2, TextType
  <2>4. feedChat[i].over => IF sport = "tennis" THEN response.over ELSE feedChat[i].rounds = MaxRounds
    BY <2>1 DEF Inv, OverInv
  <2>5. ASSUME feedChat[i].over PROVE Feed!Text(fetched, response.over).over
    <3>1. CASE sport = "tennis"
      BY <2>3, <2>4, <2>5, <3>1
    <3>2. CASE sport # "tennis"
      <4>1. feedChat[i].rounds = MaxRounds
        BY <2>4, <2>5, <3>2
      <4>2. fetched = MaxRounds
        BY <2>2, <4>1, Bounds
      <4>. QED
        BY <2>3, <3>2, <4>2
    <3>. QED
      BY <3>1, <3>2
  <2>6. Feed!Text(fetched, response.over).rounds >= feedChat[i].rounds
    BY <1>0, <2>2, <2>3
  <2>. QED
    BY <1>1, <2>1, <2>5, <2>6
<1>3. CASE DeleteMessage
  <2>1. feedChat'[i] = feedChat[i] \/ feedChat'[i] = Deleted
    BY <1>3, FeedShape, ChatOfDeletion DEF DeleteMessage
  <2>. QED
    BY <1>1, <2>1
<1>4. CASE /\ ~Feed!FeedSend /\ ~DeleteMessage
  <2>1. feedChat' = feedChat
    BY <1>4 DEF Next, Site, CountDown, StartMatch, PlayRound, EndMatch, TableCatchesUp, Poll, TakeJob,
      TenSeconds, CrashAndRestart, AnnounceStep, FeedStep, Feed!Next, Feed!FeedSkip, Feed!FeedFails,
      Feed!FeedTooEarly, Feed!FeedFetch, Feed!FeedInsert, Feed!FeedSave, Feed!feedVars, feedVars
  <2>. QED
    BY <1>1, <2>1
<1>. QED
  BY <1>2, <1>3, <1>4

\* Nor makes a countdown go up: the responses are written in the order of the site.  To count
\* down again after the start takes both a fallback that answered too early and a failure.
LEMMA CountdownGoesForward ==
  ASSUME Inv, Next, NEW i \in DOMAIN annChat, annChat[i] # Deleted, annChat'[i] # Deleted,
         annChat'[i] # annChat[i]
  PROVE  \/ annChat'[i].left = None
         \/ IF annChat[i].left = None THEN misled /\ faults > 0 ELSE annChat'[i].left < annChat[i].left
<1>1. Ann!AnnEdit \/ Ann!AnnLastEdit
  <2>1. ~DeleteMessage
    BY AnnShape, ChatOfDeletion DEF DeleteMessage
  <2>2. ~Ann!AnnSend
    BY AnnSent
  <2>. QED
    BY <2>1, <2>2 DEF Next, Site, CountDown, StartMatch, PlayRound, EndMatch, TableCatchesUp, Poll, TakeJob,
      TenSeconds, CrashAndRestart, FeedStep, AnnounceStep, Ann!Next, Ann!AnnSkip, Ann!AnnInsert,
      Ann!AnnSave, Ann!AnnClose, Ann!AnnFails, Ann!annVars, annVars
<1>2. CASE Ann!AnnLastEdit
  <2>1. annChat'[i] = Ann!Caption(annRow.photo, None)
    BY <1>2, AnnLastEdited
  <2>. QED
    BY <2>1 DEF Ann!Caption
<1>3. CASE Ann!AnnEdit
  <2>1. /\ step = "pre" /\ response \in Responses /\ response.counting
        /\ annChat[i].photo = annRow.photo
        /\ annChat'[i] = Ann!Caption(annRow.photo, response.left)
    BY <1>3, AnnEdited
  <2>2. Told(annChat[i], response)
    BY <2>1 DEF Inv, CaptionInv
  <2>3. IF annChat[i].left = None THEN misled ELSE response.left <= annChat[i].left
    BY <2>1, <2>2 DEF Told
  <2>4. annChat[i] \in Ann!Captions
    BY AnnShape
  <2>8. annChat'[i].left = response.left
    BY <2>1 DEF Ann!Caption
  <2>9. CASE annChat[i].left = None
    <3>1. faults \in Nat /\ (faults = 0 => annRow.done)
      BY <2>1, <2>9 DEF Inv, TypeOK, StartedInv
    <3>2. ~annRow.done
      BY <1>3, AnnEdited
    <3>3. faults > 0
      BY <3>1, <3>2
    <3>. QED
      BY <2>3, <2>9, <3>3
  <2>10. CASE annChat[i].left # None
    <3>1. annChat[i] = Ann!Caption(annChat[i].photo, annChat[i].left)
      BY <2>4 DEF Ann!Captions, Ann!Caption
    <3>2. response.left # annChat[i].left
      BY <2>1, <3>1
    <3>3. response.left \in Nat /\ annChat[i].left \in Nat
      BY <2>1, <2>10, <2>4, ResponseShape, AnnShape, Bounds
    <3>4. response.left < annChat[i].left
      BY <2>3, <2>10, <3>2, <3>3
    <3>. QED
      BY <2>8, <2>10, <3>4
  <2>. QED
    BY <2>9, <2>10
<1>. QED
  BY <1>1, <1>2, <1>3

\* The message of the feed loses neither a round nor an end, and a countdown never goes up; a
\* match said to have started counts down again only if the fallback answered before the start
\* and something failed.
THEOREM ChatsGoForward == Spec => MessagesGoForward
<1>1. Inv /\ [Next]_vars =>
        [/\ \A i \in DOMAIN feedChat :
              feedChat[i] # Deleted /\ feedChat'[i] # Deleted =>
                /\ feedChat'[i].rounds >= feedChat[i].rounds
                /\ feedChat[i].over => feedChat'[i].over
         /\ \A i \in DOMAIN annChat :
              annChat[i] # Deleted /\ annChat'[i] # Deleted /\ annChat'[i] # annChat[i] =>
                \/ annChat'[i].left = None
                \/ IF annChat[i].left = None THEN misled /\ faults > 0
                   ELSE annChat'[i].left < annChat[i].left]_vars
  BY FeedGoesForward, CountdownGoesForward
<1>. QED
  BY <1>1, Inductive, PTL DEF Spec, MessagesGoForward

=============================================================================
