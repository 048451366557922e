------------------------------ MODULE PreMatch ------------------------------
(***************************************************************************)
(* PreMatchAnnouncer for one match: src/src/collector/pre_match.py.           *)
(*                                                                         *)
(* A message announces the match, with portraits where there are some, and is  *)
(* edited as the countdown of the site goes down, until the match starts.  The *)
(* countdown comes from the responses; the row of match_announcements survives *)
(* restarts and the date of the last edit does not.                          *)
(***************************************************************************)
EXTENDS Naturals, Sequences

CONSTANTS
  None, Deleted,  \* no identifier; a deleted message
  MaxLeft          \* bound on the countdown

INSTANCE Telegram

VARIABLES
  step,        \* where the writer is with the response
  response,    \* the response being written, or None
  portraits,   \* an image of some fighter is known
  recent,      \* an edit of this process is less than ten seconds old
  annId,       \* answer of Telegram for this response
  annPhoto,    \* the message it names is a photo
  annRow,      \* row of match_announcements, or None
  annChat,     \* messages of the announcement
  faults       \* failures so far

annVars == <<recent, annId, annPhoto, annRow, annChat>>

Captions == [photo : BOOLEAN, left : 0..MaxLeft \cup {None}]
Rows == [id : Nat \cup {None}, photo : BOOLEAN, last : 0..MaxLeft \cup {None}, done : BOOLEAN]

TypeOK ==
  /\ portraits \in BOOLEAN /\ recent \in BOOLEAN /\ annPhoto \in BOOLEAN
  /\ annChat \in Seq(Captions \cup {Deleted})
  /\ annId \in DOMAIN annChat \cup {None}
  /\ annRow \in Rows \cup {None}
  /\ annRow # None => annRow.id \in DOMAIN annChat \cup {None}

Init == recent = FALSE /\ annId = None /\ annPhoto = FALSE /\ annRow = None /\ annChat = <<>>

\* The caption: the time left, or None once the match has started.
Caption(photo, left) == [photo |-> photo, left |-> left]

Closed == annRow # None /\ annRow.done

\* Done, never announced before the start, no new countdown, or edited just now.
AnnSkip ==
  /\ step = "pre"
  /\ \/ Closed
     \/ ~response.counting /\ (annRow # None => annRow.id = None)
     \/ response.counting /\ annRow # None /\ (annRow.last = response.left \/ recent)
  /\ step' = "idle" /\ response' = None
  /\ UNCHANGED <<annVars, faults>>

AnnInsert ==
  /\ step = "pre" /\ annRow = None /\ response.counting
  /\ annRow' = [id |-> None, photo |-> FALSE, last |-> None, done |-> FALSE]
  /\ step' = "annSend"
  /\ UNCHANGED <<response, recent, annId, annPhoto, annChat, faults>>

\* _send_first: an album, a photo, or a text.
AnnSend ==
  /\ step = "annSend"
  /\ \E o \in Send(annChat, Caption(portraits, response.left)) :
       /\ annChat' = o.chat /\ faults' = faults + o.faults
       /\ annId' = o.id /\ annPhoto' = (portraits /\ o.id # None)
       /\ IF o.id = None THEN step' = "idle" /\ response' = None
          ELSE step' = "annSave" /\ UNCHANGED response
  /\ UNCHANGED <<recent, annRow>>

\* The countdown moved: edit the message, or send a text in its place.
AnnEdit ==
  /\ step = "pre" /\ response.counting
  /\ annRow # None /\ ~annRow.done /\ annRow.last # response.left /\ ~recent
  /\ \E o \in EditOrSend(annChat, annRow.id, Caption(annRow.photo, response.left),
                         Caption(FALSE, response.left)) :
       /\ annChat' = o.chat /\ faults' = faults + o.faults
       /\ annId' = o.id /\ annPhoto' = (annRow.photo /\ o.id # None /\ o.id = annRow.id)
       /\ IF o.id = None THEN step' = "idle" /\ response' = None
          ELSE step' = "annSave" /\ UNCHANGED response
  /\ UNCHANGED <<recent, annRow>>

AnnSave ==
  /\ step = "annSave"
  /\ annRow' = [id |-> annId, photo |-> annPhoto, last |-> response.left, done |-> FALSE]
  /\ recent' = TRUE
  /\ step' = "idle" /\ response' = None /\ annId' = None /\ annPhoto' = FALSE
  /\ UNCHANGED <<annChat, faults>>

\* The match has started: a last edit, whose failure is ignored.
AnnLastEdit ==
  /\ step = "pre" /\ ~response.counting
  /\ annRow # None /\ ~annRow.done /\ annRow.id # None
  /\ \E e \in Edit(annChat, annRow.id, Caption(annRow.photo, None)) :
       annChat' = e.chat /\ faults' = faults + e.faults
  /\ step' = "annClose"
  /\ UNCHANGED <<response, recent, annId, annPhoto, annRow>>

AnnClose ==
  /\ step = "annClose"
  /\ annRow' = [annRow EXCEPT !.last = None, !.done = TRUE]
  /\ step' = "idle" /\ response' = None
  /\ UNCHANGED <<recent, annId, annPhoto, annChat, faults>>

\* The database fails: write_once logs it and gives up the announcement for this response;
\* the last edit counts in memory even when its row is not saved.
AnnFails ==
  /\ step \in {"pre", "annSave", "annClose"}
  /\ faults' = faults + 1
  /\ recent' = (recent \/ step = "annSave")
  /\ step' = "idle" /\ response' = None /\ annId' = None /\ annPhoto' = FALSE
  /\ UNCHANGED <<annRow, annChat>>

Next == AnnSkip \/ AnnInsert \/ AnnSend \/ AnnEdit \/ AnnSave \/ AnnLastEdit \/ AnnClose \/ AnnFails

=============================================================================
