------------------------------ MODULE Telegram ------------------------------
(***************************************************************************)
(* What a call of MatchFeedSender may do: src/src/collector/telegram_feed.py. *)
(*                                                                         *)
(* A chat is the sequence of the messages sent to it, the identifier of a     *)
(* message being its position; a message deleted by hand leaves Deleted.  No   *)
(* call raises, but an answer that is lost (a timeout) says nothing of whether *)
(* the message reached the chat.  Each operator gives the set of the possible  *)
(* outcomes; "faults" counts what the network did wrong in each.             *)
(***************************************************************************)
EXTENDS Naturals, Sequences

CONSTANTS
  None,     \* no identifier
  Deleted   \* what is left of a deleted message

\* send, send_photo, send_media_group: the identifier of the new message, or None.
Send(chat, message) ==
  {[chat |-> Append(chat, message), id |-> Len(chat) + 1, faults |-> 0],
   [chat |-> chat, id |-> None, faults |-> 1],
   [chat |-> Append(chat, message), id |-> None, faults |-> 1]}

\* Mutant of Edit: a text already up to date is reported as a failure.
EditStrictly(chat, id, message) ==
  IF id = None THEN {[chat |-> chat, ok |-> FALSE, faults |-> 0]}
  ELSE IF chat[id] = Deleted \/ chat[id].photo # message.photo \/ chat[id] = message
    THEN {[chat |-> chat, ok |-> FALSE, faults |-> 0]}
  ELSE {[chat |-> [chat EXCEPT ![id] = message], ok |-> TRUE, faults |-> 0],
        [chat |-> chat, ok |-> FALSE, faults |-> 1],
        [chat |-> [chat EXCEPT ![id] = message], ok |-> FALSE, faults |-> 1]}

\* edit for a text, edit_caption for a photo: each refuses the other kind of message.
\* "message is not modified" is a success for a text and a failure for a caption.
Edit(chat, id, message) ==
  IF id = None THEN {[chat |-> chat, ok |-> FALSE, faults |-> 0]}
  ELSE IF chat[id] = Deleted \/ chat[id].photo # message.photo \/ (chat[id] = message /\ message.photo)
    THEN {[chat |-> chat, ok |-> FALSE, faults |-> 0]}
  ELSE {[chat |-> [chat EXCEPT ![id] = message], ok |-> TRUE, faults |-> 0],
        [chat |-> chat, ok |-> FALSE, faults |-> 1],
        [chat |-> [chat EXCEPT ![id] = message], ok |-> FALSE, faults |-> 1]}

\* send_or_edit: a message that cannot be edited is sent again, as "other".
EditOrSend(chat, id, message, other) ==
  UNION {IF e.ok THEN {[chat |-> e.chat, id |-> id, faults |-> e.faults]}
         ELSE {[s EXCEPT !.faults = @ + e.faults] : s \in Send(e.chat, other)} :
         e \in Edit(chat, id, message)}

=============================================================================
