----------------------------- MODULE OddsStore -----------------------------
(***************************************************************************)
(* What the odds history promises (docs/architecture.md, section 6): the     *)
(* current state of every selection is the content of the last response      *)
(* stored for its game; responses are stored in order, each one as a whole   *)
(* or not at all; and a finished game stays finished.  Once a reload of the   *)
(* detector has failed, a withdrawal may be missed, and nothing else.         *)
(* OddsHistory is shown to implement this module.                            *)
(***************************************************************************)
EXTENDS Sequences

CONSTANTS
  Games,       \* games of the league
  Selections,  \* identities (g, t, param, sub_game_id) of the selections of a game
  Odds,        \* pairs (odds, blocked) a selection may show
  Absent       \* not shown by the site, or stored as withdrawn

VARIABLES
  pending,     \* responses not stored yet
  current,     \* last known state of every selection
  finished,    \* the finished games
  blind        \* some reload of the detector has failed

vars == <<pending, current, finished, blind>>

Content == [Selections -> Odds \cup {Absent}]

\* A response: what it shows of each game it lists, and whether the game is over.
Responses == UNION {[G -> [shown : Content, over : BOOLEAN]] : G \in SUBSET Games}

Init ==
  /\ pending = <<>>
  /\ current = [g \in Games |-> [s \in Selections |-> Absent]]
  /\ finished = {} /\ blind = FALSE

Receive ==
  /\ \E r \in Responses : pending' = Append(pending, r)
  /\ UNCHANGED <<current, finished, blind>>

\* Withdrawals that a blind detector misses.
Missed(r) ==
  {m \in (DOMAIN r) \X Selections : blind /\ r[m[1]].shown[m[2]] = Absent}

Record ==
  /\ pending # <<>>
  /\ LET r == Head(pending)
     IN  /\ \E M \in SUBSET Missed(r) :
              current' = [g \in Games |-> [s \in Selections |->
                IF g \in DOMAIN r /\ <<g, s>> \notin M THEN r[g].shown[s] ELSE current[g][s]]]
         /\ finished' = finished \cup {g \in DOMAIN r : r[g].over}
  /\ pending' = Tail(pending)
  /\ UNCHANGED blind

\* A crash loses the responses, never a part of one.
Lose ==
  /\ pending' = <<>>
  /\ UNCHANGED <<current, finished, blind>>

ReloadFails ==
  /\ blind' = TRUE
  /\ UNCHANGED <<pending, current, finished>>

Next == Receive \/ Record \/ Lose \/ ReloadFails

Spec == Init /\ [][Next]_vars

=============================================================================
