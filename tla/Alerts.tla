------------------------------- MODULE Alerts -------------------------------
(***************************************************************************)
(* The alerts of one collector process: ThrottledAlerter                     *)
(* (src/src/collector/alerting.py) and the places of scheduler.py that call   *)
(* it.  Operations composes it with the life of the process.                 *)
(*                                                                         *)
(* An alert is recorded as sent before it leaves, and send() never reports a  *)
(* failure: what the user is known to have been told is what was attempted.   *)
(* Waiting is counted in ticks; a send lasts less than a tick.                *)
(***************************************************************************)
EXTENDS Naturals

CONSTANTS
  Leagues,   \* each has its poll loop, a task of the same name
  Other,     \* the other tasks that call the site: start-up, match feed, results
  Dictionary,\* the task that refreshes the labels of the markets, from another server
  Cooldown,  \* cooldown_seconds, in ticks
  None       \* the task is not sending

\* Assumed by Operations.
AlertsAssumption ==
  /\ Cooldown \in Nat \ {0}
  /\ Other \notin Leagues /\ Dictionary \notin Leagues \cup {Other}
  /\ None \notin {"degraded", "recovered", "letter"} \X Leagues
  /\ None \notin {<<"blocked">>, <<"dictionary_blocked">>}

Tasks == Leagues \cup {Other, Dictionary}
Keys == ({"degraded", "recovered"} \X Leagues) \cup {<<"blocked">>, <<"dictionary_blocked">>}
\* The insertion of a row in dead_letter, which a poll loop waits for too.
Letters == {"letter"} \X Leagues

VARIABLES
  degraded,   \* _degraded: the leagues on the fallback source
  age,        \* ticks since _last_sent of a key; Cooldown when it is older or absent
  sending,    \* the alert or the dead letter each task is waiting for, if any
  stop,       \* "no", "asked" by a signal, or "blocked" by the site
  word,       \* history: the last alert of each league that was sent
  blockTold   \* history: the alert of the block has been sent

vars == <<degraded, age, sending, stop, word, blockTold>>

TypeOK ==
  /\ degraded \subseteq Leagues
  /\ age \in [Keys -> 0..Cooldown]
  /\ sending \in [Tasks -> Keys \cup Letters \cup {None}]
  /\ stop \in {"no", "asked", "blocked"}
  /\ word \in [Leagues -> {"none", "degraded", "recovered"}]
  /\ blockTold \in BOOLEAN

Init ==
  /\ degraded = {} /\ age = [k \in Keys |-> Cooldown]
  /\ sending = [t \in Tasks |-> None] /\ stop = "no"
  /\ word = [l \in Leagues |-> "none"] /\ blockTold = FALSE

\* A process is gone with its alerter; the user has read what was sent.
Forget ==
  /\ degraded' = {} /\ age' = [k \in Keys |-> Cooldown]
  /\ sending' = [t \in Tasks |-> None] /\ stop' = "no"
  /\ blockTold' = FALSE
  /\ UNCHANGED word

-----------------------------------------------------------------------------

\* alert(): nothing if the key was sent less than Cooldown ago.  ages are those of the keys
\* when the task calls it.
Alert(t, key, ages) ==
  \/ /\ ages[key] >= Cooldown
     /\ age' = [ages EXCEPT ![key] = 0]
     /\ sending' = [sending EXCEPT ![t] = key]
  \/ /\ ages[key] < Cooldown
     /\ age' = ages
     /\ sending' = [sending EXCEPT ![t] = None]

\* _mark_degraded: the main source no longer parses.  The answer goes to dead_letter first.
Fall(l) ==
  /\ sending[l] = None /\ l \notin degraded
  /\ degraded' = degraded \cup {l}
  /\ sending' = [sending EXCEPT ![l] = <<"letter", l>>]
  /\ UNCHANGED <<age, stop, word, blockTold>>

\* The row is there; the league was not degraded before, so the fall is told.
Archived(l) ==
  /\ sending[l] = <<"letter", l>>
  /\ Alert(l, <<"degraded", l>>, age)
  /\ UNCHANGED <<degraded, stop, word, blockTold>>

\* Mutant of Recover: the throttling of the league is kept.
RecoverWithoutReset(l) ==
  /\ sending[l] = None /\ l \in degraded
  /\ degraded' = degraded \ {l}
  /\ Alert(l, <<"recovered", l>>, age)
  /\ UNCHANGED <<stop, word, blockTold>>

\* A probe of the main source succeeds: a relapse will be told at once.
Recover(l) ==
  /\ sending[l] = None /\ l \in degraded
  /\ degraded' = degraded \ {l}
  /\ Alert(l, <<"recovered", l>>, [age EXCEPT ![<<"degraded", l>>] = Cooldown])
  /\ UNCHANGED <<stop, word, blockTold>>

\* _stop_if_blocked: every task that the site refuses calls it.
Block(t) ==
  /\ t # Dictionary /\ sending[t] = None
  /\ stop' = "blocked"
  /\ Alert(t, <<"blocked">>, age)
  /\ UNCHANGED <<degraded, word, blockTold>>

\* refresh_dictionary_once: the server of the labels refuses, which stops nothing else.
BlockDictionary ==
  /\ sending[Dictionary] = None
  /\ Alert(Dictionary, <<"dictionary_blocked">>, age)
  /\ UNCHANGED <<degraded, stop, word, blockTold>>

\* send() returns, whatever the channels did.
Sent(t) ==
  /\ sending[t] \in Keys
  /\ sending' = [sending EXCEPT ![t] = None]
  /\ word' = [l \in Leagues |->
       IF sending[t] = <<"degraded", l>> THEN "degraded"
       ELSE IF sending[t] = <<"recovered", l>> THEN "recovered" ELSE word[l]]
  /\ blockTold' = (blockTold \/ sending[t] = <<"blocked">>)
  /\ UNCHANGED <<degraded, age, stop>>

\* A signal asks for a stop.
AskStop ==
  /\ stop = "no" /\ stop' = "asked"
  /\ UNCHANGED <<degraded, age, sending, word, blockTold>>

Tick ==
  /\ \A t \in Tasks : sending[t] = None
  /\ age' = [k \in Keys |-> IF age[k] < Cooldown THEN age[k] + 1 ELSE Cooldown]
  /\ UNCHANGED <<degraded, sending, stop, word, blockTold>>

Next ==
  \/ \E l \in Leagues : Fall(l) \/ Archived(l) \/ Recover(l)
  \/ \E t \in Tasks : Block(t) \/ Sent(t)
  \/ BlockDictionary \/ AskStop \/ Tick

-----------------------------------------------------------------------------
(* Property.                                                                 *)

\* The user is never left with the belief that a league is on its main source: while it is
\* degraded, the last alert sent about it says so, or is leaving, or waits for the dead letter
\* that goes before it ("une rechute sera signalée sans délai", scheduler.py).
RelapseIsTold ==
  \A l \in degraded :
    sending[l] \in {<<"letter", l>>, <<"degraded", l>>} \/ word[l] = "degraded"

=============================================================================
