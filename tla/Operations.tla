----------------------------- MODULE Operations -----------------------------
(***************************************************************************)
(* The collector as an operator sees it: src/src/collector/main.py under its  *)
(* supervisor, the migration each start begins with (Migrate), its alerts     *)
(* (Alerts), and the watchdog of cron, src/scripts/watchdog.py.               *)
(*                                                                         *)
(*   launch --> migrate --> run --> ends by itself, or dies --> launch ...     *)
(*                                                                         *)
(* Operators may migrate by hand at any time, from other images.  The          *)
(* database may be unreachable.  The watchdog is a new process at every run:    *)
(* its throttling never applies.                                             *)
(***************************************************************************)
EXTENDS Naturals

CONSTANTS
  Leagues, Other, Dictionary, Cooldown, None,  \* see Alerts
  Runners, Collector,                   \* who may migrate: the collector, and operators by hand
  Versions, Checksums, Images, Ghost    \* see Migrate

VARIABLES
  proc,      \* the collector: "down", "migrating", or "up" (scheduler.run)
  outcome,   \* how the last process ended: "none", "clean", "blocked" (exit 3) or "died"
  db,        \* the database answers
  lastCycle, \* last ok row of collection_log of each league: "never", "recent" or "old"
  heard,     \* leagues whose outage the watchdog has told the user
  pc, files, applied, lock, table, schema, level,
  degraded, age, sending, stop, word, blockTold

procVars == <<proc, outcome>>
watchVars == <<db, lastCycle, heard>>
migrateVars == <<pc, files, applied, lock, table, schema, level>>
alertVars == <<degraded, age, sending, stop, word, blockTold>>

Migration == INSTANCE Migrate
Alerting == INSTANCE Alerts

ASSUME OperationsAssumption ==
  /\ Collector \in Runners
  /\ Migration!RunnersAssumption /\ Migration!ImagesAssumption /\ Alerting!AlertsAssumption

vars == <<procVars, watchVars, migrateVars, alertVars>>

TypeOK ==
  /\ proc \in {"down", "migrating", "up"}
  /\ outcome \in {"none", "clean", "blocked", "died"}
  /\ db \in BOOLEAN /\ lastCycle \in [Leagues -> {"never", "recent", "old"}] /\ heard \subseteq Leagues
  /\ Migration!TypeOK /\ Alerting!TypeOK

Init ==
  /\ proc = "down" /\ outcome = "none"
  /\ db = TRUE /\ lastCycle = [l \in Leagues |-> "never"] /\ heard = {}
  /\ Migration!Init /\ Alerting!Init

-----------------------------------------------------------------------------
(* The life of the collector.                                                *)

\* The supervisor starts an image: a new alerter, then migrate().
Launch ==
  /\ proc = "down"
  /\ proc' = "migrating" /\ outcome' = "none"
  /\ Migration!Discover(Collector)
  /\ UNCHANGED <<watchVars, alertVars>>

\* The migration is over: the scheduler runs.
Started ==
  /\ proc = "migrating" /\ pc[Collector] = "done"
  /\ proc' = "up"
  /\ UNCHANGED <<outcome, watchVars, migrateVars, alertVars>>

\* The migration raises, and amain with it.
StartFails ==
  /\ proc = "migrating" /\ pc[Collector] = "failed"
  /\ proc' = "down" /\ outcome' = "died"
  /\ UNCHANGED <<watchVars, migrateVars, alertVars>>

\* Mutant of End: the alerts under way are not waited for.
EndAtOnce ==
  /\ proc = "up" /\ stop # "no"
  /\ proc' = "down" /\ outcome' = IF stop = "blocked" THEN "blocked" ELSE "clean"
  /\ Alerting!Forget
  /\ UNCHANGED <<watchVars, migrateVars>>

\* Every task has returned: amain returns.
End ==
  /\ proc = "up" /\ stop # "no"
  /\ \A t \in Alerting!Tasks : sending[t] = None
  /\ proc' = "down" /\ outcome' = IF stop = "blocked" THEN "blocked" ELSE "clean"
  /\ Alerting!Forget
  /\ UNCHANGED <<watchVars, migrateVars>>

\* The process is killed, or a task raises and the others are cancelled.
Die ==
  /\ proc = "up"
  /\ proc' = "down" /\ outcome' = "died"
  /\ Alerting!Forget
  /\ UNCHANGED <<watchVars, migrateVars>>

\* Without a database nothing goes to dead_letter: the insertion raises, see Die.
AlertStep ==
  /\ proc = "up" /\ Alerting!Next
  /\ db \/ \A l \in Leagues : sending[l] = <<"letter", l>> => sending'[l] = sending[l]
  /\ UNCHANGED <<procVars, watchVars, migrateVars>>

-----------------------------------------------------------------------------
(* The migrations and their database.                                        *)

MigrateStep ==
  /\ \/ \E r \in Runners : (db /\ Migration!Migrating(r)) \/ Migration!Cut(r)
     \/ \E r \in Runners \ {Collector} : Migration!Discover(r)
     \/ Migration!SessionEnds
  /\ UNCHANGED <<procVars, watchVars, alertVars>>

DbFails ==
  /\ db /\ db' = FALSE
  /\ Migration!DatabaseStops
  /\ UNCHANGED <<lastCycle, heard, procVars, alertVars>>

DbReturns ==
  /\ ~db /\ db' = TRUE
  /\ UNCHANGED <<lastCycle, heard, procVars, migrateVars, alertVars>>

-----------------------------------------------------------------------------
(* The watchdog.                                                             *)

\* A cycle of the league is committed and logged, in the main or in the fallback source.
Collect(l) ==
  /\ proc = "up" /\ db
  /\ lastCycle' = [lastCycle EXCEPT ![l] = "recent"] /\ heard' = heard \ {l}
  /\ UNCHANGED <<db, procVars, migrateVars, alertVars>>

\* No cycle of the league for MAX_AGE_SECONDS.
GrowOld(l) ==
  /\ lastCycle[l] = "recent"
  /\ lastCycle' = [lastCycle EXCEPT ![l] = "old"]
  /\ UNCHANGED <<db, heard, procVars, migrateVars, alertVars>>

\* Mutant of Stale: a league that never had a cycle has no age to compare.
StaleWithAnAge == {l \in Leagues : lastCycle[l] = "old"}

\* check_league, for every league that is watched.
Stale == {l \in Leagues : lastCycle[l] # "recent"}

\* One run of the script.  Its one message names every stale league; without a database it
\* says that the collector is probably stopped.  No channel may take it.
Watch(delivered) ==
  /\ ~db \/ Stale # {}
  /\ heard' = IF ~delivered THEN heard ELSE IF db THEN heard \cup Stale ELSE Leagues
  /\ UNCHANGED <<db, lastCycle, procVars, migrateVars, alertVars>>

Next ==
  \/ Launch \/ Started \/ StartFails \/ End \/ Die \/ AlertStep
  \/ MigrateStep \/ DbFails \/ DbReturns
  \/ \E l \in Leagues : Collect(l) \/ GrowOld(l)
  \/ \E delivered \in BOOLEAN : Watch(delivered)

Spec == Init /\ [][Next]_vars

\* cron runs the watchdog for ever and a channel ends up taking a message.  Nothing else is
\* assumed: the collector, its supervisor and the database may stop for good.
FairSpec == Spec /\ WF_vars(Watch(TRUE))

-----------------------------------------------------------------------------
(* Properties.                                                               *)

\* The migrations keep their promise in the life of the collector, across starts that fail,
\* rollbacks to an older image, migrations by hand and failures of the database.
ImplementsSchema == Migration!ImplementsSchema

\* See Alerts.
RelapseIsTold == Alerting!RelapseIsTold

\* A process that ends because the site blocked it has sent the alert of the block before
\* (_stop_if_blocked waits for it: "c'est justement l'alerte la plus importante").
BlockIsTold ==
  [][proc = "up" /\ outcome' = "blocked" => blockTold]_vars

\* A league without a recent cycle, whatever the reason and even if it never had one, is told
\* to the user or collects again (watchdog.py).
OutageIsTold ==
  \A l \in Leagues : lastCycle[l] # "recent" ~> l \in heard \/ lastCycle[l] = "recent"

=============================================================================
