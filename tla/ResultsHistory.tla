--------------------------- MODULE ResultsHistory ---------------------------
(***************************************************************************)
(* The official results of one league: src/src/collector/results.py.          *)
(*                                                                         *)
(* backfill_results walks the past in windows, from an anchor fixed at the     *)
(* first run, and keeps a checkpoint in the database; reconcile_recent then    *)
(* asks again and again for the last hours, without a checkpoint.  The two     *)
(* must leave no hole between them, across crashes and while matches end.      *)
(* Time is counted in units of 300 s, to which the site wants dates aligned;   *)
(* at most one match starts in each unit, and a match is named by its date.    *)
(***************************************************************************)
EXTENDS Naturals, FiniteSets

CONSTANTS
  FirstRun,    \* date of the first run
  DaysBack,    \* depth of the backfill
  Window,      \* length of a backfill window (2 days)
  Lookback,    \* lookback_hours of reconcile_recent
  Delay,       \* a match that starts at d has its result by d + Delay
  MaxBlind,    \* environment: longest time without a successful reconciliation
  Unreadable,  \* matches whose score no parser reads
  MaxTime,     \* bound on the clock
  MaxCrashes,  \* bound on the deaths of the process
  None         \* no checkpoint, no window

ASSUME DatesAssumption ==
  /\ FirstRun \in Nat /\ DaysBack \in Nat \ {0} /\ DaysBack <= FirstRun
  /\ Window \in Nat \ {0} /\ Lookback \in Nat /\ Delay \in Nat /\ MaxBlind \in Nat
  /\ MaxTime \in Nat /\ FirstRun <= MaxTime /\ MaxCrashes \in Nat
ASSUME NoneAssumption == None \notin Nat

Dates == 0..MaxTime

VARIABLES
  now,         \* the clock
  published,   \* matches whose result the site gives
  proc,        \* "down", "backfill" or "reconcile"
  step,        \* inside either: "next", "fetched", "half" (results stored), "stored"
  span,        \* dates [from, to) of the request under way, or None
  got,         \* what the site answered
  anchor,      \* the anchor this run works with
  checkpoint,  \* row of checkpoints: None, or the anchor and oldest_covered
  results,     \* the results table
  rounds,      \* matches whose rounds are in round_results
  lastSeen,    \* history: date of the last request of a completed reconciliation
  crashes      \* deaths so far

procVars == <<proc, step, span, got, anchor>>
vars == <<now, published, procVars, checkpoint, results, rounds, lastSeen, crashes>>

TypeOK ==
  /\ now \in Dates /\ published \subseteq Dates
  /\ proc \in {"down", "backfill", "reconcile"}
  /\ step \in {"next", "fetched", "half", "stored"}
  /\ span = None \/ (span.from \in 0..(MaxTime + 1) /\ span.to \in 0..(MaxTime + 1) /\ span.from < span.to)
  /\ got \subseteq Dates
  /\ anchor = None \/ anchor \in Dates
  /\ checkpoint = None \/ (checkpoint.anchor \in Dates /\ checkpoint.oldest \in 0..(MaxTime + 1))
  /\ results \subseteq Dates /\ rounds \subseteq Dates
  /\ lastSeen \in Dates /\ crashes \in 0..MaxCrashes

Init ==
  /\ now = FirstRun
  /\ published \in SUBSET (0..FirstRun) /\ \A d \in 0..FirstRun : d + Delay < FirstRun => d \in published
  /\ proc = "down" /\ step = "next" /\ span = None /\ got = {} /\ anchor = None
  /\ checkpoint = None
  /\ results = {} /\ rounds = {}
  /\ lastSeen = FirstRun /\ crashes = 0

-----------------------------------------------------------------------------
(* Windows.                                                                  *)

Later(a, b) == IF a > b THEN a ELSE b
End(a) == a + 1                  \* first aligned date after the anchor
Oldest(a) == End(a) - DaysBack   \* what the backfill goes back to

\* iter_windows: spans of length Window going back from the anchor, the last one cut.
Windows(a) ==
  {[from |-> Later(Oldest(a), b - Window), to |-> b] :
     b \in {End(a) - k * Window : k \in {j \in 0..DaysBack : j * Window < DaysBack}}}

\* Windows that end inside what is already covered are done.
Todo(a) ==
  IF checkpoint = None THEN Windows(a) ELSE {w \in Windows(a) : w.to <= checkpoint.oldest}

\* What the site answers about a span.
Published(w) == {d \in published : w.from <= d /\ d < w.to}

-----------------------------------------------------------------------------
(* The clock, the site, and the life of the process.                         *)

Tick ==
  /\ now < MaxTime
  /\ now + 1 - lastSeen <= MaxBlind
  /\ \A d \in Dates : d + Delay <= now => d \in published
  /\ now' = now + 1
  /\ UNCHANGED <<published, procVars, checkpoint, results, rounds, lastSeen, crashes>>

Publish(d) ==
  /\ d \in 0..now /\ d \notin published
  /\ published' = published \cup {d}
  /\ UNCHANGED <<now, procVars, checkpoint, results, rounds, lastSeen, crashes>>

\* The anchor of the checkpoint wins over the clock.
Start ==
  /\ proc = "down"
  /\ proc' = "backfill"
  /\ anchor' = IF checkpoint = None THEN now ELSE checkpoint.anchor
  /\ UNCHANGED <<now, published, step, span, got, checkpoint, results, rounds, lastSeen, crashes>>

\* A crash, an uncaught error of the site, or a stop between two windows.
Crash ==
  /\ proc # "down" /\ crashes < MaxCrashes
  /\ proc' = "down" /\ step' = "next" /\ span' = None /\ got' = {} /\ anchor' = None
  /\ crashes' = crashes + 1
  /\ UNCHANGED <<now, published, checkpoint, results, rounds, lastSeen>>

-----------------------------------------------------------------------------
(* backfill_results: request, store, then move the checkpoint.               *)

\* Mutant of BackfillFetch: the oldest window first.
BackfillFetchOldest ==
  /\ proc = "backfill" /\ step = "next"
  /\ \E w \in Todo(anchor) :
       /\ \A v \in Todo(anchor) : w.to <= v.to
       /\ span' = w /\ got' = Published(w)
  /\ step' = "fetched"
  /\ UNCHANGED <<now, published, proc, anchor, checkpoint, results, rounds, lastSeen, crashes>>

BackfillFetch ==
  /\ proc = "backfill" /\ step = "next"
  /\ \E w \in Todo(anchor) :
       /\ \A v \in Todo(anchor) : v.to <= w.to
       /\ span' = w /\ got' = Published(w)
  /\ step' = "fetched"
  /\ UNCHANGED <<now, published, proc, anchor, checkpoint, results, rounds, lastSeen, crashes>>

\* store_results, first statement: an unreadable score is logged and skipped, a known result
\* is kept.
BackfillStore ==
  /\ proc = "backfill" /\ step = "fetched"
  /\ results' = results \cup (got \ Unreadable)
  /\ step' = "half"
  /\ UNCHANGED <<now, published, proc, span, got, anchor, checkpoint, rounds, lastSeen, crashes>>

\* store_results, second statement: the rounds of the same matches.
BackfillRounds ==
  /\ proc = "backfill" /\ step = "half"
  /\ rounds' = rounds \cup (got \ Unreadable)
  /\ step' = "stored"
  /\ UNCHANGED <<now, published, proc, span, got, anchor, checkpoint, results, lastSeen, crashes>>

\* Mutant of BackfillCheckpoint: the upper bound of the window is saved.
BackfillCheckpointUpper ==
  /\ proc = "backfill" /\ step = "stored"
  /\ checkpoint' = [anchor |-> anchor, oldest |-> span.to]
  /\ step' = "next" /\ span' = None /\ got' = {}
  /\ UNCHANGED <<now, published, proc, anchor, results, rounds, lastSeen, crashes>>

BackfillCheckpoint ==
  /\ proc = "backfill" /\ step = "stored"
  /\ checkpoint' = [anchor |-> anchor, oldest |-> span.from]
  /\ step' = "next" /\ span' = None /\ got' = {}
  /\ UNCHANGED <<now, published, proc, anchor, results, rounds, lastSeen, crashes>>

BackfillEnd ==
  /\ proc = "backfill" /\ step = "next" /\ Todo(anchor) = {}
  /\ proc' = "reconcile"
  /\ UNCHANGED <<now, published, step, span, got, anchor, checkpoint, results, rounds, lastSeen, crashes>>

-----------------------------------------------------------------------------
(* reconcile_recent, over and over.                                          *)

\* Mutant of Recent: the lower bound is rounded up.
RecentRoundedUp ==
  [from |-> IF now >= Lookback THEN now - Lookback + 1 ELSE 0, to |-> now + 1]

\* From the aligned date at or before now - lookback to the first one after now.
Recent == [from |-> IF now >= Lookback THEN now - Lookback ELSE 0, to |-> now + 1]

ReconcileFetch ==
  /\ proc = "reconcile" /\ step = "next"
  /\ span' = Recent /\ got' = Published(Recent)
  /\ step' = "fetched"
  /\ UNCHANGED <<now, published, proc, anchor, checkpoint, results, rounds, lastSeen, crashes>>

ReconcileStore ==
  /\ proc = "reconcile" /\ step = "fetched"
  /\ results' = results \cup (got \ Unreadable)
  /\ step' = "half"
  /\ UNCHANGED <<now, published, proc, span, got, anchor, checkpoint, rounds, lastSeen, crashes>>

\* The pass is complete.
ReconcileRounds ==
  /\ proc = "reconcile" /\ step = "half"
  /\ rounds' = rounds \cup (got \ Unreadable)
  /\ lastSeen' = span.to - 1
  /\ step' = "next" /\ span' = None /\ got' = {}
  /\ UNCHANGED <<now, published, proc, anchor, checkpoint, results, crashes>>

\* A transient failure, of the site or of the database, waits for the next interval (_periodic).
ReconcileFails ==
  /\ proc = "reconcile" /\ step \in {"fetched", "half"}
  /\ step' = "next" /\ span' = None /\ got' = {}
  /\ UNCHANGED <<now, published, proc, anchor, checkpoint, results, rounds, lastSeen, crashes>>

Backfill ==
  BackfillFetch \/ BackfillStore \/ BackfillRounds \/ BackfillCheckpoint \/ BackfillEnd

Next ==
  \/ Tick \/ (\E d \in Dates : Publish(d))
  \/ Start \/ Crash
  \/ BackfillFetch \/ BackfillStore \/ BackfillRounds \/ BackfillCheckpoint \/ BackfillEnd
  \/ ReconcileFetch \/ ReconcileStore \/ ReconcileRounds \/ ReconcileFails

Spec == Init /\ [][Next]_vars

\* The supervisor restarts the process and each request of the backfill ends.
FairSpec == Spec /\ WF_vars(Start) /\ WF_vars(Backfill)

-----------------------------------------------------------------------------
(* Properties.                                                               *)

\* A match is stored with its rounds: two statements, outside any transaction.
Stored == results \cap rounds

\* The checkpoint is honest: every result that was known before the first run, between
\* oldest_covered and the anchor, is stored with
\* its rounds, whatever crashes cut the walk.
CheckpointIsHonest ==
  checkpoint # None =>
    \A d \in (checkpoint.oldest..checkpoint.anchor) \ Unreadable :
      d + Delay < FirstRun => d \in Stored

\* The backfill and the reconciliation leave no hole between them: a match that the
\* reconciliation no longer looks back to, and that the backfill claims or follows, is stored
\* with its rounds.
NoHole ==
  checkpoint # None =>
    \A d \in Dates \ Unreadable :
      checkpoint.oldest <= d /\ d + Lookback < now => d \in Stored

\* The backfill reaches the depth it was asked for, starting again where a crash cut it.
BackfillCompletes ==
  <>(checkpoint # None /\ checkpoint.oldest = Oldest(checkpoint.anchor))

=============================================================================
