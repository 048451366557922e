----------------------------- MODULE Scheduler -----------------------------
(***************************************************************************)
(* The collector's scheduler (src/src/collector/scheduler.py) and the       *)
(* container supervisor that restarts it.                                   *)
(*                                                                         *)
(*   poll_loop(l1) --+                                                     *)
(*   poll_loop(l2) --+--> bounded queue --> write_loop --> database         *)
(*                                                                         *)
(* Each asyncio task is a small program whose steps are delimited by its     *)
(* awaits.  Answers of the site and of the database are chosen by the        *)
(* environment among those that Faults allows.  A response is abstracted to  *)
(* its rank n among the responses obtained for its league by this process.  *)
(***************************************************************************)
EXTENDS Naturals, Sequences, FiniteSets

CONSTANTS
  Leagues,       \* the leagues of config/leagues.yaml
  QueueMaxsize,  \* capacity of the write queue (100 in production)
  ProbeCycles,   \* recovery_probe_cycles (12 in production)
  Faults,        \* the kinds of failure the environment may produce
  MaxCycles,     \* bound: responses obtained per league and per process
  MaxRestarts,   \* bound: restarts by the supervisor
  NoJob          \* the writer holds no job

FaultKinds == {"blocked", "parser", "server", "circuit", "db"}

ASSUME LeaguesAssumption == IsFiniteSet(Leagues)
\* A stopped writer relies on room for one last job of every league.
ASSUME QueueAssumption == QueueMaxsize \in Nat /\ QueueMaxsize >= Cardinality(Leagues)
ASSUME BoundsAssumption == ProbeCycles \in Nat \ {0} /\ MaxCycles \in Nat /\ MaxRestarts \in Nat
ASSUME FaultsAssumption == Faults \subseteq FaultKinds

Job == [league : Leagues, n : 1..MaxCycles]

ASSUME NoJobAssumption == NoJob \notin Job

VARIABLES
  phase,       \* where run() is: "preload", "backfill", "backfillCall", "gather", or how it ended
  todo,        \* leagues the sequential start-up loop has not handled yet
  stopping,    \* the _stop event
  blocked,     \* metrics.blocked
  owed,        \* history: jobs of each league already queued when the stop was requested
  pc,          \* step of each poll loop
  degraded,    \* _degraded
  countdown,   \* _probe_countdown (0 stands for every value <= 0)
  taken,       \* history: responses obtained for each league
  queue,       \* the write queue
  writer,      \* step of the write loop
  inHand,      \* the job write_once is processing
  stored,      \* history: rank of the last response committed to the database
  logged,      \* history: rank of the last response with an ok row in collection_log
  rec,         \* step of the reconcile task
  recTodo,     \* leagues the current reconciliation has not handled yet
  dict,        \* step of the dictionary task
  dictBlocked, \* metrics.dictionary_blocked
  restarts     \* restarts so far

startVars == <<phase, todo>>
stopVars == <<stopping, blocked, owed>>
pollVars == <<pc, degraded, countdown, taken>>
writeVars == <<queue, writer, inHand, stored, logged>>
periodicVars == <<rec, recTodo, dict, dictBlocked>>
vars == <<startVars, stopVars, pollVars, writeVars, periodicVars, restarts>>

StartPhases == {"preload", "backfill", "backfillCall"}
EndPhases == {"ended", "startFailed", "crashed"}

TypeOK ==
  /\ phase \in StartPhases \cup {"gather"} \cup EndPhases
  /\ todo \subseteq Leagues
  /\ stopping \in BOOLEAN
  /\ blocked \in BOOLEAN
  /\ owed \in [Leagues -> 0..MaxCycles]
  /\ pc \in [Leagues -> {"idle", "v3", "archive", "legacy", "log", "put", "done"}]
  /\ degraded \subseteq Leagues
  /\ countdown \in [Leagues -> 0..ProbeCycles]
  /\ taken \in [Leagues -> 0..MaxCycles]
  /\ queue \in Seq(Job)
  /\ Len(queue) <= QueueMaxsize
  /\ writer \in {"get", "write", "feed", "log", "done"}
  /\ inHand \in Job \cup {NoJob}
  /\ stored \in [Leagues -> 0..MaxCycles]
  /\ logged \in [Leagues -> 0..MaxCycles]
  /\ rec \in {"idle", "check", "call", "done"}
  /\ recTodo \subseteq Leagues
  /\ dict \in {"idle", "call", "done"}
  /\ dictBlocked \in BOOLEAN
  /\ restarts \in 0..MaxRestarts

\* What __init__ builds: nothing survives a restart except the database.
Init ==
  /\ phase = "preload" /\ todo = Leagues
  /\ stopping = FALSE /\ blocked = FALSE /\ owed = [l \in Leagues |-> 0]
  /\ pc = [l \in Leagues |-> "idle"]
  /\ degraded = {}
  /\ countdown = [l \in Leagues |-> 0]
  /\ taken = [l \in Leagues |-> 0]
  /\ queue = <<>> /\ writer = "get" /\ inHand = NoJob
  /\ stored = [l \in Leagues |-> 0]
  /\ logged = [l \in Leagues |-> 0]
  /\ rec = "idle" /\ recTodo = {}
  /\ dict = "idle" /\ dictBlocked = FALSE
  /\ restarts = 0

-----------------------------------------------------------------------------
(* Stopping and crashing.                                                    *)

\* Responses of l that are in the queue or beyond.
Enqueued(l) == IF pc[l] = "put" THEN taken[l] - 1 ELSE taken[l]

\* stop(): only the first call changes anything; owed records what was queued then.
RequestStop ==
  /\ stopping' = TRUE
  /\ owed' = IF stopping THEN owed ELSE [l \in Leagues |-> Enqueued(l)]

\* SIGINT or SIGTERM.
Stop ==
  /\ phase \in StartPhases \cup {"gather"}
  /\ ~stopping
  /\ RequestStop
  /\ UNCHANGED <<startVars, blocked, pollVars, writeVars, periodicVars, restarts>>

\* _stop_if_blocked: the site answered 403 or 429 to some task.
StopIfBlocked ==
  /\ "blocked" \in Faults
  /\ RequestStop
  /\ blocked' = TRUE

\* An exception nobody catches leaves gather(): run() cancels every other task and
\* the process exits.  Jobs in memory are gone.
Crash(kinds) ==
  /\ Faults \cap kinds # {}
  /\ phase' = "crashed"
  /\ UNCHANGED <<todo, stopVars, pollVars, writeVars, periodicVars, restarts>>

-----------------------------------------------------------------------------
(* Start-up: preload_all, then backfill_once, both one league after another. *)

\* A league is reloaded, or its ServerError / ParserError is logged and skipped.
PreloadLeague(l) ==
  /\ phase = "preload" /\ l \in todo
  /\ todo' = todo \ {l}
  /\ UNCHANGED <<phase, stopVars, pollVars, writeVars, periodicVars, restarts>>

PreloadBlocked ==
  /\ phase = "preload" /\ todo # {}
  /\ StopIfBlocked
  /\ phase' = "gather" /\ todo' = {}
  /\ UNCHANGED <<pollVars, writeVars, periodicVars, restarts>>

PreloadDone ==
  /\ phase = "preload" /\ todo = {}
  /\ IF stopping THEN phase' = "gather" /\ UNCHANGED todo
                 ELSE phase' = "backfill" /\ todo' = Leagues
  /\ UNCHANGED <<stopVars, pollVars, writeVars, periodicVars, restarts>>

BackfillCheck ==
  /\ phase = "backfill"
  /\ IF stopping \/ todo = {}
       THEN phase' = "gather" /\ todo' = {}
       ELSE phase' = "backfillCall" /\ UNCHANGED todo
  /\ UNCHANGED <<stopVars, pollVars, writeVars, periodicVars, restarts>>

BackfillLeague(l) ==
  /\ phase = "backfillCall" /\ l \in todo
  /\ phase' = "backfill"
  /\ todo' = todo \ {l}
  /\ UNCHANGED <<stopVars, pollVars, writeVars, periodicVars, restarts>>

BackfillBlocked ==
  /\ phase = "backfillCall"
  /\ StopIfBlocked
  /\ phase' = "gather" /\ todo' = {}
  /\ UNCHANGED <<pollVars, writeVars, periodicVars, restarts>>

\* What preload_all and backfill_once do not catch ends run() before the loops exist.
StartFails ==
  /\ \/ phase = "preload" /\ todo # {} /\ Faults \cap {"circuit", "db"} # {}
     \/ phase = "backfillCall" /\ Faults \cap {"server", "parser", "circuit", "db"} # {}
  /\ phase' = "startFailed"
  /\ UNCHANGED <<todo, stopVars, pollVars, writeVars, periodicVars, restarts>>

StartStep ==
  \/ \E l \in Leagues : PreloadLeague(l) \/ BackfillLeague(l)
  \/ PreloadBlocked \/ PreloadDone \/ BackfillCheck \/ BackfillBlocked \/ StartFails

-----------------------------------------------------------------------------
(* One poll loop per league: poll_once between two sleeps.                   *)

\* Mutant of BeginCycle: a degraded league never counts down.
BeginCycleForgetful(l) ==
  /\ phase = "gather" /\ pc[l] = "idle" /\ ~stopping
  /\ taken[l] < MaxCycles
  /\ pc' = [pc EXCEPT ![l] = IF l \in degraded /\ countdown[l] > 0 THEN "legacy" ELSE "v3"]
  /\ UNCHANGED <<startVars, stopVars, degraded, countdown, taken, writeVars, periodicVars, restarts>>

\* A degraded league counts down to its next attempt on the main source.
BeginCycle(l) ==
  /\ phase = "gather" /\ pc[l] = "idle" /\ ~stopping
  /\ taken[l] < MaxCycles
  /\ IF l \in degraded
       THEN LET left == IF countdown[l] > 0 THEN countdown[l] - 1 ELSE 0
            IN  /\ countdown' = [countdown EXCEPT ![l] = left]
                /\ pc' = [pc EXCEPT ![l] = IF left = 0 THEN "v3" ELSE "legacy"]
       ELSE /\ pc' = [pc EXCEPT ![l] = "v3"]
            /\ UNCHANGED countdown
  /\ UNCHANGED <<startVars, stopVars, degraded, taken, writeVars, periodicVars, restarts>>

EndPolling(l) ==
  /\ phase = "gather" /\ pc[l] = "idle" /\ stopping
  /\ pc' = [pc EXCEPT ![l] = "done"]
  /\ UNCHANGED <<startVars, stopVars, degraded, countdown, taken, writeVars, periodicVars, restarts>>

\* The main source answers in the expected format: a degraded league has recovered.
V3Ok(l) ==
  /\ phase = "gather" /\ pc[l] = "v3"
  /\ degraded' = degraded \ {l}
  /\ taken' = [taken EXCEPT ![l] = @ + 1]
  /\ pc' = [pc EXCEPT ![l] = "put"]
  /\ UNCHANGED <<startVars, stopVars, countdown, writeVars, periodicVars, restarts>>

\* A ServerError loses the cycle; it is written to collection_log.
V3ServerError(l) ==
  /\ phase = "gather" /\ pc[l] = "v3" /\ "server" \in Faults
  /\ pc' = [pc EXCEPT ![l] = "log"]
  /\ UNCHANGED <<startVars, stopVars, degraded, countdown, taken, writeVars, periodicVars, restarts>>

\* A ParserError degrades the league (_mark_degraded).
V3ParserError(l) ==
  /\ phase = "gather" /\ pc[l] = "v3" /\ "parser" \in Faults
  /\ degraded' = degraded \cup {l}
  /\ countdown' = [countdown EXCEPT ![l] = ProbeCycles]
  /\ pc' = [pc EXCEPT ![l] = "archive"]
  /\ UNCHANGED <<startVars, stopVars, taken, writeVars, periodicVars, restarts>>

\* The payload is in dead_letter: the cycle goes on with the fallback source.
Archived(l) ==
  /\ phase = "gather" /\ pc[l] = "archive"
  /\ pc' = [pc EXCEPT ![l] = "legacy"]
  /\ UNCHANGED <<startVars, stopVars, degraded, countdown, taken, writeVars, periodicVars, restarts>>

LegacyOk(l) ==
  /\ phase = "gather" /\ pc[l] = "legacy"
  /\ taken' = [taken EXCEPT ![l] = @ + 1]
  /\ pc' = [pc EXCEPT ![l] = "put"]
  /\ UNCHANGED <<startVars, stopVars, degraded, countdown, writeVars, periodicVars, restarts>>

LegacyError(l) ==
  /\ phase = "gather" /\ pc[l] = "legacy" /\ Faults \cap {"server", "parser"} # {}
  /\ pc' = [pc EXCEPT ![l] = "log"]
  /\ UNCHANGED <<startVars, stopVars, degraded, countdown, taken, writeVars, periodicVars, restarts>>

\* A failed cycle has its ok = FALSE row; the loop sleeps, or notices the stop.
ErrorLogged(l) ==
  /\ phase = "gather" /\ pc[l] = "log"
  /\ pc' = [pc EXCEPT ![l] = "idle"]
  /\ UNCHANGED <<startVars, stopVars, degraded, countdown, taken, writeVars, periodicVars, restarts>>

\* poll_once stops the scheduler; its loop returns at once.
PollBlocked(l) ==
  /\ phase = "gather" /\ pc[l] \in {"v3", "legacy"}
  /\ StopIfBlocked
  /\ pc' = [pc EXCEPT ![l] = "done"]
  /\ UNCHANGED <<startVars, degraded, countdown, taken, writeVars, periodicVars, restarts>>

\* Mutant of Put: an unbounded queue.
PutUnbounded(l) ==
  /\ phase = "gather" /\ pc[l] = "put"
  /\ queue' = Append(queue, [league |-> l, n |-> taken[l]])
  /\ pc' = [pc EXCEPT ![l] = "idle"]
  /\ UNCHANGED <<startVars, stopVars, degraded, countdown, taken,
                 writer, inHand, stored, logged, periodicVars, restarts>>

\* Mutant of Put: put_nowait, the job being dropped when the queue is full.
PutOrDrop(l) ==
  /\ phase = "gather" /\ pc[l] = "put"
  /\ queue' = IF Len(queue) < QueueMaxsize
                THEN Append(queue, [league |-> l, n |-> taken[l]]) ELSE queue
  /\ pc' = [pc EXCEPT ![l] = "idle"]
  /\ UNCHANGED <<startVars, stopVars, degraded, countdown, taken,
                 writer, inHand, stored, logged, periodicVars, restarts>>

\* queue.put waits while the queue is full.
Put(l) ==
  /\ phase = "gather" /\ pc[l] = "put"
  /\ Len(queue) < QueueMaxsize
  /\ queue' = Append(queue, [league |-> l, n |-> taken[l]])
  /\ pc' = [pc EXCEPT ![l] = "idle"]
  /\ UNCHANGED <<startVars, stopVars, degraded, countdown, taken,
                 writer, inHand, stored, logged, periodicVars, restarts>>

\* poll_once does not catch CircuitOpenError, nor an error of the database.
PollCrash(l) ==
  /\ phase = "gather"
  /\ \/ pc[l] \in {"v3", "legacy"} /\ Crash({"circuit"})
     \/ pc[l] \in {"archive", "log"} /\ Crash({"db"})

PollStep(l) ==
  \/ BeginCycle(l) \/ EndPolling(l)
  \/ V3Ok(l) \/ V3ServerError(l) \/ V3ParserError(l) \/ Archived(l)
  \/ LegacyOk(l) \/ LegacyError(l) \/ ErrorLogged(l)
  \/ PollBlocked(l) \/ Put(l) \/ PollCrash(l)

-----------------------------------------------------------------------------
(* The write loop.                                                           *)

\* Mutant of Take: the newest job first.
TakeNewest ==
  /\ phase = "gather" /\ writer = "get" /\ queue # <<>>
  /\ inHand' = queue[Len(queue)]
  /\ queue' = SubSeq(queue, 1, Len(queue) - 1)
  /\ writer' = "write"
  /\ UNCHANGED <<startVars, stopVars, pollVars, stored, logged, periodicVars, restarts>>

Take ==
  /\ phase = "gather" /\ writer = "get" /\ queue # <<>>
  /\ inHand' = Head(queue)
  /\ queue' = Tail(queue)
  /\ writer' = "write"
  /\ UNCHANGED <<startVars, stopVars, pollVars, stored, logged, periodicVars, restarts>>

\* Mutant of EndWriting: "while not stopping", the queue is not drained.
EndWritingAtOnce ==
  /\ phase = "gather" /\ writer = "get" /\ stopping
  /\ writer' = "done"
  /\ UNCHANGED <<startVars, stopVars, pollVars, queue, inHand, stored, logged, periodicVars, restarts>>

\* Mutant of EndWriting: the loop ends as soon as the queue is empty.
EndWritingWhenEmpty ==
  /\ phase = "gather" /\ writer = "get" /\ queue = <<>>
  /\ writer' = "done"
  /\ UNCHANGED <<startVars, stopVars, pollVars, queue, inHand, stored, logged, periodicVars, restarts>>

\* write_once timed out on an empty queue, or has just returned.
EndWriting ==
  /\ phase = "gather" /\ writer = "get" /\ queue = <<>> /\ stopping
  /\ writer' = "done"
  /\ UNCHANGED <<startVars, stopVars, pollVars, queue, inHand, stored, logged, periodicVars, restarts>>

\* process_cycle commits its transaction.
StoreCycle ==
  /\ phase = "gather" /\ writer = "write"
  /\ stored' = [stored EXCEPT ![inHand.league] = inHand.n]
  /\ writer' = "feed"
  /\ UNCHANGED <<startVars, stopVars, pollVars, queue, inHand, logged, periodicVars, restarts>>

\* The live feed (which swallows transient errors) and the pre-match announcements.
FeedDone ==
  /\ phase = "gather" /\ writer = "feed"
  /\ writer' = "log"
  /\ UNCHANGED <<startVars, stopVars, pollVars, queue, inHand, stored, logged, periodicVars, restarts>>

\* Mutant of FeedBlocked: a block met by the writer ends the write loop.
FeedBlockedEndsWriter ==
  /\ phase = "gather" /\ writer = "feed"
  /\ StopIfBlocked
  /\ writer' = "done"
  /\ UNCHANGED <<startVars, pollVars, queue, inHand, stored, logged, periodicVars, restarts>>

FeedBlocked ==
  /\ phase = "gather" /\ writer = "feed"
  /\ StopIfBlocked
  /\ writer' = "log"
  /\ UNCHANGED <<startVars, pollVars, queue, inHand, stored, logged, periodicVars, restarts>>

\* The ok row of collection_log, then the next turn of the loop.
WriteDone ==
  /\ phase = "gather" /\ writer = "log"
  /\ logged' = [logged EXCEPT ![inHand.league] = inHand.n]
  /\ inHand' = NoJob
  /\ writer' = "get"
  /\ UNCHANGED <<startVars, stopVars, pollVars, queue, stored, periodicVars, restarts>>

\* Mutant of WriteCrash: a database error is swallowed and the cycle logged as written.
WriteErrorSwallowed ==
  /\ phase = "gather" /\ writer = "write" /\ "db" \in Faults
  /\ writer' = "log"
  /\ UNCHANGED <<startVars, stopVars, pollVars, queue, inHand, stored, logged, periodicVars, restarts>>

\* write_once lets a database error and the feed's CircuitOpenError through.
WriteCrash ==
  /\ phase = "gather"
  /\ \/ writer \in {"write", "feed", "log"} /\ Crash({"db"})
     \/ writer = "feed" /\ Crash({"circuit"})

WriteStep ==
  Take \/ EndWriting \/ StoreCycle \/ FeedDone \/ FeedBlocked \/ WriteDone \/ WriteCrash

-----------------------------------------------------------------------------
(* The periodic tasks: _periodic swallows every exception but stops on demand. *)

ReconcileStart ==
  /\ phase = "gather" /\ rec = "idle" /\ ~stopping
  /\ rec' = "check" /\ recTodo' = Leagues
  /\ UNCHANGED <<startVars, stopVars, pollVars, writeVars, dict, dictBlocked, restarts>>

ReconcileCheck ==
  /\ phase = "gather" /\ rec = "check"
  /\ rec' = IF stopping \/ recTodo = {} THEN "idle" ELSE "call"
  /\ UNCHANGED <<startVars, stopVars, pollVars, writeVars, recTodo, dict, dictBlocked, restarts>>

ReconcileLeague(l) ==
  /\ phase = "gather" /\ rec = "call" /\ l \in recTodo
  /\ rec' = "check" /\ recTodo' = recTodo \ {l}
  /\ UNCHANGED <<startVars, stopVars, pollVars, writeVars, dict, dictBlocked, restarts>>

ReconcileBlocked ==
  /\ phase = "gather" /\ rec = "call"
  /\ StopIfBlocked
  /\ rec' = "idle" /\ recTodo' = {}
  /\ UNCHANGED <<startVars, pollVars, writeVars, dict, dictBlocked, restarts>>

\* Any other failure abandons the remaining leagues until the next interval.
ReconcileFails ==
  /\ phase = "gather" /\ rec = "call" /\ Faults \ {"blocked"} # {}
  /\ rec' = "idle" /\ recTodo' = {}
  /\ UNCHANGED <<startVars, stopVars, pollVars, writeVars, dict, dictBlocked, restarts>>

ReconcileEnd ==
  /\ phase = "gather" /\ rec = "idle" /\ stopping
  /\ rec' = "done"
  /\ UNCHANGED <<startVars, stopVars, pollVars, writeVars, recTodo, dict, dictBlocked, restarts>>

ReconcileStep ==
  \/ ReconcileStart \/ ReconcileCheck \/ \E l \in Leagues : ReconcileLeague(l)
  \/ ReconcileBlocked \/ ReconcileFails \/ ReconcileEnd

DictStart ==
  /\ phase = "gather" /\ dict = "idle" /\ ~stopping /\ ~dictBlocked
  /\ dict' = "call"
  /\ UNCHANGED <<startVars, stopVars, pollVars, writeVars, rec, recTodo, dictBlocked, restarts>>

\* The refresh succeeded or failed; a blocking CDN ends this task only.
DictDone ==
  /\ phase = "gather" /\ dict = "call"
  /\ dict' = "idle"
  /\ \/ UNCHANGED dictBlocked
     \/ "blocked" \in Faults /\ dictBlocked' = TRUE
  /\ UNCHANGED <<startVars, stopVars, pollVars, writeVars, rec, recTodo, restarts>>

DictEnd ==
  /\ phase = "gather" /\ dict = "idle" /\ (stopping \/ dictBlocked)
  /\ dict' = "done"
  /\ UNCHANGED <<startVars, stopVars, pollVars, writeVars, rec, recTodo, dictBlocked, restarts>>

DictStep == DictStart \/ DictDone \/ DictEnd

-----------------------------------------------------------------------------
(* The end of gather(), the supervisor, and the specification.               *)

Finish ==
  /\ phase = "gather"
  /\ writer = "done" /\ rec = "done" /\ dict = "done"
  /\ \A l \in Leagues : pc[l] = "done"
  /\ phase' = "ended"
  /\ UNCHANGED <<todo, stopVars, pollVars, writeVars, periodicVars, restarts>>

\* "restart: unless-stopped": whatever its exit code, a collector that ends by itself
\* is started again.  Ended without a block means SIGTERM: the operator stopped it.
Restart ==
  /\ phase \in EndPhases
  /\ phase = "ended" => blocked
  /\ restarts < MaxRestarts
  /\ restarts' = restarts + 1
  /\ phase' = "preload" /\ todo' = Leagues
  /\ stopping' = FALSE /\ blocked' = FALSE /\ owed' = [l \in Leagues |-> 0]
  /\ pc' = [l \in Leagues |-> "idle"]
  /\ degraded' = {}
  /\ countdown' = [l \in Leagues |-> 0]
  /\ taken' = [l \in Leagues |-> 0]
  /\ queue' = <<>> /\ writer' = "get" /\ inHand' = NoJob
  /\ stored' = [l \in Leagues |-> 0]
  /\ logged' = [l \in Leagues |-> 0]
  /\ rec' = "idle" /\ recTodo' = {}
  /\ dict' = "idle" /\ dictBlocked' = FALSE

Next ==
  \/ StartStep
  \/ \E l \in Leagues : PollStep(l)
  \/ WriteStep \/ ReconcileStep \/ DictStep
  \/ Stop \/ Finish \/ Restart

Spec == Init /\ [][Next]_vars

\* asyncio runs every ready task, HTTP calls have timeouts and bounded retries, and the
\* database is taken to answer or to fail.  Nothing forces a signal or a restart.
FairSpec ==
  /\ Spec
  /\ WF_vars(StartStep)
  /\ \A l \in Leagues : WF_vars(PollStep(l))
  /\ WF_vars(WriteStep) /\ WF_vars(ReconcileStep) /\ WF_vars(DictStep)
  /\ WF_vars(Finish)

-----------------------------------------------------------------------------
(* Safety.                                                                   *)

\* Where response n of league l is between its reception and its commit.
InQueue(l, n) == \E i \in DOMAIN queue : queue[i] = [league |-> l, n |-> n]
Writing(l, n) == writer = "write" /\ inHand = [league |-> l, n |-> n]
Waiting(l, n) == pc[l] = "put" /\ taken[l] = n

\* No response vanishes inside the process: one that is not committed yet is with its
\* poll loop, in the queue or with the writer (queue.put and write_once).
NothingLost ==
  \A l \in Leagues : \A n \in (stored[l] + 1)..taken[l] :
    Waiting(l, n) \/ InQueue(l, n) \/ Writing(l, n)

\* The single writer commits the responses of a league in the order they were obtained,
\* without a hole, although producers block and resume on a full queue.
WrittenInOrder ==
  writer = "write" => inHand.n = stored[inHand.league] + 1

\* collection_log never claims a cycle whose data is not committed, and misses at most
\* the cycle being written: coverage of the odds history is read from that table.
LogFollowsData ==
  \A l \in Leagues : logged[l] <= stored[l] /\ stored[l] <= logged[l] + 1

\* Back-pressure bounds what a crash can lose: a full queue, one response per poll loop and
\* the writer's job, whatever the leagues and however late the writer is.
CrashLossBounded ==
  Cardinality({r \in Leagues \X (1..MaxCycles) : r[2] > stored[r[1]] /\ r[2] <= taken[r[1]]})
    <= QueueMaxsize + Cardinality(Leagues) + 1

\* stop(): every job already queued when the stop was requested is committed by the time
\* run() returns.
QueuedAtStopIsWritten ==
  phase = "ended" => \A l \in Leagues : stored[l] >= owed[l]

\* stop(): the loops only finish their current step, so each league brings at most one more
\* response after the stop.
OneCycleAfterStop ==
  stopping => \A l \in Leagues : taken[l] <= owed[l] + 1

\* The write loop may end while poll loops are still fetching: the room left in the
\* queue is enough for all of them, so none waits for ever on queue.put.
NoProducerStranded ==
  writer = "done" =>
    Len(queue) + Cardinality({l \in Leagues : pc[l] \notin {"idle", "done"}}) <= QueueMaxsize

-----------------------------------------------------------------------------
(* Liveness, under FairSpec.                                                 *)

\* A stop request, from the operator or after a block, ends the process.
StopTerminates == stopping ~> phase \in EndPhases

\* A response is eventually committed unless the process is asked to stop or dies: the
\* writer never stops draining before the stop.
FetchedIsStored ==
  \A l \in Leagues : \A n \in 1..MaxCycles :
    (phase = "gather" /\ taken[l] >= n) ~> (stored[l] >= n \/ stopping \/ phase # "gather")

\* A degraded league tries its main source again, whatever its fallback does.
FallbackIsProbed ==
  \A l \in Leagues :
    l \in degraded ~> (pc[l] = "v3" \/ taken[l] = MaxCycles \/ stopping \/ phase # "gather")

-----------------------------------------------------------------------------
(* What the documentation says.                                              *)

\* A failing site, an open circuit breaker or an unavailable database only delay the
\* collection, at start-up as well as later (architecture.md, section 8).
OutagesOnlyDelay == phase \notin {"startFailed", "crashed"}

=============================================================================
