# A verification project for the melbet collector and its live predictor

This directory holds TLA+ models of the program in `src/`: a Python service that polls
the odds of a few e-sport leagues, keeps their history in PostgreSQL, follows matches on
Telegram, and a second service that predicts rounds live. TLC checks the models on small
instances, and TLAPS proves their safety and action properties for every instance. Paths below
are relative to the repository; `collector/` stands for `src/collector/` and
`forecasting/` for `src/forecasting/`.

## 1. Inventory

How the parts meet:

    supervisor --> migrations --> the collector:
    site --> HttpClient --> poll loops --> bounded queue --> write loop --> PostgreSQL <-- watchdog (cron)
               |  (limiter, circuit)   |                      |   |            |
               |                       +--> alerts            |   +--> live feed, announcements --> Telegram
               +--> results backfill / reconciliation         |                |
               +--> dictionary                         change detector         +--> predictor --> Telegram,
                                                                               |    live_state.json, journal,
                                                                               |    daily report
                                      volume ml_artifacts: models, champions --+--< daily run

| Component | State it keeps | Operations | What is hard | What makes it correct |
|---|---|---|---|---|
| Scheduler (`collector/scheduler.py`) | stop event, degraded leagues and their countdown, bounded queue, metrics | `run`, `preload_all`, `backfill_once`, `poll_once` and `write_once` in loops, `reconcile_results_once`, `refresh_dictionary_once`, `stop` | one asyncio task per league and three more, that meet on a bounded queue and on a stop event; a block seen by any of them; exceptions nobody catches | nothing obtained is lost inside the process, order, a stop that drains and ends, bounded loss at a crash, an honest `collection_log` |
| Container supervisor (`docker-compose.yml`) | - | restarts what ended | restarts after a block too | what survives is the database only |
| HTTP client (`collector/transport/http.py`, `ratelimit.py`) | lock and date of the last request, failures and opening date of the circuit | `get` with its attempts, `wait`, `before_call`, `on_success`, `on_failure` | calls interleave at every await between the test of the circuit and the answer | spacing, bounded insistence while the circuit refuses, opening on real streaks, termination |
| Proxy pool (`collector/transport/proxypool.py`) | health of each proxy | `acquire`, `report_*` | nothing: not wired | - |
| Sources (`collector/sources`) | none | `fetch_games_by_champ`, legacy fetch and adaptation, `fetch_statistic` | a fallback whose second request may be refused, and whose timer has no direction; a round table behind or ahead of the score | the same meaning as the main source |
| Normalisation (`collector/normalize.py`) | none | `flatten_game` | - | identity of a selection |
| Detection, pipeline, storage (`dedupe.py`, `pipeline.py`, `storage/`) | last content of each selection (memory); `odds_snapshots`, `events`, `game_state` | `preload`, `diff`, `process_cycle` | only changes are written: memory and table must agree across crashes, reloads and withdrawals | the history gives back what was seen; every row is a change |
| Results (`collector/results.py`) | `checkpoints`, `results`, `round_results` | `backfill_results`, `reconcile_recent` | four steps per window, restarts, two mechanisms that must meet | no hole, honest checkpoint, termination |
| Live feed (`live_feed.py`, `telegram_feed.py`) | `match_feed`, `round_results` | `_process_one` | three steps around a call whose answer may be lost; two sources of the same score | no false memory, no repetition without a cause, completeness |
| Announcements (`pre_match.py`) | `match_announcements`, date of the last edit (memory) | `_process_one` | photo or text, edits refused, restarts | the same |
| Alerting (`alerting.py`), watchdog (`scripts/watchdog.py`) | date of the last alert of each key, lost with the process | `alert`, `reset`, `send`; one run of the script | the date is set before the alert is sent, which may fail or be cut by a stop; each run of cron is a new process | a throttle that does not hide an incident, an outage that is told from outside |
| Dictionary (`dictionary.py`) | map and chunks, loaded once | `refresh_unlabeled_markets` | - | labels of known markets |
| Migrations (`storage/migrate.py`) | `schema_migrations`, an advisory lock | `migrate` | two runners with different files, a death between two files, a lock that outlives its holder | whole migrations in order, each once; a success is the level of the files |
| Entry point, configuration, observability, portraits, prototype | none that a decision reads | - | - | - |
| Live predictor (`forecasting/live.py`) | `self.state`, `live_state.json`, `predictions_log.jsonl`, retry dates | `step`: queries, `_update_match`, `_publish`, `_forget_old`, `_save_json`, `_daily_bilan` | several queries that are not one snapshot; journal, message and state saved one after the other | one open prediction, each journalled (but for a full disk at the wrong moment), messages accounted for, completion |
| Production models (`forecasting/production.py`, `__main__.py`) | `champion.json`, model files of each run | `train_production`, `promote`, `load_champions`, `_save_artifacts` | a run that dies in the middle, a reader meanwhile | the champion in place is always readable, and was beaten before it is replaced |
| Journal and daily report (`forecasting/journal.py`, `_daily_bilan`) | `predictions_log.jsonl`, `bilan_state.json` | `append`, `read`, `_daily_bilan` | an append that is cut or fails, a message whose date is not saved | what is lost has its cut write or its full disk, a day is told once |
| Offline study (the rest of `forecasting/`), `scripts/` | files | batch computations, backups | numerical | out of reach of a model checker |

`PROJECT.json` lists every component with its status, and under `hazards` each place
where the code can go wrong in a way a test would hardly reach, with the property that
would tell.

## 2. Modules

| Module | Models | Composes |
|---|---|---|
| `Scheduler` | `scheduler.py`, the supervisor | - |
| `OddsStore` | abstract: what an odds history promises | - |
| `OddsHistory` | site, response, detector, transaction, table, restart | implements `OddsStore` |
| `Transport` | `http.py` and `ratelimit.py` | - |
| `ResultsHistory` | `results.py` | - |
| `Telegram` | what a call of `MatchFeedSender` may do to a chat | - |
| `LiveFeed`, `PreMatch` | `live_feed.py`, `pre_match.py`, one match | `Telegram` |
| `Announcements` | the writer that runs both for every response | `LiveFeed`, `PreMatch` |
| `LivePredictor` | `forecasting/live.py`, one match | `Telegram` |
| `Schema` | abstract: what the migrations promise | - |
| `Migrate` | `storage/migrate.py`, any runners | implements `Schema` |
| `Alerts` | `ThrottledAlerter` and its calls in `scheduler.py` | - |
| `Operations` | the life of the collector (`main.py`), an operator, the database, the watchdog | `Migrate`, `Alerts` |
| `Champions` | `production.py`, `_save_artifacts`, the loading of the models in `live.py` | - |
| `DailyReport` | `journal.py`, `_log_round`, `_daily_bilan` | - |
| `Artifacts` | the volume that the daily run and the service share | `Champions`, `DailyReport` |
| `SchedulerProof`, `TransportProof`, `OddsHistoryProof`, `ResultsProof`, `AnnouncementsProof`, `LivePredictorProof`, `OperationsProof`, `ArtifactsProof` | the theorems about the module of the same name, `Migrate` with `Operations` | that module |

`MC*` modules give model values and symmetries; each `.cfg` is one run. Definitions whose
comment begins with "Mutant of" are plausible bugs of the code; they are used only to
make sure that each property can fail.

### Scheduler

`phase` says where `run()` is. Start-up handles the leagues one by one (`PreloadLeague`,
`BackfillLeague`); then `gather()` runs a poll loop per league (`pc`), the writer, the
reconciliation and the dictionary task. Steps are delimited by the awaits of the code: an
asyncio task cannot be interrupted elsewhere. A response is its rank among those of its
league, which is enough to say that none is lost, repeated or overtaken. What the site and
the database answer is chosen by the environment among `Faults`: `"blocked"` (403, 429),
`"parser"`, `"server"` (the last attempt of `get` failed), `"circuit"`
(`CircuitOpenError`), `"db"`. What the code catches at each place, and what it lets
through, is in the guards: `PollCrash`, `WriteCrash` and `StartFails` are the exceptions
that end the process. `owed`, `taken`, `stored` and `logged` are history variables.
`Restart` is the supervisor: it restarts a process that ended by itself, even after a
block.

### OddsHistory and OddsStore

`site` is what the site says of each game, with the server date `ts` (`updateTs`), which
grows whenever the content changes. A pair (odds, blocked) is one value; `Absent` is both
"not shown" and the stored withdrawal, which the detector treats alike. `Fetch` queues a
response; `BeginCycle`, `ProcessGame` and `Commit` are the transaction of
`process_cycle`, with the table it sees in `draft`; `Crash` rolls it back and empties the
memory; `Preload` rebuilds the memory of the games listed at that moment from
`odds_latest`. `committed` is the history of what the stored responses said. The detector
remembers a quotation as the site gave it, the table as `numeric(8,3)` keeps it, which is what
`Preload` reads back: `Kept` is that rounding. `NotThere` is `ON CONFLICT DO NOTHING`. The
site gives each change a date of its own: two contents under one `updateTs` are assumed away.

`OddsStore` is the promise: responses are recorded in order, each as a whole, the last
one gives the current state, a finished game stays finished. `ImplementsStore` maps the
queue, `odds_latest` and `events` to it.

### Transport

Each caller is an instance of `get()`. `Admitted` and `Refused` are `before_call`;
`EnterLimiter`, `Acquire` and `Wake` are the limiter, whose lock asyncio grants in order;
`Success`, `Blocked` and `Failure` the answers; `Raised` is an exception of httpx that `get`
does not catch and does not count; `GiveUp` the end of the attempts. Dates
are kept as ages, cut where the code stops telling them apart. A timer may fire late.

### ResultsHistory

Time is counted in units of 300 s, to which the code aligns its windows; a match is named
by its start. `BackfillFetch`, `BackfillStore`, `BackfillRounds` and `BackfillCheckpoint` are
the four awaits of a window, since `store_results` writes the results and then their rounds
in two statements; `ReconcileFetch`, `ReconcileStore` and `ReconcileRounds` the reconciliation,
which may fail in between (`ReconcileFails`). A match is `Stored` once both are there. Results are
published by the site at any time up to `Delay` after the start. `MaxBlind` bounds the
time without a completed reconciliation: it is an assumption on the environment, and a
longer blindness than `Lookback` does open a hole (section 6).

### Telegram, LiveFeed, PreMatch, Announcements

`Telegram` gives, for each call, the set of its outcomes: done, not done, or done with
the answer lost; an edit may also find its message deleted, of the other kind, or
unchanged. `LiveFeed` and `PreMatch` translate the two `_process_one` branch by branch,
one action per await that changes state. `Announcements` runs them one after the other
for each queued response, as `write_once` does, with a site that counts down, plays
rounds, labels the end late and fills the round table later or earlier than the
response. Matches share nothing, so one is modelled. `Answer` is what each source says of it:
the fallback gives no direction to the timer, so a match never counts down there. Everything
else in its response (score, label of the end) is taken to be that of the main source.
`misled` remembers that a response of the fallback denied a countdown.

### LivePredictor

`base` is what the collector has written; `seen` what this `step()` has read so far,
query after query; `mem`, `disk` and `journal` the state in memory, `live_state.json` and
`predictions_log.jsonl`. `Update` is `_update_match`, a function without await; `Publish`
is one call of Telegram; `Save` writes the file, `Forget` included. An append to the journal
that fails ends the cycle where it stands: `UpdateFails` leaves the round to be written again,
`ForgetFails` loses it, because `_forget_old` takes the match out of the memory first
(`dropped`), `SaveFails` is the state file itself. Other matches matter in two ways only: a
cycle where no match is active does not publish (`Begin(other)`), and an append for another
match may fail (`OtherFails`).

### Schema, Migrate

A directory of migrations is a function from versions to checksums. `Discover` is
`discover()`, `Acquire` the advisory lock, `ReadApplied` the checks of `migrate` under the
lock, `ApplyNext` the transaction of one file (its SQL and its row), `Fail` a
`MigrationError` or an error of the SQL, `Finish` the normal return. `Cut` is a runner that
dies, or whose directory is not valid: its lock stays with `Ghost` until PostgreSQL notices
the end of the session (`SessionEnds`). `schema` and `level` are history variables: what
the database really went through, and the files of the last success of each runner.
`Schema` has two steps, one more version or a success reported, and `Migrate` implements
it with the identity as refinement mapping.

### Alerts, Operations

`age` is the time since `_last_sent` of a key, in ticks; `sending` says which alert each
task is waiting for, since `alert()` awaits its two channels. `Fall` writes the dead letter
and `Archived` sends the alert of a fall once it is there; with `Recover`, `Block` and
`BlockDictionary` these are the places of `scheduler.py` that alert. `send()` swallows every error, so `Sent`
does not say whether a channel took the message: what the user is known to have been told
(`word`, `blockTold`) is what was attempted.

`Operations` puts them in the life of the collector, which is one of the `Runners` of the
migrations; the others are operators who migrate by hand, as many as one wants: `Launch` (the supervisor starts an
image, maybe another one than before), the migration, `Started`, `End` (`amain` returns
once every task has, with the exit code of a block or without), `Die`. `DbFails` ends every
session, and no dead letter ends without a database, hence the guard of `AlertStep`. The watchdog reads `collection_log`: `lastCycle` is the age of the last good
cycle of a league compared with its limit, `Watch` one run of the script, whose message
may be refused. Its throttle is the memory of a process that ends at once, so it throttles
nothing.

### Champions, DailyReport, Artifacts

A run of the day is numbered by the hour of its data. `Dump`, `Judge`, `Skip` go through
the targets as `train_production` and `promote` do; `Replace` is the atomic replacement of
`champion.json`; `Save` the models of the evaluation, which are written in place and are
torn in between. `RunDies` may happen at each of these points. The service looks for the
newest evaluation (`ReadNewest`), then for the champions (`ReadChampions`): `load_models` has
no await, but the files it reads at two moments are those of another process; a file that
cannot be read raises an exception `run_forever` does not expect (`CannotLoad`). With
`AnyHour`, a run may take the directory of an earlier one, as a second run within the hour or
`--as-of` do.

The journal of `DailyReport` is a sequence of pieces, one per write: a record with its end
of line, or what a cut leaves (`Cuts`): a record without its end, half a record, or half a
record that ends inside a letter of two bytes. What is written after a piece without an
end is glued to it, and nothing is read of a journal with a piece of the last kind
(`Readable`, `Garbled`): `read_text` raises, and the service dies at each report (`CannotRead`).
`LogFails` is an append that fails: the round is logged again by the next cycle, or `dropped`
by `_forget_old`. `DateUnread` is a `bilan_state.json` that cannot be read, which passes for a
first start. `LogRound`, `SaveState`, then the branches of
`_daily_bilan` in order: `FirstReport`, `NotDue`, `NothingToTell`, `Tell`; `"date"` is the
point between the message and its date. `Fault` is one of: a death in the middle of a
write, a disk or a database that fails, a death, an unreadable date, a refused or unanswered
message.

`Artifacts` gives both programs one volume and one supervisor.

## 3. Runs

Every run ends in about three minutes on two cores. Deadlock is checked except in the
runs of `Scheduler`, which really stops, and of `Artifacts`, whose days and runs end with
the bounds.

| Run | Question | Bounds |
|---|---|---|
| `SchedulerSafety` | can a response be lost, overtaken, or a stop forget one or hang a producer? | 2 leagues, queue of 2, 2 responses each, countdown of 2; site failures of all kinds |
| `SchedulerProgress` | what may a crash cost, does everything end up happening? | 1 league, queue of 1, 4 responses, 1 restart, every failure |
| `OddsHistory` | does the table tell what the site showed, are responses stored whole and in order? | 2 games in one response, 1 selection, 3 dates, 2 moves, 2 responses in flight, 1 crash, failed reloads |
| `TransportSafety` | spacing, insistence, opening, termination | 3 callers, 2 attempts, threshold 3, delays of 2 ticks |
| `ResultsSafety` | do backfill and reconciliation meet? | 7 days back, windows of 3, lookback 4, 2 crashes, an unreadable score; results and rounds in two statements |
| `Announcements` | is what is remembered published, once, in order, to the end? | 2 rounds, countdown of 1, both sources, 2 responses waiting, 1 failure, crash or deletion |
| `LivePredictor` | is each prediction alone, journalled, told and forgotten? | 2 rounds, one with a detail, 1 fault of any kind, a new message after 2 failed edits |
| `Operations` | do migrations keep their promise in production, are incidents told? | 1 league, the dictionary and the other tasks, a cooldown of 2 ticks, 2 versions, 3 images: one lacks a late migration, one changes a migration of the others |
| `Artifacts` | is what the service reads whole, are champions beaten, is the day told? | 2 targets, 2 runs, 2 days, 1 round, 1 fault of either program |
| `OddsHistoryNoDetail`, `LivePredictorLate`, `ChampionExam` | a sentence of the code or of its documentation that the code does not keep | the smallest that shows it |

Why these bounds. A queue of as many places as there are leagues is the tightest the
scheduler is configured for, and two leagues are enough for one to overtake, block or
strand the other. Two games make the order inside a transaction matter; three dates and
two responses in flight allow a selection to appear, leave and come back between two
reads. Three callers allow one to hold the limiter, one
to wait and one to be answered; the threshold differs from the number of attempts, so that
a streak crosses calls. Seven days in windows of three end on a cut window, and the clock
runs far enough past the backfill for a match to leave the lookback. A countdown of one
is enough for an announcement to be sent, to count down once and to start, in either source.
One fault is enough
for each of the cuts between two steps; the counts of the properties (`1 + faults`, `1 +
crashes`) are stated so that they remain meaningful with more, and most of them are proved
for any bound (section 5). Three images are the two ways in which the files of two
runners may disagree. Two targets let a run die between the models of one run; two days
let a report be late and a second run find a champion in place. `AnyHour` is FALSE in the
runs: what it breaks is said in section 6.

## 4. Fairness

- `Scheduler`: every task is weakly fair. asyncio runs every ready task, HTTP calls have
  timeouts and bounded attempts. A database call is assumed to answer or to fail: the
  pool of `main.py` sets no command timeout, so this one is an assumption on PostgreSQL
  and the network. Signals, blocks and restarts
  are never forced.
- `OddsHistory`: reload, poll and transaction are weakly fair, and the supervisor
  restarts the process; the site and crashes are free.
- `Transport`: time passes, and a call that has begun goes on; nothing forces a call to
  begin.
- `ResultsHistory`: the process is restarted and the requests of the backfill end. The
  reconciliation is not forced: `MaxBlind` makes the clock wait for it instead, which is
  the assumption under which `NoHole` is stated.
- `Announcements`: the two loops run, the round table catches up and ten seconds pass.
  The site is not forced to play. A match is assumed to stay listed.
- `LivePredictor`: the match is played and written to its end, `step()` goes on, time
  passes, and there are always again cycles in which another match is active (strong
  fairness of `Begin(TRUE)`: matches follow each other every few minutes, all day).
  `HourPasses` assumes that within the hour a message that can be edited has been: without
  it the match is forgotten with its message as it was.
- `Operations`: cron runs the watchdog for ever, and a channel ends up taking a message.
  Nothing is assumed of the collector, of its supervisor or of the database.
- `Artifacts`: the cycle of the service goes on and is restarted, and so does a run that
  has begun and does not die. Days, runs and rounds are free.

## 5. Proofs

`SchedulerProof` proves, for any finite set of leagues, any queue with at least one place
per league, any countdown and any bounds:

| Theorem | Property |
|---|---|
| `TypeCorrect` | `TypeOK`, hence the capacity of the queue |
| `NoResponseLost` | `NothingLost` |
| `CommitsInOrder` | `WrittenInOrder` |
| `LogIsHonest` | `LogFollowsData` |
| `StopDrains` | `QueuedAtStopIsWritten` |
| `StopIsPrompt` | `OneCycleAfterStop` |
| `ProducersNeverStranded` | `NoProducerStranded` |
| `CrashLosesLittle` | `CrashLossBounded` |

None of these is inductive alone. `WrittenInOrder` looks only at the job in hand, so what
is behind it must be known: `RankInv` orders the ranks of a league (committed, then in
hand, then queued, then held by its poll loop), and with `NothingLost` there is no room
for a hole. `HandInv` and `FetchInv` say when a job is in hand and when a response is
being fetched. `StopInv` counts what may still come once a stop is requested: a league
whose loop is in a cycle has everything it owed queued, and brings one response more.
`DrainInv` says that a writer that has ended left everything owed committed. Together
they bound the queue of a stopped writer by one job per league, which is why
`ProducersNeverStranded` needs `QueueAssumption`. `LogInv` is `LogFollowsData` made exact.
`IInv` is the conjunction of these with `TypeOK`, `NothingLost` and
`LogInv`; each theorem is `Init => IInv`, `IInv /\ [Next]_vars => IInv'` and
`IInv => property`. `QueueAssumption` (`QueueMaxsize >= Cardinality(Leagues)`) is the
weakest that makes `NoProducerStranded` true; production has a queue of 100 and four
leagues.

`CrashLossBounded` counts, so it needs no induction over the data but injections: by
`NothingLost` a response at risk is with a poll loop, queued or being written; the first
inject into the leagues, the second into the places of the queue, and there is one of the
third at most.

`TransportProof` proves, for any set of callers and any positive number of attempts,
threshold, recovery time and interval:

| Theorem | Property |
|---|---|
| `ClientTypes` | `TypeOK` |
| `Spacing` | `StartsAreSpaced` |
| `LateAtMostOnce` | `OneLateSend` |
| `OpenedByAStreak` | `OpensOnStreak` |

`StartsAreSpaced` reads only the age of the last start, so the invariant has to say what a
sleeper knows: `SleepInv` says that one task at most holds the lock and that what it has
left to sleep and the age of the last start reach `Interval` together. `QueueInv` (a
waiting task is in the queue, once) makes the head of the queue well defined and keeps
the tail typed. `IdleInv` bounds the attempts. For `OneLateSend`, `LateInv` adds that a task
that has sent late is in neither step of the limiter any more: only an admission brings it
back, and the circuit refuses it. For `OpensOnStreak`, `StreakInv` ties the counter to
the history: the last `failures` answers are failures, and the circuit is open exactly at
the threshold. The two action properties are proved from the invariant in the states
before and after a step.

`OddsHistoryProof` assumes `GoodSource`: `DetailIsGiven` (`"noDetail" \notin Faults`: the finding of
`OddsHistoryNoDetail` is a counterexample otherwise) and `QuotesFit` (`numeric(8,3)` keeps each
quotation: those of the recorded answers of the site in `tests/fixtures` have three decimals at
most; with more, a quotation would differ from itself after a reload and be written again). It proves, for any games, selections
and quotations, any number of responses in flight and of crashes:

| Theorem | Property |
|---|---|
| `HistoryStaysFaithful` | `HistoryIsFaithful` |
| `RowsAreChanges` | `EveryRowIsAChange` |
| `MemoryStaysTrue` | `MemoryMatchesTable` |
| `StoreIsImplemented` | `ImplementsStore`, the refinement of `OddsStore` |
| `HistoryTypes` | `TypeOK`, without `GoodSource` |

The detector inserts a row without reading the table, so everything rests on `MemoryInv`:
what it remembers of a game is the last row of `draft`, which is the table as the
transaction sees it, unless the game has left the site with nothing in flight. `Order`
says why the last row is the last in time: dates grow along the queue (`QueueOrder`), from
what is committed to the queue (`CommittedOrder`), and from the table to what is still to
be written (`RowOrder`). `DraftInv` says which games of the response are already in the
draft, `UpcomingInv` that nothing is known of a game before it is listed, and `TableInv`
carries the properties themselves through the draft. For the types, what `odds_latest` chooses
must be one of the rows: the dates of a selection have a greatest one, which
`LastTime` gets from the well-foundedness of the natural numbers.

`ResultsProof` proves, for any dates, window, look-back, delay and number of crashes:

| Theorem | Property |
|---|---|
| `ResultTypes` | `TypeOK` |
| `CheckpointStaysHonest` | `CheckpointIsHonest` |
| `NoHoleLeft` | `NoHole`, if `MaxBlind + Delay <= Lookback` |

The windows of an anchor are contiguous (`WindowShape`), and the anchor is kept in the
checkpoint (`AnchorInv`), so a window that is stored and checkpointed ends where the last
one began (`WalkInv`). `ClockInv` bounds what may have been published between two completed
reconciliations, `SeenInv` says what a reconciliation under way has read, and `MeetInv`,
that everything published between the first run and the last reconciliation is stored with its
rounds, meets the backfill: the hypothesis is exactly what makes two reconciliations overlap.

`LivePredictorProof` proves, for any number of rounds, of details and of faults:

| Theorem | Property |
|---|---|
| `OnePredictionIsOpen` | `OneOpenPrediction` |
| `JournalledOncePerCrash` | `JournalledOnce` |
| `MessagesAreExplained` | `MessagesAreAccounted` |
| `PredictorTypes` | `TypeOK` |

`OrderInv` says that all the rounds before a predicted one have their winner, in memory and
on disk, and that the score a step has read is not behind what is predicted. `JournalInv`
ties the journal to the `logged` marks: what is not marked in memory was written at most
once per crash, and an append that fails writes nothing; a forgotten match is over, so it is
never predicted afresh. `MessageInv`
pays for each message sent again with a whole row of `MaxEditFailures` failed edits, of
which `Streak` is the current one. `DetailInv` is what the types need besides: the database
is not ahead of the match, nor the details of the rounds ahead of their winners, and an
identifier is that of a message of the chat.

`OperationsProof` proves, for any runners, versions, checksums and images, any leagues and any
cooldown:

| Theorem | Property |
|---|---|
| `MigrationsKeepTheirPromise` | `Migrate` implements `Schema` |
| `MigrationsInOperation` | `ImplementsSchema`, the same inside `Operations` |
| `OperationTypes` | `TypeOK` |
| `RelapsesAreTold` | `RelapseIsTold` |
| `BlocksAreTold` | `BlockIsTold` |

`LockInv` gives the lock to the only runner past `Acquire`; `RowInv` says that
`schema_migrations` tells the history of the schema; `HeldInv` that the rows a runner read
under the lock are still those of the table and agree with its files, which makes its next
file newer than all that is applied. `ToldInv` says that the throttle of a league that is
not degraded, or is writing its dead letter, is free, so a fall is never silent; `BlockInv` that a throttled block has been
told or is leaving; `RunInv` that a process that runs has no exit code yet.

`ArtifactsProof` proves, for any number of targets, runs, days, rounds and faults:

| Theorem | Property |
|---|---|
| `ArtifactTypes` | `TypeOK` |
| `ChampionsStayWhole` | `ChampionsAreWhole`, if `~AnyHour` |
| `ChampionsAreBeaten` | `ReplacedAfterExam`, if `"none" \notin ExamSizes` |
| `LossesAreExplained` | `LossIsExplained` |
| `ReportsAreKept` | `ReportsAreAccounted` |

`WholeInv` extends the property to the dictionary in the memory of the run and says that
champions are older than a run that still writes models: this is what a second run within
the hour, or a run of an earlier date, breaks. `ExamInv` says that what differs from `champion.json` in that dictionary
was beaten; the finding of `ChampionExam` is a counterexample without its hypothesis.

`JournalInv` says that a round that is marked and was not dropped by `_forget_old` has a record
that was written to its end. In a journal that can be decoded, such a record is unreadable only
if the piece before it has no end, and two records do not follow the
same piece: an injection of the rounds lost into the pieces cut gives the bound. `ReportInv`
says of each day how many reports it may have had: one less while its date is to come and not
being written, since the next attempt sends it again. `dated` holds the days that `_daily_bilan` dated
after looking at the journal; that such a day, when it had no message, has nothing to tell stays
true because what is written today is not of a day that is over (`PastRecords`). Nothing is said of
a day that is never dated: a first start, an unreadable date, or a service that is down or in
one long cycle until the next midnight skips a report.

`AnnouncementsProof` proves, for any number of rounds, any countdown, any queue and any number
of crashes, lost answers and deletions:

| Theorem | Property |
|---|---|
| `AnnouncementTypes` | `TypeOK` |
| `RowsAreHonest` | `FeedRowIsHonest` |
| `MessagesAreCounted` | `ExtraMessagesAreExplained` |
| `ChatsGoForward` | `MessagesGoForward` |

The two threads share the faults, so one invariant (`Inv`) serves the four. `OrderInv` says that
the responses are written in the order of the site, the countdown never going up; `EndInv`
that only the last round is labelled as the end. For the feed, `RowInv` is the property, with
what the row of a finished match holds, and `FetchInv` carries it between the awaits: what has
been read from the round table covers all that is published, hence a message is never edited
backwards although the table and the score are two sources. For the announcement, `CaptionInv`
says that no caption is younger than the responses still to be written (`StartedInv`: a message
that says the match starts is about one that has, unless the fallback misled the row or a fault
left it open), and `KindInv` that the
row remembers whether its message is a photo, without which an edit would be refused with no
failure to blame. `CountInv` makes the count inductive: each thread owes one message more when
the next call can only send a new one (`FeedOwes`, `AnnOwes`), and what puts it in debt is a
failure, a crash, a deletion or the very first response. A photo whose caption is already up to
date is such a debt, since the code takes Telegram's "not modified" for a failure there
(section 6): only an edit whose answer or whose row was lost leads to it.

Only model-checked: liveness (`StopTerminates`, `FetchedIsStored`, `FallbackIsProbed`,
`CatchesUp`, `CallsReturn`, `BackfillCompletes`, `FeedIsCompleted`, `OutageIsTold`,
`ServesChampions`, and the three of `LivePredictor`), since the
prover handles neither fairness nor ENABLED. Every invariant and every action property of a
passing run is stated by a theorem. No module declares a RECURSIVE operator.

## 6. Where the code and its documentation differ

Shown by a run (details under `findings` in `PROJECT.json`):

- `OddsHistoryNoDetail`: a game without its detail is dated of its start, so its
  withdrawals are inserted behind newer rows.
- `LivePredictorLate`: a round may be predicted after its result is known. A result that
  comes this way is also counted in the success rate of the journal.
- `ChampionExam`: on an exam day without a round of a target the champion is not evaluated,
  and is replaced as if it were unreadable, before the size of the exam is looked at.

Met while modelling, without a run of their own:

- `AnnouncedStartIsReal` of `Announcements` fails without any fault (`MaxRounds = 1`, `MaxLeft = 2`,
  `MaxQueue = 1`, `MaxFaults = 0`): the fallback source does not say which way its timer runs
  (`sources/legacy/adapter.py:79`), so its answer about a match that is counting down makes the
  announcement say « Le match commence ! », for good (`pre_match.py:58`). `telegram_feed.py:246`:
  "signale que le match a démarré". If the process dies between `pre_match.py:60` and `:62`, the
  countdown comes back on that message once the main source answers: `MessagesGoForward` allows
  that case (`misled`, and a fault) and no other.
- `NothingLeavesTheJournal` of `LivePredictor` fails with one fault (the constants of
  `LivePredictor.cfg`): `_forget_old` drops the match (`forecasting/live.py:494`) before it journals
  its rounds (`:497`), so an append that fails on a full disk there loses them. `live.py:495`: "dernier
  filet : rien de prédit ne sort du journal". `SavedIsJournalled` and `LossIsExplained` name what is
  lost this way (`dropped`), and allow nothing else.
- `TruncatedLineIsIgnored` of `Artifacts` fails with one fault (`MaxRounds = 2`, `MaxDay = 1`,
  `MaxRuns = 1`, `Targets = 1`): a write cut inside the « é » of « évaluation » (`live.py:95`) makes
  the whole journal undecodable, since `forecasting/journal.py:33` decodes it before its `try`.
  `journal.py:37`: "ligne tronquée (arrêt brutal pendant l'écriture) : ignorée". The service then dies
  at each report until somebody repairs the file, hence `~Garbled` in `LossIsExplained` and in
  `ServesChampions`.
- `OutagesOnlyDelay` of `Scheduler` fails with `Faults = {"server"}`, `{"circuit"}` or
  `{"db"}`: a site or database failure during the start-up backfill (`scheduler.py:404`) ends the
  process, and so do `CircuitOpenError` and database errors in the loops, which
  `poll_once` and `write_once` do not catch. `docs/architecture.md:154`, `:156` and `:159`
  promise retries, a pause and a back-pressure. What delays the collection in the end is the
  supervisor's restart, at the price of the queue (`CrashLossBounded`).
- `SingleTrial` of `Transport` fails with two callers: half-open lets every call through
  (`ratelimit.py:50`), not one (`:41`).
- The throttle of the watchdog is the memory of a process that cron starts again each time,
  and the restart after a block empties that of the collector, which alerts again:
  `docs/architecture.md:94` promises throttled alerts.
- `alert()` returns True "si effectivement envoyée", even when both channels failed. The
  alert of a recovery is throttled, while that of a fall is reset: two quick relapses tell
  two falls and one recovery.
- A process that dies cancels the alert it is sending (`gather` cancels the other tasks).
- After a rollback to an older image the collector does not start any more: a migration of the
  newer one is in the table and its file is missing (`Fail` in `Migrate`). This is what
  `migrate.py` is meant to do; the supervisor then restarts it for ever.
- With `AnyHour = TRUE`, a second run within the hour or `--as-of` an earlier one
  (`forecasting/__main__.py:85`) writes over the models of a former run,
  which may be champions by then: `ChampionsAreWhole` fails if it dies. Two runs at the same
  time, which nothing prevents, would also lose a promotion: each writes the whole
  dictionary it read at its start. One run at a time is modelled.
- A model of the evaluation that a dead run has left torn kills the service at each of its
  cycles (`CannotLoad`, and `NewestIsTorn` in `ServesChampions`), although `run_forever` "ne
  s'arrête jamais sur une erreur transitoire". While a run is saving, the service may also
  keep a part of the new models until the next change (`forecasting/live.py:356`).
- An append that is cut is tried again, and the second try is glued to what the first one
  left: neither can be read, so each cut may lose one record (`LossIsExplained`) of a journal
  that is meant to be permanent.
- A day may have no report although nothing failed: `_daily_bilan` looks at yesterday only, so a
  service that spends a whole day in one cycle, or down, skips one.
- An exception of httpx that is neither a timeout nor a transport error (`http.py:101`) leaves
  `get` without a word to the circuit (`Raised`).
- A block stops the collector "jamais réessayé" (`collector/transport/errors.py:6`), but
  `main.py:113` ends with code 3 and `docker-compose.yml:47` restarts it at once:
  `Restart` after `blocked` in `Scheduler`.
- After a failed reload, unchanged selections are written again: `NoFalseChange` fails
  with `Faults = {"preload"}` when `~blind` is not assumed, where
  `docs/architecture.md:160` promises "pas de faux changements massifs".
- With `MaxBlind > Lookback` (for instance `FirstRun = 5`, `DaysBack = 5`, `Window = 2`,
  `Lookback = 2`, `MaxBlind = 5`, `MaxTime = 11`), `NoHole` fails: a collector that is
  down for longer than `lookback_hours` never reads the results in between, since the
  backfill keeps its first anchor (`docs/architecture.md:20`: "ne jamais perdre
  silencieusement une donnée").
- A request already admitted may leave, and even close the circuit, while the circuit
  refuses calls: `OneLateSend` bounds it to one per task.
- The last edit of an announcement is not retried when it fails (`pre_match.py:59`), and
  a caption that is already up to date counts as a failure (`telegram_feed.py:156`),
  unlike a text (`telegram_feed.py:95`).
- When no other match is active, the last edit of a match is not retried
  (`forecasting/live.py:374` and `:389`); a match that is never told finished is never
  forgotten.
- `game_state` gets a row at each new server date, and not "sur changement"
  (`docs/architecture.md:117`); the slower limiter after 429 and the spool on disk of
  `docs/architecture.md:155` and `:159` do not exist.

## 7. What is not modelled

- Values: odds, names, probabilities, dates of a match, wording of a message. They are
  model values, ranks or records of what a property looks at.
- Pure code: parsing of scores, of parameters and of the dictionary files.
- Durations, except where the code compares them: the limiter, the circuit, the
  countdown of a degraded league, ten seconds between two edits, the windows.
- `first_seen` and `last_seen` of an event, latencies, metrics, log records.
- The market quotes of the predictor. Whether a prediction has a detail to wait for is a
  constant (`WithDetail`).
- PostgreSQL: transactions are atomic and what is committed stays.
- The training of the models and their scores: an exam is won or lost. The options of the
  command line that skip the production models or choose targets, the written report and
  its message.
- The channels of an alert: a send either returns or is cut.
- A `live_state.json` that cannot be read, which would empty the state as an absent one does: it
  is replaced atomically.
- The fallback source apart from the detail of a game and the direction of its timer.
- The proxy pool (nothing calls it), the prototype, the offline study, the backups and the
  other scripts run by hand.

## 8. Plan

Done, in this order: `Scheduler` and its proof; `OddsHistory` with `OddsStore`;
`Transport` and its proof; `ResultsHistory`; `Telegram`, `LiveFeed`, `PreMatch`,
`Announcements`; `LivePredictor`; `Schema`, `Migrate`, `Alerts`, `Operations` and their
proofs; `Champions`, `DailyReport`, `Artifacts` and the proof about the champions;
`ResultsProof`, `OddsHistoryProof`, `LivePredictorProof`; `AnnouncementsProof`, the proofs about
the journal, the report, the loss of a crash and the remaining types.

Next, most useful first:

1. Abstract specifications of the threads and of the daily report, with the refinements proved.
2. The dictionary: its lazily loaded map and chunks, and a refresh that fails in between.
3. Concurrent daily runs on one volume.
4. The fallback source as a second site, whose odds and scores may lag behind the main one.
