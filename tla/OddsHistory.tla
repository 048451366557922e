---------------------------- MODULE OddsHistory ----------------------------
(***************************************************************************)
(* One league's odds, from the site to odds_snapshots and back:               *)
(* src/src/collector/pipeline.py, dedupe.py, normalize.py, storage/writer.py, *)
(* sources/legacy/adapter.py, and the reload of the detector at start-up.     *)
(*                                                                         *)
(*   site --> response --> queue --> process_cycle --> odds_snapshots         *)
(*                                    |   ^                  |               *)
(*                                    ChangeDetector <-- preload             *)
(*                                                                         *)
(* A row is written only when the content of a selection differs from what    *)
(* the detector remembers, so the history is readable only as long as that    *)
(* memory agrees with the table.  The pair (odds, blocked) of a selection is  *)
(* one value; Absent stands for a selection that is not shown and for the     *)
(* stored withdrawal (odds = NULL), which the detector treats alike.          *)
(***************************************************************************)
EXTENDS Naturals, Sequences, FiniteSets

LOCAL INSTANCE FiniteSetsExt

CONSTANTS
  Games,        \* games of the league
  Selections,   \* selections of a game
  Odds,         \* pairs (odds, blocked)
  Absent,       \* not shown, or withdrawn
  Kept,         \* what numeric(8,3), the type of the column, keeps of each pair
  Faults,       \* which of FaultKinds the environment may produce
  StartTs,      \* announced start of a game (champ_game.S)
  MaxTs,        \* bound on the server clock of a game
  MaxMoves,     \* bound on the moves of all games together
  MaxInFlight,  \* bound on the responses waiting to be written
  MaxCrashes    \* bound on the deaths of the process

\* "preload": the site fails while the detector is reloaded.
\* "noDetail": GetGameZip answers Success = false on the fallback source.
FaultKinds == {"preload", "noDetail"}

ASSUME FaultsAssumption == Faults \subseteq FaultKinds
ASSUME AbsentAssumption == Absent \notin Odds
ASSUME KeptAssumption ==
  /\ Kept \in [Odds \cup {Absent} -> Odds \cup {Absent}]
  /\ Kept[Absent] = Absent /\ \A o \in Odds : Kept[o] # Absent
ASSUME BoundsAssumption ==
  /\ MaxTs \in Nat /\ StartTs \in 1..MaxTs
  /\ MaxMoves \in Nat /\ MaxInFlight \in Nat \ {0} /\ MaxCrashes \in Nat

Content == [Selections -> Odds \cup {Absent}]
Stages == {"playing", "finished"}
Nothing == [s \in Selections |-> Absent]

\* What a response says of one game, and a row of odds_snapshots.
Snapshot == [ts : 1..MaxTs, shown : Content, stage : Stages]
Row == [game : Games, sel : Selections, ts : 1..MaxTs, odds : Odds \cup {Absent}]

VARIABLES
  listing,    \* where each game is for the site: "upcoming", "listed" or "gone"
  site,       \* what the site says of each game
  proc,       \* the process: "down", "preload", "idle", or "txn" inside a transaction
  inFlight,   \* responses obtained and not written yet
  todo,       \* games of the head response the open transaction has not handled
  detector,   \* ChangeDetector._state
  db,         \* committed tables: odds_snapshots, finished events, game_state
  draft,      \* the same tables as the open transaction sees them
  committed,  \* history: what the committed responses said
  blind,      \* history: some reload of the detector has failed
  crashes     \* deaths so far

siteVars == <<listing, site>>
vars == <<siteVars, proc, inFlight, todo, detector, db, draft, committed, blind, crashes>>

Tables == [odds : SUBSET Row, finished : SUBSET Games,
           states : SUBSET [game : Games, ts : 1..MaxTs, stage : Stages]]

TypeOK ==
  /\ listing \in [Games -> {"upcoming", "listed", "gone"}]
  /\ site \in [Games -> Snapshot]
  /\ proc \in {"down", "preload", "idle", "txn"}
  /\ Len(inFlight) <= MaxInFlight
  /\ \A i \in DOMAIN inFlight :
       DOMAIN inFlight[i] \subseteq Games /\ \A g \in DOMAIN inFlight[i] : inFlight[i][g] \in Snapshot
  /\ todo \subseteq Games
  /\ detector \in [Games -> Content]
  /\ db \in Tables /\ draft \in Tables
  /\ committed \subseteq [game : Games, ts : 1..MaxTs, shown : Content]
  /\ blind \in BOOLEAN /\ crashes \in 0..MaxCrashes

Init ==
  /\ listing = [g \in Games |-> "upcoming"]
  /\ site = [g \in Games |-> [ts |-> 1, shown |-> Nothing, stage |-> "playing"]]
  /\ proc = "preload"
  /\ inFlight = <<>> /\ todo = {}
  /\ detector = [g \in Games |-> Nothing]
  /\ db = [odds |-> {}, finished |-> {}, states |-> {}]
  /\ draft = db
  /\ committed = {} /\ blind = FALSE
  /\ crashes = 0

-----------------------------------------------------------------------------
(* Reading the history.                                                      *)

\* The state of a selection at ts: its last row at or before ts.
AsOf(odds, g, s, ts) ==
  LET past == {r \in odds : r.game = g /\ r.sel = s /\ r.ts <= ts}
  IN  IF past = {} THEN Absent
      ELSE (CHOOSE r \in past : \A q \in past : q.ts <= r.ts).odds

\* The view odds_latest.
Latest(odds, g) == [s \in Selections |-> AsOf(odds, g, s, MaxTs)]

-----------------------------------------------------------------------------
(* The site: updateTs grows whenever the content changes, and also without.  *)

Appear(g) ==
  /\ listing[g] = "upcoming"
  /\ listing' = [listing EXCEPT ![g] = "listed"]
  /\ UNCHANGED <<site, proc, inFlight, todo, detector, db, draft, committed, blind, crashes>>

Disappear(g) ==
  /\ listing[g] = "listed"
  /\ listing' = [listing EXCEPT ![g] = "gone"]
  /\ UNCHANGED <<site, proc, inFlight, todo, detector, db, draft, committed, blind, crashes>>

Moves == MapThenSumSet(LAMBDA g : site[g].ts - 1, Games)

SiteMoves(g) ==
  /\ listing[g] = "listed" /\ site[g].ts < MaxTs /\ Moves < MaxMoves
  /\ \E shown \in Content, stage \in Stages :
       site' = [site EXCEPT ![g] = [ts |-> @.ts + 1, shown |-> shown, stage |-> stage]]
  /\ UNCHANGED <<listing, proc, inFlight, todo, detector, db, draft, committed, blind, crashes>>

Site == \E g \in Games : Appear(g) \/ Disappear(g) \/ SiteMoves(g)

-----------------------------------------------------------------------------
(* Start-up: preload_all for this league.                                    *)

Listed == {g \in Games : listing[g] = "listed"}

\* Mutant of Preload: the detector starts empty.
PreloadNothing ==
  /\ proc = "preload"
  /\ proc' = "idle"
  /\ UNCHANGED <<siteVars, inFlight, todo, detector, db, draft, committed, blind, crashes>>

\* The games the site lists are reloaded from odds_latest.
Preload ==
  /\ proc = "preload"
  /\ detector' = [g \in Games |-> IF g \in Listed THEN Latest(db.odds, g) ELSE Nothing]
  /\ proc' = "idle"
  /\ UNCHANGED <<siteVars, inFlight, todo, db, draft, committed, blind, crashes>>

\* A ServerError or ParserError is logged: the detector stays empty.
PreloadFails ==
  /\ proc = "preload" /\ "preload" \in Faults
  /\ proc' = "idle" /\ blind' = TRUE
  /\ UNCHANGED <<siteVars, inFlight, todo, detector, db, draft, committed, crashes>>

-----------------------------------------------------------------------------
(* The poll loop obtains responses while the writer works.                   *)

\* adapt_game: without its detail, a game has no market and is dated of its start.
WithoutDetail(snap) == [ts |-> StartTs, shown |-> Nothing, stage |-> snap.stage]

\* Games of D are those whose detail the fallback source refused.
Fetch(D) ==
  /\ proc \in {"idle", "txn"} /\ Len(inFlight) < MaxInFlight
  /\ D \subseteq Listed
  /\ D # {} => "noDetail" \in Faults
  /\ inFlight' = Append(inFlight,
       [g \in Listed |-> IF g \in D THEN WithoutDetail(site[g]) ELSE site[g]])
  /\ UNCHANGED <<siteVars, proc, todo, detector, db, draft, committed, blind, crashes>>

-----------------------------------------------------------------------------
(* process_cycle: one transaction per response.                              *)

BeginCycle ==
  /\ proc = "idle" /\ inFlight # <<>>
  /\ proc' = "txn"
  /\ todo' = DOMAIN Head(inFlight)
  /\ UNCHANGED <<siteVars, inFlight, detector, db, draft, committed, blind, crashes>>

\* Mutant of Diff: a selection that leaves the response is not noticed.
DiffWithoutWithdrawals(g, snap) ==
  {[game |-> g, sel |-> s, ts |-> snap.ts, odds |-> Kept[snap.shown[s]]] :
     s \in {t \in Selections : snap.shown[t] # detector[g][t] /\ snap.shown[t] # Absent}}

\* Mutant of Diff: an absent selection is written again at every cycle.
DiffRepeatsWithdrawals(g, snap) ==
  {[game |-> g, sel |-> s, ts |-> snap.ts, odds |-> Kept[snap.shown[s]]] :
     s \in {t \in Selections : snap.shown[t] # detector[g][t] \/ snap.shown[t] = Absent}}

\* ChangeDetector.diff: new and changed selections, and those just withdrawn, as the table
\* keeps them; the detector remembers them as the site gave them.
Diff(g, snap) ==
  {[game |-> g, sel |-> s, ts |-> snap.ts, odds |-> Kept[snap.shown[s]]] :
     s \in {t \in Selections : snap.shown[t] # detector[g][t]}}

\* ON CONFLICT (ts_server, game, selection) DO NOTHING.
NotThere(odds, rows) ==
  {r \in rows : \A q \in odds : <<q.game, q.sel, q.ts>> # <<r.game, r.sel, r.ts>>}

\* upsert_event: a finished game stays finished.
StatusAfter(finished, g, snap) ==
  IF snap.stage = "finished" THEN finished \cup {g} ELSE finished

\* insert_game_state: the first state of a game at ts is kept.
StatesAfter(states, g, snap) ==
  IF \E q \in states : q.game = g /\ q.ts = snap.ts THEN states
  ELSE states \cup {[game |-> g, ts |-> snap.ts, stage |-> snap.stage]}

ProcessGame(g) ==
  /\ proc = "txn" /\ g \in todo
  /\ LET snap == Head(inFlight)[g]
     IN  /\ draft' = [odds |-> draft.odds \cup NotThere(draft.odds, Diff(g, snap)),
                      finished |-> StatusAfter(draft.finished, g, snap),
                      states |-> StatesAfter(draft.states, g, snap)]
         /\ detector' = [detector EXCEPT ![g] = snap.shown]
  /\ todo' = todo \ {g}
  /\ UNCHANGED <<siteVars, proc, inFlight, db, committed, blind, crashes>>

Commit ==
  /\ proc = "txn" /\ todo = {}
  /\ db' = draft
  /\ committed' = committed \cup
       {[game |-> g, ts |-> Head(inFlight)[g].ts, shown |-> Head(inFlight)[g].shown] :
          g \in DOMAIN Head(inFlight)}
  /\ inFlight' = Tail(inFlight)
  /\ proc' = "idle"
  /\ UNCHANGED <<siteVars, todo, detector, draft, blind, crashes>>

-----------------------------------------------------------------------------
(* Death of the process, at any point: the transaction is rolled back.       *)

\* Mutant of Crash: every game is its own transaction.
CrashKeepsDraft ==
  /\ proc # "down" /\ crashes < MaxCrashes
  /\ proc' = "down" /\ crashes' = crashes + 1
  /\ db' = draft
  /\ inFlight' = <<>> /\ todo' = {}
  /\ detector' = [g \in Games |-> Nothing]
  /\ UNCHANGED <<siteVars, draft, committed, blind>>

Crash ==
  /\ proc # "down" /\ crashes < MaxCrashes
  /\ proc' = "down" /\ crashes' = crashes + 1
  /\ draft' = db
  /\ inFlight' = <<>> /\ todo' = {}
  /\ detector' = [g \in Games |-> Nothing]
  /\ UNCHANGED <<siteVars, db, committed, blind>>

Restart ==
  /\ proc = "down"
  /\ proc' = "preload"
  /\ UNCHANGED <<siteVars, inFlight, todo, detector, db, draft, committed, blind, crashes>>

Collect ==
  \/ Preload \/ PreloadFails
  \/ \E D \in SUBSET Games : Fetch(D)
  \/ BeginCycle \/ (\E g \in Games : ProcessGame(g)) \/ Commit
  \/ Restart

Next == Site \/ Collect \/ Crash

Spec == Init /\ [][Next]_vars

\* The poll loop and the writer are two tasks that asyncio both runs; the supervisor
\* restarts the process.  The site and the crashes are under no obligation.
FairSpec ==
  /\ Spec
  /\ WF_vars(Preload) /\ WF_vars(Restart)
  /\ WF_vars(Fetch({}))
  /\ WF_vars(BeginCycle \/ (\E g \in Games : ProcessGame(g)) \/ Commit)

-----------------------------------------------------------------------------
(* Properties.                                                               *)

\* The history answers for every stored response: read at the time of the response, it
\* gives back what the response showed (odds_snapshots, append only); only a withdrawal can
\* be missing, and only once a reload of the detector has failed.
HistoryIsFaithful ==
  \A c \in committed : \A s \in Selections :
    (blind => c.shown[s] # Absent) => AsOf(db.odds, c.game, s, c.ts) = c.shown[s]

\* Every row is a change: no row repeats the one before it and a selection is reported
\* withdrawn once, across restarts too ("pas de faux changements massifs").
NoFalseChange ==
  \A r \in db.odds : AsOf(db.odds, r.game, r.sel, r.ts - 1) # r.odds

\* The same, as long as the detector was reloaded at every start (ChangeDetector.preload).
EveryRowIsAChange == ~blind => NoFalseChange

\* Between two cycles the detector remembers what odds_latest says of the listed games.
MemoryMatchesTable ==
  proc = "idle" /\ ~blind => \A g \in Listed : detector[g] = Latest(db.odds, g)

\* The queue and the tables implement the abstract store: responses recorded in order and
\* as a whole, the last one giving the current state, no reopening of a finished game.
Answer(r) == [g \in DOMAIN r |-> [shown |-> r[g].shown, over |-> r[g].stage = "finished"]]

Store == INSTANCE OddsStore WITH
  pending <- [i \in 1..Len(inFlight) |-> Answer(inFlight[i])],
  current <- [g \in Games |-> Latest(db.odds, g)],
  finished <- db.finished

ImplementsStore == Store!Spec

\* When the site rests, the current state of the table becomes what the site shows; only a
\* withdrawal can stay unknown, after a reload that failed.
CatchesUp ==
  <>[](\A g \in Listed : \A s \in Selections :
         (blind => site[g].shown[s] # Absent) => Latest(db.odds, g)[s] = site[g].shown[s])

=============================================================================
