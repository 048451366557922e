-------------------------- MODULE OddsHistoryProof --------------------------
(***************************************************************************)
(* The odds history is faithful, for any games, selections, odds, number of    *)
(* responses in flight and number of crashes, as long as the source gives the  *)
(* detail of every game it lists and quotes with three decimals at most         *)
(* (GoodSource).                                                             *)
(*                                                                         *)
(* A response, a stored row and a committed answer about one game are ordered   *)
(* by the clock of the site and agree when their times do (QueueOrder,          *)
(* CommittedOrder, RowOrder): the content of a game at a time is one.  With     *)
(* that, what the detector remembers is the last row of the table (MemoryInv),  *)
(* and a transaction only moves the games it has handled (DraftInv).            *)
(***************************************************************************)
EXTENDS OddsHistory, SequenceTheorems, WellFoundedInduction, TLAPS

DetailIsGiven == "noDetail" \notin Faults

\* The site quotes with no more decimals than the column has.
QuotesFit == \A o \in Odds : Kept[o] = o

GoodSource == DetailIsGiven /\ QuotesFit

Responses == UNION {[G -> Snapshot] : G \in SUBSET Games}

Shape ==
  /\ GoodSource
  /\ listing \in [Games -> {"upcoming", "listed", "gone"}]
  /\ site \in [Games -> Snapshot]
  /\ proc \in {"down", "preload", "idle", "txn"}
  /\ inFlight \in Seq(Responses)
  /\ todo \subseteq Games
  /\ detector = [g \in Games |-> [s \in Selections |-> detector[g][s]]]
  /\ draft.odds \subseteq Row /\ db.odds \subseteq draft.odds
  /\ committed \subseteq [game : Games, ts : 1..MaxTs, shown : Content]

\* The games of the open transaction that are handled.
Done == DOMAIN Head(inFlight) \ todo

ProcInv ==
  /\ proc = "txn" => inFlight # <<>> /\ todo \subseteq DOMAIN Head(inFlight)
  /\ proc # "txn" => draft = db
  /\ proc \in {"down", "preload"} => inFlight = <<>> /\ detector = [g \in Games |-> Nothing]

\* Nothing is known of a game before the site lists it.
UpcomingInv ==
  \A g \in Games : listing[g] = "upcoming" =>
    /\ \A i \in 1..Len(inFlight) : g \notin DOMAIN inFlight[i]
    /\ \A r \in draft.odds : r.game # g

Before(a, b) == a.ts <= b.ts /\ (a.ts = b.ts => a.shown = b.shown)
RowBefore(r, b) == r.ts <= b.ts /\ (r.ts = b.ts => r.odds = b.shown[r.sel])

QueueOrder ==
  \A i \in 1..Len(inFlight) : \A g \in DOMAIN inFlight[i] :
    /\ Before(inFlight[i][g], site[g])
    /\ \A j \in 1..Len(inFlight) :
         i <= j /\ g \in DOMAIN inFlight[j] => Before(inFlight[i][g], inFlight[j][g])

CommittedOrder ==
  \A c \in committed :
    /\ Before(c, site[c.game])
    /\ \A i \in 1..Len(inFlight) : c.game \in DOMAIN inFlight[i] => Before(c, inFlight[i][c.game])

RowOrder ==
  \A r \in draft.odds :
    /\ RowBefore(r, site[r.game])
    /\ \A i \in 1..Len(inFlight) : r.game \in DOMAIN inFlight[i] => RowBefore(r, inFlight[i][r.game])

\* The primary key of odds_snapshots.
Keyed(odds) ==
  \A q, r \in odds : q.game = r.game /\ q.sel = r.sel /\ q.ts = r.ts => q = r

\* What the detector remembers of a game that can still be shown is in the table.
MemoryInv ==
  proc \in {"idle", "txn"} =>
    \A g \in Games :
      \/ listing[g] = "gone" /\ \A i \in 1..Len(inFlight) : g \notin DOMAIN inFlight[i]
      \/ \A s \in Selections :
           (blind => detector[g][s] # Absent) =>
             AsOf(draft.odds, g, s, MaxTs) = detector[g][s]

DraftInv ==
  proc = "txn" =>
    /\ \A g \in Done : detector[g] = Head(inFlight)[g].shown
    /\ \A g \in Games : \A s \in Selections :
         \/ AsOf(draft.odds, g, s, MaxTs) = AsOf(db.odds, g, s, MaxTs)
         \/ g \in Done /\ AsOf(draft.odds, g, s, MaxTs) = Head(inFlight)[g].shown[s]
    /\ draft.finished = db.finished \cup {g \in Done : Head(inFlight)[g].stage = "finished"}

Faithful(odds) ==
  \A c \in committed : \A s \in Selections :
    (blind => c.shown[s] # Absent) => AsOf(odds, c.game, s, c.ts) = c.shown[s]

Changes(odds) ==
  ~blind => \A r \in odds : AsOf(odds, r.game, r.sel, r.ts - 1) # r.odds

TableInv ==
  /\ Keyed(draft.odds)
  /\ Faithful(draft.odds) /\ Faithful(db.odds)
  /\ Changes(draft.odds) /\ Changes(db.odds)

Order == QueueOrder /\ CommittedOrder /\ RowOrder

IInv == Shape /\ ProcInv /\ UpcomingInv /\ Order /\ MemoryInv /\ DraftInv /\ TableInv

-----------------------------------------------------------------------------
(* Reading the table.                                                        *)

\* Only the rows of a selection up to a time count.
LEMMA AsOfSame ==
  ASSUME NEW A, NEW B, NEW g, NEW s, NEW t, NEW u,
         \A r : (r \in A /\ r.game = g /\ r.sel = s /\ r.ts <= t)
                <=> (r \in B /\ r.game = g /\ r.sel = s /\ r.ts <= u)
  PROVE  AsOf(A, g, s, t) = AsOf(B, g, s, u)
<1>. DEFINE inA == {r \in A : r.game = g /\ r.sel = s /\ r.ts <= t}
            inB == {r \in B : r.game = g /\ r.sel = s /\ r.ts <= u}
            LastOdds(past) == IF past = {} THEN Absent
                              ELSE (CHOOSE r \in past : \A q \in past : q.ts <= r.ts).odds
<1>1. inA = inB
  OBVIOUS
<1>2. AsOf(A, g, s, t) = LastOdds(inA) /\ AsOf(B, g, s, u) = LastOdds(inB)
  BY DEF AsOf
<1>. HIDE DEF inA, inB, LastOdds
<1>. QED
  BY <1>1, <1>2

LEMMA AsOfNone ==
  ASSUME NEW A, NEW g, NEW s, NEW t, \A r \in A : r.game # g \/ r.sel # s
  PROVE  AsOf(A, g, s, t) = Absent
<1>1. {r \in A : r.game = g /\ r.sel = s /\ r.ts <= t} = {}
  OBVIOUS
<1>. QED
  BY <1>1 DEF AsOf

LEMMA AsOfLast ==
  ASSUME NEW A \in SUBSET Row, Keyed(A), NEW t \in Nat, NEW r \in A, r.ts <= t,
         \A q \in A : q.game = r.game /\ q.sel = r.sel /\ q.ts <= t => q.ts <= r.ts
  PROVE  AsOf(A, r.game, r.sel, t) = r.odds
<1>. DEFINE past == {q \in A : q.game = r.game /\ q.sel = r.sel /\ q.ts <= t}
            last == CHOOSE p \in past : \A q \in past : q.ts <= p.ts
<1>1. r \in past /\ \A q \in past : q.ts <= r.ts
  OBVIOUS
<1>2. last \in past /\ \A q \in past : q.ts <= last.ts
  BY <1>1, Zenon
<1>3. last.ts = r.ts
  BY <1>1, <1>2, BoundsAssumption DEF Row
<1>4. last = r
  BY <1>2, <1>3 DEF Keyed
<1>5. AsOf(A, r.game, r.sel, t) = IF past = {} THEN Absent ELSE last.odds
  BY DEF AsOf
<1>. QED
  BY <1>1, <1>4, <1>5

-----------------------------------------------------------------------------
(* A game of the open transaction.                                           *)

Snap(g) == Head(inFlight)[g]
Added(g) == NotThere(draft.odds, Diff(g, Snap(g)))

LEMMA SnapShape ==
  ASSUME Shape, ProcInv, proc = "txn", NEW g \in DOMAIN Head(inFlight)
  PROVE  /\ g \in Games /\ Snap(g) \in Snapshot
         /\ Snap(g).ts \in Nat /\ Snap(g).ts <= MaxTs /\ Snap(g).ts >= 1
         /\ 1 \in 1..Len(inFlight) /\ Snap(g) = inFlight[1][g] /\ Head(inFlight) = inFlight[1]
<1>1. inFlight \in Seq(Responses) /\ inFlight # <<>>
  BY DEF Shape, ProcInv
<1>2. 1 \in 1..Len(inFlight) /\ Head(inFlight) = inFlight[1] /\ Head(inFlight) \in Responses
  BY <1>1
<1>3. g \in Games /\ Snap(g) \in Snapshot
  BY <1>2 DEF Responses, Snap
<1>. QED
  BY <1>2, <1>3, BoundsAssumption DEF Snap, Snapshot

\* The rows added are new, and each one changes what the detector remembers.
LEMMA AddedRows ==
  ASSUME Shape, ProcInv, proc = "txn", NEW g \in todo, NEW r \in Added(g)
  PROVE  /\ r \in Row /\ r.game = g /\ r.sel \in Selections /\ r.ts = Snap(g).ts
         /\ r.odds = Snap(g).shown[r.sel] /\ r.odds # detector[g][r.sel]
         /\ \A q \in draft.odds : ~(q.game = r.game /\ q.sel = r.sel /\ q.ts = r.ts)
<1>1. g \in DOMAIN Head(inFlight) /\ g \in Games
  BY DEF Shape, ProcInv
<1>2. Snap(g) \in Snapshot
  BY <1>1, SnapShape
<1>3. r \in Diff(g, Snap(g)) /\ \A q \in draft.odds : <<q.game, q.sel, q.ts>> # <<r.game, r.sel, r.ts>>
  BY DEF Added, NotThere
<1>4. PICK s \in Selections :
        /\ Snap(g).shown[s] # detector[g][s]
        /\ r = [game |-> g, sel |-> s, ts |-> Snap(g).ts, odds |-> Kept[Snap(g).shown[s]]]
  BY <1>3 DEF Diff
<1>5. Snap(g).ts \in 1..MaxTs /\ Snap(g).shown[s] \in Odds \cup {Absent}
  BY <1>2 DEF Snapshot, Content
<1>6. Kept[Snap(g).shown[s]] = Snap(g).shown[s]
  BY <1>5, KeptAssumption DEF Shape, GoodSource, QuotesFit
<1>. QED
  BY <1>1, <1>3, <1>4, <1>5, <1>6 DEF Row

\* Every selection that differs has its row afterwards.
LEMMA ChangeHasRow ==
  ASSUME Shape, ProcInv, proc = "txn", NEW g \in todo, NEW s \in Selections,
         Snap(g).shown[s] # detector[g][s]
  PROVE  \E r \in draft.odds \cup Added(g) : r.game = g /\ r.sel = s /\ r.ts = Snap(g).ts
<1>. DEFINE new == [game |-> g, sel |-> s, ts |-> Snap(g).ts, odds |-> Kept[Snap(g).shown[s]]]
<1>1. new \in Diff(g, Snap(g)) /\ new.game = g /\ new.sel = s /\ new.ts = Snap(g).ts
  BY DEF Diff
<1>. HIDE DEF new
<1>2. CASE new \in Added(g)
  BY <1>1, <1>2
<1>3. CASE new \notin Added(g)
  <2>1. PICK q \in draft.odds : <<q.game, q.sel, q.ts>> = <<new.game, new.sel, new.ts>>
    BY <1>1, <1>3 DEF Added, NotThere
  <2>. QED
    BY <1>1, <2>1
<1>. QED
  BY <1>2, <1>3

\* The table stays keyed and ordered.
LEMMA AddedKeyed ==
  ASSUME IInv, proc = "txn", NEW g \in todo
  PROVE  /\ draft.odds \cup Added(g) \subseteq Row
         /\ Keyed(draft.odds \cup Added(g))
         /\ \A r \in draft.odds \cup Added(g) : r.game = g => RowBefore(r, Snap(g))
<1>. USE DEF IInv
<1>0. g \in DOMAIN Head(inFlight)
  BY DEF ProcInv
<1>1. draft.odds \cup Added(g) \subseteq Row
  BY AddedRows DEF Shape
<1>2. Keyed(draft.odds \cup Added(g))
  <2>. SUFFICES ASSUME NEW q \in draft.odds \cup Added(g), NEW r \in draft.odds \cup Added(g),
                       q.game = r.game, q.sel = r.sel, q.ts = r.ts
                PROVE  q = r
    BY DEF Keyed
  <2>1. CASE q \in draft.odds /\ r \in draft.odds
    BY <2>1 DEF TableInv, Keyed
  <2>2. CASE q \in Added(g) /\ r \in Added(g)
    <3>1. q.odds = r.odds /\ q \in Row /\ r \in Row
      BY <2>2, AddedRows
    <3>. QED
      BY <3>1 DEF Row
  <2>3. CASE q \in draft.odds /\ r \in Added(g)
    BY <2>3, AddedRows
  <2>4. CASE q \in Added(g) /\ r \in draft.odds
    BY <2>4, AddedRows
  <2>. QED
    BY <2>1, <2>2, <2>3, <2>4
<1>3. ASSUME NEW r \in draft.odds \cup Added(g), r.game = g
      PROVE  RowBefore(r, Snap(g))
  <2>1. CASE r \in draft.odds
    BY <1>0, <1>3, <2>1, SnapShape DEF Order, RowOrder
  <2>2. CASE r \in Added(g)
    <3>1. r.ts = Snap(g).ts /\ r.odds = Snap(g).shown[r.sel] /\ Snap(g).ts \in Nat
      BY <1>0, <2>2, AddedRows, SnapShape
    <3>. QED
      BY <3>1 DEF RowBefore
  <2>. QED
    BY <2>1, <2>2
<1>. QED
  BY <1>1, <1>2, <1>3

\* Nothing changes about another game, an earlier time, or a selection that is remembered as
\* it is shown.
LEMMA AddedElsewhere ==
  ASSUME Shape, ProcInv, proc = "txn", NEW g \in todo, NEW h, NEW s, NEW t \in Int,
         \/ h # g
         \/ t < Snap(g).ts
         \/ Snap(g).shown[s] = detector[g][s]
  PROVE  AsOf(draft.odds \cup Added(g), h, s, t) = AsOf(draft.odds, h, s, t)
<1>1. ASSUME NEW r \in Added(g), r.game = h, r.sel = s, r.ts <= t PROVE FALSE
  <2>1. /\ r.game = g /\ r.ts = Snap(g).ts /\ r.odds = Snap(g).shown[r.sel]
        /\ r.odds # detector[g][r.sel]
    BY AddedRows
  <2>2. Snap(g).ts \in Nat
    BY SnapShape DEF ProcInv
  <2>. QED
    BY <1>1, <2>1, <2>2
<1>. QED
  BY <1>1, AsOfSame

\* A selection that differs is read as it is shown.
LEMMA AddedHere ==
  ASSUME IInv, proc = "txn", NEW g \in todo, NEW s \in Selections, NEW t \in Nat, Snap(g).ts <= t,
         Snap(g).shown[s] # detector[g][s]
  PROVE  AsOf(draft.odds \cup Added(g), g, s, t) = Snap(g).shown[s]
<1>. USE DEF IInv
<1>1. PICK r \in draft.odds \cup Added(g) : r.game = g /\ r.sel = s /\ r.ts = Snap(g).ts
  BY ChangeHasRow
<1>2. /\ draft.odds \cup Added(g) \in SUBSET Row /\ Keyed(draft.odds \cup Added(g))
      /\ \A q \in draft.odds \cup Added(g) : q.game = g => RowBefore(q, Snap(g))
  BY AddedKeyed
<1>3. \A q \in draft.odds \cup Added(g) : q.game = r.game /\ q.sel = r.sel /\ q.ts <= t => q.ts <= r.ts
  BY <1>1, <1>2 DEF RowBefore
<1>4. AsOf(draft.odds \cup Added(g), r.game, r.sel, t) = r.odds
  BY <1>1, <1>2, <1>3, AsOfLast
<1>5. r.odds = Snap(g).shown[s]
  BY <1>1, <1>2 DEF RowBefore
<1>. QED
  BY <1>1, <1>4, <1>5

-----------------------------------------------------------------------------
(* The inductive invariant.                                                  *)

LEMMA InitInv == GoodSource /\ Init => IInv
<1>. SUFFICES ASSUME GoodSource, Init PROVE IInv
  OBVIOUS
<1>1. db.odds = {} /\ draft.odds = {} /\ inFlight = <<>> /\ committed = {} /\ Len(inFlight) = 0
  BY DEF Init
<1>2. Shape
  <2>1. site \in [Games -> Snapshot]
    BY BoundsAssumption DEF Init, Snapshot, Content, Nothing, Stages
  <2>2. detector = [g \in Games |-> [s \in Selections |-> detector[g][s]]]
    BY DEF Init, Nothing
  <2>. QED
    BY <1>1, <2>1, <2>2 DEF Init, Shape
<1>3. ProcInv /\ DraftInv /\ MemoryInv
  BY <1>1 DEF Init, ProcInv, DraftInv, MemoryInv
<1>4. UpcomingInv /\ Order
  BY <1>1 DEF UpcomingInv, Order, QueueOrder, CommittedOrder, RowOrder
<1>5. TableInv
  BY <1>1 DEF TableInv, Keyed, Faithful, Changes
<1>. QED
  BY <1>2, <1>3, <1>4, <1>5 DEF IInv

\* What only looks at the tables and the history of a step that leaves them alone.
LEMMA TableStays ==
  ASSUME TableInv, UNCHANGED <<db, draft, committed, blind>>
  PROVE  TableInv'
BY DEF TableInv, Keyed, Faithful, Changes

LEMMA SiteInv == IInv /\ Site => IInv'
<1>. SUFFICES ASSUME IInv, Site PROVE IInv'
  OBVIOUS
<1>. USE DEF IInv
<1>1. PICK g \in Games : Appear(g) \/ Disappear(g) \/ SiteMoves(g)
  BY DEF Site
<1>2. UNCHANGED <<proc, inFlight, todo, detector, db, draft, committed, blind, crashes>>
  BY <1>1 DEF Appear, Disappear, SiteMoves
<1>3. TableInv' /\ ProcInv' /\ DraftInv'
  BY <1>2, TableStays DEF ProcInv, DraftInv, Done
<1>4. CASE Appear(g) \/ Disappear(g)
  <2>1. /\ listing[g] # "gone" /\ listing'[g] # "upcoming" /\ UNCHANGED site
        /\ listing' \in [Games -> {"upcoming", "listed", "gone"}]
        /\ \A h \in Games \ {g} : listing'[h] = listing[h]
    BY <1>4 DEF Appear, Disappear, Shape
  <2>2. Shape'
    BY <1>2, <2>1 DEF Shape
  <2>3. UpcomingInv' /\ Order'
    BY <1>2, <2>1 DEF UpcomingInv, Order, QueueOrder, CommittedOrder, RowOrder
  <2>4. MemoryInv'
    BY <1>2, <2>1 DEF MemoryInv
  <2>. QED
    BY <1>3, <2>2, <2>3, <2>4
<1>5. CASE SiteMoves(g)
  <2>1. PICK shown \in Content, stage \in Stages :
          /\ listing[g] = "listed" /\ site[g].ts < MaxTs /\ UNCHANGED listing
          /\ site' = [site EXCEPT ![g] = [ts |-> @.ts + 1, shown |-> shown, stage |-> stage]]
    BY <1>5 DEF SiteMoves
  <2>2. site \in [Games -> Snapshot] /\ site[g].ts \in 1..MaxTs
    BY DEF Shape, Snapshot
  <2>3. /\ site'[g].ts = site[g].ts + 1 /\ \A h \in Games \ {g} : site'[h] = site[h]
        /\ site' \in [Games -> Snapshot]
    <3>1. [ts |-> site[g].ts + 1, shown |-> shown, stage |-> stage] \in Snapshot
      BY <2>1, <2>2, BoundsAssumption DEF Snapshot
    <3>. QED
      BY <2>1, <2>2, <3>1
  <2>4. Shape'
    BY <1>2, <2>1, <2>3 DEF Shape
  <2>5. UpcomingInv' /\ MemoryInv'
    BY <1>2, <2>1 DEF UpcomingInv, MemoryInv
  <2>6. ASSUME NEW x, x.ts \in Int, NEW h \in Games, Before(x, site[h]) PROVE Before(x, site'[h])
    BY <2>2, <2>3, <2>6, BoundsAssumption DEF Before
  <2>7. QueueOrder'
    <3>1. ASSUME NEW i \in 1..Len(inFlight), NEW h \in DOMAIN inFlight[i]
          PROVE  h \in Games /\ inFlight[i][h].ts \in Int
      <4>1. inFlight[i] \in Responses
        BY DEF Shape
      <4>. QED
        BY <4>1 DEF Responses, Snapshot
    <3>. QED
      BY <1>2, <2>6, <3>1 DEF Order, QueueOrder
  <2>8. CommittedOrder'
    <3>1. ASSUME NEW c \in committed PROVE c.game \in Games /\ c.ts \in Int
      BY DEF Shape
    <3>. QED
      BY <1>2, <2>6, <3>1 DEF Order, CommittedOrder
  <2>9. RowOrder'
    <3>1. ASSUME NEW r \in draft.odds PROVE r.game \in Games /\ r.ts \in Int /\ RowBefore(r, site'[r.game])
      <4>1. r \in Row /\ RowBefore(r, site[r.game])
        BY DEF Shape, Order, RowOrder
      <4>2. r.game \in Games /\ r.ts \in Int
        BY <4>1 DEF Row
      <4>. QED
        BY <2>2, <2>3, <4>1, <4>2, BoundsAssumption DEF RowBefore
    <3>. QED
      BY <1>2, <3>1 DEF Order, RowOrder
  <2>. QED
    BY <1>3, <2>4, <2>5, <2>7, <2>8, <2>9 DEF Order
<1>. QED
  BY <1>1, <1>4, <1>5

\* The games the site lists are remembered as the table has them; those it does not list yet
\* have no row, and those that are gone are not shown again.
LEMMA PreloadInv == IInv /\ Preload => IInv'
<1>. SUFFICES ASSUME IInv, Preload PROVE IInv'
  OBVIOUS
<1>. USE DEF IInv
<1>1. /\ proc = "preload" /\ proc' = "idle" /\ draft = db /\ inFlight = <<>>
      /\ detector' = [g \in Games |-> IF g \in Listed THEN Latest(db.odds, g) ELSE Nothing]
      /\ UNCHANGED <<siteVars, inFlight, todo, db, draft, committed, blind, crashes>>
  BY DEF Preload, ProcInv
<1>2. ASSUME NEW g \in Games, NEW s \in Selections
      PROVE  detector'[g][s] = IF g \in Listed THEN AsOf(db.odds, g, s, MaxTs) ELSE Absent
  BY <1>1 DEF Latest, Nothing
<1>3. Shape'
  <2>1. detector' = [g \in Games |-> [s \in Selections |-> detector'[g][s]]]
    BY <1>1 DEF Latest, Nothing
  <2>. QED
    BY <1>1, <2>1 DEF Shape, siteVars
<1>4. MemoryInv'
  <2>. SUFFICES ASSUME NEW g \in Games, listing[g] # "gone", NEW s \in Selections
                PROVE  AsOf(draft.odds, g, s, MaxTs) = detector'[g][s]
    BY <1>1 DEF MemoryInv, siteVars
  <2>1. CASE listing[g] = "listed"
    BY <1>1, <1>2, <2>1 DEF Listed
  <2>2. CASE listing[g] = "upcoming"
    <3>1. AsOf(draft.odds, g, s, MaxTs) = Absent
      BY <2>2, AsOfNone DEF UpcomingInv
    <3>. QED
      BY <1>2, <2>2, <3>1 DEF Listed
  <2>. QED
    BY <2>1, <2>2 DEF Shape
<1>5. ProcInv' /\ UpcomingInv' /\ DraftInv'
  BY <1>1 DEF ProcInv, UpcomingInv, DraftInv, siteVars
<1>6. Order' /\ TableInv'
  BY <1>1, TableStays DEF Order, QueueOrder, CommittedOrder, RowOrder, siteVars
<1>. QED
  BY <1>3, <1>4, <1>5, <1>6

LEMMA PreloadFailsInv == IInv /\ PreloadFails => IInv'
<1>. SUFFICES ASSUME IInv, PreloadFails PROVE IInv'
  OBVIOUS
<1>. USE DEF IInv
<1>1. /\ proc = "preload" /\ proc' = "idle" /\ draft = db /\ inFlight = <<>> /\ blind'
      /\ detector = [g \in Games |-> Nothing]
      /\ UNCHANGED <<siteVars, inFlight, todo, detector, db, draft, committed, crashes>>
  BY DEF PreloadFails, ProcInv
<1>2. Shape' /\ ProcInv' /\ UpcomingInv' /\ DraftInv'
  BY <1>1 DEF Shape, ProcInv, UpcomingInv, DraftInv, siteVars
<1>3. Order'
  BY <1>1 DEF Order, QueueOrder, CommittedOrder, RowOrder, siteVars
<1>4. MemoryInv'
  BY <1>1 DEF MemoryInv, Nothing
<1>5. TableInv'
  BY <1>1 DEF TableInv, Keyed, Faithful, Changes
<1>. QED
  BY <1>2, <1>3, <1>4, <1>5

\* A new response is what the site says now: nothing in the system is later.
LEMMA FetchInv == \A D \in SUBSET Games : IInv /\ Fetch(D) => IInv'
<1>. SUFFICES ASSUME NEW D \in SUBSET Games, IInv, Fetch(D) PROVE IInv'
  OBVIOUS
<1>. USE DEF IInv
<1>. DEFINE r == [g \in Listed |-> site[g]]
            n == Len(inFlight)
<1>1. UNCHANGED <<siteVars, proc, todo, detector, db, draft, committed, blind, crashes>>
  BY DEF Fetch
<1>2. proc \in {"idle", "txn"} /\ inFlight' = Append(inFlight, r)
  <2>1. D = {}
    BY DEF Fetch, Shape, GoodSource, DetailIsGiven
  <2>2. r = [g \in Listed |-> IF g \in D THEN WithoutDetail(site[g]) ELSE site[g]]
    BY <2>1
  <2>. QED
    BY <2>2 DEF Fetch
<1>3. r \in Responses /\ DOMAIN r = Listed /\ Listed \subseteq Games /\ \A g \in Listed : r[g] = site[g]
  <2>1. Listed \in SUBSET Games
    BY DEF Listed
  <2>2. r \in [Listed -> Snapshot]
    BY <2>1 DEF Shape
  <2>. QED
    BY <2>1, <2>2 DEF Responses
<1>. HIDE DEF r
<1>4. /\ n \in Nat /\ Len(inFlight') = n + 1 /\ inFlight' \in Seq(Responses)
      /\ \A i \in 1..n : i \in 1..(n + 1) /\ inFlight'[i] = inFlight[i]
      /\ inFlight'[n + 1] = r
      /\ inFlight # <<>> => Head(inFlight') = Head(inFlight)
  BY <1>2, <1>3 DEF Shape
<1>. HIDE DEF n
<1>5. \A i \in 1..Len(inFlight') : i \in 1..n \/ i = n + 1
  BY <1>4
<1>6. Shape'
  BY <1>1, <1>4 DEF Shape, siteVars
<1>7. ProcInv' /\ DraftInv'
  BY <1>1, <1>2, <1>4 DEF ProcInv, DraftInv, Done
<1>8. UpcomingInv' /\ MemoryInv'
  <2>1. ASSUME NEW g \in Games, listing[g] # "listed", \A i \in 1..n : g \notin DOMAIN inFlight[i]
        PROVE  \A i \in 1..Len(inFlight') : g \notin DOMAIN inFlight'[i]
    BY <1>3, <1>4, <1>5, <2>1 DEF Listed
  <2>. QED
    BY <1>1, <1>2, <2>1 DEF UpcomingInv, MemoryInv, siteVars, n
<1>9. QueueOrder'
  <2>. SUFFICES ASSUME NEW i \in 1..Len(inFlight'), NEW g \in DOMAIN inFlight'[i]
                PROVE  /\ Before(inFlight'[i][g], site[g])
                       /\ \A j \in 1..Len(inFlight') :
                            i <= j /\ g \in DOMAIN inFlight'[j] => Before(inFlight'[i][g], inFlight'[j][g])
    BY <1>1 DEF QueueOrder, siteVars
  <2>1. CASE i \in 1..n
    <3>1. Before(inFlight'[i][g], site[g])
      BY <1>4, <2>1 DEF Order, QueueOrder, n
    <3>2. ASSUME NEW j \in 1..Len(inFlight'), i <= j, g \in DOMAIN inFlight'[j]
          PROVE  Before(inFlight'[i][g], inFlight'[j][g])
      <4>1. CASE j \in 1..n
        BY <1>4, <2>1, <3>2, <4>1 DEF Order, QueueOrder, n
      <4>2. CASE j = n + 1
        BY <1>3, <1>4, <3>1, <3>2, <4>2
      <4>. QED
        BY <1>5, <4>1, <4>2
    <3>. QED
      BY <3>1, <3>2
  <2>2. CASE i = n + 1
    <3>1. g \in Listed /\ inFlight'[i][g] = site[g] /\ site[g].ts \in Int
      BY <1>3, <1>4, <2>2 DEF Shape, Snapshot
    <3>2. \A j \in 1..Len(inFlight') : i <= j => j = i
      BY <1>4, <2>2
    <3>. QED
      BY <3>1, <3>2 DEF Before
  <2>. QED
    BY <1>5, <2>1, <2>2
<1>10. CommittedOrder'
  <2>. SUFFICES ASSUME NEW c \in committed, NEW i \in 1..Len(inFlight'), c.game \in DOMAIN inFlight'[i]
                PROVE  Before(c, inFlight'[i][c.game])
    BY <1>1 DEF Order, CommittedOrder, siteVars
  <2>1. CASE i \in 1..n
    BY <1>4, <2>1 DEF Order, CommittedOrder, n
  <2>2. CASE i = n + 1
    BY <1>3, <1>4, <2>2 DEF Order, CommittedOrder
  <2>. QED
    BY <1>5, <2>1, <2>2
<1>11. RowOrder'
  <2>. SUFFICES ASSUME NEW q \in draft.odds, NEW i \in 1..Len(inFlight'), q.game \in DOMAIN inFlight'[i]
                PROVE  RowBefore(q, inFlight'[i][q.game])
    BY <1>1 DEF Order, RowOrder, siteVars
  <2>1. CASE i \in 1..n
    BY <1>4, <2>1 DEF Order, RowOrder, n
  <2>2. CASE i = n + 1
    BY <1>3, <1>4, <2>2 DEF Order, RowOrder
  <2>. QED
    BY <1>5, <2>1, <2>2
<1>. QED
  BY <1>1, <1>6, <1>7, <1>8, <1>9, <1>10, <1>11, TableStays DEF Order

LEMMA BeginCycleInv == IInv /\ BeginCycle => IInv'
<1>. SUFFICES ASSUME IInv, BeginCycle PROVE IInv'
  OBVIOUS
<1>. USE DEF IInv
<1>1. /\ proc = "idle" /\ proc' = "txn" /\ inFlight # <<>> /\ todo' = DOMAIN Head(inFlight)
      /\ draft = db
      /\ UNCHANGED <<siteVars, inFlight, detector, db, draft, committed, blind, crashes>>
  BY DEF BeginCycle, ProcInv
<1>2. DOMAIN Head(inFlight) \subseteq Games
  <2>1. Head(inFlight) \in Responses
    BY <1>1 DEF Shape
  <2>. QED
    BY <2>1 DEF Responses
<1>3. Shape'
  BY <1>1, <1>2 DEF Shape, siteVars
<1>4. Done' = {}
  BY <1>1 DEF Done
<1>5. ProcInv' /\ UpcomingInv' /\ MemoryInv' /\ DraftInv'
  BY <1>1, <1>4 DEF ProcInv, UpcomingInv, MemoryInv, DraftInv, siteVars
<1>6. Order' /\ TableInv'
  BY <1>1, TableStays DEF Order, QueueOrder, CommittedOrder, RowOrder, siteVars
<1>. QED
  BY <1>3, <1>5, <1>6

LEMMA CrashInv == IInv /\ Crash => IInv'
<1>. SUFFICES ASSUME IInv, Crash PROVE IInv'
  OBVIOUS
<1>. USE DEF IInv
<1>1. /\ proc' = "down" /\ draft' = db /\ inFlight' = <<>> /\ todo' = {}
      /\ detector' = [g \in Games |-> Nothing]
      /\ UNCHANGED <<siteVars, db, committed, blind>>
  BY DEF Crash
<1>2. Len(inFlight') = 0 /\ db.odds \subseteq draft.odds
  BY <1>1 DEF Shape
<1>3. Shape'
  <2>1. detector' = [g \in Games |-> [s \in Selections |-> detector'[g][s]]]
    BY <1>1 DEF Nothing
  <2>. QED
    BY <1>1, <1>2, <2>1 DEF Shape, siteVars
<1>4. ProcInv' /\ UpcomingInv' /\ MemoryInv' /\ DraftInv'
  BY <1>1, <1>2 DEF ProcInv, UpcomingInv, MemoryInv, DraftInv, siteVars
<1>5. Order'
  BY <1>1, <1>2 DEF Order, QueueOrder, CommittedOrder, RowOrder, siteVars
<1>6. TableInv'
  BY <1>1, <1>2 DEF TableInv, Keyed, Faithful, Changes
<1>. QED
  BY <1>3, <1>4, <1>5, <1>6

LEMMA RestartInv == IInv /\ Restart => IInv'
<1>. SUFFICES ASSUME IInv, Restart PROVE IInv'
  OBVIOUS
<1>. USE DEF IInv
<1>1. /\ proc = "down" /\ proc' = "preload"
      /\ UNCHANGED <<siteVars, inFlight, todo, detector, db, draft, committed, blind, crashes>>
  BY DEF Restart
<1>2. Shape' /\ ProcInv' /\ UpcomingInv' /\ MemoryInv' /\ DraftInv'
  BY <1>1 DEF Shape, ProcInv, UpcomingInv, MemoryInv, DraftInv, siteVars
<1>3. Order' /\ TableInv'
  BY <1>1, TableStays DEF Order, QueueOrder, CommittedOrder, RowOrder, siteVars
<1>. QED
  BY <1>2, <1>3

LEMMA ProcessGameInv == \A g \in Games : IInv /\ ProcessGame(g) => IInv'
<1>. SUFFICES ASSUME NEW g \in Games, IInv, ProcessGame(g) PROVE IInv'
  OBVIOUS
<1>. USE DEF IInv
<1>1. /\ proc = "txn" /\ g \in todo /\ todo' = todo \ {g}
      /\ draft'.odds = draft.odds \cup Added(g)
      /\ draft'.finished = StatusAfter(draft.finished, g, Snap(g))
      /\ detector' = [detector EXCEPT ![g] = Snap(g).shown]
      /\ UNCHANGED <<siteVars, proc, inFlight, db, committed, blind, crashes>>
  BY DEF ProcessGame, Added, Snap
<1>2. /\ g \in DOMAIN Head(inFlight) /\ todo \subseteq DOMAIN Head(inFlight) /\ inFlight # <<>>
  BY <1>1 DEF ProcInv
<1>3. /\ Snap(g) \in Snapshot /\ Snap(g).ts \in Nat /\ Snap(g).ts <= MaxTs /\ Snap(g).ts >= 1
      /\ 1 \in 1..Len(inFlight) /\ Snap(g) = inFlight[1][g] /\ Head(inFlight) = inFlight[1]
  BY <1>1, <1>2, SnapShape
<1>4. detector'[g] = Snap(g).shown /\ \A h \in Games \ {g} : detector'[h] = detector[h]
  BY <1>1 DEF Shape
<1>5. Snap(g).shown \in Content
  BY <1>3 DEF Snapshot
<1>6. /\ draft'.odds \subseteq Row /\ Keyed(draft'.odds)
      /\ \A r \in draft'.odds : r.game = g => RowBefore(r, Snap(g))
  BY <1>1, AddedKeyed
\* What is read afterwards.
<1>7. ASSUME NEW h, NEW s, NEW t \in Int,
             h # g \/ t < Snap(g).ts \/ Snap(g).shown[s] = detector[g][s]
      PROVE  AsOf(draft'.odds, h, s, t) = AsOf(draft.odds, h, s, t)
  BY <1>1, <1>7, AddedElsewhere
<1>8. ASSUME NEW s \in Selections, NEW t \in Nat, Snap(g).ts <= t, Snap(g).shown[s] # detector[g][s]
      PROVE  AsOf(draft'.odds, g, s, t) = Snap(g).shown[s]
  BY <1>1, <1>8, AddedHere
<1>9. Shape'
  <2>1. detector' = [h \in Games |-> [s \in Selections |-> detector'[h][s]]]
    BY <1>1, <1>4, <1>5 DEF Shape, Content
  <2>. QED
    BY <1>1, <1>6, <2>1 DEF Shape, siteVars
<1>10. ProcInv'
  BY <1>1 DEF ProcInv
<1>11. UpcomingInv'
  <2>1. listing[g] # "upcoming"
    BY <1>2, <1>3 DEF UpcomingInv
  <2>2. \A r \in Added(g) : r.game = g
    BY <1>1, AddedRows
  <2>. QED
    BY <1>1, <2>1, <2>2 DEF UpcomingInv, siteVars
<1>12. MemoryInv'
  <2>. SUFFICES ASSUME NEW h \in Games,
                       ~(listing[h] = "gone" /\ \A i \in 1..Len(inFlight) : h \notin DOMAIN inFlight[i]),
                       NEW s \in Selections, blind => detector'[h][s] # Absent
                PROVE  AsOf(draft'.odds, h, s, MaxTs) = detector'[h][s]
    BY <1>1 DEF MemoryInv, siteVars
  <2>1. MaxTs \in Nat
    BY BoundsAssumption
  <2>2. CASE h # g
    <3>1. AsOf(draft'.odds, h, s, MaxTs) = AsOf(draft.odds, h, s, MaxTs)
      BY <1>7, <2>1, <2>2
    <3>. QED
      BY <1>1, <1>4, <2>2, <3>1 DEF MemoryInv
  <2>3. CASE h = g /\ Snap(g).shown[s] = detector[g][s]
    <3>1. AsOf(draft'.odds, h, s, MaxTs) = AsOf(draft.odds, h, s, MaxTs)
      BY <1>7, <2>1, <2>3
    <3>. QED
      BY <1>1, <1>4, <2>3, <3>1 DEF MemoryInv
  <2>4. CASE h = g /\ Snap(g).shown[s] # detector[g][s]
    BY <1>3, <1>4, <1>8, <2>1, <2>4
  <2>. QED
    BY <2>2, <2>3, <2>4
<1>13. DraftInv'
  <2>1. Done' = Done \cup {g} /\ g \notin Done
    BY <1>1, <1>2 DEF Done
  <2>2. \A h \in Done' : detector'[h] = Head(inFlight)[h].shown
    <3>1. \A h \in Done : h \in Games /\ detector[h] = Head(inFlight)[h].shown
      BY <1>1, SnapShape DEF DraftInv, Done
    <3>. QED
      BY <1>4, <2>1, <3>1 DEF Snap
  <2>3. ASSUME NEW h \in Games, NEW s \in Selections
        PROVE  \/ AsOf(draft'.odds, h, s, MaxTs) = AsOf(db.odds, h, s, MaxTs)
               \/ h \in Done' /\ AsOf(draft'.odds, h, s, MaxTs) = Head(inFlight)[h].shown[s]
    <3>1. MaxTs \in Nat
      BY BoundsAssumption
    <3>2. CASE h # g \/ Snap(g).shown[s] = detector[g][s]
      <4>1. AsOf(draft'.odds, h, s, MaxTs) = AsOf(draft.odds, h, s, MaxTs)
        BY <1>7, <3>1, <3>2
      <4>. QED
        BY <1>1, <2>1, <4>1 DEF DraftInv
    <3>3. CASE h = g /\ Snap(g).shown[s] # detector[g][s]
      <4>1. AsOf(draft'.odds, g, s, MaxTs) = Snap(g).shown[s]
        BY <1>3, <1>8, <3>1, <3>3
      <4>. QED
        BY <2>1, <3>3, <4>1 DEF Snap
    <3>. QED
      BY <3>2, <3>3
  <2>4. draft'.finished = db.finished \cup {h \in Done' : Head(inFlight)[h].stage = "finished"}
    <3>1. draft.finished = db.finished \cup {h \in Done : Head(inFlight)[h].stage = "finished"}
      BY <1>1 DEF DraftInv
    <3>. QED
      BY <1>1, <2>1, <3>1 DEF StatusAfter, Snap
  <2>. QED
    BY <1>1, <2>2, <2>3, <2>4 DEF DraftInv
<1>14. Order'
  <2>1. QueueOrder' /\ CommittedOrder'
    BY <1>1 DEF Order, QueueOrder, CommittedOrder, siteVars
  <2>2. ASSUME NEW r \in Added(g)
        PROVE  /\ RowBefore(r, site[r.game])
               /\ \A i \in 1..Len(inFlight) : r.game \in DOMAIN inFlight[i] =>
                    RowBefore(r, inFlight[i][r.game])
    <3>1. r.game = g /\ r.ts = Snap(g).ts /\ r.odds = Snap(g).shown[r.sel]
      BY <1>1, AddedRows
    <3>2. Before(Snap(g), site[g])
      BY <1>2, <1>3 DEF Order, QueueOrder
    <3>3. \A i \in 1..Len(inFlight) : g \in DOMAIN inFlight[i] => Before(Snap(g), inFlight[i][g])
      BY <1>2, <1>3 DEF Order, QueueOrder
    <3>. QED
      BY <3>1, <3>2, <3>3 DEF Before, RowBefore
  <2>3. RowOrder'
    BY <1>1, <2>2 DEF Order, RowOrder, siteVars
  <2>. QED
    BY <2>1, <2>3 DEF Order
<1>15. TableInv'
  <2>1. Faithful(draft.odds)'
    <3>. SUFFICES ASSUME NEW c \in committed, NEW s \in Selections, blind => c.shown[s] # Absent
                  PROVE  AsOf(draft'.odds, c.game, s, c.ts) = c.shown[s]
      BY <1>1 DEF Faithful
    <3>1. c.ts \in Nat /\ AsOf(draft.odds, c.game, s, c.ts) = c.shown[s]
      BY BoundsAssumption DEF Shape, TableInv, Faithful
    <3>2. CASE c.game # g \/ c.ts < Snap(g).ts \/ Snap(g).shown[s] = detector[g][s]
      BY <1>7, <3>1, <3>2
    <3>3. CASE c.game = g /\ Snap(g).ts <= c.ts /\ Snap(g).shown[s] # detector[g][s]
      <4>1. Before(c, Snap(g))
        BY <1>2, <1>3, <3>3 DEF Order, CommittedOrder
      <4>2. c.shown = Snap(g).shown
        BY <1>3, <3>1, <3>3, <4>1 DEF Before
      <4>. QED
        BY <1>8, <3>1, <3>3, <4>2
    <3>. QED
      BY <1>3, <3>1, <3>2, <3>3
  <2>2. Changes(draft.odds)'
    <3>. SUFFICES ASSUME ~blind, NEW r \in draft'.odds
                  PROVE  AsOf(draft'.odds, r.game, r.sel, r.ts - 1) # r.odds
      BY <1>1 DEF Changes
    <3>1. r.ts \in Nat /\ r.ts - 1 \in Int /\ r.game \in Games /\ r.sel \in Selections
      BY <1>6, BoundsAssumption DEF Row
    <3>2. r.game = g => r.ts <= Snap(g).ts
      BY <1>6 DEF RowBefore
    <3>3. AsOf(draft'.odds, r.game, r.sel, r.ts - 1) = AsOf(draft.odds, r.game, r.sel, r.ts - 1)
      BY <1>3, <1>7, <3>1, <3>2
    <3>4. CASE r \in draft.odds
      BY <3>3, <3>4 DEF TableInv, Changes
    <3>5. CASE r \in Added(g)
      <4>1. /\ r.game = g /\ r.ts = Snap(g).ts /\ r.odds # detector[g][r.sel]
            /\ \A q \in draft.odds : ~(q.game = r.game /\ q.sel = r.sel /\ q.ts = r.ts)
        BY <1>1, <3>5, AddedRows
      <4>2. AsOf(draft.odds, g, r.sel, r.ts - 1) = AsOf(draft.odds, g, r.sel, MaxTs)
        <5>1. ASSUME NEW q \in draft.odds, q.game = g, q.sel = r.sel
              PROVE  q.ts \in Nat /\ q.ts <= Snap(g).ts /\ q.ts # Snap(g).ts
          <6>1. RowBefore(q, Snap(g)) /\ q \in Row
            BY <1>1, <1>6, <5>1 DEF Shape
          <6>. QED
            BY <4>1, <5>1, <6>1, BoundsAssumption DEF RowBefore, Row
        <5>. QED
          BY <1>3, <4>1, <5>1, BoundsAssumption, AsOfSame
      <4>3. AsOf(draft.odds, g, r.sel, MaxTs) = detector[g][r.sel]
        BY <1>1, <1>2, <1>3, <3>1 DEF MemoryInv
      <4>. QED
        BY <3>3, <4>1, <4>2, <4>3
    <3>. QED
      BY <1>1, <3>4, <3>5
  <2>3. Faithful(db.odds)' /\ Changes(db.odds)'
    BY <1>1 DEF TableInv, Faithful, Changes
  <2>. QED
    BY <1>6, <2>1, <2>2, <2>3 DEF TableInv, Keyed
<1>. QED
  BY <1>9, <1>10, <1>11, <1>12, <1>13, <1>14, <1>15

\* What the response showed is what the table now says.
LEMMA CommitInv == IInv /\ Commit => IInv'
<1>. SUFFICES ASSUME IInv, Commit PROVE IInv'
  OBVIOUS
<1>. USE DEF IInv
<1>. DEFINE said == {[game |-> g, ts |-> Snap(g).ts, shown |-> Snap(g).shown] : g \in DOMAIN Head(inFlight)}
<1>1. /\ proc = "txn" /\ proc' = "idle" /\ todo = {} /\ db' = draft
      /\ committed' = committed \cup said /\ inFlight' = Tail(inFlight)
      /\ UNCHANGED <<siteVars, todo, detector, draft, blind, crashes>>
  BY DEF Commit, Snap
<1>2. \A g \in DOMAIN Head(inFlight) :
        /\ g \in Games /\ Snap(g) \in Snapshot
        /\ Snap(g).ts \in Nat /\ Snap(g).ts <= MaxTs /\ Snap(g).ts >= 1
        /\ Snap(g) = inFlight[1][g]
  BY <1>1, SnapShape
<1>3. /\ inFlight # <<>> /\ Head(inFlight) = inFlight[1] /\ 1 \in 1..Len(inFlight)
      /\ inFlight' \in Seq(Responses) /\ Len(inFlight') = Len(inFlight) - 1
      /\ \A i \in 1..Len(inFlight') : i + 1 \in 1..Len(inFlight) /\ inFlight'[i] = inFlight[i + 1]
  BY <1>1 DEF Shape, ProcInv
<1>4. \A c \in said : /\ c.game \in DOMAIN Head(inFlight) /\ c.game \in Games
                      /\ c.ts = Snap(c.game).ts /\ c.shown = Snap(c.game).shown
                      /\ c \in [game : Games, ts : 1..MaxTs, shown : Content]
  BY <1>2, BoundsAssumption DEF Snapshot
<1>. HIDE DEF said
<1>5. Shape'
  BY <1>1, <1>3, <1>4 DEF Shape, siteVars
<1>6. ProcInv' /\ DraftInv'
  BY <1>1 DEF ProcInv, DraftInv
<1>7. UpcomingInv' /\ MemoryInv'
  BY <1>1, <1>3 DEF UpcomingInv, MemoryInv, siteVars
<1>8. QueueOrder'
  <2>. SUFFICES ASSUME NEW i \in 1..Len(inFlight'), NEW g \in DOMAIN inFlight'[i]
                PROVE  /\ Before(inFlight'[i][g], site[g])
                       /\ \A j \in 1..Len(inFlight') :
                            i <= j /\ g \in DOMAIN inFlight'[j] => Before(inFlight'[i][g], inFlight'[j][g])
    BY <1>1 DEF QueueOrder, siteVars
  <2>1. i + 1 \in 1..Len(inFlight) /\ inFlight'[i] = inFlight[i + 1]
    BY <1>3
  <2>2. ASSUME NEW j \in 1..Len(inFlight'), i <= j, g \in DOMAIN inFlight'[j]
        PROVE  Before(inFlight'[i][g], inFlight'[j][g])
    <3>1. j + 1 \in 1..Len(inFlight) /\ inFlight'[j] = inFlight[j + 1] /\ i + 1 <= j + 1
      BY <1>3, <2>2
    <3>. QED
      BY <2>1, <2>2, <3>1 DEF Order, QueueOrder
  <2>. QED
    BY <2>1, <2>2 DEF Order, QueueOrder
<1>9. CommittedOrder'
  <2>. SUFFICES ASSUME NEW c \in committed'
                PROVE  /\ Before(c, site[c.game])
                       /\ \A i \in 1..Len(inFlight') : c.game \in DOMAIN inFlight'[i] =>
                            Before(c, inFlight'[i][c.game])
    BY <1>1 DEF CommittedOrder, siteVars
  <2>1. CASE c \in committed
    BY <1>3, <2>1 DEF Order, CommittedOrder
  <2>2. CASE c \in said
    <3>1. /\ c.game \in DOMAIN inFlight[1] /\ c.ts = inFlight[1][c.game].ts
          /\ c.shown = inFlight[1][c.game].shown
      BY <1>2, <1>3, <1>4, <2>2
    <3>2. \A i \in 1..Len(inFlight') : 1 <= i + 1
      BY <1>3
    <3>. QED
      BY <1>3, <3>1, <3>2 DEF Order, QueueOrder, Before
  <2>. QED
    BY <1>1, <2>1, <2>2
<1>10. RowOrder'
  BY <1>1, <1>3 DEF Order, RowOrder, siteVars
<1>11. Faithful(draft.odds)'
  <2>. SUFFICES ASSUME NEW c \in committed', NEW s \in Selections, blind => c.shown[s] # Absent
                PROVE  AsOf(draft.odds, c.game, s, c.ts) = c.shown[s]
    BY <1>1 DEF Faithful
  <2>1. CASE c \in committed
    BY <2>1 DEF TableInv, Faithful
  <2>2. CASE c \in said
    <3>1. c.game \in Done /\ c.game \in Games /\ c.game \in DOMAIN inFlight[1]
      BY <1>1, <1>3, <1>4, <2>2 DEF Done
    <3>2. detector[c.game] = c.shown
      BY <1>1, <1>4, <2>2, <3>1 DEF DraftInv, Snap
    <3>3. AsOf(draft.odds, c.game, s, MaxTs) = c.shown[s]
      BY <1>1, <1>3, <3>1, <3>2 DEF MemoryInv
    <3>4. AsOf(draft.odds, c.game, s, c.ts) = AsOf(draft.odds, c.game, s, MaxTs)
      <4>1. c.ts \in Nat /\ c.ts <= MaxTs /\ c.ts = inFlight[1][c.game].ts
        BY <1>2, <1>4, <2>2
      <4>2. ASSUME NEW q \in draft.odds, q.game = c.game
            PROVE  q.ts \in Nat /\ q.ts <= c.ts
        <5>1. RowBefore(q, inFlight[1][c.game]) /\ q \in Row
          BY <1>3, <3>1, <4>2 DEF Order, RowOrder, Shape
        <5>. QED
          BY <4>1, <5>1, BoundsAssumption DEF RowBefore, Row
      <4>. QED
        BY <4>1, <4>2, BoundsAssumption, AsOfSame
    <3>. QED
      BY <3>3, <3>4
  <2>. QED
    BY <1>1, <2>1, <2>2
<1>12. TableInv'
  BY <1>1, <1>11 DEF TableInv, Keyed, Faithful, Changes
<1>. QED
  BY <1>5, <1>6, <1>7, <1>8, <1>9, <1>10, <1>12 DEF Order

LEMMA StepInv == IInv /\ [Next]_vars => IInv'
<1>. SUFFICES ASSUME IInv, [Next]_vars PROVE IInv'
  OBVIOUS
<1>1. CASE UNCHANGED vars
  <2>. USE <1>1 DEF vars, siteVars, IInv
  <2>1. Shape' /\ ProcInv'
    BY DEF Shape, ProcInv
  <2>2. UpcomingInv' /\ MemoryInv' /\ DraftInv'
    BY DEF UpcomingInv, MemoryInv, DraftInv, Done
  <2>3. Order' /\ TableInv'
    BY TableStays DEF Order, QueueOrder, CommittedOrder, RowOrder
  <2>. QED
    BY <2>1, <2>2, <2>3
<1>2. CASE Next
  BY <1>2, SiteInv, PreloadInv, PreloadFailsInv, FetchInv, BeginCycleInv, ProcessGameInv, CommitInv,
     CrashInv, RestartInv DEF Next, Collect
<1>. QED
  BY <1>1, <1>2

LEMMA SpecInv == GoodSource => (Spec => []IInv)
<1>. SUFFICES ASSUME GoodSource PROVE Spec => []IInv
  OBVIOUS
<1>1. Init => IInv
  BY InitInv
<1>2. IInv /\ [Next]_vars => IInv'
  BY StepInv
<1>. QED
  BY <1>1, <1>2, PTL DEF Spec

-----------------------------------------------------------------------------
(* The abstract store.                                                       *)

Answers == {Answer(r) : r \in Responses}
Answered(q) == [i \in 1..Len(q) |-> Answer(q[i])]
Pending == Answered(inFlight)
Current == [g \in Games |-> Latest(db.odds, g)]

LEMMA AnsweredSeq ==
  ASSUME NEW q \in Seq(Responses)
  PROVE  Answered(q) \in Seq(Answers) /\ Len(Answered(q)) = Len(q)
BY DEF Answered, Answers

LEMMA AnsweredAppend ==
  ASSUME NEW q \in Seq(Responses), NEW r \in Responses
  PROVE  Answered(Append(q, r)) = Append(Answered(q), Answer(r))
<1>1. Append(q, r) \in Seq(Responses) /\ Answer(r) \in Answers
  BY DEF Answers
<1>2. /\ Answered(q) \in Seq(Answers) /\ Answered(Append(q, r)) \in Seq(Answers)
      /\ Append(Answered(q), Answer(r)) \in Seq(Answers)
      /\ Len(Answered(Append(q, r))) = Len(q) + 1 /\ Len(Append(Answered(q), Answer(r))) = Len(q) + 1
  <2>1. Answered(q) \in Seq(Answers) /\ Len(Answered(q)) = Len(q)
    BY AnsweredSeq
  <2>2. Answered(Append(q, r)) \in Seq(Answers) /\ Len(Answered(Append(q, r))) = Len(Append(q, r))
    BY <1>1, AnsweredSeq
  <2>3. Len(Append(q, r)) = Len(q) + 1
    OBVIOUS
  <2>. QED
    BY <1>1, <2>1, <2>2, <2>3
<1>3. ASSUME NEW i \in 1..(Len(q) + 1)
      PROVE  Answered(Append(q, r))[i] = Append(Answered(q), Answer(r))[i]
  <2>1. Answered(Append(q, r))[i] = Answer(Append(q, r)[i])
    BY DEF Answered
  <2>2. Append(Answered(q), Answer(r))[i] = IF i = Len(q) + 1 THEN Answer(r) ELSE Answer(q[i])
    BY <1>1, AnsweredSeq DEF Answered
  <2>. QED
    BY <2>1, <2>2
<1>. QED
  BY <1>2, <1>3, SeqEqual

LEMMA AnsweredTail ==
  ASSUME NEW q \in Seq(Responses), q # <<>>
  PROVE  /\ Answered(q) # <<>> /\ Head(Answered(q)) = Answer(Head(q))
         /\ Answered(Tail(q)) = Tail(Answered(q))
<1>1. Answered(q) \in Seq(Answers) /\ Len(Answered(q)) = Len(q) /\ Len(q) \in Nat \ {0}
  BY AnsweredSeq
<1>2. Answered(q) # <<>> /\ Head(Answered(q)) = Answer(Head(q))
  BY <1>1 DEF Answered
<1>3. /\ Tail(q) \in Seq(Responses) /\ Len(Tail(q)) = Len(q) - 1
      /\ \A i \in 1..(Len(q) - 1) : Tail(q)[i] = q[i + 1]
  BY HeadTailProperties
<1>4. /\ Tail(Answered(q)) \in Seq(Answers) /\ Len(Tail(Answered(q))) = Len(q) - 1
      /\ \A i \in 1..(Len(q) - 1) : Tail(Answered(q))[i] = Answered(q)[i + 1]
  BY <1>1, <1>2, HeadTailProperties
<1>5. Answered(Tail(q)) \in Seq(Answers) /\ Len(Answered(Tail(q))) = Len(q) - 1
  BY <1>3, AnsweredSeq
<1>6. ASSUME NEW i \in 1..(Len(q) - 1) PROVE Answered(Tail(q))[i] = Tail(Answered(q))[i]
  <2>1. Answered(Tail(q))[i] = Answer(q[i + 1])
    BY <1>3 DEF Answered
  <2>2. Answered(q)[i + 1] = Answer(q[i + 1])
    BY <1>1 DEF Answered
  <2>. QED
    BY <1>4, <2>1, <2>2
<1>. QED
  BY <1>2, <1>4, <1>5, <1>6, SeqEqual

LEMMA StoreInit == Init => Store!Init
<1>. SUFFICES ASSUME Init PROVE Store!Init
  OBVIOUS
<1>1. Pending = <<>>
  BY DEF Init, Pending, Answered
<1>2. ASSUME NEW g \in Games PROVE Latest(db.odds, g) = [s \in Selections |-> Absent]
  BY AsOfNone DEF Init, Latest
<1>3. Current = [g \in Games |-> [s \in Selections |-> Absent]]
  BY <1>2 DEF Current
<1>. QED
  BY <1>1, <1>3 DEF Init, Store!Init, Pending, Answered, Current

LEMMA StoreReceive == \A D \in SUBSET Games : IInv /\ Fetch(D) => Store!Receive
<1>. SUFFICES ASSUME NEW D \in SUBSET Games, IInv, Fetch(D) PROVE Store!Receive
  OBVIOUS
<1>. USE DEF IInv
<1>. DEFINE r == [g \in Listed |-> site[g]]
<1>1. D = {} /\ UNCHANGED <<db, blind>>
  BY DEF Fetch, Shape, GoodSource, DetailIsGiven
<1>2. inFlight' = Append(inFlight, r)
  <2>1. r = [g \in Listed |-> IF g \in D THEN WithoutDetail(site[g]) ELSE site[g]]
    BY <1>1
  <2>. QED
    BY <2>1 DEF Fetch
<1>3. Answer(r) \in Store!Responses
  <2>1. Listed \in SUBSET Games
    BY DEF Listed
  <2>2. Answer(r) \in [Listed -> [shown : Content, over : BOOLEAN]]
    BY <2>1 DEF Answer, Shape, Snapshot
  <2>. QED
    BY <2>1, <2>2 DEF Store!Responses, Store!Content, Content
<1>4. r \in Responses
  <2>1. Listed \in SUBSET Games
    BY DEF Listed
  <2>2. r \in [Listed -> Snapshot]
    BY <2>1 DEF Shape
  <2>. QED
    BY <2>1, <2>2 DEF Responses
<1>. HIDE DEF r
<1>5. Pending' = Append(Pending, Answer(r))
  BY <1>2, <1>4, AnsweredAppend DEF Shape, Pending
<1>. QED
  BY <1>1, <1>3, <1>5 DEF Store!Receive, Pending, Answered

LEMMA StoreRecord == IInv /\ Commit => Store!Record
<1>. SUFFICES ASSUME IInv, Commit PROVE Store!Record
  OBVIOUS
<1>. USE DEF IInv
<1>. DEFINE head == Head(inFlight)
            r == Answer(head)
            M == {m \in (DOMAIN r) \X Selections : AsOf(draft.odds, m[1], m[2], MaxTs) # r[m[1]].shown[m[2]]}
<1>1. /\ proc = "txn" /\ todo = {} /\ db' = draft /\ inFlight' = Tail(inFlight) /\ blind' = blind
  BY DEF Commit
<1>2. /\ inFlight # <<>> /\ inFlight \in Seq(Responses) /\ head = inFlight[1] /\ 1 \in 1..Len(inFlight)
  BY <1>1 DEF Shape, ProcInv
<1>3. Pending # <<>> /\ Head(Pending) = r /\ Pending' = Tail(Pending)
  BY <1>1, <1>2, AnsweredTail DEF Pending
<1>5. /\ DOMAIN r = DOMAIN head /\ Done = DOMAIN head /\ DOMAIN head \subseteq Games
      /\ \A g \in DOMAIN head : r[g].shown = head[g].shown /\ r[g].over = (head[g].stage = "finished")
  BY <1>1, SnapShape DEF Answer, Done
<1>6. ASSUME NEW g \in DOMAIN head, NEW s \in Selections,
             AsOf(draft.odds, g, s, MaxTs) # head[g].shown[s]
      PROVE  blind /\ head[g].shown[s] = Absent
  <2>1. detector[g] = head[g].shown /\ g \in Games
    BY <1>1, <1>5 DEF DraftInv
  <2>. QED
    BY <1>1, <1>2, <1>6, <2>1 DEF MemoryInv
<1>7. M \in SUBSET Store!Missed(r)
  BY <1>5, <1>6 DEF Store!Missed
<1>8. ASSUME NEW g \in Games, NEW s \in Selections
      PROVE  AsOf(draft.odds, g, s, MaxTs) =
               IF g \in DOMAIN r /\ <<g, s>> \notin M THEN r[g].shown[s] ELSE AsOf(db.odds, g, s, MaxTs)
  <2>1. CASE g \in DOMAIN r /\ <<g, s>> \notin M
    BY <2>1
  <2>2. CASE ~(g \in DOMAIN r /\ <<g, s>> \notin M)
    <3>1. ~(g \in Done /\ AsOf(draft.odds, g, s, MaxTs) = Head(inFlight)[g].shown[s])
      BY <1>5, <2>2
    <3>. QED
      BY <1>1, <2>2, <3>1 DEF DraftInv
  <2>. QED
    BY <2>1, <2>2
<1>. HIDE DEF M, r
<1>9. Current' = [g \in Games |-> [s \in Selections |->
                    IF g \in DOMAIN r /\ <<g, s>> \notin M THEN r[g].shown[s] ELSE Current[g][s]]]
  <2>1. Current' = [g \in Games |-> [s \in Selections |-> AsOf(draft.odds, g, s, MaxTs)]]
    BY <1>1 DEF Current, Latest
  <2>2. \A g \in Games : \A s \in Selections : Current[g][s] = AsOf(db.odds, g, s, MaxTs)
    BY DEF Current, Latest
  <2>. QED
    BY <1>8, <2>1, <2>2
<1>10. db'.finished = db.finished \cup {g \in DOMAIN r : r[g].over}
  BY <1>1, <1>5 DEF DraftInv
<1>. QED
  <2>1. \E N \in SUBSET Store!Missed(Head(Pending)) :
          Current' = [g \in Games |-> [s \in Selections |->
            IF g \in DOMAIN Head(Pending) /\ <<g, s>> \notin N
            THEN Head(Pending)[g].shown[s] ELSE Current[g][s]]]
    BY <1>3, <1>7, <1>9
  <2>2. db'.finished = db.finished \cup {g \in DOMAIN Head(Pending) : Head(Pending)[g].over}
    BY <1>3, <1>10
  <2>. QED
    BY <1>1, <1>3, <2>1, <2>2 DEF Store!Record, Pending, Answered, Current

LEMMA StoreStep == IInv /\ [Next]_vars => [Store!Next]_(Store!vars)
<1>. SUFFICES ASSUME IInv, [Next]_vars PROVE [Store!Next]_(Store!vars)
  OBVIOUS
<1>1. ASSUME UNCHANGED <<inFlight, db, blind>> PROVE UNCHANGED Store!vars
  <2>1. UNCHANGED <<Pending, Current, db.finished, blind>>
    BY <1>1 DEF Pending, Answered, Current, Latest
  <2>. QED
    BY <2>1 DEF Store!vars, Pending, Answered, Current
<1>2. CASE Crash
  <2>1. inFlight' = <<>> /\ UNCHANGED <<db, blind>>
    BY <1>2 DEF Crash
  <2>2. Pending' = <<>> /\ UNCHANGED <<Current, db.finished, blind>>
    BY <2>1 DEF Pending, Answered, Current, Latest
  <2>3. Store!Lose
    BY <2>2 DEF Store!Lose, Pending, Answered, Current
  <2>. QED
    BY <2>3 DEF Store!Next
<1>3. CASE PreloadFails
  <2>1. blind' = TRUE /\ UNCHANGED <<inFlight, db>>
    BY <1>3 DEF PreloadFails
  <2>2. UNCHANGED <<Pending, Current, db.finished>>
    BY <2>1 DEF Pending, Answered, Current, Latest
  <2>3. Store!ReloadFails
    BY <2>1, <2>2 DEF Store!ReloadFails, Pending, Answered, Current
  <2>. QED
    BY <2>3 DEF Store!Next
<1>4. CASE \E D \in SUBSET Games : Fetch(D)
  BY <1>4, StoreReceive DEF Store!Next
<1>5. CASE Commit
  BY <1>5, StoreRecord DEF Store!Next
<1>6. CASE Site \/ Preload \/ BeginCycle \/ (\E g \in Games : ProcessGame(g)) \/ Restart \/ UNCHANGED vars
  <2>1. UNCHANGED <<inFlight, db, blind>>
    BY <1>6 DEF Site, Appear, Disappear, SiteMoves, Preload, BeginCycle, ProcessGame, Restart, vars
  <2>. QED
    BY <1>1, <2>1
<1>. QED
  BY <1>2, <1>3, <1>4, <1>5, <1>6 DEF Next, Collect

-----------------------------------------------------------------------------
(* Theorems.                                                                 *)

\* Read at the time of a stored response, the table gives back what it showed
\* (ChangeDetector.diff, store_snapshots).
THEOREM HistoryStaysFaithful == GoodSource => (Spec => []HistoryIsFaithful)
<1>1. IInv => HistoryIsFaithful
  BY DEF IInv, TableInv, Faithful, HistoryIsFaithful
<1>. QED
  BY <1>1, SpecInv, PTL

\* No row repeats the one before it as long as the detector was reloaded at every start
\* (ChangeDetector.preload).
THEOREM RowsAreChanges == GoodSource => (Spec => []EveryRowIsAChange)
<1>1. IInv => EveryRowIsAChange
  BY DEF IInv, TableInv, Changes, EveryRowIsAChange, NoFalseChange
<1>. QED
  BY <1>1, SpecInv, PTL

\* Between two cycles the detector remembers what odds_latest says of the listed games.
THEOREM MemoryStaysTrue == GoodSource => (Spec => []MemoryMatchesTable)
<1>1. IInv => MemoryMatchesTable
  <2>. SUFFICES ASSUME IInv, proc = "idle", ~blind, NEW g \in Listed
                PROVE  detector[g] = Latest(db.odds, g)
    BY DEF MemoryMatchesTable
  <2>1. g \in Games /\ listing[g] # "gone" /\ draft = db
    BY DEF Listed, IInv, ProcInv
  <2>2. \A s \in Selections : detector[g][s] = AsOf(db.odds, g, s, MaxTs)
    BY <2>1 DEF IInv, MemoryInv
  <2>3. detector[g] = [s \in Selections |-> detector[g][s]]
    BY <2>1 DEF IInv, Shape
  <2>4. detector[g] = [s \in Selections |-> AsOf(db.odds, g, s, MaxTs)]
    BY <2>2, <2>3
  <2>. QED
    BY <2>4 DEF Latest
<1>. QED
  BY <1>1, SpecInv, PTL

\* OddsHistory implements OddsStore: responses recorded in order and as a whole, the last one
\* giving the current state.
THEOREM StoreIsImplemented == GoodSource => (Spec => ImplementsStore)
<1>. SUFFICES ASSUME GoodSource PROVE Spec => ImplementsStore
  OBVIOUS
<1>1. Spec => []IInv
  BY SpecInv
<1>. QED
  BY <1>1, StoreInit, StoreStep, PTL DEF Spec, ImplementsStore, Store!Spec

-----------------------------------------------------------------------------
(* The types, which the detail of the games has no part in.                  *)

Less == {ss \in Nat \X Nat : ss[1] < ss[2]}

\* A set of times has a last one.
LEMMA LastTime ==
  ASSUME NEW N \in Nat, NEW T \in SUBSET (0..N), T # {}
  PROVE  \E m \in T : \A n \in T : n <= m
<1>. DEFINE Left == {N - n : n \in T}
<1>1. Left \subseteq Nat
  OBVIOUS
<1>2. Left # {}
  <2>1. PICK n \in T : TRUE
    OBVIOUS
  <2>. QED
    BY <2>1
<1>3. IsWellFoundedOn(Less, Nat)
  <2>1. Less = OpToRel(<, Nat)
    BY DEF Less, OpToRel
  <2>. QED
    BY <2>1, NatLessThanWellFounded
<1>4. PICK x \in Left : \A y \in Left : ~(<<y, x>> \in Less)
  BY <1>1, <1>2, <1>3, WFMin
<1>5. PICK m \in T : x = N - m
  OBVIOUS
<1>6. ASSUME NEW n \in T PROVE n <= m
  <2>1. N - n \in Left /\ N - n \in Nat /\ N - m \in Nat
    OBVIOUS
  <2>2. ~(N - n < N - m)
    BY <1>4, <1>5, <2>1 DEF Less
  <2>. QED
    BY <2>2
<1>. QED
  BY <1>6

\* What is read from a table is what a selection can be.
LEMMA LatestShape ==
  ASSUME NEW odds \in SUBSET Row, NEW g PROVE Latest(odds, g) \in Content
<1>1. ASSUME NEW s PROVE AsOf(odds, g, s, MaxTs) \in Odds \cup {Absent}
  <2>. DEFINE past == {r \in odds : r.game = g /\ r.sel = s /\ r.ts <= MaxTs}
              Last(r) == \A q \in past : q.ts <= r.ts
  <2>1. AsOf(odds, g, s, MaxTs) = IF past = {} THEN Absent ELSE (CHOOSE r \in past : Last(r)).odds
    BY DEF AsOf
  <2>2. CASE past # {}
    <3>. DEFINE T == {r.ts : r \in past}
    <3>1. MaxTs \in Nat /\ \A r \in past : r.ts \in 0..MaxTs
      BY BoundsAssumption DEF Row
    <3>2. T \in SUBSET (0..MaxTs)
      BY <3>1
    <3>3. T # {}
      <4>1. PICK r \in past : TRUE
        BY <2>2
      <4>. QED
        BY <4>1
    <3>4. PICK m \in T : \A n \in T : n <= m
      BY <3>1, <3>2, <3>3, LastTime
    <3>5. PICK r \in past : r.ts = m
      OBVIOUS
    <3>6. Last(r)
      BY <3>4, <3>5
    <3>. HIDE DEF past, Last
    <3>7. (CHOOSE q \in past : Last(q)) \in past
      BY <3>6
    <3>8. \A q \in past : q.odds \in Odds \cup {Absent}
      BY DEF past, Row
    <3>. QED
      BY <2>1, <2>2, <3>7, <3>8
  <2>3. CASE past = {}
    BY <2>1, <2>3
  <2>. QED
    BY <2>2, <2>3
<1>. QED
  BY <1>1 DEF Latest, Content

\* The queue is one of responses, and the open transaction is of its head.
TypeInv ==
  /\ TypeOK
  /\ inFlight \in Seq(Responses)
  /\ proc = "txn" => inFlight # <<>> /\ todo \subseteq DOMAIN Head(inFlight)

LEMMA ResponseShape ==
  ASSUME NEW r \in Responses
  PROVE  DOMAIN r \subseteq Games /\ \A g \in DOMAIN r : r[g] \in Snapshot
<1>1. PICK G \in SUBSET Games : r \in [G -> Snapshot]
  BY DEF Responses
<1>. QED
  BY <1>1

\* A queue of responses has its types.
LEMMA QueueShape ==
  ASSUME NEW q \in Seq(Responses)
  PROVE  \A i \in DOMAIN q :
           DOMAIN q[i] \subseteq Games /\ \A g \in DOMAIN q[i] : q[i][g] \in Snapshot
<1>1. \A i \in DOMAIN q : q[i] \in Responses
  OBVIOUS
<1>. QED
  BY <1>1, ResponseShape

LEMMA NothingShape == Nothing \in Content
BY DEF Nothing, Content

LEMMA TypesInit == Init => TypeInv
<1>. SUFFICES ASSUME Init PROVE TypeInv
  OBVIOUS
<1>1. site \in [Games -> Snapshot]
  <2>1. [ts |-> 1, shown |-> Nothing, stage |-> "playing"] \in Snapshot
    BY BoundsAssumption, NothingShape DEF Snapshot, Stages
  <2>. QED
    BY <2>1 DEF Init
<1>2. db \in Tables /\ draft \in Tables
  BY DEF Init, Tables
<1>3. detector \in [Games -> Content]
  BY NothingShape DEF Init
<1>4. inFlight \in Seq(Responses) /\ inFlight = <<>> /\ Len(inFlight) = 0
  BY DEF Init
<1>5. /\ listing \in [Games -> {"upcoming", "listed", "gone"}] /\ proc = "preload"
      /\ todo = {} /\ committed = {} /\ blind = FALSE /\ crashes = 0
  BY DEF Init
<1>6. Len(inFlight) <= MaxInFlight /\ crashes \in 0..MaxCrashes /\ DOMAIN inFlight = {}
  BY <1>4, <1>5, BoundsAssumption
<1>7. blind \in BOOLEAN
  BY <1>5
<1>. QED
  BY <1>1, <1>2, <1>3, <1>4, <1>5, <1>6, <1>7 DEF TypeInv, TypeOK

LEMMA FetchTypes ==
  ASSUME TypeInv, NEW D \in SUBSET Games, Fetch(D) PROVE TypeInv'
<1>. DEFINE r == [g \in Listed |-> IF g \in D THEN WithoutDetail(site[g]) ELSE site[g]]
<1>1. r \in Responses
  <2>1. ASSUME NEW g \in Listed PROVE site[g] \in Snapshot /\ WithoutDetail(site[g]) \in Snapshot
    <3>1. site[g] \in Snapshot
      BY DEF Listed, TypeInv, TypeOK
    <3>2. StartTs \in 1..MaxTs /\ site[g].stage \in Stages
      BY <3>1, BoundsAssumption DEF Snapshot
    <3>. QED
      BY <3>1, <3>2, NothingShape DEF WithoutDetail, Snapshot
  <2>2. r \in [Listed -> Snapshot]
    BY <2>1
  <2>3. Listed \in SUBSET Games
    BY DEF Listed
  <2>. QED
    BY <2>2, <2>3 DEF Responses
<1>2. /\ inFlight' = Append(inFlight, r) /\ Len(inFlight) < MaxInFlight
      /\ UNCHANGED <<siteVars, proc, todo, detector, db, draft, committed, blind, crashes>>
  BY DEF Fetch
<1>. HIDE DEF r
<1>3. /\ inFlight' \in Seq(Responses) /\ Len(inFlight') <= MaxInFlight
      /\ inFlight # <<>> => inFlight' # <<>> /\ Head(inFlight') = Head(inFlight)
  BY <1>1, <1>2, BoundsAssumption DEF TypeInv
<1>. QED
  BY <1>2, <1>3, QueueShape DEF TypeInv, TypeOK, siteVars

LEMMA ProcessTypes ==
  ASSUME TypeInv, NEW g \in Games, ProcessGame(g) PROVE TypeInv'
<1>. DEFINE snap == Head(inFlight)[g]
<1>1. /\ snap \in Snapshot /\ snap.ts \in 1..MaxTs /\ snap.shown \in Content /\ snap.stage \in Stages
  <2>1. Head(inFlight) \in Responses /\ g \in DOMAIN Head(inFlight)
    BY DEF TypeInv, ProcessGame
  <2>2. snap \in Snapshot
    BY <2>1, ResponseShape
  <2>. QED
    BY <2>2 DEF Snapshot
<1>2. /\ proc = "txn" /\ todo' = todo \ {g}
      /\ draft' = [odds |-> draft.odds \cup NotThere(draft.odds, Diff(g, snap)),
                   finished |-> StatusAfter(draft.finished, g, snap),
                   states |-> StatesAfter(draft.states, g, snap)]
      /\ detector' = [detector EXCEPT ![g] = snap.shown]
      /\ UNCHANGED <<siteVars, proc, inFlight, db, committed, blind, crashes>>
  BY DEF ProcessGame
<1>. HIDE DEF snap
<1>3. draft' \in Tables
  <2>1. draft.odds \subseteq Row /\ draft.finished \subseteq Games
        /\ draft.states \subseteq [game : Games, ts : 1..MaxTs, stage : Stages]
    BY DEF TypeInv, TypeOK, Tables
  <2>2. NotThere(draft.odds, Diff(g, snap)) \subseteq Row
    <3>1. \A s \in Selections : Kept[snap.shown[s]] \in Odds \cup {Absent}
      BY <1>1, KeptAssumption DEF Content
    <3>2. Diff(g, snap) \subseteq Row
      BY <1>1, <3>1 DEF Diff, Row
    <3>. QED
      BY <3>2 DEF NotThere
  <2>3. StatusAfter(draft.finished, g, snap) \subseteq Games
    BY <2>1 DEF StatusAfter
  <2>4. StatesAfter(draft.states, g, snap) \subseteq [game : Games, ts : 1..MaxTs, stage : Stages]
    BY <1>1, <2>1 DEF StatesAfter
  <2>. QED
    BY <1>2, <2>1, <2>2, <2>3, <2>4 DEF Tables
<1>4. detector' \in [Games -> Content]
  BY <1>1, <1>2 DEF TypeInv, TypeOK
<1>. QED
  BY <1>2, <1>3, <1>4 DEF TypeInv, TypeOK, siteVars

LEMMA CommitTypes ==
  ASSUME TypeInv, Commit PROVE TypeInv'
<1>1. /\ proc = "txn" /\ proc' = "idle" /\ db' = draft /\ inFlight' = Tail(inFlight)
      /\ UNCHANGED <<siteVars, todo, detector, draft, blind, crashes>>
  BY DEF Commit
<1>2. committed' \subseteq [game : Games, ts : 1..MaxTs, shown : Content]
  <2>1. Head(inFlight) \in Responses
    BY <1>1 DEF TypeInv
  <2>2. \A g \in DOMAIN Head(inFlight) :
          g \in Games /\ Head(inFlight)[g].ts \in 1..MaxTs /\ Head(inFlight)[g].shown \in Content
    BY <2>1, ResponseShape DEF Snapshot
  <2>. QED
    BY <2>2 DEF Commit, TypeInv, TypeOK
<1>3. inFlight' \in Seq(Responses) /\ Len(inFlight') <= MaxInFlight
  BY <1>1, BoundsAssumption DEF TypeInv, TypeOK
<1>. QED
  BY <1>1, <1>2, <1>3, QueueShape DEF TypeInv, TypeOK, siteVars

LEMMA SiteTypes ==
  ASSUME TypeInv, Site PROVE TypeInv'
<1>1. PICK g \in Games : Appear(g) \/ Disappear(g) \/ SiteMoves(g)
  BY DEF Site
<1>2. UNCHANGED <<proc, inFlight, todo, detector, db, draft, committed, blind, crashes>>
  BY <1>1 DEF Appear, Disappear, SiteMoves
<1>3. listing' \in [Games -> {"upcoming", "listed", "gone"}]
  BY <1>1 DEF Appear, Disappear, SiteMoves, TypeInv, TypeOK
<1>4. site' \in [Games -> Snapshot]
  <2>1. CASE Appear(g) \/ Disappear(g)
    BY <2>1 DEF Appear, Disappear, TypeInv, TypeOK
  <2>2. CASE SiteMoves(g)
    <3>1. PICK shown \in Content, stage \in Stages :
            site' = [site EXCEPT ![g] = [ts |-> @.ts + 1, shown |-> shown, stage |-> stage]]
      BY <2>2 DEF SiteMoves
    <3>2. site \in [Games -> Snapshot] /\ site[g].ts + 1 \in 1..MaxTs
      BY <2>2, BoundsAssumption DEF SiteMoves, TypeInv, TypeOK, Snapshot
    <3>3. [ts |-> site[g].ts + 1, shown |-> shown, stage |-> stage] \in Snapshot
      BY <3>2 DEF Snapshot
    <3>. QED
      BY <3>1, <3>2, <3>3
  <2>. QED
    BY <1>1, <2>1, <2>2
<1>. QED
  BY <1>2, <1>3, <1>4 DEF TypeInv, TypeOK

LEMMA TypesKept == TypeInv /\ [Next]_vars => TypeInv'
<1>. SUFFICES ASSUME TypeInv, [Next]_vars PROVE TypeInv'
  OBVIOUS
<1>1. CASE Preload
  <2>1. detector' \in [Games -> Content]
    <3>1. db.odds \in SUBSET Row
      BY DEF TypeInv, TypeOK, Tables
    <3>. QED
      BY <1>1, <3>1, LatestShape, NothingShape DEF Preload
  <2>. QED
    BY <1>1, <2>1 DEF Preload, TypeInv, TypeOK, siteVars
<1>2. CASE PreloadFails
  BY <1>2 DEF PreloadFails, TypeInv, TypeOK, siteVars
<1>3. CASE BeginCycle
  <2>1. Head(inFlight) \in Responses
    BY <1>3 DEF BeginCycle, TypeInv
  <2>2. DOMAIN Head(inFlight) \subseteq Games
    BY <2>1, ResponseShape
  <2>. QED
    BY <1>3, <2>2 DEF BeginCycle, TypeInv, TypeOK, siteVars
<1>4. CASE Restart
  BY <1>4 DEF Restart, TypeInv, TypeOK, siteVars
<1>5. CASE Crash
  <2>1. /\ inFlight' \in Seq(Responses) /\ inFlight' = <<>> /\ Len(inFlight') = 0
        /\ detector' \in [Games -> Content] /\ crashes' \in 0..MaxCrashes
    BY <1>5, NothingShape, BoundsAssumption DEF Crash, TypeInv, TypeOK
  <2>. QED
    BY <1>5, <2>1, BoundsAssumption DEF Crash, TypeInv, TypeOK, siteVars
<1>6. CASE UNCHANGED vars
  BY <1>6 DEF vars, siteVars, TypeInv, TypeOK
<1>. QED
  BY <1>1, <1>2, <1>3, <1>4, <1>5, <1>6, SiteTypes, FetchTypes, ProcessTypes, CommitTypes
     DEF Next, Collect

\* Every table, response and memory has its types, whatever the source refuses.
THEOREM HistoryTypes == Spec => []TypeOK
<1>1. TypeInv => TypeOK
  BY DEF TypeInv
<1>. QED
  BY <1>1, TypesInit, TypesKept, PTL DEF Spec

=============================================================================
