---------------------------- MODULE ResultsProof ----------------------------
(***************************************************************************)
(* The backfill and the reconciliation of ResultsHistory leave no hole, for    *)
(* any depth, window, lookback and number of crashes.                        *)
(*                                                                         *)
(* The walk is contiguous: a checkpoint ends where a window begins, and the    *)
(* next window to be asked for ends there (AnchorInv, WalkInv).  What the      *)
(* walk does not cover, the reconciliations do, one after the other (SeenInv,  *)
(* MeetInv).                                                                 *)
(***************************************************************************)
EXTENDS ResultsHistory, TLAPS

\* The last completed reconciliation is not too far, and the site has published what it owes.
ClockInv ==
  /\ FirstRun <= lastSeen /\ lastSeen <= now /\ now <= lastSeen + MaxBlind
  /\ \A d \in Dates : d + Delay < now => d \in published

\* A process works with the anchor of the checkpoint, which covers whole windows.
AnchorInv ==
  /\ proc = "down" => step = "next"
  /\ proc # "down" => /\ anchor \in Dates /\ FirstRun <= anchor
                      /\ checkpoint # None => checkpoint.anchor = anchor
  /\ checkpoint # None => /\ FirstRun <= checkpoint.anchor
                          /\ \E w \in Windows(checkpoint.anchor) : w.from = checkpoint.oldest

\* The window under way is the one that ends where the checkpoint is.
WalkInv ==
  proc = "backfill" /\ step # "next" =>
    /\ span \in Windows(anchor)
    /\ span.to = IF checkpoint = None THEN End(anchor) ELSE checkpoint.oldest
    /\ \A d \in Dates : span.from <= d /\ d < span.to /\ d + Delay < FirstRun => d \in got
    /\ step \in {"half", "stored"} => got \ Unreadable \subseteq results
    /\ step = "stored" => got \ Unreadable \subseteq rounds

\* What a reconciliation under way is about to store.
SeenInv ==
  proc = "reconcile" /\ step # "next" =>
    /\ step \in {"fetched", "half"} /\ span.to \in Nat
    /\ step = "half" => got \ Unreadable \subseteq results
    /\ lastSeen <= span.to - 1 /\ span.to - 1 <= now
    /\ \A d \in Dates : span.to - 1 <= d + Lookback /\ d + Delay < span.to - 1 => d \in got

\* What was published after the first run and before the last reconciliation is stored with its rounds.
MeetInv ==
  \A d \in Dates \ Unreadable : FirstRun <= d + Delay /\ d + Delay < lastSeen => d \in Stored

IInv == TypeOK /\ ClockInv /\ AnchorInv /\ WalkInv /\ SeenInv /\ CheckpointIsHonest

-----------------------------------------------------------------------------
(* Windows.                                                                  *)

LEMMA Multiples ==
  ASSUME NEW k \in Nat
  PROVE  k * Window \in Nat /\ k <= k * Window /\ (k + 1) * Window = k * Window + Window
BY DatesAssumption

\* A window is cut at the limit or has its whole length.
LEMMA WindowShape ==
  ASSUME NEW a \in Nat, FirstRun <= a, NEW w \in Windows(a)
  PROVE  \E k \in Nat :
           /\ k * Window < DaysBack
           /\ w.to = a + 1 - k * Window
           /\ w.from = IF DaysBack < (k + 1) * Window THEN a + 1 - DaysBack ELSE a + 1 - (k + 1) * Window
           /\ w.to \in Nat /\ w.from \in Nat /\ w.from < w.to /\ w.to <= a + 1
<1>1. PICK k \in 0..DaysBack :
        /\ k * Window < DaysBack
        /\ w = [from |-> Later(Oldest(a), (End(a) - k * Window) - Window), to |-> End(a) - k * Window]
  BY DEF Windows
<1>2. k \in Nat /\ k * Window \in Nat /\ (k + 1) * Window = k * Window + Window
  BY Multiples, DatesAssumption
<1>3. w.to = End(a) - k * Window /\ w.from = Later(Oldest(a), (End(a) - k * Window) - Window)
  BY <1>1, Zenon
<1>. DEFINE m == k * Window
<1>5. m \in Nat /\ m < DaysBack /\ (k + 1) * Window = m + Window /\ w.to = End(a) - m
      /\ w.from = Later(Oldest(a), (End(a) - m) - Window)
  BY <1>1, <1>2, <1>3
<1>. HIDE DEF m
<1>6. /\ w.to = a + 1 - m
      /\ w.from = IF DaysBack < (k + 1) * Window THEN a + 1 - DaysBack ELSE a + 1 - (k + 1) * Window
      /\ w.to \in Nat /\ w.from \in Nat /\ w.from < w.to /\ w.to <= a + 1
  BY <1>5, DatesAssumption DEF Later, End, Oldest
<1>. QED
  BY <1>1, <1>2, <1>6 DEF m

LEMMA WindowAt ==
  ASSUME NEW a \in Nat, FirstRun <= a, NEW k \in Nat, k * Window < DaysBack
  PROVE  \E w \in Windows(a) : w.to = a + 1 - k * Window
<1>1. k \in 0..DaysBack
  BY Multiples, DatesAssumption
<1>2. [from |-> Later(Oldest(a), (End(a) - k * Window) - Window), to |-> End(a) - k * Window] \in Windows(a)
  BY <1>1 DEF Windows
<1>. DEFINE v == [from |-> Later(Oldest(a), (End(a) - k * Window) - Window), to |-> End(a) - k * Window]
<1>3. v.to = End(a) - k * Window
  BY Zenon
<1>4. v \in Windows(a)
  BY <1>2
<1>. HIDE DEF v
<1>5. k * Window \in Nat
  BY Multiples
<1>6. v.to = a + 1 - k * Window
  BY <1>3, <1>5 DEF End
<1>. QED
  BY <1>4, <1>6, Zenon

\* The walk is contiguous: below a window there is nothing, or the window that ends where it
\* begins.
LEMMA NextWindow ==
  ASSUME NEW a \in Nat, FirstRun <= a, NEW v \in Windows(a), NEW w \in Windows(a), w.to <= v.from
  PROVE  \E u \in Windows(a) : u.to = v.from
<1>1. PICK k \in Nat :
        /\ k * Window < DaysBack
        /\ v.from = IF DaysBack < (k + 1) * Window THEN a + 1 - DaysBack ELSE a + 1 - (k + 1) * Window
  BY WindowShape
<1>2. PICK j \in Nat : j * Window < DaysBack /\ w.to = a + 1 - j * Window
  BY WindowShape
<1>3. (k + 1) * Window \in Nat /\ j * Window \in Nat
  BY Multiples
<1>4. (k + 1) * Window < DaysBack /\ v.from = a + 1 - (k + 1) * Window
  BY <1>1, <1>2, <1>3, DatesAssumption
<1>. QED
  BY <1>4, WindowAt

\* The first window ends at the end.
LEMMA FirstWindow ==
  ASSUME NEW a \in Nat, FirstRun <= a
  PROVE  \E w \in Windows(a) : w.to = End(a)
<1>1. 0 * Window = 0 /\ 0 < DaysBack
  BY DatesAssumption
<1>. QED
  BY <1>1, WindowAt DEF End

\* What a type-correct state says of its numbers.
LEMMA Numbers ==
  ASSUME TypeOK
  PROVE  /\ now \in Nat /\ lastSeen \in Nat
         /\ checkpoint # None => checkpoint.anchor \in Nat /\ checkpoint.oldest \in Nat
         /\ anchor # None => anchor \in Nat
BY DatesAssumption DEF TypeOK, Dates

-----------------------------------------------------------------------------
(* The inductive invariant.                                                  *)

LEMMA InitInv == Init => IInv /\ MeetInv
<1>. SUFFICES ASSUME Init PROVE IInv /\ MeetInv
  OBVIOUS
<1>1. TypeOK
  BY DatesAssumption DEF Init, TypeOK, Dates
<1>2. ClockInv
  BY DatesAssumption DEF Init, ClockInv, Dates
<1>3. AnchorInv /\ WalkInv /\ SeenInv /\ CheckpointIsHonest
  BY DEF Init, AnchorInv, WalkInv, SeenInv, CheckpointIsHonest
<1>4. MeetInv
  BY DatesAssumption DEF Init, MeetInv, Dates
<1>. QED
  BY <1>1, <1>2, <1>3, <1>4 DEF IInv

LEMMA TickInv == IInv /\ Tick => IInv'
<1>. SUFFICES ASSUME IInv, Tick PROVE IInv'
  OBVIOUS
<1>. USE DEF IInv
<1>1. TypeOK'
  BY DatesAssumption DEF Tick, TypeOK, Dates, procVars
<1>2. ClockInv'
  BY DatesAssumption DEF Tick, TypeOK, ClockInv, Dates
<1>3. AnchorInv' /\ WalkInv' /\ CheckpointIsHonest'
  BY DEF Tick, procVars, AnchorInv, WalkInv, CheckpointIsHonest, Stored
<1>4. SeenInv'
  <2>1. CASE proc = "reconcile" /\ step # "next"
    <3>1. span.to - 1 <= now + 1
      BY <2>1, Numbers DEF SeenInv
    <3>. QED
      BY <2>1, <3>1 DEF Tick, procVars, SeenInv
  <2>. QED
    BY <2>1 DEF Tick, procVars, SeenInv
<1>. QED
  BY <1>1, <1>2, <1>3, <1>4

LEMMA PublishInv == \A d \in Dates : IInv /\ Publish(d) => IInv'
<1>. SUFFICES ASSUME NEW d \in Dates, IInv, Publish(d) PROVE IInv'
  OBVIOUS
<1>. USE DEF IInv
<1>1. TypeOK' /\ ClockInv'
  BY DEF Publish, TypeOK, ClockInv, procVars
<1>2. AnchorInv' /\ WalkInv' /\ SeenInv' /\ CheckpointIsHonest'
  BY DEF Publish, procVars, AnchorInv, WalkInv, SeenInv, CheckpointIsHonest, Stored
<1>. QED
  BY <1>1, <1>2

LEMMA StartInv == IInv /\ Start => IInv'
<1>. SUFFICES ASSUME IInv, Start PROVE IInv'
  OBVIOUS
<1>. USE DEF IInv
<1>1. TypeOK' /\ ClockInv'
  BY DEF Start, TypeOK, ClockInv
<1>2. AnchorInv'
  BY DatesAssumption DEF Start, TypeOK, ClockInv, AnchorInv, Dates
<1>3. WalkInv' /\ SeenInv' /\ CheckpointIsHonest'
  BY DEF Start, AnchorInv, WalkInv, SeenInv, CheckpointIsHonest, Stored
<1>. QED
  BY <1>1, <1>2, <1>3

LEMMA CrashInv == IInv /\ Crash => IInv'
<1>. SUFFICES ASSUME IInv, Crash PROVE IInv'
  OBVIOUS
<1>. USE DEF IInv
<1>1. TypeOK'
  BY DatesAssumption DEF Crash, TypeOK
<1>2. ClockInv' /\ AnchorInv' /\ WalkInv' /\ SeenInv' /\ CheckpointIsHonest'
  BY DEF Crash, ClockInv, AnchorInv, WalkInv, SeenInv, CheckpointIsHonest, Stored
<1>. QED
  BY <1>1, <1>2

\* The last window left to do ends at the checkpoint, or at the end when there is none.
LEMMA BackfillFetchInv == IInv /\ BackfillFetch => IInv'
<1>. SUFFICES ASSUME IInv, BackfillFetch PROVE IInv'
  OBVIOUS
<1>. USE DEF IInv
<1>1. PICK w \in Todo(anchor) :
        (\A v \in Todo(anchor) : v.to <= w.to) /\ span' = w /\ got' = Published(w)
  BY DEF BackfillFetch
<1>2. anchor \in Nat /\ FirstRun <= anchor /\ anchor \in Dates
  BY DatesAssumption DEF BackfillFetch, AnchorInv, Dates
<1>3. w \in Windows(anchor)
  BY <1>1 DEF Todo
<1>4. w.to \in Nat /\ w.from \in Nat /\ w.from < w.to /\ w.to <= anchor + 1
  BY <1>2, <1>3, WindowShape
<1>5. w.to = IF checkpoint = None THEN End(anchor) ELSE checkpoint.oldest
  <2>1. CASE checkpoint = None
    <3>1. PICK v \in Windows(anchor) : v.to = End(anchor)
      BY <1>2, FirstWindow
    <3>2. End(anchor) <= w.to
      BY <1>1, <2>1, <3>1 DEF Todo
    <3>. QED
      BY <1>2, <1>4, <2>1, <3>2 DEF End
  <2>2. CASE checkpoint # None
    <3>1. checkpoint.anchor = anchor /\ checkpoint.oldest \in Nat
      BY <2>2, Numbers DEF BackfillFetch, AnchorInv
    <3>2. w.to <= checkpoint.oldest
      BY <1>1, <2>2 DEF Todo
    <3>3. PICK v \in Windows(anchor) : v.from = checkpoint.oldest
      BY <2>2, <3>1 DEF AnchorInv
    <3>4. PICK u \in Windows(anchor) : u.to = v.from
      BY <1>2, <1>3, <3>2, <3>3, NextWindow
    <3>5. u \in Todo(anchor)
      BY <2>2, <3>1, <3>3, <3>4 DEF Todo
    <3>6. checkpoint.oldest <= w.to
      BY <1>1, <3>3, <3>4, <3>5
    <3>. QED
      BY <1>4, <2>2, <3>1, <3>2, <3>6
  <2>. QED
    BY <2>1, <2>2
<1>6. TypeOK'
  <2>1. got' \subseteq Dates
    BY <1>1 DEF TypeOK, Published
  <2>2. w.from \in 0..(MaxTime + 1) /\ w.to \in 0..(MaxTime + 1)
    BY <1>2, <1>4, DatesAssumption DEF Dates
  <2>. QED
    BY <1>1, <1>4, <2>1, <2>2 DEF BackfillFetch, TypeOK
<1>7. ClockInv' /\ AnchorInv' /\ SeenInv' /\ CheckpointIsHonest'
  BY DEF BackfillFetch, ClockInv, AnchorInv, SeenInv, CheckpointIsHonest, Stored
<1>8. WalkInv'
  <2>1. \A d \in Dates : w.from <= d /\ d < w.to /\ d + Delay < FirstRun => d \in Published(w)
    <3>. SUFFICES ASSUME NEW d \in Dates, w.from <= d, d < w.to, d + Delay < FirstRun
                  PROVE  d \in Published(w)
      OBVIOUS
    <3>1. d + Delay < now
      BY DatesAssumption DEF ClockInv, TypeOK, Dates
    <3>. QED
      BY <3>1 DEF ClockInv, Published
  <2>. QED
    BY <1>1, <1>3, <1>5, <2>1 DEF BackfillFetch, WalkInv
<1>. QED
  BY <1>6, <1>7, <1>8

LEMMA BackfillStoreInv == IInv /\ BackfillStore => IInv'
<1>. SUFFICES ASSUME IInv, BackfillStore PROVE IInv'
  OBVIOUS
<1>. USE DEF IInv
<1>1. TypeOK' /\ ClockInv' /\ AnchorInv' /\ SeenInv'
  BY DEF BackfillStore, TypeOK, ClockInv, AnchorInv, SeenInv
<1>2. WalkInv' /\ CheckpointIsHonest'
  BY DEF BackfillStore, WalkInv, CheckpointIsHonest, Stored
<1>. QED
  BY <1>1, <1>2

LEMMA BackfillRoundsInv == IInv /\ BackfillRounds => IInv'
<1>. SUFFICES ASSUME IInv, BackfillRounds PROVE IInv'
  OBVIOUS
<1>. USE DEF IInv
<1>1. TypeOK' /\ ClockInv' /\ AnchorInv' /\ SeenInv'
  BY DEF BackfillRounds, TypeOK, ClockInv, AnchorInv, SeenInv
<1>2. WalkInv' /\ CheckpointIsHonest'
  BY DEF BackfillRounds, WalkInv, CheckpointIsHonest, Stored
<1>. QED
  BY <1>1, <1>2

LEMMA BackfillCheckpointInv == IInv /\ BackfillCheckpoint => IInv'
<1>. SUFFICES ASSUME IInv, BackfillCheckpoint PROVE IInv'
  OBVIOUS
<1>. USE DEF IInv
<1>1. /\ anchor \in Dates /\ anchor \in Nat /\ FirstRun <= anchor
      /\ checkpoint # None => checkpoint.anchor = anchor /\ checkpoint.oldest \in Nat
  BY DatesAssumption, Numbers DEF BackfillCheckpoint, AnchorInv, Dates
<1>2. /\ span \in Windows(anchor)
      /\ span.to = IF checkpoint = None THEN End(anchor) ELSE checkpoint.oldest
      /\ \A d \in Dates : span.from <= d /\ d < span.to /\ d + Delay < FirstRun => d \in got
      /\ got \ Unreadable \subseteq Stored
  BY DEF BackfillCheckpoint, WalkInv, Stored
<1>3. span.to \in Nat /\ span.from \in Nat /\ span.from < span.to /\ span.to <= anchor + 1
  BY <1>1, <1>2, WindowShape
<1>4. checkpoint'.anchor = anchor /\ checkpoint'.oldest = span.from
  BY DEF BackfillCheckpoint
<1>5. TypeOK'
  BY <1>1, <1>3, <1>4, DatesAssumption DEF BackfillCheckpoint, TypeOK, Dates
<1>6. ClockInv' /\ WalkInv' /\ SeenInv'
  BY DEF BackfillCheckpoint, ClockInv, WalkInv, SeenInv
<1>7. AnchorInv'
  BY <1>1, <1>2, <1>4 DEF BackfillCheckpoint, AnchorInv
<1>8. CheckpointIsHonest'
  <2>. SUFFICES ASSUME NEW d \in (span.from..anchor) \ Unreadable, d + Delay < FirstRun
                PROVE  d \in Stored
    BY <1>4 DEF BackfillCheckpoint, CheckpointIsHonest, Stored
  <2>1. d \in Nat /\ d \in Dates /\ span.from <= d /\ d <= anchor
    BY <1>1, <1>3, DatesAssumption DEF Dates
  <2>2. CASE d < span.to
    BY <1>2, <2>1, <2>2
  <2>3. CASE ~(d < span.to)
    <3>1. checkpoint # None /\ checkpoint.oldest <= d
      BY <1>1, <1>2, <1>3, <2>1, <2>3 DEF End
    <3>. QED
      BY <1>1, <2>1, <3>1 DEF CheckpointIsHonest
  <2>. QED
    BY <2>2, <2>3
<1>. QED
  BY <1>5, <1>6, <1>7, <1>8

LEMMA BackfillEndInv == IInv /\ BackfillEnd => IInv'
<1>. SUFFICES ASSUME IInv, BackfillEnd PROVE IInv'
  OBVIOUS
<1>. USE DEF IInv
<1>1. TypeOK' /\ ClockInv' /\ AnchorInv'
  BY DEF BackfillEnd, TypeOK, ClockInv, AnchorInv
<1>2. WalkInv' /\ SeenInv' /\ CheckpointIsHonest'
  BY DEF BackfillEnd, WalkInv, SeenInv, CheckpointIsHonest, Stored
<1>. QED
  BY <1>1, <1>2

LEMMA ReconcileFetchInv == IInv /\ ReconcileFetch => IInv'
<1>. SUFFICES ASSUME IInv, ReconcileFetch PROVE IInv'
  OBVIOUS
<1>. USE DEF IInv
<1>1. now \in Nat /\ now <= MaxTime
  BY DatesAssumption DEF TypeOK, Dates
<1>2. /\ span'.from = (IF now >= Lookback THEN now - Lookback ELSE 0) /\ span'.to = now + 1
      /\ got' = Published(Recent)
  BY DEF ReconcileFetch, Recent
<1>3. /\ span'.from \in Nat /\ span'.from <= now
      /\ \A d \in Nat : now <= d + Lookback => span'.from <= d
  BY <1>1, <1>2, DatesAssumption
<1>4. TypeOK'
  <2>1. got' \subseteq Dates
    BY <1>2 DEF TypeOK, Published
  <2>2. span'.from \in 0..(MaxTime + 1) /\ span'.to \in 0..(MaxTime + 1) /\ span'.from < span'.to
    BY <1>1, <1>2, <1>3, DatesAssumption
  <2>. QED
    BY <2>1, <2>2 DEF ReconcileFetch, TypeOK
<1>5. ClockInv' /\ AnchorInv' /\ WalkInv' /\ CheckpointIsHonest'
  BY DEF ReconcileFetch, ClockInv, AnchorInv, WalkInv, CheckpointIsHonest, Stored
<1>6. SeenInv'
  <2>1. span'.to - 1 = now
    BY <1>1, <1>2
  <2>2. ASSUME NEW d \in Dates, now <= d + Lookback, d + Delay < now
        PROVE  d \in got'
    <3>1. d \in Nat /\ d < now + 1 /\ d \in published
      BY <1>1, <2>2, DatesAssumption DEF ClockInv, Dates
    <3>2. Recent.from <= d /\ d < Recent.to
      BY <1>1, <1>2, <1>3, <2>2, <3>1 DEF ReconcileFetch
    <3>. QED
      BY <1>2, <3>1, <3>2 DEF Published
  <2>3. span'.to \in Nat
    BY <1>1, <1>2
  <2>. QED
    BY <1>1, <2>1, <2>2, <2>3 DEF ReconcileFetch, SeenInv, ClockInv
<1>. QED
  BY <1>4, <1>5, <1>6

LEMMA ReconcileStoreInv == IInv /\ ReconcileStore => IInv'
<1>. SUFFICES ASSUME IInv, ReconcileStore PROVE IInv'
  OBVIOUS
<1>. USE DEF IInv
<1>1. TypeOK' /\ ClockInv' /\ AnchorInv' /\ SeenInv'
  BY DEF ReconcileStore, TypeOK, ClockInv, AnchorInv, SeenInv
<1>2. WalkInv' /\ CheckpointIsHonest'
  BY DEF ReconcileStore, WalkInv, CheckpointIsHonest, Stored
<1>. QED
  BY <1>1, <1>2

LEMMA ReconcileRoundsInv == IInv /\ ReconcileRounds => IInv'
<1>. SUFFICES ASSUME IInv, ReconcileRounds PROVE IInv'
  OBVIOUS
<1>. USE DEF IInv
<1>1. /\ lastSeen <= span.to - 1 /\ span.to - 1 <= now /\ lastSeen' = span.to - 1
      /\ lastSeen \in Nat /\ now \in Nat
  BY Numbers DEF ReconcileRounds, SeenInv
<1>2. span.to \in Nat
  BY DEF ReconcileRounds, SeenInv
<1>3. TypeOK'
  <2>1. lastSeen' \in Dates
    BY <1>1, <1>2, DatesAssumption DEF TypeOK, Dates
  <2>2. rounds' \subseteq Dates
    BY DEF ReconcileRounds, TypeOK
  <2>. QED
    BY <2>1, <2>2 DEF ReconcileRounds, TypeOK
<1>4. ClockInv'
  BY <1>1, <1>2, DatesAssumption DEF ReconcileRounds, ClockInv
<1>5. AnchorInv' /\ WalkInv' /\ SeenInv' /\ CheckpointIsHonest'
  BY DEF ReconcileRounds, AnchorInv, WalkInv, SeenInv, CheckpointIsHonest, Stored
<1>. QED
  BY <1>3, <1>4, <1>5

LEMMA ReconcileFailsInv == IInv /\ ReconcileFails => IInv'
<1>. SUFFICES ASSUME IInv, ReconcileFails PROVE IInv'
  OBVIOUS
<1>. USE DEF IInv
<1>1. TypeOK' /\ ClockInv' /\ AnchorInv'
  BY DEF ReconcileFails, TypeOK, ClockInv, AnchorInv
<1>2. WalkInv' /\ SeenInv' /\ CheckpointIsHonest'
  BY DEF ReconcileFails, WalkInv, SeenInv, CheckpointIsHonest, Stored
<1>. QED
  BY <1>1, <1>2

LEMMA StepInv == IInv /\ [Next]_vars => IInv'
<1>. SUFFICES ASSUME IInv, [Next]_vars PROVE IInv'
  OBVIOUS
<1>1. CASE UNCHANGED vars
  BY <1>1 DEF vars, procVars, IInv, TypeOK, ClockInv, AnchorInv, WalkInv, SeenInv, CheckpointIsHonest,
              Stored
<1>. QED
  BY <1>1, TickInv, PublishInv, StartInv, CrashInv, BackfillFetchInv, BackfillStoreInv,
     BackfillRoundsInv, BackfillCheckpointInv, BackfillEndInv, ReconcileFetchInv,
     ReconcileStoreInv, ReconcileRoundsInv, ReconcileFailsInv DEF Next

\* Two reconciliations that are near enough overlap: only ReconcileRounds moves lastSeen.
LEMMA StepMeet ==
  ASSUME MaxBlind + Delay <= Lookback
  PROVE  IInv /\ MeetInv /\ [Next]_vars => MeetInv'
<1>. SUFFICES ASSUME IInv, MeetInv, [Next]_vars PROVE MeetInv'
  OBVIOUS
<1>. USE DEF IInv
<1>1. CASE ReconcileRounds
  <2>. SUFFICES ASSUME NEW d \in Dates \ Unreadable, FirstRun <= d + Delay, d + Delay < lastSeen'
                PROVE  d \in Stored'
    BY DEF MeetInv
  <2>1. /\ span.to - 1 <= now /\ lastSeen' = span.to - 1 /\ results' = results
        /\ rounds' = rounds \cup (got \ Unreadable) /\ got \ Unreadable \subseteq results
        /\ lastSeen \in Nat /\ now \in Nat /\ d \in Nat /\ now <= lastSeen + MaxBlind
    BY <1>1, Numbers DEF ReconcileRounds, SeenInv, ClockInv, Dates
  <2>2. span.to \in Nat
    BY <1>1 DEF SeenInv, ReconcileRounds
  <2>3. CASE span.to - 1 <= d + Lookback
    <3>1. d \in got
      BY <1>1, <2>1, <2>3 DEF ReconcileRounds, SeenInv
    <3>. QED
      BY <2>1, <3>1 DEF Stored
  <2>4. CASE ~(span.to - 1 <= d + Lookback)
    <3>1. d + Delay < lastSeen
      BY <2>1, <2>2, <2>4, DatesAssumption
    <3>. QED
      BY <2>1, <3>1 DEF MeetInv, Stored
  <2>. QED
    BY <2>3, <2>4
<1>2. CASE Next /\ ~ReconcileRounds
  <2>1. lastSeen' = lastSeen /\ results \subseteq results' /\ rounds \subseteq rounds'
    BY <1>2 DEF Next, Tick, Publish, Start, Crash, BackfillFetch, BackfillStore, BackfillRounds,
                BackfillCheckpoint, BackfillEnd, ReconcileFetch, ReconcileStore, ReconcileFails
  <2>. QED
    BY <2>1 DEF MeetInv, Stored
<1>3. CASE UNCHANGED vars
  BY <1>3 DEF vars, MeetInv, Stored
<1>. QED
  BY <1>1, <1>2, <1>3

LEMMA MeetIsEnough ==
  ASSUME MaxBlind + Delay <= Lookback
  PROVE  IInv /\ MeetInv => NoHole
<1>. SUFFICES ASSUME IInv, MeetInv, checkpoint # None, NEW d \in Dates \ Unreadable,
                     checkpoint.oldest <= d, d + Lookback < now
              PROVE  d \in Stored
  BY DEF NoHole
<1>. USE DEF IInv
<1>1. /\ now <= lastSeen + MaxBlind /\ FirstRun <= checkpoint.anchor
      /\ now \in Nat /\ lastSeen \in Nat /\ d \in Nat
      /\ checkpoint.anchor \in Nat /\ checkpoint.oldest \in Nat
  BY Numbers DEF ClockInv, AnchorInv, Dates
<1>2. d + Delay < lastSeen
  BY <1>1, DatesAssumption
<1>3. CASE FirstRun <= d + Delay
  BY <1>2, <1>3 DEF MeetInv
<1>4. CASE ~(FirstRun <= d + Delay)
  <2>1. d + Delay < FirstRun /\ d \in checkpoint.oldest..checkpoint.anchor
    BY <1>1, <1>4, DatesAssumption
  <2>. QED
    BY <2>1 DEF CheckpointIsHonest
<1>. QED
  BY <1>3, <1>4

-----------------------------------------------------------------------------
(* Theorems.                                                                 *)

LEMMA SpecInv == Spec => []IInv
BY InitInv, StepInv, PTL DEF Spec

\* The state of the walk and of the reconciliations has its type.
THEOREM ResultTypes == Spec => []TypeOK
BY SpecInv, PTL DEF IInv

\* What the checkpoint claims is stored with its rounds, whatever crashes cut the walk
\* (backfill_results).
THEOREM CheckpointStaysHonest == Spec => []CheckpointIsHonest
BY SpecInv, PTL DEF IInv

\* When the reconciliations are never further apart than what they look back to, less the delay
\* of a result, they and the backfill leave no hole between them (reconcile_recent).
THEOREM NoHoleLeft == MaxBlind + Delay <= Lookback => (Spec => []NoHole)
<1>. SUFFICES ASSUME MaxBlind + Delay <= Lookback PROVE Spec => []NoHole
  OBVIOUS
<1>1. Init => IInv /\ MeetInv
  BY InitInv
<1>2. (IInv /\ MeetInv) /\ [Next]_vars => (IInv /\ MeetInv)'
  BY StepInv, StepMeet
<1>3. IInv /\ MeetInv => NoHole
  BY MeetIsEnough
<1>. QED
  BY <1>1, <1>2, <1>3, PTL DEF Spec

=============================================================================
