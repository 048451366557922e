-------------------------- MODULE SchedulerProof --------------------------
(***************************************************************************)
(* Proofs about the scheduler, for every set of leagues, queue capacity,    *)
(* set of faults and bound.                                                 *)
(***************************************************************************)
EXTENDS Scheduler, FiniteSetTheorems, TLAPS

\* The writer holds a job exactly while it processes one.
HandInv ==
  /\ writer \in {"get", "done"} <=> inHand = NoJob
  /\ writer \in {"feed", "log"} => inHand.n = stored[inHand.league]

\* Room below the bound for the response being fetched; a response being put exists.
FetchInv ==
  \A l \in Leagues :
    /\ pc[l] \in {"v3", "archive", "legacy"} => taken[l] < MaxCycles
    /\ pc[l] = "put" => taken[l] > 0
    /\ stored[l] <= Enqueued(l)

\* Jobs are ranked: committed, then in hand, then queued in order, then being put.
RankInv ==
  /\ writer = "write" =>
       /\ stored[inHand.league] < inHand.n
       /\ inHand.n <= Enqueued(inHand.league)
  /\ \A i \in 1..Len(queue) :
       /\ stored[queue[i].league] < queue[i].n
       /\ queue[i].n <= Enqueued(queue[i].league)
       /\ writer = "write" /\ inHand.league = queue[i].league => inHand.n < queue[i].n
  /\ \A i, j \in 1..Len(queue) :
       i < j /\ queue[i].league = queue[j].league => queue[i].n < queue[j].n

\* What was queued at the stop is known, and no new cycle has begun since.
StopInv ==
  stopping => \A l \in Leagues :
    /\ owed[l] <= Enqueued(l)
    /\ taken[l] <= owed[l] + 1
    /\ pc[l] \in {"v3", "archive", "legacy"} => taken[l] = owed[l]

\* The writer ends after a stop, once everything queued then is committed.
DrainInv ==
  /\ writer = "done" => stopping /\ \A l \in Leagues : owed[l] <= stored[l]
  /\ phase = "ended" => writer = "done"

\* collection_log lags by the cycle being finished and by no other.
LogInv ==
  \A l \in Leagues :
    stored[l] = IF writer \in {"feed", "log"} /\ inHand.league = l
                  THEN logged[l] + 1 ELSE logged[l]

IInv ==
  TypeOK /\ HandInv /\ FetchInv /\ RankInv /\ NothingLost /\ StopInv /\ DrainInv /\ LogInv

-----------------------------------------------------------------------------
(* Types.                                                                    *)

USE LeaguesAssumption, QueueAssumption, BoundsAssumption, FaultsAssumption, NoJobAssumption

LEMMA InitType == Init => TypeOK
<1> SUFFICES ASSUME Init PROVE TypeOK
  OBVIOUS
<1> USE DEF Init
<1>1. phase \in StartPhases \cup {"gather"} \cup EndPhases /\ todo \subseteq Leagues
  BY DEF StartPhases
<1>2. stopping \in BOOLEAN /\ blocked \in BOOLEAN /\ dictBlocked \in BOOLEAN
  OBVIOUS
<1>3. /\ owed \in [Leagues -> 0..MaxCycles] /\ taken \in [Leagues -> 0..MaxCycles]
      /\ stored \in [Leagues -> 0..MaxCycles] /\ logged \in [Leagues -> 0..MaxCycles]
  OBVIOUS
<1>4. /\ pc \in [Leagues -> {"idle", "v3", "archive", "legacy", "log", "put", "done"}]
      /\ countdown \in [Leagues -> 0..ProbeCycles]
  OBVIOUS
<1>5. queue \in Seq(Job) /\ Len(queue) <= QueueMaxsize
  OBVIOUS
<1>6. inHand \in Job \cup {NoJob} /\ restarts \in 0..MaxRestarts
  OBVIOUS
<1>7. QED BY <1>1, <1>2, <1>3, <1>4, <1>5, <1>6 DEF TypeOK

\* Enqueued counts are in range, hence so is what RequestStop records.
LEMMA RequestStopType ==
  TypeOK /\ FetchInv /\ RequestStop => stopping' \in BOOLEAN /\ owed' \in [Leagues -> 0..MaxCycles]
<1> SUFFICES ASSUME TypeOK, FetchInv, RequestStop
             PROVE  stopping' \in BOOLEAN /\ owed' \in [Leagues -> 0..MaxCycles]
  OBVIOUS
<1>1. ASSUME NEW l \in Leagues PROVE Enqueued(l) \in 0..MaxCycles
  BY DEF Enqueued, FetchInv, TypeOK
<1>2. QED BY <1>1 DEF RequestStop, TypeOK

LEMMA StartType == TypeOK /\ FetchInv /\ StartStep => TypeOK'
<1> SUFFICES ASSUME TypeOK, FetchInv, StartStep PROVE TypeOK'
  OBVIOUS
<1> USE DEF TypeOK, startVars, stopVars, pollVars, writeVars, periodicVars, StartPhases, EndPhases
<1>1. ASSUME NEW l \in Leagues, PreloadLeague(l) PROVE TypeOK'
  BY <1>1 DEF PreloadLeague
<1>2. ASSUME NEW l \in Leagues, BackfillLeague(l) PROVE TypeOK'
  BY <1>2 DEF BackfillLeague
<1>3. CASE PreloadBlocked
  BY <1>3, RequestStopType DEF PreloadBlocked, StopIfBlocked
<1>4. CASE PreloadDone
  BY <1>4 DEF PreloadDone
<1>5. CASE BackfillCheck
  BY <1>5 DEF BackfillCheck
<1>6. CASE BackfillBlocked
  BY <1>6, RequestStopType DEF BackfillBlocked, StopIfBlocked
<1>7. CASE StartFails
  BY <1>7 DEF StartFails
<1>8. QED BY <1>1, <1>2, <1>3, <1>4, <1>5, <1>6, <1>7 DEF StartStep

LEMMA PeriodicType ==
  TypeOK /\ FetchInv /\ (ReconcileStep \/ DictStep \/ Stop \/ Finish) => TypeOK'
<1> SUFFICES ASSUME TypeOK, FetchInv, ReconcileStep \/ DictStep \/ Stop \/ Finish PROVE TypeOK'
  OBVIOUS
<1> USE DEF TypeOK, startVars, stopVars, pollVars, writeVars, periodicVars, StartPhases, EndPhases
<1>1. CASE ReconcileStart
  BY <1>1 DEF ReconcileStart
<1>2. CASE ReconcileCheck
  BY <1>2 DEF ReconcileCheck
<1>3. ASSUME NEW l \in Leagues, ReconcileLeague(l) PROVE TypeOK'
  BY <1>3 DEF ReconcileLeague
<1>4. CASE ReconcileBlocked
  BY <1>4, RequestStopType DEF ReconcileBlocked, StopIfBlocked
<1>5. CASE ReconcileFails
  BY <1>5 DEF ReconcileFails
<1>6. CASE ReconcileEnd
  BY <1>6 DEF ReconcileEnd
<1>7. CASE DictStart
  BY <1>7 DEF DictStart
<1>8. CASE DictDone
  BY <1>8 DEF DictDone
<1>9. CASE DictEnd
  BY <1>9 DEF DictEnd
<1>10. CASE Stop
  BY <1>10, RequestStopType DEF Stop
<1>11. CASE Finish
  BY <1>11 DEF Finish
<1>12. QED
  BY <1>1, <1>2, <1>3, <1>4, <1>5, <1>6, <1>7, <1>8, <1>9, <1>10, <1>11 DEF ReconcileStep, DictStep

LEMMA PollType ==
  ASSUME TypeOK, FetchInv, NEW l \in Leagues, PollStep(l) PROVE TypeOK'
<1> USE DEF TypeOK, startVars, stopVars, pollVars, writeVars, periodicVars, StartPhases, EndPhases
<1>1. CASE BeginCycle(l)
  <2>1. CASE l \in degraded
    <3> DEFINE left == IF countdown[l] > 0 THEN countdown[l] - 1 ELSE 0
    <3>1. left \in 0..ProbeCycles
      OBVIOUS
    <3>2. /\ countdown' = [countdown EXCEPT ![l] = left]
          /\ pc' = [pc EXCEPT ![l] = IF left = 0 THEN "v3" ELSE "legacy"]
      BY <1>1, <2>1 DEF BeginCycle
    <3> HIDE DEF left
    <3>3. QED BY <1>1, <3>1, <3>2 DEF BeginCycle
  <2>2. CASE l \notin degraded
    BY <1>1, <2>2 DEF BeginCycle
  <2>3. QED BY <2>1, <2>2
<1>2. CASE EndPolling(l)
  BY <1>2 DEF EndPolling
<1>3. CASE V3ServerError(l)
  BY <1>3 DEF V3ServerError
<1>4. CASE V3ParserError(l)
  BY <1>4 DEF V3ParserError
<1>5. CASE Archived(l)
  BY <1>5 DEF Archived
<1>6. CASE LegacyError(l)
  BY <1>6 DEF LegacyError
<1>7. CASE ErrorLogged(l)
  BY <1>7 DEF ErrorLogged
<1>8. CASE V3Ok(l) \/ LegacyOk(l)
  <2>1. taken[l] + 1 \in 0..MaxCycles
    BY <1>8 DEF V3Ok, LegacyOk, FetchInv
  <2>2. CASE V3Ok(l)
    BY <2>1, <2>2 DEF V3Ok
  <2>3. CASE LegacyOk(l)
    BY <2>1, <2>3 DEF LegacyOk
  <2>4. QED BY <1>8, <2>2, <2>3
<1>9. CASE PollBlocked(l)
  BY <1>9, RequestStopType DEF PollBlocked, StopIfBlocked
<1>10. CASE Put(l)
  <2>1. [league |-> l, n |-> taken[l]] \in Job
    BY <1>10 DEF Put, FetchInv, Job
  <2>2. queue' \in Seq(Job) /\ Len(queue') <= QueueMaxsize
    BY <1>10, <2>1 DEF Put
  <2>3. QED BY <1>10, <2>2 DEF Put
<1>11. CASE PollCrash(l)
  BY <1>11 DEF PollCrash, Crash
<1>12. QED
  BY <1>1, <1>2, <1>3, <1>4, <1>5, <1>6, <1>7, <1>8, <1>9, <1>10, <1>11 DEF PollStep

LEMMA WriteType == TypeOK /\ FetchInv /\ HandInv /\ WriteStep => TypeOK'
<1> SUFFICES ASSUME TypeOK, FetchInv, HandInv, WriteStep PROVE TypeOK'
  OBVIOUS
<1> USE DEF TypeOK, startVars, stopVars, pollVars, writeVars, periodicVars, StartPhases, EndPhases
<1>1. CASE Take
  <2>1. Head(queue) \in Job /\ Tail(queue) \in Seq(Job) /\ Len(Tail(queue)) <= QueueMaxsize
    BY <1>1 DEF Take
  <2>2. QED BY <1>1, <2>1 DEF Take
<1>2. CASE EndWriting
  BY <1>2 DEF EndWriting
<1>3. CASE FeedDone
  BY <1>3 DEF FeedDone
<1>4. CASE StoreCycle \/ WriteDone
  <2>1. inHand.league \in Leagues /\ inHand.n \in 0..MaxCycles
    BY <1>4 DEF StoreCycle, WriteDone, HandInv, Job
  <2>2. CASE StoreCycle
    BY <2>1, <2>2 DEF StoreCycle
  <2>3. CASE WriteDone
    BY <2>1, <2>3 DEF WriteDone
  <2>4. QED BY <1>4, <2>2, <2>3
<1>5. CASE FeedBlocked
  BY <1>5, RequestStopType DEF FeedBlocked, StopIfBlocked
<1>6. CASE WriteCrash
  BY <1>6 DEF WriteCrash, Crash
<1>7. QED BY <1>1, <1>2, <1>3, <1>4, <1>5, <1>6 DEF WriteStep

LEMMA RestartType == TypeOK /\ Restart => TypeOK'
<1> SUFFICES ASSUME TypeOK, Restart PROVE TypeOK'
  OBVIOUS
<1> USE DEF Restart
<1>1. /\ phase' \in StartPhases \cup {"gather"} \cup EndPhases /\ todo' \subseteq Leagues
      /\ degraded' \subseteq Leagues /\ recTodo' \subseteq Leagues
  BY DEF StartPhases
<1>2. stopping' \in BOOLEAN /\ blocked' \in BOOLEAN /\ dictBlocked' \in BOOLEAN
  OBVIOUS
<1>3. /\ owed' \in [Leagues -> 0..MaxCycles] /\ taken' \in [Leagues -> 0..MaxCycles]
      /\ stored' \in [Leagues -> 0..MaxCycles] /\ logged' \in [Leagues -> 0..MaxCycles]
  OBVIOUS
<1>4. /\ pc' \in [Leagues -> {"idle", "v3", "archive", "legacy", "log", "put", "done"}]
      /\ countdown' \in [Leagues -> 0..ProbeCycles]
  OBVIOUS
<1>5. queue' \in Seq(Job) /\ Len(queue') <= QueueMaxsize
  OBVIOUS
<1>6. inHand' \in Job \cup {NoJob} /\ restarts' \in 0..MaxRestarts
  BY DEF TypeOK
<1>7. writer' \in {"get", "write", "feed", "log", "done"}
      /\ rec' \in {"idle", "check", "call", "done"} /\ dict' \in {"idle", "call", "done"}
  OBVIOUS
<1>8. QED BY <1>1, <1>2, <1>3, <1>4, <1>5, <1>6, <1>7 DEF TypeOK

-----------------------------------------------------------------------------
(* Facts about jobs.                                                         *)

LEMMA QueueJobs ==
  TypeOK => \A i \in 1..Len(queue) : queue[i].league \in Leagues /\ queue[i].n \in Nat
<1> SUFFICES ASSUME TypeOK, NEW i \in 1..Len(queue)
             PROVE  queue[i].league \in Leagues /\ queue[i].n \in Nat
  OBVIOUS
<1>1. queue[i] \in Job
  BY DEF TypeOK
<1>2. QED BY <1>1 DEF Job

LEMMA HandJob ==
  TypeOK /\ HandInv /\ writer \in {"write", "feed", "log"} =>
    inHand \in Job /\ inHand.league \in Leagues /\ inHand.n \in Nat
BY DEF TypeOK, HandInv, Job

LEMMA CountTypes ==
  TypeOK => \A l \in Leagues : taken[l] \in Nat /\ stored[l] \in Nat /\ owed[l] \in Nat /\ logged[l] \in Nat
BY DEF TypeOK

-----------------------------------------------------------------------------
(* The inductive step, by the part of the state a step touches.              *)

\* A stop request records at most what has been queued, and misses nothing queued.
SameStop == UNCHANGED <<stopping, owed>>

LEMMA StopCases ==
  ASSUME IInv, SameStop \/ RequestStop, UNCHANGED taken,
         \A l \in Leagues : Enqueued(l)' = Enqueued(l),
         \A l \in Leagues : pc'[l] \in {"v3", "archive", "legacy"} =>
                              pc[l] # "put" /\ (stopping => taken[l] = owed[l])
  PROVE  StopInv'
<1> USE DEF IInv, TypeOK, FetchInv, StopInv
<1>1. CASE stopping
  <2>1. UNCHANGED <<stopping, owed>>
    BY <1>1 DEF SameStop, RequestStop
  <2>2. QED BY <1>1, <2>1
<1>2. CASE ~stopping /\ SameStop
  BY <1>2 DEF SameStop
<1>3. CASE ~stopping /\ RequestStop
  <2>1. SUFFICES ASSUME NEW l \in Leagues
                 PROVE  /\ owed'[l] <= Enqueued(l)'
                        /\ taken'[l] <= owed'[l] + 1
                        /\ pc'[l] \in {"v3", "archive", "legacy"} => taken'[l] = owed'[l]
    OBVIOUS
  <2>2. owed'[l] = Enqueued(l)
    BY <1>3 DEF RequestStop
  <2>3. Enqueued(l) = IF pc[l] = "put" THEN taken[l] - 1 ELSE taken[l]
    BY DEF Enqueued
  <2>4. QED BY <2>2, <2>3
<1>4. QED BY <1>1, <1>2, <1>3

\* Steps that touch neither the poll loops nor the writer.
LEMMA QuietStep ==
  ASSUME IInv, TypeOK', UNCHANGED <<pc, taken, writeVars>>, SameStop \/ RequestStop,
         phase' = "ended" => writer = "done"
  PROVE  IInv'
<1> USE DEF IInv, writeVars
<1>1. HandInv' BY DEF HandInv
<1>2. FetchInv' BY DEF FetchInv, Enqueued
<1>3. RankInv' BY DEF RankInv, Enqueued
<1>4. NothingLost' BY DEF NothingLost, Waiting, InQueue, Writing
<1>5. StopInv'
  <2>1. \A l \in Leagues : Enqueued(l)' = Enqueued(l)
    BY DEF Enqueued
  <2>2. QED BY <2>1, StopCases DEF StopInv
<1>6. DrainInv' BY DEF DrainInv, SameStop, RequestStop
<1>7. LogInv' BY DEF LogInv
<1>8. QED BY <1>1, <1>2, <1>3, <1>4, <1>5, <1>6, <1>7

\* A poll loop moves on without obtaining or queueing a response.
LEMMA MoveStep ==
  ASSUME IInv, TypeOK', NEW l \in Leagues, NEW x,
         pc[l] # "put", x # "put", pc' = [pc EXCEPT ![l] = x],
         UNCHANGED <<phase, taken, writeVars>>, SameStop \/ RequestStop,
         x \in {"v3", "archive", "legacy"} =>
           taken[l] < MaxCycles /\ (stopping => taken[l] = owed[l])
  PROVE  IInv'
<1> USE DEF IInv, writeVars
<1>1. \A k \in Leagues : pc'[k] = IF k = l THEN x ELSE pc[k]
  BY DEF TypeOK
<1>2. \A k \in Leagues : pc'[k] = "put" <=> pc[k] = "put"
  BY <1>1
<1>3. HandInv' BY DEF HandInv
<1>4. FetchInv' BY <1>1, <1>2 DEF FetchInv, Enqueued
<1>5. RankInv'
  <2>1. writer = "write" => inHand.league \in Leagues
    BY HandJob
  <2>2. QED BY <1>2, <2>1, QueueJobs DEF RankInv, Enqueued
<1>6. NothingLost'
  BY <1>2 DEF NothingLost, Waiting, InQueue, Writing
<1>7. StopInv'
  <2>1. \A k \in Leagues : pc'[k] \in {"v3", "archive", "legacy"} =>
                             pc[k] # "put" /\ (stopping => taken[k] = owed[k])
    BY <1>1 DEF StopInv
  <2>2. \A k \in Leagues : Enqueued(k)' = Enqueued(k)
    BY <1>2 DEF Enqueued
  <2>3. QED BY <2>1, <2>2, StopCases
<1>8. DrainInv' BY DEF DrainInv, SameStop, RequestStop
<1>9. LogInv' BY DEF LogInv
<1>10. QED BY <1>3, <1>4, <1>5, <1>6, <1>7, <1>8, <1>9

\* A poll loop obtains a response.
LEMMA ResponseStep ==
  ASSUME IInv, TypeOK', NEW l \in Leagues, pc[l] \in {"v3", "legacy"},
         pc' = [pc EXCEPT ![l] = "put"], taken' = [taken EXCEPT ![l] = @ + 1],
         UNCHANGED <<phase, stopVars, writeVars>>
  PROVE  IInv'
<1> USE DEF IInv, stopVars, writeVars
<1>1. \A k \in Leagues : /\ pc'[k] = IF k = l THEN "put" ELSE pc[k]
                         /\ taken'[k] = IF k = l THEN taken[k] + 1 ELSE taken[k]
  BY DEF TypeOK
<1>2. \A k \in Leagues : (IF pc'[k] = "put" THEN taken'[k] - 1 ELSE taken'[k])
                           = IF pc[k] = "put" THEN taken[k] - 1 ELSE taken[k]
  BY <1>1, CountTypes
<1>3. HandInv' BY DEF HandInv
<1>4. FetchInv' BY <1>1, <1>2, CountTypes DEF FetchInv, Enqueued
<1>5. RankInv'
  <2>1. writer = "write" => inHand.league \in Leagues
    BY HandJob
  <2>2. QED BY <1>2, <2>1, QueueJobs DEF RankInv, Enqueued
<1>6. NothingLost'
  <2>1. SUFFICES ASSUME NEW k \in Leagues, NEW n \in (stored[k] + 1)..taken'[k]
                 PROVE  Waiting(k, n)' \/ InQueue(k, n)' \/ Writing(k, n)'
    BY DEF NothingLost
  <2>2. CASE k = l /\ n = taken[l] + 1
    BY <1>1, <2>2 DEF Waiting
  <2>3. CASE ~(k = l /\ n = taken[l] + 1)
    <3>1. n \in (stored[k] + 1)..taken[k]
      BY <1>1, <2>3, CountTypes
    <3>2. Waiting(k, n) \/ InQueue(k, n) \/ Writing(k, n)
      BY <3>1 DEF NothingLost
    <3>3. Waiting(k, n) => Waiting(k, n)'
      BY <1>1 DEF Waiting
    <3>4. QED BY <3>2, <3>3 DEF InQueue, Writing
  <2>4. QED BY <2>2, <2>3
<1>7. StopInv' BY <1>1, <1>2, CountTypes DEF StopInv, Enqueued
<1>8. DrainInv' BY DEF DrainInv
<1>9. LogInv' BY DEF LogInv
<1>10. QED BY <1>3, <1>4, <1>5, <1>6, <1>7, <1>8, <1>9

\* A response enters the queue behind every older response of its league.
LEMMA PutStep ==
  ASSUME IInv, TypeOK', NEW l \in Leagues, Put(l)
  PROVE  IInv'
<1> USE DEF IInv
<1>1. /\ pc[l] = "put"
      /\ \A k \in Leagues : pc'[k] = IF k = l THEN "idle" ELSE pc[k]
      /\ taken' = taken
  BY DEF TypeOK, Put
<1>2. UNCHANGED <<phase, stopping, owed, writer, inHand, stored, logged>>
  BY DEF Put, startVars, stopVars
<1>3. /\ Len(queue') = Len(queue) + 1 /\ Len(queue) \in Nat
      /\ \A i \in 1..Len(queue) : queue'[i] = queue[i]
      /\ queue'[Len(queue) + 1] = [league |-> l, n |-> taken[l]]
  BY DEF TypeOK, Put
<1>4. HandInv' BY <1>2 DEF HandInv
<1>5. FetchInv' BY <1>1, <1>2, CountTypes DEF FetchInv, Enqueued
<1>6. RankInv'
  <2>1. writer' = "write" => /\ stored'[inHand'.league] < inHand'.n
                             /\ inHand'.n <= Enqueued(inHand.league)'
    BY <1>1, <1>2, HandJob, CountTypes DEF RankInv, Enqueued
  <2>2. ASSUME NEW i \in 1..Len(queue')
        PROVE  /\ stored'[queue'[i].league] < queue'[i].n
               /\ queue'[i].n <= Enqueued(queue[i].league)'
               /\ writer' = "write" /\ inHand'.league = queue'[i].league => inHand'.n < queue'[i].n
    <3>1. CASE i \in 1..Len(queue)
      BY <1>1, <1>2, <1>3, <3>1, QueueJobs, CountTypes DEF RankInv, Enqueued
    <3>2. CASE i = Len(queue) + 1
      <4>1. queue'[i].league = l /\ queue'[i].n = taken[l]
        BY <1>3, <3>2
      <4>2. stored[l] < taken[l]
        BY <1>1, CountTypes DEF FetchInv, Enqueued
      <4>3. writer = "write" /\ inHand.league = l => inHand.n < taken[l]
        BY <1>1, HandJob, CountTypes DEF RankInv, Enqueued
      <4>4. QED BY <1>1, <1>2, <4>1, <4>2, <4>3, CountTypes DEF Enqueued
    <3>3. QED BY <1>3, <3>1, <3>2
  <2>3. ASSUME NEW i \in 1..Len(queue'), NEW j \in 1..Len(queue'),
               i < j, queue'[i].league = queue'[j].league
        PROVE  queue'[i].n < queue'[j].n
    <3>1. CASE j \in 1..Len(queue)
      BY <1>3, <2>3, <3>1 DEF RankInv
    <3>2. CASE j = Len(queue) + 1
      <4>1. i \in 1..Len(queue) /\ queue[i].league = l /\ queue'[j].n = taken[l]
        BY <1>3, <2>3, <3>2
      <4>2. queue[i].n <= taken[l] - 1
        BY <1>1, <4>1 DEF RankInv, Enqueued
      <4>3. QED BY <1>3, <4>1, <4>2, QueueJobs, CountTypes
    <3>3. QED BY <1>3, <3>1, <3>2
  <2>4. QED BY <1>2, <2>1, <2>2, <2>3 DEF RankInv
<1>7. NothingLost'
  <2>1. SUFFICES ASSUME NEW k \in Leagues, NEW n \in (stored[k] + 1)..taken[k]
                 PROVE  Waiting(k, n)' \/ InQueue(k, n)' \/ Writing(k, n)'
    BY <1>1, <1>2 DEF NothingLost
  <2>2. Waiting(k, n) \/ InQueue(k, n) \/ Writing(k, n)
    BY DEF NothingLost
  <2>3. CASE Waiting(k, n) /\ k = l
    <3>1. queue'[Len(queue) + 1] = [league |-> k, n |-> n]
      BY <1>3, <2>3 DEF Waiting
    <3>2. Len(queue) + 1 \in DOMAIN queue'
      BY <1>3 DEF TypeOK
    <3>3. QED BY <3>1, <3>2 DEF InQueue
  <2>4. CASE Waiting(k, n) /\ k # l
    BY <1>1, <2>4 DEF Waiting
  <2>5. CASE InQueue(k, n)
    <3>1. PICK i \in DOMAIN queue : queue[i] = [league |-> k, n |-> n]
      BY <2>5 DEF InQueue
    <3>2. DOMAIN queue = 1..Len(queue) /\ DOMAIN queue' = 1..Len(queue')
      BY DEF TypeOK
    <3>4. i \in DOMAIN queue' /\ queue'[i] = queue[i]
      BY <1>3, <3>1, <3>2
    <3>5. QED BY <3>1, <3>4 DEF InQueue
  <2>6. CASE Writing(k, n)
    BY <1>2, <2>6 DEF Writing
  <2>7. QED BY <2>2, <2>3, <2>4, <2>5, <2>6
<1>8. StopInv'
  BY <1>1, <1>2, CountTypes DEF StopInv, Enqueued
<1>9. DrainInv' BY <1>2 DEF DrainInv
<1>10. LogInv' BY <1>2 DEF LogInv
<1>11. QED BY <1>4, <1>5, <1>6, <1>7, <1>8, <1>9, <1>10

\* The job the writer is committing is the oldest one not committed yet.
LEMMA InOrder == IInv => WrittenInOrder
<1> SUFFICES ASSUME IInv, writer = "write" PROVE inHand.n = stored[inHand.league] + 1
  BY DEF WrittenInOrder
<1> USE DEF IInv
<1> DEFINE l == inHand.league
           n == stored[l] + 1
<1>1. l \in Leagues /\ inHand.n \in Nat /\ stored[l] \in Nat /\ taken[l] \in Nat
  BY HandJob, CountTypes
<1>2. stored[l] < inHand.n /\ inHand.n <= Enqueued(l)
  BY DEF RankInv
<1>3. Enqueued(l) <= taken[l] /\ (pc[l] = "put" => Enqueued(l) = taken[l] - 1) /\ Enqueued(l) \in Int
  BY <1>1 DEF Enqueued
<1>4. Waiting(l, n) \/ InQueue(l, n) \/ Writing(l, n)
  BY <1>1, <1>2, <1>3 DEF NothingLost
<1>5. ~Waiting(l, n)
  BY <1>1, <1>2, <1>3 DEF Waiting
<1>6. ~InQueue(l, n)
  <2>1. SUFFICES ASSUME NEW i \in DOMAIN queue, queue[i] = [league |-> l, n |-> n] PROVE FALSE
    BY DEF InQueue
  <2>2. i \in 1..Len(queue) /\ queue[i].league = l /\ queue[i].n = n
    BY <2>1 DEF TypeOK
  <2>3. inHand.n < n
    BY <2>2 DEF RankInv
  <2>4. QED BY <1>1, <1>2, <2>3
<1>7. QED BY <1>4, <1>5, <1>6 DEF Writing

\* The writer takes the job at the head.
LEMMA TakeStep == IInv /\ TypeOK' /\ Take => IInv'
<1> SUFFICES ASSUME IInv, TypeOK', Take PROVE IInv'
  OBVIOUS
<1> USE DEF IInv
<1>1. UNCHANGED <<phase, stopping, owed, pc, taken, stored, logged>>
  BY DEF Take, startVars, stopVars, pollVars
<1>2. /\ queue \in Seq(Job) /\ Len(queue) \in Nat /\ Len(queue) > 0
      /\ Len(queue') = Len(queue) - 1
      /\ \A i \in 1..Len(queue') : queue'[i] = queue[i + 1]
      /\ DOMAIN queue = 1..Len(queue) /\ DOMAIN queue' = 1..Len(queue')
  BY DEF TypeOK, Take
<1>3. writer = "get" /\ writer' = "write" /\ inHand' = queue[1] /\ inHand' \in Job
  BY <1>2 DEF TypeOK, Take
<1>4. HandInv' BY <1>3 DEF HandInv
<1>5. FetchInv' BY <1>1 DEF FetchInv, Enqueued
<1>6. RankInv'
  <2>1. 1 \in 1..Len(queue) /\ \A i \in 1..Len(queue') : i + 1 \in 1..Len(queue) /\ 1 < i + 1
    BY <1>2
  <2>2. /\ stored[queue[1].league] < queue[1].n
        /\ queue[1].n <= Enqueued(queue[1].league)
    BY <2>1 DEF RankInv
  <2>3. ASSUME NEW i \in 1..Len(queue')
        PROVE  /\ stored'[queue'[i].league] < queue'[i].n
               /\ queue'[i].n <= Enqueued(queue[i + 1].league)
               /\ inHand'.league = queue'[i].league => inHand'.n < queue'[i].n
    BY <1>1, <1>2, <1>3, <2>1 DEF RankInv
  <2>4. ASSUME NEW i \in 1..Len(queue'), NEW j \in 1..Len(queue'),
               i < j, queue'[i].league = queue'[j].league
        PROVE  queue'[i].n < queue'[j].n
    <3>1. queue'[i] = queue[i + 1] /\ queue'[j] = queue[j + 1] /\ i + 1 < j + 1
      BY <1>2, <2>4
    <3>2. QED BY <2>1, <2>4, <3>1 DEF RankInv
  <2>5. QED BY <1>1, <1>2, <1>3, <2>2, <2>3, <2>4 DEF RankInv, Enqueued
<1>7. NothingLost'
  <2>1. SUFFICES ASSUME NEW k \in Leagues, NEW n \in (stored[k] + 1)..taken[k]
                 PROVE  Waiting(k, n)' \/ InQueue(k, n)' \/ Writing(k, n)'
    BY <1>1 DEF NothingLost
  <2>2. Waiting(k, n) \/ InQueue(k, n)
    BY <1>3 DEF NothingLost, Writing
  <2>3. CASE Waiting(k, n)
    BY <1>1, <2>3 DEF Waiting
  <2>4. CASE InQueue(k, n)
    <3>1. PICK i \in 1..Len(queue) : queue[i] = [league |-> k, n |-> n]
      BY <1>2, <2>4 DEF InQueue
    <3>2. CASE i = 1
      BY <1>3, <3>1, <3>2 DEF Writing
    <3>3. CASE i # 1
      <4>1. i - 1 \in DOMAIN queue' /\ queue'[i - 1] = queue[i]
        BY <1>2, <3>3
      <4>2. QED BY <3>1, <4>1 DEF InQueue
    <3>4. QED BY <3>2, <3>3
  <2>5. QED BY <2>2, <2>3, <2>4
<1>8. StopInv' BY <1>1 DEF StopInv, Enqueued
<1>9. DrainInv'
  <2>1. phase' = "gather"
    BY <1>1 DEF Take
  <2>2. QED BY <1>3, <2>1 DEF DrainInv
<1>10. LogInv' BY <1>1, <1>3 DEF LogInv
<1>11. QED BY <1>4, <1>5, <1>6, <1>7, <1>8, <1>9, <1>10

\* The writer ends: with an empty queue, only responses being put are not committed.
LEMMA EndStep == IInv /\ TypeOK' /\ EndWriting => IInv'
<1> SUFFICES ASSUME IInv, TypeOK', EndWriting PROVE IInv'
  OBVIOUS
<1> USE DEF IInv
<1>1. UNCHANGED <<phase, stopping, owed, pc, taken, queue, inHand, stored, logged>>
  BY DEF EndWriting, startVars, stopVars, pollVars
<1>2. writer = "get" /\ writer' = "done" /\ stopping /\ queue = <<>> /\ phase = "gather"
  BY DEF EndWriting
<1>3. HandInv' BY <1>1, <1>2 DEF HandInv
<1>4. FetchInv' BY <1>1 DEF FetchInv, Enqueued
<1>5. RankInv' BY <1>1, <1>2 DEF RankInv, Enqueued
<1>6. NothingLost' BY <1>1, <1>2 DEF NothingLost, Waiting, InQueue, Writing
<1>7. StopInv' BY <1>1 DEF StopInv, Enqueued
<1>8. DrainInv'
  <2>1. ASSUME NEW l \in Leagues PROVE owed[l] <= stored[l]
    <3>1. owed[l] <= Enqueued(l) /\ owed[l] \in Nat /\ stored[l] \in Nat /\ taken[l] \in Nat
      BY <1>2, CountTypes DEF StopInv
    <3>2. stored[l] + 1 \in (stored[l] + 1)..taken[l] => pc[l] = "put" /\ taken[l] = stored[l] + 1
      BY <1>2 DEF NothingLost, Waiting, InQueue, Writing
    <3>3. Enqueued(l) <= stored[l]
      BY <3>1, <3>2 DEF Enqueued
    <3>4. QED BY <3>1, <3>3 DEF Enqueued
  <2>2. QED BY <1>1, <1>2, <2>1 DEF DrainInv
<1>9. LogInv' BY <1>1, <1>2 DEF LogInv
<1>10. QED BY <1>3, <1>4, <1>5, <1>6, <1>7, <1>8, <1>9

\* The writer commits its job.
LEMMA StoreStep == IInv /\ TypeOK' /\ StoreCycle => IInv'
<1> SUFFICES ASSUME IInv, TypeOK', StoreCycle PROVE IInv'
  OBVIOUS
<1> USE DEF IInv
<1> DEFINE l == inHand.league
<1>1. UNCHANGED <<phase, stopping, owed, pc, taken, queue, inHand, logged>>
  BY DEF StoreCycle, startVars, stopVars, pollVars
<1>2. writer = "write" /\ writer' = "feed" /\ phase = "gather"
  BY DEF StoreCycle
<1>3. l \in Leagues /\ inHand \in Job /\ inHand.n \in Nat
  BY <1>2, HandJob
<1>4. \A k \in Leagues : stored'[k] = IF k = l THEN inHand.n ELSE stored[k]
  BY <1>3 DEF StoreCycle, TypeOK
<1>5. stored[l] < inHand.n /\ inHand.n <= Enqueued(l) /\ inHand.n = stored[l] + 1
  BY <1>2, InOrder DEF RankInv, WrittenInOrder
<1>6. HandInv' BY <1>1, <1>2, <1>3, <1>4, NoJobAssumption DEF HandInv
<1>7. FetchInv' BY <1>1, <1>4, <1>5 DEF FetchInv, Enqueued
<1>8. RankInv' BY <1>1, <1>2, <1>4, QueueJobs DEF RankInv, Enqueued
<1>9. NothingLost'
  <2>1. SUFFICES ASSUME NEW k \in Leagues, NEW n \in (stored'[k] + 1)..taken[k]
                 PROVE  Waiting(k, n)' \/ InQueue(k, n)' \/ Writing(k, n)'
    BY <1>1 DEF NothingLost
  <2>2. n \in (stored[k] + 1)..taken[k] /\ ~(k = l /\ n = inHand.n)
    BY <1>3, <1>4, <1>5, CountTypes
  <2>3. Waiting(k, n) \/ InQueue(k, n) \/ Writing(k, n)
    BY <2>2 DEF NothingLost
  <2>4. ~Writing(k, n)
    BY <2>2 DEF Writing
  <2>5. QED BY <1>1, <2>3, <2>4 DEF Waiting, InQueue
<1>10. StopInv' BY <1>1 DEF StopInv, Enqueued
<1>11. DrainInv' BY <1>1, <1>2 DEF DrainInv
<1>12. LogInv' BY <1>1, <1>2, <1>4, <1>5 DEF LogInv
<1>13. QED BY <1>6, <1>7, <1>8, <1>9, <1>10, <1>11, <1>12

\* The live feed, blocked or not, leaves the job to its collection_log row.
LEMMA FeedStep == IInv /\ TypeOK' /\ (FeedDone \/ FeedBlocked) => IInv'
<1> SUFFICES ASSUME IInv, TypeOK', FeedDone \/ FeedBlocked PROVE IInv'
  OBVIOUS
<1> USE DEF IInv
<1>1. UNCHANGED <<phase, pc, taken, queue, inHand, stored, logged>>
  BY DEF FeedDone, FeedBlocked, startVars, stopVars, pollVars
<1>2. writer = "feed" /\ writer' = "log" /\ phase = "gather" /\ (SameStop \/ RequestStop)
  BY DEF FeedDone, FeedBlocked, stopVars, SameStop, StopIfBlocked
<1>3. HandInv' BY <1>1, <1>2 DEF HandInv
<1>4. FetchInv' BY <1>1 DEF FetchInv, Enqueued
<1>5. RankInv' BY <1>1, <1>2 DEF RankInv, Enqueued
<1>6. NothingLost' BY <1>1, <1>2 DEF NothingLost, Waiting, InQueue, Writing
<1>7. StopInv'
  <2>1. \A l \in Leagues : Enqueued(l)' = Enqueued(l)
    BY <1>1 DEF Enqueued
  <2>2. QED BY <1>1, <1>2, <2>1, StopCases DEF StopInv
<1>8. DrainInv' BY <1>1, <1>2 DEF DrainInv
<1>9. LogInv' BY <1>1, <1>2 DEF LogInv
<1>10. QED BY <1>3, <1>4, <1>5, <1>6, <1>7, <1>8, <1>9

\* The ok row is written and the writer lets its job go.
LEMMA DoneStep == IInv /\ TypeOK' /\ WriteDone => IInv'
<1> SUFFICES ASSUME IInv, TypeOK', WriteDone PROVE IInv'
  OBVIOUS
<1> USE DEF IInv
<1>1. UNCHANGED <<phase, stopping, owed, pc, taken, queue, stored>>
  BY DEF WriteDone, startVars, stopVars, pollVars
<1>2. writer = "log" /\ writer' = "get" /\ inHand' = NoJob /\ phase = "gather"
  BY DEF WriteDone
<1>3. inHand.league \in Leagues /\ inHand.n = stored[inHand.league]
  BY <1>2, HandJob DEF HandInv
<1>4. \A k \in Leagues : logged'[k] = IF k = inHand.league THEN inHand.n ELSE logged[k]
  BY <1>3 DEF WriteDone, TypeOK
<1>5. HandInv' BY <1>2 DEF HandInv
<1>6. FetchInv' BY <1>1 DEF FetchInv, Enqueued
<1>7. RankInv' BY <1>1, <1>2 DEF RankInv, Enqueued
<1>8. NothingLost' BY <1>1, <1>2 DEF NothingLost, Waiting, InQueue, Writing
<1>9. StopInv' BY <1>1 DEF StopInv, Enqueued
<1>10. DrainInv' BY <1>1, <1>2 DEF DrainInv
<1>11. LogInv' BY <1>1, <1>2, <1>3, <1>4 DEF LogInv
<1>12. QED BY <1>5, <1>6, <1>7, <1>8, <1>9, <1>10, <1>11

-----------------------------------------------------------------------------
(* The invariant and its consequences.                                       *)

\* A process that has just started satisfies everything but the types vacuously.
LEMMA FreshInv ==
  ASSUME stopping = FALSE, phase = "preload", queue = <<>>, writer = "get", inHand = NoJob,
         pc = [l \in Leagues |-> "idle"], taken = [l \in Leagues |-> 0],
         stored = [l \in Leagues |-> 0], logged = [l \in Leagues |-> 0]
  PROVE  HandInv /\ FetchInv /\ RankInv /\ NothingLost /\ StopInv /\ DrainInv /\ LogInv
<1>1. HandInv BY DEF HandInv
<1>2. FetchInv BY DEF FetchInv, Enqueued
<1>3. RankInv BY DEF RankInv
<1>4. NothingLost BY DEF NothingLost
<1>5. StopInv BY DEF StopInv
<1>6. DrainInv BY DEF DrainInv
<1>7. LogInv BY DEF LogInv
<1>8. QED BY <1>1, <1>2, <1>3, <1>4, <1>5, <1>6, <1>7

LEMMA InitInv == Init => IInv
BY InitType, FreshInv DEF Init, IInv

LEMMA RestartStep == IInv /\ Restart => IInv'
<1> SUFFICES ASSUME IInv, Restart PROVE IInv'
  OBVIOUS
<1>1. TypeOK' BY RestartType DEF IInv
<1>2. HandInv' BY DEF Restart, HandInv
<1>3. FetchInv' BY DEF Restart, FetchInv, Enqueued
<1>4. RankInv' BY DEF Restart, RankInv
<1>5. NothingLost' BY DEF Restart, NothingLost
<1>6. StopInv' BY DEF Restart, StopInv
<1>7. DrainInv' BY DEF Restart, DrainInv
<1>8. LogInv' BY DEF Restart, LogInv
<1>9. QED BY <1>1, <1>2, <1>3, <1>4, <1>5, <1>6, <1>7, <1>8 DEF IInv

LEMMA StartInv == IInv /\ StartStep => IInv'
<1> SUFFICES ASSUME IInv, StartStep PROVE IInv'
  OBVIOUS
<1>1. TypeOK' BY StartType DEF IInv
<1>2. /\ UNCHANGED <<pc, taken, writeVars>> /\ (SameStop \/ RequestStop)
      /\ phase' # "ended" \/ phase' = phase
  BY DEF StartStep, PreloadLeague, BackfillLeague, PreloadBlocked, PreloadDone, BackfillCheck,
         BackfillBlocked, StartFails, StopIfBlocked, pollVars, stopVars, SameStop
<1>3. QED BY <1>1, <1>2, QuietStep DEF IInv, DrainInv

LEMMA PeriodicInv == IInv /\ (ReconcileStep \/ DictStep \/ Stop \/ Finish) => IInv'
<1> SUFFICES ASSUME IInv, ReconcileStep \/ DictStep \/ Stop \/ Finish PROVE IInv'
  OBVIOUS
<1>1. TypeOK' BY PeriodicType DEF IInv
<1>2. CASE ReconcileStep
  <2>1. UNCHANGED <<phase, pc, taken, writeVars>> /\ (SameStop \/ RequestStop)
    BY <1>2 DEF ReconcileStep, ReconcileStart, ReconcileCheck, ReconcileLeague, ReconcileBlocked,
       ReconcileFails, ReconcileEnd, StopIfBlocked, startVars, pollVars, stopVars, SameStop
  <2>2. QED BY <1>1, <2>1, QuietStep DEF IInv, DrainInv
<1>3. CASE DictStep \/ Stop
  <2>1. UNCHANGED <<phase, pc, taken, writeVars>> /\ (SameStop \/ RequestStop)
    BY <1>3 DEF DictStep, DictStart, DictDone, DictEnd, Stop, startVars, pollVars, stopVars, SameStop
  <2>2. QED BY <1>1, <2>1, QuietStep DEF IInv, DrainInv
<1>4. CASE Finish
  <2>1. UNCHANGED <<pc, taken, writeVars>> /\ SameStop /\ writer = "done"
    BY <1>4 DEF Finish, pollVars, stopVars, SameStop
  <2>2. QED BY <1>1, <2>1, QuietStep
<1>5. QED BY <1>2, <1>3, <1>4

LEMMA PollInv == ASSUME IInv, NEW l \in Leagues, PollStep(l) PROVE IInv'
<1>1. TypeOK' BY PollType DEF IInv
<1> USE DEF startVars, stopVars, pollVars, SameStop
<1>2. CASE BeginCycle(l)
  <2>1. PICK x : pc' = [pc EXCEPT ![l] = x] /\ x \in {"v3", "legacy"}
    <3>1. CASE l \in degraded
      BY <1>2, <3>1 DEF BeginCycle
    <3>2. CASE l \notin degraded
      BY <1>2, <3>2 DEF BeginCycle
    <3>3. QED BY <3>1, <3>2
  <2>2. /\ pc[l] = "idle" /\ ~stopping /\ taken[l] < MaxCycles
        /\ UNCHANGED <<phase, taken, writeVars>> /\ SameStop
    BY <1>2 DEF BeginCycle
  <2>3. QED BY <1>1, <2>1, <2>2, MoveStep
<1>3. CASE EndPolling(l)
  BY <1>1, <1>3, MoveStep DEF EndPolling
<1>4. CASE V3ServerError(l)
  BY <1>1, <1>4, MoveStep DEF V3ServerError
<1>5. CASE V3ParserError(l) \/ Archived(l)
  <2>1. pc[l] \in {"v3", "archive"} /\ taken[l] < MaxCycles /\ (stopping => taken[l] = owed[l])
    BY <1>5 DEF V3ParserError, Archived, IInv, FetchInv, StopInv
  <2>2. CASE V3ParserError(l)
    BY <1>1, <2>1, <2>2, MoveStep DEF V3ParserError
  <2>3. CASE Archived(l)
    BY <1>1, <2>1, <2>3, MoveStep DEF Archived
  <2>4. QED BY <1>5, <2>2, <2>3
<1>6. CASE LegacyError(l)
  BY <1>1, <1>6, MoveStep DEF LegacyError
<1>7. CASE ErrorLogged(l)
  BY <1>1, <1>7, MoveStep DEF ErrorLogged
<1>8. CASE V3Ok(l)
  BY <1>1, <1>8, ResponseStep DEF V3Ok
<1>9. CASE LegacyOk(l)
  BY <1>1, <1>9, ResponseStep DEF LegacyOk
<1>10. CASE PollBlocked(l)
  BY <1>1, <1>10, MoveStep DEF PollBlocked, StopIfBlocked
<1>11. CASE Put(l)
  BY <1>1, <1>11, PutStep
<1>12. CASE PollCrash(l)
  BY <1>1, <1>12, QuietStep DEF PollCrash, Crash
<1>13. QED
  BY <1>2, <1>3, <1>4, <1>5, <1>6, <1>7, <1>8, <1>9, <1>10, <1>11, <1>12 DEF PollStep

LEMMA WriteInv == IInv /\ WriteStep => IInv'
<1> SUFFICES ASSUME IInv, WriteStep PROVE IInv'
  OBVIOUS
<1>1. TypeOK' BY WriteType DEF IInv
<1>2. CASE WriteCrash
  BY <1>1, <1>2, QuietStep DEF WriteCrash, Crash, stopVars, pollVars, SameStop
<1>3. QED
  BY <1>1, <1>2, TakeStep, EndStep, StoreStep, FeedStep, DoneStep DEF WriteStep

\* Every step preserves the inductive invariant.
LEMMA NextInv == IInv /\ [Next]_vars => IInv'
<1> SUFFICES ASSUME IInv, [Next]_vars PROVE IInv'
  OBVIOUS
<1>1. CASE UNCHANGED vars
  <2>1. TypeOK'
    BY <1>1 DEF IInv, TypeOK, vars, startVars, stopVars, pollVars, writeVars, periodicVars
  <2>2. UNCHANGED <<phase, pc, taken, writeVars>> /\ SameStop
    BY <1>1 DEF vars, startVars, stopVars, pollVars, SameStop
  <2>3. QED BY <2>1, <2>2, QuietStep DEF IInv, DrainInv
<1>2. QED
  BY <1>1, StartInv, PollInv, WriteInv, PeriodicInv, RestartStep DEF Next

LEMMA Inductive == Spec => []IInv
<1>1. QED BY InitInv, NextInv, PTL DEF Spec

\* The scheduler's state keeps its types, the queue never exceeding its capacity.
THEOREM TypeCorrect == Spec => []TypeOK
<1>1. IInv => TypeOK BY DEF IInv
<1>2. QED BY <1>1, Inductive, PTL

\* No response disappears between its reception and its commit while the process lives.
THEOREM NoResponseLost == Spec => []NothingLost
<1>1. IInv => NothingLost BY DEF IInv
<1>2. QED BY <1>1, Inductive, PTL

\* The writer commits the responses of every league in order and without a hole.
THEOREM CommitsInOrder == Spec => []WrittenInOrder
<1>1. QED BY InOrder, Inductive, PTL

\* collection_log never runs ahead of the data, and is at most one cycle late.
THEOREM LogIsHonest == Spec => []LogFollowsData
<1>1. IInv => LogFollowsData
  BY CountTypes DEF IInv, LogInv, LogFollowsData
<1>2. QED BY <1>1, Inductive, PTL

\* What was queued when the stop was requested is committed when run() returns.
THEOREM StopDrains == Spec => []QueuedAtStopIsWritten
<1>1. IInv => QueuedAtStopIsWritten
  BY CountTypes DEF IInv, DrainInv, QueuedAtStopIsWritten
<1>2. QED BY <1>1, Inductive, PTL

\* After the stop was requested, no league obtains more than one response.
THEOREM StopIsPrompt == Spec => []OneCycleAfterStop
<1>1. IInv => OneCycleAfterStop
  BY DEF IInv, StopInv, OneCycleAfterStop
<1>2. QED BY <1>1, Inductive, PTL

-----------------------------------------------------------------------------
(* No producer is stranded by the end of the writer.                         *)

\* The poll loops that may still put a job once the stop is requested.
Busy == {l \in Leagues : pc[l] \notin {"idle", "done"}}

LEMMA BusyFinite ==
  /\ IsFiniteSet(Busy) /\ Cardinality(Busy) \in Nat /\ Cardinality(Busy) <= Cardinality(Leagues)
  /\ Cardinality(Leagues) \in Nat
BY LeaguesAssumption, FS_Subset, FS_CardinalityType DEF Busy

\* Fewer busy loops and no more jobs: the room stays sufficient.
LEMMA FewerBusy ==
  ASSUME NoProducerStranded, Busy' \subseteq Busy, UNCHANGED queue, writer' = "done" => writer = "done",
         TypeOK
  PROVE  NoProducerStranded'
<1>1. Cardinality(Busy') <= Cardinality(Busy) /\ Cardinality(Busy') \in Nat
  BY BusyFinite, FS_Subset, FS_CardinalityType
<1>2. Len(queue) \in Nat /\ QueueMaxsize \in Nat
  BY QueueAssumption DEF TypeOK
<1>3. QED BY <1>1, <1>2, BusyFinite DEF NoProducerStranded, Busy

LEMMA StrandedPoll ==
  ASSUME IInv, NoProducerStranded, NEW l \in Leagues, PollStep(l) PROVE NoProducerStranded'
<1> USE DEF startVars, stopVars, pollVars, writeVars
<1>1. TypeOK /\ (writer = "done" => stopping)
  BY DEF IInv, DrainInv
<1>2. CASE writer # "done"
  BY <1>2 DEF PollStep, BeginCycle, EndPolling, V3Ok, V3ServerError, V3ParserError, Archived, LegacyOk,
     LegacyError, ErrorLogged, PollBlocked, Put, PollCrash, Crash, NoProducerStranded
<1>3. CASE writer = "done" /\ Put(l)
  <2>1. l \in Busy /\ Busy' = Busy \ {l}
    BY <1>1, <1>3 DEF Put, Busy, TypeOK
  <2>2. Cardinality(Busy') = Cardinality(Busy) - 1
    BY <2>1, BusyFinite, FS_RemoveElement
  <2>3. Len(queue') = Len(queue) + 1 /\ Len(queue) \in Nat
    BY <1>1, <1>3 DEF Put, TypeOK
  <2>4. QED BY <1>3, <2>2, <2>3, BusyFinite, QueueAssumption DEF NoProducerStranded, Busy, Put
<1>4. CASE writer = "done" /\ ~Put(l)
  <2>1. /\ UNCHANGED <<queue, writer>>
        /\ \/ UNCHANGED pc
           \/ pc[l] \notin {"idle", "done"} /\ \E x : pc' = [pc EXCEPT ![l] = x]
           \/ pc' = [pc EXCEPT ![l] = "done"]
    BY <1>1, <1>4 DEF PollStep, BeginCycle, EndPolling, V3Ok, V3ServerError, V3ParserError, Archived,
       LegacyOk, LegacyError, ErrorLogged, PollBlocked, PollCrash, Crash
  <2>2. Busy' \subseteq Busy
    BY <1>1, <2>1 DEF Busy, TypeOK
  <2>3. QED BY <1>1, <2>1, <2>2, FewerBusy
<1>5. QED BY <1>2, <1>3, <1>4

LEMMA StrandedNext == IInv /\ NoProducerStranded /\ [Next]_vars => NoProducerStranded'
<1> SUFFICES ASSUME IInv, NoProducerStranded, [Next]_vars PROVE NoProducerStranded'
  OBVIOUS
<1>1. CASE EndWriting
  <2>1. queue' = <<>> /\ UNCHANGED pc
    BY <1>1 DEF EndWriting, pollVars
  <2>2. Len(queue') = 0 /\ Busy' = Busy
    BY <2>1 DEF Busy
  <2>3. Len(queue') + Cardinality(Busy') <= QueueMaxsize
    BY <2>2, BusyFinite, QueueAssumption
  <2>4. QED BY <2>3 DEF NoProducerStranded, Busy
<1>2. CASE WriteStep /\ ~EndWriting
  <2>1. CASE WriteCrash
    BY <2>1 DEF WriteCrash, Crash, pollVars, writeVars, NoProducerStranded
  <2>2. CASE ~WriteCrash
    BY <1>2, <2>2 DEF WriteStep, Take, StoreCycle, FeedDone, FeedBlocked, WriteDone, NoProducerStranded
  <2>3. QED BY <2>1, <2>2
<1>3. CASE Restart
  BY <1>3 DEF Restart, NoProducerStranded
<1>4. CASE StartStep \/ ReconcileStep \/ DictStep \/ Stop \/ Finish \/ UNCHANGED vars
  <2>1. UNCHANGED <<pc, queue, writer>>
    <3>1. CASE StartStep
      BY <3>1 DEF StartStep, PreloadLeague, BackfillLeague, PreloadBlocked, PreloadDone, BackfillCheck,
         BackfillBlocked, StartFails, pollVars, writeVars
    <3>2. CASE ReconcileStep
      BY <3>2 DEF ReconcileStep, ReconcileStart, ReconcileCheck, ReconcileLeague, ReconcileBlocked,
         ReconcileFails, ReconcileEnd, pollVars, writeVars
    <3>3. CASE DictStep \/ Stop \/ Finish \/ UNCHANGED vars
      BY <3>3 DEF DictStep, DictStart, DictDone, DictEnd, Stop, Finish, vars, pollVars, writeVars
    <3>4. QED BY <1>4, <3>1, <3>2, <3>3
  <2>2. QED BY <2>1 DEF NoProducerStranded
<1>5. QED BY <1>1, <1>2, <1>3, <1>4, StrandedPoll DEF Next

\* Whatever the number of leagues, the queue keeps room for every loop that may still put a
\* job after the writer has ended: no put waits for ever.
THEOREM ProducersNeverStranded == Spec => []NoProducerStranded
<1>1. Init => NoProducerStranded
  BY DEF Init, NoProducerStranded
<1>2. QED BY <1>1, Inductive, StrandedNext, PTL DEF Spec

-----------------------------------------------------------------------------
(* What a crash can lose.                                                    *)

\* The responses that are in memory only, by where NothingLost finds them.
AtRisk == {r \in Leagues \X (1..MaxCycles) : r[2] > stored[r[1]] /\ r[2] <= taken[r[1]]}
Held == {r \in AtRisk : Waiting(r[1], r[2])}
Queued == {r \in AtRisk : InQueue(r[1], r[2])}
BeingWritten == {r \in AtRisk : Writing(r[1], r[2])}

LEMMA Places == TypeOK /\ NothingLost => AtRisk \subseteq (Held \cup Queued) \cup BeingWritten
<1> SUFFICES ASSUME TypeOK, NothingLost, NEW r \in AtRisk
             PROVE  r \in (Held \cup Queued) \cup BeingWritten
  OBVIOUS
<1>1. r[1] \in Leagues /\ r[2] \in Nat /\ r[2] > stored[r[1]] /\ r[2] <= taken[r[1]]
  BY DEF AtRisk
<1>2. r[2] \in (stored[r[1]] + 1)..taken[r[1]]
  BY <1>1, CountTypes
<1>3. Waiting(r[1], r[2]) \/ InQueue(r[1], r[2]) \/ Writing(r[1], r[2])
  BY <1>1, <1>2 DEF NothingLost
<1>4. QED BY <1>3 DEF Held, Queued, BeingWritten

\* A poll loop holds one response.
LEMMA FewHeld == IsFiniteSet(Held) /\ Cardinality(Held) <= Cardinality(Leagues)
<1> DEFINE f == [r \in Held |-> r[1]]
<1>1. \A r \in Held : r[1] \in Leagues /\ r[2] = taken[r[1]] /\ r = <<r[1], r[2]>>
  BY DEF Held, AtRisk, Waiting
<1>2. f \in [Held -> Leagues]
  BY <1>1
<1>3. \A r, q \in Held : f[r] = f[q] => r = q
  BY <1>1
<1>4. f \in Injection(Held, Leagues)
  BY <1>2, <1>3 DEF Injection, IsInjective
<1>5. QED BY <1>4, LeaguesAssumption, FS_Injection

\* A place of the queue holds one response.
LEMMA FewQueued == TypeOK => IsFiniteSet(Queued) /\ Cardinality(Queued) <= QueueMaxsize
<1> SUFFICES ASSUME TypeOK PROVE IsFiniteSet(Queued) /\ Cardinality(Queued) <= QueueMaxsize
  OBVIOUS
<1> DEFINE Place(r) == CHOOSE i \in DOMAIN queue : queue[i] = [league |-> r[1], n |-> r[2]]
           f == [r \in Queued |-> Place(r)]
<1>1. Len(queue) \in Nat /\ DOMAIN queue = 1..Len(queue) /\ Len(queue) <= QueueMaxsize
  BY DEF TypeOK
<1>2. \A r \in Queued : Place(r) \in DOMAIN queue /\ queue[Place(r)] = [league |-> r[1], n |-> r[2]]
  BY DEF Queued, InQueue
<1>3. f \in [Queued -> DOMAIN queue]
  BY <1>2
<1>4. ASSUME NEW r \in Queued, NEW q \in Queued, f[r] = f[q] PROVE r = q
  <2>1. Place(r) = Place(q)
    BY <1>4
  <2>2. [league |-> r[1], n |-> r[2]] = [league |-> q[1], n |-> q[2]]
    BY <1>2, <2>1
  <2>3. r[1] = q[1] /\ r[2] = q[2]
    BY <2>2
  <2>4. QED BY <2>3 DEF Queued, AtRisk
<1>5. f \in Injection(Queued, DOMAIN queue)
  BY <1>3, <1>4 DEF Injection, IsInjective
<1>6. IsFiniteSet(DOMAIN queue) /\ Cardinality(DOMAIN queue) = Len(queue)
  <2>1. ASSUME NEW k \in Nat PROVE IsFiniteSet(1..k) /\ Cardinality(1..k) = k
    <3>1. 1 \in Int /\ k \in Int
      OBVIOUS
    <3>2. /\ IsFiniteSet(1..k)
          /\ Cardinality(1..k) = IF 1 > k THEN 0 ELSE k - 1 + 1
      BY <3>1, FS_Interval
    <3>3. QED BY <3>2
  <2>2. QED BY <1>1, <2>1
<1>7. IsFiniteSet(Queued) /\ Cardinality(Queued) <= Len(queue)
  BY <1>5, <1>6, FS_Injection
<1>8. Cardinality(Queued) \in Nat
  BY <1>7, FS_CardinalityType
<1>9. QED BY <1>1, <1>7, <1>8, QueueAssumption

\* The writer has one response in hand.
LEMMA FewBeingWritten == IsFiniteSet(BeingWritten) /\ Cardinality(BeingWritten) <= 1
<1>1. BeingWritten \subseteq {<<inHand.league, inHand.n>>}
  <2> SUFFICES ASSUME NEW r \in BeingWritten PROVE r = <<inHand.league, inHand.n>>
    OBVIOUS
  <2>1. r = <<r[1], r[2]>> /\ inHand = [league |-> r[1], n |-> r[2]]
    BY DEF BeingWritten, AtRisk, Writing
  <2>2. inHand.league = r[1] /\ inHand.n = r[2]
    BY <2>1
  <2>3. QED BY <2>1, <2>2
<1>2. IsFiniteSet({<<inHand.league, inHand.n>>}) /\ Cardinality({<<inHand.league, inHand.n>>}) = 1
  BY FS_Singleton
<1>3. QED BY <1>1, <1>2, FS_Subset

\* However late the writer is, a crash loses at most a full queue, one response per poll loop and the
\* job in hand.
THEOREM CrashLosesLittle == Spec => []CrashLossBounded
<1>1. ASSUME IInv PROVE CrashLossBounded
  <2> DEFINE HQ == Held \cup Queued
             All == HQ \cup BeingWritten
  <2>1. /\ TypeOK /\ AtRisk \subseteq All
        /\ IsFiniteSet(Held) /\ Cardinality(Held) <= Cardinality(Leagues)
        /\ IsFiniteSet(Queued) /\ Cardinality(Queued) <= QueueMaxsize
        /\ IsFiniteSet(BeingWritten) /\ Cardinality(BeingWritten) <= 1
    BY <1>1, Places, FewHeld, FewQueued, FewBeingWritten DEF IInv
  <2>2. /\ IsFiniteSet(HQ)
        /\ Cardinality(HQ) = Cardinality(Held) + Cardinality(Queued) - Cardinality(Held \cap Queued)
    BY <2>1, FS_Union
  <2>3. /\ IsFiniteSet(All)
        /\ Cardinality(All) = Cardinality(HQ) + Cardinality(BeingWritten) - Cardinality(HQ \cap BeingWritten)
    BY <2>1, <2>2, FS_Union
  <2>4. IsFiniteSet(AtRisk) /\ Cardinality(AtRisk) <= Cardinality(All)
    BY <2>1, <2>3, FS_Subset
  <2>5. IsFiniteSet(Held \cap Queued) /\ IsFiniteSet(HQ \cap BeingWritten)
    BY <2>1, <2>2, FS_Subset
  <2>6. /\ Cardinality(Held) \in Nat /\ Cardinality(Queued) \in Nat /\ Cardinality(BeingWritten) \in Nat
        /\ Cardinality(HQ) \in Nat /\ Cardinality(All) \in Nat /\ Cardinality(AtRisk) \in Nat
        /\ Cardinality(Held \cap Queued) \in Nat /\ Cardinality(HQ \cap BeingWritten) \in Nat
        /\ Cardinality(Leagues) \in Nat
    BY <2>1, <2>2, <2>3, <2>4, <2>5, LeaguesAssumption, FS_CardinalityType
  <2> HIDE DEF HQ, All
  <2>7. Cardinality(AtRisk) <= QueueMaxsize + Cardinality(Leagues) + 1
    BY <2>1, <2>2, <2>3, <2>4, <2>6, QueueAssumption
  <2>8. QED BY <2>7 DEF CrashLossBounded, AtRisk
<1>2. QED BY <1>1, Inductive, PTL

=============================================================================
