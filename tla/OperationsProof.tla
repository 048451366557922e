--------------------------- MODULE OperationsProof ---------------------------
(***************************************************************************)
(* What holds of the collector in operation for any leagues, images, cooldown, *)
(* runners and number of restarts.                                           *)
(*                                                                         *)
(* The migrations come first, alone: Migrate implements Schema because the rows  *)
(* that a runner inside the lock has read are still those of the table, since   *)
(* it is alone (LockInv), and its files extend them (HeldInv).  Every step of    *)
(* the composition is a step of Migrate or leaves its variables alone, so the    *)
(* promise holds across the restarts.  The alerts follow.                       *)
(***************************************************************************)
EXTENDS Operations, TLAPS

-----------------------------------------------------------------------------
(* The migrations, alone.                                                    *)

Assumptions == Migration!RunnersAssumption /\ Migration!ImagesAssumption

\* Only the holder of the lock is between the lock and its release.
LockInv == \A r \in Runners : pc[r] \in {"locked", "applying"} => lock = r

\* A file and its row are committed together.
RowInv == schema = table

\* Inside the loop, the runner knows the table, and its files extend it.
HeldInv ==
  \A r \in Runners : pc[r] = "applying" => applied[r] = table /\ Migration!Consistent(files[r], table)

SchemaInv == Assumptions /\ Migration!TypeOK /\ LockInv /\ RowInv /\ HeldInv

-----------------------------------------------------------------------------
(* Directories.                                                              *)

LEMMA EmptyDirectory == <<>> \in Migration!Directories
<1>1. <<>> = [v \in {} |-> CHOOSE c \in Checksums : TRUE]
  OBVIOUS
<1>2. <<>> \in [{} -> Checksums]
  BY <1>1
<1>. QED
  BY <1>2 DEF Migration!Directories

LEMMA DirectoryShape ==
  ASSUME NEW d \in Migration!Directories
  PROVE  /\ d \in [DOMAIN d -> Checksums]
         /\ DOMAIN d \subseteq Versions
BY DEF Migration!Directories

LEMMA ExtendedDirectory ==
  ASSUME NEW d \in Migration!Directories, NEW v \in Versions, NEW c \in Checksums
  PROVE  Migration!Extended(d, v, c) \in Migration!Directories
<1>1. d \in [DOMAIN d -> Checksums] /\ DOMAIN d \subseteq Versions
  BY DirectoryShape
<1>2. Migration!Extended(d, v, c) \in [DOMAIN d \cup {v} -> Checksums]
  BY <1>1 DEF Migration!Extended, Migration!Promise!Extended
<1>3. DOMAIN d \cup {v} \in SUBSET Versions
  BY <1>1
<1>. QED
  BY <1>2, <1>3 DEF Migration!Directories

\* Two consistent directories with the same versions are the same.
LEMMA SameDirectory ==
  ASSUME NEW d \in Migration!Directories, NEW e \in Migration!Directories,
         DOMAIN d = DOMAIN e, Migration!Consistent(d, e)
  PROVE  d = e
<1>1. d \in [DOMAIN d -> Checksums] /\ e \in [DOMAIN e -> Checksums]
  BY DirectoryShape
<1>2. \A v \in DOMAIN e : d[v] = e[v]
  BY DEF Migration!Consistent
<1>. QED
  BY <1>1, <1>2

-----------------------------------------------------------------------------
(* The invariant.                                                            *)

LEMMA MigrateInit == Assumptions /\ Migration!Init => SchemaInv
<1>. SUFFICES ASSUME Assumptions, Migration!Init PROVE SchemaInv
  OBVIOUS
<1>1. Migration!TypeOK
  BY EmptyDirectory DEF Migration!Init, Migration!TypeOK, Migration!Stages
<1>2. LockInv /\ RowInv /\ HeldInv
  BY DEF Migration!Init, LockInv, RowInv, HeldInv
<1>. QED
  BY <1>1, <1>2 DEF SchemaInv

LEMMA DiscoverInv ==
  ASSUME SchemaInv, NEW r \in Runners, Migration!Discover(r)
  PROVE  SchemaInv'
<1>1. Migration!TypeOK'
  BY DEF SchemaInv, Assumptions, Migration!ImagesAssumption, Migration!TypeOK, Migration!Stages,
    Migration!Discover
<1>2. LockInv' /\ RowInv' /\ HeldInv'
  BY DEF SchemaInv, Migration!TypeOK, LockInv, RowInv, HeldInv, Migration!Consistent,
    Migration!Discover
<1>. QED
  BY <1>1, <1>2 DEF SchemaInv

LEMMA AcquireInv ==
  ASSUME SchemaInv, NEW r \in Runners, Migration!Acquire(r)
  PROVE  SchemaInv'
<1>1. Migration!TypeOK'
  BY DEF SchemaInv, Migration!TypeOK, Migration!Stages, Migration!Acquire
<1>2. LockInv' /\ RowInv' /\ HeldInv'
  BY DEF SchemaInv, Assumptions, Migration!RunnersAssumption, Migration!TypeOK, LockInv, RowInv,
    HeldInv, Migration!Consistent, Migration!Acquire
<1>. QED
  BY <1>1, <1>2 DEF SchemaInv

LEMMA ReadAppliedInv ==
  ASSUME SchemaInv, NEW r \in Runners, Migration!ReadApplied(r)
  PROVE  SchemaInv'
<1>1. Migration!TypeOK'
  BY DEF SchemaInv, Migration!TypeOK, Migration!Stages, Migration!ReadApplied
<1>2. LockInv' /\ RowInv' /\ HeldInv'
  BY DEF SchemaInv, Migration!TypeOK, LockInv, RowInv, HeldInv, Migration!Consistent,
    Migration!ReadApplied
<1>. QED
  BY <1>1, <1>2 DEF SchemaInv

\* The end of migrate(), whatever its reason: r no longer holds anything, and if it held the
\* lock, nobody else was inside.
LEMMA ReturnsInv ==
  ASSUME SchemaInv, NEW r \in Runners, NEW stage \in {"done", "failed"}, Migration!Returns(r, stage),
         UNCHANGED <<table, schema>>,
         lock' \in {None, Ghost, lock}, lock' # lock => lock = r,
         level' \in [Runners -> Migration!Directories]
  PROVE  SchemaInv'
<1>1. Migration!TypeOK'
  BY EmptyDirectory DEF SchemaInv, Migration!TypeOK, Migration!Stages, Migration!Returns
<1>2. LockInv'
  BY DEF SchemaInv, Migration!TypeOK, LockInv, Migration!Returns
<1>3. RowInv' /\ HeldInv'
  BY DEF SchemaInv, Migration!TypeOK, RowInv, HeldInv, Migration!Consistent, Migration!Returns
<1>. QED
  BY <1>1, <1>2, <1>3 DEF SchemaInv

\* A file older than every pending one extends the table and leaves it consistent.
LEMMA ApplyNextInv ==
  ASSUME SchemaInv, NEW r \in Runners, Migration!ApplyNext(r)
  PROVE  /\ SchemaInv'
         /\ \E version \in Versions, checksum \in Checksums : Migration!Promise!Extend(version, checksum)
<1>1. PICK v \in Migration!Pending(r) :
        /\ v \notin DOMAIN table
        /\ schema' = Migration!Extended(schema, v, files[r][v])
        /\ table' = Migration!Extended(table, v, files[r][v])
        /\ applied' = [applied EXCEPT ![r] = Migration!Extended(applied[r], v, files[r][v])]
  BY DEF Migration!ApplyNext
<1>2. /\ pc[r] = "applying" /\ lock = r
      /\ UNCHANGED <<pc, files, lock, level>>
  BY DEF Migration!ApplyNext, SchemaInv, LockInv
<1>3. /\ files[r] \in Migration!Directories /\ table \in Migration!Directories
      /\ applied[r] = table /\ Migration!Consistent(files[r], table) /\ schema = table
  BY <1>2 DEF SchemaInv, Migration!TypeOK, RowInv, HeldInv
<1>4. /\ v \in DOMAIN files[r] /\ v \in Versions /\ files[r][v] \in Checksums
      /\ \A w \in DOMAIN files[r] \ DOMAIN table : v <= w
  BY <1>3, DirectoryShape DEF Migration!Pending
<1>5. table' \in Migration!Directories /\ schema' = table'
  BY <1>1, <1>3, <1>4, ExtendedDirectory
<1>6. applied' = [applied EXCEPT ![r] = table']
  BY <1>1, <1>3
<1>7. Migration!TypeOK'
  BY <1>2, <1>5, <1>6 DEF SchemaInv, Migration!TypeOK
<1>8. \A w \in DOMAIN table : w < v
  BY <1>3, <1>4, <1>1 DEF Migration!Consistent
<1>9. /\ DOMAIN table' = DOMAIN table \cup {v}
      /\ \A w \in DOMAIN table : w # v => table'[w] = table[w]
      /\ table'[v] = files[r][v]
  BY <1>1 DEF Migration!Extended, Migration!Promise!Extended
<1>10. Migration!Consistent(files[r], table')
  <2>1. \A w \in DOMAIN table' : w \in DOMAIN files[r] /\ files[r][w] = table'[w]
    BY <1>3, <1>4, <1>9 DEF Migration!Consistent
  <2>2. ASSUME NEW w \in DOMAIN files[r] \ DOMAIN table', NEW x \in DOMAIN table'
        PROVE  x < w
    <3>1. w \in DOMAIN files[r] \ DOMAIN table /\ w # v
      BY <1>9
    <3>2. w \in Nat /\ v \in Nat
      BY <1>3, <1>4, DirectoryShape DEF SchemaInv, Assumptions, Migration!ImagesAssumption
    <3>3. v < w
      BY <1>4, <3>1, <3>2
    <3>4. x = v \/ x \in DOMAIN table
      BY <1>9
    <3>. QED
      BY <1>3, <3>1, <3>3, <3>4 DEF Migration!Consistent
  <2>. QED
    BY <2>1, <2>2 DEF Migration!Consistent
<1>11. LockInv' /\ RowInv'
  BY <1>2, <1>5 DEF SchemaInv, LockInv, RowInv
<1>12. HeldInv'
  <2>1. ASSUME NEW q \in Runners, pc'[q] = "applying" PROVE q = r
    BY <1>2, <2>1 DEF SchemaInv, LockInv
  <2>2. applied'[r] = table' /\ Migration!Consistent(files'[r], table')
    BY <1>2, <1>6, <1>10 DEF SchemaInv, Migration!TypeOK
  <2>. QED
    BY <2>1, <2>2 DEF HeldInv, Migration!Consistent
<1>13. Migration!Promise!Extend(v, files[r][v])
  BY <1>1, <1>2, <1>3, <1>8 DEF Migration!Promise!Extend, Migration!Extended
<1>. QED
  BY <1>4, <1>7, <1>11, <1>12, <1>13 DEF SchemaInv

LEMMA MigrateNext == SchemaInv /\ [Migration!Next]_(Migration!vars) => SchemaInv'
<1>. SUFFICES ASSUME SchemaInv, [Migration!Next]_(Migration!vars) PROVE SchemaInv'
  OBVIOUS
<1>1. ASSUME NEW r \in Runners, Migration!Discover(r) \/ Migration!Migrating(r) \/ Migration!Cut(r)
      PROVE  SchemaInv'
  <2>1. CASE Migration!Discover(r)
    BY <2>1, DiscoverInv
  <2>2. CASE Migration!Acquire(r)
    BY <2>2, AcquireInv
  <2>3. CASE Migration!ReadApplied(r)
    BY <2>3, ReadAppliedInv
  <2>4. CASE Migration!ApplyNext(r)
    BY <2>4, ApplyNextInv
  <2>5. CASE Migration!Fail(r)
    <3>1. lock = r
      BY <2>5 DEF Migration!Fail, SchemaInv, LockInv
    <3>. QED
      BY <2>5, <3>1, ReturnsInv DEF Migration!Fail, SchemaInv, Migration!TypeOK
  <2>6. CASE Migration!Finish(r)
    <3>1. lock = r
      BY <2>6 DEF Migration!Finish, SchemaInv, LockInv
    <3>2. level' \in [Runners -> Migration!Directories]
      BY <2>6 DEF Migration!Finish, SchemaInv, Migration!TypeOK
    <3>. QED
      BY <2>6, <3>1, <3>2, ReturnsInv DEF Migration!Finish
  <2>7. CASE Migration!Cut(r)
    <3>1. /\ level' \in [Runners -> Migration!Directories]
          /\ lock' \in {None, Ghost, lock} /\ (lock' # lock => lock = r)
      BY <2>7 DEF Migration!Cut, SchemaInv, Migration!TypeOK
    <3>. QED
      BY <2>7, <3>1, ReturnsInv DEF Migration!Cut
  <2>. QED
    BY <1>1, <2>1, <2>2, <2>3, <2>4, <2>5, <2>6, <2>7 DEF Migration!Migrating
<1>2. CASE Migration!SessionEnds
  <2>1. Migration!TypeOK'
    BY <1>2 DEF Migration!SessionEnds, SchemaInv, Migration!TypeOK
  <2>2. LockInv' /\ RowInv' /\ HeldInv'
    BY <1>2 DEF Migration!SessionEnds, SchemaInv, Assumptions, Migration!RunnersAssumption,
      LockInv, RowInv, HeldInv, Migration!Consistent
  <2>. QED
    BY <2>1, <2>2 DEF SchemaInv
<1>3. CASE Migration!DatabaseStops
  <2>1. Migration!TypeOK'
    BY <1>3, EmptyDirectory DEF Migration!DatabaseStops, SchemaInv, Migration!TypeOK,
      Migration!Stages
  <2>2. LockInv' /\ RowInv' /\ HeldInv'
    BY <1>3 DEF Migration!DatabaseStops, SchemaInv, Migration!TypeOK, Migration!Stages, LockInv,
      RowInv, HeldInv
  <2>. QED
    BY <2>1, <2>2 DEF SchemaInv
<1>4. CASE UNCHANGED Migration!vars
  <2>1. Migration!TypeOK'
    BY <1>4 DEF Migration!vars, SchemaInv, Migration!TypeOK
  <2>2. LockInv' /\ RowInv' /\ HeldInv'
    BY <1>4 DEF Migration!vars, SchemaInv, LockInv, RowInv, HeldInv, Migration!Consistent
  <2>. QED
    BY <2>1, <2>2 DEF SchemaInv
<1>. QED
  BY <1>1, <1>2, <1>3, <1>4 DEF Migration!Next

LEMMA MigrateInductive == Assumptions => (Migration!Spec => []SchemaInv)
BY MigrateInit, MigrateNext, PTL DEF Migration!Spec

-----------------------------------------------------------------------------
(* The promise.                                                              *)

LEMMA StepPromised ==
  SchemaInv /\ [Migration!Next]_(Migration!vars) => [Migration!Promise!Next]_(Migration!Promise!vars)
<1>. SUFFICES ASSUME SchemaInv, [Migration!Next]_(Migration!vars)
              PROVE  Migration!Promise!Next \/ UNCHANGED Migration!Promise!vars
  OBVIOUS
<1>1. ASSUME NEW r \in Runners, Migration!ApplyNext(r) PROVE Migration!Promise!Next
  BY <1>1, ApplyNextInv DEF Migration!Promise!Next
<1>2. ASSUME NEW r \in Runners, Migration!Finish(r) PROVE Migration!Promise!Next
  <2>1. /\ pc[r] = "applying" /\ DOMAIN applied[r] = DOMAIN files[r]
        /\ level' = [level EXCEPT ![r] = files[r]] /\ UNCHANGED <<table, schema>>
    BY <1>2 DEF Migration!Finish
  <2>2. /\ applied[r] = table /\ Migration!Consistent(files[r], table) /\ schema = table
        /\ files[r] \in Migration!Directories /\ table \in Migration!Directories
    BY <2>1 DEF SchemaInv, Migration!TypeOK, RowInv, HeldInv
  <2>3. files[r] = schema
    BY <2>1, <2>2, SameDirectory
  <2>. QED
    BY <2>1, <2>3 DEF Migration!Promise!Next, Migration!Promise!Report
<1>3. ASSUME NEW r \in Runners,
             \/ Migration!Discover(r) \/ Migration!Acquire(r) \/ Migration!ReadApplied(r)
             \/ Migration!Fail(r) \/ Migration!Cut(r)
      PROVE  UNCHANGED Migration!Promise!vars
  BY <1>3 DEF Migration!Promise!vars, Migration!Discover, Migration!Acquire,
    Migration!ReadApplied, Migration!Fail, Migration!Cut
<1>4. Migration!SessionEnds \/ Migration!DatabaseStops \/ UNCHANGED Migration!vars
        => UNCHANGED Migration!Promise!vars
  BY DEF Migration!Promise!vars, Migration!SessionEnds, Migration!DatabaseStops, Migration!vars
<1>. QED
  BY <1>1, <1>2, <1>3, <1>4 DEF Migration!Next, Migration!Migrating

\* Whatever the runners, the versions and the images that are deployed, and whoever dies: the
\* database goes through whole migrations in increasing order, and a runner that succeeds
\* leaves it exactly at the level of its own files (header of migrate.py).
THEOREM MigrationsKeepTheirPromise == Assumptions => (Migration!Spec => Migration!ImplementsSchema)
<1>1. Migration!Init => Migration!Promise!Init
  BY DEF Migration!Init, Migration!Promise!Init
<1>. QED
  BY <1>1, MigrateInductive, StepPromised, PTL DEF Migration!Spec, Migration!ImplementsSchema,
    Migration!Promise!Spec

-----------------------------------------------------------------------------
(* The migrations in operation.                                              *)

LEMMA Assumed == Assumptions
BY OperationsAssumption DEF Assumptions

\* Every step of the collector is a step of the migrations, or leaves them alone.
LEMMA StepMigrates == [Next]_vars => [Migration!Next]_(Migration!vars)
BY OperationsAssumption DEF Next, vars, procVars, watchVars, migrateVars, alertVars, Launch,
  Started, StartFails, End,
  Die, AlertStep, MigrateStep, DbFails, DbReturns, Collect, GrowOld, Watch, Migration!Next,
  Migration!vars

\* The migrations keep their promise in the life of the collector: whatever the images that
\* are started, the starts that fail, the migrations by hand and the failures of the database.
THEOREM MigrationsInOperation == Spec => ImplementsSchema
<1>1. Init => SchemaInv /\ Migration!Promise!Init
  BY MigrateInit, Assumed DEF Init, Migration!Init, Migration!Promise!Init
<1>2. SchemaInv /\ [Next]_vars => SchemaInv'
  BY StepMigrates, MigrateNext
<1>3. SchemaInv /\ [Next]_vars => [Migration!Promise!Next]_(Migration!Promise!vars)
  BY StepMigrates, StepPromised
<1>. QED
  BY <1>1, <1>2, <1>3, PTL DEF Spec, ImplementsSchema, Migration!ImplementsSchema,
    Migration!Promise!Spec

-----------------------------------------------------------------------------
(* The alerts.                                                               *)

\* A league whose fall is still to be told is not throttled, a loop sends its own alerts only,
\* and none says "recovered" of a degraded league.
ToldInv ==
  /\ \A l \in Leagues :
       l \notin degraded \/ sending[l] = <<"letter", l>> => age[<<"degraded", l>>] = Cooldown
  /\ \A l \in Leagues : sending[l] = <<"letter", l>> => l \in degraded
  /\ \A l \in Leagues, t \in Alerting!Tasks :
       sending[t] \in {<<"degraded", l>>, <<"recovered", l>>} => t = l
  /\ \A l \in degraded : sending[l] # <<"recovered", l>>
  /\ RelapseIsTold

\* The alert of a block is sent, or leaving.
BlockInv ==
  stop = "blocked" \/ age[<<"blocked">>] < Cooldown =>
    blockTold \/ \E t \in Alerting!Tasks : sending[t] = <<"blocked">>

AlertInv == Alerting!TypeOK /\ ToldInv /\ BlockInv

LEMMA AlertTypes ==
  ASSUME AlertInv, Alerting!Next \/ Alerting!Forget
  PROVE  Alerting!TypeOK'
<1>0. Cooldown \in Nat /\ Cooldown \in 0..Cooldown
  BY OperationsAssumption DEF Alerting!AlertsAssumption
<1>. DEFINE K == Alerting!Keys  T == Alerting!Tasks  V == K \cup Alerting!Letters \cup {None}
<1>1. /\ degraded \subseteq Leagues /\ age \in [K -> 0..Cooldown] /\ sending \in [T -> V]
      /\ stop \in {"no", "asked", "blocked"} /\ blockTold \in BOOLEAN
      /\ word \in [Leagues -> {"none", "degraded", "recovered"}]
  BY DEF AlertInv, Alerting!TypeOK
<1>2. /\ Leagues \subseteq T /\ Dictionary \in T
      /\ <<"blocked">> \in K /\ <<"dictionary_blocked">> \in K
      /\ \A l \in Leagues : <<"degraded", l>> \in K /\ <<"recovered", l>> \in K
      /\ \A l \in Leagues : <<"letter", l>> \in V
      /\ None \in V /\ K \subseteq V
  BY DEF Alerting!Tasks, Alerting!Keys, Alerting!Letters
<1>. HIDE DEF K, T, V
<1>3. ASSUME NEW t \in T, NEW k \in K, NEW ages \in [K -> 0..Cooldown], Alerting!Alert(t, k, ages)
      PROVE  age' \in [K -> 0..Cooldown] /\ sending' \in [T -> V]
  BY <1>0, <1>1, <1>2, <1>3 DEF Alerting!Alert
<1>4. CASE Alerting!Forget
  BY <1>0, <1>1, <1>4 DEF Alerting!Forget, Alerting!TypeOK, K, T, V
<1>5. ASSUME NEW l \in Leagues, Alerting!Fall(l) PROVE Alerting!TypeOK'
  BY <1>1, <1>2, <1>5 DEF Alerting!Fall, Alerting!TypeOK, K, T, V
<1>10. ASSUME NEW l \in Leagues, Alerting!Archived(l) PROVE Alerting!TypeOK'
  BY <1>1, <1>2, <1>3, <1>10 DEF Alerting!Archived, Alerting!TypeOK, K, T, V
<1>11. CASE Alerting!BlockDictionary
  BY <1>1, <1>2, <1>3, <1>11 DEF Alerting!BlockDictionary, Alerting!TypeOK, K, T, V
<1>6. ASSUME NEW l \in Leagues, Alerting!Recover(l) PROVE Alerting!TypeOK'
  <2>1. [age EXCEPT ![<<"degraded", l>>] = Cooldown] \in [K -> 0..Cooldown]
    BY <1>0, <1>1, <1>2
  <2>. QED
    BY <1>1, <1>2, <1>3, <1>6, <2>1 DEF Alerting!Recover, Alerting!TypeOK, K, T, V
<1>7. ASSUME NEW t \in T, Alerting!Block(t) PROVE Alerting!TypeOK'
  BY <1>1, <1>2, <1>3, <1>7 DEF Alerting!Block, Alerting!TypeOK, K, T, V
<1>8. ASSUME NEW t \in T, Alerting!Sent(t) PROVE Alerting!TypeOK'
  <2>1. word' \in [Leagues -> {"none", "degraded", "recovered"}]
    BY <1>1, <1>8 DEF Alerting!Sent
  <2>2. blockTold' \in BOOLEAN
    BY <1>1, <1>8 DEF Alerting!Sent
  <2>. QED
    BY <1>1, <1>2, <1>8, <2>1, <2>2 DEF Alerting!Sent, Alerting!TypeOK, K, T, V
<1>9. CASE Alerting!AskStop \/ Alerting!Tick
  <2>1. age' \in [K -> 0..Cooldown]
    BY <1>0, <1>1, <1>9 DEF Alerting!AskStop, Alerting!Tick, K
  <2>. QED
    BY <1>1, <1>9, <2>1 DEF Alerting!AskStop, Alerting!Tick, Alerting!TypeOK, K, T, V
<1>. QED
  BY <1>4, <1>5, <1>6, <1>7, <1>8, <1>9, <1>10, <1>11 DEF Alerting!Next, T

\* The keys are what they look like: records of a kind and a league, apart from None.
LEMMA Keys ==
  /\ Cooldown \in Nat \ {0} /\ Other \notin Leagues /\ Leagues \subseteq Alerting!Tasks
  /\ \A l \in Leagues : <<"degraded", l>> \in Alerting!Keys /\ <<"recovered", l>> \in Alerting!Keys
  /\ <<"blocked">> \in Alerting!Keys /\ <<"dictionary_blocked">> \in Alerting!Keys
  /\ \A l \in Leagues :
       /\ None # <<"degraded", l>> /\ None # <<"recovered", l>> /\ None # <<"letter", l>>
       /\ <<"letter", l>> \notin Alerting!Keys
       /\ \A k \in {"blocked", "dictionary_blocked"} :
            <<k>> # <<"degraded", l>> /\ <<k>> # <<"recovered", l>> /\ <<k>> # <<"letter", l>>
  /\ None # <<"blocked">> /\ None # <<"dictionary_blocked">>
  /\ <<"dictionary_blocked">> # <<"blocked">>
BY OperationsAssumption DEF Alerting!AlertsAssumption, Alerting!Tasks, Alerting!Keys

LEMMA ToldStep ==
  ASSUME AlertInv, Alerting!Next \/ Alerting!Forget
  PROVE  ToldInv'
<1>. USE Keys
<1>. DEFINE K == Alerting!Keys  T == Alerting!Tasks  V == K \cup Alerting!Letters \cup {None}
<1>1. /\ degraded \subseteq Leagues /\ age \in [K -> 0..Cooldown] /\ sending \in [T -> V]
      /\ word \in [Leagues -> {"none", "degraded", "recovered"}]
  BY DEF AlertInv, Alerting!TypeOK
<1>2. /\ \A l \in Leagues :
           l \notin degraded \/ sending[l] = <<"letter", l>> => age[<<"degraded", l>>] = Cooldown
      /\ \A l \in Leagues : sending[l] = <<"letter", l>> => l \in degraded
      /\ \A l \in Leagues, t \in T : sending[t] \in {<<"degraded", l>>, <<"recovered", l>>} => t = l
      /\ \A l \in degraded : sending[l] # <<"recovered", l>>
      /\ \A l \in degraded :
           sending[l] \in {<<"letter", l>>, <<"degraded", l>>} \/ word[l] = "degraded"
  BY DEF AlertInv, ToldInv, RelapseIsTold, Alerting!RelapseIsTold
<1>. HIDE DEF K, T, V
<1>. USE DEF ToldInv, RelapseIsTold, Alerting!RelapseIsTold
<1>3. CASE Alerting!Forget
  BY <1>1, <1>3 DEF Alerting!Forget, K, T
<1>4. ASSUME NEW l \in Leagues, Alerting!Fall(l) PROVE ToldInv'
  <2>1. /\ degraded' = degraded \cup {l} /\ l \notin degraded /\ word' = word /\ age' = age
        /\ sending' = [sending EXCEPT ![l] = <<"letter", l>>]
    BY <1>4 DEF Alerting!Fall
  <2>. QED
    BY <1>1, <1>2, <2>1 DEF K, T
<1>9. ASSUME NEW l \in Leagues, Alerting!Archived(l) PROVE ToldInv'
  <2>1. age[<<"degraded", l>>] = Cooldown
    BY <1>2, <1>9 DEF Alerting!Archived
  <2>2. /\ degraded' = degraded /\ word' = word
        /\ age' = [age EXCEPT ![<<"degraded", l>>] = 0]
        /\ sending' = [sending EXCEPT ![l] = <<"degraded", l>>]
    BY <1>9, <2>1 DEF Alerting!Archived, Alerting!Alert
  <2>3. /\ l \in T /\ sending'[l] = <<"degraded", l>>
        /\ \A t \in T \ {l} : sending'[t] = sending[t]
        /\ \A m \in Leagues \ {l} : age'[<<"degraded", m>>] = age[<<"degraded", m>>]
    BY <1>1, <2>2 DEF K, T
  <2>4. l \in degraded
    BY <1>2, <1>9, <2>2 DEF Alerting!Archived
  <2>. QED
    BY <1>1, <1>2, <2>2, <2>3, <2>4 DEF T
<1>5. ASSUME NEW l \in Leagues, Alerting!Recover(l) PROVE ToldInv'
  <2>1. /\ degraded' = degraded \ {l} /\ l \in degraded /\ sending[l] = None /\ word' = word
        /\ age'[<<"degraded", l>>] = Cooldown
        /\ \A m \in Leagues \ {l} : age'[<<"degraded", m>>] = age[<<"degraded", m>>]
        /\ \A t \in T \ {l} : sending'[t] = sending[t]
        /\ sending'[l] \in {None, <<"recovered", l>>}
    BY <1>1, <1>5 DEF Alerting!Recover, Alerting!Alert, K, T
  <2>. QED
    BY <1>1, <1>2, <2>1 DEF K, T
<1>6. ASSUME NEW t \in T, NEW k \in {"blocked", "dictionary_blocked"}, sending[t] = None,
             degraded' = degraded, word' = word, Alerting!Alert(t, <<k>>, age)
      PROVE  ToldInv'
  <2>1. /\ degraded' = degraded /\ sending[t] = None /\ word' = word
        /\ \A m \in Leagues : age'[<<"degraded", m>>] = age[<<"degraded", m>>]
        /\ \A u \in T \ {t} : sending'[u] = sending[u]
        /\ sending'[t] \in {None, <<k>>}
    BY <1>1, <1>6 DEF Alerting!Alert, K, T
  <2>2. \A l \in Leagues :
          /\ sending'[t] # <<"degraded", l>> /\ sending'[t] # <<"recovered", l>>
          /\ sending'[t] # <<"letter", l>>
    BY <2>1
  <2>3. ASSUME NEW l \in degraded'
        PROVE  sending'[l] \in {<<"letter", l>>, <<"degraded", l>>} \/ word'[l] = "degraded"
    <3>1. l \in degraded /\ l \in Leagues /\ l \in T
      BY <1>1, <2>1, <2>3 DEF T
    <3>2. CASE l = t
      BY <1>2, <2>1, <3>1, <3>2
    <3>3. CASE l # t
      BY <1>2, <2>1, <3>1, <3>3
    <3>. QED
      BY <3>2, <3>3
  <2>4. \A l \in Leagues, u \in T : sending'[u] \in {<<"degraded", l>>, <<"recovered", l>>} => u = l
    BY <1>2, <2>1, <2>2
  <2>. QED
    BY <1>1, <1>2, <2>1, <2>2, <2>3, <2>4 DEF K, T
<1>10. ASSUME NEW t \in T, Alerting!Block(t) PROVE ToldInv'
  BY <1>6, <1>10 DEF Alerting!Block
<1>11. CASE Alerting!BlockDictionary
  BY <1>6, <1>11 DEF Alerting!BlockDictionary, T, Alerting!Tasks
<1>7. ASSUME NEW t \in T, Alerting!Sent(t) PROVE ToldInv'
  <2>1. /\ degraded' = degraded /\ age' = age
        /\ \A u \in T \ {t} : sending'[u] = sending[u]
        /\ sending'[t] = None /\ sending[t] \in K
        /\ \A l \in Leagues : word'[l] =
             IF sending[t] = <<"degraded", l>> THEN "degraded"
             ELSE IF sending[t] = <<"recovered", l>> THEN "recovered" ELSE word[l]
    BY <1>1, <1>7 DEF Alerting!Sent, K
  <2>2. \A l \in degraded :
          sending'[l] \in {<<"letter", l>>, <<"degraded", l>>} \/ word'[l] = "degraded"
    <3>1. ASSUME NEW l \in degraded
          PROVE  sending'[l] \in {<<"letter", l>>, <<"degraded", l>>} \/ word'[l] = "degraded"
      <4>1. l \in Leagues /\ l \in T
        BY <1>1 DEF T
      <4>2. CASE l = t
        <5>1. sending[l] = <<"degraded", l>> \/ word[l] = "degraded"
          BY <1>2, <2>1, <4>1, <4>2 DEF K
        <5>2. sending[t] # <<"recovered", l>>
          BY <1>2, <4>2
        <5>. QED
          BY <2>1, <4>1, <4>2, <5>1, <5>2
      <4>3. CASE l # t
        <5>1. sending[t] # <<"recovered", l>> /\ sending'[l] = sending[l]
          BY <1>2, <2>1, <4>1, <4>3
        <5>. QED
          BY <1>2, <2>1, <4>1, <5>1
      <4>. QED
        BY <4>2, <4>3
    <3>. QED
      BY <3>1
  <2>. QED
    BY <1>1, <1>2, <2>1, <2>2 DEF K, T
<1>8. CASE Alerting!AskStop \/ Alerting!Tick
  <2>1. /\ UNCHANGED <<degraded, sending, word>>
        /\ \A l \in Leagues : age[<<"degraded", l>>] = Cooldown => age'[<<"degraded", l>>] = Cooldown
    <3>1. CASE Alerting!AskStop
      BY <3>1 DEF Alerting!AskStop
    <3>2. CASE Alerting!Tick
      <4>1. /\ UNCHANGED <<degraded, sending, word>>
            /\ age' = [k \in K |-> IF age[k] < Cooldown THEN age[k] + 1 ELSE Cooldown]
        BY <3>2 DEF Alerting!Tick, K
      <4>2. \A l \in Leagues : <<"degraded", l>> \in K
        BY DEF K
      <4>. QED
        BY <4>1, <4>2
    <3>. QED
      BY <1>8, <3>1, <3>2
  <2>. QED
    BY <1>1, <1>2, <2>1 DEF K, T
<1>. QED
  BY <1>3, <1>4, <1>5, <1>7, <1>8, <1>9, <1>10, <1>11 DEF Alerting!Next, T

LEMMA BlockStep ==
  ASSUME AlertInv, Alerting!Next \/ Alerting!Forget
  PROVE  BlockInv'
<1>. USE Keys
<1>. DEFINE K == Alerting!Keys  T == Alerting!Tasks  b == <<"blocked">>
            V == K \cup Alerting!Letters \cup {None}
<1>1. /\ degraded \subseteq Leagues /\ age \in [K -> 0..Cooldown] /\ sending \in [T -> V]
      /\ blockTold \in BOOLEAN
  BY DEF AlertInv, Alerting!TypeOK
<1>2. stop = "blocked" \/ age[b] < Cooldown => blockTold \/ \E t \in T : sending[t] = b
  BY DEF AlertInv, BlockInv
<1>3. /\ b \in K /\ age[b] \in 0..Cooldown /\ b # None
      /\ \A l \in Leagues : b # <<"degraded", l>> /\ b # <<"recovered", l>> /\ b # <<"letter", l>>
  BY <1>1
<1>. HIDE DEF K, T, V
<1>. SUFFICES ASSUME stop' = "blocked" \/ age'[b] < Cooldown
              PROVE  blockTold' \/ \E t \in T : sending'[t] = b
  BY DEF BlockInv, T
<1>4. CASE Alerting!Forget
  BY <1>3, <1>4 DEF Alerting!Forget, K
<1>5. ASSUME NEW l \in T, stop' = stop, blockTold' = blockTold, sending[l] # b,
             age'[b] = age[b], \A t \in T \ {l} : sending'[t] = sending[t]
      PROVE  blockTold' \/ \E t \in T : sending'[t] = b
  <2>1. /\ stop' = stop /\ blockTold' = blockTold /\ sending[l] # b /\ age'[b] = age[b]
        /\ \A t \in T \ {l} : sending'[t] = sending[t]
    BY <1>5
  <2>2. blockTold \/ \E t \in T : sending[t] = b
    BY <1>2, <2>1
  <2>3. ASSUME NEW t \in T, sending[t] = b PROVE sending'[t] = b
    BY <1>3, <2>1, <2>3
  <2>. QED
    BY <2>1, <2>2, <2>3
<1>10. ASSUME NEW l \in Leagues, Alerting!Fall(l) \/ Alerting!Archived(l) \/ Alerting!Recover(l)
       PROVE  blockTold' \/ \E t \in T : sending'[t] = b
  <2>1. /\ stop' = stop /\ blockTold' = blockTold /\ sending[l] # b /\ age'[b] = age[b]
        /\ \A t \in T \ {l} : sending'[t] = sending[t]
    BY <1>1, <1>3, <1>10 DEF Alerting!Fall, Alerting!Archived, Alerting!Recover, Alerting!Alert
  <2>2. l \in T
    BY DEF T
  <2>. QED
    BY <1>5, <2>1, <2>2
<1>11. CASE Alerting!BlockDictionary
  <2>1. /\ stop' = stop /\ blockTold' = blockTold /\ sending[Dictionary] # b /\ age'[b] = age[b]
        /\ \A t \in T \ {Dictionary} : sending'[t] = sending[t]
    BY <1>1, <1>3, <1>11 DEF Alerting!BlockDictionary, Alerting!Alert
  <2>2. Dictionary \in T
    BY DEF T, Alerting!Tasks
  <2>. QED
    BY <1>5, <2>1, <2>2
<1>6. ASSUME NEW u \in T, Alerting!Block(u)
      PROVE  blockTold' \/ \E t \in T : sending'[t] = b
  <2>1. CASE age[b] >= Cooldown
    <3>1. sending' = [sending EXCEPT ![u] = b]
      BY <1>3, <1>6, <2>1 DEF Alerting!Block, Alerting!Alert
    <3>. QED
      BY <1>1, <3>1
  <2>2. CASE age[b] < Cooldown
    <3>1. blockTold' = blockTold /\ sending[u] = None /\ sending' = [sending EXCEPT ![u] = None]
      BY <1>3, <1>6, <2>2 DEF Alerting!Block, Alerting!Alert
    <3>2. \A t \in T : sending[t] = b => sending'[t] = b
      BY <1>1, <1>3, <3>1
    <3>. QED
      BY <1>2, <2>2, <3>1, <3>2
  <2>. QED
    BY <1>3, <2>1, <2>2
<1>7. ASSUME NEW u \in T, Alerting!Sent(u)
      PROVE  blockTold' \/ \E t \in T : sending'[t] = b
  <2>1. /\ stop' = stop /\ age' = age /\ (blockTold' <=> blockTold \/ sending[u] = b)
        /\ \A t \in T \ {u} : sending'[t] = sending[t]
    BY <1>1, <1>7 DEF Alerting!Sent
  <2>. QED
    BY <1>2, <2>1
<1>8. CASE Alerting!AskStop
  BY <1>2, <1>8 DEF Alerting!AskStop
<1>9. CASE Alerting!Tick
  <2>1. /\ UNCHANGED <<stop, blockTold, sending>>
        /\ age'[b] < Cooldown => age[b] < Cooldown
    BY <1>3, <1>9 DEF Alerting!Tick, K
  <2>. QED
    BY <1>2, <2>1
<1>. QED
  BY <1>4, <1>6, <1>7, <1>8, <1>9, <1>10, <1>11 DEF Alerting!Next, T

-----------------------------------------------------------------------------
(* The collector in operation.                                               *)

\* A process that runs has no outcome yet.
RunInv == proc \in {"migrating", "up"} => outcome = "none"

OwnTypes ==
  /\ proc \in {"down", "migrating", "up"} /\ outcome \in {"none", "clean", "blocked", "died"}
  /\ db \in BOOLEAN /\ lastCycle \in [Leagues -> {"never", "recent", "old"}] /\ heard \subseteq Leagues

LEMMA AlertsBegin == Alerting!Init => AlertInv
<1>. SUFFICES ASSUME Alerting!Init PROVE AlertInv
  OBVIOUS
<1>. USE DEF Alerting!Init
<1>1. Alerting!TypeOK
  <2>1. Cooldown \in 0..Cooldown
    BY Keys
  <2>. QED
    BY <2>1 DEF Alerting!TypeOK
<1>2. ToldInv
  BY Keys DEF ToldInv, RelapseIsTold, Alerting!RelapseIsTold
<1>3. BlockInv
  BY Keys DEF BlockInv
<1>. QED
  BY <1>1, <1>2, <1>3 DEF AlertInv

LEMMA AlertsGoOn == AlertInv /\ [Next]_vars => AlertInv'
<1>. SUFFICES ASSUME AlertInv, [Next]_vars PROVE AlertInv'
  OBVIOUS
<1>1. Alerting!Next \/ Alerting!Forget \/ UNCHANGED alertVars
  BY DEF Next, vars, alertVars, Launch, Started, StartFails, End, Die, AlertStep, MigrateStep,
    DbFails,
    DbReturns, Collect, GrowOld, Watch
<1>2. CASE Alerting!Next \/ Alerting!Forget
  BY <1>2, AlertTypes, ToldStep, BlockStep DEF AlertInv
<1>3. CASE UNCHANGED alertVars
  <2>1. Alerting!TypeOK'
    BY <1>3 DEF alertVars, AlertInv, Alerting!TypeOK
  <2>2. ToldInv'
    BY <1>3 DEF alertVars, AlertInv, ToldInv, RelapseIsTold, Alerting!RelapseIsTold
  <2>3. BlockInv'
    BY <1>3 DEF alertVars, AlertInv, BlockInv
  <2>. QED
    BY <2>1, <2>2, <2>3 DEF AlertInv
<1>. QED
  BY <1>1, <1>2, <1>3

LEMMA OwnTypesGoOn == OwnTypes /\ RunInv /\ [Next]_vars => OwnTypes' /\ RunInv'
<1>. SUFFICES ASSUME OwnTypes, RunInv, [Next]_vars PROVE OwnTypes' /\ RunInv'
  OBVIOUS
<1>. USE DEF OwnTypes, RunInv
<1>1. CASE Launch \/ Started \/ StartFails \/ End \/ Die
  BY <1>1 DEF Launch, Started, StartFails, End, Die, watchVars
<1>2. CASE AlertStep \/ MigrateStep \/ UNCHANGED vars
  <2>1. UNCHANGED <<procVars, watchVars>>
    BY <1>2 DEF AlertStep, MigrateStep, vars
  <2>. QED
    BY <2>1 DEF procVars, watchVars
<1>3. CASE DbFails \/ DbReturns
  BY <1>3 DEF DbFails, DbReturns, procVars
<1>4. ASSUME NEW l \in Leagues, Collect(l) \/ GrowOld(l) PROVE OwnTypes' /\ RunInv'
  BY <1>4 DEF Collect, GrowOld, procVars
<1>5. ASSUME NEW delivered \in BOOLEAN, Watch(delivered) PROVE OwnTypes' /\ RunInv'
  <2>1. UNCHANGED <<db, lastCycle, procVars>> /\ heard' \subseteq Leagues
    BY <1>5 DEF Watch, Stale
  <2>. QED
    BY <2>1 DEF procVars
<1>. QED
  BY <1>1, <1>2, <1>3, <1>4, <1>5 DEF Next

LEMMA Inductive == Spec => [](SchemaInv /\ AlertInv /\ OwnTypes /\ RunInv)
<1>1. Init => SchemaInv
  BY MigrateInit, Assumed DEF Init
<1>2. SchemaInv /\ [Next]_vars => SchemaInv'
  BY StepMigrates, MigrateNext
<1>3. Init => AlertInv /\ OwnTypes /\ RunInv
  BY AlertsBegin DEF Init, OwnTypes, RunInv
<1>. QED
  BY <1>1, <1>2, <1>3, AlertsGoOn, OwnTypesGoOn, PTL DEF Spec

\* The variables of the composition keep their types, for any number of restarts.
THEOREM OperationTypes == Spec => []TypeOK
<1>1. SchemaInv /\ AlertInv /\ OwnTypes => TypeOK
  BY DEF SchemaInv, AlertInv, OwnTypes, TypeOK
<1>. QED
  BY <1>1, Inductive, PTL

\* Whatever the cooldown and the number of leagues, a degraded league is never left with
\* "recovered" as the last word sent about it.
THEOREM RelapsesAreTold == Spec => []RelapseIsTold
<1>1. AlertInv => RelapseIsTold
  BY DEF AlertInv, ToldInv
<1>. QED
  BY <1>1, Inductive, PTL

\* However many tasks meet the block at once, a process that ends because of it has sent the
\* alert before.
THEOREM BlocksAreTold == Spec => BlockIsTold
<1>1. AlertInv /\ RunInv /\ [Next]_vars => [proc = "up" /\ outcome' = "blocked" => blockTold]_vars
  <2>. SUFFICES ASSUME AlertInv, RunInv, Next, proc = "up", outcome' = "blocked"
                PROVE  blockTold
    OBVIOUS
  <2>1. End
    BY DEF RunInv, Next, Launch, Started, StartFails, Die, AlertStep, MigrateStep, DbFails,
      DbReturns,
      Collect, GrowOld, Watch, procVars
  <2>2. stop = "blocked" /\ \A t \in Alerting!Tasks : sending[t] = None
    BY <2>1 DEF End
  <2>. QED
    BY <2>2, Keys DEF AlertInv, BlockInv
<1>. QED
  BY <1>1, Inductive, PTL DEF Spec, BlockIsTold

=============================================================================
