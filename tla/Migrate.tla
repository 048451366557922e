------------------------------- MODULE Migrate -------------------------------
(***************************************************************************)
(* The migration runner: src/src/collector/storage/migrate.py.               *)
(*                                                                         *)
(* Every collector migrates the database when it starts (main.py) and an      *)
(* operator may do it by hand, from another image of the project: the        *)
(* directories of the runners may differ.  A session-level advisory lock      *)
(* serialises them; each file is one transaction.  A runner may die anywhere; *)
(* the database then keeps its lock until it notices the end of the session.  *)
(***************************************************************************)
EXTENDS Naturals

CONSTANTS
  Runners,   \* processes that call migrate()
  Versions,  \* numbers of the migration files
  Checksums, \* contents of a migration file
  Images,    \* directories that may be deployed: functions version -> checksum
  None,      \* nobody holds the lock
  Ghost      \* the lock is held by the session of a dead runner

\* Assumed by Operations.
RunnersAssumption == None \notin Runners /\ Ghost \notin Runners /\ None # Ghost

Directories == UNION {[V -> Checksums] : V \in SUBSET Versions}

ImagesAssumption == Versions \subseteq Nat /\ Images \subseteq Directories

VARIABLES
  pc,        \* where migrate() is
  files,     \* what discover() has read
  applied,   \* rows of schema_migrations read under the lock, and those added since
  lock,      \* pg_advisory_lock(ADVISORY_LOCK_ID)
  table,     \* schema_migrations
  schema,    \* history: the migrations whose SQL was committed
  level      \* history: the files of the last success of each runner

vars == <<pc, files, applied, lock, table, schema, level>>

Promise == INSTANCE Schema
Extended(d, version, checksum) == Promise!Extended(d, version, checksum)

Stages == {"off", "waiting", "locked", "applying", "done", "failed"}

TypeOK ==
  /\ pc \in [Runners -> Stages]
  /\ files \in [Runners -> Directories] /\ applied \in [Runners -> Directories]
  /\ lock \in Runners \cup {None, Ghost}
  /\ table \in Directories /\ schema \in Directories
  /\ level \in [Runners -> Directories]

Init ==
  /\ pc = [r \in Runners |-> "off"]
  /\ files = [r \in Runners |-> <<>>] /\ applied = [r \in Runners |-> <<>>]
  /\ lock = None
  /\ table = <<>> /\ schema = <<>>
  /\ level = [r \in Runners |-> <<>>]

-----------------------------------------------------------------------------

\* migrate() is over, with its local variables.
Returns(r, stage) ==
  /\ pc' = [pc EXCEPT ![r] = stage]
  /\ files' = [files EXCEPT ![r] = <<>>] /\ applied' = [applied EXCEPT ![r] = <<>>]

\* discover() reads the directory of the image deployed for this runner, then a connection
\* asks for the lock.
Discover(r) ==
  /\ pc[r] \in {"off", "done", "failed"}
  /\ \E d \in Images : files' = [files EXCEPT ![r] = d]
  /\ pc' = [pc EXCEPT ![r] = "waiting"]
  /\ UNCHANGED <<applied, lock, table, schema, level>>

\* Mutant of Acquire: two runners are not serialised.
AcquireFreely(r) ==
  /\ pc[r] = "waiting"
  /\ lock' = r
  /\ pc' = [pc EXCEPT ![r] = "locked"]
  /\ UNCHANGED <<files, applied, table, schema, level>>

Acquire(r) ==
  /\ pc[r] = "waiting" /\ lock = None
  /\ lock' = r
  /\ pc' = [pc EXCEPT ![r] = "locked"]
  /\ UNCHANGED <<files, applied, table, schema, level>>

\* What is applied is on disk, unchanged, and nothing older is pending.
Consistent(dir, rows) ==
  /\ \A v \in DOMAIN rows : v \in DOMAIN dir /\ dir[v] = rows[v]
  /\ \A v \in DOMAIN dir \ DOMAIN rows : \A w \in DOMAIN rows : w < v

\* schema_migrations is read once the lock is held.
ReadApplied(r) ==
  /\ pc[r] = "locked"
  /\ Consistent(files[r], table)
  /\ applied' = [applied EXCEPT ![r] = table]
  /\ pc' = [pc EXCEPT ![r] = "applying"]
  /\ UNCHANGED <<files, lock, table, schema, level>>

\* MigrationError, or an error of the SQL of a file, whose transaction is rolled back; the
\* lock is released in the finally clause.
Fail(r) ==
  /\ \/ pc[r] = "locked" /\ ~Consistent(files[r], table)
     \/ pc[r] = "applying" /\ DOMAIN applied[r] # DOMAIN files[r]
  /\ Returns(r, "failed")
  /\ lock' = None
  /\ UNCHANGED <<table, schema, level>>

\* The next file: the oldest that is not applied.
Pending(r) ==
  {v \in DOMAIN files[r] \ DOMAIN applied[r] :
     \A w \in DOMAIN files[r] \ DOMAIN applied[r] : v <= w}

\* One transaction: the SQL of the file and its row.  The primary key refuses a second row.
ApplyNext(r) ==
  /\ pc[r] = "applying"
  /\ \E v \in Pending(r) :
       /\ v \notin DOMAIN table
       /\ schema' = Extended(schema, v, files[r][v])
       /\ table' = Extended(table, v, files[r][v])
       /\ applied' = [applied EXCEPT ![r] = Extended(@, v, files[r][v])]
  /\ UNCHANGED <<pc, files, lock, level>>

\* Nothing is pending any more: the lock is released and the versions are returned.
Finish(r) ==
  /\ pc[r] = "applying" /\ DOMAIN applied[r] = DOMAIN files[r]
  /\ Returns(r, "done")
  /\ lock' = None
  /\ level' = [level EXCEPT ![r] = files[r]]
  /\ UNCHANGED <<table, schema>>

\* The directory is not valid, or the runner or its connection dies; an open transaction is rolled back.
Cut(r) ==
  /\ pc[r] \in {"waiting", "locked", "applying"}
  /\ Returns(r, "failed")
  /\ lock' = IF lock = r THEN Ghost ELSE lock
  /\ UNCHANGED <<table, schema, level>>

\* The database notices that the session is over and releases its lock.
SessionEnds ==
  /\ lock = Ghost /\ lock' = None
  /\ UNCHANGED <<pc, files, applied, table, schema, level>>

\* The database stops: every session ends, with its lock and its transaction.
DatabaseStops ==
  /\ pc' = [r \in Runners |-> IF pc[r] \in {"waiting", "locked", "applying"} THEN "failed" ELSE pc[r]]
  /\ files' = [r \in Runners |-> <<>>] /\ applied' = [r \in Runners |-> <<>>]
  /\ lock' = None
  /\ UNCHANGED <<table, schema, level>>

Migrating(r) == Acquire(r) \/ ReadApplied(r) \/ Fail(r) \/ ApplyNext(r) \/ Finish(r)

Next ==
  \/ \E r \in Runners : Discover(r) \/ Migrating(r) \/ Cut(r)
  \/ SessionEnds \/ DatabaseStops

Spec == Init /\ [][Next]_vars

-----------------------------------------------------------------------------
(* Properties.                                                               *)

\* Whatever the images, the order of the runners and the deaths, the database goes through
\* whole migrations in increasing order, and a success means that it is exactly at the level
\* of the files of that runner (header of migrate.py).
ImplementsSchema == Promise!Spec

=============================================================================
