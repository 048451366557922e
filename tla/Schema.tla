------------------------------- MODULE Schema -------------------------------
(***************************************************************************)
(* What the migrations promise (header of src/src/collector/storage/        *)
(* migrate.py): a schema grows by whole migrations, each applied once, in    *)
(* increasing order of version and never changed afterwards; and a runner    *)
(* that reports success leaves the database exactly at the level of its own  *)
(* files.  Migrate is shown to implement this module.                       *)
(***************************************************************************)
EXTENDS Naturals

CONSTANTS
  Runners,   \* who may migrate the database
  Versions,  \* numbers of the migration files
  Checksums  \* contents of a migration file

VARIABLES
  schema,    \* the migrations whose SQL the database has run: version -> checksum
  level      \* the files a runner has reported as applied, one entry per runner

vars == <<schema, level>>

Init ==
  /\ schema = <<>>
  /\ level = [r \in Runners |-> <<>>]

\* d with one more version.
Extended(d, version, checksum) ==
  [v \in DOMAIN d \cup {version} |-> IF v = version THEN checksum ELSE d[v]]

Extend(version, checksum) ==
  /\ \A v \in DOMAIN schema : v < version
  /\ schema' = Extended(schema, version, checksum)
  /\ UNCHANGED level

Report(r) ==
  /\ level' = [level EXCEPT ![r] = schema]
  /\ UNCHANGED schema

Next ==
  \/ \E version \in Versions, checksum \in Checksums : Extend(version, checksum)
  \/ \E r \in Runners : Report(r)

Spec == Init /\ [][Next]_vars

=============================================================================
