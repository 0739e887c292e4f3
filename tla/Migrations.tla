----------------------------- MODULE Migrations -----------------------------
(***************************************************************************)
(* sqlite.Open and Migrate: a release of the program brings the database   *)
(* to its schema before anything else uses it.                             *)
(*                                                                         *)
(* A release is the sequence of its embedded migrations; the version of a  *)
(* migration is its position, as their file names are sorted.  Databases   *)
(* outlive releases: one may have been created by an old release that kept *)
(* no checksums, by a newer release, or by one whose migrations were       *)
(* edited.  Each statement and each transaction of Migrate is a step; any  *)
(* of them may fail, and the process may stop after any of them.           *)
(***************************************************************************)
EXTENDS Naturals, Sequences

CONSTANTS
    Content,    \* what a migration file says; a checksum tells contents apart
    Releases,   \* the releases that operators may start
    Legacy,     \* releases from before the checksum column
    Versions,   \* the versions of all releases
    Blank,      \* the empty checksum
    NoRow

ASSUME ReleasesAssumption ==
    /\ Releases \subseteq Seq(Content) /\ Legacy \subseteq Seq(Content)
    /\ Versions \subseteq Nat
    /\ \A r \in Releases \cup Legacy : 1..Len(r) \subseteq Versions

ASSUME RowAssumption == Blank \notin Content /\ NoRow \notin Content \cup {Blank}

VARIABLES
    table,      \* schema_migrations: "absent", "plain" or "checksums"
    rows,       \* its rows: the checksum of each applied version
    schema,     \* the migrations that were executed, in order
    legacy,     \* how many of them a legacy release executed
    release,    \* the release that runs, or ran last
    step,       \* "closed", "check", "create", "alter", "apply", "open" or "failed"
    version     \* the version that the loop has reached

database == <<table, rows, schema, legacy>>
migrationVars == <<table, rows, schema, legacy, release, step, version>>

MigrationType ==
    /\ table \in {"absent", "plain", "checksums"}
    /\ rows \in [Versions -> Content \cup {Blank, NoRow}]
    /\ schema \in Seq(Content) /\ legacy \in Nat
    /\ release \in Releases
    /\ step \in {"closed", "check", "create", "alter", "apply", "open", "failed"}
    /\ version \in Nat \ {0}

\* A new file, or one that a legacy release has left.
MigrationInit ==
    /\ \/ table = "absent" /\ schema = <<>>
       \/ table = "plain" /\ schema \in Legacy
    /\ legacy = Len(schema)
    /\ rows = [v \in Versions |-> IF v \in 1..Len(schema) THEN Blank ELSE NoRow]
    /\ release \in Releases /\ step = "closed" /\ version = 1

-----------------------------------------------------------------------------

\* sqlite.Open connects to the file.
Open(r) ==
    /\ step = "closed"
    /\ release' = r /\ step' = "check"
    /\ UNCHANGED <<database, version>>

Unknown == table # "absent" /\ \E v \in Versions : rows[v] # NoRow /\ v > Len(release)

\* rejectUnknownMigrations comes before anything is written.
RejectUnknown ==
    /\ step = "check"
    /\ step' = IF Unknown THEN "failed" ELSE "create"
    /\ UNCHANGED <<database, release, version>>

CreateTable ==
    /\ step = "create"
    /\ table' = IF table = "absent" THEN "checksums" ELSE table
    /\ step' = "alter"
    /\ UNCHANGED <<rows, schema, legacy, release, version>>

\* Fault: a column that is there already is an error.
AddColumnOnce ==
    /\ step = "alter"
    /\ table' = "checksums"
    /\ step' = IF table = "plain" THEN "apply" ELSE "failed"
    /\ version' = 1
    /\ UNCHANGED <<rows, schema, legacy, release>>

\* A duplicate column is not an error; old rows get the empty checksum.
AddColumn ==
    /\ step = "alter"
    /\ table' = "checksums"
    /\ step' = "apply" /\ version' = 1
    /\ UNCHANGED <<rows, schema, legacy, release>>

\* Fault: a recorded checksum is not compared.
NoMismatch == FALSE

Mismatch == rows[version] \notin {Blank, release[version]}

\* An applied migration is verified, and its checksum recorded if it has none.
Verify ==
    /\ step = "apply" /\ version <= Len(release) /\ rows[version] # NoRow
    /\ IF Mismatch
       THEN step' = "failed" /\ UNCHANGED <<rows, version>>
       ELSE /\ rows' = [rows EXCEPT ![version] = IF @ = Blank THEN release[version] ELSE @]
            /\ version' = version + 1 /\ UNCHANGED step
    /\ UNCHANGED <<table, schema, legacy, release>>

\* One transaction executes the migration and records it.
ApplyMigration ==
    /\ step = "apply" /\ version <= Len(release) /\ rows[version] = NoRow
    /\ schema' = Append(schema, release[version])
    /\ rows' = [rows EXCEPT ![version] = release[version]]
    /\ version' = version + 1
    /\ UNCHANGED <<table, legacy, release, step>>

Migrated ==
    /\ step = "apply" /\ version > Len(release)
    /\ step' = "open"
    /\ UNCHANGED <<database, release, version>>

\* A statement or a transaction fails.
MigrateFails ==
    /\ step \in {"check", "create", "alter", "apply"}
    /\ step' = "failed"
    /\ UNCHANGED <<database, release, version>>

Migrate == RejectUnknown \/ CreateTable \/ AddColumn \/ Verify \/ ApplyMigration \/ Migrated

\* The database is closed, or the process stops; it remains as it is.
Close ==
    /\ step' = "closed" /\ version' = 1
    /\ UNCHANGED <<database, release>>

MigrationNext == (\E r \in Releases : Open(r)) \/ Migrate \/ MigrateFails \/ Close

MigrationSpec == MigrationInit /\ [][MigrationNext]_migrationVars

-----------------------------------------------------------------------------
\* Properties.

\* Whatever releases ran before, and wherever they were interrupted, once Open
\* returns the database has executed exactly the migrations of this release,
\* each once and in order; only what a legacy release executed is taken on trust.
OpenHasOwnSchema ==
    step = "open" =>
        /\ Len(schema) = Len(release)
        /\ \A v \in 1..Len(schema) : v > legacy => schema[v] = release[v]

\* rejectUnknownMigrations: a release older than the database does not write to
\* it at all, not even the metadata of its migrations.
OlderReleaseWritesNothing ==
    [][Len(schema) > Len(release) => UNCHANGED database]_migrationVars

-----------------------------------------------------------------------------
\* The inductive invariant behind both: rows and executed migrations agree, and
\* the versions behind the loop are verified.

RowInv ==
    \A v \in Versions :
        /\ rows[v] # NoRow <=> v \in 1..Len(schema)
        /\ rows[v] # NoRow /\ v > legacy => rows[v] = schema[v]

LoopInv ==
    /\ step = "apply" => table = "checksums"
    /\ step \in {"create", "alter", "apply", "open"} => Len(schema) <= Len(release)
    /\ step \in {"apply", "open"} =>
         \A v \in Versions : v \in 1..(version - 1) =>
             /\ v <= Len(schema)
             /\ v > legacy => schema[v] = release[v]
    /\ step = "open" => version > Len(release)

MigrationInv ==
    /\ MigrationType /\ RowInv /\ LoopInv
    /\ schema # <<>> => table # "absent"
    /\ 1..Len(schema) \subseteq Versions

=============================================================================
