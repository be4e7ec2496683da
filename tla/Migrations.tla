----------------------------- MODULE Migrations -----------------------------
(***************************************************************************)
(* Opening the database (Storage::open in usage-daemon/src/storage.rs,     *)
(* migrate in storage/migrations.rs and its SQL files): the journal mode   *)
(* and the permissions, which are set before the file is examined, what is *)
(* recognised as a legacy schema, the reset, statement by statement, and   *)
(* the migrations, each in a transaction.  The daemon may die at any point *)
(* and starts again on what is on disk.                                    *)
(***************************************************************************)
EXTENDS Integers, Sequences

CONSTANTS
  Latest,    \* version of the last migration
  MayCrash   \* the daemon may die

ASSUME MigrationsAssumption == Latest \in Nat \ {0} /\ MayCrash \in BOOLEAN

VARIABLES
  origin,       \* what the file was: never changes
  tables,       \* tables on disk
  ours,         \* PRAGMA application_id is APPLICATION_ID
  version,      \* PRAGMA user_version
  journal,      \* the journal mode in the file's header
  private,      \* its permissions are 0600
  opening,      \* where Storage::open is
  current,      \* local variable of migrate
  dropped,      \* statements of the reset executed
  interrupted   \* history: the daemon died in the reset

migrationVars == <<origin, tables, ours, version, journal, private, opening, current, dropped, interrupted>>

(* LEGACY_SCHEMA, in the order of its statements: "data" stands for the    *)
(* tables that identify nothing.                                           *)
LegacySchema == <<"data", "usage_snapshots", "accounts", "usage_schema_migrations", "schema_migrations">>

SchemaOf(v) == IF v = 0 THEN {} ELSE {"data", "usage_snapshots", "accounts", "schema_migrations", "v1"} \union
                                     (IF v >= 2 THEN {"v2"} ELSE {}) \union (IF v >= 3 THEN {"v3"} ELSE {})

(* Contents of a file that the daemon may be pointed at.                   *)
Files ==
  [origin : {"empty"}, tables : {{}}, ours : {FALSE}, version : {0}]
  \union [origin : {"legacy"}, ours : {FALSE}, version : {0},
          tables : {{"data", "usage_snapshots", "accounts"}, {"usage_snapshots", "accounts", "schema_migrations"},
                    {"usage_snapshots", "accounts", "usage_schema_migrations"}}]
  \union [origin : {"foreign"}, ours : {FALSE}, version : {0, Latest},
          tables : {{"other"}, {"other", "accounts"}, {"usage_snapshots"}}]
  \union {[origin |-> "ours", ours |-> TRUE, version |-> v, tables |-> SchemaOf(v)] : v \in 1 .. Latest + 1}

MigrationsInit ==
  /\ \E f \in Files : origin = f.origin /\ tables = f.tables /\ ours = f.ours /\ version = f.version
  /\ journal \in IF origin = "empty" THEN {"delete"} ELSE {"delete", "wal"}
  /\ private \in BOOLEAN
  /\ opening = "start" /\ current = 0 /\ dropped = 0 /\ interrupted = FALSE

(* open_writer_connection: the mode is written into whatever file it is.   *)
OpenWriter ==
  /\ opening = "start"
  /\ journal' = "wal"
  /\ opening' = "opened"
  /\ UNCHANGED <<origin, tables, ours, version, private, current, dropped, interrupted>>

(* set_permissions, before migrate                                         *)
ProtectFile ==
  /\ opening = "opened"
  /\ private' = TRUE
  /\ opening' = "examining"
  /\ UNCHANGED <<origin, tables, ours, version, journal, current, dropped, interrupted>>

(* Mutant: one table is enough.                                            *)
HasLegacyTable == {"usage_schema_migrations", "accounts", "usage_snapshots"} \intersect tables # {}

(* has_legacy_schema: the old table of versions, or a pair of tables with  *)
(* their columns.                                                          *)
HasLegacySchema ==
  "usage_schema_migrations" \in tables \/ {"accounts", "usage_snapshots"} \subseteq tables

MustReset == ~ours /\ HasLegacySchema

Examine ==
  /\ opening = "examining"
  /\ opening' = CASE MustReset -> "resetting"
                  [] ~MustReset /\ ((~ours /\ tables # {}) \/ version > Latest) -> "refused"
                  [] OTHER -> "migrating"
  /\ current' = IF MustReset THEN 0 ELSE version
  /\ UNCHANGED <<origin, tables, ours, version, journal, private, dropped, interrupted>>

(* execute_batch(LEGACY_SCHEMA): outside of any transaction.               *)
DropTable ==
  /\ opening = "resetting"
  /\ dropped' = dropped + 1
  /\ tables' = tables \ {LegacySchema[dropped']}
  /\ opening' = IF dropped' = Len(LegacySchema) THEN "migrating" ELSE "resetting"
  /\ UNCHANGED <<origin, ours, version, journal, private, current, interrupted>>

(* Mutant: the version is committed before the tables.                     *)
MigrateInTwo ==
  /\ opening = "migrating" /\ current < Latest
  /\ version' = current + 1 /\ ours' = TRUE
  /\ IF version = current + 1 THEN current' = current + 1 /\ tables' = tables \union SchemaOf(current + 1)
     ELSE UNCHANGED <<current, tables>>
  /\ UNCHANGED <<origin, journal, private, opening, dropped, interrupted>>

Migrate ==
  /\ opening = "migrating" /\ current < Latest
  /\ current' = current + 1
  /\ tables' = tables \union SchemaOf(current')
  /\ version' = current' /\ ours' = TRUE
  /\ UNCHANGED <<origin, journal, private, opening, dropped, interrupted>>

Opened ==
  /\ opening = "migrating" /\ current >= Latest
  /\ opening' = "ready"
  /\ UNCHANGED <<origin, tables, ours, version, journal, private, current, dropped, interrupted>>

(* The daemon dies, or a statement fails and it gives up; it starts again. *)
Restart ==
  /\ MayCrash
  /\ opening' = "start" /\ current' = 0 /\ dropped' = 0
  /\ interrupted' = (interrupted \/ opening = "resetting")
  /\ UNCHANGED <<origin, tables, ours, version, journal, private>>

MigrationsNext == OpenWriter \/ ProtectFile \/ Examine \/ DropTable \/ Migrate \/ Opened \/ Restart

MigrationsSpec == MigrationsInit /\ [][MigrationsNext]_migrationVars
-----------------------------------------------------------------------------
MigrationsTypeOK ==
  /\ \E f \in Files : origin = f.origin
  /\ ours \in BOOLEAN /\ version \in 0 .. Latest + 1
  /\ journal \in {"delete", "wal"} /\ private \in BOOLEAN
  /\ opening \in {"start", "opened", "examining", "resetting", "migrating", "ready", "refused"}
  /\ current \in 0 .. Latest + 1 /\ dropped \in 0 .. Len(LegacySchema)
  /\ interrupted \in BOOLEAN

(* Of a database of somebody else's, the tables and what it says of its   *)
(* owner and version are kept, however often the daemon is started on it   *)
(* (migrate: "Never use either one alone as permission to delete data").   *)
(* More does not hold: docs/troubleshooting.md says that the daemon        *)
(* "refuses to touch" such a file, but OpenWriter and ProtectFile change   *)
(* its journal mode and its permissions before Examine refuses it.         *)
ForeignTablesKept ==
  [][origin = "foreign" => UNCHANGED <<tables, ours, version>>]_migrationVars

(* A database that opens has every table of its version, wherever the      *)
(* daemon died before (one transaction per migration); readers do not wait *)
(* for the writer (READ_POOL_SIZE), and nobody else reads the file.        *)
OpensComplete ==
  opening = "ready" =>
    /\ ours /\ version = Latest /\ SchemaOf(Latest) \subseteq tables
    /\ journal = "wal" /\ private

(* Only what is foreign or newer is refused, unless the daemon died in the *)
(* reset of a legacy schema.                                               *)
OwnIsOpened ==
  opening = "refused" => origin = "foreign" \/ version > Latest \/ interrupted

(* migrations.rs: "reset that schema once", so that a legacy database is   *)
(* opened in the end and not refused as one of somebody else.              *)
LegacyIsReset == opening = "refused" => origin # "legacy"

(* Wherever the daemon died before, a database that opens is complete, and *)
(* one of its own is not refused (migrate).                                *)
DatabaseOpens == OpensComplete /\ OwnIsOpened
=============================================================================
