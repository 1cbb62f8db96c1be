------------------------------- MODULE Migrations -------------------------------
(***************************************************************************)
(* One database file, opened by several mailpot processes that may have    *)
(* been built from different versions of the source.                       *)
(*                                                                         *)
(* A missing file is created empty, then a `sqlite3` child process fills   *)
(* it from schema.sql, one statement after the other, each committed on    *)
(* its own.  An existing file is opened: its `user_version` is read, and   *)
(* if it is not the newest migration this binary knows, the migrations in  *)
(* between run in one savepoint.  Nothing is held from the test for the    *)
(* file to its creation, nor from the read of the version to the           *)
(* migration.                                                              *)
(***************************************************************************)
EXTENDS Naturals, Sequences, FiniteSets

CONSTANTS
    Opener,     \* the processes
    Known       \* per process: the newest migration its binary has

\* What migration m adds to the schema.
Piece == <<"template", "topics", "sort", "settings",
           "archived_at", "subject_prefix", "mime_reject">>

Versions == 0 .. Len(Piece)

ASSUME KnownAssumption == Known \in [Opener -> Versions \ {0}]

\* The settings whose schema is a row that a migration inserts.
FilterSettings == {"archived_at", "subject_prefix", "mime_reject"}

VARIABLES
    file,       \* the database file exists
    schema,     \* the parts of the schema it has
    version,    \* PRAGMA user_version
    settings,   \* the filters for which some list has stored settings
    opening     \* per process: where it is in open_or_create_db

openingVars == <<file, schema, version, settings, opening>>

NotOpening == [pc |-> "idle", from |-> 0, busy |-> FALSE]

\* The schema of a database that was migrated up to version v.
SchemaAt(v) == {"base"} \cup {Piece[m] : m \in 1 .. v} \cup (IF v = 0 THEN {"templates"} ELSE {})

OpeningInit ==
    /\ \/ file = FALSE /\ schema = {} /\ version = 0
       \/ file = TRUE /\ version \in Versions /\ schema = SchemaAt(version)
    /\ settings = {}
    /\ opening = [p \in Opener |-> NotOpening]

-------------------------------------------------------------------------------
(***************************************************************************)
(* The migrations.  An image is what a transaction sees: the schema and    *)
(* the stored settings, `ok` until a statement fails.                      *)
(***************************************************************************)

\* Renaming a table that is not there or adding a column that is there fails;
\* the other scripts are written with IF NOT EXISTS or OR REPLACE, and fail
\* only when a table they use is missing.
RedoOk(s, m) ==
    CASE m = 1 -> "templates" \in s
      [] m = 2 -> "base" \in s /\ "topics" \notin s
      [] m = 3 -> "topics" \in s
      [] m = 4 -> {"base", "template"} \subseteq s
      [] OTHER -> "settings" \in s

\* Mutant: a migration recreates the settings tables.
Redo_Recreates(image, m) ==
    [ok |-> image.ok /\ RedoOk(image.schema, m),
     schema |-> (image.schema \cup {Piece[m]}) \ (IF m = 1 THEN {"templates"} ELSE {}),
     settings |-> {}]

\* Replacing the row of a settings schema deletes the list settings that
\* reference it (ON DELETE CASCADE).
Redo(image, m) ==
    [ok |-> image.ok /\ RedoOk(image.schema, m),
     schema |-> (image.schema \cup {Piece[m]}) \ (IF m = 1 THEN {"templates"} ELSE {}),
     settings |-> image.settings \ {Piece[m]}]

\* Dropping the settings tables drops what the later migrations put into them.
Undo(image, m) ==
    [ok |-> image.ok /\ Piece[m] \in image.schema,
     schema |-> (image.schema \ {Piece[m]}) \cup (IF m = 1 THEN {"templates"} ELSE {}),
     settings |-> IF m = 4 THEN {} ELSE image.settings \ {Piece[m]}]

\* The image after the redo scripts of from+1 .. to.
Redone(image, from, to) ==
    LET after[m \in from .. to] == IF m = from THEN image ELSE Redo(after[m - 1], m)
    IN  after[to]

\* The image after the undo scripts of from .. to+1.
Undone(image, from, to) ==
    LET after[m \in to .. from] == IF m = from THEN image ELSE Undo(after[m + 1], m + 1)
    IN  after[to]

StoredImage == [ok |-> TRUE, schema |-> schema, settings |-> settings]

Migrated(from, to) == IF from > to THEN Undone(StoredImage, from, to) ELSE Redone(StoredImage, from, to)

-------------------------------------------------------------------------------
OpeningAt(p, pc) == opening' = [opening EXCEPT ![p].pc = pc]

\* if !conf.db_path.exists()
TestFile(p) ==
    /\ opening[p].pc = "idle"
    /\ OpeningAt(p, IF file THEN "open" ELSE "create")
    /\ UNCHANGED <<file, schema, version, settings>>

\* File::create truncates a file that somebody else has created since.
CreateFile(p) ==
    /\ opening[p].pc = "create"
    /\ file' = TRUE
    /\ schema' = {}
    /\ version' = 0
    /\ settings' = {}
    /\ opening' = [opening EXCEPT ![p] = [pc |-> "child", from |-> 0, busy |-> FALSE]]

\* The statements of schema.sql, grouped by the part of the schema they make:
\* the tables (`topics` is a column), the settings tables, the triggers, the rows.
Groups == <<{"base", "topics"}, {"template"}, {"settings"}, {"sort"},
            {"archived_at"}, {"subject_prefix"}, {"mime_reject"}>>

\* The schema.sql of a version has the parts that version knows.
Made(p, g) == Groups[g] \cap SchemaAt(Known[p])

\* What is left of it after group `opening[p].from`.
Script(p) == {g \in DOMAIN Groups : g > opening[p].from /\ Made(p, g) # {}}

ScriptDone(p) == Script(p) = {}

\* The child runs the next group.  Another process that is opening the file
\* may hold its lock: the statement fails, sqlite3 goes on with the next one
\* and in the end exits with an error.
ChildStatement(p) ==
    /\ opening[p].pc = "child"
    /\ \E g \in Script(p) :
         /\ \A later \in Script(p) : g <= later
         /\ \/ /\ schema' = schema \cup Made(p, g)
               /\ settings' = settings \ Made(p, g)
               /\ opening' = [opening EXCEPT ![p].from = g]
            \/ /\ \E q \in Opener \ {p} : opening[q].pc \in {"open", "migrate"}
               /\ opening' = [opening EXCEPT ![p].from = g, ![p].busy = TRUE]
               /\ UNCHANGED <<schema, settings>>
    /\ UNCHANGED <<file, version>>

\* PRAGMA user_version is the last statement; then the exit status is read.
ChildEnds(p) ==
    /\ opening[p].pc = "child"
    /\ ScriptDone(p)
    /\ version' = Known[p]
    /\ opening' = [opening EXCEPT ![p] = IF opening[p].busy THEN NotOpening ELSE [NotOpening EXCEPT !.pc = "open"]]
    /\ UNCHANGED <<file, schema, settings>>

\* Mutant: the connection is handed out without comparing versions.
ReadVersion_NoMigration(p) ==
    /\ opening[p].pc = "open"
    /\ file
    /\ opening' = [opening EXCEPT ![p] = [pc |-> "conn", from |-> version, busy |-> FALSE]]
    /\ UNCHANGED <<file, schema, version, settings>>

\* open_db up to schema_version()
ReadVersion(p) ==
    /\ opening[p].pc = "open"
    /\ file
    /\ opening' = [opening EXCEPT ![p] = [pc |-> IF version = Known[p] THEN "conn" ELSE "migrate",
                                    from |-> version, busy |-> FALSE]]
    /\ UNCHANGED <<file, schema, version, settings>>

\* migrate(version, latest), one savepoint: all of it or nothing.
Migrate(p) ==
    /\ opening[p].pc = "migrate"
    /\ opening[p].from < Known[p]
    /\ LET image == Migrated(opening[p].from, Known[p])
       IN  IF image.ok
           THEN /\ schema' = image.schema
                /\ settings' = image.settings
                /\ version' = Known[p]
                /\ OpeningAt(p, "conn")
           ELSE /\ opening' = [opening EXCEPT ![p] = NotOpening]
                /\ UNCHANGED <<schema, settings, version>>
    /\ UNCHANGED file

\* A version this binary does not know: it indexes past its MIGRATIONS and
\* panics before it runs anything.
TooNew(p) ==
    /\ opening[p].pc = "migrate"
    /\ opening[p].from > Known[p]
    /\ opening' = [opening EXCEPT ![p] = NotOpening]
    /\ UNCHANGED <<file, schema, version, settings>>

\* set_settings needs the schema row of its name (foreign key).
SetSettings(p, name) ==
    /\ opening[p].pc = "conn"
    /\ {"settings", name} \subseteq schema
    /\ settings' = settings \cup {name}
    /\ UNCHANGED <<file, schema, version, opening>>

\* migrate(latest, to) by the only process that has the file open.
Downgrade(p, to) ==
    /\ opening[p].pc = "conn"
    /\ \A q \in Opener \ {p} : opening[q].pc = "idle"
    /\ to \in 1 .. Known[p] - 1
    /\ LET image == Migrated(Known[p], to)
       IN  /\ image.ok
           /\ schema' = image.schema
           /\ settings' = image.settings
    /\ version' = to
    /\ opening' = [opening EXCEPT ![p] = [pc |-> "low", from |-> to, busy |-> FALSE]]
    /\ UNCHANGED file

\* The process ends, or its connection is dropped; a child that was fed the
\* schema runs no further statement.
CloseDb(p) ==
    /\ opening[p].pc # "idle"
    /\ opening' = [opening EXCEPT ![p] = NotOpening]
    /\ UNCHANGED <<file, schema, version, settings>>

OpeningNext ==
    \E p \in Opener :
        \/ TestFile(p) \/ CreateFile(p) \/ ChildStatement(p) \/ ChildEnds(p)
        \/ ReadVersion(p) \/ Migrate(p) \/ TooNew(p) \/ CloseDb(p)
        \/ \E name \in FilterSettings : SetSettings(p, name)
        \/ \E to \in Versions : Downgrade(p, to)

OpeningSpec == OpeningInit /\ [][OpeningNext]_openingVars

-------------------------------------------------------------------------------
(***************************************************************************)
(* Properties                                                              *)
(***************************************************************************)

\* Type correctness; settings are stored only in tables that exist.
OpeningTypeOK ==
    /\ file \in BOOLEAN
    /\ schema \subseteq {"base", "templates"} \cup {Piece[m] : m \in 1 .. Len(Piece)}
    /\ version \in Versions
    /\ settings \subseteq FilterSettings \cap schema
    /\ \A p \in Opener :
         /\ opening[p].pc \in {"idle", "create", "child", "open", "migrate", "conn", "low"}
         /\ opening[p].from \in 0 .. Len(Groups)
         /\ opening[p].busy \in BOOLEAN

\* The stored version is not higher than the schema it stands for.
VersionIsTrue == version > 0 => SchemaAt(version) \subseteq schema

\* Every connection that open_db handed out has all that its binary expects.
ConnectionsAreCurrent ==
    \A p \in Opener : opening[p].pc = "conn" => SchemaAt(Known[p]) \subseteq schema

\* A step of p, from one place of open_or_create_db to another
Moves(p, from, to) ==
    opening'[p] # opening[p] /\ opening[p].pc = from /\ opening'[p].pc \in to

\* p migrates the file, up or down, and takes it to have a higher version than it has.
MisjudgesVersion(p) ==
    \/ Moves(p, "migrate", {"conn"}) /\ version < opening[p].from
    \/ Moves(p, "conn", {"low"}) /\ version < opening'[p].from

\* A migration never marks the file with a version whose schema it does not have,
\* nor does it leave a connection without a part of the schema.  Only the creation
\* of a file does: a second process truncates it, a child that failed marks it
\* (open_or_create_db holds no lock), or a process goes on from the version of a
\* file that somebody has created anew since.  A version that was read before
\* somebody else's migration, or that an older binary wrote, does no such harm.
OnlyCreationSpoilsDatabases ==
    [][ /\ VersionIsTrue /\ ~VersionIsTrue' =>
             \E p \in Opener : \/ ScriptDone(p) /\ Moves(p, "child", {"open", "idle"})
                               \/ MisjudgesVersion(p)
        /\ ConnectionsAreCurrent /\ ~ConnectionsAreCurrent' =>
             \/ \E p \in Opener : Moves(p, "create", {"child"}) \/ MisjudgesVersion(p)
             \/ ~VersionIsTrue ]_openingVars

\* Stored list settings outlive upgrades.  They are lost only to a second
\* creation, to a downgrade, or to a migration that repeats one already done,
\* because its version was read before, or lowered by an older binary.
SettingsSurviveUpgrades ==
    [][ ~(settings \subseteq settings') =>
          \E p \in Opener :
             \/ Moves(p, "create", {"child"}) \/ Moves(p, "child", {"child"})
             \/ Moves(p, "conn", {"low"})
             \/ /\ Moves(p, "migrate", {"conn"})
                /\ opening[p].from < version \/ ~(schema \subseteq SchemaAt(version)) ]_openingVars
=============================================================================
