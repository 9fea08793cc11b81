----------------------------- MODULE DatabaseSetup -----------------------------
(***************************************************************************)
(* How the server comes to its SQLite database when it starts: it opens    *)
(* the file, restores it from the backup or creates it, upgrades it version*)
(* by version, adds missing columns to the table of resources and makes a  *)
(* backup.  Each statement is its own transaction, so the server can die   *)
(* after any of them and start again on what is there; a statement can     *)
(* fail, for a reason of its own (the disk is full) or because an earlier  *)
(* start has run it.                                                       *)
(*                                                                         *)
(* The statements of an upgrade, by what running them twice does:          *)
(*   "add"       makes a column, table or index: fails the second time     *)
(*   "set"       an UPDATE: does the same again                            *)
(*   "metadata"  moves metadata into their table, then rebuilds the table  *)
(*               of objects without their column (version 12; resources    *)
(*               are moved in the same way in version 13)                  *)
(*   "types"     rebuilds the table of objects with entry types, all unset *)
(*   "classify"  sets entry types by the first letter of the location      *)
(*   "location"  takes that letter away                        (all in 27) *)
(*   "resources" rebuilds the table of resources (version 28)              *)
(* Copying the backup is one step; the file is never damaged, but may go.  *)
(* In the journal mode WAL, which is the default, SQLite writes to a log   *)
(* and copies that into the file when it grows too long or is closed.  It  *)
(* finds the log again after a death.                                      *)
(***************************************************************************)
EXTENDS Integers, Sequences

CONSTANTS
    Objects,      \* objects of the database before its first upgrade
    Scripts,      \* Scripts[v]: the statements from version v to the next one
    Attributes,   \* number of columns for attributes of resources
    MaxDeaths, MaxErrors, MaxLosses, MaxCopies   \* bounds

VARIABLES
    db,           \* the database: its file and its log
    file, backup, \* the two files
    wal,          \* the journal mode is WAL
    onError,      \* the option on-error: "restore", "fail"
    autoBackup,   \* the option backup enabled
    pc, at, part, \* where the start is: its statement, and the part of that
    deaths, errors, losses, copies,
    harmed        \* auxiliary: see Fragile

DBVERSION == Len(Scripts) + 1
NoFile == [tables |-> FALSE, version |-> 0]       \* also a file without tables
NoBackup == [tables |-> FALSE, version |-> 0, readable |-> FALSE]  \* which a backup may be, too
IsEmpty(d) == ~d.tables

options == <<wal, onError, autoBackup>>
faults == <<deaths, errors, losses, copies, harmed>>
vars == <<db, file, backup, options, pc, at, part, faults>>

\* a whole database of a version: root counts the rows of fillDatabase, build
\* how far a table is rebuilt, columns and stored are those of the resources
Runs(w, stmt) == \E i \in DOMAIN Scripts[w] : Scripts[w][i] = stmt
HasPassed(v, stmt) == \E w \in 1 .. v - 1 : Runs(w, stmt)
Whole(v) ==
    [tables |-> TRUE, version |-> v, root |-> 3, added |-> {w \in 1 .. v - 1 : Runs(w, "add")},
     build |-> [t \in {"object", "resource"} |-> 0],
     column |-> IF HasPassed(v, "metadata") THEN {} ELSE Objects,
     hasColumn |-> ~HasPassed(v, "metadata"),
     moved |-> IF HasPassed(v, "metadata") THEN Objects ELSE {},
     hasTypes |-> HasPassed(v, "types"),
     typed |-> IF HasPassed(v, "types") THEN Objects ELSE {},
     prefixed |-> IF HasPassed(v, "location") THEN {} ELSE Objects,
     rebuilt |-> HasPassed(v, "resources"),
     columns |-> IF v = DBVERSION THEN Attributes ELSE 0,
     stored |-> IF v = DBVERSION THEN Attributes ELSE 0]

Init ==
    /\ \/ db \in {Whole(v) : v \in 1 .. DBVERSION} /\ losses = 0
       \/ db = NoFile /\ losses = 1
    /\ file = db
    /\ backup \in {NoBackup, NoFile, db}
    /\ wal \in BOOLEAN /\ onError \in {"restore", "fail"} /\ autoBackup \in BOOLEAN
    /\ pc = "down" /\ at = 1 /\ part = 0
    /\ deaths = 0 /\ errors = 0 /\ copies = 0 /\ harmed = FALSE

-------------------------------------------------------------------------------
(* What happens to a running or a stopped server.                          *)

\* What a death leaves behind here, the next start does not mend: a script that
\* has run without its version, a database without its first objects, a table
\* that is half rebuilt, metadata moved in part (doMetadataMigration takes them
\* for moved) or their column gone (it asks for it), and locations without the
\* letter that the entry types, unset again by the next start, are told by.
Has(d, stmt) == d.version \in 1 .. DBVERSION - 1 /\ Runs(d.version, stmt)
Fragile(d) ==
    /\ d.tables
    /\ \/ d.version = 0 \/ d.root < 3
       \/ \E t \in DOMAIN d.build : d.build[t] # 0
       \/ Has(d, "metadata") /\ (~d.hasColumn \/ (d.moved # {} /\ d.moved # d.column))
       \/ Has(d, "location") /\ d.prefixed # Objects

Down == pc \in {"down", "failed"}
Die ==
    /\ ~Down /\ deaths < MaxDeaths
    /\ deaths' = deaths + 1 /\ harmed' = (harmed \/ Fragile(db))
    /\ pc' = "down" /\ at' = 1 /\ part' = 0
    /\ UNCHANGED <<db, file, backup, options, errors, losses, copies>>

\* The file is removed, or emptied.
Lose ==
    /\ Down /\ losses < MaxLosses
    /\ losses' = losses + 1 /\ db' = NoFile /\ file' = NoFile
    /\ UNCHANGED <<backup, options, pc, at, part, deaths, errors, copies, harmed>>

\* The log is too long.
CopyLog ==
    /\ ~Down /\ file # db /\ copies < MaxCopies
    /\ copies' = copies + 1 /\ file' = db
    /\ UNCHANGED <<db, backup, options, pc, at, part, deaths, errors, losses, harmed>>

Goto(place) == pc' = place /\ at' = 1 /\ part' = 0
Fail == Goto("failed") /\ UNCHANGED db

\* A statement fails for a reason of its own.
Strikes == errors < MaxErrors /\ errors' = errors + 1 /\ harmed' = TRUE /\ UNCHANGED <<deaths, losses, copies>>

\* _exec runs a statement and logs that it failed.
Exec(fails, done) == IF fails THEN UNCHANGED db ELSE db' = done

-------------------------------------------------------------------------------
(* prepareDatabase                                                         *)

Start ==
    /\ Down
    /\ Goto("prepare")
    /\ UNCHANGED <<db, backup, options, faults>>

\* getInternalSetting throws when there is no table, and returns an empty version
\* when there is no row; the option decides in the first case only.  A backup that
\* can be read counts, whatever it holds.
CanRestore == backup # NoBackup
Prepare ==
    /\ pc = "prepare"
    /\ Goto(IF db.version # 0 THEN "upgrade"
            ELSE IF IsEmpty(db) /\ onError = "fail" THEN "failed"
            ELSE IF ~CanRestore THEN "create"
            ELSE IF IsEmpty(db) THEN "restore"
            ELSE "failed")
    /\ UNCHANGED <<db, backup, options, faults>>

\* SLBackupTask, with restore set.  There is a backup: when no version is found in
\* that either, the start ends and no database is created.
RestoreBackup ==
    /\ pc = "restore"
    /\ db' = backup
    /\ Goto(IF backup.version = 0 THEN "failed" ELSE "upgrade")
    /\ harmed' = (harmed \/ Fragile(backup))
    /\ UNCHANGED <<backup, options, deaths, errors, losses, copies>>

\* SLScriptTask: the script is a transaction, the version a statement of its own.
Fresh == [Whole(DBVERSION) EXCEPT !.version = 0, !.root = 0, !.columns = 0, !.stored = 0,
                                  !.moved = {}, !.typed = {}]
Create ==
    /\ pc = "create"
    /\ IF IsEmpty(db) THEN db' = Fresh /\ Goto("version") ELSE Fail
    /\ UNCHANGED <<backup, options, faults>>
SetVersion ==
    /\ pc = "version"
    /\ db' = [db EXCEPT !.version = DBVERSION]
    /\ Goto("fill")
    /\ UNCHANGED <<backup, options, faults>>

\* fillDatabase: nullObject, rootContainer and fileContainer
FillDatabase ==
    /\ pc = "fill"
    /\ IF db.root < 3 THEN db' = [db EXCEPT !.root = @ + 1] /\ UNCHANGED <<pc, at, part>>
                      ELSE Goto("upgrade") /\ UNCHANGED db
    /\ UNCHANGED <<backup, options, faults>>
FillFails ==
    /\ pc = "fill" /\ db.root < 3
    /\ Fail /\ Strikes /\ UNCHANGED <<backup, options>>

-------------------------------------------------------------------------------
(* SQLMigration::upgradeDatabase                                           *)

Stmt == Scripts[db.version][at]
HasObjects == db.build["object"] < 3
Next1 == at' = at + 1 /\ part' = 0 /\ pc' = "upgrade"

\* the metadata of one object is in the table: all are, says doMetadataMigration
IsMigrated == db.column # {} /\ db.moved # {}

\* the migration of a statement, or its statement
Statement ==
    /\ pc = "upgrade" /\ db.version < DBVERSION /\ at <= Len(Scripts[db.version])
    /\ CASE Stmt = "metadata" ->
                IF ~HasObjects \/ ~db.hasColumn THEN Fail
                ELSE /\ pc' = IF IsMigrated THEN "rebuild" ELSE "metadata"
                     /\ UNCHANGED <<db, at, part>>
         [] Stmt = "location" ->
                IF HasObjects THEN pc' = "location" /\ UNCHANGED <<db, at, part>> ELSE Fail
         [] Stmt \in {"types", "resources"} -> pc' = "rebuild" /\ UNCHANGED <<db, at, part>>
         [] Stmt = "add" -> /\ Exec(db.version \in db.added, [db EXCEPT !.added = @ \cup {db.version}])
                            /\ Next1
         [] Stmt = "classify" -> /\ Exec(~HasObjects \/ ~db.hasTypes, [db EXCEPT !.typed = @ \cup db.prefixed])
                                 /\ Next1
         [] Stmt = "set" -> UNCHANGED db /\ Next1
    /\ UNCHANGED <<backup, options, faults>>
StatementFails ==
    /\ pc = "upgrade" /\ db.version < DBVERSION /\ at <= Len(Scripts[db.version])
    /\ Stmt \in {"add", "classify"}
    /\ Next1 /\ Strikes /\ UNCHANGED <<db, backup, options>>

\* migrateMetadata, one object after the other, then the statement
MigrateMetadata ==
    /\ pc = "metadata"
    /\ IF db.column \subseteq db.moved
       THEN pc' = "rebuild" /\ UNCHANGED db
       ELSE \E o \in db.column \ db.moved :
                db' = [db EXCEPT !.moved = @ \cup {o}] /\ UNCHANGED pc
    /\ UNCHANGED <<backup, at, part, options, faults>>

\* migrateLocation, the same; the statement after it is an UPDATE
MigrateLocation ==
    /\ pc = "location"
    /\ IF db.prefixed = {}
       THEN Next1 /\ UNCHANGED db
       ELSE \E o \in db.prefixed : /\ db' = [db EXCEPT !.prefixed = @ \ {o}]
                                   /\ UNCHANGED <<pc, at, part>>
    /\ UNCHANGED <<backup, options, faults>>
MigrationFails ==
    /\ \/ pc = "metadata" /\ ~(db.column \subseteq db.moved)
       \/ pc = "location" /\ db.prefixed # {}
    /\ Fail /\ Strikes /\ UNCHANGED <<backup, options>>

\* CREATE, INSERT, DROP and RENAME of a table, in one call of sqlite3_exec that
\* ends at the first that fails, as CREATE does after an earlier try
Rebuilt(d) ==
    CASE Stmt = "metadata" -> [d EXCEPT !.hasColumn = FALSE, !.column = {}]
      [] Stmt = "types" -> [d EXCEPT !.hasTypes = TRUE, !.typed = {}]
      [] Stmt = "resources" -> [d EXCEPT !.rebuilt = TRUE]
Rebuild ==
    /\ pc = "rebuild"
    /\ LET t == IF Stmt = "resources" THEN "resource" ELSE "object"
       IN IF part # db.build[t] THEN Next1 /\ UNCHANGED db
          ELSE IF part < 3 THEN /\ db' = [db EXCEPT !.build[t] = @ + 1]
                                /\ part' = part + 1 /\ UNCHANGED <<pc, at>>
          ELSE db' = Rebuilt([db EXCEPT !.build[t] = 0]) /\ Next1
    /\ UNCHANGED <<backup, options, faults>>
RebuildFails ==
    /\ pc = "rebuild"
    /\ Next1 /\ Strikes /\ UNCHANGED <<db, backup, options>>

\* the version follows the statements, whatever became of them
VersionFirst == TRUE                                                    \* mutant
VersionDone == at > Len(Scripts[db.version])
UpdateVersion ==
    /\ pc = "upgrade" /\ db.version < DBVERSION /\ VersionDone
    /\ db' = [db EXCEPT !.version = @ + 1]
    /\ Goto("upgrade")
    /\ UNCHANGED <<backup, options, faults>>

-------------------------------------------------------------------------------
(* The rest of init                                                        *)

\* prepareResourceTable: a column for each attribute that the setting does not
\* name, then the setting, once
AddColumn ==
    /\ pc = "upgrade" /\ db.version = DBVERSION /\ db.stored + at <= Attributes
    /\ Exec(db.columns >= db.stored + at \/ db.build["resource"] = 3, [db EXCEPT !.columns = db.stored + at])
    /\ at' = at + 1
    /\ UNCHANGED <<backup, pc, part, options, faults>>
StoreAttributes ==
    /\ pc = "upgrade" /\ db.version = DBVERSION /\ db.stored + at > Attributes
    /\ db' = [db EXCEPT !.stored = Attributes]
    /\ Goto("backup")
    /\ UNCHANGED <<backup, options, faults>>

\* SLBackupTask copies the file, without its log.
Backup ==
    /\ pc = "backup"
    /\ backup' = IF autoBackup THEN file ELSE backup
    /\ Goto("ready")
    /\ UNCHANGED <<db, options, faults>>

\* the orderly end
Stop ==
    /\ pc = "ready"
    /\ Goto("down")
    /\ UNCHANGED <<db, backup, options, faults>>

Step ==
    \/ Start \/ Prepare \/ RestoreBackup \/ Create \/ SetVersion \/ FillDatabase \/ FillFails
    \/ Statement \/ StatementFails \/ MigrateMetadata \/ MigrateLocation \/ MigrationFails
    \/ Rebuild \/ RebuildFails \/ UpdateVersion \/ AddColumn \/ StoreAttributes
    \/ Backup \/ Stop

\* What a step writes goes to the file, or to the log until that is closed.
Logged == file' = IF wal /\ pc # "restore" /\ pc' \notin {"down", "failed"} THEN file ELSE db'

Next == (Step /\ Logged) \/ CopyLog \/ Die \/ Lose

Spec == Init /\ [][Next]_vars

-------------------------------------------------------------------------------
(* Properties                                                              *)

SetupTypeOK ==
    /\ db.version \in 0 .. DBVERSION /\ backup.version \in 0 .. DBVERSION
    /\ db.tables => /\ db.root \in 0 .. 3 /\ db.build \in [{"object", "resource"} -> 0 .. 3]
                    /\ db.column \cup db.moved \cup db.typed \cup db.prefixed \subseteq Objects
                    /\ db.stored <= Attributes /\ db.columns <= Attributes

\* A server that is ready has a database of its version with all its tables, its
\* first objects and all that was in the database before, restored or not,
\* however often a start died in between: where it was not in the middle of what
\* it cannot do twice (Fragile), the backup it was restored from was not made there
\* and no statement failed.
ReadyIsWhole ==
    SetupTypeOK /\ (pc = "ready" /\ ~harmed =>
        \/ db = Whole(DBVERSION)
        \/ losses > 0 /\ db = [Whole(DBVERSION) EXCEPT !.moved = {}, !.typed = {}])

\* And a start fails only then, where the option asks for it when there is no
\* database, and where neither the file nor the backup that is there has tables.
StartSucceeds ==
    pc = "failed" =>
        harmed \/ onError = "fail" \/ (IsEmpty(db) /\ CanRestore /\ IsEmpty(backup))

\* config-server.rst:1094 on the option "restore": the server "will try to restore
\* the database from a backup file (if one exists) or try to recreate a new
\* database from scratch"; so a file that is gone does not keep it from starting.
LossIsRecovered ==
    pc = "failed" => deaths + errors > 0 \/ onError = "fail"
================================================================================
