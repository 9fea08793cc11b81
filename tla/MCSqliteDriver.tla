---------------------------- MODULE MCSqliteDriver -----------------------------
(***************************************************************************)
(* The database drivers, in one run of TLC; the first state chooses a part:*)
(*   "start"    the server starts and dies, over and over (DatabaseSetup), *)
(*              on a database with five versions, whose upgrades run each  *)
(*              kind of statement,                                         *)
(*   "serve"    two threads use the open SQLite database (SqliteDriver),   *)
(*   "mysql"    two threads use MySQL (MysqlDriver),                       *)
(*   "postgres" two threads use PostgreSQL (PostgresDriver).               *)
(***************************************************************************)
EXTENDS SqliteDriver

CONSTANTS
    c1, c2,
    MysqlOps, MaxCuts,          \* bounds of the part "mysql"
    Objects, Attributes, Scripts, MaxDeaths, MaxLosses, MaxCopies     \* of the part "start"

ASSUME CutsAssumption == {MysqlOps, MaxCuts} \subseteq Nat

\* sqlite3-upgrade.xml: metadata are moved once, in a version of their own, and
\* entry types are made once, with the letters of the locations taken away last
Metadata == <<"metadata">>
EntryTypes == <<"types", "classify", "location">>
ASSUME UpgradeAssumption ==
    /\ Attributes \in Nat
    /\ Scripts \in Seq(Seq({"add", "set", "resources"}) \cup {Metadata, EntryTypes})
    /\ \A v, w \in DOMAIN Scripts :
           Scripts[v] = Scripts[w] /\ Scripts[v] \in {Metadata, EntryTypes} => v = w

TwoCallers == {c1, c2}
BothModes == BOOLEAN
TwoObjects == {1, 2}
FourUpgrades == << <<"add", "set">>, Metadata, EntryTypes, <<"resources">> >>

VARIABLES part
VARIABLES db, mainFile, backupFile, log, onError, autoBackup, place, at, step,
          deaths, losses, failures, copies, harmed
startVars == <<db, mainFile, backupFile, log, onError, autoBackup, place, at, step,
               deaths, losses, failures, copies, harmed>>

Setup == INSTANCE DatabaseSetup WITH
    file <- mainFile, backup <- backupFile, wal <- log, pc <- place, part <- step, errors <- failures

(* The parts share the variables of the same name.                         *)
VARIABLES gone, owner, cuts, conn

Mysql == INSTANCE MysqlDriver WITH MaxOps <- MysqlOps, MaxLosses <- MaxCuts, losses <- cuts
Postgres == INSTANCE PostgresDriver

MCInit ==
    /\ part \in {"start", "serve", "mysql", "postgres"}
    /\ Init /\ Setup!Init /\ Mysql!Init /\ Postgres!Init
    /\ part = "start" => ~use_transaction
    /\ part # "start" => db = Setup!NoFile /\ backupFile = Setup!NoBackup /\ ~log /\ onError = "fail" /\ ~autoBackup

\* nothing is asked of what follows once a start was harmed
StartNext == part = "start" /\ ~harmed /\ Setup!Next
MCNext ==
    /\ UNCHANGED part
    /\ \/ StartNext /\ UNCHANGED <<vars, gone, owner, cuts, conn>>
       \/ part = "serve" /\ Next /\ UNCHANGED <<startVars, gone, owner, cuts, conn>>
       \/ /\ part = "mysql" /\ Mysql!Next
          /\ FoldFunction(+, 0, ops') <= 3          \* bound: operations together
          /\ UNCHANGED <<taskQueue, taskQueueOpen, shutdownFlag, dirty, backup, reply, tpc,
                         main, exited, broken, db, mainFile, backupFile, log, onError,
                         autoBackup, place, at, step, deaths, losses, failures, copies, conn>>
       \/ /\ part = "postgres" /\ Postgres!Next
          /\ UNCHANGED <<dirty, tx, txWrites, backup, main, startVars, gone, owner, cuts>>

\* the fairness of SqliteDriver, for its steps
MCSpec ==
    /\ MCInit /\ [][MCNext]_<<part, vars, startVars, gone, owner, cuts, conn>>
    /\ WF_vars(part = "serve" /\ ~exited /\ threadProc)
    /\ WF_vars(part = "serve" /\ ~exited /\ main = "join" /\ shutdownDriver)
    /\ \A c \in Callers : /\ WF_vars(part = "serve" /\ ~exited /\ caller(c))
                          /\ SF_vars(part = "serve" /\ ~exited /\ lockBegin(c))

\* from the first start there is, in the journal mode and with the options that are
\* the defaults
FirstStart ==
    /\ MCInit /\ part = "start"
    /\ db = Setup!NoFile /\ backupFile = Setup!NoBackup
    /\ log /\ onError = "restore" /\ autoBackup
StartSpec == FirstStart /\ [][MCNext]_<<part, vars, startVars, gone, owner, cuts, conn>>

(* The properties of DatabaseSetup.                                        *)
ReadyIsWhole == Setup!ReadyIsWhole /\ Setup!StartSucceeds
LossIsRecovered == Setup!LossIsRecovered

(* Operations do not mix: with SQLite and MySQL what one of several        *)
(* statements writes becomes durable as a whole, with PostgreSQL, which has*)
(* no transaction over several statements, they take turns, and none of    *)
(* them waits for an answer that nobody is going to give.                  *)
OperationsAreApart ==
    /\ part = "serve" => AllOrNothing
    /\ part = "mysql" => Mysql!AllOrNothing
    /\ part = "postgres" => Postgres!TakeTurns /\ Postgres!NobodyForgotten

(* What an operation was told to be written, and returned from, is kept.   *)
AckedIsKept ==
    /\ part = "serve" => AckedKeptIfPlain
    /\ part = "mysql" => Mysql!AckedKept
    /\ part = "postgres" => Postgres!AckedKept

(* While SQLite is not dirty the backup is current.                        *)
BackupIsCurrent == part = "serve" => BackupCurrent

(* Every operation of SQLite returns or throws, whatever fails, and also   *)
(* while the database shuts down with tasks in its queue.                  *)
OperationsEnd == part = "serve" => EveryOperationEnds
=============================================================================
