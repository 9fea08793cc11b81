----------------------------- MODULE SqliteDriver ------------------------------
(***************************************************************************)
(* database/sqlite3/sqlite_database.cc and sl_task.cc: one thread owns the *)
(* connection and runs the statements that all other threads put in its    *)
(* queue.  With use-transactions the callers of the one connection take    *)
(* turns by the flag inTransaction; statements outside of a transaction    *)
(* take no part in that, and run inside the transaction of whoever has one.*)
(*                                                                         *)
(* An operation of SQLDatabase is a sequence of statements; a statement is *)
(* what it does to the transaction and to the rows.  Actions are cut where *)
(* the code gives up the mutex of the queue or waits for a task.           *)
(*                                                                         *)
(* The database has no log: with the journal mode WAL, the default, a      *)
(* backup lacks what is in the log, dirty or not (see DatabaseSetup).      *)
(***************************************************************************)
EXTENDS Integers, SequencesExt

CONSTANTS
    Callers,                \* threads that use the database
    Modes,                  \* the values of use-transactions, a set
    MaxOps,                 \* bound: operations of one caller
    MaxErrors,              \* bound: statements that fail
    shutdownAttempts

ASSUME ModeAssumption == Modes \subseteq BOOLEAN /\ Modes # {}
ASSUME BoundAssumption == {MaxOps, MaxErrors} \subseteq Nat
(* config_definition.cc:301 accepts no fewer than two attempts.            *)
ASSUME AttemptsAssumption == shutdownAttempts \in Nat /\ shutdownAttempts >= 2
ASSUME CallersAssumption == {"timer", "free", "none"} \cap Callers = {}

VARIABLES
    use_transaction,
    taskQueue,              \* sequence of tasks [who, stmt]
    taskQueueOpen,
    shutdownFlag,           \* counts the attempts to shut down
    inTransaction,
    sqlMutex,               \* who is in beginTransaction, or "free"
    dirty,
    tpc,                    \* the database thread
    tx,                     \* SQLite: a transaction is open
    txWrites,               \* writes in it
    durable,                \* writes in the database file
    backup,                 \* writes in the backup file
    pc, prog, reply,        \* of each caller: where, what is left, last answer
    ops,                    \* operations a caller has begun
    main,                   \* Database::shutdown as called by the server
    exited,                 \* std::exit(1)
    errors,                 \* failed statements so far
    broken,                 \* auxiliary: a wait in beginTransaction gave up
    told,                   \* auxiliary: writes of its operation a caller was told of
    acked                   \* auxiliary: those of operations that returned

driverVars == <<use_transaction, taskQueue, taskQueueOpen, shutdownFlag, dirty>>
connVars == <<tx, txWrites, durable, backup>>
callerVars == <<pc, prog, reply, ops, inTransaction, sqlMutex>>
vars == <<driverVars, connVars, callerVars, tpc, main, exited, errors, broken, told, acked>>

(* A write is known by its caller, the operation and the statement.        *)
Writes == Callers \X (1 .. MaxOps) \X {"write", "write1", "write2"}
Timer == "timer"                        \* its backups are not waited for
Kinds == {"single", "several", "thrown"}

Init ==
    /\ use_transaction \in Modes
    /\ taskQueue = <<>>
    /\ taskQueueOpen = TRUE
    /\ shutdownFlag = 0
    /\ inTransaction = FALSE
    /\ sqlMutex = "free"
    /\ dirty = FALSE
    /\ tpc = "loop"
    /\ tx = FALSE
    /\ txWrites = {}
    /\ durable = {}
    /\ backup = {}
    /\ pc = [c \in Callers |-> "idle"]
    /\ prog = [c \in Callers |-> <<>>]
    /\ reply = [c \in Callers |-> "none"]
    /\ ops = [c \in Callers |-> 0]
    /\ main = "running"
    /\ exited = FALSE
    /\ errors = 0
    /\ broken = FALSE
    /\ told = [c \in Callers |-> {}]
    /\ acked = {}

(* An operation is one statement, or several between beginTransaction and  *)
(* commit; or it loads an object and an exception, for the contents of its *)
(* row, skips the commit.                                                  *)
Program(kind) ==
    CASE kind = "single" -> <<"write">>
      [] kind = "several" /\ ~use_transaction -> <<"write1", "write2">>
      [] kind = "several" /\ use_transaction -> <<"begin", "write1", "write2", "commit">>
      [] kind = "thrown" /\ ~use_transaction -> <<"throw">>
      [] kind = "thrown" /\ use_transaction -> <<"begin", "throw">>

WriteStmts == {"write", "write1", "write2"}
Write(c, stmt) == <<c, ops[c], stmt>>

-----------------------------------------------------------------------------
(* The queue.                                                              *)

Woken(state) == IF state = "idle" THEN "woken" ELSE state

PushAlways == TRUE                                                  \* mutant
MayPush == taskQueueOpen

(* addTask, then waitForTask; a closed queue throws at once.               *)
addTask(c, stmt, state) ==
    IF MayPush
    THEN /\ taskQueue' = Append(taskQueue, [who |-> c, stmt |-> stmt])
         /\ tpc' = Woken(tpc)
         /\ pc' = [pc EXCEPT ![c] = state]
         /\ reply' = [reply EXCEPT ![c] = "none"]
    ELSE /\ pc' = [pc EXCEPT ![c] = state]
         /\ reply' = [reply EXCEPT ![c] = "closed"]
         /\ UNCHANGED <<taskQueue, tpc>>

(* timerNotify: a backup, if there is something to save.                   *)
timerNotify ==
    /\ taskQueueOpen
    /\ dirty
    /\ ~ \E i \in DOMAIN taskQueue : taskQueue[i].who = Timer   \* bound: one in the queue
    /\ taskQueue' = Append(taskQueue, [who |-> Timer, stmt |-> "backup"])
    /\ tpc' = Woken(tpc)
    /\ UNCHANGED <<use_transaction, taskQueueOpen, shutdownFlag, dirty, connVars,
                   callerVars, main, exited, errors, broken, told, acked>>

-----------------------------------------------------------------------------
(* Callers.                                                                *)

callerFrame == UNCHANGED <<use_transaction, taskQueueOpen, dirty, connVars, main>>

operation(c, kind) ==
    /\ pc[c] = "idle"
    /\ ops[c] < MaxOps
    /\ ops' = [ops EXCEPT ![c] = @ + 1]
    /\ prog' = [prog EXCEPT ![c] = Program(kind)]
    /\ pc' = [pc EXCEPT ![c] = "next"]
    /\ UNCHANGED <<taskQueue, shutdownFlag, inTransaction, sqlMutex, reply, tpc,
                   exited, errors, broken, told, acked>>
    /\ callerFrame

NextIs(c, stmt) == pc[c] = "next" /\ prog[c] # <<>> /\ Head(prog[c]) = stmt

(* beginTransaction waits for the end of the running one, but not for ever,*)
(* and holds sqlMutex until BEGIN is answered.                             *)
lockBegin(c) ==
    /\ NextIs(c, "begin")
    /\ sqlMutex = "free"
    /\ sqlMutex' = c
    /\ pc' = [pc EXCEPT ![c] = "poll"]
    /\ UNCHANGED <<taskQueue, shutdownFlag, inTransaction, prog, reply, ops, tpc,
                   exited, errors, broken, told, acked>>
    /\ callerFrame

BeginsAtOnce == TRUE                                                \* mutant
MayBegin == ~inTransaction

beginTransaction(c) ==
    /\ pc[c] = "poll"
    /\ \/ MayBegin /\ UNCHANGED broken
       \/ ~MayBegin /\ broken' = TRUE
    /\ inTransaction' = TRUE
    /\ addTask(c, "begin", "wait")
    /\ UNCHANGED <<shutdownFlag, sqlMutex, prog, ops, exited, errors, told, acked>>
    /\ callerFrame

write(c) ==
    /\ \E stmt \in WriteStmts : NextIs(c, stmt)
    /\ addTask(c, Head(prog[c]), "wait")
    /\ UNCHANGED <<shutdownFlag, inTransaction, sqlMutex, prog, ops, exited, errors,
                   broken, told, acked>>
    /\ callerFrame

(* commit does nothing when somebody else has ended the transaction.       *)
commit(c) ==
    /\ NextIs(c, "commit")
    /\ IF inTransaction
       THEN addTask(c, "commit", "wait") /\ UNCHANGED prog
       ELSE /\ prog' = [prog EXCEPT ![c] = Tail(@)]
            /\ UNCHANGED <<taskQueue, tpc, pc, reply>>
    /\ UNCHANGED <<shutdownFlag, inTransaction, sqlMutex, ops, exited, errors,
                   broken, told, acked>>
    /\ callerFrame

return(c) ==
    /\ pc[c] = "next"
    /\ prog[c] = <<>>
    /\ pc' = [pc EXCEPT ![c] = "idle"]
    /\ acked' = acked \cup told[c]
    /\ told' = [told EXCEPT ![c] = {}]
    /\ UNCHANGED <<taskQueue, shutdownFlag, inTransaction, sqlMutex, prog, reply,
                   ops, tpc, exited, errors, broken>>
    /\ callerFrame

(* What handleException, or an answer, makes of the caller.                *)
next(c) ==
    /\ pc' = [pc EXCEPT ![c] = "next"]
    /\ prog' = [prog EXCEPT ![c] = Tail(@)]
goesOn(c) == next(c) /\ UNCHANGED told
throws(c) ==
    /\ pc' = [pc EXCEPT ![c] = "idle"]
    /\ prog' = [prog EXCEPT ![c] = <<>>]
    /\ told' = [told EXCEPT ![c] = {}]

exception(c) ==
    /\ NextIs(c, "throw")
    /\ throws(c)
    /\ UNCHANGED <<taskQueue, shutdownFlag, inTransaction, sqlMutex, reply, ops, tpc,
                   exited, errors, broken, acked>>
    /\ callerFrame

Answered(c, state) == pc[c] = state /\ reply[c] # "none"

(* BEGIN and COMMIT go through execOnly, which only logs an error.         *)
answered(c) ==
    /\ Answered(c, "wait")
    /\ LET stmt == Head(prog[c])
       IN  /\ stmt \in {"begin", "commit"} \/ reply[c] = "ok"
           /\ inTransaction' = (inTransaction /\ stmt # "commit")
           /\ sqlMutex' = IF stmt = "begin" THEN "free" ELSE sqlMutex
           /\ told' = IF stmt \in WriteStmts THEN [told EXCEPT ![c] = @ \cup {Write(c, stmt)}]
                                             ELSE told
    /\ next(c)
    /\ UNCHANGED <<taskQueue, shutdownFlag, reply, ops, tpc, exited, errors, broken, acked>>
    /\ callerFrame

Failed(c) == Answered(c, "wait") /\ Head(prog[c]) \in WriteStmts /\ reply[c] # "ok"

(* ++shutdownFlag, and an exit when there were too many attempts.          *)
TooMany(n) == n >= shutdownAttempts
Attempt == shutdownFlag' = shutdownFlag + 1 /\ exited' = TooMany(shutdownFlag')

(* handleException, up to the ROLLBACK it may wait for.  It rolls back     *)
(* whatever transaction there is, for a foreign key without and for any    *)
(* other error with the shutdown of the database, whose shutdown() then    *)
(* finds shutdownFlag set and does nothing.                                *)
handleException(c) ==
    /\ Failed(c)
    /\ \/ /\ reply[c] = "foreignkey" /\ shutdownFlag = 0
          /\ IF inTransaction
             THEN addTask(c, "rollback", "undoKey") /\ UNCHANGED <<prog, told>>
             ELSE throws(c) /\ UNCHANGED <<taskQueue, reply, tpc>>
          /\ UNCHANGED <<shutdownFlag, exited>>
       \/ /\ reply[c] # "foreignkey" \/ shutdownFlag > 0
          /\ Attempt
          /\ IF shutdownFlag = 0 /\ inTransaction
             THEN addTask(c, "rollback", "undoAll") /\ UNCHANGED <<prog, told>>
             ELSE goesOn(c) /\ UNCHANGED <<taskQueue, reply, tpc>>
    /\ UNCHANGED <<inTransaction, sqlMutex, ops, errors, broken, acked>>
    /\ callerFrame

(* The rest of handleException, when the ROLLBACK is answered.  A ROLLBACK *)
(* that failed leaves inTransaction set.                                   *)
rolledBack(c) ==
    /\ \/ /\ Answered(c, "undoKey")
          /\ throws(c)
          /\ IF reply[c] = "ok" THEN UNCHANGED <<shutdownFlag, exited>> ELSE Attempt
       \/ /\ Answered(c, "undoAll")
          /\ IF reply[c] = "ok" THEN goesOn(c) ELSE throws(c)
          /\ UNCHANGED <<shutdownFlag, exited>>
    /\ inTransaction' = (inTransaction /\ reply[c] # "ok")
    /\ UNCHANGED <<taskQueue, sqlMutex, reply, ops, tpc, errors, broken, acked>>
    /\ callerFrame

caller(c) ==
    \/ lockBegin(c) \/ beginTransaction(c) \/ write(c) \/ commit(c) \/ return(c)
    \/ exception(c)
    \/ answered(c) \/ handleException(c) \/ rolledBack(c)

-----------------------------------------------------------------------------
(* The database thread.                                                    *)

(* What SQLite does with a statement: BEGIN in a transaction, COMMIT and   *)
(* ROLLBACK without one are errors.                                        *)
Possible(stmt) ==
    CASE stmt = "begin" -> ~tx
      [] stmt \in {"commit", "rollback"} -> tx
      [] OTHER -> TRUE

Execute(task) ==
    CASE task.stmt = "begin" ->
            tx' = TRUE /\ UNCHANGED <<txWrites, durable, backup>>
      [] task.stmt = "commit" ->
            /\ tx' = FALSE /\ txWrites' = {}
            /\ durable' = durable \cup txWrites
            /\ UNCHANGED backup
      [] task.stmt = "rollback" ->
            tx' = FALSE /\ txWrites' = {} /\ UNCHANGED <<durable, backup>>
      [] task.stmt = "backup" ->
            backup' = durable /\ UNCHANGED <<tx, txWrites, durable>>
      [] OTHER ->
            LET w == Write(task.who, task.stmt)
            IN  IF tx THEN txWrites' = txWrites \cup {w} /\ UNCHANGED <<tx, durable, backup>>
                      ELSE durable' = durable \cup {w} /\ UNCHANGED <<tx, txWrites, backup>>

Answer(task, value) == IF task.who = Timer THEN reply
                       ELSE [reply EXCEPT ![task.who] = value]

(* didContamination: any statement but a backup.                           *)
WritesOnly(task) == task.stmt \in WriteStmts \/ (dirty /\ task.stmt # "backup")  \* mutant
DirtyAfter(task) == task.stmt # "backup"

(* The task that run() has is the head of the queue until it is answered.  *)
(* A failing write may be a foreign key, which is an error of the data, or *)
(* another error; a failing backup is logged.                              *)
runTask ==
    /\ tpc = "run"
    /\ tpc' = "inner"
    /\ taskQueue' = Tail(taskQueue)
    /\ LET task == Head(taskQueue)
       IN  \/ /\ Possible(task.stmt)
              /\ Execute(task)
              /\ reply' = Answer(task, "ok")
              /\ dirty' = DirtyAfter(task)
              /\ UNCHANGED errors
           \/ /\ ~Possible(task.stmt)
              /\ reply' = Answer(task, "error")
              /\ UNCHANGED <<connVars, dirty, errors>>
           \/ /\ task.stmt \in WriteStmts \cup {"backup"}
              /\ errors < MaxErrors
              /\ errors' = errors + 1
              /\ \E value \in {"foreignkey", "error"} : reply' = Answer(task, value)
              /\ UNCHANGED <<connVars, dirty>>
    /\ UNCHANGED <<use_transaction, taskQueueOpen, shutdownFlag, pc, prog, ops,
                   inTransaction, sqlMutex, main, exited, broken, told, acked>>

goto(state) ==
    /\ tpc' = state
    /\ UNCHANGED <<driverVars, connVars, callerVars, main, exited, errors, broken, told, acked>>

DrainedAsDone ==                                                    \* mutant
    [c \in Callers |-> IF \E i \in DOMAIN taskQueue : taskQueue[i].who = c
                       THEN "ok" ELSE reply[c]]
Drained ==
    [c \in Callers |-> IF \E i \in DOMAIN taskQueue : taskQueue[i].who = c
                       THEN "closed" ELSE reply[c]]

(* The inner while serves what is in the queue whatever shutdownFlag says; *)
(* the wait looks at both.                                                 *)
threadProc ==
    \/ tpc = "loop" /\ shutdownFlag = 0 /\ goto("inner")
    \/ tpc = "inner" /\ taskQueue # <<>> /\ goto("run")
    \/ tpc = "inner" /\ taskQueue = <<>> /\ goto(IF shutdownFlag > 0 THEN "loop" ELSE "idle")
    \/ tpc = "woken" /\ goto(IF shutdownFlag > 0 \/ taskQueue # <<>> THEN "loop" ELSE "idle")
    \/ runTask
    \/ /\ tpc = "loop" /\ shutdownFlag > 0          \* close the queue and the database
       /\ tpc' = "done"
       /\ taskQueueOpen' = FALSE
       /\ reply' = Drained
       /\ taskQueue' = <<>>
       /\ tx' = FALSE
       /\ txWrites' = {}
       /\ UNCHANGED <<use_transaction, shutdownFlag, dirty, durable, backup, pc, prog,
                      ops, inTransaction, sqlMutex, main, exited, errors, broken, told, acked>>

(* shutdownDriver, called by the server.                                   *)
Joined == tpc = "done"

shutdownDriver ==
    /\ \/ /\ main = "running"
          /\ IF shutdownFlag = 0
             THEN shutdownFlag' = 1 /\ tpc' = Woken(tpc) /\ main' = "join"
             ELSE main' = "returned" /\ UNCHANGED <<shutdownFlag, tpc>>
       \/ /\ main = "join"
          /\ Joined
          /\ main' = "returned"
          /\ UNCHANGED <<shutdownFlag, tpc>>
    /\ UNCHANGED <<use_transaction, taskQueue, taskQueueOpen, dirty, connVars,
                   callerVars, exited, errors, broken, told, acked>>

Next ==
    /\ ~exited
    /\ \/ \E c \in Callers : (\E kind \in Kinds : operation(c, kind)) \/ caller(c)
       \/ threadProc
       \/ timerNotify
       \/ shutdownDriver

(* Threads are scheduled.  The wait in beginTransaction gives up, so that  *)
(* it counts as a step that is taken.                                      *)
Fairness ==
    /\ WF_vars(~exited /\ threadProc)
    /\ WF_vars(~exited /\ main = "join" /\ shutdownDriver)
    /\ \A c \in Callers : /\ WF_vars(~exited /\ caller(c))
                          /\ SF_vars(~exited /\ lockBegin(c))

Spec == Init /\ [][Next]_vars /\ Fairness

-----------------------------------------------------------------------------
(* Properties *)

(* Every variable has its type.                                            *)
TypeOK ==
    /\ use_transaction \in BOOLEAN
    /\ \A i \in DOMAIN taskQueue : taskQueue[i].who \in Callers \cup {Timer}
    /\ taskQueueOpen \in BOOLEAN
    /\ shutdownFlag \in 0 .. shutdownAttempts
    /\ inTransaction \in BOOLEAN
    /\ sqlMutex \in Callers \cup {"free"}
    /\ dirty \in BOOLEAN
    /\ tpc \in {"loop", "inner", "run", "idle", "woken", "done"}
    /\ tx \in BOOLEAN
    /\ {txWrites, durable, backup, acked} \subseteq SUBSET Writes
    /\ pc \in [Callers -> {"idle", "next", "poll", "wait", "undoKey", "undoAll"}]
    /\ reply \in [Callers -> {"none", "ok", "foreignkey", "error", "closed"}]
    /\ main \in {"running", "join", "returned"}

Undisturbed == errors = 0 /\ ~broken

(* What an operation with several statements writes becomes durable as a   *)
(* whole, at every moment at which the server could stop or die, as long as*)
(* no wait for a transaction gave up and no statement failed.              *)
AllOrNothing ==
    use_transaction /\ Undisturbed =>
        \A c \in Callers, n \in 1 .. MaxOps :
            <<c, n, "write1">> \in durable <=> <<c, n, "write2">> \in durable

(* config-server.rst:903 promises of transactions that they "avoid race-   *)
(* conditions on import": what an operation was told to be written, and    *)
(* returned from, is not taken back while the server runs.                 *)
AckedKept == acked \subseteq durable \cup txWrites \/ ~taskQueueOpen

(* Without transactions that is so even when statements fail, and stays so *)
(* when the database closes; with them, as long as nothing fails.          *)
AckedKeptIfPlain ==
    /\ ~use_transaction => acked \subseteq durable
    /\ Undisturbed => AckedKept

(* While the database is not dirty, the backup holds all that is durable:  *)
(* a backup between the writes and the COMMIT of a transaction does not    *)
(* clear the flag for good; and the state is well typed.                   *)
BackupCurrent == TypeOK /\ (~dirty => backup = durable)

(* Every operation returns or throws, whatever fails, and also while the   *)
(* database shuts down with tasks in its queue; the shutdown by the server *)
(* comes back from join.                                                   *)
EveryOperationEnds ==
    /\ \A c \in Callers : pc[c] # "idle" ~> pc[c] = "idle" \/ exited
    /\ main = "join" ~> main = "returned" \/ exited
=============================================================================
