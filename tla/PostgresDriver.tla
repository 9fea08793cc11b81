---------------------------- MODULE PostgresDriver -----------------------------
(***************************************************************************)
(* database/postgres/postgres_database.cc and pg_task.cc: as with SQLite   *)
(* one thread owns the connection and serves a queue, but each task is a   *)
(* transaction of its own (pqxx::work).  A BEGIN or a ROLLBACK is run and  *)
(* committed like any statement and changes nothing: of a transaction only *)
(* the turns are left that operations take by the flag inTransaction.      *)
(* There is no way back to a connection that is lost.                      *)
(***************************************************************************)
EXTENDS Integers, SequencesExt

CONSTANTS
    Callers,                \* threads that use the database
    Modes,                  \* the values of use-transactions, a set
    MaxOps,                 \* bound: operations of one caller
    MaxErrors,              \* bound: statements that fail
    shutdownAttempts

VARIABLES
    use_transaction,
    taskQueue,              \* sequence of tasks [who, stmt]
    taskQueueOpen,
    shutdownFlag,
    inTransaction,
    sqlMutex,               \* who is in beginTransaction, or "free"
    conn,                   \* the connection is open
    tpc,                    \* the database thread
    durable,                \* writes in the database
    pc, prog, reply,        \* of each caller: where, what is left, last answer
    ops,                    \* operations a caller has begun
    exited,                 \* std::exit(1)
    errors,                 \* failed statements so far
    broken,                 \* auxiliary: a wait in beginTransaction gave up
    told, acked             \* auxiliary: writes a caller was told of, and returned from

queueVars == <<taskQueue, taskQueueOpen, tpc>>
vars == <<use_transaction, queueVars, shutdownFlag, inTransaction, sqlMutex, conn,
          durable, pc, prog, reply, ops, exited, errors, broken, told, acked>>

Writes == Callers \X (1 .. MaxOps) \X {"write", "write1", "write2"}
WriteStmts == {"write", "write1", "write2"}
Write(c, stmt) == <<c, ops[c], stmt>>
Kinds == {"single", "several", "thrown"}

Init ==
    /\ use_transaction \in Modes
    /\ taskQueue = <<>> /\ taskQueueOpen = TRUE
    /\ shutdownFlag = 0
    /\ inTransaction = FALSE /\ sqlMutex = "free"
    /\ conn = TRUE
    /\ tpc = "loop"
    /\ durable = {}
    /\ pc = [c \in Callers |-> "idle"]
    /\ prog = [c \in Callers |-> <<>>]
    /\ reply = [c \in Callers |-> "none"]
    /\ ops = [c \in Callers |-> 0]
    /\ exited = FALSE /\ errors = 0 /\ broken = FALSE
    /\ told = [c \in Callers |-> {}] /\ acked = {}

Program(kind) ==
    CASE kind = "single" -> <<"write">>
      [] kind = "several" /\ ~use_transaction -> <<"write1", "write2">>
      [] kind = "several" /\ use_transaction -> <<"begin", "write1", "write2", "commit">>
      [] kind = "thrown" /\ ~use_transaction -> <<"throw">>
      [] kind = "thrown" /\ use_transaction -> <<"begin", "throw">>

-----------------------------------------------------------------------------
(* Callers.                                                                *)

addTask(c, stmt, state) ==
    /\ pc' = [pc EXCEPT ![c] = state]
    /\ IF taskQueueOpen
       THEN /\ taskQueue' = Append(taskQueue, [who |-> c, stmt |-> stmt])
            /\ tpc' = IF tpc = "idle" THEN "loop" ELSE tpc
            /\ reply' = [reply EXCEPT ![c] = "none"]
       ELSE /\ reply' = [reply EXCEPT ![c] = "closed"]
            /\ UNCHANGED <<taskQueue, tpc>>
    /\ UNCHANGED taskQueueOpen

NextIs(c, stmt) == pc[c] = "next" /\ prog[c] # <<>> /\ Head(prog[c]) = stmt

operation(c, kind) ==
    /\ pc[c] = "idle"
    /\ ops[c] < MaxOps
    /\ ops' = [ops EXCEPT ![c] = @ + 1]
    /\ prog' = [prog EXCEPT ![c] = Program(kind)]
    /\ pc' = [pc EXCEPT ![c] = "next"]
    /\ UNCHANGED <<use_transaction, queueVars, shutdownFlag, inTransaction, sqlMutex, conn,
                   durable, reply, exited, errors, broken, told, acked>>

(* beginTransaction: the mutex is held while it polls and until BEGIN is   *)
(* answered.                                                               *)
lockBegin(c) ==
    /\ NextIs(c, "begin")
    /\ sqlMutex = "free"
    /\ sqlMutex' = c
    /\ pc' = [pc EXCEPT ![c] = "poll"]
    /\ UNCHANGED <<use_transaction, queueVars, shutdownFlag, inTransaction, conn, durable,
                   prog, reply, ops, exited, errors, broken, told, acked>>

BeginsAtOnce == TRUE                                                \* mutant
MayBegin == ~inTransaction

beginTransaction(c) ==
    /\ pc[c] = "poll"
    /\ \/ MayBegin /\ UNCHANGED broken
       \/ ~MayBegin /\ broken' = TRUE
    /\ inTransaction' = TRUE
    /\ addTask(c, "begin", "wait")
    /\ UNCHANGED <<use_transaction, shutdownFlag, sqlMutex, conn, durable, prog, ops,
                   exited, errors, told, acked>>

write(c) ==
    /\ \E stmt \in WriteStmts : NextIs(c, stmt)
    /\ addTask(c, Head(prog[c]), "wait")
    /\ UNCHANGED <<use_transaction, shutdownFlag, inTransaction, sqlMutex, conn, durable,
                   prog, ops, exited, errors, broken, told, acked>>

commit(c) ==
    /\ NextIs(c, "commit")
    /\ IF inTransaction
       THEN addTask(c, "commit", "wait") /\ UNCHANGED prog
       ELSE prog' = [prog EXCEPT ![c] = Tail(@)] /\ UNCHANGED <<queueVars, pc, reply>>
    /\ UNCHANGED <<use_transaction, shutdownFlag, inTransaction, sqlMutex, conn, durable,
                   ops, exited, errors, broken, told, acked>>

return(c) ==
    /\ pc[c] = "next" /\ prog[c] = <<>>
    /\ pc' = [pc EXCEPT ![c] = "idle"]
    /\ acked' = acked \cup told[c]
    /\ told' = [told EXCEPT ![c] = {}]
    /\ UNCHANGED <<use_transaction, queueVars, shutdownFlag, inTransaction, sqlMutex, conn,
                   durable, prog, reply, ops, exited, errors, broken>>

next(c) ==
    /\ pc' = [pc EXCEPT ![c] = "next"]
    /\ prog' = [prog EXCEPT ![c] = Tail(@)]
goesOn(c) == next(c) /\ UNCHANGED told
throws(c) ==
    /\ pc' = [pc EXCEPT ![c] = "idle"]
    /\ prog' = [prog EXCEPT ![c] = <<>>]
    /\ told' = [told EXCEPT ![c] = {}]

exception(c) ==
    /\ NextIs(c, "throw")
    /\ throws(c)
    /\ UNCHANGED <<use_transaction, queueVars, shutdownFlag, inTransaction, sqlMutex, conn,
                   durable, reply, ops, exited, errors, broken, acked>>

Answered(c, state) == pc[c] = state /\ reply[c] # "none"

(* BEGIN and COMMIT go through execOnly, which only logs an error.         *)
answered(c) ==
    /\ Answered(c, "wait")
    /\ LET stmt == Head(prog[c])
       IN  /\ stmt \in {"begin", "commit"} \/ reply[c] = "ok"
           /\ inTransaction' = (inTransaction /\ stmt # "commit")
           /\ sqlMutex' = IF stmt = "begin" THEN "free" ELSE sqlMutex
           /\ told' = IF stmt \in WriteStmts THEN [told EXCEPT ![c] = @ \cup {Write(c, stmt)}]
                                             ELSE told
    /\ next(c)
    /\ UNCHANGED <<use_transaction, queueVars, shutdownFlag, conn, durable, reply, ops,
                   exited, errors, broken, acked>>

TooMany(n) == n >= shutdownAttempts
Attempt == shutdownFlag' = shutdownFlag + 1 /\ exited' = TooMany(shutdownFlag')

(* handleException, up to the ROLLBACK it may wait for.                    *)
handleException(c) ==
    /\ Answered(c, "wait") /\ Head(prog[c]) \in WriteStmts /\ reply[c] # "ok"
    /\ \/ /\ reply[c] = "foreignkey" /\ shutdownFlag = 0
          /\ IF inTransaction
             THEN addTask(c, "rollback", "undoKey") /\ UNCHANGED <<prog, told>>
             ELSE throws(c) /\ UNCHANGED <<queueVars, reply>>
          /\ UNCHANGED <<shutdownFlag, exited, conn>>
       \/ /\ reply[c] # "foreignkey" \/ shutdownFlag > 0
          /\ Attempt
          /\ IF shutdownFlag = 0 /\ inTransaction
             THEN addTask(c, "rollback", "undoAll") /\ UNCHANGED <<prog, told, conn>>
             ELSE goesOn(c) /\ conn' = (conn /\ shutdownFlag > 0) /\ UNCHANGED <<queueVars, reply>>
    /\ UNCHANGED <<use_transaction, inTransaction, sqlMutex, durable, ops, errors, broken, acked>>

(* The rest of handleException: shutdown() closes the connection under the *)
(* thread that uses it, and does not end that thread.                      *)
rolledBack(c) ==
    /\ LET ok == reply[c] = "ok"
       IN  \/ /\ Answered(c, "undoKey")
              /\ throws(c)
              /\ IF ok THEN UNCHANGED <<shutdownFlag, exited, conn>>
                       ELSE Attempt /\ conn' = (conn /\ shutdownFlag > 0)
           \/ /\ Answered(c, "undoAll")
              /\ IF ok THEN goesOn(c) ELSE throws(c)
              /\ conn' = FALSE
              /\ UNCHANGED <<shutdownFlag, exited>>
    /\ inTransaction' = (inTransaction /\ reply[c] # "ok")
    /\ UNCHANGED <<use_transaction, queueVars, sqlMutex, durable, reply, ops, errors,
                   broken, acked>>

caller(c) ==
    \/ lockBegin(c) \/ beginTransaction(c) \/ write(c) \/ commit(c) \/ return(c)
    \/ exception(c)
    \/ answered(c) \/ handleException(c) \/ rolledBack(c)

-----------------------------------------------------------------------------
(* The database thread.                                                    *)

(* What a task leaves in the database when it succeeds: pqxx::work commits *)
(* each statement.                                                         *)
InOneTransaction(task) == durable                                   \* mutant
AfterTask(task) ==
    IF task.stmt \in WriteStmts THEN durable \cup {Write(task.who, task.stmt)} ELSE durable

runTask ==
    /\ tpc = "inner" /\ taskQueue # <<>>
    /\ taskQueue' = Tail(taskQueue)
    /\ LET task == Head(taskQueue)
       IN  \/ /\ conn
              /\ durable' = AfterTask(task)
              /\ reply' = [reply EXCEPT ![task.who] = "ok"]
              /\ UNCHANGED errors
           \/ /\ ~conn
              /\ reply' = [reply EXCEPT ![task.who] = "error"]
              /\ UNCHANGED <<durable, errors>>
           \/ /\ conn /\ errors < MaxErrors
              /\ errors' = errors + 1
              /\ \E value \in {"foreignkey", "error"} :
                    /\ value = "foreignkey" => task.stmt \in WriteStmts
                    /\ reply' = [reply EXCEPT ![task.who] = value]
              /\ UNCHANGED durable
    /\ UNCHANGED <<use_transaction, taskQueueOpen, tpc, shutdownFlag, inTransaction, sqlMutex,
                   conn, pc, prog, ops, exited, broken, told, acked>>

(* It waits when the queue is empty, whatever shutdownFlag is by then.     *)
sleep ==
    /\ tpc = "inner" /\ taskQueue = <<>>
    /\ tpc' = "idle"
    /\ UNCHANGED <<use_transaction, taskQueue, taskQueueOpen, shutdownFlag, inTransaction,
                   sqlMutex, conn, durable, pc, prog, reply, ops, exited, errors, broken,
                   told, acked>>

DropsNothing == reply                                               \* mutant
Drained ==
    [c \in Callers |-> IF \E i \in DOMAIN taskQueue : taskQueue[i].who = c
                       THEN "closed" ELSE reply[c]]

EndsThread == shutdownFlag > 0

loop ==
    /\ tpc = "loop"
    /\ IF EndsThread
       THEN /\ tpc' = "done"
            /\ taskQueueOpen' = FALSE
            /\ reply' = Drained
            /\ taskQueue' = <<>>
            /\ conn' = FALSE
       ELSE tpc' = "inner" /\ UNCHANGED <<taskQueueOpen, reply, taskQueue, conn>>
    /\ UNCHANGED <<use_transaction, shutdownFlag, inTransaction, sqlMutex, durable, pc, prog,
                   ops, exited, errors, broken, told, acked>>

threadProc == runTask \/ sleep \/ loop

(* The connection is lost, or the server closes it (shutdownDriver).       *)
loseConnection ==
    /\ conn
    /\ conn' = FALSE
    /\ UNCHANGED <<use_transaction, queueVars, shutdownFlag, inTransaction, sqlMutex, durable,
                   pc, prog, reply, ops, exited, errors, broken, told, acked>>

Next ==
    /\ ~exited
    /\ \/ \E c \in Callers : (\E kind \in Kinds : operation(c, kind)) \/ caller(c)
       \/ threadProc
       \/ loseConnection

-----------------------------------------------------------------------------
(* Properties *)

TypeOK ==
    /\ {use_transaction, taskQueueOpen, inTransaction, conn, exited, broken} \subseteq BOOLEAN
    /\ shutdownFlag \in 0 .. shutdownAttempts
    /\ sqlMutex \in Callers \cup {"free"}
    /\ tpc \in {"loop", "inner", "idle", "done"}
    /\ durable \subseteq Writes /\ acked \subseteq Writes
    /\ pc \in [Callers -> {"idle", "next", "poll", "wait", "undoKey", "undoAll"}]
    /\ reply \in [Callers -> {"none", "ok", "foreignkey", "error", "closed"}]

(* Operations take turns: as long as no wait gave up and no statement      *)
(* failed, no operation writes between the statements of another one that  *)
(* has begun a transaction.                                                *)
Inside(c) == \E stmt \in {"write2", "commit"} :
                 pc[c] \in {"next", "wait"} /\ prog[c] # <<>> /\ Head(prog[c]) = stmt
TakeTurns ==
    use_transaction /\ ~broken /\ errors = 0 /\ conn =>
        \A c, d \in Callers : Inside(c) /\ Inside(d) => c = d

(* A caller that waits has its task in the queue and a thread that is on   *)
(* its way to it, also while the database shuts down: no wait is for ever. *)
NobodyForgotten ==
    \A c \in Callers :
        pc[c] \in {"wait", "undoKey", "undoAll"} /\ reply[c] = "none" =>
            /\ \E i \in DOMAIN taskQueue : taskQueue[i].who = c
            /\ tpc \in {"loop", "inner"}

(* What an operation was told to be written is durable at once, and stays, *)
(* whatever fails or is rolled back.                                       *)
AckedKept == TypeOK /\ acked \cup UNION {told[c] : c \in Callers} \subseteq durable
=============================================================================
