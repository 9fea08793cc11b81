----------------------------- MODULE MysqlDriver -------------------------------
(***************************************************************************)
(* database/mysql/mysql_database.cc: all threads run their statements on   *)
(* one connection, one after the other by the mutex sqlMutex.  With        *)
(* use-transactions operations take turns by the flag inTransaction, which *)
(* beginTransaction tests and sets without the mutex and which a select    *)
(* outside of a transaction sets for its own time.                         *)
(*                                                                         *)
(* Of the MySQL server: START TRANSACTION commits the transaction that is  *)
(* open; outside of one each statement commits itself; a transaction is    *)
(* gone with its connection, and the first statement after that fails, the *)
(* next one connects again (MYSQL_OPT_RECONNECT).                          *)
(***************************************************************************)
EXTENDS Integers, SequencesExt

CONSTANTS
    Callers,                \* threads that use the database
    Modes,                  \* the values of use-transactions, a set
    MaxOps,                 \* bound: operations of one caller
    MaxErrors,              \* bound: statements that fail
    MaxLosses               \* bound: connections lost

VARIABLES
    use_transaction,
    inTransaction,
    sqlMutex,               \* who is in a select, or "free"
    tx, txWrites, durable,  \* MySQL: a transaction is open, writes in it, writes on disk
    gone,                   \* its connection was lost with an open transaction
    pc, prog, ops,          \* of each caller: where, what is left, operations begun
    errors, losses,
    owner,                  \* auxiliary: who set inTransaction last
    harmed,                 \* auxiliary: the flag did not keep two operations apart
    told,                   \* auxiliary: writes of its operation a caller was told of
    acked                   \* auxiliary: those of operations that returned

serverVars == <<tx, txWrites, durable, gone>>
boundVars == <<errors, losses>>
vars == <<use_transaction, inTransaction, sqlMutex, serverVars, pc, prog, ops,
          boundVars, owner, harmed, told, acked>>

Writes == Callers \X (1 .. MaxOps) \X {"write", "write1", "write2"}
WriteStmts == {"write", "write1", "write2"}
Write(c, stmt) == <<c, ops[c], stmt>>
Kinds == {"single", "several", "look", "thrown"}

Init ==
    /\ use_transaction \in Modes
    /\ inTransaction = FALSE
    /\ sqlMutex = "free"
    /\ tx = FALSE /\ txWrites = {} /\ durable = {} /\ gone = FALSE
    /\ pc = [c \in Callers |-> "idle"]
    /\ prog = [c \in Callers |-> <<>>]
    /\ ops = [c \in Callers |-> 0]
    /\ errors = 0 /\ losses = 0
    /\ owner = "none"
    /\ harmed = FALSE
    /\ told = [c \in Callers |-> {}]
    /\ acked = {}

(* An operation is one statement, or several between beginTransaction and  *)
(* commit, or a query outside of both (the autoscan list); or an exception *)
(* for the contents of a row skips its commit.                             *)
Program(kind) ==
    CASE kind = "single" -> <<"write">>
      [] kind = "look" -> <<"select">>
      [] kind = "several" /\ ~use_transaction -> <<"write1", "write2">>
      [] kind = "several" /\ use_transaction -> <<"begin", "write1", "write2", "commit">>
      [] kind = "thrown" /\ ~use_transaction -> <<"throw">>
      [] kind = "thrown" /\ use_transaction -> <<"begin", "throw">>

-----------------------------------------------------------------------------
NextIs(c, stmt) == pc[c] = "next" /\ prog[c] # <<>> /\ Head(prog[c]) = stmt

goesOn(c) ==
    /\ pc' = [pc EXCEPT ![c] = "next"]
    /\ prog' = [prog EXCEPT ![c] = Tail(@)]
throws(c) ==
    /\ pc' = [pc EXCEPT ![c] = "idle"]
    /\ prog' = [prog EXCEPT ![c] = <<>>]
    /\ told' = [told EXCEPT ![c] = {}]

operation(c, kind) ==
    /\ pc[c] = "idle"
    /\ ops[c] < MaxOps
    /\ ops' = [ops EXCEPT ![c] = @ + 1]
    /\ prog' = [prog EXCEPT ![c] = Program(kind)]
    /\ pc' = [pc EXCEPT ![c] = "next"]
    /\ UNCHANGED <<use_transaction, inTransaction, sqlMutex, serverVars, boundVars,
                   owner, harmed, told, acked>>

return(c) ==
    /\ pc[c] = "next" /\ prog[c] = <<>>
    /\ pc' = [pc EXCEPT ![c] = "idle"]
    /\ acked' = acked \cup told[c]
    /\ told' = [told EXCEPT ![c] = {}]
    /\ UNCHANGED <<use_transaction, inTransaction, sqlMutex, serverVars, prog, ops,
                   boundVars, owner, harmed>>

exception(c) ==
    /\ NextIs(c, "throw")
    /\ throws(c)
    /\ harmed' = (harmed \/ inTransaction)
    /\ UNCHANGED <<use_transaction, inTransaction, sqlMutex, serverVars, ops, boundVars,
                   owner, acked>>

(* beginTransaction looks at the flag without the mutex, and gives up after*)
(* a hundred looks.                                                        *)
MayBegin == ~inTransaction

poll(c) ==
    /\ NextIs(c, "begin")
    /\ harmed' = (harmed \/ ~MayBegin)
    /\ pc' = [pc EXCEPT ![c] = "set"]
    /\ UNCHANGED <<use_transaction, inTransaction, sqlMutex, serverVars, prog, ops,
                   boundVars, owner, told, acked>>

(* Somebody else may have set the flag since.                              *)
set(c) ==
    /\ pc[c] = "set"
    /\ harmed' = (harmed \/ inTransaction)
    /\ inTransaction' = TRUE
    /\ owner' = c
    /\ pc' = [pc EXCEPT ![c] = "start"]
    /\ UNCHANGED <<use_transaction, sqlMutex, serverVars, prog, ops, boundVars, told, acked>>

(* A statement fails after the loss of its transaction, or by itself.      *)
Fails ==
    /\ gone \/ errors < MaxErrors
    /\ gone' = FALSE
    /\ errors' = IF gone THEN errors ELSE errors + 1
    /\ UNCHANGED losses
Succeeds == ~gone /\ UNCHANGED <<gone, boundVars>>

(* _exec throws, and leaves the flag as it is.                             *)
start(c) ==
    /\ pc[c] = "start"
    /\ sqlMutex = "free"
    /\ \/ /\ Succeeds
          /\ tx' = TRUE
          /\ durable' = durable \cup txWrites
          /\ txWrites' = {}
          /\ goesOn(c)
          /\ UNCHANGED told
       \/ Fails /\ throws(c) /\ UNCHANGED <<tx, txWrites, durable>>
    /\ UNCHANGED <<use_transaction, inTransaction, sqlMutex, ops, owner, harmed, acked>>

(* rollback, as every failing statement calls it: it ends the transaction  *)
(* there is, of whoever it is.                                             *)
FlagOnly(c) ==                                                      \* mutant
    /\ inTransaction' = FALSE
    /\ harmed' = (harmed \/ (inTransaction /\ owner # c))
    /\ UNCHANGED <<tx, txWrites>>
rollback(c) ==
    IF use_transaction /\ inTransaction
    THEN /\ tx' = FALSE /\ txWrites' = {}
         /\ inTransaction' = FALSE
         /\ harmed' = (harmed \/ owner # c)
    ELSE UNCHANGED <<tx, txWrites, inTransaction, harmed>>

write(c) ==
    /\ \E stmt \in WriteStmts : NextIs(c, stmt)
    /\ sqlMutex = "free"
    /\ LET w == Write(c, Head(prog[c]))
       IN  \/ /\ Succeeds
              /\ txWrites' = IF tx THEN txWrites \cup {w} ELSE txWrites
              /\ durable' = IF tx THEN durable ELSE durable \cup {w}
              /\ told' = [told EXCEPT ![c] = @ \cup {w}]
              /\ goesOn(c)
              /\ UNCHANGED <<tx, inTransaction, harmed>>
           \/ Fails /\ rollback(c) /\ throws(c) /\ UNCHANGED durable
    /\ UNCHANGED <<use_transaction, sqlMutex, ops, owner, acked>>

(* commit does nothing when the flag is clear; when it fails the flag      *)
(* stays set.                                                              *)
Skipped == ~inTransaction

commit(c) ==
    /\ NextIs(c, "commit")
    /\ sqlMutex = "free"
    /\ \/ Skipped /\ goesOn(c) /\ UNCHANGED <<inTransaction, serverVars, boundVars, told>>
       \/ /\ ~Skipped
          /\ Succeeds
          /\ tx' = FALSE /\ txWrites' = {}
          /\ durable' = durable \cup txWrites
          /\ inTransaction' = FALSE
          /\ goesOn(c)
          /\ UNCHANGED told
       \/ /\ ~Skipped
          /\ Fails
          /\ tx' = FALSE /\ txWrites' = {}
          /\ throws(c)
          /\ UNCHANGED <<durable, inTransaction>>
    /\ UNCHANGED <<use_transaction, sqlMutex, ops, owner, harmed, acked>>

(* select sets the flag when it is clear (myTransaction), while it holds   *)
(* the mutex; the base class leaves the flag alone.                        *)
select(c) ==
    /\ NextIs(c, "select")
    /\ sqlMutex = "free"
    /\ sqlMutex' = c
    /\ IF use_transaction /\ ~inTransaction
       THEN /\ inTransaction' = TRUE /\ owner' = c
            /\ pc' = [pc EXCEPT ![c] = "myTransaction"]
       ELSE /\ pc' = [pc EXCEPT ![c] = "selecting"]
            /\ UNCHANGED <<inTransaction, owner>>
    /\ UNCHANGED <<use_transaction, serverVars, prog, ops, boundVars, harmed, told, acked>>

KeepsFlag(c) == pc[c] = "selecting"

selected(c) ==
    /\ pc[c] \in {"myTransaction", "selecting"}
    /\ sqlMutex' = "free"
    /\ \/ /\ Succeeds
          /\ inTransaction' = (inTransaction /\ KeepsFlag(c))
          /\ goesOn(c)
          /\ UNCHANGED <<tx, txWrites, harmed, told>>
       \/ Fails /\ rollback(c) /\ throws(c)
    /\ UNCHANGED <<use_transaction, durable, ops, owner, acked>>

(* The server closes the connection (a timeout, a restart).                *)
loseConnection ==
    /\ losses < MaxLosses
    /\ losses' = losses + 1
    /\ gone' = (gone \/ tx)
    /\ tx' = FALSE /\ txWrites' = {}
    /\ UNCHANGED <<use_transaction, inTransaction, sqlMutex, durable, pc, prog, ops,
                   errors, owner, harmed, told, acked>>

caller(c) ==
    \/ poll(c) \/ set(c) \/ start(c) \/ write(c) \/ commit(c)
    \/ select(c) \/ selected(c) \/ exception(c) \/ return(c)

Next ==
    \/ \E c \in Callers : (\E kind \in Kinds : operation(c, kind)) \/ caller(c)
    \/ loseConnection

-----------------------------------------------------------------------------
(* Properties *)

TypeOK ==
    /\ {use_transaction, inTransaction, tx, gone, harmed} \subseteq BOOLEAN
    /\ sqlMutex \in Callers \cup {"free"}
    /\ txWrites \subseteq Writes /\ durable \subseteq Writes /\ acked \subseteq Writes
    /\ pc \in [Callers -> {"idle", "next", "set", "start", "selecting", "myTransaction"}]
    /\ ~use_transaction => ~tx /\ ~inTransaction

(* What an operation with several statements writes becomes durable as a   *)
(* whole or not at all, with statements that fail and connections that are *)
(* lost, as long as the flag keeps the operations apart.                   *)
AllOrNothing ==
    use_transaction /\ ~harmed =>
        \A c \in Callers, n \in 1 .. MaxOps :
            <<c, n, "write1">> \in durable <=> <<c, n, "write2">> \in durable

(* What an operation was told to be written, and returned from, is kept:   *)
(* without transactions whatever happens, with them as long as nothing     *)
(* fails, and then it is durable as soon as no operation runs.             *)
Calm == ~harmed /\ errors = 0 /\ losses = 0
AckedKept ==
    /\ TypeOK
    /\ ~use_transaction => acked \subseteq durable
    /\ Calm => acked \subseteq durable \cup txWrites
    /\ Calm /\ (\A c \in Callers : pc[c] = "idle") => acked \subseteq durable
=============================================================================
