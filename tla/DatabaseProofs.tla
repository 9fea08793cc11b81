----------------------------- MODULE DatabaseProofs -----------------------------
(***************************************************************************)
(* What the drivers of SQLite, MySQL and PostgreSQL promise, proved for    *)
(* every set of callers and every bound, and what the start of the server  *)
(* promises of its SQLite database, for every sequence of upgrades.  Each  *)
(* has an inductive invariant: IInv, MyInv, PgInv, and SetupInv of the     *)
(* start.  The first three have in common:                                 *)
(*   - where each caller is in its program (CallerOK, MyCaller),           *)
(*   - whose the turn is: of operations that begin a transaction at most   *)
(*     one is between its begin and its commit, as long as no wait for the *)
(*     turn gave up (TurnInv, MyTurn, PgTurn),                             *)
(*   - where a write is that a caller was told of (ToldIn).                *)
(* With SQLite and PostgreSQL, which have a queue and a thread, also what  *)
(* is in the queue (QueueInv): exactly one task of each caller that waits. *)
(***************************************************************************)
EXTENDS MCSqliteDriver, TLAPS

(* What can be left of an operation's program.                             *)

Single == <<"write">>
Plain1 == <<"write1", "write2">>
Plain2 == <<"write2">>
Begin == <<"begin", "write1", "write2", "commit">>
Write1 == <<"write1", "write2", "commit">>
Write2 == <<"write2", "commit">>
Commit == <<"commit">>
BeginThrow == <<"begin", "throw">>
Throw == <<"throw">>

PlainProgs == {<<>>, Single, Plain1, Plain2, Throw}
TxProgs == {<<>>, Single, Begin, Write1, Write2, Commit, BeginThrow, Throw}

(* Callers that wait for an answer, and the statement they wait for.       *)
AtCaller == {"wait", "undoKey", "undoAll"}
Asked(c) == IF pc[c] = "wait" THEN Head(prog[c]) ELSE "rollback"
Waits(c) == pc[c] \in AtCaller /\ reply[c] = "none"
QueuedFor(c) == \E i \in DOMAIN taskQueue : taskQueue[i].who = c

StmtsToAsk == WriteStmts \cup {"begin", "commit"}
Stmts == StmtsToAsk \cup {"rollback", "backup"}
Tasks == [who : Callers \cup {Timer}, stmt : Stmts]

(* Each place in the code goes with certain rests of the program.          *)
CallerOK(c) ==
    /\ prog[c] \in (IF use_transaction THEN TxProgs ELSE PlainProgs)
    /\ prog[c] # <<>> => ops[c] >= 1
    /\ pc[c] = "idle" => prog[c] = <<>>
    /\ pc[c] = "poll" => prog[c] \in {Begin, BeginThrow}
    /\ pc[c] = "wait" => prog[c] # <<>> /\ prog[c] # Throw
    /\ pc[c] \in {"undoKey", "undoAll"} => prog[c] # <<>> /\ Head(prog[c]) \in WriteStmts
CallerInv == \A c \in Callers : CallerOK(c)

(* The queue holds the one task of each caller that waits, and at most one *)
(* backup of the timer.                                                    *)
TaskOK(task) ==
    \/ task = [who |-> Timer, stmt |-> "backup"]
    \/ \E c \in Callers : Waits(c) /\ task = [who |-> c, stmt |-> Asked(c)]
QueueInv ==
    /\ \A i \in DOMAIN taskQueue : TaskOK(taskQueue[i])
    /\ \A i, j \in DOMAIN taskQueue : taskQueue[i].who = taskQueue[j].who => i = j
    /\ \A c \in Callers : Waits(c) => QueuedFor(c)
    /\ tpc = "done" <=> ~taskQueueOpen
    /\ tpc = "done" => taskQueue = <<>>
    /\ tpc = "run" => taskQueue # <<>>
    /\ tpc = "idle" => taskQueue = <<>>

Vals ==
    /\ TypeOK
    /\ exited \in BOOLEAN /\ (exited \/ shutdownFlag < shutdownAttempts)
    /\ errors \in Nat /\ broken \in BOOLEAN
    /\ ops \in [Callers -> 0 .. MaxOps]
    /\ DOMAIN prog = Callers
    /\ told \in [Callers -> SUBSET Writes]
    /\ ~tx => txWrites = {}
TInv == Vals /\ taskQueue \in Seq(Tasks) /\ CallerInv /\ QueueInv

(* Whose the turn is: of who has asked for a transaction and has not been  *)
(* told of its commit.                                                     *)
Owns(c) == \/ prog[c] \in {Write1, Write2, Commit, Throw}
           \/ pc[c] = "wait" /\ prog[c] \in {Begin, BeginThrow}
Done(c) == pc[c] = "wait" /\ reply[c] # "none"
Calm == use_transaction /\ Undisturbed

FailsNot(c) ==
    /\ pc[c] \notin {"undoKey", "undoAll"}
    /\ Done(c) /\ Head(prog[c]) \in WriteStmts => reply[c] = "ok"
NoFailure == \A c \in Callers : FailsNot(c)

(* The transaction follows the program of its owner, step by step, and     *)
(* holds exactly the writes the owner has done in it.                      *)
TurnOK(c) ==
    /\ Owns(c) => inTransaction
    /\ pc[c] = "wait" /\ prog[c] \in {Begin, BeginThrow} => (tx <=> Done(c))
    /\ prog[c] \in {Write1, Write2} => tx
    /\ prog[c] = Commit => (tx <=> ~Done(c))
    /\ \/ prog[c] = Write1 /\ Done(c)
       \/ prog[c] = Write2
       \/ prog[c] = Commit /\ ~Done(c)
       => <<c, ops[c], "write1">> \in txWrites
    /\ \/ prog[c] = Write2 /\ Done(c)
       \/ prog[c] = Commit /\ ~Done(c)
       => <<c, ops[c], "write2">> \in txWrites
    /\ \A n \in 1 .. MaxOps :
          <<c, n, "write1">> \in txWrites \/ <<c, n, "write2">> \in txWrites
              => n = ops[c] /\ prog[c] \in {Write1, Write2, Commit}
TurnInv ==
    /\ ~inTransaction => ~tx
    /\ \A c, d \in Callers : Owns(c) /\ Owns(d) => c = d
    /\ \A c \in Callers : TurnOK(c)
Balanced ==
    \A c \in Callers, n \in 1 .. MaxOps :
        <<c, n, "write1">> \in durable <=> <<c, n, "write2">> \in durable

(* What a caller was told, or is about to be told, to be written.          *)
ToldOf(c) == told[c] \cup (IF Done(c) /\ reply[c] = "ok" /\ Head(prog[c]) \in WriteStmts
                           THEN {Write(c, Head(prog[c]))} ELSE {})
ToldIn(S) == acked \subseteq S /\ \A c \in Callers : ToldOf(c) \subseteq S
(* Without transactions there is nothing a ROLLBACK could take back; with  *)
(* them nothing is taken back until a statement fails.                     *)
PlainInv ==
    ~use_transaction =>
        /\ ~inTransaction /\ ~tx
        /\ \A c \in Callers : pc[c] \notin {"undoKey", "undoAll"}
        /\ ToldIn(durable)
QuietInv == errors = 0 /\ taskQueueOpen => NoFailure /\ ToldIn(durable \cup txWrites)
CalmInv ==
    /\ Calm => Balanced
    /\ Calm /\ taskQueueOpen => TurnInv
BackupInv == ~dirty => backup = durable
IInv == TInv /\ BackupInv /\ PlainInv /\ QuietInv /\ CalmInv

USE DEF driverVars, connVars, callerVars

Progs == PlainProgs \cup TxProgs

LEMMA ProgTable ==
  /\ Head(Single) = "write" /\ Tail(Single) = <<>>
  /\ Head(Plain1) = "write1" /\ Tail(Plain1) = Plain2
  /\ Head(Plain2) = "write2" /\ Tail(Plain2) = <<>>
  /\ Head(Begin) = "begin" /\ Tail(Begin) = Write1
  /\ Head(Write1) = "write1" /\ Tail(Write1) = Write2
  /\ Head(Write2) = "write2" /\ Tail(Write2) = Commit
  /\ Head(Commit) = "commit" /\ Tail(Commit) = <<>>
  /\ Head(BeginThrow) = "begin" /\ Tail(BeginThrow) = Throw
  /\ Head(Throw) = "throw" /\ Tail(Throw) = <<>>
  BY DEF Single, Plain1, Plain2, Begin, Write1, Write2, Commit, BeginThrow, Throw

LEMMA ProgsNotEmpty ==
  <<>> \notin {Single, Plain1, Plain2, Begin, Write1, Write2, Commit, BeginThrow, Throw}
  BY DEF Single, Plain1, Plain2, Begin, Write1, Write2, Commit, BeginThrow, Throw

LEMMA ProgsDiffer ==
  /\ Begin # BeginThrow
  /\ Plain1 # Write1
  /\ Plain2 # Write2
  BY DEF Plain1, Plain2, Begin, Write1, Write2, BeginThrow

(* The rest of a program, and what its head says of it.                    *)
LEMMA ProgFacts ==
  ASSUME NEW p \in Progs, p # <<>>
  PROVE  /\ Head(p) \in StmtsToAsk \cup {"throw"}
         /\ p \in PlainProgs => Tail(p) \in PlainProgs
         /\ p \in TxProgs => Tail(p) \in TxProgs
         /\ Tail(p) \notin {Begin, BeginThrow}
         /\ Head(p) = "begin" <=> p \in {Begin, BeginThrow}
         /\ Head(p) = "commit" <=> p = Commit
         /\ Head(p) = "throw" <=> p = Throw
         /\ Head(p) = "write" <=> p = Single
         /\ Head(p) = "write1" <=> p \in {Plain1, Write1}
         /\ Head(p) = "write2" <=> p \in {Plain2, Write2}
  <1>1. {Plain2, Write1, Write2, Commit, Throw, <<>>} \cap {Begin, BeginThrow} = {}
    <2>1. Plain2 # Begin /\ Plain2 # BeginThrow BY DEF Plain2, Begin, BeginThrow
    <2>2. Write1 # Begin /\ Write1 # BeginThrow BY DEF Write1, Begin, BeginThrow
    <2>3. Write2 # Begin /\ Write2 # BeginThrow BY DEF Write2, Begin, BeginThrow
    <2>4. Commit # Begin /\ Commit # BeginThrow BY DEF Commit, Begin, BeginThrow
    <2>5. Throw # Begin /\ Throw # BeginThrow BY DEF Throw, Begin, BeginThrow
    <2> QED BY <2>1, <2>2, <2>3, <2>4, <2>5, ProgsNotEmpty
  <1>2. Tail(p) \in {Plain2, Write1, Write2, Commit, Throw, <<>>}
    BY ProgTable DEF Progs, PlainProgs, TxProgs
  <1>3. Tail(p) \notin {Begin, BeginThrow}
    BY <1>1, <1>2
  <1> QED BY <1>3, ProgTable, ProgsNotEmpty
          DEF Progs, PlainProgs, TxProgs, StmtsToAsk, WriteStmts

LEMMA Programs ==
  ASSUME use_transaction \in BOOLEAN, NEW kind \in Kinds
  PROVE  /\ Program(kind) \in (IF use_transaction THEN TxProgs ELSE PlainProgs)
         /\ Program(kind) \in {Single, Plain1, Begin, BeginThrow, Throw}
  BY DEF Program, Kinds, TxProgs, PlainProgs, Single, Plain1, Begin, Throw, BeginThrow

-----------------------------------------------------------------------------
(* The queue and the callers.                                              *)

LEMMA CallerFrame ==
  ASSUME CallerInv, NEW c \in Callers, UNCHANGED use_transaction,
         \A d \in Callers \ {c} : pc'[d] = pc[d] /\ prog'[d] = prog[d] /\ ops'[d] = ops[d],
         CallerOK(c)'
  PROVE  CallerInv'
  BY DEF CallerInv, CallerOK

LEMMA QueueKept ==
  ASSUME QueueInv, UNCHANGED <<taskQueue, taskQueueOpen>>,
         tpc' = tpc \/ (taskQueueOpen /\ tpc' # "done" /\ tpc' \notin {"run", "idle"}),
         \A d \in Callers : /\ Waits(d)' <=> Waits(d)
                            /\ Waits(d) => Asked(d)' = Asked(d)
  PROVE  QueueInv'
  <1>1. \A i \in DOMAIN taskQueue : TaskOK(taskQueue[i])'
    BY DEF QueueInv, TaskOK
  <1> QED BY <1>1 DEF QueueInv, QueuedFor

LEMMA Queued ==
  ASSUME QueueInv, NEW c \in Callers, ~Waits(c)
  PROVE  ~QueuedFor(c)
  BY CallersAssumption DEF QueueInv, TaskOK, QueuedFor, Timer

LEMMA Appended ==
  ASSUME QueueInv, taskQueue \in Seq(Tasks), taskQueueOpen, UNCHANGED taskQueueOpen,
         NEW t \in Tasks, taskQueue' = Append(taskQueue, t),
         tpc' # "idle", tpc' = "done" <=> tpc = "done",
         \A i \in DOMAIN taskQueue : taskQueue[i].who # t.who,
         \A d \in Callers : d # t.who => (Waits(d)' <=> Waits(d)) /\ Asked(d)' = Asked(d),
         \/ t = [who |-> Timer, stmt |-> "backup"]
         \/ /\ t.who \in Callers /\ Waits(t.who)'
            /\ t = [who |-> t.who, stmt |-> Asked(t.who)']
  PROVE  QueueInv' /\ taskQueue' \in Seq(Tasks)
  <1>2. /\ taskQueue' \in Seq(Tasks)
        /\ DOMAIN taskQueue' = 1 .. Len(taskQueue) + 1
        /\ DOMAIN taskQueue = 1 .. Len(taskQueue)
        /\ Len(taskQueue) \in Nat
        /\ \A i \in DOMAIN taskQueue : taskQueue'[i] = taskQueue[i]
        /\ taskQueue'[Len(taskQueue) + 1] = t
    OBVIOUS
  <1>3. \A i \in DOMAIN taskQueue' : TaskOK(taskQueue[i])'
    <2> TAKE i \in DOMAIN taskQueue'
    <2>1. CASE i \in DOMAIN taskQueue
      <3>1. TaskOK(taskQueue[i]) /\ taskQueue[i].who # t.who
        BY <2>1 DEF QueueInv
      <3> QED BY <3>1, <2>1, <1>2 DEF TaskOK
    <2>2. CASE i = Len(taskQueue) + 1
      BY <2>2, <1>2 DEF TaskOK
    <2> QED BY <2>1, <2>2, <1>2
  <1>4. \A i, j \in DOMAIN taskQueue' : taskQueue'[i].who = taskQueue'[j].who => i = j
    BY <1>2 DEF QueueInv
  <1>5. \A d \in Callers : Waits(d)' => QueuedFor(d)'
    <2> SUFFICES ASSUME NEW d \in Callers, Waits(d)'
                 PROVE  \E i \in DOMAIN taskQueue' : taskQueue'[i].who = d
      BY DEF QueuedFor
    <2>1. CASE d = t.who
      BY <2>1, <1>2
    <2>2. CASE d # t.who
      <3>1. PICK i \in DOMAIN taskQueue : taskQueue[i].who = d
        BY <2>2 DEF QueueInv, QueuedFor
      <3> QED BY <3>1, <1>2
    <2> QED BY <2>1, <2>2
  <1>6. taskQueue' # <<>>
    BY <1>2
  <1> QED BY <1>2, <1>3, <1>4, <1>5, <1>6 DEF QueueInv

LEMMA TaskAdded ==
  ASSUME TInv, NEW c \in Callers, ~Waits(c), NEW stmt \in Stmts, NEW state \in AtCaller,
         addTask(c, stmt, state), UNCHANGED <<prog, taskQueueOpen>>,
         stmt = IF state = "wait" THEN Head(prog[c]) ELSE "rollback"
  PROVE  QueueInv' /\ taskQueue' \in Seq(Tasks)
  <1>1. \A d \in Callers \ {c} : (Waits(d)' <=> Waits(d)) /\ Asked(d)' = Asked(d)
    BY DEF addTask, Waits, Asked, TInv, Vals, TypeOK
  <1>2. CASE ~taskQueueOpen
    <2>1. ~Waits(c)'
      BY <1>2 DEF addTask, MayPush, Waits, TInv, Vals, TypeOK
    <2> QED BY <2>1, <1>1, <1>2, QueueKept DEF addTask, MayPush, TInv
  <1>3. CASE taskQueueOpen
    <2> DEFINE t == [who |-> c, stmt |-> stmt]
    <2>1. taskQueue' = Append(taskQueue, t) /\ tpc' = Woken(tpc)
      BY <1>3 DEF addTask, MayPush
    <2>2. t \in Tasks
      BY DEF Tasks
    <2>3. Waits(c)' /\ Asked(c)' = stmt
      BY <1>3 DEF addTask, MayPush, Waits, Asked, TInv, Vals, TypeOK
    <2>4. \A i \in DOMAIN taskQueue : taskQueue[i].who # c
      BY Queued DEF QueuedFor, TInv
    <2>5. tpc' # "idle" /\ (tpc' = "done" <=> tpc = "done")
      BY <2>1 DEF Woken
    <2> QED BY <1>1, <1>3, <2>1, <2>2, <2>3, <2>4, <2>5, Appended DEF TInv
  <1> QED BY <1>2, <1>3 DEF TInv, Vals, TypeOK

LEMMA ProgOf ==
  ASSUME TInv, NEW c \in Callers
  PROVE  /\ use_transaction \in BOOLEAN
         /\ prog[c] \in Progs
         /\ prog[c] \in (IF use_transaction THEN TxProgs ELSE PlainProgs)
         /\ prog[c] # <<>> => ops[c] \in 1 .. MaxOps /\ Head(prog[c]) \in StmtsToAsk \cup {"throw"}
         /\ prog[c] # <<>> => Tail(prog[c]) \in (IF use_transaction THEN TxProgs ELSE PlainProgs)
         /\ ops[c] \in 0 .. MaxOps
         /\ MaxOps \in Nat
         /\ pc[c] \in {"idle", "next", "poll", "wait", "undoKey", "undoAll"}
         /\ <<>> \in PlainProgs \cap TxProgs
  <1>1. prog[c] \in Progs /\ use_transaction \in BOOLEAN
    BY DEF TInv, Vals, TypeOK, CallerInv, CallerOK, Progs
  <1>2. /\ prog[c] \in (IF use_transaction THEN TxProgs ELSE PlainProgs)
        /\ prog[c] # <<>> => ops[c] >= 1
        /\ ops[c] \in 0 .. MaxOps /\ MaxOps \in Nat
        /\ pc[c] \in {"idle", "next", "poll", "wait", "undoKey", "undoAll"}
    BY BoundAssumption DEF TInv, Vals, TypeOK, CallerInv, CallerOK
  <1>3. prog[c] # <<>> =>
            /\ Head(prog[c]) \in StmtsToAsk \cup {"throw"}
            /\ Tail(prog[c]) \in (IF use_transaction THEN TxProgs ELSE PlainProgs)
    BY <1>1, <1>2, ProgFacts
  <1>4. <<>> \in PlainProgs \cap TxProgs
    BY DEF PlainProgs, TxProgs
  <1> QED BY <1>1, <1>2, <1>3, <1>4

LEMMA AttemptT ==
  ASSUME TInv, ~exited, Attempt
  PROVE  /\ shutdownFlag' \in 0 .. shutdownAttempts /\ shutdownFlag' >= 1
         /\ exited' \in BOOLEAN
         /\ exited' \/ shutdownFlag' < shutdownAttempts
  <1>1. shutdownFlag \in Nat /\ shutdownFlag < shutdownAttempts /\ shutdownAttempts \in Nat
    BY AttemptsAssumption DEF TInv, Vals, TypeOK
  <1>2. shutdownFlag' = shutdownFlag + 1 /\ (exited' <=> shutdownFlag' >= shutdownAttempts)
    BY DEF Attempt, TooMany
  <1>3. exited' \in BOOLEAN
    <2>1. exited' = (shutdownFlag' >= shutdownAttempts)
      BY DEF Attempt, TooMany
    <2>2. (shutdownFlag' >= shutdownAttempts) \in BOOLEAN
      BY <1>1, <1>2
    <2> QED BY <2>1, <2>2, Zenon
  <1> QED BY <1>1, <1>2, <1>3

LEMMA OperationT ==
  ASSUME TInv, NEW c \in Callers, NEW kind \in Kinds, operation(c, kind)
  PROVE  TInv'
  <1> USE DEF operation, callerFrame
  <1>1. Vals'
    BY ProgOf DEF TInv, Vals, TypeOK
  <1>2. CallerOK(c)'
    BY ProgOf, Programs DEF CallerOK, TInv, Vals, TypeOK, CallerInv
  <1>3. CallerInv'
    <2>1. UNCHANGED use_transaction
          /\ \A d \in Callers \ {c} : pc'[d] = pc[d] /\ prog'[d] = prog[d] /\ ops'[d] = ops[d]
      BY DEF TInv, Vals, TypeOK
    <2> QED BY <1>2, <2>1, CallerFrame DEF TInv
  <1>4. QueueInv'
    <2>1. \A d \in Callers : (Waits(d)' <=> Waits(d)) /\ (Waits(d) => Asked(d)' = Asked(d))
      BY DEF Waits, Asked, AtCaller, TInv, Vals, TypeOK
    <2> QED BY <2>1, QueueKept DEF TInv
  <1> QED BY <1>1, <1>3, <1>4 DEF TInv

LEMMA QuietT ==
  ASSUME TInv, NEW c \in Callers,
         UNCHANGED <<taskQueue, taskQueueOpen, tpc, use_transaction, ops>>,
         ~Waits(c), pc'[c] \in {"idle", "next", "poll"},
         \A d \in Callers \ {c} : pc'[d] = pc[d] /\ prog'[d] = prog[d] /\ reply'[d] = reply[d],
         CallerOK(c)'
  PROVE  CallerInv' /\ QueueInv'
  <1>1. CallerInv'
    BY CallerFrame DEF TInv
  <1>2. \A d \in Callers : (Waits(d)' <=> Waits(d)) /\ (Waits(d) => Asked(d)' = Asked(d))
    BY DEF Waits, Asked, AtCaller
  <1> QED BY <1>1, <1>2, QueueKept DEF TInv

LEMMA LockBeginT ==
  ASSUME TInv, NEW c \in Callers, lockBegin(c)
  PROVE  TInv'
  <1> USE DEF lockBegin, callerFrame, NextIs
  <1>1. Vals'
    BY DEF TInv, Vals, TypeOK
  <1>2. CallerOK(c)'
    BY ProgOf, ProgFacts DEF CallerOK, TInv, Vals, TypeOK, CallerInv
  <1>3. /\ ~Waits(c) /\ pc'[c] = "poll"
        /\ \A d \in Callers \ {c} : pc'[d] = pc[d] /\ prog'[d] = prog[d] /\ reply'[d] = reply[d]
    BY DEF TInv, Vals, TypeOK, Waits, AtCaller
  <1> QED BY <1>1, <1>2, <1>3, QuietT DEF TInv

LEMMA ReturnT ==
  ASSUME TInv, NEW c \in Callers, return(c)
  PROVE  TInv'
  <1> USE DEF return, callerFrame
  <1>1. Vals'
    BY DEF TInv, Vals, TypeOK
  <1>2. CallerOK(c)'
    BY ProgOf DEF CallerOK, TInv, Vals, TypeOK, CallerInv
  <1>3. /\ ~Waits(c) /\ pc'[c] = "idle"
        /\ \A d \in Callers \ {c} : pc'[d] = pc[d] /\ prog'[d] = prog[d] /\ reply'[d] = reply[d]
    BY DEF TInv, Vals, TypeOK, Waits, AtCaller
  <1> QED BY <1>1, <1>2, <1>3, QuietT DEF TInv

LEMMA ExceptionT ==
  ASSUME TInv, NEW c \in Callers, exception(c)
  PROVE  TInv'
  <1> USE DEF exception, callerFrame, NextIs, throws
  <1>1. Vals'
    BY DEF TInv, Vals, TypeOK
  <1>2. CallerOK(c)'
    BY ProgOf DEF CallerOK, TInv, Vals, TypeOK, CallerInv
  <1>3. /\ ~Waits(c) /\ pc'[c] = "idle"
        /\ \A d \in Callers \ {c} : pc'[d] = pc[d] /\ prog'[d] = prog[d] /\ reply'[d] = reply[d]
    BY DEF TInv, Vals, TypeOK, Waits, AtCaller
  <1> QED BY <1>1, <1>2, <1>3, QuietT DEF TInv

LEMMA AnsweredT ==
  ASSUME TInv, NEW c \in Callers, answered(c)
  PROVE  TInv'
  <1> USE DEF answered, callerFrame, next, Answered
  <1>1. prog[c] # <<>>
    BY DEF TInv, CallerInv, CallerOK
  <1>2. Head(prog[c]) \in WriteStmts => Write(c, Head(prog[c])) \in Writes
    BY <1>1, ProgOf DEF Write, Writes, WriteStmts
  <1>3. Vals'
    BY <1>2 DEF TInv, Vals, TypeOK
  <1>4. CallerOK(c)'
    BY <1>1, ProgOf DEF CallerOK, TInv, Vals, TypeOK, CallerInv
  <1>5. /\ ~Waits(c) /\ pc'[c] = "next"
        /\ \A d \in Callers \ {c} : pc'[d] = pc[d] /\ prog'[d] = prog[d] /\ reply'[d] = reply[d]
    BY DEF TInv, Vals, TypeOK, Waits, AtCaller
  <1> QED BY <1>3, <1>4, <1>5, QuietT DEF TInv

LEMMA RolledBackT ==
  ASSUME TInv, ~exited, NEW c \in Callers, rolledBack(c)
  PROVE  TInv'
  <1> USE DEF rolledBack, callerFrame, next, goesOn, throws, Answered
  <1>1. prog[c] # <<>>
    BY DEF TInv, CallerInv, CallerOK
  <1>2. Vals'
    <2>1. /\ shutdownFlag' \in 0 .. shutdownAttempts /\ exited' \in BOOLEAN
          /\ exited' \/ shutdownFlag' < shutdownAttempts
      <3>1. CASE Attempt BY <3>1, AttemptT
      <3>2. CASE UNCHANGED <<shutdownFlag, exited>> BY <3>2 DEF TInv, Vals, TypeOK
      <3> QED BY <3>1, <3>2
    <2>2. inTransaction' \in BOOLEAN
      BY Zenon DEF TInv, Vals, TypeOK
    <2>3. /\ pc' \in [Callers -> {"idle", "next", "poll", "wait", "undoKey", "undoAll"}]
          /\ DOMAIN prog' = Callers /\ told' \in [Callers -> SUBSET Writes]
          /\ UNCHANGED <<use_transaction, taskQueue, taskQueueOpen, tpc, dirty, sqlMutex, tx, txWrites,
                         durable, backup, reply, ops, errors, broken, acked, main>>
      BY DEF TInv, Vals, TypeOK
    <2> HIDE DEF rolledBack
    <2> QED BY <2>1, <2>2, <2>3 DEF TInv, Vals, TypeOK
  <1>3. CallerOK(c)'
    BY <1>1, ProgOf, ZenonT(30) DEF CallerOK, TInv, Vals, TypeOK, CallerInv
  <1>4. /\ ~Waits(c) /\ pc'[c] \in {"idle", "next"}
        /\ \A d \in Callers \ {c} : pc'[d] = pc[d] /\ prog'[d] = prog[d] /\ reply'[d] = reply[d]
    BY DEF TInv, Vals, TypeOK, Waits, AtCaller
  <1> QED BY <1>2, <1>3, <1>4, QuietT DEF TInv

LEMMA TasksOf ==
  ASSUME NEW s \in Seq(Tasks)
  PROVE  \A i \in DOMAIN s : s[i].who \in Callers \cup {Timer} /\ s[i].stmt \in Stmts
  <1>1. \A i \in DOMAIN s : s[i] \in Tasks
    OBVIOUS
  <1> QED BY <1>1 DEF Tasks

LEMMA AddTaskT ==
  ASSUME TInv, NEW c \in Callers, NEW stmt, NEW state \in AtCaller,
         addTask(c, stmt, state)
  PROVE  /\ pc' \in [Callers -> {"idle", "next", "poll", "wait", "undoKey", "undoAll"}]
         /\ reply' \in [Callers -> {"none", "ok", "foreignkey", "error", "closed"}]
         /\ tpc' \in {"loop", "inner", "run", "idle", "woken", "done"}
         /\ pc'[c] = state
         /\ \A d \in Callers \ {c} : pc'[d] = pc[d] /\ reply'[d] = reply[d]
  BY DEF addTask, Woken, AtCaller, TInv, Vals, TypeOK

LEMMA BeginTransactionT ==
  ASSUME TInv, NEW c \in Callers, beginTransaction(c)
  PROVE  TInv'
  <1> USE DEF beginTransaction, callerFrame
  <1>1. prog[c] \in {Begin, BeginThrow} /\ prog[c] # <<>> /\ prog[c] # Throw
    BY ProgsNotEmpty, ProgOf, ProgFacts DEF TInv, CallerInv, CallerOK
  <1>2. Head(prog[c]) = "begin" /\ "begin" \in Stmts /\ "wait" \in AtCaller /\ ~Waits(c)
    BY <1>1, ProgTable DEF Stmts, StmtsToAsk, AtCaller, Waits
  <1>3. QueueInv' /\ taskQueue' \in Seq(Tasks)
    BY <1>2, TaskAdded
  <1>4. /\ pc' \in [Callers -> {"idle", "next", "poll", "wait", "undoKey", "undoAll"}]
        /\ reply' \in [Callers -> {"none", "ok", "foreignkey", "error", "closed"}]
        /\ tpc' \in {"loop", "inner", "run", "idle", "woken", "done"}
        /\ pc'[c] = "wait"
        /\ \A d \in Callers \ {c} : pc'[d] = pc[d] /\ reply'[d] = reply[d]
    BY <1>2, AddTaskT
  <1>5. \A i \in DOMAIN taskQueue' : taskQueue'[i].who \in Callers \cup {Timer}
    BY <1>3, TasksOf
  <1>6. Vals'
    BY <1>4, <1>5 DEF TInv, Vals, TypeOK
  <1>7. CallerOK(c)'
    BY <1>1, <1>4, ProgOf DEF CallerOK
  <1> QED BY <1>3, <1>4, <1>6, <1>7, CallerFrame DEF TInv

LEMMA WriteT ==
  ASSUME TInv, NEW c \in Callers, write(c)
  PROVE  TInv'
  <1> USE DEF write, callerFrame, NextIs
  <1>1. prog[c] # <<>> /\ prog[c] # Throw /\ Head(prog[c]) \in WriteStmts
    BY ProgTable DEF WriteStmts
  <1>2. Head(prog[c]) \in Stmts /\ "wait" \in AtCaller /\ ~Waits(c)
    BY <1>1 DEF Stmts, StmtsToAsk, AtCaller, Waits
  <1>3. QueueInv' /\ taskQueue' \in Seq(Tasks)
    BY <1>2, TaskAdded
  <1>4. /\ pc' \in [Callers -> {"idle", "next", "poll", "wait", "undoKey", "undoAll"}]
        /\ reply' \in [Callers -> {"none", "ok", "foreignkey", "error", "closed"}]
        /\ tpc' \in {"loop", "inner", "run", "idle", "woken", "done"}
        /\ pc'[c] = "wait"
        /\ \A d \in Callers \ {c} : pc'[d] = pc[d] /\ reply'[d] = reply[d]
    BY <1>2, AddTaskT
  <1>5. \A i \in DOMAIN taskQueue' : taskQueue'[i].who \in Callers \cup {Timer}
    BY <1>3, TasksOf
  <1>6. Vals'
    BY <1>4, <1>5 DEF TInv, Vals, TypeOK
  <1>7. CallerOK(c)'
    BY <1>1, <1>4, ProgOf DEF CallerOK
  <1> QED BY <1>3, <1>4, <1>6, <1>7, CallerFrame DEF TInv

LEMMA CommitT ==
  ASSUME TInv, NEW c \in Callers, commit(c)
  PROVE  TInv'
  <1> USE DEF commit, callerFrame, NextIs
  <1>1. prog[c] # <<>> /\ prog[c] # Throw /\ Head(prog[c]) = "commit"
    BY ProgTable
  <1>2. CASE inTransaction
    <2>1. addTask(c, "commit", "wait") /\ UNCHANGED prog
      BY <1>2
    <2>2. "commit" \in Stmts /\ "wait" \in AtCaller /\ ~Waits(c)
      BY <1>1 DEF Stmts, StmtsToAsk, AtCaller, Waits
    <2>3. QueueInv' /\ taskQueue' \in Seq(Tasks)
      BY <1>1, <2>1, <2>2, TaskAdded
    <2>4. /\ pc' \in [Callers -> {"idle", "next", "poll", "wait", "undoKey", "undoAll"}]
          /\ reply' \in [Callers -> {"none", "ok", "foreignkey", "error", "closed"}]
          /\ tpc' \in {"loop", "inner", "run", "idle", "woken", "done"}
          /\ pc'[c] = "wait"
          /\ \A d \in Callers \ {c} : pc'[d] = pc[d] /\ reply'[d] = reply[d]
      BY <2>1, <2>2, AddTaskT
    <2>5. \A i \in DOMAIN taskQueue' : taskQueue'[i].who \in Callers \cup {Timer}
      BY <2>3, TasksOf
    <2>6. Vals'
      BY <2>1, <2>4, <2>5 DEF TInv, Vals, TypeOK
    <2>7. CallerOK(c)'
      BY <2>1, <1>1, <2>4, ProgOf DEF CallerOK
    <2> QED BY <2>1, <2>3, <2>4, <2>6, <2>7, CallerFrame DEF TInv
  <1>3. CASE ~inTransaction
    <2>1. UNCHANGED <<taskQueue, tpc, pc, reply>> /\ prog' = [prog EXCEPT ![c] = Tail(@)]
      BY <1>3
    <2>2. Vals'
      BY <2>1 DEF TInv, Vals, TypeOK
    <2>3. CallerOK(c)'
      BY <2>1, <1>1, ProgOf DEF CallerOK, TInv, Vals
    <2>4. /\ ~Waits(c) /\ pc'[c] = "next"
          /\ \A d \in Callers \ {c} : pc'[d] = pc[d] /\ prog'[d] = prog[d] /\ reply'[d] = reply[d]
      BY <2>1 DEF TInv, Vals, TypeOK, Waits, AtCaller
    <2> QED BY <2>1, <2>2, <2>3, <2>4, QuietT DEF TInv
  <1> QED BY <1>2, <1>3

LEMMA HandleExceptionT ==
  ASSUME TInv, ~exited, NEW c \in Callers, handleException(c)
  PROVE  TInv'
  <1> USE DEF handleException, callerFrame, Failed, Answered
  <1>1. prog[c] # <<>> /\ prog[c] # Throw /\ Head(prog[c]) \in WriteStmts /\ ~Waits(c)
    BY ProgTable DEF TInv, CallerInv, CallerOK, Waits, WriteStmts
  <1>2. /\ shutdownFlag' \in 0 .. shutdownAttempts /\ exited' \in BOOLEAN
        /\ exited' \/ shutdownFlag' < shutdownAttempts
    <2>1. CASE Attempt BY <2>1, AttemptT
    <2>2. CASE UNCHANGED <<shutdownFlag, exited>> BY <2>2 DEF TInv, Vals, TypeOK
    <2> QED BY <2>1, <2>2
  <1>3. ASSUME NEW state \in {"undoKey", "undoAll"}, addTask(c, "rollback", state),
               UNCHANGED <<prog, told>>
        PROVE  TInv'
    <2>1. "rollback" \in Stmts /\ state \in AtCaller /\ state # "wait"
      BY DEF Stmts, AtCaller
    <2>2. QueueInv' /\ taskQueue' \in Seq(Tasks)
      BY <1>1, <1>3, <2>1, TaskAdded
    <2>3. /\ pc' \in [Callers -> {"idle", "next", "poll", "wait", "undoKey", "undoAll"}]
          /\ reply' \in [Callers -> {"none", "ok", "foreignkey", "error", "closed"}]
          /\ tpc' \in {"loop", "inner", "run", "idle", "woken", "done"}
          /\ pc'[c] = state
          /\ \A d \in Callers \ {c} : pc'[d] = pc[d] /\ reply'[d] = reply[d]
      BY <1>3, <2>1, AddTaskT
    <2>4. \A i \in DOMAIN taskQueue' : taskQueue'[i].who \in Callers \cup {Timer}
      BY <2>2, TasksOf
    <2>5. Vals'
      BY <1>2, <1>3, <2>3, <2>4 DEF TInv, Vals, TypeOK
    <2>6. CallerOK(c)'
      BY <1>1, <1>3, <2>3, ProgOf DEF CallerOK
    <2> QED BY <1>3, <2>2, <2>3, <2>5, <2>6, CallerFrame DEF TInv
  <1>4. ASSUME goesOn(c) \/ throws(c), UNCHANGED <<taskQueue, reply, tpc>>
        PROVE  TInv'
    <2>1. Vals'
      <3>1. CASE goesOn(c)
        BY <3>1, <1>2, <1>4 DEF TInv, Vals, TypeOK, goesOn, next
      <3>2. CASE throws(c)
        BY <3>2, <1>2, <1>4 DEF TInv, Vals, TypeOK, throws
      <3> QED BY <1>4, <3>1, <3>2
    <2>2. CallerOK(c)'
      <3>1. CASE goesOn(c)
        BY <3>1, <1>1, <1>4, ProgOf DEF CallerOK, TInv, Vals, TypeOK, goesOn, next
      <3>2. CASE throws(c)
        BY <3>2, <1>1, <1>4, ProgOf DEF CallerOK, TInv, Vals, TypeOK, throws
      <3> QED BY <1>4, <3>1, <3>2
    <2>3. /\ pc'[c] \in {"idle", "next"}
          /\ \A d \in Callers \ {c} : pc'[d] = pc[d] /\ prog'[d] = prog[d] /\ reply'[d] = reply[d]
      BY <1>4 DEF TInv, Vals, TypeOK, goesOn, next, throws
    <2> QED BY <1>1, <1>4, <2>1, <2>2, <2>3, QuietT DEF TInv
  <1> QED BY <1>3, <1>4

-----------------------------------------------------------------------------
(* The database thread.                                                    *)

LEMMA TimerNotifyT ==
  ASSUME TInv, timerNotify
  PROVE  TInv'
  <1> USE DEF timerNotify
  <1>0. PICK t : t = [who |-> Timer, stmt |-> "backup"]
    OBVIOUS
  <1>1. t \in Tasks /\ t.who = Timer
    BY <1>0 DEF Tasks, Stmts
  <1>2. \A d \in Callers : (Waits(d)' <=> Waits(d)) /\ Asked(d)' = Asked(d)
    BY DEF Waits, Asked
  <1>8. /\ taskQueueOpen /\ UNCHANGED taskQueueOpen
        /\ taskQueue' = Append(taskQueue, t) /\ tpc' = Woken(tpc)
        /\ \A i \in DOMAIN taskQueue : taskQueue[i].who # t.who
        /\ QueueInv /\ taskQueue \in Seq(Tasks)
        /\ tpc' # "idle" /\ (tpc' = "done" <=> tpc = "done")
    BY <1>0, <1>1 DEF TInv, Woken
  <1>3. QueueInv' /\ taskQueue' \in Seq(Tasks)
    BY <1>0, <1>1, <1>2, <1>8, Appended
  <1>4. tpc' \in {"loop", "inner", "run", "idle", "woken", "done"}
    BY DEF Woken, TInv, Vals, TypeOK
  <1>5. \A i \in DOMAIN taskQueue' : taskQueue'[i].who \in Callers \cup {Timer}
    BY <1>3, TasksOf
  <1>6. Vals'
    BY <1>4, <1>5 DEF TInv, Vals, TypeOK
  <1>7. CallerInv'
    BY DEF TInv, CallerInv, CallerOK
  <1> QED BY <1>3, <1>6, <1>7 DEF TInv

(* The task the thread runs, and what it tells its caller.                 *)
LEMMA HeadTask ==
  ASSUME TInv, tpc = "run"
  PROVE  /\ taskQueue # <<>> /\ Head(taskQueue) \in Tasks /\ taskQueueOpen
         /\ \/ Head(taskQueue) = [who |-> Timer, stmt |-> "backup"]
            \/ \E c \in Callers : Waits(c) /\ Head(taskQueue) = [who |-> c, stmt |-> Asked(c)]
  <1>1. taskQueue # <<>> /\ taskQueue \in Seq(Tasks) /\ taskQueueOpen
    BY DEF TInv, QueueInv
  <1>2. Head(taskQueue) \in Tasks /\ Head(taskQueue) = taskQueue[1] /\ 1 \in DOMAIN taskQueue
    BY <1>1
  <1>3. TaskOK(taskQueue[1])
    BY <1>2 DEF TInv, QueueInv
  <1> QED BY <1>1, <1>2, <1>3 DEF TaskOK

(* When the task of w is taken and answered, the rest of the queue is as   *)
(* it was.                                                                 *)
LEMMA Taken ==
  ASSUME QueueInv, taskQueue \in Seq(Tasks), taskQueue # <<>>, tpc # "done", tpc' = "inner",
         taskQueue' = Tail(taskQueue), UNCHANGED <<pc, prog, taskQueueOpen>>,
         NEW w, w = Head(taskQueue).who, w \in Callers => ~Waits(w)',
         \A d \in Callers : d # w => (Waits(d)' <=> Waits(d)) /\ Asked(d)' = Asked(d)
  PROVE  QueueInv' /\ taskQueue' \in Seq(Tasks)
  <1>1. /\ w = taskQueue[1].who /\ Len(taskQueue) \in Nat /\ Len(taskQueue) >= 1
        /\ DOMAIN taskQueue = 1 .. Len(taskQueue)
        /\ DOMAIN taskQueue' = 1 .. Len(taskQueue) - 1
        /\ taskQueue' \in Seq(Tasks)
        /\ \A i \in DOMAIN taskQueue' : i + 1 \in DOMAIN taskQueue /\ taskQueue'[i] = taskQueue[i + 1]
    OBVIOUS
  <1>2. \A i \in DOMAIN taskQueue' : taskQueue'[i].who # w
    BY <1>1 DEF QueueInv
  <1>3. \A i \in DOMAIN taskQueue' : TaskOK(taskQueue[i])'
    <2> TAKE i \in DOMAIN taskQueue'
    <2>1. TaskOK(taskQueue[i + 1]) /\ taskQueue'[i] = taskQueue[i + 1]
      BY <1>1 DEF QueueInv
    <2>2. taskQueue[i + 1].who # w
      BY <2>1, <1>2
    <2>3. CASE taskQueue[i + 1] = [who |-> Timer, stmt |-> "backup"]
      BY <2>1, <2>3 DEF TaskOK
    <2>4. ASSUME NEW d \in Callers, Waits(d), taskQueue[i + 1] = [who |-> d, stmt |-> Asked(d)]
          PROVE  TaskOK(taskQueue[i])'
      <3>1. Waits(d)' /\ Asked(d)' = Asked(d)
        BY <2>2, <2>4
      <3> QED BY <2>1, <2>4, <3>1 DEF TaskOK
    <2> QED BY <2>1, <2>3, <2>4 DEF TaskOK
  <1>4. \A i, j \in DOMAIN taskQueue' : taskQueue'[i].who = taskQueue'[j].who => i = j
    <2> SUFFICES ASSUME NEW i \in DOMAIN taskQueue', NEW j \in DOMAIN taskQueue',
                        taskQueue'[i].who = taskQueue'[j].who
                 PROVE  i = j
      OBVIOUS
    <2>1. i + 1 = j + 1
      BY <1>1 DEF QueueInv
    <2> QED BY <2>1, <1>1
  <1>5. \A d \in Callers : Waits(d)' => QueuedFor(d)'
    <2> SUFFICES ASSUME NEW d \in Callers, Waits(d)'
                 PROVE  \E i \in DOMAIN taskQueue' : taskQueue'[i].who = d
      BY DEF QueuedFor
    <2>1. d # w /\ Waits(d)
      OBVIOUS
    <2>2. PICK i \in DOMAIN taskQueue : taskQueue[i].who = d
      BY <2>1 DEF QueueInv, QueuedFor
    <2>3. i # 1 /\ i - 1 \in DOMAIN taskQueue' /\ taskQueue'[i - 1] = taskQueue[i]
      <3>1. i # 1 BY <2>1, <2>2, <1>1
      <3>2. i - 1 \in DOMAIN taskQueue' BY <3>1, <1>1
      <3>3. (i - 1) + 1 = i BY <1>1
      <3> QED BY <3>1, <3>2, <3>3, <1>1
    <2> QED BY <2>2, <2>3
  <1> QED BY <1>1, <1>3, <1>4, <1>5 DEF QueueInv

LEMMA TaskTaken ==
  ASSUME TInv, runTask
  PROVE  QueueInv' /\ taskQueue' \in Seq(Tasks)
  <1>1. tpc = "run" /\ tpc' = "inner" /\ taskQueue' = Tail(taskQueue) /\ UNCHANGED <<pc, prog, taskQueueOpen>>
    BY DEF runTask
  <1>2. PICK value \in {"ok", "foreignkey", "error"} : reply' = Answer(Head(taskQueue), value)
    BY DEF runTask
  <1>3. PICK w : w = Head(taskQueue).who
    OBVIOUS
  <1>4. reply' = IF w = Timer THEN reply ELSE [reply EXCEPT ![w] = value]
    BY <1>2, <1>3 DEF Answer
  <1>5. \A d \in Callers : d # w => (Waits(d)' <=> Waits(d)) /\ Asked(d)' = Asked(d)
    BY <1>1, <1>4 DEF Waits, Asked, TInv, Vals, TypeOK
  <1>6. w \in Callers => ~Waits(w)'
    <2>1. w \in Callers => w # Timer
      BY CallersAssumption DEF Timer
    <2>2. w \in Callers => reply'[w] = value
      BY <2>1, <1>4 DEF TInv, Vals, TypeOK
    <2> QED BY <2>2 DEF Waits
  <1>7. QueueInv /\ taskQueue \in Seq(Tasks) /\ taskQueue # <<>> /\ tpc # "done"
    BY <1>1 DEF TInv, QueueInv
  <1> QED BY <1>1, <1>3, <1>5, <1>6, <1>7, Taken

LEMMA Executed ==
  ASSUME NEW task, task.stmt \in Stmts, Execute(task)
  PROVE  /\ task.stmt = "begin" => tx' = TRUE /\ UNCHANGED <<txWrites, durable, backup>>
         /\ task.stmt = "commit" => /\ tx' = FALSE /\ txWrites' = {}
                                    /\ durable' = durable \cup txWrites /\ UNCHANGED backup
         /\ task.stmt = "rollback" => tx' = FALSE /\ txWrites' = {} /\ UNCHANGED <<durable, backup>>
         /\ task.stmt = "backup" => backup' = durable /\ UNCHANGED <<tx, txWrites, durable>>
         /\ task.stmt \in WriteStmts =>
               IF tx THEN /\ txWrites' = txWrites \cup {Write(task.who, task.stmt)}
                          /\ UNCHANGED <<tx, durable, backup>>
                     ELSE /\ durable' = durable \cup {Write(task.who, task.stmt)}
                          /\ UNCHANGED <<tx, txWrites, backup>>
  BY DEF Execute, Stmts, StmtsToAsk, WriteStmts

LEMMA AskedWrite ==
  ASSUME TInv, NEW c \in Callers, Waits(c), Asked(c) \in WriteStmts
  PROVE  /\ pc[c] = "wait" /\ prog[c] # <<>> /\ Head(prog[c]) = Asked(c)
         /\ Write(c, Asked(c)) \in Writes
  <1>1. pc[c] = "wait" /\ Head(prog[c]) = Asked(c)
    BY DEF Asked, WriteStmts
  <1>2. prog[c] # <<>>
    BY <1>1 DEF TInv, CallerInv, CallerOK
  <1> QED BY <1>1, <1>2, ProgOf DEF Write, Writes, WriteStmts

LEMMA RunTaskT ==
  ASSUME TInv, runTask
  PROVE  TInv'
  <1>1. PICK task : task = Head(taskQueue)
    OBVIOUS
  <1>2. /\ tpc = "run" /\ tpc' = "inner"
        /\ UNCHANGED <<use_transaction, taskQueueOpen, shutdownFlag, pc, prog, ops,
                       inTransaction, sqlMutex, main, exited, broken, told, acked>>
    BY DEF runTask
  <1>3. task \in Tasks /\ task.stmt \in Stmts /\ task.who \in Callers \cup {Timer}
    BY <1>1, <1>2, HeadTask DEF Tasks
  <1>4. task.stmt \in WriteStmts => Write(task.who, task.stmt) \in Writes
    <2>1. CASE task = [who |-> Timer, stmt |-> "backup"]
      BY <2>1 DEF WriteStmts
    <2>2. ASSUME NEW c \in Callers, Waits(c), task = [who |-> c, stmt |-> Asked(c)]
          PROVE  task.stmt \in WriteStmts => Write(task.who, task.stmt) \in Writes
      BY <2>2, AskedWrite
    <2> QED BY <2>1, <2>2, <1>1, <1>2, HeadTask
  <1>5. /\ tx' \in BOOLEAN /\ txWrites' \subseteq Writes /\ durable' \subseteq Writes
        /\ backup' \subseteq Writes /\ (~tx' => txWrites' = {})
    <2>1. CASE Execute(task)
      <3>1. task.stmt = "begin" \/ task.stmt = "commit" \/ task.stmt = "rollback"
            \/ task.stmt = "backup" \/ task.stmt \in WriteStmts
        BY <1>3 DEF Stmts, StmtsToAsk
      <3>2. /\ tx \in BOOLEAN /\ txWrites \subseteq Writes /\ durable \subseteq Writes
            /\ backup \subseteq Writes /\ (~tx => txWrites = {})
        BY DEF TInv, Vals, TypeOK
      <3>3. CASE task.stmt \in {"begin", "commit", "rollback", "backup"}
        BY <2>1, <3>2, <3>3, <1>3, Executed
      <3>4. CASE task.stmt \in WriteStmts
        <4>1. IF tx THEN /\ txWrites' = txWrites \cup {Write(task.who, task.stmt)}
                         /\ UNCHANGED <<tx, durable, backup>>
                    ELSE /\ durable' = durable \cup {Write(task.who, task.stmt)}
                         /\ UNCHANGED <<tx, txWrites, backup>>
          BY <2>1, <3>4, <1>3, Executed
        <4> QED BY <4>1, <3>2, <3>4, <1>4
      <3> QED BY <3>1, <3>3, <3>4
    <2>2. CASE UNCHANGED connVars
      BY <2>2 DEF TInv, Vals, TypeOK
    <2> QED BY <2>1, <2>2, <1>1 DEF runTask
  <1>6. /\ dirty' \in BOOLEAN /\ errors' \in Nat
        /\ reply' \in [Callers -> {"none", "ok", "foreignkey", "error", "closed"}]
    <2>1. DirtyAfter(task) \in BOOLEAN
      BY DEF DirtyAfter
    <2>2. dirty' \in BOOLEAN
      BY <2>1, <1>1 DEF runTask, TInv, Vals, TypeOK
    <2>3. errors' \in Nat
      BY DEF runTask, TInv, Vals
    <2>4. PICK value \in {"ok", "foreignkey", "error"} : reply' = Answer(task, value)
      BY <1>1 DEF runTask
    <2>5. reply' \in [Callers -> {"none", "ok", "foreignkey", "error", "closed"}]
      BY <2>4, <1>3 DEF Answer, TInv, Vals, TypeOK
    <2> QED BY <2>2, <2>3, <2>5
  <1>7. QueueInv' /\ taskQueue' \in Seq(Tasks)
    BY TaskTaken
  <1>8. \A i \in DOMAIN taskQueue' : taskQueue'[i].who \in Callers \cup {Timer}
    BY <1>7, TasksOf
  <1>9. Vals'
    BY <1>2, <1>5, <1>6, <1>8 DEF TInv, Vals, TypeOK
  <1>10. CallerInv'
    BY <1>2 DEF TInv, CallerInv, CallerOK
  <1> QED BY <1>7, <1>9, <1>10 DEF TInv

Closes ==
    /\ tpc = "loop" /\ shutdownFlag > 0
    /\ tpc' = "done"
    /\ taskQueueOpen' = FALSE
    /\ reply' = Drained
    /\ taskQueue' = <<>>
    /\ tx' = FALSE
    /\ txWrites' = {}
    /\ UNCHANGED <<use_transaction, shutdownFlag, dirty, durable, backup, pc, prog,
                   ops, inTransaction, sqlMutex, main, exited, errors, broken, told, acked>>

(* Steps of the thread that neither run a task nor close the queue.        *)
Goes ==
    /\ tpc # "run" /\ tpc # "done"
    /\ tpc' \in {"loop", "inner", "idle", "run"}
    /\ tpc' = "idle" => taskQueue = <<>>
    /\ tpc' = "run" => taskQueue # <<>>
    /\ UNCHANGED <<driverVars, connVars, callerVars, main, exited, errors, broken, told, acked>>

LEMMA ThreadSteps ==
  ASSUME TInv, threadProc
  PROVE  Goes \/ runTask \/ Closes
  <1>1. shutdownFlag \in Nat
    BY AttemptsAssumption DEF TInv, Vals, TypeOK
  <1> QED BY <1>1 DEF threadProc, Goes, Closes, goto

LEMMA GoesT ==
  ASSUME TInv, Goes
  PROVE  TInv'
  <1>1. Vals'
    BY DEF Goes, TInv, Vals, TypeOK
  <1>2. CallerInv'
    BY DEF Goes, TInv, CallerInv, CallerOK
  <1>3. QueueInv'
    <2>1. \A i \in DOMAIN taskQueue : TaskOK(taskQueue[i])'
      BY DEF Goes, TInv, QueueInv, TaskOK, Waits, Asked
    <2>2. \A d \in Callers : Waits(d)' => QueuedFor(d)'
      BY DEF Goes, TInv, QueueInv, Waits, QueuedFor
    <2> QED BY <2>1, <2>2 DEF Goes, TInv, QueueInv
  <1> QED BY <1>1, <1>2, <1>3 DEF TInv, Goes

LEMMA DrainedAnswers ==
  ASSUME TInv, NEW c \in Callers
  PROVE  Drained[c] = IF Waits(c) THEN "closed" ELSE reply[c]
  <1>1. QueuedFor(c) <=> Waits(c)
    BY Queued DEF TInv, QueueInv
  <1> QED BY <1>1 DEF Drained, QueuedFor

LEMMA ClosesT ==
  ASSUME TInv, Closes
  PROVE  TInv'
  <1>1. reply' \in [Callers -> {"none", "ok", "foreignkey", "error", "closed"}]
    BY DEF Closes, Drained, TInv, Vals, TypeOK
  <1>2. \A c \in Callers : ~Waits(c)'
    BY DrainedAnswers DEF Closes, Waits
  <1>3. Vals'
    <2>1. \A i \in DOMAIN taskQueue' : taskQueue'[i].who \in Callers \cup {Timer}
      BY DEF Closes
    <2>2. txWrites' = {} /\ tpc' = "done" /\ taskQueueOpen' = FALSE /\ tx' = FALSE
      BY DEF Closes
    <2> QED BY <1>1, <2>1, <2>2, ZenonT(30) DEF Closes, TInv, Vals, TypeOK
  <1>4. CallerInv'
    BY DEF Closes, TInv, CallerInv, CallerOK
  <1>5. QueueInv' /\ taskQueue' \in Seq(Tasks)
    BY <1>2 DEF Closes, QueueInv
  <1> QED BY <1>3, <1>4, <1>5 DEF TInv

LEMMA ShutdownT ==
  ASSUME TInv, ~exited, shutdownDriver
  PROVE  TInv'
  <1> USE DEF shutdownDriver
  <1>1. Vals'
    BY AttemptsAssumption DEF TInv, Vals, TypeOK, Woken
  <1>2. CallerInv'
    BY DEF TInv, CallerInv, CallerOK
  <1>3. QueueInv'
    <2>1. \A d \in Callers : (Waits(d)' <=> Waits(d)) /\ (Waits(d) => Asked(d)' = Asked(d))
      BY DEF Waits, Asked
    <2>2. tpc' = tpc \/ (taskQueueOpen /\ tpc' # "done" /\ tpc' \notin {"run", "idle"})
      BY DEF Woken, TInv, QueueInv
    <2> QED BY <2>1, <2>2, QueueKept DEF TInv
  <1> QED BY <1>1, <1>2, <1>3 DEF TInv

LEMMA InitT == Init => TInv
  <1> SUFFICES ASSUME Init PROVE TInv
    OBVIOUS
  <1>1. \A i \in DOMAIN taskQueue : taskQueue[i].who \in Callers \cup {Timer}
    BY DEF Init
  <1>2. Vals
    <2>1. use_transaction \in BOOLEAN
      BY ModeAssumption DEF Init
    <2>2. shutdownFlag \in 0 .. shutdownAttempts /\ shutdownFlag < shutdownAttempts
      BY AttemptsAssumption DEF Init
    <2>3. ops \in [Callers -> 0 .. MaxOps] /\ told \in [Callers -> SUBSET Writes]
      BY BoundAssumption DEF Init
    <2> QED BY <1>1, <2>1, <2>2, <2>3 DEF Init, Vals, TypeOK
  <1>3. CallerInv
    BY DEF Init, CallerInv, CallerOK, PlainProgs, TxProgs
  <1>4. taskQueue \in Seq(Tasks) /\ QueueInv
    BY DEF Init, QueueInv, Waits, AtCaller
  <1> QED BY <1>2, <1>3, <1>4 DEF TInv

LEMMA StepT ==
  ASSUME TInv, [Next]_vars
  PROVE  TInv'
  <1>1. CASE UNCHANGED vars
    <2>1. tpc' = tpc /\ \A d \in Callers : (Waits(d)' <=> Waits(d)) /\ Asked(d)' = Asked(d)
      BY <1>1 DEF vars, Waits, Asked
    <2>2. QueueInv'
      BY <1>1, <2>1, QueueKept DEF TInv, vars
    <2> QED BY <1>1, <2>2 DEF TInv, Vals, TypeOK, CallerInv, CallerOK, vars
  <1>2. CASE Next
    <2>1. ~exited
      BY <1>2 DEF Next
    <2>2. ASSUME NEW c \in Callers, NEW kind \in Kinds, operation(c, kind)
          PROVE  TInv'
      BY <2>2, OperationT
    <2>3. ASSUME NEW c \in Callers, caller(c)
          PROVE  TInv'
      BY <2>1, <2>3, LockBeginT, BeginTransactionT, WriteT, CommitT, ReturnT, ExceptionT,
         AnsweredT, HandleExceptionT, RolledBackT DEF caller
    <2>4. CASE threadProc
      BY <2>4, ThreadSteps, GoesT, RunTaskT, ClosesT
    <2> QED BY <1>2, <2>1, <2>2, <2>3, <2>4, TimerNotifyT, ShutdownT DEF Next
  <1> QED BY <1>1, <1>2

-----------------------------------------------------------------------------
(* The backup.                                                             *)

LEMMA StepB ==
  ASSUME TInv, BackupInv, [Next]_vars
  PROVE  BackupInv'
  <1>1. CASE runTask
    <2>1. PICK task : task = Head(taskQueue)
      OBVIOUS
    <2>2. task.stmt \in Stmts
      BY <1>1, <2>1, HeadTask DEF runTask, Tasks
    <2>3. CASE Execute(task) /\ dirty' = DirtyAfter(task)
      <3>1. task.stmt # "backup" => dirty'
        BY <2>3 DEF DirtyAfter
      <3>2. task.stmt = "backup" => backup' = durable'
        BY <2>2, <2>3, Executed
      <3> QED BY <3>1, <3>2 DEF BackupInv
    <2>4. CASE UNCHANGED <<connVars, dirty>>
      BY <2>4 DEF BackupInv
    <2> QED BY <1>1, <2>1, <2>3, <2>4 DEF runTask
  <1>2. CASE UNCHANGED <<dirty, backup, durable>>
    BY <1>2 DEF BackupInv
  <1>3. ASSUME NEW c \in Callers, NEW kind \in Kinds, operation(c, kind)
        PROVE  UNCHANGED <<dirty, backup, durable>>
    BY <1>3 DEF operation, callerFrame
  <1>4. ASSUME NEW c \in Callers, caller(c)
        PROVE  UNCHANGED <<dirty, backup, durable>>
    BY <1>4 DEF caller, callerFrame, lockBegin, beginTransaction, write, commit, return,
                exception, answered, handleException, rolledBack
  <1>5. threadProc => runTask \/ UNCHANGED <<dirty, backup, durable>>
    BY ThreadSteps DEF Goes, Closes
  <1>6. timerNotify \/ shutdownDriver => UNCHANGED <<dirty, backup, durable>>
    BY DEF timerNotify, shutdownDriver
  <1> QED BY <1>1, <1>2, <1>3, <1>4, <1>5, <1>6 DEF Next, vars

-----------------------------------------------------------------------------
(* What callers were told.                                                 *)

LEMMA CallerTold ==
  ASSUME TInv, NEW c \in Callers, caller(c), NEW S, ToldIn(S)
  PROVE  ToldIn(S)'
  <1>1. UNCHANGED ops
    BY DEF caller, lockBegin, beginTransaction, write, commit, return, exception, answered,
           handleException, rolledBack
  <1>2. \A d \in Callers \ {c} : ToldOf(d)' = ToldOf(d)
    <2>1. \A d \in Callers \ {c} :
            pc'[d] = pc[d] /\ reply'[d] = reply[d] /\ prog'[d] = prog[d] /\ told'[d] = told[d]
      BY DEF caller, callerFrame, lockBegin, beginTransaction, write, commit, return, exception,
             answered, handleException, rolledBack, addTask, next, goesOn, throws,
             TInv, Vals, TypeOK
    <2> QED BY <1>1, <2>1 DEF ToldOf, Done, Write
  <1>3. acked' \subseteq S /\ ToldOf(c)' \subseteq S
    <2>1. CASE lockBegin(c)
      BY <2>1 DEF lockBegin, ToldIn, ToldOf, Done, TInv, Vals, TypeOK
    <2>2. ASSUME NEW stmt, NEW state, addTask(c, stmt, state), UNCHANGED <<acked, told>>
          PROVE  acked' \subseteq S /\ ToldOf(c)' \subseteq S
      <3>1. reply'[c] \in {"none", "closed"}
        BY <2>2 DEF addTask, TInv, Vals, TypeOK
      <3> QED BY <3>1, <2>2 DEF ToldIn, ToldOf, Done
    <2>3. ASSUME next(c) \/ throws(c), \/ UNCHANGED told
                                      \/ throws(c)
                                      \/ ToldOf(c) = told'[c],
                 UNCHANGED acked
          PROVE  acked' \subseteq S /\ ToldOf(c)' \subseteq S
      <3>1. pc'[c] \in {"idle", "next"}
        BY <2>3 DEF next, throws, TInv, Vals, TypeOK
      <3>2. told'[c] \subseteq S
        BY <2>3 DEF ToldIn, ToldOf, throws, TInv, Vals, TypeOK
      <3> QED BY <2>3, <3>1, <3>2 DEF ToldIn, ToldOf, Done
    <2>4. CASE beginTransaction(c) \/ write(c)
      BY <2>4, <2>2 DEF beginTransaction, write
    <2>5. CASE commit(c)
      <3>1. CASE inTransaction
        BY <2>5, <3>1, <2>2 DEF commit
      <3>2. CASE ~inTransaction
        BY <2>5, <3>2 DEF commit, NextIs, ToldIn, ToldOf, Done
      <3> QED BY <3>1, <3>2
    <2>6. CASE return(c)
      BY <2>6 DEF return, ToldIn, ToldOf, Done, TInv, Vals, TypeOK
    <2>7. CASE exception(c)
      BY <2>7, <2>3 DEF exception
    <2>8. CASE answered(c)
      <3>1. told'[c] \subseteq ToldOf(c) /\ UNCHANGED acked
        BY <2>8 DEF answered, Answered, ToldOf, Done, WriteStmts, TInv, Vals
      <3>2. pc'[c] = "next"
        BY <2>8 DEF answered, next, TInv, Vals, TypeOK
      <3> QED BY <3>1, <3>2 DEF ToldIn, ToldOf, Done
    <2>9. CASE handleException(c)
      <3>1. UNCHANGED acked
        BY <2>9 DEF handleException
      <3>2. \/ \E state \in AtCaller : addTask(c, "rollback", state) /\ UNCHANGED told
            \/ throws(c)
            \/ goesOn(c)
        BY <2>9 DEF handleException, AtCaller
      <3> QED BY <3>1, <3>2, <2>2, <2>3 DEF goesOn
    <2>10. CASE rolledBack(c)
      BY <2>10, <2>3 DEF rolledBack, goesOn
    <2> QED BY <2>1, <2>4, <2>5, <2>6, <2>7, <2>8, <2>9, <2>10 DEF caller
  <1> QED BY <1>2, <1>3 DEF ToldIn

LEMMA OperationTold ==
  ASSUME TInv, NEW c \in Callers, NEW kind \in Kinds, operation(c, kind), NEW S, ToldIn(S)
  PROVE  ToldIn(S)'
  <1>1. \A d \in Callers \ {c} : ToldOf(d)' = ToldOf(d)
    BY DEF operation, ToldOf, Done, Write, TInv, Vals, TypeOK
  <1>2. ToldOf(c)' = told[c]
    BY DEF operation, ToldOf, Done, TInv, Vals, TypeOK
  <1> QED BY <1>1, <1>2 DEF ToldIn, ToldOf, operation

LEMMA OthersTold ==
  ASSUME TInv, timerNotify \/ shutdownDriver \/ Goes \/ Closes \/ UNCHANGED vars, NEW S, ToldIn(S)
  PROVE  ToldIn(S)'
  <1>1. UNCHANGED <<acked, told, pc, prog, ops>>
    BY DEF timerNotify, shutdownDriver, Goes, Closes, vars
  <1>2. \A c \in Callers : reply'[c] = reply[c] \/ reply'[c] = "closed"
    BY DrainedAnswers DEF timerNotify, shutdownDriver, Goes, Closes, vars
  <1>3. \A c \in Callers : ToldOf(c)' \subseteq ToldOf(c)
    BY <1>1, <1>2 DEF ToldOf, Done, Write
  <1> QED BY <1>1, <1>3 DEF ToldIn

(* What a task that runs does to the rows, and what its caller is told.    *)
LEMMA RunTold ==
  ASSUME TInv, runTask, NEW S, ToldIn(S), NEW T, S \subseteq T,
         \A c \in Callers : /\ Waits(c) /\ Asked(c) \in WriteStmts
                            /\ Head(taskQueue) = [who |-> c, stmt |-> Asked(c)]
                            /\ reply'[c] = "ok"
                            => Write(c, Asked(c)) \in T
  PROVE  ToldIn(T)'
  <1>1. /\ tpc = "run"
        /\ UNCHANGED <<acked, told, pc, prog, ops>>
    BY DEF runTask
  <1>2. PICK value \in {"ok", "foreignkey", "error"} : reply' = Answer(Head(taskQueue), value)
    BY DEF runTask
  <1>3. CASE Head(taskQueue) = [who |-> Timer, stmt |-> "backup"]
    <2>1. reply' = reply
      BY <1>2, <1>3 DEF Answer
    <2> QED BY <1>1, <2>1 DEF ToldIn, ToldOf, Done, Write
  <1>4. ASSUME NEW c \in Callers, Waits(c), Head(taskQueue) = [who |-> c, stmt |-> Asked(c)]
        PROVE  ToldIn(T)'
    <2>1. reply' = [reply EXCEPT ![c] = value]
      <3>1. c # Timer
        BY CallersAssumption DEF Timer
      <3>2. Head(taskQueue).who = c
        BY <1>4
      <3> QED BY <1>2, <3>1, <3>2 DEF Answer
    <2>2. \A d \in Callers \ {c} : ToldOf(d)' = ToldOf(d)
      BY <1>1, <2>1 DEF ToldOf, Done, Write, TInv, Vals, TypeOK
    <2>3. ToldOf(c)' \subseteq T
      <3>1. told[c] \subseteq T
        BY DEF ToldIn, ToldOf
      <3>2. Done(c)' /\ reply'[c] = "ok" /\ Head(prog[c]) \in WriteStmts => Write(c, Head(prog[c])) \in T
        BY <1>1, <1>4 DEF Done, Asked
      <3> QED BY <1>1, <3>1, <3>2 DEF ToldOf, Write
    <2> QED BY <1>1, <2>2, <2>3 DEF ToldIn
  <1> QED BY <1>1, <1>3, <1>4, HeadTask

-----------------------------------------------------------------------------
(* Without transactions.                                                   *)

LEMMA PlainProgsBegin ==
  /\ Begin \notin PlainProgs /\ BeginThrow \notin PlainProgs /\ Commit \notin PlainProgs
  /\ \A p \in PlainProgs : p # <<>> => Head(p) \notin {"begin", "commit"}
  BY ProgTable, ProgsNotEmpty DEF PlainProgs

LEMMA StepP ==
  ASSUME TInv, PlainInv, [Next]_vars
  PROVE  PlainInv'
  <1> SUFFICES ASSUME ~use_transaction, UNCHANGED use_transaction
               PROVE  PlainInv'
    <2>1. ASSUME NEW c \in Callers, NEW kind \in Kinds, operation(c, kind)
          PROVE  UNCHANGED use_transaction
      BY <2>1 DEF operation, callerFrame
    <2>2. ASSUME NEW c \in Callers, caller(c)
          PROVE  UNCHANGED use_transaction
      BY <2>2 DEF caller, callerFrame, lockBegin, beginTransaction, write, commit, return,
                  exception, answered, handleException, rolledBack
    <2>3. threadProc \/ timerNotify \/ shutdownDriver => UNCHANGED use_transaction
      BY ThreadSteps DEF Goes, Closes, runTask, timerNotify, shutdownDriver
    <2>4. UNCHANGED use_transaction
      BY <2>1, <2>2, <2>3 DEF Next, vars
    <2> QED BY <2>4 DEF PlainInv
  <1>1. /\ inTransaction = FALSE /\ tx = FALSE /\ ToldIn(durable)
        /\ \A c \in Callers : pc[c] \notin {"undoKey", "undoAll"}
        /\ \A c \in Callers : prog[c] \in PlainProgs
    BY DEF PlainInv, TInv, Vals, TypeOK, CallerInv, CallerOK
  <1>2. PICK S : S = durable
    OBVIOUS
  <1>3. ASSUME ToldIn(S)', durable' = durable, ~inTransaction', ~tx',
               \A c \in Callers : pc'[c] \notin {"undoKey", "undoAll"}
        PROVE  PlainInv'
    BY <1>2, <1>3 DEF PlainInv, ToldIn
  <1>4. ASSUME NEW c \in Callers, NEW kind \in Kinds, operation(c, kind)
        PROVE  PlainInv'
    <2>1. ToldIn(S)'
      BY <1>1, <1>2, <1>4, OperationTold
    <2> QED BY <1>1, <1>3, <1>4, <2>1 DEF operation, callerFrame, TInv, Vals, TypeOK
  <1>5. ASSUME NEW c \in Callers, caller(c)
        PROVE  PlainInv'
    <2>1. ToldIn(S)'
      BY <1>1, <1>2, <1>5, CallerTold
    <2>2. ~beginTransaction(c)
      BY <1>1, PlainProgsBegin DEF beginTransaction, TInv, CallerInv, CallerOK
    <2>3. ~inTransaction' /\ \A d \in Callers \ {c} : pc'[d] = pc[d]
      BY <1>1, <1>5, <2>2 DEF caller, lockBegin, write, commit, return, exception, answered,
           handleException, rolledBack, addTask, next, goesOn, throws, TInv, Vals, TypeOK
    <2>4. pc'[c] \notin {"undoKey", "undoAll"}
      BY <1>1, <1>5, <2>2 DEF caller, lockBegin, write, commit, return, exception, answered,
           handleException, rolledBack, Answered, addTask, next, goesOn, throws, TInv, Vals, TypeOK
    <2>5. UNCHANGED <<durable, tx>>
      BY <1>5 DEF caller, callerFrame, lockBegin, beginTransaction, write, commit, return,
                  exception, answered, handleException, rolledBack
    <2> QED BY <1>1, <1>3, <2>1, <2>3, <2>4, <2>5
  <1>6. CASE runTask
    <2>1. PICK task : task = Head(taskQueue)
      OBVIOUS
    <2>2. /\ task \in Tasks /\ task.stmt \in Stmts
          /\ \/ task = [who |-> Timer, stmt |-> "backup"]
             \/ \E c \in Callers : Waits(c) /\ task = [who |-> c, stmt |-> Asked(c)]
      BY <1>6, <2>1, HeadTask DEF runTask, Tasks
    <2>3. task.stmt \in WriteStmts \cup {"backup"}
      <3>1. ASSUME NEW c \in Callers, Waits(c)
            PROVE  Asked(c) \in WriteStmts
        <4>1. pc[c] = "wait" /\ prog[c] # <<>> /\ prog[c] # Throw
          BY <1>1, <3>1 DEF Waits, AtCaller, TInv, CallerInv, CallerOK
        <4>2. Head(prog[c]) \in StmtsToAsk \cup {"throw"} /\ (Head(prog[c]) = "throw" <=> prog[c] = Throw)
          BY <4>1, ProgOf, ProgFacts
        <4> QED BY <1>1, <4>1, <4>2, PlainProgsBegin DEF Asked, StmtsToAsk
      <3> QED BY <2>2, <3>1
    <2>4. tx' = FALSE /\ durable \subseteq durable'
      <3>1. CASE Execute(task)
        BY <1>1, <2>2, <2>3, <3>1, Executed DEF WriteStmts
      <3>2. CASE UNCHANGED connVars
        BY <1>1, <3>2
      <3> QED BY <1>6, <2>1, <3>1, <3>2 DEF runTask
    <2>5. PICK T : T = durable'
      OBVIOUS
    <2>6. ASSUME NEW c \in Callers, Waits(c), Asked(c) \in WriteStmts,
                 task = [who |-> c, stmt |-> Asked(c)], reply'[c] = "ok"
          PROVE  Write(c, Asked(c)) \in T
      <3>1. c # Timer /\ reply[c] # "ok"
        BY <2>6, CallersAssumption DEF Timer, Waits
      <3>2. task.who = c /\ task.stmt = Asked(c)
        BY <2>6
      <3>3. \A value : Answer(task, value) = [reply EXCEPT ![c] = value]
        BY <3>1, <3>2 DEF Answer
      <3>4. Execute(task)
        BY <1>6, <2>1, <2>6, <3>2, <3>3 DEF runTask, TInv, Vals, TypeOK
      <3> QED BY <1>1, <2>2, <2>5, <2>6, <3>2, <3>4, Executed
    <2>7. ToldIn(T)'
      BY <1>1, <1>2, <1>6, <2>1, <2>4, <2>5, <2>6, RunTold
    <2>8. ToldIn(durable)'
      BY <2>5, <2>7 DEF ToldIn
    <2> QED BY <1>1, <1>6, <2>4, <2>8 DEF PlainInv, runTask
  <1>7. CASE timerNotify \/ shutdownDriver \/ Goes \/ Closes \/ UNCHANGED vars
    <2>1. ToldIn(S)'
      BY <1>1, <1>2, <1>7, OthersTold
    <2>2. UNCHANGED <<durable, inTransaction, pc>> /\ ~tx'
      BY <1>1, <1>7 DEF timerNotify, shutdownDriver, Goes, Closes, vars
    <2> QED BY <1>1, <1>3, <2>1, <2>2
  <1> QED BY <1>4, <1>5, <1>6, <1>7, ThreadSteps DEF Next

-----------------------------------------------------------------------------
(* As long as no statement fails and the database is open.                 *)

CallerKeeps ==
    UNCHANGED <<errors, taskQueueOpen, use_transaction, dirty, connVars, main>>

LEMMA CallerKept ==
  ASSUME NEW c \in Callers, caller(c) \/ \E kind \in Kinds : operation(c, kind)
  PROVE  CallerKeeps
  BY DEF CallerKeeps, operation, caller, callerFrame, lockBegin, beginTransaction, write, commit,
         return, exception, answered, handleException, rolledBack

LEMMA StillQuiet ==
  ASSUME TInv, [Next]_vars, errors' = 0, taskQueueOpen'
  PROVE  errors = 0 /\ taskQueueOpen /\ ~Closes
  <1>1. ASSUME UNCHANGED <<errors, taskQueueOpen>>
        PROVE  errors = 0 /\ taskQueueOpen /\ ~Closes
    BY <1>1 DEF Closes
  <1>2. CASE runTask
    <2>1. errors' = errors \/ errors' = errors + 1
      BY <1>2 DEF runTask
    <2>2. errors \in Nat
      BY DEF TInv, Vals
    <2> QED BY <1>2, <2>1, <2>2 DEF runTask, Closes
  <1>3. ~Closes
    BY DEF Closes
  <1>4. timerNotify \/ shutdownDriver \/ Goes => UNCHANGED <<errors, taskQueueOpen>>
    BY DEF timerNotify, shutdownDriver, Goes
  <1> QED BY <1>1, <1>2, <1>3, <1>4, CallerKept, ThreadSteps DEF Next, vars, CallerKeeps

LEMMA CallerQuiet ==
  ASSUME TInv, NoFailure, taskQueueOpen, NEW c \in Callers,
         caller(c) \/ \E kind \in Kinds : operation(c, kind)
  PROVE  NoFailure' /\ ~handleException(c) /\ ~rolledBack(c)
  <1>1. ~handleException(c) /\ ~rolledBack(c)
    BY DEF NoFailure, FailsNot, handleException, rolledBack, Failed, Answered, Done
  <1>2. /\ \A d \in Callers \ {c} : pc'[d] = pc[d] /\ reply'[d] = reply[d] /\ prog'[d] = prog[d]
        /\ \/ pc'[c] \in {"idle", "next", "poll"}
           \/ pc'[c] = "wait" /\ reply'[c] = "none"
    <2>1. CASE \E kind \in Kinds : operation(c, kind)
      BY <2>1 DEF operation, TInv, Vals, TypeOK
    <2>2. CASE caller(c)
      <3>1. CASE lockBegin(c) \/ return(c) \/ exception(c) \/ answered(c)
        BY <3>1 DEF lockBegin, return, exception, answered, next, throws, TInv, Vals, TypeOK
      <3>2. ASSUME NEW stmt, addTask(c, stmt, "wait"), UNCHANGED prog
            PROVE  /\ \A d \in Callers \ {c} : pc'[d] = pc[d] /\ reply'[d] = reply[d] /\ prog'[d] = prog[d]
                   /\ pc'[c] = "wait" /\ reply'[c] = "none"
        BY <3>2 DEF addTask, MayPush, TInv, Vals, TypeOK
      <3>3. CASE beginTransaction(c) \/ write(c)
        BY <3>2, <3>3 DEF beginTransaction, write
      <3>4. CASE commit(c)
        <4>1. CASE inTransaction
          BY <3>2, <3>4, <4>1 DEF commit
        <4>2. CASE ~inTransaction
          BY <3>4, <4>2 DEF commit, NextIs, TInv, Vals, TypeOK
        <4> QED BY <4>1, <4>2
      <3> QED BY <1>1, <2>2, <3>1, <3>3, <3>4 DEF caller
    <2> QED BY <2>1, <2>2
  <1> QED BY <1>1, <1>2 DEF NoFailure, FailsNot, Done

(* Without failures there is no ROLLBACK, and a COMMIT finds a transaction *)
(* or fails without an effect: what is written stays.                      *)
LEMMA StepQ ==
  ASSUME TInv, QuietInv, [Next]_vars
  PROVE  QuietInv'
  <1> SUFFICES ASSUME errors' = 0, taskQueueOpen'
               PROVE  NoFailure' /\ ToldIn(durable \cup txWrites)'
    BY DEF QuietInv
  <1>1. /\ errors = 0 /\ taskQueueOpen /\ ~Closes
        /\ NoFailure /\ ToldIn(durable \cup txWrites)
    BY StillQuiet DEF QuietInv
  <1>2. PICK S : S = durable \cup txWrites
    OBVIOUS
  <1>3. ASSUME ToldIn(S)', UNCHANGED <<durable, txWrites>>
        PROVE  ToldIn(durable \cup txWrites)'
    BY <1>2, <1>3 DEF ToldIn
  <1>4. ASSUME NEW c \in Callers, NEW kind \in Kinds, operation(c, kind)
        PROVE  NoFailure' /\ ToldIn(durable \cup txWrites)'
    <2>1. ToldIn(S)'
      BY <1>1, <1>2, <1>4, OperationTold
    <2> QED BY <1>1, <1>3, <1>4, <2>1, CallerQuiet, CallerKept DEF CallerKeeps
  <1>5. ASSUME NEW c \in Callers, caller(c)
        PROVE  NoFailure' /\ ToldIn(durable \cup txWrites)'
    <2>1. ToldIn(S)'
      BY <1>1, <1>2, <1>5, CallerTold
    <2> QED BY <1>1, <1>3, <1>5, <2>1, CallerQuiet, CallerKept DEF CallerKeeps
  <1>6. CASE runTask
    <2>1. PICK task : task = Head(taskQueue)
      OBVIOUS
    <2>2. /\ task \in Tasks /\ task.stmt \in Stmts
          /\ \/ task = [who |-> Timer, stmt |-> "backup"]
             \/ \E c \in Callers : Waits(c) /\ task = [who |-> c, stmt |-> Asked(c)]
      BY <1>6, <2>1, HeadTask DEF runTask, Tasks
    <2>3. \/ Execute(task) /\ reply' = Answer(task, "ok")
          \/ /\ ~Possible(task.stmt) /\ reply' = Answer(task, "error") /\ UNCHANGED connVars
      <3>1. errors' # errors + 1
        BY <1>1
      <3> QED BY <1>6, <2>1, <3>1 DEF runTask
    <2>4. task.stmt # "rollback"
      <3>1. ASSUME NEW c \in Callers, Waits(c)
            PROVE  Asked(c) # "rollback"
        <4>1. pc[c] = "wait" /\ prog[c] # <<>>
          BY <1>1, <3>1 DEF NoFailure, FailsNot, Waits, AtCaller, TInv, CallerInv, CallerOK
        <4> QED BY <4>1, ProgOf DEF Asked, StmtsToAsk, WriteStmts
      <3> QED BY <2>2, <3>1
    <2>5. PICK T : T = durable' \cup txWrites'
      OBVIOUS
    <2>6. S \subseteq T
      <3>1. CASE Execute(task)
        <4>1. task.stmt \in {"begin", "commit", "backup"} \cup WriteStmts
          BY <2>2, <2>4 DEF Stmts, StmtsToAsk
        <4>2. CASE task.stmt \in {"begin", "commit", "backup"}
          BY <1>2, <2>2, <2>5, <3>1, <4>2, Executed
        <4>3. CASE task.stmt \in WriteStmts
          BY <1>2, <2>2, <2>5, <3>1, <4>3, Executed
        <4> QED BY <4>1, <4>2, <4>3
      <3>2. CASE UNCHANGED connVars
        BY <1>2, <2>5, <3>2
      <3> QED BY <2>3, <3>1, <3>2
    <2>7. ASSUME NEW c \in Callers, Waits(c), task = [who |-> c, stmt |-> Asked(c)]
          PROVE  /\ \E value \in {"ok", "error"} : reply' = [reply EXCEPT ![c] = value]
                 /\ Asked(c) \in WriteStmts => reply' = [reply EXCEPT ![c] = "ok"] /\ Execute(task)
      <3>1. c # Timer /\ task.who = c /\ task.stmt = Asked(c)
        BY <2>7, CallersAssumption DEF Timer
      <3>2. \A value : Answer(task, value) = [reply EXCEPT ![c] = value]
        BY <3>1 DEF Answer
      <3>3. Asked(c) \in WriteStmts => Possible(task.stmt)
        BY <3>1 DEF Possible, WriteStmts
      <3> QED BY <2>3, <3>2, <3>3
    <2>8. ToldIn(T)'
      <3>1. ASSUME NEW c \in Callers, Waits(c), Asked(c) \in WriteStmts,
                   task = [who |-> c, stmt |-> Asked(c)]
            PROVE  Write(c, Asked(c)) \in T
        <4>1. task.who = c /\ task.stmt = Asked(c)
          BY <3>1
        <4>2. Execute(task)
          BY <2>7, <3>1
        <4>3. IF tx THEN txWrites' = txWrites \cup {Write(task.who, task.stmt)}
                    ELSE durable' = durable \cup {Write(task.who, task.stmt)}
          BY <2>2, <3>1, <4>1, <4>2, Executed
        <4> QED BY <2>5, <4>1, <4>3
      <3> QED BY <1>1, <1>2, <1>6, <2>1, <2>6, <3>1, RunTold
    <2>9. NoFailure'
      <3>1. UNCHANGED <<pc, prog>>
        BY <1>6 DEF runTask
      <3>2. CASE task = [who |-> Timer, stmt |-> "backup"]
        <4>1. reply' = reply
          BY <2>3, <3>2 DEF Answer
        <4> QED BY <1>1, <3>1, <4>1 DEF NoFailure, FailsNot, Done
      <3>3. ASSUME NEW c \in Callers, Waits(c), task = [who |-> c, stmt |-> Asked(c)]
            PROVE  NoFailure'
        <4>1. \A d \in Callers \ {c} : reply'[d] = reply[d]
          BY <2>7, <3>3 DEF TInv, Vals, TypeOK
        <4>2. Head(prog[c]) \in WriteStmts => reply'[c] = "ok"
          <5>1. pc[c] = "wait"
            BY <1>1, <3>3 DEF NoFailure, FailsNot, Waits, AtCaller
          <5>2. Asked(c) = Head(prog[c])
            BY <5>1 DEF Asked
          <5> QED BY <2>7, <3>3, <5>2 DEF TInv, Vals, TypeOK
        <4> QED BY <1>1, <3>1, <4>1, <4>2 DEF NoFailure, FailsNot, Done
      <3> QED BY <2>2, <3>2, <3>3
    <2>10. ToldIn(durable \cup txWrites)'
      BY <2>5, <2>8 DEF ToldIn
    <2> QED BY <2>9, <2>10
  <1>7. CASE timerNotify \/ shutdownDriver \/ Goes \/ UNCHANGED vars
    <2>1. ToldIn(S)'
      BY <1>1, <1>2, <1>7, OthersTold
    <2>2. UNCHANGED <<durable, txWrites, pc, prog, reply>>
      BY <1>7 DEF timerNotify, shutdownDriver, Goes, vars
    <2> QED BY <1>1, <1>3, <2>1, <2>2 DEF NoFailure, FailsNot, Done
  <1> QED BY <1>1, <1>4, <1>5, <1>6, <1>7, ThreadSteps DEF Next

-----------------------------------------------------------------------------
(* With transactions, as long as no statement fails and no wait gives up.  *)

LEMMA TxDistinct ==
  /\ <<>> \notin {Single, Begin, Write1, Write2, Commit, BeginThrow, Throw}
  /\ Single \notin {Begin, Write1, Write2, Commit, BeginThrow, Throw}
  /\ Begin \notin {Write1, Write2, Commit, BeginThrow, Throw}
  /\ Write1 \notin {Write2, Commit, BeginThrow, Throw}
  /\ Write2 \notin {Commit, BeginThrow, Throw}
  /\ Commit \notin {BeginThrow, Throw}
  /\ BeginThrow # Throw
  BY ProgTable, ProgsNotEmpty, ProgsDiffer

LEMMA TxProgFacts ==
  ASSUME TInv, use_transaction, NEW c \in Callers
  PROVE  /\ prog[c] \in {<<>>, Single, Begin, Write1, Write2, Commit, BeginThrow, Throw}
         /\ prog[c] # <<>> =>
              /\ Head(prog[c]) = "begin" <=> prog[c] \in {Begin, BeginThrow}
              /\ Head(prog[c]) = "commit" <=> prog[c] = Commit
              /\ Head(prog[c]) = "throw" <=> prog[c] = Throw
              /\ Head(prog[c]) = "write" <=> prog[c] = Single
              /\ Head(prog[c]) = "write1" <=> prog[c] = Write1
              /\ Head(prog[c]) = "write2" <=> prog[c] = Write2
  <1>1. prog[c] \in {<<>>, Single, Begin, Write1, Write2, Commit, BeginThrow, Throw}
    BY ProgOf DEF TxProgs
  <1> QED BY <1>1, ProgTable, TxDistinct

LEMMA TurnFrame ==
  ASSUME TurnInv, NEW c \in Callers, UNCHANGED <<tx, txWrites>>,
         \A d \in Callers \ {c} :
             pc'[d] = pc[d] /\ reply'[d] = reply[d] /\ prog'[d] = prog[d] /\ ops'[d] = ops[d],
         TurnOK(c)', ~inTransaction' => ~tx',
         Owns(c)' => Owns(c) \/ \A d \in Callers \ {c} : ~Owns(d),
         inTransaction' = inTransaction \/ \A d \in Callers \ {c} : ~Owns(d)
  PROVE  TurnInv'
  <1>1. \A d \in Callers \ {c} : (Owns(d)' <=> Owns(d)) /\ (Done(d)' <=> Done(d))
    BY DEF Owns, Done
  <1>2. \A d \in Callers \ {c} : TurnOK(d)'
    <2> SUFFICES ASSUME NEW d \in Callers \ {c} PROVE TurnOK(d)'
      OBVIOUS
    <2>1. TurnOK(d) /\ pc'[d] = pc[d] /\ prog'[d] = prog[d] /\ ops'[d] = ops[d]
      BY DEF TurnInv
    <2>2. Owns(d)' => inTransaction'
      BY <1>1, <2>1 DEF TurnOK
    <2> QED BY <1>1, <2>1, <2>2 DEF TurnOK
  <1>3. \A d, e \in Callers : Owns(d)' /\ Owns(e)' => d = e
    BY <1>1 DEF TurnInv
  <1> QED BY <1>2, <1>3 DEF TurnInv

(* A caller whose program is not begun has written nothing.                *)
LEMMA NoWritesYet ==
  ASSUME TurnInv, NEW c \in Callers, prog[c] \notin {Write1, Write2, Commit}, NEW n \in 1 .. MaxOps
  PROVE  <<c, n, "write1">> \notin txWrites /\ <<c, n, "write2">> \notin txWrites
  BY DEF TurnInv, TurnOK

LEMMA OperationTurn ==
  ASSUME TInv, use_transaction, TurnInv, NEW c \in Callers, NEW kind \in Kinds, operation(c, kind)
  PROVE  TurnInv'
  <1>1. Program(kind) \in {Single, Begin, BeginThrow}
    BY DEF Program, Kinds, Single, Begin, BeginThrow
  <1>2. prog[c] = <<>>
    BY DEF operation, TInv, CallerInv, CallerOK
  <1>3. pc'[c] = "next" /\ prog'[c] \in {Single, Begin, BeginThrow}
    BY <1>1 DEF operation, TInv, Vals, TypeOK
  <1>4. /\ UNCHANGED <<tx, txWrites, inTransaction>>
        /\ \A d \in Callers \ {c} :
             pc'[d] = pc[d] /\ reply'[d] = reply[d] /\ prog'[d] = prog[d] /\ ops'[d] = ops[d]
    BY DEF operation, callerFrame, TInv, Vals, TypeOK
  <1>5. \A n \in 1 .. MaxOps : <<c, n, "write1">> \notin txWrites /\ <<c, n, "write2">> \notin txWrites
    BY <1>2, TxDistinct, NoWritesYet
  <1>6. ~Owns(c)'
    BY <1>3, TxDistinct DEF Owns
  <1>7. TurnOK(c)'
    BY <1>3, <1>4, <1>5, <1>6, TxDistinct DEF TurnOK
  <1> QED BY <1>4, <1>6, <1>7, TurnFrame DEF TurnInv

LEMMA BeginTurn ==
  ASSUME TInv, use_transaction, taskQueueOpen, TurnInv, NEW c \in Callers, beginTransaction(c), ~broken'
  PROVE  TurnInv'
  <1>1. ~inTransaction /\ ~tx /\ inTransaction'
    BY DEF beginTransaction, MayBegin, TurnInv
  <1>2. \A d \in Callers : ~Owns(d)
    BY <1>1 DEF TurnInv, TurnOK
  <1>3. prog[c] \in {Begin, BeginThrow}
    BY DEF beginTransaction, TInv, CallerInv, CallerOK
  <1>4. /\ UNCHANGED <<tx, txWrites, prog, ops>> /\ pc'[c] = "wait" /\ reply'[c] = "none"
        /\ \A d \in Callers \ {c} : pc'[d] = pc[d] /\ reply'[d] = reply[d]
    BY DEF beginTransaction, callerFrame, addTask, MayPush, TInv, Vals, TypeOK
  <1>5. \A n \in 1 .. MaxOps : <<c, n, "write1">> \notin txWrites /\ <<c, n, "write2">> \notin txWrites
    BY <1>3, TxDistinct, NoWritesYet
  <1>6. TurnOK(c)'
    BY <1>1, <1>3, <1>4, <1>5, TxDistinct DEF TurnOK, Owns, Done
  <1> QED BY <1>1, <1>2, <1>4, <1>6, TurnFrame

LEMMA AnsweredTurn ==
  ASSUME TInv, use_transaction, TurnInv, NEW c \in Callers, answered(c)
  PROVE  TurnInv'
  <1>0. Answered(c, "wait")
    BY DEF answered
  <1>1. Done(c) /\ prog[c] # <<>> /\ TurnOK(c)
    BY <1>0 DEF Answered, Done, TInv, CallerInv, CallerOK, TurnInv
  <1>2. /\ UNCHANGED <<tx, txWrites, ops>> /\ pc'[c] = "next" /\ prog'[c] = Tail(prog[c])
        /\ \A d \in Callers \ {c} : pc'[d] = pc[d] /\ reply'[d] = reply[d] /\ prog'[d] = prog[d]
    BY DEF answered, callerFrame, next, TInv, Vals, TypeOK
  <1>5. inTransaction' = (inTransaction /\ Head(prog[c]) # "commit")
    BY DEF answered
  <1>3. CASE prog[c] = Commit
    <2>1. prog'[c] = <<>> /\ ~inTransaction' /\ ~tx /\ Owns(c)
      BY <1>1, <1>2, <1>3, <1>5, ProgTable DEF TurnOK, Owns
    <2>2. \A d \in Callers \ {c} : ~Owns(d)
      BY <2>1 DEF TurnInv
    <2>3. txWrites = {}
      BY <2>1 DEF TInv, Vals
    <2>4. TurnOK(c)' /\ ~Owns(c)'
      BY <1>2, <2>1, <2>3, TxDistinct DEF TurnOK, Owns
    <2> QED BY <1>2, <2>1, <2>2, <2>4, TurnFrame
  <1>4. CASE prog[c] # Commit
    <2>1. inTransaction' = inTransaction
      BY <1>1, <1>4, <1>5, TxProgFacts DEF TInv, Vals, TypeOK
    <2>2. ASSUME prog[c] \in {Begin, BeginThrow}
          PROVE  TurnOK(c)' /\ Owns(c)
      <3>1. prog'[c] \in {Write1, Throw} /\ Owns(c) /\ tx /\ inTransaction
        BY <1>1, <1>2, <2>2, ProgTable DEF TurnOK, Owns, Done
      <3>2. \A n \in 1 .. MaxOps : <<c, n, "write1">> \notin txWrites /\ <<c, n, "write2">> \notin txWrites
        BY <2>2, TxDistinct, NoWritesYet
      <3>3. inTransaction' /\ tx' /\ txWrites' = txWrites /\ pc'[c] = "next"
        BY <1>2, <2>1, <3>1
      <3>4. prog'[c] \notin {Begin, BeginThrow, Write2, Commit}
        BY <3>1, TxDistinct
      <3> QED BY <3>1, <3>2, <3>3, <3>4 DEF TurnOK, Done
    <2>3. ASSUME prog[c] \in {Write1, Write2}
          PROVE  TurnOK(c)' /\ Owns(c)
      <3>1. /\ prog[c] = Write1 => prog'[c] = Write2
            /\ prog[c] = Write2 => prog'[c] = Commit
            /\ Owns(c) /\ tx /\ inTransaction /\ ~Done(c)'
        BY <1>1, <1>2, <2>3, ProgTable DEF TurnOK, Owns, Done
      <3>2. inTransaction' /\ tx' /\ txWrites' = txWrites /\ ops'[c] = ops[c] /\ pc'[c] = "next"
        BY <1>2, <2>1, <3>1
      <3>3. \A n \in 1 .. MaxOps :
               <<c, n, "write1">> \in txWrites \/ <<c, n, "write2">> \in txWrites => n = ops[c]
        BY <1>1 DEF TurnOK
      <3>4. CASE prog[c] = Write1
        <4>1. prog'[c] = Write2 /\ <<c, ops[c], "write1">> \in txWrites
          BY <1>1, <3>1, <3>4 DEF TurnOK
        <4>2. prog'[c] \notin {Begin, BeginThrow, Write1, Commit}
          BY <4>1, TxDistinct
        <4> QED BY <3>1, <3>2, <3>3, <4>1, <4>2 DEF TurnOK
      <3>5. CASE prog[c] = Write2
        <4>1. /\ prog'[c] = Commit
              /\ <<c, ops[c], "write1">> \in txWrites /\ <<c, ops[c], "write2">> \in txWrites
          BY <1>1, <3>1, <3>5 DEF TurnOK
        <4>2. prog'[c] \notin {Begin, BeginThrow, Write1, Write2}
          BY <4>1, TxDistinct
        <4> QED BY <3>1, <3>2, <3>3, <4>1, <4>2 DEF TurnOK
      <3> QED BY <2>3, <3>4, <3>5
    <2>4. ASSUME prog[c] \in {Single, Throw}
          PROVE  TurnOK(c)' /\ ~Owns(c)'
      <3>1. prog'[c] = <<>>
        BY <1>2, <2>4, ProgTable
      <3>2. \A n \in 1 .. MaxOps : <<c, n, "write1">> \notin txWrites /\ <<c, n, "write2">> \notin txWrites
        BY <2>4, TxDistinct, NoWritesYet
      <3> QED BY <1>2, <3>1, <3>2, TxDistinct DEF TurnOK, Owns
    <2>5. prog[c] \in {Begin, BeginThrow} \cup {Write1, Write2} \cup {Single, Throw}
      BY <1>1, <1>4, TxProgFacts
    <2>6. TurnOK(c)' /\ (Owns(c)' => Owns(c))
      BY <2>2, <2>3, <2>4, <2>5
    <2> QED BY <1>2, <2>1, <2>6, TurnFrame DEF TurnInv
  <1> QED BY <1>3, <1>4

LEMMA CallerTurn ==
  ASSUME TInv, use_transaction, taskQueueOpen, NoFailure, TurnInv, NEW c \in Callers,
         caller(c), ~broken'
  PROVE  TurnInv'
  <1>1. TurnOK(c) /\ prog[c] \in {<<>>, Single, Begin, Write1, Write2, Commit, BeginThrow, Throw}
    BY TxProgFacts DEF TurnInv
  <1>2. CASE lockBegin(c)
    <2>1. /\ UNCHANGED <<tx, txWrites, prog, ops, reply, inTransaction>> /\ pc[c] = "next" /\ pc'[c] = "poll"
          /\ \A d \in Callers \ {c} : pc'[d] = pc[d]
      BY <1>2 DEF lockBegin, NextIs, callerFrame, TInv, Vals, TypeOK
    <2>2. TurnOK(c)' /\ (Owns(c)' => Owns(c))
      BY <1>1, <2>1 DEF TurnOK, Owns, Done
    <2> QED BY <2>1, <2>2, TurnFrame DEF TurnInv
  <1>3. ASSUME NEW stmt, addTask(c, stmt, "wait"), UNCHANGED <<tx, txWrites, prog, ops, inTransaction>>,
               pc[c] = "next", prog[c] \notin {Begin, BeginThrow}
        PROVE  TurnInv'
    <2>1. /\ pc'[c] = "wait" /\ reply'[c] = "none"
          /\ \A d \in Callers \ {c} : pc'[d] = pc[d] /\ reply'[d] = reply[d]
      BY <1>3 DEF addTask, MayPush, TInv, Vals, TypeOK
    <2>2. TurnOK(c)' /\ (Owns(c)' => Owns(c))
      BY <1>1, <1>3, <2>1 DEF TurnOK, Owns, Done
    <2> QED BY <1>3, <2>1, <2>2, TurnFrame DEF TurnInv
  <1>4. CASE write(c)
    <2>1. prog[c] \notin {Begin, BeginThrow}
      BY <1>4, ProgTable DEF write, NextIs, WriteStmts
    <2> QED BY <1>3, <1>4, <2>1 DEF write, NextIs, callerFrame
  <1>5. CASE commit(c)
    <2>1. prog[c] = Commit /\ pc[c] = "next"
      BY <1>5, TxProgFacts DEF commit, NextIs
    <2>2. inTransaction /\ prog[c] \notin {Begin, BeginThrow}
      BY <1>1, <2>1, TxDistinct DEF TurnOK, Owns
    <2> QED BY <1>3, <1>5, <2>1, <2>2 DEF commit, callerFrame
  <1>6. CASE return(c)
    <2>1. /\ UNCHANGED <<tx, txWrites, prog, ops, reply, inTransaction>> /\ pc[c] = "next" /\ pc'[c] = "idle"
          /\ \A d \in Callers \ {c} : pc'[d] = pc[d]
      BY <1>6 DEF return, callerFrame, TInv, Vals, TypeOK
    <2>2. TurnOK(c)' /\ (Owns(c)' => Owns(c))
      BY <1>1, <2>1 DEF TurnOK, Owns, Done
    <2> QED BY <2>1, <2>2, TurnFrame DEF TurnInv
  <1>7. CASE exception(c)
    <2>1. /\ UNCHANGED <<tx, txWrites, ops, reply, inTransaction>> /\ pc'[c] = "idle" /\ prog'[c] = <<>>
          /\ prog[c] = Throw
          /\ \A d \in Callers \ {c} : pc'[d] = pc[d] /\ prog'[d] = prog[d]
      BY <1>7, TxProgFacts DEF exception, NextIs, throws, callerFrame, TInv, Vals, TypeOK
    <2>2. \A n \in 1 .. MaxOps : <<c, n, "write1">> \notin txWrites /\ <<c, n, "write2">> \notin txWrites
      BY <2>1, TxDistinct, NoWritesYet
    <2>3. TurnOK(c)' /\ ~Owns(c)'
      BY <2>1, <2>2, TxDistinct DEF TurnOK, Owns
    <2> QED BY <2>1, <2>3, TurnFrame DEF TurnInv
  <1> QED BY <1>2, <1>4, <1>5, <1>6, <1>7, BeginTurn, AnsweredTurn, CallerQuiet DEF caller

(* A task of a caller that is not the owner of the turn is a single write. *)
LEMMA RunTurn ==
  ASSUME TInv, use_transaction, NoFailure, TurnInv, Balanced, runTask, errors' # errors + 1
  PROVE  TurnInv' /\ Balanced'
  <1>1. PICK task : task = Head(taskQueue)
    OBVIOUS
  <1>2. /\ task.stmt \in Stmts
        /\ \/ task = [who |-> Timer, stmt |-> "backup"]
           \/ \E c \in Callers : Waits(c) /\ task = [who |-> c, stmt |-> Asked(c)]
    BY <1>1, HeadTask DEF runTask, Tasks
  <1>3. /\ UNCHANGED <<use_transaction, inTransaction, pc, prog, ops>>
        /\ \/ Execute(task) /\ reply' = Answer(task, "ok")
           \/ /\ ~Possible(task.stmt) /\ reply' = Answer(task, "error") /\ UNCHANGED connVars
    BY <1>1 DEF runTask
  <1>4. CASE task = [who |-> Timer, stmt |-> "backup"]
    <2>1. task.stmt = "backup" /\ task.who = Timer
      BY <1>4
    <2>2. UNCHANGED <<reply, tx, txWrites, durable>>
      BY <1>2, <1>3, <2>1, Executed DEF Answer
    <2>3. \A d \in Callers : TurnOK(d)'
      BY <1>3, <2>2 DEF TurnInv, TurnOK, Owns, Done
    <2> QED BY <1>3, <2>2, <2>3 DEF TurnInv, Owns, Balanced
  <1>5. ASSUME NEW c \in Callers, Waits(c), task = [who |-> c, stmt |-> Asked(c)]
        PROVE  TurnInv' /\ Balanced'
    <2>1. pc[c] = "wait" /\ prog[c] # <<>> /\ ~Done(c) /\ Asked(c) = Head(prog[c]) /\ prog[c] # Throw
      BY <1>5 DEF NoFailure, FailsNot, Waits, AtCaller, Done, Asked, TInv, CallerInv, CallerOK
    <2>2. task.who = c /\ task.stmt = Head(prog[c]) /\ c # Timer
      BY <1>5, <2>1, CallersAssumption DEF Timer
    <2>3. prog[c] \in {Single, Begin, BeginThrow, Write1, Write2, Commit}
      BY <2>1, TxProgFacts
    <2>4. TurnOK(c)
      BY DEF TurnInv
    <2>5. Possible(task.stmt)
      <3>1. CASE prog[c] \in {Begin, BeginThrow}
        BY <2>1, <2>2, <2>4, <3>1, ProgTable DEF Possible, TurnOK
      <3>2. CASE prog[c] = Commit
        BY <2>1, <2>2, <2>4, <3>2, ProgTable DEF Possible, TurnOK
      <3>3. CASE prog[c] \in {Single, Write1, Write2}
        BY <2>2, <3>3, ProgTable DEF Possible
      <3> QED BY <2>3, <3>1, <3>2, <3>3
    <2>6. Execute(task) /\ reply' = [reply EXCEPT ![c] = "ok"]
      BY <1>3, <2>2, <2>5 DEF Answer
    <2>7. \A d \in Callers \ {c} : reply'[d] = reply[d]
      BY <2>6 DEF TInv, Vals, TypeOK
    <2>8. Done(c)' /\ \A d \in Callers \ {c} : Done(d)' <=> Done(d)
      BY <1>3, <2>1, <2>6, <2>7 DEF Done, TInv, Vals, TypeOK
    <2>9. \A d \in Callers : Owns(d)' <=> Owns(d)
      BY <1>3 DEF Owns
    <2>10. ops[c] \in 1 .. MaxOps
      BY <2>1, ProgOf
    <2>11. CASE prog[c] \in {Begin, BeginThrow}
      <3>1. task.stmt = "begin"
        BY <2>2, <2>11, ProgTable
      <3>2. tx' = TRUE /\ UNCHANGED <<txWrites, durable>>
        BY <1>2, <2>6, <3>1, Executed
      <3>3. Owns(c) /\ inTransaction
        BY <2>1, <2>4, <2>11 DEF Owns, TurnOK
      <3>4. TurnOK(c)'
        BY <1>3, <2>4, <2>8, <2>11, <3>2, <3>3, TxDistinct DEF TurnOK
      <3>5. \A d \in Callers \ {c} : TurnOK(d)'
        <4> SUFFICES ASSUME NEW d \in Callers \ {c} PROVE TurnOK(d)'
          OBVIOUS
        <4>1. ~Owns(d) /\ TurnOK(d)
          BY <3>3 DEF TurnInv
        <4>2. /\ prog[d] \notin {Write1, Write2, Commit}
              /\ ~(pc[d] = "wait" /\ prog[d] \in {Begin, BeginThrow})
          BY <4>1 DEF Owns
        <4> QED BY <1>3, <2>9, <3>2, <4>1, <4>2 DEF TurnOK
      <3> QED BY <1>3, <2>9, <3>2, <3>3, <3>4, <3>5 DEF TurnInv, Balanced
    <2>12. CASE prog[c] = Commit
      <3>1. task.stmt = "commit" /\ tx /\ Owns(c) /\ inTransaction
        BY <2>1, <2>2, <2>4, <2>12, ProgTable DEF TurnOK, Owns
      <3>2. tx' = FALSE /\ txWrites' = {} /\ durable' = durable \cup txWrites
        BY <1>2, <2>6, <3>1, Executed
      <3>3. TurnOK(c)'
        BY <1>3, <2>8, <2>9, <2>12, <3>1, <3>2, TxDistinct DEF TurnOK
      <3>4. \A d \in Callers \ {c} : TurnOK(d)' /\ ~Owns(d) /\ prog[d] \notin {Write1, Write2, Commit}
        <4> SUFFICES ASSUME NEW d \in Callers \ {c}
                     PROVE  TurnOK(d)' /\ ~Owns(d) /\ prog[d] \notin {Write1, Write2, Commit}
          OBVIOUS
        <4>1. ~Owns(d) /\ TurnOK(d)
          BY <3>1 DEF TurnInv
        <4>2. /\ prog[d] \notin {Write1, Write2, Commit}
              /\ ~(pc[d] = "wait" /\ prog[d] \in {Begin, BeginThrow})
          BY <4>1 DEF Owns
        <4> QED BY <1>3, <2>9, <3>2, <4>1, <4>2 DEF TurnOK
      <3>5. Balanced'
        <4> SUFFICES ASSUME NEW d \in Callers, NEW n \in 1 .. MaxOps
                     PROVE  <<d, n, "write1">> \in durable' <=> <<d, n, "write2">> \in durable'
          BY DEF Balanced
        <4>1. <<d, n, "write1">> \in txWrites <=> <<d, n, "write2">> \in txWrites
          <5>1. CASE d = c
            BY <2>1, <2>4, <2>12, <5>1 DEF TurnOK
          <5>2. CASE d # c
            BY <3>4, <5>2, NoWritesYet
          <5> QED BY <5>1, <5>2
        <4> QED BY <3>2, <4>1 DEF Balanced
      <3> QED BY <1>3, <2>9, <3>1, <3>2, <3>3, <3>4, <3>5 DEF TurnInv
    <2>13. CASE prog[c] \in {Single, Write1, Write2}
      <3>1. task.stmt = Head(prog[c]) /\ Head(prog[c]) \in WriteStmts
        BY <2>2, <2>13, ProgTable DEF WriteStmts
      <3>2. PICK w : w = <<c, ops[c], Head(prog[c])>>
        OBVIOUS
      <3>3. IF tx THEN txWrites' = txWrites \cup {w} /\ UNCHANGED <<tx, durable>>
                  ELSE durable' = durable \cup {w} /\ UNCHANGED <<tx, txWrites>>
        BY <1>2, <2>2, <2>6, <3>1, <3>2, Executed DEF Write
      <3>4. prog[c] \in {Write1, Write2} => tx
        BY <2>4 DEF TurnOK
      <3>5. /\ prog[c] = Single => w = <<c, ops[c], "write">>
            /\ prog[c] = Write1 => w = <<c, ops[c], "write1">>
            /\ prog[c] = Write2 => w = <<c, ops[c], "write2">>
        BY <3>2, ProgTable
      <3>6. \A d \in Callers, n \in 1 .. MaxOps :
               (<<d, n, "write1">> = w => d = c /\ n = ops[c] /\ prog[c] = Write1)
               /\ (<<d, n, "write2">> = w => d = c /\ n = ops[c] /\ prog[c] = Write2)
        BY <2>13, <3>5
      <3>7. Balanced'
        <4>1. CASE tx
          BY <3>3, <4>1 DEF Balanced
        <4>2. CASE ~tx
          <5>1. /\ durable' = durable \cup {w}
                /\ \A d \in Callers, n \in 1 .. MaxOps : <<d, n, "write1">> # w /\ <<d, n, "write2">> # w
            BY <2>13, <3>3, <3>4, <3>6, <4>2, TxDistinct
          <5> QED BY <5>1 DEF Balanced
        <4> QED BY <4>1, <4>2
      <3>8. UNCHANGED tx /\ txWrites \subseteq txWrites' /\ txWrites' \subseteq txWrites \cup {w}
        BY <3>3
      <3>9. \A d \in Callers \ {c} : TurnOK(d)'
        <4> SUFFICES ASSUME NEW d \in Callers \ {c} PROVE TurnOK(d)'
          OBVIOUS
        <4>1. TurnOK(d)
          BY DEF TurnInv
        <4>2. \A n \in 1 .. MaxOps :
                 <<d, n, "write1">> \in txWrites' \/ <<d, n, "write2">> \in txWrites'
                     => n = ops[d] /\ prog[d] \in {Write1, Write2, Commit}
          BY <3>6, <3>8, <4>1 DEF TurnOK
        <4> QED BY <1>3, <2>8, <2>9, <3>8, <4>1, <4>2 DEF TurnOK
      <3>10. TurnOK(c)'
        <4>1. CASE prog[c] = Single
          BY <1>3, <2>4, <2>9, <3>6, <3>8, <4>1, TxDistinct DEF TurnOK
        <4>2. CASE prog[c] = Write1
          <5>1. w \in txWrites'
            BY <3>3, <3>4, <4>2
          <5> QED BY <1>3, <2>4, <2>9, <3>5, <3>6, <3>8, <4>2, <5>1, TxDistinct DEF TurnOK
        <4>3. CASE prog[c] = Write2
          <5>1. w \in txWrites'
            BY <3>3, <3>4, <4>3
          <5> QED BY <1>3, <2>4, <2>9, <3>5, <3>6, <3>8, <4>3, <5>1, TxDistinct DEF TurnOK
        <4> QED BY <2>13, <4>1, <4>2, <4>3
      <3> QED BY <1>3, <2>9, <3>7, <3>8, <3>9, <3>10 DEF TurnInv
    <2> QED BY <2>3, <2>11, <2>12, <2>13
  <1> QED BY <1>2, <1>4, <1>5

LEMMA StepC ==
  ASSUME TInv, QuietInv, CalmInv, [Next]_vars
  PROVE  CalmInv'
  <1>1. UNCHANGED use_transaction /\ (~broken' => ~broken) /\ (errors' = 0 => errors = 0)
        /\ (taskQueueOpen' => taskQueueOpen)
    <2>1. ASSUME NEW c \in Callers, caller(c) \/ \E kind \in Kinds : operation(c, kind)
          PROVE  UNCHANGED <<use_transaction, errors, taskQueueOpen>> /\ (~broken' => ~broken)
      <3>1. broken' = broken \/ broken' = TRUE
        BY <2>1 DEF operation, caller, lockBegin, beginTransaction, write, commit, return, exception,
           answered, handleException, rolledBack
      <3> QED BY <2>1, <3>1, CallerKept DEF CallerKeeps
    <2>2. timerNotify \/ shutdownDriver \/ Goes \/ UNCHANGED vars =>
              UNCHANGED <<use_transaction, errors, taskQueueOpen, broken>>
      BY DEF timerNotify, shutdownDriver, Goes, vars
    <2>3. Closes => UNCHANGED <<use_transaction, errors, broken>> /\ ~taskQueueOpen'
      BY DEF Closes
    <2>4. runTask => /\ UNCHANGED <<use_transaction, taskQueueOpen, broken>>
                     /\ errors' = errors \/ errors' = errors + 1
      BY DEF runTask
    <2>5. errors \in Nat
      BY DEF TInv, Vals
    <2> QED BY <2>1, <2>2, <2>3, <2>4, <2>5, ThreadSteps DEF Next
  <1> SUFFICES ASSUME use_transaction, ~broken', errors' = 0
               PROVE  Balanced' /\ (taskQueueOpen' => TurnInv')
    BY <1>1 DEF CalmInv, Calm, Undisturbed
  <1>2. errors = 0 /\ Balanced /\ (taskQueueOpen => TurnInv /\ NoFailure)
    BY <1>1 DEF CalmInv, Calm, Undisturbed, QuietInv
  <1>3. ASSUME UNCHANGED durable, taskQueueOpen' => TurnInv'
        PROVE  Balanced' /\ (taskQueueOpen' => TurnInv')
    BY <1>2, <1>3 DEF Balanced
  <1>4. ASSUME NEW c \in Callers, NEW kind \in Kinds, operation(c, kind)
        PROVE  Balanced' /\ (taskQueueOpen' => TurnInv')
    BY <1>1, <1>2, <1>3, <1>4, OperationTurn, CallerKept DEF CallerKeeps
  <1>5. ASSUME NEW c \in Callers, caller(c)
        PROVE  Balanced' /\ (taskQueueOpen' => TurnInv')
    BY <1>1, <1>2, <1>3, <1>5, CallerTurn, CallerKept DEF CallerKeeps
  <1>6. CASE runTask
    <2>1. taskQueueOpen
      BY <1>6, HeadTask DEF runTask
    <2>2. errors' # errors + 1
      BY <1>2
    <2> QED BY <1>2, <1>6, <2>1, <2>2, RunTurn
  <1>7. CASE timerNotify \/ shutdownDriver \/ Goes \/ UNCHANGED vars
    <2>1. UNCHANGED <<inTransaction, tx, txWrites, durable, pc, prog, reply, ops>>
      BY <1>7 DEF timerNotify, shutdownDriver, Goes, vars
    <2>2. TurnInv => TurnInv'
      BY <2>1 DEF TurnInv, TurnOK, Owns, Done
    <2> QED BY <1>1, <1>2, <1>3, <2>1, <2>2
  <1>8. CASE Closes
    BY <1>3, <1>8 DEF Closes
  <1> QED BY <1>2, <1>4, <1>5, <1>6, <1>7, <1>8, ThreadSteps DEF Next

-----------------------------------------------------------------------------
(* The theorems about SQLite.                                              *)

LEMMA InitI == Init => IInv
  <1> SUFFICES ASSUME Init PROVE IInv
    OBVIOUS
  <1>1. TInv
    BY InitT
  <1>2. NoFailure /\ ToldIn(durable) /\ ToldIn(durable \cup txWrites)
    BY DEF Init, NoFailure, FailsNot, Done, ToldIn, ToldOf
  <1>3. Balanced
    BY DEF Init, Balanced
  <1>4. TurnInv
    <2>1. \A c \in Callers : ~Owns(c)
      BY ProgsNotEmpty DEF Init, Owns
    <2> QED BY <2>1, ProgsNotEmpty DEF Init, TurnInv, TurnOK
  <1>5. PlainInv /\ BackupInv
    BY <1>2 DEF Init, PlainInv, BackupInv
  <1> QED BY <1>1, <1>2, <1>3, <1>4, <1>5 DEF IInv, QuietInv, CalmInv

LEMMA StepI ==
  ASSUME IInv, [Next]_vars
  PROVE  IInv'
  BY StepT, StepB, StepP, StepQ, StepC DEF IInv

LEMMA Meaning ==
  ASSUME IInv
  PROVE  AllOrNothing /\ AckedKeptIfPlain /\ BackupCurrent
  <1>1. AllOrNothing
    BY DEF IInv, CalmInv, Calm, Balanced, AllOrNothing
  <1>2. AckedKeptIfPlain
    BY DEF IInv, PlainInv, QuietInv, ToldIn, AckedKeptIfPlain, AckedKept, Undisturbed
  <1>3. BackupCurrent
    BY DEF IInv, BackupInv, TInv, Vals, BackupCurrent
  <1> QED BY <1>1, <1>2, <1>3

(* The same for the specification of SqliteDriver alone.                   *)
THEOREM SqliteTogether == Spec => [](AllOrNothing /\ AckedKeptIfPlain /\ BackupCurrent)
  <1>1. Init => IInv
    BY InitI
  <1>2. IInv /\ [Next]_vars => IInv'
    BY StepI
  <1>3. IInv => AllOrNothing /\ AckedKeptIfPlain /\ BackupCurrent
    BY Meaning
  <1> QED BY <1>1, <1>2, <1>3, PTL DEF Spec

-----------------------------------------------------------------------------
(* MySQL.                                                                  *)

Look == <<"select">>
MyProgs == (IF use_transaction THEN TxProgs ELSE PlainProgs) \cup {Look}
MyCaller(c) ==
    /\ prog[c] \in MyProgs
    /\ prog[c] # <<>> => ops[c] >= 1
    /\ pc[c] = "idle" => prog[c] = <<>>
    /\ pc[c] \in {"set", "start"} => prog[c] \in {Begin, BeginThrow} /\ use_transaction
    /\ pc[c] \in {"selecting", "myTransaction"} => prog[c] = Look
    /\ pc[c] = "myTransaction" => use_transaction
MyVals ==
    /\ Mysql!TypeOK
    /\ ops \in [Callers -> 0 .. MysqlOps]
    /\ DOMAIN prog = Callers
    /\ told \in [Callers -> SUBSET Mysql!Writes]
    /\ errors \in Nat /\ cuts \in Nat
    /\ ~tx => txWrites = {}
    /\ gone => cuts > 0 /\ ~tx
MyT == MyVals /\ \A c \in Callers : MyCaller(c)

MyToldIn(S) == acked \subseteq S /\ \A c \in Callers : told[c] \subseteq S
MyKept ==
    /\ ~use_transaction => MyToldIn(durable)
    /\ Mysql!Calm => MyToldIn(durable \cup txWrites)

(* Whose the flag is: of who begins, is inside, or selects for itself.     *)
MyHolds(c) == pc[c] \in {"start", "myTransaction"} \/ prog[c] \in {Write1, Write2, Commit, Throw}
MyEntries(c) ==
    /\ prog[c] \in {Write1, Write2, Commit} => tx \/ gone
    /\ tx /\ prog[c] \in {Write2, Commit} => <<c, ops[c], "write1">> \in txWrites
    /\ tx /\ prog[c] = Commit => <<c, ops[c], "write2">> \in txWrites
    /\ \A n \in 1 .. MysqlOps :
          <<c, n, "write1">> \in txWrites \/ <<c, n, "write2">> \in txWrites
              => n = ops[c] /\ prog[c] \in {Write1, Write2, Commit}
MyBalanced ==
    \A c \in Callers, n \in 1 .. MysqlOps :
        <<c, n, "write1">> \in durable <=> <<c, n, "write2">> \in durable
MyTurn ==
    use_transaction /\ ~harmed =>
        /\ \A c \in Callers : MyHolds(c) => inTransaction /\ owner = c
        /\ tx => \E c \in Callers : prog[c] \in {Write1, Write2, Commit, Throw}
        /\ \A c \in Callers : MyEntries(c)
        /\ MyBalanced
MyInv == MyT /\ MyKept /\ MyTurn

USE DEF Mysql!serverVars, Mysql!boundVars

LEMMA LookFacts ==
  /\ Look # <<>> /\ Head(Look) = "select" /\ Tail(Look) = <<>>
  /\ Look \notin {Single, Plain1, Plain2, Begin, Write1, Write2, Commit, BeginThrow, Throw}
  <1>1. Look # <<>> /\ Head(Look) = "select" /\ Tail(Look) = <<>>
    BY DEF Look
  <1> QED BY <1>1, ProgTable

LEMMA MyProgram ==
  ASSUME use_transaction \in BOOLEAN, NEW kind \in Mysql!Kinds
  PROVE  /\ Mysql!Program(kind) \in MyProgs
         /\ Mysql!Program(kind) \in {Single, Plain1, Begin, BeginThrow, Throw, Look}
         /\ use_transaction => Mysql!Program(kind) \in {Single, Begin, BeginThrow, Look}
  BY DEF Mysql!Program, Mysql!Kinds, MyProgs, TxProgs, PlainProgs, Single, Plain1, Begin, Throw,
         BeginThrow, Look

LEMMA MyProgOf ==
  ASSUME MyT, NEW c \in Callers
  PROVE  /\ prog[c] \in MyProgs /\ use_transaction \in BOOLEAN
         /\ use_transaction =>
              prog[c] \in {<<>>, Single, Begin, Write1, Write2, Commit, BeginThrow, Throw, Look}
         /\ ~use_transaction => prog[c] \in {<<>>, Single, Plain1, Plain2, Throw, Look}
         /\ <<>> \in MyProgs
         /\ prog[c] # <<>> => ops[c] \in 1 .. MysqlOps /\ Tail(prog[c]) \in MyProgs
         /\ ops[c] \in 0 .. MysqlOps /\ MysqlOps \in Nat
         /\ pc[c] \in {"idle", "next", "set", "start", "selecting", "myTransaction"}
  <1>1. prog[c] \in MyProgs /\ use_transaction \in BOOLEAN
    BY DEF MyT, MyVals, Mysql!TypeOK, MyCaller
  <1>2. /\ use_transaction =>
              prog[c] \in {<<>>, Single, Begin, Write1, Write2, Commit, BeginThrow, Throw, Look}
        /\ ~use_transaction => prog[c] \in {<<>>, Single, Plain1, Plain2, Throw, Look}
    BY <1>1 DEF MyProgs, TxProgs, PlainProgs
  <1>3. <<>> \in MyProgs
    BY DEF MyProgs, TxProgs, PlainProgs
  <1>4. prog[c] # <<>> => Tail(prog[c]) \in MyProgs
    <2>1. CASE use_transaction
      BY <1>2, <2>1, ProgTable, LookFacts, ZenonT(30) DEF MyProgs, TxProgs
    <2>2. CASE ~use_transaction
      BY <1>2, <2>2, ProgTable, LookFacts DEF MyProgs, PlainProgs
    <2> QED BY <2>1, <2>2
  <1> QED BY <1>1, <1>2, <1>3, <1>4, CutsAssumption DEF MyT, MyVals, Mysql!TypeOK, MyCaller

LEMMA MyHeads ==
  ASSUME MyT, NEW c \in Callers, prog[c] # <<>>
  PROVE  /\ Head(prog[c]) = "begin" <=> prog[c] \in {Begin, BeginThrow}
         /\ Head(prog[c]) = "commit" <=> prog[c] = Commit
         /\ Head(prog[c]) = "throw" <=> prog[c] = Throw
         /\ Head(prog[c]) = "select" <=> prog[c] = Look
         /\ Head(prog[c]) = "write" <=> prog[c] = Single
         /\ Head(prog[c]) = "write1" <=> prog[c] \in {Write1, Plain1}
         /\ Head(prog[c]) = "write2" <=> prog[c] \in {Write2, Plain2}
         /\ prog[c] \in {Plain1, Plain2} => ~use_transaction
         /\ prog[c] \in {Begin, BeginThrow, Write1, Write2, Commit} => use_transaction
  <1>1. CASE use_transaction
    <2>1. prog[c] \in {Single, Begin, Write1, Write2, Commit, BeginThrow, Throw, Look}
      BY <1>1, MyProgOf
    <2> QED BY <1>1, <2>1, ProgTable, LookFacts, ProgsDiffer
  <1>2. CASE ~use_transaction
    <2>1. prog[c] \in {Single, Plain1, Plain2, Throw, Look}
      BY <1>2, MyProgOf
    <2>2. prog[c] \notin {Begin, BeginThrow, Write1, Write2, Commit}
      BY <2>1, ProgTable, LookFacts, ProgsDiffer, SMTT(30)
    <2> QED BY <1>2, <2>1, <2>2, ProgTable, LookFacts
  <1> QED BY <1>1, <1>2

(* A step of one caller leaves the others where they are.                  *)
Alone(c) ==
    \A d \in Callers \ {c} :
        pc'[d] = pc[d] /\ prog'[d] = prog[d] /\ ops'[d] = ops[d] /\ told'[d] = told[d]

LEMMA MyCallers ==
  ASSUME MyT, NEW c \in Callers, Alone(c), UNCHANGED use_transaction, MyCaller(c)'
  PROVE  \A d \in Callers : MyCaller(d)'
  <1>1. ASSUME NEW d \in Callers \ {c} PROVE MyCaller(d)'
    BY <1>1 DEF MyT, MyCaller, Alone, MyProgs
  <1> QED BY <1>1

LEMMA MyOperationT ==
  ASSUME MyT, NEW c \in Callers, NEW kind \in Mysql!Kinds, Mysql!operation(c, kind)
  PROVE  MyT' /\ Alone(c) /\ UNCHANGED use_transaction
  <1> USE DEF Mysql!operation
  <1>1. Alone(c) /\ UNCHANGED use_transaction
    BY DEF Alone, MyT, MyVals, Mysql!TypeOK
  <1>2. MyVals'
    BY MyProgOf DEF MyT, MyVals, Mysql!TypeOK
  <1>3. MyCaller(c)'
    BY MyProgOf, MyProgram DEF MyCaller, MyProgs, MyT, MyVals, Mysql!TypeOK
  <1> QED BY <1>1, <1>2, <1>3, MyCallers DEF MyT

LEMMA MyReturnT ==
  ASSUME MyT, NEW c \in Callers, Mysql!return(c)
  PROVE  MyT' /\ Alone(c) /\ UNCHANGED use_transaction
  <1> USE DEF Mysql!return
  <1>1. Alone(c) /\ UNCHANGED use_transaction
    BY DEF Alone, MyT, MyVals, Mysql!TypeOK
  <1>2. MyVals'
    BY MyProgOf DEF MyT, MyVals, Mysql!TypeOK
  <1>3. MyCaller(c)'
    BY MyProgOf DEF MyCaller, MyProgs, MyT, MyVals, Mysql!TypeOK
  <1> QED BY <1>1, <1>2, <1>3, MyCallers DEF MyT

LEMMA MyExceptionT ==
  ASSUME MyT, NEW c \in Callers, Mysql!exception(c)
  PROVE  MyT' /\ Alone(c) /\ UNCHANGED use_transaction
  <1> USE DEF Mysql!exception, Mysql!throws
  <1>1. Alone(c) /\ UNCHANGED use_transaction
    BY DEF Alone, MyT, MyVals, Mysql!TypeOK
  <1>2. MyVals'
    <2>1. harmed' \in BOOLEAN
      BY Zenon DEF MyT, MyVals, Mysql!TypeOK
    <2> QED BY <2>1 DEF MyT, MyVals, Mysql!TypeOK
  <1>3. MyCaller(c)'
    BY MyProgOf DEF MyCaller, MyProgs, MyT, MyVals, Mysql!TypeOK
  <1> QED BY <1>1, <1>2, <1>3, MyCallers DEF MyT

LEMMA MyPollT ==
  ASSUME MyT, NEW c \in Callers, Mysql!poll(c)
  PROVE  MyT' /\ Alone(c) /\ UNCHANGED use_transaction
  <1> USE DEF Mysql!poll, Mysql!NextIs
  <1>1. Alone(c) /\ UNCHANGED use_transaction
    BY DEF Alone, MyT, MyVals, Mysql!TypeOK
  <1>2. MyVals'
    <2>1. harmed' \in BOOLEAN
      BY Zenon DEF MyT, MyVals, Mysql!TypeOK
    <2> QED BY <2>1 DEF MyT, MyVals, Mysql!TypeOK
  <1>3. MyCaller(c)'
    BY MyProgOf, MyHeads DEF MyCaller, MyProgs, MyT, MyVals, Mysql!TypeOK
  <1> QED BY <1>1, <1>2, <1>3, MyCallers DEF MyT

LEMMA MySetT ==
  ASSUME MyT, NEW c \in Callers, Mysql!set(c)
  PROVE  MyT' /\ Alone(c) /\ UNCHANGED use_transaction
  <1> USE DEF Mysql!set
  <1>1. Alone(c) /\ UNCHANGED use_transaction
    BY DEF Alone, MyT, MyVals, Mysql!TypeOK
  <1>2. MyVals'
    <2>1. harmed' \in BOOLEAN
      BY Zenon DEF MyT, MyVals, Mysql!TypeOK
    <2>2. use_transaction
      BY DEF MyT, MyCaller
    <2> QED BY <2>1, <2>2 DEF MyT, MyVals, Mysql!TypeOK
  <1>3. MyCaller(c)'
    BY MyProgOf DEF MyCaller, MyProgs, MyT, MyVals, Mysql!TypeOK
  <1> QED BY <1>1, <1>2, <1>3, MyCallers DEF MyT

LEMMA MyFails ==
  ASSUME MyT, Mysql!Fails
  PROVE  /\ gone' = FALSE /\ UNCHANGED cuts /\ errors' \in Nat
         /\ ~Mysql!Calm'
  <1>1. errors \in Nat /\ cuts \in Nat /\ (gone => cuts > 0)
    BY DEF MyT, MyVals
  <1> QED BY <1>1 DEF Mysql!Fails, Mysql!Calm

LEMMA MyRollback ==
  ASSUME MyT, NEW c \in Callers, Mysql!rollback(c)
  PROVE  /\ tx' \in BOOLEAN /\ inTransaction' \in BOOLEAN /\ harmed' \in BOOLEAN
         /\ txWrites' \subseteq txWrites /\ (~tx' => txWrites' = {})
         /\ ~use_transaction => ~tx' /\ ~inTransaction'
         /\ (~tx => ~tx')
         /\ ~use_transaction => UNCHANGED <<tx, txWrites>>
         /\ use_transaction /\ ~harmed' =>
              /\ ~inTransaction'
              /\ \/ ~inTransaction /\ UNCHANGED <<tx, txWrites>>
                 \/ inTransaction /\ owner = c /\ ~tx' /\ txWrites' = {}
         /\ harmed => harmed'
  <1>1. harmed' \in BOOLEAN
    <2>1. harmed' = harmed \/ harmed' = (harmed \/ owner # c)
      BY DEF Mysql!rollback
    <2> QED BY <2>1, Zenon DEF MyT, MyVals, Mysql!TypeOK
  <1>2. CASE use_transaction /\ inTransaction
    BY <1>1, <1>2 DEF Mysql!rollback
  <1>3. CASE ~(use_transaction /\ inTransaction)
    BY <1>1, <1>3 DEF Mysql!rollback, MyT, MyVals, Mysql!TypeOK
  <1> QED BY <1>2, <1>3

LEMMA MyStartT ==
  ASSUME MyT, NEW c \in Callers, Mysql!start(c)
  PROVE  MyT' /\ Alone(c) /\ UNCHANGED use_transaction
  <1>1. Alone(c) /\ UNCHANGED <<use_transaction, inTransaction, sqlMutex, ops, owner, harmed, acked>>
    BY DEF Alone, Mysql!start, Mysql!goesOn, Mysql!throws, MyT, MyVals, Mysql!TypeOK
  <1>2. use_transaction /\ prog[c] # <<>>
    BY ProgsNotEmpty DEF Mysql!start, MyT, MyCaller
  <1>3. CASE /\ Mysql!Succeeds
             /\ tx' = TRUE
             /\ durable' = durable \cup txWrites
             /\ txWrites' = {}
             /\ Mysql!goesOn(c)
             /\ UNCHANGED told
    <2>1. MyVals'
      BY <1>1, <1>2, <1>3 DEF Mysql!goesOn, Mysql!Succeeds, MyT, MyVals, Mysql!TypeOK
    <2>2. MyCaller(c)'
      BY <1>1, <1>2, <1>3, MyProgOf DEF MyCaller, MyProgs, Mysql!goesOn, MyT, MyVals, Mysql!TypeOK
    <2> QED BY <1>1, <2>1, <2>2, MyCallers DEF MyT
  <1>4. CASE Mysql!Fails /\ Mysql!throws(c) /\ UNCHANGED <<tx, txWrites, durable>>
    <2>1. MyVals'
      BY <1>1, <1>2, <1>4, MyFails DEF Mysql!throws, MyT, MyVals, Mysql!TypeOK
    <2>2. MyCaller(c)'
      BY <1>1, <1>4, MyProgOf DEF MyCaller, MyProgs, Mysql!throws, MyT, MyVals, Mysql!TypeOK
    <2> QED BY <1>1, <2>1, <2>2, MyCallers DEF MyT
  <1> QED BY <1>3, <1>4 DEF Mysql!start

LEMMA MyWriteT ==
  ASSUME MyT, NEW c \in Callers, Mysql!write(c)
  PROVE  MyT' /\ Alone(c) /\ UNCHANGED use_transaction
  <1>1. /\ UNCHANGED <<use_transaction, sqlMutex, ops, owner, acked>>
        /\ pc[c] = "next" /\ prog[c] # <<>> /\ Head(prog[c]) \in Mysql!WriteStmts
    BY DEF Mysql!write, Mysql!NextIs
  <1>2. PICK w : w = Mysql!Write(c, Head(prog[c]))
    OBVIOUS
  <1>3. w \in Mysql!Writes
    BY <1>1, <1>2, MyProgOf DEF Mysql!Write, Mysql!Writes, Mysql!WriteStmts
  <1>4. ASSUME Mysql!Succeeds,
               txWrites' = IF tx THEN txWrites \cup {w} ELSE txWrites,
               durable' = IF tx THEN durable ELSE durable \cup {w},
               told' = [told EXCEPT ![c] = @ \cup {w}],
               Mysql!goesOn(c),
               UNCHANGED <<tx, inTransaction, harmed>>
        PROVE  MyT' /\ Alone(c)
    <2>1. Alone(c)
      BY <1>1, <1>4 DEF Alone, Mysql!goesOn, MyT, MyVals, Mysql!TypeOK
    <2>2. MyVals'
      BY <1>1, <1>3, <1>4 DEF Mysql!Succeeds, Mysql!goesOn, MyT, MyVals, Mysql!TypeOK
    <2>3. MyCaller(c)'
      BY <1>1, <1>4, MyProgOf DEF MyCaller, MyProgs, Mysql!goesOn, MyT, MyVals, Mysql!TypeOK
    <2> QED BY <1>1, <2>1, <2>2, <2>3, MyCallers DEF MyT
  <1>5. ASSUME Mysql!Fails, Mysql!rollback(c), Mysql!throws(c), UNCHANGED durable
        PROVE  MyT' /\ Alone(c)
    <2>1. Alone(c)
      BY <1>1, <1>5 DEF Alone, Mysql!throws, MyT, MyVals, Mysql!TypeOK
    <2>2. MyVals'
      BY <1>1, <1>5, MyFails, MyRollback DEF Mysql!throws, MyT, MyVals, Mysql!TypeOK
    <2>3. MyCaller(c)'
      BY <1>1, <1>5, MyProgOf DEF MyCaller, MyProgs, Mysql!throws, MyT, MyVals, Mysql!TypeOK
    <2> QED BY <1>1, <2>1, <2>2, <2>3, MyCallers DEF MyT
  <1> QED BY <1>1, <1>2, <1>4, <1>5 DEF Mysql!write

LEMMA MyCommitT ==
  ASSUME MyT, NEW c \in Callers, Mysql!commit(c)
  PROVE  MyT' /\ Alone(c) /\ UNCHANGED use_transaction
  <1>1. /\ UNCHANGED <<use_transaction, sqlMutex, ops, owner, harmed, acked>>
        /\ pc[c] = "next" /\ prog[c] # <<>>
    BY DEF Mysql!commit, Mysql!NextIs
  <1>2. Alone(c)
    BY DEF Alone, Mysql!commit, Mysql!goesOn, Mysql!throws, MyT, MyVals, Mysql!TypeOK
  <1>3. MyVals'
    <2>1. CASE Mysql!goesOn(c) /\ UNCHANGED <<inTransaction, tx, txWrites, durable, gone, errors, cuts, told>>
      BY <1>1, <2>1 DEF Mysql!goesOn, MyT, MyVals, Mysql!TypeOK
    <2>2. CASE /\ Mysql!Succeeds
               /\ tx' = FALSE /\ txWrites' = {}
               /\ durable' = durable \cup txWrites
               /\ inTransaction' = FALSE
               /\ Mysql!goesOn(c)
               /\ UNCHANGED told
      BY <1>1, <2>2 DEF Mysql!goesOn, Mysql!Succeeds, MyT, MyVals, Mysql!TypeOK
    <2>3. CASE /\ Mysql!Fails
               /\ tx' = FALSE /\ txWrites' = {}
               /\ Mysql!throws(c)
               /\ UNCHANGED <<durable, inTransaction>>
      BY <1>1, <2>3, MyFails DEF Mysql!throws, MyT, MyVals, Mysql!TypeOK
    <2> QED BY <2>1, <2>2, <2>3 DEF Mysql!commit
  <1>4. MyCaller(c)'
    <2>1. CASE Mysql!goesOn(c)
      BY <1>1, <2>1, MyProgOf DEF MyCaller, MyProgs, Mysql!goesOn, MyT, MyVals, Mysql!TypeOK
    <2>2. CASE Mysql!throws(c)
      BY <1>1, <2>2, MyProgOf DEF MyCaller, MyProgs, Mysql!throws, MyT, MyVals, Mysql!TypeOK
    <2> QED BY <2>1, <2>2 DEF Mysql!commit
  <1> QED BY <1>1, <1>2, <1>3, <1>4, MyCallers DEF MyT

LEMMA MySelectT ==
  ASSUME MyT, NEW c \in Callers, Mysql!select(c)
  PROVE  MyT' /\ Alone(c) /\ UNCHANGED use_transaction
  <1> USE DEF Mysql!select, Mysql!NextIs
  <1>1. Alone(c) /\ UNCHANGED use_transaction
    BY DEF Alone, MyT, MyVals, Mysql!TypeOK
  <1>2. MyVals'
    BY DEF MyT, MyVals, Mysql!TypeOK
  <1>3. MyCaller(c)'
    BY MyProgOf, MyHeads, LookFacts DEF MyCaller, MyProgs, MyT, MyVals, Mysql!TypeOK
  <1> QED BY <1>1, <1>2, <1>3, MyCallers DEF MyT

LEMMA MySelectedT ==
  ASSUME MyT, NEW c \in Callers, Mysql!selected(c)
  PROVE  MyT' /\ Alone(c) /\ UNCHANGED use_transaction
  <1>1. /\ UNCHANGED <<use_transaction, durable, ops, owner, acked>> /\ sqlMutex' = "free"
        /\ prog[c] # <<>>
    BY LookFacts DEF Mysql!selected, MyT, MyCaller
  <1>2. Alone(c)
    BY DEF Alone, Mysql!selected, Mysql!goesOn, Mysql!throws, MyT, MyVals, Mysql!TypeOK
  <1>3. CASE Mysql!Succeeds /\ inTransaction' = (inTransaction /\ Mysql!KeepsFlag(c))
             /\ Mysql!goesOn(c) /\ UNCHANGED <<tx, txWrites, harmed, told>>
    <2>1. inTransaction' \in BOOLEAN
      BY <1>3, Zenon DEF MyT, MyVals, Mysql!TypeOK
    <2>2. ~use_transaction => ~inTransaction'
      BY <1>3 DEF MyT, MyVals, Mysql!TypeOK
    <2>3. MyVals'
      BY <1>1, <1>3, <2>1, <2>2 DEF Mysql!goesOn, Mysql!Succeeds, MyT, MyVals, Mysql!TypeOK
    <2>4. MyCaller(c)'
      BY <1>1, <1>3, MyProgOf DEF MyCaller, MyProgs, Mysql!goesOn, MyT, MyVals, Mysql!TypeOK
    <2> QED BY <1>1, <1>2, <2>3, <2>4, MyCallers DEF MyT
  <1>4. CASE Mysql!Fails /\ Mysql!rollback(c) /\ Mysql!throws(c)
    <2>2. MyVals'
      BY <1>1, <1>4, MyFails, MyRollback DEF Mysql!throws, MyT, MyVals, Mysql!TypeOK
    <2>3. MyCaller(c)'
      BY <1>1, <1>4, MyProgOf DEF MyCaller, MyProgs, Mysql!throws, MyT, MyVals, Mysql!TypeOK
    <2> QED BY <1>1, <1>2, <2>2, <2>3, MyCallers DEF MyT
  <1> QED BY <1>3, <1>4 DEF Mysql!selected

LEMMA MyLoseT ==
  ASSUME MyT, Mysql!loseConnection
  PROVE  MyT'
  <1>1. gone' \in BOOLEAN
    <2>1. gone' = (gone \/ tx)
      BY DEF Mysql!loseConnection
    <2> QED BY <2>1, Zenon DEF MyT, MyVals, Mysql!TypeOK
  <1>3. /\ cuts' = cuts + 1 /\ tx' = FALSE /\ txWrites' = {}
        /\ UNCHANGED <<use_transaction, inTransaction, sqlMutex, durable, pc, prog, ops,
                       errors, owner, harmed, told, acked>>
    BY DEF Mysql!loseConnection
  <1>4. cuts \in Nat
    BY DEF MyT, MyVals
  <1>5. cuts' \in Nat /\ cuts' > 0
    BY <1>3, <1>4
  <1>6. Mysql!TypeOK'
    BY <1>1, <1>3 DEF MyT, MyVals, Mysql!TypeOK
  <1>2. MyVals'
    BY <1>3, <1>5, <1>6 DEF MyT, MyVals
  <1> QED BY <1>2 DEF Mysql!loseConnection, MyT, MyCaller, MyProgs

LEMMA MyStepT ==
  ASSUME MyT, Mysql!Next
  PROVE  MyT'
  <1>1. ASSUME NEW c \in Callers, NEW kind \in Mysql!Kinds, Mysql!operation(c, kind)
        PROVE  MyT'
    BY <1>1, MyOperationT
  <1>2. ASSUME NEW c \in Callers, Mysql!caller(c)
        PROVE  MyT'
    BY <1>2, MyPollT, MySetT, MyStartT, MyWriteT, MyCommitT, MySelectT, MySelectedT, MyExceptionT,
       MyReturnT DEF Mysql!caller
  <1> QED BY <1>1, <1>2, MyLoseT DEF Mysql!Next


(* What callers were told stays.                                           *)
LEMMA MyKeeps ==
  ASSUME MyKept, UNCHANGED use_transaction, durable \subseteq durable',
         Mysql!Calm' => /\ Mysql!Calm
                        /\ durable \cup txWrites \subseteq durable' \cup txWrites',
         UNCHANGED acked \/ \E c \in Callers : acked' = acked \cup told[c],
         NEW X, \A c \in Callers : told'[c] \subseteq told[c] \cup X,
         X \subseteq durable' \cup txWrites', ~use_transaction => X \subseteq durable'
  PROVE  MyKept'
  <1>1. ASSUME NEW T, MyToldIn(T), NEW V, T \subseteq V, X \subseteq V
        PROVE  MyToldIn(V)'
    BY <1>1 DEF MyToldIn
  <1>2. ~use_transaction' => MyToldIn(durable)'
    <2>1. PICK V : V = durable' OBVIOUS
    <2>2. ~use_transaction' => MyToldIn(V)'
      BY <1>1, <2>1 DEF MyKept
    <2> QED BY <2>1, <2>2 DEF MyToldIn
  <1>3. Mysql!Calm' => MyToldIn(durable \cup txWrites)'
    <2>1. PICK V : V = durable' \cup txWrites' OBVIOUS
    <2>2. Mysql!Calm' => MyToldIn(V)'
      BY <1>1, <2>1 DEF MyKept
    <2> QED BY <2>1, <2>2 DEF MyToldIn
  <1> QED BY <1>2, <1>3 DEF MyKept

LEMMA MyStepK ==
  ASSUME MyT, MyKept, Mysql!Next
  PROVE  MyKept'
  <1>1. ASSUME UNCHANGED <<use_transaction, durable, txWrites>>, Mysql!Calm' => Mysql!Calm,
               UNCHANGED acked \/ \E c \in Callers : acked' = acked \cup told[c],
               \A c \in Callers : told'[c] \subseteq told[c]
        PROVE  MyKept'
    BY <1>1, MyKeeps
  <1>2. ASSUME UNCHANGED <<use_transaction, durable, acked>>, ~Mysql!Calm',
               \A c \in Callers : told'[c] \subseteq told[c]
        PROVE  MyKept'
    BY <1>2, MyKeeps
  <1>3. ASSUME NEW c \in Callers, Mysql!throws(c)
        PROVE  \A d \in Callers : told'[d] \subseteq told[d]
    BY <1>3 DEF Mysql!throws, MyT, MyVals, Mysql!TypeOK
  <1>4. ASSUME NEW c \in Callers, NEW kind \in Mysql!Kinds, Mysql!operation(c, kind)
        PROVE  MyKept'
    BY <1>1, <1>4 DEF Mysql!operation, Mysql!Calm
  <1>5. ASSUME NEW c \in Callers, Mysql!poll(c) \/ Mysql!set(c) \/ Mysql!select(c)
        PROVE  MyKept'
    <2>1. UNCHANGED <<use_transaction, durable, txWrites, acked, told, errors, cuts>>
          /\ (harmed => harmed')
      <3>1. CASE Mysql!poll(c) BY <3>1 DEF Mysql!poll
      <3>2. CASE Mysql!set(c) BY <3>2 DEF Mysql!set
      <3>3. CASE Mysql!select(c) BY <3>3 DEF Mysql!select
      <3> QED BY <1>5, <3>1, <3>2, <3>3
    <2> QED BY <1>1, <2>1 DEF Mysql!Calm
  <1>6. ASSUME NEW c \in Callers, Mysql!return(c)
        PROVE  MyKept'
    <2>1. \A d \in Callers : told'[d] \subseteq told[d]
      BY <1>6 DEF Mysql!return, MyT, MyVals
    <2> QED BY <1>1, <1>6, <2>1 DEF Mysql!return, Mysql!Calm
  <1>7. ASSUME NEW c \in Callers, Mysql!exception(c)
        PROVE  MyKept'
    <2>1. UNCHANGED <<use_transaction, durable, txWrites, acked, errors, cuts>>
          /\ (harmed => harmed')
      BY <1>7 DEF Mysql!exception
    <2> QED BY <1>1, <1>3, <1>7, <2>1 DEF Mysql!exception, Mysql!Calm
  <1>8. ASSUME NEW c \in Callers, Mysql!start(c)
        PROVE  MyKept'
    <2>1. UNCHANGED <<use_transaction, acked, harmed>>
      BY <1>8 DEF Mysql!start
    <2>2. CASE /\ Mysql!Succeeds
               /\ durable' = durable \cup txWrites
               /\ txWrites' = {}
               /\ UNCHANGED told
      BY <2>1, <2>2, MyKeeps DEF Mysql!Succeeds, Mysql!Calm
    <2>3. CASE Mysql!Fails /\ Mysql!throws(c) /\ UNCHANGED durable
      BY <1>2, <1>3, <2>1, <2>3, MyFails
    <2> QED BY <1>8, <2>2, <2>3 DEF Mysql!start
  <1>9. ASSUME NEW c \in Callers, Mysql!write(c)
        PROVE  MyKept'
    <2>1. PICK w : w = Mysql!Write(c, Head(prog[c]))
      OBVIOUS
    <2>2. UNCHANGED <<use_transaction, acked>>
      BY <1>9 DEF Mysql!write
    <2>3. ASSUME Mysql!Succeeds,
                 txWrites' = IF tx THEN txWrites \cup {w} ELSE txWrites,
                 durable' = IF tx THEN durable ELSE durable \cup {w},
                 told' = [told EXCEPT ![c] = @ \cup {w}],
                 UNCHANGED harmed
          PROVE  MyKept'
      <3>1. \A d \in Callers : told'[d] \subseteq told[d] \cup {w}
        BY <2>3 DEF MyT, MyVals
      <3>2. {w} \subseteq durable' \cup txWrites' /\ (~use_transaction => {w} \subseteq durable')
        BY <2>3 DEF MyT, MyVals, Mysql!TypeOK
      <3>3. durable \subseteq durable' /\ durable \cup txWrites \subseteq durable' \cup txWrites'
        BY <2>3
      <3>4. Mysql!Calm' => Mysql!Calm
        BY <2>3 DEF Mysql!Succeeds, Mysql!Calm
      <3> QED BY <2>2, <3>1, <3>2, <3>3, <3>4, MyKeeps
    <2>4. CASE Mysql!Fails /\ Mysql!throws(c) /\ UNCHANGED durable
      BY <1>2, <1>3, <2>2, <2>4, MyFails
    <2> QED BY <1>9, <2>1, <2>3, <2>4 DEF Mysql!write
  <1>10. ASSUME NEW c \in Callers, Mysql!commit(c)
        PROVE  MyKept'
    <2>1. UNCHANGED <<use_transaction, acked, harmed>>
      BY <1>10 DEF Mysql!commit
    <2>2. CASE UNCHANGED <<tx, txWrites, durable, gone, errors, cuts, told>>
      BY <1>1, <2>1, <2>2 DEF Mysql!Calm
    <2>3. CASE /\ Mysql!Succeeds
               /\ txWrites' = {}
               /\ durable' = durable \cup txWrites
               /\ UNCHANGED told
      BY <2>1, <2>3, MyKeeps DEF Mysql!Succeeds, Mysql!Calm
    <2>4. CASE Mysql!Fails /\ Mysql!throws(c) /\ UNCHANGED durable
      BY <1>2, <1>3, <2>1, <2>4, MyFails
    <2> QED BY <1>10, <2>2, <2>3, <2>4 DEF Mysql!commit
  <1>11. ASSUME NEW c \in Callers, Mysql!selected(c)
        PROVE  MyKept'
    <2>1. UNCHANGED <<use_transaction, acked, durable>>
      BY <1>11 DEF Mysql!selected
    <2>2. CASE Mysql!Succeeds /\ UNCHANGED <<tx, txWrites, harmed, told>>
      BY <1>1, <2>1, <2>2 DEF Mysql!Succeeds, Mysql!Calm
    <2>3. CASE Mysql!Fails /\ Mysql!throws(c)
      BY <1>2, <1>3, <2>1, <2>3, MyFails
    <2> QED BY <1>11, <2>2, <2>3 DEF Mysql!selected
  <1>12. CASE Mysql!loseConnection
    <2>1. cuts' # 0
      BY <1>12 DEF Mysql!loseConnection, MyT, MyVals
    <2> QED BY <1>2, <1>12, <2>1 DEF Mysql!loseConnection, Mysql!Calm
  <1> QED BY <1>4, <1>5, <1>6, <1>7, <1>8, <1>9, <1>10, <1>11, <1>12 DEF Mysql!Next, Mysql!caller

(* The flag keeps operations apart.                                        *)
LEMMA MyTurnFrame ==
  ASSUME MyT, MyTurn, use_transaction, ~harmed, NEW c \in Callers, Alone(c),
         MyHolds(c)' => inTransaction' /\ owner' = c,
         (\A d \in Callers \ {c} : ~MyHolds(d)) \/ UNCHANGED <<inTransaction, owner>>,
         tx' => tx \/ prog'[c] \in {Write1, Write2, Commit, Throw},
         tx' /\ prog[c] \in {Write1, Write2, Commit, Throw}
             => prog'[c] \in {Write1, Write2, Commit, Throw},
         MyEntries(c)',
         \A d \in Callers \ {c} : MyEntries(d)', MyBalanced'
  PROVE  MyTurn'
  <1>1. \A d \in Callers \ {c} : MyHolds(d)' => inTransaction' /\ owner' = d
    BY DEF MyTurn, MyHolds, Alone
  <1>2. tx' => \E d \in Callers : prog'[d] \in {Write1, Write2, Commit, Throw}
    BY DEF MyTurn, Alone
  <1> QED BY <1>1, <1>2 DEF MyTurn

Inside == {Write1, Write2, Commit, Throw}

LEMMA MyDistinct ==
  /\ {<<>>, Single, Begin, BeginThrow, Look} \cap Inside = {}
  /\ Write1 # Write2 /\ Write1 # Commit /\ Write2 # Commit
  /\ Throw \notin {Write1, Write2, Commit}
  BY TxDistinct, LookFacts DEF Inside

(* A caller that is not inside has nothing in the open transaction.        *)
LEMMA MyNone ==
  ASSUME NEW c \in Callers, MyEntries(c), prog[c] \notin {Write1, Write2, Commit}
  PROVE  \A n \in 1 .. MysqlOps : <<c, n, "write1">> \notin txWrites /\ <<c, n, "write2">> \notin txWrites
  BY DEF MyEntries

(* Steps that leave the connection and the flag alone.                     *)
LEMMA MyTurnQuiet ==
  ASSUME MyT, MyTurn, use_transaction, ~harmed, NEW c \in Callers, Alone(c),
         UNCHANGED <<inTransaction, owner, tx, txWrites, gone, durable>>,
         prog[c] \notin Inside, prog'[c] \notin Inside,
         pc'[c] \notin {"start", "myTransaction"}
  PROVE  MyTurn'
  <1>1. \A d \in Callers \ {c} : MyEntries(d)'
    BY DEF MyTurn, MyEntries, Alone
  <1>2. MyEntries(c)'
    <2>1. \A n \in 1 .. MysqlOps : <<c, n, "write1">> \notin txWrites /\ <<c, n, "write2">> \notin txWrites
      BY MyNone DEF MyTurn, Inside
    <2> QED BY <2>1 DEF MyEntries, Inside
  <1>3. MyBalanced'
    BY DEF MyTurn, MyBalanced
  <1>4. ~MyHolds(c)'
    BY DEF MyHolds, Inside
  <1> QED BY <1>1, <1>2, <1>3, <1>4, MyTurnFrame DEF Inside

LEMMA MyOperationTurn ==
  ASSUME MyT, MyTurn, use_transaction, ~harmed, NEW c \in Callers, NEW kind \in Mysql!Kinds,
         Mysql!operation(c, kind)
  PROVE  MyTurn'
  <1>1. prog[c] = <<>> /\ prog'[c] \in {Single, Begin, BeginThrow, Look} /\ pc'[c] = "next"
    BY MyProgram DEF Mysql!operation, MyT, MyVals, Mysql!TypeOK, MyCaller
  <1>2. Alone(c)
    BY MyOperationT
  <1> QED BY <1>1, <1>2, MyDistinct, MyTurnQuiet DEF Mysql!operation

LEMMA MyReturnTurn ==
  ASSUME MyT, MyTurn, use_transaction, ~harmed, NEW c \in Callers, Mysql!return(c)
  PROVE  MyTurn'
  <1>1. prog[c] = <<>> /\ prog'[c] = <<>> /\ pc'[c] = "idle"
    BY DEF Mysql!return, MyT, MyVals, Mysql!TypeOK
  <1>2. Alone(c)
    BY MyReturnT
  <1> QED BY <1>1, <1>2, MyDistinct, MyTurnQuiet DEF Mysql!return

LEMMA MyPollTurn ==
  ASSUME MyT, MyTurn, use_transaction, ~harmed, NEW c \in Callers, Mysql!poll(c)
  PROVE  MyTurn'
  <1>1. prog[c] \in {Begin, BeginThrow} /\ prog'[c] = prog[c] /\ pc'[c] = "set"
    BY MyHeads DEF Mysql!poll, Mysql!NextIs, MyT, MyVals, Mysql!TypeOK
  <1>2. Alone(c)
    BY MyPollT
  <1> QED BY <1>1, <1>2, MyDistinct, MyTurnQuiet DEF Mysql!poll

LEMMA MyExceptionTurn ==
  ASSUME MyT, MyTurn, use_transaction, ~harmed, NEW c \in Callers, Mysql!exception(c)
  PROVE  harmed'
  <1>1. prog[c] = Throw
    BY MyHeads DEF Mysql!exception, Mysql!NextIs
  <1> QED BY <1>1 DEF Mysql!exception, MyTurn, MyHolds

LEMMA NobodyHolds ==
  ASSUME MyT, MyTurn, use_transaction, ~harmed, ~inTransaction
  PROVE  ~tx /\ txWrites = {} /\ \A d \in Callers : ~MyHolds(d)
  BY DEF MyTurn, MyHolds, MyT, MyVals

LEMMA MySetTurn ==
  ASSUME MyT, MyTurn, use_transaction, ~harmed', NEW c \in Callers, Mysql!set(c)
  PROVE  MyTurn'
  <1>1. ~harmed /\ ~inTransaction
    BY DEF Mysql!set
  <1>2. ~tx /\ txWrites = {} /\ \A d \in Callers : ~MyHolds(d)
    BY <1>1, NobodyHolds
  <1>3. Alone(c)
    BY MySetT
  <1>4. /\ UNCHANGED <<tx, txWrites, gone, durable, prog, ops>> /\ inTransaction' /\ owner' = c
        /\ prog[c] \in {Begin, BeginThrow}
    BY DEF Mysql!set, MyT, MyCaller
  <1>5. \A d \in Callers : MyEntries(d)'
    BY <1>1, <1>4 DEF MyTurn, MyEntries
  <1>6. MyBalanced'
    BY <1>1, <1>4 DEF MyTurn, MyBalanced
  <1> QED BY <1>1, <1>2, <1>3, <1>4, <1>5, <1>6, MyTurnFrame

LEMMA MySelectTurn ==
  ASSUME MyT, MyTurn, use_transaction, ~harmed, NEW c \in Callers, Mysql!select(c)
  PROVE  MyTurn'
  <1>1. prog[c] = Look /\ prog'[c] = Look /\ Alone(c)
    BY MyHeads, MySelectT DEF Mysql!select, Mysql!NextIs
  <1>2. UNCHANGED <<tx, txWrites, gone, durable>>
    BY DEF Mysql!select
  <1>3. CASE inTransaction
    <2>1. UNCHANGED <<inTransaction, owner>> /\ pc'[c] = "selecting"
      BY <1>3 DEF Mysql!select, MyT, MyVals, Mysql!TypeOK
    <2> QED BY <1>1, <1>2, <2>1, MyDistinct, MyTurnQuiet
  <1>4. CASE ~inTransaction
    <2>1. inTransaction' /\ owner' = c /\ pc'[c] = "myTransaction"
      BY <1>4 DEF Mysql!select, MyT, MyVals, Mysql!TypeOK
    <2>2. ~tx /\ txWrites = {} /\ \A d \in Callers : ~MyHolds(d)
      BY <1>4, NobodyHolds
    <2>3. \A d \in Callers \ {c} : MyEntries(d)'
      BY <1>1, <1>2, <2>2 DEF MyTurn, MyEntries, Alone
    <2>4. MyEntries(c)'
      BY <1>1, <1>2, <2>2, LookFacts DEF MyEntries
    <2>5. MyBalanced'
      BY <1>2 DEF MyTurn, MyBalanced
    <2> QED BY <1>1, <1>2, <2>1, <2>2, <2>3, <2>4, <2>5, MyTurnFrame
  <1> QED BY <1>3, <1>4

(* A statement that fails ends the operation of its caller and, if anybody,*)
(* only the transaction of its caller.                                     *)
LEMMA MyFailTurn ==
  ASSUME MyT, MyTurn, use_transaction, ~harmed, NEW c \in Callers, Alone(c),
         UNCHANGED durable, gone' = FALSE,
         pc'[c] = "idle", prog'[c] = <<>>,
         txWrites' \subseteq txWrites, ~tx', txWrites' = {},
         \A d \in Callers \ {c} : ~MyHolds(d)
  PROVE  MyTurn'
  <1>1. ~MyHolds(c)'
    BY MyDistinct DEF MyHolds, Inside
  <1>2. MyEntries(c)'
    BY MyDistinct DEF MyEntries, Inside
  <1>3. \A d \in Callers \ {c} : MyEntries(d)'
    BY DEF MyEntries, Alone, MyHolds
  <1>4. MyBalanced'
    BY DEF MyTurn, MyBalanced
  <1> QED BY <1>1, <1>2, <1>3, <1>4, MyTurnFrame

LEMMA MyRolledBackTurn ==
  ASSUME MyT, MyTurn, use_transaction, ~harmed', NEW c \in Callers, Alone(c),
         UNCHANGED durable, Mysql!Fails, Mysql!rollback(c), Mysql!throws(c)
  PROVE  MyTurn'
  <1>1. ~harmed
    BY MyRollback
  <1>2. pc'[c] = "idle" /\ prog'[c] = <<>> /\ gone' = FALSE
    BY DEF Mysql!throws, Mysql!Fails, MyT, MyVals, Mysql!TypeOK
  <1>3. CASE inTransaction
    <2>1. owner = c /\ ~tx' /\ txWrites' = {}
      BY <1>3, MyRollback
    <2>2. \A d \in Callers \ {c} : ~MyHolds(d)
      BY <1>1, <2>1 DEF MyTurn
    <2> QED BY <1>1, <1>2, <2>1, <2>2, MyFailTurn
  <1>4. CASE ~inTransaction
    <2>1. ~tx /\ txWrites = {} /\ \A d \in Callers : ~MyHolds(d)
      BY <1>1, <1>4, NobodyHolds
    <2>2. UNCHANGED <<tx, txWrites>>
      BY <1>4 DEF Mysql!rollback
    <2> QED BY <1>1, <1>2, <2>1, <2>2, MyFailTurn
  <1> QED BY <1>3, <1>4

LEMMA MyHolder ==
  ASSUME MyTurn, use_transaction, ~harmed, NEW c \in Callers, MyHolds(c)
  PROVE  inTransaction /\ owner = c /\ \A d \in Callers \ {c} : ~MyHolds(d)
  BY DEF MyTurn

LEMMA MyStartTurn ==
  ASSUME MyT, MyTurn, use_transaction, ~harmed, NEW c \in Callers, Mysql!start(c)
  PROVE  MyTurn'
  <1>1. /\ UNCHANGED <<use_transaction, inTransaction, owner, harmed>> /\ Alone(c) /\ pc[c] = "start"
        /\ prog[c] \in {Begin, BeginThrow}
    BY MyStartT DEF Mysql!start, MyT, MyCaller
  <1>2. inTransaction /\ owner = c /\ \A d \in Callers \ {c} : ~MyHolds(d)
    BY <1>1, MyHolder DEF MyHolds
  <1>3. ~tx /\ txWrites = {}
    BY <1>1, <1>2, MyDistinct DEF MyTurn, MyHolds, Inside, MyT, MyVals
  <1>4. CASE /\ Mysql!Succeeds
             /\ tx' = TRUE
             /\ durable' = durable \cup txWrites
             /\ txWrites' = {}
             /\ Mysql!goesOn(c)
    <2>1. prog'[c] \in {Write1, Throw} /\ durable' = durable
      BY <1>1, <1>3, <1>4, ProgTable DEF Mysql!goesOn, MyT, MyVals, Mysql!TypeOK
    <2>2. MyEntries(c)'
      BY <1>4, <2>1, MyDistinct DEF MyEntries
    <2>3. \A d \in Callers \ {c} : MyEntries(d)'
      BY <1>1, <1>2, <1>4 DEF MyEntries, Alone, MyHolds, MyTurn
    <2>4. MyBalanced'
      BY <2>1 DEF MyTurn, MyBalanced
    <2>5. inTransaction' /\ owner' = c
      BY <1>1, <1>2
    <2> QED BY <1>1, <1>2, <2>1, <2>2, <2>3, <2>4, <2>5, MyTurnFrame
  <1>5. CASE Mysql!Fails /\ Mysql!throws(c) /\ UNCHANGED <<tx, txWrites, durable>>
    <2>1. pc'[c] = "idle" /\ prog'[c] = <<>> /\ gone' = FALSE
      BY <1>5 DEF Mysql!throws, Mysql!Fails, MyT, MyVals, Mysql!TypeOK
    <2> QED BY <1>1, <1>2, <1>3, <1>5, <2>1, MyFailTurn
  <1> QED BY <1>4, <1>5 DEF Mysql!start

LEMMA MyWriteTurn ==
  ASSUME MyT, MyTurn, use_transaction, ~harmed', NEW c \in Callers, Mysql!write(c)
  PROVE  MyTurn'
  <1>1. /\ UNCHANGED <<use_transaction, owner>> /\ Alone(c) /\ pc[c] = "next"
        /\ prog[c] # <<>> /\ Head(prog[c]) \in Mysql!WriteStmts
    BY MyWriteT DEF Mysql!write, Mysql!NextIs
  <1>2. prog[c] \in {Single, Write1, Write2}
    BY <1>1, MyHeads DEF Mysql!WriteStmts
  <1>3. PICK w : w = Mysql!Write(c, Head(prog[c]))
    OBVIOUS
  <1>4. CASE /\ Mysql!Succeeds
             /\ txWrites' = IF tx THEN txWrites \cup {w} ELSE txWrites
             /\ durable' = IF tx THEN durable ELSE durable \cup {w}
             /\ Mysql!goesOn(c)
             /\ UNCHANGED <<tx, inTransaction, harmed>>
    <2>1. /\ ~harmed /\ ~gone /\ ~gone' /\ ops'[c] = ops[c] /\ pc'[c] = "next"
          /\ prog'[c] = Tail(prog[c])
      BY <1>1, <1>4 DEF Mysql!Succeeds, Mysql!goesOn, Mysql!write, MyT, MyVals, Mysql!TypeOK
    <2>2. /\ prog[c] = Single => w = <<c, ops[c], "write">>
          /\ prog[c] = Write1 => w = <<c, ops[c], "write1">>
          /\ prog[c] = Write2 => w = <<c, ops[c], "write2">>
      BY <1>3, ProgTable DEF Mysql!Write
    <2>3. \A d \in Callers, n \in 1 .. MysqlOps :
             (<<d, n, "write1">> = w => d = c /\ n = ops[c] /\ prog[c] = Write1)
             /\ (<<d, n, "write2">> = w => d = c /\ n = ops[c] /\ prog[c] = Write2)
      BY <1>2, <2>2
    <2>4. prog[c] \in {Write1, Write2} => tx
      BY <2>1 DEF MyTurn, MyEntries
    <2>5. txWrites' \subseteq txWrites \cup {w} /\ txWrites \subseteq txWrites'
      BY <1>4
    <2>6. MyBalanced'
      <3>1. CASE tx
        BY <1>4, <2>1, <3>1 DEF MyTurn, MyBalanced
      <3>2. CASE ~tx
        <4>1. /\ durable' = durable \cup {w}
              /\ \A d \in Callers, n \in 1 .. MysqlOps : <<d, n, "write1">> # w /\ <<d, n, "write2">> # w
          BY <1>2, <1>4, <2>3, <2>4, <3>2, MyDistinct
        <4> QED BY <2>1, <4>1 DEF MyTurn, MyBalanced
      <3> QED BY <3>1, <3>2
    <2>7. \A d \in Callers \ {c} : MyEntries(d)'
      <3> SUFFICES ASSUME NEW d \in Callers \ {c} PROVE MyEntries(d)'
        OBVIOUS
      <3>1. MyEntries(d) /\ prog'[d] = prog[d] /\ ops'[d] = ops[d] /\ tx' = tx /\ gone' = gone
        BY <1>1, <1>4, <2>1 DEF MyTurn, Alone, Mysql!Succeeds
      <3>2. \A n \in 1 .. MysqlOps :
               <<d, n, "write1">> \in txWrites' \/ <<d, n, "write2">> \in txWrites'
                   => n = ops[d] /\ prog[d] \in {Write1, Write2, Commit}
        BY <2>3, <2>5, <3>1 DEF MyEntries
      <3> QED BY <2>5, <3>1, <3>2 DEF MyEntries
    <2>8. MyEntries(c) /\ tx' = tx /\ inTransaction' = inTransaction
      BY <1>4, <2>1 DEF MyTurn
    <2>9. CASE prog[c] = Single
      <3>1. prog'[c] = <<>> /\ prog[c] \notin Inside
        BY <2>1, <2>9, ProgTable, MyDistinct
      <3>2. MyEntries(c)'
        BY <2>3, <2>5, <2>8, <2>9, <3>1, MyDistinct DEF MyEntries, Inside
      <3>3. ~MyHolds(c)'
        BY <2>1, <3>1, MyDistinct DEF MyHolds, Inside
      <3> QED BY <1>1, <2>1, <2>6, <2>7, <2>8, <3>1, <3>2, <3>3, MyTurnFrame DEF Inside
    <2>10. CASE prog[c] = Write1
      <3>1. prog'[c] = Write2 /\ tx /\ w \in txWrites'
        BY <1>4, <2>1, <2>4, <2>10, ProgTable
      <3>2. MyEntries(c)'
        BY <2>1, <2>2, <2>3, <2>5, <2>8, <2>10, <3>1, MyDistinct DEF MyEntries
      <3>3. inTransaction' /\ owner' = c
        BY <1>1, <2>1, <2>8, <2>10, MyHolder DEF MyHolds
      <3> QED BY <1>1, <2>1, <2>6, <2>7, <2>8, <3>1, <3>2, <3>3, MyTurnFrame
    <2>11. CASE prog[c] = Write2
      <3>1. prog'[c] = Commit /\ tx /\ w \in txWrites'
        BY <1>4, <2>1, <2>4, <2>11, ProgTable
      <3>2. MyEntries(c)'
        BY <2>1, <2>2, <2>3, <2>5, <2>8, <2>11, <3>1, MyDistinct DEF MyEntries
      <3>3. inTransaction' /\ owner' = c
        BY <1>1, <2>1, <2>8, <2>11, MyHolder DEF MyHolds
      <3> QED BY <1>1, <2>1, <2>6, <2>7, <2>8, <3>1, <3>2, <3>3, MyTurnFrame
    <2> QED BY <1>2, <2>9, <2>10, <2>11
  <1>5. CASE Mysql!Fails /\ Mysql!rollback(c) /\ Mysql!throws(c) /\ UNCHANGED durable
    BY <1>1, <1>5, MyRolledBackTurn
  <1> QED BY <1>3, <1>4, <1>5 DEF Mysql!write

LEMMA MyCommitTurn ==
  ASSUME MyT, MyTurn, use_transaction, ~harmed, NEW c \in Callers, Mysql!commit(c)
  PROVE  MyTurn'
  <1>1. /\ UNCHANGED <<use_transaction, owner, harmed, ops>> /\ Alone(c)
        /\ prog[c] # <<>> /\ Head(prog[c]) = "commit"
    BY MyCommitT DEF Mysql!commit, Mysql!NextIs
  <1>2. prog[c] = Commit
    BY <1>1, MyHeads
  <1>3. inTransaction /\ owner = c /\ \A d \in Callers \ {c} : ~MyHolds(d)
    BY <1>2, MyHolder DEF MyHolds
  <1>4. CASE /\ Mysql!Succeeds
             /\ tx' = FALSE /\ txWrites' = {}
             /\ durable' = durable \cup txWrites
             /\ Mysql!goesOn(c)
    <2>1. prog'[c] = <<>> /\ pc'[c] = "next" /\ ~gone
      BY <1>2, <1>4, ProgTable DEF Mysql!goesOn, Mysql!Succeeds, MyT, MyVals, Mysql!TypeOK
    <2>2. MyEntries(c) /\ tx
      BY <1>2, <2>1 DEF MyTurn, MyEntries
    <2>3. ops[c] \in 1 .. MysqlOps
      BY <1>1, MyProgOf
    <2>4. MyBalanced'
      <3> SUFFICES ASSUME NEW d \in Callers, NEW n \in 1 .. MysqlOps
                   PROVE  <<d, n, "write1">> \in durable' <=> <<d, n, "write2">> \in durable'
        BY DEF MyBalanced
      <3>1. <<d, n, "write1">> \in txWrites <=> <<d, n, "write2">> \in txWrites
        <4>1. CASE d = c
          BY <1>2, <2>2, <4>1 DEF MyEntries
        <4>2. CASE d # c
          <5>1. MyEntries(d) /\ prog[d] \notin {Write1, Write2, Commit}
            BY <1>3, <4>2 DEF MyHolds, MyTurn
          <5> QED BY <5>1, MyNone
        <4> QED BY <4>1, <4>2
      <3> QED BY <1>4, <3>1 DEF MyTurn, MyBalanced
    <2>5. MyEntries(c)'
      BY <1>4, <2>1, MyDistinct DEF MyEntries, Inside
    <2>6. \A d \in Callers \ {c} : MyEntries(d)'
      BY <1>1, <1>3, <1>4 DEF MyEntries, Alone, MyHolds
    <2>7. ~MyHolds(c)'
      BY <2>1, MyDistinct DEF MyHolds, Inside
    <2> QED BY <1>1, <1>3, <1>4, <2>4, <2>5, <2>6, <2>7, MyTurnFrame
  <1>5. CASE /\ Mysql!Fails
             /\ tx' = FALSE /\ txWrites' = {}
             /\ Mysql!throws(c)
             /\ UNCHANGED <<durable, inTransaction>>
    <2>1. pc'[c] = "idle" /\ prog'[c] = <<>> /\ gone' = FALSE
      BY <1>5 DEF Mysql!throws, Mysql!Fails, MyT, MyVals, Mysql!TypeOK
    <2> QED BY <1>1, <1>3, <1>5, <2>1, MyFailTurn
  <1> QED BY <1>3, <1>4, <1>5 DEF Mysql!commit, Mysql!Skipped

LEMMA MySelectedTurn ==
  ASSUME MyT, MyTurn, use_transaction, ~harmed', NEW c \in Callers, Mysql!selected(c)
  PROVE  MyTurn'
  <1>1. /\ UNCHANGED <<use_transaction, durable, owner>> /\ Alone(c)
        /\ pc[c] \in {"myTransaction", "selecting"} /\ prog[c] = Look
    BY MySelectedT DEF Mysql!selected, MyT, MyCaller
  <1>2. CASE /\ Mysql!Succeeds
             /\ inTransaction' = (inTransaction /\ Mysql!KeepsFlag(c))
             /\ Mysql!goesOn(c)
             /\ UNCHANGED <<tx, txWrites, harmed, told>>
    <2>1. /\ prog'[c] = <<>> /\ pc'[c] = "next" /\ gone' = gone /\ ~harmed
      BY <1>1, <1>2, LookFacts DEF Mysql!goesOn, Mysql!Succeeds, MyT, MyVals, Mysql!TypeOK
    <2>2. \A d \in Callers \ {c} : MyEntries(d)'
      BY <1>1, <1>2, <2>1 DEF MyTurn, MyEntries, Alone
    <2>3. MyEntries(c)'
      <3>1. \A n \in 1 .. MysqlOps : <<c, n, "write1">> \notin txWrites /\ <<c, n, "write2">> \notin txWrites
        BY <1>1, <2>1, LookFacts, MyNone DEF MyTurn
      <3> QED BY <1>2, <2>1, <3>1, MyDistinct DEF MyEntries, Inside
    <2>4. MyBalanced'
      BY <1>1, <2>1 DEF MyTurn, MyBalanced
    <2>5. ~MyHolds(c)'
      BY <2>1, MyDistinct DEF MyHolds, Inside
    <2>6. (\A d \in Callers \ {c} : ~MyHolds(d)) \/ UNCHANGED <<inTransaction, owner>>
      <3>1. CASE pc[c] = "myTransaction"
        BY <2>1, <3>1, MyHolder DEF MyHolds
      <3>2. CASE pc[c] = "selecting"
        BY <1>1, <1>2, <3>2 DEF Mysql!KeepsFlag, MyT, MyVals, Mysql!TypeOK
      <3> QED BY <1>1, <3>1, <3>2
    <2>7. prog[c] \notin Inside
      BY <1>1, MyDistinct
    <2> QED BY <1>1, <1>2, <2>1, <2>2, <2>3, <2>4, <2>5, <2>6, <2>7, MyTurnFrame DEF Inside
  <1>3. CASE Mysql!Fails /\ Mysql!rollback(c) /\ Mysql!throws(c)
    BY <1>1, <1>3, MyRolledBackTurn
  <1> QED BY <1>2, <1>3 DEF Mysql!selected

LEMMA MyLoseTurn ==
  ASSUME MyT, MyTurn, use_transaction, ~harmed, Mysql!loseConnection
  PROVE  MyTurn'
  <1>1. /\ tx' = FALSE /\ txWrites' = {} /\ (tx \/ gone => gone')
        /\ UNCHANGED <<use_transaction, inTransaction, durable, pc, prog, ops, owner, harmed>>
    BY DEF Mysql!loseConnection
  <1>2. \A c \in Callers : MyEntries(c)'
    BY <1>1 DEF MyTurn, MyEntries
  <1> QED BY <1>1, <1>2 DEF MyTurn, MyHolds, MyBalanced

LEMMA MyStepTurn ==
  ASSUME MyT, MyTurn, Mysql!Next
  PROVE  MyTurn'
  <1> SUFFICES ASSUME use_transaction', ~harmed'
               PROVE  MyTurn'
    BY DEF MyTurn
  <1>1. ASSUME NEW c \in Callers, NEW kind \in Mysql!Kinds, Mysql!operation(c, kind)
        PROVE  MyTurn'
    <2>1. use_transaction /\ ~harmed
      BY <1>1 DEF Mysql!operation
    <2> QED BY <1>1, <2>1, MyOperationTurn
  <1>2. ASSUME NEW c \in Callers, Mysql!caller(c)
        PROVE  MyTurn'
    <2>1. UNCHANGED use_transaction
      BY <1>2, MyPollT, MySetT, MyStartT, MyWriteT, MyCommitT, MySelectT, MySelectedT, MyExceptionT,
         MyReturnT DEF Mysql!caller
    <2>2. Mysql!poll(c) \/ Mysql!start(c) \/ Mysql!commit(c) \/ Mysql!select(c)
          \/ Mysql!exception(c) \/ Mysql!return(c) => ~harmed
      BY DEF Mysql!poll, Mysql!start, Mysql!commit, Mysql!select, Mysql!exception, Mysql!return
    <2> QED BY <1>2, <2>1, <2>2, MyPollTurn, MySetTurn, MyStartTurn, MyWriteTurn, MyCommitTurn,
         MySelectTurn, MySelectedTurn, MyExceptionTurn, MyReturnTurn DEF Mysql!caller
  <1>3. CASE Mysql!loseConnection
    <2>1. use_transaction /\ ~harmed
      BY <1>3 DEF Mysql!loseConnection
    <2> QED BY <1>3, <2>1, MyLoseTurn
  <1> QED BY <1>1, <1>2, <1>3 DEF Mysql!Next

LEMMA MyInit == Mysql!Init => MyInv
  <1> SUFFICES ASSUME Mysql!Init PROVE MyInv
    OBVIOUS
  <1> USE DEF Mysql!Init
  <1>1. MyVals
    <2>1. use_transaction \in BOOLEAN /\ ops \in [Callers -> 0 .. MysqlOps]
          /\ told \in [Callers -> SUBSET Mysql!Writes]
      BY ModeAssumption, CutsAssumption
    <2> QED BY <2>1 DEF MyVals, Mysql!TypeOK
  <1>2. \A c \in Callers : MyCaller(c)
    BY DEF MyCaller, MyProgs, PlainProgs, TxProgs
  <1>3. MyKept
    BY DEF MyKept, MyToldIn
  <1>4. \A c \in Callers : ~MyHolds(c) /\ MyEntries(c)
    BY MyDistinct DEF MyHolds, MyEntries, Inside
  <1>5. MyTurn
    BY <1>4 DEF MyTurn, MyBalanced
  <1> QED BY <1>1, <1>2, <1>3, <1>5 DEF MyT, MyInv

LEMMA MyMeaning ==
  ASSUME MyInv
  PROVE  Mysql!AllOrNothing /\ Mysql!AckedKept
  <1>1. Mysql!AllOrNothing
    BY DEF MyInv, MyTurn, MyBalanced, Mysql!AllOrNothing
  <1>2. /\ ~use_transaction => acked \subseteq durable
        /\ Mysql!Calm => acked \subseteq durable \cup txWrites
    BY DEF MyInv, MyKept, MyToldIn
  <1>3. ASSUME Mysql!Calm, \A c \in Callers : pc[c] = "idle"
        PROVE  acked \subseteq durable
    <2>1. CASE ~use_transaction
      BY <1>2, <2>1
    <2>2. CASE use_transaction
      <3>1. ~tx
        BY <1>3, <2>2, MyDistinct DEF MyInv, MyTurn, MyT, MyCaller, Inside, Mysql!Calm
      <3> QED BY <1>2, <1>3, <3>1 DEF MyInv, MyT, MyVals
    <2> QED BY <2>1, <2>2
  <1> QED BY <1>1, <1>2, <1>3 DEF MyInv, MyT, MyVals, Mysql!AckedKept

-----------------------------------------------------------------------------
(* PostgreSQL.  Callers, their programs and the queue are as with SQLite.  *)

PgVals ==
    /\ Postgres!TypeOK
    /\ exited \/ shutdownFlag < shutdownAttempts
    /\ errors \in Nat
    /\ ops \in [Callers -> 0 .. MaxOps]
    /\ DOMAIN prog = Callers
    /\ told \in [Callers -> SUBSET Postgres!Writes]
PgT == PgVals /\ taskQueue \in Seq(Tasks) /\ CallerInv /\ QueueInv

(* While the connection is there and no statement has failed, the thread   *)
(* is not about to end and every answer says that all went well.           *)
PgCalm == errors = 0 /\ conn
PgCalmInv ==
    PgCalm => /\ shutdownFlag = 0 /\ taskQueueOpen
              /\ \A c \in Callers : /\ pc[c] \notin {"undoKey", "undoAll"}
                                    /\ Done(c) => reply[c] = "ok"

(* Whose the turn is; and an answer "ok" to a write comes after the write. *)
PgTurn ==
    use_transaction /\ ~broken /\ PgCalm =>
        /\ \A c \in Callers : Owns(c) => inTransaction
        /\ \A c, d \in Callers : Owns(c) /\ Owns(d) => c = d
PgInv == PgT /\ PgCalmInv /\ PgTurn /\ ToldIn(durable)

USE DEF Postgres!queueVars

(* What the other operations keep is theirs.                               *)
LEMMA PgQuiet ==
  ASSUME PgT, NEW c \in Callers,
         UNCHANGED <<taskQueue, taskQueueOpen, tpc, use_transaction, ops>>,
         ~Waits(c), pc'[c] \in {"idle", "next", "poll"},
         \A d \in Callers \ {c} : pc'[d] = pc[d] /\ prog'[d] = prog[d] /\ reply'[d] = reply[d],
         CallerOK(c)'
  PROVE  CallerInv' /\ QueueInv'
  <1>1. CallerInv'
    BY CallerFrame DEF PgT
  <1>2. \A d \in Callers : (Waits(d)' <=> Waits(d)) /\ (Waits(d) => Asked(d)' = Asked(d))
    BY DEF Waits, Asked, AtCaller
  <1> QED BY <1>1, <1>2, QueueKept DEF PgT

LEMMA PgProgOf ==
  ASSUME PgT, NEW c \in Callers
  PROVE  /\ use_transaction \in BOOLEAN
         /\ prog[c] \in Progs
         /\ prog[c] \in (IF use_transaction THEN TxProgs ELSE PlainProgs)
         /\ prog[c] # <<>> => ops[c] \in 1 .. MaxOps /\ Head(prog[c]) \in StmtsToAsk \cup {"throw"}
         /\ prog[c] # <<>> => Tail(prog[c]) \in (IF use_transaction THEN TxProgs ELSE PlainProgs)
         /\ ops[c] \in 0 .. MaxOps
         /\ MaxOps \in Nat
         /\ pc[c] \in {"idle", "next", "poll", "wait", "undoKey", "undoAll"}
         /\ <<>> \in PlainProgs \cap TxProgs
  <1>1. prog[c] \in Progs /\ use_transaction \in BOOLEAN
    BY DEF PgT, PgVals, Postgres!TypeOK, CallerInv, CallerOK, Progs
  <1>2. /\ prog[c] \in (IF use_transaction THEN TxProgs ELSE PlainProgs)
        /\ prog[c] # <<>> => ops[c] >= 1
        /\ ops[c] \in 0 .. MaxOps /\ MaxOps \in Nat
        /\ pc[c] \in {"idle", "next", "poll", "wait", "undoKey", "undoAll"}
    BY BoundAssumption DEF PgT, PgVals, Postgres!TypeOK, CallerInv, CallerOK
  <1>3. prog[c] # <<>> =>
            /\ Head(prog[c]) \in StmtsToAsk \cup {"throw"}
            /\ Tail(prog[c]) \in (IF use_transaction THEN TxProgs ELSE PlainProgs)
    BY <1>1, <1>2, ProgFacts
  <1>4. <<>> \in PlainProgs \cap TxProgs
    BY DEF PlainProgs, TxProgs
  <1> QED BY <1>1, <1>2, <1>3, <1>4

LEMMA PgAdded ==
  ASSUME PgT, NEW c \in Callers, ~Waits(c), NEW stmt \in Stmts, NEW state \in AtCaller,
         Postgres!addTask(c, stmt, state), UNCHANGED prog,
         stmt = IF state = "wait" THEN Head(prog[c]) ELSE "rollback"
  PROVE  /\ QueueInv' /\ taskQueue' \in Seq(Tasks)
         /\ pc' = [pc EXCEPT ![c] = state] /\ UNCHANGED taskQueueOpen
         /\ \A d \in Callers \ {c} : reply'[d] = reply[d]
         /\ taskQueueOpen => reply'[c] = "none"
         /\ reply' \in [Callers -> {"none", "ok", "foreignkey", "error", "closed"}]
         /\ tpc' \in {"loop", "inner", "idle", "done"}
  <1> USE DEF PgT, PgVals, Postgres!TypeOK, Postgres!addTask
  <1>1. \A d \in Callers \ {c} : (Waits(d)' <=> Waits(d)) /\ Asked(d)' = Asked(d)
    BY DEF Waits, Asked
  <1>2. CASE ~taskQueueOpen
    <2>1. ~Waits(c)'
      BY <1>2 DEF Waits
    <2> QED BY <2>1, <1>1, <1>2, QueueKept
  <1>3. CASE taskQueueOpen
    <2>1. PICK t : t = [who |-> c, stmt |-> stmt]
      OBVIOUS
    <2>2. /\ taskQueue' = Append(taskQueue, t)
          /\ tpc' # "idle" /\ (tpc' = "done" <=> tpc = "done")
      BY <1>3, <2>1
    <2>3. t \in Tasks /\ t.who = c
      BY <2>1 DEF Tasks
    <2>4. Waits(c)' /\ t = [who |-> c, stmt |-> Asked(c)']
      BY <1>3, <2>1 DEF Waits, Asked, AtCaller
    <2>5. \A i \in DOMAIN taskQueue : taskQueue[i].who # c
      BY Queued DEF QueuedFor
    <2>6. QueueInv' /\ taskQueue' \in Seq(Tasks)
      BY <1>1, <1>3, <2>2, <2>3, <2>4, <2>5, Appended
    <2> QED BY <1>3, <2>6
  <1> QED BY <1>2, <1>3

LEMMA PgAttempt ==
  ASSUME PgT, ~exited, Postgres!Attempt
  PROVE  /\ shutdownFlag' \in 0 .. shutdownAttempts /\ shutdownFlag' >= 1
         /\ exited' \in BOOLEAN
         /\ exited' \/ shutdownFlag' < shutdownAttempts
  <1>1. shutdownFlag \in Nat /\ shutdownFlag < shutdownAttempts /\ shutdownAttempts \in Nat
    BY AttemptsAssumption DEF PgT, PgVals, Postgres!TypeOK
  <1>2. shutdownFlag' = shutdownFlag + 1 /\ (exited' <=> shutdownFlag' >= shutdownAttempts)
    BY DEF Postgres!Attempt, Postgres!TooMany
  <1>3. exited' \in BOOLEAN
    <2>1. exited' = (shutdownFlag' >= shutdownAttempts)
      BY DEF Postgres!Attempt, Postgres!TooMany
    <2>2. (shutdownFlag' >= shutdownAttempts) \in BOOLEAN
      BY <1>1, <1>2
    <2> QED BY <2>1, <2>2, Zenon
  <1> QED BY <1>1, <1>2, <1>3

(* Steps of a caller that ask nothing of the thread.                       *)
LEMMA PgOwnT ==
  ASSUME PgT, NEW c \in Callers,
         \/ \E kind \in Postgres!Kinds : Postgres!operation(c, kind)
         \/ Postgres!lockBegin(c) \/ Postgres!return(c) \/ Postgres!exception(c)
  PROVE  PgT' /\ ~Waits(c) /\ UNCHANGED <<taskQueue, taskQueueOpen, tpc, use_transaction, reply>>
  <1> USE DEF Postgres!operation, Postgres!lockBegin, Postgres!return, Postgres!exception,
              Postgres!NextIs, Postgres!throws
  <1>1. PgVals'
    BY PgProgOf, SMTT(30) DEF PgT, PgVals, Postgres!TypeOK
  <1>2. CallerOK(c)'
    <2>1. ASSUME NEW kind \in Postgres!Kinds, Postgres!operation(c, kind)
          PROVE  CallerOK(c)'
      <3>1. PICK p : p = Program(kind)
        OBVIOUS
      <3>2. /\ p \in (IF use_transaction THEN TxProgs ELSE PlainProgs)
            /\ p = Postgres!Program(kind)
        BY <3>1, PgProgOf, Programs DEF Postgres!Kinds, Kinds, Program, Postgres!Program
      <3> QED BY <2>1, <3>2, PgProgOf DEF CallerOK, PgT, PgVals, Postgres!TypeOK, CallerInv
    <2> QED BY <2>1, PgProgOf, ProgFacts DEF CallerOK, PgT, PgVals, Postgres!TypeOK, CallerInv
  <1>3. /\ ~Waits(c) /\ pc'[c] \in {"idle", "next", "poll"}
        /\ \A d \in Callers \ {c} : pc'[d] = pc[d] /\ prog'[d] = prog[d] /\ reply'[d] = reply[d]
        /\ \A d \in Callers \ {c} : ops'[d] = ops[d]
    BY DEF PgT, PgVals, Postgres!TypeOK, Waits, AtCaller
  <1>4. CallerInv'
    BY <1>2, <1>3, CallerFrame DEF PgT
  <1>5. QueueInv'
    <2>1. \A d \in Callers : (Waits(d)' <=> Waits(d)) /\ (Waits(d) => Asked(d)' = Asked(d))
      BY <1>3 DEF Waits, Asked, AtCaller
    <2> QED BY <2>1, QueueKept DEF PgT
  <1> QED BY <1>1, <1>3, <1>4, <1>5 DEF PgT

LEMMA PgAnsweredT ==
  ASSUME PgT, NEW c \in Callers, Postgres!answered(c)
  PROVE  PgT'
  <1> USE DEF Postgres!answered, Postgres!next, Postgres!Answered
  <1>1. prog[c] # <<>>
    BY DEF PgT, CallerInv, CallerOK
  <1>2. PICK w : w = Postgres!Write(c, Head(prog[c]))
    OBVIOUS
  <1>3. Head(prog[c]) \in Postgres!WriteStmts => w \in Postgres!Writes
    BY <1>1, <1>2, PgProgOf DEF Postgres!Write, Postgres!Writes, Postgres!WriteStmts
  <1>4. inTransaction' \in BOOLEAN
    BY Zenon DEF PgT, PgVals, Postgres!TypeOK
  <1>5. PgVals'
    BY <1>2, <1>3, <1>4 DEF PgT, PgVals, Postgres!TypeOK
  <1>6. CallerOK(c)'
    BY <1>1, PgProgOf DEF CallerOK, PgT, PgVals, Postgres!TypeOK, CallerInv
  <1>7. /\ ~Waits(c) /\ pc'[c] = "next"
        /\ \A d \in Callers \ {c} : pc'[d] = pc[d] /\ prog'[d] = prog[d] /\ reply'[d] = reply[d]
    BY DEF PgT, PgVals, Postgres!TypeOK, Waits, AtCaller
  <1> QED BY <1>5, <1>6, <1>7, PgQuiet DEF PgT

LEMMA PgRolledBackT ==
  ASSUME PgT, ~exited, NEW c \in Callers, Postgres!rolledBack(c)
  PROVE  PgT'
  <1> USE DEF Postgres!rolledBack, Postgres!next, Postgres!goesOn, Postgres!throws, Postgres!Answered
  <1>1. prog[c] # <<>>
    BY DEF PgT, CallerInv, CallerOK
  <1>2. PgVals'
    <2>1. /\ shutdownFlag' \in 0 .. shutdownAttempts /\ exited' \in BOOLEAN
          /\ exited' \/ shutdownFlag' < shutdownAttempts
      <3>1. CASE Postgres!Attempt BY <3>1, PgAttempt
      <3>2. CASE UNCHANGED <<shutdownFlag, exited>> BY <3>2 DEF PgT, PgVals, Postgres!TypeOK
      <3> QED BY <3>1, <3>2
    <2>2. inTransaction' \in BOOLEAN
      BY Zenon DEF PgT, PgVals, Postgres!TypeOK
    <2>3. conn' \in BOOLEAN
      BY Zenon DEF PgT, PgVals, Postgres!TypeOK
    <2>4. /\ pc' \in [Callers -> {"idle", "next", "poll", "wait", "undoKey", "undoAll"}]
          /\ DOMAIN prog' = Callers /\ told' \in [Callers -> SUBSET Postgres!Writes]
          /\ UNCHANGED <<use_transaction, taskQueue, taskQueueOpen, tpc, sqlMutex, durable, reply,
                         ops, errors, broken, acked>>
      BY DEF PgT, PgVals, Postgres!TypeOK
    <2>5. PgVals
      BY DEF PgT
    <2> HIDE DEF Postgres!rolledBack
    <2> QED BY <2>1, <2>2, <2>3, <2>4, <2>5 DEF PgVals, Postgres!TypeOK
  <1>3. CallerOK(c)'
    <2>1. pc \in [Callers -> {"idle", "next", "poll", "wait", "undoKey", "undoAll"}]
          /\ DOMAIN prog = Callers
      BY DEF PgT, PgVals, Postgres!TypeOK
    <2>2. \/ pc'[c] = "idle" /\ prog'[c] = <<>>
          \/ pc'[c] = "next" /\ prog'[c] = Tail(prog[c])
      BY <2>1
    <2>3. ops'[c] = ops[c] /\ use_transaction' = use_transaction
      OBVIOUS
    <2>4. /\ <<>> \in (IF use_transaction THEN TxProgs ELSE PlainProgs)
          /\ Tail(prog[c]) \in (IF use_transaction THEN TxProgs ELSE PlainProgs)
          /\ ops[c] >= 1
      BY <1>1, PgProgOf
    <2> QED
      BY ONLY <2>2, <2>3, <2>4 DEF CallerOK
  <1>4. /\ ~Waits(c) /\ pc'[c] \in {"idle", "next"}
        /\ \A d \in Callers \ {c} : pc'[d] = pc[d] /\ prog'[d] = prog[d] /\ reply'[d] = reply[d]
    BY DEF PgT, PgVals, Postgres!TypeOK, Waits, AtCaller
  <1> QED BY <1>2, <1>3, <1>4, PgQuiet DEF PgT

(* Steps that put a task into the queue.                                   *)
LEMMA PgAsks ==
  ASSUME PgT, NEW c \in Callers, ~Waits(c), NEW stmt \in Stmts, NEW state \in AtCaller,
         Postgres!addTask(c, stmt, state), prog[c] # <<>>, prog[c] # Throw,
         stmt = IF state = "wait" THEN Head(prog[c]) ELSE "rollback",
         state # "wait" => Head(prog[c]) \in WriteStmts,
         UNCHANGED <<prog, use_transaction, sqlMutex, durable, ops, errors, told, acked>>,
         inTransaction' \in BOOLEAN, conn' \in BOOLEAN, broken' \in BOOLEAN, exited' \in BOOLEAN,
         shutdownFlag' \in 0 .. shutdownAttempts, exited' \/ shutdownFlag' < shutdownAttempts
  PROVE  PgT'
  <1>1. /\ QueueInv' /\ taskQueue' \in Seq(Tasks)
        /\ pc' = [pc EXCEPT ![c] = state] /\ UNCHANGED taskQueueOpen
        /\ reply' \in [Callers -> {"none", "ok", "foreignkey", "error", "closed"}]
        /\ tpc' \in {"loop", "inner", "idle", "done"}
    BY PgAdded
  <1>2. PgVals'
    BY <1>1 DEF PgT, PgVals, Postgres!TypeOK, AtCaller
  <1>3. CallerOK(c)'
    BY <1>1, PgProgOf DEF CallerOK, PgT, PgVals, Postgres!TypeOK, AtCaller
  <1>4. \A d \in Callers \ {c} : pc'[d] = pc[d] /\ prog'[d] = prog[d] /\ ops'[d] = ops[d]
    BY <1>1 DEF PgT, PgVals, Postgres!TypeOK
  <1> QED BY <1>1, <1>2, <1>3, <1>4, CallerFrame DEF PgT

LEMMA PgBeginT ==
  ASSUME PgT, ~exited, NEW c \in Callers, Postgres!beginTransaction(c)
  PROVE  PgT'
  <1> USE DEF Postgres!beginTransaction
  <1>1. prog[c] \in {Begin, BeginThrow} /\ prog[c] # <<>> /\ prog[c] # Throw
    BY ProgsNotEmpty, PgProgOf, ProgFacts DEF PgT, CallerInv, CallerOK
  <1>2. Head(prog[c]) = "begin" /\ "begin" \in Stmts /\ "wait" \in AtCaller /\ ~Waits(c)
    BY <1>1, ProgTable DEF Stmts, StmtsToAsk, AtCaller, Waits
  <1> QED BY <1>1, <1>2, PgAsks DEF PgT, PgVals, Postgres!TypeOK

LEMMA PgWriteT ==
  ASSUME PgT, ~exited, NEW c \in Callers, Postgres!write(c)
  PROVE  PgT'
  <1> USE DEF Postgres!write, Postgres!NextIs
  <1>1. prog[c] # <<>> /\ prog[c] # Throw /\ Head(prog[c]) \in Postgres!WriteStmts
    BY ProgTable DEF Postgres!WriteStmts
  <1>2. Head(prog[c]) \in Stmts /\ "wait" \in AtCaller /\ ~Waits(c)
    BY <1>1 DEF Stmts, StmtsToAsk, WriteStmts, Postgres!WriteStmts, AtCaller, Waits
  <1> QED BY <1>1, <1>2, PgAsks DEF PgT, PgVals, Postgres!TypeOK

LEMMA PgCommitT ==
  ASSUME PgT, ~exited, NEW c \in Callers, Postgres!commit(c)
  PROVE  PgT'
  <1> USE DEF Postgres!commit, Postgres!NextIs
  <1>1. prog[c] # <<>> /\ prog[c] # Throw /\ Head(prog[c]) = "commit"
    BY ProgTable
  <1>2. CASE inTransaction
    <2>1. "commit" \in Stmts /\ "wait" \in AtCaller /\ ~Waits(c)
      BY <1>1 DEF Stmts, StmtsToAsk, AtCaller, Waits
    <2> QED BY <1>1, <1>2, <2>1, PgAsks DEF PgT, PgVals, Postgres!TypeOK
  <1>3. CASE ~inTransaction
    <2>1. UNCHANGED <<taskQueue, taskQueueOpen, tpc, pc, reply>> /\ prog' = [prog EXCEPT ![c] = Tail(@)]
      BY <1>3
    <2>2. PgVals'
      BY <2>1 DEF PgT, PgVals, Postgres!TypeOK
    <2>3. CallerOK(c)'
      BY <2>1, <1>1, PgProgOf DEF CallerOK, PgT, PgVals
    <2>4. /\ ~Waits(c) /\ pc'[c] = "next"
          /\ \A d \in Callers \ {c} : pc'[d] = pc[d] /\ prog'[d] = prog[d] /\ reply'[d] = reply[d]
      BY <2>1 DEF PgT, PgVals, Postgres!TypeOK, Waits, AtCaller
    <2> QED BY <2>1, <2>2, <2>3, <2>4, PgQuiet DEF PgT
  <1> QED BY <1>2, <1>3

LEMMA PgHandleT ==
  ASSUME PgT, ~exited, NEW c \in Callers, Postgres!handleException(c)
  PROVE  PgT'
  <1> USE DEF Postgres!handleException, Postgres!Answered
  <1>1. prog[c] # <<>> /\ prog[c] # Throw /\ Head(prog[c]) \in WriteStmts /\ ~Waits(c)
        /\ UNCHANGED <<use_transaction, inTransaction, sqlMutex, durable, ops, errors, broken, acked>>
    BY ProgTable DEF PgT, CallerInv, CallerOK, Waits, WriteStmts, Postgres!WriteStmts
  <1>2. /\ shutdownFlag' \in 0 .. shutdownAttempts /\ exited' \in BOOLEAN
        /\ exited' \/ shutdownFlag' < shutdownAttempts
    <2>1. CASE Postgres!Attempt BY <2>1, PgAttempt
    <2>2. CASE UNCHANGED <<shutdownFlag, exited>> BY <2>2 DEF PgT, PgVals, Postgres!TypeOK
    <2> QED BY <2>1, <2>2
  <1>3. conn' \in BOOLEAN
    BY Zenon DEF PgT, PgVals, Postgres!TypeOK
  <1>4. \/ \E state \in {"undoKey", "undoAll"} :
              Postgres!addTask(c, "rollback", state) /\ UNCHANGED <<prog, told>>
        \/ /\ Postgres!goesOn(c) \/ Postgres!throws(c)
           /\ UNCHANGED <<taskQueue, taskQueueOpen, tpc, reply>>
    OBVIOUS
  <1> HIDE DEF Postgres!handleException
  <1>5. ASSUME NEW state \in {"undoKey", "undoAll"}, Postgres!addTask(c, "rollback", state),
               UNCHANGED <<prog, told>>
        PROVE  PgT'
    <2>1. "rollback" \in Stmts /\ state \in AtCaller /\ state # "wait"
      BY DEF Stmts, AtCaller
    <2> QED BY <1>1, <1>2, <1>3, <1>5, <2>1, PgAsks DEF PgT, PgVals, Postgres!TypeOK
  <1>6. ASSUME Postgres!goesOn(c) \/ Postgres!throws(c),
               UNCHANGED <<taskQueue, taskQueueOpen, tpc, reply>>
        PROVE  PgT'
    <2>1. PgVals'
      <3>1. /\ pc' \in [Callers -> {"idle", "next", "poll", "wait", "undoKey", "undoAll"}]
            /\ DOMAIN prog' = Callers /\ told' \in [Callers -> SUBSET Postgres!Writes]
        BY <1>6 DEF PgT, PgVals, Postgres!TypeOK, Postgres!goesOn, Postgres!next, Postgres!throws
      <3> QED BY <1>1, <1>2, <1>3, <1>6, <3>1 DEF PgT, PgVals, Postgres!TypeOK
    <2>2. CallerOK(c)'
      <3>1. CASE Postgres!goesOn(c)
        BY <1>1, <3>1, PgProgOf DEF CallerOK, PgT, PgVals, Postgres!TypeOK, Postgres!goesOn,
                                    Postgres!next
      <3>2. CASE Postgres!throws(c)
        BY <1>1, <3>2, PgProgOf DEF CallerOK, PgT, PgVals, Postgres!TypeOK, Postgres!throws
      <3> QED BY <1>6, <3>1, <3>2
    <2>3. /\ pc'[c] \in {"idle", "next"}
          /\ \A d \in Callers \ {c} : pc'[d] = pc[d] /\ prog'[d] = prog[d] /\ reply'[d] = reply[d]
      BY <1>6 DEF PgT, PgVals, Postgres!TypeOK, Postgres!goesOn, Postgres!next, Postgres!throws
    <2> QED BY <1>1, <1>6, <2>1, <2>2, <2>3, PgQuiet DEF PgT
  <1> QED BY <1>4, <1>5, <1>6

(* The thread.                                                             *)
LEMMA PgHead ==
  ASSUME PgT, Postgres!runTask
  PROVE  /\ taskQueue # <<>> /\ taskQueueOpen
         /\ \/ Head(taskQueue) = [who |-> Timer, stmt |-> "backup"]
            \/ \E c \in Callers : Waits(c) /\ Head(taskQueue) = [who |-> c, stmt |-> Asked(c)]
  <1>1. taskQueue # <<>> /\ taskQueue \in Seq(Tasks) /\ taskQueueOpen
    BY DEF PgT, QueueInv, Postgres!runTask
  <1>2. Head(taskQueue) = taskQueue[1] /\ 1 \in DOMAIN taskQueue
    BY <1>1
  <1>3. TaskOK(taskQueue[1])
    BY <1>2 DEF PgT, QueueInv
  <1> QED BY <1>1, <1>2, <1>3 DEF TaskOK

(* What it tells whom, and what the statement has left in the database.    *)
LEMMA PgExecuted ==
  ASSUME PgT, Postgres!runTask
  PROVE  \E w \in Callers \cup {Timer}, value \in {"ok", "foreignkey", "error"} :
            /\ w = Head(taskQueue).who
            /\ reply' = [reply EXCEPT ![w] = value]
            /\ w \in Callers => Waits(w)
            /\ value # "ok" => durable' = durable
            /\ value # "ok" => ~conn \/ errors' = errors + 1
            /\ value = "ok" /\ (w = Timer \/ Asked(w) \notin WriteStmts) => durable' = durable
            /\ value = "ok" /\ w # Timer /\ Asked(w) \in WriteStmts =>
                  durable' = durable \cup {Postgres!Write(w, Asked(w))}
  <1>1. PICK t : t = Head(taskQueue)
    OBVIOUS
  <1>2. PICK value \in {"ok", "foreignkey", "error"} :
           /\ reply' = [reply EXCEPT ![t.who] = value]
           /\ value # "ok" => durable' = durable
           /\ value # "ok" => ~conn \/ errors' = errors + 1
           /\ value = "ok" => durable' = Postgres!AfterTask(t)
    BY <1>1 DEF Postgres!runTask
  <1>3. \/ t = [who |-> Timer, stmt |-> "backup"]
        \/ \E c \in Callers : Waits(c) /\ t = [who |-> c, stmt |-> Asked(c)]
    BY <1>1, PgHead
  <1>4. Timer \notin Callers /\ "backup" \notin WriteStmts /\ WriteStmts = Postgres!WriteStmts
    BY CallersAssumption DEF Timer, WriteStmts, Postgres!WriteStmts
  <1>5. CASE t = [who |-> Timer, stmt |-> "backup"]
    <2>1. t.who = Timer /\ Postgres!AfterTask(t) = durable
      BY <1>4, <1>5 DEF Postgres!AfterTask
    <2> QED BY <1>1, <1>2, <1>4, <2>1
  <1>6. ASSUME NEW c \in Callers, Waits(c), t = [who |-> c, stmt |-> Asked(c)]
        PROVE  \E w \in Callers \cup {Timer}, v \in {"ok", "foreignkey", "error"} :
                  /\ w = Head(taskQueue).who
                  /\ reply' = [reply EXCEPT ![w] = v]
                  /\ w \in Callers => Waits(w)
                  /\ v # "ok" => durable' = durable
                  /\ v # "ok" => ~conn \/ errors' = errors + 1
                  /\ v = "ok" /\ (w = Timer \/ Asked(w) \notin WriteStmts) => durable' = durable
                  /\ v = "ok" /\ w # Timer /\ Asked(w) \in WriteStmts =>
                        durable' = durable \cup {Postgres!Write(w, Asked(w))}
    <2>1. PICK stmt : stmt = Asked(c)
      OBVIOUS
    <2>2. t.who = c /\ t.stmt = stmt /\ c # Timer
      BY <1>4, <1>6, <2>1
    <2>3. /\ stmt \in WriteStmts => Postgres!AfterTask(t) = durable \cup {Postgres!Write(c, stmt)}
          /\ stmt \notin WriteStmts => Postgres!AfterTask(t) = durable
      BY <1>4, <2>2 DEF Postgres!AfterTask
    <2>4. /\ c = Head(taskQueue).who /\ reply' = [reply EXCEPT ![c] = value]
          /\ value = "ok" /\ Asked(c) \notin WriteStmts => durable' = durable
          /\ value = "ok" /\ Asked(c) \in WriteStmts =>
                durable' = durable \cup {Postgres!Write(c, Asked(c))}
      BY <1>1, <1>2, <2>1, <2>2, <2>3
    <2> QED BY <1>2, <1>6, <2>2, <2>4
  <1> QED BY <1>3, <1>5, <1>6

LEMMA PgRunT ==
  ASSUME PgT, Postgres!runTask
  PROVE  PgT'
  <1>1. PICK w \in Callers \cup {Timer}, value \in {"ok", "foreignkey", "error"} :
            /\ w = Head(taskQueue).who
            /\ reply' = [reply EXCEPT ![w] = value]
            /\ w \in Callers => Waits(w)
            /\ value # "ok" => durable' = durable
            /\ value = "ok" /\ (w = Timer \/ Asked(w) \notin WriteStmts) => durable' = durable
            /\ value = "ok" /\ w # Timer /\ Asked(w) \in WriteStmts =>
                  durable' = durable \cup {Postgres!Write(w, Asked(w))}
    BY PgExecuted
  <1>2. /\ tpc = "inner" /\ tpc' = "inner" /\ taskQueue # <<>> /\ taskQueue' = Tail(taskQueue)
        /\ UNCHANGED <<use_transaction, taskQueueOpen, shutdownFlag, inTransaction, sqlMutex,
                       conn, pc, prog, ops, exited, broken, told, acked>>
    BY DEF Postgres!runTask
  <1>3. QueueInv' /\ taskQueue' \in Seq(Tasks)
    <2>1. \A d \in Callers : d # w => (Waits(d)' <=> Waits(d)) /\ Asked(d)' = Asked(d)
      BY <1>1, <1>2 DEF Waits, Asked, PgT, PgVals, Postgres!TypeOK
    <2>2. w \in Callers => ~Waits(w)'
      BY <1>1, <1>2 DEF Waits, PgT, PgVals, Postgres!TypeOK
    <2> QED BY <1>1, <1>2, <2>1, <2>2, Taken DEF PgT
  <1>4. durable' \subseteq Postgres!Writes
    <2>1. ASSUME w \in Callers, Asked(w) \in WriteStmts
          PROVE  Postgres!Write(w, Asked(w)) \in Postgres!Writes
      <3>1. pc[w] = "wait" /\ prog[w] # <<>>
        BY <1>1, <2>1 DEF Asked, Waits, AtCaller, WriteStmts, PgT, CallerInv, CallerOK
      <3>2. ops[w] \in 1 .. MaxOps
        BY <2>1, <3>1, PgProgOf
      <3> QED BY <2>1, <3>2 DEF Postgres!Write, Postgres!Writes, WriteStmts
    <2>2. PICK x : x = Postgres!Write(w, Asked(w))
      OBVIOUS
    <2> QED BY <1>1, <2>1, <2>2, CallersAssumption DEF PgT, PgVals, Postgres!TypeOK, Timer
  <1>5. errors' \in Nat
    BY DEF Postgres!runTask, PgT, PgVals
  <1>6. PgVals'
    <2>1. reply' \in [Callers -> {"none", "ok", "foreignkey", "error", "closed"}]
      BY <1>1 DEF PgT, PgVals, Postgres!TypeOK
    <2> QED BY <1>2, <1>4, <1>5, <2>1 DEF PgT, PgVals, Postgres!TypeOK
  <1>7. CallerInv'
    BY <1>2 DEF PgT, CallerInv, CallerOK
  <1> QED BY <1>3, <1>6, <1>7 DEF PgT

LEMMA PgSleepT ==
  ASSUME PgT, Postgres!sleep
  PROVE  PgT'
  <1> USE DEF Postgres!sleep
  <1>1. PgVals'
    BY DEF PgT, PgVals, Postgres!TypeOK
  <1>2. QueueInv'
    BY DEF PgT, QueueInv, TaskOK, QueuedFor, Waits, Asked
  <1> QED BY <1>1, <1>2 DEF PgT, CallerInv, CallerOK

LEMMA PgLoopT ==
  ASSUME PgT, Postgres!loop
  PROVE  PgT'
  <1> USE DEF Postgres!loop
  <1>1. CallerInv'
    BY DEF PgT, CallerInv, CallerOK
  <1>2. CASE Postgres!EndsThread
    <2>1. \A c \in Callers : reply'[c] = IF QueuedFor(c) THEN "closed" ELSE reply[c]
      BY <1>2 DEF Postgres!Drained, QueuedFor
    <2>2. \A c \in Callers : ~Waits(c)'
      BY <2>1 DEF Waits, PgT, QueueInv
    <2>3. QueueInv' /\ taskQueue' \in Seq(Tasks)
      BY <1>2, <2>2 DEF QueueInv
    <2>4. reply' \in [Callers -> {"none", "ok", "foreignkey", "error", "closed"}]
      BY <1>2 DEF Postgres!Drained, PgT, PgVals, Postgres!TypeOK
    <2>5. PgVals'
      BY <1>2, <2>4 DEF PgT, PgVals, Postgres!TypeOK
    <2> QED BY <1>1, <2>3, <2>5 DEF PgT
  <1>3. CASE ~Postgres!EndsThread
    <2>1. tpc' = "inner" /\ UNCHANGED <<taskQueueOpen, reply, taskQueue, conn>>
      BY <1>3
    <2>2. PgVals'
      BY <2>1 DEF PgT, PgVals, Postgres!TypeOK
    <2>3. QueueInv'
      BY <2>1 DEF PgT, QueueInv, TaskOK, QueuedFor, Waits, Asked
    <2> QED BY <1>1, <2>1, <2>2, <2>3 DEF PgT
  <1> QED BY <1>2, <1>3

LEMMA PgLoseT ==
  ASSUME PgT, Postgres!loseConnection
  PROVE  PgT'
  <1> USE DEF Postgres!loseConnection
  <1>1. PgVals'
    BY DEF PgT, PgVals, Postgres!TypeOK
  <1>2. QueueInv'
    BY DEF PgT, QueueInv, TaskOK, QueuedFor, Waits, Asked
  <1> QED BY <1>1, <1>2 DEF PgT, CallerInv, CallerOK

LEMMA PgStepT ==
  ASSUME PgT, Postgres!Next
  PROVE  PgT'
  <1>1. ASSUME NEW c \in Callers, NEW kind \in Postgres!Kinds, Postgres!operation(c, kind)
        PROVE  PgT'
    BY <1>1, PgOwnT
  <1>2. ASSUME NEW c \in Callers, Postgres!caller(c)
        PROVE  PgT'
    BY <1>2, PgOwnT, PgBeginT, PgWriteT, PgCommitT, PgAnsweredT, PgHandleT, PgRolledBackT
       DEF Postgres!caller, Postgres!Next
  <1> QED BY <1>1, <1>2, PgRunT, PgSleepT, PgLoopT, PgLoseT DEF Postgres!Next, Postgres!threadProc

(* What a step can do to the counters and flags.                           *)
LEMMA PgStays ==
  ASSUME PgT, Postgres!Next
  PROVE  /\ errors \in Nat /\ (errors' = errors \/ errors' = errors + 1) /\ (conn' => conn)
         /\ use_transaction' = use_transaction
         /\ broken => broken'
  <1>1. errors \in Nat /\ (errors' = errors \/ errors' = errors + 1) /\ (conn' => conn)
    BY Zenon DEF PgT, PgVals, Postgres!Next, Postgres!caller, Postgres!threadProc, Postgres!operation,
       Postgres!lockBegin, Postgres!beginTransaction, Postgres!write, Postgres!commit, Postgres!return,
       Postgres!exception, Postgres!answered, Postgres!handleException, Postgres!rolledBack,
       Postgres!runTask, Postgres!sleep, Postgres!loop, Postgres!loseConnection
  <1>2. use_transaction' = use_transaction
    BY Zenon DEF Postgres!Next, Postgres!caller, Postgres!threadProc, Postgres!operation,
       Postgres!lockBegin, Postgres!beginTransaction, Postgres!write, Postgres!commit, Postgres!return,
       Postgres!exception, Postgres!answered, Postgres!handleException, Postgres!rolledBack,
       Postgres!runTask, Postgres!sleep, Postgres!loop, Postgres!loseConnection
  <1>3. broken => broken'
    BY Zenon DEF Postgres!Next, Postgres!caller, Postgres!threadProc, Postgres!operation,
       Postgres!lockBegin, Postgres!beginTransaction, Postgres!write, Postgres!commit, Postgres!return,
       Postgres!exception, Postgres!answered, Postgres!handleException, Postgres!rolledBack,
       Postgres!runTask, Postgres!sleep, Postgres!loop, Postgres!loseConnection
  <1> QED BY <1>1, <1>2, <1>3

(* As long as all goes well.                                               *)
LEMMA PgStepC ==
  ASSUME PgT, PgCalmInv, Postgres!Next
  PROVE  PgCalmInv'
  <1> SUFFICES ASSUME errors' = 0, conn'
               PROVE  PgCalmInv'
    BY DEF PgCalmInv, PgCalm
  <1>0. errors \in Nat /\ (errors' = errors \/ errors' = errors + 1) /\ (conn' => conn)
    BY PgStays
  <1>1. /\ errors = 0 /\ conn
        /\ shutdownFlag = 0 /\ taskQueueOpen
        /\ \A c \in Callers : /\ pc[c] \notin {"undoKey", "undoAll"}
                              /\ Done(c) => reply[c] = "ok"
    BY <1>0 DEF PgCalmInv, PgCalm
  <1>2. ASSUME NEW c \in Callers,
               \/ \E kind \in Postgres!Kinds : Postgres!operation(c, kind)
               \/ Postgres!lockBegin(c) \/ Postgres!return(c) \/ Postgres!exception(c)
        PROVE  PgCalmInv'
    BY <1>1, <1>2 DEF PgCalmInv, Done, PgT, PgVals, Postgres!TypeOK, Postgres!operation,
       Postgres!lockBegin, Postgres!return, Postgres!exception, Postgres!throws
  <1>3. ASSUME NEW c \in Callers, Postgres!beginTransaction(c) \/ Postgres!write(c) \/ Postgres!commit(c)
        PROVE  PgCalmInv'
    <2>1. ASSUME NEW stmt, Postgres!addTask(c, stmt, "wait"), UNCHANGED shutdownFlag
          PROVE  PgCalmInv'
      BY <1>1, <2>1 DEF PgCalmInv, Done, PgT, PgVals, Postgres!TypeOK, Postgres!addTask
    <2>2. ASSUME UNCHANGED <<shutdownFlag, taskQueueOpen, pc, reply>>
          PROVE  PgCalmInv'
      BY <1>1, <2>2 DEF PgCalmInv, Done
    <2>3. UNCHANGED shutdownFlag
      BY <1>3 DEF Postgres!beginTransaction, Postgres!write, Postgres!commit
    <2>4. \/ Postgres!addTask(c, "begin", "wait") \/ Postgres!addTask(c, Head(prog[c]), "wait")
          \/ Postgres!addTask(c, "commit", "wait") \/ UNCHANGED <<taskQueueOpen, pc, reply>>
      BY <1>3 DEF Postgres!beginTransaction, Postgres!write, Postgres!commit
    <2> QED BY <2>1, <2>2, <2>3, <2>4
  <1>4. ASSUME NEW c \in Callers, Postgres!answered(c)
        PROVE  PgCalmInv'
    BY <1>1, <1>4 DEF PgCalmInv, Done, PgT, PgVals, Postgres!TypeOK, Postgres!answered, Postgres!next
  <1>5. ASSUME NEW c \in Callers, Postgres!handleException(c) \/ Postgres!rolledBack(c)
        PROVE  FALSE
    BY <1>1, <1>5 DEF Done, Postgres!handleException, Postgres!rolledBack, Postgres!Answered
  <1>6. CASE Postgres!runTask
    <2>1. PICK w \in Callers \cup {Timer}, value \in {"ok", "foreignkey", "error"} :
              reply' = [reply EXCEPT ![w] = value] /\ (value # "ok" => ~conn \/ errors' = errors + 1)
      BY <1>6, PgExecuted
    <2>2. value = "ok"
      BY <1>0, <1>1, <2>1
    <2>3. UNCHANGED <<shutdownFlag, taskQueueOpen, pc>>
      BY <1>6 DEF Postgres!runTask
    <2> QED BY <1>1, <2>1, <2>2, <2>3 DEF PgCalmInv, Done, PgT, PgVals, Postgres!TypeOK
  <1>7. CASE Postgres!sleep \/ Postgres!loop
    BY <1>1, <1>7 DEF Postgres!sleep, Postgres!loop, Postgres!EndsThread, PgCalmInv, Done
  <1>8. CASE Postgres!loseConnection
    BY <1>8 DEF Postgres!loseConnection
  <1> QED BY <1>2, <1>3, <1>4, <1>5, <1>6, <1>7, <1>8
          DEF Postgres!Next, Postgres!caller, Postgres!threadProc

LEMMA PgStepTurn ==
  ASSUME PgT, PgCalmInv, PgCalmInv', PgTurn, Postgres!Next
  PROVE  PgTurn'
  <1> SUFFICES ASSUME use_transaction', ~broken', errors' = 0, conn'
               PROVE  PgTurn'
    BY DEF PgTurn, PgCalm
  <1>0. /\ errors \in Nat /\ (errors' = errors \/ errors' = errors + 1) /\ (conn' => conn)
        /\ use_transaction /\ ~broken
    BY PgStays
  <1>1. /\ PgCalm /\ taskQueueOpen
        /\ \A c \in Callers : Owns(c) => inTransaction
        /\ \A c, d \in Callers : Owns(c) /\ Owns(d) => c = d
    BY <1>0 DEF PgTurn, PgCalm, PgCalmInv
  (* Nobody comes to own the turn, and the flag stays.                     *)
  <1>2. ASSUME UNCHANGED inTransaction, \A d \in Callers : Owns(d)' => Owns(d)
        PROVE  PgTurn'
    BY <1>1, <1>2 DEF PgTurn
  <1>3. ASSUME NEW c \in Callers,
               \/ \E kind \in Postgres!Kinds : Postgres!operation(c, kind)
               \/ Postgres!lockBegin(c) \/ Postgres!return(c) \/ Postgres!exception(c)
        PROVE  PgTurn'
    <2>1. UNCHANGED inTransaction
      BY <1>3 DEF Postgres!operation, Postgres!lockBegin, Postgres!return, Postgres!exception
    <2>2. ASSUME NEW kind \in Postgres!Kinds, Postgres!operation(c, kind)
          PROVE  ~Owns(c)'
      <3>1. PICK p : p = Postgres!Program(kind)
        OBVIOUS
      <3>2. p \in {Single, Begin, BeginThrow}
        BY <1>0, <3>1 DEF Postgres!Program, Postgres!Kinds, Single, Begin, BeginThrow
      <3> QED BY <2>2, <3>1, <3>2, TxDistinct
              DEF Postgres!operation, Owns, PgT, PgVals, Postgres!TypeOK
    <2>3. ASSUME Postgres!lockBegin(c) \/ Postgres!return(c)
          PROVE  Owns(c)' => Owns(c)
      BY <2>3 DEF Postgres!lockBegin, Postgres!return, Owns, PgT, PgVals, Postgres!TypeOK
    <2>4. ASSUME Postgres!exception(c)
          PROVE  ~Owns(c)'
      BY <2>4, TxDistinct DEF Postgres!exception, Postgres!throws, Owns, PgT, PgVals, Postgres!TypeOK
    <2>5. \A d \in Callers \ {c} : Owns(d)' => Owns(d)
      BY <1>3 DEF Postgres!operation, Postgres!lockBegin, Postgres!return, Postgres!exception,
         Postgres!throws, Owns, PgT, PgVals, Postgres!TypeOK
    <2> QED BY <1>2, <1>3, <2>1, <2>2, <2>3, <2>4, <2>5
  <1>4. ASSUME NEW c \in Callers, Postgres!beginTransaction(c)
        PROVE  PgTurn'
    <2>1. ~inTransaction /\ inTransaction'
      BY <1>4 DEF Postgres!beginTransaction, Postgres!MayBegin
    <2>2. \A d \in Callers : ~Owns(d)
      BY <1>1, <2>1
    <2>3. \A d \in Callers \ {c} : ~Owns(d)'
      BY <1>4, <2>2 DEF Postgres!beginTransaction, Postgres!addTask, Owns, PgT, PgVals, Postgres!TypeOK
    <2> QED BY <2>1, <2>3 DEF PgTurn
  <1>5. ASSUME NEW c \in Callers, Postgres!write(c) \/ (Postgres!commit(c) /\ inTransaction)
        PROVE  PgTurn'
    <2>1. UNCHANGED <<inTransaction, prog>> /\ pc' = [pc EXCEPT ![c] = "wait"] /\ pc[c] = "next"
          /\ prog[c] # <<>> /\ Head(prog[c]) \in WriteStmts \cup {"commit"}
      BY <1>5 DEF Postgres!write, Postgres!commit, Postgres!addTask, Postgres!NextIs,
         Postgres!WriteStmts, WriteStmts
    <2>2. prog[c] \notin {Begin, BeginThrow}
      BY <2>1, ProgTable DEF WriteStmts
    <2>3. \A d \in Callers : Owns(d)' => Owns(d)
      BY <2>1, <2>2 DEF Owns, PgT, PgVals, Postgres!TypeOK
    <2> QED BY <1>2, <2>1, <2>3
  <1>6. ASSUME NEW c \in Callers, Postgres!commit(c), ~inTransaction
        PROVE  FALSE
    <2>1. prog[c] # <<>> /\ Head(prog[c]) = "commit"
      BY <1>6 DEF Postgres!commit, Postgres!NextIs
    <2>2. prog[c] = Commit
      BY <2>1, PgProgOf, ProgFacts
    <2> QED BY <1>1, <1>6, <2>2 DEF Owns
  <1>7. ASSUME NEW c \in Callers, Postgres!answered(c)
        PROVE  PgTurn'
    <2>1. /\ pc[c] = "wait" /\ pc' = [pc EXCEPT ![c] = "next"] /\ prog' = [prog EXCEPT ![c] = Tail(@)]
          /\ inTransaction' = (inTransaction /\ Head(prog[c]) # "commit")
      BY <1>7 DEF Postgres!answered, Postgres!next, Postgres!Answered
    <2>2. prog[c] # <<>> /\ prog[c] \in TxProgs
      BY <1>0, <2>1, PgProgOf DEF PgT, CallerInv, CallerOK
    <2>3. Owns(c)' => Owns(c) /\ Head(prog[c]) # "commit"
      BY <2>1, <2>2, ProgTable, TxDistinct, ProgsNotEmpty DEF Owns, TxProgs, PgT, PgVals, Postgres!TypeOK
    <2>4. \A d \in Callers \ {c} : Owns(d)' <=> Owns(d)
      BY <2>1 DEF Owns, PgT, PgVals, Postgres!TypeOK
    <2>5. Head(prog[c]) = "commit" => Owns(c)
      BY <2>2, PgProgOf, ProgFacts DEF Owns
    <2>6. CASE Head(prog[c]) = "commit"
      BY <1>1, <2>3, <2>4, <2>5, <2>6 DEF PgTurn
    <2>7. CASE Head(prog[c]) # "commit"
      <3>1. inTransaction' <=> inTransaction
        BY <2>1, <2>7, Zenon
      <3> QED BY <1>1, <2>3, <2>4, <3>1 DEF PgTurn
    <2> QED BY <2>6, <2>7
  <1>8. ASSUME NEW c \in Callers, Postgres!handleException(c) \/ Postgres!rolledBack(c)
        PROVE  FALSE
    BY <1>1, <1>8 DEF PgCalmInv, Done, Postgres!handleException, Postgres!rolledBack, Postgres!Answered
  <1>9. CASE Postgres!threadProc \/ Postgres!loseConnection
    BY <1>2, <1>9 DEF Postgres!threadProc, Postgres!runTask, Postgres!sleep, Postgres!loop,
       Postgres!loseConnection, Owns
  <1> QED BY <1>3, <1>4, <1>5, <1>6, <1>7, <1>8, <1>9 DEF Postgres!Next, Postgres!caller

LEMMA PgStepK ==
  ASSUME PgT, ToldIn(durable), Postgres!Next
  PROVE  ToldIn(durable)'
  <1> USE DEF WriteStmts, Postgres!WriteStmts, Write, Postgres!Write
  <1>1. /\ acked \subseteq durable
        /\ \A c \in Callers : ToldOf(c) \subseteq durable
    BY DEF ToldIn
  <1>2. ASSUME durable \subseteq durable', acked' \subseteq acked,
               \A d \in Callers : ToldOf(d)' \subseteq ToldOf(d)
        PROVE  ToldIn(durable)'
    BY <1>1, <1>2 DEF ToldIn
  <1>3. ASSUME NEW c \in Callers,
               durable' = durable, acked' \subseteq acked \cup told[c],
               \A d \in Callers \ {c} : /\ pc'[d] = pc[d] /\ prog'[d] = prog[d] /\ ops'[d] = ops[d]
                                        /\ reply'[d] = reply[d] /\ told'[d] = told[d],
               told'[c] \subseteq ToldOf(c), ~Done(c)' \/ reply'[c] # "ok"
        PROVE  ToldIn(durable)'
    <2>1. \A d \in Callers \ {c} : ToldOf(d)' = ToldOf(d)
      BY <1>3 DEF ToldOf, Done
    <2>2. ToldOf(c)' \subseteq ToldOf(c) /\ told[c] \subseteq ToldOf(c)
      BY <1>3 DEF ToldOf
    <2> QED BY <1>1, <1>3, <2>1, <2>2 DEF ToldIn
  <1>4. ASSUME NEW c \in Callers,
               (\E kind \in Postgres!Kinds : Postgres!operation(c, kind)) \/ Postgres!caller(c)
        PROVE  ToldIn(durable)'
    <2> USE <1>4 DEF PgT, PgVals, Postgres!TypeOK
    (* The others are as they were.                                        *)
    <2>1. \A d \in Callers \ {c} : /\ pc'[d] = pc[d] /\ prog'[d] = prog[d] /\ ops'[d] = ops[d]
                                   /\ reply'[d] = reply[d] /\ told'[d] = told[d]
      <3>1. CASE \/ \E kind \in Postgres!Kinds : Postgres!operation(c, kind)
                 \/ Postgres!lockBegin(c) \/ Postgres!return(c) \/ Postgres!exception(c)
        BY <3>1 DEF Postgres!operation, Postgres!lockBegin, Postgres!return, Postgres!exception,
           Postgres!throws
      <3>2. CASE Postgres!beginTransaction(c) \/ Postgres!write(c) \/ Postgres!commit(c)
        BY <3>2 DEF Postgres!beginTransaction, Postgres!write, Postgres!commit, Postgres!addTask
      <3>3. CASE Postgres!answered(c)
        BY <3>3 DEF Postgres!answered, Postgres!next
      <3>4. CASE Postgres!handleException(c) \/ Postgres!rolledBack(c)
        BY <3>4 DEF Postgres!handleException, Postgres!rolledBack, Postgres!addTask, Postgres!goesOn,
           Postgres!next, Postgres!throws
      <3> QED BY <3>1, <3>2, <3>3, <3>4 DEF Postgres!caller
    <2>2. durable' = durable /\ acked' \subseteq acked \cup told[c]
      BY DEF Postgres!caller, Postgres!operation, Postgres!lockBegin, Postgres!beginTransaction,
         Postgres!write, Postgres!commit, Postgres!return, Postgres!exception, Postgres!answered,
         Postgres!handleException, Postgres!rolledBack
    <2>3. told'[c] \subseteq ToldOf(c)
      <3>1. told'[c] = {} \/ told'[c] = told[c] \/ Postgres!answered(c)
        BY DEF Postgres!caller, Postgres!operation, Postgres!lockBegin, Postgres!beginTransaction,
           Postgres!write, Postgres!commit, Postgres!return, Postgres!exception, Postgres!throws,
           Postgres!handleException, Postgres!rolledBack, Postgres!goesOn
      <3> QED BY <3>1 DEF Postgres!answered, Postgres!next, Postgres!Answered, Done, ToldOf
    <2>4. ~Done(c)' \/ reply'[c] # "ok"
      <3>1. ASSUME NEW stmt, NEW state, Postgres!addTask(c, stmt, state)
            PROVE  reply'[c] # "ok"
        BY <3>1 DEF Postgres!addTask
      <3>2. \/ reply'[c] # "ok" \/ pc'[c] # "wait"
            \/ \E stmt, state : Postgres!addTask(c, stmt, state)
        <4>1. CASE \/ \E kind \in Postgres!Kinds : Postgres!operation(c, kind)
                   \/ Postgres!lockBegin(c) \/ Postgres!return(c) \/ Postgres!exception(c)
          BY <4>1 DEF Postgres!operation, Postgres!lockBegin, Postgres!return, Postgres!exception,
             Postgres!throws
        <4>2. CASE Postgres!beginTransaction(c) \/ Postgres!write(c) \/ Postgres!commit(c)
          BY <4>2 DEF Postgres!beginTransaction, Postgres!write, Postgres!commit, Postgres!NextIs
        <4>3. CASE Postgres!answered(c)
          BY <4>3 DEF Postgres!answered, Postgres!next
        <4>4. CASE Postgres!handleException(c) \/ Postgres!rolledBack(c)
          BY <4>4 DEF Postgres!handleException, Postgres!rolledBack, Postgres!goesOn, Postgres!next,
             Postgres!throws
        <4> QED BY <4>1, <4>2, <4>3, <4>4 DEF Postgres!caller
      <3> QED BY <3>1, <3>2 DEF Done
    <2> QED BY <1>3, <2>1, <2>2, <2>3, <2>4
  <1>5. CASE Postgres!runTask
    <2>1. PICK w \in Callers \cup {Timer}, value \in {"ok", "foreignkey", "error"} :
            /\ reply' = [reply EXCEPT ![w] = value]
            /\ w \in Callers => Waits(w)
            /\ value # "ok" => durable' = durable
            /\ value = "ok" /\ (w = Timer \/ Asked(w) \notin WriteStmts) => durable' = durable
            /\ value = "ok" /\ w # Timer /\ Asked(w) \in WriteStmts =>
                  durable' = durable \cup {Postgres!Write(w, Asked(w))}
      BY <1>5, PgExecuted
    <2>2. UNCHANGED <<pc, prog, ops, told, acked>>
      BY <1>5 DEF Postgres!runTask
    <2>3. durable \subseteq durable'
      BY <2>1
    <2>4. ASSUME NEW d \in Callers, d # w
          PROVE  ToldOf(d)' \subseteq durable'
      <3>1. reply'[d] = reply[d]
        BY <2>1, <2>4 DEF PgT, PgVals, Postgres!TypeOK
      <3> QED BY <1>1, <2>2, <2>3, <3>1 DEF ToldOf, Done
    <2>5. ASSUME w \in Callers
          PROVE  ToldOf(w)' \subseteq durable'
      <3>1. reply'[w] = value /\ told[w] \subseteq durable' /\ w # Timer
        BY <1>1, <2>1, <2>3, <2>5, CallersAssumption DEF PgT, PgVals, Postgres!TypeOK, ToldOf, Timer
      <3>2. ASSUME pc[w] = "wait", value = "ok", Head(prog[w]) \in WriteStmts
            PROVE  Write(w, Head(prog[w])) \in durable'
        BY <2>1, <2>5, <3>1, <3>2 DEF Asked
      <3> QED BY <2>2, <3>1, <3>2 DEF ToldOf, Done
    <2> QED BY <1>1, <2>2, <2>3, <2>4, <2>5 DEF ToldIn
  <1>6. CASE Postgres!sleep \/ Postgres!loseConnection
    BY <1>2, <1>6 DEF Postgres!sleep, Postgres!loseConnection, ToldOf, Done
  <1>7. CASE Postgres!loop
    <2>1. UNCHANGED <<durable, pc, prog, ops, told, acked>>
      BY <1>7 DEF Postgres!loop
    <2>2. \A d \in Callers : reply'[d] = reply[d] \/ reply'[d] = "closed"
      BY <1>7 DEF Postgres!loop, Postgres!Drained
    <2> QED BY <1>2, <2>1, <2>2 DEF ToldOf, Done
  <1> QED BY <1>4, <1>5, <1>6, <1>7 DEF Postgres!Next, Postgres!threadProc

LEMMA PgInit == Postgres!Init => PgInv
  <1> SUFFICES ASSUME Postgres!Init PROVE PgInv
    OBVIOUS
  <1> USE DEF Postgres!Init
  <1>1. PgVals
    <2>1. use_transaction \in BOOLEAN /\ ops \in [Callers -> 0 .. MaxOps]
          /\ told \in [Callers -> SUBSET Postgres!Writes]
      BY ModeAssumption, BoundAssumption
    <2>2. shutdownFlag \in 0 .. shutdownAttempts /\ shutdownFlag < shutdownAttempts
      BY AttemptsAssumption
    <2> QED BY <2>1, <2>2 DEF PgVals, Postgres!TypeOK
  <1>2. CallerInv /\ QueueInv /\ taskQueue \in Seq(Tasks)
    BY DEF CallerInv, CallerOK, QueueInv, Waits, AtCaller, PlainProgs, TxProgs
  <1>3. PgCalmInv /\ ToldIn(durable)
    BY DEF PgCalmInv, Done, ToldIn, ToldOf
  <1>4. PgTurn
    BY ProgsNotEmpty DEF PgTurn, Owns
  <1> QED BY <1>1, <1>2, <1>3, <1>4 DEF PgT, PgInv

LEMMA PgMeaning ==
  ASSUME PgInv
  PROVE  Postgres!TakeTurns /\ Postgres!NobodyForgotten /\ Postgres!AckedKept
  <1>1. Postgres!TakeTurns
    <2> SUFFICES ASSUME use_transaction, ~broken, errors = 0, conn, NEW c \in Callers, NEW d \in Callers,
                        Postgres!Inside(c), Postgres!Inside(d)
                 PROVE  c = d
      BY DEF Postgres!TakeTurns
    <2>1. ASSUME NEW e \in Callers, Postgres!Inside(e)
          PROVE  Owns(e)
      BY <2>1, PgProgOf, ProgTable, ProgsNotEmpty DEF Postgres!Inside, Owns, TxProgs, PgInv
    <2> QED BY <2>1 DEF PgInv, PgTurn, PgCalm
  <1>2. Postgres!NobodyForgotten
    <2> SUFFICES ASSUME NEW c \in Callers, pc[c] \in {"wait", "undoKey", "undoAll"}, reply[c] = "none"
                 PROVE  (\E i \in DOMAIN taskQueue : taskQueue[i].who = c) /\ tpc \in {"loop", "inner"}
      BY DEF Postgres!NobodyForgotten
    <2>1. PICK i \in DOMAIN taskQueue : taskQueue[i].who = c
      BY DEF PgInv, PgT, QueueInv, QueuedFor, Waits, AtCaller
    <2>2. taskQueue # <<>>
      BY <2>1 DEF PgInv, PgT
    <2> QED BY <2>1, <2>2 DEF PgInv, PgT, QueueInv, PgVals, Postgres!TypeOK
  <1>3. Postgres!AckedKept
    BY DEF PgInv, PgT, PgVals, ToldIn, ToldOf, Postgres!AckedKept
  <1> QED BY <1>1, <1>2, <1>3
-----------------------------------------------------------------------------
(* DatabaseSetup.  What a file can hold depends only on its version and,   *)
(* while the version is upgraded, on the statements that are behind (Past).*)
(* Aged is a database from before the first upgrade, Young one that the    *)
(* server has created after a loss.                                        *)

Newest == Len(Scripts) + 1
Runs(w, stmt) == w \in 1 .. Len(Scripts) /\ Setup!Runs(w, stmt)
Before(v, stmt) == \E w \in 1 .. v - 1 : Runs(w, stmt)
Builds == {"object", "resource"}

Tabled ==
    [tables : {TRUE}, version : 0 .. Newest, root : 0 .. 3, added : SUBSET Nat, build : [Builds -> 0 .. 3],
     column : SUBSET Objects, hasColumn : BOOLEAN, moved : SUBSET Objects,
     hasTypes : BOOLEAN, typed : SUBSET Objects, prefixed : SUBSET Objects, rebuilt : BOOLEAN,
     columns : 0 .. Attributes, stored : 0 .. Attributes]

(* What a database of a version may have of the statements that lead to the*)
(* next one, while it has all of those before.                             *)
AddedOK(d) ==
    /\ \A w \in 1 .. d.version - 1 : Runs(w, "add") => w \in d.added
    /\ \A w \in d.added : w \in 1 .. d.version /\ Runs(w, "add")
MetadataOK(d) ==
    IF Before(d.version, "metadata") THEN ~d.hasColumn /\ d.column = {} /\ d.moved = Objects
    ELSE IF Runs(d.version, "metadata")
         THEN \/ d.hasColumn /\ d.column = Objects
              \/ ~d.hasColumn /\ d.column = {} /\ d.moved = Objects
    ELSE d.hasColumn /\ d.column = Objects /\ d.moved = {}
TypesOK(d) ==
    IF Before(d.version, "types") THEN d.hasTypes /\ d.typed = Objects /\ d.prefixed = {}
    ELSE ~Runs(d.version, "types") => ~d.hasTypes /\ d.typed = {} /\ d.prefixed = Objects
ResourcesOK(d) ==
    /\ Before(d.version, "resources") => d.rebuilt
    /\ d.rebuilt => \E w \in 1 .. d.version : Runs(w, "resources")
AttributesOK(d) ==
    /\ d.stored \in {0, Attributes} /\ (d.stored = Attributes => d.columns = Attributes)
    /\ d.version < Newest => d.stored = 0 /\ d.columns = 0

Aged(d) ==
    /\ d \in Tabled /\ d.version >= 1 /\ d.root = 3
    /\ AddedOK(d) /\ MetadataOK(d) /\ TypesOK(d) /\ ResourcesOK(d) /\ AttributesOK(d)
Young(d) ==
    /\ d \in Tabled /\ d.version \in {0, Newest} /\ AttributesOK(d)
    /\ d.version = 0 => d.root = 0
    /\ d.added = {w \in 1 .. Len(Scripts) : Runs(w, "add")}
    /\ d.hasColumn <=> ~Before(Newest, "metadata")
    /\ d.column = (IF Before(Newest, "metadata") THEN {} ELSE Objects) /\ d.moved = {}
    /\ d.hasTypes <=> Before(Newest, "types")
    /\ d.prefixed = (IF Before(Newest, "types") THEN {} ELSE Objects) /\ d.typed = {}
    /\ d.rebuilt <=> Before(Newest, "resources")
    /\ d.build = [t \in Builds |-> 0]
Shape(d, lost) == d = Setup!NoFile \/ Aged(d) \/ (lost > 0 /\ Young(d))

(* Nothing is half rebuilt, and the statements before the n-th are done.   *)
Still(d) == d.build = [t \in Builds |-> 0]
Added(d, n) ==
    \A j \in 1 .. n - 1 : /\ Scripts[d.version][j] = "add" => d.version \in d.added
                          /\ Scripts[d.version][j] = "resources" => d.rebuilt
Moved(d, n) == Scripts[d.version] = Metadata => IF n = 1 THEN d.hasColumn ELSE ~d.hasColumn
Typed(d, n) ==
    Scripts[d.version] = EntryTypes => /\ n >= 2 => d.hasTypes
                                       /\ n >= 3 => d.typed = Objects
                                       /\ n = 4 => d.prefixed = {}
Past(d, n) == Added(d, n) /\ Moved(d, n) /\ Typed(d, n)
Upgrading(d, n) ==
    Aged(d) /\ d.version < Newest /\ n \in 1 .. Len(Scripts[d.version]) + 1 /\ Past(d, n)
Rebuilds == {"metadata", "types", "resources"}
Table(stmt) == IF stmt = "resources" THEN "resource" ELSE "object"

(* The start at the n-th statement, or the n-th attribute, of a database.  *)
Half(d, n) ==
    /\ Upgrading(d, n)
    /\ Scripts[d.version] = Metadata /\ n = 1 => d.moved \in {{}, Objects}
    /\ Scripts[d.version] = EntryTypes /\ n <= 3 => d.prefixed = Objects
Upgradable(d, n) ==
    /\ d.tables /\ Still(d) /\ d.root = 3 /\ d.version >= 1 /\ n \in Nat \ {0}
    /\ d.version < Newest => Half(d, n)
    /\ d.version = Newest => d.stored + n - 1 <= d.columns
Rebuildable(d, n, k) ==
    /\ Upgrading(d, n) /\ n <= Len(Scripts[d.version])
    /\ Scripts[d.version][n] \in Rebuilds /\ k \in 0 .. 3
    /\ d.build = [t \in Builds |-> IF t = Table(Scripts[d.version][n]) THEN k ELSE 0]
    /\ Scripts[d.version] = Metadata => d.moved = Objects
    /\ Scripts[d.version] = EntryTypes => n = 1 /\ d.prefixed = Objects
Complete(d) == d.tables /\ Still(d) /\ d.root = 3 /\ d.version = Newest /\ d.stored = Attributes

(* Neither the file nor the backup that is there has tables.               *)
NothingLeft == ~db.tables /\ backupFile # Setup!NoBackup /\ ~backupFile.tables

AtRest == {"down", "failed", "prepare"}
PlaceInv ==
    /\ place # "rebuild" => step = 0
    /\ place = "failed" => onError = "fail" \/ NothingLeft
    /\ place \in AtRest => ~Setup!Fragile(db)
    /\ place = "restore" => ~db.tables /\ backupFile # Setup!NoBackup
    /\ place = "create" => ~db.tables
    /\ place = "version" => Young(db) /\ db.version = 0
    /\ place = "fill" => Young(db) /\ db.version = Newest /\ db.stored = 0 /\ losses > 0
    /\ place = "upgrade" => Upgradable(db, at)
    /\ place = "metadata" => Upgrading(db, at) /\ at = 1 /\ Scripts[db.version] = Metadata /\ Still(db)
    /\ place = "location" => Upgrading(db, at) /\ at = 3 /\ Scripts[db.version] = EntryTypes /\ Still(db)
    /\ place = "rebuild" => Rebuildable(db, at, step)
    /\ place \in {"backup", "ready"} => Complete(db)

Places == {"down", "failed", "prepare", "restore", "create", "version", "fill", "upgrade", "metadata",
           "location", "rebuild", "backup", "ready"}
SetupInv ==
    /\ losses \in Nat /\ harmed \in BOOLEAN /\ place \in Places
    /\ Shape(db, losses) /\ Shape(mainFile, losses)
    /\ backupFile = Setup!NoBackup \/ Shape(backupFile, losses)
    /\ db = Setup!NoFile => losses > 0
    /\ ~harmed => PlaceInv

(* The statements of a version, by what it is.                             *)
Plain(v) == Scripts[v] \notin {Metadata, EntryTypes}

LEMMA ScriptOf ==
  ASSUME NEW v \in 1 .. Len(Scripts)
  PROVE  /\ Len(Scripts[v]) \in Nat
         /\ DOMAIN Scripts[v] = 1 .. Len(Scripts[v])
         /\ Plain(v) => \A i \in 1 .. Len(Scripts[v]) : Scripts[v][i] \in {"add", "set", "resources"}
         /\ Scripts[v] = Metadata =>
                Len(Scripts[v]) = 1 /\ Scripts[v][1] = "metadata" /\ Scripts[v] # EntryTypes
         /\ Scripts[v] = EntryTypes =>
                /\ Len(Scripts[v]) = 3 /\ Scripts[v] # Metadata
                /\ Scripts[v][1] = "types" /\ Scripts[v][2] = "classify" /\ Scripts[v][3] = "location"
  <1>1. Scripts[v] \in Seq({"add", "set", "resources"}) \cup {Metadata, EntryTypes}
    BY UpgradeAssumption
  <1>2. Len(Metadata) = 1 /\ DOMAIN Metadata = 1 .. 1 /\ Metadata[1] = "metadata"
    BY DEF Metadata
  <1>3. /\ Len(EntryTypes) = 3 /\ DOMAIN EntryTypes = 1 .. 3
        /\ EntryTypes[1] = "types" /\ EntryTypes[2] = "classify" /\ EntryTypes[3] = "location"
    BY DEF EntryTypes
  <1>4. Metadata # EntryTypes
    BY <1>2, <1>3
  <1>5. CASE Scripts[v] \in {Metadata, EntryTypes}
    BY <1>2, <1>3, <1>4, <1>5 DEF Plain
  <1>6. CASE Scripts[v] \notin {Metadata, EntryTypes}
    <2>1. Scripts[v] \in Seq({"add", "set", "resources"})
      BY <1>1, <1>6
    <2> QED BY <1>6, <2>1 DEF Plain
  <1> QED BY <1>5, <1>6

LEMMA RunsOf ==
  ASSUME NEW v \in 1 .. Len(Scripts)
  PROVE  /\ Runs(v, "metadata") <=> Scripts[v] = Metadata
         /\ Runs(v, "types") <=> Scripts[v] = EntryTypes
         /\ Runs(v, "location") <=> Scripts[v] = EntryTypes
         /\ Runs(v, "add") <=> \E i \in 1 .. Len(Scripts[v]) : Scripts[v][i] = "add"
         /\ Runs(v, "resources") <=> \E i \in 1 .. Len(Scripts[v]) : Scripts[v][i] = "resources"
  <1>1. CASE Scripts[v] = Metadata
    BY <1>1, ScriptOf DEF Runs, Setup!Runs
  <1>2. CASE Scripts[v] = EntryTypes
    BY <1>2, ScriptOf DEF Runs, Setup!Runs
  <1>3. CASE Plain(v)
    BY <1>3, ScriptOf DEF Runs, Setup!Runs, Plain
  <1> QED BY <1>1, <1>2, <1>3 DEF Plain

(* Metadata are moved once, and entry types are made once.                 *)
LEMMA OnlyOnce ==
  ASSUME NEW v \in 1 .. Len(Scripts), Scripts[v] \in {Metadata, EntryTypes},
         NEW w \in 1 .. Len(Scripts), Scripts[w] = Scripts[v]
  PROVE  w = v
  BY UpgradeAssumption

LEMMA NewestIsNat == Newest \in Nat /\ Newest >= 1 /\ Len(Scripts) \in Nat /\ Setup!DBVERSION = Newest
  BY UpgradeAssumption DEF Newest, Setup!DBVERSION

LEMMA BeforeNext ==
  ASSUME NEW v \in 1 .. Newest, NEW stmt
  PROVE  Before(v + 1, stmt) <=> Before(v, stmt) \/ Runs(v, stmt)
  BY NewestIsNat DEF Before

LEMMA Passed ==
  ASSUME NEW v \in 0 .. Newest, NEW stmt
  PROVE  Setup!HasPassed(v, stmt) <=> Before(v, stmt)
  BY NewestIsNat DEF Before, Runs, Setup!HasPassed, Newest

LEMMA PassedTypes ==
  ASSUME NEW v \in 0 .. Newest
  PROVE  Before(v, "location") <=> Before(v, "types")
  BY NewestIsNat, RunsOf DEF Before, Runs

LEMMA NoneBefore ==
  ASSUME NEW v \in 1 .. Len(Scripts)
  PROVE  /\ Scripts[v] = Metadata => ~Before(v, "metadata")
         /\ Scripts[v] = EntryTypes => ~Before(v, "types")
  BY NewestIsNat, RunsOf, OnlyOnce DEF Before, Runs

LEMMA NoneLater ==
  ASSUME NEW stmt
  PROVE  ~Runs(Newest, stmt) /\ ~Runs(0, stmt)
  BY NewestIsNat DEF Runs, Newest

(* Two databases with the same in each part are the same.                  *)
LEMMA SameParts ==
  ASSUME NEW d \in Tabled, NEW e \in Tabled,
         d.tables = e.tables, d.version = e.version, d.root = e.root, d.added = e.added, d.build = e.build,
         d.column = e.column, d.hasColumn = e.hasColumn, d.moved = e.moved, d.hasTypes = e.hasTypes,
         d.typed = e.typed, d.prefixed = e.prefixed, d.rebuilt = e.rebuilt, d.columns = e.columns,
         d.stored = e.stored
  PROVE  d = e
  BY DEF Tabled

LEMMA PassedIsBoolean ==
  ASSUME NEW v, NEW stmt
  PROVE  Setup!HasPassed(v, stmt) \in BOOLEAN
  BY DEF Setup!HasPassed

LEMMA WholeParts ==
  ASSUME NEW v \in 0 .. Newest
  PROVE  /\ Setup!Whole(v) \in Tabled
         /\ Setup!Whole(v).added = {w \in 1 .. v - 1 : Runs(w, "add")}
         /\ Setup!Whole(v).column = IF Before(v, "metadata") THEN {} ELSE Objects
         /\ Setup!Whole(v).hasColumn <=> ~Before(v, "metadata")
         /\ Setup!Whole(v).moved = IF Before(v, "metadata") THEN Objects ELSE {}
         /\ Setup!Whole(v).hasTypes <=> Before(v, "types")
         /\ Setup!Whole(v).typed = IF Before(v, "types") THEN Objects ELSE {}
         /\ Setup!Whole(v).prefixed = IF Before(v, "types") THEN {} ELSE Objects
         /\ Setup!Whole(v).rebuilt <=> Before(v, "resources")
  <1>1. {w \in 1 .. v - 1 : Setup!Runs(w, "add")} = {w \in 1 .. v - 1 : Runs(w, "add")}
    BY NewestIsNat DEF Runs, Newest
  <1>2. {w \in 1 .. v - 1 : Setup!Runs(w, "add")} \in SUBSET Nat
    BY NewestIsNat
  <1>3. [t \in {"object", "resource"} |-> 0] \in [Builds -> 0 .. 3]
    BY DEF Builds
  <1>4. Setup!Whole(v) \in Tabled
    <2>1. /\ Setup!HasPassed(v, "metadata") \in BOOLEAN /\ Setup!HasPassed(v, "types") \in BOOLEAN
          /\ Setup!HasPassed(v, "location") \in BOOLEAN /\ Setup!HasPassed(v, "resources") \in BOOLEAN
      BY PassedIsBoolean
    <2> QED BY <1>2, <1>3, <2>1, UpgradeAssumption DEF Tabled, Setup!Whole
  <1>5. /\ Setup!HasPassed(v, "metadata") <=> Before(v, "metadata")
        /\ Setup!HasPassed(v, "types") <=> Before(v, "types")
        /\ Setup!HasPassed(v, "location") <=> Before(v, "types")
        /\ Setup!HasPassed(v, "resources") <=> Before(v, "resources")
    BY Passed, PassedTypes
  <1> QED BY <1>1, <1>4, <1>5 DEF Setup!Whole

LEMMA WholeIsAged ==
  ASSUME NEW v \in 1 .. Newest
  PROVE  Aged(Setup!Whole(v))
  <1> DEFINE d == Setup!Whole(v)
  <1>1. d \in Tabled /\ d.version = v /\ d.root = 3
    BY WholeParts DEF Setup!Whole
  <1>2. AddedOK(d)
    BY <1>1, WholeParts, NewestIsNat DEF AddedOK
  <1>3. v \in 1 .. Len(Scripts) \/ v = Newest
    BY NewestIsNat DEF Newest
  <1>4. MetadataOK(d)
    BY <1>1, <1>3, WholeParts, RunsOf, NoneBefore, NoneLater DEF MetadataOK
  <1>5. TypesOK(d)
    BY <1>1, <1>3, WholeParts, RunsOf, NoneBefore, NoneLater DEF TypesOK
  <1>6. ResourcesOK(d)
    BY <1>1, WholeParts, NewestIsNat DEF ResourcesOK, Before
  <1>7. AttributesOK(d)
    BY <1>1, NewestIsNat DEF AttributesOK, Setup!Whole
  <1> QED BY <1>1, <1>2, <1>4, <1>5, <1>6, <1>7 DEF Aged

LEMMA FreshIsYoung == Young(Setup!Fresh) /\ Setup!Fresh.version = 0
  <1> DEFINE d == Setup!Fresh  w == Setup!Whole(Newest)
  <1>1. w \in Tabled /\ d = [w EXCEPT !.version = 0, !.root = 0, !.columns = 0, !.stored = 0,
                                      !.moved = {}, !.typed = {}]
    BY NewestIsNat, WholeParts DEF Setup!Fresh
  <1>2. /\ d \in Tabled /\ d.version = 0 /\ d.root = 0 /\ d.stored = 0 /\ d.columns = 0
        /\ d.moved = {} /\ d.typed = {} /\ d.added = w.added /\ d.hasColumn = w.hasColumn
        /\ d.column = w.column /\ d.hasTypes = w.hasTypes /\ d.prefixed = w.prefixed
        /\ d.rebuilt = w.rebuilt /\ d.build = w.build
    <2> HIDE DEF d, w
    <2>1. 0 \in 0 .. Newest /\ 0 \in 0 .. 3 /\ 0 \in 0 .. Attributes
      BY NewestIsNat, UpgradeAssumption
    <2>2. d \in Tabled
      BY <1>1, <2>1 DEF Tabled
    <2> QED BY <1>1, <2>2 DEF Tabled
  <1>3. /\ w.added = {v \in 1 .. Newest - 1 : Runs(v, "add")}
        /\ w.column = (IF Before(Newest, "metadata") THEN {} ELSE Objects)
        /\ w.hasColumn <=> ~Before(Newest, "metadata")
        /\ w.hasTypes <=> Before(Newest, "types")
        /\ w.prefixed = (IF Before(Newest, "types") THEN {} ELSE Objects)
        /\ w.rebuilt <=> Before(Newest, "resources")
    BY WholeParts, NewestIsNat
  <1>4. w.build = [t \in Builds |-> 0]
    BY DEF Setup!Whole, Builds
  <1>5. Newest - 1 = Len(Scripts)
    BY NewestIsNat DEF Newest
  <1>6. AttributesOK(d)
    BY <1>2, NewestIsNat, UpgradeAssumption DEF AttributesOK
  <1>7. Young(d)
    <2> HIDE DEF d, w
    <2> QED BY <1>2, <1>3, <1>4, <1>5, <1>6 DEF Young
  <1> QED BY <1>2, <1>7

LEMMA NoFileParts ==
  /\ ~Setup!NoFile.tables /\ Setup!NoFile.version = 0
  /\ ~Setup!NoBackup.tables /\ Setup!NoBackup.version = 0
  BY DEF Setup!NoFile, Setup!NoBackup

(* What is left by a start that did not stop where it is fragile can be    *)
(* upgraded.                                                               *)
LEMMA Opened ==
  ASSUME NEW d, NEW lost, Shape(d, lost), d.tables, ~Setup!Fragile(d)
  PROVE  Upgradable(d, 1)
  <1>1. Aged(d) \/ Young(d)
    BY NoFileParts DEF Shape
  <1>2. d \in Tabled /\ d.version \in 1 .. Newest /\ d.root = 3
    <2>1. d \in Tabled
      BY <1>1 DEF Aged, Young
    <2>2. d.version \in 0 .. Newest /\ d.root \in 0 .. 3 /\ d.version # 0 /\ ~(d.root < 3)
      BY <2>1 DEF Tabled, Setup!Fragile
    <2> QED BY <2>1, <2>2, NewestIsNat
  <1>3. Still(d)
    <2>1. d.build \in [Builds -> 0 .. 3]
      BY <1>2 DEF Tabled
    <2>2. \A t \in Builds : d.build[t] = 0
      BY <2>1 DEF Setup!Fragile
    <2> QED BY <2>1, <2>2 DEF Still
  <1>4. ASSUME d.version < Newest
        PROVE  Half(d, 1)
    <2> DEFINE v == d.version
    <2>1. v \in 1 .. Len(Scripts) /\ Aged(d)
      BY <1>1, <1>2, <1>4, NewestIsNat DEF Newest, Young
    <2>2. 1 \in 1 .. Len(Scripts[v]) + 1
      BY <2>1, ScriptOf
    <2>3. Setup!Has(d, "metadata") <=> Scripts[v] = Metadata
      BY <2>1, RunsOf, NewestIsNat DEF Setup!Has, Runs, Newest
    <2>4. Setup!Has(d, "location") <=> Scripts[v] = EntryTypes
      BY <2>1, RunsOf, NewestIsNat DEF Setup!Has, Runs, Newest
    <2>5. ASSUME Scripts[v] = Metadata
          PROVE  d.hasColumn /\ d.moved \in {{}, Objects}
      <3>1. d.hasColumn /\ (d.moved = {} \/ d.moved = d.column)
        BY <2>3, <2>5 DEF Setup!Fragile
      <3>2. d.column = Objects
        BY <2>1, <2>5, <3>1, RunsOf, NoneBefore DEF Aged, MetadataOK
      <3> QED BY <3>1, <3>2
    <2>6. Scripts[v] = EntryTypes => d.prefixed = Objects
      BY <2>4 DEF Setup!Fragile
    <2>7. Past(d, 1)
      BY <2>5 DEF Past, Added, Moved, Typed
    <2> QED BY <1>4, <2>1, <2>2, <2>5, <2>6, <2>7 DEF Half, Upgrading
  <1>5. d.version = Newest => d.stored + 1 - 1 <= d.columns
    <2>1. AttributesOK(d)
      BY <1>1 DEF Aged, Young
    <2>2. d.columns \in Nat /\ d.stored \in Nat
      BY <1>2, UpgradeAssumption DEF Tabled
    <2> QED BY <2>1, <2>2 DEF AttributesOK
  <1> QED BY <1>2, <1>3, <1>4, <1>5 DEF Upgradable, Tabled

(* One step of a start: what it writes goes to the log or to the file.     *)
LEMMA Filed ==
  ASSUME SetupInv, Setup!Logged, Shape(db', losses), losses' = losses, backupFile' = backupFile,
         db' = Setup!NoFile => losses > 0, place' \in Places, harmed' \in BOOLEAN, harmed' \/ PlaceInv'
  PROVE  SetupInv'
  <1>1. Shape(mainFile', losses)
    BY DEF Setup!Logged, SetupInv
  <1> QED BY <1>1 DEF SetupInv

LEMMA StartKeeps ==
  ASSUME SetupInv, ~harmed, Setup!Start, Setup!Logged
  PROVE  SetupInv'
  <1>1. PlaceInv
    BY DEF SetupInv
  <1>2. db' = db /\ place' = "prepare" /\ step' = 0 /\ harmed' = harmed /\ losses' = losses /\ backupFile' = backupFile
    BY DEF Setup!Start, Setup!Goto, Setup!faults
  <1>3. place \in AtRest
    BY DEF Setup!Start, Setup!Down, AtRest
  <1>4. ~Setup!Fragile(db')
    BY <1>1, <1>2, <1>3 DEF PlaceInv
  <1>5. PlaceInv'
    BY <1>2, <1>4 DEF PlaceInv, AtRest
  <1> QED BY <1>2, <1>5, Filed DEF SetupInv, Places

LEMMA PrepareKeeps ==
  ASSUME SetupInv, ~harmed, Setup!Prepare, Setup!Logged
  PROVE  SetupInv'
  <1>1. PlaceInv /\ ~Setup!Fragile(db) /\ place = "prepare"
    BY DEF SetupInv, Setup!Prepare, PlaceInv, AtRest
  <1>2. /\ db' = db /\ at' = 1 /\ step' = 0 /\ harmed' = harmed /\ losses' = losses /\ backupFile' = backupFile
        /\ onError' = onError
    BY <1>1 DEF Setup!Prepare, Setup!Goto, Setup!faults, Setup!options, SetupInv
  <1>3. ~db.tables => db.version = 0
    BY NoFileParts DEF SetupInv, Shape, Aged, Young, Tabled
  <1>4. db.tables => db.version # 0
    BY <1>1 DEF Setup!Fragile
  <1>5. CASE db.version # 0
    <2>1. place' = "upgrade"
      BY <1>5 DEF Setup!Prepare, Setup!Goto
    <2>2. Upgradable(db', at')
      BY <1>1, <1>2, <1>3, <1>5, Opened DEF SetupInv
    <2>3. PlaceInv'
      BY <1>2, <2>1, <2>2 DEF PlaceInv, AtRest
    <2> QED BY <1>2, <2>1, <2>3, Filed DEF SetupInv, Places
  <1>6. CASE db.version = 0
    <2>1. ~db.tables
      BY <1>4, <1>6
    <2>2. \/ place' = "failed" /\ onError = "fail"
          \/ place' = "create"
          \/ place' = "restore" /\ backupFile # Setup!NoBackup
      BY <1>6, <2>1 DEF Setup!Prepare, Setup!Goto, Setup!IsEmpty, Setup!CanRestore
    <2>3. PlaceInv'
      BY <1>1, <1>2, <2>1, <2>2 DEF PlaceInv, AtRest
    <2> QED BY <1>2, <2>2, <2>3, Filed DEF SetupInv, Places
  <1> QED BY <1>5, <1>6

LEMMA RestoreKeeps ==
  ASSUME SetupInv, ~harmed, Setup!RestoreBackup, Setup!Logged
  PROVE  SetupInv'
  <1>1. PlaceInv /\ place = "restore" /\ backupFile # Setup!NoBackup /\ ~db.tables
    BY DEF SetupInv, Setup!RestoreBackup, PlaceInv
  <1>2. db' = backupFile /\ at' = 1 /\ step' = 0 /\ losses' = losses /\ backupFile' = backupFile
    BY DEF Setup!RestoreBackup, Setup!Goto
  <1>3. Shape(backupFile, losses) /\ losses > 0
    <2>1. db = Setup!NoFile
      BY <1>1 DEF SetupInv, Shape, Aged, Young, Tabled
    <2> QED BY <1>1, <2>1 DEF SetupInv
  <1>4. harmed' \in BOOLEAN /\ place' \in {"failed", "upgrade"}
    BY DEF Setup!RestoreBackup, Setup!Goto, SetupInv
  <1>5. ASSUME ~harmed'
        PROVE  PlaceInv'
    <2>1. ~Setup!Fragile(backupFile)
      BY <1>5 DEF Setup!RestoreBackup
    <2>2. CASE backupFile.tables
      <3>1. backupFile.version # 0
        BY <2>1, <2>2 DEF Setup!Fragile
      <3>2. place' = "upgrade"
        BY <3>1 DEF Setup!RestoreBackup, Setup!Goto
      <3>3. Upgradable(db', at')
        BY <1>2, <1>3, <2>1, <2>2, Opened
      <3> QED BY <1>2, <3>2, <3>3 DEF PlaceInv, AtRest
    <2>3. CASE ~backupFile.tables
      <3>1. backupFile.version = 0
        BY <1>3, <2>3, NoFileParts DEF Shape, Aged, Young, Tabled
      <3>2. place' = "failed"
        BY <3>1 DEF Setup!RestoreBackup, Setup!Goto
      <3>3. NothingLeft' /\ ~Setup!Fragile(db')
        BY <1>1, <1>2, <2>1, <2>3 DEF NothingLeft
      <3> QED BY <1>2, <3>2, <3>3 DEF PlaceInv, AtRest
    <2> QED BY <2>2, <2>3
  <1> QED BY <1>2, <1>3, <1>4, <1>5, Filed DEF SetupInv, Places

LEMMA CreateKeeps ==
  ASSUME SetupInv, ~harmed, Setup!Create, Setup!Logged
  PROVE  SetupInv'
  <1>1. place = "create" /\ ~db.tables
    BY DEF SetupInv, Setup!Create, PlaceInv
  <1>2. db = Setup!NoFile
    BY <1>1 DEF SetupInv, Shape, Aged, Young, Tabled
  <1>3. /\ db' = Setup!Fresh /\ place' = "version" /\ at' = 1 /\ step' = 0
        /\ losses' = losses /\ backupFile' = backupFile /\ harmed' = harmed
    BY <1>1 DEF Setup!Create, Setup!IsEmpty, Setup!Goto, Setup!faults
  <1>4. Young(db') /\ db'.version = 0 /\ Shape(db', losses)
    BY <1>2, <1>3, FreshIsYoung DEF Shape, SetupInv
  <1>5. db' # Setup!NoFile
    BY <1>4, NoFileParts DEF Young, Tabled
  <1>6. PlaceInv'
    BY <1>3, <1>4 DEF PlaceInv, AtRest
  <1> QED BY <1>3, <1>4, <1>5, <1>6, Filed DEF SetupInv, Places

LEMMA YoungWith ==
  ASSUME NEW d, Young(d), NEW e \in Tabled, e.added = d.added, e.hasColumn = d.hasColumn, e.column = d.column,
         e.moved = d.moved, e.hasTypes = d.hasTypes, e.prefixed = d.prefixed, e.typed = d.typed,
         e.rebuilt = d.rebuilt, e.build = d.build, e.version \in {0, Newest}, e.version = 0 => e.root = 0,
         AttributesOK(e)
  PROVE  Young(e)
  BY DEF Young

LEMMA HasTables ==
  ASSUME NEW d \in Tabled
  PROVE  d # Setup!NoFile /\ d.tables
  BY NoFileParts DEF Tabled

LEMMA SetVersionKeeps ==
  ASSUME SetupInv, ~harmed, Setup!SetVersion, Setup!Logged
  PROVE  SetupInv'
  <1>1. place = "version" /\ Young(db) /\ db.version = 0 /\ db \in Tabled /\ losses > 0
    BY DEF SetupInv, Setup!SetVersion, PlaceInv, Young, Shape, Aged
  <1>2. /\ db' = [db EXCEPT !.version = Newest] /\ place' = "fill" /\ step' = 0
        /\ losses' = losses /\ backupFile' = backupFile /\ harmed' = harmed
    BY NewestIsNat DEF Setup!SetVersion, Setup!Goto, Setup!faults
  <1>3. /\ db' \in Tabled /\ db'.version = Newest /\ db'.stored = db.stored /\ db'.columns = db.columns
        /\ db'.added = db.added /\ db'.hasColumn = db.hasColumn /\ db'.column = db.column
        /\ db'.moved = db.moved /\ db'.hasTypes = db.hasTypes /\ db'.prefixed = db.prefixed
        /\ db'.typed = db.typed /\ db'.rebuilt = db.rebuilt /\ db'.build = db.build
    <2>1. db' \in Tabled
      <3>1. Newest \in 0 .. Newest
        BY NewestIsNat
      <3> QED BY <1>1, <1>2, <3>1 DEF Tabled
    <2> QED BY <1>1, <1>2, <2>1 DEF Tabled
  <1>4. db.stored = 0 /\ db.columns = 0 /\ AttributesOK(db')
    BY <1>1, <1>3, NewestIsNat, UpgradeAssumption DEF Young, AttributesOK
  <1>5. Young(db')
    BY <1>1, <1>3, <1>4, YoungWith, NewestIsNat
  <1>6. Shape(db', losses) /\ db' # Setup!NoFile
    BY <1>1, <1>3, <1>5, HasTables DEF Shape
  <1>7. PlaceInv'
    BY <1>1, <1>2, <1>3, <1>4, <1>5 DEF PlaceInv, AtRest
  <1> QED BY <1>2, <1>6, <1>7, Filed DEF SetupInv, Places

LEMMA FillKeeps ==
  ASSUME SetupInv, ~harmed, Setup!FillDatabase, Setup!Logged
  PROVE  SetupInv'
  <1>1. /\ place = "fill" /\ Young(db) /\ db.version = Newest /\ db.stored = 0 /\ db \in Tabled
        /\ losses > 0
    BY DEF SetupInv, Setup!FillDatabase, PlaceInv, Young
  <1>2. losses' = losses /\ backupFile' = backupFile /\ harmed' = harmed
    BY DEF Setup!FillDatabase, Setup!faults
  <1>3. step = 0
    BY <1>1 DEF SetupInv, PlaceInv
  <1>4. CASE db.root < 3
    <2>1. db' = [db EXCEPT !.root = @ + 1] /\ place' = "fill" /\ step' = 0
      BY <1>1, <1>3, <1>4 DEF Setup!FillDatabase
    <2>2. db' \in Tabled
      <3>1. db.root + 1 \in 0 .. 3
        BY <1>1, <1>4 DEF Tabled
      <3> QED BY <1>1, <2>1, <3>1 DEF Tabled
    <2>3. /\ db'.version = Newest /\ db'.stored = 0 /\ db'.columns = db.columns
          /\ db'.added = db.added /\ db'.hasColumn = db.hasColumn /\ db'.column = db.column
          /\ db'.moved = db.moved /\ db'.hasTypes = db.hasTypes /\ db'.prefixed = db.prefixed
          /\ db'.typed = db.typed /\ db'.rebuilt = db.rebuilt /\ db'.build = db.build
      BY <1>1, <2>1, <2>2 DEF Tabled
    <2>4. AttributesOK(db')
      BY <1>1, <2>3 DEF Young, AttributesOK
    <2>5. Young(db')
      BY <1>1, <2>2, <2>3, <2>4, YoungWith, NewestIsNat
    <2>6. Shape(db', losses) /\ db' # Setup!NoFile
      BY <1>1, <2>2, <2>5, HasTables DEF Shape
    <2>7. PlaceInv'
      BY <1>1, <1>2, <2>1, <2>3, <2>5 DEF PlaceInv, AtRest
    <2> QED BY <1>2, <2>1, <2>6, <2>7, Filed DEF SetupInv, Places
  <1>5. CASE ~(db.root < 3)
    <2>1. db' = db /\ place' = "upgrade" /\ at' = 1 /\ step' = 0
      BY <1>1, <1>5 DEF Setup!FillDatabase, Setup!Goto
    <2>2. db.root = 3 /\ db.columns \in Nat
      BY <1>1, <1>5, UpgradeAssumption DEF Tabled
    <2>3. Upgradable(db', at')
      BY <1>1, <2>1, <2>2, NewestIsNat, HasTables DEF Upgradable, Still, Young
    <2>4. PlaceInv'
      BY <2>1, <2>3 DEF PlaceInv, AtRest
    <2> QED BY <1>2, <2>1, <2>4, Filed DEF SetupInv, Places
  <1> QED BY <1>4, <1>5

(* Steps that leave the database and move the start.                       *)
LEMMA FailsKeeps ==
  ASSUME SetupInv, ~harmed, Setup!Logged,
         Setup!FillFails \/ Setup!StatementFails \/ Setup!MigrationFails \/ Setup!RebuildFails
  PROVE  SetupInv'
  <1>1. /\ db' = db /\ losses' = losses /\ backupFile' = backupFile /\ harmed' = TRUE
        /\ place' \in {"failed", "upgrade"}
    BY DEF Setup!FillFails, Setup!StatementFails, Setup!MigrationFails, Setup!RebuildFails, Setup!Fail,
           Setup!Goto, Setup!Next1, Setup!Strikes
  <1> QED BY <1>1, Filed DEF SetupInv, Places

LEMMA DieKeeps ==
  ASSUME SetupInv, Setup!Die
  PROVE  SetupInv'
  <1>1. /\ db' = db /\ losses' = losses /\ backupFile' = backupFile /\ mainFile' = mainFile
        /\ place' = "down" /\ step' = 0 /\ harmed' = (harmed \/ Setup!Fragile(db))
    BY DEF Setup!Die, Setup!options
  <1>2. harmed' \in BOOLEAN
    BY <1>1 DEF SetupInv
  <1>3. ASSUME ~harmed'
        PROVE  PlaceInv'
    BY <1>1, <1>3 DEF PlaceInv, AtRest
  <1> QED BY <1>1, <1>2, <1>3 DEF SetupInv, Places

LEMMA LoseKeeps ==
  ASSUME SetupInv, ~harmed, Setup!Lose
  PROVE  SetupInv'
  <1>1. /\ db' = Setup!NoFile /\ mainFile' = Setup!NoFile /\ losses' = losses + 1 /\ backupFile' = backupFile
        /\ place' = place /\ step' = step /\ harmed' = harmed /\ onError' = onError
    BY DEF Setup!Lose, Setup!options
  <1>2. place \in {"down", "failed"} /\ PlaceInv
    BY DEF SetupInv, Setup!Lose, Setup!Down
  <1>3. ~Setup!Fragile(db') /\ ~db'.tables
    BY <1>1, NoFileParts DEF Setup!Fragile
  <1>4. PlaceInv'
    BY <1>1, <1>2, <1>3 DEF PlaceInv, AtRest, NothingLeft
  <1>5. losses' \in Nat /\ losses' > 0 /\ \A d : Shape(d, losses) => Shape(d, losses')
    BY <1>1 DEF Shape, SetupInv
  <1> QED BY <1>1, <1>4, <1>5 DEF SetupInv, Shape

LEMMA CopyLogKeeps ==
  ASSUME SetupInv, Setup!CopyLog
  PROVE  SetupInv'
  <1>1. UNCHANGED <<db, losses, backupFile, place, step, at, harmed, onError>> /\ mainFile' = db
    BY DEF Setup!CopyLog, Setup!options
  <1>2. PlaceInv => PlaceInv'
    BY <1>1 DEF PlaceInv, NothingLeft
  <1> QED BY <1>1, <1>2 DEF SetupInv

LEMMA BackupKeeps ==
  ASSUME SetupInv, ~harmed, Setup!Backup, Setup!Logged
  PROVE  SetupInv'
  <1>1. place = "backup" /\ PlaceInv
    BY DEF SetupInv, Setup!Backup
  <1>2. /\ db' = db /\ losses' = losses /\ place' = "ready" /\ step' = 0 /\ harmed' = harmed
        /\ backupFile' \in {mainFile, backupFile}
    BY DEF Setup!Backup, Setup!Goto, Setup!faults
  <1>3. PlaceInv'
    BY <1>1, <1>2 DEF PlaceInv, AtRest
  <1>4. mainFile' \in {mainFile, db}
    BY <1>2 DEF Setup!Logged
  <1> QED BY <1>2, <1>3, <1>4 DEF SetupInv, Places

LEMMA StopKeeps ==
  ASSUME SetupInv, ~harmed, Setup!Stop, Setup!Logged
  PROVE  SetupInv'
  <1>1. Complete(db) /\ place = "ready"
    BY DEF SetupInv, Setup!Stop, PlaceInv
  <1>2. /\ db' = db /\ losses' = losses /\ place' = "down" /\ step' = 0 /\ harmed' = harmed
        /\ backupFile' = backupFile
    BY DEF Setup!Stop, Setup!Goto, Setup!faults
  <1>3. ~Setup!Fragile(db)
    <2>1. db.version = Newest /\ db.root = 3 /\ \A t \in DOMAIN db.build : db.build[t] = 0
      BY <1>1 DEF Complete, Still
    <2>2. ~Setup!Has(db, "metadata") /\ ~Setup!Has(db, "location")
      BY <2>1, NewestIsNat DEF Setup!Has
    <2> QED BY <2>1, <2>2, NewestIsNat DEF Setup!Fragile
  <1>4. PlaceInv'
    BY <1>2, <1>3 DEF PlaceInv, AtRest
  <1> QED BY <1>2, <1>4, Filed DEF SetupInv, Places

(* The columns for attributes of resources.                                *)
LEMMA ShapeWith ==
  ASSUME NEW d \in Tabled, NEW lost, Shape(d, lost), NEW e \in Tabled,
         e.version = d.version, e.root = d.root, e.added = d.added, e.build = d.build,
         e.column = d.column, e.hasColumn = d.hasColumn, e.moved = d.moved, e.hasTypes = d.hasTypes,
         e.typed = d.typed, e.prefixed = d.prefixed, e.rebuilt = d.rebuilt, AttributesOK(e)
  PROVE  Shape(e, lost)
  <1>1. CASE Aged(d)
    <2>1. AddedOK(e)
      BY <1>1 DEF Aged, AddedOK
    <2>2. MetadataOK(e)
      BY <1>1 DEF Aged, MetadataOK
    <2>3. TypesOK(e)
      BY <1>1 DEF Aged, TypesOK
    <2>4. ResourcesOK(e)
      BY <1>1 DEF Aged, ResourcesOK
    <2> QED BY <1>1, <2>1, <2>2, <2>3, <2>4 DEF Aged, Shape
  <1>2. CASE Young(d) /\ lost > 0
    <2>1. Young(e)
      BY <1>2, YoungWith DEF Young
    <2> QED BY <1>2, <2>1 DEF Shape
  <1> QED BY <1>1, <1>2, HasTables DEF Shape

LEMMA InTable ==
  ASSUME NEW d, NEW lost, Shape(d, lost), d.tables
  PROVE  d \in Tabled /\ AttributesOK(d)
  BY NoFileParts DEF Shape, Aged, Young

LEMMA AddColumnKeeps ==
  ASSUME SetupInv, ~harmed, Setup!AddColumn, Setup!Logged
  PROVE  SetupInv'
  <1>1. /\ place = "upgrade" /\ db.version = Newest /\ db.stored + at <= Attributes /\ step = 0
        /\ Upgradable(db, at) /\ Shape(db, losses)
    BY NewestIsNat DEF SetupInv, Setup!AddColumn, PlaceInv
  <1>2. /\ place' = "upgrade" /\ at' = at + 1 /\ step' = step /\ losses' = losses
        /\ backupFile' = backupFile /\ harmed' = harmed
    BY <1>1 DEF Setup!AddColumn, Setup!faults
  <1>3. db \in Tabled /\ AttributesOK(db) /\ db.stored \in Nat /\ db.columns \in Nat /\ at \in Nat \ {0}
    <2>1. db \in Tabled /\ AttributesOK(db) /\ at \in Nat \ {0}
      BY <1>1, InTable DEF Upgradable
    <2>2. db.stored \in 0 .. Attributes /\ db.columns \in 0 .. Attributes
      BY <2>1 DEF Tabled
    <2> QED BY <2>1, <2>2, UpgradeAssumption
  <1>4. db.stored = 0 /\ db.stored # Attributes
    BY <1>1, <1>3, UpgradeAssumption DEF AttributesOK
  <1>5. db.build["resource"] # 3
    BY <1>1 DEF Upgradable, Still, Builds
  <1>6. CASE db.columns >= db.stored + at
    <2>1. db' = db
      BY <1>6 DEF Setup!AddColumn, Setup!Exec
    <2>2. Upgradable(db', at')
      BY <1>1, <1>2, <1>3, <1>6, <2>1, NewestIsNat DEF Upgradable
    <2>3. PlaceInv'
      BY <1>1, <1>2, <2>2 DEF PlaceInv, AtRest
    <2> QED BY <1>2, <2>1, <2>3, Filed DEF SetupInv, Places
  <1>7. CASE ~(db.columns >= db.stored + at)
    <2>1. db' = [db EXCEPT !.columns = db.stored + at]
      BY <1>5, <1>7 DEF Setup!AddColumn, Setup!Exec
    <2>2. db.stored + at \in 0 .. Attributes
      BY <1>1, <1>3, UpgradeAssumption
    <2>3. db' \in Tabled
      BY <1>3, <2>1, <2>2 DEF Tabled
    <2>4. /\ db'.version = db.version /\ db'.root = db.root /\ db'.added = db.added /\ db'.build = db.build
          /\ db'.column = db.column /\ db'.hasColumn = db.hasColumn /\ db'.moved = db.moved
          /\ db'.hasTypes = db.hasTypes /\ db'.typed = db.typed /\ db'.prefixed = db.prefixed
          /\ db'.rebuilt = db.rebuilt /\ db'.stored = db.stored /\ db'.columns = db.stored + at
      BY <1>3, <2>1, <2>3 DEF Tabled
    <2>5. AttributesOK(db')
      BY <1>1, <1>3, <1>4, <2>4, NewestIsNat DEF AttributesOK
    <2>6. Shape(db', losses) /\ db' # Setup!NoFile /\ db'.tables
      BY <1>1, <1>3, <2>3, <2>4, <2>5, ShapeWith, HasTables
    <2>7. Upgradable(db', at')
      BY <1>1, <1>2, <1>3, <2>4, <2>6, NewestIsNat DEF Upgradable, Still
    <2>8. PlaceInv'
      BY <1>1, <1>2, <2>7 DEF PlaceInv, AtRest
    <2> QED BY <1>2, <2>6, <2>8, Filed DEF SetupInv, Places
  <1> QED BY <1>6, <1>7

LEMMA StoreKeeps ==
  ASSUME SetupInv, ~harmed, Setup!StoreAttributes, Setup!Logged
  PROVE  SetupInv'
  <1>1. /\ place = "upgrade" /\ db.version = Newest /\ ~(db.stored + at <= Attributes)
        /\ Upgradable(db, at) /\ Shape(db, losses)
    <2>1. db \in Tabled /\ Upgradable(db, at)
      BY InTable DEF SetupInv, Setup!StoreAttributes, PlaceInv, Upgradable
    <2>2. db.stored \in Nat /\ at \in Nat
      BY <2>1, UpgradeAssumption DEF Tabled, Upgradable
    <2> QED BY <2>1, <2>2, NewestIsNat, UpgradeAssumption DEF SetupInv, Setup!StoreAttributes
  <1>2. /\ db' = [db EXCEPT !.stored = Attributes] /\ place' = "backup" /\ step' = 0 /\ losses' = losses
        /\ backupFile' = backupFile /\ harmed' = harmed
    BY DEF Setup!StoreAttributes, Setup!Goto, Setup!faults
  <1>3. db \in Tabled /\ AttributesOK(db) /\ db.stored \in Nat /\ db.columns \in 0 .. Attributes /\ at \in Nat
    <2>1. db \in Tabled /\ AttributesOK(db) /\ at \in Nat \ {0}
      BY <1>1, InTable DEF Upgradable
    <2>2. db.stored \in 0 .. Attributes /\ db.columns \in 0 .. Attributes
      BY <2>1 DEF Tabled
    <2> QED BY <2>1, <2>2, UpgradeAssumption
  <1>4. db.columns = Attributes
    BY <1>1, <1>3, UpgradeAssumption DEF Upgradable
  <1>5. db' \in Tabled
    <2>1. Attributes \in 0 .. Attributes
      BY UpgradeAssumption
    <2> QED BY <1>2, <1>3, <2>1 DEF Tabled
  <1>6. /\ db'.version = db.version /\ db'.root = db.root /\ db'.added = db.added /\ db'.build = db.build
        /\ db'.column = db.column /\ db'.hasColumn = db.hasColumn /\ db'.moved = db.moved
        /\ db'.hasTypes = db.hasTypes /\ db'.typed = db.typed /\ db'.prefixed = db.prefixed
        /\ db'.rebuilt = db.rebuilt /\ db'.stored = Attributes /\ db'.columns = Attributes
    BY <1>2, <1>3, <1>4, <1>5 DEF Tabled
  <1>7. AttributesOK(db')
    BY <1>1, <1>6, NewestIsNat DEF AttributesOK
  <1>8. Shape(db', losses) /\ db' # Setup!NoFile /\ db'.tables
    BY <1>1, <1>3, <1>5, <1>6, <1>7, ShapeWith, HasTables
  <1>9. Complete(db')
    BY <1>1, <1>6, <1>8 DEF Complete, Upgradable, Still
  <1>10. PlaceInv'
    BY <1>2, <1>9 DEF PlaceInv, AtRest
  <1> QED BY <1>2, <1>8, <1>10, Filed DEF SetupInv, Places

(* The statements of an upgrade.                                           *)
LEMMA AtStatement ==
  ASSUME NEW d, NEW n, Upgrading(d, n)
  PROVE  /\ Aged(d) /\ d \in Tabled /\ d.version \in 1 .. Len(Scripts) /\ n \in Nat \ {0}
         /\ d.version < Newest /\ Len(Scripts[d.version]) \in Nat /\ n <= Len(Scripts[d.version]) + 1
         /\ d.stored = 0 /\ d.columns = 0
  <1>1. Aged(d) /\ d \in Tabled /\ d.version >= 1 /\ d.version < Newest /\ AttributesOK(d)
    BY DEF Upgrading, Aged
  <1>2. d.version \in 1 .. Len(Scripts)
    BY <1>1, NewestIsNat DEF Tabled, Newest
  <1> QED BY <1>1, <1>2, ScriptOf DEF Upgrading, AttributesOK

(* A statement is behind when what it is for is there.                     *)
LEMMA StatementPast ==
  ASSUME NEW d, NEW n, Upgrading(d, n), n <= Len(Scripts[d.version]),
         NEW e, Aged(e), e.version = d.version, d.added \subseteq e.added, d.rebuilt => e.rebuilt,
         Scripts[d.version][n] = "add" => d.version \in e.added,
         Scripts[d.version][n] = "resources" => e.rebuilt,
         Scripts[d.version] = Metadata => ~e.hasColumn,
         Scripts[d.version] = EntryTypes => /\ e.hasTypes
                                            /\ n >= 2 => e.typed = Objects
                                            /\ n = 3 => e.prefixed = {}
  PROVE  Upgrading(e, n + 1)
  <1> DEFINE v == d.version
  <1>1. v \in 1 .. Len(Scripts) /\ n \in Nat \ {0} /\ v < Newest /\ Len(Scripts[v]) \in Nat
    BY AtStatement
  <1> SUFFICES ASSUME NEW m, m = n + 1
               PROVE  Upgrading(e, m)
    OBVIOUS
  <1>2. m \in 1 .. Len(Scripts[v]) + 1
    BY <1>1
  <1>3. ASSUME NEW j \in 1 .. m - 1
        PROVE  /\ Scripts[v][j] = "add" => v \in e.added
               /\ Scripts[v][j] = "resources" => e.rebuilt
    <2>1. CASE j = n
      BY <2>1
    <2>2. CASE j # n
      <3>1. j \in 1 .. n - 1
        BY <1>1, <2>2
      <3> QED BY <3>1 DEF Upgrading, Past, Added
    <2> QED BY <2>1, <2>2
  <1>4. m # 1 /\ (m >= 3 => n >= 2) /\ (m = 4 => n = 3)
    BY <1>1
  <1>5. Past(e, m)
    <2>1. Scripts[v] = Metadata => IF m = 1 THEN e.hasColumn ELSE ~e.hasColumn
      BY <1>4
    <2>2. Scripts[v] = EntryTypes => /\ m >= 2 => e.hasTypes
                                     /\ m >= 3 => e.typed = Objects
                                     /\ m = 4 => e.prefixed = {}
      BY <1>4
    <2>3. Added(e, m)
      BY <1>3 DEF Added
    <2> QED BY <2>1, <2>2, <2>3 DEF Past, Moved, Typed
  <1> QED BY <1>1, <1>2, <1>5 DEF Upgrading

LEMMA AgedWith ==
  ASSUME NEW d, Aged(d), NEW e \in Tabled, e.version = d.version, e.root = d.root,
         e.stored = d.stored, e.columns = d.columns,
         AddedOK(e), MetadataOK(e), TypesOK(e), ResourcesOK(e)
  PROVE  Aged(e)
  BY DEF Aged, AttributesOK

(* Rebuilding or moving changes what this version is for.                  *)
LEMMA InPlace ==
  ASSUME NEW d, NEW n, Upgrading(d, n)
  PROVE  /\ Scripts[d.version] = Metadata =>
                /\ ~Before(d.version, "metadata") /\ Runs(d.version, "metadata")
                /\ \/ d.hasColumn /\ d.column = Objects
                   \/ ~d.hasColumn /\ d.column = {} /\ d.moved = Objects
         /\ Scripts[d.version] = EntryTypes => ~Before(d.version, "types") /\ Runs(d.version, "types")
  BY AtStatement, NoneBefore, RunsOf DEF Aged, MetadataOK

LEMMA GoesOn ==
  ASSUME NEW d, NEW n, Upgrading(d, n), n <= Len(Scripts[d.version]),
         NEW e, Aged(e), Still(e), e.version = d.version, d.added \subseteq e.added, d.rebuilt => e.rebuilt,
         Scripts[d.version][n] = "add" => d.version \in e.added,
         Scripts[d.version][n] = "resources" => e.rebuilt,
         Scripts[d.version] = Metadata => ~e.hasColumn,
         Scripts[d.version] = EntryTypes => /\ e.hasTypes
                                            /\ n >= 2 => e.typed = Objects
                                            /\ n = 3 => e.prefixed = {}
                                            /\ n <= 2 => e.prefixed = Objects
  PROVE  Upgradable(e, n + 1)
  <1>1. Upgrading(e, n + 1)
    BY StatementPast
  <1>2. n \in Nat \ {0} /\ e.version \in Nat /\ e.version < Newest
    BY AtStatement
  <1>3. Half(e, n + 1)
    BY <1>1, <1>2 DEF Half
  <1>4. e.tables /\ e.root = 3 /\ e.version >= 1
    BY HasTables DEF Aged
  <1> QED BY <1>2, <1>3, <1>4, NewestIsNat DEF Upgradable

LEMMA RebuildStarts ==
  ASSUME NEW d, NEW n, Half(d, n), Still(d), n <= Len(Scripts[d.version]),
         Scripts[d.version][n] \in Rebuilds, Scripts[d.version] = Metadata => d.moved = Objects,
         Scripts[d.version] = EntryTypes => n = 1
  PROVE  Rebuildable(d, n, 0)
  BY DEF Half, Still, Rebuildable

LEMMA StatementPlace ==
  ASSUME NEW v \in 1 .. Len(Scripts), NEW n \in 1 .. Len(Scripts[v])
  PROVE  /\ Scripts[v][n] = "metadata" => Scripts[v] = Metadata /\ n = 1
         /\ Scripts[v][n] = "types" => Scripts[v] = EntryTypes /\ n = 1
         /\ Scripts[v][n] = "classify" => Scripts[v] = EntryTypes /\ n = 2
         /\ Scripts[v][n] = "location" => Scripts[v] = EntryTypes /\ n = 3
         /\ Scripts[v][n] \in {"add", "set", "resources"} => Plain(v)
         /\ Scripts[v][n] \in {"metadata", "types", "classify", "location", "add", "set", "resources"}
         /\ Plain(v) => Scripts[v] # Metadata /\ Scripts[v] # EntryTypes
         /\ Scripts[v] = Metadata => Scripts[v] # EntryTypes
  <1>1. CASE Scripts[v] = Metadata
    BY <1>1, ScriptOf DEF Plain
  <1>2. CASE Scripts[v] = EntryTypes
    <2>1. Len(Scripts[v]) = 3
      BY <1>2, ScriptOf
    <2>2. n \in {1, 2, 3}
      BY <2>1
    <2> QED BY <1>2, <2>2, ScriptOf DEF Plain
  <1>3. CASE Plain(v)
    BY <1>3, ScriptOf DEF Plain
  <1> QED BY <1>1, <1>2, <1>3 DEF Plain

LEMMA AddStatement ==
  ASSUME NEW d, NEW n, Upgrading(d, n), Still(d), n <= Len(Scripts[d.version]),
         Scripts[d.version][n] = "add", NEW e, e = [d EXCEPT !.added = @ \cup {d.version}] \/ e = d,
         d.version \in d.added \/ e # d
  PROVE  Aged(e) /\ Upgradable(e, n + 1)
  <1> DEFINE v == d.version
  <1>1. v \in 1 .. Len(Scripts) /\ n \in 1 .. Len(Scripts[v]) /\ d \in Tabled /\ Aged(d)
    BY AtStatement
  <1>2. Runs(v, "add") /\ Plain(v)
    BY <1>1, RunsOf, StatementPlace
  <1>3. e \in Tabled
    <2>1. d.added \cup {v} \in SUBSET Nat
      BY <1>1 DEF Tabled
    <2> QED BY <1>1, <2>1 DEF Tabled
  <1>4. /\ e.version = v /\ e.root = d.root /\ e.stored = d.stored /\ e.columns = d.columns /\ e.build = d.build
        /\ e.column = d.column /\ e.hasColumn = d.hasColumn /\ e.moved = d.moved /\ e.hasTypes = d.hasTypes
        /\ e.typed = d.typed /\ e.prefixed = d.prefixed /\ e.rebuilt = d.rebuilt
    BY <1>1, <1>3 DEF Tabled
  <1>5. e.added = d.added \cup {v}
    BY <1>1, <1>3 DEF Tabled
  <1>6. AddedOK(e)
    <2>1. AddedOK(d)
      BY <1>1 DEF Aged
    <2> QED BY <1>1, <1>2, <1>4, <1>5, <2>1 DEF AddedOK
  <1>7. MetadataOK(e) /\ TypesOK(e) /\ ResourcesOK(e)
    BY <1>1, <1>4 DEF Aged, MetadataOK, TypesOK, ResourcesOK
  <1>8. Aged(e)
    BY <1>1, <1>3, <1>4, <1>6, <1>7, AgedWith
  <1>9. Still(e)
    BY <1>4 DEF Still
  <1> QED BY <1>1, <1>2, <1>4, <1>5, <1>8, <1>9, GoesOn, StatementPlace

LEMMA ClassifyStatement ==
  ASSUME NEW d, NEW n, Half(d, n), Still(d), n <= Len(Scripts[d.version]),
         Scripts[d.version][n] = "classify", NEW e, e = [d EXCEPT !.typed = @ \cup d.prefixed]
  PROVE  d.hasTypes /\ Aged(e) /\ Upgradable(e, n + 1)
  <1> DEFINE v == d.version
  <1>1. v \in 1 .. Len(Scripts) /\ n \in 1 .. Len(Scripts[v]) /\ d \in Tabled /\ Aged(d) /\ Upgrading(d, n)
    BY AtStatement DEF Half
  <1>2. Scripts[v] = EntryTypes /\ n = 2
    BY <1>1, StatementPlace
  <1>3. d.hasTypes /\ d.prefixed = Objects /\ d.typed \in SUBSET Objects
    BY <1>1, <1>2 DEF Upgrading, Past, Typed, Half, Tabled
  <1>4. e \in Tabled
    <2>1. d.typed \cup d.prefixed \in SUBSET Objects
      BY <1>3
    <2> QED BY <1>1, <2>1 DEF Tabled
  <1>5. /\ e.version = v /\ e.root = d.root /\ e.stored = d.stored /\ e.columns = d.columns /\ e.build = d.build
        /\ e.column = d.column /\ e.hasColumn = d.hasColumn /\ e.moved = d.moved /\ e.hasTypes = d.hasTypes
        /\ e.added = d.added /\ e.prefixed = d.prefixed /\ e.rebuilt = d.rebuilt
    BY <1>1, <1>4 DEF Tabled
  <1>6. e.typed = Objects
    BY <1>1, <1>3, <1>4 DEF Tabled
  <1>7. AddedOK(e) /\ MetadataOK(e) /\ ResourcesOK(e)
    BY <1>1, <1>5 DEF Aged, AddedOK, MetadataOK, ResourcesOK
  <1>8. TypesOK(e)
    BY <1>1, <1>2, <1>5, InPlace DEF TypesOK
  <1>9. Aged(e)
    BY <1>1, <1>4, <1>5, <1>7, <1>8, AgedWith
  <1>10. Still(e)
    BY <1>5 DEF Still
  <1>11. Scripts[v] # Metadata
    BY <1>1, <1>2, StatementPlace
  <1>12. Upgradable(e, n + 1)
    <2>1. e.hasTypes /\ e.prefixed = Objects
      BY <1>3, <1>5
    <2> HIDE DEF v
    <2>2. n # 3 /\ n <= 2
      BY <1>2
    <2>3. Scripts[d.version][n] # "add" /\ Scripts[d.version][n] # "resources"
      OBVIOUS
    <2> QED BY <1>1, <1>5, <1>6, <1>9, <1>10, <1>11, <2>1, <2>2, <2>3, GoesOn DEF v
  <1> QED BY <1>3, <1>9, <1>12

LEMMA StatementKeeps ==
  ASSUME SetupInv, ~harmed, Setup!Statement, Setup!Logged
  PROVE  SetupInv'
  <1> DEFINE v == db.version
             stmt == Scripts[v][at]
  <1>1. /\ place = "upgrade" /\ v < Newest /\ at <= Len(Scripts[v]) /\ step = 0
        /\ Upgradable(db, at) /\ Shape(db, losses)
    BY NewestIsNat DEF SetupInv, Setup!Statement, PlaceInv
  <1>2. losses' = losses /\ backupFile' = backupFile /\ harmed' = harmed
    BY DEF Setup!Statement, Setup!faults
  <1>3. Half(db, at) /\ Upgrading(db, at) /\ Still(db)
    BY <1>1 DEF Upgradable, Half
  <1>4. v \in 1 .. Len(Scripts) /\ at \in 1 .. Len(Scripts[v]) /\ db \in Tabled /\ Aged(db)
    BY <1>1, <1>3, AtStatement
  <1>5. Setup!HasObjects
    BY <1>3 DEF Still, Builds, Setup!HasObjects
  <1>6. Setup!Stmt = stmt
    BY DEF Setup!Stmt
  <1>7. CASE stmt = "metadata"
    <2>1. Scripts[v] = Metadata /\ at = 1 /\ Scripts[v] # EntryTypes
      BY <1>4, <1>7, StatementPlace
    <2>2. db.hasColumn
      BY <1>3, <2>1 DEF Upgrading, Past, Moved
    <2>3. /\ place' = IF Setup!IsMigrated THEN "rebuild" ELSE "metadata"
          /\ db' = db /\ at' = at /\ step' = step
      BY <1>5, <1>6, <1>7, <2>2 DEF Setup!Statement
    <2>4. CASE Setup!IsMigrated
      <3>1. db.moved = Objects
        BY <1>3, <2>1, <2>4 DEF Half, Setup!IsMigrated
      <3>2. Rebuildable(db, at, 0)
        BY <1>1, <1>3, <1>7, <2>1, <3>1, RebuildStarts DEF Rebuilds
      <3>3. PlaceInv'
        BY <1>1, <2>3, <2>4, <3>2 DEF PlaceInv, AtRest
      <3> QED BY <1>2, <2>3, <2>4, <3>3, Filed DEF SetupInv, Places
    <2>5. CASE ~Setup!IsMigrated
      <3>1. PlaceInv'
        BY <1>1, <1>3, <2>1, <2>3, <2>5 DEF PlaceInv, AtRest
      <3> QED BY <1>2, <2>3, <2>5, <3>1, Filed DEF SetupInv, Places
    <2> QED BY <2>4, <2>5
  <1>8. CASE stmt = "location"
    <2>1. Scripts[v] = EntryTypes /\ at = 3
      BY <1>4, <1>8, StatementPlace
    <2>2. place' = "location" /\ db' = db /\ at' = at /\ step' = step
      BY <1>5, <1>6, <1>8 DEF Setup!Statement
    <2>3. PlaceInv'
      BY <1>1, <1>3, <2>1, <2>2 DEF PlaceInv, AtRest
    <2> QED BY <1>2, <2>2, <2>3, Filed DEF SetupInv, Places
  <1>9. CASE stmt \in {"types", "resources"}
    <2>1. place' = "rebuild" /\ db' = db /\ at' = at /\ step' = step
      BY <1>6, <1>9 DEF Setup!Statement
    <2>2. Scripts[v] # Metadata /\ (Scripts[v] = EntryTypes => at = 1)
      BY <1>4, <1>9, StatementPlace
    <2>3. Rebuildable(db, at, 0)
      BY <1>1, <1>3, <1>9, <2>2, RebuildStarts DEF Rebuilds
    <2>4. PlaceInv'
      BY <1>1, <2>1, <2>3 DEF PlaceInv, AtRest
    <2> QED BY <1>2, <2>1, <2>4, Filed DEF SetupInv, Places
  <1>10. ASSUME stmt \in {"add", "classify", "set"}, at' = at + 1, step' = 0, place' = "upgrade",
                Aged(db'), Upgradable(db', at + 1)
         PROVE  SetupInv'
    <2>1. PlaceInv'
      BY <1>10 DEF PlaceInv, AtRest
    <2>2. Shape(db', losses) /\ db' # Setup!NoFile
      BY <1>10, HasTables DEF Shape, Aged
    <2> QED BY <1>2, <1>10, <2>1, <2>2, Filed DEF SetupInv, Places
  <1>11. CASE stmt = "add"
    <2>1. /\ Setup!Exec(v \in db.added, [db EXCEPT !.added = @ \cup {v}])
          /\ at' = at + 1 /\ step' = 0 /\ place' = "upgrade"
      BY <1>6, <1>11 DEF Setup!Statement, Setup!Next1
    <2>2. /\ db' = [db EXCEPT !.added = @ \cup {v}] \/ db' = db
          /\ v \in db.added \/ db' # db
      <3>1. CASE v \in db.added
        BY <2>1, <3>1 DEF Setup!Exec
      <3>2. CASE v \notin db.added
        <4>1. db' = [db EXCEPT !.added = @ \cup {v}]
          BY <2>1, <3>2 DEF Setup!Exec
        <4>2. db'.added = db.added \cup {v}
          BY <1>4, <4>1 DEF Tabled
        <4> QED BY <3>2, <4>1, <4>2
      <3> QED BY <3>1, <3>2
    <2>3. Aged(db') /\ Upgradable(db', at + 1)
      BY <1>1, <1>3, <1>11, <2>2, AddStatement
    <2> QED BY <1>10, <1>11, <2>1, <2>3
  <1>12. CASE stmt = "classify"
    <2>1. /\ Setup!Exec(~db.hasTypes, [db EXCEPT !.typed = @ \cup db.prefixed])
          /\ at' = at + 1 /\ step' = 0 /\ place' = "upgrade"
      BY <1>5, <1>6, <1>12 DEF Setup!Statement, Setup!Next1
    <2>2. db.hasTypes
      BY <1>1, <1>3, <1>12, ClassifyStatement
    <2>3. db' = [db EXCEPT !.typed = @ \cup db.prefixed]
      BY <2>1, <2>2 DEF Setup!Exec
    <2>4. Aged(db') /\ Upgradable(db', at + 1)
      BY <1>1, <1>3, <1>12, <2>3, ClassifyStatement
    <2> QED BY <1>10, <1>12, <2>1, <2>4
  <1>13. CASE stmt = "set"
    <2>1. db' = db /\ at' = at + 1 /\ step' = 0 /\ place' = "upgrade"
      BY <1>6, <1>13 DEF Setup!Statement, Setup!Next1
    <2>2. Scripts[v] # Metadata /\ Scripts[v] # EntryTypes
      BY <1>4, <1>13, StatementPlace
    <2>3. Upgradable(db, at + 1)
      BY <1>1, <1>3, <1>4, <1>13, <2>2, GoesOn
    <2> QED BY <1>4, <1>10, <1>13, <2>1, <2>3
  <1> QED BY <1>4, <1>7, <1>8, <1>9, <1>11, <1>12, <1>13, StatementPlace

LEMMA MetadataKeeps ==
  ASSUME SetupInv, ~harmed, Setup!MigrateMetadata, Setup!Logged
  PROVE  SetupInv'
  <1>1. /\ place = "metadata" /\ Upgrading(db, at) /\ at = 1 /\ Scripts[db.version] = Metadata /\ Still(db)
        /\ step = 0
    BY DEF SetupInv, Setup!MigrateMetadata, PlaceInv
  <1>2. /\ losses' = losses /\ backupFile' = backupFile /\ harmed' = harmed /\ at' = at /\ step' = step
    BY DEF Setup!MigrateMetadata, Setup!faults
  <1>3. Aged(db) /\ db \in Tabled /\ db.version \in 1 .. Len(Scripts) /\ 1 <= Len(Scripts[db.version])
    BY <1>1, AtStatement, ScriptOf
  <1>4. db.hasColumn /\ db.column = Objects
    BY <1>1, InPlace DEF Upgrading, Past, Moved
  <1>5. CASE db.column \subseteq db.moved
    <2>1. place' = "rebuild" /\ db' = db
      BY <1>5 DEF Setup!MigrateMetadata
    <2>2. db.moved = Objects
      BY <1>3, <1>4, <1>5 DEF Tabled
    <2>3. Rebuildable(db, at, 0)
      <3>1. Scripts[db.version][1] = "metadata" /\ Scripts[db.version] # EntryTypes
        BY <1>1, <1>3, ScriptOf
      <3>2. Table("metadata") = "object"
        BY DEF Table
      <3> QED BY <1>1, <1>3, <2>2, <3>1, <3>2 DEF Rebuildable, Rebuilds, Still
    <2>4. PlaceInv'
      BY <1>1, <1>2, <2>1, <2>3 DEF PlaceInv, AtRest
    <2> QED BY <1>2, <2>1, <2>4, Filed DEF SetupInv, Places
  <1>6. CASE ~(db.column \subseteq db.moved)
    <2>1. PICK o \in db.column \ db.moved : db' = [db EXCEPT !.moved = @ \cup {o}]
      BY <1>6 DEF Setup!MigrateMetadata
    <2>2. place' = "metadata"
      BY <1>1, <1>6 DEF Setup!MigrateMetadata
    <2>3. db' \in Tabled
      <3>1. db.moved \cup {o} \in SUBSET Objects
        BY <1>3, <1>4, <2>1 DEF Tabled
      <3> QED BY <1>3, <2>1, <3>1 DEF Tabled
    <2>4. /\ db'.version = db.version /\ db'.root = db.root /\ db'.added = db.added /\ db'.build = db.build
          /\ db'.column = db.column /\ db'.hasColumn = db.hasColumn /\ db'.stored = db.stored
          /\ db'.hasTypes = db.hasTypes /\ db'.typed = db.typed /\ db'.prefixed = db.prefixed
          /\ db'.rebuilt = db.rebuilt /\ db'.columns = db.columns
      BY <1>3, <2>1, <2>3 DEF Tabled
    <2>5. AddedOK(db') /\ TypesOK(db') /\ ResourcesOK(db')
      BY <1>3, <2>4 DEF Aged, AddedOK, TypesOK, ResourcesOK
    <2>6. MetadataOK(db')
      BY <1>1, <1>4, <2>4, InPlace DEF MetadataOK
    <2>7. Aged(db')
      BY <1>3, <2>3, <2>4, <2>5, <2>6, AgedWith
    <2>8. Past(db', at)
      BY <1>1, <2>4 DEF Upgrading, Past, Added, Moved, Typed
    <2>9. Upgrading(db', at') /\ Still(db') /\ Scripts[db'.version] = Metadata
      BY <1>1, <1>2, <2>4, <2>7, <2>8 DEF Upgrading, Still
    <2>10. PlaceInv'
      BY <1>1, <1>2, <2>2, <2>9 DEF PlaceInv, AtRest
    <2>11. Shape(db', losses) /\ db' # Setup!NoFile
      BY <2>3, <2>7, HasTables DEF Shape
    <2> QED BY <1>2, <2>2, <2>10, <2>11, Filed DEF SetupInv, Places
  <1> QED BY <1>5, <1>6

LEMMA LocationKeeps ==
  ASSUME SetupInv, ~harmed, Setup!MigrateLocation, Setup!Logged
  PROVE  SetupInv'
  <1>1. /\ place = "location" /\ Upgrading(db, at) /\ at = 3 /\ Scripts[db.version] = EntryTypes /\ Still(db)
        /\ step = 0
    BY DEF SetupInv, Setup!MigrateLocation, PlaceInv
  <1>2. losses' = losses /\ backupFile' = backupFile /\ harmed' = harmed
    BY DEF Setup!MigrateLocation, Setup!faults
  <1>3. /\ Aged(db) /\ db \in Tabled /\ db.version \in 1 .. Len(Scripts)
        /\ Len(Scripts[db.version]) = 3 /\ Scripts[db.version][3] = "location" /\ Scripts[db.version] # Metadata
    BY <1>1, AtStatement, ScriptOf
  <1>4. db.hasTypes /\ db.typed = Objects
    BY <1>1 DEF Upgrading, Past, Typed
  <1>5. CASE db.prefixed = {}
    <2>1. place' = "upgrade" /\ at' = at + 1 /\ step' = 0 /\ db' = db
      BY <1>5 DEF Setup!MigrateLocation, Setup!Next1
    <2>2. Upgradable(db, at + 1)
      <3>1. at <= Len(Scripts[db.version]) /\ ~(at <= 2)
        BY <1>1, <1>3
      <3>2. Scripts[db.version][at] # "add" /\ Scripts[db.version][at] # "resources"
        BY <1>1, <1>3
      <3> QED BY <1>1, <1>3, <1>4, <1>5, <3>1, <3>2, GoesOn
    <2>3. PlaceInv'
      BY <2>1, <2>2 DEF PlaceInv, AtRest
    <2> QED BY <1>2, <2>1, <2>3, Filed DEF SetupInv, Places
  <1>6. CASE db.prefixed # {}
    <2>1. PICK o \in db.prefixed : /\ db' = [db EXCEPT !.prefixed = @ \ {o}]
                                   /\ UNCHANGED <<place, at, step>>
      BY <1>6 DEF Setup!MigrateLocation
    <2>2. place' = "location" /\ at' = at /\ step' = step
      BY <1>1, <2>1
    <2>3. db' \in Tabled
      <3>1. db.prefixed \ {o} \in SUBSET Objects
        BY <1>3 DEF Tabled
      <3> QED BY <1>3, <2>1, <3>1 DEF Tabled
    <2>4. /\ db'.version = db.version /\ db'.root = db.root /\ db'.added = db.added /\ db'.build = db.build
          /\ db'.column = db.column /\ db'.hasColumn = db.hasColumn /\ db'.stored = db.stored
          /\ db'.hasTypes = db.hasTypes /\ db'.typed = db.typed /\ db'.moved = db.moved
          /\ db'.rebuilt = db.rebuilt /\ db'.columns = db.columns
      BY <1>3, <2>1, <2>3 DEF Tabled
    <2>5. AddedOK(db') /\ MetadataOK(db') /\ ResourcesOK(db')
      BY <1>3, <2>4 DEF Aged, AddedOK, MetadataOK, ResourcesOK
    <2>6. TypesOK(db')
      BY <1>1, <2>4, InPlace DEF TypesOK
    <2>7. Aged(db')
      BY <1>3, <2>3, <2>4, <2>5, <2>6, AgedWith
    <2>8. Past(db', at)
      <3>1. Added(db', at)
        BY <1>1, <2>4 DEF Upgrading, Past, Added
      <3> QED BY <1>1, <1>3, <1>4, <2>4, <3>1 DEF Past, Moved, Typed
    <2>9. Upgrading(db', at') /\ Still(db') /\ Scripts[db'.version] = EntryTypes
      BY <1>1, <2>2, <2>4, <2>7, <2>8 DEF Upgrading, Still
    <2>10. PlaceInv'
      BY <1>1, <2>2, <2>9 DEF PlaceInv, AtRest
    <2>11. Shape(db', losses) /\ db' # Setup!NoFile
      BY <2>3, <2>7, HasTables DEF Shape
    <2> QED BY <1>2, <2>2, <2>10, <2>11, Filed DEF SetupInv, Places
  <1> QED BY <1>5, <1>6

(* The end of a rebuild: the new table takes the place of the old one.     *)
Copied(b, d) ==
    /\ b \in Tabled
    /\ b.version = d.version /\ b.root = d.root /\ b.added = d.added /\ b.build = [t \in Builds |-> 0]
    /\ b.column = d.column /\ b.hasColumn = d.hasColumn /\ b.moved = d.moved /\ b.hasTypes = d.hasTypes
    /\ b.typed = d.typed /\ b.prefixed = d.prefixed /\ b.rebuilt = d.rebuilt /\ b.columns = d.columns
    /\ b.stored = d.stored

LEMMA MetadataRebuilt ==
  ASSUME NEW d, NEW n, Rebuildable(d, n, 3), Scripts[d.version][n] = "metadata",
         NEW b, Copied(b, d), NEW e, e = [b EXCEPT !.hasColumn = FALSE, !.column = {}]
  PROVE  Aged(e) /\ Upgradable(e, n + 1)
  <1> DEFINE v == d.version
  <1>1. /\ Upgrading(d, n) /\ v \in 1 .. Len(Scripts) /\ n \in 1 .. Len(Scripts[v])
        /\ Scripts[v] = Metadata => d.moved = Objects
        /\ Scripts[v] = EntryTypes => n = 1 /\ d.prefixed = Objects
    BY AtStatement DEF Rebuildable
  <1>2. Aged(d) /\ d \in Tabled
    BY <1>1, AtStatement
  <1>3. Scripts[v] = Metadata /\ Scripts[v] # EntryTypes
    BY <1>1, StatementPlace
  <1>4. e \in Tabled
    BY DEF Tabled, Copied
  <1>5. /\ e.version = v /\ e.root = d.root /\ e.added = d.added /\ e.build = [t \in Builds |-> 0]
        /\ e.moved = d.moved /\ e.hasTypes = d.hasTypes /\ e.typed = d.typed /\ e.prefixed = d.prefixed
        /\ e.rebuilt = d.rebuilt /\ e.columns = d.columns /\ e.stored = d.stored
    BY <1>4 DEF Tabled, Copied
  <1>6. ~e.hasColumn /\ e.column = {}
    BY <1>4 DEF Tabled, Copied
  <1>7. AddedOK(e) /\ TypesOK(e) /\ ResourcesOK(e)
    BY <1>2, <1>5 DEF Aged, AddedOK, TypesOK, ResourcesOK
  <1>8. MetadataOK(e)
    BY <1>1, <1>3, <1>5, <1>6, InPlace DEF MetadataOK
  <1>9. Aged(e)
    BY <1>2, <1>4, <1>5, <1>7, <1>8, AgedWith
  <1>10. Still(e)
    BY <1>5 DEF Still
  <1>11. Scripts[v][n] # "add" /\ Scripts[v][n] # "resources"
    OBVIOUS
  <1>12. Upgradable(e, n + 1)
    <2>1. n <= Len(Scripts[d.version]) /\ d.added \subseteq e.added /\ (d.rebuilt => e.rebuilt)
      BY <1>1, <1>5
    <2> HIDE DEF v
    <2> QED BY <1>1, <1>3, <1>5, <1>6, <1>9, <1>10, <1>11, <2>1, GoesOn DEF v
  <1> QED BY <1>9, <1>12

LEMMA TypesRebuilt ==
  ASSUME NEW d, NEW n, Rebuildable(d, n, 3), Scripts[d.version][n] = "types",
         NEW b, Copied(b, d), NEW e, e = [b EXCEPT !.hasTypes = TRUE, !.typed = {}]
  PROVE  Aged(e) /\ Upgradable(e, n + 1)
  <1> DEFINE v == d.version
  <1>1. /\ Upgrading(d, n) /\ v \in 1 .. Len(Scripts) /\ n \in 1 .. Len(Scripts[v])
        /\ Scripts[v] = Metadata => d.moved = Objects
        /\ Scripts[v] = EntryTypes => n = 1 /\ d.prefixed = Objects
    BY AtStatement DEF Rebuildable
  <1>2. Aged(d) /\ d \in Tabled
    BY <1>1, AtStatement
  <1>3. Scripts[v] # Metadata /\ Scripts[v] = EntryTypes /\ n = 1
    BY <1>1, StatementPlace
  <1>4. e \in Tabled
    BY DEF Tabled, Copied
  <1>5. /\ e.version = v /\ e.root = d.root /\ e.added = d.added /\ e.build = [t \in Builds |-> 0]
        /\ e.moved = d.moved /\ e.hasColumn = d.hasColumn /\ e.column = d.column /\ e.prefixed = d.prefixed
        /\ e.rebuilt = d.rebuilt /\ e.columns = d.columns /\ e.stored = d.stored
    BY <1>4 DEF Tabled, Copied
  <1>6. e.hasTypes
    BY <1>4 DEF Tabled, Copied
  <1>7. AddedOK(e) /\ MetadataOK(e) /\ ResourcesOK(e)
    BY <1>2, <1>5 DEF Aged, AddedOK, MetadataOK, ResourcesOK
  <1>8. TypesOK(e)
    BY <1>1, <1>3, <1>5, InPlace DEF TypesOK
  <1>9. Aged(e)
    BY <1>2, <1>4, <1>5, <1>7, <1>8, AgedWith
  <1>10. Still(e)
    BY <1>5 DEF Still
  <1>11. ~(n >= 2) /\ n # 3 /\ e.prefixed = Objects
    BY <1>1, <1>3, <1>5
  <1>12. Scripts[v][n] # "add" /\ Scripts[v][n] # "resources"
    OBVIOUS
  <1>13. Upgradable(e, n + 1)
    <2>1. n <= Len(Scripts[d.version]) /\ d.added \subseteq e.added /\ (d.rebuilt => e.rebuilt)
      BY <1>1, <1>5
    <2> HIDE DEF v
    <2> QED BY <1>1, <1>3, <1>5, <1>6, <1>9, <1>10, <1>11, <1>12, <2>1, GoesOn DEF v
  <1> QED BY <1>9, <1>13

LEMMA ResourcesRebuilt ==
  ASSUME NEW d, NEW n, Rebuildable(d, n, 3), Scripts[d.version][n] = "resources",
         NEW b, Copied(b, d), NEW e, e = [b EXCEPT !.rebuilt = TRUE]
  PROVE  Aged(e) /\ Upgradable(e, n + 1)
  <1> DEFINE v == d.version
  <1>1. /\ Upgrading(d, n) /\ v \in 1 .. Len(Scripts) /\ n \in 1 .. Len(Scripts[v])
        /\ Scripts[v] = Metadata => d.moved = Objects
        /\ Scripts[v] = EntryTypes => n = 1 /\ d.prefixed = Objects
    BY AtStatement DEF Rebuildable
  <1>2. Aged(d) /\ d \in Tabled
    BY <1>1, AtStatement
  <1>3. Scripts[v] # Metadata /\ Scripts[v] # EntryTypes
    BY <1>1, StatementPlace
  <1>4. e \in Tabled
    BY DEF Tabled, Copied
  <1>5. /\ e.version = v /\ e.root = d.root /\ e.added = d.added /\ e.build = [t \in Builds |-> 0]
        /\ e.moved = d.moved /\ e.hasColumn = d.hasColumn /\ e.column = d.column /\ e.prefixed = d.prefixed
        /\ e.hasTypes = d.hasTypes /\ e.typed = d.typed /\ e.columns = d.columns /\ e.stored = d.stored
    BY <1>4 DEF Tabled, Copied
  <1>6. e.rebuilt
    BY <1>4 DEF Tabled, Copied
  <1>7. AddedOK(e) /\ MetadataOK(e) /\ TypesOK(e)
    BY <1>2, <1>5 DEF Aged, AddedOK, MetadataOK, TypesOK
  <1>8. ResourcesOK(e)
    <2>1. Runs(v, "resources")
      BY <1>1, RunsOf
    <2>2. v \in 1 .. v
      BY <1>1, NewestIsNat
    <2> QED BY <1>5, <1>6, <2>1, <2>2 DEF ResourcesOK
  <1>9. Aged(e)
    BY <1>2, <1>4, <1>5, <1>7, <1>8, AgedWith
  <1>10. Still(e)
    BY <1>5 DEF Still
  <1>11. Scripts[v][n] # "add"
    OBVIOUS
  <1>12. Upgradable(e, n + 1)
    <2>1. n <= Len(Scripts[d.version]) /\ d.added \subseteq e.added /\ (d.rebuilt => e.rebuilt)
      BY <1>1, <1>5, <1>6
    <2> HIDE DEF v
    <2> QED BY <1>1, <1>3, <1>5, <1>6, <1>9, <1>10, <1>11, <2>1, GoesOn DEF v
  <1> QED BY <1>9, <1>12

LEMMA RebuildKeeps ==
  ASSUME SetupInv, ~harmed, Setup!Rebuild, Setup!Logged
  PROVE  SetupInv'
  <1> DEFINE v == db.version
             stmt == Scripts[v][at]
             t == Table(stmt)
  <1>1. place = "rebuild" /\ Rebuildable(db, at, step)
    BY DEF SetupInv, Setup!Rebuild, PlaceInv
  <1>2. losses' = losses /\ backupFile' = backupFile /\ harmed' = harmed
    BY DEF Setup!Rebuild, Setup!faults
  <1>3. /\ Upgrading(db, at) /\ Aged(db) /\ db \in Tabled /\ v \in 1 .. Len(Scripts)
        /\ at \in 1 .. Len(Scripts[v]) /\ stmt \in Rebuilds /\ step \in 0 .. 3
        /\ db.build = [u \in Builds |-> IF u = t THEN step ELSE 0]
    BY <1>1, AtStatement DEF Rebuildable
  <1>4. t \in Builds /\ db.build[t] = step
    BY <1>3 DEF Table, Builds
  <1>5. /\ Setup!Stmt = stmt
        /\ IF step # db.build[t] THEN Setup!Next1 /\ UNCHANGED db
           ELSE IF step < 3 THEN /\ db' = [db EXCEPT !.build[t] = @ + 1]
                                 /\ step' = step + 1 /\ UNCHANGED <<place, at>>
           ELSE db' = Setup!Rebuilt([db EXCEPT !.build[t] = 0]) /\ Setup!Next1
    BY DEF Setup!Rebuild, Table, Setup!Stmt
  <1>6. CASE step < 3
    <2>1. db' = [db EXCEPT !.build[t] = @ + 1] /\ step' = step + 1 /\ place' = "rebuild" /\ at' = at
      BY <1>1, <1>4, <1>5, <1>6
    <2>2. db' = [db EXCEPT !.build = [db.build EXCEPT ![t] = step + 1]]
      BY <1>3, <1>4, <2>1 DEF Tabled
    <2>3. [db.build EXCEPT ![t] = step + 1] = [u \in Builds |-> IF u = t THEN step + 1 ELSE 0]
      BY <1>3, <1>4
    <2>4. step + 1 \in 0 .. 3
      BY <1>3, <1>6
    <2>5. db' \in Tabled
      <3>1. [u \in Builds |-> IF u = t THEN step + 1 ELSE 0] \in [Builds -> 0 .. 3]
        BY <2>4
      <3> QED BY <1>3, <2>2, <2>3, <3>1 DEF Tabled
    <2>6. /\ db'.version = v /\ db'.root = db.root /\ db'.added = db.added /\ db'.moved = db.moved
          /\ db'.column = db.column /\ db'.hasColumn = db.hasColumn /\ db'.stored = db.stored
          /\ db'.hasTypes = db.hasTypes /\ db'.typed = db.typed /\ db'.prefixed = db.prefixed
          /\ db'.rebuilt = db.rebuilt /\ db'.columns = db.columns
      BY <1>3, <2>2, <2>5 DEF Tabled
    <2>7. db'.build = [u \in Builds |-> IF u = t THEN step + 1 ELSE 0]
      BY <1>3, <2>2, <2>3, <2>5 DEF Tabled
    <2>8. AddedOK(db') /\ MetadataOK(db') /\ TypesOK(db') /\ ResourcesOK(db')
      BY <1>3, <2>6 DEF Aged, AddedOK, MetadataOK, TypesOK, ResourcesOK
    <2>9. Aged(db')
      BY <1>3, <2>5, <2>6, <2>8, AgedWith
    <2>10. Past(db', at)
      BY <1>3, <2>6 DEF Upgrading, Past, Added, Moved, Typed
    <2>11. Upgrading(db', at)
      BY <1>3, <2>6, <2>9, <2>10 DEF Upgrading
    <2>12. Rebuildable(db', at', step')
      BY <1>1, <2>1, <2>4, <2>6, <2>7, <2>11 DEF Rebuildable
    <2>13. PlaceInv'
      BY <2>1, <2>12 DEF PlaceInv, AtRest
    <2>14. Shape(db', losses) /\ db' # Setup!NoFile
      BY <2>5, <2>9, HasTables DEF Shape
    <2> QED BY <1>2, <2>1, <2>13, <2>14, Filed DEF SetupInv, Places
  <1>7. CASE ~(step < 3)
    <2>1. step = 3
      BY <1>3, <1>7
    <2>2. /\ db' = Setup!Rebuilt([db EXCEPT !.build[t] = 0])
          /\ at' = at + 1 /\ step' = 0 /\ place' = "upgrade"
      BY <1>4, <1>5, <1>7 DEF Setup!Next1
    <2>3. PICK b : b = [db EXCEPT !.build[t] = 0]
      OBVIOUS
    <2>4. b = [db EXCEPT !.build = [db.build EXCEPT ![t] = 0]]
      BY <1>3, <1>4, <2>3 DEF Tabled
    <2>5. [db.build EXCEPT ![t] = 0] = [u \in Builds |-> 0]
      BY <1>3, <1>4
    <2>6. b \in Tabled
      <3>1. [u \in Builds |-> 0] \in [Builds -> 0 .. 3]
        OBVIOUS
      <3> QED BY <1>3, <2>4, <2>5, <3>1 DEF Tabled
    <2>7. Copied(b, db)
      <3>1. /\ b.version = v /\ b.root = db.root /\ b.added = db.added /\ b.moved = db.moved
            /\ b.column = db.column /\ b.hasColumn = db.hasColumn /\ b.stored = db.stored
            /\ b.hasTypes = db.hasTypes /\ b.typed = db.typed /\ b.prefixed = db.prefixed
            /\ b.rebuilt = db.rebuilt /\ b.columns = db.columns
        BY <1>3, <2>4, <2>6 DEF Tabled
      <3>2. b.build = [u \in Builds |-> 0]
        BY <1>3, <2>4, <2>5, <2>6 DEF Tabled
      <3> QED BY <2>6, <3>1, <3>2 DEF Copied
    <2>8. ASSUME stmt = "metadata"
           PROVE  Aged(db') /\ Upgradable(db', at + 1)
      <3>1. db' = [b EXCEPT !.hasColumn = FALSE, !.column = {}]
        BY <1>5, <2>2, <2>3, <2>8 DEF Setup!Rebuilt
      <3> QED BY <1>1, <2>1, <2>7, <2>8, <3>1, MetadataRebuilt
    <2>9. ASSUME stmt = "types"
           PROVE  Aged(db') /\ Upgradable(db', at + 1)
      <3>1. db' = [b EXCEPT !.hasTypes = TRUE, !.typed = {}]
        BY <1>5, <2>2, <2>3, <2>9 DEF Setup!Rebuilt
      <3> QED BY <1>1, <2>1, <2>7, <2>9, <3>1, TypesRebuilt
    <2>10. ASSUME stmt = "resources"
           PROVE  Aged(db') /\ Upgradable(db', at + 1)
      <3>1. db' = [b EXCEPT !.rebuilt = TRUE]
        BY <1>5, <2>2, <2>3, <2>10 DEF Setup!Rebuilt
      <3> QED BY <1>1, <2>1, <2>7, <2>10, <3>1, ResourcesRebuilt
    <2>11. Aged(db') /\ Upgradable(db', at')
      BY <1>3, <2>2, <2>8, <2>9, <2>10 DEF Rebuilds
    <2>12. PlaceInv'
      BY <2>2, <2>11 DEF PlaceInv, AtRest
    <2>13. Shape(db', losses) /\ db' # Setup!NoFile
      BY <2>11, HasTables DEF Shape, Aged
    <2> QED BY <1>2, <2>2, <2>12, <2>13, Filed DEF SetupInv, Places
  <1> QED BY <1>6, <1>7

(* All statements of a version are behind.                                 *)
LEMMA NextVersion ==
  ASSUME NEW d, NEW n, Upgrading(d, n), Still(d), n = Len(Scripts[d.version]) + 1,
         NEW e, e = [d EXCEPT !.version = @ + 1]
  PROVE  Aged(e) /\ Upgradable(e, 1)
  <1> DEFINE v == d.version
  <1>1. /\ Aged(d) /\ d \in Tabled /\ v \in 1 .. Len(Scripts) /\ v < Newest /\ Len(Scripts[v]) \in Nat
        /\ d.stored = 0 /\ d.columns = 0 /\ v \in 1 .. Newest /\ Past(d, n)
    BY AtStatement, NewestIsNat DEF Upgrading
  <1>2. v + 1 \in 1 .. Newest /\ v + 1 \in 0 .. Newest
    BY <1>1, NewestIsNat
  <1>3. e \in Tabled /\ e.version = v + 1
    BY <1>1, <1>2 DEF Tabled
  <1>4. /\ e.root = d.root /\ e.added = d.added /\ e.build = d.build /\ e.column = d.column
        /\ e.hasColumn = d.hasColumn /\ e.moved = d.moved /\ e.hasTypes = d.hasTypes /\ e.typed = d.typed
        /\ e.prefixed = d.prefixed /\ e.rebuilt = d.rebuilt /\ e.columns = d.columns /\ e.stored = d.stored
    BY <1>1, <1>3 DEF Tabled
  <1>5. ASSUME NEW j \in 1 .. Len(Scripts[v])
        PROVE  /\ Scripts[v][j] = "add" => v \in d.added
               /\ Scripts[v][j] = "resources" => d.rebuilt
    <2>1. j \in 1 .. n - 1
      BY <1>1
    <2> QED BY <1>1, <2>1 DEF Past, Added
  <1>6. AddedOK(e)
    <2>1. AddedOK(d)
      BY <1>1 DEF Aged
    <2>2. Runs(v, "add") => v \in d.added
      BY <1>1, <1>5, RunsOf
    <2>3. ASSUME NEW w \in 1 .. e.version - 1, Runs(w, "add")
          PROVE  w \in e.added
      <3>1. w \in 1 .. v - 1 \/ w = v
        BY <1>1, <1>3
      <3> QED BY <1>4, <2>1, <2>2, <2>3, <3>1 DEF AddedOK
    <2>4. ASSUME NEW w \in e.added
          PROVE  w \in 1 .. e.version /\ Runs(w, "add")
      <3>1. w \in 1 .. v /\ Runs(w, "add")
        BY <1>4, <2>1 DEF AddedOK
      <3> QED BY <1>1, <1>3, <3>1
    <2> QED BY <2>3, <2>4 DEF AddedOK
  <1>7. /\ Before(e.version, "metadata") <=> Before(v, "metadata") \/ Runs(v, "metadata")
        /\ Before(e.version, "types") <=> Before(v, "types") \/ Runs(v, "types")
        /\ Before(e.version, "resources") <=> Before(v, "resources") \/ Runs(v, "resources")
    BY <1>1, <1>3, BeforeNext
  <1>8. MetadataOK(d) /\ TypesOK(d) /\ ResourcesOK(d)
    BY <1>1 DEF Aged
  <1>9. ASSUME Runs(v, "metadata")
        PROVE  ~d.hasColumn
    <2>1. Scripts[v] = Metadata
      BY <1>1, <1>9, RunsOf
    <2>2. n # 1
      BY <1>1, <2>1, ScriptOf
    <2> QED BY <1>1, <2>1, <2>2 DEF Past, Moved
  <1>10. MetadataOK(e)
    BY <1>4, <1>7, <1>8, <1>9 DEF MetadataOK
  <1>11. ASSUME Runs(v, "types")
         PROVE  d.hasTypes /\ d.typed = Objects /\ d.prefixed = {}
    <2>1. Scripts[v] = EntryTypes
      BY <1>1, <1>11, RunsOf
    <2>2. n = 4
      <3>1. Len(Scripts[v]) = 3
        BY <1>1, <2>1, ScriptOf
      <3> QED BY <3>1
    <2> QED BY <1>1, <2>1, <2>2 DEF Past, Typed
  <1>12. TypesOK(e)
    BY <1>4, <1>7, <1>8, <1>11 DEF TypesOK
  <1>13. ResourcesOK(e)
    <2>1. Runs(v, "resources") => d.rebuilt
      BY <1>1, <1>5, RunsOf
    <2>2. 1 .. v \subseteq 1 .. e.version
      BY <1>1, <1>3
    <2> QED BY <1>4, <1>7, <1>8, <2>1, <2>2 DEF ResourcesOK
  <1>14. AttributesOK(e)
    <2>1. AttributesOK(d)
      BY <1>1 DEF Aged
    <2> QED BY <1>1, <1>4, <2>1 DEF AttributesOK
  <1>15. Aged(e)
    BY <1>1, <1>2, <1>3, <1>4, <1>6, <1>10, <1>12, <1>13, <1>14 DEF Aged
  <1>16. Upgradable(e, 1)
    <2>1. ASSUME e.version < Newest
          PROVE  Half(e, 1)
      <3>1. e.version \in 1 .. Len(Scripts) /\ v # e.version
        BY <1>1, <1>3, <2>1, NewestIsNat DEF Newest
      <3>2. ASSUME Scripts[e.version] = Metadata
            PROVE  e.hasColumn /\ e.moved = {}
        <4>1. ~Before(e.version, "metadata")
          BY <3>1, <3>2, NoneBefore
        <4> QED BY <1>4, <1>7, <1>8, <4>1 DEF MetadataOK
      <3>3. ASSUME Scripts[e.version] = EntryTypes
            PROVE  e.prefixed = Objects
        <4>1. ~Before(e.version, "types")
          BY <3>1, <3>3, NoneBefore
        <4> QED BY <1>4, <1>7, <1>8, <4>1 DEF TypesOK
      <3>4. Past(e, 1)
        BY <3>2 DEF Past, Added, Moved, Typed
      <3>5. 1 \in 1 .. Len(Scripts[e.version]) + 1
        BY <3>1, ScriptOf
      <3> QED BY <1>15, <2>1, <3>2, <3>3, <3>4, <3>5 DEF Half, Upgrading
    <2>2. e.tables /\ e.root = 3 /\ e.version >= 1
      BY <1>15, HasTables DEF Aged
    <2>3. Still(e)
      BY <1>4 DEF Still
    <2> QED BY <1>1, <1>4, <2>1, <2>2, <2>3 DEF Upgradable
  <1> QED BY <1>15, <1>16

LEMMA UpdateKeeps ==
  ASSUME SetupInv, ~harmed, Setup!UpdateVersion, Setup!Logged
  PROVE  SetupInv'
  <1>1. /\ place = "upgrade" /\ db.version < Newest /\ at > Len(Scripts[db.version])
        /\ Upgradable(db, at)
    BY NewestIsNat DEF SetupInv, Setup!UpdateVersion, Setup!VersionDone, PlaceInv
  <1>2. /\ db' = [db EXCEPT !.version = @ + 1] /\ place' = "upgrade" /\ at' = 1 /\ step' = 0
        /\ losses' = losses /\ backupFile' = backupFile /\ harmed' = harmed
    BY DEF Setup!UpdateVersion, Setup!Goto, Setup!faults
  <1>3. Upgrading(db, at) /\ Still(db)
    BY <1>1 DEF Upgradable, Half
  <1>4. at = Len(Scripts[db.version]) + 1
    BY <1>1, <1>3, AtStatement
  <1>5. Aged(db') /\ Upgradable(db', at')
    BY <1>2, <1>3, <1>4, NextVersion
  <1>6. PlaceInv'
    BY <1>2, <1>5 DEF PlaceInv, AtRest
  <1>7. Shape(db', losses) /\ db' # Setup!NoFile
    BY <1>5, HasTables DEF Shape, Aged
  <1> QED BY <1>2, <1>6, <1>7, Filed DEF SetupInv, Places

LEMMA SetupInit == Setup!Init => SetupInv
  <1> SUFFICES ASSUME Setup!Init
               PROVE  SetupInv
    OBVIOUS
  <1>1. /\ mainFile = db /\ backupFile \in {Setup!NoBackup, Setup!NoFile, db} /\ place = "down" /\ step = 0
        /\ harmed = FALSE /\ losses \in Nat
    BY DEF Setup!Init
  <1>2. CASE db = Setup!NoFile /\ losses = 1
    <2>1. ~Setup!Fragile(db)
      BY <1>2, NoFileParts DEF Setup!Fragile
    <2>2. PlaceInv
      BY <1>1, <2>1 DEF PlaceInv, AtRest
    <2>3. /\ Shape(db, losses) /\ Shape(mainFile, losses)
          /\ backupFile = Setup!NoBackup \/ Shape(backupFile, losses)
      BY <1>1, <1>2 DEF Shape
    <2>4. losses \in Nat /\ losses > 0
      BY <1>2
    <2>5. harmed \in BOOLEAN /\ place \in Places
      BY <1>1 DEF Places
    <2> QED BY <2>2, <2>3, <2>4, <2>5 DEF SetupInv
  <1>3. CASE db \in {Setup!Whole(v) : v \in 1 .. Setup!DBVERSION}
    <2>1. PICK v \in 1 .. Newest : db = Setup!Whole(v)
      BY <1>3, NewestIsNat
    <2>2. Aged(db)
      BY <2>1, WholeIsAged
    <2>3. db.version = v /\ db.root = 3 /\ db.build = [t \in Builds |-> 0] /\ db \in Tabled
      BY <2>1, <2>2 DEF Setup!Whole, Builds, Aged
    <2>4. Setup!Has(db, "metadata") => db.hasColumn /\ db.moved = {}
      <3>1. SUFFICES ASSUME Setup!Has(db, "metadata")
                     PROVE  db.hasColumn /\ db.moved = {}
        OBVIOUS
      <3>2. v \in 1 .. Len(Scripts) /\ Runs(v, "metadata")
        BY <2>1, <2>3, <3>1, NewestIsNat DEF Setup!Has, Runs, Newest
      <3>3. ~Before(v, "metadata")
        BY <3>2, RunsOf, NoneBefore
      <3>4. v \in 0 .. Newest
        BY <2>1
      <3> QED BY <2>1, <3>3, <3>4, WholeParts
    <2>5. Setup!Has(db, "location") => db.prefixed = Objects
      <3>1. SUFFICES ASSUME Setup!Has(db, "location")
                     PROVE  db.prefixed = Objects
        OBVIOUS
      <3>2. v \in 1 .. Len(Scripts) /\ Runs(v, "location")
        BY <2>1, <2>3, <3>1, NewestIsNat DEF Setup!Has, Runs, Newest
      <3>3. ~Before(v, "types")
        BY <3>2, RunsOf, NoneBefore
      <3>4. v \in 0 .. Newest
        BY <2>1
      <3> QED BY <2>1, <3>3, <3>4, WholeParts
    <2>6. ~Setup!Fragile(db)
      <3>1. \A t \in DOMAIN db.build : db.build[t] = 0
        BY <2>3
      <3> QED BY <2>1, <2>3, <2>4, <2>5, <3>1 DEF Setup!Fragile
    <2>7. Shape(db, losses) /\ db # Setup!NoFile
      BY <2>2, <2>3, HasTables DEF Shape
    <2> QED BY <1>1, <2>6, <2>7 DEF SetupInv, PlaceInv, Shape, AtRest, Places
  <1> QED BY <1>2, <1>3 DEF Setup!Init

LEMMA SetupStep ==
  ASSUME SetupInv, ~harmed, Setup!Next
  PROVE  SetupInv'
  <1>1. CASE Setup!Step /\ Setup!Logged
    BY <1>1, StartKeeps, PrepareKeeps, RestoreKeeps, CreateKeeps, SetVersionKeeps, FillKeeps, FailsKeeps,
       StatementKeeps, MetadataKeeps, LocationKeeps, RebuildKeeps, UpdateKeeps, AddColumnKeeps, StoreKeeps,
       BackupKeeps, StopKeeps DEF Setup!Step
  <1> QED BY <1>1, CopyLogKeeps, DieKeeps, LoseKeeps DEF Setup!Next

(* What is complete has all that the version is for.                       *)
LEMMA CompleteIsWhole ==
  ASSUME NEW d, NEW lost \in Nat, Shape(d, lost), Complete(d)
  PROVE  \/ d = Setup!Whole(Newest)
         \/ lost > 0 /\ d = [Setup!Whole(Newest) EXCEPT !.moved = {}, !.typed = {}]
  <1> DEFINE w == Setup!Whole(Newest)
  <1>1. d \in Tabled /\ AttributesOK(d) /\ d.tables
    BY InTable DEF Complete
  <1>2. w \in Tabled /\ Newest \in 0 .. Newest
    BY WholeParts, NewestIsNat
  <1>3. /\ w.version = Newest /\ w.root = 3 /\ w.build = [t \in Builds |-> 0] /\ w.tables
        /\ w.columns = Attributes /\ w.stored = Attributes
    BY NewestIsNat DEF Setup!Whole, Builds
  <1>4. /\ d.version = Newest /\ d.root = 3 /\ d.build = [t \in Builds |-> 0] /\ d.tables = w.tables
        /\ d.columns = Attributes /\ d.stored = Attributes
    BY <1>1, <1>2 DEF Complete, Still, AttributesOK, Tabled
  <1>5. /\ w.added = {v \in 1 .. Newest - 1 : Runs(v, "add")}
        /\ w.column = (IF Before(Newest, "metadata") THEN {} ELSE Objects)
        /\ w.hasColumn <=> ~Before(Newest, "metadata")
        /\ w.moved = (IF Before(Newest, "metadata") THEN Objects ELSE {})
        /\ w.hasTypes <=> Before(Newest, "types")
        /\ w.typed = (IF Before(Newest, "types") THEN Objects ELSE {})
        /\ w.prefixed = (IF Before(Newest, "types") THEN {} ELSE Objects)
        /\ w.rebuilt <=> Before(Newest, "resources")
    BY <1>2, WholeParts
  <1>6. /\ d.hasColumn \in BOOLEAN /\ d.hasTypes \in BOOLEAN /\ d.rebuilt \in BOOLEAN
        /\ w.hasColumn \in BOOLEAN /\ w.hasTypes \in BOOLEAN /\ w.rebuilt \in BOOLEAN
    BY <1>1, <1>2 DEF Tabled
  <1>7. CASE Aged(d)
    <2>1. d.added = w.added
      <3>1. \A v \in d.added : v \in 1 .. Newest - 1 /\ Runs(v, "add")
        BY <1>4, <1>7, NewestIsNat DEF Aged, AddedOK, Runs, Newest
      <3>2. \A v \in 1 .. Newest - 1 : Runs(v, "add") => v \in d.added
        BY <1>4, <1>7 DEF Aged, AddedOK
      <3> QED BY <1>5, <3>1, <3>2
    <2>2. d.column = w.column /\ d.hasColumn = w.hasColumn /\ d.moved = w.moved
      BY <1>4, <1>5, <1>6, <1>7, NoneLater DEF Aged, MetadataOK
    <2>3. d.hasTypes = w.hasTypes /\ d.typed = w.typed /\ d.prefixed = w.prefixed
      BY <1>4, <1>5, <1>6, <1>7, NoneLater DEF Aged, TypesOK
    <2>4. d.rebuilt = w.rebuilt
      <3>1. (\E v \in 1 .. Newest : Runs(v, "resources")) => Before(Newest, "resources")
        BY NewestIsNat DEF Before, Runs, Newest
      <3> QED BY <1>4, <1>5, <1>6, <1>7, <3>1 DEF Aged, ResourcesOK
    <2>5. d = w
      <3> HIDE DEF w
      <3>1. /\ d.tables = w.tables /\ d.version = w.version /\ d.root = w.root /\ d.build = w.build
            /\ d.columns = w.columns /\ d.stored = w.stored
        BY <1>3, <1>4
      <3> QED BY <1>1, <1>2, <2>1, <2>2, <2>3, <2>4, <3>1, SameParts
    <2> QED BY <2>5
  <1>8. CASE Young(d) /\ lost > 0
    <2>1. PICK e : e = [w EXCEPT !.moved = {}, !.typed = {}]
      OBVIOUS
    <2>2. e \in Tabled
      BY <1>2, <2>1 DEF Tabled
    <2>3. /\ e.version = w.version /\ e.root = w.root /\ e.build = w.build /\ e.tables = w.tables
          /\ e.columns = w.columns /\ e.stored = w.stored /\ e.added = w.added /\ e.column = w.column
          /\ e.hasColumn = w.hasColumn /\ e.hasTypes = w.hasTypes /\ e.prefixed = w.prefixed
          /\ e.rebuilt = w.rebuilt /\ e.moved = {} /\ e.typed = {}
      BY <1>2, <2>1, <2>2 DEF Tabled
    <2>4. Newest - 1 = Len(Scripts)
      BY NewestIsNat DEF Newest
    <2>5. /\ d.added = w.added /\ d.column = w.column /\ d.prefixed = w.prefixed
          /\ d.moved = {} /\ d.typed = {}
      BY <1>5, <1>8, <2>4 DEF Young
    <2>6. d.hasColumn = w.hasColumn /\ d.hasTypes = w.hasTypes /\ d.rebuilt = w.rebuilt
      BY <1>5, <1>6, <1>8 DEF Young
    <2>7. d = e
      <3> HIDE DEF w
      <3>1. /\ d.tables = e.tables /\ d.version = e.version /\ d.root = e.root /\ d.build = e.build
            /\ d.columns = e.columns /\ d.stored = e.stored
        BY <1>3, <1>4, <2>3
      <3>2. /\ d.added = e.added /\ d.column = e.column /\ d.prefixed = e.prefixed /\ d.moved = e.moved
            /\ d.typed = e.typed /\ d.hasColumn = e.hasColumn /\ d.hasTypes = e.hasTypes
            /\ d.rebuilt = e.rebuilt
        BY <2>3, <2>5, <2>6
      <3> QED BY <1>1, <2>2, <3>1, <3>2, SameParts
    <2> QED BY <1>8, <2>1, <2>7
  <1> QED BY <1>1, <1>7, <1>8, HasTables DEF Shape

LEMMA SetupMeaning ==
  ASSUME SetupInv
  PROVE  ReadyIsWhole
  <1>1. ASSUME NEW d, NEW lost, Shape(d, lost)
        PROVE  /\ d.version \in 0 .. Newest
               /\ d.tables => /\ d.root \in 0 .. 3 /\ d.build \in [{"object", "resource"} -> 0 .. 3]
                              /\ d.column \cup d.moved \cup d.typed \cup d.prefixed \subseteq Objects
                              /\ d.stored <= Attributes /\ d.columns <= Attributes
    <2>1. CASE d = Setup!NoFile
      BY <2>1, NoFileParts, NewestIsNat
    <2>2. CASE d \in Tabled
      <3>1. d.stored \in 0 .. Attributes /\ d.columns \in 0 .. Attributes
        BY <2>2 DEF Tabled
      <3>2. d.stored <= Attributes /\ d.columns <= Attributes
        BY <3>1
      <3> QED BY <2>2, <3>2 DEF Tabled, Builds
    <2> QED BY <1>1, <2>1, <2>2 DEF Shape, Aged, Young
  <1>2. Setup!SetupTypeOK
    BY <1>1, NewestIsNat, NoFileParts DEF SetupInv, Setup!SetupTypeOK
  <1>3. ASSUME place = "ready", ~harmed
        PROVE  \/ db = Setup!Whole(Setup!DBVERSION)
               \/ losses > 0 /\ db = [Setup!Whole(Setup!DBVERSION) EXCEPT !.moved = {}, !.typed = {}]
    BY <1>3, CompleteIsWhole, NewestIsNat DEF SetupInv, PlaceInv
  <1>4. Setup!StartSucceeds
    BY DEF SetupInv, PlaceInv, NothingLeft, Setup!StartSucceeds, Setup!IsEmpty, Setup!CanRestore
  <1> QED BY <1>2, <1>3, <1>4 DEF ReadyIsWhole, Setup!ReadyIsWhole
-----------------------------------------------------------------------------
(* The parts together.  Each step of MCNext is a step of the part.         *)

ServeInv == part = "serve" => IInv
MysqlInv == part = "mysql" => MyInv
PostgresInv == part = "postgres" => PgInv
StartInv ==
    /\ part = "start" => SetupInv
    /\ part # "start" => db = Setup!NoFile /\ backupFile = Setup!NoBackup /\ place = "down"
PartsInv == StartInv /\ ServeInv /\ MysqlInv /\ PostgresInv

LEMMA PartsInit == MCInit => PartsInv
  <1> SUFFICES ASSUME MCInit
               PROVE  PartsInv
    OBVIOUS
  <1>1. StartInv
    BY SetupInit DEF MCInit, Setup!Init, StartInv
  <1> QED BY <1>1, InitI, MyInit, PgInit DEF MCInit, PartsInv, ServeInv, MysqlInv, PostgresInv

LEMMA StartStep ==
  ASSUME StartInv, [MCNext]_<<part, vars, startVars, gone, owner, cuts, conn>>
  PROVE  StartInv'
  <1>1. UNCHANGED part
    BY DEF MCNext
  <1>2. CASE StartNext
    BY <1>1, <1>2, SetupStep DEF StartNext, StartInv
  <1>3. CASE UNCHANGED startVars
    BY <1>1, <1>3 DEF startVars, StartInv, SetupInv, PlaceInv, NothingLeft
  <1>4. CASE part = "mysql" /\ UNCHANGED <<db, backupFile, place>>
    BY <1>1, <1>4 DEF StartInv
  <1>5. StartNext \/ UNCHANGED startVars \/ (part = "mysql" /\ UNCHANGED <<db, backupFile, place>>)
    BY DEF MCNext
  <1> QED BY <1>2, <1>3, <1>4, <1>5

LEMMA PartsStep ==
  ASSUME PartsInv, [MCNext]_<<part, vars, startVars, gone, owner, cuts, conn>>
  PROVE  PartsInv'
  <1>1. UNCHANGED part /\ StartInv'
    BY StartStep DEF MCNext, PartsInv
  <1>2. CASE part = "serve"
    <2>1. [Next]_vars
      BY <1>2 DEF MCNext, StartNext
    <2> QED BY <1>1, <1>2, <2>1, StepI DEF PartsInv, ServeInv, MysqlInv, PostgresInv
  <1>3. CASE part = "mysql"
    <2>1. MyInv
      BY <1>3 DEF PartsInv, MysqlInv
    <2>2. CASE Mysql!Next
      <3>1. MyInv'
        BY <2>1, <2>2, MyStepT, MyStepK, MyStepTurn DEF MyInv
      <3> QED BY <1>1, <1>3, <3>1 DEF PartsInv, ServeInv, MysqlInv, PostgresInv
    <2>3. CASE UNCHANGED <<part, vars, startVars, gone, owner, cuts, conn>>
      <3>1. MyInv'
        BY <2>1, <2>3 DEF vars, startVars, MyInv, MyT, MyVals, MyCaller, MyProgs, MyKept, MyToldIn, MyTurn,
           MyHolds, MyEntries, MyBalanced, Mysql!TypeOK, Mysql!Calm
      <3> QED BY <1>1, <1>3, <3>1 DEF PartsInv, ServeInv, MysqlInv, PostgresInv
    <2> QED BY <1>3, <2>2, <2>3 DEF MCNext, StartNext
  <1>4. CASE part = "postgres"
    <2>1. PgInv
      BY <1>4 DEF PartsInv, PostgresInv
    <2>2. CASE Postgres!Next
      <3>1. PgInv'
        BY <2>1, <2>2, PgStepT, PgStepC, PgStepTurn, PgStepK DEF PgInv
      <3> QED BY <1>1, <1>4, <3>1 DEF PartsInv, ServeInv, MysqlInv, PostgresInv
    <2>3. CASE UNCHANGED <<part, vars, startVars, gone, owner, cuts, conn>>
      <3>1. PgInv'
        <4>1. UNCHANGED <<taskQueue, taskQueueOpen, tpc, use_transaction, shutdownFlag, inTransaction,
                          sqlMutex, conn, durable, pc, prog, reply, ops, exited, errors, broken,
                          told, acked>>
          BY <2>3 DEF vars
        <4>2. PgVals' /\ CallerInv'
          BY <2>1, <4>1 DEF PgInv, PgT, PgVals, Postgres!TypeOK, CallerInv, CallerOK
        <4>3. QueueInv'
          BY <2>1, <4>1 DEF PgInv, PgT, QueueInv, TaskOK, QueuedFor, Waits, Asked
        <4>4. PgCalmInv' /\ PgTurn'
          BY <2>1, <4>1 DEF PgInv, PgCalmInv, PgCalm, PgTurn, Owns, Done
        <4>5. ToldIn(durable)'
          BY <2>1, <4>1 DEF PgInv, ToldIn, ToldOf, Done, Write
        <4> QED BY <2>1, <4>1, <4>2, <4>3, <4>4, <4>5 DEF PgInv, PgT
      <3> QED BY <1>1, <1>4, <3>1 DEF PartsInv, ServeInv, MysqlInv, PostgresInv
    <2> QED BY <1>4, <2>2, <2>3 DEF MCNext, StartNext
  <1>5. CASE part \notin {"serve", "mysql", "postgres"}
    BY <1>1, <1>5 DEF PartsInv, ServeInv, MysqlInv, PostgresInv
  <1> QED BY <1>2, <1>3, <1>4, <1>5

(* The inductive invariant of each driver holds in every state.            *)
THEOREM DriversInvariant == MCSpec => []PartsInv
  <1>1. MCInit => PartsInv
    BY PartsInit
  <1>2. PartsInv /\ [MCNext]_<<part, vars, startVars, gone, owner, cuts, conn>> => PartsInv'
    BY PartsStep
  <1> QED BY <1>1, <1>2, PTL DEF MCSpec

(* What an operation with several statements writes becomes durable as a   *)
(* whole with SQLite, as long as no wait for the turn gave up and no       *)
(* statement failed, and with MySQL as long as nothing harmed the flag,    *)
(* even when statements fail and connections are lost; with PostgreSQL     *)
(* operations take turns, and no caller waits without its task in the queue*)
(* of a thread on its way to it.                                           *)
THEOREM OperationsApart == MCSpec => []OperationsAreApart
  <1>1. PartsInv => OperationsAreApart
    BY Meaning, MyMeaning, PgMeaning
       DEF PartsInv, ServeInv, MysqlInv, PostgresInv, OperationsAreApart
  <1> QED BY <1>1, DriversInvariant, PTL

(* What an operation was told to be written, and returned from, is kept: in*)
(* the file, or in the transaction that is open; see AckedKeptIfPlain,     *)
(* Mysql!AckedKept and Postgres!AckedKept for when each promises it.       *)
THEOREM AckedStays == MCSpec => []AckedIsKept
  <1>1. PartsInv => AckedIsKept
    BY Meaning, MyMeaning, PgMeaning
       DEF PartsInv, ServeInv, MysqlInv, PostgresInv, AckedIsKept
  <1> QED BY <1>1, DriversInvariant, PTL

(* Whenever SQLite is not marked dirty, its backup holds all that is in the*)
(* database.                                                               *)
THEOREM BackupIsKept == MCSpec => []BackupIsCurrent
  <1>1. PartsInv => BackupIsCurrent
    BY Meaning DEF PartsInv, ServeInv, BackupIsCurrent
  <1> QED BY <1>1, DriversInvariant, PTL

(* A server that is ready has a database of its version, with all its      *)
(* tables, its first objects and all that was in the database before,      *)
(* however often a start died in between, outside the places that leave    *)
(* what cannot be done twice (Fragile), and whatever the upgrades consist  *)
(* of; and a start fails only where the option on-error asks for it when   *)
(* there is no database, and where neither the file nor the backup that is *)
(* there has tables (prepareDatabase, upgradeDatabase, SLBackupTask).      *)
THEOREM StartIsWhole == MCSpec => []ReadyIsWhole
  <1>1. PartsInv => ReadyIsWhole
    <2>1. CASE part = "start"
      BY <2>1, SetupMeaning DEF PartsInv, StartInv
    <2>2. CASE part # "start"
      BY <2>2, NoFileParts, NewestIsNat
         DEF PartsInv, StartInv, ReadyIsWhole, Setup!ReadyIsWhole, Setup!SetupTypeOK, Setup!StartSucceeds
    <2> QED BY <2>1, <2>2
  <1> QED BY <1>1, DriversInvariant, PTL
=============================================================================
