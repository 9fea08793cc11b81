---------------------------- MODULE UpdateManager ----------------------------
(***************************************************************************)
(* content/update_manager.cc: collects the ids of the containers that      *)
(* changed and sends them to the subscribed control points, at most once   *)
(* per specInterval.                                                       *)
(*                                                                         *)
(* The code is one mutex, one condition variable, one thread (threadProc)  *)
(* and any number of callers.  Every action is one section of code that    *)
(* holds the mutex, from one release of it to the next.  Time is abstracted*)
(* to `elapsed`: whether specInterval has passed since lastUpdate.         *)
(***************************************************************************)
EXTENDS Naturals, FiniteSets

CONSTANTS
    ObjectIDs,              \* ids of containers
    INVALID_OBJECT_ID,      \* the value of an empty lastContainerChanged
    Callers,                \* threads that call containersChanged
    MAX_OBJECT_IDS,
    MAX_OBJECT_IDS_OVERLOAD,
    MaxReport,              \* bound: ids in one call of containersChanged
    SpuriousWakeups         \* whether a wait may return without a notify

ASSUME InvalidAssumption == INVALID_OBJECT_ID \notin ObjectIDs
ASSUME ObjectAssumption == IsFiniteSet(ObjectIDs)
ASSUME LimitAssumption ==
    /\ MAX_OBJECT_IDS \in Nat \ {0}
    /\ MAX_OBJECT_IDS_OVERLOAD \in Nat
    /\ MaxReport \in Nat
    /\ SpuriousWakeups \in BOOLEAN

FLUSH_SPEC == 1
FLUSH_ASAP == 2
Policies == {FLUSH_SPEC, FLUSH_ASAP}

VARIABLES
    objectIDHash,           \* ids to send
    lastContainerChanged,   \* one-element cache of containerChanged
    flushPolicy,
    shutdownFlag,
    pc,                     \* where threadProc is
    event,                  \* ids in the updateString being sent
    elapsed,                \* specInterval has passed since lastUpdate
    killed,                 \* kill(0, SIGINT) was called
    call,                   \* the call of containersChanged of each caller
    unsent                  \* auxiliary: ids reported, in no update yet

vars == <<objectIDHash, lastContainerChanged, flushPolicy, shutdownFlag, pc,
          event, elapsed, killed, call, unsent>>

(* loop: about to evaluate `while (!shutdownFlag)`; idle: in wait(lock);   *)
(* sleep: in waitFor(lock, sleepMillis); woken: waitFor was notified;      *)
(* send: the mutex is released, the event goes out.                        *)
ThreadStates == {"loop", "idle", "sleep", "woken", "send", "done"}

(* A caller of containersChanged that released the mutex "in between" still*)
(* has `rest` to insert and remembers `signal`.                            *)
NoCall == [active |-> FALSE, rest |-> {}, signal |-> FALSE]
Call(rest, signal) == [active |-> TRUE, rest |-> rest, signal |-> signal]

Init ==
    /\ objectIDHash = {}
    /\ lastContainerChanged = INVALID_OBJECT_ID
    /\ flushPolicy = FLUSH_SPEC
    /\ shutdownFlag = FALSE
    /\ pc = "loop"
    /\ event = {}
    /\ elapsed = FALSE
    /\ killed = FALSE
    /\ call = [c \in Callers |-> NoCall]
    /\ unsent = {}

haveUpdates == objectIDHash # {}
Full(hash) == Cardinality(hash) >= MAX_OBJECT_IDS

(* notify_one: the thread is the only one that ever waits.                 *)
Notified(state) == CASE state = "idle"  -> "loop"
                     [] state = "sleep" -> "woken"
                     [] OTHER           -> state
NotifyIf(signal) == pc' = IF signal THEN Notified(pc) ELSE pc

-----------------------------------------------------------------------------
(* containerChanged *)

(* INVALID_OBJECT_ID is what the database reports when nothing changed; an *)
(* id equal to lastContainerChanged is known to be in objectIDHash.        *)
ReportNeeded(id, policy) ==
    /\ id # INVALID_OBJECT_ID
    /\ id # lastContainerChanged \/ policy > flushPolicy

SignalsOnlyWhenFull(policy) ==                           \* mutant
    Full(objectIDHash') \/ policy > flushPolicy

SignalNeeded(policy) ==
    ~haveUpdates \/ Full(objectIDHash') \/ policy > flushPolicy

containerChanged(id, policy) ==
    /\ unsent' = unsent \cup ({id} \ {INVALID_OBJECT_ID})
    /\ IF ReportNeeded(id, policy)
       THEN /\ objectIDHash' = objectIDHash \cup {id}
            /\ lastContainerChanged' = id
            /\ flushPolicy' = IF policy > flushPolicy THEN policy ELSE flushPolicy
            /\ NotifyIf(SignalNeeded(policy))
       ELSE UNCHANGED <<objectIDHash, lastContainerChanged, flushPolicy, pc>>
    /\ UNCHANGED <<shutdownFlag, event, elapsed, killed, call>>

-----------------------------------------------------------------------------
(* containersChanged: the loop over the ids, which must wait for the thread*)
(* whenever a split call has filled the hash beyond MAX_OBJECT_IDS.        *)

(* The order of the ids is arbitrary, so the ids inserted before the hash  *)
(* overflows are any part of the call that makes it overflow by one.       *)
InsertAll(c, ids, signal) ==
    /\ objectIDHash' = objectIDHash \cup (ids \ {lastContainerChanged})
    /\ NotifyIf(signal \/ Full(objectIDHash'))
    /\ call' = [call EXCEPT ![c] = NoCall]

Overflows(hash) == Cardinality(hash) > MAX_OBJECT_IDS

InsertUntilFull(c, ids, signal) ==
    \E part \in SUBSET (ids \ {lastContainerChanged}), last \in ids :
        /\ last \notin part \cup {lastContainerChanged}
        /\ ~Overflows(objectIDHash \cup part)
        /\ objectIDHash' = objectIDHash \cup part \cup {last}
        /\ Overflows(objectIDHash')
        /\ pc' = Notified(pc)
        /\ call' = [call EXCEPT ![c] = Call(ids \ (part \cup {last}), signal)]

(* A hash that containerChanged had already overfilled: the first id that  *)
(* is inserted ends in the waiting loop.                                   *)
InsertIntoOverfull(c, ids, signal) ==
    \E last \in ids \ {lastContainerChanged} :
        /\ objectIDHash' = objectIDHash \cup {last}
        /\ pc' = Notified(pc)
        /\ call' = [call EXCEPT ![c] = Call(ids \ {last}, signal)]

Insert(c, ids, signal, split) ==
    IF split /\ Overflows(objectIDHash \cup (ids \ {lastContainerChanged}))
             /\ ids \ {lastContainerChanged} # {}
    THEN IF Overflows(objectIDHash) THEN InsertIntoOverfull(c, ids, signal)
                                    ELSE InsertUntilFull(c, ids, signal)
    ELSE InsertAll(c, ids, signal)

containersChanged(c, ids, policy) ==
    LET signal == ~haveUpdates \/ policy > flushPolicy
        split  == Cardinality(objectIDHash) + Cardinality(ids)
                      >= MAX_OBJECT_IDS + MAX_OBJECT_IDS_OVERLOAD
    IN  /\ ~call[c].active
        /\ Cardinality(ids) <= MaxReport
        /\ unsent' = unsent \cup ids
        /\ flushPolicy' = IF policy > flushPolicy THEN policy ELSE flushPolicy
        /\ Insert(c, ids, signal, split)
        /\ UNCHANGED <<lastContainerChanged, shutdownFlag, event, elapsed, killed>>

(* The inner while, one turn: notify, release and take the mutex again,    *)
(* and go on with the ids when the thread has emptied the hash.            *)
splitLoop(c) ==
    /\ call[c].active
    /\ IF Overflows(objectIDHash)
       THEN pc' = Notified(pc) /\ UNCHANGED <<objectIDHash, call>>
       ELSE Insert(c, call[c].rest, call[c].signal, TRUE)
    /\ UNCHANGED <<lastContainerChanged, flushPolicy, shutdownFlag, event,
                   elapsed, killed, unsent>>

-----------------------------------------------------------------------------
(* threadProc *)

FlushKeepsCache(cache) == cache         \* mutant
CacheAfterFlush(cache) == INVALID_OBJECT_ID

HashAfterFlush(hash) == {}

(* Send what was collected: increment the update ids in the database and   *)
(* keep those that still have a row as the event.                          *)
flush ==
    /\ lastContainerChanged' = CacheAfterFlush(lastContainerChanged)
    /\ flushPolicy' = FLUSH_SPEC
    /\ pc' = "send"
    /\ \/ /\ event' \in SUBSET objectIDHash
          /\ objectIDHash' = HashAfterFlush(objectIDHash)
          /\ unsent' = unsent \ objectIDHash
          /\ UNCHANGED killed
       \/ /\ event' = {}
          /\ killed' = TRUE
          /\ UNCHANGED <<objectIDHash, unsent>>
    /\ UNCHANGED <<shutdownFlag, elapsed, call>>

goto(state) ==
    /\ pc' = state
    /\ UNCHANGED <<objectIDHash, lastContainerChanged, flushPolicy, shutdownFlag,
                   event, elapsed, killed, call, unsent>>

SleepsWhenDue == flushPolicy = FLUSH_SPEC /\ elapsed /\ ~Full(objectIDHash)  \* mutant
MustSleep == flushPolicy = FLUSH_SPEC /\ ~elapsed /\ ~Full(objectIDHash)

loop ==
    /\ pc = "loop"
    /\ \/ shutdownFlag /\ goto("done")
       \/ ~shutdownFlag /\ ~haveUpdates /\ goto("idle")
       \/ ~shutdownFlag /\ haveUpdates /\ MustSleep /\ goto("sleep")
       \/ ~shutdownFlag /\ haveUpdates /\ ~MustSleep /\ flush

(* waitFor returned before its timeout.                                    *)
woken ==
    /\ pc = "woken"
    /\ IF shutdownFlag THEN goto("loop") ELSE flush

(* waitFor timed out: sendUpdates = false, and the loop starts again.      *)
timeout == pc = "sleep" /\ elapsed /\ goto("loop")

spurious == SpuriousWakeups /\ pc \in {"idle", "sleep"} /\ goto(Notified(pc))

(* sendSubscriptionUpdate, without the mutex.                              *)
send ==
    /\ pc = "send"
    /\ pc' = "loop"
    /\ event' = {}
    /\ IF event = {}
       THEN UNCHANGED <<elapsed, killed>>
       ELSE \/ elapsed' = FALSE /\ UNCHANGED killed
            \/ killed' = TRUE /\ UNCHANGED elapsed
    /\ UNCHANGED <<objectIDHash, lastContainerChanged, flushPolicy, shutdownFlag,
                   call, unsent>>

timePasses ==
    /\ ~elapsed
    /\ elapsed' = TRUE
    /\ UNCHANGED <<objectIDHash, lastContainerChanged, flushPolicy, shutdownFlag,
                   pc, event, killed, call, unsent>>

shutdown ==
    /\ ~shutdownFlag
    /\ shutdownFlag' = TRUE
    /\ pc' = Notified(pc)
    /\ UNCHANGED <<objectIDHash, lastContainerChanged, flushPolicy, event,
                   elapsed, killed, call, unsent>>

threadProc == loop \/ woken \/ timeout \/ send

Next ==
    \/ \E id \in ObjectIDs \cup {INVALID_OBJECT_ID}, policy \in Policies :
           containerChanged(id, policy)
    \/ \E c \in Callers, ids \in SUBSET ObjectIDs, policy \in Policies :
           containersChanged(c, ids, policy)
    \/ \E c \in Callers : splitLoop(c)
    \/ threadProc
    \/ spurious
    \/ timePasses
    \/ shutdown

(* The thread and the callers are scheduled, clocks advance, and SIGINT    *)
(* ends in shutdown.  A caller in the inner while takes the mutex at some  *)
(* point when the hash is small: the others do not refill it in each of    *)
(* the moments in which this caller has not got the mutex.                 *)
Fairness ==
    /\ WF_vars(threadProc)
    /\ WF_vars(timePasses)
    /\ WF_vars(killed /\ shutdown)
    /\ \A c \in Callers : /\ WF_vars(splitLoop(c))
                          /\ SF_vars(splitLoop(c) /\ ~Overflows(objectIDHash))

Spec == Init /\ [][Next]_vars /\ Fairness

-----------------------------------------------------------------------------
(* Properties *)

(* Every variable has its type.                                            *)
TypeOK ==
    /\ objectIDHash \in SUBSET ObjectIDs
    /\ lastContainerChanged \in ObjectIDs \cup {INVALID_OBJECT_ID}
    /\ flushPolicy \in Policies
    /\ shutdownFlag \in BOOLEAN
    /\ pc \in ThreadStates
    /\ event \in SUBSET ObjectIDs
    /\ elapsed \in BOOLEAN
    /\ killed \in BOOLEAN
    /\ call \in [Callers -> [active : BOOLEAN, rest : SUBSET ObjectIDs,
                             signal : BOOLEAN]]
    /\ unsent \in SUBSET ObjectIDs

(* No reported change is dropped: an id that was reported and is in no     *)
(* update yet is in the hash or still to be inserted by a running call.    *)
(* The cache check of containerChanged and the reset of the cache in       *)
(* threadProc must agree for this.                                         *)
NoLostUpdate ==
    unsent \subseteq objectIDHash \cup UNION {call[c].rest : c \in Callers}

(* The cache only ever names an id that waits in the hash.                 *)
CacheInHash ==
    lastContainerChanged # INVALID_OBJECT_ID => lastContainerChanged \in objectIDHash

(* update_manager.cc:92 says that the thread is signalled "if it could have*)
(* been idle, because there were no unprocessed updates": the thread never *)
(* sits in wait() over a non-empty hash.                                   *)
IdleMeansNoUpdates == pc = "idle" => objectIDHash = {}

(* Moderation: updates leave the hash before specInterval has passed only  *)
(* because the hash is full or an immediate flush was asked for.           *)
SendsOnlyWhenDue ==
    pc # "send" /\ pc' = "send" => elapsed \/ Full(objectIDHash) \/ flushPolicy = FLUSH_ASAP

Moderated == [][SendsOnlyWhenDue]_vars

(* Every reported change reaches an update, unless the server stops.       *)
EveryChangeSent ==
    \A id \in ObjectIDs : id \in unsent ~> (id \notin unsent \/ shutdownFlag)

(* A call that waits for the thread to empty the hash returns, unless the  *)
(* server stops.                                                           *)
SplitCallReturns ==
    \A c \in Callers : call[c].active ~> (~call[c].active \/ shutdownFlag)

=============================================================================
