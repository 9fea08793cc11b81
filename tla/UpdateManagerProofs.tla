------------------------- MODULE UpdateManagerProofs -------------------------
(***************************************************************************)
(* For every set of containers and callers and every value of the limits:  *)
(* no change reported to the update manager is dropped, and updates are    *)
(* moderated; and what MCUpdateManager checks of the sessions.             *)
(***************************************************************************)
EXTENDS MCUpdateManager, FiniteSetTheorems, TLAPS

(* The inductive invariant.  CacheInHash is what NoLostUpdate needs: a     *)
(* cache hit of containerChanged (or of the loop of containersChanged)     *)
(* inserts nothing, so the cached id must be in the hash already.  A new   *)
(* call overwrites the record of the finished one: it must be empty.       *)
IdleCallsEmpty == \A c \in Callers : ~call[c].active => call[c].rest = {}
IInv == TypeOK /\ CacheInHash /\ NoLostUpdate /\ IdleCallsEmpty

(* What the steps of threadProc may do to the hash: empty it together with *)
(* the cache and the ids that were unsent in it, or leave it alone.        *)
Drains ==
    /\ objectIDHash' = {} /\ lastContainerChanged' = INVALID_OBJECT_ID
    /\ unsent' = unsent \ objectIDHash
    /\ UNCHANGED call
Keeps ==
    /\ UNCHANGED <<objectIDHash, unsent, call>>
    /\ lastContainerChanged' \in {lastContainerChanged, INVALID_OBJECT_ID}

LEMMA NotifiedType == \A s \in ThreadStates : Notified(s) \in ThreadStates
  BY DEF Notified, ThreadStates

LEMMA InitIInv == Init => IInv
  <1> SUFFICES ASSUME Init PROVE IInv
    OBVIOUS
  <1>1. TypeOK
    BY DEF Init, TypeOK, Policies, FLUSH_SPEC, FLUSH_ASAP, ThreadStates, NoCall
  <1>2. CacheInHash /\ NoLostUpdate
    BY DEF Init, CacheInHash, NoLostUpdate
  <1>3. IdleCallsEmpty
    BY DEF Init, IdleCallsEmpty, NoCall
  <1> QED BY <1>1, <1>2, <1>3 DEF IInv

(* Draining or keeping the hash preserves the two relations.               *)
LEMMA DrainOrKeep ==
  ASSUME CacheInHash, NoLostUpdate, IdleCallsEmpty, Drains \/ Keeps
  PROVE  CacheInHash' /\ NoLostUpdate' /\ IdleCallsEmpty'
  BY DEF Drains, Keeps, CacheInHash, NoLostUpdate, IdleCallsEmpty

(* What Insert does, whichever of its branches is taken: the ids that leave*)
(* the call enter the hash, unless the cache says they are there.          *)
LEMMA InsertEffect ==
  ASSUME TypeOK, NEW c \in Callers, NEW ids \in SUBSET ObjectIDs,
         NEW signal \in BOOLEAN, NEW split \in BOOLEAN,
         Insert(c, ids, signal, split)
  PROVE  /\ objectIDHash' \in SUBSET ObjectIDs
         /\ objectIDHash \subseteq objectIDHash'
         /\ pc' \in ThreadStates
         /\ call' \in [Callers -> [active : BOOLEAN, rest : SUBSET ObjectIDs,
                                   signal : BOOLEAN]]
         /\ \A d \in Callers \ {c} : call'[d] = call[d]
         /\ call'[c].active \/ call'[c].rest = {}
         /\ ids \subseteq objectIDHash' \cup {lastContainerChanged} \cup call'[c].rest
  <1>1. CASE InsertAll(c, ids, signal)
    BY <1>1, NotifiedType DEF InsertAll, TypeOK, NotifyIf, NoCall
  <1>2. CASE InsertUntilFull(c, ids, signal)
    <2>1. PICK some \in SUBSET (ids \ {lastContainerChanged}), last \in ids :
            /\ objectIDHash' = objectIDHash \cup some \cup {last}
            /\ pc' = Notified(pc)
            /\ call' = [call EXCEPT ![c] = Call(ids \ (some \cup {last}), signal)]
      BY <1>2 DEF InsertUntilFull
    <2> QED BY <2>1, NotifiedType DEF TypeOK, Call
  <1>3. CASE InsertIntoOverfull(c, ids, signal)
    <2>1. PICK last \in ids :
            /\ objectIDHash' = objectIDHash \cup {last}
            /\ pc' = Notified(pc)
            /\ call' = [call EXCEPT ![c] = Call(ids \ {last}, signal)]
      BY <1>3 DEF InsertIntoOverfull
    <2> QED BY <2>1, NotifiedType DEF TypeOK, Call
  <1> QED BY <1>1, <1>2, <1>3 DEF Insert

(* One step of the thread.                                                 *)
LEMMA ThreadStep ==
  ASSUME TypeOK, threadProc \/ spurious
  PROVE  TypeOK' /\ (Drains \/ Keeps)
  <1> USE DEF CacheAfterFlush, HashAfterFlush
  <1>1. ASSUME NEW s \in ThreadStates, goto(s) PROVE TypeOK' /\ Keeps
    BY <1>1 DEF goto, TypeOK, Keeps
  <1>2. CASE flush
    BY <1>2 DEF flush, TypeOK, Drains, Keeps, ThreadStates, Policies, FLUSH_SPEC, FLUSH_ASAP
  <1>3. CASE send
    BY <1>3 DEF send, TypeOK, Keeps, ThreadStates
  <1>4. CASE loop
    <2> {"done", "idle", "sleep"} \subseteq ThreadStates  BY DEF ThreadStates
    <2> QED BY <1>1, <1>2, <1>4 DEF loop
  <1>5. CASE woken
    <2> "loop" \in ThreadStates  BY DEF ThreadStates
    <2> QED BY <1>1, <1>2, <1>5 DEF woken
  <1>6. CASE timeout
    <2> "loop" \in ThreadStates  BY DEF ThreadStates
    <2> QED BY <1>1, <1>6 DEF timeout
  <1>7. CASE spurious
    <2> Notified(pc) \in ThreadStates  BY NotifiedType DEF TypeOK
    <2> QED BY <1>1, <1>7 DEF spurious
  <1> QED BY <1>3, <1>4, <1>5, <1>6, <1>7 DEF threadProc

LEMMA NextIInv == IInv /\ [Next]_vars => IInv'
  <1> SUFFICES ASSUME IInv, [Next]_vars PROVE IInv'
    OBVIOUS
  <1> USE DEF IInv
  <1>1. ASSUME NEW id \in ObjectIDs \cup {INVALID_OBJECT_ID}, NEW policy \in Policies,
               containerChanged(id, policy)
        PROVE  IInv'
    <2>1. TypeOK'
      BY <1>1, NotifiedType DEF containerChanged, ReportNeeded, TypeOK, NotifyIf
    <2>2. CacheInHash'
      BY <1>1 DEF containerChanged, CacheInHash
    <2>3. NoLostUpdate'
      <3>1. id \in objectIDHash' \/ id = INVALID_OBJECT_ID
        <4>1. CASE ReportNeeded(id, policy)
          BY <1>1, <4>1 DEF containerChanged
        <4>2. CASE ~ReportNeeded(id, policy)
          BY <1>1, <4>2 DEF containerChanged, ReportNeeded, CacheInHash
        <4> QED BY <4>1, <4>2
      <3> QED BY <1>1, <3>1 DEF containerChanged, NoLostUpdate
    <2>4. IdleCallsEmpty'
      BY <1>1 DEF containerChanged, IdleCallsEmpty
    <2> QED BY <2>1, <2>2, <2>3, <2>4
  <1>2. ASSUME NEW c \in Callers, NEW ids \in SUBSET ObjectIDs,
               NEW signal \in BOOLEAN, NEW split \in BOOLEAN,
               Insert(c, ids, signal, split),
               call[c].rest \subseteq ids,
               unsent' \in SUBSET (unsent \cup ids),
               flushPolicy' \in Policies,
               UNCHANGED <<lastContainerChanged, shutdownFlag, event, elapsed, killed>>
        PROVE  IInv'
    <2>0. TypeOK /\ Insert(c, ids, signal, split)
      BY <1>2
    <2>1. /\ objectIDHash' \in SUBSET ObjectIDs
          /\ objectIDHash \subseteq objectIDHash'
          /\ pc' \in ThreadStates
          /\ call' \in [Callers -> [active : BOOLEAN, rest : SUBSET ObjectIDs,
                                    signal : BOOLEAN]]
          /\ \A d \in Callers \ {c} : call'[d] = call[d]
          /\ call'[c].active \/ call'[c].rest = {}
          /\ ids \subseteq objectIDHash' \cup {lastContainerChanged} \cup call'[c].rest
      BY <2>0, InsertEffect
    <2>2. TypeOK'
      BY <1>2, <2>1 DEF TypeOK
    <2>3. CacheInHash' /\ IdleCallsEmpty'
      BY <1>2, <2>1 DEF CacheInHash, IdleCallsEmpty
    <2>4. ids \subseteq objectIDHash' \cup call'[c].rest
      BY <1>2, <2>1, InvalidAssumption DEF CacheInHash
    <2>5. NoLostUpdate'
      BY <1>2, <2>1, <2>4 DEF NoLostUpdate
    <2> QED BY <2>2, <2>3, <2>5
  <1>3. ASSUME NEW c \in Callers, NEW ids \in SUBSET ObjectIDs, NEW policy \in Policies,
               containersChanged(c, ids, policy)
        PROVE  IInv'
    <2> DEFINE sig == ~haveUpdates \/ policy > flushPolicy
               spl == Cardinality(objectIDHash) + Cardinality(ids)
                          >= MAX_OBJECT_IDS + MAX_OBJECT_IDS_OVERLOAD
    <2>1. /\ Insert(c, ids, sig, spl)
          /\ unsent' = unsent \cup ids
          /\ flushPolicy' \in Policies
          /\ UNCHANGED <<lastContainerChanged, shutdownFlag, event, elapsed, killed>>
          /\ call[c].rest = {}
      BY <1>3 DEF containersChanged, TypeOK, IdleCallsEmpty
    <2>2. sig \in BOOLEAN /\ spl \in BOOLEAN
      OBVIOUS
    <2> QED
      <3> HIDE DEF sig, spl
      <3> QED BY <1>2, <2>1, <2>2
  <1>4. ASSUME NEW c \in Callers, splitLoop(c) PROVE IInv'
    <2>1. CASE Overflows(objectIDHash)
      <3>1. Keeps /\ TypeOK'
        BY <1>4, <2>1, NotifiedType DEF splitLoop, Keeps, TypeOK
      <3> QED BY <3>1, DrainOrKeep
    <2>2. CASE ~Overflows(objectIDHash)
      <3>1. /\ call[c].rest \in SUBSET ObjectIDs
            /\ call[c].signal \in BOOLEAN
            /\ Insert(c, call[c].rest, call[c].signal, TRUE)
            /\ UNCHANGED <<lastContainerChanged, flushPolicy, shutdownFlag, event,
                           elapsed, killed, unsent>>
        BY <1>4, <2>2 DEF splitLoop, TypeOK
      <3> QED BY <1>2, <3>1 DEF TypeOK
    <2> QED BY <2>1, <2>2
  <1>5. ASSUME threadProc \/ spurious PROVE IInv'
    BY <1>5, ThreadStep, DrainOrKeep
  <1>6. ASSUME timePasses \/ shutdown \/ UNCHANGED vars PROVE IInv'
    <2>1. Keeps /\ TypeOK'
      BY <1>6, NotifiedType DEF timePasses, shutdown, vars, Keeps, TypeOK
    <2> QED BY <2>1, DrainOrKeep
  <1> QED BY <1>1, <1>3, <1>4, <1>5, <1>6 DEF Next

(* The variables have their types in every reachable state.                *)
THEOREM TypeCorrect == Spec => []TypeOK
  <1>1. IInv => TypeOK  BY DEF IInv
  <1> QED BY <1>1, InitIInv, NextIInv, PTL DEF Spec

(* The cache of containerChanged names no container that is not in the     *)
(* hash: every section that empties the hash forgets the cached id too.    *)
THEOREM CacheCorrect == Spec => []CacheInHash
  <1>1. IInv => CacheInHash  BY DEF IInv
  <1> QED BY <1>1, InitIInv, NextIInv, PTL DEF Spec

(* A container reported as changed is in an update, in the hash or in the  *)
(* rest of a call that is still running: the one-element cache, the flush  *)
(* and the calls interrupted half-way never drop an id.                    *)
THEOREM NothingLost == Spec => []NoLostUpdate
  <1>1. IInv => NoLostUpdate  BY DEF IInv
  <1> QED BY <1>1, InitIInv, NextIInv, PTL DEF Spec

-----------------------------------------------------------------------------
(* Moderation.  The thread sleeps only over updates, and is woken only with*)
(* a reason to send them at once; the reason stays until it does.          *)

DueNow == elapsed \/ Full(objectIDHash) \/ flushPolicy = FLUSH_ASAP
SleepsOverUpdates == pc \in {"sleep", "woken"} => haveUpdates
WokenWhenDue == pc = "woken" => shutdownFlag \/ DueNow
Quiet == \A c \in Callers : ~call[c].active
ModInv == SleepsOverUpdates /\ WokenWhenDue

LEMMA GrowsFuller ==
  ASSUME TypeOK, NEW hash \in SUBSET ObjectIDs, objectIDHash \subseteq hash
  PROVE  /\ Cardinality(objectIDHash) \in Nat /\ Cardinality(hash) \in Nat
         /\ Cardinality(objectIDHash) <= Cardinality(hash)
         /\ Full(objectIDHash) => Full(hash)
         /\ Overflows(hash) => Full(hash)
  <1>1. IsFiniteSet(hash) /\ IsFiniteSet(objectIDHash)
    BY ObjectAssumption, FS_Subset DEF TypeOK
  <1>2. /\ Cardinality(objectIDHash) \in Nat /\ Cardinality(hash) \in Nat
        /\ Cardinality(objectIDHash) <= Cardinality(hash)
    BY <1>1, FS_Subset, FS_CardinalityType
  <1> QED BY <1>2, LimitAssumption DEF Full, Overflows

LEMMA InitModInv == Init => ModInv
  BY DEF Init, ModInv, SleepsOverUpdates, WokenWhenDue

(* New ids do not end a reason to send; and who wakes the thread gives one.*)
LEMMA InsertModInv ==
  ASSUME TypeOK, ModInv, TypeOK', objectIDHash \subseteq objectIDHash',
         flushPolicy' >= flushPolicy, elapsed' = elapsed, shutdownFlag' = shutdownFlag,
         \/ pc' = pc
         \/ pc' = Notified(pc) /\ (~haveUpdates \/ Full(objectIDHash') \/ flushPolicy' > flushPolicy)
  PROVE  ModInv'
  <1>1. PICK hash : hash = objectIDHash'
    OBVIOUS
  <1>2. Full(objectIDHash) => Full(objectIDHash)'
    <2>1. hash \in SUBSET ObjectIDs /\ objectIDHash \subseteq hash
      BY <1>1 DEF TypeOK
    <2>2. Full(objectIDHash) => Full(hash)
      BY <2>1, GrowsFuller
    <2> QED BY <1>1, <2>2 DEF Full
  <1>3. haveUpdates => haveUpdates'
    BY DEF haveUpdates
  <1>4. DueNow => DueNow'
    BY <1>2 DEF DueNow, TypeOK, Policies, FLUSH_SPEC, FLUSH_ASAP
  <1>5. flushPolicy' > flushPolicy => DueNow'
    BY DEF DueNow, TypeOK, Policies, FLUSH_SPEC, FLUSH_ASAP
  <1>6. Full(objectIDHash') => DueNow'
    BY DEF DueNow, Full
  <1>7. CASE pc' = pc
    BY <1>3, <1>4, <1>7 DEF ModInv, SleepsOverUpdates, WokenWhenDue
  <1>8. CASE pc' = Notified(pc) /\ (~haveUpdates \/ Full(objectIDHash') \/ flushPolicy' > flushPolicy)
    BY <1>3, <1>4, <1>5, <1>6, <1>8 DEF ModInv, SleepsOverUpdates, WokenWhenDue, Notified
  <1> QED BY <1>7, <1>8

LEMMA NextModInv ==
  ASSUME ~SpuriousWakeups, TypeOK, TypeOK', ModInv, Quiet, Quiet', [Next]_vars
  PROVE  ModInv' /\ SendsOnlyWhenDue
  <1>1. ASSUME NEW id \in ObjectIDs \cup {INVALID_OBJECT_ID}, NEW policy \in Policies,
               containerChanged(id, policy)
        PROVE  ModInv' /\ SendsOnlyWhenDue
    <2>1. /\ objectIDHash \subseteq objectIDHash' /\ flushPolicy' >= flushPolicy
          /\ elapsed' = elapsed /\ shutdownFlag' = shutdownFlag
          /\ \/ pc' = pc
             \/ pc' = Notified(pc) /\ (~haveUpdates \/ Full(objectIDHash') \/ flushPolicy' > flushPolicy)
      BY <1>1 DEF containerChanged, NotifyIf, SignalNeeded, TypeOK, Policies, FLUSH_SPEC, FLUSH_ASAP
    <2>2. pc' = "send" => pc = "send"
      BY <2>1 DEF Notified
    <2> QED BY <2>1, <2>2, InsertModInv DEF SendsOnlyWhenDue
  <1>2. ASSUME NEW c \in Callers, NEW ids \in SUBSET ObjectIDs, NEW policy \in Policies,
               containersChanged(c, ids, policy)
        PROVE  ModInv' /\ SendsOnlyWhenDue
    <2> DEFINE signal == ~haveUpdates \/ policy > flushPolicy
    <2>1. InsertAll(c, ids, signal)
      <3>1. ~call'[c].active
        BY DEF Quiet
      <3>2. ASSUME NEW rest, call' = [call EXCEPT ![c] = Call(rest, signal)]
            PROVE  FALSE
        BY <3>1, <3>2 DEF Call, TypeOK
      <3>3. ~InsertUntilFull(c, ids, signal)
        BY <3>2 DEF InsertUntilFull
      <3>4. ~InsertIntoOverfull(c, ids, signal)
        BY <3>2 DEF InsertIntoOverfull
      <3> QED BY <1>2, <3>3, <3>4 DEF containersChanged, Insert
    <2>2. /\ objectIDHash \subseteq objectIDHash' /\ flushPolicy' >= flushPolicy
          /\ elapsed' = elapsed /\ shutdownFlag' = shutdownFlag
          /\ \/ pc' = pc
             \/ pc' = Notified(pc) /\ (~haveUpdates \/ Full(objectIDHash') \/ flushPolicy' > flushPolicy)
      BY <1>2, <2>1 DEF containersChanged, InsertAll, NotifyIf, TypeOK, Policies, FLUSH_SPEC, FLUSH_ASAP
    <2>3. pc' = "send" => pc = "send"
      BY <2>2 DEF Notified
    <2> QED BY <2>2, <2>3, InsertModInv DEF SendsOnlyWhenDue
  <1>3. ASSUME NEW c \in Callers, splitLoop(c)
        PROVE  FALSE
    BY <1>3 DEF splitLoop, Quiet
  <1>4. CASE loop
    <2>1. CASE goto("done") \/ goto("idle")
      BY <2>1 DEF goto, ModInv, SleepsOverUpdates, WokenWhenDue, SendsOnlyWhenDue
    <2>2. CASE haveUpdates /\ goto("sleep")
      BY <2>2 DEF goto, ModInv, SleepsOverUpdates, WokenWhenDue, SendsOnlyWhenDue, haveUpdates
    <2>3. CASE ~MustSleep /\ flush
      BY <2>3 DEF flush, MustSleep, ModInv, SleepsOverUpdates, WokenWhenDue, SendsOnlyWhenDue, TypeOK,
         Policies, FLUSH_SPEC, FLUSH_ASAP
    <2> QED BY <1>4, <2>1, <2>2, <2>3 DEF loop
  <1>5. CASE woken
    <2>1. CASE goto("loop")
      BY <2>1 DEF goto, ModInv, SleepsOverUpdates, WokenWhenDue, SendsOnlyWhenDue
    <2>2. CASE ~shutdownFlag /\ flush
      BY <1>5, <2>2 DEF woken, flush, ModInv, SleepsOverUpdates, WokenWhenDue, DueNow, SendsOnlyWhenDue
    <2> QED BY <1>5, <2>1, <2>2 DEF woken
  <1>6. CASE timeout \/ send
    BY <1>6 DEF timeout, send, goto, ModInv, SleepsOverUpdates, WokenWhenDue, SendsOnlyWhenDue
  <1>7. CASE spurious
    BY <1>7 DEF spurious
  <1>8. CASE timePasses \/ UNCHANGED vars
    BY <1>8 DEF timePasses, vars, ModInv, SleepsOverUpdates, WokenWhenDue, DueNow, SendsOnlyWhenDue,
       haveUpdates, Full
  <1>9. CASE shutdown
    BY <1>9 DEF shutdown, Notified, ModInv, SleepsOverUpdates, WokenWhenDue, SendsOnlyWhenDue, haveUpdates
  <1> QED BY <1>1, <1>2, <1>3, <1>4, <1>5, <1>6, <1>7, <1>8, <1>9 DEF Next, threadProc

(* Updates leave the hash before specInterval has passed only because it is*)
(* full or an immediate flush was asked for, in every behaviour in which no*)
(* call is split: one that was split still holds the reason it had to wake *)
(* the thread when the updates it was about are long sent.                 *)
THEOREM ModeratedUnlessSplit ==
  ASSUME ~SpuriousWakeups
  PROVE  Spec /\ []Quiet => Moderated
  <1>1. IInv /\ ModInv /\ Quiet /\ Quiet' /\ [Next]_vars => (IInv /\ ModInv)' /\ [SendsOnlyWhenDue]_vars
    BY NextIInv, NextModInv DEF IInv
  <1> QED BY <1>1, InitIInv, InitModInv, PTL DEF Spec, Moderated
-----------------------------------------------------------------------------
(* The parts of MCUpdateManager.  PagesProofs is Pages with the lemmas of  *)
(* WebSessionsProofs.                                                      *)

PagesProofs == INSTANCE WebSessionsProofs WITH
    Elements <- {manager, autoscan}, Once <- {autoscan},
    Interval <- [e \in {manager, autoscan} |-> 1],
    SIDs <- {s1, s2}, IDs <- {i1}, Users <- {s1},
    MAX_UI_UPDATE_IDS <- 2, Timeout <- 1, accountsEnabled <- TRUE,
    shutdownFlag <- timerShutdown

LEMMA PagesInit == Pages!Init => PagesProofs!SInv
  <1>1. PagesProofs!SessionAssumption
    BY PagesAssumption DEF Pages!SessionAssumption, PagesProofs!SessionAssumption
  <1>2. Pages!Init <=> PagesProofs!Init
    BY DEF Pages!Init, PagesProofs!Init, Pages!TimerInit, PagesProofs!TimerInit
  <1> QED BY <1>1, <1>2, PagesProofs!InitSInv

LEMMA PagesNext == PagesProofs!SInv /\ [PagesProofs!Next]_(PagesProofs!vars) => PagesProofs!SInv'
  <1>1. PagesProofs!SessionAssumption
    BY PagesAssumption DEF Pages!SessionAssumption, PagesProofs!SessionAssumption
  <1> QED BY <1>1, PagesProofs!NextSInv

LEMMA SamePages == PagesProofs!Next <=> Pages!Next
  <1>1. PagesProofs!threadNotified <=> Pages!threadNotified
    BY DEF PagesProofs!threadNotified, Pages!threadNotified, PagesProofs!Notified, Pages!Notified
  <1>2. \A x : PagesProofs!addTimerSubscriber(x) <=> Pages!addTimerSubscriber(x)
    BY <1>1 DEF PagesProofs!addTimerSubscriber, Pages!addTimerSubscriber
  <1>3. \A x : PagesProofs!removeTimerSubscriber(x) <=> Pages!removeTimerSubscriber(x)
    BY <1>1 DEF PagesProofs!removeTimerSubscriber, Pages!removeTimerSubscriber
  <1>4. PagesProofs!setShutdownFlag <=> Pages!setShutdownFlag
    BY <1>1 DEF PagesProofs!setShutdownFlag, Pages!setShutdownFlag
  <1>5. PagesProofs!notifyAll <=> Pages!notifyAll
    BY <1>1 DEF PagesProofs!notifyAll, Pages!notifyAll
  <1>6. \A x : PagesProofs!call(x) <=> Pages!call(x)
    BY DEF PagesProofs!call, Pages!call
  <1>7. \A x : PagesProofs!goto(x) <=> Pages!goto(x)
    BY DEF PagesProofs!goto, Pages!goto
  <1>8. PagesProofs!triggerWait <=> Pages!triggerWait
    <2>1. PagesProofs!NextNotifyTime = Pages!NextNotifyTime
      BY DEF PagesProofs!NextNotifyTime, Pages!NextNotifyTime, PagesProofs!Min, Pages!Min
    <2>2. PagesProofs!loop <=> Pages!loop
      BY <1>7 DEF PagesProofs!loop, Pages!loop
    <2>3. PagesProofs!startWait <=> Pages!startWait
      BY <1>7 DEF PagesProofs!startWait, Pages!startWait
    <2>4. PagesProofs!test <=> Pages!test
      BY <1>7, <2>1 DEF PagesProofs!test, Pages!test
    <2>5. PagesProofs!startWaitFor <=> Pages!startWaitFor
      BY <1>7, <2>1 DEF PagesProofs!startWaitFor, Pages!startWaitFor
    <2>6. PagesProofs!timeout <=> Pages!timeout
      BY <1>7 DEF PagesProofs!timeout, Pages!timeout
    <2>7. PagesProofs!notify <=> Pages!notify
      BY <1>7 DEF PagesProofs!notify, Pages!notify, PagesProofs!Due, Pages!Due,
         PagesProofs!Dropped, Pages!Dropped, PagesProofs!Rearmed, Pages!Rearmed,
         PagesProofs!called, Pages!called
    <2>8. PagesProofs!called <=> Pages!called
      BY <1>7 DEF PagesProofs!called, Pages!called
    <2> QED BY <2>2, <2>3, <2>4, <2>5, <2>6, <2>7, <2>8 DEF PagesProofs!triggerWait,
       Pages!triggerWait
  <1>9. PagesProofs!timerTick <=> Pages!timerTick
    BY DEF PagesProofs!timerTick, Pages!timerTick, PagesProofs!Minus1, Pages!Minus1
  <1>10. PagesProofs!spurious <=> Pages!spurious
    BY <1>7 DEF PagesProofs!spurious, Pages!spurious
  <1>11. \A x : PagesProofs!checkTimer(x) <=> Pages!checkTimer(x)
    BY <1>2, <1>3 DEF PagesProofs!checkTimer, Pages!checkTimer, PagesProofs!timerVars,
       Pages!timerVars
  <1>12. \A x : PagesProofs!createSession(x) <=> Pages!createSession(x)
    BY <1>11 DEF PagesProofs!createSession, Pages!createSession, PagesProofs!MutexFree,
       Pages!MutexFree
  <1>13. \A x : PagesProofs!clearUpdateIDs(x) <=> Pages!clearUpdateIDs(x)
    BY DEF PagesProofs!clearUpdateIDs, Pages!clearUpdateIDs, PagesProofs!MutexFree,
       Pages!MutexFree, PagesProofs!timerVars, Pages!timerVars
  <1>14. \A x : PagesProofs!login(x) <=> Pages!login(x)
    BY DEF PagesProofs!login, Pages!login, PagesProofs!MutexFree, Pages!MutexFree,
       PagesProofs!timerVars, Pages!timerVars
  <1>15. \A x : PagesProofs!removeSession(x) <=> Pages!removeSession(x)
    BY <1>11 DEF PagesProofs!removeSession, Pages!removeSession, PagesProofs!MutexFree,
       Pages!MutexFree
  <1>16. \A x : PagesProofs!clearSwitched(x) <=> Pages!clearSwitched(x)
    BY DEF PagesProofs!clearSwitched, Pages!clearSwitched, PagesProofs!timerVars, Pages!timerVars
  <1>17. \A x : PagesProofs!checkRequest(x) <=> Pages!checkRequest(x)
    BY DEF PagesProofs!checkRequest, Pages!checkRequest, PagesProofs!MutexFree, Pages!MutexFree,
       PagesProofs!timerVars, Pages!timerVars
  <1>18. \A x : PagesProofs!hasUIUpdateIDs(x) <=> Pages!hasUIUpdateIDs(x)
    BY DEF PagesProofs!hasUIUpdateIDs, Pages!hasUIUpdateIDs, PagesProofs!timerVars, Pages!timerVars
  <1>19. \A x : PagesProofs!getUIUpdateIDs(x) <=> Pages!getUIUpdateIDs(x)
    BY DEF PagesProofs!getUIUpdateIDs, Pages!getUIUpdateIDs, PagesProofs!KeptIDs, Pages!KeptIDs,
       PagesProofs!timerVars, Pages!timerVars
  <1>20. \A x, y : PagesProofs!containerChangedUI(x, y) <=> Pages!containerChangedUI(x, y)
    <2>1. \A S : PagesProofs!Cardinality(S) = Pages!Cardinality(S)
      BY DEF PagesProofs!Cardinality, Pages!Cardinality
    <2>2. \A s, ids, one : PagesProofs!TooMany(s, ids, one) <=> Pages!TooMany(s, ids, one)
      BY <2>1 DEF PagesProofs!TooMany, Pages!TooMany
    <2> TAKE x, y
    <2> QED
      BY <2>1, <2>2 DEF PagesProofs!containerChangedUI, Pages!containerChangedUI,
         PagesProofs!MutexFree, Pages!MutexFree,
         PagesProofs!Switches, Pages!Switches, PagesProofs!timerVars, Pages!timerVars
  <1>21. PagesProofs!others <=> Pages!others
    BY <1>2, <1>3 DEF PagesProofs!others, Pages!others, PagesProofs!sessionVars, Pages!sessionVars
  <1>22. PagesProofs!timerThread <=> Pages!timerThread
    BY <1>6, <1>8 DEF PagesProofs!timerThread, Pages!timerThread, PagesProofs!timerNotify,
       Pages!timerNotify, PagesProofs!otherCalled, Pages!otherCalled, PagesProofs!MutexFree,
       Pages!MutexFree, PagesProofs!ExpiredAt, Pages!ExpiredAt, PagesProofs!sessionVars,
       Pages!sessionVars
  <1>23. PagesProofs!shutdown <=> Pages!shutdown
    BY <1>4, <1>5 DEF PagesProofs!shutdown, Pages!shutdown, PagesProofs!timerVars,
       Pages!timerVars, PagesProofs!sessionVars, Pages!sessionVars
  <1>24. PagesProofs!tick <=> Pages!tick
    BY <1>9 DEF PagesProofs!tick, Pages!tick
  <1> QED BY <1>10, <1>11, <1>12, <1>13, <1>14, <1>15, <1>16, <1>17, <1>18, <1>19, <1>20, <1>21,
     <1>22, <1>23, <1>24 DEF PagesProofs!Next, Pages!Next, PagesProofs!sessionVars,
     Pages!sessionVars

(* In every part: nothing a browser should know of is dropped, and no      *)
(* session is left without its timeout.                                    *)
THEOREM PagesForgetNothing == MCSpec => []NoChangeForgotten
  <1>1. MCInit => PagesProofs!SInv
    BY PagesInit DEF MCInit
  <1>2. ASSUME PagesProofs!SInv, [MCNext]_<<part, vars, pageVars>>
        PROVE  PagesProofs!SInv'
    <2>1. Pages!Next \/ UNCHANGED pageVars
      BY <1>2 DEF MCNext
    <2>2. UNCHANGED pageVars => UNCHANGED PagesProofs!vars
      BY DEF pageVars, PagesProofs!vars, PagesProofs!timerVars, PagesProofs!sessionVars
    <2> QED BY <1>2, <2>1, <2>2, SamePages, PagesNext
  <1>3. PagesProofs!SInv => NoChangeForgotten
    BY DEF PagesProofs!SInv, PagesProofs!NoChangeForgotten, NoChangeForgotten, Pages!NoChangeForgotten,
       PagesProofs!TypeOK, Pages!TypeOK, PagesProofs!TimerTypeOK, Pages!TimerTypeOK,
       PagesProofs!TimerStates, Pages!TimerStates, PagesProofs!ChangesKept, Pages!ChangesKept,
       PagesProofs!SessionsAreWatched, Pages!SessionsAreWatched
  <1> QED BY <1>1, <1>2, <1>3, PTL DEF MCSpec

(* With room for one id, every update fills the hash: the thread need not  *)
(* be asked whether it wakes for a reason.                                 *)
LEMMA TinyNext ==
  ASSUME TypeOK, SleepsOverUpdates, Tiny!Next
  PROVE  (TypeOK /\ SleepsOverUpdates)' /\ Tiny!SendsOnlyWhenDue
  <1>1. haveUpdates => Tiny!Full(objectIDHash)
    <2>1. IsFiniteSet(objectIDHash)
      BY ObjectAssumption, FS_Subset DEF TypeOK
    <2>2. objectIDHash # {} => Cardinality(objectIDHash) >= 1
      BY <2>1, FS_EmptySet, FS_CardinalityType
    <2>3. Tiny!Cardinality(objectIDHash) = Cardinality(objectIDHash)
      BY DEF Tiny!Cardinality, Cardinality
    <2> QED BY <2>2, <2>3 DEF haveUpdates, Tiny!Full
  <1>2. ASSUME TypeOK', objectIDHash \subseteq objectIDHash',
               pc' = pc \/ pc' = Tiny!Notified(pc) \/ pc' \in {"loop", "idle", "done"}
        PROVE  SleepsOverUpdates' /\ Tiny!SendsOnlyWhenDue
    BY <1>2 DEF SleepsOverUpdates, Tiny!SendsOnlyWhenDue, Tiny!Notified, haveUpdates
  <1>3. ASSUME NEW c \in Callers, NEW ids \in SUBSET ObjectIDs, NEW signal \in BOOLEAN, NEW split,
               Tiny!Insert(c, ids, signal, split), lastContainerChanged' = lastContainerChanged
        PROVE  /\ objectIDHash \subseteq objectIDHash' /\ objectIDHash' \in SUBSET ObjectIDs
               /\ pc' \in {pc, Tiny!Notified(pc)}
               /\ call' \in [Callers -> [active : BOOLEAN, rest : SUBSET ObjectIDs, signal : BOOLEAN]]
    <2>1. CASE Tiny!InsertAll(c, ids, signal)
      BY <2>1 DEF Tiny!InsertAll, Tiny!NotifyIf, Tiny!NoCall, TypeOK
    <2>2. CASE Tiny!InsertUntilFull(c, ids, signal)
      BY <2>2 DEF Tiny!InsertUntilFull, Tiny!Call, TypeOK
    <2>3. CASE Tiny!InsertIntoOverfull(c, ids, signal)
      BY <2>3 DEF Tiny!InsertIntoOverfull, Tiny!Call, TypeOK
    <2> QED BY <1>3, <2>1, <2>2, <2>3 DEF Tiny!Insert
  <1>4. Tiny!Notified(pc) \in ThreadStates
    BY DEF TypeOK, ThreadStates, Tiny!Notified
  <1>5. ASSUME NEW id \in ObjectIDs \cup {INVALID_OBJECT_ID}, NEW policy \in Tiny!Policies,
               Tiny!containerChanged(id, policy)
        PROVE  (TypeOK /\ SleepsOverUpdates)' /\ Tiny!SendsOnlyWhenDue
    <2>1. /\ objectIDHash \subseteq objectIDHash' /\ objectIDHash' \in SUBSET ObjectIDs
          /\ pc' \in {pc, Tiny!Notified(pc)}
      BY <1>5 DEF Tiny!containerChanged, Tiny!ReportNeeded, Tiny!NotifyIf, TypeOK
    <2>2. TypeOK'
      BY <1>4, <1>5, <2>1 DEF Tiny!containerChanged, Tiny!Policies, Tiny!FLUSH_SPEC, Tiny!FLUSH_ASAP, Policies, FLUSH_SPEC,
         FLUSH_ASAP, TypeOK
    <2> QED BY <1>2, <2>1, <2>2
  <1>6. ASSUME NEW c \in Callers, NEW ids \in SUBSET ObjectIDs, NEW policy \in Tiny!Policies,
               Tiny!containersChanged(c, ids, policy)
        PROVE  (TypeOK /\ SleepsOverUpdates)' /\ Tiny!SendsOnlyWhenDue
    <2>1. /\ objectIDHash \subseteq objectIDHash' /\ objectIDHash' \in SUBSET ObjectIDs
          /\ pc' \in {pc, Tiny!Notified(pc)}
          /\ call' \in [Callers -> [active : BOOLEAN, rest : SUBSET ObjectIDs, signal : BOOLEAN]]
      BY <1>3, <1>6 DEF Tiny!containersChanged
    <2>2. TypeOK'
      BY <1>4, <1>6, <2>1 DEF Tiny!containersChanged, Tiny!Policies, Tiny!FLUSH_SPEC, Tiny!FLUSH_ASAP, Policies, FLUSH_SPEC,
         FLUSH_ASAP, TypeOK
    <2> QED BY <1>2, <2>1, <2>2
  <1>7. ASSUME NEW c \in Callers, Tiny!splitLoop(c)
        PROVE  (TypeOK /\ SleepsOverUpdates)' /\ Tiny!SendsOnlyWhenDue
    <2>1. CASE Tiny!Insert(c, call[c].rest, call[c].signal, TRUE)
      <3>1. call[c].rest \in SUBSET ObjectIDs /\ call[c].signal \in BOOLEAN
        BY DEF TypeOK
      <3>2. /\ objectIDHash \subseteq objectIDHash' /\ objectIDHash' \in SUBSET ObjectIDs
            /\ pc' \in {pc, Tiny!Notified(pc)}
            /\ call' \in [Callers -> [active : BOOLEAN, rest : SUBSET ObjectIDs, signal : BOOLEAN]]
        BY <1>3, <1>7, <2>1, <3>1 DEF Tiny!splitLoop
      <3>3. TypeOK'
        BY <1>4, <1>7, <3>2 DEF Tiny!splitLoop, TypeOK
      <3> QED BY <1>2, <3>2, <3>3
    <2>2. CASE pc' = Tiny!Notified(pc) /\ UNCHANGED <<objectIDHash, call>>
      <3>1. TypeOK'
        BY <1>4, <1>7, <2>2 DEF Tiny!splitLoop, TypeOK
      <3> QED BY <1>2, <2>2, <3>1
    <2> QED BY <1>7, <2>1, <2>2 DEF Tiny!splitLoop
  <1>8. ASSUME Tiny!flush PROVE (TypeOK /\ SleepsOverUpdates)'
    <2>1. TypeOK'
      BY <1>8 DEF Tiny!flush, Tiny!CacheAfterFlush, Tiny!HashAfterFlush, Tiny!FLUSH_SPEC, Policies, FLUSH_SPEC, ThreadStates, TypeOK
    <2>2. pc' = "send"
      BY <1>8 DEF Tiny!flush
    <2> QED BY <2>1, <2>2 DEF SleepsOverUpdates
  <1>9. ASSUME NEW state \in ThreadStates \ {"send"}, Tiny!goto(state), state \in {"sleep", "woken"} => haveUpdates
        PROVE  (TypeOK /\ SleepsOverUpdates)' /\ Tiny!SendsOnlyWhenDue
    <2>1. TypeOK'
      BY <1>9 DEF Tiny!goto, TypeOK
    <2> QED BY <1>9, <2>1 DEF Tiny!goto, SleepsOverUpdates, Tiny!SendsOnlyWhenDue, haveUpdates
  <1>10. CASE Tiny!loop
    <2>1. CASE Tiny!flush /\ haveUpdates
      BY <1>1, <1>8, <2>1 DEF Tiny!SendsOnlyWhenDue
    <2>2. CASE Tiny!goto("done") \/ Tiny!goto("idle") \/ (Tiny!goto("sleep") /\ haveUpdates)
      BY <1>9, <2>2 DEF ThreadStates
    <2> QED BY <1>10, <2>1, <2>2 DEF Tiny!loop, Tiny!haveUpdates, haveUpdates
  <1>11. CASE Tiny!woken
    <2>1. CASE Tiny!flush /\ haveUpdates
      BY <1>1, <1>8, <2>1 DEF Tiny!SendsOnlyWhenDue
    <2>2. CASE Tiny!goto("loop")
      BY <1>9, <2>2 DEF ThreadStates
    <2> QED BY <1>11, <2>1, <2>2 DEF Tiny!woken, SleepsOverUpdates
  <1>12. CASE Tiny!timeout
    BY <1>9, <1>12 DEF Tiny!timeout, ThreadStates
  <1>13. CASE Tiny!send
    <2>1. TypeOK'
      BY <1>13 DEF Tiny!send, TypeOK, ThreadStates
    <2> QED BY <1>13, <2>1 DEF Tiny!send, SleepsOverUpdates, Tiny!SendsOnlyWhenDue
  <1>14. CASE Tiny!spurious
    <2>1. /\ Tiny!Notified(pc) \in ThreadStates \ {"send"}
          /\ Tiny!Notified(pc) \in {"sleep", "woken"} => haveUpdates
      BY <1>14 DEF Tiny!spurious, Tiny!Notified, ThreadStates, SleepsOverUpdates
    <2> QED BY <1>9, <1>14, <2>1 DEF Tiny!spurious
  <1>15. CASE Tiny!timePasses
    <2>1. TypeOK'
      BY <1>15 DEF Tiny!timePasses, TypeOK
    <2> QED BY <1>2, <1>15, <2>1 DEF Tiny!timePasses
  <1>16. CASE Tiny!shutdown
    <2>1. TypeOK'
      BY <1>4, <1>16 DEF Tiny!shutdown, TypeOK
    <2> QED BY <1>2, <1>16, <2>1 DEF Tiny!shutdown
  <1> QED BY <1>5, <1>6, <1>7, <1>10, <1>11, <1>12, <1>13, <1>14, <1>15, <1>16 DEF Tiny!Next, Tiny!threadProc

(* In every part: moderation against the limits in force, as long as no    *)
(* call of the configured part is split.                                   *)
THEOREM EachPartModerates ==
  ASSUME ~SpuriousWakeups
  PROVE  MCSpec /\ [](part = "configured" => Quiet) => EachModerated
  <1> DEFINE Whole == /\ part = "configured" => IInv /\ ModInv
                      /\ part = "tiny" => TypeOK /\ SleepsOverUpdates
             Calm == part = "configured" => Quiet
             Sends == IF part = "configured" THEN SendsOnlyWhenDue ELSE Tiny!SendsOnlyWhenDue
  <1>1. MCInit => Whole
    BY InitIInv, InitModInv DEF MCInit, IInv, ModInv
  <1>2. ASSUME Whole, Calm, Calm', [MCNext]_<<part, vars, pageVars>>
        PROVE  Whole' /\ [Sends]_vars
    <2>1. CASE part = "configured" /\ Next
      <3>1. (IInv /\ ModInv)' /\ SendsOnlyWhenDue
        BY <1>2, <2>1, NextIInv, NextModInv DEF MCNext, IInv
      <3> QED BY <1>2, <2>1, <3>1 DEF MCNext
    <2>2. CASE part = "tiny" /\ Tiny!Next
      <3>1. (TypeOK /\ SleepsOverUpdates)' /\ Tiny!SendsOnlyWhenDue
        BY <1>2, <2>2, TinyNext
      <3> QED BY <1>2, <2>2, <3>1 DEF MCNext
    <2>3. CASE UNCHANGED vars
      BY <1>2, <2>3 DEF vars, MCNext, IInv, ModInv, TypeOK, CacheInHash, NoLostUpdate, IdleCallsEmpty,
         SleepsOverUpdates, WokenWhenDue, DueNow, haveUpdates, Full
    <2> QED BY <1>2, <2>1, <2>2, <2>3 DEF MCNext
  <1> QED BY <1>1, <1>2, PTL DEF MCSpec, EachModerated
=============================================================================
