-------------------------- MODULE WebSessionsProofs ----------------------------
(***************************************************************************)
(* No change of a container is forgotten for a browser, and no session is  *)
(* left without its timeout, for any number of sessions, containers and    *)
(* subscribers of the timer, any limit of ids and any timeouts.            *)
(***************************************************************************)
EXTENDS WebSessions, NaturalsInduction, WellFoundedInduction, TLAPS

(* A session that is being switched to "all" is not answered before its ids*)
(* are cleared.                                                            *)
SwitchingIsAll == \A s \in switching : updateAll[s]
SInv == NoChangeForgotten /\ SwitchingIsAll

-----------------------------------------------------------------------------
(* The timer.                                                              *)

LEMMA MinOfNaturals ==
  ASSUME NEW S \in SUBSET Nat, S # {}
  PROVE  Min(S) \in S
  <1>1. IsWellFoundedOn(OpToRel(<, Nat), Nat)
    BY NatLessThanWellFounded
  <1>2. PICK n \in S : \A m \in S : ~ (<<m, n>> \in OpToRel(<, Nat))
    BY <1>1, WFMin
  <1>3. ASSUME NEW m \in S PROVE n <= m
    <2>1. OpToRel(<, Nat) = {p \in Nat \X Nat : p[1] < p[2]}
      BY Zenon DEF OpToRel
    <2>2. <<m, n>> \notin {p \in Nat \X Nat : p[1] < p[2]}
      BY <1>2, <2>1, Zenon
    <2> QED BY <2>2
  <1> QED BY <1>3 DEF Min

LEMMA NextNotifyTimeType ==
  ASSUME TimerTypeOK
  PROVE  NextNotifyTime \in Nat
  <1>1. CASE subscribers = {}
    BY <1>1 DEF NextNotifyTime
  <1>2. CASE subscribers # {}
    <2> DEFINE times == {left[s] : s \in subscribers}
    <2>1. times \in SUBSET Nat /\ times # {}
      BY <1>2 DEF TimerTypeOK
    <2>2. Min(times) \in Nat
      BY <2>1, MinOfNaturals
    <2> QED BY <1>2, <2>2 DEF NextNotifyTime
  <1> QED BY <1>1, <1>2

LEMMA NotifiedType == ASSUME TimerTypeOK, threadNotified
                      PROVE  tpc' \in TimerStates /\ lost' \in BOOLEAN
  BY DEF TimerTypeOK, threadNotified, Notified, TimerStates

LEMMA addTimerSubscriberType ==
  ASSUME SessionAssumption, TimerTypeOK, NEW e \in Elements, addTimerSubscriber(e)
  PROVE  TimerTypeOK' /\ subscribers' = subscribers \cup {e}
  BY NotifiedType DEF SessionAssumption, TimerTypeOK, addTimerSubscriber

LEMMA removeTimerSubscriberType ==
  ASSUME TimerTypeOK, NEW e \in Elements, removeTimerSubscriber(e)
  PROVE  TimerTypeOK' /\ subscribers' = subscribers \ {e}
  BY NotifiedType DEF TimerTypeOK, removeTimerSubscriber

LEMMA callType ==
  ASSUME TimerTypeOK, NEW e \in Elements, call(e)
  PROVE  TimerTypeOK' /\ subscribers' = subscribers
  BY DEF TimerTypeOK, call

(* The thread gives up only subscriptions for one notification.            *)
LEMMA triggerWaitType ==
  ASSUME SessionAssumption, TimerTypeOK, triggerWait
  PROVE  TimerTypeOK' /\ subscribers \ Once \subseteq subscribers' /\ subscribers' \subseteq subscribers
  <1> USE DEF TimerTypeOK, TimerStates
  <1>1. CASE loop \/ startWait \/ startWaitFor \/ timeout \/ called
    BY <1>1 DEF loop, startWait, startWaitFor, timeout, called, goto
  <1>2. CASE test
    BY <1>2, NextNotifyTimeType DEF test
  <1>3. CASE notify
    <2>1. PICK due \in SUBSET subscribers :
             /\ toNotify' = due
             /\ subscribers' = subscribers \ Dropped(due)
             /\ left' = Rearmed(due)
      BY <1>3 DEF notify
    <2>2. left' \in [Elements -> Nat]
      BY <2>1 DEF Rearmed, SessionAssumption
    <2> QED BY <1>3, <2>1, <2>2 DEF notify, Dropped
  <1> QED BY <1>1, <1>2, <1>3 DEF triggerWait

LEMMA otherTimerTypes ==
  ASSUME TimerTypeOK, spurious \/ timerTick \/ setShutdownFlag \/ notifyAll
  PROVE  TimerTypeOK' /\ subscribers' = subscribers
  <1>1. CASE spurious \/ setShutdownFlag
    BY <1>1 DEF spurious, setShutdownFlag, TimerTypeOK, TimerStates
  <1>2. CASE timerTick
    BY <1>2 DEF timerTick, TimerTypeOK, Minus1
  <1>3. CASE notifyAll
    BY <1>3, NotifiedType DEF notifyAll, TimerTypeOK
  <1> QED BY <1>1, <1>2, <1>3

(* checkTimer subscribes the manager or ends its subscription, and never   *)
(* meets a subscription it does not expect.                                *)
LEMMA checkTimerEffect ==
  ASSUME SessionAssumption, TypeOK, SessionsAreWatched, NEW open, checkTimer(open)
  PROVE  /\ TimerTypeOK' /\ timerAdded' \in BOOLEAN
         /\ timerAdded' <=> manager \in subscribers'
         /\ open # {} => timerAdded'
  <1> USE DEF TypeOK, SessionsAreWatched, SessionAssumption
  <1>1. CASE open # {} /\ ~timerAdded
    BY <1>1, addTimerSubscriberType, ZenonT(30) DEF checkTimer
  <1>2. CASE open = {} /\ timerAdded
    BY <1>2, removeTimerSubscriberType DEF checkTimer
  <1>3. CASE ~(open # {} /\ ~timerAdded) /\ ~(open = {} /\ timerAdded)
    BY <1>3 DEF checkTimer, timerVars, TimerTypeOK
  <1> QED BY <1>1, <1>2, <1>3

-----------------------------------------------------------------------------
(* The sessions.                                                           *)

LEMMA InitSInv == ASSUME SessionAssumption PROVE Init => SInv
  <1> SUFFICES ASSUME Init PROVE SInv
    OBVIOUS
  <1>1. TimerTypeOK
    BY DEF Init, TimerInit, TimerTypeOK, TimerStates, SessionAssumption
  <1>2. TypeOK
    <2>1. age \in [SIDs -> 0 .. Timeout + 1]
      <3>1. 0 \in 0 .. Timeout + 1
        BY DEF SessionAssumption
      <3> QED BY <3>1 DEF Init
    <2>2. /\ poll \in [SIDs -> {"none", "notAll", "has"}]
          /\ shutdownAt \in {"running", "flag", "join", "ended"}
      BY DEF Init
    <2> QED BY <1>1, <2>1, <2>2 DEF Init, TypeOK
  <1>3. ChangesKept /\ SessionsAreWatched /\ SwitchingIsAll
    BY DEF Init, TimerInit, ChangesKept, SessionsAreWatched, SwitchingIsAll
  <1> QED BY <1>2, <1>3 DEF SInv, NoChangeForgotten

(* What becomes of a session in a call of a browser.                       *)
LEMMA BrowserStep ==
  ASSUME SessionAssumption, SInv, NEW s \in SIDs,
         \/ createSession(s) \/ clearUpdateIDs(s) \/ login(s) \/ removeSession(s)
         \/ clearSwitched(s) \/ checkRequest(s) \/ hasUIUpdateIDs(s) \/ getUIUpdateIDs(s)
  PROVE  SInv'
  <1> USE DEF SInv, NoChangeForgotten
  <1>1. CASE createSession(s)
    <2>1. /\ TimerTypeOK' /\ timerAdded' \in BOOLEAN
          /\ timerAdded' <=> manager \in subscribers'
          /\ sessions' # {} => timerAdded'
      BY <1>1, checkTimerEffect DEF createSession
    <2>2. TypeOK'
      BY <1>1, <2>1 DEF createSession, TypeOK, SessionAssumption
    <2>3. ChangesKept' /\ SwitchingIsAll'
      BY <1>1 DEF createSession, ChangesKept, SwitchingIsAll, MutexFree, TypeOK
    <2> QED BY <2>1, <2>2, <2>3 DEF SessionsAreWatched
  <1>2. CASE removeSession(s)
    <2>1. /\ TimerTypeOK' /\ timerAdded' \in BOOLEAN
          /\ timerAdded' <=> manager \in subscribers'
          /\ sessions' # {} => timerAdded'
      BY <1>2, checkTimerEffect DEF removeSession
    <2>2. TypeOK'
      BY <1>2, <2>1 DEF removeSession, TypeOK, SessionAssumption
    <2>3. ChangesKept' /\ SwitchingIsAll'
      BY <1>2 DEF removeSession, ChangesKept, SwitchingIsAll, MutexFree, TypeOK
    <2> QED BY <2>1, <2>2, <2>3 DEF SessionsAreWatched
  <1>3. CASE \/ clearUpdateIDs(s) \/ login(s) \/ clearSwitched(s) \/ checkRequest(s)
             \/ hasUIUpdateIDs(s) \/ getUIUpdateIDs(s)
    <2>1. UNCHANGED <<timerVars, sessions, timerAdded, shutdownAt>>
      BY <1>3 DEF clearUpdateIDs, login, clearSwitched, checkRequest, hasUIUpdateIDs,
                  getUIUpdateIDs
    <2>2. TimerTypeOK' /\ SessionsAreWatched'
      BY <2>1 DEF timerVars, TypeOK, TimerTypeOK, SessionsAreWatched
    <2>3. TypeOK'
      <3>a. 0 \in 0 .. Timeout + 1
        BY DEF SessionAssumption
      <3>1. CASE clearUpdateIDs(s) \/ login(s)
        <4>1. loggedIn' \in [SIDs -> BOOLEAN] /\ age' \in [SIDs -> 0 .. Timeout + 1]
          <5>1. CASE clearUpdateIDs(s)
            BY <5>1 DEF clearUpdateIDs, TypeOK
          <5>2. CASE login(s)
            BY <3>a, <5>2 DEF login, TypeOK
          <5> QED BY <3>1, <5>1, <5>2
        <4> QED BY <2>1, <2>2, <3>1, <4>1 DEF clearUpdateIDs, login, TypeOK
      <3>2. CASE clearSwitched(s) \/ checkRequest(s) \/ hasUIUpdateIDs(s)
        BY <2>1, <2>2, <3>2 DEF clearSwitched, checkRequest, hasUIUpdateIDs, TypeOK,
                                SessionAssumption
      <3>3. CASE getUIUpdateIDs(s)
        BY <2>1, <2>2, <3>3 DEF getUIUpdateIDs, KeptIDs, TypeOK
      <3> QED BY <1>3, <3>1, <3>2, <3>3
    <2>4. ChangesKept' /\ SwitchingIsAll'
      <3>1. CASE clearUpdateIDs(s) \/ login(s) \/ checkRequest(s) \/ hasUIUpdateIDs(s)
        BY <3>1 DEF clearUpdateIDs, login, checkRequest, hasUIUpdateIDs, ChangesKept,
                    SwitchingIsAll, MutexFree, TypeOK
      <3>2. CASE clearSwitched(s)
        BY <3>2 DEF clearSwitched, ChangesKept, SwitchingIsAll, TypeOK
      <3>3. CASE getUIUpdateIDs(s)
        BY <3>3 DEF getUIUpdateIDs, KeptIDs, ChangesKept, SwitchingIsAll, TypeOK
      <3> QED BY <1>3, <3>1, <3>2, <3>3
    <2> QED BY <2>2, <2>3, <2>4
  <1> QED BY <1>1, <1>2, <1>3

(* A session that is told of a change takes it as an id, or as "all".      *)
LEMMA ChangeStep ==
  ASSUME SInv, NEW ids \in SUBSET IDs, NEW one \in BOOLEAN, containerChangedUI(ids, one)
  PROVE  SInv'
  <1> USE DEF SInv, NoChangeForgotten
  <1>1. PICK told, full :
           /\ told = {s \in sessions : loggedIn[s]}
           /\ full \subseteq told
           /\ updateAll' = [s \in SIDs |-> IF s \in full THEN TRUE ELSE updateAll[s]]
           /\ uiUpdateIDs' = [s \in SIDs |-> IF s \in told /\ ~updateAll[s] /\ s \notin full
                                             THEN uiUpdateIDs[s] \cup ids ELSE uiUpdateIDs[s]]
           /\ switching' = full
           /\ unseen' = [s \in SIDs |-> IF s \in told THEN unseen[s] \cup ids ELSE unseen[s]]
    <2> DEFINE told == {s \in sessions : loggedIn[s]}
               full == {s \in told : ~updateAll[s] /\ TooMany(s, ids, one)}
    <2>1. /\ updateAll' = [s \in SIDs |-> IF s \in full THEN TRUE ELSE updateAll[s]]
          /\ uiUpdateIDs' = [s \in SIDs |-> IF s \in told /\ ~updateAll[s] /\ s \notin full
                                            THEN uiUpdateIDs[s] \cup ids ELSE uiUpdateIDs[s]]
          /\ switching' = full
          /\ unseen' = [s \in SIDs |-> IF s \in told THEN unseen[s] \cup ids ELSE unseen[s]]
      BY DEF containerChangedUI, Switches
    <2> QED BY <2>1
  <1>2. UNCHANGED <<timerVars, sessions, timerAdded, loggedIn, age, poll, shutdownAt>>
    BY DEF containerChangedUI
  <1>3. TimerTypeOK' /\ SessionsAreWatched'
    BY <1>2 DEF timerVars, TypeOK, TimerTypeOK, SessionsAreWatched
  <1>4. TypeOK'
    BY <1>1, <1>2, <1>3 DEF TypeOK
  <1>5. ChangesKept' /\ SwitchingIsAll'
    BY <1>1, <1>2 DEF ChangesKept, SwitchingIsAll, TypeOK
  <1> QED BY <1>3, <1>4, <1>5

(* The timer thread, other subscribers, shutdown and time.                 *)
LEMMA TimerStep ==
  ASSUME SessionAssumption, SInv,
         \/ timerThread \/ others \/ shutdown \/ tick
         \/ spurious /\ UNCHANGED <<sessionVars, shutdownAt>>
  PROVE  SInv'
  <1> USE DEF SInv, NoChangeForgotten, SessionAssumption
  <1>a. TimerTypeOK
    BY DEF TypeOK
  <1>1. ASSUME UNCHANGED sessionVars, TimerTypeOK', shutdownAt' \in {"running", "flag", "join", "ended"},
               manager \in subscribers' <=> manager \in subscribers
        PROVE  SInv'
    BY <1>1 DEF sessionVars, TypeOK, ChangesKept, SessionsAreWatched, SwitchingIsAll
  <1>2. CASE triggerWait /\ UNCHANGED <<sessionVars, shutdownAt>>
    <2>1. TimerTypeOK' /\ (manager \in subscribers' <=> manager \in subscribers)
      BY <1>a, <1>2, triggerWaitType
    <2> QED BY <1>1, <1>2, <2>1 DEF TypeOK
  <1>3. CASE timerNotify
    <2>1. TimerTypeOK' /\ subscribers' = subscribers
      BY <1>a, <1>3, callType DEF timerNotify
    <2>2. sessions' \subseteq sessions
      BY <1>3 DEF timerNotify
    <2> QED BY <1>3, <2>1, <2>2
            DEF timerNotify, TypeOK, ChangesKept, SessionsAreWatched, SwitchingIsAll
  <1>4. CASE otherCalled
    <2>1. TimerTypeOK' /\ subscribers' = subscribers
      BY <1>a, <1>4, callType DEF otherCalled
    <2> QED BY <1>1, <1>4, <2>1 DEF otherCalled, TypeOK
  <1>5. CASE others
    <2>1. TimerTypeOK' /\ (manager \in subscribers' <=> manager \in subscribers)
      BY <1>a, <1>5, addTimerSubscriberType, removeTimerSubscriberType DEF others
    <2> QED BY <1>1, <1>5, <2>1 DEF others, TypeOK
  <1>6. CASE spurious /\ UNCHANGED <<sessionVars, shutdownAt>>
    BY <1>1, <1>a, <1>6, otherTimerTypes DEF TypeOK
  <1>7. CASE shutdown
    <2>1. UNCHANGED sessionVars /\ shutdownAt' \in {"running", "flag", "join", "ended"}
      BY <1>7 DEF shutdown
    <2>2. TimerTypeOK' /\ subscribers' = subscribers
      <3>1. CASE setShutdownFlag \/ notifyAll
        BY <1>a, <3>1, otherTimerTypes
      <3>2. CASE UNCHANGED timerVars
        BY <1>a, <3>2 DEF timerVars, TimerTypeOK
      <3> QED BY <1>7, <3>1, <3>2 DEF shutdown
    <2> QED BY <1>1, <2>1, <2>2
  <1>8. CASE tick
    <2>1. TimerTypeOK' /\ subscribers' = subscribers
      BY <1>a, <1>8, otherTimerTypes DEF tick
    <2>2. age' \in [SIDs -> 0 .. Timeout + 1]
      BY <1>8 DEF tick, TypeOK
    <2> QED BY <1>8, <2>1, <2>2 DEF tick, TypeOK, ChangesKept, SessionsAreWatched, SwitchingIsAll
  <1> QED BY <1>2, <1>3, <1>4, <1>5, <1>6, <1>7, <1>8 DEF timerThread

LEMMA NextSInv == ASSUME SessionAssumption PROVE SInv /\ [Next]_vars => SInv'
  <1> SUFFICES ASSUME SInv, [Next]_vars PROVE SInv'
    OBVIOUS
  <1>1. CASE UNCHANGED vars
    BY <1>1 DEF vars, timerVars, sessionVars, SInv, NoChangeForgotten, TypeOK, TimerTypeOK,
                ChangesKept, SessionsAreWatched, SwitchingIsAll
  <1> QED BY <1>1, BrowserStep, ChangeStep, TimerStep DEF Next

(* A change that a browser does not know of yet waits in its session, and  *)
(* the session manager is subscribed with the timer exactly when it says   *)
(* so, and while there is a session, in any interleaving of requests,      *)
(* changes, timeouts and other subscribers.                                *)
THEOREM NothingForgotten ==
  ASSUME SessionAssumption
  PROVE  Spec => []NoChangeForgotten
  <1>1. SInv => NoChangeForgotten
    BY DEF SInv
  <1> QED BY <1>1, InitSInv, NextSInv, PTL DEF Spec
=============================================================================
