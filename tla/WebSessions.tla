------------------------------ MODULE WebSessions ------------------------------
(***************************************************************************)
(* web/session_manager.cc with the requests of web/auth.cc and             *)
(* web/page_request.cc that use it: the sessions of the web interface, the *)
(* ids of changed containers that each of them collects for its browser,   *)
(* and their end by logout or by the timer, of which the session manager   *)
(* is one subscriber among others.                                         *)
(*                                                                         *)
(* Under the mutex of the session manager every call is one action, with   *)
(* one exception: Session::containerChangedUI sets updateAll and clears the*)
(* ids in two steps, because hasUIUpdateIDs reads both without a mutex.    *)
(* sessions.empty(), also read without the mutex, lets a call return early *)
(* that would have found nothing to do at the time of the read.            *)
(***************************************************************************)
EXTENDS Timer

CONSTANTS
    SIDs,                   \* session ids
    IDs,                    \* ids of containers
    MAX_UI_UPDATE_IDS,
    Timeout,                \* of a session, in ticks
    accountsEnabled,
    Users,                  \* sessions whose user has the password of an account
    manager                 \* the element (SessionManager, nullptr), not in Once

(* What the theorems assume of the constants.                              *)
SessionAssumption ==
    /\ Interval \in [Elements -> Nat \ {0}]
    /\ manager \in Elements \ Once
    /\ Timeout \in Nat

VARIABLES
    sessions,               \* ids of the sessions in the array
    timerAdded,
    loggedIn,               \* the fields of each session
    updateAll,
    uiUpdateIDs,
    age,                    \* ticks since last_access, to one past Timeout
    switching,              \* sessions with updateAll set, ids not yet cleared
    poll,                   \* what getUIUpdateIDs of a session has read
    shutdownAt,             \* how far Timer::shutdown is
    unseen                  \* auxiliary: changes the browser does not know of

sessionVars == <<sessions, timerAdded, loggedIn, updateAll, uiUpdateIDs, age,
                 switching, poll, unseen>>
vars == <<timerVars, sessionVars, shutdownAt>>

Init ==
    /\ TimerInit
    /\ sessions = {}
    /\ timerAdded = FALSE
    /\ loggedIn = [s \in SIDs |-> FALSE]
    /\ updateAll = [s \in SIDs |-> FALSE]
    /\ uiUpdateIDs = [s \in SIDs |-> {}]
    /\ age = [s \in SIDs |-> 0]
    /\ switching = {}
    /\ poll = [s \in SIDs |-> "none"]
    /\ shutdownAt = "running"
    /\ unseen = [s \in SIDs |-> {}]

(* containerChangedUI holds the mutex of the manager, and that of a session*)
(* that it switches.                                                       *)
MutexFree == switching = {}

-----------------------------------------------------------------------------
(* checkTimer *)

checkTimer(open) ==
    CASE open # {} /\ ~timerAdded -> addTimerSubscriber(manager) /\ timerAdded' = TRUE
      [] open = {} /\ timerAdded  -> removeTimerSubscriber(manager) /\ timerAdded' = FALSE
      [] OTHER                    -> UNCHANGED <<timerVars, timerAdded>>

(* get_sid without a valid sid: createSession, and a login without         *)
(* accounts.                                                               *)
createSession(s) ==
    /\ MutexFree
    /\ s \notin sessions
    /\ poll[s] = "none"
    /\ sessions' = sessions \cup {s}
    /\ checkTimer(sessions')
    /\ loggedIn' = [loggedIn EXCEPT ![s] = ~accountsEnabled]
    /\ updateAll' = [updateAll EXCEPT ![s] = FALSE]
    /\ uiUpdateIDs' = [uiUpdateIDs EXCEPT ![s] = {}]
    /\ age' = [age EXCEPT ![s] = 0]
    /\ unseen' = [unseen EXCEPT ![s] = {}]
    /\ UNCHANGED <<switching, poll, shutdownAt>>

(* get_sid with a valid sid: the browser loads everything anew.            *)
clearUpdateIDs(s) ==
    /\ MutexFree
    /\ s \in sessions
    /\ updateAll' = [updateAll EXCEPT ![s] = FALSE]
    /\ uiUpdateIDs' = [uiUpdateIDs EXCEPT ![s] = {}]
    /\ loggedIn' = [loggedIn EXCEPT ![s] = @ \/ ~accountsEnabled]
    /\ unseen' = [unseen EXCEPT ![s] = {}]
    /\ UNCHANGED <<timerVars, sessions, timerAdded, age, switching, poll, shutdownAt>>

(* login with the right password; a wrong one only counts as an access.    *)
login(s) ==
    /\ MutexFree
    /\ s \in sessions
    /\ age' = [age EXCEPT ![s] = 0]
    /\ \/ s \in Users /\ loggedIn' = [loggedIn EXCEPT ![s] = TRUE]
       \/ UNCHANGED loggedIn
    /\ UNCHANGED <<timerVars, sessions, timerAdded, updateAll, uiUpdateIDs,
                   switching, poll, shutdownAt, unseen>>

(* logout: removeSession.                                                  *)
removeSession(s) ==
    /\ MutexFree
    /\ s \in sessions
    /\ loggedIn[s]
    /\ sessions' = sessions \ {s}
    /\ checkTimer(sessions')
    /\ age' = [age EXCEPT ![s] = 0]
    /\ UNCHANGED <<loggedIn, updateAll, uiUpdateIDs, switching, poll, shutdownAt, unseen>>

-----------------------------------------------------------------------------
(* containerChangedUI *)

(* The overload for one id counts what is there, that for a list of ids    *)
(* what would be there.                                                    *)
TooMany(s, ids, one) ==
    IF one THEN Cardinality(uiUpdateIDs[s]) >= MAX_UI_UPDATE_IDS
           ELSE Cardinality(uiUpdateIDs[s]) + Cardinality(ids) >= MAX_UI_UPDATE_IDS

ForgetsAll(s) == updateAll[s]                                       \* mutant
Switches(s) == TRUE

containerChangedUI(ids, one) ==
    LET told   == {s \in sessions : loggedIn[s]}
        listen == {s \in told : ~updateAll[s]}
        full   == {s \in listen : TooMany(s, ids, one)}
    IN  /\ MutexFree
        /\ one => Cardinality(ids) = 1
        /\ updateAll' = [s \in SIDs |-> IF s \in full THEN Switches(s) ELSE updateAll[s]]
        /\ uiUpdateIDs' = [s \in SIDs |-> IF s \in listen \ full
                                          THEN uiUpdateIDs[s] \cup ids ELSE uiUpdateIDs[s]]
        /\ switching' = full
        /\ unseen' = [s \in SIDs |-> IF s \in told THEN unseen[s] \cup ids ELSE unseen[s]]
        /\ UNCHANGED <<timerVars, sessions, timerAdded, loggedIn, age, poll, shutdownAt>>

clearSwitched(s) ==
    /\ s \in switching
    /\ uiUpdateIDs' = [uiUpdateIDs EXCEPT ![s] = {}]
    /\ switching' = switching \ {s}
    /\ UNCHANGED <<timerVars, sessions, timerAdded, loggedIn, updateAll, age,
                   poll, shutdownAt, unseen>>

-----------------------------------------------------------------------------
(* A page with updates=get: checkRequest, then getUIUpdateIDs, which reads *)
(* updateAll, then uiUpdateIDs, and then takes the mutex of the session.   *)
(* The session may leave the array after checkRequest.                     *)

checkRequest(s) ==
    /\ MutexFree
    /\ s \in sessions
    /\ loggedIn[s]
    /\ poll[s] = "none"
    /\ age' = [age EXCEPT ![s] = 0]
    /\ poll' = [poll EXCEPT ![s] = IF updateAll[s] THEN "has" ELSE "notAll"]
    /\ UNCHANGED <<timerVars, sessions, timerAdded, loggedIn, updateAll,
                   uiUpdateIDs, switching, shutdownAt, unseen>>

hasUIUpdateIDs(s) ==
    /\ poll[s] = "notAll"
    /\ poll' = [poll EXCEPT ![s] = IF uiUpdateIDs[s] = {} THEN "none" ELSE "has"]
    /\ UNCHANGED <<timerVars, sessions, timerAdded, loggedIn, updateAll,
                   uiUpdateIDs, age, switching, shutdownAt, unseen>>

KeptIDs(s) == IF updateAll[s] THEN uiUpdateIDs[s] ELSE {}

getUIUpdateIDs(s) ==
    /\ poll[s] = "has"
    /\ s \notin switching
    /\ poll' = [poll EXCEPT ![s] = "none"]
    /\ unseen' = [unseen EXCEPT ![s] = IF updateAll[s] THEN {} ELSE @ \ uiUpdateIDs[s]]
    /\ updateAll' = [updateAll EXCEPT ![s] = FALSE]
    /\ uiUpdateIDs' = [uiUpdateIDs EXCEPT ![s] = KeptIDs(s)]
    /\ UNCHANGED <<timerVars, sessions, timerAdded, loggedIn, age, switching, shutdownAt>>

-----------------------------------------------------------------------------
(* timerNotify of the session manager, called by the timer thread.         *)

ExpiredAt(s) == age[s] > Timeout

(* checkTimer is called before the session is erased, when there is nothing*)
(* to do for it.                                                           *)
timerNotify ==
    /\ MutexFree
    /\ call(manager)
    /\ sessions' = {s \in sessions : ~ExpiredAt(s)}
    /\ UNCHANGED <<timerAdded, loggedIn, updateAll, uiUpdateIDs, age, switching,
                   poll, shutdownAt, unseen>>

(* Other subscribers come and go; what they do when called is their own.   *)
others ==
    \E e \in Elements \ {manager} :
        /\ addTimerSubscriber(e) \/ removeTimerSubscriber(e)
        /\ UNCHANGED <<sessionVars, shutdownAt>>

otherCalled == \E e \in Elements \ {manager} : call(e) /\ UNCHANGED <<sessionVars, shutdownAt>>

timerThread ==
    \/ triggerWait /\ UNCHANGED <<sessionVars, shutdownAt>>
    \/ timerNotify
    \/ otherCalled

(* Timer::shutdown, up to its return from join.                            *)
shutdown ==
    /\ \/ shutdownAt = "running" /\ shutdownAt' = "flag" /\ setShutdownFlag
       \/ shutdownAt = "flag" /\ shutdownAt' = "join" /\ notifyAll
       \/ shutdownAt = "join" /\ tpc = "done" /\ shutdownAt' = "ended" /\ UNCHANGED timerVars
    /\ UNCHANGED sessionVars

tick ==
    /\ timerTick
    /\ age' = [s \in SIDs |-> IF s \in sessions /\ age[s] <= Timeout THEN age[s] + 1 ELSE age[s]]
    /\ UNCHANGED <<sessions, timerAdded, loggedIn, updateAll, uiUpdateIDs,
                   switching, poll, shutdownAt, unseen>>

Next ==
    \/ \E s \in SIDs : createSession(s) \/ clearUpdateIDs(s) \/ login(s) \/ removeSession(s)
                       \/ clearSwitched(s) \/ checkRequest(s) \/ hasUIUpdateIDs(s)
                       \/ getUIUpdateIDs(s)
    \/ \E ids \in (SUBSET IDs) \ {{}}, one \in BOOLEAN : containerChangedUI(ids, one)
    \/ timerThread
    \/ others
    \/ spurious /\ UNCHANGED <<sessionVars, shutdownAt>>
    \/ shutdown
    \/ tick

(* The threads of the server are scheduled and clocks advance; the timer   *)
(* thread gets the mutex of the manager at some time when it is free.      *)
Fairness ==
    /\ WF_vars(timerThread)
    /\ SF_vars(timerNotify)
    /\ WF_vars(tick)
    /\ WF_vars(shutdownAt # "running" /\ shutdown)
    /\ \A s \in SIDs : WF_vars(clearSwitched(s))

Spec == Init /\ [][Next]_vars /\ Fairness

-----------------------------------------------------------------------------
(* Properties *)

(* Every variable has its type.                                            *)
TypeOK ==
    /\ TimerTypeOK
    /\ sessions \in SUBSET SIDs
    /\ timerAdded \in BOOLEAN
    /\ loggedIn \in [SIDs -> BOOLEAN]
    /\ updateAll \in [SIDs -> BOOLEAN]
    /\ uiUpdateIDs \in [SIDs -> SUBSET IDs]
    /\ age \in [SIDs -> 0 .. Timeout + 1]
    /\ switching \in SUBSET SIDs
    /\ poll \in [SIDs -> {"none", "notAll", "has"}]
    /\ shutdownAt \in {"running", "flag", "join", "ended"}
    /\ unseen \in [SIDs -> SUBSET IDs]

(* What a browser does not know of yet waits in its session, as an id or as*)
(* "all": the switch to "all" at the limit, the answer that takes one of   *)
(* both away, and the reads without a mutex never drop a change.           *)
ChangesKept ==
    \A s \in sessions : unseen[s] \subseteq uiUpdateIDs[s] \/ updateAll[s]

(* timerAdded says whether the manager is subscribed, and it is while a    *)
(* session exists: no call of the manager throws for a subscription that is*)
(* there or is missing, and no session is left without its timeout, in any *)
(* order of logins, logouts and timeouts.                                  *)
SessionsAreWatched ==
    /\ timerAdded <=> manager \in subscribers
    /\ sessions # {} => timerAdded

NoChangeForgotten == TypeOK /\ ChangesKept /\ SessionsAreWatched

(* session_manager.h:61: "if last access lies further back than the timeout*)
(* - the session will be deleted (will time out)", while the server runs.  *)
(* That is so unless a notification came between the thread's look at an   *)
(* empty list and its wait: being woken early, by any number of other      *)
(* subscribers, does not put the timeout off for ever.                     *)
ExpiredSessionsGoUnlessLost ==
    \A s \in SIDs : s \in sessions /\ ExpiredAt(s)
                        ~> s \notin sessions \/ ~ExpiredAt(s) \/ shutdownFlag \/ lost

(* Timer::shutdown returns, unless its notification came in that moment. A *)
(* notification that comes before a wait with a timeout only delays it.    *)
ShutdownEnds == shutdownAt = "join" /\ ~lost ~> shutdownAt = "ended"
=============================================================================
