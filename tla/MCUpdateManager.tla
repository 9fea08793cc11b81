--------------------------- MODULE MCUpdateManager ---------------------------
(***************************************************************************)
(* How changes are announced, in one run of TLC; the first state chooses a *)
(* part:                                                                   *)
(*   "configured" the update manager with the limits of the .cfg           *)
(*                (UpdateManager),                                         *)
(*   "tiny"       the same with a hash so small that calls must be split,  *)
(*                with spurious wakeups,                                   *)
(*   "browsers"   the sessions of two browsers, one logged in              *)
(*                (WebSessions), with another subscriber of the timer.     *)
(***************************************************************************)
EXTENDS UpdateManager

CONSTANTS o1, o2, o3, o4, c1, s1, s2, i1, autoscan, manager, Parts

ThreeObjects == {o1, o2, o3}
FourObjects == {o1, o2, o3, o4}
OneCaller == {c1}
Configured == {"configured"}
EachPart == {"configured", "tiny", "browsers"}

VARIABLES part
VARIABLES subscribers, left, timerShutdown, tpc, wait, toNotify, lost, sessions,
          timerAdded, loggedIn, updateAll, uiUpdateIDs, age, switching, poll, shutdownAt, unseen

pageVars == <<subscribers, left, timerShutdown, tpc, wait, toNotify, lost, sessions,
              timerAdded, loggedIn, updateAll, uiUpdateIDs, age, switching, poll, shutdownAt, unseen>>

Tiny == INSTANCE UpdateManager WITH MAX_OBJECT_IDS <- 1, MAX_OBJECT_IDS_OVERLOAD <- 1,
                                    MaxReport <- 3, SpuriousWakeups <- TRUE

Pages == INSTANCE WebSessions WITH
    Elements <- {manager, autoscan}, Once <- {autoscan},
    Interval <- [e \in {manager, autoscan} |-> 1],
    SIDs <- {s1, s2}, IDs <- {i1}, Users <- {s1},
    MAX_UI_UPDATE_IDS <- 2, Timeout <- 1, accountsEnabled <- TRUE,
    shutdownFlag <- timerShutdown

ASSUME PagesAssumption == Pages!SessionAssumption

MCInit == part \in Parts /\ Init /\ Pages!Init

MCNext ==
    /\ UNCHANGED part
    /\ \/ part = "configured" /\ Next /\ UNCHANGED pageVars
       \/ part = "tiny" /\ Tiny!Next /\ UNCHANGED pageVars
       \/ part = "browsers" /\ Pages!Next /\ UNCHANGED vars

\* the fairness of UpdateManager, for the limits in force, and of WebSessions,
\* each for its own steps
Limited(configured, tiny) ==
    \/ part = "configured" /\ configured
    \/ part = "tiny" /\ tiny
MCSpec ==
    /\ MCInit /\ [][MCNext]_<<part, vars, pageVars>>
    /\ WF_vars(Limited(threadProc, Tiny!threadProc))
    /\ WF_vars(part # "browsers" /\ timePasses)
    /\ WF_vars(part # "browsers" /\ killed /\ shutdown)
    /\ \A c \in Callers :
          /\ WF_vars(Limited(splitLoop(c), Tiny!splitLoop(c)))
          /\ SF_vars(Limited(splitLoop(c) /\ ~Overflows(objectIDHash),
                            Tiny!splitLoop(c) /\ ~Tiny!Overflows(objectIDHash)))
    /\ WF_pageVars(part = "browsers" /\ Pages!timerThread)
    /\ SF_pageVars(part = "browsers" /\ Pages!timerNotify)
    /\ WF_pageVars(part = "browsers" /\ Pages!tick)
    /\ WF_pageVars(part = "browsers" /\ shutdownAt # "running" /\ Pages!shutdown)
    /\ \A s \in {s1, s2} : WF_pageVars(part = "browsers" /\ Pages!clearSwitched(s))

(* IdleMeansNoUpdates and EveryChangeSent hold as long as no call is       *)
(* split (update_manager.cc:109): the signal of containersChanged is then  *)
(* decided and given in one critical section.  A call that is split keeps  *)
(* the mutex busy until its ids are in, and returns in the end.  The cache *)
(* of the last container never names one that was sent.                    *)
ChangesAreSent ==
    /\ []CacheInHash
    /\ [](part = "configured" => IdleMeansNoUpdates)
    /\ part = "configured" => EveryChangeSent
    /\ SplitCallReturns

(* Moderation, against the limits in force.                                *)
EachModerated ==
    [][IF part = "configured" THEN SendsOnlyWhenDue ELSE Tiny!SendsOnlyWhenDue]_vars

(* The properties of WebSessions.                                          *)
NoChangeForgotten == Pages!NoChangeForgotten
ExpiredSessionsGoUnlessLost == Pages!ExpiredSessionsGoUnlessLost
ShutdownEnds == Pages!ShutdownEnds
=============================================================================
