--------------------------------- MODULE Timer ---------------------------------
(***************************************************************************)
(* util/timer.cc: the thread that calls timerNotify of its subscribers.    *)
(*                                                                         *)
(* The list of subscribers is guarded by the mutex of the thread runner,   *)
(* but the thread waits with waitMutex, which nobody else takes: what it   *)
(* has read of the list, or of shutdownFlag, can be old when it starts to  *)
(* wait.  Its actions are therefore cut at every read of shared state.     *)
(* Time is the number of ticks left until something is due.                *)
(***************************************************************************)
EXTENDS Integers, FiniteSetsExt

CONSTANTS
    Elements,               \* pairs of a Subscriber and a Parameter
    Interval,               \* Interval[s]: notifyInterval, in ticks, from 1 on
    Once                    \* the elements that subscribe with once = true

VARIABLES
    subscribers,            \* set of elements: none is in the list twice
    left,                   \* left[s]: ticks until nextNotify of s
    shutdownFlag,
    tpc,                    \* where the timer thread is
    wait,                   \* ticks until its waitFor times out
    toNotify,               \* who is still to be called in this round
    lost                    \* auxiliary: a notification came just before a wait

timerVars == <<subscribers, left, shutdownFlag, tpc, wait, toNotify, lost>>

(* loop: at `while (!shutdownFlag)`; test: before getNextNotifyTime;       *)
(* willWait, willWaitFor: has decided to wait and does not wait yet;       *)
(* calling: in the loop that calls timerNotify.                            *)
TimerStates == {"loop", "willWait", "wait", "test", "willWaitFor", "waitFor",
                "notify", "calling", "done"}

TimerInit ==
    /\ subscribers = {}
    /\ left = Interval
    /\ shutdownFlag = FALSE
    /\ tpc = "loop"
    /\ wait = 0
    /\ toNotify = {}
    /\ lost = FALSE

(* threadRunner->notify wakes the thread if it waits now, or nobody.  Lost *)
(* on a thread that will wait for a time it only delays; lost on one that  *)
(* will wait for a notification it may be the last one.                    *)
Notified(state) == IF state \in {"wait", "waitFor"} THEN "loop" ELSE state
threadNotified ==
    /\ tpc' = Notified(tpc)
    /\ lost' = (tpc = "willWait" \/ (lost /\ tpc # "wait"))

Due(s) == s \in subscribers /\ left[s] = 0

-----------------------------------------------------------------------------
(* Calls of other threads.                                                 *)

(* Throws, and changes nothing, if s is subscribed.                        *)
addTimerSubscriber(s) ==
    /\ IF s \notin subscribers
       THEN /\ subscribers' = subscribers \cup {s}
            /\ left' = [left EXCEPT ![s] = Interval[s]]
            /\ threadNotified
       ELSE UNCHANGED <<subscribers, left, tpc, lost>>
    /\ UNCHANGED <<shutdownFlag, wait, toNotify>>

(* Throws, or with dontFail does nothing, if s is not subscribed.  A copy  *)
(* of s that the thread has in toNotify stays there.                       *)
removeTimerSubscriber(s) ==
    /\ IF s \in subscribers
       THEN subscribers' = subscribers \ {s} /\ threadNotified
       ELSE UNCHANGED <<subscribers, tpc, lost>>
    /\ UNCHANGED <<left, shutdownFlag, wait, toNotify>>

(* shutdown: the flag, then notifyAll, then join.                          *)
setShutdownFlag ==
    /\ ~shutdownFlag
    /\ shutdownFlag' = TRUE
    /\ UNCHANGED <<subscribers, left, tpc, wait, toNotify, lost>>

NotifiesNobody == UNCHANGED timerVars                               \* mutant
notifyAll ==
    /\ threadNotified
    /\ UNCHANGED <<subscribers, left, shutdownFlag, wait, toNotify>>

-----------------------------------------------------------------------------
(* triggerWait and what it calls.                                          *)

goto(state) ==
    /\ tpc' = state
    /\ UNCHANGED <<subscribers, left, shutdownFlag, wait, toNotify, lost>>

loop ==
    /\ tpc = "loop"
    /\ CASE shutdownFlag     -> goto("done")
         [] ~shutdownFlag /\ subscribers = {} -> goto("willWait")
         [] ~shutdownFlag /\ subscribers # {} -> goto("test")

startWait == tpc = "willWait" /\ goto("wait")

(* getNextNotifyTime of a list that has become empty is zero, which lies   *)
(* in the past.                                                            *)
NextNotifyTime == IF subscribers = {} THEN 0 ELSE Min({left[s] : s \in subscribers})

test ==
    /\ tpc = "test"
    /\ wait' = NextNotifyTime
    /\ tpc' = IF wait' > 0 THEN "willWaitFor" ELSE "notify"
    /\ UNCHANGED <<subscribers, left, shutdownFlag, toNotify, lost>>

startWaitFor == tpc = "willWaitFor" /\ goto("waitFor")

timeout == tpc = "waitFor" /\ wait = 0 /\ goto("notify")

(* A wait may return without a notification; both start over again.        *)
spurious ==
    /\ tpc \in {"wait", "waitFor"}
    /\ tpc' = "loop"
    /\ lost' = FALSE
    /\ UNCHANGED <<subscribers, left, shutdownFlag, wait, toNotify>>

DropsAll(due) == due                                                \* mutant
Dropped(due) == due \cap Once

Rearmed(due) == [s \in Elements |-> IF s \in due THEN Interval[s] ELSE left[s]]

(* Copies what is due under the mutex, and calls it after.                 *)
notify ==
    /\ tpc = "notify"
    /\ LET due == {s \in subscribers : Due(s)}
       IN  /\ toNotify' = due
           /\ subscribers' = subscribers \ Dropped(due)
           /\ left' = Rearmed(due)
    /\ tpc' = "calling"
    /\ UNCHANGED <<shutdownFlag, wait, lost>>

(* Timer's part of one call of timerNotify.                                *)
call(s) ==
    /\ tpc = "calling"
    /\ s \in toNotify
    /\ toNotify' = toNotify \ {s}
    /\ UNCHANGED <<subscribers, left, shutdownFlag, tpc, wait, lost>>

called == tpc = "calling" /\ toNotify = {} /\ goto("loop")

(* The thread between two calls of timerNotify.                            *)
triggerWait ==
    loop \/ startWait \/ test \/ startWaitFor \/ timeout \/ notify \/ called

Minus1(n) == IF n = 0 THEN 0 ELSE n - 1

timerTick ==
    /\ left' = [s \in Elements |-> IF s \in subscribers THEN Minus1(left[s]) ELSE left[s]]
    /\ wait' = IF tpc = "waitFor" THEN Minus1(wait) ELSE wait
    /\ UNCHANGED <<subscribers, shutdownFlag, tpc, toNotify, lost>>

TimerTypeOK ==
    /\ subscribers \in SUBSET Elements
    /\ left \in [Elements -> Nat]
    /\ shutdownFlag \in BOOLEAN
    /\ tpc \in TimerStates
    /\ wait \in Nat
    /\ toNotify \in SUBSET Elements
    /\ lost \in BOOLEAN
=============================================================================
