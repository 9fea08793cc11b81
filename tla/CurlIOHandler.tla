---------------------------- MODULE CurlIOHandler ----------------------------
(***************************************************************************)
(* CurlIOHandler: the content of a URL, read ahead by a thread that runs   *)
(* one libcurl request after the other, and seeking, which the other user  *)
(* of IOHandlerBufferHelper switches off.                                  *)
(*                                                                         *)
(* The caller (the web server of libupnp) makes one call after the other.  *)
(* The byte at position p of the content is the number p, so that a byte   *)
(* out of place shows.  threadProc reads doSeek and writes eof and         *)
(* readError without the mutex: these are steps of their own, also between *)
(* a test of the caller and its wait (Locked).  libcurl and the remote     *)
(* server are external: they deliver pieces, end, or fail at any time.     *)
(***************************************************************************)
EXTENDS Integers, FiniteSets

CONSTANTS
    Length,             \* bytes of the content
    Pieces,             \* sizes in which libcurl hands them to the callback
    Lengths,            \* lengths a caller of read asks for
    bufSize,            \* size of the buffer
    initialFillSize,    \* bytes to be there before the first read returns
    MaxSeeks            \* bound: seeks in one behaviour

Positions == 0 .. Length
Cells == 0 .. bufSize - 1
Whence == {"SEEK_SET", "SEEK_CUR", "SEEK_END"}
Nothing == -1           \* what a cell holds that was never written to

VARIABLES
    cells,                          \* the buffer
    startIndex, endIndex, empty,
    waitForInitialFillSize, eof, readError, threadShutdown,
    doSeek, seekTo,                 \* the request of seek: offset and whence
    isFresh, posRead,
    resume, next,                   \* CURLOPT_RESUME_FROM, and the position the
                                    \* running request delivers next
    caller, thread,
    pos, right,                     \* auxiliary: the position the caller is at,
                                    \* and whether the last read was right
    flaws,                          \* auxiliary: what went wrong so far
    seeks                           \* seeks so far

ring == <<cells, startIndex, endIndex, empty>>
ended == <<eof, readError>>
flags == <<waitForInitialFillSize, ended, threadShutdown>>
request == <<doSeek, seekTo, isFresh, seeks>>
transfer == <<resume, next>>
seen == <<pos, right>>
vars == <<ring, flags, request, posRead, transfer, caller, thread, seen, flaws>>

Caller(at, length, end) == [at |-> at, length |-> length, end |-> end]
Thread(at, want, ok) == [at |-> at, want |-> want, ok |-> ok]
Idle == Caller("idle", 0, 0)

Init ==
    /\ cells = [i \in Cells |-> Nothing]
    /\ startIndex = 0 /\ endIndex = 0 /\ empty = TRUE
    /\ waitForInitialFillSize = (initialFillSize > 0)
    /\ eof = FALSE /\ readError = FALSE /\ threadShutdown = FALSE
    /\ doSeek = FALSE /\ seekTo = [offset |-> 0, whence |-> "SEEK_SET"]
    /\ isFresh = TRUE /\ posRead = 0
    /\ resume = 0 /\ next = 0
    /\ caller = Idle /\ thread = Thread("start", 0, TRUE)
    /\ pos = 0 /\ right = TRUE /\ flaws = {} /\ seeks = 0

-------------------------------------------------------------------------------
(* The ring, and the one condition variable of caller and thread.          *)

Wrap(i) == IF i >= bufSize THEN i - bufSize ELSE i
FillSize(start, end) == IF end <= start THEN end - start + bufSize ELSE end - start
Free(start, end, none) ==
    IF none THEN bufSize ELSE IF start < end THEN start - end + bufSize ELSE start - end
Least(m, n) == IF m <= n THEN m ELSE n

\* the caller holds the mutex between the test of its condition and its wait
Locked == caller.at \in {"blocked", "seeking"}

CallerNotified ==
    CASE caller.at = "wait" -> [caller EXCEPT !.at = "test"]
      [] caller.at = "waitSeek" -> [caller EXCEPT !.at = "testSeek"]
      [] OTHER -> caller
ThreadNotified == IF thread.at = "wait" THEN [thread EXCEPT !.at = "woken"] ELSE thread

-------------------------------------------------------------------------------
(* IOHandlerBufferHelper::read.                                            *)

Read(length) ==
    /\ caller.at = "idle"
    /\ caller' = Caller("test", length, 0)
    /\ UNCHANGED <<ring, flags, request, posRead, transfer, thread, seen, flaws>>

Blocked == (empty \/ waitForInitialFillSize) /\ ~threadShutdown /\ ~eof /\ ~readError
AtEnd == ~Blocked /\ ~readError /\ ~threadShutdown /\ empty /\ eof

Test ==
    /\ caller.at = "test"
    /\ \/ Blocked /\ caller' = [caller EXCEPT !.at = "blocked"]
       \/ ~Blocked /\ (readError \/ threadShutdown) /\ caller' = Idle
       \/ AtEnd /\ caller' = Idle
       \/ /\ ~Blocked /\ ~(readError \/ threadShutdown) /\ ~AtEnd
          /\ caller' = [caller EXCEPT !.at = "copy", !.end = endIndex]
    /\ right' = IF AtEnd THEN pos = Length ELSE right
    /\ UNCHANGED <<ring, flags, request, posRead, transfer, thread, pos, flaws>>

Wait ==
    /\ Locked
    /\ caller' = [caller EXCEPT !.at = IF @ = "blocked" THEN "wait" ELSE "waitSeek"]
    /\ UNCHANGED <<ring, flags, request, posRead, transfer, thread, seen, flaws>>

\* signalAfterEveryRead is set
NotifyAfterRead == thread' = ThreadNotified

\* the bytes copied outside the mutex
didRead == Least(caller.length, FillSize(startIndex, caller.end))

Copy ==
    /\ caller.at = "copy"
    /\ NotifyAfterRead
    /\ startIndex' = Wrap(startIndex + didRead)
    /\ empty' = (empty \/ startIndex' = endIndex)
    /\ posRead' = posRead + didRead
    /\ right' = \A k \in 0 .. didRead - 1 : cells[Wrap(startIndex + k)] = pos + k
    /\ pos' = pos + didRead
    /\ caller' = Idle
    /\ UNCHANGED <<cells, endIndex, flags, request, transfer, flaws>>

-------------------------------------------------------------------------------
(* IOHandlerBufferHelper::seek, close.                                     *)

\* the position a caller means
Meant(offset, whence) ==
    CASE whence = "SEEK_SET" -> offset
      [] whence = "SEEK_CUR" -> pos + offset
      [] whence = "SEEK_END" -> Length + offset

FreshSeekIgnored(offset) == offset = 0 /\ isFresh
SeekReturns == caller' = Idle /\ flaws' = flaws \cup (IF doSeek' THEN {"unprocessed"} ELSE {})

Seek(offset, whence) ==
    /\ caller.at = "idle"
    /\ seeks < MaxSeeks /\ flaws = {}         \* bound: no seek after a flaw
    /\ Meant(offset, whence) \in Positions    \* bound: seeks inside the content
    /\ whence = "SEEK_CUR" => posRead + offset \in Positions
    /\ seeks' = seeks + 1
    /\ pos' = Meant(offset, whence)
    /\ IF FreshSeekIgnored(offset) \/ (whence = "SEEK_CUR" /\ offset = 0)
       THEN /\ isFresh' = FreshSeekIgnored(offset)
            /\ flaws' = flaws \cup (IF pos' # pos THEN {"ignored"} ELSE {})
            /\ UNCHANGED <<doSeek, seekTo, caller, thread>>
       ELSE /\ isFresh' = FALSE
            /\ doSeek' = TRUE /\ seekTo' = [offset |-> offset, whence |-> whence]
            /\ thread' = ThreadNotified
            /\ IF eof \/ readError THEN SeekReturns
               ELSE caller' = Caller("seeking", 0, 0) /\ flaws' = flaws
    /\ UNCHANGED <<ring, flags, posRead, transfer, right>>

TestSeek ==
    /\ caller.at = "testSeek"
    /\ IF ~doSeek \/ eof \/ readError THEN UNCHANGED doSeek /\ SeekReturns
       ELSE caller' = [caller EXCEPT !.at = "seeking"] /\ UNCHANGED <<doSeek, flaws>>
    /\ UNCHANGED <<ring, flags, seekTo, isFresh, seeks, posRead, transfer, thread, seen>>

Close ==
    /\ caller.at = "idle"
    /\ threadShutdown' = TRUE
    /\ thread' = ThreadNotified
    /\ caller' = Caller("join", 0, 0)
    /\ UNCHANGED <<ring, waitForInitialFillSize, ended, request, posRead, transfer,
                   seen, flaws>>

Join ==
    /\ caller.at = "join" /\ thread.at = "stopped"
    /\ caller' = Caller("closed", 0, 0)
    /\ UNCHANGED <<ring, flags, request, posRead, transfer, thread, seen, flaws>>

-------------------------------------------------------------------------------
(* CurlIOHandler::threadProc.                                              *)

\* A request begins where a seek wants it to, or at the resume position set
\* before; SEEK_END is not supported.
StartRequest ==
    /\ thread.at = "start" /\ ~Locked
    /\ posRead' = CASE ~doSeek \/ seekTo.whence = "SEEK_END" -> posRead
                    [] doSeek /\ seekTo.whence = "SEEK_SET" -> seekTo.offset
                    [] doSeek /\ seekTo.whence = "SEEK_CUR" -> posRead + seekTo.offset
    /\ resume' = IF doSeek /\ seekTo.whence # "SEEK_END" THEN posRead' ELSE resume
    /\ next' = resume'
    /\ waitForInitialFillSize' = IF doSeek THEN initialFillSize > 0 ELSE waitForInitialFillSize
    /\ doSeek' = FALSE
    /\ caller' = IF doSeek THEN CallerNotified ELSE caller
    /\ flaws' = flaws \cup (IF doSeek /\ ~empty THEN {"kept"} ELSE {})
                      \cup (IF doSeek /\ seekTo.whence = "SEEK_END" THEN {"end"} ELSE {})
    /\ thread' = Thread("perform", 0, TRUE)
    /\ UNCHANGED <<ring, ended, threadShutdown, seekTo, isFresh, seeks, seen>>

\* curl_easy_perform calls back with a piece, ends or fails
Perform ==
    /\ thread.at = "perform"
    /\ \/ \E n \in Pieces : next + n <= Length /\ thread' = Thread("enter", n, TRUE)
       \/ next = Length /\ thread' = Thread("ended", 0, TRUE)
       \/ thread' = Thread("ended", 0, FALSE)
    /\ UNCHANGED <<ring, flags, request, posRead, transfer, caller, seen, flaws>>

\* the condition of the loop, read without the mutex
Ended ==
    /\ thread.at = "ended"
    /\ thread' = [thread EXCEPT !.at = IF doSeek THEN "start" ELSE "tell"]
    /\ UNCHANGED <<ring, flags, request, posRead, transfer, caller, seen, flaws>>

\* after the loop, still without the mutex
Tell ==
    /\ thread.at = "tell"
    /\ readError' = (readError \/ ~thread.ok)
    /\ eof' = (eof \/ thread.ok)
    /\ thread' = [thread EXCEPT !.at = "told"]
    /\ UNCHANGED <<ring, waitForInitialFillSize, threadShutdown, request, posRead,
                   transfer, caller, seen, flaws>>

NotifyAtEnd ==
    /\ caller' = CallerNotified
    /\ flaws' = flaws \cup (IF Locked THEN {"missed"} ELSE {})

Told ==
    /\ thread.at = "told"
    /\ NotifyAtEnd
    /\ thread' = [thread EXCEPT !.at = "stopped"]
    /\ UNCHANGED <<ring, flags, request, posRead, transfer, seen>>

-------------------------------------------------------------------------------
(* CurlIOHandler::curlCallback.                                            *)

relSeek == seekTo.offset - (IF seekTo.whence = "SEEK_SET" THEN posRead ELSE 0)
InBuffer ==
    /\ doSeek /\ ~empty
    /\ seekTo.whence = "SEEK_SET" \/ (seekTo.whence = "SEEK_CUR" /\ seekTo.offset > 0)
    /\ relSeek <= FillSize(startIndex, endIndex)

\* The seek is answered from the buffer.  An index before the first cell is
\* out of bounds: what follows is undefined and not modelled ("wild").
PosUnmoved == posRead' = posRead         \* mutant
PosMoved == posRead' = posRead + relSeek

SkipAhead ==
    LET to == Wrap(startIndex + relSeek)
    IN /\ empty' = (to = endIndex)
       /\ startIndex' = IF to = endIndex THEN 0 ELSE to
       /\ endIndex' = IF to = endIndex THEN 0 ELSE endIndex
       /\ PosMoved
       /\ doSeek' = FALSE
       /\ caller' = CallerNotified
       /\ flaws' = flaws \cup (IF relSeek < 0 THEN {"backwards"} ELSE {})
                         \cup (IF relSeek = 0 /\ startIndex = endIndex THEN {"dropped"} ELSE {})
                         \cup (IF thread.at = "woken" /\ empty' THEN {"drained"} ELSE {})
Wild == InBuffer /\ startIndex + relSeek < 0
GoWild ==
    /\ Wild
    /\ thread' = [thread EXCEPT !.at = "wild"]
    /\ flaws' = flaws \cup {"backwards"}
    /\ UNCHANGED <<ring, request, posRead, caller>>

\* the callback returns 0: libcurl gives up the request
Return0 == thread' = Thread("ended", 0, FALSE)
Abort ==
    /\ doSeek /\ ~InBuffer
    /\ startIndex' = 0 /\ endIndex' = 0 /\ empty' = TRUE
    /\ Return0
    /\ UNCHANGED <<cells, request, posRead, caller, flaws>>

\* an empty buffer starts at its first cell
Restarted == startIndex' = (IF empty THEN 0 ELSE startIndex) /\ endIndex' = (IF empty THEN 0 ELSE endIndex)

\* the first turn of the loop
Enter ==
    /\ thread.at = "enter" /\ ~Locked
    /\ \/ GoWild
       \/ Abort
       \/ /\ InBuffer /\ ~Wild /\ SkipAhead
          /\ UNCHANGED <<cells, seekTo, isFresh, seeks>>
          /\ IF threadShutdown THEN Return0
             ELSE thread' = [thread EXCEPT !.at =
                      IF Free(startIndex', endIndex', empty') >= thread.want THEN "store" ELSE "wait"]
       \/ /\ ~doSeek
          /\ UNCHANGED <<cells, empty, request, posRead, caller, flaws>>
          /\ Restarted
          /\ IF threadShutdown THEN Return0
             ELSE thread' = [thread EXCEPT !.at =
                      IF Free(startIndex, endIndex, empty) >= thread.want THEN "store" ELSE "wait"]
    /\ UNCHANGED <<flags, transfer, seen>>

\* The turn after a wait: room is tested before a seek is looked at, and after
\* a seek has been answered from the buffer the thread waits again.
Woken ==
    /\ thread.at = "woken" /\ ~Locked
    /\ LET room == Free(startIndex, endIndex, empty) >= thread.want
       IN \/ threadShutdown /\ Return0 /\ UNCHANGED <<ring, request, posRead, caller, flaws>>
          \/ /\ ~threadShutdown /\ room
             /\ Restarted
             /\ thread' = [thread EXCEPT !.at = "store"]
             /\ UNCHANGED <<cells, empty, request, posRead, caller, flaws>>
          \/ ~threadShutdown /\ ~room /\ (GoWild \/ Abort)
          \/ /\ ~threadShutdown /\ ~room /\ InBuffer /\ ~Wild /\ SkipAhead
             /\ thread' = [thread EXCEPT !.at = "wait"]
             /\ UNCHANGED <<cells, seekTo, isFresh, seeks>>
          \/ /\ ~threadShutdown /\ ~room /\ ~doSeek
             /\ thread' = [thread EXCEPT !.at = "wait"]
             /\ UNCHANGED <<ring, request, posRead, caller, flaws>>
    /\ UNCHANGED <<flags, transfer, seen>>

\* the bytes are copied outside the mutex, then counted under it
Store ==
    /\ thread.at = "store" /\ ~Locked
    /\ cells' = [i \in Cells |->
           LET k == IF i >= endIndex THEN i - endIndex ELSE i - endIndex + bufSize
           IN IF k < thread.want THEN next + k ELSE cells[i]]
    /\ endIndex' = Wrap(endIndex + thread.want)
    /\ empty' = FALSE
    /\ LET filled == waitForInitialFillSize
                        /\ FillSize(startIndex, endIndex') >= initialFillSize
       IN /\ waitForInitialFillSize' = (waitForInitialFillSize /\ ~filled)
          /\ caller' = IF empty \/ filled THEN CallerNotified ELSE caller
    /\ next' = next + thread.want
    /\ thread' = Thread("perform", 0, TRUE)
    /\ UNCHANGED <<startIndex, ended, threadShutdown, request, posRead, resume, seen, flaws>>

-------------------------------------------------------------------------------
threadProc == StartRequest \/ Perform \/ Ended \/ Tell \/ Told \/ Enter \/ Woken \/ Store
callerStep == Test \/ Wait \/ Copy \/ TestSeek \/ Join

Next ==
    /\ thread.at # "wild"
    /\ \/ threadProc
       \/ callerStep
       \/ Close
       \/ \E length \in Lengths : Read(length)
       \/ \E whence \in Whence, offset \in -Length .. Length :
              (whence = "SEEK_SET" => offset >= 0) /\ Seek(offset, whence)

\* both threads get to run; libcurl and the server deliver, end or fail
Fairness == WF_vars(threadProc) /\ WF_vars(callerStep)

Spec == Init /\ [][Next]_vars /\ Fairness

-------------------------------------------------------------------------------
(* Properties.                                                             *)

\* Every variable has its type.
TypeOK ==
    /\ cells \in [Cells -> Positions \cup {Nothing}]
    /\ startIndex \in Cells /\ endIndex \in Cells /\ posRead \in Int
    /\ {empty, waitForInitialFillSize, eof, readError, threadShutdown, doSeek,
        isFresh, right} \subseteq BOOLEAN
    /\ resume \in Int /\ next \in Int /\ pos \in Int
    /\ thread.at \in {"start", "perform", "ended", "tell", "told", "enter", "wait",
                      "woken", "store", "wild", "stopped"}
    /\ caller.at \in {"idle", "test", "blocked", "wait", "copy", "seeking", "waitSeek",
                      "testSeek", "join", "closed"}

\* A read returns the bytes at the position the caller has sought to, and the
\* end is told only there, unless a seek was ignored on a handler that had been
\* read (io_handler_buffer_helper.cc:142) or not processed (:169), goes
\* backwards within the buffer or to where a full buffer begins
\* (curl_io_handler.cc:196, :200), meets the end of the request (:154), or is a
\* SEEK_END (:142).
SpoilTheStream == {"ignored", "unprocessed", "backwards", "dropped", "kept", "end"}
RightBytes == flaws \cap SpoilTheStream = {} => right

\* Where caller and thread both wait for good: a seek answered from the buffer
\* has emptied it and the thread, with room again, waited on
\* (curl_io_handler.cc:224), or a new request kept a full buffer and now waits
\* for the initial fill (:147).
StopTheStream == {"drained", "kept"}

\* Every call returns, unless the last notification of the thread fell between
\* the test of the caller and its wait (curl_io_handler.cc:168).
CallReturns ==
    caller.at \notin {"idle", "closed"}
        ~> caller.at \in {"idle", "closed"}
               \/ flaws \cap (StopTheStream \cup {"missed", "backwards"}) # {}

===============================================================================
