--------------------------- MODULE BufferedIOHandler ---------------------------
(***************************************************************************)
(* A reader and a thread that reads ahead, around a ring buffer:           *)
(* IOHandlerBufferHelper (read, close) and BufferedIOHandler (threadProc), *)
(* which the transcoding puts before the output of a process.              *)
(*                                                                         *)
(* One mutex guards the indices.  It is released while the reader copies   *)
(* bytes out of the buffer and while the thread fills bytes in, so these   *)
(* two run at the same time; an action is one section between two points   *)
(* where the mutex is released.  The source is the underlying handler: it  *)
(* delivers its bytes in pieces, ends, and may fail at any time.           *)
(*                                                                         *)
(* BufferedIOHandler leaves seekEnabled false, so that seek only accepts   *)
(* the start of a fresh handler; seek requests never reach the thread.     *)
(***************************************************************************)
EXTENDS Integers, Sequences

CONSTANTS
    Bytes,              \* values of a byte, and of a cell never written to
    Source,             \* the bytes the underlying handler delivers
    Lengths,            \* lengths a caller of read asks for
    bufSize,            \* size of the buffer
    maxChunkSize,       \* largest piece the thread asks for
    initialFillSize     \* bytes to be there before the first read returns

\* the tests of the two constructors, and the assertion of read
ASSUME SizesAssumption ==
    /\ Source \in Seq(Bytes)
    /\ Lengths \subseteq Nat \ {0}
    /\ bufSize \in Nat \ {0} /\ maxChunkSize \in Nat \ {0}
    /\ initialFillSize \in 0 .. bufSize

Cells == 0 .. bufSize - 1

VARIABLES
    buffer,                     \* the cells
    startIndex, endIndex,       \* first byte to read, first cell to fill
    empty,                      \* tells an empty buffer from a full one
    waitForInitialFillSize, eof, readError, threadShutdown,
    posRead,                    \* bytes read
    delivered,                  \* bytes the underlying handler has delivered
    reader,                     \* the caller: where it is, its length, and
                                \* the end index it has seen
    thread,                     \* threadProc: where it is, the piece it asks
                                \* for, and what it got (readBytes)
    out, result                 \* auxiliary: bytes and result of the reads

indices == <<startIndex, endIndex, empty>>
flags == <<waitForInitialFillSize, eof, readError, threadShutdown>>
source == <<buffer, delivered>>
caller == <<reader, posRead, out, result>>
vars == <<indices, flags, source, caller, thread>>

ReaderStates == {"idle", "test", "wait", "copy", "close", "join", "closed"}
ThreadStates == {"start", "wait", "woken", "fill", "store", "stopped"}
Reader(at, length, seen) == [at |-> at, length |-> length, seen |-> seen]
Thread(at, chunk, got) == [at |-> at, chunk |-> chunk, got |-> got]

Init ==
    /\ buffer \in [Cells -> Bytes]
    /\ startIndex = 0 /\ endIndex = 0 /\ empty = TRUE
    /\ waitForInitialFillSize = (initialFillSize > 0)
    /\ eof = FALSE /\ readError = FALSE /\ threadShutdown = FALSE
    /\ posRead = 0 /\ delivered = 0
    /\ reader = Reader("idle", 0, 0)
    /\ thread = Thread("start", 0, 0)
    /\ out = <<>> /\ result = "none"

-------------------------------------------------------------------------------
(* The ring.                                                               *)

\* currentFillSize, of a buffer that is not empty
FillAlwaysFull(start, end) == IF end < start THEN end - start + bufSize ELSE end - start  \* mutant
FillSize(start, end) == IF end <= start THEN end - start + bufSize ELSE end - start

\* an index that has reached the end of the buffer starts over
Wrap(i) == IF i >= bufSize THEN i - bufSize ELSE i

\* maxWrite: cells that can be filled in one piece
Room(start, end, none) ==
    IF none THEN bufSize ELSE IF start < end THEN bufSize - end ELSE start - end

Least(m, n) == IF m <= n THEN m ELSE n

\* notify_one: the reader or the thread, whichever waits
ReaderNotified == IF reader.at = "wait" THEN [reader EXCEPT !.at = "test"] ELSE reader
ThreadNotified == IF thread.at = "wait" THEN [thread EXCEPT !.at = "woken"] ELSE thread

-------------------------------------------------------------------------------
(* IOHandlerBufferHelper::read.                                            *)

Read(length) ==
    /\ reader.at = "idle"
    /\ reader' = Reader("test", length, 0)
    /\ UNCHANGED <<indices, flags, source, posRead, out, result, thread>>

Return(res) == reader' = Reader("idle", 0, 0) /\ result' = res

\* the condition of the while loop
Blocked == (empty \/ waitForInitialFillSize) /\ ~threadShutdown /\ ~eof /\ ~readError

\* the while loop and the two early returns
Test ==
    /\ reader.at = "test"
    /\ \/ Blocked /\ reader' = [reader EXCEPT !.at = "wait"] /\ result' = result
       \/ ~Blocked /\ (readError \/ threadShutdown) /\ Return("error")
       \/ ~Blocked /\ ~(readError \/ threadShutdown) /\ empty /\ eof /\ Return("end")
       \/ /\ ~Blocked /\ ~(readError \/ threadShutdown) /\ ~(empty /\ eof)
          /\ reader' = [reader EXCEPT !.at = "copy", !.seen = endIndex]
          /\ result' = result
    /\ UNCHANGED <<indices, flags, source, posRead, out, thread>>

\* the bytes copied outside the mutex, in one or two parts
didRead == Least(reader.length, FillSize(startIndex, reader.seen))
Copied == [k \in 1 .. didRead |-> buffer[Wrap(startIndex + k - 1)]]

\* the thread is told if the buffer was full, became full, or is drained
NotifyIfWasFull ==       \* mutant
    IF startIndex = reader.seen THEN ThreadNotified ELSE thread
NotifyAfterRead ==
    IF startIndex = endIndex \/ Wrap(startIndex + didRead) = endIndex
    THEN ThreadNotified ELSE thread

Copy ==
    /\ reader.at = "copy"
    /\ thread' = NotifyAfterRead
    /\ startIndex' = Wrap(startIndex + didRead)
    /\ empty' = (empty \/ startIndex' = endIndex)
    /\ posRead' = posRead + didRead
    /\ out' = out \o Copied
    /\ Return("data")
    /\ UNCHANGED <<endIndex, flags, source>>

-------------------------------------------------------------------------------
(* IOHandlerBufferHelper::close, stopBufferThread.                         *)

Close ==
    /\ reader.at = "idle"
    /\ reader' = Reader("close", 0, 0)
    /\ UNCHANGED <<indices, flags, source, posRead, out, result, thread>>

StopThread ==
    /\ reader.at = "close"
    /\ threadShutdown' = TRUE
    /\ thread' = ThreadNotified
    /\ reader' = Reader("join", 0, 0)
    /\ UNCHANGED <<indices, waitForInitialFillSize, eof, readError, source, posRead,
                   out, result>>

Join ==
    /\ reader.at = "join" /\ thread.at = "stopped"
    /\ reader' = Reader("closed", 0, 0)
    /\ UNCHANGED <<indices, flags, source, posRead, out, result, thread>>

-------------------------------------------------------------------------------
(* BufferedIOHandler::threadProc.                                          *)

\* One turn of the loop up to the point where the mutex is released: an empty
\* buffer starts at its first cell, a full one is waited for.
Turn(start, end, none) ==
    /\ startIndex' = IF none THEN 0 ELSE start
    /\ endIndex' = IF none THEN 0 ELSE end
    /\ empty' = none
    /\ LET room == Room(startIndex', endIndex', none)
       IN thread' = IF room = 0 THEN Thread("wait", 0, 0)
                    ELSE Thread("fill", Least(maxChunkSize, room), 0)

\* the loop ends: end and error are told from what was read last
Stop(got) ==
    /\ eof' = (eof \/ (~threadShutdown /\ got = 0))
    /\ readError' = (readError \/ (~threadShutdown /\ got < 0))
    /\ thread' = Thread("stopped", 0, 0)
    /\ reader' = ReaderNotified

\* at the start, and woken from a wait; a shutdown ends the loop only after a wait
Again ==
    /\ thread.at = "start" \/ (thread.at = "woken" /\ ~threadShutdown)
    /\ Turn(startIndex, endIndex, empty)
    /\ UNCHANGED <<flags, source, caller>>
Quit ==
    /\ thread.at = "woken" /\ threadShutdown
    /\ Stop(0)
    /\ UNCHANGED <<indices, waitForInitialFillSize, threadShutdown, source, posRead, out, result>>

\* the underlying handler delivers bytes, ends or fails, outside the mutex
Fill ==
    /\ thread.at = "fill"
    /\ \/ \E n \in 1 .. Least(thread.chunk, Len(Source) - delivered) :
             /\ buffer' = [i \in Cells |->
                   IF i \in endIndex .. endIndex + n - 1
                   THEN Source[delivered + i - endIndex + 1] ELSE buffer[i]]
             /\ delivered' = delivered + n
             /\ thread' = Thread("store", thread.chunk, n)
       \/ /\ delivered = Len(Source)
          /\ thread' = Thread("store", thread.chunk, 0)
          /\ UNCHANGED source
       \/ /\ thread' = Thread("store", thread.chunk, -1)
          /\ UNCHANGED source
    /\ UNCHANGED <<indices, flags, caller>>

\* bytes have come: the indices, the reader's wakeup, and the next turn
FilledUp(start, end) ==
    waitForInitialFillSize => FillSize(start, end) >= initialFillSize
Store ==
    /\ thread.at = "store" /\ thread.got > 0
    /\ LET end == Wrap(endIndex + thread.got)
       IN /\ waitForInitialFillSize' = ~FilledUp(startIndex, end)
          /\ reader' = IF empty \/ (waitForInitialFillSize /\ FilledUp(startIndex, end))
                       THEN ReaderNotified ELSE reader
          /\ IF threadShutdown
             THEN /\ endIndex' = end /\ startIndex' = startIndex /\ empty' = FALSE
                  /\ thread' = Thread("stopped", 0, 0)
             ELSE Turn(startIndex, end, FALSE)
    /\ UNCHANGED <<eof, readError, threadShutdown, source, posRead, out, result>>

\* nothing has come: the loop ends
Finish ==
    /\ thread.at = "store" /\ thread.got <= 0
    /\ Stop(thread.got)
    /\ UNCHANGED <<indices, waitForInitialFillSize, threadShutdown, source, posRead, out, result>>

\* a condition variable may wake without a notification
Spurious ==
    \/ /\ reader.at = "wait" /\ reader' = ReaderNotified /\ thread' = thread
       /\ UNCHANGED <<indices, flags, source, posRead, out, result>>
    \/ /\ thread.at = "wait" /\ thread' = ThreadNotified
       /\ UNCHANGED <<indices, flags, source, caller>>

-------------------------------------------------------------------------------

threadProc == Again \/ Quit \/ Fill \/ Store \/ Finish
callerStep == Test \/ Copy \/ StopThread \/ Join

Next ==
    \/ \E length \in Lengths : Read(length)
    \/ Close
    \/ callerStep
    \/ threadProc
    \/ Spurious

\* both threads get to run, and the underlying handler answers
Fairness == WF_vars(threadProc) /\ WF_vars(callerStep)

Safety == Init /\ [][Next]_vars
Spec == Safety /\ Fairness

-------------------------------------------------------------------------------
(* Properties.                                                             *)

\* Every variable has its type; in particular indices stay inside the buffer.
TypeOK ==
    /\ buffer \in [Cells -> Bytes]
    /\ startIndex \in Cells /\ endIndex \in Cells /\ empty \in BOOLEAN
    /\ waitForInitialFillSize \in BOOLEAN /\ eof \in BOOLEAN
    /\ readError \in BOOLEAN /\ threadShutdown \in BOOLEAN
    /\ posRead \in Nat /\ delivered \in 0 .. Len(Source)
    /\ reader \in [at : ReaderStates, length : Nat, seen : Cells]
    /\ thread \in [at : ThreadStates, chunk : 0 .. bufSize, got : -1 .. bufSize]
    /\ out \in Seq(Bytes)
    /\ result \in {"none", "data", "end", "error"}

\* The handler is a byte stream: what the reads return are the bytes of the
\* source, each once and in their order, although the thread writes to the
\* buffer while read copies from it without the mutex; and every read returns.
CallState ==
    CASE reader.at \in {"test", "wait", "copy"} -> "read"
      [] reader.at \in {"close", "join"} -> "close"
      [] OTHER -> reader.at
Stream == INSTANCE ByteStream WITH state <- CallState, want <- reader.length
IsByteStream == Stream!StreamSpec

\* The two threads never wait for each other.  read waits for bytes and the
\* thread for room, on one condition variable whose notify wakes only one.
NeverBothWait == ~(reader.at = "wait" /\ thread.at = "wait")

\* doc/transcoding.rst:208: "fill-size is the amount that has to be filled before
\* sending out data from the buffer"; a source that is shorter is sent anyway.
FilledFirst == out # <<>> => delivered >= initialFillSize \/ eof

===============================================================================
