--------------------------- MODULE IOHandlerProofs ---------------------------
(***************************************************************************)
(* Proofs about the I/O handlers of MCBufferedIOHandler, for any source,   *)
(* sizes, and number of calls.  BufferedIOHandler has its types and        *)
(* implements the safety part of ByteStream; the bytes of CurlIOHandler    *)
(* are the right ones; those of ProcessIOHandler come in their order and   *)
(* whole.                                                                  *)
(***************************************************************************)
EXTENDS MCBufferedIOHandler, TLAPS

-------------------------------------------------------------------------------
(* BufferedIOHandler.                                                      *)

\* bytes in the ring, and bytes behind them that the thread has not yet counted
Filled == IF empty THEN 0 ELSE FillSize(startIndex, endIndex)
Pending == IF thread.at = "store" /\ thread.got > 0 THEN thread.got ELSE 0

\* The piece the thread asks for fits into the free cells behind the ring, and
\* the bytes read is about to copy are in the ring.
RingInv ==
    /\ empty => startIndex = endIndex
    /\ thread.at \in {"fill", "store"} =>
           /\ thread.chunk >= 1
           /\ endIndex + thread.chunk <= bufSize
           /\ Filled + thread.chunk <= bufSize
    /\ thread.at = "store" => thread.got <= thread.chunk
    /\ reader.at = "copy" =>
           /\ ~empty
           /\ FillSize(startIndex, reader.seen) <= FillSize(startIndex, endIndex)

\* A length is asked for exactly while a read is under way.
CallInv ==
    IF reader.at \in {"test", "wait", "copy"} THEN reader.length \in Lengths
                                              ELSE reader.length = 0

\* Every byte delivered is read, in the ring or pending, where it belongs.
FlowInv ==
    /\ posRead + Filled + Pending = delivered
    /\ out = [i \in 1 .. posRead |-> Source[i]]
    /\ \A k \in 0 .. Filled - 1 : buffer[Wrap(startIndex + k)] = Source[posRead + k + 1]
    /\ \A k \in 0 .. Pending - 1 : buffer[endIndex + k] = Source[posRead + Filled + k + 1]

\* The end is told only when the source has delivered everything.
EndInv ==
    /\ eof => thread.at = "stopped" /\ delivered = Len(Source)
    /\ thread.at = "store" /\ thread.got = 0 => delivered = Len(Source)

IInv == TypeOK /\ RingInv /\ CallInv /\ FlowInv /\ EndInv

-------------------------------------------------------------------------------
(* The arithmetic of the ring.                                             *)

LEMMA SizeRange ==
    ASSUME NEW s \in Cells, NEW e \in Cells
    PROVE  FillSize(s, e) \in 1 .. bufSize
BY SizesAssumption DEF FillSize, Cells

LEMMA WrapRange ==
    ASSUME NEW i \in 0 .. 2 * bufSize - 1
    PROVE  Wrap(i) \in Cells
BY SizesAssumption DEF Wrap, Cells

\* Taking d bytes from the front.
LEMMA TakeFront ==
    ASSUME NEW s \in Cells, NEW e \in Cells, NEW d \in 1 .. FillSize(s, e)
    PROVE  /\ Wrap(s + d) \in Cells
           /\ Wrap(s + d) = e <=> d = FillSize(s, e)
           /\ d < FillSize(s, e) => FillSize(Wrap(s + d), e) = FillSize(s, e) - d
           /\ \A k \in 0 .. FillSize(s, e) - d - 1 : Wrap(Wrap(s + d) + k) = Wrap(s + d + k)
BY SizesAssumption DEF FillSize, Wrap, Cells

\* Adding n bytes at the end, to a ring with bytes and to an empty one.
LEMMA AddBack ==
    ASSUME NEW s \in Cells, NEW e \in Cells, NEW n \in 1 .. bufSize,
           e + n <= bufSize, FillSize(s, e) + n <= bufSize
    PROVE  /\ Wrap(e + n) \in Cells
           /\ FillSize(s, Wrap(e + n)) = FillSize(s, e) + n
           /\ \A k \in 0 .. FillSize(s, e) - 1 : Wrap(s + k) \notin e .. e + n - 1
           /\ \A k \in 0 .. n - 1 : Wrap(s + FillSize(s, e) + k) = e + k
BY SizesAssumption DEF FillSize, Wrap, Cells

LEMMA AddFirst ==
    ASSUME NEW e \in Cells, NEW n \in 1 .. bufSize, e + n <= bufSize
    PROVE  /\ Wrap(e + n) \in Cells
           /\ FillSize(e, Wrap(e + n)) = n
           /\ \A k \in 0 .. n - 1 : Wrap(e + k) = e + k
BY SizesAssumption DEF FillSize, Wrap, Cells

\* The room is free and contiguous; none is left only in a full ring.
LEMMA RoomFits ==
    ASSUME NEW s \in Cells, NEW e \in Cells, NEW none \in BOOLEAN, none => s = 0 /\ e = 0
    PROVE  LET room == Room(s, e, none)
               fill == IF none THEN 0 ELSE FillSize(s, e)
           IN /\ room \in 0 .. bufSize
              /\ e + room <= bufSize
              /\ fill + room <= bufSize
BY SizesAssumption DEF Room, FillSize, Cells

LEMMA LeastRange ==
    ASSUME NEW m \in Nat, NEW n \in Nat
    PROVE  /\ Least(m, n) \in Nat /\ Least(m, n) <= m /\ Least(m, n) <= n
           /\ m >= 1 /\ n >= 1 => Least(m, n) >= 1
BY DEF Least

\* A prefix of the source and the bytes that follow it.
LEMMA PrefixConcat ==
    ASSUME NEW m \in Nat, NEW n \in Nat, m + n <= Len(Source),
           NEW c, c = [k \in 1 .. n |-> Source[m + k]]
    PROVE  [i \in 1 .. m |-> Source[i]] \o c = [i \in 1 .. m + n |-> Source[i]]
<1> DEFINE p == [i \in 1 .. m |-> Source[i]]
           r == [i \in 1 .. m + n |-> Source[i]]
<1>1. p \in Seq(Bytes) /\ Len(p) = m
  BY SizesAssumption
<1>2. c \in Seq(Bytes) /\ Len(c) = n
  BY SizesAssumption
<1>3. r \in Seq(Bytes) /\ Len(r) = m + n
  BY SizesAssumption
<1>4. Len(p \o c) = m + n /\ p \o c \in Seq(Bytes)
  BY <1>1, <1>2
<1>5. ASSUME NEW i \in 1 .. m + n PROVE (p \o c)[i] = r[i]
  <2>1. CASE i <= m
    BY <1>1, <1>2, <2>1
  <2>2. CASE i > m
    <3>1. (p \o c)[i] = c[i - m]
      BY <1>1, <1>2, <2>2
    <3>2. i - m \in 1 .. n /\ m + (i - m) = i
      BY <2>2
    <3> QED BY <3>1, <3>2
  <2> QED BY <2>1, <2>2
<1> DEFINE q == p \o c
<1>6. q \in Seq(Bytes) /\ Len(q) = Len(r) /\ \A i \in 1 .. Len(r) : q[i] = r[i]
  BY <1>3, <1>4, <1>5
<1>7. r \in Seq(Bytes)
  BY <1>3
<1> HIDE DEF q, r
<1>8. q = r
  BY <1>6, <1>7
<1> QED BY <1>8 DEF q, r

-------------------------------------------------------------------------------
(* Every action keeps the invariant.                                       *)

\* A notification moves a waiting thread or reader and nothing else.
LEMMA ThreadTold ==
    ASSUME TypeOK
    PROVE  /\ ThreadNotified \in [at : ThreadStates, chunk : 0 .. bufSize, got : -1 .. bufSize]
           /\ ThreadNotified.chunk = thread.chunk /\ ThreadNotified.got = thread.got
           /\ ThreadNotified.at # thread.at => thread.at = "wait" /\ ThreadNotified.at = "woken"
BY DEF TypeOK, ThreadNotified, ThreadStates

LEMMA ReaderTold ==
    ASSUME TypeOK
    PROVE  /\ ReaderNotified \in [at : ReaderStates, length : Nat, seen : Cells]
           /\ ReaderNotified.length = reader.length /\ ReaderNotified.seen = reader.seen
           /\ ReaderNotified.at # reader.at => reader.at = "wait" /\ ReaderNotified.at = "test"
BY DEF TypeOK, ReaderNotified, ReaderStates

\* What Test makes of the caller.
LEMMA Tested ==
    ASSUME TypeOK, Test
    PROVE  \/ reader' = Reader("wait", reader.length, reader.seen) /\ Blocked
           \/ reader' = Reader("idle", 0, 0)
           \/ /\ reader' = Reader("copy", reader.length, endIndex)
              /\ ~Blocked /\ ~readError /\ ~threadShutdown /\ ~(empty /\ eof)
<1>1. reader \in [at : ReaderStates, length : Nat, seen : Cells]
  BY DEF TypeOK
<1>2. [reader EXCEPT !.at = "wait"] = Reader("wait", reader.length, reader.seen)
  BY <1>1 DEF Reader
<1> DEFINE r == [reader EXCEPT !.at = "copy"]
<1>3. r = Reader("copy", reader.length, reader.seen)
  BY <1>1 DEF Reader
<1>4. [reader EXCEPT !.at = "copy", !.seen = endIndex] = [r EXCEPT !.seen = endIndex]
  OBVIOUS
<1> HIDE DEF r
<1>5. [r EXCEPT !.seen = endIndex] = Reader("copy", reader.length, endIndex)
  BY <1>3 DEF Reader
<1> QED BY <1>2, <1>4, <1>5 DEF Test, Return

LEMMA InitKeeps == Init => IInv
<1> SUFFICES ASSUME Init PROVE IInv
  OBVIOUS
<1>1. TypeOK
  <2>1. 0 \in Cells /\ bufSize \in Nat
    BY SizesAssumption DEF Cells
  <2>2. out \in Seq(Bytes) /\ delivered \in 0 .. Len(Source)
    BY SizesAssumption DEF Init
  <2> QED BY <2>1, <2>2 DEF Init, TypeOK, Reader, Thread, ReaderStates, ThreadStates
<1>2. Filled = 0 /\ Pending = 0
  BY DEF Init, Filled, Pending, Thread
<1>3. out = [i \in 1 .. posRead |-> Source[i]]
  BY DEF Init
<1>4. RingInv /\ CallInv /\ EndInv
  BY DEF Init, RingInv, CallInv, EndInv, Reader, Thread
<1>5. FlowInv
  BY <1>2, <1>3 DEF Init, FlowInv
<1> QED BY <1>1, <1>4, <1>5 DEF IInv

\* Steps that move only the caller, or end the thread: ring and bytes stay.
LEMMA StillFlows ==
    ASSUME IInv, UNCHANGED <<indices, source, posRead, out>>, Pending' = Pending
    PROVE  FlowInv' /\ Filled' = Filled
<1>1. Filled' = Filled
  BY DEF Filled, indices
<1> QED BY <1>1 DEF IInv, FlowInv, indices, source

LEMMA CallerKeeps ==
    ASSUME IInv, (\E length \in Lengths : Read(length)) \/ Test \/ Close \/ StopThread \/ Join
    PROVE  IInv'
<1> USE DEF IInv
<1>1. UNCHANGED <<indices, source, posRead, out, eof, readError>>
  BY DEF Read, Test, Close, StopThread, Join, flags
<1>2. /\ thread' \in [at : ThreadStates, chunk : 0 .. bufSize, got : -1 .. bufSize]
      /\ thread'.chunk = thread.chunk /\ thread'.got = thread.got
      /\ thread'.at # thread.at => thread.at = "wait" /\ thread'.at = "woken"
  BY ThreadTold DEF Read, Test, Close, StopThread, Join, TypeOK
<1>3. 0 \in Cells /\ Lengths \subseteq Nat
  BY SizesAssumption DEF Cells
<1>4. /\ reader' \in [at : ReaderStates, length : Nat, seen : Cells]
      /\ CallInv'
  <2>1. CASE Test
    <3>1. reader.length \in Nat /\ reader.seen \in Cells /\ endIndex \in Cells
      BY DEF TypeOK
    <3>2. reader.length \in Lengths
      BY <2>1 DEF Test, CallInv
    <3> QED BY <1>3, <2>1, <3>1, <3>2, Tested DEF Reader, ReaderStates, CallInv
  <2>2. CASE \E length \in Lengths : Read(length)
    BY <1>3, <2>2 DEF Read, Reader, ReaderStates, CallInv
  <2>3. CASE Close \/ StopThread \/ Join
    BY <1>3, <2>3 DEF Close, StopThread, Join, Reader, ReaderStates, CallInv
  <2> QED BY <2>1, <2>2, <2>3
<1>5. TypeOK'
  <2>1. threadShutdown' \in BOOLEAN /\ waitForInitialFillSize' \in BOOLEAN
    BY DEF Read, Test, Close, StopThread, Join, TypeOK, flags
  <2>2. result' \in {"none", "data", "end", "error"}
    BY DEF Read, Test, Close, StopThread, Join, TypeOK, Return
  <2> QED BY <1>1, <1>2, <1>4, <2>1, <2>2 DEF TypeOK, indices, source
<1>7. Pending' = Pending
  BY <1>2 DEF Pending
<1>8. FlowInv' /\ Filled' = Filled
  BY <1>1, <1>7, StillFlows
<1>9. EndInv'
  BY <1>1, <1>2 DEF EndInv, source
<1>10. RingInv'
  <2>1. reader'.at = "copy" =>
            ~empty /\ FillSize(startIndex, reader'.seen) <= FillSize(startIndex, endIndex)
    <3>1. CASE Test
      <4>1. reader'.at = "copy" => ~Blocked /\ ~(empty /\ eof) /\ reader'.seen = endIndex
        BY <3>1, Tested DEF Reader
      <4>2. reader'.at = "copy" => ~readError /\ ~threadShutdown
        BY <3>1, Tested DEF Reader
      <4>3. FillSize(startIndex, endIndex) \in Nat
        BY SizeRange DEF TypeOK
      <4> QED BY <4>1, <4>2, <4>3 DEF Blocked
    <3>2. CASE ~Test
      BY <3>2 DEF Read, Close, StopThread, Join, Reader
    <3> QED BY <3>1, <3>2
  <2> QED BY <1>1, <1>2, <1>8, <2>1 DEF RingInv, indices
<1> QED BY <1>4, <1>5, <1>8, <1>9, <1>10

\* What Copy does to the ring, seen from its front.
LEMMA CopyTakes ==
    ASSUME IInv, Copy
    PROVE  /\ didRead \in 1 .. FillSize(startIndex, endIndex)
           /\ didRead <= reader.length
           /\ ~empty /\ Filled = FillSize(startIndex, endIndex)
           /\ Filled' = Filled - didRead
           /\ startIndex' = Wrap(startIndex + didRead) /\ startIndex' \in Cells
           /\ empty' => startIndex' = endIndex'
           /\ Copied = [k \in 1 .. didRead |-> Source[posRead + k]]
<1> USE DEF IInv
<1> DEFINE F == FillSize(startIndex, endIndex)
           seenF == FillSize(startIndex, reader.seen)
<1>1. startIndex \in Cells /\ endIndex \in Cells /\ reader.seen \in Cells
  BY DEF TypeOK
<1>2. F \in 1 .. bufSize /\ seenF \in 1 .. bufSize
  BY <1>1, SizeRange
<1>3. ~empty /\ seenF <= F
  BY DEF Copy, RingInv
<1>4. reader.length \in Lengths /\ reader.length \in Nat /\ reader.length >= 1
  <2>1. reader.length \in Lengths
    BY DEF Copy, CallInv
  <2>2. reader.length \in Nat \ {0}
    BY <2>1, SizesAssumption
  <2> QED BY <2>1, <2>2
<1>5. didRead \in Nat /\ didRead <= reader.length /\ didRead <= seenF /\ didRead >= 1
  <2>1. seenF \in Nat /\ seenF >= 1
    BY <1>2, SizesAssumption
  <2> HIDE DEF seenF
  <2>2. didRead = Least(reader.length, seenF)
    BY DEF didRead, seenF
  <2> QED BY <2>1, <2>2, <1>4, LeastRange
<1>6. didRead \in 1 .. F
  <2> HIDE DEF F, seenF
  <2> QED BY <1>2, <1>3, <1>5, SizesAssumption
<1>7. Filled = F
  BY <1>3 DEF Filled
<1>8. /\ startIndex' = Wrap(startIndex + didRead) /\ endIndex' = endIndex
      /\ empty' <=> startIndex' = endIndex
  <2>1. empty' = (empty \/ startIndex' = endIndex)
    BY DEF Copy
  <2> QED BY <1>3, <2>1 DEF Copy
<1>9. /\ Wrap(startIndex + didRead) \in Cells
      /\ Wrap(startIndex + didRead) = endIndex <=> didRead = F
      /\ didRead < F => FillSize(Wrap(startIndex + didRead), endIndex) = F - didRead
  BY <1>1, <1>6, TakeFront
<1>10. Filled' = F - didRead
  <2>1. Filled' = IF empty' THEN 0 ELSE FillSize(startIndex', endIndex')
    BY DEF Filled
  <2> HIDE DEF F
  <2>2. CASE didRead = F
    <3>1. F - didRead = 0
      BY <1>2, <2>2, SizesAssumption
    <3> QED BY <1>8, <1>9, <2>1, <2>2, <3>1
  <2>3. CASE didRead # F
    <3>1. didRead < F
      BY <1>6, <2>3, <1>2, SizesAssumption
    <3> QED BY <1>8, <1>9, <2>1, <2>3, <3>1
  <2> QED BY <2>2, <2>3
<1>11. Copied = [k \in 1 .. didRead |-> Source[posRead + k]]
  <2>1. ASSUME NEW k \in 1 .. didRead
        PROVE  buffer[Wrap(startIndex + k - 1)] = Source[posRead + k]
    <3> HIDE DEF F, seenF
    <3>1. k - 1 \in 0 .. Filled - 1
      BY <1>6, <1>7, <1>2, SizesAssumption
    <3>2. buffer[Wrap(startIndex + (k - 1))] = Source[posRead + (k - 1) + 1]
      BY <3>1 DEF FlowInv
    <3>3. startIndex + (k - 1) = startIndex + k - 1 /\ posRead + (k - 1) + 1 = posRead + k
      BY <1>1, SizesAssumption DEF TypeOK, Cells
    <3> QED BY <3>2, <3>3
  <2> QED BY <2>1 DEF Copied
<1> HIDE DEF F, seenF
<1>12. Filled' = Filled - didRead
  BY <1>7, <1>10
<1> QED BY <1>3, <1>5, <1>6, <1>7, <1>8, <1>9, <1>11, <1>12 DEF F

LEMMA CopyKeeps ==
    ASSUME IInv, Copy
    PROVE  IInv'
<1> USE DEF IInv
<1>1. /\ UNCHANGED <<endIndex, flags, source>>
      /\ posRead' = posRead + didRead /\ out' = out \o Copied
      /\ reader' = Reader("idle", 0, 0) /\ result' = "data"
      /\ empty' \in BOOLEAN
  BY DEF Copy, Return
<1>2. /\ thread' \in [at : ThreadStates, chunk : 0 .. bufSize, got : -1 .. bufSize]
      /\ thread'.chunk = thread.chunk /\ thread'.got = thread.got
      /\ thread'.at # thread.at => thread.at = "wait" /\ thread'.at = "woken"
  <2>1. thread' = ThreadNotified \/ thread' = thread
    BY DEF Copy, NotifyAfterRead
  <2> QED BY <2>1, ThreadTold DEF TypeOK
<1>3. Pending' = Pending /\ Pending \in Nat
  BY <1>2, SizesAssumption DEF Pending, TypeOK
<1>4. /\ startIndex \in Cells /\ endIndex \in Cells /\ posRead \in Nat
      /\ delivered \in 0 .. Len(Source) /\ Len(Source) \in Nat /\ bufSize \in Nat
  BY SizesAssumption DEF TypeOK
<1>5. FillSize(startIndex, endIndex) \in 1 .. bufSize
  BY <1>4, SizeRange
<1>6. /\ didRead \in Nat /\ didRead >= 1 /\ didRead <= Filled /\ Filled \in Nat
      /\ Filled <= bufSize /\ Filled' = Filled - didRead
  BY <1>4, <1>5, CopyTakes
<1>7. posRead + Filled + Pending = delivered
  BY DEF FlowInv
<1>8. posRead' + Filled' + Pending' = delivered' /\ posRead + didRead <= Len(Source)
  BY <1>1, <1>3, <1>4, <1>6, <1>7 DEF source
<1>9. out' = [i \in 1 .. posRead' |-> Source[i]]
  <2>1. out = [i \in 1 .. posRead |-> Source[i]]
    BY DEF FlowInv
  <2>2. Copied = [k \in 1 .. didRead |-> Source[posRead + k]]
    BY CopyTakes
  <2> QED BY <1>1, <1>4, <1>6, <1>8, <2>1, <2>2, PrefixConcat
<1>10. TypeOK'
  <2>1. out' \in Seq(Bytes)
    BY <1>1, <1>4, <1>6, <1>8, <1>9, SizesAssumption
  <2>2. posRead' \in Nat /\ startIndex' \in Cells
    BY <1>1, <1>4, <1>6, CopyTakes
  <2>3. reader' \in [at : ReaderStates, length : Nat, seen : Cells]
    BY <1>1, SizesAssumption DEF Reader, ReaderStates, Cells
  <2> QED BY <1>1, <1>2, <2>1, <2>2, <2>3 DEF TypeOK, flags, source
<1>11. CallInv'
  BY <1>1 DEF CallInv, Reader
<1>12. EndInv'
  BY <1>1, <1>2 DEF EndInv, flags, source
<1>13. RingInv'
  <2>1. empty' => startIndex' = endIndex'
    BY CopyTakes
  <2>2. reader'.at # "copy"
    BY <1>1 DEF Reader
  <2>3. thread'.at \in {"fill", "store"} =>
           /\ thread'.chunk >= 1 /\ endIndex' + thread'.chunk <= bufSize
           /\ Filled' + thread'.chunk <= bufSize
    <3>1. thread.chunk \in Nat
      BY <1>4 DEF TypeOK
    <3>2. thread'.at \in {"fill", "store"} =>
             /\ thread.chunk >= 1 /\ endIndex + thread.chunk <= bufSize
             /\ Filled + thread.chunk <= bufSize
      BY <1>2 DEF RingInv
    <3> QED BY <1>1, <1>2, <1>4, <1>6, <3>1, <3>2
  <2>4. thread'.at = "store" => thread'.got <= thread'.chunk
    BY <1>2 DEF RingInv
  <2> QED BY <2>1, <2>2, <2>3, <2>4 DEF RingInv
<1>14. FlowInv'
  <2>1. ASSUME NEW k \in 0 .. Filled' - 1
        PROVE  buffer[Wrap(startIndex' + k)] = Source[posRead' + k + 1]
    <3>1. didRead + k \in 0 .. Filled - 1
      BY <1>6
    <3>2. buffer[Wrap(startIndex + (didRead + k))] = Source[posRead + (didRead + k) + 1]
      BY <3>1 DEF FlowInv
    <3>3. Wrap(startIndex' + k) = Wrap(startIndex + didRead + k)
      <4>1. Filled = FillSize(startIndex, endIndex) /\ startIndex' = Wrap(startIndex + didRead)
        BY CopyTakes
      <4>2. didRead \in 1 .. FillSize(startIndex, endIndex)
        BY CopyTakes
      <4>3. k \in 0 .. FillSize(startIndex, endIndex) - didRead - 1
        BY <1>6, <4>1
      <4> QED BY <1>4, <4>1, <4>2, <4>3, TakeFront
    <3>4. startIndex \in Nat
      BY <1>4 DEF Cells
    <3>5. startIndex + (didRead + k) = startIndex + didRead + k
      BY <1>6, <3>4
    <3>6. posRead + (didRead + k) + 1 = posRead' + k + 1
      BY <1>1, <1>4, <1>6
    <3> QED BY <3>2, <3>3, <3>5, <3>6
  <2>2. \A k \in 0 .. Pending' - 1 :
           buffer[endIndex + k] = Source[posRead' + Filled' + k + 1]
    <3>1. posRead' + Filled' = posRead + Filled
      BY <1>1, <1>4, <1>6
    <3> QED BY <1>3, <3>1 DEF FlowInv
  <2>3. buffer' = buffer /\ endIndex' = endIndex
    BY <1>1 DEF source
  <2> QED BY <1>8, <1>9, <2>1, <2>2, <2>3 DEF FlowInv
<1> QED BY <1>10, <1>11, <1>12, <1>13, <1>14

\* A turn of the loop asks for a piece that fits behind the bytes in the ring.
LEMMA TurnFits ==
    ASSUME NEW s \in Cells, NEW e \in Cells, NEW none \in BOOLEAN, Turn(s, e, none)
    PROVE  /\ startIndex' = IF none THEN 0 ELSE s
           /\ endIndex' = IF none THEN 0 ELSE e
           /\ startIndex' \in Cells /\ endIndex' \in Cells /\ empty' = none
           /\ Filled' = IF none THEN 0 ELSE FillSize(s, e)
           /\ thread' \in [at : ThreadStates, chunk : 0 .. bufSize, got : -1 .. bufSize]
           /\ thread'.at \in {"wait", "fill"} /\ thread'.got = 0
           /\ thread'.at = "fill" => /\ thread'.chunk >= 1
                                     /\ endIndex' + thread'.chunk <= bufSize
                                     /\ Filled' + thread'.chunk <= bufSize
<1> DEFINE room == Room(startIndex', endIndex', none)
           chunk == Least(maxChunkSize, room)
<1>1. /\ startIndex' = IF none THEN 0 ELSE s
      /\ endIndex' = IF none THEN 0 ELSE e
      /\ empty' = none
      /\ thread' = IF room = 0 THEN Thread("wait", 0, 0) ELSE Thread("fill", chunk, 0)
  BY DEF Turn
<1>2. startIndex' \in Cells /\ endIndex' \in Cells
  BY <1>1, SizesAssumption DEF Cells
<1>3. Filled' = IF none THEN 0 ELSE FillSize(startIndex', endIndex')
  BY <1>1 DEF Filled
<1>4. room \in 0 .. bufSize /\ endIndex' + room <= bufSize /\ Filled' + room <= bufSize
  <2>1. none => startIndex' = 0 /\ endIndex' = 0
    BY <1>1
  <2> QED BY <1>2, <1>3, <2>1, RoomFits
<1>5. FillSize(startIndex', endIndex') \in 1 .. bufSize
  BY <1>2, SizeRange
<1>6. Filled' \in Nat /\ endIndex' \in Nat
  BY <1>2, <1>3, <1>5, SizesAssumption DEF Cells
<1> HIDE DEF room
<1>7. chunk \in 0 .. bufSize /\ chunk <= room /\ (room # 0 => chunk >= 1)
  <2>1. room \in Nat /\ maxChunkSize \in Nat /\ maxChunkSize >= 1
    BY <1>4, SizesAssumption
  <2>2. /\ chunk \in Nat /\ chunk <= room
        /\ maxChunkSize >= 1 /\ room >= 1 => chunk >= 1
    BY <2>1, LeastRange
  <2> HIDE DEF chunk
  <2> QED BY <1>4, <2>1, <2>2, SizesAssumption
<1> HIDE DEF chunk
<1>8. endIndex' + chunk <= bufSize /\ Filled' + chunk <= bufSize
  <2>1. bufSize \in Nat
    BY SizesAssumption
  <2>2. chunk \in Nat /\ room \in Nat /\ chunk <= room
    BY <1>4, <1>7, <2>1
  <2>3. ASSUME NEW m \in Nat, m + room <= bufSize PROVE m + chunk <= bufSize
    BY <2>1, <2>2, <2>3
  <2> QED BY <1>4, <1>6, <2>3
<1>9. CASE room = 0
  <2>1. thread' = Thread("wait", 0, 0)
    BY <1>1, <1>9
  <2> QED BY <1>1, <1>2, <1>3, <2>1, SizesAssumption DEF Thread, ThreadStates
<1>10. CASE room # 0
  <2>1. thread' = Thread("fill", chunk, 0)
    BY <1>1, <1>10
  <2>2. thread' \in [at : ThreadStates, chunk : 0 .. bufSize, got : -1 .. bufSize]
    BY <1>7, <2>1, SizesAssumption DEF Thread, ThreadStates
  <2>3. thread'.at = "fill" /\ thread'.chunk = chunk /\ thread'.got = 0
    BY <2>1 DEF Thread
  <2> QED BY <1>1, <1>2, <1>3, <1>7, <1>8, <1>10, <2>2, <2>3
<1> QED BY <1>9, <1>10

LEMMA AgainKeeps ==
    ASSUME IInv, Again
    PROVE  IInv'
<1> USE DEF IInv
<1>1. /\ startIndex \in Cells /\ endIndex \in Cells /\ empty \in BOOLEAN
      /\ Turn(startIndex, endIndex, empty)
      /\ UNCHANGED <<flags, source, caller>>
  BY DEF Again, TypeOK
<1>2. /\ startIndex' = IF empty THEN 0 ELSE startIndex
      /\ endIndex' = IF empty THEN 0 ELSE endIndex
      /\ startIndex' \in Cells /\ endIndex' \in Cells /\ empty' = empty
      /\ Filled' = Filled
      /\ thread' \in [at : ThreadStates, chunk : 0 .. bufSize, got : -1 .. bufSize]
      /\ thread'.at \in {"wait", "fill"} /\ thread'.got = 0
      /\ thread'.at = "fill" => /\ thread'.chunk >= 1
                                /\ endIndex' + thread'.chunk <= bufSize
                                /\ Filled' + thread'.chunk <= bufSize
  BY <1>1, TurnFits DEF Filled
<1>3. TypeOK'
  BY <1>1, <1>2 DEF TypeOK, flags, source, caller
<1>4. CallInv'
  BY <1>1 DEF CallInv, caller
<1>5. EndInv'
  BY <1>1, <1>2 DEF EndInv, flags, source, Again
<1>6. RingInv'
  <2>1. reader.at = "copy" => startIndex' = startIndex /\ endIndex' = endIndex
    BY <1>2 DEF RingInv
  <2> QED BY <1>1, <1>2, <2>1 DEF RingInv, caller
<1>7. FlowInv'
  <2>1. Pending = 0 /\ Pending' = 0
    BY <1>2 DEF Pending, Again
  <2>2. \A k \in 0 .. Filled' - 1 : buffer[Wrap(startIndex' + k)] = Source[posRead' + k + 1]
    <3>1. CASE empty
      BY <1>2, <3>1 DEF Filled
    <3>2. CASE ~empty
      BY <1>1, <1>2, <3>2 DEF FlowInv, caller
    <3> QED BY <3>1, <3>2
  <2>3. \A k \in 0 .. Pending' - 1 :
           buffer'[endIndex' + k] = Source[posRead' + Filled' + k + 1]
    BY <2>1
  <2>4. posRead' + Filled' + Pending' = delivered'
    BY <1>1, <1>2, <2>1 DEF FlowInv, source, caller
  <2>5. out' = [i \in 1 .. posRead' |-> Source[i]]
    BY <1>1 DEF FlowInv, caller
  <2> QED BY <1>1, <2>2, <2>3, <2>4, <2>5 DEF FlowInv, source
<1> QED BY <1>3, <1>4, <1>5, <1>6, <1>7

LEMMA FillKeeps ==
    ASSUME IInv, Fill
    PROVE  IInv'
<1> USE DEF IInv
<1>1. UNCHANGED <<indices, flags, caller>> /\ thread.at = "fill"
  BY DEF Fill
<1>2. /\ endIndex \in Cells /\ startIndex \in Cells /\ empty \in BOOLEAN /\ posRead \in Nat
      /\ delivered \in 0 .. Len(Source) /\ Len(Source) \in Nat /\ bufSize \in Nat
      /\ thread.chunk \in 0 .. bufSize
  BY SizesAssumption DEF TypeOK
<1>3. Filled' = Filled /\ Filled \in 0 .. bufSize
  BY <1>1, <1>2, SizeRange DEF Filled, indices
<1>4. /\ thread.chunk >= 1 /\ endIndex + thread.chunk <= bufSize
      /\ Filled + thread.chunk <= bufSize
  BY <1>1 DEF RingInv
<1>5. posRead + Filled = delivered
  <2>1. Pending = 0
    BY <1>1 DEF Pending
  <2> QED BY <2>1, <1>2, <1>3 DEF FlowInv
<1>6. out' = [i \in 1 .. posRead' |-> Source[i]] /\ posRead' = posRead
  BY <1>1 DEF FlowInv, caller
<1>7. CallInv'
  BY <1>1 DEF CallInv, caller
<1>8. ~eof
  BY <1>1 DEF EndInv
<1>9. CASE /\ thread' \in {Thread("store", thread.chunk, 0), Thread("store", thread.chunk, -1)}
           /\ UNCHANGED source
           /\ thread' = Thread("store", thread.chunk, 0) => delivered = Len(Source)
  <2>1. /\ thread' \in [at : ThreadStates, chunk : 0 .. bufSize, got : -1 .. bufSize]
        /\ thread'.at = "store" /\ thread'.chunk = thread.chunk /\ thread'.got <= 0
        /\ thread'.got = 0 => delivered = Len(Source)
    BY <1>2, <1>9 DEF Thread, ThreadStates
  <2>2. Pending' = 0 /\ Pending = 0
    BY <1>1, <2>1 DEF Pending
  <2>3. TypeOK'
    BY <1>1, <1>9, <2>1 DEF TypeOK, indices, flags, source, caller
  <2>4. RingInv'
    BY <1>1, <1>2, <1>3, <1>4, <2>1 DEF RingInv, indices, caller
  <2>5. EndInv'
    BY <1>1, <1>8, <1>9, <2>1 DEF EndInv, flags, source
  <2>6. UNCHANGED <<indices, source, posRead, out>>
    BY <1>1, <1>9 DEF caller
  <2>7. FlowInv'
    BY <2>2, <2>6, StillFlows
  <2> QED BY <1>7, <2>3, <2>4, <2>5, <2>7
<1>10. ASSUME NEW n \in 1 .. Least(thread.chunk, Len(Source) - delivered),
              buffer' = [i \in Cells |-> IF i \in endIndex .. endIndex + n - 1
                                         THEN Source[delivered + i - endIndex + 1]
                                         ELSE buffer[i]],
              delivered' = delivered + n,
              thread' = Thread("store", thread.chunk, n)
       PROVE  IInv'
  <2>1. n \in Nat /\ n >= 1 /\ n <= thread.chunk /\ delivered + n <= Len(Source)
    <3>1. thread.chunk \in Nat /\ Len(Source) - delivered \in Nat
      BY <1>2
    <3>2. /\ Least(thread.chunk, Len(Source) - delivered) <= thread.chunk
          /\ Least(thread.chunk, Len(Source) - delivered) <= Len(Source) - delivered
          /\ Least(thread.chunk, Len(Source) - delivered) \in Nat
      BY <3>1, LeastRange
    <3> QED BY <1>2, <3>1, <3>2
  <2>2. endIndex + n <= bufSize /\ Filled + n <= bufSize /\ n \in 1 .. bufSize
    BY <1>2, <1>3, <1>4, <2>1 DEF Cells
  <2>3. /\ thread' \in [at : ThreadStates, chunk : 0 .. bufSize, got : -1 .. bufSize]
        /\ thread'.at = "store" /\ thread'.chunk = thread.chunk /\ thread'.got = n
    BY <1>2, <1>10, <2>2 DEF Thread, ThreadStates
  <2>4. Pending' = n
    BY <2>1, <2>3 DEF Pending
  <2>5. buffer' \in [Cells -> Bytes] /\ delivered' \in 0 .. Len(Source)
    <3>1. ASSUME NEW i \in Cells, i \in endIndex .. endIndex + n - 1
          PROVE  Source[delivered + i - endIndex + 1] \in Bytes
      <4>1. delivered + i - endIndex + 1 \in 1 .. Len(Source)
        BY <1>2, <2>1, <3>1 DEF Cells
      <4> QED BY <4>1, SizesAssumption
    <3>2. \A i \in Cells : buffer[i] \in Bytes
      BY DEF TypeOK
    <3> QED BY <1>2, <1>10, <2>1, <3>1, <3>2
  <2>6. TypeOK'
    BY <1>1, <2>3, <2>5 DEF TypeOK, indices, flags, caller
  <2>7. RingInv'
    BY <1>1, <1>2, <1>3, <1>4, <2>1, <2>3 DEF RingInv, indices, caller
  <2>8. EndInv'
    BY <1>1, <1>8, <2>1, <2>3 DEF EndInv, flags
  <2>9. FlowInv'
    <3>1. posRead' + Filled' + Pending' = delivered'
      BY <1>2, <1>3, <1>5, <1>6, <1>10, <2>1, <2>4
    <3>2. ASSUME NEW k \in 0 .. Filled - 1
          PROVE  buffer'[Wrap(startIndex + k)] = Source[posRead + k + 1]
      <4>1. ~empty /\ Filled = FillSize(startIndex, endIndex)
        BY <1>3, <3>2 DEF Filled
      <4>2. Wrap(startIndex + k) \notin endIndex .. endIndex + n - 1
        BY <1>2, <2>2, <3>2, <4>1, AddBack
      <4>3. Wrap(startIndex + k) \in Cells
        <5>1. startIndex + k \in 0 .. 2 * bufSize - 1
          BY <1>2, <1>3, <3>2 DEF Cells
        <5> QED BY <5>1, WrapRange
      <4>4. buffer[Wrap(startIndex + k)] = Source[posRead + k + 1]
        BY <3>2 DEF FlowInv
      <4> QED BY <1>10, <4>2, <4>3, <4>4
    <3>3. ASSUME NEW k \in 0 .. n - 1
          PROVE  buffer'[endIndex + k] = Source[posRead + Filled + k + 1]
      <4>1. endIndex + k \in Cells /\ endIndex + k \in endIndex .. endIndex + n - 1
        BY <1>2, <2>1, <2>2, <3>3 DEF Cells
      <4>2. delivered + (endIndex + k) - endIndex + 1 = posRead + Filled + k + 1
        BY <1>2, <1>3, <1>5, <3>3 DEF Cells
      <4> QED BY <1>10, <4>1, <4>2
    <3> QED BY <1>1, <1>3, <1>6, <2>4, <3>1, <3>2, <3>3 DEF FlowInv, indices
  <2> QED BY <1>7, <2>6, <2>7, <2>8, <2>9
<1>11. CASE \E n \in 1 .. Least(thread.chunk, Len(Source) - delivered) :
             /\ buffer' = [i \in Cells |-> IF i \in endIndex .. endIndex + n - 1
                                           THEN Source[delivered + i - endIndex + 1]
                                           ELSE buffer[i]]
             /\ delivered' = delivered + n
             /\ thread' = Thread("store", thread.chunk, n)
  BY <1>10, <1>11
<1>12. CASE delivered = Len(Source) /\ thread' = Thread("store", thread.chunk, 0)
            /\ UNCHANGED source
  BY <1>9, <1>12
<1>13. CASE thread' = Thread("store", thread.chunk, -1) /\ UNCHANGED source
  <2>1. Thread("store", thread.chunk, -1) # Thread("store", thread.chunk, 0)
    BY DEF Thread
  <2> QED BY <1>9, <1>13, <2>1
<1> QED BY <1>11, <1>12, <1>13 DEF Fill

\* What Store does to the ring: the pending bytes join it.
LEMMA StoreAdds ==
    ASSUME IInv, Store
    PROVE  /\ startIndex' = startIndex /\ endIndex' = Wrap(endIndex + thread.got)
           /\ endIndex' \in Cells /\ empty' = FALSE
           /\ thread.got \in 1 .. bufSize /\ Pending = thread.got
           /\ Filled \in 0 .. bufSize
           /\ Filled' = Filled + thread.got /\ Pending' = 0
           /\ thread' \in [at : ThreadStates, chunk : 0 .. bufSize, got : -1 .. bufSize]
           /\ thread'.at # "store"
           /\ thread'.at = "fill" => /\ thread'.chunk >= 1
                                     /\ endIndex' + thread'.chunk <= bufSize
                                     /\ Filled' + thread'.chunk <= bufSize
           /\ \A k \in 0 .. Filled - 1 : Wrap(startIndex + k) \notin endIndex .. endIndex + thread.got - 1
           /\ \A k \in 0 .. thread.got - 1 : Wrap(startIndex + Filled + k) = endIndex + k
<1> USE DEF IInv
<1> DEFINE end == Wrap(endIndex + thread.got)
<1>1. /\ startIndex \in Cells /\ endIndex \in Cells /\ empty \in BOOLEAN
      /\ thread.at = "store" /\ thread.got \in 1 .. bufSize /\ bufSize \in Nat
      /\ thread.chunk \in Nat
  BY SizesAssumption DEF TypeOK, Store
<1>2. Filled \in 0 .. bufSize
  BY <1>1, SizeRange DEF Filled
<1>3. endIndex + thread.got <= bufSize /\ Filled + thread.got <= bufSize
  <2>1. endIndex + thread.chunk <= bufSize /\ Filled + thread.chunk <= bufSize
    BY <1>1 DEF RingInv
  <2>2. thread.got <= thread.chunk
    BY <1>1 DEF RingInv
  <2> QED BY <1>1, <1>2, <2>1, <2>2 DEF Cells
<1>4. /\ end \in Cells /\ FillSize(startIndex, end) = Filled + thread.got
      /\ \A k \in 0 .. Filled - 1 : Wrap(startIndex + k) \notin endIndex .. endIndex + thread.got - 1
      /\ \A k \in 0 .. thread.got - 1 : Wrap(startIndex + Filled + k) = endIndex + k
  <2>1. CASE empty
    <3>1. startIndex = endIndex /\ Filled = 0
      BY <2>1 DEF RingInv, Filled
    <3>2. /\ end \in Cells /\ FillSize(endIndex, end) = thread.got
          /\ \A k \in 0 .. thread.got - 1 : Wrap(endIndex + k) = endIndex + k
      BY <1>1, <1>3, AddFirst
    <3> HIDE DEF end
    <3>3. endIndex \in Nat
      BY <1>1 DEF Cells
    <3>4. endIndex + 0 = endIndex /\ 0 + thread.got = thread.got
      BY <1>1, <3>3
    <3>5. \A k \in 0 .. Filled - 1 : FALSE
      BY <3>1
    <3> QED BY <3>1, <3>2, <3>4, <3>5
  <2>2. CASE ~empty
    <3>1. Filled = FillSize(startIndex, endIndex)
      BY <2>2 DEF Filled
    <3> QED BY <1>1, <1>3, <3>1, AddBack
  <2> QED BY <2>1, <2>2
<1>5. Pending = thread.got
  BY <1>1 DEF Pending
<1>6. CASE threadShutdown
  <2>1. /\ endIndex' = end /\ startIndex' = startIndex /\ empty' = FALSE
        /\ thread' = Thread("stopped", 0, 0)
    BY <1>6 DEF Store
  <2>2. Filled' = FillSize(startIndex, end)
    BY <2>1 DEF Filled
  <2>3. /\ thread' \in [at : ThreadStates, chunk : 0 .. bufSize, got : -1 .. bufSize]
        /\ thread'.at = "stopped"
    BY <1>1, <2>1 DEF Thread, ThreadStates
  <2>4. Pending' = 0
    BY <2>3 DEF Pending
  <2> HIDE DEF end
  <2>5. endIndex' \in Cells /\ Filled' = Filled + thread.got
    BY <1>4, <2>1, <2>2
  <2> QED BY <1>1, <1>2, <1>4, <1>5, <2>1, <2>3, <2>4, <2>5 DEF end
<1>7. CASE ~threadShutdown
  <2>1. Turn(startIndex, end, FALSE)
    BY <1>7 DEF Store
  <2>2. /\ startIndex' = startIndex /\ endIndex' = end /\ empty' = FALSE
        /\ Filled' = FillSize(startIndex, end)
        /\ thread' \in [at : ThreadStates, chunk : 0 .. bufSize, got : -1 .. bufSize]
        /\ thread'.at \in {"wait", "fill"} /\ thread'.got = 0
        /\ thread'.at = "fill" => /\ thread'.chunk >= 1
                                  /\ endIndex' + thread'.chunk <= bufSize
                                  /\ Filled' + thread'.chunk <= bufSize
    BY <1>1, <1>4, <2>1, TurnFits
  <2>3. Pending' = 0
    BY <2>2 DEF Pending
  <2> HIDE DEF end
  <2>4. endIndex' \in Cells /\ Filled' = Filled + thread.got
    BY <1>4, <2>2
  <2> QED BY <1>1, <1>2, <1>4, <1>5, <2>2, <2>3, <2>4 DEF end
<1> QED BY <1>6, <1>7

LEMMA StoreKeeps ==
    ASSUME IInv, Store
    PROVE  IInv'
<1> USE DEF IInv
<1>1. /\ UNCHANGED <<eof, readError, threadShutdown, source, posRead, out, result>>
      /\ waitForInitialFillSize' \in BOOLEAN
      /\ thread.at = "store"
  BY DEF Store
<1>2. reader' = ReaderNotified \/ reader' = reader
  BY DEF Store
<1>3. /\ reader' \in [at : ReaderStates, length : Nat, seen : Cells]
      /\ reader'.length = reader.length /\ reader'.seen = reader.seen
      /\ reader'.at # reader.at => reader.at = "wait" /\ reader'.at = "test"
  BY <1>2, ReaderTold DEF TypeOK
<1>4. /\ startIndex \in Cells /\ posRead \in Nat /\ bufSize \in Nat
      /\ reader.seen \in Cells /\ endIndex \in Cells /\ delivered \in Nat
  BY SizesAssumption DEF TypeOK
<1>5. /\ startIndex' = startIndex /\ endIndex' \in Cells /\ empty' = FALSE
      /\ thread.got \in 1 .. bufSize /\ Pending = thread.got /\ Filled \in 0 .. bufSize
      /\ Filled' = Filled + thread.got /\ Pending' = 0
      /\ thread' \in [at : ThreadStates, chunk : 0 .. bufSize, got : -1 .. bufSize]
      /\ thread'.at # "store"
      /\ thread'.at = "fill" => /\ thread'.chunk >= 1
                                /\ endIndex' + thread'.chunk <= bufSize
                                /\ Filled' + thread'.chunk <= bufSize
  BY StoreAdds
<1>6. TypeOK'
  BY <1>1, <1>3, <1>4, <1>5 DEF TypeOK, source
<1>7. CallInv'
  BY <1>3 DEF CallInv
<1>8. EndInv'
  BY <1>1, <1>5 DEF EndInv, source
<1>9. RingInv'
  <2>1. reader'.at = "copy" => FillSize(startIndex', reader'.seen) <= FillSize(startIndex', endIndex')
    <3>1. SUFFICES ASSUME reader'.at = "copy"
                   PROVE  FillSize(startIndex, reader.seen) <= Filled'
      BY <1>3, <1>5 DEF Filled
    <3>2. reader.at = "copy"
      BY <1>3, <3>1
    <3>3. Filled = FillSize(startIndex, endIndex)
      BY <3>2 DEF RingInv, Filled
    <3>4. FillSize(startIndex, reader.seen) <= Filled
      BY <3>2, <3>3 DEF RingInv
    <3>5. FillSize(startIndex, reader.seen) \in Nat
      BY <1>4, SizeRange
    <3> QED BY <1>4, <1>5, <3>4, <3>5
  <2> QED BY <1>5, <2>1 DEF RingInv
<1>10. FlowInv'
  <2>1. posRead' + Filled' + Pending' = delivered'
    <3>1. posRead + Filled + thread.got = delivered
      BY <1>5 DEF FlowInv
    <3> QED BY <1>1, <1>4, <1>5, <3>1 DEF source
  <2>2. out' = [i \in 1 .. posRead' |-> Source[i]]
    BY <1>1 DEF FlowInv
  <2>3. ASSUME NEW k \in 0 .. Filled' - 1
        PROVE  buffer[Wrap(startIndex + k)] = Source[posRead + k + 1]
    <3>1. CASE k < Filled
      <4>1. k \in 0 .. Filled - 1
        BY <1>5, <3>1
      <4> QED BY <4>1 DEF FlowInv
    <3>2. CASE k >= Filled
      <4> DEFINE j == k - Filled
      <4>1. j \in 0 .. thread.got - 1 /\ Filled + j = k
        BY <1>4, <1>5, <3>2
      <4> HIDE DEF j
      <4>2. Wrap(startIndex + Filled + j) = endIndex + j
        BY <4>1, StoreAdds
      <4>3. buffer[endIndex + j] = Source[posRead + Filled + j + 1]
        BY <1>5, <4>1 DEF FlowInv
      <4>4. startIndex \in Nat
        BY <1>4 DEF Cells
      <4>5. startIndex + Filled + j = startIndex + k /\ posRead + Filled + j + 1 = posRead + k + 1
        BY <1>4, <1>5, <4>1, <4>4
      <4> QED BY <4>2, <4>3, <4>5
    <3> QED BY <1>4, <1>5, <3>1, <3>2
  <2>4. \A k \in 0 .. Pending' - 1 : FALSE
    BY <1>5
  <2>5. buffer' = buffer /\ startIndex' = startIndex /\ posRead' = posRead
    BY <1>1, <1>5 DEF source
  <2> QED BY <2>1, <2>2, <2>3, <2>4, <2>5 DEF FlowInv
<1> QED BY <1>6, <1>7, <1>8, <1>9, <1>10

LEMMA StopKeeps ==
    ASSUME IInv, Quit \/ Finish
    PROVE  IInv'
<1> USE DEF IInv
<1>1. UNCHANGED <<indices, waitForInitialFillSize, threadShutdown, source, posRead, out, result>>
  BY DEF Quit, Finish
<1>2. thread' = Thread("stopped", 0, 0) /\ reader' = ReaderNotified
  BY DEF Quit, Finish, Stop
<1>3. /\ reader' \in [at : ReaderStates, length : Nat, seen : Cells]
      /\ reader'.length = reader.length /\ reader'.seen = reader.seen
      /\ reader'.at # reader.at => reader.at = "wait" /\ reader'.at = "test"
  BY <1>2, ReaderTold
<1>4. /\ eof' \in BOOLEAN /\ readError' \in BOOLEAN
      /\ eof' => eof \/ (thread.at = "store" /\ thread.got = 0)
  BY DEF Quit, Finish, Stop, TypeOK
<1>5. TypeOK'
  <2>1. thread' \in [at : ThreadStates, chunk : 0 .. bufSize, got : -1 .. bufSize]
    BY <1>2, SizesAssumption DEF Thread, ThreadStates
  <2> QED BY <1>1, <1>3, <1>4, <2>1 DEF TypeOK, indices, source
<1>6. CallInv'
  BY <1>3 DEF CallInv
<1>7. thread'.at = "stopped"
  BY <1>2 DEF Thread
<1>8. EndInv'
  BY <1>1, <1>4, <1>7 DEF EndInv, source
<1>9. FlowInv' /\ Filled' = Filled
  <2>1. Pending' = 0 /\ Pending = 0
    BY <1>7 DEF Pending, Quit, Finish, TypeOK
  <2> QED BY <1>1, <2>1, StillFlows
<1>10. RingInv'
  BY <1>1, <1>3, <1>7, <1>9 DEF RingInv, indices
<1> QED BY <1>5, <1>6, <1>8, <1>9, <1>10

LEMMA SpuriousKeeps ==
    ASSUME IInv, Spurious
    PROVE  IInv'
<1> USE DEF IInv
<1>1. UNCHANGED <<indices, flags, source, posRead, out, result>>
  BY DEF Spurious, caller
<1>2. /\ reader' \in [at : ReaderStates, length : Nat, seen : Cells]
      /\ reader'.length = reader.length /\ reader'.seen = reader.seen
      /\ reader'.at # reader.at => reader.at = "wait" /\ reader'.at = "test"
  BY ReaderTold DEF Spurious, TypeOK, caller
<1>3. /\ thread' \in [at : ThreadStates, chunk : 0 .. bufSize, got : -1 .. bufSize]
      /\ thread'.chunk = thread.chunk /\ thread'.got = thread.got
      /\ thread'.at # thread.at => thread.at = "wait" /\ thread'.at = "woken"
  BY ThreadTold DEF Spurious, TypeOK
<1>4. TypeOK'
  BY <1>1, <1>2, <1>3 DEF TypeOK, indices, flags, source
<1>5. CallInv'
  BY <1>2 DEF CallInv
<1>6. EndInv'
  BY <1>1, <1>3 DEF EndInv, flags, source
<1>7. FlowInv' /\ Filled' = Filled
  <2>1. Pending' = Pending
    BY <1>3 DEF Pending
  <2> QED BY <1>1, <2>1, StillFlows
<1>8. RingInv'
  BY <1>1, <1>2, <1>3, <1>7 DEF RingInv, indices
<1> QED BY <1>4, <1>5, <1>6, <1>7, <1>8

LEMMA NextKeeps == IInv /\ [Next]_vars => IInv'
<1> SUFFICES ASSUME IInv, [Next]_vars PROVE IInv'
  OBVIOUS
<1>1. CASE (\E length \in Lengths : Read(length)) \/ Test \/ Close \/ StopThread \/ Join
  BY <1>1, CallerKeeps
<1>2. CASE Copy
  BY <1>2, CopyKeeps
<1>3. CASE Again
  BY <1>3, AgainKeeps
<1>4. CASE Fill
  BY <1>4, FillKeeps
<1>5. CASE Store
  BY <1>5, StoreKeeps
<1>6. CASE Quit \/ Finish
  BY <1>6, StopKeeps
<1>7. CASE Spurious
  BY <1>7, SpuriousKeeps
<1>8. CASE UNCHANGED vars
  BY <1>8 DEF vars, indices, flags, source, caller, IInv, TypeOK, RingInv, CallInv, FlowInv,
              EndInv, Filled, Pending
<1> QED BY <1>1, <1>2, <1>3, <1>4, <1>5, <1>6, <1>7, <1>8 DEF Next, callerStep, threadProc

LEMMA InvHolds == Spec => []IInv
<1>1. Spec => Init /\ [][Next]_vars
  BY DEF Spec, Safety
<1> QED BY <1>1, InitKeeps, NextKeeps, PTL

\* The indices stay inside the buffer, and every variable keeps its type.
THEOREM TypeCorrect == Spec => []TypeOK
<1>1. IInv => TypeOK
  BY DEF IInv
<1> QED BY <1>1, InvHolds, PTL

-------------------------------------------------------------------------------
(* Every step of the buffer is a step of the byte stream, or none.         *)

\* A thread's step: the caller at most stops waiting.
LEMMA ThreadStutters ==
    ASSUME IInv, threadProc \/ Spurious
    PROVE  UNCHANGED Stream!streamVars
<1>1. out' = out /\ result' = result
  BY DEF threadProc, Spurious, Again, Quit, Fill, Store, Finish, caller
<1>2. reader' = ReaderNotified \/ reader' = reader
  BY DEF threadProc, Spurious, Again, Quit, Fill, Store, Finish, Stop, caller
<1>3. reader'.length = reader.length /\ CallState' = CallState
  BY <1>2, ReaderTold DEF IInv, CallState
<1> QED BY <1>1, <1>3 DEF Stream!streamVars

LEMMA TestAnswers ==
    ASSUME IInv, Test
    PROVE  Stream!Answer \/ UNCHANGED Stream!streamVars
<1>1. out' = out /\ CallState = "read"
  BY DEF Test, CallState
<1>2. CASE result' = result /\ reader'.at \in {"wait", "copy"} /\ reader'.length = reader.length
  BY <1>1, <1>2 DEF Stream!streamVars, CallState
<1>3. CASE Return("error")
  <2>1. CallState' = "idle" /\ reader'.length = 0 /\ result' = "error"
    BY <1>3 DEF Return, Reader, CallState
  <2> QED BY <1>1, <2>1 DEF Stream!Answer, Stream!Failed
<1>4. CASE Return("end") /\ empty /\ eof
  <2>1. CallState' = "idle" /\ reader'.length = 0 /\ result' = "end"
    BY <1>4 DEF Return, Reader, CallState
  <2>2. delivered = Len(Source) /\ Filled = 0 /\ Pending = 0
    BY <1>4 DEF IInv, EndInv, Filled, Pending
  <2>3. posRead = Len(Source)
    BY <2>2 DEF IInv, FlowInv, TypeOK
  <2>4. [i \in 1 .. Len(Source) |-> Source[i]] = Source
    BY SizesAssumption
  <2>5. out = Source
    BY <2>3, <2>4 DEF IInv, FlowInv
  <2> QED BY <1>1, <2>1, <2>5 DEF Stream!Answer, Stream!AtEnd
<1>5. CASE reader' = [reader EXCEPT !.at = "wait"] /\ result' = result
  <2>1. reader'.at = "wait" /\ reader'.length = reader.length
    BY <1>5 DEF IInv, TypeOK
  <2> QED BY <1>2, <1>5, <2>1
<1>6. CASE reader' = [reader EXCEPT !.at = "copy", !.seen = endIndex] /\ result' = result
  <2>1. reader'.at = "copy" /\ reader'.length = reader.length
    BY <1>6 DEF IInv, TypeOK
  <2> QED BY <1>2, <1>6, <2>1
<1> QED BY <1>3, <1>4, <1>5, <1>6 DEF Test

LEMMA CopyAnswers ==
    ASSUME IInv, IInv', Copy
    PROVE  Stream!Answer
<1>1. /\ CallState = "read" /\ CallState' = "idle"
      /\ reader'.length = 0 /\ result' = "data"
  BY DEF Copy, Return, Reader, CallState
<1>2. startIndex \in Cells /\ endIndex \in Cells /\ posRead \in Nat /\ reader.length \in Nat
  BY DEF IInv, TypeOK
<1>3. FillSize(startIndex, endIndex) \in 1 .. bufSize
  BY <1>2, SizeRange
<1>4. didRead \in 1 .. FillSize(startIndex, endIndex) /\ didRead <= reader.length
  BY CopyTakes
<1>5. didRead \in 1 .. reader.length
  BY <1>2, <1>3, <1>4, SizesAssumption
<1>6. posRead' = posRead + didRead
  BY DEF Copy
<1>7. out' = [i \in 1 .. posRead' |-> Source[i]]
  BY DEF IInv, FlowInv
<1>8. Len(out) = posRead
  BY <1>2 DEF IInv, FlowInv
<1>9. posRead' <= Len(Source)
  <2>1. posRead' \in Nat /\ startIndex' \in Cells /\ endIndex' \in Cells
    BY DEF IInv, TypeOK
  <2>2. FillSize(startIndex', endIndex') \in 1 .. bufSize
    BY <2>1, SizeRange
  <2>3. Filled' \in Nat
    BY <2>2, SizesAssumption DEF Filled
  <2>4. Pending' \in Nat
    BY SizesAssumption DEF IInv, TypeOK, Pending
  <2>5. posRead' + Filled' + Pending' = delivered' /\ delivered' \in 0 .. Len(Source)
    BY DEF IInv, FlowInv, TypeOK
  <2>6. Len(Source) \in Nat
    BY SizesAssumption
  <2>7. \A a, b, c, d, n \in Nat : a + b + c = d /\ d \in 0 .. n => a <= n
    OBVIOUS
  <2>8. delivered' \in Nat
    BY <2>5, <2>6
  <2> QED BY <2>1, <2>3, <2>4, <2>5, <2>6, <2>7, <2>8
<1>10. Stream!Deliver(didRead)
  BY <1>1, <1>5, <1>6, <1>7, <1>8, <1>9 DEF Stream!Deliver, Stream!Prefix
<1> QED BY <1>1, <1>5, <1>10 DEF Stream!Answer

LEMMA StreamStep == IInv /\ IInv' /\ [Next]_vars => [Stream!StreamNext]_(Stream!streamVars)
<1> SUFFICES ASSUME IInv, IInv', [Next]_vars
             PROVE  Stream!StreamNext \/ UNCHANGED Stream!streamVars
  OBVIOUS
<1> USE DEF Stream!StreamNext
<1>1. CASE \E length \in Lengths : Read(length)
  <2>1. PICK length \in Lengths : Read(length)
    BY <1>1
  <2>2. /\ CallState = "idle" /\ CallState' = "read" /\ reader'.length = length
        /\ out' = out /\ result' = result
    BY <2>1 DEF Read, Reader, CallState
  <2> QED BY <2>2 DEF Stream!Ask
<1>2. CASE Close
  <2>1. /\ CallState = "idle" /\ CallState' = "close" /\ reader'.length = reader.length
        /\ out' = out /\ result' = result
    BY <1>2 DEF Close, Reader, CallState, IInv, CallInv
  <2> QED BY <2>1 DEF Stream!BeginClose
<1>3. CASE Test
  BY <1>3, TestAnswers
<1>4. CASE Copy
  BY <1>4, CopyAnswers
<1>5. CASE StopThread
  <2>1. /\ CallState = "close" /\ CallState' = "close" /\ reader'.length = reader.length
        /\ out' = out /\ result' = result
    BY <1>5 DEF StopThread, Reader, CallState, IInv, CallInv
  <2> QED BY <2>1 DEF Stream!streamVars
<1>6. CASE Join
  <2>1. /\ CallState = "close" /\ CallState' = "closed" /\ reader'.length = reader.length
        /\ out' = out /\ result' = result
    BY <1>6 DEF Join, Reader, CallState, IInv, CallInv
  <2> QED BY <2>1 DEF Stream!EndClose
<1>7. CASE threadProc \/ Spurious
  BY <1>7, ThreadStutters
<1>8. CASE UNCHANGED vars
  BY <1>8 DEF vars, caller, CallState, Stream!streamVars
<1> QED BY <1>1, <1>2, <1>3, <1>4, <1>5, <1>6, <1>7, <1>8 DEF Next, callerStep

\* For any source and any sizes, what the reads hand out is the source, byte by
\* byte and in order, and the end is told only at its end: the buffer implements
\* the safety part of ByteStream.
THEOREM ImplementsByteStream == Spec => Stream!StreamSafety
<1>1. Init => Stream!StreamInit
  BY DEF Init, Reader, CallState, Stream!StreamInit
<1>2. Spec => Init /\ [][Next]_vars
  BY DEF Spec, Safety
<1> QED BY <1>1, <1>2, InvHolds, StreamStep, PTL DEF Stream!StreamSafety

-------------------------------------------------------------------------------
(* No deadlock, and the initial fill.                                      *)

\* read waits for bytes that are missing, the thread for room in a full ring;
\* a full ring is never short of the initial fill.
WaitInv ==
    /\ reader.at = "wait" => empty \/ waitForInitialFillSize
    /\ thread.at = "wait" => ~empty /\ startIndex = endIndex
    /\ waitForInitialFillSize => Filled < initialFillSize

\* Bytes go out only after the initial fill or at the end of the source.
StartInv ==
    /\ ~waitForInitialFillSize => delivered >= initialFillSize
    /\ reader.at = "copy" \/ out # <<>> => ~waitForInitialFillSize \/ eof

LEMMA TurnWaits ==
    ASSUME NEW s \in Cells, NEW e \in Cells, NEW none \in BOOLEAN, Turn(s, e, none),
           thread'.at = "wait"
    PROVE  ~none /\ s = e
<1>1. Room(startIndex', endIndex', none) = 0
  BY DEF Turn, Thread
<1>2. /\ startIndex' = IF none THEN 0 ELSE s
      /\ endIndex' = IF none THEN 0 ELSE e
  BY DEF Turn
<1>3. ~none
  BY <1>1, SizesAssumption DEF Room
<1>4. Room(s, e, FALSE) = 0
  BY <1>1, <1>2, <1>3
<1>5. s = e
  BY <1>4, SizesAssumption DEF Room, Cells
<1> QED BY <1>3, <1>5

\* The flag after Store tells whether the ring is still short of the initial fill.
LEMMA StoreFlag ==
    ASSUME IInv, Store
    PROVE  /\ waitForInitialFillSize' <=> waitForInitialFillSize /\ Filled' < initialFillSize
           /\ reader.at = "wait" /\ reader'.at = "wait" =>
                  ~empty /\ ~(waitForInitialFillSize /\ Filled' >= initialFillSize)
<1> DEFINE end == Wrap(endIndex + thread.got)
<1>1. Filled' = FillSize(startIndex, end) /\ Filled' \in Nat
  <2>1. /\ startIndex' = startIndex /\ endIndex' = end /\ empty' = FALSE
        /\ startIndex \in Cells /\ end \in Cells
    BY StoreAdds DEF IInv, TypeOK
  <2> HIDE DEF end
  <2>2. Filled' = FillSize(startIndex, end)
    BY <2>1 DEF Filled
  <2> QED BY <2>1, <2>2, SizeRange, SizesAssumption
<1>2. /\ waitForInitialFillSize' = ~FilledUp(startIndex, end)
      /\ reader' = IF empty \/ (waitForInitialFillSize /\ FilledUp(startIndex, end))
                   THEN ReaderNotified ELSE reader
  BY DEF Store
<1>3. FilledUp(startIndex, end) <=> (waitForInitialFillSize => Filled' >= initialFillSize)
  BY <1>1 DEF FilledUp
<1>4. ReaderNotified.at # "wait"
  BY DEF IInv, TypeOK, ReaderNotified
<1>5. waitForInitialFillSize \in BOOLEAN /\ initialFillSize \in Nat
  BY SizesAssumption DEF IInv, TypeOK
<1> HIDE DEF end
<1>6. Filled' < initialFillSize <=> ~(Filled' >= initialFillSize)
  BY <1>1, <1>5
<1>7. waitForInitialFillSize' <=> waitForInitialFillSize /\ Filled' < initialFillSize
  BY <1>2, <1>3, <1>5, <1>6
<1>8. reader.at = "wait" /\ reader'.at = "wait" =>
          ~(empty \/ (waitForInitialFillSize /\ FilledUp(startIndex, end)))
  BY <1>2, <1>4
<1> QED BY <1>3, <1>7, <1>8

LEMMA WaitKeeps == IInv /\ IInv' /\ WaitInv /\ [Next]_vars => WaitInv'
<1> SUFFICES ASSUME IInv, IInv', WaitInv, [Next]_vars PROVE WaitInv'
  OBVIOUS
<1> USE DEF WaitInv
<1>1. CASE (\E length \in Lengths : Read(length)) \/ Close \/ StopThread \/ Join
  <2>1. UNCHANGED <<indices, waitForInitialFillSize>> /\ reader'.at # "wait"
    BY <1>1 DEF Read, Close, StopThread, Join, Reader, flags
  <2>2. thread' = thread \/ thread' = ThreadNotified
    BY <1>1 DEF Read, Close, StopThread, Join
  <2>3. thread'.at = "wait" => thread.at = "wait"
    BY <2>2, ThreadTold DEF IInv
  <2> QED BY <2>1, <2>3 DEF indices, Filled
<1>2. CASE Test
  <2>1. UNCHANGED <<indices, waitForInitialFillSize, thread>>
    BY <1>2 DEF Test, flags
  <2>2. reader'.at = "wait" => Blocked
    BY <1>2, Tested DEF Reader, IInv
  <2> QED BY <2>1, <2>2 DEF indices, Filled, Blocked
<1>3. CASE Copy
  <2>1. waitForInitialFillSize' = waitForInitialFillSize /\ reader'.at # "wait"
    BY <1>3 DEF Copy, flags, Return, Reader
  <2>2. /\ didRead \in 1 .. FillSize(startIndex, endIndex)
        /\ Filled = FillSize(startIndex, endIndex) /\ Filled' = Filled - didRead
    BY <1>3, CopyTakes
  <2>3. FillSize(startIndex, endIndex) \in 1 .. bufSize
    BY SizeRange DEF IInv, TypeOK
  <2>4. Filled \in Nat /\ didRead \in Nat /\ Filled' <= Filled /\ Filled' \in Nat
    BY <2>2, <2>3, SizesAssumption
  <2>5. waitForInitialFillSize' => Filled' < initialFillSize
    BY <2>1, <2>4, SizesAssumption
  <2>6. thread'.at # "wait"
    <3>1. CASE thread.at = "wait"
      <4>1. thread' = ThreadNotified
        BY <1>3, <3>1 DEF Copy, NotifyAfterRead
      <4> QED BY <4>1 DEF ThreadNotified, IInv, TypeOK
    <3>2. CASE thread.at # "wait"
      BY <1>3, <3>2, ThreadTold DEF Copy, NotifyAfterRead, IInv
    <3> QED BY <3>1, <3>2
  <2> QED BY <2>1, <2>5, <2>6
<1>4. CASE Again
  <2>1. UNCHANGED <<flags, caller>> /\ Turn(startIndex, endIndex, empty)
    BY <1>4 DEF Again
  <2>2. startIndex \in Cells /\ endIndex \in Cells /\ empty \in BOOLEAN
    BY DEF IInv, TypeOK
  <2>3. /\ Filled' = Filled /\ empty' = empty
        /\ ~empty => startIndex' = startIndex /\ endIndex' = endIndex
    BY <2>1, <2>2, TurnFits DEF Filled
  <2>4. thread'.at = "wait" => ~empty /\ startIndex = endIndex
    BY <2>1, <2>2, TurnWaits
  <2> QED BY <2>1, <2>3, <2>4 DEF flags, caller
<1>5. CASE Fill
  <2>1. UNCHANGED <<indices, flags, caller>> /\ thread'.at = "store"
    BY <1>5 DEF Fill, Thread
  <2> QED BY <2>1 DEF indices, flags, caller, Filled
<1>6. CASE Store
  <2>1. /\ waitForInitialFillSize' <=> waitForInitialFillSize /\ Filled' < initialFillSize
        /\ reader.at = "wait" /\ reader'.at = "wait" =>
               ~empty /\ ~(waitForInitialFillSize /\ Filled' >= initialFillSize)
    BY <1>6, StoreFlag
  <2>2. reader'.at = "wait" => reader.at = "wait"
    BY <1>6, ReaderTold DEF Store, IInv
  <2>3. Filled' \in Nat /\ initialFillSize \in Nat
    <3>1. Filled \in 0 .. bufSize /\ thread.got \in 1 .. bufSize /\ Filled' = Filled + thread.got
      BY <1>6, StoreAdds
    <3> QED BY <3>1, SizesAssumption
  <2>4. reader'.at = "wait" => waitForInitialFillSize'
    BY <2>1, <2>2, <2>3
  <2>5. thread'.at = "wait" => ~empty' /\ startIndex' = endIndex'
    <3>1. CASE threadShutdown
      BY <1>6, <3>1 DEF Store, Thread
    <3>2. CASE ~threadShutdown
      <4>1. Turn(startIndex, Wrap(endIndex + thread.got), FALSE)
        BY <1>6, <3>2 DEF Store
      <4>2. /\ startIndex' = startIndex /\ endIndex' = Wrap(endIndex + thread.got)
            /\ startIndex \in Cells /\ Wrap(endIndex + thread.got) \in Cells /\ empty' = FALSE
        BY <1>6, StoreAdds DEF IInv, TypeOK
      <4> QED BY <4>1, <4>2, TurnWaits
    <3> QED BY <3>1, <3>2
  <2> QED BY <2>1, <2>4, <2>5
<1>7. CASE Quit \/ Finish
  <2>1. UNCHANGED <<indices, waitForInitialFillSize>> /\ thread'.at = "stopped"
    BY <1>7 DEF Quit, Finish, Stop, Thread
  <2>2. reader'.at # "wait"
    <3>1. reader' = ReaderNotified
      BY <1>7 DEF Quit, Finish, Stop
    <3> QED BY <3>1 DEF ReaderNotified, IInv, TypeOK
  <2> QED BY <2>1, <2>2 DEF indices, Filled
<1>8. CASE Spurious
  <2>1. UNCHANGED <<indices, flags>>
    BY <1>8 DEF Spurious
  <2>2. (reader'.at = "wait" => reader.at = "wait") /\ (thread'.at = "wait" => thread.at = "wait")
    BY <1>8, ReaderTold, ThreadTold DEF Spurious, IInv, caller
  <2> QED BY <2>1, <2>2 DEF indices, flags, Filled
<1>9. CASE UNCHANGED vars
  BY <1>9 DEF vars, indices, flags, caller, Filled
<1> QED BY <1>1, <1>2, <1>3, <1>4, <1>5, <1>6, <1>7, <1>8, <1>9 DEF Next, callerStep, threadProc

\* For any sizes the reader and the thread never wait for each other.
THEOREM NoMutualWait == Spec => []NeverBothWait
<1>1. Init => WaitInv
  <2> SUFFICES ASSUME Init PROVE WaitInv
    OBVIOUS
  <2>1. reader.at = "idle" /\ thread.at = "start" /\ Filled = 0
    BY DEF Init, Reader, Thread, Filled
  <2>2. waitForInitialFillSize => 0 < initialFillSize
    BY SizesAssumption DEF Init
  <2> QED BY <2>1, <2>2 DEF WaitInv
<1>2. IInv /\ WaitInv => NeverBothWait
  <2> SUFFICES ASSUME IInv, WaitInv, reader.at = "wait", thread.at = "wait" PROVE FALSE
    BY DEF NeverBothWait
  <2>1. ~empty /\ startIndex = endIndex /\ waitForInitialFillSize /\ Filled < initialFillSize
    BY DEF WaitInv
  <2>2. endIndex \in Nat
    BY DEF IInv, TypeOK, Cells
  <2>3. Filled = bufSize
    BY <2>1, <2>2, SizesAssumption DEF Filled, FillSize
  <2> QED BY <2>1, <2>3, SizesAssumption
<1>3. Spec => Init /\ [][Next]_vars
  BY DEF Spec, Safety
<1> QED BY <1>1, <1>2, <1>3, InvHolds, WaitKeeps, PTL

\* Bytes are delivered and the end is told once and for all.
LEMMA Monotone ==
    ASSUME IInv, Next
    PROVE  delivered' >= delivered /\ delivered' \in Nat /\ delivered \in Nat /\ (eof => eof')
<1>1. delivered \in Nat
  BY SizesAssumption DEF IInv, TypeOK
<1>2. CASE Fill
  <2>1. eof' = eof
    BY <1>2 DEF Fill, flags
  <2>2. delivered' = delivered \/ \E n \in 1 .. Least(thread.chunk, Len(Source) - delivered) :
                                     delivered' = delivered + n
    BY <1>2 DEF Fill, source
  <2>3. Least(thread.chunk, Len(Source) - delivered) \in Int
    BY SizesAssumption DEF IInv, TypeOK, Least
  <2> QED BY <1>1, <2>1, <2>2, <2>3
<1>3. CASE ~Fill
  <2>1. delivered' = delivered
    BY <1>3 DEF Next, Read, Close, callerStep, Test, Copy, StopThread, Join, threadProc, Again,
                Quit, Store, Finish, Spurious, source
  <2>2. eof => eof'
    BY <1>3 DEF Next, Read, Close, callerStep, Test, Copy, StopThread, Join, threadProc, Again,
                Quit, Store, Finish, Stop, Spurious, flags
  <2> QED BY <1>1, <2>1, <2>2
<1> QED BY <1>2, <1>3

LEMMA StartKeeps == IInv /\ IInv' /\ StartInv /\ [Next]_vars => StartInv'
<1> SUFFICES ASSUME IInv, IInv', StartInv, [Next]_vars PROVE StartInv'
  OBVIOUS
<1> USE DEF StartInv
<1>1. CASE UNCHANGED vars
  BY <1>1 DEF vars, flags, source, caller
<1>2. CASE Next
  <2>1. delivered' >= delivered /\ delivered' \in Nat /\ delivered \in Nat /\ (eof => eof')
    BY <1>2, Monotone
  <2>2. waitForInitialFillSize' => waitForInitialFillSize
    BY <1>2, StoreFlag DEF Next, Read, Close, callerStep, Test, Copy, StopThread, Join, threadProc,
            Again, Quit, Fill, Finish, Spurious, flags
  <2>3. ~waitForInitialFillSize' => delivered' >= initialFillSize
    <3>1. CASE ~waitForInitialFillSize
      BY <2>1, <3>1, SizesAssumption
    <3>2. CASE waitForInitialFillSize /\ Store
      <4>1. ~waitForInitialFillSize' => ~(Filled' < initialFillSize)
        BY <3>2, StoreFlag
      <4>2. Filled' \in Nat /\ Pending' = 0
        <5>1. /\ Filled \in 0 .. bufSize /\ thread.got \in 1 .. bufSize
              /\ Filled' = Filled + thread.got /\ Pending' = 0
          BY <3>2, StoreAdds
        <5> QED BY <5>1, SizesAssumption
      <4>3. posRead' \in Nat /\ posRead' + Filled' + Pending' = delivered'
        BY DEF IInv, TypeOK, FlowInv
      <4>4. delivered' >= Filled'
        <5>1. \A a, b, c, d \in Nat : a + b + c = d => d >= b
          OBVIOUS
        <5>2. 0 \in Nat
          OBVIOUS
        <5> QED BY <2>1, <4>2, <4>3, <5>1, <5>2
      <4> QED BY <2>1, <4>1, <4>2, <4>4, SizesAssumption
    <3>3. CASE waitForInitialFillSize /\ ~Store
      <4>1. waitForInitialFillSize' = waitForInitialFillSize
        BY <1>2, <3>3 DEF Next, Read, Close, callerStep, Test, Copy, StopThread, Join, threadProc,
                Again, Quit, Fill, Finish, Spurious, flags
      <4> QED BY <3>3, <4>1
    <3> QED BY <3>1, <3>2, <3>3
  <2>4. reader'.at = "copy" => ~waitForInitialFillSize' \/ eof'
    <3>1. CASE Test
      <4>1. reader'.at = "copy" => ~Blocked /\ ~readError /\ ~threadShutdown /\ ~(empty /\ eof)
        BY <3>1, Tested DEF Reader, IInv
      <4> QED BY <2>1, <2>2, <4>1 DEF Blocked
    <3>2. CASE ~Test
      <4>1. \/ reader' = reader \/ reader' = ReaderNotified
            \/ \E at \in {"test", "idle", "close", "join", "closed"}, length \in Nat :
                  reader' = Reader(at, length, 0)
        <5>1. 0 \in Nat /\ Lengths \subseteq Nat
          BY SizesAssumption
        <5>2. CASE (\E length \in Lengths : Read(length)) \/ Close \/ Copy \/ StopThread \/ Join
          BY <5>1, <5>2 DEF Read, Close, Copy, Return, StopThread, Join
        <5>3. CASE threadProc \/ Spurious
          BY <5>3 DEF threadProc, Again, Quit, Fill, Store, Finish, Stop, Spurious, caller
        <5> QED BY <1>2, <3>2, <5>2, <5>3 DEF Next, callerStep
      <4>2. reader'.at = "copy" => reader.at = "copy"
        BY <4>1, ReaderTold DEF Reader, IInv
      <4> QED BY <2>1, <2>2, <4>2
    <3> QED BY <3>1, <3>2
  <2>5. out' # <<>> => ~waitForInitialFillSize' \/ eof'
    <3>1. CASE Copy
      BY <2>1, <2>2, <3>1 DEF Copy
    <3>2. CASE ~Copy
      <4>1. out' = out
        BY <1>2, <3>2 DEF Next, Read, Close, callerStep, Test, StopThread, Join,
                threadProc, Again, Quit, Fill, Store, Finish, Spurious, caller
      <4> QED BY <2>1, <2>2, <4>1
    <3> QED BY <3>1, <3>2
  <2> QED BY <2>3, <2>4, <2>5
<1> QED BY <1>1, <1>2

\* For any source and any sizes nothing is read before the initial fill, unless
\* the source is shorter.
THEOREM FillFirst == Spec => []FilledFirst
<1>1. Init => StartInv
  <2> SUFFICES ASSUME Init PROVE StartInv
    OBVIOUS
  <2>1. reader.at = "idle" /\ out = <<>> /\ delivered = 0
    BY DEF Init, Reader
  <2>2. ~waitForInitialFillSize => ~(initialFillSize > 0)
    BY DEF Init
  <2> QED BY <2>1, <2>2, SizesAssumption DEF StartInv
<1>2. StartInv => FilledFirst
  BY DEF StartInv, FilledFirst
<1>3. Spec => Init /\ [][Next]_vars
  BY DEF Spec, Safety
<1> QED BY <1>1, <1>2, <1>3, InvHolds, StartKeeps, PTL

-------------------------------------------------------------------------------
(* CurlIOHandler.                                                          *)

\* bytes in the ring, and where the caller and the thread may be
Kept == IF empty THEN 0 ELSE Curl!FillSize(startIndex, endIndex)
Seeking == {"seeking", "waitSeek", "testSeek"}
InRead == {"test", "blocked", "wait", "copy"}
Holding == {"enter", "wait", "woken", "store"}
Over == {"told", "stopped"}
CallerPlaces == InRead \cup Seeking \cup {"idle", "join", "closed"}
ThreadPlaces == Holding \cup Over \cup {"start", "perform", "ended", "tell", "wild"}

\* nothing has happened that puts position and buffer apart
Clean == flaws \cap Curl!SpoilTheStream = {}

CurlTypes ==
    /\ cells \in [Cells -> Curl!Positions \cup {-1}]
    /\ startIndex \in Cells /\ endIndex \in Cells /\ posRead \in Int
    /\ empty \in BOOLEAN /\ waitForInitialFillSize \in BOOLEAN /\ eof \in BOOLEAN
    /\ readError \in BOOLEAN /\ threadShutdown \in BOOLEAN /\ doSeek \in BOOLEAN
    /\ isFresh \in BOOLEAN /\ right \in BOOLEAN
    /\ resume \in Curl!Positions /\ next \in Curl!Positions /\ pos \in Int
    /\ seekTo \in [offset : Int, whence : Curl!Whence]
    /\ client \in [at : CallerPlaces, length : Nat, end : Cells]
    /\ download \in [at : ThreadPlaces, want : Nat, ok : BOOLEAN]

\* A piece that is stored fits, and the bytes a read copies are in the ring.
CurlRing ==
    /\ empty => startIndex = endIndex
    /\ download.at \in Holding => download.want \in Pieces /\ next + download.want <= contentLength
    /\ download.at = "store" => Curl!Free(startIndex, endIndex, empty) >= download.want
    /\ client.at \in InRead => client.length \in CurlLengths
    /\ client.at = "copy" =>
           ~empty /\ Curl!FillSize(startIndex, client.end) <= Curl!FillSize(startIndex, endIndex)

\* While the thread lives the caller of a pending seek waits for it, and the
\* seek leads into the content.
CurlSeek ==
    /\ eof \/ readError => download.at \in Over
    /\ doSeek /\ ~eof /\ ~readError =>
           /\ client.at \in Seeking
           /\ seekTo.whence = "SEEK_SET" => seekTo.offset \in Curl!Positions
           /\ seekTo.whence = "SEEK_CUR" => posRead + seekTo.offset \in Curl!Positions

\* The position the caller is at is where the next read begins, or where the
\* pending seek leads; the ring holds the bytes from there on, and the request
\* goes on behind them.
CurlStream ==
    /\ right
    /\ doSeek => client.at \in Seeking
    /\ ~doSeek => pos = posRead
    /\ doSeek /\ seekTo.whence = "SEEK_SET" => pos = seekTo.offset
    /\ doSeek /\ seekTo.whence = "SEEK_CUR" => pos = posRead + seekTo.offset
    /\ \A k \in 0 .. Kept - 1 : cells[Curl!Wrap(startIndex + k)] = posRead + k
    /\ download.at \in Holding \cup {"perform"} => next = posRead + Kept
    /\ download.at = "start" /\ ~doSeek => resume = posRead /\ empty
    /\ download.at \in {"ended", "tell"} /\ download.ok /\ ~doSeek => posRead + Kept = contentLength
    /\ download.at = "tell" /\ download.ok => posRead + Kept = contentLength
    /\ eof => posRead + Kept = contentLength

CurlInv == CurlTypes /\ CurlRing /\ CurlSeek /\ (Clean => CurlStream)

\* What the assumptions say of the sizes.
LEMMA SizesAre ==
    /\ bufSize \in Nat /\ bufSize >= 1 /\ 0 \in Cells /\ Cells = Curl!Cells
    /\ contentLength \in Nat /\ Curl!Positions = 0 .. contentLength
    /\ \A n \in Pieces : n \in Nat /\ n >= 1
    /\ \A n \in CurlLengths : n \in Nat /\ n >= 1
BY SizesAssumption, RemoteAssumption DEF Cells, Curl!Cells, Curl!Positions

\* The ring.
LEMMA CurlSize ==
    ASSUME NEW s \in Cells, NEW e \in Cells
    PROVE  Curl!FillSize(s, e) \in Nat /\ Curl!FillSize(s, e) >= 1 /\ Curl!FillSize(s, e) <= bufSize
BY SizesAre DEF Curl!FillSize, Cells

\* Taking bytes from the front of the ring.
LEMMA CurlTake ==
    ASSUME NEW s \in Cells, NEW e \in Cells, NEW d \in Nat, d <= Curl!FillSize(s, e),
           d = 0 => s # e
    PROVE  /\ Curl!Wrap(s + d) \in Cells
           /\ Curl!Wrap(s + d) = e <=> d = Curl!FillSize(s, e)
           /\ d < Curl!FillSize(s, e) =>
                  Curl!FillSize(Curl!Wrap(s + d), e) = Curl!FillSize(s, e) - d
           /\ \A k \in Nat : k + d < Curl!FillSize(s, e) =>
                  Curl!Wrap(Curl!Wrap(s + d) + k) = Curl!Wrap(s + (d + k))
BY SizesAre DEF Curl!FillSize, Curl!Wrap, Cells

Behind(i, e) == IF i >= e THEN i - e ELSE i - e + bufSize

\* Adding bytes at its end: how far each cell is behind the old one.
LEMMA CurlAdd ==
    ASSUME NEW s \in Cells, NEW e \in Cells, NEW none \in BOOLEAN, none => s = e,
           NEW n \in Nat, n >= 1, Curl!Free(s, e, none) >= n
    PROVE  LET f == IF none THEN 0 ELSE Curl!FillSize(s, e)
           IN /\ Curl!Wrap(e + n) \in Cells
              /\ Curl!FillSize(s, Curl!Wrap(e + n)) = f + n
              /\ \A k \in Nat : k < f => Behind(Curl!Wrap(s + k), e) >= n
              /\ \A k \in Nat : f <= k /\ k < f + n => Behind(Curl!Wrap(s + k), e) = k - f
BY SizesAre DEF Curl!FillSize, Curl!Wrap, Curl!Free, Cells, Behind

LEMMA CurlCell ==
    ASSUME NEW s \in Cells, NEW k \in Nat, k < bufSize
    PROVE  Curl!Wrap(s + k) \in Cells
BY SizesAre DEF Curl!Wrap, Cells

LEMMA CurlKept ==
    ASSUME CurlTypes
    PROVE  Kept \in Nat /\ Kept <= bufSize
BY CurlSize, SizesAre DEF CurlTypes, Kept

\* A notification moves a caller or a thread that waits, and nothing else.
LEMMA CurlTold ==
    ASSUME CurlTypes
    PROVE  /\ Curl!CallerNotified \in [at : CallerPlaces, length : Nat, end : Cells]
           /\ Curl!CallerNotified.length = client.length
           /\ Curl!CallerNotified.end = client.end
           /\ Curl!CallerNotified.at \in Seeking <=> client.at \in Seeking
           /\ Curl!CallerNotified.at \in InRead <=> client.at \in InRead
           /\ Curl!CallerNotified.at = "copy" <=> client.at = "copy"
BY DEF CurlTypes, Curl!CallerNotified, CallerPlaces, Seeking, InRead

\* And the thread by ThreadNotified.
LEMMA CurlWoken ==
    ASSUME CurlTypes
    PROVE  /\ Curl!ThreadNotified \in [at : ThreadPlaces, want : Nat, ok : BOOLEAN]
           /\ Curl!ThreadNotified.want = download.want
           /\ Curl!ThreadNotified.ok = download.ok
           /\ \/ Curl!ThreadNotified.at = download.at
              \/ Curl!ThreadNotified.at = "woken" /\ download.at = "wait"
BY DEF CurlTypes, Curl!ThreadNotified, ThreadPlaces, Holding

\* The handler begins well.
LEMMA CurlStarts == Curl!Init => CurlInv
<1> SUFFICES ASSUME Curl!Init PROVE CurlInv
  OBVIOUS
<1>1. CurlTypes
  <2>1. waitForInitialFillSize \in BOOLEAN
    BY SizesAssumption DEF Curl!Init
  <2>2. cells \in [Cells -> Curl!Positions \cup {-1}]
    BY SizesAre DEF Curl!Init, Curl!Nothing
  <2>3. /\ seekTo \in [offset : Int, whence : Curl!Whence]
        /\ client \in [at : CallerPlaces, length : Nat, end : Cells]
        /\ download \in [at : ThreadPlaces, want : Nat, ok : BOOLEAN]
    BY SizesAre DEF Curl!Init, Curl!Idle, Curl!Caller, Curl!Thread, CallerPlaces, ThreadPlaces,
       Curl!Whence
  <2>4. resume \in Curl!Positions /\ next \in Curl!Positions /\ posRead \in Int /\ pos \in Int
    BY SizesAre DEF Curl!Init
  <2> QED BY <2>1, <2>2, <2>3, <2>4, SizesAre DEF Curl!Init, CurlTypes
<1>2. CurlRing /\ CurlSeek
  BY SizesAre DEF Curl!Init, CurlRing, CurlSeek, Curl!Idle, Curl!Caller, Curl!Thread, InRead, Holding, Over
<1>3. CurlStream
  BY SizesAre DEF Curl!Init, CurlStream, Kept, Curl!Idle, Curl!Caller, Curl!Thread, Holding
<1> QED BY <1>1, <1>2, <1>3 DEF CurlInv

-------------------------------------------------------------------------------
(* Every action keeps it.                                                  *)

\* A step that leaves the ring alone, the positions and the request for a seek.
StillCurl ==
    UNCHANGED <<cells, startIndex, endIndex, empty, posRead, doSeek, seekTo, isFresh, resume, next, pos, flaws>>

\* A step that leaves ring, request and position alone keeps the stream.
LEMMA StillStreams ==
    ASSUME CurlInv, StillCurl, right' = right,
           client.at \in Seeking => client'.at \in Seeking,
           download'.at \in Holding \cup {"perform"} => download.at \in Holding \cup {"perform"},
           download'.at = "start" => download.at = "start",
           download'.at \in {"ended", "tell"} /\ download'.ok =>
               /\ download.at = download'.at /\ download.ok
               \/ posRead + Kept = contentLength,
           eof' => eof
    PROVE  Clean' => CurlStream'
<1>1. Kept' = Kept
  BY DEF StillCurl, Kept
<1>2. SUFFICES ASSUME Clean' PROVE CurlStream'
  OBVIOUS
<1>3. CurlStream
  BY <1>2 DEF CurlInv, Clean, StillCurl, Curl!SpoilTheStream
<1> QED BY <1>1, <1>3 DEF CurlStream, StillCurl

\* A call begins, waits or ends.
LEMMA CurlCallKeeps ==
    ASSUME CurlInv, (\E length \in CurlLengths : Curl!Read(length)) \/ Curl!Wait \/ Curl!Close \/ Curl!Join
    PROVE  CurlInv'
<1>1. /\ StillCurl
      /\ UNCHANGED <<waitForInitialFillSize, eof, readError, right>>
      /\ threadShutdown' \in BOOLEAN
  BY DEF CurlInv, CurlTypes, Curl!Read, Curl!Wait, Curl!Close, Curl!Join, StillCurl, Curl!ring,
     Curl!flags, Curl!ended, Curl!request, Curl!transfer, Curl!seen
<1>2. /\ client' \in [at : CallerPlaces, length : Nat, end : Cells]
      /\ client.at \in Seeking => client'.at \in Seeking
      /\ client'.at \in InRead => client'.length \in CurlLengths
      /\ client'.at # "copy"
  <2>1. CASE \E length \in CurlLengths : Curl!Read(length)
    BY <2>1, SizesAre DEF Curl!Read, Curl!Caller, CallerPlaces, InRead, Seeking
  <2>2. CASE Curl!Wait
    BY <2>2 DEF CurlInv, CurlTypes, CurlRing, Curl!Wait, Curl!Locked, CallerPlaces, InRead, Seeking
  <2>3. CASE Curl!Close \/ Curl!Join
    BY <2>3, SizesAre DEF Curl!Close, Curl!Join, Curl!Caller, CallerPlaces, InRead, Seeking
  <2> QED BY <2>1, <2>2, <2>3
<1>3. /\ download' \in [at : ThreadPlaces, want : Nat, ok : BOOLEAN]
      /\ download'.want = download.want /\ download'.ok = download.ok
      /\ download'.at = download.at \/ (download'.at = "woken" /\ download.at = "wait")
  BY CurlWoken DEF CurlInv, CurlTypes, Curl!Read, Curl!Wait, Curl!Close, Curl!Join
<1>4. CurlTypes'
  BY <1>1, <1>2, <1>3 DEF CurlInv, CurlTypes, StillCurl
<1>5. CurlRing'
  BY <1>1, <1>2, <1>3 DEF CurlInv, CurlRing, StillCurl, Holding
<1>6. CurlSeek'
  BY <1>1, <1>2, <1>3 DEF CurlInv, CurlSeek, StillCurl, Over
<1>7. Clean' => CurlStream'
  BY <1>1, <1>2, <1>3, StillStreams DEF Holding
<1> QED BY <1>4, <1>5, <1>6, <1>7 DEF CurlInv

\* The caller looks at the flags under the mutex.
LEMMA CurlTestKeeps ==
    ASSUME CurlInv, Curl!Test
    PROVE  CurlInv'
<1>1. /\ StillCurl
      /\ UNCHANGED <<waitForInitialFillSize, eof, readError, threadShutdown, download>>
      /\ client.at = "test"
  BY DEF Curl!Test, StillCurl, Curl!ring, Curl!flags, Curl!ended, Curl!request, Curl!transfer
<1>2. client \in [at : CallerPlaces, length : Nat, end : Cells] /\ endIndex \in Cells
  BY DEF CurlInv, CurlTypes
<1>3. /\ client' \in [at : CallerPlaces, length : Nat, end : Cells]
      /\ client'.at \in InRead => client'.length \in CurlLengths
      /\ client'.at = "copy" => ~empty /\ client'.end = endIndex
  <2>1. CASE client' = [client EXCEPT !.at = "blocked"] \/ client' = Curl!Idle
    BY <1>1, <1>2, <2>1, SizesAre DEF CurlInv, CurlRing, Curl!Idle, Curl!Caller, CallerPlaces, InRead
  <2>2. CASE /\ ~Curl!Blocked /\ ~(readError \/ threadShutdown) /\ ~Curl!AtEnd
             /\ client' = [client EXCEPT !.at = "copy", !.end = endIndex]
    <3>1. ~empty
      BY <2>2 DEF Curl!Blocked, Curl!AtEnd
    <3>2. client.length \in CurlLengths
      BY <1>1 DEF CurlInv, CurlRing, InRead
    <3>3. client'.at = "copy" /\ client'.end = endIndex /\ client'.length = client.length
      BY <1>2, <2>2
    <3>4. client' \in [at : CallerPlaces, length : Nat, end : Cells]
      BY <1>2, <2>2 DEF CallerPlaces, InRead
    <3> QED BY <3>1, <3>2, <3>3, <3>4
  <2> QED BY <2>1, <2>2 DEF Curl!Test
<1>4. right' \in BOOLEAN
  BY DEF Curl!Test, CurlInv, CurlTypes
<1>5. CurlTypes'
  BY <1>1, <1>3, <1>4 DEF CurlInv, CurlTypes, StillCurl
<1>6. CurlRing'
  <2>1. Curl!FillSize(startIndex, endIndex) \in Nat
    BY CurlSize DEF CurlInv, CurlTypes
  <2> QED BY <1>1, <1>3, <2>1 DEF CurlInv, CurlRing, StillCurl
<1>7. CurlSeek'
  BY <1>1 DEF CurlInv, CurlSeek, StillCurl, Seeking
<1>8. ASSUME Clean' PROVE right'
  <2>1. CurlStream
    BY <1>1, <1>8 DEF CurlInv, Clean, StillCurl, Curl!SpoilTheStream
  <2>2. ~doSeek /\ pos = posRead
    BY <1>1, <2>1 DEF CurlStream, Seeking
  <2>3. Curl!AtEnd => Kept = 0 /\ posRead + Kept = contentLength
    BY <2>1 DEF Curl!AtEnd, CurlStream, Kept
  <2>4. Curl!AtEnd => pos = contentLength
    BY <2>2, <2>3 DEF CurlInv, CurlTypes
  <2> QED BY <2>1, <2>4 DEF Curl!Test, CurlStream
<1>9. Clean' => CurlStream'
  <2> SUFFICES ASSUME Clean' PROVE CurlStream'
    OBVIOUS
  <2>1. CurlStream
    BY <1>1 DEF CurlInv, Clean, StillCurl, Curl!SpoilTheStream
  <2>2. Kept' = Kept /\ ~doSeek
    BY <1>1, <2>1 DEF StillCurl, Kept, CurlStream, Seeking
  <2> QED BY <1>1, <1>8, <2>1, <2>2 DEF CurlStream, StillCurl
<1> QED BY <1>5, <1>6, <1>7, <1>9 DEF CurlInv

\* A request runs and ends, and the thread tells of it.
LEMMA CurlRequestKeeps ==
    ASSUME CurlInv, Curl!Perform \/ Curl!Ended \/ Curl!Tell \/ Curl!Told
    PROVE  CurlInv'
<1>1. /\ UNCHANGED <<cells, startIndex, endIndex, empty, posRead, doSeek, seekTo, isFresh,
                     resume, next, pos, right, waitForInitialFillSize, threadShutdown>>
      /\ flaws \subseteq flaws'
  BY DEF Curl!Perform, Curl!Ended, Curl!Tell, Curl!Told, Curl!NotifyAtEnd, Curl!ring, Curl!flags,
     Curl!ended, Curl!request, Curl!transfer, Curl!seen
<1>2. /\ client' \in [at : CallerPlaces, length : Nat, end : Cells]
      /\ client'.length = client.length /\ client'.end = client.end
      /\ client'.at \in Seeking <=> client.at \in Seeking
      /\ client'.at \in InRead <=> client.at \in InRead
      /\ client'.at = "copy" <=> client.at = "copy"
  BY CurlTold DEF CurlInv, CurlTypes, Curl!Perform, Curl!Ended, Curl!Tell, Curl!Told, Curl!NotifyAtEnd
<1>3. download \in [at : ThreadPlaces, want : Nat, ok : BOOLEAN]
  BY DEF CurlInv, CurlTypes
<1>4. /\ download' \in [at : ThreadPlaces, want : Nat, ok : BOOLEAN]
      /\ eof' \in BOOLEAN /\ readError' \in BOOLEAN
      /\ download'.at # "store"
      /\ download'.at \in Holding => download'.want \in Pieces /\ next + download'.want <= contentLength
  <2>1. CASE Curl!Perform
    <3>1. eof' \in BOOLEAN /\ readError' \in BOOLEAN
      BY <2>1 DEF CurlInv, CurlTypes, Curl!Perform, Curl!flags, Curl!ended
    <3>2. CASE \E n \in Pieces : next + n <= contentLength /\ download' = Curl!Thread("enter", n, TRUE)
      BY <3>1, <3>2, SizesAre DEF Curl!Thread, ThreadPlaces, Holding
    <3>3. CASE \E ok \in BOOLEAN : download' = Curl!Thread("ended", 0, ok)
      <4>1. download' \in [at : ThreadPlaces, want : Nat, ok : BOOLEAN] /\ download'.at = "ended"
        BY <3>3 DEF Curl!Thread, ThreadPlaces
      <4> QED BY <3>1, <4>1 DEF Holding
    <3> QED BY <2>1, <3>2, <3>3 DEF Curl!Perform
  <2>2. CASE Curl!Ended
    BY <1>3, <2>2 DEF CurlInv, CurlTypes, Curl!Ended, ThreadPlaces, Holding, Curl!flags, Curl!ended
  <2>3. CASE Curl!Tell
    BY <1>3, <2>3 DEF CurlInv, CurlTypes, Curl!Tell, ThreadPlaces, Holding, Over
  <2>4. CASE Curl!Told
    BY <1>3, <2>4 DEF CurlInv, CurlTypes, Curl!Told, ThreadPlaces, Holding, Over, Curl!flags, Curl!ended
  <2> QED BY <2>1, <2>2, <2>3, <2>4
<1>5. CurlTypes'
  BY <1>1, <1>2, <1>4 DEF CurlInv, CurlTypes
<1>6. CurlRing'
  BY <1>1, <1>2, <1>4 DEF CurlInv, CurlRing
<1>7. CurlSeek'
  <2>1. CASE Curl!Perform \/ Curl!Ended
    <3>1. ~eof /\ ~readError /\ eof' = eof /\ readError' = readError
      BY <2>1 DEF CurlInv, CurlSeek, Curl!Perform, Curl!Ended, Over, Curl!flags, Curl!ended
    <3> QED BY <1>1, <1>2, <3>1 DEF CurlInv, CurlSeek
  <2>2. CASE Curl!Tell
    <3>1. download'.at = "told" /\ ~eof /\ ~readError
      BY <1>3, <2>2 DEF CurlInv, CurlSeek, Curl!Tell, Over
    <3> QED BY <1>1, <1>2, <3>1 DEF CurlInv, CurlSeek, Over
  <2>3. CASE Curl!Told
    BY <1>1, <1>2, <1>3, <2>3 DEF CurlInv, CurlSeek, Curl!Told, Over, Curl!flags, Curl!ended
  <2> QED BY <2>1, <2>2, <2>3
<1>8. Clean' => CurlStream'
  <2> SUFFICES ASSUME Clean' PROVE CurlStream'
    OBVIOUS
  <2>1. CurlStream
    BY <1>1 DEF CurlInv, Clean
  <2>2. Kept' = Kept
    BY <1>1 DEF Kept
  <2>3. /\ download'.at \in Holding \cup {"perform"} => next = posRead + Kept
        /\ download'.at = "start" => doSeek
        /\ download'.at \in {"ended", "tell"} /\ download'.ok /\ ~doSeek => posRead + Kept = contentLength
        /\ download'.at = "tell" /\ download'.ok => posRead + Kept = contentLength
        /\ eof' => posRead + Kept = contentLength
    <3>1. CASE Curl!Perform
      BY <1>3, <2>1, <3>1 DEF CurlStream, Curl!Perform, Curl!Thread, Holding, Curl!flags, Curl!ended
    <3>2. CASE Curl!Ended
      BY <1>3, <2>1, <3>2 DEF CurlStream, Curl!Ended, Holding, Curl!flags, Curl!ended
    <3>3. CASE Curl!Tell
      BY <1>3, <2>1, <3>3 DEF CurlStream, Curl!Tell, Holding
    <3>4. CASE Curl!Told
      BY <1>3, <2>1, <3>4 DEF CurlStream, Curl!Told, Holding, Curl!flags, Curl!ended
    <3> QED BY <3>1, <3>2, <3>3, <3>4
  <2> QED BY <1>1, <1>2, <2>1, <2>2, <2>3 DEF CurlStream
<1> QED BY <1>5, <1>6, <1>7, <1>8 DEF CurlInv

\* Room and bytes fill the ring.
LEMMA CurlFree ==
    ASSUME NEW s \in Cells, NEW e \in Cells, NEW none \in BOOLEAN, none => s = e
    PROVE  Curl!Free(s, e, none) = bufSize - (IF none THEN 0 ELSE Curl!FillSize(s, e))
BY SizesAre DEF Curl!FillSize, Curl!Free, Cells

\* What Copy does to the ring, seen from its front.
LEMMA CurlCopies ==
    ASSUME CurlInv, Curl!Copy
    PROVE  /\ Curl!didRead \in Nat /\ Curl!didRead >= 1 /\ Curl!didRead <= Kept
           /\ startIndex' = Curl!Wrap(startIndex + Curl!didRead) /\ startIndex' \in Cells
           /\ empty' \in BOOLEAN /\ (empty' => startIndex' = endIndex')
           /\ Kept' = Kept - Curl!didRead
           /\ \A k \in Nat : k < Kept' =>
                  Curl!Wrap(startIndex' + k) = Curl!Wrap(startIndex + (Curl!didRead + k))
<1> DEFINE f == Curl!FillSize(startIndex, endIndex)
           seen == Curl!FillSize(startIndex, client.end)
           d == Curl!didRead
<1>1. startIndex \in Cells /\ endIndex \in Cells /\ client.end \in Cells
  BY DEF CurlInv, CurlTypes
<1>2. ~empty /\ seen <= f /\ client.length \in Nat /\ client.length >= 1
  <2>1. client.at = "copy"
    BY DEF Curl!Copy
  <2> QED BY <2>1, SizesAre DEF CurlInv, CurlRing, InRead
<1>3. f \in Nat /\ f <= bufSize /\ seen \in Nat /\ seen >= 1
  BY <1>1, CurlSize
<1>4. d \in Nat /\ d >= 1 /\ d <= f
  <2> HIDE DEF f
  <2>1. d = Curl!Least(client.length, seen)
    BY DEF Curl!didRead
  <2> HIDE DEF d, seen
  <2> QED BY <1>2, <1>3, <2>1 DEF Curl!Least
<1>5. Kept = f
  BY <1>2 DEF Kept
<1>6. /\ startIndex' = Curl!Wrap(startIndex + d) /\ endIndex' = endIndex
      /\ empty' = (startIndex' = endIndex)
  <2>1. startIndex' = Curl!Wrap(startIndex + d) /\ endIndex' = endIndex
        /\ empty' = (empty \/ startIndex' = endIndex)
    BY DEF Curl!Copy
  <2> QED BY <1>2, <2>1
<1>7. /\ Curl!Wrap(startIndex + d) \in Cells
      /\ Curl!Wrap(startIndex + d) = endIndex <=> d = f
      /\ d < f => Curl!FillSize(Curl!Wrap(startIndex + d), endIndex) = f - d
      /\ \A k \in Nat : k + d < f =>
             Curl!Wrap(Curl!Wrap(startIndex + d) + k) = Curl!Wrap(startIndex + (d + k))
  <2> HIDE DEF d
  <2> QED BY <1>1, <1>4, CurlTake
<1>8. Kept' = IF empty' THEN 0 ELSE Curl!FillSize(startIndex', endIndex')
  BY DEF Kept
<1> HIDE DEF d, f, seen
<1>9. Kept' = f - d
  <2>1. CASE d = f
    <3>1. startIndex' = endIndex
      BY <1>6, <1>7, <2>1
    <3>2. empty'
      BY <1>6, <3>1
    <3> QED BY <1>3, <1>8, <2>1, <3>2
  <2>2. CASE d < f
    <3>1. d # f
      BY <1>3, <1>4, <2>2
    <3>2. ~empty'
      BY <1>6, <1>7, <3>1
    <3>3. Kept' = Curl!FillSize(startIndex', endIndex')
      BY <1>8, <3>2
    <3> QED BY <1>6, <1>7, <2>2, <3>3
  <2> QED BY <1>3, <1>4, <2>1, <2>2
<1>10. \A k \in Nat : k < Kept' => k + d < f
  BY <1>3, <1>4, <1>9
<1>11. empty' \in BOOLEAN
  BY <1>6
<1>12. \A k \in Nat : k < Kept' => Curl!Wrap(startIndex' + k) = Curl!Wrap(startIndex + (d + k))
  BY <1>6, <1>7, <1>10
<1> QED BY <1>4, <1>5, <1>6, <1>7, <1>9, <1>11, <1>12 DEF d

\* Hence a read keeps the stream.
LEMMA CurlCopyKeeps ==
    ASSUME CurlInv, Curl!Copy
    PROVE  CurlInv'
<1> DEFINE d == Curl!didRead
<1>1. /\ UNCHANGED <<cells, endIndex, waitForInitialFillSize, eof, readError, threadShutdown,
                     doSeek, seekTo, isFresh, resume, next, flaws>>
      /\ posRead' = posRead + d /\ pos' = pos + d
      /\ client' = Curl!Idle /\ download' = Curl!ThreadNotified
      /\ client.at = "copy"
      /\ right' = \A k \in 0 .. d - 1 : cells[Curl!Wrap(startIndex + k)] = pos + k
  BY DEF Curl!Copy, Curl!NotifyAfterRead, Curl!flags, Curl!ended, Curl!request, Curl!transfer
<1>2. /\ d \in Nat /\ d >= 1 /\ d <= Kept
      /\ startIndex' \in Cells /\ empty' \in BOOLEAN /\ (empty' => startIndex' = endIndex')
      /\ Kept' = Kept - d
      /\ \A k \in Nat : k < Kept' =>
             Curl!Wrap(startIndex' + k) = Curl!Wrap(startIndex + (d + k))
  BY CurlCopies
<1> HIDE DEF d
<1>3. CurlTypes /\ Kept \in Nat /\ Kept <= bufSize
  BY CurlKept DEF CurlInv
<1>4. /\ download' \in [at : ThreadPlaces, want : Nat, ok : BOOLEAN]
      /\ download'.want = download.want /\ download'.ok = download.ok
      /\ download'.at = download.at \/ (download'.at = "woken" /\ download.at = "wait")
  BY <1>1, <1>3, CurlWoken
<1>5. client' \in [at : CallerPlaces, length : Nat, end : Cells] /\ client'.at = "idle"
  BY <1>1, SizesAre DEF Curl!Idle, Curl!Caller, CallerPlaces
<1>6. CurlTypes'
  <2>1. right' \in BOOLEAN
    BY <1>1
  <2>2. posRead' \in Int /\ pos' \in Int
    BY <1>1, <1>2, <1>3 DEF CurlTypes
  <2> QED BY <1>1, <1>2, <1>3, <1>4, <1>5, <2>1, <2>2 DEF CurlTypes
<1>7. CurlRing'
  <2>1. Curl!Free(startIndex, endIndex, empty) = bufSize - Kept
    BY <1>3, CurlFree DEF CurlInv, CurlTypes, CurlRing, Kept
  <2>2. (Curl!Free(startIndex, endIndex, empty))' = bufSize - Kept'
    <3>1. Curl!Free(startIndex', endIndex', empty') = bufSize - (IF empty' THEN 0 ELSE Curl!FillSize(startIndex', endIndex'))
      <4>1. startIndex' \in Cells /\ endIndex' \in Cells
        BY <1>1, <1>2, <1>3 DEF CurlTypes
      <4> QED BY <1>2, <4>1, CurlFree
    <3> QED BY <3>1 DEF Kept
  <2>3. download'.at = "store" => (Curl!Free(startIndex, endIndex, empty))' >= download'.want
    <3>1. download.want \in Nat /\ bufSize \in Nat
      BY <1>3, SizesAre DEF CurlTypes
    <3>2. download'.at = "store" => Curl!Free(startIndex, endIndex, empty) >= download.want
      BY <1>4 DEF CurlInv, CurlRing
    <3> QED BY <1>2, <1>3, <1>4, <2>1, <2>2, <3>1, <3>2
  <2> QED BY <1>1, <1>2, <1>4, <1>5, <2>3 DEF CurlInv, CurlRing, Holding, InRead
<1>8. CurlSeek'
  BY <1>1, <1>4 DEF CurlInv, CurlSeek, Over, Seeking
<1>9. Clean' => CurlStream'
  <2> SUFFICES ASSUME Clean' PROVE CurlStream'
    OBVIOUS
  <2>1. CurlStream
    BY <1>1 DEF CurlInv, Clean, Curl!SpoilTheStream
  <2>2. ~doSeek /\ pos = posRead
    BY <1>1, <2>1 DEF CurlStream, Seeking
  <2>3. posRead' + Kept' = posRead + Kept
    BY <1>1, <1>2, <1>3 DEF CurlTypes
  <2>4. right'
    <3>1. ASSUME NEW k \in 0 .. d - 1 PROVE cells[Curl!Wrap(startIndex + k)] = pos + k
      <4>1. k \in 0 .. Kept - 1
        BY <1>2, <1>3
      <4> QED BY <2>1, <2>2, <4>1 DEF CurlStream
    <3> QED BY <1>1, <3>1
  <2>5. ASSUME NEW k \in 0 .. Kept' - 1
        PROVE  cells'[Curl!Wrap(startIndex' + k)] = posRead' + k
    <3>1. k \in Nat /\ k < Kept' /\ d + k \in 0 .. Kept - 1
      BY <1>2, <1>3
    <3>2. cells[Curl!Wrap(startIndex + (d + k))] = posRead + (d + k)
      BY <2>1, <3>1 DEF CurlStream
    <3>3. posRead + (d + k) = posRead' + k
      BY <1>1, <1>2, <1>3, <3>1 DEF CurlTypes
    <3> QED BY <1>1, <1>2, <3>1, <3>2, <3>3
  <2>6. download'.at # "start" \/ doSeek'
    <3>1. ~empty
      BY <1>2, <1>3 DEF Kept
    <3> QED BY <1>1, <1>4, <2>1, <2>2, <3>1 DEF CurlStream
  <2>7. pos' = posRead'
    BY <1>1, <2>2
  <2> QED BY <1>1, <1>4, <2>1, <2>2, <2>3, <2>4, <2>5, <2>6, <2>7 DEF CurlStream, Holding
<1> QED BY <1>6, <1>7, <1>8, <1>9 DEF CurlInv

\* The caller wakes in seek.
LEMMA CurlTestSeekKeeps ==
    ASSUME CurlInv, Curl!TestSeek
    PROVE  CurlInv'
<1>1. /\ UNCHANGED <<cells, startIndex, endIndex, empty, posRead, doSeek, seekTo, isFresh, resume,
                     next, pos, right, waitForInitialFillSize, eof, readError, threadShutdown, download>>
      /\ client.at = "testSeek" /\ flaws \subseteq flaws'
  BY DEF Curl!TestSeek, Curl!SeekReturns, Curl!ring, Curl!flags, Curl!ended, Curl!transfer, Curl!seen
<1>2. /\ client' \in [at : CallerPlaces, length : Nat, end : Cells]
      /\ client'.at \in Seeking \cup {"idle"}
      /\ client'.at = "idle" => ~doSeek \/ ((eof \/ readError) /\ "unprocessed" \in flaws')
  <2>1. CASE (~doSeek \/ eof \/ readError) /\ UNCHANGED doSeek /\ Curl!SeekReturns
    BY <2>1, SizesAre DEF Curl!SeekReturns, Curl!Idle, Curl!Caller, CallerPlaces, Seeking
  <2>2. CASE client' = [client EXCEPT !.at = "seeking"]
    BY <2>2 DEF CurlInv, CurlTypes, CallerPlaces, Seeking
  <2> QED BY <2>1, <2>2 DEF Curl!TestSeek
<1>3. CurlTypes'
  BY <1>1, <1>2 DEF CurlInv, CurlTypes
<1>4. CurlRing'
  BY <1>1, <1>2 DEF CurlInv, CurlRing, InRead, Seeking
<1>5. CurlSeek'
  BY <1>1, <1>2 DEF CurlInv, CurlSeek, Seeking
<1>6. Clean' => CurlStream'
  <2> SUFFICES ASSUME Clean' PROVE CurlStream'
    OBVIOUS
  <2>1. CurlStream
    BY <1>1 DEF CurlInv, Clean
  <2>2. "unprocessed" \notin flaws'
    BY DEF Clean, Curl!SpoilTheStream
  <2>3. Kept' = Kept
    BY <1>1 DEF Kept
  <2> QED BY <1>1, <1>2, <2>1, <2>2, <2>3 DEF CurlStream
<1> QED BY <1>3, <1>4, <1>5, <1>6 DEF CurlInv

\* A call of seek, with its request or without one.
LEMMA CurlSeekKeeps ==
    ASSUME CurlInv, NEW whence \in Curl!Whence, NEW offset \in Int, Curl!Seek(offset, whence)
    PROVE  CurlInv'
<1>1. /\ UNCHANGED <<cells, startIndex, endIndex, empty, posRead, resume, next, right,
                     waitForInitialFillSize, eof, readError, threadShutdown>>
      /\ client.at = "idle" /\ flaws = {}
      /\ pos' = Curl!Meant(offset, whence) /\ pos' \in Curl!Positions
      /\ whence = "SEEK_CUR" => posRead + offset \in Curl!Positions
  BY DEF Curl!Seek, Curl!ring, Curl!flags, Curl!ended, Curl!transfer
<1>2. /\ whence = "SEEK_SET" => pos' = offset
      /\ whence = "SEEK_CUR" => pos' = pos + offset
  BY <1>1 DEF Curl!Meant
<1>3. CurlTypes /\ CurlStream /\ ~doSeek /\ pos = posRead
  <2>1. Clean
    BY <1>1 DEF Clean
  <2> QED BY <1>1, <2>1 DEF CurlInv, CurlStream, Seeking
<1>4. Kept' = Kept
  BY <1>1 DEF Kept
<1>5. pos' \in Int
  BY <1>1, SizesAre
<1>6. CASE Curl!FreshSeekIgnored(offset) \/ (whence = "SEEK_CUR" /\ offset = 0)
  <2>1. /\ isFresh' = Curl!FreshSeekIgnored(offset)
        /\ UNCHANGED <<doSeek, seekTo, client, download>>
        /\ flaws' = flaws \cup (IF pos' # pos THEN {"ignored"} ELSE {})
    BY <1>6 DEF Curl!Seek
  <2>2. CurlTypes' /\ CurlRing' /\ CurlSeek'
    <3>1. isFresh' \in BOOLEAN
      BY <2>1 DEF Curl!FreshSeekIgnored
    <3> QED BY <1>1, <1>5, <2>1, <3>1 DEF CurlInv, CurlTypes, CurlRing, CurlSeek
  <2>3. Clean' => pos' = pos
    BY <2>1 DEF Clean, Curl!SpoilTheStream
  <2>4. Clean' => CurlStream'
    BY <1>1, <1>3, <1>4, <2>1, <2>3 DEF CurlStream
  <2> QED BY <2>2, <2>4 DEF CurlInv
<1>7. CASE ~(Curl!FreshSeekIgnored(offset) \/ (whence = "SEEK_CUR" /\ offset = 0))
  <2>1. /\ isFresh' = FALSE /\ doSeek' = TRUE /\ seekTo' = [offset |-> offset, whence |-> whence]
        /\ download' = Curl!ThreadNotified
        /\ IF eof \/ readError THEN Curl!SeekReturns
           ELSE client' = Curl!Caller("seeking", 0, 0) /\ flaws' = flaws
    BY <1>7 DEF Curl!Seek
  <2>2. /\ download' \in [at : ThreadPlaces, want : Nat, ok : BOOLEAN]
        /\ download'.want = download.want /\ download'.ok = download.ok
        /\ download'.at = download.at \/ (download'.at = "woken" /\ download.at = "wait")
    BY <1>3, <2>1, CurlWoken
  <2>3. /\ client' \in [at : CallerPlaces, length : Nat, end : Cells]
        /\ client'.at \notin InRead
        /\ ~eof /\ ~readError => client'.at \in Seeking
        /\ eof \/ readError => "unprocessed" \in flaws'
    BY <2>1, SizesAre DEF Curl!SeekReturns, Curl!Idle, Curl!Caller, CallerPlaces, Seeking, InRead
  <2>4. seekTo' \in [offset : Int, whence : Curl!Whence] /\ seekTo'.offset = offset /\ seekTo'.whence = whence
    BY <2>1
  <2>5. CurlTypes'
    BY <1>1, <1>3, <1>5, <2>1, <2>2, <2>3, <2>4 DEF CurlTypes
  <2>6. CurlRing'
    BY <1>1, <2>2, <2>3 DEF CurlInv, CurlRing, Holding, InRead
  <2>7. CurlSeek'
    BY <1>1, <1>2, <2>2, <2>3, <2>4 DEF CurlInv, CurlSeek, Over
  <2>8. ASSUME Clean' PROVE CurlStream'
    <3>1. ~eof /\ ~readError /\ client'.at \in Seeking
      BY <2>3, <2>8 DEF Clean, Curl!SpoilTheStream
    <3>2. whence = "SEEK_CUR" => pos' = posRead + offset
      BY <1>2, <1>3
    <3> QED BY <1>1, <1>2, <1>3, <1>4, <2>1, <2>2, <2>4, <3>1, <3>2 DEF CurlStream, Holding
  <2> QED BY <2>5, <2>6, <2>7, <2>8 DEF CurlInv
<1> QED BY <1>6, <1>7

\* The thread begins a request.
LEMMA CurlStartKeeps ==
    ASSUME CurlInv, Curl!StartRequest
    PROVE  CurlInv'
<1>1. /\ UNCHANGED <<cells, startIndex, endIndex, empty, eof, readError, threadShutdown, seekTo,
                     isFresh, pos, right>>
      /\ download.at = "start" /\ flaws \subseteq flaws'
      /\ download' = Curl!Thread("perform", 0, TRUE)
      /\ ~doSeek' /\ next' = resume'
  BY DEF Curl!StartRequest, Curl!ring, Curl!ended, Curl!seen
<1>2. CurlTypes /\ ~eof /\ ~readError
  BY <1>1 DEF CurlInv, CurlSeek, Over
<1>3. /\ ~doSeek \/ seekTo.whence = "SEEK_END" => posRead' = posRead /\ resume' = resume
      /\ doSeek /\ seekTo.whence = "SEEK_SET" => posRead' = seekTo.offset /\ resume' = posRead'
      /\ doSeek /\ seekTo.whence = "SEEK_CUR" => posRead' = posRead + seekTo.offset /\ resume' = posRead'
  <2>1. seekTo.whence \in Curl!Whence
    BY <1>2 DEF CurlTypes
  <2> QED BY <2>1 DEF Curl!StartRequest, Curl!Whence
<1>4. posRead' \in Int /\ resume' \in Curl!Positions
  <2>1. Curl!Positions \subseteq Int
    BY SizesAre
  <2>2. CASE ~doSeek \/ seekTo.whence = "SEEK_END"
    BY <1>2, <1>3, <2>2 DEF CurlTypes
  <2>3. CASE doSeek /\ seekTo.whence \in {"SEEK_SET", "SEEK_CUR"}
    BY <1>2, <1>3, <2>1, <2>3 DEF CurlInv, CurlSeek
  <2> QED BY <1>2, <2>2, <2>3 DEF CurlTypes, Curl!Whence
<1>5. /\ client' \in [at : CallerPlaces, length : Nat, end : Cells]
      /\ client'.length = client.length /\ client'.end = client.end
      /\ client'.at \in InRead <=> client.at \in InRead
      /\ client'.at = "copy" <=> client.at = "copy"
  <2>1. client' = client \/ client' = Curl!CallerNotified
    BY DEF Curl!StartRequest
  <2> QED BY <1>2, <2>1, CurlTold DEF CurlTypes
<1>6. download' \in [at : ThreadPlaces, want : Nat, ok : BOOLEAN] /\ download'.at = "perform"
  BY <1>1 DEF Curl!Thread, ThreadPlaces
<1>7. CurlTypes'
  <2>1. waitForInitialFillSize' \in BOOLEAN
    <3>1. waitForInitialFillSize' = waitForInitialFillSize \/ waitForInitialFillSize' = (initialFillSize > 0)
      BY DEF Curl!StartRequest
    <3>2. (initialFillSize > 0) \in BOOLEAN
      OBVIOUS
    <3>3. CASE waitForInitialFillSize' = waitForInitialFillSize
      BY <1>2, <3>3 DEF CurlTypes
    <3>4. CASE waitForInitialFillSize' = (initialFillSize > 0)
      BY <3>2, <3>4, Zenon
    <3> QED BY <3>1, <3>3, <3>4
  <2>2. doSeek' \in BOOLEAN
    BY DEF Curl!StartRequest
  <2> QED BY <1>1, <1>2, <1>4, <1>5, <1>6, <2>1, <2>2 DEF CurlTypes
<1>8. CurlRing'
  BY <1>1, <1>5, <1>6 DEF CurlInv, CurlRing, Holding
<1>9. CurlSeek'
  BY <1>1, <1>2 DEF CurlSeek
<1>10. Clean' => CurlStream'
  <2> SUFFICES ASSUME Clean' PROVE CurlStream'
    OBVIOUS
  <2>1. CurlStream
    BY <1>1 DEF CurlInv, Clean
  <2>2. doSeek => empty /\ seekTo.whence # "SEEK_END"
    <3>1. flaws' = flaws \cup (IF doSeek /\ ~empty THEN {"kept"} ELSE {})
                         \cup (IF doSeek /\ seekTo.whence = "SEEK_END" THEN {"end"} ELSE {})
      BY DEF Curl!StartRequest
    <3>2. "kept" \notin flaws' /\ "end" \notin flaws'
      BY DEF Clean, Curl!SpoilTheStream
    <3> QED BY <3>1, <3>2
  <2>3. empty
    BY <1>1, <2>1, <2>2 DEF CurlStream
  <2>4. Kept' = 0
    BY <1>1, <2>3 DEF Kept
  <2>5. pos = posRead' /\ next' = posRead'
    <3>1. CASE ~doSeek
      BY <1>1, <1>3, <2>1, <3>1 DEF CurlStream
    <3>2. CASE doSeek
      <4>1. seekTo.whence \in {"SEEK_SET", "SEEK_CUR"}
        BY <1>2, <2>2, <3>2 DEF CurlTypes, Curl!Whence
      <4> QED BY <1>1, <1>3, <2>1, <3>2, <4>1 DEF CurlStream
    <3> QED BY <3>1, <3>2
  <2>6. next' = posRead' + Kept' /\ 0 .. Kept' - 1 = {}
    <3>1. \A i \in Int : i + 0 = i
      OBVIOUS
    <3>2. 0 .. 0 - 1 = {}
      OBVIOUS
    <3> QED BY <1>4, <2>4, <2>5, <3>1, <3>2
  <2>7. right' /\ ~eof' /\ ~doSeek' /\ pos' = posRead'
    BY <1>1, <1>2, <2>1, <2>5 DEF CurlStream
  <2> QED BY <1>6, <2>6, <2>7 DEF CurlStream
<1> QED BY <1>7, <1>8, <1>9, <1>10 DEF CurlInv

\* The turn of the loop ends with the piece to be stored, a wait, or the request
\* given up.
AfterTurn ==
    /\ download' \in [at : ThreadPlaces, want : Nat, ok : BOOLEAN]
    /\ download'.at \in {"store", "wait", "ended"}
    /\ download'.at \in {"store", "wait"} => download'.want = download.want
    /\ download'.at = "ended" => ~download'.ok
    /\ download'.at = "store" => (Curl!Free(startIndex, endIndex, empty))' >= download.want

\* The loop of the callback ends in one of five ways.
LEMMA CurlTurns ==
    ASSUME CurlInv, download.at \in {"enter", "woken"},
           \/ Curl!Return0
           \/ download' = [download EXCEPT !.at = "wait"]
           \/ /\ download' = [download EXCEPT !.at = "store"]
              /\ (Curl!Free(startIndex, endIndex, empty))' >= download.want
    PROVE  AfterTurn
<1>1. download \in [at : ThreadPlaces, want : Nat, ok : BOOLEAN]
  BY DEF CurlInv, CurlTypes
<1>2. CASE Curl!Return0
  BY <1>2 DEF Curl!Return0, Curl!Thread, AfterTurn, ThreadPlaces
<1>3. CASE download' = [download EXCEPT !.at = "wait"]
  BY <1>1, <1>3 DEF AfterTurn, ThreadPlaces, Holding
<1>4. CASE /\ download' = [download EXCEPT !.at = "store"]
           /\ (Curl!Free(startIndex, endIndex, empty))' >= download.want
  BY <1>1, <1>4 DEF AfterTurn, ThreadPlaces, Holding
<1> QED BY <1>2, <1>3, <1>4

\* A seek answered from the buffer.
LEMMA CurlSkips ==
    ASSUME CurlInv, Curl!InBuffer, ~Curl!Wild, Curl!SkipAhead, AfterTurn,
           download.at \in {"enter", "woken"},
           UNCHANGED <<cells, seekTo, isFresh, waitForInitialFillSize, eof, readError, threadShutdown,
                       resume, next, pos, right>>
    PROVE  CurlInv'
<1> DEFINE f == Curl!FillSize(startIndex, endIndex)
           d == Curl!relSeek
           to == Curl!Wrap(startIndex + d)
<1>1. CurlTypes /\ ~eof /\ ~readError /\ doSeek /\ ~empty /\ client.at \in Seeking
  BY DEF CurlInv, CurlSeek, Over, Curl!InBuffer
<1>2. d \in Int /\ d <= f /\ startIndex + d >= 0
  <2>1. d \in Int /\ startIndex + d \in Int
    BY <1>1, SizesAre DEF CurlTypes, Curl!relSeek, Cells
  <2>2. ~(startIndex + d < 0) /\ d <= f
    BY DEF Curl!Wild, Curl!InBuffer
  <2> QED BY <2>1, <2>2
<1>3. startIndex \in Cells /\ endIndex \in Cells /\ f \in Nat /\ f >= 1 /\ f <= bufSize
  BY <1>1, CurlSize DEF CurlTypes
<1>4. /\ empty' = (to = endIndex)
      /\ startIndex' = (IF to = endIndex THEN 0 ELSE to)
      /\ endIndex' = (IF to = endIndex THEN 0 ELSE endIndex)
      /\ posRead' = posRead + d /\ ~doSeek' /\ doSeek' \in BOOLEAN
      /\ client' = Curl!CallerNotified /\ flaws \subseteq flaws'
      /\ d < 0 => "backwards" \in flaws'
      /\ d = 0 /\ startIndex = endIndex => "dropped" \in flaws'
  BY DEF Curl!SkipAhead, Curl!PosMoved
<1>5. Kept = f /\ Kept' = IF to = endIndex THEN 0 ELSE Curl!FillSize(to, endIndex)
  BY <1>1, <1>4 DEF Kept
<1>6. to \in Cells
  <2> HIDE DEF d
  <2>1. d <= bufSize
    BY <1>2, <1>3, SizesAre
  <2> QED BY <1>2, <1>3, <2>1, SizesAre DEF Curl!Wrap, Cells
<1>7. /\ d >= 0 /\ (d = 0 => startIndex # endIndex) =>
           /\ to = endIndex <=> d = f
           /\ d < f => Curl!FillSize(to, endIndex) = f - d
           /\ \A k \in Nat : k + d < f => Curl!Wrap(to + k) = Curl!Wrap(startIndex + (d + k))
  <2> SUFFICES ASSUME d >= 0, d = 0 => startIndex # endIndex
               PROVE  /\ to = endIndex <=> d = f
                      /\ d < f => Curl!FillSize(to, endIndex) = f - d
                      /\ \A k \in Nat : k + d < f => Curl!Wrap(to + k) = Curl!Wrap(startIndex + (d + k))
    OBVIOUS
  <2>1. d \in Nat
    BY <1>2
  <2> HIDE DEF d
  <2> QED BY <1>2, <1>3, <2>1, CurlTake
<1> HIDE DEF d, f, to
<1>8. /\ client' \in [at : CallerPlaces, length : Nat, end : Cells]
      /\ client'.length = client.length
      /\ client'.at \in Seeking
  BY <1>1, <1>4, CurlTold
<1>9. CurlTypes'
  <2>1. startIndex' \in Cells /\ endIndex' \in Cells /\ empty' \in BOOLEAN
    BY <1>3, <1>4, <1>6, SizesAre
  <2>2. posRead' \in Int
    BY <1>1, <1>2, <1>4 DEF CurlTypes
  <2> QED BY <1>1, <1>4, <1>8, <2>1, <2>2 DEF CurlTypes, AfterTurn
<1>10. CurlRing'
  <2>1. empty' => startIndex' = endIndex'
    BY <1>4
  <2>2. client'.at \notin InRead /\ client'.at # "copy"
    BY <1>8 DEF Seeking, InRead
  <2>3. download.want \in Pieces /\ next + download.want <= contentLength
    BY DEF CurlInv, CurlRing, Holding
  <2> QED BY <2>1, <2>2, <2>3 DEF CurlRing, AfterTurn, Holding
<1>11. CurlSeek'
  BY <1>1, <1>4 DEF CurlSeek
<1>12. Clean' => CurlStream'
  <2> SUFFICES ASSUME Clean' PROVE CurlStream'
    OBVIOUS
  <2>1. CurlStream
    BY <1>4 DEF CurlInv, Clean
  <2>2. d >= 0 /\ (d = 0 => startIndex # endIndex)
    <3>1. "backwards" \notin flaws' /\ "dropped" \notin flaws'
      BY DEF Clean, Curl!SpoilTheStream
    <3> QED BY <1>2, <1>4, <3>1
  <2>3. Kept' = f - d
    <3>1. CASE d = f
      BY <1>3, <1>5, <1>7, <2>2, <3>1
    <3>2. CASE d < f
      <4>1. d # f
        BY <1>2, <1>3, <3>2
      <4> QED BY <1>5, <1>7, <2>2, <3>2, <4>1
    <3> QED BY <1>2, <1>3, <3>1, <3>2
  <2>4. pos = posRead'
    <3>1. seekTo.whence = "SEEK_SET" \/ seekTo.whence = "SEEK_CUR"
      BY DEF Curl!InBuffer
    <3>2. CASE seekTo.whence = "SEEK_SET"
      <4>1. d = seekTo.offset - posRead /\ pos = seekTo.offset
        BY <1>1, <2>1, <3>2 DEF d, Curl!relSeek, CurlStream
      <4> QED BY <1>1, <1>4, <4>1 DEF CurlTypes
    <3>3. CASE seekTo.whence = "SEEK_CUR"
      <4>1. d = seekTo.offset /\ pos = posRead + seekTo.offset
        <5>1. d = seekTo.offset - 0
          BY <3>3 DEF d, Curl!relSeek
        <5> QED BY <1>1, <2>1, <3>3, <5>1 DEF CurlStream, CurlTypes
      <4> QED BY <1>4, <4>1
    <3> QED BY <3>1, <3>2, <3>3
  <2>5. posRead' + Kept' = posRead + Kept
    BY <1>1, <1>2, <1>3, <1>4, <1>5, <2>3 DEF CurlTypes
  <2>6. ASSUME NEW k \in 0 .. Kept' - 1
        PROVE  cells'[Curl!Wrap(startIndex' + k)] = posRead' + k
    <3>1. k \in Nat /\ k + d < f /\ d + k \in 0 .. Kept - 1
      BY <1>2, <1>3, <1>5, <2>2, <2>3
    <3>2. startIndex' = to
      <4>1. to # endIndex
        BY <1>3, <1>7, <2>2, <3>1
      <4> QED BY <1>4, <4>1
    <3>3. cells[Curl!Wrap(startIndex + (d + k))] = posRead + (d + k)
      BY <2>1, <3>1 DEF CurlStream
    <3>4. posRead + (d + k) = posRead' + k
      BY <1>1, <1>2, <1>4, <3>1 DEF CurlTypes
    <3> QED BY <1>7, <2>2, <3>1, <3>2, <3>3, <3>4
  <2>7. next = posRead + Kept
    BY <2>1 DEF CurlStream, Holding
  <2>8. download'.at \notin {"start", "tell"} /\ (download'.at = "ended" => ~download'.ok)
    BY DEF AfterTurn
  <2> QED BY <1>1, <1>4, <2>1, <2>4, <2>5, <2>6, <2>7, <2>8 DEF CurlStream
<1> QED BY <1>9, <1>10, <1>11, <1>12 DEF CurlInv
\* A turn without a seek: an empty ring may start over.
Stays ==
    /\ UNCHANGED <<cells, empty, doSeek, seekTo, isFresh, posRead, client, flaws>>
    /\ \/ startIndex' = startIndex /\ endIndex' = endIndex
       \/ empty /\ startIndex' = 0 /\ endIndex' = 0

\* A seek that needs a new request may empty the ring.
LEMMA CurlRestarts ==
    ASSUME CurlInv, Curl!Restarted, UNCHANGED empty
    PROVE  /\ \/ startIndex' = startIndex /\ endIndex' = endIndex
              \/ empty /\ startIndex' = 0 /\ endIndex' = 0
           /\ (Curl!Free(startIndex, endIndex, empty))' = Curl!Free(startIndex, endIndex, empty)
BY DEF Curl!Restarted, Curl!Free

\* What a turn of the callback's loop may do.
LEMMA CurlTurnCases ==
    ASSUME CurlInv, Curl!Enter \/ Curl!Woken
    PROVE  \/ Curl!GoWild
           \/ Curl!Abort
           \/ /\ Curl!InBuffer /\ ~Curl!Wild /\ Curl!SkipAhead /\ AfterTurn
              /\ UNCHANGED <<cells, seekTo, isFresh>>
           \/ Stays /\ AfterTurn
<1>1. CASE Curl!Enter
  <2>1. download.at = "enter"
    BY <1>1 DEF Curl!Enter
  <2>2. CASE Curl!GoWild \/ Curl!Abort
    BY <2>2
  <2>3. CASE /\ Curl!InBuffer /\ ~Curl!Wild /\ Curl!SkipAhead
             /\ UNCHANGED <<cells, seekTo, isFresh, seeks>>
             /\ IF threadShutdown THEN Curl!Return0
                ELSE download' = [download EXCEPT !.at =
                         IF Curl!Free(startIndex', endIndex', empty') >= download.want
                         THEN "store" ELSE "wait"]
    <3>1. AfterTurn
      BY <2>1, <2>3, CurlTurns
    <3> QED BY <2>3, <3>1
  <2>4. CASE /\ ~doSeek
             /\ UNCHANGED <<cells, empty, Curl!request, posRead, client, flaws>>
             /\ Curl!Restarted
             /\ IF threadShutdown THEN Curl!Return0
                ELSE download' = [download EXCEPT !.at =
                         IF Curl!Free(startIndex, endIndex, empty) >= download.want
                         THEN "store" ELSE "wait"]
    <3>1. AfterTurn
      BY <2>1, <2>4, CurlTurns, CurlRestarts
    <3>2. Stays
      BY <2>4, CurlRestarts DEF Stays, Curl!request
    <3> QED BY <3>1, <3>2
  <2> QED BY <1>1, <2>2, <2>3, <2>4, Zenon DEF Curl!Enter
<1>2. CASE Curl!Woken
  <2>1. download.at = "woken"
    BY <1>2 DEF Curl!Woken
  <2>2. CASE threadShutdown /\ Curl!Return0 /\ UNCHANGED <<Curl!ring, Curl!request, posRead, client, flaws>>
    <3>1. AfterTurn
      BY <2>1, <2>2, CurlTurns
    <3> QED BY <2>2, <3>1 DEF Stays, Curl!ring, Curl!request
  <2>3. CASE /\ Curl!Free(startIndex, endIndex, empty) >= download.want
             /\ Curl!Restarted
             /\ download' = [download EXCEPT !.at = "store"]
             /\ UNCHANGED <<cells, empty, Curl!request, posRead, client, flaws>>
    <3>1. AfterTurn
      BY <2>1, <2>3, CurlTurns, CurlRestarts
    <3>2. Stays
      BY <2>3, CurlRestarts DEF Stays, Curl!request
    <3> QED BY <3>1, <3>2
  <2>4. CASE Curl!GoWild \/ Curl!Abort
    BY <2>4
  <2>5. CASE /\ Curl!InBuffer /\ ~Curl!Wild /\ Curl!SkipAhead
             /\ download' = [download EXCEPT !.at = "wait"]
             /\ UNCHANGED <<cells, seekTo, isFresh, seeks>>
    <3>1. AfterTurn
      BY <2>1, <2>5, CurlTurns
    <3> QED BY <2>5, <3>1
  <2>6. CASE /\ download' = [download EXCEPT !.at = "wait"]
             /\ UNCHANGED <<Curl!ring, Curl!request, posRead, client, flaws>>
    <3>1. AfterTurn
      BY <2>1, <2>6, CurlTurns
    <3> QED BY <2>6, <3>1 DEF Stays, Curl!ring, Curl!request
  <2> QED BY <1>2, <2>2, <2>3, <2>4, <2>5, <2>6, Zenon DEF Curl!Woken
<1> QED BY <1>1, <1>2

\* The callback begins, or wakes.
LEMMA CurlEnterKeeps ==
    ASSUME CurlInv, Curl!Enter \/ Curl!Woken
    PROVE  CurlInv'
<1>1. /\ UNCHANGED <<waitForInitialFillSize, eof, readError, threadShutdown, resume, next, pos, right>>
      /\ download.at \in {"enter", "woken"}
  BY DEF Curl!Enter, Curl!Woken, Curl!flags, Curl!ended, Curl!transfer, Curl!seen
<1>2. CurlTypes /\ ~eof /\ ~readError
  BY <1>1 DEF CurlInv, CurlSeek, Over
<1>3. CASE Curl!GoWild
  <2>1. /\ UNCHANGED <<cells, startIndex, endIndex, empty, doSeek, seekTo, isFresh, posRead, client>>
        /\ "backwards" \in flaws' /\ download' = [download EXCEPT !.at = "wild"]
    BY <1>3 DEF Curl!GoWild, Curl!ring, Curl!request
  <2>2. download' \in [at : ThreadPlaces, want : Nat, ok : BOOLEAN] /\ download'.at = "wild"
    BY <1>2, <2>1 DEF CurlTypes, ThreadPlaces
  <2>3. CurlTypes' /\ CurlRing' /\ CurlSeek'
    BY <1>1, <1>2, <2>1, <2>2 DEF CurlInv, CurlTypes, CurlRing, CurlSeek, Holding
  <2>4. ~Clean'
    BY <2>1 DEF Clean, Curl!SpoilTheStream
  <2> QED BY <2>3, <2>4 DEF CurlInv
<1>4. CASE Curl!Abort
  <2>1. /\ UNCHANGED <<cells, doSeek, seekTo, isFresh, posRead, client, flaws>>
        /\ startIndex' = 0 /\ endIndex' = 0 /\ empty' = TRUE /\ doSeek
        /\ download' = Curl!Thread("ended", 0, FALSE)
    BY <1>4 DEF Curl!Abort, Curl!Return0, Curl!request
  <2>2. /\ download' \in [at : ThreadPlaces, want : Nat, ok : BOOLEAN]
        /\ download'.at = "ended" /\ ~download'.ok
    BY <2>1 DEF Curl!Thread, ThreadPlaces
  <2>3. client.at \in Seeking
    BY <1>2, <2>1 DEF CurlInv, CurlSeek
  <2>4. CurlTypes'
    BY <1>1, <1>2, <2>1, <2>2, SizesAre DEF CurlTypes
  <2>5. CurlRing' /\ CurlSeek'
    BY <1>1, <1>2, <2>1, <2>2, <2>3 DEF CurlInv, CurlRing, CurlSeek, Holding, Seeking, InRead
  <2>6. ASSUME Clean' PROVE CurlStream'
    <3>1. CurlStream
      BY <2>1, <2>6 DEF CurlInv, Clean, Curl!SpoilTheStream
    <3>2. Kept' = 0 /\ 0 .. Kept' - 1 = {}
      BY <2>1 DEF Kept
    <3> QED BY <1>1, <1>2, <2>1, <2>2, <3>1, <3>2 DEF CurlStream, Holding
  <2> QED BY <2>4, <2>5, <2>6 DEF CurlInv
<1>5. CASE /\ Curl!InBuffer /\ ~Curl!Wild /\ Curl!SkipAhead /\ AfterTurn
           /\ UNCHANGED <<cells, seekTo, isFresh>>
  BY <1>1, <1>5, CurlSkips
<1>6. CASE Stays /\ AfterTurn
  <2>1. Kept' = Kept /\ (empty => Kept = 0)
    BY <1>6 DEF Stays, Kept
  <2>2. CurlTypes'
    BY <1>1, <1>2, <1>6, SizesAre DEF CurlTypes, Stays, AfterTurn
  <2>3. download'.at \in Holding => download'.want \in Pieces /\ next' + download'.want <= contentLength
    BY <1>1, <1>6 DEF CurlInv, CurlRing, AfterTurn, Holding
  <2>4. CurlRing'
    BY <1>6, <2>3 DEF CurlInv, CurlRing, Stays, AfterTurn, Holding
  <2>5. CurlSeek'
    BY <1>1, <1>2, <1>6 DEF CurlInv, CurlSeek, Stays
  <2>6. ASSUME Clean' PROVE CurlStream'
    <3>1. CurlStream
      BY <1>6, <2>6 DEF CurlInv, Clean, Stays, Curl!SpoilTheStream
    <3>2. ASSUME NEW k \in 0 .. Kept' - 1
          PROVE  cells'[Curl!Wrap(startIndex' + k)] = posRead' + k
      <4>1. startIndex' = startIndex
        BY <1>6, <2>1 DEF Stays
      <4> QED BY <1>6, <2>1, <3>1, <4>1 DEF CurlStream, Stays
    <3>3. next' = posRead' + Kept'
      BY <1>1, <1>6, <2>1, <3>1 DEF CurlStream, Stays, Holding
    <3>4. download'.at \notin {"start", "tell"} /\ (download'.at = "ended" => ~download'.ok)
      BY <1>6 DEF AfterTurn
    <3>5. /\ right' /\ ~eof' /\ client' = client /\ doSeek' = doSeek /\ seekTo' = seekTo
          /\ pos' = pos /\ posRead' = posRead
      BY <1>1, <1>2, <1>6, <3>1 DEF Stays, CurlStream
    <3> QED BY <3>1, <3>2, <3>3, <3>4, <3>5 DEF CurlStream
  <2> QED BY <2>2, <2>4, <2>5, <2>6 DEF CurlInv
<1> QED BY <1>3, <1>4, <1>5, <1>6, CurlTurnCases

\* It stores its piece and notifies.
LEMMA CurlStoreKeeps ==
    ASSUME CurlInv, Curl!Store
    PROVE  CurlInv'
<1> DEFINE n == download.want
<1>1. /\ UNCHANGED <<startIndex, eof, readError, threadShutdown, doSeek, seekTo, isFresh, posRead,
                     resume, pos, right, flaws>>
      /\ endIndex' = Curl!Wrap(endIndex + n) /\ empty' = FALSE /\ next' = next + n
      /\ download.at = "store" /\ download' = Curl!Thread("perform", 0, TRUE)
      /\ client' = client \/ client' = Curl!CallerNotified
  BY DEF Curl!Store, Curl!ended, Curl!request, Curl!seen
<1>2. cells' = [i \in Cells |-> IF Behind(i, endIndex) < n THEN next + Behind(i, endIndex) ELSE cells[i]]
  BY SizesAre DEF Curl!Store, Behind
<1>3. CurlTypes /\ ~eof /\ ~readError /\ Kept \in Nat /\ Kept <= bufSize
  BY <1>1, CurlKept DEF CurlInv, CurlSeek, Over
<1>4. n \in Nat /\ n >= 1 /\ next + n <= contentLength
  BY <1>1, SizesAre DEF CurlInv, CurlRing, Holding
<1>5. Curl!Free(startIndex, endIndex, empty) >= n /\ (empty => startIndex = endIndex)
  BY <1>1 DEF CurlInv, CurlRing
<1> HIDE DEF n
<1>6. /\ Curl!Wrap(endIndex + n) \in Cells
      /\ Curl!FillSize(startIndex, Curl!Wrap(endIndex + n)) = Kept + n
      /\ \A k \in Nat : k < Kept => Behind(Curl!Wrap(startIndex + k), endIndex) >= n
      /\ \A k \in Nat : Kept <= k /\ k < Kept + n =>
             Behind(Curl!Wrap(startIndex + k), endIndex) = k - Kept
  <2>1. startIndex \in Cells /\ endIndex \in Cells /\ empty \in BOOLEAN
    BY <1>3 DEF CurlTypes
  <2> QED BY <1>4, <1>5, <2>1, CurlAdd DEF Kept
<1>7. Kept' = Kept + n
  BY <1>1, <1>6 DEF Kept
<1>8. Kept + n <= bufSize
  BY <1>1, <1>3, <1>6, CurlSize DEF CurlTypes
<1>9. /\ client' \in [at : CallerPlaces, length : Nat, end : Cells]
      /\ client'.length = client.length /\ client'.end = client.end
      /\ client'.at \in Seeking <=> client.at \in Seeking
      /\ client'.at \in InRead <=> client.at \in InRead
      /\ client'.at = "copy" <=> client.at = "copy"
  BY <1>1, <1>3, CurlTold DEF CurlTypes
<1>10. download' \in [at : ThreadPlaces, want : Nat, ok : BOOLEAN] /\ download'.at = "perform"
  BY <1>1 DEF Curl!Thread, ThreadPlaces
<1>11. CurlTypes'
  <2>1. cells' \in [Cells -> Curl!Positions \cup {-1}]
    <3>1. ASSUME NEW i \in Cells, Behind(i, endIndex) < n
          PROVE  next + Behind(i, endIndex) \in Curl!Positions
      <4>1. Behind(i, endIndex) \in Nat
        BY <1>3, SizesAre DEF CurlTypes, Behind, Cells
      <4> QED BY <1>3, <1>4, <3>1, <4>1, SizesAre DEF CurlTypes
    <3>2. ASSUME NEW i \in Cells PROVE cells[i] \in Curl!Positions \cup {-1}
      BY <1>3 DEF CurlTypes
    <3> QED BY <1>2, <3>1, <3>2
  <2>2. waitForInitialFillSize' \in BOOLEAN
    BY <1>3 DEF Curl!Store, CurlTypes
  <2>3. next' \in Curl!Positions
    BY <1>1, <1>3, <1>4, SizesAre DEF CurlTypes
  <2> QED BY <1>1, <1>3, <1>6, <1>9, <1>10, <2>1, <2>2, <2>3 DEF CurlTypes
<1>12. CurlRing'
  <2>1. client.at = "copy" => Curl!FillSize(startIndex, endIndex) = Kept
    BY DEF CurlInv, CurlRing, Kept
  <2>2. client.at = "copy" => Curl!FillSize(startIndex, client.end) \in Nat
    BY <1>3, CurlSize DEF CurlTypes
  <2>3. client'.at = "copy" =>
            Curl!FillSize(startIndex, client.end) <= Curl!FillSize(startIndex, Curl!Wrap(endIndex + n))
    BY <1>3, <1>4, <1>6, <1>9, <2>1, <2>2 DEF CurlInv, CurlRing
  <2> QED BY <1>1, <1>9, <1>10, <2>3 DEF CurlInv, CurlRing, Holding
<1>13. CurlSeek'
  BY <1>1, <1>3, <1>9 DEF CurlInv, CurlSeek
<1>14. ASSUME Clean' PROVE CurlStream'
  <2>1. CurlStream
    BY <1>1, <1>14 DEF CurlInv, Clean, Curl!SpoilTheStream
  <2>2. next = posRead + Kept
    BY <1>1, <2>1 DEF CurlStream, Holding
  <2>3. ASSUME NEW k \in 0 .. Kept' - 1
        PROVE  cells'[Curl!Wrap(startIndex' + k)] = posRead' + k
    <3> DEFINE i == Curl!Wrap(startIndex + k)
    <3>1. k \in Nat /\ k < Kept + n /\ k < bufSize
      BY <1>3, <1>4, <1>7, <1>8, SizesAre
    <3>2. i \in Cells
      BY <1>3, <3>1, CurlCell DEF CurlTypes
    <3>3. CASE k < Kept
      <4>1. Behind(i, endIndex) >= n /\ k \in 0 .. Kept - 1
        BY <1>3, <1>6, <3>1, <3>3
      <4>2. ~(Behind(i, endIndex) < n)
        <5>1. Behind(i, endIndex) \in Int
          BY <1>3, <3>2, SizesAre DEF Behind, CurlTypes, Cells
        <5> HIDE DEF i
        <5> QED BY <1>4, <4>1, <5>1
      <4>3. cells[i] = posRead + k
        BY <2>1, <4>1 DEF CurlStream
      <4> QED BY <1>1, <1>2, <3>2, <4>2, <4>3
    <3>4. CASE k >= Kept
      <4>1. Behind(i, endIndex) = k - Kept
        BY <1>3, <1>6, <3>1, <3>4
      <4> HIDE DEF i
      <4>2. Behind(i, endIndex) < n /\ next + Behind(i, endIndex) = posRead + k
        BY <1>3, <1>4, <2>2, <3>1, <4>1 DEF CurlTypes
      <4>3. cells'[i] = posRead + k
        BY <1>2, <3>2, <4>2
      <4> QED BY <1>1, <4>3 DEF i
    <3> QED BY <1>3, <3>1, <3>3, <3>4
  <2>4. next' = posRead' + Kept'
    BY <1>1, <1>3, <1>4, <1>7, <2>2 DEF CurlTypes
  <2> QED BY <1>1, <1>3, <1>9, <1>10, <2>1, <2>3, <2>4 DEF CurlStream
<1> QED BY <1>11, <1>12, <1>13, <1>14 DEF CurlInv

\* Every step of caller and thread.
LEMMA CurlKeeps == CurlInv /\ [Curl!Next]_(Curl!vars) => CurlInv'
<1> SUFFICES ASSUME CurlInv, [Curl!Next]_(Curl!vars) PROVE CurlInv'
  OBVIOUS
<1>1. CASE UNCHANGED Curl!vars
  <2>1. /\ UNCHANGED <<cells, startIndex, endIndex, empty, posRead, doSeek, seekTo, isFresh, resume, next,
                       pos, right, flaws, client, download>>
        /\ UNCHANGED <<waitForInitialFillSize, eof, readError, threadShutdown>>
    BY <1>1 DEF Curl!vars, Curl!ring, Curl!flags, Curl!ended, Curl!request, Curl!transfer, Curl!seen
  <2>2. Kept' = Kept
    BY <2>1 DEF Kept
  <2>3. CurlTypes' /\ CurlRing' /\ CurlSeek'
    BY <2>1 DEF CurlInv, CurlTypes, CurlRing, CurlSeek
  <2>4. Clean' => CurlStream'
    BY <2>1, <2>2 DEF CurlInv, CurlStream, Clean, Curl!SpoilTheStream
  <2> QED BY <2>3, <2>4 DEF CurlInv
<1>2. CASE Curl!threadProc
  BY <1>2, CurlStartKeeps, CurlRequestKeeps, CurlEnterKeeps, CurlStoreKeeps DEF Curl!threadProc
<1>3. CASE Curl!callerStep
  BY <1>3, CurlTestKeeps, CurlCallKeeps, CurlCopyKeeps, CurlTestSeekKeeps DEF Curl!callerStep
<1>4. CASE Curl!Close \/ \E length \in CurlLengths : Curl!Read(length)
  BY <1>4, CurlCallKeeps
<1>5. CASE \E whence \in Curl!Whence, offset \in -contentLength .. contentLength : Curl!Seek(offset, whence)
  <2>1. PICK whence \in Curl!Whence, offset \in -contentLength .. contentLength : Curl!Seek(offset, whence)
    BY <1>5
  <2>2. offset \in Int
    BY SizesAre
  <2> QED BY <2>1, <2>2, CurlSeekKeeps
<1> QED BY <1>1, <1>2, <1>3, <1>4, <1>5 DEF Curl!Next

\* The invariant says what the run checks.
LEMMA CurlIsRight == CurlInv => CurlRightBytes
<1> SUFFICES ASSUME CurlInv PROVE CurlRightBytes
  OBVIOUS
<1>1. Curl!TypeOK
  BY SizesAre DEF CurlInv, CurlTypes, Curl!TypeOK, Curl!Nothing, CallerPlaces, ThreadPlaces, InRead,
     Seeking, Holding, Over
<1>2. Curl!RightBytes
  BY DEF CurlInv, Clean, CurlStream, Curl!RightBytes
<1> QED BY <1>1, <1>2 DEF CurlRightBytes

-------------------------------------------------------------------------------
(* ProcessIOHandler.                                                       *)

\* What the program has and what the FIFO before it holds; what the client has
\* and what the FIFO before it holds.
InLen == Len(agentIn) + Len(inFifo)
OutLen == Len(sent) + Len(reading.got) + Len(outFifo)

AgentPlaces == {"absent", "start", "output", "run", "closing", "dead"}
ChainPlaces == {"none", "open", "read", "write", "close", "done"}
Asking == {"prepare", "check", "construct", "open", "idle", "select", "look", "wait", "empty",
           "kill empty"}
Ending == {"kill", "kill all", "join", "destroy", "destroy all", "destroy join", "remove", "closed"}
Ends == {"end", "error"}
Ways == {"never", "open", "closed"}

ProcTypes ==
    /\ proxied \in BOOLEAN /\ raced \in BOOLEAN /\ repeated \in BOOLEAN /\ failed \in BOOLEAN
    /\ stopping \in BOOLEAN /\ inReader \in BOOLEAN
    /\ inFifo \in Seq(Bytes) /\ outFifo \in Seq(Bytes)
    /\ Len(inFifo) <= Capacity /\ Len(outFifo) <= Capacity
    /\ agentIn \in Seq(Bytes) /\ agentOut \in Seq(Bytes) /\ sent \in Seq(Bytes)
    /\ inWriter \in Ways /\ outWriter \in Ways
    /\ files \subseteq {"in", "out"}
    /\ agent \in [at : AgentPlaces, status : {"ok", "failed"}]
    /\ chain \in [at : ChainPlaces, buf : Seq(Bytes), written : Nat]
    /\ chain.written <= Len(chain.buf) /\ Len(chain.buf) <= Chunk
    /\ fetched \in Nat /\ fetched <= Len(Content)
    /\ reading \in [at : Asking \cup Ending \cup {"undefined"}, got : Seq(Bytes), timeouts : Nat]
    /\ Len(reading.got) < readLength /\ reading.timeouts <= retryCount + 1
    /\ reading.at \in {"select", "look"} => reading.timeouts <= retryCount
    /\ told \in Ends \cup {"none", "data"}

\* Until the chainer repeats a part of its buffer, program and FIFO have the
\* bytes it has read before its buffer, and of the buffer those it has written.
SourceInv ==
    /\ ~proxied => chain.at = "none" /\ inFifo = <<>> /\ ~inReader /\ ~repeated
    /\ chain.at \in {"none", "open"} => fetched = 0
    /\ proxied /\ chain.at \in {"none", "open"} => InLen = 0
    /\ chain.at = "write" =>
           /\ Len(chain.buf) <= fetched
           /\ \A i \in 1 .. Len(chain.buf) : chain.buf[i] = Content[fetched - Len(chain.buf) + i]
    /\ ~repeated =>
           /\ InLen <= Len(Content)
           /\ chain.at = "read" => InLen = fetched
           /\ chain.at = "write" => InLen = fetched - Len(chain.buf) + chain.written
           /\ \A i \in 1 .. Len(agentIn) : agentIn[i] = Content[i]
           /\ \A i \in 1 .. Len(inFifo) : inFifo[i] = Content[Len(agentIn) + i]

\* The program writes what it has read.  Until the end is told everything it has
\* written is with the client, in the call under way or in the FIFO.
OutInv ==
    /\ Len(agentOut) <= Len(agentIn)
    /\ \A i \in 1 .. Len(agentOut) : agentOut[i] = agentIn[i]
    /\ Len(sent) <= Len(agentOut)
    /\ \A i \in 1 .. Len(sent) : sent[i] = agentOut[i]
    /\ told \notin Ends =>
           /\ OutLen = Len(agentOut)
           /\ \A i \in 1 .. Len(reading.got) : reading.got[i] = agentOut[Len(sent) + i]
           /\ \A i \in 1 .. Len(outFifo) : outFifo[i] = agentOut[Len(sent) + Len(reading.got) + i]

\* A program that ended with success by itself has had the whole source, which
\* it cannot have had through the FIFO of the chainer: that stays open.
Whole == ~proxied /\ agentOut = agentIn /\ agentIn = Content

ToldInv ==
    /\ outWriter = "closed" => agent.at \in {"closing", "dead"}
    /\ agent.at = "absent" => agent.status = "failed"
    /\ inWriter = "closed" => reading.at = "closed"
    /\ agent.at = "closing" /\ reading.at # "closed" => Whole
    /\ told \in Ends => reading.at \in {"idle"} \cup Ending
    /\ reading.at \in {"kill", "kill all", "join"} => told \in Ends
    /\ told \notin Ends /\ reading.at \in Asking /\ agent.status = "ok" => agent.at = "dead" /\ Whole
    /\ reading.at \notin {"select", "look", "wait"} => reading.got = <<>>
    /\ reading.at \in {"empty", "kill empty"} => outWriter = "closed" /\ outFifo = <<>>
    /\ told = "end" => agent.at = "dead"
    /\ told = "end" /\ ~raced => Len(sent) = Len(agentOut) /\ Whole

LeftInv ==
    /\ reading.at \in {"destroy all", "destroy join", "remove", "closed"} =>
           agent.at \in {"absent", "dead"}
    /\ reading.at = "remove" => chain.at \in {"none", "done"}
    /\ reading.at = "closed" /\ agent.at # "absent" => chain.at \in {"none", "done"} /\ files = {}
    /\ reading.at \in {"prepare", "check"} => agent.at = "absent"
    /\ reading.at = "prepare" => chain.at = "none"

ProcInv == ProcTypes /\ SourceInv /\ OutInv /\ ToldInv /\ LeftInv

\* Sequences of bytes.
LEMMA ByteAppend ==
    ASSUME NEW s \in Seq(Bytes), NEW b \in Bytes
    PROVE  /\ Append(s, b) \in Seq(Bytes) /\ Len(Append(s, b)) = Len(s) + 1
           /\ \A i \in 1 .. Len(s) : Append(s, b)[i] = s[i]
           /\ Append(s, b)[Len(s) + 1] = b
OBVIOUS

LEMMA ByteTail ==
    ASSUME NEW s \in Seq(Bytes), s # <<>>
    PROVE  /\ Head(s) = s[1] /\ Head(s) \in Bytes /\ Len(s) >= 1
           /\ Tail(s) \in Seq(Bytes) /\ Len(Tail(s)) = Len(s) - 1
           /\ \A i \in 1 .. Len(Tail(s)) : Tail(s)[i] = s[i + 1]
OBVIOUS

LEMMA ByteConcat ==
    ASSUME NEW s \in Seq(Bytes), NEW t \in Seq(Bytes)
    PROVE  /\ s \o t \in Seq(Bytes) /\ Len(s \o t) = Len(s) + Len(t)
           /\ \A i \in 1 .. Len(s) : (s \o t)[i] = s[i]
           /\ \A i \in 1 .. Len(t) : (s \o t)[Len(s) + i] = t[i]
OBVIOUS

LEMMA ByteSub ==
    ASSUME NEW s \in Seq(Bytes), NEW m \in Nat, NEW n \in Nat, m + n <= Len(s)
    PROVE  /\ SubSeq(s, m + 1, m + n) \in Seq(Bytes) /\ Len(SubSeq(s, m + 1, m + n)) = n
           /\ \A i \in 1 .. n : SubSeq(s, m + 1, m + n)[i] = s[m + i]
<1> DEFINE u == SubSeq(s, m + 1, m + n)
<1>1. u = [i \in 1 .. n |-> s[m + i]]
  OBVIOUS
<1>2. \A i \in 1 .. n : s[m + i] \in Bytes
  OBVIOUS
<1> QED BY <1>1, <1>2

LEMMA ByteEqual ==
    ASSUME NEW s \in Seq(Bytes), NEW t \in Seq(Bytes), Len(s) = Len(t),
           \A i \in 1 .. Len(s) : s[i] = t[i]
    PROVE  s = t
OBVIOUS

LEMMA BytePrefix ==
    ASSUME NEW s \in Seq(Bytes), NEW t \in Seq(Bytes)
    PROVE  Process!IsPrefix(s, t) <=> Len(s) <= Len(t) /\ \A i \in 1 .. Len(s) : s[i] = t[i]
<1>1. SubSeq(s, 1, Len(s)) = s
  OBVIOUS
<1>2. Len(s) <= Len(t) => SubSeq(t, 1, Len(s)) = [i \in 1 .. Len(s) |-> t[i]]
  OBVIOUS
<1>3. s = [i \in 1 .. Len(s) |-> s[i]]
  OBVIOUS
<1> QED BY <1>1, <1>2, <1>3 DEF Process!IsPrefix

\* What Min chooses, and sums of lengths.
LEMMA LeastOfTwo ==
    ASSUME NEW m \in Int, NEW n \in Int
    PROVE  /\ Process!Min({m, n}) \in {m, n}
           /\ Process!Min({m, n}) <= m /\ Process!Min({m, n}) <= n
<1> DEFINE P(x) == x \in {m, n} /\ \A y \in {m, n} : x <= y
<1>1. \E x : P(x)
  <2>1. CASE m <= n
    BY <2>1
  <2>2. CASE ~(m <= n)
    BY <2>2
  <2> QED BY <2>1, <2>2
<1>2. P(CHOOSE x : P(x))
  BY <1>1, Zenon
<1>3. Process!Min({m, n}) = CHOOSE x : P(x)
  BY DEF Process!Min
<1> QED BY <1>2, <1>3, Zenon

LEMMA SameSum ==
    ASSUME NEW a \in Nat, NEW b \in Nat, NEW c \in Int, NEW d \in Nat, NEW k \in Nat,
           a + b = c + d
    PROVE  c + (d + k) = a + (b + k)
OBVIOUS

LEMMA OneMore ==
    ASSUME NEW a \in Nat, NEW b \in Nat, NEW c \in Nat
    PROVE  a + b + (c + 1) = (a + b + c) + 1
OBVIOUS

LEMMA MovedOver ==
    ASSUME NEW a \in Nat, NEW b \in Nat, NEW c \in Nat, NEW n \in Nat
    PROVE  a + (b + n) + (c - n) = a + b + c
OBVIOUS

\* What the assumptions say of source and FIFOs.
LEMMA SizesOfProgram ==
    /\ Content \in Seq(Bytes) /\ Len(Content) \in Nat
    /\ Capacity \in Nat /\ Chunk \in Nat /\ retryCount \in Nat
    /\ readLength \in Nat /\ readLength >= 1
BY ProgramAssumption

\* The handler begins well.
LEMMA ProcStarts == Process!Init => ProcInv
<1> SUFFICES ASSUME Process!Init PROVE ProcInv
  OBVIOUS
<1>1. /\ chain.at = "none" /\ chain.buf = <<>> /\ chain.written = 0
      /\ reading.at = "prepare" /\ reading.got = <<>> /\ reading.timeouts = 0
      /\ agent.at = "absent" /\ agent.status = "failed"
      /\ chain \in [at : ChainPlaces, buf : Seq(Bytes), written : Nat]
      /\ reading \in [at : Asking \cup Ending \cup {"undefined"}, got : Seq(Bytes), timeouts : Nat]
      /\ agent \in [at : AgentPlaces, status : {"ok", "failed"}]
  BY DEF Process!Init, Process!Chain, Process!Client, ChainPlaces, Asking, AgentPlaces
<1>2. Len(<<>>) = 0 /\ <<>> \in Seq(Bytes) /\ 1 .. 0 = {}
  OBVIOUS
<1>3. ProcTypes
  <2>1. /\ proxied \in BOOLEAN /\ raced \in BOOLEAN /\ repeated \in BOOLEAN /\ failed \in BOOLEAN
        /\ stopping \in BOOLEAN /\ inReader \in BOOLEAN
        /\ inWriter \in Ways /\ outWriter \in Ways /\ files = {} /\ fetched = 0
        /\ told \in Ends \cup {"none", "data"}
    BY DEF Process!Init, Ways
  <2>2. inFifo = <<>> /\ outFifo = <<>> /\ agentIn = <<>> /\ agentOut = <<>> /\ sent = <<>>
    BY DEF Process!Init
  <2>3. 0 <= Capacity /\ 0 <= Chunk /\ 0 <= retryCount /\ 0 <= retryCount + 1 /\ 0 < readLength
        /\ 0 <= Len(Content)
    BY SizesOfProgram
  <2> QED BY <1>1, <1>2, <2>1, <2>2, <2>3 DEF ProcTypes
<1>4. SourceInv
  BY <1>1, <1>2, SizesOfProgram DEF Process!Init, SourceInv, InLen
<1>5. OutInv
  BY <1>1, <1>2 DEF Process!Init, OutInv, OutLen
<1>6. ToldInv /\ LeftInv
  BY <1>1 DEF Process!Init, ToldInv, LeftInv, Asking, Ends
<1> QED BY <1>3, <1>4, <1>5, <1>6 DEF ProcInv

\* What a step leaves alone keeps what is said of it.
LEMMA SourceStays ==
    ASSUME SourceInv, UNCHANGED <<proxied, chain, inFifo, agentIn, fetched, repeated>>,
           inReader' => inReader
    PROVE  SourceInv'
BY DEF SourceInv, InLen

\* Nothing is written or read, or the end is told.
LEMMA OutStays ==
    ASSUME OutInv, UNCHANGED <<agentIn, agentOut, outFifo>>, sent' = sent,
           told' \in Ends \/ (UNCHANGED told /\ reading'.got = reading.got)
    PROVE  OutInv'
BY DEF OutInv, OutLen

-------------------------------------------------------------------------------
(* The program.                                                            *)

\* A step of the program keeps the types ...
LEMMA AgentTypes ==
    ASSUME ProcInv, Process!agentStep
    PROVE  ProcTypes'
<1> USE DEF ProcInv
<1>1. UNCHANGED <<proxied, chain, fetched, failed, stopping, reading, sent, told, raced, repeated>>
  BY DEF Process!agentStep, Process!chainer, Process!caller
<1>2. agent \in [at : AgentPlaces, status : {"ok", "failed"}]
  BY DEF ProcTypes
<1>3. CASE Process!AgentOpensInput \/ Process!AgentOpensOutput \/ Process!AgentCloses
  <2>1. /\ UNCHANGED <<inFifo, outFifo, inWriter, files, agentIn, agentOut>>
        /\ outWriter' \in Ways /\ inReader' \in BOOLEAN
    BY <1>3 DEF ProcTypes, Process!AgentOpensInput, Process!AgentOpensOutput, Process!AgentCloses, Ways
  <2>2. agent' \in [at : AgentPlaces, status : {"ok", "failed"}]
    BY <1>2, <1>3 DEF Process!AgentOpensInput, Process!AgentOpensOutput, Process!AgentCloses, AgentPlaces
  <2> QED BY <1>1, <2>1, <2>2 DEF ProcTypes
<1>4. CASE Process!AgentEnds
  <2>1. /\ UNCHANGED <<inFifo, outFifo, inWriter, files, agentIn, agentOut>>
        /\ outWriter' \in Ways /\ inReader' \in BOOLEAN
    BY <1>4 DEF ProcTypes, Process!AgentEnds, Process!Dies, Ways
  <2>2. agent' \in [at : AgentPlaces, status : {"ok", "failed"}]
    BY <1>4 DEF Process!AgentEnds, Process!Dies, AgentPlaces
  <2> QED BY <1>1, <2>1, <2>2 DEF ProcTypes
<1>5. CASE Process!AgentReads
  <2>1. UNCHANGED <<outFifo, inWriter, outWriter, inReader, files, agent, agentOut>>
    BY <1>5 DEF Process!AgentReads
  <2>2. agentIn' \in Seq(Bytes) /\ inFifo' \in Seq(Bytes) /\ Len(inFifo') <= Capacity
    <3>1. CASE proxied
      <4>1. inFifo # <<>> /\ agentIn' = Append(agentIn, Head(inFifo)) /\ inFifo' = Tail(inFifo)
        BY <1>5, <3>1 DEF Process!AgentReads
      <4>2. inFifo \in Seq(Bytes) /\ agentIn \in Seq(Bytes) /\ Len(inFifo) <= Capacity
        BY DEF ProcTypes
      <4> QED BY <4>1, <4>2, ByteTail, ByteAppend, SizesOfProgram
    <3>2. CASE ~proxied
      <4>1. Len(agentIn) < Len(Content) /\ agentIn' = Append(agentIn, Content[Len(agentIn) + 1]) /\ inFifo' = inFifo
        BY <1>5, <3>2 DEF Process!AgentReads
      <4>2. agentIn \in Seq(Bytes)
        BY DEF ProcTypes
      <4>3. Content[Len(agentIn) + 1] \in Bytes
        BY <4>1, <4>2, SizesOfProgram
      <4> QED BY <4>1, <4>2, <4>3, ByteAppend DEF ProcTypes
    <3> QED BY <3>1, <3>2
  <2> QED BY <1>1, <2>1, <2>2 DEF ProcTypes
<1>6. CASE Process!AgentWrites
  <2>1. UNCHANGED <<inFifo, inWriter, outWriter, inReader, files, agent, agentIn>>
    BY <1>6 DEF Process!AgentWrites
  <2>2. PICK byte : /\ byte = agentIn[Len(agentOut) + 1] /\ Len(agentOut) < Len(agentIn)
                    /\ Len(outFifo) < Capacity
                    /\ outFifo' = Append(outFifo, byte) /\ agentOut' = Append(agentOut, byte)
    BY <1>6 DEF Process!AgentWrites
  <2>3. byte \in Bytes
    BY <2>2 DEF ProcTypes
  <2>4. outFifo' \in Seq(Bytes) /\ agentOut' \in Seq(Bytes) /\ Len(outFifo') <= Capacity
    BY <2>2, <2>3, ByteAppend, SizesOfProgram DEF ProcTypes
  <2> QED BY <1>1, <2>1, <2>4 DEF ProcTypes
<1> QED BY <1>3, <1>4, <1>5, <1>6 DEF Process!agentStep

\* ... what it has of the source ...
LEMMA AgentSource ==
    ASSUME ProcInv, Process!agentStep
    PROVE  SourceInv'
<1> USE DEF ProcInv
<1>1. UNCHANGED <<proxied, chain, fetched, repeated>>
  BY DEF Process!agentStep, Process!chainer
<1>2. CASE Process!AgentReads
  <2>1. agentIn \in Seq(Bytes) /\ inFifo \in Seq(Bytes) /\ inReader' = inReader
    BY <1>2 DEF ProcTypes, Process!AgentReads
  <2>2. CASE proxied
    <3>1. inFifo # <<>> /\ agentIn' = Append(agentIn, Head(inFifo)) /\ inFifo' = Tail(inFifo)
      BY <1>2, <2>2 DEF Process!AgentReads
    <3>2. /\ Len(agentIn') = Len(agentIn) + 1 /\ Len(inFifo') = Len(inFifo) - 1 /\ Len(inFifo) >= 1
          /\ agentIn'[Len(agentIn) + 1] = inFifo[1]
          /\ \A i \in 1 .. Len(agentIn) : agentIn'[i] = agentIn[i]
          /\ \A i \in 1 .. Len(inFifo') : inFifo'[i] = inFifo[i + 1]
      BY <2>1, <3>1, ByteTail, ByteAppend
    <3>3. InLen' = InLen
      BY <2>1, <3>2 DEF InLen
    <3>4. ASSUME ~repeated
          PROVE  /\ \A i \in 1 .. Len(agentIn') : agentIn'[i] = Content[i]
                 /\ \A i \in 1 .. Len(inFifo') : inFifo'[i] = Content[Len(agentIn') + i]
      <4>1. inFifo[1] = Content[Len(agentIn) + 1]
        BY <2>1, <3>2, <3>4 DEF SourceInv
      <4>2. ASSUME NEW i \in 1 .. Len(agentIn') PROVE agentIn'[i] = Content[i]
        <5>1. CASE i = Len(agentIn) + 1
          BY <3>2, <4>1, <5>1
        <5>2. CASE i # Len(agentIn) + 1
          <6>1. i \in 1 .. Len(agentIn)
            BY <2>1, <3>2, <5>2
          <6> QED BY <3>2, <3>4, <6>1 DEF SourceInv
        <5> QED BY <5>1, <5>2
      <4>3. ASSUME NEW i \in 1 .. Len(inFifo') PROVE inFifo'[i] = Content[Len(agentIn') + i]
        <5>1. i + 1 \in 1 .. Len(inFifo) /\ Len(agentIn) + (i + 1) = Len(agentIn') + i
          BY <2>1, <3>2
        <5>2. inFifo[i + 1] = Content[Len(agentIn) + (i + 1)]
          BY <3>4, <5>1 DEF SourceInv
        <5> QED BY <3>2, <5>1, <5>2
      <4> QED BY <4>2, <4>3
    <3> QED BY <1>1, <2>1, <2>2, <3>3, <3>4 DEF SourceInv
  <2>3. CASE ~proxied
    <3>1. /\ Len(agentIn) < Len(Content) /\ agentIn' = Append(agentIn, Content[Len(agentIn) + 1])
          /\ inFifo' = inFifo
      BY <1>2, <2>3 DEF Process!AgentReads
    <3>2. inFifo = <<>> /\ chain.at = "none" /\ ~inReader /\ ~repeated
      BY <2>3 DEF SourceInv
    <3>3. Content[Len(agentIn) + 1] \in Bytes
      BY <2>1, <3>1, SizesOfProgram
    <3>4. /\ Len(agentIn') = Len(agentIn) + 1
          /\ \A i \in 1 .. Len(agentIn) : agentIn'[i] = agentIn[i]
          /\ agentIn'[Len(agentIn) + 1] = Content[Len(agentIn) + 1]
      BY <2>1, <3>1, <3>3, ByteAppend
    <3>5. InLen' = Len(agentIn) + 1 /\ InLen' <= Len(Content) /\ 1 .. Len(inFifo') = {}
      BY <2>1, <3>1, <3>2, <3>4, SizesOfProgram DEF InLen
    <3>6. ASSUME NEW i \in 1 .. Len(agentIn') PROVE agentIn'[i] = Content[i]
      <4>1. CASE i = Len(agentIn) + 1
        BY <3>4, <4>1
      <4>2. CASE i # Len(agentIn) + 1
        <5>1. i \in 1 .. Len(agentIn)
          BY <2>1, <3>4, <4>2
        <5> QED BY <3>2, <3>4, <5>1 DEF SourceInv
      <4> QED BY <4>1, <4>2
    <3> QED BY <1>1, <2>1, <2>3, <3>1, <3>2, <3>5, <3>6 DEF SourceInv
  <2> QED BY <2>2, <2>3
<1>3. CASE ~Process!AgentReads
  <2>1. UNCHANGED <<inFifo, agentIn>> /\ (inReader' => inReader \/ proxied)
    BY <1>3 DEF Process!agentStep, Process!AgentOpensInput, Process!AgentOpensOutput, Process!AgentWrites,
       Process!AgentCloses, Process!AgentEnds, Process!Dies
  <2>2. CASE proxied
    BY <1>1, <2>1, <2>2 DEF SourceInv, InLen
  <2>3. CASE ~proxied
    BY <1>1, <2>1, <2>3, SourceStays
  <2> QED BY <2>2, <2>3
<1> QED BY <1>2, <1>3

\* ... what the client gets of it ...
LEMMA AgentOut ==
    ASSUME ProcInv, Process!agentStep
    PROVE  OutInv'
<1> USE DEF ProcInv
<1>1. UNCHANGED <<reading, sent, told>>
  BY DEF Process!agentStep, Process!caller
<1>2. /\ agentIn \in Seq(Bytes) /\ agentOut \in Seq(Bytes) /\ outFifo \in Seq(Bytes)
      /\ sent \in Seq(Bytes) /\ reading.got \in Seq(Bytes)
  BY DEF ProcTypes
<1>3. CASE Process!AgentReads
  <2>1. UNCHANGED <<outFifo, agentOut>>
    BY <1>3 DEF Process!AgentReads
  <2>2. PICK b \in Bytes : agentIn' = Append(agentIn, b)
    <3>1. CASE proxied
      BY <1>3, <3>1, ByteTail DEF Process!AgentReads, ProcTypes
    <3>2. CASE ~proxied
      BY <1>2, <1>3, <3>2, SizesOfProgram DEF Process!AgentReads
    <3> QED BY <3>1, <3>2
  <2>3. Len(agentIn') = Len(agentIn) + 1 /\ \A i \in 1 .. Len(agentIn) : agentIn'[i] = agentIn[i]
    BY <1>2, <2>2, ByteAppend
  <2>4. \A i \in 1 .. Len(agentOut) : i \in 1 .. Len(agentIn)
    BY <1>2 DEF OutInv
  <2>5. Len(agentOut) <= Len(agentIn')
    BY <1>2, <2>3 DEF OutInv
  <2> QED BY <1>1, <2>1, <2>3, <2>4, <2>5 DEF OutInv, OutLen
<1>4. CASE Process!AgentWrites
  <2>1. PICK byte : /\ byte = agentIn[Len(agentOut) + 1] /\ Len(agentOut) < Len(agentIn)
                    /\ outFifo' = Append(outFifo, byte) /\ agentOut' = Append(agentOut, byte)
                    /\ agentIn' = agentIn
    BY <1>4 DEF Process!AgentWrites
  <2>2. byte \in Bytes
    BY <1>2, <2>1
  <2>3. /\ Len(outFifo') = Len(outFifo) + 1 /\ outFifo'[Len(outFifo) + 1] = byte
        /\ \A i \in 1 .. Len(outFifo) : outFifo'[i] = outFifo[i]
        /\ Len(agentOut') = Len(agentOut) + 1 /\ agentOut'[Len(agentOut) + 1] = byte
        /\ \A i \in 1 .. Len(agentOut) : agentOut'[i] = agentOut[i]
    BY <1>2, <2>1, <2>2, ByteAppend
  <2>4. ASSUME NEW i \in 1 .. Len(agentOut') PROVE agentOut'[i] = agentIn'[i]
    <3>1. i = Len(agentOut) + 1 \/ i \in 1 .. Len(agentOut)
      BY <1>2, <2>3
    <3> QED BY <2>1, <2>3, <3>1 DEF OutInv
  <2>5. Len(agentOut') <= Len(agentIn') /\ Len(sent) <= Len(agentOut')
    BY <1>2, <2>1, <2>3 DEF OutInv
  <2>6. ASSUME NEW i \in 1 .. Len(sent) PROVE sent[i] = agentOut'[i]
    <3>1. i \in 1 .. Len(agentOut)
      BY <1>2 DEF OutInv
    <3> QED BY <2>3, <3>1 DEF OutInv
  <2>7. ASSUME told \notin Ends
        PROVE  /\ OutLen' = Len(agentOut')
               /\ \A i \in 1 .. Len(reading.got) : reading.got[i] = agentOut'[Len(sent) + i]
               /\ \A i \in 1 .. Len(outFifo') :
                      outFifo'[i] = agentOut'[Len(sent) + Len(reading.got) + i]
    <3>1. Len(sent) + Len(reading.got) + Len(outFifo) = Len(agentOut)
      BY <2>7 DEF OutInv, OutLen
    <3>2. OutLen' = Len(agentOut')
      <4>1. OutLen' = Len(sent) + Len(reading.got) + (Len(outFifo) + 1)
        BY <1>1, <2>3 DEF OutLen
      <4>2. Len(sent) \in Nat /\ Len(reading.got) \in Nat /\ Len(outFifo) \in Nat
        BY <1>2
      <4>3. OutLen' = (Len(sent) + Len(reading.got) + Len(outFifo)) + 1
        BY <4>1, <4>2, OneMore
      <4> QED BY <2>3, <3>1, <4>3
    <3>3. ASSUME NEW i \in 1 .. Len(reading.got) PROVE reading.got[i] = agentOut'[Len(sent) + i]
      <4>1. Len(sent) + i \in 1 .. Len(agentOut)
        BY <1>2, <3>1
      <4> QED BY <2>3, <2>7, <4>1 DEF OutInv
    <3>4. ASSUME NEW i \in 1 .. Len(outFifo')
          PROVE  outFifo'[i] = agentOut'[Len(sent) + Len(reading.got) + i]
      <4>1. CASE i = Len(outFifo) + 1
        <5>1. Len(sent) + Len(reading.got) + i = Len(agentOut) + 1
          <6>1. Len(sent) \in Nat /\ Len(reading.got) \in Nat /\ Len(outFifo) \in Nat
            BY <1>2
          <6>2. Len(sent) + Len(reading.got) + (Len(outFifo) + 1)
                  = (Len(sent) + Len(reading.got) + Len(outFifo)) + 1
            BY <6>1, OneMore
          <6> QED BY <3>1, <4>1, <6>2, Zenon
        <5> QED BY <2>3, <4>1, <5>1
      <4>2. CASE i # Len(outFifo) + 1
        <5>1. i \in 1 .. Len(outFifo) /\ Len(sent) + Len(reading.got) + i \in 1 .. Len(agentOut)
          BY <1>2, <2>3, <3>1, <4>2
        <5> QED BY <2>3, <2>7, <5>1 DEF OutInv
      <4> QED BY <4>1, <4>2
    <3> QED BY <3>2, <3>3, <3>4
  <2> QED BY <1>1, <2>4, <2>5, <2>6, <2>7 DEF OutInv
<1>5. CASE ~Process!AgentReads /\ ~Process!AgentWrites
  <2>1. UNCHANGED <<agentIn, agentOut, outFifo>>
    BY <1>5 DEF Process!agentStep, Process!AgentOpensInput, Process!AgentOpensOutput,
       Process!AgentCloses, Process!AgentEnds
  <2> QED BY <1>1, <2>1, OutStays
<1> QED BY <1>3, <1>4, <1>5

\* ... and that a program which ended well has had it all.
LEMMA AgentEnd ==
    ASSUME ProcInv, Process!agentStep
    PROVE  ToldInv' /\ LeftInv'
<1> USE DEF ProcInv
<1>1. UNCHANGED <<proxied, chain, reading, sent, told, raced, inWriter, files>>
  BY DEF Process!agentStep, Process!caller, Process!chainer, Process!AgentOpensInput,
     Process!AgentOpensOutput, Process!AgentReads, Process!AgentWrites, Process!AgentCloses, Process!AgentEnds
<1>2. agent \in [at : AgentPlaces, status : {"ok", "failed"}]
  BY DEF ProcTypes
<1>3. CASE Process!AgentOpensInput \/ Process!AgentOpensOutput
  <2>1. /\ UNCHANGED <<agentIn, agentOut, outFifo>>
        /\ outWriter' = outWriter \/ outWriter' = "open"
        /\ agent.at \in {"start", "output"} /\ agent'.at \in {"output", "run"}
        /\ agent'.status = agent.status
    BY <1>2, <1>3 DEF Process!AgentOpensInput, Process!AgentOpensOutput
  <2>2. reading.at \notin {"empty", "kill empty"}
    BY <2>1 DEF ToldInv
  <2>3. ToldInv'
    BY <1>1, <2>1, <2>2 DEF ToldInv, Whole
  <2>4. LeftInv'
    BY <1>1, <2>1 DEF LeftInv
  <2> QED BY <2>3, <2>4
<1>4. CASE Process!AgentReads \/ Process!AgentWrites
  <2>1. UNCHANGED <<agent, outWriter>> /\ agent.at = "run"
    BY <1>4 DEF Process!AgentReads, Process!AgentWrites
  <2>2. reading.at \notin {"empty", "kill empty"} /\ told # "end"
    BY <2>1 DEF ToldInv
  <2>3. ToldInv'
    BY <1>1, <2>1, <2>2 DEF ToldInv
  <2>4. LeftInv'
    BY <1>1, <2>1 DEF LeftInv
  <2> QED BY <2>3, <2>4
<1>5. CASE Process!AgentCloses
  <2>1. /\ UNCHANGED <<agentIn, agentOut, outFifo>> /\ agent.at = "run" /\ agent'.at = "closing"
        /\ agent'.status = agent.status
        /\ agentOut = agentIn
        /\ IF proxied THEN inFifo = <<>> /\ inWriter = "closed" ELSE agentIn = Content
    BY <1>2, <1>5 DEF Process!AgentCloses
  <2>2. reading.at # "closed" => Whole
    BY <2>1 DEF ToldInv, Whole
  <2>3. reading.at \notin {"empty", "kill empty"} /\ told # "end"
    BY <2>1 DEF ToldInv
  <2>4. Whole' = Whole
    BY <1>1, <2>1 DEF Whole
  <2>5. ToldInv'
    BY <1>1, <2>1, <2>2, <2>3, <2>4 DEF ToldInv
  <2>6. LeftInv'
    BY <1>1, <2>1 DEF LeftInv
  <2> QED BY <2>5, <2>6
<1>6. CASE Process!AgentEnds
  <2>1. /\ UNCHANGED <<agentIn, agentOut, outFifo>> /\ agent.at \notin {"absent", "dead"}
        /\ agent'.at = "dead" /\ (agent'.status = "ok" => agent.at = "closing")
        /\ (outWriter = "closed" => outWriter' = "closed")
    BY <1>2, <1>6 DEF Process!AgentEnds, Process!Dies, Process!Alive
  <2>2. Whole' = Whole
    BY <1>1, <2>1 DEF Whole
  <2>3. reading.at \in Asking => reading.at # "closed"
    BY DEF Asking
  <2>4. ToldInv'
    BY <1>1, <2>1, <2>2, <2>3 DEF ToldInv
  <2>5. LeftInv'
    BY <1>1, <2>1 DEF LeftInv
  <2> QED BY <2>4, <2>5
<1> QED BY <1>3, <1>4, <1>5, <1>6 DEF Process!agentStep

-------------------------------------------------------------------------------
(* The thread of the chainer.                                              *)

\* A piece is read from the source, or the thread goes elsewhere without one.
LEMMA ChainPiece ==
    ASSUME ProcInv, Process!ChainReads
    PROVE  \/ \E n \in Nat :
                  /\ n <= Chunk /\ fetched + n <= Len(Content)
                  /\ chain' = Process!Chain("write", SubSeq(Content, fetched + 1, fetched + n), 0)
                  /\ fetched' = fetched + n /\ UNCHANGED failed
           \/ /\ chain' = Process!Chain("close", <<>>, 0)
              /\ UNCHANGED fetched /\ failed' \in BOOLEAN
<1>1. CASE \E n \in 1 .. Process!Min({Chunk, Len(Content) - fetched}) :
               /\ chain' = Process!Chain("write", SubSeq(Content, fetched + 1, fetched + n), 0)
               /\ fetched' = fetched + n /\ UNCHANGED failed
  <2>1. PICK n \in 1 .. Process!Min({Chunk, Len(Content) - fetched}) :
               /\ chain' = Process!Chain("write", SubSeq(Content, fetched + 1, fetched + n), 0)
               /\ fetched' = fetched + n /\ UNCHANGED failed
    BY <1>1
  <2>2. fetched \in Nat
    BY DEF ProcInv, ProcTypes
  <2>3. Chunk \in Int /\ Len(Content) - fetched \in Int
    BY <2>2, SizesOfProgram
  <2>4. n \in Nat /\ n <= Chunk /\ n <= Len(Content) - fetched
    <3>1. PICK m : m = Process!Min({Chunk, Len(Content) - fetched})
      OBVIOUS
    <3>2. m \in Int /\ m <= Chunk /\ m <= Len(Content) - fetched
      BY <2>3, <3>1, LeastOfTwo
    <3>3. n \in 1 .. m
      BY <3>1
    <3> QED BY <2>3, <3>2, <3>3
  <2>5. fetched + n <= Len(Content)
    BY <2>2, <2>4, SizesOfProgram
  <2> QED BY <2>1, <2>4, <2>5
<1>2. CASE \/ chain' = Process!Chain("close", <<>>, 0) /\ UNCHANGED <<fetched, failed>>
           \/ failed' = TRUE /\ chain' = Process!Chain("close", <<>>, 0) /\ UNCHANGED fetched
  BY <1>2 DEF ProcInv, ProcTypes
<1> QED BY <1>1, <1>2 DEF Process!ChainReads

\* The chainer reads a piece.
LEMMA ChainReadKeeps ==
    ASSUME ProcInv, Process!ChainReads, UNCHANGED <<proxied, agentIn, inReader>>
    PROVE  /\ chain' \in [at : ChainPlaces, buf : Seq(Bytes), written : Nat]
           /\ chain'.written <= Len(chain'.buf) /\ Len(chain'.buf) <= Chunk
           /\ fetched' \in Nat /\ fetched' <= Len(Content) /\ failed' \in BOOLEAN
           /\ chain'.at \in {"write", "close"}
           /\ SourceInv'
<1> USE DEF ProcInv
<1>1. /\ UNCHANGED <<inFifo, repeated>> /\ chain.at = "read"
      /\ fetched \in Nat /\ fetched <= Len(Content)
  BY DEF Process!ChainReads, ProcTypes
<1>2. InLen' = InLen /\ proxied
  BY <1>1 DEF InLen, SourceInv
<1>3. CASE /\ chain' = Process!Chain("close", <<>>, 0)
           /\ UNCHANGED fetched /\ failed' \in BOOLEAN
  <2>1. chain' = [at |-> "close", buf |-> <<>>, written |-> 0] /\ Len(<<>>) = 0 /\ <<>> \in Seq(Bytes)
    BY <1>3 DEF Process!Chain
  <2>2. /\ chain' \in [at : ChainPlaces, buf : Seq(Bytes), written : Nat]
        /\ chain'.at = "close" /\ chain'.written = 0 /\ Len(chain'.buf) = 0
    BY <2>1 DEF ChainPlaces
  <2>3. SourceInv'
    BY <1>1, <1>2, <2>2 DEF SourceInv
  <2> QED BY <1>1, <1>3, <2>2, <2>3, SizesOfProgram
<1>4. CASE \E n \in Nat :
               /\ n <= Chunk /\ fetched + n <= Len(Content)
               /\ chain' = Process!Chain("write", SubSeq(Content, fetched + 1, fetched + n), 0)
               /\ fetched' = fetched + n /\ UNCHANGED failed
  <2>1. PICK n \in Nat :
               /\ n <= Chunk /\ fetched + n <= Len(Content)
               /\ chain' = Process!Chain("write", SubSeq(Content, fetched + 1, fetched + n), 0)
               /\ fetched' = fetched + n /\ UNCHANGED failed
    BY <1>4
  <2>2. PICK buf : buf = SubSeq(Content, fetched + 1, fetched + n)
    OBVIOUS
  <2>3. buf \in Seq(Bytes) /\ Len(buf) = n /\ \A i \in 1 .. n : buf[i] = Content[fetched + i]
    BY <1>1, <2>1, <2>2, SizesOfProgram, ByteSub
  <2>4. /\ chain' \in [at : ChainPlaces, buf : Seq(Bytes), written : Nat]
        /\ chain'.at = "write" /\ chain'.written = 0 /\ chain'.buf = buf
    BY <2>1, <2>2, <2>3 DEF Process!Chain, ChainPlaces
  <2>5. fetched' - Len(chain'.buf) = fetched
    BY <1>1, <2>1, <2>3, <2>4
  <2>6. \A i \in 1 .. Len(chain'.buf) : chain'.buf[i] = Content[fetched' - Len(chain'.buf) + i]
    BY <2>3, <2>4, <2>5
  <2>7. Len(chain'.buf) <= fetched'
    BY <1>1, <2>1, <2>3, <2>4
  <2>8. ~repeated => InLen' = fetched' - Len(chain'.buf) + chain'.written
    BY <1>1, <1>2, <2>4, <2>5 DEF SourceInv
  <2>9. SourceInv'
    BY <1>1, <1>2, <2>4, <2>6, <2>7, <2>8 DEF SourceInv
  <2>10. fetched' \in Nat /\ fetched' <= Len(Content) /\ failed' \in BOOLEAN
    BY <1>1, <2>1 DEF ProcTypes
  <2> QED BY <2>1, <2>3, <2>4, <2>9, <2>10
<1> QED BY <1>3, <1>4, ChainPiece

\* It writes what there is room for.
LEMMA ChainWriteKeeps ==
    ASSUME ProcInv, Process!ChainWrites, UNCHANGED <<proxied, agentIn, inReader>>
    PROVE  /\ chain' \in [at : ChainPlaces, buf : Seq(Bytes), written : Nat]
           /\ chain'.written <= Len(chain'.buf) /\ Len(chain'.buf) <= Chunk
           /\ inFifo' \in Seq(Bytes) /\ Len(inFifo') <= Capacity
           /\ chain'.at \in {"write", "read", "close"}
           /\ SourceInv'
<1> USE DEF ProcInv
<1>1. /\ UNCHANGED <<fetched, failed, repeated>> /\ chain.at = "write"
      /\ chain \in [at : ChainPlaces, buf : Seq(Bytes), written : Nat]
      /\ chain.written <= Len(chain.buf) /\ Len(chain.buf) <= Chunk
      /\ inFifo \in Seq(Bytes) /\ Len(inFifo) <= Capacity /\ agentIn \in Seq(Bytes)
      /\ fetched \in Nat /\ fetched <= Len(Content)
  BY DEF Process!ChainWrites, ProcTypes
<1>2. Len(<<>>) = 0 /\ <<>> \in Seq(Bytes) /\ 0 <= Chunk /\ proxied
  BY <1>1, SizesOfProgram DEF SourceInv
<1>3. CASE ~inReader
  <2>1. chain' = [at |-> "close", buf |-> <<>>, written |-> 0] /\ UNCHANGED inFifo
    BY <1>3 DEF Process!ChainWrites, Process!Chain
  <2>2. /\ chain' \in [at : ChainPlaces, buf : Seq(Bytes), written : Nat]
        /\ chain'.at = "close" /\ chain'.written = 0 /\ Len(chain'.buf) = 0
    BY <1>2, <2>1 DEF ChainPlaces
  <2>3. InLen' = InLen
    BY <2>1 DEF InLen
  <2>4. SourceInv'
    BY <1>1, <1>2, <2>1, <2>2, <2>3 DEF SourceInv
  <2> QED BY <1>1, <1>2, <2>1, <2>2, <2>4
<1>4. CASE inReader
  <2> DEFINE w == chain.written
             b == Len(chain.buf)
  <2>1. PICK n : /\ n = Process!Min({Capacity - Len(inFifo), b - w}) /\ n > 0
                 /\ inFifo' = inFifo \o SubSeq(chain.buf, w + 1, w + n)
                 /\ chain' = IF w + n = b THEN Process!Chain("read", <<>>, 0)
                             ELSE [chain EXCEPT !.written = @ + n]
    BY <1>4 DEF Process!ChainWrites, Process!Sent
  <2>2. w \in Nat /\ b \in Nat /\ chain.buf \in Seq(Bytes) /\ w <= b
    BY <1>1
  <2>3. n \in Nat /\ n <= Capacity - Len(inFifo) /\ n <= b - w
    <3>1. Capacity - Len(inFifo) \in Int /\ b - w \in Int
      BY <1>1, <2>2, SizesOfProgram
    <3> HIDE DEF b, w
    <3>2. n \in Int
      BY <2>1, <3>1, LeastOfTwo
    <3> QED BY <2>1, <3>1, <3>2, LeastOfTwo
  <2>4. PICK s : s = SubSeq(chain.buf, w + 1, w + n)
    OBVIOUS
  <2>5. /\ w + n <= b
        /\ s \in Seq(Bytes) /\ Len(s) = n /\ \A i \in 1 .. n : s[i] = chain.buf[w + i]
    <3>1. w + n <= b
      BY <2>2, <2>3
    <3> HIDE DEF w
    <3> QED BY <2>2, <2>3, <2>4, <3>1, ByteSub DEF b
  <2>6. /\ inFifo' \in Seq(Bytes) /\ Len(inFifo') = Len(inFifo) + n
        /\ \A i \in 1 .. Len(inFifo) : inFifo'[i] = inFifo[i]
        /\ \A i \in 1 .. n : inFifo'[Len(inFifo) + i] = s[i]
    <3>1. inFifo' = inFifo \o s
      BY <2>1, <2>4
    <3> QED BY <1>1, <2>5, <3>1, ByteConcat, ZenonT(30)
  <2>7. Len(inFifo') <= Capacity /\ InLen' = InLen + n
    BY <1>1, <2>3, <2>6, SizesOfProgram DEF InLen
  <2>8. /\ chain' \in [at : ChainPlaces, buf : Seq(Bytes), written : Nat]
        /\ chain'.written <= Len(chain'.buf) /\ Len(chain'.buf) <= Chunk
        /\ \/ chain'.at = "read" /\ w + n = b
           \/ chain'.at = "write" /\ chain'.buf = chain.buf /\ chain'.written = w + n
    <3>1. CASE w + n = b
      <4>1. chain' = [at |-> "read", buf |-> <<>>, written |-> 0]
        BY <2>1, <3>1 DEF Process!Chain
      <4> QED BY <1>2, <3>1, <4>1 DEF ChainPlaces
    <3>2. CASE w + n # b
      <4>1. chain' = [chain EXCEPT !.written = @ + n]
        BY <2>1, <3>2
      <4>2. chain'.at = "write" /\ chain'.buf = chain.buf /\ chain'.written = w + n
        BY <1>1, <4>1
      <4>3. chain' \in [at : ChainPlaces, buf : Seq(Bytes), written : Nat]
        <5>1. w + n \in Nat
          BY <2>2, <2>3
        <5> QED BY <1>1, <4>1, <5>1
      <4> QED BY <1>1, <2>5, <4>2, <4>3
    <3> QED BY <3>1, <3>2
  <2> HIDE DEF w
  <2>9. ~repeated => InLen = fetched - b + w /\ InLen + n <= Len(Content)
    <3>1. ~repeated => InLen = fetched - b + w
      BY <1>1 DEF SourceInv, w
    <3> QED BY <1>1, <2>2, <2>3, <2>5, <3>1, SizesOfProgram
  <2>10. ASSUME ~repeated, NEW i \in 1 .. Len(inFifo')
         PROVE  inFifo'[i] = Content[Len(agentIn) + i]
    <3>1. CASE i \in 1 .. Len(inFifo)
      BY <2>6, <2>10, <3>1 DEF SourceInv
    <3>2. CASE i \notin 1 .. Len(inFifo)
      <4>1. PICK k \in 1 .. n : i = Len(inFifo) + k
        <5>1. i - Len(inFifo) \in 1 .. n /\ i = Len(inFifo) + (i - Len(inFifo))
          BY <1>1, <2>3, <2>6, <3>2
        <5> QED BY <5>1
      <4>2. inFifo'[i] = chain.buf[w + k]
        BY <2>5, <2>6, <4>1
      <4>3. w + k \in 1 .. Len(chain.buf)
        BY <2>2, <2>3, <2>5
      <4>4. chain.buf[w + k] = Content[fetched - b + (w + k)]
        BY <1>1, <4>3 DEF SourceInv
      <4>5. fetched - b + (w + k) = Len(agentIn) + i
        <5>1. Len(agentIn) + Len(inFifo) = fetched - b + w
          BY <2>9, <2>10 DEF InLen
        <5>2. Len(agentIn) \in Nat /\ Len(inFifo) \in Nat /\ k \in Nat
          BY <1>1, <2>3
        <5>3. fetched - b \in Int
          BY <1>1, <2>2
        <5> QED BY <2>2, <4>1, <5>1, <5>2, <5>3, SameSum
      <4> QED BY <4>2, <4>4, <4>5
    <3> QED BY <3>1, <3>2
  <2>11. ~repeated =>
            /\ InLen' <= Len(Content)
            /\ chain'.at = "read" => InLen' = fetched'
            /\ chain'.at = "write" => InLen' = fetched' - Len(chain'.buf) + chain'.written
    <3>1. fetched - b + w + n = fetched - b + (w + n)
      BY <1>1, <2>2, <2>3
    <3>2. w + n = b => fetched - b + (w + n) = fetched
      BY <1>1, <2>2, <2>3
    <3>3. ~repeated => InLen' = fetched - b + (w + n) /\ InLen' <= Len(Content)
      BY <2>7, <2>9, <3>1
    <3>4. CASE chain'.at = "read" /\ w + n = b
      BY <1>1, <3>2, <3>3, <3>4
    <3>5. CASE chain'.at = "write" /\ chain'.buf = chain.buf /\ chain'.written = w + n
      BY <1>1, <3>3, <3>5
    <3> QED BY <2>8, <3>4, <3>5
  <2>12. SourceInv'
    <3>1. chain'.at = "write" =>
           /\ Len(chain'.buf) <= fetched'
           /\ \A i \in 1 .. Len(chain'.buf) : chain'.buf[i] = Content[fetched' - Len(chain'.buf) + i]
      BY <1>1, <2>8 DEF SourceInv
    <3>2. chain'.at \in {"read", "write"}
      BY <2>8
    <3> QED BY <1>1, <1>2, <2>10, <2>11, <3>1, <3>2 DEF SourceInv
  <2> QED BY <2>6, <2>7, <2>8, <2>12
<1> QED BY <1>3, <1>4

\* Every step of its thread; a timeout with a part written repeats.
LEMMA ChainKeeps ==
    ASSUME ProcInv, Process!threadProc
    PROVE  ProcInv'
<1> USE DEF ProcInv
<1>1. UNCHANGED <<proxied, outFifo, outWriter, inReader, files, agent, agentIn, agentOut, stopping,
                  reading, sent, told, raced>>
  BY DEF Process!threadProc, Process!program, Process!caller
<1>2. chain \in [at : ChainPlaces, buf : Seq(Bytes), written : Nat]
  BY DEF ProcTypes
<1>3. Len(<<>>) = 0 /\ <<>> \in Seq(Bytes) /\ 0 <= Chunk
  BY SizesOfProgram
<1>4. /\ chain' \in [at : ChainPlaces, buf : Seq(Bytes), written : Nat]
      /\ chain'.written <= Len(chain'.buf) /\ Len(chain'.buf) <= Chunk
      /\ fetched' \in Nat /\ fetched' <= Len(Content) /\ failed' \in BOOLEAN /\ repeated' \in BOOLEAN
      /\ inFifo' \in Seq(Bytes) /\ Len(inFifo') <= Capacity
      /\ inWriter' = inWriter \/ inWriter' = "open"
      /\ chain.at \notin {"none", "done"}
      /\ SourceInv'
  <2>1. CASE Process!ChainReads
    BY <1>1, <2>1, ChainReadKeeps DEF Process!ChainReads, ProcTypes
  <2>2. CASE Process!ChainWrites
    BY <1>1, <2>2, ChainWriteKeeps DEF Process!ChainWrites, ProcTypes
  <2>3. CASE Process!ChainOpens
    <3>1. /\ chain.at = "open" /\ UNCHANGED <<inFifo, fetched, failed, repeated>>
          /\ inWriter' = inWriter \/ inWriter' = "open"
          /\ \E at \in {"read", "close"} : chain' = [at |-> at, buf |-> <<>>, written |-> 0]
      BY <2>3 DEF Process!ChainOpens, Process!Chain
    <3>2. /\ chain' \in [at : ChainPlaces, buf : Seq(Bytes), written : Nat]
          /\ chain'.at \in {"read", "close"} /\ chain'.written = 0 /\ Len(chain'.buf) = 0
      BY <1>3, <3>1 DEF ChainPlaces
    <3>3. InLen' = InLen /\ proxied /\ InLen = 0 /\ fetched = 0
      BY <1>1, <3>1 DEF InLen, SourceInv
    <3>4. SourceInv'
      BY <1>1, <3>1, <3>2, <3>3 DEF SourceInv
    <3> QED BY <1>3, <3>1, <3>2, <3>4 DEF ProcTypes
  <2>4. CASE Process!ChainTimesOut
    <3>1. /\ chain.at = "write" /\ UNCHANGED <<inFifo, inWriter, fetched, failed>>
          /\ chain' = IF stopping THEN Process!Chain("close", <<>>, 0) ELSE [chain EXCEPT !.written = 0]
          /\ repeated' = (repeated \/ (~stopping /\ chain.written > 0))
      BY <2>4 DEF Process!ChainTimesOut
    <3>2. repeated' \in BOOLEAN /\ (~repeated' => ~repeated /\ (stopping \/ chain.written = 0))
      <4>1. chain.written > 0 \/ chain.written = 0
        BY <1>2
      <4> QED BY <3>1, <4>1
    <3>3. CASE stopping
      <4>1. /\ chain' \in [at : ChainPlaces, buf : Seq(Bytes), written : Nat]
            /\ chain'.at = "close" /\ chain'.written = 0 /\ Len(chain'.buf) = 0
        BY <1>3, <3>1, <3>3 DEF Process!Chain, ChainPlaces
      <4>2. SourceInv'
        BY <1>1, <3>1, <3>2, <4>1 DEF SourceInv, InLen
      <4> QED BY <1>3, <3>1, <3>2, <4>1, <4>2 DEF ProcTypes
    <3>4. CASE ~stopping
      <4>1. /\ chain' \in [at : ChainPlaces, buf : Seq(Bytes), written : Nat]
            /\ chain'.at = "write" /\ chain'.written = 0 /\ chain'.buf = chain.buf
        BY <1>2, <3>1, <3>4
      <4>2. ~repeated' => chain'.written = chain.written
        BY <3>2, <3>4, <4>1
      <4>3. proxied
        BY <3>1 DEF SourceInv
      <4>4. SourceInv'
        BY <1>1, <3>1, <3>2, <4>1, <4>2, <4>3 DEF SourceInv, InLen
      <4> QED BY <1>2, <3>1, <3>2, <4>1, <4>4 DEF ProcTypes
    <3> QED BY <3>3, <3>4
  <2>5. CASE Process!ChainCloses
    <3>1. /\ chain.at = "close" /\ UNCHANGED <<inFifo, inWriter, fetched, failed, repeated>>
          /\ chain' = [at |-> "done", buf |-> <<>>, written |-> 0]
      BY <2>5 DEF Process!ChainCloses, Process!Chain
    <3>2. /\ chain' \in [at : ChainPlaces, buf : Seq(Bytes), written : Nat]
          /\ chain'.at = "done" /\ chain'.written = 0 /\ Len(chain'.buf) = 0
      BY <1>3, <3>1 DEF ChainPlaces
    <3>3. SourceInv'
      BY <1>1, <3>1, <3>2 DEF SourceInv, InLen
    <3> QED BY <1>3, <3>1, <3>2, <3>3 DEF ProcTypes
  <2> QED BY <2>1, <2>2, <2>3, <2>4, <2>5 DEF Process!threadProc
<1>5. ProcTypes'
  BY <1>1, <1>4 DEF ProcTypes, Ways
<1>6. OutInv'
  BY <1>1, OutStays
<1>7. ToldInv'
  <2>1. Whole' = Whole
    BY <1>1 DEF Whole
  <2> QED BY <1>1, <1>4, <2>1 DEF ToldInv
<1>8. LeftInv'
  BY <1>1, <1>4 DEF LeftInv
<1> QED BY <1>4, <1>5, <1>6, <1>7, <1>8

-------------------------------------------------------------------------------
(* The caller.                                                             *)

\* A step of the caller that leaves both FIFOs and the program alone.
Quiet ==
    /\ UNCHANGED <<proxied, inFifo, outFifo, inReader, outWriter, agent, agentIn, agentOut, chain,
                   fetched, failed, repeated, sent>>
    /\ raced' \in BOOLEAN /\ (raced => raced') /\ stopping' \in BOOLEAN
    /\ inWriter' \in Ways /\ files' \subseteq {"in", "out"} /\ told' \in Ends \cup {"none", "data"}

\* Where the caller goes, and what it has then.
Goes ==
    /\ reading' \in [at : Asking \cup Ending, got : Seq(Bytes), timeouts : Nat]
    /\ Len(reading'.got) < readLength /\ reading'.timeouts <= retryCount + 1
    /\ reading'.at \in {"select", "look"} => reading'.timeouts <= retryCount
    /\ reading'.at \notin {"select", "look", "wait"} => reading'.got = <<>>
    /\ reading.at # "closed" /\ reading'.at \notin {"prepare", "check"}
    /\ told' \notin Ends /\ reading'.at \in Asking => reading.at \in Asking
    /\ reading'.at \in {"empty", "kill empty"} => reading.at = "empty"
    /\ reading'.at \in {"destroy all", "destroy join", "remove", "closed"} =>
           reading.at \in {"destroy all", "destroy join", "remove"}
    /\ reading'.at = "remove" => chain.at \in {"none", "done"}
    /\ reading'.at = "closed" => reading.at = "remove" /\ files' = {}
    /\ inWriter' = inWriter \/ reading'.at = "closed"

\* What it tells: once an end, nothing else; and of the end it has had all.
Tells ==
    /\ told' \in Ends => reading'.at \in {"idle"} \cup Ending
    /\ reading'.at \in {"kill", "kill all", "join"} => told' \in Ends
    /\ told' \in Ends \/ (UNCHANGED told /\ reading'.got = reading.got)
    /\ told \in Ends => told' = told
    /\ told \notin Ends /\ told' = "end" =>
           agent.at = "dead" /\ (raced' \/ (Len(sent) = Len(agentOut) /\ Whole))

\* A step of the call that moves no byte.
LEMMA QuietKeeps ==
    ASSUME ProcInv, Quiet, Goes, Tells
    PROVE  ProcInv'
<1> USE DEF ProcInv
<1>1. ProcTypes'
  <2>1. reading' \in [at : Asking \cup Ending \cup {"undefined"}, got : Seq(Bytes), timeouts : Nat]
    BY DEF Goes
  <2>2. /\ Len(reading'.got) < readLength /\ reading'.timeouts <= retryCount + 1
        /\ reading'.at \in {"select", "look"} => reading'.timeouts <= retryCount
    BY DEF Goes
  <2> QED BY <2>1, <2>2 DEF ProcTypes, Quiet
<1>2. SourceInv'
  BY SourceStays DEF Quiet
<1>3. OutInv'
  BY OutStays DEF Quiet, Tells
<1>4. Whole' = Whole
  BY DEF Quiet, Whole
<1>5. ToldInv'
  <2>1. told' \notin Ends => told \notin Ends
    BY DEF Tells
  <2>2. inWriter' = "closed" => reading'.at = "closed"
    BY DEF Goes, ToldInv
  <2>3. told' = "end" => agent.at = "dead"
    BY DEF Tells, ToldInv, Ends
  <2>4. told' = "end" /\ ~raced' => Len(sent) = Len(agentOut) /\ Whole
    BY DEF Tells, ToldInv, Ends, Quiet
  <2>5. agent.at = "closing" => Whole
    BY DEF ToldInv, Goes
  <2>6. told' \notin Ends /\ reading'.at \in Asking /\ agent.status = "ok" => agent.at = "dead" /\ Whole
    BY <2>1 DEF ToldInv, Goes
  <2>7. reading'.at \in {"empty", "kill empty"} => outWriter = "closed" /\ outFifo = <<>>
    BY DEF ToldInv, Goes
  <2> QED BY <1>4, <2>2, <2>3, <2>4, <2>5, <2>6, <2>7 DEF ToldInv, Quiet, Goes, Tells
<1>6. LeftInv'
  BY DEF LeftInv, Quiet, Goes
<1> QED BY <1>1, <1>2, <1>3, <1>5, <1>6

\* The caller goes to another place with what it has.
LEMMA ClientAt ==
    ASSUME ProcTypes, NEW at \in Asking \cup Ending, Process!At(at)
    PROVE  /\ reading' \in [at : Asking \cup Ending, got : Seq(Bytes), timeouts : Nat]
           /\ reading'.at = at /\ reading'.got = reading.got /\ reading'.timeouts = reading.timeouts
           /\ Len(reading'.got) < readLength /\ reading'.timeouts <= retryCount + 1
BY DEF ProcTypes, Process!At

\* Or it begins or ends a call.
LEMMA ClientAnew ==
    ASSUME NEW at \in Asking \cup Ending, reading' = Process!Client(at, <<>>, 0)
    PROVE  /\ reading' \in [at : Asking \cup Ending, got : Seq(Bytes), timeouts : Nat]
           /\ reading'.at = at /\ reading'.got = <<>> /\ reading'.timeouts = 0
           /\ Len(reading'.got) < readLength /\ reading'.timeouts <= retryCount + 1
           /\ reading'.timeouts <= retryCount
<1>1. reading' = [at |-> at, got |-> <<>>, timeouts |-> 0]
  BY DEF Process!Client
<1>2. Len(<<>>) = 0 /\ <<>> \in Seq(Bytes) /\ 0 < readLength /\ 0 <= retryCount + 1 /\ 0 <= retryCount
  BY SizesOfProgram
<1>3. reading'.at = at /\ reading'.got = <<>> /\ reading'.timeouts = 0
  BY <1>1
<1>4. reading' \in [at : Asking \cup Ending, got : Seq(Bytes), timeouts : Nat]
  <2>1. ASSUME NEW S, NEW T, NEW a \in S, NEW g \in T
        PROVE  [at |-> a, got |-> g, timeouts |-> 0] \in [at : S, got : T, timeouts : Nat]
    OBVIOUS
  <2>2. at \in Asking \cup Ending /\ <<>> \in Seq(Bytes)
    OBVIOUS
  <2>3. [at |-> at, got |-> <<>>, timeouts |-> 0] \in [at : Asking \cup Ending, got : Seq(Bytes), timeouts : Nat]
    BY <2>1, <2>2
  <2> QED BY <1>1, <2>3, Zenon
<1> QED BY <1>2, <1>3, <1>4

\* The steps that only go on to the next place.
LEMMA StepKeeps ==
    ASSUME ProcInv,
           \/ Process!Opens("construct", "open") \/ Process!Opens("open", "idle")
           \/ Process!TimesOut \/ Process!KillsAll \/ Process!Joins \/ Process!close \/ Process!Removes,
           UNCHANGED proxied
    PROVE  ProcInv'
<1> USE DEF ProcInv
<1>1. Quiet /\ told' = told /\ (inWriter' = inWriter \/ Process!Removes)
  BY DEF ProcTypes, Quiet, Process!Opens, Process!TimesOut, Process!KillsAll, Process!Joins,
     Process!close, Process!Removes, Process!unchangedByCall, Process!chainer, Process!Shut, Ways
<1>2. PICK at \in Asking \cup Ending :
          /\ Process!At(at)
          /\ \/ reading.at = "construct" /\ at \in {"open", "destroy"}
             \/ reading.at = "open" /\ at \in {"idle", "destroy"}
             \/ reading.at = "select" /\ at = "look"
             \/ reading.at = "kill all" /\ at = "join"
             \/ reading.at = "destroy all" /\ at = "destroy join"
             \/ reading.at = "join" /\ at = "idle"
             \/ reading.at = "destroy join" /\ at = "remove" /\ chain.at \in {"none", "done"}
             \/ reading.at = "idle" /\ at = "destroy"
             \/ reading.at = "remove" /\ at = "closed" /\ files' = {}
  <2>1. CASE Process!Opens("construct", "open") \/ Process!Opens("open", "idle")
    BY <2>1 DEF Process!Opens, Asking, Ending
  <2>2. CASE Process!TimesOut
    BY <2>2 DEF Process!TimesOut, Asking
  <2>3. CASE Process!KillsAll
    BY <2>3 DEF Process!KillsAll, Ending
  <2>4. CASE Process!Joins
    BY <2>4 DEF Process!Joins, Process!Joined, Ending, Asking
  <2>5. CASE Process!close \/ Process!Removes
    BY <2>5 DEF Process!close, Process!Removes, Ending
  <2> QED BY <2>1, <2>2, <2>3, <2>4, <2>5
<1>3. /\ reading' \in [at : Asking \cup Ending, got : Seq(Bytes), timeouts : Nat]
      /\ reading'.at = at /\ reading'.got = reading.got /\ reading'.timeouts = reading.timeouts
      /\ Len(reading'.got) < readLength /\ reading'.timeouts <= retryCount + 1
  BY <1>2, ClientAt
<1>4. reading'.at \in {"select", "look"} => reading'.timeouts <= retryCount
  BY <1>2, <1>3 DEF ProcTypes
<1>5. reading'.at \notin {"select", "look", "wait"} => reading'.got = <<>>
  BY <1>2, <1>3 DEF ToldInv
<1>6. told' \notin Ends /\ reading'.at \in Asking => reading.at \in Asking
  <2>1. CASE reading.at = "join"
    BY <1>1, <1>2, <1>3, <2>1 DEF ToldInv
  <2>2. CASE reading.at # "join"
    BY <1>2, <1>3, <2>2 DEF Asking
  <2> QED BY <2>1, <2>2
<1>7. inWriter' = inWriter \/ reading'.at = "closed"
  BY <1>1, <1>2, <1>3 DEF Process!Removes
<1>8. Goes
  BY <1>2, <1>3, <1>4, <1>5, <1>6, <1>7 DEF Goes
<1>9. Tells
  BY <1>1, <1>2, <1>3 DEF Tells, ToldInv, Ending, Asking, Ends
<1> QED BY <1>1, <1>8, <1>9, QuietKeeps
\* A read begins.
LEMMA ReadKeeps ==
    ASSUME ProcInv, Process!read, UNCHANGED proxied
    PROVE  ProcInv'
<1> USE DEF ProcInv
<1>1. /\ Quiet /\ told' = told /\ told \notin Ends /\ inWriter' = inWriter /\ reading.at = "idle"
      /\ reading' = Process!Client("select", <<>>, 0)
  BY DEF ProcTypes, Quiet, Process!read, Process!unchangedByCall, Process!chainer, Ends
<1>2. "select" \in Asking \cup Ending
  BY DEF Asking
<1>3. /\ reading' \in [at : Asking \cup Ending, got : Seq(Bytes), timeouts : Nat]
      /\ reading'.at = "select" /\ reading'.got = <<>> /\ reading'.timeouts <= retryCount
      /\ Len(reading'.got) < readLength /\ reading'.timeouts <= retryCount + 1
  BY <1>1, <1>2, ClientAnew
<1>4. reading.got = <<>>
  BY <1>1 DEF ToldInv
<1>5. Goes
  BY <1>1, <1>3 DEF Goes, Asking
<1>6. Tells
  BY <1>1, <1>3, <1>4 DEF Tells, Ends
<1> QED BY <1>1, <1>5, <1>6, QuietKeeps

\* A program that has ended with success by itself is the end; what it wrote may
\* have come too late.
LEMMA EndToldOfDead ==
    ASSUME ProcInv, agent.at \in {"absent", "dead"}, told \notin Ends, reading.at \in Asking,
           Process!Told = "end"
    PROVE  agent.at = "dead" /\ Whole /\ OutLen = Len(agentOut)
BY DEF ProcInv, ToldInv, OutInv, Process!Told

\* With FIFO and call empty the client has all that was written.
LEMMA NothingWaits ==
    ASSUME ProcInv, told \notin Ends, reading.got = <<>>, outFifo = <<>>
    PROVE  Len(sent) = Len(agentOut)
<1>1. Len(<<>>) = 0 /\ Len(sent) \in Nat
  BY DEF ProcInv, ProcTypes
<1> QED BY <1>1 DEF ProcInv, OutInv, OutLen

\* After a timeout: is the program alive?
LEMMA LooksKeeps ==
    ASSUME ProcInv, Process!Looks, UNCHANGED proxied
    PROVE  ProcInv'
<1> USE DEF ProcInv
<1>1. /\ reading.at = "look" /\ inWriter' = inWriter
      /\ UNCHANGED <<proxied, inFifo, outFifo, inReader, outWriter, agent, agentIn, agentOut, chain,
                     fetched, failed, repeated, files, stopping>>
  BY DEF Process!Looks, Process!unchangedByCall, Process!chainer
<1>2. told \notin Ends
  BY <1>1 DEF ToldInv, Ending
<1>3. CASE agent.at \in {"absent", "dead"}
  <2>1. /\ reading' = Process!Client("kill all", <<>>, 0)
        /\ sent' = sent \o <<>> /\ told' = Process!Told
        /\ raced' = (raced \/ reading.got # <<>> \/ outFifo # <<>>)
    BY <1>3 DEF Process!Looks, Process!Alive, Process!Answers
  <2>2. told' \in Ends /\ "kill all" \in Asking \cup Ending
    BY <2>1 DEF Process!Told, Ends, Ending
  <2>3. /\ reading' \in [at : Asking \cup Ending, got : Seq(Bytes), timeouts : Nat]
        /\ reading'.at = "kill all" /\ reading'.got = <<>>
        /\ Len(reading'.got) < readLength /\ reading'.timeouts <= retryCount + 1
    BY <2>1, <2>2, ClientAnew
  <2>4. sent' = sent
    <3>1. sent \in Seq(Bytes) /\ <<>> \in Seq(Bytes) /\ Len(<<>>) = 0 /\ Len(sent) \in Nat
      BY DEF ProcTypes
    <3>2. /\ sent \o <<>> \in Seq(Bytes) /\ Len(sent \o <<>>) = Len(sent) + 0
          /\ \A i \in 1 .. Len(sent) : (sent \o <<>>)[i] = sent[i]
      BY <3>1, ByteConcat
    <3>3. Len(sent \o <<>>) = Len(sent)
      BY <3>1, <3>2
    <3>4. sent \o <<>> = sent
      BY <3>1, <3>2, <3>3, ByteEqual
    <3> QED BY <2>1, <3>4
  <2>5. raced' \in BOOLEAN /\ (raced => raced') /\ (~raced' => reading.got = <<>> /\ outFifo = <<>>)
    BY <2>1
  <2>6. Quiet
    BY <1>1, <2>2, <2>4, <2>5 DEF Quiet, ProcTypes, Ends
  <2>7. Goes
    BY <1>1, <2>2, <2>3 DEF Goes, Asking, Ends
  <2>8. reading.at \in Asking
    BY <1>1 DEF Asking
  <2>9. Tells
    BY <1>2, <1>3, <2>1, <2>2, <2>3, <2>5, <2>8, EndToldOfDead, NothingWaits DEF Tells, Ending
  <2> QED BY <2>6, <2>7, <2>9, QuietKeeps
<1>4. CASE agent.at \notin {"absent", "dead"}
  <2>1. /\ UNCHANGED <<sent, told, raced>>
        /\ reading' = [reading EXCEPT !.timeouts = @ + 1, !.at = IF Process!TooMany THEN "wait" ELSE "select"]
    BY <1>4 DEF Process!Looks, Process!Alive
  <2>2. reading.timeouts \in Nat /\ reading.timeouts <= retryCount
    BY <1>1 DEF ProcTypes
  <2>3. /\ reading'.timeouts = reading.timeouts + 1 /\ reading'.got = reading.got
        /\ reading'.at = (IF Process!TooMany THEN "wait" ELSE "select")
    BY <2>1 DEF ProcTypes
  <2>4. /\ reading'.at \in {"wait", "select"}
        /\ reading'.at = "select" => reading'.timeouts <= retryCount
        /\ reading'.timeouts <= retryCount + 1
    BY <2>2, <2>3, SizesOfProgram DEF Process!TooMany
  <2>5. reading' \in [at : Asking \cup Ending, got : Seq(Bytes), timeouts : Nat]
    <3>1. reading \in [at : Asking \cup Ending \cup {"undefined"}, got : Seq(Bytes), timeouts : Nat]
      BY DEF ProcTypes
    <3>2. PICK at \in {"wait", "select"} : reading' = [reading EXCEPT !.timeouts = @ + 1, !.at = at]
      <4>1. (IF Process!TooMany THEN "wait" ELSE "select") \in {"wait", "select"}
        OBVIOUS
      <4> QED BY <2>1, <4>1, Zenon
    <3>3. at \in Asking \cup Ending /\ reading.timeouts + 1 \in Nat
      <4>1. "wait" \in Asking /\ "select" \in Asking
        BY DEF Asking
      <4>2. reading.timeouts + 1 \in Nat
        BY <2>2
      <4> QED BY <4>1, <4>2
    <3> QED BY <3>1, <3>2, <3>3
  <2>6. Quiet
    BY <1>1, <2>1 DEF Quiet, ProcTypes
  <2>7. Goes
    BY <1>1, <2>3, <2>4, <2>5 DEF Goes, Asking, ProcTypes
  <2>8. Tells
    BY <1>2, <2>1, <2>3, <2>4 DEF Tells, Ends
  <2> QED BY <2>6, <2>7, <2>8, QuietKeeps
<1> QED BY <1>3, <1>4

\* After too many of them the last look at the FIFO.
LEMMA WaitsKeeps ==
    ASSUME ProcInv, Process!Waits, UNCHANGED proxied
    PROVE  ProcInv'
<1> USE DEF ProcInv
<1>1. /\ reading.at = "wait" /\ inWriter' = inWriter
      /\ UNCHANGED <<proxied, inFifo, outFifo, inReader, outWriter, agent, agentIn, agentOut, chain,
                     fetched, failed, repeated, files, stopping, sent, raced>>
  BY DEF Process!Waits, Process!unchangedByCall, Process!chainer
<1>2. told \notin Ends
  BY <1>1 DEF ToldInv, Ending
<1>3. CASE Process!Readable
  <2>1. reading' = [at |-> "select", got |-> reading.got, timeouts |-> 0] /\ told' = told
    BY <1>3 DEF Process!Waits, Process!Client
  <2>2. reading' \in [at : Asking \cup Ending, got : Seq(Bytes), timeouts : Nat]
    BY <2>1 DEF ProcTypes, Asking
  <2>3. /\ reading'.at = "select" /\ reading'.got = reading.got
        /\ Len(reading'.got) < readLength /\ reading'.timeouts <= retryCount
        /\ reading'.timeouts <= retryCount + 1
    BY <2>1, SizesOfProgram DEF ProcTypes
  <2>4. Quiet
    BY <1>1, <2>1 DEF Quiet, ProcTypes
  <2>5. Goes
    BY <1>1, <2>2, <2>3 DEF Goes, Asking
  <2>6. Tells
    BY <1>2, <2>1, <2>3 DEF Tells, Ends
  <2> QED BY <2>4, <2>5, <2>6, QuietKeeps
<1>4. CASE ~Process!Readable
  <2>1. reading' = Process!Client("kill", <<>>, 0) /\ told' = "error"
    BY <1>4 DEF Process!Waits
  <2>2. "kill" \in Asking \cup Ending /\ "error" \in Ends
    BY DEF Ending, Ends
  <2>3. /\ reading' \in [at : Asking \cup Ending, got : Seq(Bytes), timeouts : Nat]
        /\ reading'.at = "kill" /\ reading'.got = <<>>
        /\ Len(reading'.got) < readLength /\ reading'.timeouts <= retryCount + 1
    BY <2>1, <2>2, ClientAnew
  <2>4. Quiet
    BY <1>1, <2>1, <2>2 DEF Quiet, ProcTypes
  <2>5. Goes
    BY <1>1, <2>1, <2>2, <2>3 DEF Goes, Asking
  <2>6. Tells
    BY <1>2, <2>1, <2>2, <2>3 DEF Tells, Ending
  <2> QED BY <2>4, <2>5, <2>6, QuietKeeps
<1> QED BY <1>3, <1>4

\* The FIFO is closed and empty.
LEMMA EmptyKeeps ==
    ASSUME ProcInv, Process!Empty, UNCHANGED proxied
    PROVE  ProcInv'
<1> USE DEF ProcInv
<1>1. /\ reading.at = "empty" /\ inWriter' = inWriter
      /\ UNCHANGED <<proxied, inFifo, outFifo, inReader, outWriter, agent, agentIn, agentOut, chain,
                     fetched, failed, repeated, files, stopping, sent, raced>>
  BY DEF Process!Empty, Process!unchangedByCall, Process!chainer
<1>2. /\ told \notin Ends /\ reading.at \in Asking
      /\ reading.got = <<>> /\ outFifo = <<>>
  BY <1>1 DEF ToldInv, Ending, Asking
<1>3. CASE /\ agent.at \in {"absent", "dead"}
           /\ reading' = Process!Client("kill all", <<>>, 0) /\ told' = Process!Told
  <2>1. told' \in Ends /\ "kill all" \in Asking \cup Ending
    BY <1>3 DEF Process!Told, Ends, Ending
  <2>2. /\ reading' \in [at : Asking \cup Ending, got : Seq(Bytes), timeouts : Nat]
        /\ reading'.at = "kill all" /\ reading'.got = <<>>
        /\ Len(reading'.got) < readLength /\ reading'.timeouts <= retryCount + 1
    BY <1>3, <2>1, ClientAnew
  <2>3. Quiet
    BY <1>1, <2>1 DEF Quiet, ProcTypes
  <2>4. Goes
    BY <1>1, <2>1, <2>2 DEF Goes
  <2>5. Tells
    BY <1>2, <1>3, <2>1, <2>2, EndToldOfDead, NothingWaits DEF Tells, Ending
  <2> QED BY <2>3, <2>4, <2>5, QuietKeeps
<1>4. CASE Process!At("kill empty") /\ UNCHANGED told
  <2>1. "kill empty" \in Asking \cup Ending
    BY DEF Asking
  <2>2. /\ reading' \in [at : Asking \cup Ending, got : Seq(Bytes), timeouts : Nat]
        /\ reading'.at = "kill empty" /\ reading'.got = reading.got
        /\ Len(reading'.got) < readLength /\ reading'.timeouts <= retryCount + 1
    BY <1>4, <2>1, ClientAt
  <2>3. Quiet
    BY <1>1, <1>4 DEF Quiet, ProcTypes
  <2>4. Goes
    BY <1>1, <1>2, <2>2 DEF Goes
  <2>5. Tells
    BY <1>2, <1>4, <2>2 DEF Tells, Ends
  <2> QED BY <2>3, <2>4, <2>5, QuietKeeps
<1> QED BY <1>1, <1>3, <1>4 DEF Process!Empty, Process!Alive
\* The FIFO of the chainer, if there is to be one.
LEMMA PrepareKeeps ==
    ASSUME ProcInv, Process!Prepare, UNCHANGED proxied
    PROVE  ProcInv'
<1> USE DEF ProcInv
<1>1. /\ reading.at = "prepare" /\ Process!At("check")
      /\ UNCHANGED <<proxied, inFifo, outFifo, inWriter, inReader, outWriter, agent, agentIn, agentOut,
                     fetched, failed, repeated, stopping, sent, told, raced>>
      /\ files' \subseteq {"in", "out"}
      /\ chain' = IF proxied THEN [chain EXCEPT !.at = "open"] ELSE chain
  BY DEF Process!Prepare, Process!program
<1>2. "check" \in Asking \cup Ending
  BY DEF Asking
<1>3. /\ reading' \in [at : Asking \cup Ending, got : Seq(Bytes), timeouts : Nat]
      /\ reading'.at = "check" /\ reading'.got = reading.got /\ reading'.timeouts = reading.timeouts
      /\ Len(reading'.got) < readLength /\ reading'.timeouts <= retryCount + 1
  BY <1>1, <1>2, ClientAt
<1>4. chain.at = "none" /\ agent.at = "absent"
  BY <1>1 DEF LeftInv
<1>5. /\ chain' \in [at : ChainPlaces, buf : Seq(Bytes), written : Nat]
      /\ chain'.buf = chain.buf /\ chain'.written = chain.written
      /\ chain'.at = (IF proxied THEN "open" ELSE "none")
  BY <1>1, <1>4 DEF ProcTypes, ChainPlaces
<1>6. ProcTypes'
  <2>1. reading' \in [at : Asking \cup Ending \cup {"undefined"}, got : Seq(Bytes), timeouts : Nat]
    BY <1>3
  <2> QED BY <1>1, <1>3, <1>5, <2>1 DEF ProcTypes
<1>7. SourceInv'
  BY <1>1, <1>4, <1>5 DEF SourceInv, InLen
<1>8. OutInv'
  BY <1>1, <1>3, OutStays
<1>9. ToldInv'
  <2>1. told \notin Ends /\ agent.status = "failed" /\ inWriter # "closed" /\ reading.got = <<>>
    BY <1>1, <1>4 DEF ToldInv, Ending
  <2>2. told # "end"
    BY <2>1 DEF Ends
  <2> QED BY <1>1, <1>3, <1>4, <2>1, <2>2 DEF ToldInv
<1>10. LeftInv'
  BY <1>1, <1>3, <1>4 DEF LeftInv
<1> QED BY <1>6, <1>7, <1>8, <1>9, <1>10

\* The fork.
LEMMA LaunchKeeps ==
    ASSUME ProcInv, Process!Launch, UNCHANGED proxied
    PROVE  ProcInv'
<1> USE DEF ProcInv
<1>1. /\ reading.at = "check"
      /\ UNCHANGED <<proxied, inFifo, outFifo, inWriter, inReader, outWriter, agentIn, agentOut, chain,
                     fetched, failed, repeated, stopping, sent, told, raced>>
      /\ files' \subseteq {"in", "out"}
  BY DEF Process!Launch, Process!unchangedByCall, Process!chainer, ProcTypes
<1>2. agent.at = "absent" /\ agent.status = "failed" /\ told \notin Ends /\ told # "end"
  BY <1>1 DEF LeftInv, ToldInv, Ending, Ends
<1>3. PICK at \in {"construct", "undefined", "closed"} :
          /\ reading' = [reading EXCEPT !.at = at]
          /\ at = "construct" => agent' = [agent EXCEPT !.at = "start"]
          /\ at # "construct" => agent' = agent
  BY DEF Process!Launch, Process!At
<1>4. /\ reading' \in [at : Asking \cup Ending \cup {"undefined"}, got : Seq(Bytes), timeouts : Nat]
      /\ reading'.at = at /\ reading'.got = reading.got /\ reading'.timeouts = reading.timeouts
  BY <1>3 DEF ProcTypes, Asking, Ending
<1>5. /\ agent' \in [at : AgentPlaces, status : {"ok", "failed"}]
      /\ agent'.status = "failed" /\ agent'.at = (IF at = "construct" THEN "start" ELSE "absent")
  BY <1>2, <1>3 DEF ProcTypes, AgentPlaces
<1>6. ProcTypes'
  BY <1>1, <1>4, <1>5 DEF ProcTypes
<1>7. SourceInv'
  BY <1>1, SourceStays
<1>8. OutInv'
  BY <1>1, <1>4, OutStays
<1>9. ToldInv'
  <2>1. outWriter # "closed" /\ inWriter # "closed" /\ reading.got = <<>>
    BY <1>1, <1>2 DEF ToldInv
  <2> QED BY <1>1, <1>2, <1>3, <1>4, <1>5, <2>1 DEF ToldInv
<1>10. LeftInv'
  BY <1>1, <1>3, <1>4, <1>5 DEF LeftInv
<1> QED BY <1>6, <1>7, <1>8, <1>9, <1>10

\* What the program has had stays, whoever else moves.
LEMMA WholeStays ==
    ASSUME UNCHANGED <<proxied, agentIn, agentOut>>
    PROVE  Whole => Whole'
BY DEF Whole

\* The kill of a program, after an error, at the end or on close.
LEMMA KillsKeeps ==
    ASSUME ProcInv, Process!Kills, UNCHANGED proxied
    PROVE  ProcInv'
<1> USE DEF ProcInv
<1>1. /\ reading.at \in {"kill", "kill empty", "destroy"}
      /\ UNCHANGED <<proxied, inFifo, outFifo, inWriter, files, agentIn, agentOut, chain, fetched,
                     failed, repeated, stopping, sent, raced>>
      /\ reading.at # "kill empty" => told' = told
      /\ reading.at = "kill empty" => told' = IF agent'.status = "ok" THEN "end" ELSE "error"
      /\ Process!At(IF reading.at = "destroy" THEN "destroy all" ELSE "kill all")
  BY DEF Process!Kills, Process!chainer
<1>13. Whole => Whole'
  BY <1>1, WholeStays
<1>2. PICK at \in {"destroy all", "kill all"} :
          Process!At(at) /\ (at = "destroy all" <=> reading.at = "destroy")
  BY <1>1
<1>3. at \in Asking \cup Ending
  BY DEF Ending
<1>4. /\ reading' \in [at : Asking \cup Ending, got : Seq(Bytes), timeouts : Nat]
      /\ reading'.at = at /\ reading'.got = reading.got /\ reading'.timeouts = reading.timeouts
      /\ Len(reading'.got) < readLength /\ reading'.timeouts <= retryCount + 1
  BY <1>2, <1>3, ClientAt
<1>5. agent \in [at : AgentPlaces, status : {"ok", "failed"}]
  BY DEF ProcTypes
<1>6. \/ /\ agent.at \notin {"absent", "dead"} /\ agent'.at = "dead"
         /\ agent' \in [at : AgentPlaces, status : {"ok", "failed"}]
         /\ inReader' = FALSE /\ outWriter' \in Ways
         /\ outWriter = "closed" => outWriter' = "closed"
      \/ agent.at \in {"absent", "dead"} /\ UNCHANGED <<agent, inReader, outWriter>>
  <2>1. CASE Process!Alive /\ \E status \in {"ok", "failed"} : Process!Dies(status)
    <3>1. PICK status \in {"ok", "failed"} : Process!Dies(status)
      BY <2>1
    <3>2. agent' = [at |-> "dead", status |-> status] /\ inReader' = FALSE
      BY <3>1 DEF Process!Dies
    <3>3. agent'.at = "dead" /\ agent' \in [at : AgentPlaces, status : {"ok", "failed"}]
      BY <3>2 DEF AgentPlaces
    <3>4. outWriter \in Ways
      BY DEF ProcTypes
    <3>5. outWriter' \in Ways /\ (outWriter = "closed" => outWriter' = "closed")
      BY <3>1, <3>4 DEF Process!Dies, Ways
    <3> QED BY <2>1, <3>2, <3>3, <3>5 DEF Process!Alive
  <2>2. CASE ~Process!Alive /\ UNCHANGED <<agent, inReader, outWriter>>
    BY <2>2 DEF Process!Alive
  <2> QED BY <2>1, <2>2 DEF Process!Kills
<1>7. told' \in Ends \cup {"none", "data"}
  BY <1>1 DEF ProcTypes, Ends
<1>8. ProcTypes'
  <2>1. reading' \in [at : Asking \cup Ending \cup {"undefined"}, got : Seq(Bytes), timeouts : Nat]
    BY <1>4
  <2>2. /\ agent' \in [at : AgentPlaces, status : {"ok", "failed"}]
        /\ inReader' \in BOOLEAN /\ outWriter' \in Ways
    BY <1>5, <1>6 DEF ProcTypes
  <2>3. reading'.at \notin {"select", "look"}
    BY <1>4
  <2> QED BY <1>1, <1>4, <1>7, <2>1, <2>2, <2>3 DEF ProcTypes
<1>9. SourceInv'
  <2>1. inReader' => inReader
    BY <1>6
  <2> QED BY <1>1, <2>1, SourceStays
<1>10. OutInv'
  <2>1. told' \in Ends \/ told' = told
    BY <1>1 DEF Ends
  <2> QED BY <1>1, <1>4, <2>1, OutStays
<1>11. ToldInv'
  <2>1. reading.got = <<>>
    BY <1>1 DEF ToldInv
  <2>2. outWriter' = "closed" => agent'.at = "dead"
    BY <1>6 DEF ToldInv
  <2>3. agent'.at \in {"absent", "dead"} /\ (agent'.at = "absent" => agent'.status = "failed")
    BY <1>6 DEF ToldInv
  <2>4. inWriter # "closed"
    BY <1>1 DEF ToldInv
  <2>5. told' \in Ends => reading'.at \in Ending
    BY <1>4 DEF Ending
  <2>6. reading'.at = "kill all" => told' \in Ends
    BY <1>1, <1>2, <1>4 DEF ToldInv, Ends
  <2>9. (Whole => Whole') /\ reading'.at \notin Asking /\ reading'.got = <<>> /\ raced' = raced
    <3>1. reading'.at \notin Asking
      BY <1>2, <1>4 DEF Asking
    <3> QED BY <1>1, <1>4, <1>13, <2>1, <3>1
  <2>10. /\ agent'.at # "closing" /\ inWriter' # "closed"
         /\ reading'.at \in {"destroy all", "kill all"} /\ UNCHANGED <<sent, agentOut>>
    BY <1>1, <1>2, <1>4, <2>3, <2>4
  <2>7. CASE reading.at = "kill empty" /\ told' = "end"
    <3>1. told \notin Ends /\ outWriter = "closed" /\ outFifo = <<>> /\ reading.at \in Asking
      BY <2>7 DEF ToldInv, Ending, Asking
    <3>2. Len(sent) = Len(agentOut)
      BY <2>1, <3>1, NothingWaits
    <3>3. agent'.status = "ok"
      BY <1>1, <2>7
    <3>4. Whole
      <4>1. agent.at \in {"closing", "dead"}
        BY <3>1 DEF ToldInv
      <4>2. CASE agent.at = "closing"
        BY <2>7, <4>2 DEF ToldInv
      <4>3. CASE agent.at = "dead"
        BY <1>6, <3>1, <3>3, <4>3 DEF ToldInv
      <4> QED BY <4>1, <4>2, <4>3
    <3>5. agent'.at = "dead"
      BY <2>3, <3>3
    <3> QED BY <2>2, <2>3, <2>5, <2>6, <2>9, <2>10, <3>2, <3>4, <3>5 DEF ToldInv
  <2>8. CASE ~(reading.at = "kill empty" /\ told' = "end")
    <3>1. told' = "end" => told = "end"
      BY <1>1, <2>8
    <3>2. told' = "end" => agent'.at = "dead"
      BY <1>6, <3>1 DEF ToldInv
    <3>3. told' = "end" /\ ~raced => Len(sent) = Len(agentOut) /\ Whole
      BY <3>1 DEF ToldInv
    <3> QED BY <2>2, <2>3, <2>5, <2>6, <2>9, <2>10, <3>2, <3>3 DEF ToldInv
  <2> QED BY <2>7, <2>8
<1>12. LeftInv'
  <2>1. agent'.at \in {"absent", "dead"}
    BY <1>6
  <2> QED BY <1>4, <2>1 DEF LeftInv
<1> QED BY <1>8, <1>9, <1>10, <1>11, <1>12

\* What Takes moves from the FIFO to the call.
LEMMA TakesParts ==
    ASSUME ProcInv, Process!Takes
    PROVE  \E n \in Nat, got \in Seq(Bytes) :
               /\ n <= Len(outFifo) /\ n + Len(reading.got) <= readLength
               /\ n = 0 => Len(outFifo) = 0
               /\ got = Process!Got(n)
               /\ Len(got) = Len(reading.got) + n
               /\ \A i \in 1 .. Len(got) : got[i] = agentOut[Len(sent) + i]
               /\ outFifo' \in Seq(Bytes) /\ Len(outFifo') = Len(outFifo) - n
               /\ \A i \in 1 .. Len(outFifo') :
                      outFifo'[i] = agentOut[Len(sent) + Len(got) + i]
               /\ IF n > 0 /\ Len(got) < readLength
                  THEN reading' = Process!Client("select", got, 0) /\ UNCHANGED <<sent, told>>
                  ELSE IF got = <<>> THEN Process!At("empty") /\ UNCHANGED <<sent, told>>
                  ELSE reading' = Process!Client("idle", <<>>, 0) /\ sent' = sent \o got /\ told' = "data"
<1> DEFINE g == Len(reading.got)
           o == Len(outFifo)
           p == Len(sent)
<1>1. /\ outFifo \in Seq(Bytes) /\ reading.got \in Seq(Bytes) /\ sent \in Seq(Bytes)
      /\ g \in Nat /\ o \in Nat /\ p \in Nat /\ g < readLength
  BY DEF ProcInv, ProcTypes
<1>2. /\ p + g + o = Len(agentOut)
      /\ \A i \in 1 .. g : reading.got[i] = agentOut[p + i]
      /\ \A i \in 1 .. o : outFifo[i] = agentOut[p + g + i]
  <2>1. told \notin Ends
    BY DEF ProcInv, ToldInv, Process!Takes, Ending
  <2> QED BY <2>1 DEF ProcInv, OutInv, OutLen
<1>3. PICK n : n = Process!Min({readLength - g, o})
  OBVIOUS
<1>4. n \in Nat /\ n <= o /\ n + g <= readLength /\ (n = 0 => o = 0)
  <2>1. readLength - g \in Int /\ o \in Int /\ readLength - g >= 1
    BY <1>1, SizesOfProgram
  <2> HIDE DEF g, o
  <2>2. n \in {readLength - g, o} /\ n <= readLength - g /\ n <= o
    BY <1>3, <2>1, LeastOfTwo
  <2> QED BY <1>1, <2>1, <2>2, SizesOfProgram
<1>5. PICK t : t = SubSeq(outFifo, 1, n)
  OBVIOUS
<1>6. t \in Seq(Bytes) /\ Len(t) = n /\ \A i \in 1 .. n : t[i] = outFifo[i]
  <2>1. SubSeq(outFifo, 0 + 1, 0 + n) = t /\ 0 + n <= Len(outFifo)
    BY <1>4, <1>5
  <2> QED BY <1>1, <1>4, <2>1, ByteSub, SMTT(30)
<1>7. PICK got : got = Process!Got(n)
  OBVIOUS
<1>8. /\ got \in Seq(Bytes) /\ Len(got) = g + n
      /\ \A i \in 1 .. g : got[i] = reading.got[i]
      /\ \A i \in 1 .. n : got[g + i] = t[i]
  <2>1. got = reading.got \o t
    BY <1>5, <1>7 DEF Process!Got
  <2> QED BY <1>1, <1>6, <2>1, ByteConcat
<1>9. /\ outFifo' = SubSeq(outFifo, n + 1, o)
      /\ IF n > 0 /\ Len(got) < readLength
         THEN reading' = Process!Client("select", got, 0) /\ UNCHANGED <<sent, told>>
         ELSE IF got = <<>> THEN Process!At("empty") /\ UNCHANGED <<sent, told>>
         ELSE reading' = Process!Client("idle", <<>>, 0) /\ sent' = sent \o got /\ told' = "data"
  BY <1>3, <1>7, Zenon DEF Process!Takes, Process!Answers
<1>13. o = Len(outFifo)
  OBVIOUS
<1> HIDE DEF g, o, p
<1>10. /\ outFifo' \in Seq(Bytes) /\ Len(outFifo') = o - n
       /\ \A i \in 1 .. o - n : outFifo'[i] = outFifo[n + i]
  <2>1. o - n \in Nat /\ n + (o - n) = o
    BY <1>1, <1>4
  <2>2. outFifo' = SubSeq(outFifo, n + 1, n + (o - n)) /\ n + (o - n) <= Len(outFifo)
    <3>1. PICK q : q = n + (o - n)
      OBVIOUS
    <3>2. q = o /\ o \in Nat
      BY <1>1, <2>1, <3>1
    <3>3. outFifo' = SubSeq(outFifo, n + 1, q) /\ q <= Len(outFifo)
      BY <1>9, <1>13, <3>2
    <3> QED BY <3>1, <3>3
  <2>3. /\ SubSeq(outFifo, n + 1, n + (o - n)) \in Seq(Bytes)
        /\ Len(SubSeq(outFifo, n + 1, n + (o - n))) = o - n
        /\ \A i \in 1 .. o - n : SubSeq(outFifo, n + 1, n + (o - n))[i] = outFifo[n + i]
    BY <1>1, <1>4, <2>1, <2>2, ByteSub
  <2> QED BY <2>2, <2>3
<1>11. ASSUME NEW i \in 1 .. Len(got) PROVE got[i] = agentOut[p + i]
  <2>1. CASE i \in 1 .. g
    BY <1>2, <1>8, <2>1
  <2>2. CASE i \notin 1 .. g
    <3>1. PICK k \in 1 .. n : i = g + k
      <4>1. i - g \in 1 .. n /\ i = g + (i - g)
        BY <1>1, <1>4, <1>8, <2>2
      <4> QED BY <4>1
    <3>2. k \in 1 .. o /\ p + g + k = p + i
      BY <1>1, <1>4, <3>1
    <3> QED BY <1>2, <1>6, <1>8, <3>1, <3>2
  <2> QED BY <2>1, <2>2
<1>12. ASSUME NEW i \in 1 .. Len(outFifo') PROVE outFifo'[i] = agentOut[p + Len(got) + i]
  <2>1. i \in 1 .. o - n /\ n + i \in 1 .. o /\ p + g + (n + i) = p + (g + n) + i
    BY <1>1, <1>4, <1>10
  <2> QED BY <1>2, <1>8, <1>10, <2>1
<1> QED BY <1>4, <1>7, <1>8, <1>9, <1>10, <1>11, <1>12 DEF g, o, p

\* Hence the bytes of a call are those behind the ones the client has.
LEMMA TakesKeeps ==
    ASSUME ProcInv, Process!Takes, UNCHANGED proxied
    PROVE  ProcInv'
<1> USE DEF ProcInv
<1>1. /\ reading.at = "select" /\ Process!Readable
      /\ UNCHANGED <<proxied, inFifo, inWriter, inReader, outWriter, agent, agentIn, agentOut, chain,
                     fetched, failed, repeated, files, stopping, raced>>
  BY DEF Process!Takes, Process!chainer
<1>2. PICK n \in Nat, got \in Seq(Bytes) :
               /\ n <= Len(outFifo) /\ n + Len(reading.got) <= readLength
               /\ n = 0 => Len(outFifo) = 0
               /\ got = Process!Got(n)
               /\ Len(got) = Len(reading.got) + n
               /\ \A i \in 1 .. Len(got) : got[i] = agentOut[Len(sent) + i]
               /\ outFifo' \in Seq(Bytes) /\ Len(outFifo') = Len(outFifo) - n
               /\ \A i \in 1 .. Len(outFifo') :
                      outFifo'[i] = agentOut[Len(sent) + Len(got) + i]
               /\ IF n > 0 /\ Len(got) < readLength
                  THEN reading' = Process!Client("select", got, 0) /\ UNCHANGED <<sent, told>>
                  ELSE IF got = <<>> THEN Process!At("empty") /\ UNCHANGED <<sent, told>>
                  ELSE reading' = Process!Client("idle", <<>>, 0) /\ sent' = sent \o got /\ told' = "data"
  BY TakesParts
<1>3. /\ outFifo \in Seq(Bytes) /\ reading.got \in Seq(Bytes) /\ sent \in Seq(Bytes)
      /\ Len(outFifo) \in Nat /\ Len(reading.got) \in Nat /\ Len(sent) \in Nat /\ Len(got) \in Nat
      /\ Len(outFifo) <= Capacity
  BY DEF ProcTypes
<1>4. told \notin Ends /\ Len(sent) + Len(reading.got) + Len(outFifo) = Len(agentOut)
  <2>1. told \notin Ends
    BY <1>1 DEF ToldInv, Ending
  <2> QED BY <2>1 DEF OutInv, OutLen
<1>5. Len(sent) + Len(got) + Len(outFifo') = Len(agentOut) /\ Len(outFifo') <= Capacity
  <2>1. /\ Len(got) = Len(reading.got) + n /\ n \in Nat /\ n <= Len(outFifo)
        /\ Len(outFifo') = Len(outFifo) - n
    BY <1>2
  <2>2. Len(outFifo) - n <= Capacity
    BY <1>3, <2>1, SizesOfProgram
  <2>3. Len(sent) + (Len(reading.got) + n) + (Len(outFifo) - n)
            = Len(sent) + Len(reading.got) + Len(outFifo)
    BY <1>3, <2>1, MovedOver
  <2> QED BY <1>4, <2>1, <2>2, <2>3
<1>6. /\ reading' \in [at : Asking \cup Ending, got : Seq(Bytes), timeouts : Nat]
      /\ reading'.at \in {"select", "empty", "idle"}
      /\ Len(reading'.got) < readLength /\ reading'.timeouts <= retryCount
      /\ reading'.at # "select" => reading'.got = <<>>
      /\ reading'.at = "empty" => outFifo' = <<>> /\ outWriter = "closed"
      /\ \/ reading'.got = got /\ UNCHANGED <<sent, told>>
         \/ reading'.got = <<>> /\ sent' = sent \o got /\ told' = "data"
  <2>1. CASE n > 0 /\ Len(got) < readLength
    <3>1. reading' = [at |-> "select", got |-> got, timeouts |-> 0] /\ UNCHANGED <<sent, told>>
      BY <1>2, <2>1 DEF Process!Client
    <3>2. reading' \in [at : Asking \cup Ending, got : Seq(Bytes), timeouts : Nat]
      BY <1>2, <3>1 DEF Asking
    <3> QED BY <2>1, <3>1, <3>2, SizesOfProgram
  <2>2. CASE ~(n > 0 /\ Len(got) < readLength) /\ got = <<>>
    <3>1. Process!At("empty") /\ UNCHANGED <<sent, told>> /\ "empty" \in Asking \cup Ending
      BY <1>2, <2>2 DEF Asking
    <3>2. /\ reading' \in [at : Asking \cup Ending, got : Seq(Bytes), timeouts : Nat]
          /\ reading'.at = "empty" /\ reading'.got = reading.got /\ reading'.timeouts = reading.timeouts
          /\ Len(reading'.got) < readLength
      BY <3>1, ClientAt
    <3>3. Len(got) = 0 /\ Len(reading.got) = 0 /\ n = 0 /\ Len(outFifo) = 0 /\ Len(outFifo') = 0
      BY <1>2, <1>3, <2>2
    <3>4. reading.got = <<>> /\ outFifo = <<>> /\ outFifo' = <<>>
      BY <1>2, <1>3, <3>3
    <3>5. outWriter = "closed"
      BY <1>1, <3>4 DEF Process!Readable
    <3>6. reading.timeouts <= retryCount
      BY <1>1 DEF ProcTypes
    <3> QED BY <2>2, <3>1, <3>2, <3>4, <3>5, <3>6
  <2>3. CASE ~(n > 0 /\ Len(got) < readLength) /\ got # <<>>
    <3>1. reading' = Process!Client("idle", <<>>, 0) /\ sent' = sent \o got /\ told' = "data"
      BY <1>2, <2>3
    <3>2. "idle" \in Asking \cup Ending
      BY DEF Asking
    <3>3. /\ reading' \in [at : Asking \cup Ending, got : Seq(Bytes), timeouts : Nat]
          /\ reading'.at = "idle" /\ reading'.got = <<>> /\ reading'.timeouts <= retryCount
          /\ Len(reading'.got) < readLength
      BY <3>1, <3>2, ClientAnew
    <3> QED BY <3>1, <3>3
  <2> QED BY <2>1, <2>2, <2>3
<1>7. told' \notin Ends /\ told' # "end" /\ told' \in Ends \cup {"none", "data"}
  BY <1>4, <1>6 DEF Ends, ProcTypes
<1>8. ASSUME reading'.got = got, UNCHANGED <<sent, told>>
      PROVE  OutInv' /\ sent' \in Seq(Bytes)
  <2>1. OutLen' = Len(agentOut)
    BY <1>5, <1>8 DEF OutLen
  <2>2. OutInv'
    BY <1>1, <1>2, <1>8, <2>1 DEF OutInv
  <2> QED BY <1>3, <1>8, <2>2
<1>9. ASSUME reading'.got = <<>>, sent' = sent \o got, told' = "data"
      PROVE  OutInv' /\ sent' \in Seq(Bytes)
  <2>1. /\ sent' \in Seq(Bytes) /\ Len(sent') = Len(sent) + Len(got)
        /\ \A i \in 1 .. Len(sent) : sent'[i] = sent[i]
        /\ \A i \in 1 .. Len(got) : sent'[Len(sent) + i] = got[i]
    BY <1>3, <1>9, ByteConcat
  <2>2. Len(reading'.got) = 0 /\ 1 .. Len(reading'.got) = {}
    BY <1>9
  <2>3. OutLen' = Len(agentOut)
    BY <1>3, <1>5, <2>1, <2>2 DEF OutLen
  <2>4. ASSUME NEW i \in 1 .. Len(sent') PROVE sent'[i] = agentOut[i]
    <3>1. CASE i \in 1 .. Len(sent)
      BY <2>1, <3>1 DEF OutInv
    <3>2. CASE i \notin 1 .. Len(sent)
      <4>1. PICK k \in 1 .. Len(got) : i = Len(sent) + k
        <5>1. i - Len(sent) \in 1 .. Len(got) /\ i = Len(sent) + (i - Len(sent))
          BY <1>3, <2>1, <3>2
        <5> QED BY <5>1
      <4> QED BY <1>2, <2>1, <4>1
    <3> QED BY <3>1, <3>2
  <2>5. Len(sent') <= Len(agentOut)
    BY <1>2, <1>3, <1>5, <2>1
  <2>6. ASSUME NEW i \in 1 .. Len(outFifo')
        PROVE  outFifo'[i] = agentOut[Len(sent') + Len(reading'.got) + i]
    <3>1. Len(sent') + Len(reading'.got) + i = Len(sent) + Len(got) + i
      BY <1>3, <2>1, <2>2
    <3> QED BY <1>2, <3>1
  <2>7. OutInv'
    BY <1>1, <2>2, <2>3, <2>4, <2>5, <2>6 DEF OutInv
  <2> QED BY <2>1, <2>7
<1>10. OutInv' /\ sent' \in Seq(Bytes)
  BY <1>6, <1>8, <1>9
<1>11. ProcTypes'
  <2>1. reading' \in [at : Asking \cup Ending \cup {"undefined"}, got : Seq(Bytes), timeouts : Nat]
    BY <1>6
  <2>2. reading'.timeouts <= retryCount + 1
    BY <1>6, SizesOfProgram
  <2> QED BY <1>1, <1>2, <1>5, <1>6, <1>7, <1>10, <2>1, <2>2 DEF ProcTypes
<1>12. SourceInv'
  BY <1>1, SourceStays
<1>13. ToldInv'
  <2>1. reading.at \in Asking
    BY <1>1 DEF Asking
  <2>2. Whole' = Whole
    BY <1>1 DEF Whole
  <2> QED BY <1>1, <1>4, <1>6, <1>7, <2>1, <2>2 DEF ToldInv
<1>14. LeftInv'
  BY <1>1, <1>6 DEF LeftInv
<1> QED BY <1>10, <1>11, <1>12, <1>13, <1>14

\* Every step of program, chainer and client.
LEMMA ProcKeeps == ProcInv /\ [Process!Next]_processOnly => ProcInv'
<1> SUFFICES ASSUME ProcInv, [Process!Next]_processOnly PROVE ProcInv'
  OBVIOUS
<1>1. CASE UNCHANGED processOnly
  <2>1. /\ UNCHANGED <<proxied, inFifo, outFifo, inWriter, outWriter, inReader, files, agent>>
        /\ UNCHANGED <<agentIn, agentOut, chain, fetched, failed, stopping, reading, sent, told>>
        /\ UNCHANGED <<raced, repeated>>
    BY <1>1 DEF processOnly
  <2>2. ProcTypes'
    BY <2>1 DEF ProcInv, ProcTypes
  <2>3. SourceInv'
    BY <2>1 DEF ProcInv, SourceInv, InLen
  <2>4. OutInv'
    BY <2>1 DEF ProcInv, OutInv, OutLen
  <2>5. ToldInv'
    BY <2>1 DEF ProcInv, ToldInv, Whole
  <2>6. LeftInv'
    BY <2>1 DEF ProcInv, LeftInv
  <2> QED BY <2>2, <2>3, <2>4, <2>5, <2>6 DEF ProcInv
<1>2. CASE Process!agentStep
  BY <1>2, AgentTypes, AgentSource, AgentOut, AgentEnd DEF ProcInv
<1>3. CASE Process!threadProc
  BY <1>3, ChainKeeps
<1>4. CASE Process!serving
  <2>1. UNCHANGED proxied
    BY <1>4 DEF Process!serving
  <2> QED
    BY <1>4, <2>1, PrepareKeeps, LaunchKeeps, StepKeeps, TakesKeeps, LooksKeeps, WaitsKeeps, EmptyKeeps,
       KillsKeeps DEF Process!serving
<1>5. CASE Process!calling
  BY <1>5, ReadKeeps, StepKeeps DEF Process!calling
<1> QED BY <1>1, <1>2, <1>3, <1>4, <1>5 DEF Process!Next

\* The invariant says what the run checks.
LEMMA ProcReadsInOrder == ProcInv => ReadInOrder
<1> SUFFICES ASSUME ProcInv PROVE ReadInOrder
  OBVIOUS
<1>1. /\ agentIn \in Seq(Bytes) /\ inFifo \in Seq(Bytes)
      /\ agentOut \in Seq(Bytes) /\ sent \in Seq(Bytes)
      /\ Len(agentIn) \in Nat /\ Len(inFifo) \in Nat
  BY DEF ProcInv, ProcTypes
<1>2. Process!TypeOK
  <2>1. reading.timeouts \in 0 .. retryCount + 1
    BY SizesOfProgram DEF ProcInv, ProcTypes
  <2> QED BY <2>1 DEF ProcInv, ProcTypes, Ways, Process!TypeOK
<1>3. Process!ReadInOrder
  BY <1>1, BytePrefix DEF ProcInv, OutInv, Process!ReadInOrder
<1>4. ASSUME ~repeated PROVE Process!IsPrefix(agentIn \o inFifo, Content)
  <2>1. PICK s : s = agentIn \o inFifo
    OBVIOUS
  <2>2. /\ s \in Seq(Bytes) /\ Len(s) = Len(agentIn) + Len(inFifo)
        /\ \A i \in 1 .. Len(agentIn) : s[i] = agentIn[i]
        /\ \A i \in 1 .. Len(inFifo) : s[Len(agentIn) + i] = inFifo[i]
    BY <1>1, <2>1, ByteConcat
  <2>3. ASSUME NEW i \in 1 .. Len(s) PROVE s[i] = Content[i]
    <3>1. CASE i \in 1 .. Len(agentIn)
      BY <1>4, <2>2, <3>1 DEF ProcInv, SourceInv
    <3>2. CASE i \notin 1 .. Len(agentIn)
      <4>1. PICK k \in 1 .. Len(inFifo) : i = Len(agentIn) + k
        <5>1. i - Len(agentIn) \in 1 .. Len(inFifo) /\ i = Len(agentIn) + (i - Len(agentIn))
          BY <1>1, <2>2, <3>2
        <5> QED BY <5>1
      <4> QED BY <1>4, <2>2, <4>1 DEF ProcInv, SourceInv
    <3> QED BY <3>1, <3>2
  <2>4. Len(s) <= Len(Content)
    BY <1>4, <2>2 DEF ProcInv, SourceInv, InLen
  <2> QED BY <2>1, <2>2, <2>3, <2>4, SizesOfProgram, BytePrefix
<1> QED BY <1>2, <1>3, <1>4 DEF ReadInOrder, Process!SourceInOrder

\* And what it says of the end.
LEMMA ProcEndsWhole == ProcInv => EndIsWhole
<1> SUFFICES ASSUME ProcInv PROVE EndIsWhole
  OBVIOUS
<1>1. ASSUME told = "end", ~raced PROVE sent = agentOut /\ sent = Content
  <2>1. Len(sent) = Len(agentOut) /\ Whole
    BY <1>1 DEF ProcInv, ToldInv
  <2>2. sent = agentOut
    BY <2>1, ByteEqual DEF ProcInv, ProcTypes, OutInv
  <2> QED BY <2>1, <2>2 DEF Whole
<1>2. Process!NothingIsLeft
  BY DEF ProcInv, LeftInv, Process!NothingIsLeft, Process!Alive
<1> QED BY <1>1, <1>2 DEF EndIsWhole, Process!EndIsWhole

-------------------------------------------------------------------------------
(* One of the three runs, the others stay as they began.                   *)

MCInv ==
    /\ handler = "buffered" => IInv
    /\ handler = "curl" => CurlInv
    /\ CurlRightBytes
    /\ ProcInv

\* All three begin well.
LEMMA AllStart == MCInit => MCInv
<1> SUFFICES ASSUME MCInit PROVE MCInv
  OBVIOUS
<1>1. Init /\ Curl!Init /\ Process!Init
  BY DEF MCInit
<1>2. CurlInv /\ ProcInv
  BY <1>1, CurlStarts, ProcStarts
<1> QED BY <1>1, <1>2, InitKeeps, CurlIsRight DEF MCInv

\* The buffer shares its ring with CurlIOHandler, of which nothing else moves.
LEMMA RingKeepsTypes ==
    ASSUME CurlRightBytes, IInv', UNCHANGED curlOnly
    PROVE  CurlRightBytes'
<1>1. /\ UNCHANGED <<cells, doSeek, seekTo, isFresh, resume, next, client, download, pos>>
      /\ UNCHANGED <<right, flaws, seeks>>
  BY DEF curlOnly
<1>2. TypeOK'
  BY DEF IInv
<1>3. Curl!TypeOK'
  <2>1. /\ startIndex' \in Curl!Cells /\ endIndex' \in Curl!Cells /\ posRead' \in Int
        /\ empty' \in BOOLEAN /\ waitForInitialFillSize' \in BOOLEAN /\ eof' \in BOOLEAN
        /\ readError' \in BOOLEAN /\ threadShutdown' \in BOOLEAN
    BY <1>2, SizesAre DEF TypeOK
  <2> QED BY <1>1, <2>1 DEF CurlRightBytes, Curl!TypeOK
<1>4. Curl!RightBytes'
  BY <1>1 DEF CurlRightBytes, Curl!RightBytes
<1> QED BY <1>3, <1>4 DEF CurlRightBytes

\* Nothing of CurlIOHandler moves.
LEMMA CurlRests ==
    ASSUME UNCHANGED <<vars, curlOnly>>
    PROVE  UNCHANGED Curl!vars
<1>1. /\ UNCHANGED <<cells, doSeek, seekTo, isFresh, resume, next, client, download, pos>>
      /\ UNCHANGED <<right, flaws, seeks>>
  BY DEF curlOnly
<1>2. UNCHANGED <<indices, flags, posRead>>
  BY DEF vars, caller
<1> QED
  BY <1>1, <1>2 DEF indices, flags, Curl!vars, Curl!ring, Curl!flags, Curl!ended, Curl!request,
                    Curl!transfer, Curl!seen

\* A step of one keeps the invariants of all.
LEMMA AllKeep == MCInv /\ [MCNext]_<<handler, vars, curlOnly, processOnly>> => MCInv'
<1> SUFFICES ASSUME MCInv, [MCNext]_<<handler, vars, curlOnly, processOnly>>
             PROVE  MCInv'
  OBVIOUS
<1>1. handler' = handler
  BY DEF MCNext
<1>2. ProcInv'
  <2>1. [Process!Next]_processOnly
    BY DEF MCNext
  <2> QED BY <2>1, ProcKeeps DEF MCInv
<1>3. CASE UNCHANGED <<vars, curlOnly>>
  <2>1. handler = "buffered" => IInv'
    BY <1>3, NextKeeps DEF MCInv
  <2>2. handler = "curl" => CurlInv'
    BY <1>3, CurlRests, CurlKeeps DEF MCInv
  <2>3. CurlRightBytes'
    <3>1. UNCHANGED Curl!vars
      BY <1>3, CurlRests
    <3> QED BY <3>1 DEF MCInv, CurlRightBytes, Curl!TypeOK, Curl!RightBytes, Curl!vars, Curl!ring,
                        Curl!flags, Curl!ended, Curl!request, Curl!transfer, Curl!seen
  <2> QED BY <1>1, <1>2, <2>1, <2>2, <2>3 DEF MCInv
<1>4. CASE handler = "buffered" /\ Next /\ UNCHANGED curlOnly
  <2>1. IInv'
    BY <1>4, NextKeeps DEF MCInv
  <2>2. CurlRightBytes'
    BY <1>4, <2>1, RingKeepsTypes DEF MCInv
  <2> QED BY <1>1, <1>2, <1>4, <2>1, <2>2 DEF MCInv
<1>5. CASE handler = "curl" /\ Curl!Next
  <2>1. CurlInv'
    BY <1>5, CurlKeeps DEF MCInv
  <2>2. CurlInv' => CurlRightBytes'
    BY CurlIsRight, PTL
  <2> QED BY <1>1, <1>2, <1>5, <2>1, <2>2 DEF MCInv
<1> QED BY <1>3, <1>4, <1>5 DEF MCNext

LEMMA AllHold == MCSpec => []MCInv
BY AllStart, AllKeep, PTL DEF MCSpec

\* Unless a seek was one of those SpoilTheStream names (ignored, unprocessed,
\* backwards within the buffer, ...), read of CurlIOHandler returns the bytes of
\* the position the caller has sought to or read on to, and tells the end only
\* there, whatever the content's length and the pieces it comes in; and the
\* indices stay inside the ring.
THEOREM CurlServesRightBytes == MCSpec => []CurlRightBytes
<1>1. MCInv => CurlRightBytes
  BY DEF MCInv
<1> QED BY <1>1, AllHold, PTL

\* The program gets the bytes of the source in their order, each once, until
\* IOHandlerChainer repeats a part of its buffer; and read of ProcessIOHandler
\* returns the bytes the program writes in theirs, over FIFOs of any capacity
\* and for any buffer of the chainer and of the caller.
THEOREM ProcessReadsInOrder == MCSpec => []ReadInOrder
<1>1. MCInv => ReadInOrder
  BY ProcReadsInOrder DEF MCInv
<1> QED BY <1>1, AllHold, PTL

\* Where read of ProcessIOHandler tells the end the client has had all the
\* program made of the whole source, unless the program ended between a timeout
\* and the look at it; and a closed handler leaves no program, thread or FIFO.
THEOREM ProcessEndIsWhole == MCSpec => []EndIsWhole
<1>1. MCInv => EndIsWhole
  BY ProcEndsWhole DEF MCInv
<1> QED BY <1>1, AllHold, PTL
==============================================================================
