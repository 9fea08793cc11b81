---------------------------- MODULE RequestProofs ----------------------------
(***************************************************************************)
(* Theorems about the requests for content, for any number of them, any    *)
(* size of the content, of a read and of a packet, and any changes of the  *)
(* files: the bytes come in their order, and the end when they are whole.  *)
(* And theorems about the clients, for any of them, any profiles and any   *)
(* bounds: each is served by its own profile and has one entry.            *)
(***************************************************************************)
EXTENDS MCRequests, Sequences, FiniteSetTheorems, WellFoundedInduction, TLAPS

Kinds == {"file", "track", "art", "zip", "steady", "live"}

\* a byte is the number of its place in its content
Byte == Int

RequestType ==
    [at : {"idle", "open", "archived", "stuck", "seek", "read", "close", "closed"},
     kind : Kinds, length : Int, range : {0, 1}, seen : Int, handle : Int, pos : Nat,
     extra : Seq(Byte), eof : BOOLEAN, cut : BOOLEAN, again : 0 .. 2, out : Seq(Byte),
     told : {"none", "refused", "end", "error", "complete", "left"}]

-------------------------------------------------------------------------------
(* The invariant of one request q.                                         *)

\* what a request is served from
Whole(q) == IF q.kind = "zip" THEN Size ELSE Content!SizeOf(q.handle)

\* nothing was read
Fresh(q) == q.pos = 0 /\ q.out = <<>> /\ q.extra = <<>> /\ ~q.eof /\ q.again = 0

\* what GetInfo has announced
Announcement(q) ==
    /\ q.kind \in {"file", "track", "art"} => q.length = Content!SizeOf(q.seen) /\ q.range < q.length
    /\ q.kind = "steady" => q.length = Content!SizeOf(q.seen) - 1 /\ q.range < q.length
    /\ q.kind \in {"zip", "live"} => q.length = Content!Unknown /\ q.range = 0

\* what was read was sent, but for what is kept of it; it is sent again when
\* the end was reached
Reads(q) ==
    /\ q.pos \in q.range .. Whole(q)
    /\ Len(q.out) = q.pos - q.range - (IF q.again = 0 THEN Len(q.extra) ELSE 0)
    /\ q.out = Content!Bytes(q.range, Len(q.out))
    /\ q.extra = Content!Bytes(q.pos - Len(q.extra), Len(q.extra)) /\ Len(q.extra) < Packet
    /\ q.kind # "live" => q.extra = <<>> /\ ~q.eof
    /\ q.eof => q.pos = Whole(q) \/ q.cut
    /\ q.again # 0 => q.eof /\ q.extra # <<>> /\ Len(q.extra) < Length
    /\ q.length # Content!Unknown => Len(q.out) <= q.length - q.range

\* the end is told of the whole content, or of what a failure has cut it to
Ended(q) ==
    /\ \/ Whole(q) - q.pos <= (IF q.kind = "steady" THEN 1 ELSE 0)
       \/ q.kind = "live" /\ q.cut
    /\ q.extra = <<>> /\ Len(q.out) = q.pos - q.range
    /\ q.length # Content!Unknown => q.handle # q.seen
Done(q) ==
    /\ q.pos <= Size /\ Len(q.extra) < Packet
    /\ q.out = Content!Bytes(q.range, Len(q.out)) /\ Len(q.out) <= Size - q.range
    /\ q.told = "end" => Ended(q)

Sound(q) ==
    /\ q.at = "idle" => q.range = 0 /\ q.length = 0
    /\ q.at # "idle" => Announcement(q)
    /\ q.at \in {"idle", "open", "archived", "stuck", "seek"} => Fresh(q)
    /\ q.at \notin {"close", "closed"} => q.told = "none"
    /\ q.at = "archived" => q.kind = "zip"
    /\ q.at = "read" => Reads(q)
    /\ q.at \in {"close", "closed"} => Done(q)

-------------------------------------------------------------------------------
(* The invariant of the archives.                                          *)

HasArchive(q) == q.kind = "zip" /\ q.at \in {"archived", "seek", "read", "close"}
Closed(q) == q.kind = "zip" /\ q.at = "closed"
Lost(q, file) == q.kind = "zip" /\ (q.told = "refused" \/ (q.at = "archived" /\ file = 0))
ArchiveInv ==
    /\ archive \in Nat /\ archives \in Nat /\ archive <= archives
    /\ archive # 0 => \E r \in Requests : HasArchive(req[r])
    /\ shutdown \in BOOLEAN
    /\ \A r \in Requests : Lost(req[r], archive) /\ ~shutdown =>
          \E other \in Requests \ {r} : Closed(req[other])

Typed == req \in [Requests -> RequestType]
AllSound == \A r \in Requests : Sound(req[r])
FileInv ==
    /\ version \in Nat /\ changes \in Nat /\ alias \in {"own", "gone", "other"}
    /\ Typed /\ AllSound /\ ArchiveInv

USE ContentAssumption

-------------------------------------------------------------------------------
(* Bytes.                                                                  *)

LEMMA BytesAre ==
    ASSUME NEW a \in Int, NEW n \in Int
    PROVE  /\ Content!Bytes(a, n) \in Seq(Byte)
           /\ n >= 0 => Len(Content!Bytes(a, n)) = n
           /\ n <= 0 => Content!Bytes(a, n) = <<>>
           /\ \A i \in 1 .. n : Content!Bytes(a, n)[i] = a + i
<1>1. \A i \in 1 .. n : a + i \in Byte
  BY DEF Byte
<1>2. CASE n >= 0
  BY <1>1, <1>2 DEF Content!Bytes
<1>3. CASE n < 0
  BY <1>3 DEF Content!Bytes
<1> QED
  BY <1>2, <1>3

LEMMA BytesCount ==
    ASSUME NEW a \in Int, NEW n \in Nat
    PROVE  Content!Bytes(a, n) \in Seq(Byte) /\ Len(Content!Bytes(a, n)) = n
<1>1. n \in Int /\ n >= 0
  OBVIOUS
<1> QED
  BY <1>1, BytesAre

LEMMA ByteConcat ==
    ASSUME NEW s \in Seq(Byte), NEW t \in Seq(Byte)
    PROVE  /\ s \o t \in Seq(Byte) /\ Len(s \o t) = Len(s) + Len(t)
           /\ \A i \in 1 .. Len(s) : (s \o t)[i] = s[i]
           /\ \A i \in 1 .. Len(t) : (s \o t)[Len(s) + i] = t[i]
OBVIOUS

LEMMA ByteSub ==
    ASSUME NEW s \in Seq(Byte), NEW m \in Nat, NEW n \in Nat, m + n <= Len(s)
    PROVE  /\ SubSeq(s, m + 1, m + n) \in Seq(Byte) /\ Len(SubSeq(s, m + 1, m + n)) = n
           /\ \A i \in 1 .. n : SubSeq(s, m + 1, m + n)[i] = s[m + i]
<1>1. /\ SubSeq(s, m + 1, m + n) \in Seq(Byte)
      /\ Len(SubSeq(s, m + 1, m + n)) = IF m + 1 <= m + n THEN m + n - (m + 1) + 1 ELSE 0
  OBVIOUS
<1>2. Len(SubSeq(s, m + 1, m + n)) = n
  BY <1>1
<1>3. ASSUME NEW i \in 1 .. n PROVE SubSeq(s, m + 1, m + n)[i] = s[m + i]
  OBVIOUS
<1> QED
  BY <1>1, <1>2, <1>3

LEMMA ByteEqual ==
    ASSUME NEW s \in Seq(Byte), NEW t \in Seq(Byte), Len(s) = Len(t),
           \A i \in 1 .. Len(s) : s[i] = t[i]
    PROVE  s = t
OBVIOUS

\* Bytes that follow each other are one run of bytes.
LEMMA BytesJoin ==
    ASSUME NEW a \in Int, NEW m \in Nat, NEW n \in Nat
    PROVE  Content!Bytes(a, m) \o Content!Bytes(a + m, n) = Content!Bytes(a, m + n)
<1> DEFINE s == Content!Bytes(a, m)
           t == Content!Bytes(a + m, n)
           u == Content!Bytes(a, m + n)
<1>1. s \in Seq(Byte) /\ t \in Seq(Byte) /\ u \in Seq(Byte) /\ Len(s) = m /\ Len(t) = n /\ Len(u) = m + n
  BY BytesAre
<1>2. /\ \A i \in 1 .. m : s[i] = a + i
      /\ \A i \in 1 .. n : t[i] = a + m + i
      /\ \A i \in 1 .. m + n : u[i] = a + i
  BY BytesAre
<1> HIDE DEF s, t, u
<1>3. s \o t \in Seq(Byte) /\ Len(s \o t) = m + n
  BY <1>1, ByteConcat
<1>4. ASSUME NEW i \in 1 .. m + n
      PROVE  (s \o t)[i] = u[i]
  <2>1. CASE i <= m
    <3>1. (s \o t)[i] = s[i]
      BY <1>1, <2>1, ByteConcat
    <3> QED
      BY <1>2, <2>1, <3>1
  <2>2. CASE i > m
    <3>1. PICK j \in 1 .. n : i = m + j
      <4>1. i - m \in 1 .. n /\ i = m + (i - m)
        BY <2>2
      <4> QED
        BY <4>1
    <3>2. (s \o t)[m + j] = t[j]
      BY <1>1, ByteConcat
    <3>3. t[j] = a + m + j /\ u[i] = a + i
      BY <1>2
    <3> QED
      BY <3>1, <3>2, <3>3
  <2>3. i <= m \/ i > m
    OBVIOUS
  <2> QED
    BY <2>1, <2>2, <2>3, Zenon
<1>5. s \o t = u
  BY <1>1, <1>3, <1>4, ByteEqual
<1> QED
  BY <1>5 DEF s, t, u

\* Parts of a run of bytes.
LEMMA BytesPart ==
    ASSUME NEW a \in Int, NEW n \in Nat, NEW k \in 0 .. n
    PROVE  /\ SubSeq(Content!Bytes(a, n), 1, k) = Content!Bytes(a, k)
           /\ SubSeq(Content!Bytes(a, n), k + 1, n) = Content!Bytes(a + k, n - k)
<1> DEFINE s == Content!Bytes(a, n)
           t == Content!Bytes(a, k)
           u == Content!Bytes(a + k, n - k)
<1>1. s \in Seq(Byte) /\ t \in Seq(Byte) /\ u \in Seq(Byte) /\ Len(s) = n /\ Len(t) = k /\ Len(u) = n - k
  <2>1. /\ n >= 0 /\ k \in Int /\ k >= 0
        /\ a + k \in Int /\ n - k \in Int /\ n - k >= 0
    OBVIOUS
  <2>2. s \in Seq(Byte) /\ Len(s) = n
    BY <2>1, BytesAre
  <2>3. t \in Seq(Byte) /\ Len(t) = k
    BY <2>1, BytesAre
  <2>4. u \in Seq(Byte) /\ Len(u) = n - k
    BY <2>1, BytesAre
  <2> QED
    BY <2>2, <2>3, <2>4
<1>2. /\ \A i \in 1 .. n : s[i] = a + i
      /\ \A i \in 1 .. k : t[i] = a + i
      /\ \A i \in 1 .. n - k : u[i] = a + k + i
  BY BytesAre
<1> HIDE DEF s, t, u
<1>3. SubSeq(s, 1, k) = t
  <2>1. /\ SubSeq(s, 0 + 1, 0 + k) \in Seq(Byte) /\ Len(SubSeq(s, 0 + 1, 0 + k)) = k
        /\ \A i \in 1 .. k : SubSeq(s, 0 + 1, 0 + k)[i] = s[0 + i]
    BY <1>1, ByteSub
  <2>2. 0 + 1 = 1 /\ 0 + k = k
    OBVIOUS
  <2>3. \A i \in 1 .. k : SubSeq(s, 1, k)[i] = t[i]
    BY <1>2, <2>1, <2>2
  <2> QED
    BY <1>1, <2>1, <2>2, <2>3, ByteEqual
<1>4. SubSeq(s, k + 1, n) = u
  <2>1. PICK j \in Nat : j = n - k
    OBVIOUS
  <2>2. /\ SubSeq(s, k + 1, k + j) \in Seq(Byte) /\ Len(SubSeq(s, k + 1, k + j)) = j
        /\ \A i \in 1 .. j : SubSeq(s, k + 1, k + j)[i] = s[k + i]
    BY <1>1, <2>1, ByteSub
  <2>3. k + j = n
    BY <2>1
  <2>4. \A i \in 1 .. j : SubSeq(s, k + 1, n)[i] = u[i]
    BY <1>2, <2>1, <2>2, <2>3
  <2> QED
    BY <1>1, <2>1, <2>2, <2>3, <2>4, ByteEqual
<1> QED
  BY <1>3, <1>4 DEF s, t, u

\* The first bytes are a prefix.
LEMMA BytesPrefix ==
    ASSUME NEW a \in Int, NEW n \in Nat, NEW k \in 0 .. n
    PROVE  Content!IsPrefix(Content!Bytes(a, k), Content!Bytes(a, n))
<1>1. /\ Content!Bytes(a, k) \in Seq(Byte) /\ Len(Content!Bytes(a, k)) = k
      /\ Content!Bytes(a, n) \in Seq(Byte) /\ Len(Content!Bytes(a, n)) = n
  <2>1. k \in Int /\ k >= 0 /\ n \in Int /\ n >= 0
    OBVIOUS
  <2> QED
    BY <2>1, BytesAre
<1>2. SubSeq(Content!Bytes(a, k), 1, k) = Content!Bytes(a, k)
  BY BytesPart
<1>3. SubSeq(Content!Bytes(a, n), 1, k) = Content!Bytes(a, k)
  BY BytesPart
<1> QED
  BY <1>1, <1>2, <1>3 DEF Content!IsPrefix

\* The least of two numbers.
LEMMA LeastOfTwo ==
    ASSUME NEW m \in Int, NEW n \in Int
    PROVE  /\ Content!Min({m, n}) \in {m, n}
           /\ Content!Min({m, n}) <= m /\ Content!Min({m, n}) <= n
<1> DEFINE P(x) == x \in {m, n} /\ \A y \in {m, n} : x <= y
<1>1. Content!Min({m, n}) = CHOOSE x : P(x)
  BY DEF Content!Min
<1>2. \E x : P(x)
  <2>1. CASE m <= n
    BY <2>1
  <2>2. CASE n < m
    BY <2>2
  <2> QED
    BY <2>1, <2>2
<1>3. P(CHOOSE x : P(x))
  BY <1>2
<1> QED
  BY <1>1, <1>3
-------------------------------------------------------------------------------
(* What a callback makes of a request x.                                   *)

LEMMA SizesAre ==
    ASSUME NEW x \in RequestType
    PROVE  /\ Whole(x) \in Nat /\ Whole(x) <= Size
           /\ Announcement(x) => x.range <= Whole(x)
<1>1. Content!SizeOf(x.handle) \in {Size, Size - 1} /\ Content!SizeOf(x.seen) \in {Size, Size - 1}
  BY DEF Content!SizeOf
<1>2. Whole(x) \in {Size, Size - 1}
  BY <1>1 DEF Whole
<1>3. x.range \in {0, 1} /\ x.length \in Int /\ x.kind \in Kinds
  BY DEF RequestType
<1>4. ASSUME Announcement(x)
      PROVE  x.range <= Whole(x)
  <2>1. CASE x.range = 0
    BY <1>2, <2>1
  <2>2. CASE x.range = 1
    <3>1. x.kind \in {"file", "track", "art", "steady"}
      BY <1>3, <1>4, <2>2 DEF Announcement, Kinds
    <3>2. Size >= 2
      BY <1>1, <1>3, <1>4, <2>2, <3>1 DEF Announcement
    <3> QED
      BY <1>2, <2>2, <3>2
  <2> QED
    BY <1>3, <2>1, <2>2
<1> QED
  BY <1>2, <1>4

\* what was read is what was sent and what is kept
LEMMA ReadsAre ==
    ASSUME NEW x \in RequestType, Reads(x)
    PROVE  /\ Len(x.out) \in Nat /\ Len(x.extra) \in Nat /\ x.pos \in Nat /\ x.range \in {0, 1}
           /\ x.range <= x.pos /\ x.pos <= Whole(x) /\ Whole(x) - x.pos \in Nat
           /\ Len(x.out) <= x.pos - x.range
           /\ x.extra = <<>> => x.again = 0 /\ x.pos = x.range + Len(x.out)
<1>1. x.out \in Seq(Byte) /\ x.extra \in Seq(Byte) /\ x.pos \in Nat /\ x.range \in {0, 1} /\ x.again \in 0 .. 2
  BY DEF RequestType
<1>2. Len(x.out) \in Nat /\ Len(x.extra) \in Nat /\ (x.extra = <<>> => Len(x.extra) = 0)
  BY <1>1
<1>3. Whole(x) \in Nat
  BY SizesAre
<1> QED
  BY <1>1, <1>2, <1>3 DEF Reads

\* a request that is read from ends
LEMMA EndsSound ==
    ASSUME NEW x \in RequestType, Sound(x), x.at = "read",
           NEW told \in {"end", "error", "complete", "left"}, told = "end" => Ended(x)
    PROVE  /\ [x EXCEPT !.at = "close", !.told = told] \in RequestType
           /\ Sound([x EXCEPT !.at = "close", !.told = told])
<1> DEFINE q == [x EXCEPT !.at = "close", !.told = told]
<1>1. q \in RequestType
  BY DEF RequestType
<1>2. /\ q.at = "close" /\ q.told = told /\ q.kind = x.kind /\ q.length = x.length
      /\ q.range = x.range /\ q.seen = x.seen /\ q.handle = x.handle /\ q.pos = x.pos
      /\ q.extra = x.extra /\ q.out = x.out /\ q.cut = x.cut
  BY DEF RequestType
<1>3. Reads(x) /\ Announcement(x)
  BY DEF Sound
<1> HIDE DEF q
<1>4. Announcement(q)
  BY <1>2, <1>3 DEF Announcement
<1>5. told = "end" => Ended(q)
  BY <1>2 DEF Ended, Whole
<1>6. Whole(x) \in Nat /\ Whole(x) <= Size
  BY SizesAre
<1>7. Done(q)
  <2>1. q.pos <= Size /\ Len(q.out) <= Size - q.range
    BY <1>2, <1>3, <1>6, ReadsAre
  <2>2. Len(q.extra) < Packet /\ q.out = Content!Bytes(q.range, Len(q.out))
    BY <1>2, <1>3 DEF Reads
  <2> QED
    BY <1>2, <1>5, <2>1, <2>2 DEF Done
<1>8. Sound(q)
  BY <1>2, <1>4, <1>7 DEF Sound
<1> QED
  BY <1>1, <1>8 DEF q

\* bytes are sent from where the handler is
LEMMA SendsSound ==
    ASSUME NEW x \in RequestType, Sound(x), x.at = "read", x.kind # "live",
           NEW n \in Nat, n <= Whole(x) - x.pos,
           x.length # Content!Unknown => n <= x.length - x.range - Len(x.out)
    PROVE  /\ [x EXCEPT !.pos = x.pos + n, !.out = x.out \o Content!Bytes(x.pos, n)] \in RequestType
           /\ Sound([x EXCEPT !.pos = x.pos + n, !.out = x.out \o Content!Bytes(x.pos, n)])
<1> DEFINE out == x.out \o Content!Bytes(x.pos, n)
           q == [x EXCEPT !.pos = x.pos + n, !.out = out]
<1>1. Reads(x) /\ Announcement(x)
  BY DEF Sound
<1>2. x.extra = <<>> /\ ~x.eof /\ x.again = 0
  BY <1>1, ReadsAre DEF Reads
<1>3. PICK l \in Nat : l = Len(x.out)
  BY <1>1, ReadsAre
<1>4. x.pos = x.range + l /\ x.out = Content!Bytes(x.range, l) /\ x.range \in Int /\ x.pos \in Nat
  BY <1>1, <1>2, <1>3, ReadsAre DEF Reads
<1>5. out = Content!Bytes(x.range, l + n)
  <2>1. Content!Bytes(x.range, l) \o Content!Bytes(x.range + l, n) = Content!Bytes(x.range, l + n)
    BY <1>4, BytesJoin, Zenon
  <2> QED
    BY <1>4, <2>1, Zenon
<1>6. out \in Seq(Byte) /\ Len(out) = l + n
  <2>1. l + n \in Nat
    OBVIOUS
  <2> QED
    BY <1>4, <1>5, <2>1, BytesCount, Zenon
<1>7. x.pos + n \in Nat
  BY <1>4
<1> HIDE DEF out
<1>8. q \in RequestType
  BY <1>6, <1>7 DEF RequestType
<1>9. /\ q.at = x.at /\ q.told = x.told /\ q.kind = x.kind /\ q.length = x.length
      /\ q.range = x.range /\ q.seen = x.seen /\ q.handle = x.handle /\ q.pos = x.pos + n
      /\ q.extra = x.extra /\ q.out = out /\ q.eof = x.eof /\ q.cut = x.cut /\ q.again = x.again
  BY DEF RequestType
<1> HIDE DEF q
<1>10. Announcement(q)
  BY <1>1, <1>9 DEF Announcement
<1>11. Whole(q) = Whole(x)
  BY <1>9 DEF Whole
<1>12. Reads(q)
  <2>1. q.pos \in q.range .. Whole(q)
    BY <1>4, <1>9, <1>11, SizesAre
  <2>2. q.out = Content!Bytes(q.range, Len(q.out)) /\ Len(q.out) = l + n
    BY <1>5, <1>6, <1>9
  <2>3. q.extra = Content!Bytes(q.pos - Len(q.extra), Len(q.extra)) /\ Len(q.extra) = 0 /\ Len(q.extra) < Packet
    <3>1. Len(<<>>) = 0 /\ q.extra = <<>> /\ q.pos - 0 = q.pos /\ q.pos \in Int /\ 0 \in Int
      BY <1>2, <1>4, <1>9
    <3>2. Content!Bytes(q.pos, 0) = <<>>
      <4>1. \A a \in Int : Content!Bytes(a, 0) = <<>>
        BY BytesAre
      <4> QED
        BY <3>1, <4>1, Zenon
    <3> QED
      BY <3>1, <3>2
  <2>4. Len(q.out) = q.pos - q.range - (IF q.again = 0 THEN Len(q.extra) ELSE 0)
    BY <1>2, <1>4, <1>9, <2>2, <2>3
  <2>5. q.length # Content!Unknown => Len(q.out) <= q.length - q.range
    <3>1. q.length \in Int /\ q.range \in Int
      BY <1>8 DEF RequestType
    <3> QED
      BY <1>3, <1>9, <2>2, <3>1
  <2> QED
    BY <1>2, <1>9, <2>1, <2>2, <2>3, <2>4, <2>5 DEF Reads
<1>13. Sound(q)
  BY <1>9, <1>10, <1>12 DEF Sound
<1> QED
  BY <1>8, <1>13 DEF q, out
\* The state of a request for a transcoding that is read from: out is sent,
\* and extra is kept of the bytes that are made.
LiveReads(x, o, e) ==
    /\ o \in Nat /\ e \in Nat /\ x.pos \in Nat
    /\ o = Len(x.out) /\ e = Len(x.extra)
    /\ x.out = Content!Bytes(0, o) /\ x.extra = Content!Bytes(x.pos - e, e)
    /\ x.again = 0 => o = x.pos - e
    /\ x.again # 0 => o = x.pos /\ e < Length /\ x.extra # <<>>
    /\ x.pos <= Whole(x) /\ e < Packet
    /\ x.eof => x.pos = Whole(x) \/ x.cut
    /\ x.again # 0 => x.eof
    /\ x.extra = <<>> => e = 0

LEMMA LiveReadsAre ==
    ASSUME NEW x \in RequestType, x.kind = "live", Sound(x), x.at = "read"
    PROVE  \E o, e \in Nat : LiveReads(x, o, e)
<1>1. Reads(x) /\ x.range = 0
  BY DEF Sound, Announcement
<1>2. x.out \in Seq(Byte) /\ x.extra \in Seq(Byte) /\ x.pos \in Nat
  BY DEF RequestType
<1>3. PICK o \in Nat : o = Len(x.out)
  BY <1>2
<1>4. PICK e \in Nat : e = Len(x.extra) /\ (x.extra = <<>> => e = 0)
  BY <1>2
<1>5. x.pos <= Whole(x) /\ Whole(x) \in Nat
  BY <1>1, ReadsAre, SizesAre
<1>6. /\ x.out = Content!Bytes(0, o) /\ x.extra = Content!Bytes(x.pos - e, e)
      /\ e < Packet /\ (x.eof => x.pos = Whole(x) \/ x.cut)
      /\ x.again # 0 => x.eof /\ e < Length /\ x.extra # <<>>
  BY <1>1, <1>3, <1>4 DEF Reads
<1>7. o = x.pos - (IF x.again = 0 THEN e ELSE 0)
  BY <1>1, <1>2, <1>3, <1>4 DEF Reads
<1> QED
  BY <1>2, <1>3, <1>4, <1>5, <1>6, <1>7 DEF LiveReads
\* and what it was read to is such a state
LEMMA LiveReadsSound ==
    ASSUME NEW q \in RequestType, q.kind = "live", q.at = "read", q.told = "none",
           Announcement(q), NEW o \in Nat, NEW e \in Nat, LiveReads(q, o, e)
    PROVE  Sound(q)
<1>1. q.range = 0 /\ q.length = Content!Unknown
  BY DEF Announcement
<1>2. Whole(q) \in Nat /\ q.pos \in Nat /\ q.pos <= Whole(q)
  BY SizesAre DEF LiveReads
<1>3. q.pos \in q.range .. Whole(q)
  BY <1>1, <1>2
<1>4. Len(q.out) = q.pos - q.range - (IF q.again = 0 THEN Len(q.extra) ELSE 0)
  BY <1>1, <1>2 DEF LiveReads
<1>5. Reads(q)
  BY <1>1, <1>3, <1>4 DEF Reads, LiveReads
<1> QED
  BY <1>5 DEF Sound

\* what is kept fills a read
LEMMA KeptSound ==
    ASSUME NEW x \in RequestType, x.kind = "live", Sound(x), x.at = "read",
           Len(x.extra) >= Length
    PROVE  LET q == [x EXCEPT !.out = x.out \o SubSeq(x.extra, 1, Length),
                              !.extra = SubSeq(x.extra, Length + 1, Len(x.extra))]
           IN q \in RequestType /\ Sound(q)
<1> DEFINE out == x.out \o SubSeq(x.extra, 1, Length)
           extra == SubSeq(x.extra, Length + 1, Len(x.extra))
           q == [x EXCEPT !.out = out, !.extra = extra]
<1>1. PICK o, e \in Nat : LiveReads(x, o, e)
  BY LiveReadsAre
<1>2. e >= Length /\ x.again = 0 /\ o = x.pos - e /\ Length \in 0 .. e /\ Length \in Nat
  BY <1>1 DEF LiveReads
<1>3. SubSeq(Content!Bytes(o, e), 1, Length) = Content!Bytes(o, Length)
  <2>1. o \in Int
    OBVIOUS
  <2> QED
    BY <1>2, <2>1, BytesPart, Zenon
<1>4. SubSeq(Content!Bytes(o, e), Length + 1, e) = Content!Bytes(o + Length, e - Length)
  <2>1. o \in Int
    OBVIOUS
  <2> QED
    BY <1>2, <2>1, BytesPart, Zenon
<1>5. Content!Bytes(0, o) \o Content!Bytes(0 + o, Length) = Content!Bytes(0, o + Length)
  <2>1. 0 \in Int
    OBVIOUS
  <2> QED
    BY <1>2, <2>1, BytesJoin, Zenon
<1>6. x.pos - e = o /\ 0 + o = o /\ o + Length = x.pos - (e - Length)
  BY <1>1, <1>2 DEF LiveReads
<1>7. out = Content!Bytes(0, o + Length) /\ extra = Content!Bytes(x.pos - (e - Length), e - Length)
  BY <1>1, <1>3, <1>4, <1>5, <1>6, Zenon DEF LiveReads
<1>8. PICK m, k \in Nat : m = o + Length /\ k = e - Length
  BY <1>2
<1>9. x.pos - k \in Int
  BY <1>1 DEF LiveReads
<1>10. out \in Seq(Byte) /\ extra \in Seq(Byte) /\ Len(out) = m /\ Len(extra) = k
  <2>1. 0 \in Int
    OBVIOUS
  <2>2. out = Content!Bytes(0, m) /\ extra = Content!Bytes(x.pos - k, k)
    BY <1>7, <1>8, Zenon
  <2> QED
    BY <1>9, <2>1, <2>2, BytesCount, Zenon
<1> HIDE DEF out, extra
<1>11. q \in RequestType
  BY <1>10 DEF RequestType
<1>12. /\ q.at = x.at /\ q.told = x.told /\ q.kind = x.kind /\ q.length = x.length
       /\ q.range = x.range /\ q.seen = x.seen /\ q.handle = x.handle /\ q.pos = x.pos
       /\ q.extra = extra /\ q.out = out /\ q.eof = x.eof /\ q.cut = x.cut /\ q.again = x.again
  BY DEF RequestType
<1> HIDE DEF q
<1>13. Announcement(q) /\ q.told = "none" /\ Whole(q) = Whole(x)
  BY <1>12 DEF Announcement, Sound, Whole
<1>14. q.extra = <<>> => k = 0
  BY <1>10, <1>12
<1>15. m = q.pos - k /\ k < Packet
  <2>1. e < Packet /\ q.pos = x.pos
    BY <1>1, <1>12 DEF LiveReads
  <2>2. m = q.pos - k
    BY <1>6, <1>8, <2>1
  <2>3. k < Packet
    BY <1>8, <2>1
  <2> QED
    BY <2>2, <2>3
<1>16. LiveReads(q, m, k)
  BY <1>1, <1>2, <1>7, <1>8, <1>10, <1>12, <1>13, <1>14, <1>15 DEF LiveReads
<1>17. Sound(q)
  BY <1>11, <1>12, <1>13, <1>16, LiveReadsSound
<1> QED
  BY <1>11, <1>17 DEF q, out, extra

\* what is kept is the rest, and is sent again for ever
LEMMA RestSound ==
    ASSUME NEW x \in RequestType, x.kind = "live", Sound(x), x.at = "read",
           Len(x.extra) < Length, x.eof, x.extra # <<>>
    PROVE  LET q == [x EXCEPT !.out = IF x.again = 0 THEN x.out \o x.extra ELSE x.out,
                              !.again = Content!Min({2, x.again + 1})]
           IN q \in RequestType /\ Sound(q)
<1> DEFINE out == IF x.again = 0 THEN x.out \o x.extra ELSE x.out
           again == Content!Min({2, x.again + 1})
           q == [x EXCEPT !.out = out, !.again = again]
<1>1. PICK o, e \in Nat : LiveReads(x, o, e)
  BY LiveReadsAre
<1>2. out = Content!Bytes(0, x.pos)
  <2>1. CASE x.again = 0
    <3>1. Content!Bytes(0, o) \o Content!Bytes(0 + o, e) = Content!Bytes(0, o + e)
      <4>1. 0 \in Int
        OBVIOUS
      <4> QED
        BY <4>1, BytesJoin, Zenon
    <3>2. 0 + o = x.pos - e /\ o + e = x.pos
      BY <1>1, <2>1 DEF LiveReads
    <3> QED
      BY <1>1, <2>1, <3>1, <3>2, Zenon DEF LiveReads
  <2>2. CASE x.again # 0
    BY <1>1, <2>2, Zenon DEF LiveReads
  <2> QED
    BY <2>1, <2>2
<1>3. x.again \in 0 .. 2 /\ x.again \in Int
  BY DEF RequestType
<1>4. again \in {2, x.again + 1} /\ again <= 2
  <2>1. PICK n \in Int : n = x.again + 1
    BY <1>3
  <2>2. 2 \in Int
    OBVIOUS
  <2>3. Content!Min({2, n}) \in {2, n} /\ Content!Min({2, n}) <= 2
    BY <2>1, <2>2, LeastOfTwo, Zenon
  <2> QED
    BY <2>1, <2>3, Zenon
<1>5. again \in 1 .. 2
  <2> HIDE DEF again
  <2> QED
    BY <1>3, <1>4
<1>6. x.pos \in Nat /\ out \in Seq(Byte) /\ Len(out) = x.pos
  <2>1. x.pos \in Nat /\ 0 \in Int
    BY <1>1 DEF LiveReads
  <2> QED
    BY <1>2, <2>1, BytesCount, ZenonT(30)
<1> HIDE DEF out, again
<1>7. q \in RequestType
  <2>1. again \in 0 .. 2
    BY <1>5
  <2> QED
    BY <1>6, <2>1 DEF RequestType
<1>8. /\ q.at = x.at /\ q.told = x.told /\ q.kind = x.kind /\ q.length = x.length
      /\ q.range = x.range /\ q.seen = x.seen /\ q.handle = x.handle /\ q.pos = x.pos
      /\ q.extra = x.extra /\ q.out = out /\ q.eof = x.eof /\ q.cut = x.cut /\ q.again = again
  BY DEF RequestType
<1> HIDE DEF q
<1>9. Announcement(q) /\ q.told = "none" /\ Whole(q) = Whole(x)
  BY <1>8 DEF Announcement, Sound, Whole
<1>10. again # 0
  BY <1>5
<1>11. LiveReads(q, x.pos, e)
  BY <1>1, <1>2, <1>6, <1>8, <1>9, <1>10 DEF LiveReads
<1>12. Sound(q)
  BY <1>6, <1>7, <1>8, <1>9, <1>11, LiveReadsSound
<1> QED
  BY <1>7, <1>12 DEF q, out, again
\* packets are made until there are enough bytes, or the end is reached
Encoded(x, made, wanted) ==
    x.extra \o Content!Bytes(x.pos, Content!Min({made, wanted}))
Filled(x, made, wanted, eof, cut) ==
    [x EXCEPT !.pos = x.pos + made, !.eof = eof, !.cut = cut, !.out = x.out \o Encoded(x, made, wanted),
              !.extra = Content!Bytes(x.pos + wanted, made - wanted),
              !.at = IF Encoded(x, made, wanted) = <<>> THEN "close" ELSE x.at,
              !.told = IF Encoded(x, made, wanted) = <<>> THEN "end" ELSE x.told]

\* there are enough, or what was made is the rest, or no more can be made
Stops(x, made, wanted, eof, cut) ==
    (made >= wanted \/ eof) /\ (eof => made = Whole(x) - x.pos \/ cut)

\* what is too much of a packet
Surplus(made, wanted) == IF made > wanted THEN made - wanted ELSE 0

LEMMA SurplusIs ==
    ASSUME NEW made \in Nat, NEW wanted \in Nat
    PROVE  /\ Surplus(made, wanted) \in Nat
           /\ made > wanted => Surplus(made, wanted) = made - wanted
           /\ made <= wanted => Surplus(made, wanted) = 0
BY DEF Surplus

LEMMA FilledSound ==
    ASSUME NEW x \in RequestType, x.kind = "live", Sound(x), x.at = "read",
           Len(x.extra) < Length, ~x.eof,
           NEW wanted \in Nat, wanted = Length - Len(x.extra),
           NEW made \in Nat, made <= Whole(x) - x.pos, made <= wanted + Packet - 1,
           NEW eof \in BOOLEAN, NEW cut \in BOOLEAN, Stops(x, made, wanted, eof, cut)
    PROVE  Filled(x, made, wanted, eof, cut) \in RequestType /\ Sound(Filled(x, made, wanted, eof, cut))
<1> DEFINE sent == Encoded(x, made, wanted)
           out == x.out \o sent
           extra == Content!Bytes(x.pos + wanted, made - wanted)
           q == Filled(x, made, wanted, eof, cut)
<1>1. PICK o, e \in Nat : LiveReads(x, o, e)
  BY LiveReadsAre
<1>2. /\ x.again = 0 /\ wanted = Length - e /\ wanted > 0
      /\ x.pos \in Nat /\ o = x.pos - e /\ x.pos <= Whole(x)
  BY <1>1 DEF LiveReads
<1>3. PICK n \in Nat : /\ n = Content!Min({made, wanted}) /\ n \in {made, wanted}
                       /\ n <= made /\ n <= wanted
  <2>1. made \in Int /\ wanted \in Int
    OBVIOUS
  <2>2. /\ Content!Min({made, wanted}) \in {made, wanted}
        /\ Content!Min({made, wanted}) <= made /\ Content!Min({made, wanted}) <= wanted
    BY <2>1, LeastOfTwo, Zenon
  <2> QED
    BY <2>2, Zenon
<1>4. 0 \in Int /\ o \in Int /\ 0 + o = o /\ o + e = x.pos /\ x.pos - e = o
  BY <1>2
<1>5. PICK s \in Nat : s = e + n
  OBVIOUS
<1>6. sent = Content!Bytes(o, s)
  <2>1. Content!Bytes(o, e) \o Content!Bytes(o + e, n) = Content!Bytes(o, e + n)
    <3>1. o \in Int /\ e \in Nat /\ n \in Nat
      BY <1>4
    <3> QED
      BY ONLY <3>1, BytesJoin, ZenonT(60)
  <2> QED
    BY <1>1, <1>3, <1>4, <1>5, <2>1, Zenon DEF Encoded, LiveReads
<1>7. sent \in Seq(Byte) /\ Len(sent) = s /\ (sent = <<>> <=> s = 0)
  <2>1. sent \in Seq(Byte) /\ Len(sent) = s
    BY <1>4, <1>6, BytesCount, Zenon
  <2> HIDE DEF sent
  <2> QED
    BY <2>1
<1>8. PICK m \in Nat : m = o + s
  OBVIOUS
<1>9. out = Content!Bytes(0, m)
  <2>1. Content!Bytes(0, o) \o Content!Bytes(0 + o, s) = Content!Bytes(0, o + s)
    <3>1. 0 \in Int
      OBVIOUS
    <3> QED
      BY <3>1, BytesJoin, Zenon
  <2> QED
    BY <1>1, <1>4, <1>6, <1>8, <2>1, Zenon DEF LiveReads
<1>10. out \in Seq(Byte) /\ Len(out) = m
  BY <1>4, <1>9, BytesCount, Zenon
<1>11. Whole(x) \in Nat
  BY SizesAre
<1>12. PICK p, k \in Nat : p = x.pos + made /\ k = Surplus(made, wanted)
  <2>1. x.pos + made \in Nat
    BY <1>2
  <2> QED
    BY <2>1, SurplusIs, Zenon
<1>13. PICK pos, whole \in Nat : pos = x.pos /\ whole = Whole(x) /\ made <= whole - pos
  BY <1>2, <1>11, Zenon
<1>14. /\ o = pos - e /\ made <= wanted + Packet - 1 /\ p = pos + made
       /\ n \in {made, wanted} /\ n <= made /\ n <= wanted /\ m = o + (e + n)
       /\ made > wanted => k = made - wanted
       /\ made <= wanted => k = 0
  <2>1. o = pos - e /\ made <= wanted + Packet - 1 /\ p = pos + made
    BY <1>2, <1>12, <1>13, Zenon
  <2>2. n \in {made, wanted} /\ n <= made /\ n <= wanted /\ m = o + (e + n)
    BY <1>3, <1>5, <1>8, Zenon
  <2>3. (made > wanted => k = made - wanted) /\ (made <= wanted => k = 0)
    BY <1>12, SurplusIs, Zenon
  <2> QED
    BY <2>1, <2>2, <2>3, Zenon
<1>15. p <= whole /\ k < Packet /\ m = p - k /\ p - k \in Int
  BY ONLY <1>13, <1>14, ContentAssumption
<1>16. (made > wanted => pos + wanted = p - k /\ made - wanted = k) /\ (made = whole - pos => p = whole)
  BY ONLY <1>13, <1>14
<1>17. pos + wanted \in Int /\ made - wanted \in Int /\ (made <= wanted => made - wanted <= 0)
  BY ONLY <1>13
<1>18. p <= Whole(x) /\ (eof => p = Whole(x) \/ cut)
  BY <1>13, <1>15, <1>16, Zenon DEF Stops
<1>19. extra = Content!Bytes(p - k, k)
  <2>1. CASE made > wanted
    BY <1>13, <1>16, <2>1, Zenon
  <2>2. CASE made <= wanted
    <3>1. \A a, c \in Int : c <= 0 => Content!Bytes(a, c) = <<>>
      BY BytesAre
    <3>2. 0 \in Int /\ 0 <= 0
      OBVIOUS
    <3> QED
      BY <1>13, <1>14, <1>15, <1>17, <2>2, <3>1, <3>2, Zenon
  <2>3. made > wanted \/ made <= wanted
    OBVIOUS
  <2> QED
    BY <2>1, <2>2, <2>3, Zenon
<1>20. extra \in Seq(Byte) /\ Len(extra) = k /\ (extra = <<>> => k = 0) /\ (k = 0 => extra = <<>>)
  <2>1. extra \in Seq(Byte) /\ Len(extra) = k
    BY <1>19, <1>15, BytesCount, Zenon
  <2> HIDE DEF extra
  <2> QED
    BY <2>1
<1> HIDE DEF sent, out, extra
<1>21. /\ q = [x EXCEPT !.pos = p, !.eof = eof, !.cut = cut, !.out = out, !.extra = extra,
                        !.at = IF s = 0 THEN "close" ELSE x.at,
                        !.told = IF s = 0 THEN "end" ELSE x.told]
  BY <1>7, <1>12, Zenon DEF Filled, out, extra, sent
<1> HIDE DEF q
<1>22. q \in RequestType
  BY <1>10, <1>20, <1>21 DEF RequestType
<1>23. /\ q.kind = x.kind /\ q.length = x.length /\ q.range = x.range /\ q.seen = x.seen
       /\ q.handle = x.handle /\ q.again = x.again /\ q.pos = p /\ q.eof = eof /\ q.cut = cut /\ q.out = out
       /\ q.extra = extra /\ q.at = (IF s = 0 THEN "close" ELSE x.at)
       /\ q.told = (IF s = 0 THEN "end" ELSE x.told)
  BY <1>21 DEF RequestType
<1>24. Announcement(q) /\ Whole(q) = Whole(x) /\ x.told = "none"
  BY <1>23 DEF Announcement, Sound, Whole
<1>25. CASE s # 0
  <2>1. q.at = "read" /\ q.told = "none" /\ q.kind = "live" /\ q.again = 0
    BY <1>2, <1>23, <1>24, <1>25
  <2>2. LiveReads(q, m, k)
    BY <1>9, <1>10, <1>15, <1>18, <1>19, <1>20, <1>23, <1>24, <2>1 DEF LiveReads
  <2> QED
    BY <1>22, <1>24, <2>1, <2>2, LiveReadsSound, Zenon DEF q
<1>26. CASE s = 0
  <2>1. e = 0 /\ n = 0 /\ made = 0 /\ ~(made >= wanted)
    BY <1>2, <1>3, <1>5, <1>26
  <2>2. k = 0 /\ extra = <<>> /\ p <= Whole(x) /\ (p = Whole(x) \/ cut)
    <3>1. made <= wanted
      BY <2>1
    <3> QED
      BY <1>20, <1>14, <1>18, <2>1, <3>1, Zenon DEF Stops
  <2>3. q.at = "close" /\ q.told = "end" /\ q.range = 0 /\ q.length = Content!Unknown /\ q.kind = "live"
    BY <1>23, <1>24, <1>26 DEF Announcement
  <2>4. Whole(x) \in Nat /\ Whole(x) <= Size
    BY SizesAre
  <2>5. m = p
    BY <1>15, <2>2
  <2>6. Ended(q)
    <3>1. Whole(q) - q.pos <= 0 \/ q.cut
      BY <1>23, <1>24, <2>2, <2>4
    <3>2. Len(q.out) = q.pos - q.range
      BY <1>10, <1>23, <2>3, <2>5
    <3> QED
      BY <1>23, <2>2, <2>3, <3>1, <3>2 DEF Ended
  <2>7. q.pos <= Size /\ Len(q.extra) = 0 /\ 0 < Packet /\ Len(q.out) <= Size - q.range
    BY <1>10, <1>20, <1>23, <2>2, <2>3, <2>4, <2>5
  <2>8. q.out = Content!Bytes(q.range, Len(q.out))
    BY <1>9, <1>10, <1>23, <2>3
  <2>9. Done(q)
    BY <2>6, <2>7, <2>8 DEF Done
  <2>10. Sound(q)
    BY <1>24, <2>3, <2>9 DEF Sound
  <2> QED
    BY <1>22, <2>10 DEF q
<1> QED
  BY <1>25, <1>26 DEF q
-------------------------------------------------------------------------------
(* Before and after the bytes.                                             *)

\* nothing is sent yet
LEMMA NothingSent ==
    ASSUME NEW n \in Int
    PROVE  /\ Content!Bytes(n, 0) = <<>> /\ Len(<<>>) = 0 /\ <<>> \in Seq(Byte)
           /\ Content!Bytes(n - Len(<<>>), Len(<<>>)) = <<>>
           /\ Content!Bytes(n, Len(<<>>)) = <<>>
<1>1. \A a \in Int : Content!Bytes(a, 0) = <<>>
  BY BytesAre
<1>2. Len(<<>>) = 0 /\ <<>> \in Seq(Byte) /\ n - 0 \in Int
  OBVIOUS
<1> QED
  BY <1>1, <1>2, Zenon

LEMMA BeginsSound ==
    ASSUME NEW q \in RequestType, Announcement(q), q.at = "read", q.told = "none",
           q.pos = q.range, q.out = <<>>, q.extra = <<>>, ~q.eof, q.again = 0
    PROVE  Sound(q)
<1>1. q.range \in {0, 1} /\ q.range \in Int /\ q.length \in Int /\ q.pos \in Nat /\ q.kind \in Kinds
  BY DEF RequestType
<1>2. q.pos \in q.range .. Whole(q)
  BY <1>1, SizesAre
<1>3. /\ Content!Bytes(q.range, Len(q.out)) = <<>> /\ Len(q.out) = 0 /\ Len(q.extra) = 0
      /\ Content!Bytes(q.pos - Len(q.extra), Len(q.extra)) = <<>>
  BY <1>1, NothingSent
<1>4. Len(q.out) = q.pos - q.range - (IF q.again = 0 THEN Len(q.extra) ELSE 0)
  BY <1>1, <1>3
<1>5. q.length # Content!Unknown => Len(q.out) <= q.length - q.range
  BY <1>1, <1>3 DEF Announcement, Kinds
<1>6. Len(q.extra) < Packet
  BY <1>3
<1>7. Reads(q)
  BY <1>2, <1>3, <1>4, <1>5, <1>6 DEF Reads
<1> QED
  BY <1>7 DEF Sound

\* a request is over of which nothing was sent
LEMMA NothingSound ==
    ASSUME NEW q \in RequestType, Announcement(q), q.at \in {"close", "closed"},
           Fresh(q), q.told # "end"
    PROVE  Sound(q)
<1>1. q.range \in {0, 1} /\ q.range \in Int
  BY DEF RequestType
<1>2. q.out = <<>> /\ q.extra = <<>> /\ q.pos = 0
  BY DEF Fresh
<1>3. /\ Content!Bytes(q.range, Len(q.out)) = <<>> /\ Len(q.out) = 0 /\ Len(q.extra) = 0
  BY <1>1, <1>2, NothingSent
<1>4. Done(q)
  BY <1>1, <1>2, <1>3 DEF Done
<1> QED
  BY <1>4 DEF Sound

-------------------------------------------------------------------------------
(* The steps of one request.                                               *)

\* what a step of a request may do to what the archives depend on
Quiet(x, q) ==
    /\ HasArchive(x) /\ archive # 0 => HasArchive(q)
    /\ Closed(x) => Closed(q)
    /\ Lost(q, archive) => Lost(x, archive)
Moves(r, q) == q \in RequestType /\ Sound(q) /\ req' = [req EXCEPT ![r] = q]

LEMMA MovesSound ==
    ASSUME Typed, AllSound, NEW r \in Requests, NEW q, Moves(r, q)
    PROVE  (Typed /\ AllSound)'
<1>1. req \in [Requests -> RequestType] /\ \A o \in Requests : Sound(req[o])
  BY DEF Typed, AllSound
<1>2. req' \in [Requests -> RequestType]
  BY <1>1 DEF Moves
<1>3. ASSUME NEW o \in Requests
      PROVE  Sound(req[o])'
  <2>1. CASE o = r
    <3>1. req'[o] = q
      BY <1>1, <2>1 DEF Moves
    <3> QED
      BY <3>1 DEF Moves
  <2>2. CASE o # r
    <3>1. req'[o] = req[o]
      BY <1>1, <2>2 DEF Moves
    <3> QED
      BY <1>1, <3>1
  <2> QED
    BY <2>1, <2>2
<1> QED
  BY <1>2, <1>3 DEF Typed, AllSound

LEMMA QuietArchives ==
    ASSUME Typed, ArchiveInv, NEW r \in Requests, NEW q, Moves(r, q), Quiet(req[r], q),
           UNCHANGED <<archive, archives, shutdown>>
    PROVE  ArchiveInv'
<1>1. req'[r] = q /\ \A o \in Requests \ {r} : req'[o] = req[o]
  BY DEF Moves, Typed
<1>2. /\ \A o \in Requests : HasArchive(req[o]) /\ archive # 0 => HasArchive(req'[o])
      /\ \A o \in Requests : Closed(req[o]) => Closed(req'[o])
      /\ \A o \in Requests : Lost(req'[o], archive) => Lost(req[o], archive)
  BY <1>1 DEF Quiet
<1>3. archive \in Nat /\ archives \in Nat /\ archive <= archives /\ shutdown \in BOOLEAN
  BY DEF ArchiveInv
<1>4. archive # 0 => \E o \in Requests : HasArchive(req'[o])
  BY <1>2 DEF ArchiveInv
<1>5. \A o \in Requests : Lost(req'[o], archive) /\ ~shutdown =>
          \E other \in Requests \ {o} : Closed(req'[other])
  BY <1>2 DEF ArchiveInv
<1> QED
  BY <1>3, <1>4, <1>5 DEF ArchiveInv
Steps(r) == \E q : Moves(r, q) /\ Quiet(req[r], q)

LEMMA IdleIs ==
    /\ Content!Idle \in RequestType
    /\ Content!Idle.range = 0 /\ Content!Idle.length = 0 /\ Fresh(Content!Idle)
    /\ Content!Idle.told = "none" /\ Content!Idle.at = "idle" /\ Content!Idle.kind = "file"
<1>1. <<>> \in Seq(Byte)
  OBVIOUS
<1>2. Content!Idle \in RequestType
  BY <1>1 DEF Content!Idle, RequestType, Kinds
<1> QED
  BY <1>2 DEF Content!Idle, Fresh

LEMMA AnnouncedIs ==
    ASSUME version \in Nat, NEW asks \in Kinds
    PROVE  /\ Content!Loaded(asks) \in Int /\ Content!Announced(asks) \in Int
           /\ asks \in {"file", "track", "art"} =>
                 Content!Announced(asks) = Content!SizeOf(Content!Loaded(asks))
           /\ asks = "steady" =>
                 Content!Announced(asks) = Content!SizeOf(Content!Loaded(asks)) - 1
           /\ asks \in {"zip", "live"} => Content!Announced(asks) = Content!Unknown
           /\ asks \notin {"zip", "live"} => Content!Announced(asks) # Content!Unknown
<1>1. Content!Loaded(asks) \in Int
  BY DEF Content!Loaded, Content!Other, Kinds
<1>2. Content!SizeOf(Content!Loaded(asks)) \in {Size, Size - 1}
  BY DEF Content!SizeOf
<1>3. CASE asks \in {"file", "track", "art"}
  <2>1. Content!Announced(asks) = Content!SizeOf(Content!Loaded(asks))
    BY <1>3 DEF Content!Announced
  <2> QED
    BY <1>1, <1>2, <1>3, <2>1 DEF Content!Unknown
<1>4. CASE asks = "steady"
  <2>1. Content!Announced(asks) = Content!SizeOf(Content!Loaded(asks)) - 1
    BY <1>4 DEF Content!Announced
  <2> QED
    BY <1>1, <1>2, <1>4, <2>1 DEF Content!Unknown
<1>5. CASE asks \in {"zip", "live"}
  <2>1. Content!Announced(asks) = Content!Unknown
    BY <1>5 DEF Content!Announced
  <2> QED
    BY <1>1, <1>5, <2>1 DEF Content!Unknown
<1> QED
  BY <1>3, <1>4, <1>5 DEF Kinds

LEMMA GetInfoStep ==
    ASSUME version \in Nat, Typed, AllSound, NEW r \in Requests, NEW asks \in Kinds,
           NEW range \in {0, 1}, Content!GetInfo(r, asks, range)
    PROVE  Steps(r)
<1> DEFINE length == Content!Announced(asks)
           seen == Content!Loaded(asks)
           q == [Content!Idle EXCEPT !.at = "open", !.kind = asks, !.range = range,
                                     !.length = length, !.seen = seen]
<1>1. req' = [req EXCEPT ![r] = q]
  BY DEF Content!GetInfo
<1>2. /\ length \in Int /\ seen \in Int
      /\ asks \in {"file", "track", "art"} => length = Content!SizeOf(seen)
      /\ asks = "steady" => length = Content!SizeOf(seen) - 1
      /\ asks \in {"zip", "live"} => length = Content!Unknown
      /\ asks \notin {"zip", "live"} => length # Content!Unknown
  BY AnnouncedIs
<1>3. range < (IF length = Content!Unknown THEN 1 ELSE length) /\ req[r].at = "idle"
  BY DEF Content!GetInfo
<1> HIDE DEF length, seen
<1>4. q \in RequestType
  BY <1>2, IdleIs DEF RequestType
<1>5. /\ q.at = "open" /\ q.kind = asks /\ q.range = range /\ q.length = length /\ q.seen = seen
      /\ Fresh(q) /\ q.told = "none"
  BY IdleIs DEF RequestType, Fresh
<1> HIDE DEF q
<1>6. Announcement(q)
  BY <1>2, <1>3, <1>5 DEF Announcement, Kinds
<1>7. Sound(q)
  BY <1>5, <1>6 DEF Sound
<1>8. Quiet(req[r], q)
  BY <1>3, <1>5 DEF Quiet, HasArchive, Closed, Lost
<1> QED
  BY <1>1, <1>4, <1>7, <1>8 DEF Moves, Steps

\* a request that is opened
LEMMA OpenedStep ==
    ASSUME Typed, AllSound, NEW r \in Requests, NEW handle \in Int,
           req[r].at = "open" \/ (req[r].at = "archived" /\ archive # 0),
           Content!Opened(r, handle)
    PROVE  Steps(r)
<1> DEFINE x == req[r]
           at == IF x.range > 0 THEN "seek" ELSE "read"
           q == [x EXCEPT !.handle = handle, !.at = at]
<1>1. x \in RequestType /\ Sound(x) /\ req' = [req EXCEPT ![r] = q]
  BY DEF Typed, AllSound, Content!Opened
<1>2. at \in {"seek", "read"} /\ x.at \in {"open", "archived"}
  OBVIOUS
<1> HIDE DEF x
<1>3. x.range \in {0, 1}
  BY <1>1 DEF RequestType
<1>4. at = "read" => x.range = 0
  BY <1>3
<1> HIDE DEF at
<1>5. q \in RequestType
  BY <1>1, <1>2 DEF RequestType
<1>6. /\ q.at = at /\ q.told = x.told /\ q.kind = x.kind /\ q.length = x.length
      /\ q.range = x.range /\ q.seen = x.seen /\ q.handle = handle /\ q.pos = x.pos
      /\ q.extra = x.extra /\ q.out = x.out /\ q.eof = x.eof /\ q.cut = x.cut /\ q.again = x.again
  BY <1>1 DEF RequestType
<1> HIDE DEF q
<1>7. Fresh(x) /\ Announcement(x) /\ x.told = "none"
  BY <1>1, <1>2 DEF Sound
<1>8. Fresh(q) /\ Announcement(q) /\ q.told = "none"
  BY <1>6, <1>7 DEF Fresh, Announcement
<1>9. Sound(q)
  <2>1. CASE at = "seek"
    BY <1>6, <1>8, <2>1 DEF Sound
  <2>2. CASE at = "read"
    <3>1. q.pos = q.range /\ q.out = <<>> /\ q.extra = <<>> /\ ~q.eof /\ q.again = 0
      BY <1>4, <1>6, <1>8, <2>2 DEF Fresh
    <3> QED
      BY <1>5, <1>6, <1>8, <2>2, <3>1, BeginsSound
  <2> QED
    BY <1>2, <2>1, <2>2
<1>10. Quiet(x, q)
  BY <1>2, <1>6, <1>8 DEF Quiet, HasArchive, Closed, Lost
<1> QED
  BY <1>1, <1>5, <1>9, <1>10 DEF Moves, Steps, x

\* a request that is refused
LEMMA RefusedMoves ==
    ASSUME Typed, AllSound, NEW r \in Requests, req[r].at \in {"open", "archived"},
           Content!Refused(r)
    PROVE  \E q : Moves(r, q) /\ q.at = "closed" /\ q.kind = req[r].kind
<1> DEFINE x == req[r]
           q == [x EXCEPT !.at = "closed", !.told = "refused"]
<1>1. x \in RequestType /\ Sound(x) /\ req' = [req EXCEPT ![r] = q]
  BY DEF Typed, AllSound, Content!Refused
<1>2. x.at \in {"open", "archived"}
  OBVIOUS
<1> HIDE DEF x
<1>3. q \in RequestType
  BY <1>1 DEF RequestType
<1>4. /\ q.at = "closed" /\ q.told = "refused" /\ q.kind = x.kind /\ q.length = x.length
      /\ q.range = x.range /\ q.seen = x.seen /\ q.handle = x.handle /\ q.pos = x.pos
      /\ q.extra = x.extra /\ q.out = x.out /\ q.eof = x.eof /\ q.cut = x.cut /\ q.again = x.again
  BY <1>1 DEF RequestType
<1> HIDE DEF q
<1>5. Fresh(x) /\ Announcement(x)
  BY <1>1, <1>2 DEF Sound
<1>6. Fresh(q) /\ Announcement(q)
  BY <1>4, <1>5 DEF Fresh, Announcement
<1>7. Sound(q)
  BY <1>3, <1>4, <1>6, NothingSound
<1> QED
  BY <1>1, <1>3, <1>4, <1>7 DEF Moves, x
LEMMA OpenCallbackStep ==
    ASSUME version \in Nat, Typed, AllSound, NEW r \in Requests, Content!OpenCallback(r)
    PROVE  Steps(r)
<1> DEFINE x == req[r]
           loaded == Content!Loaded(req[r].kind)
<1>1. x \in RequestType /\ Sound(x) /\ x.at = "open" /\ x.kind # "zip"
  BY DEF Typed, AllSound, Content!OpenCallback
<1>2. loaded \in Int
  <2>1. x.kind \in Kinds
    BY <1>1 DEF RequestType
  <2> QED
    BY <2>1, AnnouncedIs
<1>3. CASE Content!Refused(r)
  <2>1. PICK q : Moves(r, q) /\ q.kind = x.kind
    BY <1>1, <1>3, RefusedMoves
  <2>2. Quiet(x, q)
    BY <1>1, <2>1 DEF Quiet, HasArchive, Closed, Lost
  <2> QED
    BY <2>1, <2>2 DEF Steps
<1>4. CASE Content!Opened(r, loaded)
  BY <1>1, <1>2, <1>4, OpenedStep
<1>5. CASE req' = [req EXCEPT ![r].at = "stuck"]
  <2> DEFINE q == [x EXCEPT !.at = "stuck"]
  <2>1. req' = [req EXCEPT ![r] = q]
    BY <1>5
  <2> HIDE DEF x
  <2>2. q \in RequestType
    BY <1>1 DEF RequestType
  <2>3. /\ q.at = "stuck" /\ q.told = x.told /\ q.kind = x.kind /\ q.length = x.length
        /\ q.range = x.range /\ q.seen = x.seen /\ q.handle = x.handle /\ q.pos = x.pos
        /\ q.extra = x.extra /\ q.out = x.out /\ q.eof = x.eof /\ q.cut = x.cut /\ q.again = x.again
    BY <1>1 DEF RequestType
  <2> HIDE DEF q
  <2>4. Sound(q)
    BY <1>1, <2>3 DEF Sound, Fresh, Announcement
  <2>5. Quiet(x, q)
    BY <1>1, <2>3 DEF Quiet, HasArchive, Closed, Lost
  <2> QED
    BY <2>1, <2>2, <2>4, <2>5 DEF Moves, Steps, x
<1> QED
  BY <1>3, <1>4, <1>5 DEF Content!OpenCallback

LEMMA OpenArchiveStep ==
    ASSUME Typed, AllSound, ArchiveInv, NEW r \in Requests, Content!OpenArchive(r)
    PROVE  Steps(r)
<1>1. Sound(req[r]) /\ req[r].at = "archived" /\ req[r].kind = "zip"
  BY DEF Typed, AllSound, Sound, Content!OpenArchive
<1>2. CASE archive = 0 /\ Content!Refused(r)
  <2>1. PICK q : Moves(r, q) /\ q.kind = req[r].kind
    BY <1>1, <1>2, RefusedMoves
  <2>2. Quiet(req[r], q)
    BY <1>1, <1>2, <2>1 DEF Quiet, HasArchive, Closed, Lost
  <2> QED
    BY <2>1, <2>2 DEF Steps
<1>3. CASE archive # 0 /\ Content!Opened(r, archive)
  <2>1. archive \in Int
    BY DEF ArchiveInv
  <2> QED
    BY <1>1, <1>3, <2>1, OpenedStep
<1> QED
  BY <1>2, <1>3 DEF Content!OpenArchive

LEMMA SeekStep ==
    ASSUME Typed, AllSound, NEW r \in Requests, Content!SeekCallback(r)
    PROVE  Steps(r)
<1> DEFINE x == req[r]
           q == [x EXCEPT !.pos = x.pos + x.range, !.at = "read"]
<1>1. x \in RequestType /\ Sound(x) /\ x.at = "seek" /\ req' = [req EXCEPT ![r] = q]
  BY DEF Typed, AllSound, Content!SeekCallback, Content!Moved
<1> HIDE DEF x
<1>2. Fresh(x) /\ Announcement(x) /\ x.told = "none" /\ x.range \in {0, 1} /\ x.pos = 0
  BY <1>1 DEF Sound, Fresh, RequestType
<1>3. x.pos + x.range = x.range /\ x.range \in Nat
  BY <1>2
<1>4. q \in RequestType
  BY <1>1, <1>3 DEF RequestType
<1>5. /\ q.at = "read" /\ q.told = x.told /\ q.kind = x.kind /\ q.length = x.length
      /\ q.range = x.range /\ q.seen = x.seen /\ q.handle = x.handle /\ q.pos = x.range
      /\ q.extra = x.extra /\ q.out = x.out /\ q.eof = x.eof /\ q.cut = x.cut /\ q.again = x.again
  BY <1>1, <1>3 DEF RequestType
<1> HIDE DEF q
<1>6. Announcement(q)
  BY <1>2, <1>5 DEF Announcement
<1>7. q.out = <<>> /\ q.extra = <<>> /\ ~q.eof /\ q.again = 0
  BY <1>2, <1>5 DEF Fresh
<1>8. Sound(q)
  BY <1>2, <1>4, <1>5, <1>6, <1>7, BeginsSound
<1>9. Quiet(x, q)
  BY <1>1, <1>2, <1>5 DEF Quiet, HasArchive, Closed, Lost
<1> QED
  BY <1>1, <1>4, <1>8, <1>9 DEF Moves, Steps, x

\* a step while bytes are read
LEMMA ReadsQuiet ==
    ASSUME NEW x \in RequestType, NEW q, x.at \in {"seek", "read"}, q.at \in {"read", "close"},
           q.kind = x.kind, q.told # "refused"
    PROVE  Quiet(x, q)
BY DEF Quiet, HasArchive, Closed, Lost

LEMMA EndsStep ==
    ASSUME Typed, AllSound, NEW r \in Requests, req[r].at = "read",
           NEW told \in {"end", "error", "complete", "left"}, told = "end" => Ended(req[r]),
           Content!Ends(r, told)
    PROVE  Steps(r)
<1> DEFINE x == req[r]
           q == [x EXCEPT !.at = "close", !.told = told]
<1>1. x \in RequestType /\ Sound(x) /\ x.at = "read" /\ req' = [req EXCEPT ![r] = q]
  BY DEF Typed, AllSound, Content!Ends
<1>2. told = "end" => Ended(x)
  OBVIOUS
<1> HIDE DEF x
<1>3. q \in RequestType /\ Sound(q)
  BY <1>1, <1>2, EndsSound
<1>4. q.at = "close" /\ q.told = told /\ q.kind = x.kind
  BY <1>1 DEF RequestType
<1> HIDE DEF q
<1>5. Quiet(x, q)
  BY <1>1, <1>4, ReadsQuiet
<1> QED
  BY <1>1, <1>3, <1>5 DEF Moves, Steps, x

LEMMA LeaveStep ==
    ASSUME Typed, AllSound, NEW r \in Requests, Content!Leave(r)
    PROVE  Steps(r)
<1>1. PICK told \in {"complete", "left"} : Content!Ends(r, told)
  BY DEF Content!Leave
<1>2. CASE req[r].at = "read"
  BY <1>1, <1>2, EndsStep
<1>3. CASE req[r].at = "seek"
  <2> DEFINE x == req[r]
             q == [x EXCEPT !.at = "close", !.told = told]
  <2>1. x \in RequestType /\ Sound(x) /\ x.at = "seek" /\ req' = [req EXCEPT ![r] = q]
    BY <1>1, <1>3 DEF Typed, AllSound, Content!Ends
  <2> HIDE DEF x
  <2>2. q \in RequestType
    BY <2>1 DEF RequestType
  <2>3. /\ q.at = "close" /\ q.told = told /\ q.kind = x.kind /\ q.length = x.length
        /\ q.range = x.range /\ q.seen = x.seen /\ q.handle = x.handle /\ q.pos = x.pos
        /\ q.extra = x.extra /\ q.out = x.out /\ q.eof = x.eof /\ q.cut = x.cut /\ q.again = x.again
    BY <2>1 DEF RequestType
  <2> HIDE DEF q
  <2>4. Fresh(q) /\ Announcement(q)
    BY <2>1, <2>3 DEF Sound, Fresh, Announcement
  <2>5. Sound(q)
    BY <2>2, <2>3, <2>4, NothingSound
  <2>6. Quiet(x, q)
    BY <2>1, <2>3, ReadsQuiet
  <2> QED
    BY <2>1, <2>2, <2>5, <2>6 DEF Moves, Steps, x
<1> QED
  BY <1>2, <1>3 DEF Content!Leave
-------------------------------------------------------------------------------
(* Reading.                                                                *)

LEMMA RestIs ==
    ASSUME NEW r
    PROVE  Content!Rest(r) = Whole(req[r]) - req[r].pos
BY DEF Content!Rest, Whole

\* the end of what is read is told when no more is announced
LEMMA EndedIs ==
    ASSUME NEW x \in RequestType, Sound(x), x.at = "read", x.kind # "live",
           ~(x.length # Content!Unknown /\ Len(x.out) = x.length - x.range),
           Whole(x) - x.pos <= (IF x.kind = "steady" THEN 1 ELSE 0)
    PROVE  Ended(x)
<1>1. Reads(x) /\ Announcement(x)
  BY DEF Sound
<1>2. x.extra = <<>> /\ x.pos = x.range + Len(x.out) /\ Len(x.out) \in Nat
  BY <1>1, ReadsAre DEF Reads
<1>3. x.length \in Int /\ x.range \in Int /\ Whole(x) \in Nat /\ x.kind \in Kinds /\ x.pos \in Nat
  BY SizesAre DEF RequestType
<1>4. ASSUME x.length # Content!Unknown, x.handle = x.seen
      PROVE  FALSE
  <2>1. Whole(x) = Content!SizeOf(x.seen) /\ x.kind \in {"file", "track", "art", "steady"}
    BY <1>1, <1>3, <1>4 DEF Whole, Announcement, Kinds
  <2>2. Len(x.out) <= x.length - x.range
    BY <1>1, <1>4 DEF Reads
  <2>3. x.length <= x.pos
    BY <1>1, <1>3, <2>1 DEF Announcement
  <2> QED
    BY <1>2, <1>3, <1>4, <2>2, <2>3
<1>5. Len(x.out) = x.pos - x.range
  BY <1>2, <1>3
<1> QED
  BY <1>2, <1>4, <1>5 DEF Ended

\* what a read asks for is not more than what is announced
LEMMA WantedIs ==
    ASSUME NEW r, req[r] \in RequestType, Sound(req[r]), req[r].at = "read"
    PROVE  /\ Content!Wanted(r) \in Nat
           /\ req[r].length # Content!Unknown =>
                 Content!Wanted(r) <= req[r].length - req[r].range - Len(req[r].out)
<1>1. PICK x \in RequestType : x = req[r]
  OBVIOUS
<1>2. Reads(x)
  BY <1>1 DEF Sound
<1>3. x.length \in Int /\ x.range \in Int /\ Len(x.out) \in Nat
  BY <1>2, ReadsAre DEF RequestType
<1>4. CASE x.length = Content!Unknown
  BY <1>1, <1>4 DEF Content!Wanted
<1>5. CASE x.length # Content!Unknown
  <2>1. PICK n \in Int : n = x.length - x.range - Len(x.out)
    BY <1>3
  <2>2. n >= 0
    BY <1>2, <1>3, <1>5, <2>1 DEF Reads
  <2>3. Content!Wanted(r) = Content!Min({Length, n})
    BY <1>1, <1>5, <2>1 DEF Content!Wanted
  <2>4. Length \in Int /\ Length > 0
    OBVIOUS
  <2>5. Content!Min({Length, n}) \in {Length, n} /\ Content!Min({Length, n}) <= n
    BY <2>4, LeastOfTwo
  <2> QED
    BY <1>1, <2>1, <2>2, <2>3, <2>4, <2>5
<1> QED
  BY <1>4, <1>5

\* the next bytes are sent
LEMMA SendsStep ==
    ASSUME Typed, AllSound, NEW r \in Requests, req[r].at = "read", req[r].kind # "live",
           NEW n \in Nat, n <= Content!Rest(r), n <= Content!Wanted(r),
           Content!Sends(r, Content!Bytes(req[r].pos, n))
    PROVE  Steps(r)
<1> DEFINE x == req[r]
           bytes == Content!Bytes(x.pos, n)
           q == [x EXCEPT !.pos = x.pos + n, !.out = x.out \o bytes]
<1>1. x \in RequestType /\ Sound(x) /\ x.pos \in Int
  BY DEF Typed, AllSound, RequestType
<1>2. Len(bytes) = n
  BY <1>1, BytesCount
<1>3. req' = [req EXCEPT ![r] = q]
  <2>1. req' = [req EXCEPT ![r].pos = req[r].pos + Len(bytes), ![r].out = @ \o bytes]
    BY DEF Content!Sends
  <2> HIDE DEF bytes
  <2> QED
    BY <1>2, <2>1
<1>4. n <= Whole(x) - x.pos
  BY RestIs
<1>5. x.length # Content!Unknown => n <= x.length - x.range - Len(x.out)
  <2>1. ASSUME x.length # Content!Unknown
        PROVE  n <= x.length - x.range - Len(x.out)
    <3>1. PICK k \in Nat : k = Content!Wanted(r)
      BY <1>1, WantedIs
    <3>2. k <= x.length - x.range - Len(x.out)
      BY <1>1, <2>1, <3>1, WantedIs
    <3>3. x.length \in Int /\ x.range \in Int /\ Len(x.out) \in Int
      BY <1>1, ReadsAre DEF RequestType, Sound
    <3>4. PICK l \in Int : l = x.length - x.range - Len(x.out)
      BY <3>3
    <3> QED
      BY <3>1, <3>2, <3>4
  <2> QED
    BY <2>1
<1>6. x.at = "read" /\ x.kind # "live"
  OBVIOUS
<1> HIDE DEF x
<1>7. q \in RequestType /\ Sound(q)
  BY <1>1, <1>4, <1>5, <1>6, SendsSound
<1>8. q.at = "read" /\ q.kind = x.kind /\ q.told = x.told
  BY <1>1, <1>6 DEF RequestType
<1> HIDE DEF q
<1>9. Quiet(x, q)
  BY <1>1, <1>6, <1>8, ReadsQuiet DEF Sound
<1> QED
  BY <1>3, <1>7, <1>9 DEF Moves, Steps, x

LEMMA StoredStep ==
    ASSUME Typed, AllSound, NEW r \in Requests, req[r].at = "read", ~Content!Complete(r),
           Content!ReadStored(r)
    PROVE  Steps(r)
<1>1. PICK x \in RequestType : x = req[r] /\ Sound(x)
  BY DEF Typed, AllSound
<1>2. x.kind \in {"file", "art", "zip"} /\ x.at = "read"
  BY <1>1 DEF Content!ReadStored
<1>3. CASE Content!AtEnd(r)
  <2>1. Whole(x) - x.pos = 0
    BY <1>1, <1>3, RestIs DEF Content!AtEnd
  <2>2. ~(x.length # Content!Unknown /\ Len(x.out) = x.length - x.range)
    BY <1>1 DEF Content!Complete
  <2>3. Ended(x)
    BY <1>1, <1>2, <2>1, <2>2, EndedIs
  <2>4. Content!Ends(r, "end")
    BY <1>3 DEF Content!ReadStored
  <2> QED
    BY <1>1, <2>3, <2>4, EndsStep
<1>4. CASE ~Content!AtEnd(r)
  <2>1. PICK rest \in Nat : rest = Content!Rest(r)
    BY <1>1, <1>2, RestIs, ReadsAre DEF Sound
  <2>2. PICK wanted \in Nat : wanted = Content!Wanted(r)
    BY <1>1, <1>2, WantedIs
  <2>3. PICK n \in Nat : n = Content!Min({wanted, rest}) /\ n <= wanted /\ n <= rest
    <3>1. wanted \in Int /\ rest \in Int
      OBVIOUS
    <3>2. /\ Content!Min({wanted, rest}) \in {wanted, rest}
          /\ Content!Min({wanted, rest}) <= wanted /\ Content!Min({wanted, rest}) <= rest
      BY <3>1, LeastOfTwo, Zenon
    <3> QED
      BY <3>2, Zenon
  <2>4. Content!Sends(r, Content!Bytes(req[r].pos, n))
    BY <1>4, <2>1, <2>2, <2>3, Zenon DEF Content!ReadStored
  <2>5. n <= Content!Rest(r) /\ n <= Content!Wanted(r) /\ req[r].kind # "live"
    BY <1>1, <1>2, <2>1, <2>2, <2>3
  <2> QED
    BY <2>4, <2>5, SendsStep
<1> QED
  BY <1>3, <1>4

LEMMA SteadyStep ==
    ASSUME Typed, AllSound, NEW r \in Requests, req[r].at = "read", ~Content!Complete(r),
           Content!ReadSteady(r)
    PROVE  Steps(r)
<1>1. PICK x \in RequestType : x = req[r] /\ Sound(x)
  BY DEF Typed, AllSound
<1>2. x.kind = "steady" /\ x.at = "read"
  BY <1>1 DEF Content!ReadSteady
<1>3. PICK rest \in Nat : rest = Content!Rest(r) /\ rest = Whole(x) - x.pos
  BY <1>1, <1>2, RestIs, ReadsAre DEF Sound
<1>4. CASE Content!Ends(r, "error")
  BY <1>4, EndsStep
<1>5. CASE Content!Rest(r) <= 1 /\ Content!Ends(r, "end")
  <2>1. ~(x.length # Content!Unknown /\ Len(x.out) = x.length - x.range)
    BY <1>1 DEF Content!Complete
  <2>2. Whole(x) - x.pos <= 1
    BY <1>3, <1>5
  <2>3. Ended(x)
    BY <1>1, <1>2, <2>1, <2>2, EndedIs
  <2> QED
    BY <1>1, <1>5, <2>3, EndsStep
<1>6. CASE \E n \in 1 .. Content!Min({Content!Wanted(r), Content!Rest(r)}) :
              Content!Sends(r, Content!Bytes(req[r].pos, n))
  <2>1. PICK wanted \in Nat : wanted = Content!Wanted(r)
    BY <1>1, <1>2, WantedIs
  <2>2. PICK n \in 1 .. Content!Min({wanted, rest}) : Content!Sends(r, Content!Bytes(req[r].pos, n))
    BY <1>3, <1>6, <2>1, Zenon
  <2>3. wanted \in Int /\ rest \in Int
    OBVIOUS
  <2>4. PICK m \in Nat : m = Content!Min({wanted, rest}) /\ m <= wanted /\ m <= rest
    <3>1. /\ Content!Min({wanted, rest}) \in {wanted, rest}
          /\ Content!Min({wanted, rest}) <= wanted /\ Content!Min({wanted, rest}) <= rest
      BY <2>3, LeastOfTwo, Zenon
    <3> QED
      BY <3>1, Zenon
  <2>5. n \in Nat /\ n <= wanted /\ n <= rest
    BY <2>2, <2>4
  <2> QED
    BY <1>1, <1>2, <1>3, <2>1, <2>2, <2>5, SendsStep
<1> QED
  BY <1>4, <1>5, <1>6 DEF Content!ReadSteady
\* a request becomes q while it is read from
LEMMA ReadsStep ==
    ASSUME Typed, AllSound, NEW r \in Requests, req[r].at = "read",
           NEW q \in RequestType, Sound(q), q.at \in {"read", "close"}, q.kind = req[r].kind,
           q.told # "refused", req' = [req EXCEPT ![r] = q]
    PROVE  Steps(r)
<1>1. req[r] \in RequestType
  BY DEF Typed
<1>2. Quiet(req[r], q)
  BY <1>1, ReadsQuiet
<1> QED
  BY <1>2 DEF Moves, Steps

LEMMA LiveStep ==
    ASSUME Typed, AllSound, NEW r \in Requests, req[r].at = "read", Content!ReadLive(r)
    PROVE  Steps(r)
<1>1. PICK x \in RequestType : x = req[r] /\ Sound(x)
  BY DEF Typed, AllSound
<1>2. x.kind = "live" /\ x.at = "read" /\ x.told = "none"
  BY <1>1 DEF Content!ReadLive, Sound
<1>3. Reads(x) /\ Announcement(x) /\ x.extra \in Seq(Byte) /\ Len(x.extra) \in Nat
  BY <1>1, <1>2 DEF Sound, RequestType
<1>4. CASE /\ Len(x.extra) >= Length
           /\ req' = [req EXCEPT ![r].out = @ \o SubSeq(req[r].extra, 1, Length),
                                 ![r].extra = SubSeq(req[r].extra, Length + 1, Len(req[r].extra))]
  <2> DEFINE q == [x EXCEPT !.out = x.out \o SubSeq(x.extra, 1, Length),
                            !.extra = SubSeq(x.extra, Length + 1, Len(x.extra))]
  <2>1. req' = [req EXCEPT ![r] = q]
    BY <1>1, <1>4
  <2>2. q \in RequestType /\ Sound(q)
    BY <1>1, <1>2, <1>4, KeptSound
  <2>3. q.at = "read" /\ q.kind = x.kind /\ q.told = "none"
    BY <1>2 DEF RequestType
  <2> HIDE DEF q
  <2> QED
    BY <1>1, <1>2, <2>1, <2>2, <2>3, ReadsStep
<1>5. CASE /\ Len(x.extra) < Length /\ x.eof /\ x.extra # <<>>
           /\ req' = [req EXCEPT ![r].out = IF req[r].again = 0 THEN @ \o req[r].extra ELSE @,
                                 ![r].again = Content!Min({2, @ + 1})]
  <2> DEFINE q == [x EXCEPT !.out = IF x.again = 0 THEN x.out \o x.extra ELSE x.out,
                            !.again = Content!Min({2, x.again + 1})]
  <2>1. req' = [req EXCEPT ![r] = q]
    BY <1>1, <1>5
  <2>2. q \in RequestType /\ Sound(q)
    BY <1>1, <1>2, <1>5, RestSound
  <2>3. q.at = "read" /\ q.kind = x.kind /\ q.told = "none"
    BY <1>2 DEF RequestType
  <2> HIDE DEF q
  <2> QED
    BY <1>1, <1>2, <2>1, <2>2, <2>3, ReadsStep
<1>6. CASE x.extra = <<>> /\ x.eof /\ Content!Ends(r, "end")
  <2>1. (x.pos = Whole(x) \/ x.cut) /\ x.range = 0 /\ x.length = Content!Unknown
    BY <1>2, <1>3, <1>6 DEF Reads, Announcement
  <2>2. Whole(x) \in Nat
    BY SizesAre
  <2>3. x.pos = x.range + Len(x.out) /\ Len(x.out) \in Nat
    BY <1>3, <1>6, ReadsAre
  <2>4. Len(x.out) = x.pos - x.range /\ (Whole(x) - x.pos = 0 \/ x.cut)
    BY <2>1, <2>2, <2>3
  <2>5. Ended(x)
    BY <1>2, <1>6, <2>1, <2>4 DEF Ended
  <2> QED
    BY <1>1, <1>6, <2>5, EndsStep
<1>7. CASE \E made \in 0 .. Content!Min({Content!Rest(r), Length - Len(req[r].extra) + Packet - 1}),
              eof, cut \in BOOLEAN :
             /\ Len(req[r].extra) < Length /\ ~req[r].eof
             /\ made >= Length - Len(req[r].extra) \/ eof
             /\ cut => eof
             /\ eof /\ ~cut => made = Content!Rest(r)
             /\ req' = [req EXCEPT ![r] = Filled(x, made, Length - Len(x.extra), eof, cut)]
  <2>1. PICK rest \in Nat : rest = Content!Rest(r) /\ rest = Whole(x) - x.pos
    BY <1>1, <1>3, RestIs, ReadsAre
  <2>2. PICK wanted \in Nat : wanted = Length - Len(x.extra)
    <3>1. Len(x.extra) < Length
      BY <1>1, <1>7, Zenon
    <3>2. Length - Len(x.extra) \in Nat
      BY ONLY <1>3, <3>1, ContentAssumption
    <3> QED
      BY <3>2, Zenon
  <2>3. PICK most \in Nat : /\ most = Content!Min({rest, wanted + Packet - 1})
                            /\ most <= rest /\ most <= wanted + Packet - 1
    <3>1. PICK k \in Nat : k = wanted + Packet - 1
      OBVIOUS
    <3>2. rest \in Int /\ k \in Int
      OBVIOUS
    <3>3. /\ Content!Min({rest, k}) \in {rest, k}
          /\ Content!Min({rest, k}) <= rest /\ Content!Min({rest, k}) <= k
      BY <3>2, LeastOfTwo, Zenon
    <3> QED
      BY <3>1, <3>3, Zenon
  <2>4. PICK made \in 0 .. most, eof, cut \in BOOLEAN :
             /\ Len(x.extra) < Length /\ ~x.eof
             /\ made >= wanted \/ eof
             /\ eof /\ ~cut => made = rest
             /\ req' = [req EXCEPT ![r] = Filled(x, made, wanted, eof, cut)]
    BY <1>1, <1>7, <2>1, <2>2, <2>3, Zenon
  <2>5. made \in Nat /\ made <= rest /\ made <= wanted + Packet - 1
    BY <2>3
  <2>6. Stops(x, made, wanted, eof, cut)
    BY <2>1, <2>4, Zenon DEF Stops
  <2>7. made <= Whole(x) - x.pos
    BY <2>1, <2>5, Zenon
  <2> DEFINE q == Filled(x, made, wanted, eof, cut)
  <2>8. q \in RequestType /\ Sound(q)
    BY <1>1, <1>2, <2>2, <2>4, <2>5, <2>6, <2>7, FilledSound
  <2>9. q.at \in {"read", "close"} /\ q.kind = x.kind /\ q.told \in {"none", "end"}
    BY <1>2 DEF Filled, RequestType
  <2>10. req' = [req EXCEPT ![r] = q]
    BY <2>4
  <2> HIDE DEF q
  <2> QED
    BY <1>1, <1>2, <2>8, <2>9, <2>10, ReadsStep
<1>8. CASE Content!Ends(r, "error")
  BY <1>1, <1>2, <1>8, EndsStep
<1>9. CASE \E made \in 0 .. Content!Min({Content!Rest(r), Length - Len(req[r].extra) + Packet - 1}),
              eof, cut \in BOOLEAN :
             /\ Len(req[r].extra) < Length /\ ~req[r].eof
             /\ made >= Length - Len(req[r].extra) \/ eof
             /\ cut => eof
             /\ eof /\ ~cut => made = Content!Rest(r)
             /\ Content!Encodes(r, req[r].extra \o Content!Bytes(req[r].pos,
                                Content!Min({made, Length - Len(req[r].extra)})),
                        made, Length - Len(req[r].extra), eof, cut)
  <2>1. ASSUME NEW made, NEW eof, NEW cut,
               Content!Encodes(r, req[r].extra \o Content!Bytes(req[r].pos,
                               Content!Min({made, Length - Len(req[r].extra)})),
                        made, Length - Len(req[r].extra), eof, cut)
        PROVE  req' = [req EXCEPT ![r] = Filled(x, made, Length - Len(x.extra), eof, cut)]
    <3>1. PICK wanted : wanted = Length - Len(x.extra)
      OBVIOUS
    <3>2. PICK sent : sent = Encoded(x, made, wanted)
      OBVIOUS
    <3>3. Content!Encodes(r, sent, made, wanted, eof, cut)
      BY <1>1, <2>1, <3>1, <3>2, Zenon DEF Encoded
    <3>4. req' = [req EXCEPT ![r] = Filled(x, made, wanted, eof, cut)]
      BY <1>1, <3>2, <3>3 DEF Content!Encodes, Filled, Content!Left
    <3> QED
      BY <3>1, <3>4, Zenon
  <2>2. PICK made \in 0 .. Content!Min({Content!Rest(r), Length - Len(req[r].extra) + Packet - 1}),
            eof, cut \in BOOLEAN :
             /\ Len(req[r].extra) < Length /\ ~req[r].eof
             /\ made >= Length - Len(req[r].extra) \/ eof
             /\ cut => eof
             /\ eof /\ ~cut => made = Content!Rest(r)
             /\ Content!Encodes(r, req[r].extra \o Content!Bytes(req[r].pos,
                                Content!Min({made, Length - Len(req[r].extra)})),
                        made, Length - Len(req[r].extra), eof, cut)
    BY <1>9, Zenon
  <2>3. req' = [req EXCEPT ![r] = Filled(x, made, Length - Len(x.extra), eof, cut)]
    BY <2>1, <2>2, Zenon
  <2> QED
    BY <1>7, <2>2, <2>3, Zenon
<1>10. \/ /\ Len(req[r].extra) >= Length
          /\ req' = [req EXCEPT ![r].out = @ \o SubSeq(req[r].extra, 1, Length),
                                ![r].extra = SubSeq(req[r].extra, Length + 1, Len(req[r].extra))]
       \/ /\ Len(req[r].extra) < Length /\ req[r].eof /\ req[r].extra # <<>>
          /\ req' = [req EXCEPT ![r].out = IF req[r].again = 0 THEN @ \o req[r].extra ELSE @,
                                ![r].again = Content!Min({2, @ + 1})]
       \/ req[r].extra = <<>> /\ req[r].eof /\ Content!Ends(r, "end")
       \/ \E made \in 0 .. Content!Min({Content!Rest(r), Length - Len(req[r].extra) + Packet - 1}),
              eof, cut \in BOOLEAN :
             /\ Len(req[r].extra) < Length /\ ~req[r].eof
             /\ made >= Length - Len(req[r].extra) \/ eof
             /\ cut => eof
             /\ eof /\ ~cut => made = Content!Rest(r)
             /\ Content!Encodes(r, req[r].extra \o Content!Bytes(req[r].pos,
                                Content!Min({made, Length - Len(req[r].extra)})),
                        made, Length - Len(req[r].extra), eof, cut)
       \/ Content!Ends(r, "error")
  BY Zenon DEF Content!ReadLive, Content!FilterPackets
<1> QED
  BY <1>1, <1>4, <1>5, <1>6, <1>8, <1>9, <1>10, Zenon
LEMMA ReadCallbackStep ==
    ASSUME Typed, AllSound, NEW r \in Requests, Content!ReadCallback(r)
    PROVE  Steps(r)
<1>1. req[r].at = "read" /\ ~Content!Complete(r)
  BY DEF Content!ReadCallback
<1>2. CASE Content!Ends(r, "error")
  BY <1>1, <1>2, EndsStep
<1>3. CASE Content!ReadStored(r)
  BY <1>1, <1>3, StoredStep
<1>4. CASE Content!ReadSteady(r)
  BY <1>1, <1>4, SteadyStep
<1>5. CASE Content!ReadLive(r)
  BY <1>1, <1>5, LiveStep
<1> QED
  BY <1>2, <1>3, <1>4, <1>5 DEF Content!ReadCallback

-------------------------------------------------------------------------------
(* The archives.                                                           *)

LEMMA ArchiveStep ==
    ASSUME Typed, AllSound, ArchiveInv, NEW r \in Requests, Content!Archive(r)
    PROVE  (Typed /\ AllSound /\ ArchiveInv)'
<1>1. PICK x \in RequestType : x = req[r] /\ Sound(x) /\ x.at = "open" /\ x.kind = "zip"
  BY DEF Typed, AllSound, Content!Archive
<1>2. /\ archive \in Nat /\ archives \in Nat /\ archive <= archives /\ shutdown \in BOOLEAN
      /\ archive # 0 => \E o \in Requests : HasArchive(req[o])
  BY DEF ArchiveInv
<1>3. CASE shutdown
  <2>1. Content!Refused(r) /\ UNCHANGED <<archive, archives, shutdown>>
    BY <1>3 DEF Content!Archive, Content!zips
  <2>2. PICK q : Moves(r, q)
    BY <1>1, <2>1, RefusedMoves
  <2>3. \A o \in Requests \ {r} : req'[o] = req[o]
    BY <2>2 DEF Moves, Typed
  <2>4. archive # 0 => \E o \in Requests : HasArchive(req'[o])
    BY <1>1, <1>2, <2>3 DEF HasArchive
  <2>5. ArchiveInv'
    BY <1>2, <1>3, <2>1, <2>4 DEF ArchiveInv
  <2> QED
    BY <2>2, <2>5, MovesSound
<1>4. CASE ~shutdown
  <2> DEFINE q == [x EXCEPT !.at = "archived"]
  <2>1. /\ archives' = archives + 1 /\ archive' = archives + 1 /\ shutdown' = shutdown
        /\ req' = [req EXCEPT ![r] = q]
    BY <1>1, <1>4 DEF Content!Archive
  <2>2. q \in RequestType
    BY <1>1 DEF RequestType
  <2>3. /\ q.at = "archived" /\ q.told = x.told /\ q.kind = x.kind /\ q.length = x.length
        /\ q.range = x.range /\ q.seen = x.seen /\ q.handle = x.handle /\ q.pos = x.pos
        /\ q.extra = x.extra /\ q.out = x.out /\ q.eof = x.eof /\ q.cut = x.cut /\ q.again = x.again
    BY DEF RequestType
  <2> HIDE DEF q
  <2>4. Sound(q)
    BY <1>1, <2>3 DEF Sound, Fresh, Announcement
  <2>5. Moves(r, q)
    BY <2>1, <2>2, <2>4 DEF Moves
  <2>6. req'[r] = q /\ \A o \in Requests \ {r} : req'[o] = req[o]
    BY <2>5 DEF Moves, Typed
  <2>7. PICK n \in Nat : n = archives + 1 /\ n # 0
    BY <1>2
  <2>8. HasArchive(req'[r]) /\ (\A m : m # 0 => ~Lost(req'[r], m))
    BY <1>1, <2>3, <2>6 DEF HasArchive, Lost, Sound
  <2>9. \A o \in Requests : Lost(req'[o], n) => Lost(req[o], archive) /\ o # r
    BY <2>6, <2>7, <2>8 DEF Lost
  <2>10. \A o \in Requests : Closed(req[o]) => Closed(req'[o])
    BY <1>1, <2>6 DEF Closed
  <2>11. \A o \in Requests : Lost(req'[o], n) /\ ~shutdown =>
            \E other \in Requests \ {o} : Closed(req'[other])
    BY <2>9, <2>10 DEF ArchiveInv
  <2>12. ArchiveInv'
    BY <1>2, <2>1, <2>7, <2>8, <2>11 DEF ArchiveInv
  <2> QED
    BY <2>5, <2>12, MovesSound
<1> QED
  BY <1>3, <1>4

LEMMA CloseStep ==
    ASSUME Typed, AllSound, ArchiveInv, NEW r \in Requests, Content!CloseCallback(r)
    PROVE  (Typed /\ AllSound /\ ArchiveInv)'
<1>1. PICK x \in RequestType : x = req[r] /\ Sound(x) /\ x.at = "close"
  BY DEF Typed, AllSound, Content!CloseCallback
<1> DEFINE q == [x EXCEPT !.at = "closed"]
<1>2. /\ archives' = archives /\ shutdown' = shutdown /\ req' = [req EXCEPT ![r] = q]
      /\ archive' = (IF x.kind = "zip" THEN 0 ELSE archive)
  BY <1>1 DEF Content!CloseCallback, Content!Removed
<1>3. q \in RequestType
  BY DEF RequestType
<1>4. /\ q.at = "closed" /\ q.told = x.told /\ q.kind = x.kind /\ q.length = x.length
      /\ q.range = x.range /\ q.seen = x.seen /\ q.handle = x.handle /\ q.pos = x.pos
      /\ q.extra = x.extra /\ q.out = x.out /\ q.eof = x.eof /\ q.cut = x.cut /\ q.again = x.again
  BY DEF RequestType
<1> HIDE DEF q
<1>5. Sound(q)
  BY <1>1, <1>4 DEF Sound, Done, Ended, Announcement, Whole
<1>6. Moves(r, q)
  BY <1>2, <1>3, <1>5 DEF Moves
<1>7. (Typed /\ AllSound)'
  BY <1>6, MovesSound
<1>8. CASE x.kind # "zip"
  <2>1. Quiet(req[r], q)
    BY <1>1, <1>4, <1>8 DEF Quiet, HasArchive, Closed, Lost
  <2>2. UNCHANGED <<archive, archives, shutdown>>
    BY <1>2, <1>8
  <2> QED
    BY <1>6, <1>7, <2>1, <2>2, QuietArchives
<1>9. CASE x.kind = "zip"
  <2>1. archive' = 0
    BY <1>2, <1>9
  <2>2. req'[r] = q /\ \A o \in Requests \ {r} : req'[o] = req[o]
    BY <1>6 DEF Moves, Typed
  <2>3. Closed(req'[r]) /\ (Lost(req'[r], 0) => Lost(req[r], archive))
    BY <1>1, <1>4, <1>9, <2>2 DEF Closed, Lost
  <2>4. \A o \in Requests : Closed(req[o]) => Closed(req'[o])
    BY <1>1, <2>2, <2>3 DEF Closed
  <2>5. ASSUME NEW o \in Requests, Lost(req'[o], 0), ~shutdown
        PROVE  \E other \in Requests \ {o} : Closed(req'[other])
    <3>1. CASE o = r
      BY <2>3, <2>4, <2>5, <3>1 DEF ArchiveInv
    <3>2. CASE o # r
      BY <2>3, <3>2
    <3> QED
      BY <3>1, <3>2
  <2>6. archives \in Nat /\ shutdown \in BOOLEAN
    BY DEF ArchiveInv
  <2>7. ArchiveInv'
    BY <1>2, <2>1, <2>5, <2>6 DEF ArchiveInv
  <2> QED
    BY <1>7, <2>7
<1> QED
  BY <1>8, <1>9

-------------------------------------------------------------------------------
(* The invariant.                                                          *)

LEMMA InitFileInv == Content!Init => FileInv
<1> SUFFICES ASSUME Content!Init PROVE FileInv
  OBVIOUS
<1>1. /\ version = 1 /\ changes = 0 /\ alias = "own" /\ archive = 0 /\ archives = 0
      /\ shutdown = FALSE /\ req = [r \in Requests |-> Content!Idle]
  BY DEF Content!Init
<1>2. Typed
  BY <1>1, IdleIs DEF Typed
<1>3. Sound(Content!Idle)
  BY IdleIs DEF Sound
<1>4. AllSound
  BY <1>1, <1>3 DEF AllSound
<1>5. ~Lost(Content!Idle, 0)
  BY IdleIs DEF Lost
<1>6. ArchiveInv
  <2>1. \A r \in Requests : req[r] = Content!Idle
    BY <1>1
  <2>2. \A r \in Requests : ~Lost(req[r], archive)
    BY <1>1, <1>5, <2>1, Zenon
  <2>3. archive \in Nat /\ archives \in Nat /\ archive <= archives /\ archive = 0
    BY ONLY <1>1
  <2>4. shutdown \in BOOLEAN
    BY <1>1, Zenon
  <2> QED
    BY <2>2, <2>3, <2>4, Zenon DEF ArchiveInv
<1> QED
  BY <1>1, <1>2, <1>4, <1>6 DEF FileInv

LEMMA StepsInv ==
    ASSUME FileInv, NEW r \in Requests, Steps(r),
           UNCHANGED <<version, changes, alias, archive, archives, shutdown>>
    PROVE  FileInv'
<1>1. PICK q : Moves(r, q) /\ Quiet(req[r], q)
  BY DEF Steps
<1>2. (Typed /\ AllSound)'
  BY <1>1, MovesSound DEF FileInv
<1>3. ArchiveInv'
  BY <1>1, QuietArchives DEF FileInv
<1> QED
  BY <1>2, <1>3 DEF FileInv

LEMMA StepFileInv == FileInv /\ Content!Next => FileInv'
<1> SUFFICES ASSUME FileInv, Content!Next PROVE FileInv'
  OBVIOUS
<1>1. version \in Nat /\ changes \in Nat /\ Typed /\ AllSound /\ ArchiveInv
  BY DEF FileInv
<1>2. ASSUME NEW r \in Requests, NEW asks \in Kinds, NEW range \in {0, 1},
             Content!GetInfo(r, asks, range)
      PROVE  FileInv'
  <2>1. UNCHANGED <<version, changes, alias, archive, archives, shutdown>>
    BY <1>2 DEF Content!GetInfo, Content!files, Content!zips
  <2> QED
    BY <1>1, <1>2, <2>1, GetInfoStep, StepsInv
<1>3. ASSUME NEW r \in Requests,
             Content!OpenCallback(r) \/ Content!OpenArchive(r) \/ Content!SeekCallback(r)
                 \/ Content!ReadCallback(r) \/ Content!Leave(r)
      PROVE  FileInv'
  <2>1. UNCHANGED <<version, changes, alias, archive, archives, shutdown>>
    BY <1>3 DEF Content!OpenCallback, Content!OpenArchive, Content!SeekCallback,
                Content!ReadCallback, Content!Leave, Content!files, Content!zips
  <2>2. Steps(r)
    BY <1>1, <1>3, OpenCallbackStep, OpenArchiveStep, SeekStep, ReadCallbackStep, LeaveStep
  <2> QED
    BY <2>1, <2>2, StepsInv
<1>4. ASSUME NEW r \in Requests, Content!Archive(r)
      PROVE  FileInv'
  <2>1. UNCHANGED <<version, changes, alias>>
    BY <1>4 DEF Content!Archive, Content!files
  <2> QED
    BY <1>1, <1>4, <2>1, ArchiveStep DEF FileInv
<1>5. ASSUME NEW r \in Requests, Content!CloseCallback(r)
      PROVE  FileInv'
  <2>1. UNCHANGED <<version, changes, alias>>
    BY <1>5 DEF Content!CloseCallback, Content!files
  <2> QED
    BY <1>1, <1>5, <2>1, CloseStep DEF FileInv
<1>6. CASE Content!Change
  <2>1. version' \in Nat /\ changes' \in Nat /\ alias' = alias
    BY <1>1, <1>6 DEF Content!Change
  <2>2. (Typed /\ AllSound /\ ArchiveInv)'
    BY <1>1, <1>6 DEF Content!Change, Content!zips, Typed, AllSound, ArchiveInv
  <2> QED
    BY <2>1, <2>2 DEF FileInv
<1>7. CASE Content!Reimport
  <2>1. version' \in Nat /\ changes' \in Nat /\ alias' \in {"own", "gone", "other"}
    BY <1>1, <1>7 DEF Content!Reimport
  <2>2. (Typed /\ AllSound /\ ArchiveInv)'
    BY <1>1, <1>7 DEF Content!Reimport, Content!zips, Typed, AllSound, ArchiveInv
  <2> QED
    BY <2>1, <2>2 DEF FileInv
<1>8. CASE Content!Shutdown
  <2>1. version' \in Nat /\ changes' \in Nat /\ alias' = alias
    BY <1>1, <1>8 DEF Content!Shutdown, Content!files
  <2>2. (Typed /\ AllSound /\ ArchiveInv)'
    BY <1>1, <1>8 DEF Content!Shutdown, Content!zips, Typed, AllSound, ArchiveInv
  <2> QED
    BY <2>1, <2>2 DEF FileInv
<1> QED
  BY <1>2, <1>3, <1>4, <1>5, <1>6, <1>7, <1>8 DEF Content!Next, Content!serve, Kinds

LEMMA StepMCFileInv == FileInv /\ [MCNext]_<<part, fileVars, clientVars, configVars>> => FileInv'
<1>1. ASSUME FileInv, UNCHANGED fileVars
      PROVE  FileInv'
  BY <1>1 DEF FileInv, Typed, AllSound, ArchiveInv, fileVars
<1>2. ASSUME MCNext
      PROVE  Content!Next \/ UNCHANGED fileVars
  BY <1>2 DEF MCNext
<1> QED
  BY <1>1, <1>2, StepFileInv

-------------------------------------------------------------------------------
(* What the invariant means.                                               *)

LEMMA SoundMeaning ==
    ASSUME NEW q \in RequestType, Sound(q)
    PROVE  /\ q.pos <= Size /\ Len(q.extra) < Packet
           /\ q.length \in {Content!Unknown} \cup 0 .. Size
           /\ q.out = Content!Bytes(q.range, Len(q.out)) /\ Len(q.out) <= Size - q.range
           /\ q.told = "end" => Ended(q)
<1>1. /\ q.range \in {0, 1} /\ q.range \in Int /\ q.length \in Int /\ q.kind \in Kinds
      /\ Len(q.out) \in Nat
      /\ q.at \in {"idle", "open", "archived", "stuck", "seek", "read", "close", "closed"}
  BY DEF RequestType
<1>2. q.length \in {Content!Unknown} \cup 0 .. Size
  <2>1. Content!SizeOf(q.seen) \in {Size, Size - 1}
    BY DEF Content!SizeOf
  <2>2. CASE q.at = "idle"
    BY <2>2 DEF Sound
  <2>3. CASE q.at # "idle"
    BY <1>1, <2>1, <2>3 DEF Sound, Announcement, Kinds
  <2> QED
    BY <2>2, <2>3
<1>3. CASE q.at \in {"idle", "open", "archived", "stuck", "seek"}
  <2>1. q.out = <<>> /\ q.extra = <<>> /\ q.pos = 0 /\ q.told = "none"
    BY <1>3 DEF Sound, Fresh
  <2>2. Content!Bytes(q.range, Len(q.out)) = <<>> /\ Len(q.out) = 0 /\ Len(q.extra) = 0
    BY <1>1, <2>1, NothingSent
  <2>3. 0 <= Size - q.range
    BY <1>1
  <2> QED
    BY <1>2, <2>1, <2>2, <2>3
<1>4. CASE q.at = "read"
  <2>1. Reads(q) /\ q.told = "none"
    BY <1>4 DEF Sound
  <2>2. Whole(q) \in Nat /\ Whole(q) <= Size
    BY SizesAre
  <2>3. q.pos <= Size /\ Len(q.out) <= Size - q.range
    BY <1>1, <2>1, <2>2, ReadsAre, SMTT(30)
  <2> QED
    BY <1>2, <2>1, <2>3 DEF Reads
<1>5. CASE q.at \in {"close", "closed"}
  BY <1>2, <1>5 DEF Sound, Done
<1> QED
  BY <1>1, <1>3, <1>4, <1>5

LEMMA FileInvMeaning == FileInv => InOrder /\ EndIsWhole
<1> SUFFICES ASSUME FileInv PROVE InOrder /\ EndIsWhole
  OBVIOUS
<1>1. /\ alias \in {"own", "gone", "other"} /\ archive \in Nat /\ archives \in Nat /\ archive <= archives
      /\ \A r \in Requests : req[r] \in RequestType /\ Sound(req[r])
  BY DEF FileInv, ArchiveInv, Typed, AllSound
<1>2. Content!TypeOK
  <2>1. archive \in 0 .. archives
    BY <1>1
  <2> QED
    BY <1>1, <2>1, SoundMeaning DEF Content!TypeOK
<1>3. ASSUME NEW r \in Requests
      PROVE  Content!IsPrefix(req[r].out, Content!Bytes(req[r].range, Size - req[r].range))
  <2>1. PICK q \in RequestType : q = req[r] /\ Sound(q)
    BY <1>1
  <2>2. PICK k \in Nat : k = Len(q.out)
    BY DEF RequestType
  <2>3. PICK a \in {0, 1} : a = q.range
    BY DEF RequestType
  <2>4. q.out = Content!Bytes(a, k) /\ k <= Size - a
    BY <2>1, <2>2, <2>3, SoundMeaning
  <2>5. PICK n \in Nat : n = Size - a
    OBVIOUS
  <2>6. a \in Int /\ k \in 0 .. n
    BY <2>4, <2>5
  <2>7. Content!IsPrefix(Content!Bytes(a, k), Content!Bytes(a, n))
    BY <2>6, BytesPrefix
  <2> QED
    BY <2>1, <2>3, <2>4, <2>5, <2>7, Zenon
<1>4. Content!EndIsWhole
  <2>1. ASSUME NEW r \in Requests, req[r].told = "end"
        PROVE  Ended(req[r])
    BY <1>1, <2>1, SoundMeaning
  <2> QED
    BY <2>1, RestIs DEF Content!EndIsWhole, Ended
<1>5. Content!NoArchiveLeft
  BY DEF FileInv, ArchiveInv, HasArchive, Content!NoArchiveLeft
<1>6. Content!AloneIsServed
  BY DEF FileInv, ArchiveInv, Lost, Closed, Content!AloneIsServed
<1> QED
  BY <1>2, <1>3, <1>4, <1>5, <1>6 DEF InOrder, EndIsWhole, Content!InOrder

\* Every request gets the bytes of its content in their order, none left out
\* and none twice: for any number of requests, any content, and whatever is
\* replaced, imported or shut down in between.
THEOREM RequestsInOrder == MCSpec => []InOrder
<1>1. MCInit => FileInv
  BY InitFileInv DEF MCInit
<1> QED
  BY <1>1, StepMCFileInv, FileInvMeaning, PTL DEF MCSpec

\* Who is told of the end has got the whole content, or all up to a failure of
\* the transcoding that was taken for the end, and not before what was announced
\* unless it was replaced; no archive stays behind.
THEOREM RequestsEndWhole == MCSpec => []EndIsWhole
<1>1. MCInit => FileInv
  BY InitFileInv DEF MCInit
<1> QED
  BY <1>1, StepMCFileInv, FileInvMeaning, PTL DEF MCSpec

-------------------------------------------------------------------------------
(* The list of clients: places in a list, and entries at some of them.     *)

\* A set of naturals has a least element.
LEMMA LeastOfNaturals ==
    ASSUME NEW S \in SUBSET Nat, S # {}
    PROVE  \E n \in S : \A m \in S : n <= m
<1>1. IsWellFoundedOn(OpToRel(<, Nat), Nat)
  BY NatLessThanWellFounded
<1>2. PICK n \in S : \A m \in S : ~ (<<m, n>> \in OpToRel(<, Nat))
  BY <1>1, WFMin
<1>3. ASSUME NEW m \in S PROVE n <= m
  <2>1. OpToRel(<, Nat) = {p \in Nat \X Nat : p[1] < p[2]}
    BY Zenon DEF OpToRel
  <2>2. <<m, n>> \notin {p \in Nat \X Nat : p[1] < p[2]}
    BY <1>2, <2>1, Zenon
  <2> QED BY <2>2
<1> QED BY <1>3

\* First is the first of some places.
LEMMA FirstIs ==
    ASSUME NEW n \in Nat, NEW S \in SUBSET (1 .. n)
    PROVE  /\ S = {} => Clients!First(S) = 0
           /\ S # {} => Clients!First(S) \in S /\ \A j \in S : Clients!First(S) <= j
<1>1. CASE S = {}
  BY <1>1 DEF Clients!First
<1>2. CASE S # {}
  <2>1. S \in SUBSET Nat
    OBVIOUS
  <2>2. \E i \in S : \A j \in S : i <= j
    BY <1>2, <2>1, LeastOfNaturals
  <2>3. Clients!First(S) = CHOOSE i \in S : \A j \in S : i <= j
    BY <1>2 DEF Clients!First
  <2> QED
    BY <1>2, <2>2, <2>3
<1> QED
  BY <1>1, <1>2

\* f lists some places in their order
Increasing(f) == \A i, j \in DOMAIN f : i < j => f[i] < f[j]

\* Places can be listed in their order.
LEMMA Listable ==
    ASSUME NEW n \in Nat, NEW S \in SUBSET (1 .. n)
    PROVE  \E f \in [1 .. Cardinality(S) -> S] : Increasing(f)
<1> DEFINE Can(T) == \E f \in [1 .. Cardinality(T) -> T] : Increasing(f)
<1> DEFINE Bad == {m \in Nat : \E T \in SUBSET (1 .. m) : ~Can(T)}
<1>1. SUFFICES ASSUME Bad # {} PROVE FALSE
  OBVIOUS
<1>2. PICK m \in Bad : \A k \in Bad : m <= k
  <2>1. Bad \in SUBSET Nat
    OBVIOUS
  <2> HIDE DEF Bad
  <2> QED
    BY <1>1, <2>1, LeastOfNaturals
<1>3. PICK T \in SUBSET (1 .. m) : ~Can(T)
  OBVIOUS
<1>4. m \in Nat
  OBVIOUS
<1>5. \A k \in Nat : k < m => \A U \in SUBSET (1 .. k) : Can(U)
  <2>1. SUFFICES ASSUME NEW k \in Nat, k < m, NEW U \in SUBSET (1 .. k), ~Can(U) PROVE FALSE
    <3> HIDE DEF Can
    <3> QED OBVIOUS
  <2>2. k \in Bad
    BY <2>1
  <2>3. m <= k
    <3> HIDE DEF Bad
    <3> QED BY <1>2, <2>2
  <2> QED
    BY ONLY <1>4, <2>1, <2>3
<1>6. IsFiniteSet(T)
  <2>1. IsFiniteSet(1 .. m)
    BY <1>4, FS_Interval
  <2> QED
    BY <2>1, FS_Subset
<1>7. CASE m \notin T
  <2>1. CASE m = 0
    <3>1. T = {}
      BY <2>1
    <3>2. Cardinality(T) = 0
      BY <3>1, FS_EmptySet
    <3>3. [i \in 1 .. 0 |-> 0] \in [1 .. Cardinality(T) -> T] /\ Increasing([i \in 1 .. 0 |-> 0])
      BY <3>2 DEF Increasing
    <3> QED
      BY <1>3, <3>3
  <2>2. CASE m # 0
    <3>1. m - 1 \in Nat /\ m - 1 < m /\ T \in SUBSET (1 .. m - 1)
      BY <1>4, <1>7, <2>2
    <3> HIDE DEF Can
    <3> QED
      BY <1>3, <1>5, <3>1
  <2> QED
    BY <2>1, <2>2
<1>8. CASE m \in T
  <2> DEFINE U == T \ {m}
  <2>1. m - 1 \in Nat /\ m - 1 < m /\ U \in SUBSET (1 .. m - 1)
    BY <1>4, <1>8
  <2>2. Can(U)
    <3> HIDE DEF Can
    <3> QED BY <1>5, <2>1
  <2>3. PICK f \in [1 .. Cardinality(U) -> U] : Increasing(f)
    BY <2>2
  <2>4. Cardinality(T) \in Nat /\ Cardinality(U) = Cardinality(T) - 1 /\ Cardinality(U) \in Nat
    BY <1>6, <1>8, FS_RemoveElement, FS_CardinalityType
  <2> DEFINE k == Cardinality(T)
             g == [i \in 1 .. k |-> IF i = k THEN m ELSE f[i]]
  <2>5. k \in Nat /\ f \in [1 .. k - 1 -> U] /\ DOMAIN f = 1 .. k - 1
    BY <2>3, <2>4
  <2> HIDE DEF k
  <2>6. \A i \in 1 .. k : i # k => i \in 1 .. k - 1 /\ f[i] \in U
    <3>1. \A i \in 1 .. k : i # k => i \in 1 .. k - 1
      BY ONLY <2>5
    <3>2. \A i \in 1 .. k - 1 : f[i] \in U
      BY ONLY <2>5
    <3> QED BY ONLY <3>1, <3>2
  <2>7. g \in [1 .. k -> T]
    BY <1>8, <2>6
  <2>8. Increasing(g)
    <3>1. SUFFICES ASSUME NEW i \in 1 .. k, NEW j \in 1 .. k, i < j PROVE g[i] < g[j]
      BY DEF Increasing
    <3>2. i # k /\ i \in 1 .. k - 1
      BY <2>5, <3>1
    <3>3. CASE j = k
      <4>1. f[i] \in 1 .. m - 1
        BY <2>1, <2>6, <3>2
      <4>2. g[i] = f[i] /\ g[j] = m
        BY <3>2, <3>3
      <4> QED
        BY <1>4, <4>1, <4>2
    <3>4. CASE j # k
      <4>1. g[i] = f[i] /\ g[j] = f[j] /\ j \in 1 .. k - 1
        BY <2>5, <3>2, <3>4
      <4>2. i \in DOMAIN f /\ j \in DOMAIN f
        BY <2>5, <3>2, <4>1
      <4> QED
        BY <2>3, <3>1, <4>1, <4>2 DEF Increasing
    <3> QED
      BY <3>3, <3>4
  <2> QED
    BY <1>3, <2>7, <2>8 DEF k
<1> QED
  BY <1>7, <1>8

\* What InOrder chooses lists the places in their order.
LEMMA InOrderIs ==
    ASSUME NEW n \in Nat, NEW S \in SUBSET (1 .. n)
    PROVE  /\ IsFiniteSet(S) /\ Cardinality(S) \in 0 .. n
           /\ Clients!InOrder(S) \in [1 .. Cardinality(S) -> S] /\ Increasing(Clients!InOrder(S))
           /\ Cardinality(S) = n => S = 1 .. n
<1>1. IsFiniteSet(1 .. n) /\ Cardinality(1 .. n) = n
  BY FS_Interval
<1>2. /\ IsFiniteSet(S) /\ Cardinality(S) <= n
      /\ Cardinality(S) = n => S = 1 .. n
  BY <1>1, FS_Subset
<1>3. Cardinality(S) \in Nat
  BY <1>2, FS_CardinalityType
<1>4. \E f \in [1 .. Cardinality(S) -> S] : Increasing(f)
  BY Listable
<1>5. \E f \in [1 .. Cardinality(S) -> S] : \A i, j \in DOMAIN f : i < j => f[i] < f[j]
  BY <1>4 DEF Increasing
<1>7. Clients!Cardinality(S) = Cardinality(S)
  BY DEF Clients!Cardinality, Cardinality
<1>6. Clients!InOrder(S) \in [1 .. Cardinality(S) -> S] /\ Increasing(Clients!InOrder(S))
  BY <1>5, <1>7 DEF Clients!InOrder, Increasing
<1> QED
  BY <1>2, <1>3, <1>6

\* All places in their order are the places.
LEMMA IncreasingIsIdentity ==
    ASSUME NEW n \in Nat, NEW f \in [1 .. n -> 1 .. n], Increasing(f)
    PROVE  \A i \in 1 .. n : f[i] = i
<1> DEFINE Low == {i \in 1 .. n : f[i] < i}
           High == {i \in 1 .. n : f[n + 1 - i] > n + 1 - i}
<1>1. Low = {}
  <2>1. SUFFICES ASSUME Low # {} PROVE FALSE
    OBVIOUS
  <2>2. Low \in SUBSET Nat
    OBVIOUS
  <2>3. PICK i \in Low : \A j \in Low : i <= j
    <3> HIDE DEF Low
    <3> QED BY <2>1, <2>2, LeastOfNaturals
  <2>4. i \in 1 .. n /\ f[i] \in 1 .. n /\ f[i] < i
    OBVIOUS
  <2>5. f[f[i]] < f[i]
    BY <2>4 DEF Increasing
  <2>6. f[i] \in Low
    BY <2>4, <2>5
  <2> QED
    BY <2>3, <2>4, <2>6
<1>2. High = {}
  <2>1. SUFFICES ASSUME High # {} PROVE FALSE
    OBVIOUS
  <2>2. High \in SUBSET Nat
    OBVIOUS
  <2>3. PICK i \in High : \A j \in High : i <= j
    <3> HIDE DEF High
    <3> QED BY <2>1, <2>2, LeastOfNaturals
  <2> DEFINE p == n + 1 - i
             j == n + 1 - f[p]
  <2>4. i \in 1 .. n /\ p \in 1 .. n /\ f[p] \in 1 .. n /\ f[p] > p
    OBVIOUS
  <2>5. f[f[p]] > f[p]
    BY <2>4 DEF Increasing
  <2>6. j \in 1 .. n /\ n + 1 - j = f[p] /\ j < i
    <3>1. PICK k \in 1 .. n : k = f[p] /\ k > n + 1 - i
      BY <2>4
    <3>2. n + 1 - k \in 1 .. n /\ n + 1 - (n + 1 - k) = k /\ n + 1 - k < i
      <4>1. n \in Nat /\ i \in 1 .. n
        BY <2>4
      <4>2. k \in 1 .. n /\ k > n + 1 - i
        BY <3>1, Zenon
      <4> HIDE DEF Low, High, p, j
      <4> QED
        BY ONLY <4>1, <4>2
    <3> QED
      BY ONLY <3>1, <3>2
  <2>7. j \in High
    BY <2>5, <2>6
  <2> QED
    BY <2>3, <2>4, <2>6, <2>7
<1>3. ASSUME NEW i \in 1 .. n PROVE f[i] = i
  <2>1. f[i] \in 1 .. n /\ i \notin Low
    BY <1>1
  <2> DEFINE j == n + 1 - i
  <2>2. j \in 1 .. n /\ n + 1 - j = i
    OBVIOUS
  <2>3. j \notin High
    BY <1>2, Zenon
  <2>4. ~(f[i] > i)
    <3> HIDE DEF j
    <3> QED BY <2>2, <2>3
  <2>5. ~(f[i] < i)
    BY <2>1
  <2> QED
    BY <2>1, <2>4, <2>5
<1> QED
  BY <1>3

-------------------------------------------------------------------------------
(* The invariant of the list and of the requests.                          *)

EntryType == [addr : Addrs, agent : Agents, profile : Clients!Profiles \ {None}, last : Nat]
CallType ==
    [at : {"idle", "look", "update", "describe", "use", "served"}, addr : Addrs, agent : Agents,
     info : Clients!Profiles \cup {None}, ptr : Nat, moved : BOOLEAN, shared : BOOLEAN,
     discovery : BOOLEAN, profile : Clients!Profiles \cup {None}]

\* by what a client is known before it is looked for in the list
Known(c) == Clients!Info(c.addr, c.agent)

\* The entry a request holds, and what it was told, are its own.
Holds(c) == c.at \in {"use", "served"} /\ ~c.moved
Own(c, list) == Holds(c) /\ ~c.shared /\ Known(c) # None => c.ptr # 0 /\ list[c.ptr].profile = Known(c)
Told(c) == Holds(c) /\ ~c.shared /\ Known(c) # None /\ c.at = "served" => c.profile = Known(c)
Informed(c) ==
    /\ c.at = "look" => Known(c) = None
    /\ c.at \in {"update", "describe"} => c.info # None
    /\ c.at = "update" => c.info = IF Known(c) = None THEN Unrecognized ELSE Known(c)
    /\ c.at = "describe" => c.info = ByDescription[c.addr]
Good(c, list) == c.ptr <= Len(list) /\ Informed(c) /\ Own(c, list) /\ Told(c)

\* While no discovery was misled: an entry found for a client that is known by a
\* profile of several clients has such a profile, and is not the subject of a
\* description that is downloaded.
Steady(c, list) ==
    /\ Holds(c) /\ Known(c) \in NotUnique => c.ptr # 0 /\ list[c.ptr].profile \in NotUnique
    /\ c.at = "describe" => Known(c) \notin NotUnique

ListType ==
    /\ cache \in Seq(EntryType) /\ room \in Nat /\ now \in Nat /\ Len(cache) <= room
    /\ calls \in [Requests -> CallType]
Past(list, time) == \A i \in DOMAIN list : list[i].last <= time
ServedInv == ListType /\ Past(cache, now) /\ \A r \in Requests : Good(calls[r], cache)

\* the entries of list at some of its places, in their order
Sublist(part1, list) ==
    /\ Len(part1) <= Len(list)
    /\ Len(part1) = Len(list) => part1 = list
    /\ \E f \in [DOMAIN part1 -> DOMAIN list] :
          Increasing(f) /\ \A i \in DOMAIN part1 : part1[i] = list[f[i]]

\* The entries at some places are a sublist.
LEMMA EntriesAtIs ==
    ASSUME cache \in Seq(EntryType), NEW S \in SUBSET DOMAIN cache
    PROVE  Clients!EntriesAt(S) \in Seq(EntryType) /\ Sublist(Clients!EntriesAt(S), cache)
<1> DEFINE n == Len(cache)
           k == Cardinality(S)
           f == Clients!InOrder(S)
           l == Clients!EntriesAt(S)
<1>1. n \in Nat /\ DOMAIN cache = 1 .. n /\ S \in SUBSET (1 .. n)
  OBVIOUS
<1>2. /\ k \in 0 .. n
      /\ f \in [1 .. k -> S] /\ Increasing(f)
      /\ k = n => S = 1 .. n
  <2> HIDE DEF n
  <2> QED BY <1>1, InOrderIs
<1>3. l = [i \in 1 .. k |-> cache[f[i]]]
  <2>1. Clients!Cardinality(S) = Cardinality(S)
    BY DEF Clients!Cardinality, Cardinality
  <2> QED
    BY <2>1 DEF Clients!EntriesAt
<1> HIDE DEF k, f, l
<1>4. \A i \in 1 .. n : cache[i] \in EntryType
  OBVIOUS
<1> HIDE DEF n
<1>5. \A i \in 1 .. k : f[i] \in 1 .. n /\ f[i] \in DOMAIN cache
  BY <1>1, <1>2
<1>6. l \in Seq(EntryType) /\ Len(l) = k /\ DOMAIN l = 1 .. k
  BY <1>1, <1>2, <1>3, <1>4, <1>5
<1>7. f \in [DOMAIN l -> DOMAIN cache] /\ \A i \in DOMAIN l : l[i] = cache[f[i]]
  <2>1. f \in [1 .. k -> DOMAIN cache]
    BY <1>1, <1>2
  <2> QED
    BY <1>3, <1>6, <2>1
<1>8. ASSUME k = n PROVE l = cache
  <2>1. f \in [1 .. n -> 1 .. n]
    BY <1>2, <1>8
  <2>2. \A i \in 1 .. n : f[i] = i
    BY <1>1, <1>2, <2>1, IncreasingIsIdentity
  <2>3. \A i \in 1 .. n : l[i] = cache[i]
    BY <1>6, <1>7, <1>8, <2>2
  <2>4. Len(l) = Len(cache) /\ l \in Seq(EntryType) /\ cache \in Seq(EntryType)
    BY <1>6, <1>8 DEF n
  <2> QED
    BY <2>3, <2>4 DEF n
<1>9. Len(l) <= Len(cache) /\ (Len(l) = Len(cache) => l = cache)
  <2>1. k <= n /\ Len(l) = k /\ Len(cache) = n
    BY <1>2, <1>6 DEF n
  <2> QED
    BY <1>8, <2>1
<1>10. \E g \in [DOMAIN l -> DOMAIN cache] : Increasing(g) /\ \A i \in DOMAIN l : l[i] = cache[g[i]]
  BY <1>2, <1>7, Zenon
<1>11. Sublist(l, cache)
  BY <1>9, <1>10, Zenon DEF Sublist
<1> QED
  BY <1>6, <1>11 DEF l

\* So are those that an update keeps.
LEMMA KeptIs ==
    ASSUME cache \in Seq(EntryType)
    PROVE  Clients!Kept \in Seq(EntryType) /\ Sublist(Clients!Kept, cache)
<1> DEFINE S == {i \in DOMAIN cache : ~Clients!Expired(cache[i])}
<1>1. S \in SUBSET DOMAIN cache
  OBVIOUS
<1>2. Clients!Kept = Clients!EntriesAt(S)
  BY DEF Clients!Kept
<1> HIDE DEF S
<1> QED
  BY <1>1, <1>2, EntriesAtIs

\* A sublist tells of no contact to come.
LEMMA SublistPast ==
    ASSUME NEW list \in Seq(EntryType), NEW l \in Seq(EntryType), Sublist(l, list),
           NEW time \in Nat, Past(list, time)
    PROVE  Past(l, time)
<1>1. PICK f \in [DOMAIN l -> DOMAIN list] : \A i \in DOMAIN l : l[i] = list[f[i]]
  BY Zenon DEF Sublist
<1> QED
  BY <1>1, Zenon DEF Past

-------------------------------------------------------------------------------
(* Pointers.                                                               *)

\* What is known of a client is a profile or nothing.
LEMMA InfoIs ==
    ASSUME NEW a \in Addrs, NEW g \in Agents
    PROVE  Clients!Info(a, g) \in Clients!Profiles \cup {None}
BY DEF Clients!Info, Clients!Profiles

\* The record of a request that does nothing,
LEMMA IdleIsCall ==
    /\ Clients!Idle \in CallType /\ Clients!Idle.at = "idle" /\ Clients!Idle.ptr = 0
    /\ Clients!Idle.moved = FALSE
BY ClientAssumption DEF Clients!Idle, CallType, Clients!Profiles

\* which promises nothing.
LEMMA IdleGood ==
    ASSUME NEW list \in Seq(EntryType) PROVE Good(Clients!Idle, list)
<1>1. 0 <= Len(list)
  OBVIOUS
<1> QED
  BY <1>1, IdleIsCall, Zenon DEF Good, Informed, Own, Told, Holds

SameClient(c, d) == d.addr = c.addr /\ d.agent = c.agent /\ d.info = c.info /\ d.at = c.at
GoesTo(c, p, d) == d = [c EXCEPT !.ptr = p, !.moved = TRUE]
Stays(c, b, d) == d = [c EXCEPT !.moved = @ \/ b]

\* whatever a request waits for or is told, a pointer that was moved promises nothing
LEMMA MovedGood ==
    ASSUME NEW c \in CallType, NEW list, Good(c, list), NEW l \in Seq(EntryType),
           NEW p \in Nat, p <= Len(l), NEW d, GoesTo(c, p, d)
    PROVE  d \in CallType /\ Good(d, l) /\ (Steady(c, list) => Steady(d, l)) /\ SameClient(c, d)
<1>1. d \in CallType
  BY DEF CallType, GoesTo
<1>2. /\ d.at = c.at /\ d.addr = c.addr /\ d.agent = c.agent /\ d.info = c.info
      /\ d.ptr = p /\ d.moved = TRUE
  BY DEF CallType, GoesTo
<1>3. Known(d) = Known(c)
  BY <1>2 DEF Known
<1>4. d.ptr <= Len(l)
  BY <1>2
<1> QED
  BY <1>1, <1>2, <1>3, <1>4, Zenon DEF Good, Informed, Own, Told, Holds, Steady, SameClient

\* and one that was not points to the same profile
LEMMA SameGood ==
    ASSUME NEW c \in CallType, NEW list, Good(c, list), NEW l \in Seq(EntryType), c.ptr <= Len(l),
           NEW b \in BOOLEAN, ~b /\ c.ptr # 0 => l[c.ptr].profile = list[c.ptr].profile,
           NEW d, Stays(c, b, d)
    PROVE  d \in CallType /\ Good(d, l) /\ (Steady(c, list) => Steady(d, l)) /\ SameClient(c, d)
<1>1. d \in CallType
  BY DEF CallType, Stays
<1>2. /\ d.at = c.at /\ d.addr = c.addr /\ d.agent = c.agent /\ d.info = c.info
      /\ d.ptr = c.ptr /\ d.shared = c.shared /\ d.profile = c.profile
  BY DEF CallType, Stays
<1>3. ~d.moved => ~c.moved /\ ~b
  BY DEF CallType, Stays
<1>4. Known(d) = Known(c)
  BY <1>2 DEF Known
<1>5. d.ptr <= Len(l)
  BY <1>2
<1> QED
  BY <1>1, <1>2, <1>3, <1>4, <1>5, Zenon DEF Good, Informed, Own, Told, Holds, Steady, SameClient

\* what becomes of the calls when the list does
Follows(after, l) ==
    /\ after \in [Requests -> CallType]
    /\ \A r \in Requests : /\ Good(after[r], l) /\ SameClient(calls[r], after[r])
                           /\ Steady(calls[r], cache) => Steady(after[r], l)

\* Requests follow a list that is shortened,
LEMMA ShortenedIs ==
    ASSUME ServedInv, NEW l \in Seq(EntryType), Sublist(l, cache)
    PROVE  Follows(Clients!Shortened(Len(l)), l)
<1> DEFINE after == Clients!Shortened(Len(l))
<1>1. ASSUME NEW r \in Requests
      PROVE  /\ after[r] \in CallType /\ Good(after[r], l) /\ SameClient(calls[r], after[r])
             /\ Steady(calls[r], cache) => Steady(after[r], l)
  <2>1. calls[r] \in CallType /\ Good(calls[r], cache) /\ calls[r].ptr \in Nat
    <3>1. calls[r] \in CallType /\ Good(calls[r], cache)
      BY DEF ServedInv, ListType
    <3> QED
      BY <3>1 DEF CallType
  <2>2. Len(l) \in Nat /\ Len(cache) \in Nat /\ Len(l) <= Len(cache) /\ (Len(l) = Len(cache) => l = cache)
    BY DEF ServedInv, ListType, Sublist
  <2>3. after[r] = IF calls[r].ptr > Len(l) THEN [calls[r] EXCEPT !.ptr = 0, !.moved = TRUE]
                   ELSE [calls[r] EXCEPT !.moved = @ \/ Len(l) < Len(cache)]
    BY DEF Clients!Shortened
  <2>4. CASE calls[r].ptr > Len(l)
    <3>1. GoesTo(calls[r], 0, after[r])
      BY <2>3, <2>4 DEF GoesTo
    <3> HIDE DEF after
    <3>2. 0 \in Nat /\ 0 <= Len(l)
      BY <2>2
    <3> QED
      BY <2>1, <3>1, <3>2, MovedGood
  <2>5. CASE ~(calls[r].ptr > Len(l))
    <3> DEFINE b == Len(l) < Len(cache)
    <3>1. Stays(calls[r], b, after[r])
      BY <2>3, <2>5 DEF Stays
    <3>2. calls[r].ptr <= Len(l) /\ b \in BOOLEAN
      BY <2>1, <2>2, <2>5
    <3>3. ~b => l = cache
      BY <2>2
    <3> HIDE DEF after, b
    <3> QED
      BY <2>1, <3>1, <3>2, <3>3, SameGood
  <2> QED
    BY <2>4, <2>5
<1>2. after = [r \in Requests |-> after[r]]
  BY DEF Clients!Shortened
<1> HIDE DEF after
<1>3. after \in [Requests -> CallType]
  BY <1>1, <1>2
<1> QED
  BY <1>1, <1>3 DEF Follows, after

\* one in which an entry is changed,
LEMMA ChangedIs ==
    ASSUME ServedInv, NEW l \in Seq(EntryType)
    PROVE  Follows(Clients!Changed(l), l)
<1> DEFINE after == Clients!Changed(l)
<1>1. ASSUME NEW r \in Requests
      PROVE  /\ after[r] \in CallType /\ Good(after[r], l) /\ SameClient(calls[r], after[r])
             /\ Steady(calls[r], cache) => Steady(after[r], l)
  <2> DEFINE call == Clients!Shortened(Len(l))[r]
             b == call.ptr # 0 /\ cache[call.ptr].profile # l[call.ptr].profile
  <2>1. calls[r] \in CallType /\ Good(calls[r], cache) /\ calls[r].ptr \in Nat
    <3>1. calls[r] \in CallType /\ Good(calls[r], cache)
      BY DEF ServedInv, ListType
    <3> QED
      BY <3>1 DEF CallType
  <2>2. Len(l) \in Nat /\ Len(cache) \in Nat
    BY DEF ServedInv, ListType
  <2>3. call = IF calls[r].ptr > Len(l) THEN [calls[r] EXCEPT !.ptr = 0, !.moved = TRUE]
               ELSE [calls[r] EXCEPT !.moved = @ \/ Len(l) < Len(cache)]
    BY DEF Clients!Shortened
  <2>4. after[r] = [call EXCEPT !.moved = @ \/ b]
    BY Zenon DEF Clients!Changed
  <2> HIDE DEF after, call
  <2>5. CASE calls[r].ptr > Len(l)
    <3>1. call = [calls[r] EXCEPT !.ptr = 0, !.moved = TRUE]
      BY <2>3, <2>5
    <3>2. call.ptr = 0 /\ call.moved = TRUE
      BY <2>1, <3>1 DEF CallType
    <3>3. 0 \in Nat /\ 0 <= Len(l)
      BY <2>2
    <3>6. GoesTo(calls[r], 0, call)
      BY <3>1 DEF GoesTo
    <3>4. /\ call \in CallType /\ Good(call, l) /\ SameClient(calls[r], call)
          /\ Steady(calls[r], cache) => Steady(call, l)
      BY <2>1, <3>6, <3>3, MovedGood
    <3>5. [call EXCEPT !.moved = @ \/ b] = call
      BY <3>2, <3>4 DEF CallType
    <3> QED
      BY <2>4, <3>4, <3>5
  <2>6. CASE ~(calls[r].ptr > Len(l))
    <3> DEFINE c == Len(l) < Len(cache)
               d == c \/ b
    <3>1. call = [calls[r] EXCEPT !.moved = @ \/ c]
      BY <2>3, <2>6
    <3>2. calls[r].ptr <= Len(l)
      BY <2>1, <2>2, <2>6
    <3>3. call.ptr = calls[r].ptr /\ call \in CallType
      BY <2>1, <3>1 DEF CallType
    <3>4. [call EXCEPT !.moved = @ \/ b] = [calls[r] EXCEPT !.moved = @ \/ d]
      BY <2>1, <3>1 DEF CallType
    <3>5. ~d /\ calls[r].ptr # 0 => l[calls[r].ptr].profile = cache[calls[r].ptr].profile
      BY <3>3
    <3>6. d \in BOOLEAN
      OBVIOUS
    <3>7. Stays(calls[r], d, after[r])
      BY <2>4, <3>4 DEF Stays
    <3> HIDE DEF d
    <3> QED
      BY <2>1, <3>2, <3>5, <3>6, <3>7, SameGood
  <2> QED
    BY <2>5, <2>6
<1>2. after = [r \in Requests |-> after[r]]
  BY DEF Clients!Changed
<1> HIDE DEF after
<1>3. after \in [Requests -> CallType]
  BY <1>1, <1>2
<1> QED
  BY <1>1, <1>3 DEF Follows, after

\* and one that is copied to another place.
LEMMA ReallocatedIs ==
    ASSUME ServedInv, NEW l \in Seq(EntryType)
    PROVE  Follows(Clients!Reallocated, l)
<1> DEFINE after == Clients!Reallocated
<1>1. ASSUME NEW r \in Requests
      PROVE  /\ after[r] \in CallType /\ Good(after[r], l) /\ SameClient(calls[r], after[r])
             /\ Steady(calls[r], cache) => Steady(after[r], l)
  <2>1. calls[r] \in CallType /\ Good(calls[r], cache)
    BY DEF ServedInv, ListType
  <2>2. GoesTo(calls[r], 0, after[r])
    BY DEF Clients!Reallocated, GoesTo
  <2>3. 0 \in Nat /\ 0 <= Len(l)
    OBVIOUS
  <2> HIDE DEF after
  <2> QED
    BY <2>1, <2>2, <2>3, MovedGood
<1>2. after = [r \in Requests |-> after[r]]
  BY DEF Clients!Reallocated
<1> HIDE DEF after
<1>3. after \in [Requests -> CallType]
  BY <1>1, <1>2
<1> QED
  BY <1>1, <1>3 DEF Follows, after

-------------------------------------------------------------------------------
(* One entry for each client.                                              *)

\* A profile of which several clients may have one address is matched by the
\* address or the user agent of a client, not by the description of its device.
\* Of the profiles that come with the server this is that of its own address.
KnownDirectly == NotUnique \cap ({Unrecognized} \cup {ByDescription[a] : a \in Addrs}) = {}

\* of the entries of one address only the last may have a profile that is for all
Apart(list) ==
    \A i, j \in DOMAIN list : i < j /\ list[i].addr = list[j].addr =>
        list[i].profile \in NotUnique /\ list[i].agent # list[j].agent
\* and the others have the profile their address or user agent tells
Direct(list) == \A i \in DOMAIN list : list[i].profile \in NotUnique => list[i].profile = Known(list[i])

AllSteady == \A r \in Requests : Steady(calls[r], cache)
ApartInv == Direct(cache) /\ (~misled => Apart(cache) /\ AllSteady)

\* Entries stay apart when others are erased.
LEMMA SublistApart ==
    ASSUME NEW list \in Seq(EntryType), NEW l \in Seq(EntryType), Sublist(l, list)
    PROVE  (Apart(list) => Apart(l)) /\ (Direct(list) => Direct(l))
<1>1. PICK f \in [DOMAIN l -> DOMAIN list] : Increasing(f) /\ \A i \in DOMAIN l : l[i] = list[f[i]]
  BY Zenon DEF Sublist
<1>2. \A i \in DOMAIN l : f[i] \in DOMAIN list /\ l[i] = list[f[i]]
  BY <1>1
<1>3. \A i, j \in DOMAIN l : i < j => f[i] < f[j]
  BY <1>1 DEF Increasing
<1>4. Apart(list) => Apart(l)
  BY <1>2, <1>3 DEF Apart
<1>5. Direct(list) => Direct(l)
  BY <1>2 DEF Direct
<1> QED
  BY <1>4, <1>5

\* what is known of a client when its entry is renewed or made
OwnProfile(addr, agent, info) == info \in NotUnique => info = Clients!Info(addr, agent)
StaysOwn(addr, agent, info) == Clients!Info(addr, agent) \in NotUnique => info = Clients!Info(addr, agent)

\* A renewed entry has the profile that is known now.
LEMMA RenewedIs ==
    ASSUME NEW e \in EntryType, NEW agent \in Agents, NEW info \in Clients!Profiles \ {None}, now \in Nat
    PROVE  /\ Clients!Renewed(e, agent, info) \in EntryType
           /\ Clients!Renewed(e, agent, info).addr = e.addr
           /\ Clients!Renewed(e, agent, info).profile = info
           /\ Clients!Renewed(e, agent, info).agent = IF e.profile = info THEN e.agent ELSE agent
           /\ Clients!Renewed(e, agent, info).last = now
<1>1. CASE e.profile = info
  BY <1>1 DEF Clients!Renewed, EntryType
<1>2. CASE e.profile # info
  BY <1>2 DEF Clients!Renewed, Clients!Entry, EntryType
<1> QED
  BY <1>1, <1>2

Renews(list, l, place, agent, info) == list = [l EXCEPT ![place] = Clients!Renewed(@, agent, info)]
Appends(list, l, addr, agent, info) == list = Append(l, Clients!Entry(addr, agent, info))

\* Entries stay apart when the first one that matches is renewed,
LEMMA RenewedApart ==
    ASSUME NEW l \in Seq(EntryType), NEW place \in DOMAIN l, NEW agent \in Agents,
           NEW info \in Clients!Profiles \ {None}, now \in Nat,
           Clients!Matches(l[place], l[place].addr, agent),
           \A i \in DOMAIN l : i < place => ~Clients!Matches(l[i], l[place].addr, agent),
           NEW list, Renews(list, l, place, agent, info)
    PROVE  /\ list \in Seq(EntryType) /\ Len(list) = Len(l)
           /\ list[place].profile = info /\ (Past(l, now) => Past(list, now))
           /\ Direct(l) /\ OwnProfile(l[place].addr, agent, info) => Direct(list)
           /\ Direct(l) /\ Apart(l) /\ StaysOwn(l[place].addr, agent, info) => Apart(list)
<1> DEFINE old == l[place]
<1>1. PICK e : e = Clients!Renewed(old, agent, info)
  OBVIOUS
<1>2. old \in EntryType
  OBVIOUS
<1>3. /\ e \in EntryType /\ e.addr = old.addr /\ e.profile = info
      /\ e.agent = IF old.profile = info THEN old.agent ELSE agent
  BY <1>1, <1>2, RenewedIs
<1>4. list = [l EXCEPT ![place] = e]
  BY <1>1 DEF Renews
<1>5. list \in Seq(EntryType) /\ Len(list) = Len(l) /\ DOMAIN list = DOMAIN l
  BY <1>3, <1>4
<1>6. list[place] = e /\ \A i \in DOMAIN l : i # place => list[i] = l[i]
  BY <1>4
<1>7. ASSUME Direct(l), OwnProfile(old.addr, agent, info) PROVE Direct(list)
  <2>1. SUFFICES ASSUME NEW i \in DOMAIN l, list[i].profile \in NotUnique PROVE list[i].profile = Known(list[i])
    BY <1>5 DEF Direct
  <2>2. CASE i # place
    BY <1>6, <1>7, <2>1, <2>2 DEF Direct
  <2>3. CASE i = place /\ old.profile = info
    <3>1. Known(e) = Known(old) /\ old.profile = Known(old)
      BY <1>3, <1>6, <1>7, <2>1, <2>3 DEF Known, Direct
    <3> QED
      BY <1>3, <1>6, <2>3, <3>1
  <2>4. CASE i = place /\ old.profile # info
    <3>1. Known(e) = Clients!Info(old.addr, agent)
      BY <1>3, <2>4 DEF Known
    <3> QED
      BY <1>3, <1>6, <1>7, <2>1, <2>4, <3>1 DEF OwnProfile
  <2> QED
    BY <2>2, <2>3, <2>4
<1>8. ASSUME Direct(l), Apart(l), StaysOwn(old.addr, agent, info) PROVE Apart(list)
  <2>1. SUFFICES ASSUME NEW i \in DOMAIN l, NEW j \in DOMAIN l, i < j, list[i].addr = list[j].addr
                 PROVE  list[i].profile \in NotUnique /\ list[i].agent # list[j].agent
    BY <1>5, Zenon DEF Apart
  <2>2. l[i].addr = l[j].addr
    BY <1>3, <1>6, <2>1
  <2>3. l[i].profile \in NotUnique /\ l[i].agent # l[j].agent
    BY <1>8, <2>1, <2>2 DEF Apart
  <2>4. i # j
    BY <2>1
  <2>5. CASE i # place /\ j # place
    BY <1>6, <2>3, <2>5
  <2>6. CASE j = place
    <3>1. ~Clients!Matches(l[i], old.addr, agent) /\ l[i].addr = old.addr
      BY <2>1, <2>2, <2>6
    <3>2. l[i].agent # agent
      BY <3>1 DEF Clients!Matches
    <3>3. e.agent \in {l[j].agent, agent}
      BY <1>3, <2>6
    <3> QED
      BY <1>6, <2>3, <2>4, <2>6, <3>2, <3>3
  <2>7. CASE i = place
    <3>1. old.agent = agent /\ old.profile = Known(old)
      BY <1>8, <2>3, <2>7 DEF Clients!Matches, Direct
    <3>2. info = old.profile
      <4>1. Known(old) = Clients!Info(old.addr, agent)
        BY <3>1 DEF Known
      <4> QED
        BY <1>8, <2>3, <2>7, <3>1, <4>1 DEF StaysOwn
    <3> QED
      BY <1>3, <1>6, <2>3, <2>4, <2>7, <3>2
  <2> QED
    BY <2>5, <2>6, <2>7
<1>9. ASSUME Past(l, now) PROVE Past(list, now)
  <2>1. e.last = now
    BY <1>1, <1>2, RenewedIs
  <2> QED
    BY <1>5, <1>6, <1>9, <2>1 DEF Past
<1>10. list[place].profile = info
  BY <1>3, <1>6
<1> QED
  BY <1>5, <1>7, <1>8, <1>9, <1>10

\* and when none matches and one is appended.
LEMMA AppendedApart ==
    ASSUME NEW l \in Seq(EntryType), NEW addr \in Addrs, NEW agent \in Agents,
           NEW info \in Clients!Profiles \ {None}, now \in Nat,
           \A i \in DOMAIN l : ~Clients!Matches(l[i], addr, agent),
           NEW list, Appends(list, l, addr, agent, info)
    PROVE  /\ list \in Seq(EntryType) /\ Len(list) = Len(l) + 1
           /\ list[Len(list)].addr = addr /\ list[Len(list)].profile = info
           /\ Past(l, now) => Past(list, now)
           /\ Direct(l) /\ OwnProfile(addr, agent, info) => Direct(list)
           /\ Apart(l) => Apart(list)
<1>1. PICK e : e = Clients!Entry(addr, agent, info)
  OBVIOUS
<1>2. e \in EntryType /\ e.addr = addr /\ e.agent = agent /\ e.profile = info /\ e.last = now
  BY <1>1 DEF Clients!Entry, EntryType
<1>3. /\ list \in Seq(EntryType) /\ Len(list) = Len(l) + 1 /\ DOMAIN list = 1 .. Len(l) + 1
      /\ DOMAIN l = 1 .. Len(l) /\ Len(l) \in Nat
      /\ list[Len(l) + 1] = e /\ \A i \in 1 .. Len(l) : list[i] = l[i]
  BY <1>1, <1>2 DEF Appends
<1>4. ASSUME Direct(l), OwnProfile(addr, agent, info) PROVE Direct(list)
  <2>1. SUFFICES ASSUME NEW i \in DOMAIN list, list[i].profile \in NotUnique PROVE list[i].profile = Known(list[i])
    BY DEF Direct
  <2>2. CASE i \in DOMAIN l
    BY <1>3, <1>4, <2>1, <2>2 DEF Direct
  <2>3. CASE i \notin DOMAIN l
    <3>1. list[i] = e
      BY <1>3, <2>3
    <3> QED
      BY <1>2, <1>4, <2>1, <3>1 DEF Known, OwnProfile
  <2> QED
    BY <2>2, <2>3
<1>5. ASSUME Apart(l) PROVE Apart(list)
  <2>1. SUFFICES ASSUME NEW i \in DOMAIN list, NEW j \in DOMAIN list, i < j, list[i].addr = list[j].addr
                 PROVE  list[i].profile \in NotUnique /\ list[i].agent # list[j].agent
    BY Zenon DEF Apart
  <2>2. i \in DOMAIN l /\ list[i] = l[i]
    BY <1>3, <2>1
  <2>3. CASE j \in DOMAIN l
    <3>1. list[j] = l[j]
      BY <1>3, <2>3
    <3> QED
      BY <1>5, <2>1, <2>2, <2>3, <3>1 DEF Apart
  <2>4. CASE j \notin DOMAIN l
    <3>1. list[j] = e
      BY <1>3, <2>4
    <3>2. ~Clients!Matches(l[i], addr, agent) /\ l[i].addr = addr
      BY <1>2, <2>1, <2>2, <3>1
    <3> QED
      BY <1>2, <2>2, <3>1, <3>2 DEF Clients!Matches
  <2> QED
    BY <2>3, <2>4
<1>6. ASSUME Past(l, now) PROVE Past(list, now)
  <2>1. SUFFICES ASSUME NEW i \in DOMAIN list PROVE list[i].last <= now
    BY DEF Past
  <2>2. CASE i \in DOMAIN l
    BY <1>3, <1>6, <2>2 DEF Past
  <2>3. CASE i \notin DOMAIN l
    <3>1. list[i] = e
      BY <1>3, <2>3
    <3> QED
      BY <1>2, <3>1
  <2> QED
    BY <2>2, <2>3
<1>7. list[Len(list)] = e
  BY <1>3
<1> QED
  BY <1>2, <1>3, <1>4, <1>5, <1>6, <1>7

-------------------------------------------------------------------------------
(* The steps.                                                              *)

\* Only the call of one request changes.
LEMMA CallChanges ==
    ASSUME ServedInv, NEW r \in Requests, NEW d \in CallType, Good(d, cache),
           calls' = [calls EXCEPT ![r] = d], UNCHANGED <<cache, room, now>>
    PROVE  /\ ServedInv'
           /\ ApartInv /\ (misled => misled') /\ (~misled' => Steady(d, cache)) => ApartInv'
<1>1. calls \in [Requests -> CallType]
  BY DEF ServedInv, ListType
<1>2. PICK after : after = calls'
  OBVIOUS
<1>3. after \in [Requests -> CallType] /\ \A q \in Requests : after[q] = IF q = r THEN d ELSE calls[q]
  BY <1>1, <1>2
<1>4. ListType' /\ Past(cache, now)'
  BY <1>2, <1>3 DEF ServedInv, ListType, Past
<1>5. ASSUME NEW q \in Requests PROVE Good(after[q], cache)
  BY <1>3, Zenon DEF ServedInv
<1>6. ASSUME NEW q \in Requests PROVE Good(calls[q], cache)'
  <2>1. calls'[q] = after[q] /\ cache' = cache
    BY <1>2
  <2> QED
    BY <1>5, <2>1
<1>7. ServedInv'
  BY <1>4, <1>6 DEF ServedInv
<1>8. ASSUME ApartInv, misled => misled', ~misled' => Steady(d, cache) PROVE ApartInv'
  <2>1. cache' = cache /\ Direct(cache)
    BY <1>8 DEF ApartInv
  <2>2. Direct(cache')
    BY <2>1
  <2>3. ASSUME ~misled' PROVE Apart(cache') /\ AllSteady'
    <3>1. Apart(cache) /\ AllSteady /\ Steady(d, cache)
      BY <1>8, <2>3 DEF ApartInv
    <3>2. ASSUME NEW q \in Requests PROVE Steady(calls[q], cache)'
      <4>1. Steady(after[q], cache)
        BY <1>3, <3>1, Zenon DEF AllSteady
      <4>2. calls'[q] = after[q]
        BY <1>2
      <4> QED
        BY <2>1, <4>1, <4>2
    <3> QED
      BY <2>1, <3>1, <3>2 DEF AllSteady
  <2> QED
    BY <2>2, <2>3 DEF ApartInv
<1> QED
  BY <1>7, <1>8

AllGood(after, l) == after \in [Requests -> CallType] /\ \A q \in Requests : Good(after[q], l)
Steadies(after, l) == \A q \in Requests : Steady(after[q], l)

\* What follows a list is right in it.
LEMMA FollowsIs ==
    ASSUME NEW after, NEW l, Follows(after, l)
    PROVE  AllGood(after, l) /\ (AllSteady => Steadies(after, l))
BY Zenon DEF Follows, AllGood, AllSteady, Steadies

\* The list changes, and the calls with it.
LEMMA ListChanges ==
    ASSUME NEW l \in Seq(EntryType), NEW after, cache' = l, calls' = after,
           Past(l, now'), AllGood(after, l), now' \in Nat, room' \in Nat, Len(l) <= room'
    PROVE  /\ ServedInv'
           /\ Direct(l) /\ (~misled' => Apart(l) /\ Steadies(after, l)) => ApartInv'
<1>1. ListType' /\ Past(cache, now)'
  BY DEF ListType, AllGood, Past
<1>2. ASSUME NEW q \in Requests PROVE Good(calls[q], cache)'
  <2>1. Good(after[q], l)
    BY Zenon DEF AllGood
  <2>2. calls'[q] = after[q]
    OBVIOUS
  <2> QED
    BY <2>1, <2>2
<1>3. ServedInv'
  BY <1>1, <1>2 DEF ServedInv
<1>4. ASSUME Direct(l), ~misled' => Apart(l) /\ Steadies(after, l) PROVE ApartInv'
  <2>1. Direct(cache')
    BY <1>4
  <2>2. ASSUME ~misled' PROVE Apart(cache') /\ AllSteady'
    <3>1. Apart(l) /\ Steadies(after, l)
      BY <1>4, <2>2
    <3>2. ASSUME NEW q \in Requests PROVE Steady(calls[q], cache)'
      <4>1. Steady(after[q], l)
        BY <3>1, Zenon DEF Steadies
      <4>2. calls'[q] = after[q]
        OBVIOUS
      <4> QED
        BY <4>1, <4>2
    <3> QED
      BY <3>1, <3>2 DEF AllSteady
  <2> QED
    BY <2>1, <2>2 DEF ApartInv
<1> QED
  BY <1>3, <1>4

\* What ServedInv tells of one request.
LEMMA CallIs ==
    ASSUME ServedInv, NEW r \in Requests
    PROVE  calls[r] \in CallType /\ Good(calls[r], cache)
BY DEF ServedInv, ListType

\* A request asks: nothing is held yet.
LEMMA AskStep ==
    ASSUME ServedInv, NEW r \in Requests, NEW addr \in Addrs, NEW agent \in Agents, NEW discovery \in BOOLEAN,
           Clients!Ask(r, addr, agent, discovery)
    PROVE  ServedInv' /\ (KnownDirectly /\ ApartInv => ApartInv')
<1>1. PICK known : known = Clients!Info(addr, agent) /\ known \in Clients!Profiles \cup {None}
  BY InfoIs
<1>2. PICK at : at = IF known = None THEN "look" ELSE "update"
  OBVIOUS
<1>3. PICK d : d = [Clients!Idle EXCEPT !.addr = addr, !.agent = agent, !.info = known, !.discovery = discovery, !.at = at]
  OBVIOUS
<1>4. calls' = [calls EXCEPT ![r] = d] /\ UNCHANGED <<cache, room, now, misled>>
  BY <1>1, <1>2, <1>3, Zenon DEF Clients!Ask
<1>5. /\ d \in CallType /\ d.addr = addr /\ d.agent = agent /\ d.info = known /\ d.at = at /\ d.ptr = 0
  BY <1>1, <1>2, <1>3, IdleIsCall DEF CallType
<1>6. Known(d) = known
  BY <1>1, <1>5 DEF Known
<1>7. d.ptr <= Len(cache)
  BY <1>5 DEF ServedInv, ListType
<1>8. d.at \in {"look", "update"}
  BY <1>2, <1>5
<1>9. Informed(d)
  BY <1>2, <1>5, <1>6, <1>8 DEF Informed
<1>10. Good(d, cache) /\ Steady(d, cache)
  BY <1>7, <1>8, <1>9 DEF Good, Own, Told, Holds, Steady
<1> QED
  BY <1>4, <1>5, <1>10, CallChanges

\* An entry that was found belongs to a client of which nothing is known.
LEMMA LookStep ==
    ASSUME ServedInv, NEW r \in Requests, Clients!Look(r)
    PROVE  ServedInv' /\ (KnownDirectly /\ ApartInv => ApartInv')
<1>1. PICK c : c = calls[r] /\ c \in CallType /\ Good(c, cache)
  BY CallIs
<1>2. c.at = "look" /\ Known(c) = None
  BY <1>1 DEF Clients!Look, Good, Informed
<1>3. PICK place : place = Clients!First(Clients!Places(cache, c.addr, c.agent))
  OBVIOUS
<1>4. place \in Nat /\ place <= Len(cache)
  <2> DEFINE n == Len(cache)
             S == Clients!Places(cache, c.addr, c.agent)
  <2>1. n \in Nat /\ S \in SUBSET (1 .. n)
    BY DEF Clients!Places, ServedInv, ListType
  <2> HIDE DEF n, S
  <2>2. (S = {} => Clients!First(S) = 0) /\ (S # {} => Clients!First(S) \in 1 .. n)
    BY <2>1, FirstIs
  <2>3. place = 0 \/ place \in 1 .. n
    BY <1>3, <2>2 DEF S
  <2>4. place \in Nat /\ place <= n
    BY <2>1, <2>3
  <2> QED
    BY <2>4 DEF n
<1>5. UNCHANGED <<cache, room, now, misled>>
  BY DEF Clients!Look
<1>6. CASE place = 0
  <2>1. PICK d : d = [c EXCEPT !.info = Unrecognized, !.at = "update"]
    OBVIOUS
  <2>2. calls' = [calls EXCEPT ![r] = d]
    <3>1. calls' = [calls EXCEPT ![r].info = Unrecognized, ![r].at = "update"]
      BY <1>1, <1>3, <1>6, Zenon DEF Clients!Look
    <3> QED
      BY <1>1, <2>1, <3>1 DEF ServedInv, ListType
  <2>3. Unrecognized \in Clients!Profiles /\ Unrecognized # None
    BY ClientAssumption DEF Clients!Profiles
  <2>4. /\ d \in CallType /\ d.at = "update" /\ d.info = Unrecognized /\ d.ptr = c.ptr
        /\ d.addr = c.addr /\ d.agent = c.agent
    BY <1>1, <2>1, <2>3 DEF CallType
  <2>5. Known(d) = None
    BY <1>2, <2>4 DEF Known
  <2>6. d.ptr <= Len(cache)
    BY <1>1, <2>4 DEF Good
  <2>7. Good(d, cache) /\ Steady(d, cache)
    BY <2>3, <2>4, <2>5, <2>6 DEF Good, Informed, Own, Told, Holds, Steady
  <2> QED
    BY <1>5, <2>2, <2>4, <2>7, CallChanges
<1>7. CASE place # 0
  <2>1. PICK d : d = [c EXCEPT !.ptr = place, !.at = "use", !.moved = FALSE]
    OBVIOUS
  <2>2. calls' = [calls EXCEPT ![r] = d]
    <3>1. calls' = [calls EXCEPT ![r].ptr = place, ![r].at = "use", ![r].moved = FALSE]
      BY <1>1, <1>3, <1>7, Zenon DEF Clients!Look
    <3> QED
      BY <1>1, <2>1, <3>1 DEF ServedInv, ListType
  <2>4. d \in CallType /\ d.at = "use" /\ d.ptr = place /\ d.addr = c.addr /\ d.agent = c.agent
    BY <1>1, <1>4, <2>1 DEF CallType
  <2>5. Known(d) = None
    BY <1>2, <2>4 DEF Known
  <2>6. d.ptr <= Len(cache)
    BY <1>4, <2>4
  <2>7. Good(d, cache) /\ Steady(d, cache)
    BY <2>4, <2>5, <2>6, ClientAssumption DEF Good, Informed, Own, Told, Holds, Steady
  <2> QED
    BY <1>5, <2>2, <2>4, <2>7, CallChanges
<1> QED
  BY <1>6, <1>7

\* The profile a request reads.
LEMMA HeldIs ==
    ASSUME ServedInv, NEW r \in Requests
    PROVE  /\ Clients!Held(r) \in Clients!Profiles \cup {None}
           /\ calls[r].ptr # 0 => Clients!Held(r) = cache[calls[r].ptr].profile
<1>1. calls[r] \in CallType /\ calls[r].ptr \in Nat /\ calls[r].ptr <= Len(cache)
  BY CallIs DEF CallType, Good
<1>2. CASE calls[r].ptr = 0
  BY <1>2 DEF Clients!Held
<1>3. CASE calls[r].ptr # 0
  <2>1. cache \in Seq(EntryType)
    BY DEF ServedInv, ListType
  <2>2. cache[calls[r].ptr] \in EntryType
    BY <1>1, <1>3, <2>1
  <2> QED
    BY <1>3, <2>2 DEF Clients!Held, EntryType
<1> QED
  BY <1>2, <1>3

\* A request uses its entry; a discovery may download a description.
LEMMA UseStep ==
    ASSUME ServedInv, NEW r \in Requests, Clients!Use(r)
    PROVE  ServedInv' /\ (KnownDirectly /\ ApartInv => ApartInv')
<1>1. PICK c : c = calls[r] /\ c \in CallType /\ Good(c, cache)
  BY CallIs
<1>2. PICK held : held = Clients!Held(r) /\ held \in Clients!Profiles \cup {None}
  BY HeldIs
<1>3. c.ptr # 0 => held = cache[c.ptr].profile
  BY <1>1, <1>2, HeldIs
<1>4. c.at = "use" /\ UNCHANGED <<cache, room, now>> /\ misled' = (misled \/ (c.discovery /\ c.moved))
  BY <1>1 DEF Clients!Use
<1>5. misled => misled'
  BY <1>4
<1>6. c.ptr <= Len(cache)
  BY <1>1 DEF Good
<1>7. CASE c.discovery /\ held = Unrecognized /\ ByDescription[c.addr] # None
  <2>1. PICK d : d = [c EXCEPT !.info = ByDescription[c.addr], !.at = "describe"]
    OBVIOUS
  <2>2. calls' = [calls EXCEPT ![r] = d]
    <3>1. calls' = [calls EXCEPT ![r].info = ByDescription[calls[r].addr], ![r].at = "describe"]
      BY <1>1, <1>2, <1>7, Zenon DEF Clients!Use
    <3> QED
      BY <1>1, <2>1, <3>1 DEF ServedInv, ListType
  <2>3. ByDescription[c.addr] \in Clients!Profiles
    BY <1>1 DEF Clients!Profiles, CallType
  <2>4. /\ d \in CallType /\ d.at = "describe" /\ d.info = ByDescription[c.addr] /\ d.ptr = c.ptr
        /\ d.addr = c.addr /\ d.agent = c.agent
    BY <1>1, <2>1, <2>3 DEF CallType
  <2>5. Known(d) = Known(c)
    BY <2>4 DEF Known
  <2>6. d.ptr <= Len(cache)
    BY <1>6, <2>4
  <2>7. Good(d, cache)
    BY <1>7, <2>4, <2>6 DEF Good, Informed, Own, Told, Holds
  <2>8. ASSUME KnownDirectly, ApartInv, ~misled' PROVE Steady(d, cache)
    <3>1. ~misled /\ ~c.moved
      BY <1>4, <1>7, <2>8
    <3>2. Steady(c, cache)
      BY <1>1, <2>8, <3>1 DEF ApartInv, AllSteady
    <3>3. Unrecognized \notin NotUnique
      BY <2>8 DEF KnownDirectly
    <3>4. Known(c) \notin NotUnique
      BY <1>3, <1>4, <1>7, <3>1, <3>2, <3>3 DEF Steady, Holds
    <3> QED
      BY <2>4, <2>5, <3>4 DEF Steady, Holds
  <2> QED
    BY <1>4, <1>5, <2>2, <2>4, <2>7, <2>8, CallChanges
<1>8. CASE c.discovery /\ ~(held = Unrecognized /\ ByDescription[c.addr] # None)
  <2>1. calls' = [calls EXCEPT ![r] = Clients!Idle]
    BY <1>1, <1>2, <1>8, Zenon DEF Clients!Use
  <2>2. cache \in Seq(EntryType)
    BY DEF ServedInv, ListType
  <2>3. Good(Clients!Idle, cache)
    BY <2>2, IdleGood
  <2>4. Steady(Clients!Idle, cache)
    BY IdleIsCall DEF Steady, Holds
  <2> QED
    BY <1>4, <1>5, <2>1, <2>3, <2>4, IdleIsCall, CallChanges
<1>9. CASE ~c.discovery
  <2>1. PICK d : d = [c EXCEPT !.profile = held, !.at = "served"]
    OBVIOUS
  <2>2. calls' = [calls EXCEPT ![r] = d]
    <3>1. calls' = [calls EXCEPT ![r].profile = Clients!Held(r), ![r].at = "served"]
      BY <1>1, <1>9, Zenon DEF Clients!Use
    <3> QED
      BY <1>1, <1>2, <2>1, <3>1 DEF ServedInv, ListType
  <2>4. /\ d \in CallType /\ d.at = "served" /\ d.profile = held /\ d.ptr = c.ptr
        /\ d.addr = c.addr /\ d.agent = c.agent /\ d.moved = c.moved /\ d.shared = c.shared
    BY <1>1, <1>2, <2>1 DEF CallType
  <2>5. Known(d) = Known(c)
    BY <2>4 DEF Known
  <2>6. d.ptr <= Len(cache)
    BY <1>6, <2>4
  <2>7. Own(c, cache)
    BY <1>1 DEF Good
  <2>8. Good(d, cache)
    BY <1>3, <1>4, <2>4, <2>5, <2>6, <2>7, Zenon DEF Good, Informed, Own, Told, Holds
  <2>9. Steady(c, cache) => Steady(d, cache)
    BY <1>4, <2>4, <2>5, Zenon DEF Steady, Holds
  <2>10. ASSUME ApartInv, ~misled' PROVE Steady(d, cache)
    <3>1. Steady(c, cache)
      BY <1>1, <1>4, <2>10, Zenon DEF ApartInv, AllSteady
    <3> QED
      BY <2>9, <3>1
  <2> QED
    BY <1>4, <1>5, <2>2, <2>4, <2>8, <2>10, CallChanges
<1> QED
  BY <1>7, <1>8, <1>9

\* The next callback, or the last.
LEMMA ServedStep ==
    ASSUME ServedInv, NEW r \in Requests, Clients!Callback(r) \/ Clients!End(r)
    PROVE  ServedInv' /\ (KnownDirectly /\ ApartInv => ApartInv')
<1>1. PICK c : c = calls[r] /\ c \in CallType /\ Good(c, cache)
  BY CallIs
<1>2. c.at = "served" /\ UNCHANGED <<cache, room, now, misled>>
  BY <1>1 DEF Clients!Callback, Clients!End
<1>3. CASE Clients!Callback(r)
  <2>1. PICK d : d = [c EXCEPT !.at = "use"]
    OBVIOUS
  <2>2. calls' = [calls EXCEPT ![r] = d]
    BY <1>1, <1>3, <2>1 DEF Clients!Callback, ServedInv, ListType
  <2>3. /\ d \in CallType /\ d.at = "use" /\ d.ptr = c.ptr
        /\ d.addr = c.addr /\ d.agent = c.agent /\ d.moved = c.moved /\ d.shared = c.shared
    BY <1>1, <2>1 DEF CallType
  <2>4. Known(d) = Known(c)
    BY <2>3 DEF Known
  <2>5. d.ptr <= Len(cache) /\ Own(c, cache)
    BY <1>1, <2>3 DEF Good
  <2>6. Good(d, cache)
    BY <1>2, <2>3, <2>4, <2>5, Zenon DEF Good, Informed, Own, Told, Holds
  <2>7. ASSUME ApartInv, ~misled' PROVE Steady(d, cache)
    <3>1. Steady(c, cache)
      BY <1>1, <1>2, <2>7, Zenon DEF ApartInv, AllSteady
    <3> QED
      BY <1>2, <2>3, <2>4, <3>1, Zenon DEF Steady, Holds
  <2> QED
    BY <1>2, <2>2, <2>3, <2>6, <2>7, CallChanges
<1>4. CASE Clients!End(r)
  <2>1. calls' = [calls EXCEPT ![r] = Clients!Idle]
    BY <1>4 DEF Clients!End
  <2>2. cache \in Seq(EntryType)
    BY DEF ServedInv, ListType
  <2>3. Good(Clients!Idle, cache)
    BY <2>2, IdleGood
  <2>4. Steady(Clients!Idle, cache)
    BY IdleIsCall DEF Steady, Holds
  <2> QED
    BY <1>2, <2>1, <2>3, <2>4, IdleIsCall, CallChanges
<1> QED
  BY <1>3, <1>4

\* what is known at a change of the list
LEMMA UpdateKnows ==
    ASSUME ServedInv, NEW r \in Requests, calls[r].at \in {"update", "describe"}, KnownDirectly, ApartInv
    PROVE  /\ OwnProfile(calls[r].addr, calls[r].agent, calls[r].info)
           /\ ~misled => StaysOwn(calls[r].addr, calls[r].agent, calls[r].info)
<1>1. PICK c : c = calls[r] /\ c \in CallType /\ Good(c, cache)
  BY CallIs
<1>2. Known(c) = Clients!Info(c.addr, c.agent)
  BY DEF Known
<1>3. ASSUME c.info \in NotUnique PROVE c.info = Known(c)
  <2>1. c.info # Unrecognized /\ \A a \in Addrs : c.info # ByDescription[a]
    BY <1>3 DEF KnownDirectly
  <2>2. c.addr \in Addrs
    BY <1>1 DEF CallType
  <2> QED
    BY <1>1, <2>1, <2>2 DEF Good, Informed
<1>4. ASSUME ~misled, Known(c) \in NotUnique PROVE c.info = Known(c)
  <2>1. Steady(c, cache)
    BY <1>1, <1>4, Zenon DEF ApartInv, AllSteady
  <2>2. c.at = "update" /\ Known(c) # None
    BY <1>1, <1>4, <2>1, ClientAssumption DEF Steady
  <2> QED
    BY <1>1, <2>2 DEF Good, Informed
<1> QED
  BY <1>1, <1>2, <1>3, <1>4 DEF OwnProfile, StaysOwn

\* The request that updated the list holds the entry it updated.
LEMMA HoldingIs ==
    ASSUME ServedInv, NEW r \in Requests, calls[r].at \in {"update", "describe"},
           NEW list \in Seq(EntryType), NEW others, Follows(others, list),
           NEW place \in 1 .. Len(list), NEW shared \in BOOLEAN,
           ~shared => list[place].profile = calls[r].info,
           NEW after, after = Clients!Holding(r, place, others, shared)
    PROVE  /\ AllGood(after, list)
           /\ AllSteady /\ (Known(calls[r]) \in NotUnique => list[place].profile \in NotUnique)
                => Steadies(after, list)
<1>1. PICK c : c = calls[r] /\ c \in CallType /\ Good(c, cache)
  BY CallIs
<1>2. others \in [Requests -> CallType]
  BY DEF Follows
<1>3. others[r] \in CallType /\ SameClient(c, others[r])
  BY <1>1, <1>2, Zenon DEF Follows
<1>4. AllGood(others, list) /\ (AllSteady => Steadies(others, list))
  BY FollowsIs
<1>5. PICK d : d = IF c.at = "describe" THEN Clients!Idle
                   ELSE [others[r] EXCEPT !.at = "use", !.moved = FALSE, !.ptr = place, !.shared = shared]
  OBVIOUS
<1>6. after = [others EXCEPT ![r] = d]
  <2>1. CASE c.at = "describe"
    BY <1>1, <1>5, <2>1 DEF Clients!Holding
  <2>2. CASE c.at # "describe"
    BY <1>1, <1>2, <1>5, <2>2 DEF Clients!Holding
  <2> QED
    BY <2>1, <2>2
<1>7. /\ d \in CallType /\ Good(d, list)
      /\ (Known(c) \in NotUnique => list[place].profile \in NotUnique) => Steady(d, list)
  <2>1. CASE c.at = "describe"
    BY <1>5, <2>1, IdleIsCall, IdleGood DEF Steady, Holds
  <2>2. CASE c.at = "update"
    <3>1. place \in Nat /\ place # 0 /\ place <= Len(list)
      OBVIOUS
    <3>2. d = [others[r] EXCEPT !.at = "use", !.moved = FALSE, !.ptr = place, !.shared = shared]
      BY <1>5, <2>2
    <3>3. /\ d \in CallType /\ d.at = "use" /\ d.ptr = place /\ d.shared = shared
          /\ d.addr = others[r].addr /\ d.agent = others[r].agent
      BY <1>3, <3>1, <3>2 DEF CallType
    <3>4. Known(d) = Known(c)
      BY <1>3, <3>3 DEF Known, SameClient
    <3>5. Known(c) # None => c.info = Known(c)
      BY <1>1, <2>2 DEF Good, Informed
    <3>6. d.ptr <= Len(list)
      BY <3>1, <3>3
    <3>7. Own(d, list)
      BY <1>1, <3>1, <3>3, <3>4, <3>5 DEF Own
    <3>8. Good(d, list)
      BY <3>3, <3>6, <3>7 DEF Good, Informed, Told
    <3>9. (Known(c) \in NotUnique => list[place].profile \in NotUnique) => Steady(d, list)
      BY <3>1, <3>3, <3>4 DEF Steady
    <3> QED
      BY <3>3, <3>8, <3>9
  <2> QED
    BY <1>1, <2>1, <2>2
<1>8. after \in [Requests -> CallType] /\ \A q \in Requests : after[q] = IF q = r THEN d ELSE others[q]
  BY <1>2, <1>6, <1>7
<1>9. AllGood(after, list)
  BY <1>4, <1>7, <1>8, Zenon DEF AllGood
<1>10. ASSUME AllSteady, Known(c) \in NotUnique => list[place].profile \in NotUnique PROVE Steadies(after, list)
  BY <1>4, <1>7, <1>8, <1>10, Zenon DEF Steadies
<1> QED
  BY <1>1, <1>9, <1>10

\* What is kept of a list satisfies the invariant.
LEMMA KeptFacts ==
    ASSUME ServedInv
    PROVE  /\ Clients!Kept \in Seq(EntryType) /\ Sublist(Clients!Kept, cache)
           /\ Past(Clients!Kept, now) /\ Len(Clients!Kept) <= Len(cache) /\ now \in Nat /\ room \in Nat
           /\ Len(Clients!Kept) \in Nat /\ Len(Clients!Kept) <= room
           /\ Direct(cache) => Direct(Clients!Kept)
           /\ Apart(cache) => Apart(Clients!Kept)
<1>1. cache \in Seq(EntryType) /\ now \in Nat /\ Past(cache, now) /\ room \in Nat /\ Len(cache) <= room
  BY DEF ServedInv, ListType
<1>2. PICK l : l = Clients!Kept /\ l \in Seq(EntryType) /\ Sublist(l, cache)
  BY <1>1, KeptIs
<1>3. Past(l, now) /\ (Direct(cache) => Direct(l)) /\ (Apart(cache) => Apart(l))
  BY <1>1, <1>2, SublistPast, SublistApart
<1>4. Len(l) <= Len(cache) /\ Len(l) \in Nat /\ Len(cache) \in Nat
  BY <1>1, <1>2 DEF Sublist
<1>5. Len(l) <= room
  BY <1>1, <1>4
<1> QED
  BY <1>1, <1>2, <1>3, <1>4, <1>5

\* An entry that matches is renewed.
LEMMA RefreshStep ==
    ASSUME ServedInv, NEW r \in Requests, calls[r].at \in {"update", "describe"}, UNCHANGED <<now, misled>>,
           NEW place, place = Clients!First(Clients!Places(Clients!Kept, calls[r].addr, calls[r].agent)),
           place # 0, Clients!Refresh(r, place)
    PROVE  ServedInv' /\ (KnownDirectly /\ ApartInv => ApartInv')
<1>1. PICK c : c = calls[r] /\ c \in CallType /\ Good(c, cache)
  BY CallIs
<1>2. PICK addr, agent, info : /\ addr = c.addr /\ agent = c.agent /\ info = c.info
                               /\ addr \in Addrs /\ agent \in Agents /\ info \in Clients!Profiles \ {None}
  BY <1>1 DEF CallType, Good, Informed
<1>3. PICK l : /\ l = Clients!Kept
               /\ l \in Seq(EntryType) /\ Sublist(l, cache) /\ Past(l, now) /\ now \in Nat /\ room \in Nat
               /\ Len(l) <= Len(cache) /\ Len(l) \in Nat /\ Len(l) <= room
               /\ Direct(cache) => Direct(l)
               /\ Apart(cache) => Apart(l)
  BY KeptFacts
<1>4. /\ place \in DOMAIN l /\ place \in 1 .. Len(l) /\ l[place].addr = addr
      /\ Clients!Matches(l[place], addr, agent)
      /\ \A i \in DOMAIN l : i < place => ~Clients!Matches(l[i], addr, agent)
  <2> DEFINE n == Len(l)
             S == Clients!Places(l, addr, agent)
  <2>1. n \in Nat /\ DOMAIN l = 1 .. n /\ S \in SUBSET (1 .. n)
    BY <1>3 DEF Clients!Places
  <2>2. \A i \in DOMAIN l : Clients!Matches(l[i], addr, agent) <=> i \in S
    BY DEF Clients!Places
  <2>3. place = Clients!First(S)
    BY <1>1, <1>2, <1>3
  <2> HIDE DEF n, S
  <2>4. S # {} /\ place \in S /\ \A j \in S : place <= j
    <3>1. /\ S = {} => Clients!First(S) = 0
          /\ S # {} => Clients!First(S) \in S /\ \A j \in S : Clients!First(S) <= j
      BY <2>1, FirstIs
    <3> QED
      BY <2>3, <3>1
  <2>5. place \in 1 .. n /\ Clients!Matches(l[place], addr, agent)
    BY <2>1, <2>2, <2>4
  <2>6. \A i \in DOMAIN l : i < place => i \notin S
    BY <2>1, <2>4, <2>5
  <2> QED
    BY <2>1, <2>2, <2>5, <2>6 DEF Clients!Matches, n
<1>5. PICK list : Renews(list, l, place, agent, info)
  BY DEF Renews
<1>6. /\ list \in Seq(EntryType) /\ Len(list) = Len(l)
      /\ list[place].profile = info /\ Past(list, now)
      /\ Direct(l) /\ OwnProfile(addr, agent, info) => Direct(list)
      /\ Direct(l) /\ Apart(l) /\ StaysOwn(addr, agent, info) => Apart(list)
  <2>1. Clients!Matches(l[place], l[place].addr, agent)
    BY <1>4
  <2>2. \A i \in DOMAIN l : i < place => ~Clients!Matches(l[i], l[place].addr, agent)
    BY <1>4
  <2>3. /\ list \in Seq(EntryType) /\ Len(list) = Len(l)
        /\ list[place].profile = info /\ (Past(l, now) => Past(list, now))
        /\ Direct(l) /\ OwnProfile(l[place].addr, agent, info) => Direct(list)
        /\ Direct(l) /\ Apart(l) /\ StaysOwn(l[place].addr, agent, info) => Apart(list)
    BY <1>2, <1>3, <1>4, <1>5, <2>1, <2>2, RenewedApart
  <2> QED
    BY <1>3, <1>4, <2>3
<1>7. PICK after : after = Clients!Holding(r, place, Clients!Changed(list), FALSE)
  OBVIOUS
<1>8. cache' = list /\ UNCHANGED room
  BY <1>1, <1>2, <1>3, <1>5 DEF Clients!Refresh, Renews
<1>9. calls' = after
  BY <1>7, <1>8 DEF Clients!Refresh
<1>10. Follows(Clients!Changed(list), list)
  BY <1>6, ChangedIs
<1>11. /\ AllGood(after, list)
       /\ AllSteady /\ (Known(c) \in NotUnique => info \in NotUnique) => Steadies(after, list)
  <2>1. PICK others : others = Clients!Changed(list)
    OBVIOUS
  <2>2. place \in 1 .. Len(list)
    BY <1>4, <1>6
  <2> QED
    BY <1>1, <1>2, <1>6, <1>7, <1>10, <2>1, <2>2, HoldingIs
<1>12. now' = now /\ room' = room /\ misled' = misled /\ Len(list) <= room
  BY <1>3, <1>6, <1>8
<1>13. ASSUME KnownDirectly, ApartInv PROVE Direct(list) /\ (~misled' => Apart(list) /\ Steadies(after, list))
  <2>1. Direct(l) /\ (~misled => Apart(l) /\ AllSteady)
    BY <1>3, <1>13 DEF ApartInv
  <2>2. OwnProfile(addr, agent, info) /\ (~misled => StaysOwn(addr, agent, info))
    BY <1>1, <1>2, <1>13, UpdateKnows
  <2>3. StaysOwn(addr, agent, info) => (Known(c) \in NotUnique => info \in NotUnique)
    BY <1>1, <1>2 DEF StaysOwn, Known
  <2> QED
    BY <1>6, <1>11, <1>12, <2>1, <2>2, <2>3
<1> QED
  BY <1>3, <1>6, <1>8, <1>9, <1>11, <1>12, <1>13, ListChanges

Extends(list, l) == Len(list) = Len(l) + 1 /\ \A i \in DOMAIN l : list[i] = l[i]

\* Requests follow a list that is extended in place.
LEMMA ExtendedFollows ==
    ASSUME NEW after, NEW l \in Seq(EntryType), NEW list \in Seq(EntryType), Extends(list, l), Follows(after, l)
    PROVE  Follows(after, list)
<1>1. after \in [Requests -> CallType]
  BY DEF Follows
<1>2. ASSUME NEW r \in Requests
      PROVE  Good(after[r], list) /\ (Steady(calls[r], cache) => Steady(after[r], list))
  <2>1. PICK d : d = after[r] /\ d \in CallType /\ Good(d, l) /\ (Steady(calls[r], cache) => Steady(d, l))
    BY <1>1, Zenon DEF Follows
  <2>2. d.ptr \in Nat /\ d.ptr <= Len(l)
    BY <2>1 DEF CallType, Good
  <2>3. d.ptr <= Len(list)
    BY <2>2 DEF Extends
  <2>4. d.ptr # 0 => list[d.ptr] = l[d.ptr]
    BY <2>2 DEF Extends
  <2>5. Good(d, list)
    BY <2>1, <2>3, <2>4, Zenon DEF Good, Own
  <2>6. Steady(d, l) => Steady(d, list)
    BY <2>4, Zenon DEF Steady
  <2> QED
    BY <2>1, <2>5, <2>6
<1>3. \A r \in Requests : SameClient(calls[r], after[r])
  BY Zenon DEF Follows
<1> QED
  BY <1>1, <1>2, <1>3, Zenon DEF Follows

\* A new entry is appended; what is found by its address is of the same address.
LEMMA InsertStep ==
    ASSUME ServedInv, NEW r \in Requests, calls[r].at \in {"update", "describe"}, UNCHANGED <<now, misled>>,
           Clients!First(Clients!Places(Clients!Kept, calls[r].addr, calls[r].agent)) = 0, Clients!Insert(r)
    PROVE  ServedInv' /\ (KnownDirectly /\ ApartInv => ApartInv')
<1>1. PICK c : c = calls[r] /\ c \in CallType /\ Good(c, cache)
  BY CallIs
<1>2. PICK addr, agent, info : /\ addr = c.addr /\ agent = c.agent /\ info = c.info
                               /\ addr \in Addrs /\ agent \in Agents /\ info \in Clients!Profiles \ {None}
  BY <1>1 DEF CallType, Good, Informed
<1>3. PICK l : /\ l = Clients!Kept
               /\ l \in Seq(EntryType) /\ Sublist(l, cache) /\ Past(l, now) /\ now \in Nat /\ room \in Nat
               /\ Len(l) <= Len(cache) /\ Len(l) \in Nat /\ Len(l) <= room
               /\ Direct(cache) => Direct(l)
               /\ Apart(cache) => Apart(l)
  BY KeptFacts
<1>4. \A i \in DOMAIN l : ~Clients!Matches(l[i], addr, agent)
  <2> DEFINE n == Len(l)
             S == Clients!Places(l, addr, agent)
  <2>1. n \in Nat /\ S \in SUBSET (1 .. n)
    BY <1>3 DEF Clients!Places
  <2>2. \A i \in DOMAIN l : Clients!Matches(l[i], addr, agent) <=> i \in S
    BY DEF Clients!Places
  <2>3. Clients!First(S) = 0
    BY <1>1, <1>2, <1>3
  <2> HIDE DEF n, S
  <2>4. S = {}
    BY <2>1, <2>3, FirstIs
  <2> QED
    BY <2>2, <2>4
<1>5. PICK list : Appends(list, l, addr, agent, info)
  BY DEF Appends
<1>6. /\ list \in Seq(EntryType) /\ Len(list) = Len(l) + 1
      /\ list[Len(list)].addr = addr /\ list[Len(list)].profile = info
      /\ Past(list, now)
      /\ Direct(l) /\ OwnProfile(addr, agent, info) => Direct(list)
      /\ Apart(l) => Apart(list)
  BY <1>2, <1>3, <1>4, <1>5, AppendedApart
<1>7. PICK place : place = Clients!Found(list, addr) /\ place \in 1 .. Len(list) /\ list[place].addr = addr
  <2> DEFINE n == Len(list)
             S == {i \in DOMAIN list : list[i].addr = addr}
  <2>1. n \in Nat /\ S \in SUBSET (1 .. n) /\ n \in S
    BY <1>3, <1>6
  <2>2. Clients!Found(list, addr) = Clients!First(S)
    BY DEF Clients!Found
  <2>3. \A i \in S : list[i].addr = addr
    OBVIOUS
  <2> HIDE DEF S
  <2>4. Clients!First(S) \in S
    <3> HIDE DEF n
    <3> QED BY <2>1, FirstIs
  <2> QED
    BY <2>1, <2>2, <2>3, <2>4
<1>8. PICK shared \in BOOLEAN : /\ shared = (place < Len(list))
                                /\ shared => place < Len(list)
                                /\ ~shared => place = Len(list)
  <2> DEFINE n == Len(list)
             b == place < n
  <2>1. n \in Nat /\ place \in 1 .. n
    BY <1>3, <1>6, <1>7
  <2> HIDE DEF n
  <2>2. b \in BOOLEAN /\ (~b => place = n)
    BY <2>1
  <2>3. b => place < n
    OBVIOUS
  <2> HIDE DEF b
  <2>4. \E x \in BOOLEAN : x = b /\ (x => place < n) /\ (~x => place = n)
    BY <2>2, <2>3, Zenon
  <2> QED
    BY <2>4, Zenon DEF b, n
<1>9. PICK others : others = IF Len(l) = room THEN Clients!Reallocated ELSE Clients!Shortened(Len(l))
  OBVIOUS
<1>10. PICK after : after = Clients!Holding(r, place, others, shared)
  OBVIOUS
<1>11. /\ cache' = list
       /\ room' = IF Len(l) = room THEN IF room = 0 THEN 1 ELSE 2 * room ELSE room
  BY <1>1, <1>2, <1>3, <1>5, Zenon DEF Clients!Insert, Appends
<1>12. calls' = after
  <2>1. place = Clients!Found(cache', calls[r].addr) /\ shared = (place < Len(cache'))
    BY <1>1, <1>2, <1>7, <1>8, <1>11
  <2> QED
    BY <1>3, <1>9, <1>10, <2>1, Zenon DEF Clients!Insert
<1>13. Follows(others, list)
  <2>1. CASE Len(l) = room
    <3>1. others = Clients!Reallocated
      BY <1>9, <2>1
    <3> QED
      BY <1>6, <3>1, ReallocatedIs
  <2>2. CASE Len(l) # room
    <3>1. others = Clients!Shortened(Len(l))
      BY <1>9, <2>2
    <3>2. Follows(others, l)
      BY <1>3, <3>1, ShortenedIs
    <3>3. Extends(list, l)
      BY <1>3, <1>5, <1>6 DEF Extends, Appends
    <3> QED
      BY <1>3, <1>6, <3>2, <3>3, ExtendedFollows
  <2> QED
    BY <2>1, <2>2
<1>14. ~shared => list[place].profile = info
  <2>1. ASSUME ~shared PROVE place = Len(list)
    BY <1>8, <2>1, Zenon
  <2> QED
    BY <1>6, <2>1
<1>15. /\ AllGood(after, list)
       /\ AllSteady /\ (Known(c) \in NotUnique => list[place].profile \in NotUnique) => Steadies(after, list)
  BY <1>1, <1>2, <1>6, <1>7, <1>10, <1>13, <1>14, HoldingIs
<1>16. room' \in Nat /\ Len(list) <= room' /\ now' = now /\ misled' = misled
  BY <1>3, <1>6, <1>11
<1>17. ASSUME KnownDirectly, ApartInv PROVE Direct(list) /\ (~misled' => Apart(list) /\ Steadies(after, list))
  <2>1. Direct(l) /\ (~misled => Apart(l) /\ AllSteady)
    BY <1>3, <1>17 DEF ApartInv
  <2>2. OwnProfile(addr, agent, info) /\ (~misled => StaysOwn(addr, agent, info))
    BY <1>1, <1>2, <1>17, UpdateKnows
  <2>3. Direct(list) /\ (~misled => Apart(list))
    BY <1>6, <2>1, <2>2
  <2>4. ASSUME ~misled, Known(c) \in NotUnique PROVE list[place].profile \in NotUnique
    <3>1. CASE shared
      <4>1. place < Len(list) /\ place \in DOMAIN list /\ Len(list) \in DOMAIN list
        <5>1. place < Len(list)
          BY <1>8, <3>1, Zenon
        <5> QED
          BY <1>3, <1>6, <1>7, <5>1
      <4>2. list[place].addr = list[Len(list)].addr
        BY <1>6, <1>7
      <4> QED
        BY <2>3, <2>4, <4>1, <4>2 DEF Apart
    <3>2. CASE ~shared
      <4>1. info = Known(c)
        BY <1>1, <1>2, <2>2, <2>4 DEF StaysOwn, Known
      <4> QED
        BY <1>14, <2>4, <3>2, <4>1
    <3> QED
      BY <3>1, <3>2
  <2> QED
    BY <1>15, <1>16, <2>1, <2>3, <2>4
<1> QED
  BY <1>3, <1>6, <1>11, <1>12, <1>15, <1>16, <1>17, ListChanges

\* An update renews or appends.
LEMMA UpdateStep ==
    ASSUME ServedInv, NEW r \in Requests, Clients!Update(r)
    PROVE  ServedInv' /\ (KnownDirectly /\ ApartInv => ApartInv')
<1>1. PICK place : place = Clients!First(Clients!Places(Clients!Kept, calls[r].addr, calls[r].agent))
  OBVIOUS
<1>2. /\ calls[r].at \in {"update", "describe"} /\ UNCHANGED <<now, misled>>
      /\ IF place # 0 THEN Clients!Refresh(r, place) ELSE Clients!Insert(r)
  BY <1>1, Zenon DEF Clients!Update
<1>3. CASE place # 0
  BY <1>1, <1>2, <1>3, RefreshStep
<1>4. CASE place = 0
  BY <1>1, <1>2, <1>4, InsertStep
<1> QED
  BY <1>3, <1>4

\* Clients are removed.
LEMMA RemoveStep ==
    ASSUME ServedInv, NEW addr \in Addrs, NEW agent \in Agents, Clients!removeClient(addr, agent)
    PROVE  ServedInv' /\ (ApartInv => ApartInv')
<1>1. cache \in Seq(EntryType) /\ now \in Nat /\ Past(cache, now) /\ room \in Nat /\ Len(cache) <= room
  BY DEF ServedInv, ListType
<1>2. PICK S \in SUBSET DOMAIN cache : S = DOMAIN cache \ Clients!Places(cache, addr, agent)
  OBVIOUS
<1>3. PICK l : l = Clients!EntriesAt(S) /\ l \in Seq(EntryType) /\ Sublist(l, cache)
  BY <1>1, EntriesAtIs
<1>4. PICK after : after = Clients!Shortened(Len(l))
  OBVIOUS
<1>5. cache' = l /\ calls' = after /\ UNCHANGED <<room, now, misled>>
  BY <1>2, <1>3, <1>4 DEF Clients!removeClient
<1>6. Follows(after, l)
  BY <1>3, <1>4, ShortenedIs
<1>7. AllGood(after, l) /\ (AllSteady => Steadies(after, l))
  BY <1>6, FollowsIs
<1>8. Past(l, now) /\ (Direct(cache) => Direct(l)) /\ (Apart(cache) => Apart(l))
  BY <1>1, <1>3, SublistPast, SublistApart
<1>9. now' \in Nat /\ room' \in Nat /\ Len(l) <= room' /\ Past(l, now')
  <2>1. Len(l) <= Len(cache) /\ Len(l) \in Nat /\ Len(cache) \in Nat
    BY <1>1, <1>3 DEF Sublist
  <2>2. Len(l) <= room
    BY <1>1, <2>1
  <2> QED
    BY <1>1, <1>5, <1>8, <2>2
<1>10. ASSUME ApartInv PROVE Direct(l) /\ (~misled' => Apart(l) /\ Steadies(after, l))
  BY <1>5, <1>7, <1>8, <1>10 DEF ApartInv
<1> QED
  BY <1>3, <1>5, <1>7, <1>9, <1>10, ListChanges

\* An entry that is loaded has the profile its address or user agent tells.
LEMMA LoadedIs ==
    ASSUME NEW e \in EntryType
    PROVE  /\ Clients!Loaded(e) \in EntryType /\ Clients!Loaded(e).last = e.last
           /\ Clients!Loaded(e).addr = e.addr /\ Clients!Loaded(e).agent = e.agent
           /\ Clients!Loaded(e).profile = IF Known(e) = None THEN Unrecognized ELSE Known(e)
<1>1. e.addr \in Addrs /\ e.agent \in Agents
  BY DEF EntryType
<1>2. Known(e) \in Clients!Profiles \cup {None}
  BY <1>1, InfoIs DEF Known
<1>3. Unrecognized \in Clients!Profiles \ {None}
  BY ClientAssumption DEF Clients!Profiles
<1>4. PICK p : p = IF Known(e) = None THEN Unrecognized ELSE Known(e)
  OBVIOUS
<1>5. Clients!Loaded(e) = [e EXCEPT !.profile = p]
  BY <1>4, Zenon DEF Clients!Loaded, Known
<1>6. p \in Clients!Profiles \ {None}
  BY <1>2, <1>3, <1>4
<1> QED
  BY <1>4, <1>5, <1>6 DEF EntryType

\* After a restart no request holds anything, and entries of one address have kept their profiles.
LEMMA RestartStep ==
    ASSUME ServedInv, Clients!Restart
    PROVE  ServedInv' /\ (KnownDirectly /\ ApartInv => ApartInv')
<1>1. cache \in Seq(EntryType) /\ now \in Nat /\ Past(cache, now) /\ room \in Nat /\ Len(cache) <= room
  BY DEF ServedInv, ListType
<1>2. PICK l : l = [i \in DOMAIN cache |-> Clients!Loaded(cache[i])]
  OBVIOUS
<1>3. PICK after : after = [r \in Requests |-> Clients!Idle]
  OBVIOUS
<1>4. cache' = l /\ calls' = after /\ UNCHANGED <<room, now, misled>>
  BY <1>2, <1>3, Zenon DEF Clients!Restart
<1>5. /\ \A i \in DOMAIN cache : cache[i] \in EntryType /\ l[i] = Clients!Loaded(cache[i])
      /\ DOMAIN l = DOMAIN cache
  BY <1>1, <1>2
<1>6. \A i \in DOMAIN cache : /\ l[i] \in EntryType /\ l[i].last = cache[i].last
                              /\ l[i].addr = cache[i].addr /\ l[i].agent = cache[i].agent
                              /\ l[i].profile = IF Known(cache[i]) = None THEN Unrecognized ELSE Known(cache[i])
  BY <1>5, LoadedIs
<1>7. l \in Seq(EntryType) /\ Len(l) = Len(cache)
  BY <1>1, <1>2, <1>5, <1>6
<1>8. Past(l, now)
  BY <1>1, <1>5, <1>6, Zenon DEF Past
<1>9. AllGood(after, l) /\ Steadies(after, l)
  <2>1. Good(Clients!Idle, l) /\ Steady(Clients!Idle, l)
    BY <1>7, IdleGood, IdleIsCall DEF Steady, Holds
  <2> QED
    BY <1>3, <2>1, IdleIsCall DEF AllGood, Steadies
<1>10. \A i \in DOMAIN cache : Known(l[i]) = Known(cache[i])
  BY <1>6 DEF Known
<1>11. ASSUME KnownDirectly PROVE Direct(l)
  <2>1. Unrecognized \notin NotUnique
    BY <1>11 DEF KnownDirectly
  <2> QED
    BY <1>5, <1>6, <1>10, <2>1 DEF Direct
<1>12. ASSUME Direct(cache), Apart(cache) PROVE Apart(l)
  <2>1. SUFFICES ASSUME NEW i \in DOMAIN l, NEW j \in DOMAIN l, i < j, l[i].addr = l[j].addr
                 PROVE  l[i].profile \in NotUnique /\ l[i].agent # l[j].agent
    BY Zenon DEF Apart
  <2>2. cache[i].profile \in NotUnique /\ cache[i].agent # cache[j].agent
    BY <1>5, <1>6, <1>12, <2>1 DEF Apart
  <2>3. cache[i].profile = Known(cache[i]) /\ Known(cache[i]) # None
    BY <1>5, <1>12, <2>2, ClientAssumption DEF Direct
  <2> QED
    BY <1>5, <1>6, <2>2, <2>3
<1>13. ASSUME KnownDirectly, ApartInv PROVE Direct(l) /\ (~misled' => Apart(l) /\ Steadies(after, l))
  BY <1>4, <1>9, <1>11, <1>12, <1>13 DEF ApartInv
<1>14. now' \in Nat /\ room' \in Nat /\ Len(l) <= room' /\ Past(l, now')
  BY <1>1, <1>4, <1>7, <1>8
<1> QED
  BY <1>4, <1>7, <1>9, <1>13, <1>14, ListChanges

\* Time passes.
LEMMA TickStep ==
    ASSUME ServedInv, Clients!Tick
    PROVE  ServedInv' /\ (ApartInv => ApartInv')
<1>1. now \in Nat /\ cache \in Seq(EntryType)
  BY DEF ServedInv, ListType
<1>2. PICK later : later = now + 1
  OBVIOUS
<1>3. now' = later /\ UNCHANGED <<cache, room, calls, misled>>
  BY <1>2 DEF Clients!Tick
<1>4. later \in Nat /\ now <= later
  BY <1>1, <1>2
<1>5. ASSUME NEW i \in DOMAIN cache PROVE cache[i].last <= later
  <2>1. cache[i].last <= now /\ cache[i].last \in Nat
    <3>1. cache[i] \in EntryType
      BY <1>1
    <3>2. cache[i].last <= now
      BY Zenon DEF ServedInv, Past
    <3> QED
      BY <3>1, <3>2 DEF EntryType
  <2> QED
    BY <1>1, <1>4, <2>1
<1>6. Past(cache, later)
  BY <1>5 DEF Past
<1>7. Past(cache, now)'
  BY <1>3, <1>6 DEF Past
<1>8. ListType'
  BY <1>3, <1>4 DEF ServedInv, ListType
<1>9. ASSUME NEW r \in Requests PROVE Good(calls[r], cache)'
  <2>1. Good(calls[r], cache)
    BY CallIs
  <2> QED
    BY <1>3, <2>1
<1>10. ServedInv'
  BY <1>7, <1>8, <1>9 DEF ServedInv
<1>11. ASSUME ApartInv PROVE ApartInv'
  BY <1>3, <1>11 DEF ApartInv, Direct, Apart, AllSteady
<1> QED
  BY <1>10, <1>11

ClientsInv == ServedInv /\ (KnownDirectly => ApartInv)

\* The other parts of the first state leave the clients alone.
LEMMA ClientsStutter ==
    ASSUME ClientsInv, UNCHANGED clientVars PROVE ClientsInv'
<1>1. UNCHANGED <<cache, room, now, calls, misled>>
  BY DEF clientVars
<1>2. ServedInv'
  <2>1. ListType' /\ Past(cache, now)'
    BY <1>1 DEF ClientsInv, ServedInv, ListType, Past
  <2>2. ASSUME NEW r \in Requests PROVE Good(calls[r], cache)'
    <3>1. Good(calls[r], cache)
      BY CallIs DEF ClientsInv
    <3> QED
      BY <1>1, <3>1
  <2> QED
    BY <2>1, <2>2 DEF ServedInv
<1>3. ASSUME KnownDirectly PROVE ApartInv'
  BY <1>1, <1>3 DEF ClientsInv, ApartInv, Direct, Apart, AllSteady
<1>4. KnownDirectly' => KnownDirectly
  BY DEF KnownDirectly
<1> QED
  BY <1>2, <1>3, <1>4 DEF ClientsInv

\* The invariant holds at first,
LEMMA ClientsInit == MCInit => ClientsInv
<1>1. SUFFICES ASSUME Clients!Init PROVE ClientsInv
  BY Zenon DEF MCInit
<1>2. cache = <<>> /\ room = 0 /\ now = 0 /\ misled = FALSE /\ calls = [r \in Requests |-> Clients!Idle]
  BY <1>1, Zenon DEF Clients!Init
<1>3. cache \in Seq(EntryType) /\ Len(cache) = 0 /\ DOMAIN cache = {}
  BY <1>2
<1>4. \A r \in Requests : calls[r] = Clients!Idle
  BY <1>2
<1>5. ListType /\ Past(cache, now)
  BY <1>2, <1>3, IdleIsCall DEF ListType, Past
<1>6. ServedInv
  BY <1>3, <1>4, <1>5, IdleGood DEF ServedInv
<1>7. Direct(cache) /\ Apart(cache)
  BY <1>3 DEF Direct, Apart
<1>8. AllSteady
  BY <1>4, IdleIsCall DEF AllSteady, Steady, Holds
<1> QED
  BY <1>6, <1>7, <1>8 DEF ClientsInv, ApartInv

\* with every step,
LEMMA ClientsNext == ClientsInv /\ [MCNext]_<<part, fileVars, clientVars, configVars>> => ClientsInv'
<1>1. SUFFICES ASSUME ClientsInv, MCNext \/ UNCHANGED clientVars PROVE ClientsInv'
  BY Zenon
<1>2. MCNext => Clients!Next \/ UNCHANGED clientVars
  BY Zenon DEF MCNext
<1>3. CASE UNCHANGED clientVars
  BY <1>1, <1>3, ClientsStutter
<1>4. CASE Clients!Next
  <2>1. ServedInv /\ (KnownDirectly => ApartInv)
    BY <1>1 DEF ClientsInv
  <2>2. ASSUME NEW r \in Requests, NEW addr \in Addrs, NEW agent \in Agents, NEW discovery \in BOOLEAN,
               Clients!Ask(r, addr, agent, discovery)
        PROVE  ServedInv' /\ (KnownDirectly /\ ApartInv => ApartInv')
    BY <2>1, <2>2, AskStep
  <2>3. ASSUME NEW r \in Requests,
               Clients!Look(r) \/ Clients!Update(r) \/ Clients!Use(r) \/ Clients!Callback(r) \/ Clients!End(r)
        PROVE  ServedInv' /\ (KnownDirectly /\ ApartInv => ApartInv')
    <3>1. CASE Clients!Look(r) BY <2>1, <3>1, LookStep
    <3>2. CASE Clients!Update(r) BY <2>1, <3>2, UpdateStep
    <3>3. CASE Clients!Use(r) BY <2>1, <3>3, UseStep
    <3>4. CASE Clients!Callback(r) \/ Clients!End(r) BY <2>1, <3>4, ServedStep
    <3> QED BY <2>3, <3>1, <3>2, <3>3, <3>4
  <2>4. ASSUME NEW addr \in Addrs, NEW agent \in Agents, Clients!removeClient(addr, agent)
        PROVE  ServedInv' /\ (KnownDirectly /\ ApartInv => ApartInv')
    BY <2>1, <2>4, RemoveStep
  <2>5. ASSUME Clients!Restart PROVE ServedInv' /\ (KnownDirectly /\ ApartInv => ApartInv')
    BY <2>1, <2>5, RestartStep
  <2>6. ASSUME Clients!Tick PROVE ServedInv' /\ (KnownDirectly /\ ApartInv => ApartInv')
    BY <2>1, <2>6, TickStep
  <2>7. ServedInv' /\ (KnownDirectly /\ ApartInv => ApartInv')
    BY <1>4, <2>2, <2>3, <2>4, <2>5, <2>6, Zenon DEF Clients!Next
  <2>8. KnownDirectly' => KnownDirectly
    BY DEF KnownDirectly
  <2> QED
    BY <2>1, <2>7, <2>8 DEF ClientsInv
<1> QED
  BY <1>1, <1>2, <1>3, <1>4

\* and it implies the properties of ClientManager.
LEMMA ClientsInvMeans ==
    ASSUME ClientsInv
    PROVE  /\ Clients!TypeOK /\ Clients!ServedAsItself
           /\ KnownDirectly => Clients!OneEntryEach
<1>1. ServedInv
  BY DEF ClientsInv
<1>2. cache \in Seq(EntryType) /\ Past(cache, now) /\ Len(cache) <= room
  BY <1>1 DEF ServedInv, ListType
<1>3. Clients!TypeOK
  <2>1. ASSUME NEW i \in DOMAIN cache
        PROVE  cache[i].profile \in Clients!Profiles \ {None} /\ cache[i].last <= now
    <3>1. cache[i] \in EntryType
      BY <1>2
    <3> QED
      BY <1>2, <3>1 DEF EntryType, Past
  <2>2. ASSUME NEW r \in Requests PROVE calls[r].ptr <= Len(cache)
    BY <1>1, CallIs DEF Good
  <2> QED
    BY <1>2, <2>1, <2>2, Zenon DEF Clients!TypeOK
<1>4. Clients!ServedAsItself
  <2>1. ASSUME NEW r \in Requests PROVE Told(calls[r])
    BY <1>1, CallIs DEF Good
  <2> QED
    BY <2>1, Zenon DEF Clients!ServedAsItself, Told, Holds, Known
<1>5. ASSUME KnownDirectly PROVE Clients!OneEntryEach
  <2>1. SUFFICES ASSUME ~misled, NEW i \in DOMAIN cache, NEW j \in DOMAIN cache,
                        cache[i].addr = cache[j].addr, cache[i].agent = cache[j].agent
                 PROVE  i = j
    BY Zenon DEF Clients!OneEntryEach
  <2>2. Apart(cache)
    BY <1>5, <2>1 DEF ClientsInv, ApartInv
  <2>3. ~(i < j) /\ ~(j < i)
    BY <2>1, <2>2, Zenon DEF Apart
  <2>4. i \in Nat /\ j \in Nat
    BY <1>2
  <2> QED
    BY ONLY <2>3, <2>4
<1> QED
  BY <1>3, <1>4, <1>5

\* So it holds always.
LEMMA ClientsInvariant == MCSpec => []ClientsInv
BY ClientsInit, ClientsNext, PTL DEF MCSpec

(* A client that is known by its address or its user agent is served by    *)
(* that profile, for any clients, profiles, requests and bounds: unless    *)
(* the list was changed under the pointer of its request, or it was new at *)
(* an address that had a client already (getInfo, updateCache, Quirks).    *)
THEOREM ServedByOwnProfile == MCSpec => [](Clients!TypeOK /\ Clients!ServedAsItself)
<1>1. ClientsInv => Clients!TypeOK /\ Clients!ServedAsItself
  BY ClientsInvMeans
<1> QED
  BY <1>1, ClientsInvariant, PTL

(* And no two entries stand for one client, until a discovery is misled by *)
(* a pointer that was moved (OneEntryEach), if no profile of which several *)
(* clients may have one address is found by a description.                 *)
THEOREM ClientsServedApart == ASSUME KnownDirectly PROVE MCSpec => []ServedAsItself
<1>1. ASSUME ClientsInv PROVE ServedAsItself
  BY <1>1, ClientsInvMeans DEF ServedAsItself
<1> QED
  BY <1>1, ClientsInvariant, PTL
====
