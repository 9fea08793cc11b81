------------------------------ MODULE FileRequest ------------------------------
(***************************************************************************)
(* The requests for content that libupnp passes to the server by the       *)
(* callbacks of its virtual directory: GetInfo announces a length, Open    *)
(* makes an I/O handler, Seek moves it to the start of a requested range,  *)
(* Read is called until the announced length is sent, and Close.  Between  *)
(* any two of them files are replaced, objects are imported anew, other    *)
(* requests run and the server shuts down.                                 *)
(*                                                                         *)
(* What can be asked for, by the handler that serves it:                   *)
(*   "file"   the file of an item, by a virtual object that is an alias of *)
(*            the physical one                        (FileIOHandler)      *)
(*   "track"  a track of a cue sheet, a file from an offset                *)
(*   "art"    a picture in a file                     (MemIOHandler)       *)
(*   "zip"    the items of a container                (ZipIOHandler)       *)
(*   "steady" a transcoding at a constant bit rate                         *)
(*                                      (SeekableTranscodeIOHandler)       *)
(*   "live"   another transcoding       (TranscodeInternalIOHandler)       *)
(* A byte is the number of its place in its content.                       *)
(***************************************************************************)
EXTENDS Integers, Sequences, SequencesExt, FiniteSetsExt

CONSTANTS
    Requests,
    Kinds,      \* what is asked for, of the kinds above
    Size,       \* of the content; what replaces it is one byte shorter
    Length,     \* bytes libupnp asks for in one call
    Packet,     \* bytes a packet of a transcoding makes
    MaxChanges  \* bound: changes of the file

VARIABLES
    version,    \* of the file: a number, or 0 when it is missing
    changes,
    alias,      \* the virtual object: "own", "gone", or "other" when its id
                \*   was given to the object of another file
    archive,    \* the number of the archive in the home directory, or 0
    archives,
    shutdown,   \* Server::getShutdownStatus
    req

files == <<version, changes, alias>>
zips == <<archive, archives>>
vars == <<files, zips, shutdown, req>>

Other == 0 - 1      \* the version of the other file
Unknown == 0 - 2    \* UPNP_UNTIL_CLOSE and UPNP_USING_CHUNKED
Offset == 1         \* where the track begins

-------------------------------------------------------------------------------
(* GetInfo.                                                                *)

\* FileRequestHandler::loadFileObject: a virtual object that is gone is
\* replaced by the source object of the URL, for the plain file only
Loaded(kind) ==
    CASE kind = "zip" -> 1
      [] kind = "file" /\ alias = "other" -> Other
      [] OTHER -> version
SizeOf(content) == IF content = 1 THEN Size ELSE Size - 1

\* the length of the file, of the picture by a seek to its end, and one second
\* less than the transcoding; nothing is known of the others
AnnouncedAll(kind) == IF kind \in {"zip", "live"} THEN Unknown ELSE SizeOf(Loaded(kind))    \* mutant
Announced(kind) ==
    CASE kind \in {"file", "track", "art"} -> SizeOf(Loaded(kind))
      [] kind = "steady" -> SizeOf(Loaded(kind)) - 1
      [] OTHER -> Unknown

Idle == [at |-> "idle", kind |-> "file", length |-> 0, range |-> 0, seen |-> 0,
         handle |-> 0, pos |-> 0, extra |-> <<>>, eof |-> FALSE, cut |-> FALSE, again |-> 0,
         out |-> <<>>, told |-> "none"]

\* a range is answered where the length is known
GetInfo(r, kind, range) ==
    /\ req[r].at = "idle"
    /\ Loaded(kind) # 0
    /\ range < IF Announced(kind) = Unknown THEN 1 ELSE Announced(kind)
    /\ req' = [req EXCEPT ![r] = [Idle EXCEPT !.at = "open", !.kind = kind, !.range = range,
                                              !.length = Announced(kind), !.seen = Loaded(kind)]]
    /\ UNCHANGED <<files, zips, shutdown>>

-------------------------------------------------------------------------------
(* Open.                                                                   *)

Refused(r) == req' = [req EXCEPT ![r].at = "closed", ![r].told = "refused"]
Opened(r, handle) ==
    req' = [req EXCEPT ![r].handle = handle,
                       ![r].at = IF req[r].range > 0 THEN "seek" ELSE "read"]

\* the picture and the transcodings open the file, or another, when they
\* begin; a track is never opened: FileIOHandler::open calls seek with its
\* mutex locked
OpenCallback(r) ==
    /\ req[r].at = "open" /\ req[r].kind # "zip"
    /\ IF shutdown \/ (Loaded(req[r].kind) = 0 /\ req[r].kind # "steady") THEN Refused(r)
       ELSE IF req[r].kind = "track" THEN req' = [req EXCEPT ![r].at = "stuck"]
       ELSE Opened(r, Loaded(req[r].kind))
    /\ UNCHANGED <<files, zips, shutdown>>

\* openZip makes the archive, under one name for all requests of a container
Archive(r) ==
    /\ req[r].at = "open" /\ req[r].kind = "zip"
    /\ IF shutdown THEN Refused(r) /\ UNCHANGED zips
       ELSE /\ archives' = archives + 1 /\ archive' = archives'
            /\ req' = [req EXCEPT ![r].at = "archived"]
    /\ UNCHANGED <<files, shutdown>>

\* FileIOHandler::open throws when another request has removed the file
OpenArchive(r) ==
    /\ req[r].at = "archived"
    /\ IF archive = 0 THEN Refused(r) ELSE Opened(r, archive)
    /\ UNCHANGED <<files, zips, shutdown>>

\* libupnp moves on from where the handler is
Unmoved(r) == req[r].pos                                            \* mutant
Moved(r) == req[r].pos + req[r].range
SeekCallback(r) ==
    /\ req[r].at = "seek"
    /\ req' = [req EXCEPT ![r].pos = Moved(r), ![r].at = "read"]
    /\ UNCHANGED <<files, zips, shutdown>>

-------------------------------------------------------------------------------
(* Read.                                                                   *)

Bytes(first, count) == [i \in 1 .. count |-> first + i]
Rest(r) == (IF req[r].kind = "zip" THEN Size ELSE SizeOf(req[r].handle)) - req[r].pos
Wanted(r) == IF req[r].length = Unknown THEN Length
             ELSE Min({Length, req[r].length - req[r].range - Len(req[r].out)})

Sends(r, bytes) == req' = [req EXCEPT ![r].pos = req[r].pos + Len(bytes), ![r].out = @ \o bytes]
Ends(r, told) == req' = [req EXCEPT ![r].at = "close", ![r].told = told]

\* MemIOHandler marks the end by -1, and FileIOHandler asks the file for it
AtEnd(r) == Rest(r) = 0
ReadStored(r) ==
    /\ req[r].kind \in {"file", "art", "zip"}
    /\ IF AtEnd(r) THEN Ends(r, "end")
       ELSE Sends(r, Bytes(req[r].pos, Min({Wanted(r), Rest(r)})))

\* the transcoder starts at the time of the offset, with the first read: the
\* model takes the file that was there at Open.  What it makes may be a second
\* shorter than its duration tells.  It may fail, and does when the file was
\* missing; an exception is an error.
ReadSteady(r) ==
    /\ req[r].kind = "steady"
    /\ \/ ~AtEnd(r) /\ req[r].handle # 0 /\ \E n \in 1 .. Min({Wanted(r), Rest(r)}) : Sends(r, Bytes(req[r].pos, n))
       \/ Rest(r) <= 1 /\ req[r].handle # 0 /\ Ends(r, "end")
       \/ Ends(r, "error")

\* filterPacket, again and again: until there are enough bytes, or the end, for
\* which a packet that cannot be read or decoded is taken (`cut`), wherever it is.
FilterPackets(r, made, wanted, eof, cut) ==
    /\ made >= wanted \/ eof
    /\ cut => eof
    /\ eof /\ ~cut => made = Rest(r)

\* TranscodeInternalIOHandler::read: what the packets make too much is kept in
\* extraData.  When the end was reached, the rest that does not fill a read is
\* handed out but kept.  All other failures of a packet are errors.
Left(r, made, wanted) == Bytes(req[r].pos + wanted, made - wanted)
Encodes(r, sent, made, wanted, eof, cut) ==
    req' = [req EXCEPT ![r].pos = @ + made, ![r].eof = eof, ![r].cut = cut, ![r].out = @ \o sent,
                       ![r].extra = Left(r, made, wanted),
                       ![r].at = IF sent = <<>> THEN "close" ELSE @,
                       ![r].told = IF sent = <<>> THEN "end" ELSE @]
ReadLive(r) ==
    LET kept == req[r].extra
        wanted == Length - Len(kept)
    IN /\ req[r].kind = "live"
       /\ \/ /\ Len(kept) >= Length
             /\ req' = [req EXCEPT ![r].out = @ \o SubSeq(kept, 1, Length),
                                   ![r].extra = SubSeq(kept, Length + 1, Len(kept))]
          \/ /\ Len(kept) < Length /\ req[r].eof /\ kept # <<>>
             /\ req' = [req EXCEPT ![r].out = IF req[r].again = 0 THEN @ \o kept ELSE @,
                                   ![r].again = Min({2, @ + 1})]
          \/ /\ kept = <<>> /\ req[r].eof
             /\ Ends(r, "end")
          \/ /\ Len(kept) < Length /\ ~req[r].eof
             /\ \E made \in 0 .. Min({Rest(r), wanted + Packet - 1}), eof, cut \in BOOLEAN :
                  /\ FilterPackets(r, made, wanted, eof, cut)
                  /\ Encodes(r, kept \o Bytes(req[r].pos, Min({made, wanted})), made, wanted, eof, cut)
          \/ /\ Len(kept) < Length /\ ~req[r].eof
             /\ Ends(r, "error")

Complete(r) == req[r].length # Unknown /\ Len(req[r].out) = req[r].length - req[r].range

ReadCallback(r) ==
    /\ req[r].at = "read" /\ ~Complete(r)
    /\ IF shutdown THEN Ends(r, "error")
       ELSE ReadStored(r) \/ ReadSteady(r) \/ ReadLive(r)
    /\ UNCHANGED <<files, zips, shutdown>>

\* libupnp has sent what was announced, or the client is gone
Leave(r) ==
    /\ req[r].at \in {"seek", "read"}
    /\ Ends(r, IF Complete(r) THEN "complete" ELSE "left")
    /\ UNCHANGED <<files, zips, shutdown>>

\* ZipIOHandler::close removes what has the name of its archive by now
Removed(r) == IF req[r].kind = "zip" THEN 0 ELSE archive
CloseCallback(r) ==
    /\ req[r].at = "close"
    /\ archive' = Removed(r)
    /\ req' = [req EXCEPT ![r].at = "closed"]
    /\ UNCHANGED <<files, archives, shutdown>>

-------------------------------------------------------------------------------
(* What happens meanwhile.                                                 *)

\* the file is replaced, or removed
Change ==
    /\ changes < MaxChanges
    /\ changes' = changes + 1
    /\ version' \in {changes' + 1, 0}
    /\ UNCHANGED <<alias, zips, shutdown, req>>

\* a playlist is imported anew: the virtual objects get new ids, and the old
\* id may be given to another object
Reimport ==
    /\ \/ alias = "own" /\ alias' = "gone"
       \/ alias = "gone" /\ alias' = "other"
    /\ UNCHANGED <<version, changes, zips, shutdown, req>>

Shutdown ==
    /\ ~shutdown /\ shutdown' = TRUE
    /\ UNCHANGED <<files, zips, req>>

Init ==
    /\ version = 1 /\ changes = 0 /\ alias = "own"
    /\ archive = 0 /\ archives = 0 /\ shutdown = FALSE
    /\ req = [r \in Requests |-> Idle]

serve(r) ==
    OpenCallback(r) \/ Archive(r) \/ OpenArchive(r) \/ SeekCallback(r) \/ ReadCallback(r) \/ CloseCallback(r)

Next ==
    \/ \E r \in Requests :
         \/ \E kind \in Kinds, range \in {0, 1} : GetInfo(r, kind, range)
         \/ serve(r) \/ Leave(r)
    \/ Change \/ Reimport \/ Shutdown

Spec == Init /\ [][Next]_vars

-------------------------------------------------------------------------------
(* Properties.                                                             *)

TypeOK ==
    /\ alias \in {"own", "gone", "other"} /\ archive \in 0 .. archives
    /\ \A r \in Requests :
         /\ req[r].pos <= Size /\ Len(req[r].extra) < Packet
         /\ req[r].length \in {Unknown} \cup 0 .. Size

(* Every request gets the bytes of its content in their order, from the    *)
(* start of its range on, none left out and none twice, up to the rest of  *)
(* a transcoding which is repeated for ever (`again`).                     *)
InOrder ==
    \A r \in Requests :
        IsPrefix(req[r].out, Bytes(req[r].range, Size - req[r].range))

(* A request that is told of the end has got all that was read, and this   *)
(* is the whole content, unless the transcoding in the process has taken a *)
(* failure for the end of the file (`cut`).  Where GetInfo has announced a *)
(* length the end never comes before it, unless another content was        *)
(* announced: the file was replaced in between, or the id of the virtual   *)
(* object given to another.                                                *)
EndIsWhole ==
    \A r \in Requests : req[r].told = "end" =>
        /\ \/ Rest(r) <= (IF req[r].kind = "steady" THEN 1 ELSE 0)
           \/ req[r].kind = "live" /\ req[r].cut
        /\ req[r].extra = <<>> /\ Len(req[r].out) = req[r].pos - req[r].range
        /\ req[r].length # Unknown => req[r].handle # req[r].seen

(* No archive stays behind when the requests are closed, and a request for *)
(* one is refused only where another request has removed it.               *)
NoArchiveLeft ==
    (\A r \in Requests : req[r].at \in {"idle", "closed"}) => archive = 0
AloneIsServed ==
    \A r \in Requests :
        req[r].told = "refused" /\ req[r].kind = "zip" /\ ~shutdown =>
            \E other \in Requests \ {r} : req[other].kind = "zip" /\ req[other].at = "closed"
================================================================================
