--------------------------- MODULE ProcessIOHandler ---------------------------
(***************************************************************************)
(* Transcoding by an external program (TranscodeExternalHandler).  The     *)
(* program is a child process that writes into a FIFO, from which          *)
(* ProcessIOHandler reads for the caller.  Where the program cannot read   *)
(* an URL itself, a thread of the server (IOHandlerChainer) reads the      *)
(* source and writes it into a second FIFO, from which the program reads.  *)
(*                                                                         *)
(* The caller waits for data with a timeout, and after several timeouts    *)
(* gives the program up.  The program may be slow, hang or fail at any     *)
(* time, and it writes what it reads; if it ends by itself with success    *)
(* then it has read and written everything.                                *)
(***************************************************************************)
EXTENDS Naturals, Sequences, SequencesExt, FiniteSetsExt

CONSTANTS
    Source,     \* the bytes of the source
    Capacity,   \* of a FIFO
    Chunk,      \* bytes the chainer reads at once
    Length,     \* bytes a caller of read asks for
    retryCount, \* timeouts before the program is given up
    MaxRead     \* bound: bytes the program reads, were they repeated for ever

VARIABLES
    proxied,            \* whether the server reads the source
    inFifo, outFifo,    \* bytes in the two FIFOs
    inWriter, outWriter,    \* whether one writes: "never", "open", "closed"
    inReader,           \* whether the program has opened the first FIFO
    files,              \* FIFOs in the temporary directory
    agent,              \* the program: where it is, and how it ended
    agentIn, agentOut,  \* bytes it has read and written
    chain,              \* the chainer's thread: where it is, its buffer, and
                        \*   the bytes of it that the FIFO has
    fetched, failed,    \* bytes the chainer has read; its status, whether reading failed
    threadShutdown,
    client,             \* the caller: where it is, the bytes read, the timeouts
    out, result,        \* bytes and result of the reads
    raced, repeated     \* auxiliary: see EndIsWhole and SourceInOrder

fifos == <<inFifo, outFifo, inWriter, outWriter, inReader, files>>
program == <<agent, agentIn, agentOut>>
chainer == <<chain, fetched, failed>>
caller == <<client, out, result, raced>>
vars == <<proxied, fifos, program, chainer, threadShutdown, caller, repeated>>

Client(at, got, timeouts) == [at |-> at, got |-> got, timeouts |-> timeouts]
Chain(at, buf, written) == [at |-> at, buf |-> buf, written |-> written]
Alive == agent.at \notin {"absent", "dead"}

-------------------------------------------------------------------------------
(* The program, an ffmpeg or a script of the user.                         *)

Dies(status) ==
    /\ agent' = [at |-> "dead", status |-> status]
    /\ inReader' = FALSE
    /\ outWriter' = IF outWriter = "open" THEN "closed" ELSE outWriter

AgentOpensInput ==
    /\ agent.at = "start"
    /\ inReader' = proxied
    /\ agent' = [agent EXCEPT !.at = "output"]
    /\ UNCHANGED <<inFifo, outFifo, inWriter, outWriter, files, agentIn, agentOut>>

\* the open blocks until there is one who reads, or writes
AgentOpensOutput ==
    /\ agent.at = "output"
    /\ proxied => inWriter # "never"
    /\ client.at \notin {"construct", "open"}
    /\ outWriter' = "open"
    /\ agent' = [agent EXCEPT !.at = "run"]
    /\ UNCHANGED <<inFifo, outFifo, inWriter, inReader, files, agentIn, agentOut>>

AgentReads ==
    /\ agent.at = "run"
    /\ IF proxied
       THEN /\ inFifo # <<>> /\ Len(agentIn) < MaxRead
            /\ agentIn' = Append(agentIn, Head(inFifo)) /\ inFifo' = Tail(inFifo)
       ELSE /\ Len(agentIn) < Len(Source)
            /\ agentIn' = Append(agentIn, Source[Len(agentIn) + 1]) /\ inFifo' = inFifo
    /\ UNCHANGED <<outFifo, inWriter, outWriter, inReader, files, agent, agentOut>>

AgentWrites ==
    /\ agent.at = "run"
    /\ Len(agentOut) < Len(agentIn) /\ Len(outFifo) < Capacity
    /\ LET byte == agentIn[Len(agentOut) + 1]
       IN outFifo' = Append(outFifo, byte) /\ agentOut' = Append(agentOut, byte)
    /\ UNCHANGED <<inFifo, inWriter, outWriter, inReader, files, agent, agentIn>>

\* the end of its input: of the file, or of the FIFO when all writers are gone
AgentCloses ==
    /\ agent.at = "run"
    /\ agentOut = agentIn
    /\ IF proxied THEN inFifo = <<>> /\ inWriter = "closed" ELSE agentIn = Source
    /\ agent' = [agent EXCEPT !.at = "closing"] /\ outWriter' = "closed"
    /\ UNCHANGED <<inFifo, outFifo, inWriter, inReader, files, agentIn, agentOut>>

AgentEnds ==
    /\ \/ agent.at = "closing" /\ Dies("ok")
       \/ Alive /\ Dies("failed")
    /\ UNCHANGED <<inFifo, outFifo, inWriter, files, agentIn, agentOut>>

agentStep ==
    /\ AgentOpensInput \/ AgentOpensOutput \/ AgentReads \/ AgentWrites \/ AgentCloses \/ AgentEnds
    /\ UNCHANGED <<proxied, chainer, threadShutdown, caller, repeated>>

-------------------------------------------------------------------------------
(* IOHandlerChainer::threadProc, with ProcessIOHandler::open and write for *)
(* a handler without a program.                                            *)

\* without a reader the open fails with ENXIO, and is tried again
ChainOpens ==
    /\ chain.at = "open"
    /\ \/ inReader /\ inWriter' = "open" /\ chain' = Chain("read", <<>>, 0)
       \/ ~inReader /\ threadShutdown /\ chain' = Chain("close", <<>>, 0) /\ UNCHANGED inWriter
    /\ UNCHANGED <<inFifo, fetched, failed, repeated>>

ChainReads ==
    /\ chain.at = "read"
    /\ IF threadShutdown THEN chain' = Chain("close", <<>>, 0) /\ UNCHANGED <<fetched, failed>>
       ELSE \/ \E n \in 1 .. Min({Chunk, Len(Source) - fetched}) :
                 /\ chain' = Chain("write", SubSeq(Source, fetched + 1, fetched + n), 0)
                 /\ fetched' = fetched + n /\ UNCHANGED failed
            \/ /\ fetched = Len(Source) /\ chain' = Chain("close", <<>>, 0)
               /\ UNCHANGED <<fetched, failed>>
            \/ failed' = TRUE /\ chain' = Chain("close", <<>>, 0) /\ UNCHANGED fetched
    /\ UNCHANGED <<inFifo, inWriter, repeated>>

Sent(n) == SubSeq(chain.buf, chain.written + 1, chain.written + n)

\* as much as there is room for; without a reader the write fails
ChainWrites ==
    /\ chain.at = "write"
    /\ IF inReader
       THEN LET n == Min({Capacity - Len(inFifo), Len(chain.buf) - chain.written})
            IN /\ n > 0
               /\ inFifo' = inFifo \o Sent(n)
               /\ chain' = IF chain.written + n = Len(chain.buf) THEN Chain("read", <<>>, 0)
                           ELSE [chain EXCEPT !.written = @ + n]
       ELSE chain' = Chain("close", <<>>, 0) /\ UNCHANGED inFifo
    /\ UNCHANGED <<inWriter, fetched, failed, repeated>>

\* a timeout returns 0, whatever was written before, and the chainer calls again
ChainTimesOut ==
    /\ chain.at = "write" /\ inReader /\ Len(inFifo) = Capacity
    /\ chain' = IF threadShutdown THEN Chain("close", <<>>, 0) ELSE [chain EXCEPT !.written = 0]
    /\ repeated' = (repeated \/ (~threadShutdown /\ chain.written > 0))
    /\ UNCHANGED <<inFifo, inWriter, fetched, failed>>

\* ProcessIOHandler::close is empty: the FIFO stays open for writing
ChainCloses ==
    /\ chain.at = "close"
    /\ chain' = Chain("done", <<>>, 0)
    /\ UNCHANGED <<inFifo, inWriter, fetched, failed, repeated>>

threadProc ==
    /\ ChainOpens \/ ChainReads \/ ChainWrites \/ ChainTimesOut \/ ChainCloses
    /\ UNCHANGED <<proxied, outFifo, outWriter, inReader, files, program, threadShutdown, caller>>

-------------------------------------------------------------------------------
(* TranscodeExternalHandler::serveContent and the calls of the caller.     *)

unchangedByCall == UNCHANGED <<outFifo, outWriter, inFifo, inReader, agentIn, agentOut, chainer, repeated>>
At(at) == client' = [client EXCEPT !.at = at]
Answers(data, told) == out' = out \o data /\ result' = told

\* openCurlFifo, if the program cannot read an URL
Prepare ==
    /\ client.at = "prepare"
    /\ At("check")
    /\ files' = IF proxied THEN {"in"} ELSE {}
    /\ chain' = IF proxied THEN [chain EXCEPT !.at = "open"] ELSE chain
    /\ UNCHANGED <<outFifo, outWriter, inFifo, inWriter, inReader, program, fetched, failed, repeated,
                   threadShutdown, out, result, raced>>

\* checkTranscoder, makeFifo and the fork; a FIFO made before a fork that fails
\* is left, and when one of them fails the chainer is destroyed while its thread
\* runs: ~IOHandlerChainer frees what it uses before ~ThreadExecutor joins it
Launch ==
    /\ client.at = "check"
    /\ \/ /\ At("construct")
          /\ files' = files \cup {"out"}
          /\ agent' = [agent EXCEPT !.at = "start"]
       \/ /\ At(IF proxied THEN "undefined" ELSE "closed")
          /\ files' \in {files, files \cup {"out"}}
          /\ UNCHANGED agent
    /\ UNCHANGED <<inWriter, threadShutdown, out, result, raced>> /\ unchangedByCall

\* the constructor and open: the program must still be alive
Opens(at, next) ==
    /\ client.at = at
    /\ At(IF Alive THEN next ELSE "destroy")
    /\ UNCHANGED <<inWriter, files, agent, threadShutdown, out, result, raced>> /\ unchangedByCall

read ==
    /\ client.at = "idle" /\ result \notin {"end", "error"}
    /\ client' = Client("select", <<>>, 0)
    /\ UNCHANGED <<inWriter, files, agent, threadShutdown, out, result, raced>> /\ unchangedByCall

\* the FIFO has data, or those who wrote into it are gone
Readable == outFifo # <<>> \/ outWriter = "closed"

GotOver(n) == SubSeq(outFifo, 1, n) \o client.got                     \* mutant
Got(n) == client.got \o SubSeq(outFifo, 1, n)

Takes ==
    /\ client.at = "select" /\ Readable
    /\ LET n == Min({Length - Len(client.got), Len(outFifo)})
           got == Got(n)
       IN /\ outFifo' = SubSeq(outFifo, n + 1, Len(outFifo))
          /\ IF n > 0 /\ Len(got) < Length
             THEN client' = Client("select", got, 0) /\ UNCHANGED <<out, result>>
             ELSE IF got = <<>> THEN At("empty") /\ UNCHANGED <<out, result>>
             ELSE client' = Client("idle", <<>>, 0) /\ Answers(got, "data")
    /\ UNCHANGED <<inWriter, files, agent, threadShutdown, raced>>
    /\ UNCHANGED <<outWriter, inFifo, inReader, agentIn, agentOut, chainer, repeated>>

TimesOut ==
    /\ client.at = "select" /\ ~Readable
    /\ At("look")
    /\ UNCHANGED <<inWriter, files, agent, threadShutdown, out, result, raced>> /\ unchangedByCall

\* what was read in this call, and what the program wrote before it ended, is
\* given up when the program is found dead
AlwaysEnd == "end"                                                  \* mutant
Told == IF agent.status = "ok" THEN "end" ELSE "error"

TooMany == client.timeouts >= retryCount

Looks ==
    /\ client.at = "look"
    /\ IF ~Alive
       THEN /\ client' = Client("kill all", <<>>, 0) /\ Answers(<<>>, Told)
            /\ raced' = (raced \/ client.got # <<>> \/ outFifo # <<>>)
       ELSE /\ client' = [client EXCEPT !.timeouts = @ + 1,
                                        !.at = IF TooMany THEN "wait" ELSE "select"]
            /\ UNCHANGED <<out, result, raced>>
    /\ UNCHANGED <<inWriter, files, agent, threadShutdown>> /\ unchangedByCall

\* isSocketReadable, after too many timeouts
Waits ==
    /\ client.at = "wait"
    /\ IF Readable THEN client' = Client("select", client.got, 0) /\ UNCHANGED result
       ELSE client' = Client("kill", <<>>, 0) /\ result' = "error"
    /\ UNCHANGED <<inWriter, files, agent, threadShutdown, out, raced>> /\ unchangedByCall

\* nothing more to read
Empty ==
    /\ client.at = "empty"
    /\ \/ ~Alive /\ client' = Client("kill all", <<>>, 0) /\ result' = Told
       \/ Alive /\ At("kill empty") /\ UNCHANGED result
    /\ UNCHANGED <<inWriter, files, agent, threadShutdown, out, raced>> /\ unchangedByCall

\* ProcessExecutor::kill: SIGTERM, SIGINT and at last SIGKILL; a program may
\* take the first for a regular end
Kills ==
    /\ client.at \in {"kill", "kill empty", "destroy"}
    /\ \/ Alive /\ \E status \in {"ok", "failed"} : Dies(status)
       \/ ~Alive /\ UNCHANGED <<agent, inReader, outWriter>>
    /\ result' = IF client.at = "kill empty" THEN IF agent'.status = "ok" THEN "end" ELSE "error"
                 ELSE result
    /\ At(IF client.at = "destroy" THEN "destroy all" ELSE "kill all")
    /\ UNCHANGED <<inWriter, files, threadShutdown, out, raced>>
    /\ UNCHANGED <<outFifo, inFifo, agentIn, agentOut, chainer, repeated>>

\* killAll: ThreadExecutor::kill of the chainer, and the join
NotShut == threadShutdown                                           \* mutant
Shut == TRUE
KillsAll ==
    /\ client.at \in {"kill all", "destroy all"}
    /\ threadShutdown' = Shut
    /\ At(IF client.at = "kill all" THEN "join" ELSE "destroy join")
    /\ UNCHANGED <<inWriter, files, agent, out, result, raced>> /\ unchangedByCall

Joined == chain.at \in {"none", "done"}

Joins ==
    /\ client.at \in {"join", "destroy join"} /\ Joined
    /\ At(IF client.at = "join" THEN "idle" ELSE "remove")
    /\ UNCHANGED <<inWriter, files, agent, threadShutdown, out, result, raced>> /\ unchangedByCall

close ==
    /\ client.at = "idle"
    /\ At("destroy")
    /\ UNCHANGED <<inWriter, files, agent, threadShutdown, out, result, raced>> /\ unchangedByCall

\* the FIFOs go with the handlers, and with the program
Removes ==
    /\ client.at = "remove"
    /\ files' = {}
    /\ inWriter' = IF inWriter = "open" THEN "closed" ELSE inWriter
    /\ At("closed")
    /\ UNCHANGED <<agent, threadShutdown, out, result, raced>> /\ unchangedByCall

serving ==
    /\ \/ Prepare \/ Launch \/ Opens("construct", "open") \/ Opens("open", "idle")
       \/ Takes \/ TimesOut \/ Looks \/ Waits \/ Empty \/ Kills \/ KillsAll \/ Joins \/ Removes
    /\ UNCHANGED proxied
calling == (read \/ close) /\ UNCHANGED proxied

Init ==
    /\ proxied \in BOOLEAN
    /\ inFifo = <<>> /\ outFifo = <<>> /\ inWriter = "never" /\ outWriter = "never"
    /\ inReader = FALSE /\ files = {}
    /\ agent = [at |-> "absent", status |-> "failed"] /\ agentIn = <<>> /\ agentOut = <<>>
    /\ chain = Chain("none", <<>>, 0) /\ fetched = 0 /\ failed = FALSE
    /\ threadShutdown = FALSE
    /\ client = Client("prepare", <<>>, 0) /\ out = <<>> /\ result = "none"
    /\ raced = FALSE /\ repeated = FALSE

Next == agentStep \/ threadProc \/ serving \/ calling

\* the program is not fair, it may hang; a kill ends it nevertheless
Spec == Init /\ [][Next]_vars /\ WF_vars(threadProc) /\ WF_vars(serving)

-------------------------------------------------------------------------------
(* Properties.                                                             *)

TypeOK ==
    /\ Len(inFifo) <= Capacity /\ Len(outFifo) <= Capacity
    /\ inWriter \in {"never", "open", "closed"} /\ outWriter \in {"never", "open", "closed"}
    /\ chain.written <= Len(chain.buf) /\ Len(chain.buf) <= Chunk
    /\ Len(client.got) < Length /\ client.timeouts \in 0 .. retryCount + 1
    /\ files \subseteq {"in", "out"}

\* The program reads the source in its order, each byte once, unless the
\* chainer had a timeout with a part of its buffer written (IOHandlerChainer
\* takes the 0 for "nothing written").
SourceInOrder == ~repeated => IsPrefix(agentIn \o inFifo, Source)

\* The caller gets what the program wrote, in its order, and no byte twice.
ReadInOrder == IsPrefix(out, agentOut)

\* Where the caller is told of the end it has had everything the program made
\* of the whole source, unless the program ended between a timeout and the look
\* at it.
EndIsWhole == result = "end" /\ ~raced => out = agentOut /\ out = Source

\* Nothing outlives the handler of a program that was started: not the program,
\* no thread, no FIFO.
NothingIsLeft ==
    client.at = "closed" /\ agent.at # "absent" =>
        ~Alive /\ chain.at \in {"none", "done"} /\ files = {}

\* A call of read returns, though the program hangs, the source is slow, and
\* the chainer's thread waits for either.
Reading == client.at \notin {"prepare", "check", "idle", "closed", "undefined"}
ReadReturns == Reading ~> ~Reading
===============================================================================
