------------------------- MODULE MCBufferedIOHandler -------------------------
(***************************************************************************)
(* Instances of the two classes that extend IOHandlerBufferHelper, and of  *)
(* ProcessIOHandler, for one run of TLC: the class is chosen in the first  *)
(* state, and the fields of the helper are the variables the first two     *)
(* share.  The bytes of each source are numbered, so that a byte that is   *)
(* lost, repeated or out of place shows.                                   *)
(***************************************************************************)
EXTENDS BufferedIOHandler

CONSTANTS
    contentLength, Pieces, CurlLengths, MaxSeeks,       \* of CurlIOHandler
    Content, Capacity, Chunk, readLength, retryCount, MaxRead   \* of ProcessIOHandler

\* libcurl delivers at least a byte, and a caller asks for one
ASSUME RemoteAssumption ==
    /\ contentLength \in Nat
    /\ Pieces \subseteq Nat \ {0} /\ CurlLengths \subseteq Nat \ {0}

ASSUME ProgramAssumption ==
    /\ Content \in Seq(Bytes)
    /\ Capacity \in Nat /\ Chunk \in Nat /\ retryCount \in Nat
    /\ readLength \in Nat \ {0}

VARIABLES handler, cells, doSeek, seekTo, isFresh, resume, next, client, download,
          pos, right, flaws, seeks
VARIABLES proxied, inFifo, outFifo, inWriter, outWriter, inReader, files, agent, agentIn,
          agentOut, chain, fetched, failed, stopping, reading, sent, told, raced,
          repeated

SevenBytes == 0 .. 7
NumberedSource == [i \in 1 .. 7 |-> i]
OneOrThree == {1, 3}
ThreeBytes == <<1, 2, 3>>

Curl == INSTANCE CurlIOHandler WITH Length <- contentLength, Lengths <- CurlLengths,
                                    caller <- client, thread <- download

Process == INSTANCE ProcessIOHandler WITH Source <- Content, Length <- readLength,
                                          threadShutdown <- stopping,
                                          client <- reading, out <- sent, result <- told

curlOnly == <<cells, doSeek, seekTo, isFresh, resume, next, client, download, pos,
              right, flaws, seeks>>
processOnly == <<proxied, inFifo, outFifo, inWriter, outWriter, inReader, files, agent, agentIn,
                 agentOut, chain, fetched, failed, stopping, reading, sent, told, raced, repeated>>
bufferedOnly == <<buffer, delivered, reader, thread, out, result>>

MCInit ==
    /\ handler \in {"buffered", "curl", "process"}
    /\ Init /\ Curl!Init /\ Process!Init
    /\ handler # "process" => ~proxied
    /\ handler # "buffered" => buffer = [i \in Cells |-> 0]

MCNext ==
    /\ UNCHANGED handler
    /\ \/ handler = "buffered" /\ Next /\ UNCHANGED <<curlOnly, processOnly>>
       \/ handler = "curl" /\ Curl!Next /\ UNCHANGED <<bufferedOnly, processOnly>>
       \/ handler = "process" /\ Process!Next /\ UNCHANGED <<vars, curlOnly>>

\* the fairness of the three classes, each for its own steps
MCSpec ==
    /\ MCInit /\ [][MCNext]_<<handler, vars, curlOnly, processOnly>>
    /\ WF_vars(handler = "buffered" /\ threadProc) /\ WF_vars(handler = "buffered" /\ callerStep)
    /\ WF_<<Curl!vars>>(handler = "curl" /\ Curl!threadProc)
    /\ WF_<<Curl!vars>>(handler = "curl" /\ Curl!callerStep)
    /\ WF_processOnly(handler = "process" /\ Process!threadProc)
    /\ WF_processOnly(handler = "process" /\ Process!serving)

(* CurlIOHandler hands out the bytes of the positions it was sought to.    *)
CurlRightBytes == Curl!TypeOK /\ Curl!RightBytes

(* A program reads the source's bytes in their order, and the client the   *)
(* bytes of the program in theirs.                                         *)
ReadInOrder == Process!TypeOK /\ Process!SourceInOrder /\ Process!ReadInOrder

(* Where the client is told the end it has got everything, and nothing is  *)
(* left behind: no thread, no program and no FIFO.                         *)
EndIsWhole == Process!EndIsWhole /\ Process!NothingIsLeft

(* A call of CurlIOHandler and one of ProcessIOHandler return.             *)
ReadReturns == Curl!CallReturns /\ Process!ReadReturns
=============================================================================
