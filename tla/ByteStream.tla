------------------------------ MODULE ByteStream ------------------------------
(***************************************************************************)
(* What an IOHandler promises to the web server that reads from it         *)
(* (iohandler/io_handler.h): "Reads previously opened/initialized data     *)
(* sequentially".  A call of read returns the next bytes of the source, at *)
(* least one and at most as many as were asked for, or says that the source*)
(* has ended, which is true, or that it failed; and it does return.        *)
(***************************************************************************)
EXTENDS Naturals, Sequences

CONSTANTS
    Source,     \* the bytes of the source
    Lengths     \* numbers of bytes a read may ask for

VARIABLES
    out,        \* the bytes handed to the caller so far
    state,      \* "closed", "idle", or the call under way: "read", "close"
    want,       \* number of bytes the read under way asks for
    result      \* of the last read: "none", "data", "end", "error"

streamVars == <<out, state, want, result>>

Prefix(n) == [i \in 1 .. n |-> Source[i]]

StreamInit ==
    /\ out = <<>>
    /\ state = "idle"
    /\ want = 0
    /\ result = "none"

Ask ==
    /\ state = "idle"
    /\ state' = "read"
    /\ want' \in Lengths
    /\ UNCHANGED <<out, result>>

Deliver(n) ==
    /\ n <= want /\ Len(out) + n <= Len(Source)
    /\ out' = Prefix(Len(out) + n)
    /\ result' = "data"

AtEnd == out = Source /\ out' = out /\ result' = "end"
Failed == out' = out /\ result' = "error"

Answer ==
    /\ state = "read"
    /\ state' = "idle"
    /\ want' = 0
    /\ (\E n \in 1 .. want : Deliver(n)) \/ AtEnd \/ Failed

BeginClose == state = "idle" /\ state' = "close" /\ UNCHANGED <<out, want, result>>
EndClose == state = "close" /\ state' = "closed" /\ UNCHANGED <<out, want, result>>

StreamNext == Ask \/ Answer \/ BeginClose \/ EndClose

StreamSafety == StreamInit /\ [][StreamNext]_streamVars
StreamSpec == StreamSafety /\ WF_streamVars(Answer) /\ WF_streamVars(EndClose)
===============================================================================
