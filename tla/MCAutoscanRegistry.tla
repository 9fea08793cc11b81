------------------------- MODULE MCAutoscanRegistry -------------------------
(***************************************************************************)
(* Instances of AutoscanRegistry for TLC: a directory and one below it.    *)
(* The configuration has the upper one, and requests name a directory by   *)
(* its path or by the id of its container.  One run checks two instances,  *)
(* chosen in the first state: one whose requests come one after the other, *)
(* and one whose requests may be under way at once, without a restart.     *)
(***************************************************************************)
EXTENDS AutoscanRegistry

CONSTANTS top, sub, w1, w2, Instances

TwoPaths == {top, sub}
SubInTop == {<<sub, top>>}
TwoWorkers == {w1, w2}
TopInConfig ==
    [m \in Modes |-> IF m = "manual" THEN <<[path |-> top, mode |-> m, recursive |-> TRUE]>>
                                    ELSE <<>>]
ByEither == {"fs", "object"}
Both == {"concurrent", "sequential"}

VARIABLES
    instance,
    misled      \* "now": since the last start, "once": before it, or "no"

Concurrent == INSTANCE AutoscanRegistry WITH MaxStarts <- 1

OneRequestAtMost ==
    \A v, w \in Workers : v = w \/ worker[v].pc = "idle" \/ worker[w].pc = "idle"

\* A request that names a watched directory by the id of its container: it works
\* on a new object without a scan id, and the entry of the list stays as it was.
Misleads ==
    \E w \in Workers, via \in Via \ {"fs"}, path \in Paths :
        /\ ListedAt(path) # {}
        /\ \/ RequestRemove(w, path, via)
           \/ \E s \in Setting : s.path = path /\ RequestSet(w, s, via)

MCInit == Init /\ instance \in Instances /\ misled = "no"

MCNext ==
    /\ UNCHANGED instance
    /\ \/ instance = "concurrent" /\ Concurrent!Next /\ UNCHANGED misled
       \/ /\ instance = "sequential" /\ Next /\ OneRequestAtMost'
          /\ misled' = IF Misleads THEN "now"
                       ELSE IF phase = "down" /\ misled = "now" THEN "once" ELSE misled

MCSpec == MCInit /\ [][MCNext]_<<vars, instance, misled>>

(* With requests that come one after the other the rows never overlap.     *)
SequentialNoOverlap == instance = "sequential" => NoOverlap

(* And the watch list is what a restart would rebuild, unless a request    *)
(* since the last start has named a watched directory by the id of its     *)
(* container; where none ever has, the container of each row is flagged.   *)
SequentialRestartKeeps ==
    instance = "sequential" =>
        /\ misled # "now" => RestartKeeps
        /\ misled = "no" => RowFlagged
=============================================================================
