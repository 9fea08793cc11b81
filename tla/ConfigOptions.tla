----------------------------- MODULE ConfigOptions -----------------------------
(***************************************************************************)
(* The options of the configuration that are edited entry by entry, in the *)
(* web UI and when the edits of earlier days are read from the database:   *)
(* ArrayOption and DictionaryOption (config/config_options.cc).  The server*)
(* uses `option`, which has no gaps; the UI shows an entry at the index it *)
(* always had, and a gap where one was removed, by way of indexMap.  An    *)
(* entry that was added goes with its index when it is the last.           *)
(*                                                                         *)
(* A size_t has the values 0 .. MaxSize here, and wraps around; MaxSize    *)
(* also stands for the index of an entry that was removed.                 *)
(***************************************************************************)
EXTENDS Integers, Sequences, SequencesExt, FiniteSetsExt

CONSTANTS
    Values,                 \* what an entry can be, or a key
    MaxSize,                \* numeric_limits<size_t>::max()
    MaxOrig, MaxIndex       \* bounds: entries at first, and indexes used

VARIABLES
    kind,                   \* "array" or "dictionary"
    option,                 \* a sequence of values, or a function on keys
    origSize,
    indexMap,               \* index -> position, or index -> key
    asked,                  \* auxiliary: the entries as the user has set them
    spoilt                  \* auxiliary: see Spoils

vars == <<kind, option, origSize, indexMap, asked, spoilt>>

Empty == ""                 \* the empty string: no entry
Removed == MaxSize

\* An array, or a dictionary whose keys are in the order of the map; the
\* value of a key is the key it was made with.
Init ==
    \E n \in 0 .. MaxOrig : \E entries \in [0 .. n - 1 -> Values] :
        /\ IsInjective(entries)
        /\ origSize = n /\ spoilt = FALSE
        /\ asked = [i \in 1 .. n |-> entries[i - 1]]
        /\ \/ /\ kind = "array"
              /\ option = asked
              /\ indexMap = [i \in 0 .. n - 1 |-> i]
           \/ /\ kind = "dictionary"
              /\ option = [k \in {entries[i] : i \in 0 .. n - 1} |-> k]
              /\ indexMap = entries

Without(f, S) == [x \in DOMAIN f \ S |-> f[x]]
With(f, x, v) == [y \in DOMAIN f \cup {x} |-> IF y = x THEN v ELSE f[y]]

getEditSize == IF DOMAIN indexMap = {} THEN 0 ELSE (Max(DOMAIN indexMap) + 1) % (MaxSize + 1)

-------------------------------------------------------------------------------
(* ArrayOption::setItem                                                    *)

\* The loop that frees the last indexes goes down from getEditSize() - 1, and past
\* 0 when there were no entries at first; indexMap[i] makes an entry there.
FreesAll(map) == Without(map, {i \in DOMAIN map : i >= origSize})             \* mutant
Freed(map) ==
    LET last == {i \in DOMAIN map : i >= origSize /\ \A j \in DOMAIN map : j >= i => map[j] = Removed}
        left == Without(map, last)
    IN  IF DOMAIN left = {} THEN [i \in {MaxSize} |-> 0] ELSE left

Erase(i) ==
    LET map == [j \in DOMAIN indexMap |->
                   IF j = i THEN Removed
                   ELSE IF i < j /\ j < getEditSize /\ indexMap[j] # Removed THEN indexMap[j] - 1
                   ELSE indexMap[j]]
    IN  /\ option' = RemoveAt(option, indexMap[i] + 1)
        /\ indexMap' = Freed(map)

\* An entry that was removed comes back before the next one, or after the one before.
Present(S) == {j \in S : indexMap[j] # Removed}
Place(i) ==
    LET after == Present({j \in DOMAIN indexMap : i < j /\ j < getEditSize})
        before == Present({j \in DOMAIN indexMap : j < i})
    IN  IF after # {} THEN indexMap[Min(after)]
        ELSE IF before # {} THEN indexMap[Max(before)] + 1
        ELSE Len(option)
Restore(i, v) ==
    /\ option' = InsertAt(option, Place(i) + 1, v)
    /\ indexMap' = [j \in DOMAIN indexMap |->
                        IF j = i THEN Place(i)
                        ELSE IF i < j /\ j < getEditSize /\ indexMap[j] # Removed THEN indexMap[j] + 1
                        ELSE indexMap[j]]

setItem(i, v) ==
    IF i \in DOMAIN indexMap
    THEN IF v = Empty THEN Erase(i)
         ELSE IF indexMap[i] = Removed THEN Restore(i, v)
         ELSE option' = [option EXCEPT ![indexMap[i] + 1] = v] /\ UNCHANGED indexMap
    ELSE IF v = Empty THEN UNCHANGED <<option, indexMap>>
    ELSE option' = Append(option, v) /\ indexMap' = With(indexMap, i, Len(option))

-------------------------------------------------------------------------------
(* DictionaryOption                                                        *)

\* The loop after a removal is to free the last indexes; it looks at the key that
\* was removed, and so erases the entries of all indexes from origSize on.
Added(i) == {j \in DOMAIN indexMap : j >= origSize /\ j < getEditSize} \ {i}
ErasedKey(i) == {indexMap[i]} \cup (IF origSize < getEditSize THEN {indexMap[j] : j \in Added(i)} ELSE {})

Renamed(i, k) ==
    With(Without(option, {indexMap[i]}), k, IF indexMap[i] \in DOMAIN option THEN option[indexMap[i]] ELSE Empty)

KeyAt(i) == IF i \in DOMAIN indexMap THEN indexMap[i] ELSE Empty
setKey(i, k) ==
    /\ indexMap' = With(indexMap, i, k)
    /\ option' = IF KeyAt(i) # Empty
                 THEN IF k = Empty THEN Without(option, ErasedKey(i)) ELSE Renamed(i, k)
                 ELSE IF k # Empty THEN With(option, k, Empty) ELSE option

setValue(i, v) ==
    /\ KeyAt(i) # Empty
    /\ option' = With(option, indexMap[i], v)
    /\ UNCHANGED indexMap

-------------------------------------------------------------------------------
(* Edits: of an entry that is shown, of one that was removed, of a new one.*)

\* What the UI shows, with gaps, and what it would show after a list of edits
\* each of which only touches its entry.
ShownAt(i) ==
    IF i \notin DOMAIN indexMap THEN Empty
    ELSE IF kind = "array" THEN IF indexMap[i] = Removed THEN Empty ELSE option[indexMap[i] + 1]
    ELSE IF indexMap[i] \in DOMAIN option THEN option[indexMap[i]] ELSE Empty
Shown == [n \in 1 .. getEditSize |-> ShownAt(n - 1)]

\* an array gives up the last gaps behind what was there at first
NoTail(s) ==
    LET filled == {n \in DOMAIN s : s[n] # Empty}
    IN  IF kind = "array" THEN SubSeq(s, 1, Max({origSize} \cup filled)) ELSE s
Ask(i, v) ==
    LET longer == IF i < Len(asked) THEN asked ELSE Append(asked, Empty)
    IN  asked' = NoTail([longer EXCEPT ![i + 1] = v])

\* What goes wrong: to remove an entry that is removed erases before the first
\* element of the vector; to remove the last of an array that had none leaves an
\* index at MaxSize; to remove a key takes along what was added.
Spoils(i, v) ==
    /\ v = Empty
    /\ IF kind = "array" THEN ShownAt(i) = Empty \/ (origSize = 0 /\ Len(option) = 1)
                         ELSE \E j \in Added(i) : indexMap[j] # Empty

CanEdit(i, v) ==
    /\ ~spoilt
    /\ i <= getEditSize /\ i <= MaxIndex /\ (i = getEditSize => v # Empty)
    /\ spoilt' = Spoils(i, v)

EditArray(i, v) ==
    /\ kind = "array" /\ CanEdit(i, v) /\ Ask(i, v)
    /\ IF v = Empty /\ ShownAt(i) = Empty THEN UNCHANGED <<option, indexMap>> ELSE setItem(i, v)
    /\ UNCHANGED <<kind, origSize>>

\* the UI sends a new entry in one: its key, then its value; here they are the same
AddKey(i, k) ==
    /\ kind = "dictionary" /\ CanEdit(i, k) /\ KeyAt(i) = Empty /\ k # Empty
    /\ k \notin DOMAIN option
    /\ indexMap' = With(indexMap, i, k) /\ option' = With(option, k, k)
    /\ Ask(i, k)
    /\ UNCHANGED <<kind, origSize>>
EditKey(i, k) ==
    /\ kind = "dictionary" /\ KeyAt(i) # Empty /\ CanEdit(i, k)
    /\ k \notin DOMAIN option
    /\ setKey(i, k)
    /\ IF k = Empty THEN Ask(i, Empty) ELSE UNCHANGED asked
    /\ UNCHANGED <<kind, origSize>>
EditValue(i, v) ==
    /\ kind = "dictionary" /\ v # Empty /\ CanEdit(i, v)
    /\ setValue(i, v) /\ Ask(i, v)
    /\ UNCHANGED <<kind, origSize>>

Next == \E i \in 0 .. MaxIndex, v \in Values \cup {Empty} :
            EditArray(i, v) \/ AddKey(i, v) \/ EditKey(i, v) \/ EditValue(i, v)

Spec == Init /\ [][Next]_vars

-------------------------------------------------------------------------------
(* Properties                                                              *)

OptionsTypeOK ==
    /\ kind = "array" => /\ option \in Seq(Values)
                         /\ \A i \in DOMAIN indexMap : indexMap[i] \in 0 .. MaxSize
    /\ kind = "dictionary" => \A k \in DOMAIN option : k \in Values /\ option[k] \in Values \cup {Empty}

\* Whatever entries were changed, removed, set again and added, in any order: the
\* UI shows each entry with what it was last set to at the index it had, and the
\* server uses these entries, of an array in that order.
EditsAreLocal ==
    OptionsTypeOK /\ (~spoilt =>
        /\ Shown = asked
        /\ kind = "array" => option = SelectSeq(asked, LAMBDA v : v # Empty)
        /\ kind = "dictionary" => \A k \in DOMAIN option : \E i \in DOMAIN indexMap : indexMap[i] = k)
================================================================================
