------------------------------- MODULE Playlists -------------------------------
(***************************************************************************)
(* A playlist file and the objects made of it: a scan that finds the file  *)
(* changed has the script read it entry by entry and put an item for each  *)
(* one into two containers, "all" (All Playlists) and "dir" (Directories); *)
(* then the items that are left from the last time go                      *)
(* (content/import_service.cc, content/scripting/playlist_parser_script.cc,*)
(* scripts/js/playlists.js, scripts/js/common.js).                         *)
(*                                                                         *)
(* Files come, change and go during the scan, and the user may cancel its  *)
(* task.  The title of a media file is its version, of an external URL the *)
(* one the playlist gives.  Formats that are read line by line ("m3u",       *)
(* "pls") and those that are parsed as a whole before ("xml": WPL, XSPF,   *)
(* ASX); "bad" stands for one that cannot be parsed.  create-link is yes.  *)
(***************************************************************************)
EXTENDS Integers, Sequences, FiniteSets, FiniteSetsExt, SequencesExt

CONSTANTS
    Files,          \* media files
    Urls,           \* external URLs
    Lists,          \* what a playlist can say: [kind, lines]
    MaxChanges      \* bound: changes of files, and cancelled tasks

VARIABLES
    disk,           \* the version of each media file, 0 if there is none
    list,           \* the playlist file: [kind, lines, time]
    rows,           \* the version of each media file in the database, 0 if it has no row
    listTime,       \* the time of the playlist in the database, 0 if it has no row
    entries,        \* the items: [id, view, at, order, title]
    import,         \* the scan
    missed, lost,   \* auxiliary: places the last import did without; those gone since
    ruined,         \* auxiliary: the last import was cut short
    changes
vars == <<disk, list, rows, listTime, entries, import, missed, lost, ruined, changes>>

Views == {"all", "dir"}
None == 0    \* no title; titles are numbers
Missing == [kind |-> "none", lines |-> <<>>, time |-> 0]
Idle == [pc |-> "idle"]

-------------------------------------------------------------------------------
(* Reading.  A line gives a title or a place ([is, number, title] or       *)
(* [is, number, place]); one of an XML playlist is an entry: the places it *)
(* may be found at, in the order of preference.  `pending` is what the     *)
(* script has gathered.                                                    *)

Entry(number, title, places) == [number |-> number, title |-> title, places |-> places]
NoEntry == Entry(-1, None, <<>>)

\* the entry a line completes (or NoEntry), and what is pending after it
M3uLine(pending, l) ==
    IF l.is = "title" THEN [entry |-> NoEntry, pending |-> [pending EXCEPT !.title = l.title]]
    ELSE [entry |-> Entry(0, pending.title, <<l.place>>), pending |-> NoEntry]

PlsLine(pending, l) ==
    LET another == pending.number \notin {-1, l.number}
        kept == IF another THEN NoEntry ELSE pending
    IN [entry |-> IF another /\ pending.places # <<>> THEN pending ELSE NoEntry,
        pending |-> IF l.is = "title" THEN [kept EXCEPT !.number = l.number, !.title = l.title]
                    ELSE [kept EXCEPT !.number = l.number, !.places = <<l.place>>]]

XmlEntry(pending, l) == [entry |-> l, pending |-> NoEntry]

LineOf(kind, pending, l) ==
    CASE kind = "m3u" -> M3uLine(pending, l)
      [] kind = "pls" -> PlsLine(pending, l)
      [] kind = "xml" -> XmlEntry(pending, l)

\* a PLS entry is complete when the next one begins, or at the end
LastOf(kind, pending) == IF kind = "pls" /\ pending.places # <<>> THEN pending ELSE NoEntry

-------------------------------------------------------------------------------
Init ==
    /\ disk = [f \in Files |-> 1] /\ rows = [f \in Files |-> 0]
    /\ list \in {[kind |-> l.kind, lines |-> l.lines, time |-> 1] : l \in Lists}
    /\ listTime = 0 /\ entries = {} /\ import = Idle
    /\ missed = {} /\ lost = {} /\ ruined = FALSE /\ changes = 0

At(pc) == import.pc = pc
Goto(pc) == import' = [import EXCEPT !.pc = pc]

\* createItems: the rows are brought up to date before any layout is made
Begin ==
    /\ At("idle")
    /\ LET present == {f \in Files : disk[f] # 0}
           changed == {f \in present : rows[f] \notin {0, disk[f]}}
           own == list # Missing /\ list.time # listTime
       IN /\ rows' = [f \in Files |-> IF f \in present THEN disk[f] ELSE rows[f]]
          /\ listTime' = IF own THEN list.time ELSE listTime
          /\ import' = [pc |-> "next", valid |-> TRUE, own |-> own, changed |-> changed,
                        refresh |-> FALSE,
                        gone |-> {f \in Files : disk[f] = 0 /\ rows[f] # 0},
                        listGone |-> list = Missing /\ listTime # 0]
    /\ UNCHANGED <<disk, list, entries, missed, lost, ruined, changes>>

\* media files are laid out before or after the playlist, as their paths sort;
\* a playlist with an item of one that changed is read again at the end
LayOutMedia ==
    /\ At("next") /\ import.changed # {}
    /\ import' = [import EXCEPT !.refresh = \E e \in entries : e.at \in import.changed, !.changed = {}]
    /\ UNCHANGED <<disk, list, rows, listTime, entries, missed, lost, ruined, changes>>

\* fillSingleLayout of the playlist: what its containers hold now is noted,
\* and the file is opened; one that cannot be read changes nothing
StartImport ==
    /\ At("next") /\ (import.own \/ (import.refresh /\ import.changed = {}))
    /\ LET run == [import EXCEPT !.own = FALSE, !.refresh = import.own /\ @]
           readable == list.kind \notin {"none", "bad"}
       IN /\ import' = IF readable
                       THEN [pc |-> "read", kind |-> list.kind, lines |-> list.lines, pending |-> NoEntry,
                             order |-> 1, entry |-> NoEntry, previous |-> {e.id : e \in entries},
                             current |-> {}, torn |-> FALSE] @@ run
                       ELSE run
          /\ missed' = IF readable THEN {} ELSE missed
          /\ lost' = IF readable THEN {} ELSE lost
    /\ UNCHANGED <<disk, list, rows, listTime, entries, ruined, changes>>

-------------------------------------------------------------------------------
Reading == At("read") /\ import.entry = NoEntry

\* a cancelled task makes readLine report the end of the file
ReadLine ==
    /\ Reading /\ import.valid /\ import.lines # <<>>
    /\ LET r == LineOf(import.kind, import.pending, Head(import.lines))
       IN import' = [import EXCEPT !.lines = Tail(@), !.pending = r.pending, !.entry = r.entry,
                                   !.pc = IF r.entry = NoEntry THEN "read" ELSE "all"]
    /\ UNCHANGED <<disk, list, rows, listTime, entries, missed, lost, ruined, changes>>

ReadEnd ==
    /\ Reading /\ (import.lines = <<>> \/ (~import.valid /\ import.kind # "xml"))
    /\ LET last == LastOf(import.kind, import.pending)
       IN import' = [import EXCEPT !.lines = <<>>, !.pending = NoEntry, !.entry = last,
                                   !.torn = @ \/ import.lines # <<>>,
                                   !.pc = IF last = NoEntry THEN "end" ELSE "all"]
    /\ UNCHANGED <<disk, list, rows, listTime, entries, missed, lost, ruined, changes>>

\* readPlaylistEntry throws when the task is cancelled: nothing is removed
Abort ==
    /\ Reading /\ ~import.valid /\ import.kind = "xml"
    /\ Goto("next") /\ ruined' = TRUE
    /\ UNCHANGED <<disk, list, rows, listTime, entries, missed, lost, changes>>

-------------------------------------------------------------------------------
(* addPlaylistItem, addCdsObject.                                          *)

Place == Head(import.entry.places)
Usable(p) == IF p \in Urls THEN TRUE ELSE disk[p] # 0
\* addFile for a file without a row takes layoutMutex, which this thread holds
Deadlocks(p) == IF p \in Urls THEN FALSE ELSE disk[p] # 0 /\ rows[p] = 0

FreeId == Min((1 .. Cardinality(entries) + 1) \ {e.id : e \in entries})
PositionOf == IF import.entry.number > 0 THEN import.entry.number ELSE import.order
TitleOf(p) == IF p \in Files THEN rows[p] ELSE import.entry.title

\* the same reference with the same title at the same position is found again
SameTitle(e, view, p) == e.view = view /\ e.at = p /\ e.title = TitleOf(p)      \* mutant
Same(e, view, p) == e.view = view /\ e.at = p /\ e.title = TitleOf(p) /\ e.order = PositionOf
Found(view, p) == IF p \in Files THEN {e \in entries : Same(e, view, p)} ELSE {}
Item(view, p) ==
    IF Found(view, p) # {} THEN CHOOSE e \in Found(view, p) : TRUE
    ELSE [id |-> FreeId, view |-> view, at |-> p, order |-> PositionOf, title |-> TitleOf(p)]

Advanced(run) == [run EXCEPT !.entry = NoEntry, !.pc = "read", !.order = @ + 1]
Skipped(run) == [run EXCEPT !.entry = NoEntry, !.pc = "read"]
WithItem(run, i) == [run EXCEPT !.current = @ \cup {i.id}]
Add(i) == entries' = entries \cup {i}

Stuck(p) ==
    /\ Deadlocks(p) /\ Goto("stuck")
    /\ UNCHANGED <<entries, missed>>

AddToAll ==
    /\ At("all")
    /\ \/ Stuck(Place)
       \/ /\ Usable(Place) /\ ~Deadlocks(Place)
          /\ LET i == Item("all", Place)
             IN Add(i) /\ import' = [WithItem(import, i) EXCEPT !.pc = "dir"]
          /\ UNCHANGED missed
       \/ /\ ~Usable(Place)
          /\ missed' = missed \cup {Place}
          /\ import' = IF Len(import.entry.places) > 1
                       THEN [import EXCEPT !.entry.places = Tail(@)]
                       ELSE Skipped(import)
          /\ UNCHANGED entries
    /\ UNCHANGED <<disk, list, rows, listTime, lost, ruined, changes>>

\* in a playlist that is read by lines, the order goes on only when both views have the item
AddToDir ==
    /\ At("dir")
    /\ \/ Stuck(Place)
       \/ /\ Usable(Place) /\ ~Deadlocks(Place)
          /\ LET i == Item("dir", Place) IN Add(i) /\ import' = Advanced(WithItem(import, i))
          /\ UNCHANGED missed
       \/ /\ ~Usable(Place)
          /\ missed' = missed \cup {Place}
          /\ import' = LET run == IF import.kind = "xml" THEN Advanced(import) ELSE Skipped(import)
                       IN [run EXCEPT !.torn = TRUE]
          /\ UNCHANGED entries
    /\ UNCHANGED <<disk, list, rows, listTime, lost, ruined, changes>>

\* what the containers held before and do not hold now is removed
Prune ==
    /\ At("end")
    /\ entries' = {e \in entries : e.id \notin import.previous \ import.current}
    /\ ruined' = import.torn
    /\ Goto("next")
    /\ UNCHANGED <<disk, list, rows, listTime, missed, lost, changes>>

\* the rows of files that are gone take the items that refer to them along,
\* the row of the playlist takes its containers
Sweep ==
    /\ At("next") /\ ~import.own /\ ~import.refresh /\ import.changed = {}
    /\ entries' = IF import.listGone THEN {} ELSE {e \in entries : e.at \notin import.gone}
    /\ rows' = [f \in Files |-> IF f \in import.gone THEN 0 ELSE rows[f]]
    /\ listTime' = IF import.listGone THEN 0 ELSE listTime
    /\ lost' = lost \cup import.gone
    /\ import' = Idle
    /\ UNCHANGED <<disk, list, missed, ruined, changes>>

-------------------------------------------------------------------------------
Changed == changes < MaxChanges /\ changes' = changes + 1

\* a media file is removed, put back as it was, or written
ChangeFile(f) ==
    /\ Changed
    /\ \E v \in {0, rows[f], changes + 2} \ {disk[f]} : disk' = [disk EXCEPT ![f] = v]
    /\ UNCHANGED <<list, rows, listTime, entries, import, missed, lost, ruined>>

ChangeList ==
    /\ Changed
    /\ \/ list # Missing /\ list' = Missing
       \/ \E l \in Lists : list' = [kind |-> l.kind, lines |-> l.lines, time |-> changes + 2]
    /\ UNCHANGED <<disk, rows, listTime, entries, import, missed, lost, ruined>>

Cancel ==
    /\ Changed
    /\ ~At("idle") /\ import.valid
    /\ import' = [import EXCEPT !.valid = FALSE]
    /\ UNCHANGED <<disk, list, rows, listTime, entries, missed, lost, ruined>>

Next ==
    \/ Begin \/ LayOutMedia \/ StartImport \/ ReadLine \/ ReadEnd \/ Abort
    \/ AddToAll \/ AddToDir \/ Prune \/ Sweep
    \/ ChangeList \/ Cancel
    \/ \E f \in Files : ChangeFile(f)

Spec == Init /\ [][Next]_vars

-------------------------------------------------------------------------------
(* What a playlist says, whatever reads it.                                *)

Numbers(lines, is) == {l.number : l \in {m \in ToSet(lines) : m.is = is}}
LineFor(lines, is, n) == CHOOSE l \in ToSet(lines) : l.is = is /\ l.number = n
FilesIn(lines) == SetToSortSeq({i \in DOMAIN lines : lines[i].is = "file"}, <)
TitleBefore(lines, i) ==
    LET titles == {j \in 1 .. i - 1 : \A k \in j .. i - 1 : lines[k].is = "title"}
    IN IF titles = {} THEN None ELSE lines[i - 1].title

Said(l) ==
    CASE l.kind = "m3u" -> LET at == FilesIn(l.lines)
                           IN [k \in DOMAIN at |-> Entry(0, TitleBefore(l.lines, at[k]), <<l.lines[at[k]].place>>)]
      [] l.kind = "pls" -> LET at == SetToSortSeq(Numbers(l.lines, "file"), <)
                           IN [k \in DOMAIN at |->
                                Entry(at[k], IF at[k] \in Numbers(l.lines, "title")
                                             THEN LineFor(l.lines, "title", at[k]).title ELSE None,
                                      <<LineFor(l.lines, "file", at[k]).place>>)]
      [] l.kind = "xml" -> l.lines

\* an entry stands for the first place that was usable, as long as it is there
Wanted(l) ==
    LET left(e) == [e EXCEPT !.places = SelectSeq(@, LAMBDA p : p \notin missed)]
        some == SelectSeq([k \in DOMAIN Said(l) |-> left(Said(l)[k])],
                          LAMBDA e : e.places # <<>> /\ Head(e.places) \notin lost)
    IN [k \in DOMAIN some |-> LET p == Head(some[k].places)
                              IN <<p, IF p \in Files THEN rows[p] ELSE some[k].title>>]

Shown(view) ==
    LET mine == {e \in entries : e.view = view /\ e.at \notin missed \cup lost}
        sorted == SetToSortSeq(mine, LAMBDA d, e : d.order < e.order)
    IN [k \in DOMAIN sorted |-> <<sorted[k].at, sorted[k].title>>]

(* The ids of the items are different.  Once a playlist was read to its    *)
(* end and has not been written since, both of its containers show, sorted *)
(* by the order the script gave, exactly its entries, each once for each   *)
(* time the playlist names it, with the title the media file has in the    *)
(* database: a position found again keeps its item, one that is new gets   *)
(* one, and the items of the last version are gone.  Entries that no       *)
(* file was found for, or whose file has gone since, do not count: they    *)
(* are not made up for when the file comes (back).                         *)
Settled == At("idle") /\ list.kind \notin {"none", "bad"} /\ listTime = list.time /\ ~ruined
EntriesAreListed ==
    /\ \A d, e \in entries : d.id = e.id => d = e
    /\ Settled => \A view \in Views : Shown(view) = Wanted(list)
=============================================================================
