---------------------------- MODULE InotifyWatches ----------------------------
(***************************************************************************)
(* The thread that watches autoscan directories with inotify               *)
(* (AutoscanInotify, InotifyHandler).  For each watch descriptor that the  *)
(* kernel gave it, a table holds the path of the directory and what it is  *)
(* watched for: as part of an autoscan directory, as the nearest existing  *)
(* parent of one that is gone, or as a parent whose move would move one.   *)
(* Directories are made, removed and moved while the thread works, and the *)
(* kernel reports it by events that the thread reads later.                *)
(*                                                                         *)
(* A step of the thread makes one system call on directories, or several   *)
(* for one path: it looks whether a path exists, adds or removes a watch,  *)
(* or lists a directory.  What it still has to do is `todo`.  Files, whose *)
(* events go to the content manager, are left out, as is the clean-up on   *)
(* IN_IGNORED: `events` does not contain this flag (inotify_manager_cc.h), *)
(* so threadProc drops the event.                                          *)
(***************************************************************************)
EXTENDS Integers, FiniteSetsExt, SequencesExt

CONSTANTS
    Paths,      \* paths of directories, sequences of names, the root <<>> too
    Fixed,      \* those that are always there
    Renames,    \* pairs of paths: the first may be renamed to the second
    Adirs,      \* autoscan directories
    Location,   \* their paths
    Kinds,      \* [persistent, recursive] settings an autoscan directory may have
    MaxChanges, \* bound: changes to the directories
    MaxCalls    \* bound: calls of monitor and unmonitor

INOTIFY_ROOT == -1
Root == <<>>
Nowhere == <<"nowhere">>

VARIABLES
    inode,      \* the directory at each path, 0 where there is none
    inodes,     \* directories made so far
    kernel,     \* the directory each watch descriptor is for
    lastWd,     \* the watch descriptor given last
    events,     \* events not read yet
    watches,    \* the table: path and watches of each watch descriptor
    monitorQueue, unmonitorQueue,
    todo,       \* what the thread has still to do before the next event
    kind,       \* settings of each autoscan directory
    changes, calls,     \* counted against the bounds
    wanted,     \* for the properties: the directories to be watched,
    overlooked, \*   those found there together with one that came back,
    missed,     \*   whether one came or went between a look and a watch,
    strayed,    \*   whether one was moved with others below it,
    hurried     \*   whether unmonitor met events or changes

disk == <<inode, inodes, changes>>
table == <<kernel, lastWd, watches>>
requests == <<monitorQueue, unmonitorQueue, calls, wanted>>
ghosts == <<overlooked, missed, strayed, hurried>>
vars == <<disk, table, events, requests, todo, kind, ghosts>>

-------------------------------------------------------------------------------
(* Directories and the kernel's side of inotify.                           *)

Inode(p) == IF p \in Paths THEN inode[p] ELSE 0
Exists(p) == Inode(p) # 0
Entries(p) == {q \in Paths \ {Root} : Front(q) = p /\ Exists(q)}
Below(top) == {p \in Paths : IsPrefix(top, p) /\ Exists(p)}
Parents(p) == [k \in 1 .. Len(p) |-> SubSeq(p, 1, k - 1)]

\* a table and what became of it: tab is <<kernel, lastWd, watches>>
Table == [kernel |-> kernel, last |-> lastWd, watches |-> watches]
Becomes(tab) == kernel' = tab.kernel /\ lastWd' = tab.last /\ watches' = tab.watches

\* the events a watch reports to
Descriptor(i) == {wd \in DOMAIN kernel : kernel[wd] = i}
Event(i, mask, name) ==
    LET told == Descriptor(i)
    IN IF told = {} THEN <<>> ELSE <<[wd |-> Min(told), mask |-> mask, name |-> name]>>

\* inotify_add_watch: a directory keeps the descriptor it has
AddWatch(tab, p) ==
    LET known == {wd \in DOMAIN tab.kernel : tab.kernel[wd] = Inode(p)}
        new == tab.last + 1
    IN IF ~Exists(p) THEN [tab |-> tab, wd |-> INOTIFY_ROOT]
       ELSE IF known # {} THEN [tab |-> tab, wd |-> Min(known)]
       ELSE [tab |-> [tab EXCEPT !.last = new,
                                 !.kernel = [wd \in DOMAIN @ \cup {new} |->
                                                 IF wd = new THEN Inode(p) ELSE @[wd]]],
             wd |-> new]
RemoveWatch(tab, wd) == [tab EXCEPT !.kernel = [w \in DOMAIN @ \ {wd} |-> @[w]]]

-------------------------------------------------------------------------------
(* The table.                                                              *)

WatchMove(wd) == [type |-> "move", removeWd |-> wd]
WatchAutoscan(a, start, gone) ==
    [type |-> "autoscan", adir |-> a, isStartPoint |-> start, nonExistingPath |-> gone]
IsMove(w) == w.type = "move"
IsAutoscan(w) == w.type = "autoscan"
Watches(adir, w) == IsAutoscan(w) /\ w.nonExistingPath = Nowhere /\ w.adir = adir
Awaits(path, w) == IsAutoscan(w) /\ w.nonExistingPath = path

\* the entry of a descriptor, a new one if there is none, gets a watch
Entered(tab, wd, p, w) ==
    [tab EXCEPT !.watches =
        [d \in DOMAIN @ \cup {wd} |->
            IF d # wd THEN @[d]
            ELSE IF wd \in DOMAIN @ THEN [@[wd] EXCEPT !.list = Append(@, w)]
            ELSE [path |-> p, list |-> <<w>>]]]

LeftWatched(tab, wd, k) ==                                          \* mutant
    IF Len(tab.watches[wd].list) = 1 THEN tab ELSE [tab EXCEPT !.watches[wd].list = RemoveAt(@, k)]
\* a watch leaves its entry, or, if it is the only one, the descriptor goes
Left(tab, wd, k) ==
    IF Len(tab.watches[wd].list) = 1 THEN RemoveWatch(tab, wd)
    ELSE [tab EXCEPT !.watches[wd].list = RemoveAt(@, k)]

\* watchPathForMoves: a move of any parent moves the start point
MoveWatched(p, start) == IF start THEN Parents(p) ELSE <<>>
watchPathForMoves(tab, p, wd, start) ==
    FoldLeft(LAMBDA t, q : LET r == AddWatch(t, q)
                           IN IF r.wd = INOTIFY_ROOT THEN t ELSE Entered(r.tab, r.wd, q, WatchMove(wd)),
             tab, MoveWatched(p, start))

\* monitorDirectory, of a path that can be watched; the start point is looked
\* up, and so watched, for each directory below it
monitorDirectory(tab, p, a, start, gone) ==
    LET r == AddWatch(tab, p)
        moves == watchPathForMoves(r.tab, p, r.wd, start)
        already == /\ gone = Nowhere /\ r.wd \in DOMAIN moves.watches
                   /\ \E k \in DOMAIN moves.watches[r.wd].list : Watches(a, moves.watches[r.wd].list[k])
        entered == Entered(moves, r.wd, p, WatchAutoscan(a, start, gone))
    IN IF r.wd = INOTIFY_ROOT THEN tab
       ELSE IF already THEN moves
       ELSE IF start THEN entered
       ELSE AddWatch(entered, Location[a]).tab

\* unmonitorDirectory: a path that was not watched is watched from now on
unmonitorDirectory(tab, p, a) ==
    LET r == AddWatch(tab, p)
        list == IF r.wd \in DOMAIN r.tab.watches THEN r.tab.watches[r.wd].list ELSE <<>>
        for == {k \in DOMAIN list : Watches(a, list[k])}
    IN IF for = {} THEN r.tab ELSE Left(r.tab, r.wd, Min(for))

\* removeNonexistingMonitor
removeNonexistingMonitor(tab, wd, gone) ==
    LET for == {k \in DOMAIN tab.watches[wd].list : Awaits(gone, tab.watches[wd].list[k])}
    IN IF for = {} THEN tab ELSE Left(tab, wd, Min(for))

-------------------------------------------------------------------------------
(* Steps of the thread.  A task is the rest of a call: to watch a path and,*)
(* with below, what is below it; to stop watching it; to list a directory; *)
(* to look for the nearest existing parent of a path and to watch that.    *)

Task(op, path, a) ==
    [op |-> op, path |-> path, adir |-> a, start |-> FALSE, below |-> FALSE, reset |-> FALSE,
     wd |-> INOTIFY_ROOT, found |-> Nowhere, at |-> 0, end |-> 0]
Watch(path, a, start, below) == [Task("watch", path, a) EXCEPT !.start = start, !.below = below]
Recheck(wd, gone, a) == [Task("look", gone, a) EXCEPT !.wd = wd]
Undefined == <<Task("undefined", Root, CHOOSE a \in Adirs : TRUE)>>
Awaited(wd) ==
    <<[Task("recheck", Root, CHOOSE a \in Adirs : TRUE) EXCEPT !.wd = wd, !.at = 1,
                                                                !.end = Len(watches[wd].list)]>>

Doing(op) == todo # <<>> /\ Head(todo).op = op
Then(tasks) == todo' = tasks \o Tail(todo)

setPath(tab, wd, p) == [tab EXCEPT !.watches[wd].path = p]

\* monitorDirectory, alone or first in monitorUnmonitorRecursive
watch ==
    /\ Doing("watch")
    /\ LET t == Head(todo)
           wd == AddWatch(Table, t.path).wd
           tab == monitorDirectory(Table, t.path, t.adir, t.start, Nowhere)
       IN IF wd = INOTIFY_ROOT
          THEN /\ Then(IF t.start /\ kind[t.adir].persistent
                       THEN <<Recheck(INOTIFY_ROOT, t.path, t.adir)>> ELSE <<>>)
               /\ UNCHANGED <<table, overlooked>>
          ELSE /\ Becomes(IF t.reset THEN setPath(tab, wd, t.path) ELSE tab)
               /\ Then(IF t.below THEN <<Task("list", t.path, t.adir)>> ELSE <<>>)
               /\ overlooked' = IF t.below THEN overlooked
                                ELSE overlooked \cup {inode[p] : p \in Below(t.path) \ {t.path}}
    /\ UNCHANGED <<disk, events, requests, kind, missed, strayed, hurried>>

unwatch ==
    /\ Doing("unwatch")
    /\ LET t == Head(todo)
       IN /\ Becomes(unmonitorDirectory(Table, t.path, t.adir))
          /\ Then(IF kind[t.adir].recursive THEN <<[Task("list", t.path, t.adir) EXCEPT !.reset = TRUE]>>
                  ELSE <<>>)
    /\ UNCHANGED <<disk, events, requests, kind, ghosts>>

\* monitorUnmonitorRecursive goes down
ListsNothing(t) == {}                                               \* mutant
Listed(t) == IF kind[t.adir].recursive THEN Entries(t.path) ELSE {}
descend ==
    /\ Doing("list")
    /\ LET t == Head(todo)
           one(p) == IF t.reset THEN Task("unwatch", p, t.adir) ELSE Watch(p, t.adir, FALSE, TRUE)
       IN Then([k \in 1 .. Cardinality(Listed(t)) |-> one(SetToSeq(Listed(t))[k])])
    /\ UNCHANGED <<disk, table, events, requests, kind, ghosts>>

\* recheckNonexistingMonitor: the path, or else its nearest existing parent
LooksHere(gone) == {gone} \cap Below(Root)                          \* mutant
Nearest(gone) == {p \in Below(Root) \ {Root} : IsPrefix(p, gone)}
look ==
    /\ Doing("look")
    /\ LET t == Head(todo)
           there == Nearest(t.path)
       IN Then(IF there = {} THEN <<>>
               ELSE <<[t EXCEPT !.op = "await",
                                !.found = CHOOSE p \in there : \A q \in there : Len(q) <= Len(p)]>>)
    /\ UNCHANGED <<disk, table, events, requests, kind, ghosts>>

\* recheckNonexistingMonitors goes through the watches of an entry while each
\* turn may take one out and append one: the loop keeps the place and the end
\* it had, and a place the vector has no more is a destroyed pointer
recheck ==
    /\ Doing("recheck")
    /\ LET t == Head(todo)
           list == watches[t.wd].list
           waiting == {k \in DOMAIN list \cap t.at .. t.end :
                           IsAutoscan(list[k]) /\ list[k].nonExistingPath # Nowhere}
           k == Min(waiting)
       IN Then(IF waiting # {}
               THEN <<Recheck(t.wd, list[k].nonExistingPath, list[k].adir), [t EXCEPT !.at = k + 1]>>
               ELSE IF t.at <= t.end /\ Len(list) < t.end THEN Undefined ELSE <<>>)
    /\ UNCHANGED <<disk, table, events, requests, kind, ghosts>>

await ==
    /\ Doing("await")
    /\ LET t == Head(todo)
           tab == IF t.wd > INOTIFY_ROOT THEN removeNonexistingMonitor(Table, t.wd, t.path) ELSE Table
           back == t.found = t.path
       IN /\ Becomes(IF back THEN tab ELSE monitorDirectory(tab, t.found, t.adir, FALSE, t.path))
          /\ Then(IF back THEN <<Watch(t.path, t.adir, TRUE, FALSE)>> ELSE <<>>)
          /\ missed' = \/ missed
                       \/ ~Exists(t.found)
                       \/ ~back /\ Exists(SubSeq(t.path, 1, Len(t.found) + 1))
    /\ UNCHANGED <<disk, events, requests, kind, overlooked, strayed, hurried>>

-------------------------------------------------------------------------------
(* threadProc: requests, then the next event.  An event may be handled     *)
(* before a request that came while the thread was waiting for it.         *)

\* a directory_entry of what is not there has an error and an empty path
IfThere(p, task) == IF Exists(p) THEN <<task>> ELSE <<>>

unmonitorNext ==
    /\ todo = <<>> /\ unmonitorQueue # <<>>
    /\ unmonitorQueue' = Tail(unmonitorQueue)
    /\ LET a == Head(unmonitorQueue)
       IN todo' = IfThere(Location[a], Task("unwatch", Location[a], a))
    /\ UNCHANGED <<disk, table, events, monitorQueue, calls, wanted, kind, ghosts>>

monitorNext ==
    /\ todo = <<>> /\ unmonitorQueue = <<>> /\ monitorQueue # <<>>
    /\ monitorQueue' = Tail(monitorQueue)
    /\ LET a == Head(monitorQueue)
       IN todo' = IfThere(Location[a], Watch(Location[a], a, TRUE, kind[a].recursive))
    /\ UNCHANGED <<disk, table, events, unmonitorQueue, calls, wanted, kind, ghosts>>

IsGone(mask) == mask \in {"DELETE_SELF", "MOVE_SELF"}
IsNew(mask) == mask \in {"CREATE", "MOVED_TO"}

\* getAppropriateAutoscan: of the autoscan directories this entry is watched for
\* the innermost one
Appropriate(list, path) ==
    {a \in Adirs : /\ IsPrefix(Location[a], path)
                   /\ \E k \in DOMAIN list : Watches(a, list[k])
                   /\ \A b \in Adirs : /\ IsPrefix(Location[b], path)
                                       /\ \E k \in DOMAIN list : Watches(b, list[k])
                                       => Len(Location[b]) <= Len(Location[a])}

\* checkMoveWatches uses an iterator that it has just moved past a move watch,
\* as one of the next move watch: what follows is undefined

\* doMove, doExistingEntry, doNewEntry and doDirectory, for a directory; the
\* calls of the content manager are those of the module ImportService
Handling(e) ==
    LET list == watches[e.wd].list
        path == IF IsGone(e.mask) THEN watches[e.wd].path ELSE Append(watches[e.wd].path, e.name)
        for == Appropriate(list, path)
        a == CHOOSE a \in for : TRUE
        starts == SelectSeq(list, LAMBDA w : IsAutoscan(w) /\ w.isStartPoint)
        moved == e.mask = "MOVE_SELF" /\ \E k \in DOMAIN list : IsMove(list[k])
        existing == IF IsGone(e.mask) /\ for # {} /\ starts # <<>> /\ kind[a].persistent
                    THEN <<Recheck(INOTIFY_ROOT, path, Head(starts).adir)>> ELSE <<>>
        new == IF IsNew(e.mask) /\ for # {}
               THEN IfThere(path, [Watch(path, a, FALSE, TRUE) EXCEPT !.reset = (e.mask = "MOVED_TO")])
               ELSE <<>>
        created == IF e.mask = "CREATE" /\ for # {} /\ kind[a].recursive
                   THEN IfThere(path, Watch(path, a, FALSE, TRUE)) ELSE <<>>
    IN IF moved THEN Undefined
       ELSE (IF IsGone(e.mask) THEN Awaited(e.wd) ELSE <<>>) \o existing \o new
            \o (IF IsNew(e.mask) THEN Awaited(e.wd) ELSE <<>>) \o created

\* an event of a descriptor the table does not hold has it removed; so has the
\* end of a directory that is watched for an autoscan directory
Known(e) == IF e.wd \in DOMAIN watches THEN Table ELSE RemoveWatch(Table, e.wd)
nextEvent ==
    /\ todo = <<>> /\ events # <<>>
    /\ LET e == Head(events)
       IN /\ events' = Tail(events)
          /\ Becomes(Known(e))
          /\ todo' = IF e.wd \in DOMAIN watches THEN Handling(e) ELSE <<>>
    /\ UNCHANGED <<disk, requests, kind, ghosts>>

threadProc == watch \/ unwatch \/ descend \/ look \/ await \/ recheck \/ unmonitorNext \/ monitorNext \/ nextEvent

-------------------------------------------------------------------------------
(* Requests and changes.                                                   *)

Settled == todo = <<>> /\ events = <<>> /\ monitorQueue = <<>> /\ unmonitorQueue = <<>>
Called == calls < MaxCalls /\ calls' = calls + 1

monitor(a) ==
    /\ Called /\ a \notin wanted
    /\ monitorQueue' = Append(monitorQueue, a)
    /\ wanted' = wanted \cup {a}
    /\ UNCHANGED <<disk, table, events, unmonitorQueue, todo, kind, ghosts>>

\* asserts that the directory is not persistent
unmonitor(a) ==
    /\ Called /\ a \in wanted /\ ~kind[a].persistent
    /\ unmonitorQueue' = Append(unmonitorQueue, a)
    /\ wanted' = wanted \ {a}
    /\ hurried' = (hurried \/ ~Settled)
    /\ UNCHANGED <<disk, table, events, monitorQueue, todo, kind, overlooked, missed, strayed>>

Changed ==
    /\ changes < MaxChanges /\ changes' = changes + 1
    /\ hurried' = \/ hurried
                  \/ unmonitorQueue # <<>>
                  \/ calls > 0 /\ todo # <<>>
UnchangedByDisk == UNCHANGED <<lastWd, watches, requests, todo, kind, overlooked, missed>>

Mkdir(p) ==
    /\ Changed /\ ~Exists(p) /\ Exists(Front(p))
    /\ inodes' = inodes + 1
    /\ inode' = [inode EXCEPT ![p] = inodes + 1]
    /\ events' = events \o Event(inode[Front(p)], "CREATE", Last(p))
    /\ UNCHANGED <<kernel, strayed>> /\ UnchangedByDisk

\* the descriptor of a directory goes with it; its parent is told before or after
Rmdir(p) ==
    /\ Changed /\ p \notin Fixed /\ Exists(p) /\ Entries(p) = {}
    /\ inode' = [inode EXCEPT ![p] = 0]
    /\ kernel' = [wd \in DOMAIN kernel \ Descriptor(inode[p]) |-> kernel[wd]]
    /\ LET self == Event(inode[p], "DELETE_SELF", Last(p))
           parent == Event(inode[Front(p)], "DELETE", Last(p))
       IN events' = events \o self \o parent \/ events' = events \o parent \o self
    /\ UNCHANGED <<inodes, strayed>> /\ UnchangedByDisk

Rename(p, q) ==
    /\ Changed /\ Exists(p) /\ ~Exists(q) /\ Exists(Front(q))
    /\ inode' = [r \in Paths |->
                    IF IsPrefix(p, r) THEN 0
                    ELSE IF IsPrefix(q, r) THEN Inode(p \o SubSeq(r, Len(q) + 1, Len(r)))
                    ELSE inode[r]]
    /\ events' = events \o Event(inode[Front(p)], "MOVED_FROM", Last(p))
                        \o Event(inode[Front(q)], "MOVED_TO", Last(q))
                        \o Event(inode[p], "MOVE_SELF", Last(p))
    /\ strayed' = (strayed \/ Entries(p) # {})
    /\ UNCHANGED <<inodes, kernel>> /\ UnchangedByDisk

\* some numbering of the directories that are there
Number(p) ==
    LET order == FoldSet(LAMBDA q, found : Append(found, q), <<>>, Paths)
    IN CHOOSE k \in DOMAIN order : order[k] = p
Init ==
    /\ \E there \in SUBSET Paths :
          /\ Fixed \cup {Root} \subseteq there
          /\ \A p \in there \ {Root} : Front(p) \in there
          /\ inode = [p \in Paths |-> IF p \in there THEN Number(p) ELSE 0]
    /\ inodes = Cardinality(Paths)
    /\ kernel = <<>> /\ lastWd = 0 /\ events = <<>> /\ watches = <<>>
    /\ monitorQueue = SetToSeq(Adirs) /\ unmonitorQueue = <<>> /\ todo = <<>>
    /\ kind \in [Adirs -> Kinds]
    /\ changes = 0 /\ calls = 0 /\ wanted = Adirs
    /\ overlooked = {} /\ missed = FALSE /\ strayed = FALSE /\ hurried = FALSE

Next ==
    \/ threadProc
    \/ \E a \in Adirs : monitor(a) \/ unmonitor(a)
    \/ \E p \in Paths \ {Root} : Mkdir(p) \/ Rmdir(p)
    \/ \E r \in Renames : Rename(r[1], r[2])
Spec == Init /\ [][Next]_vars

-------------------------------------------------------------------------------
(* Properties.                                                             *)

WatchOf == {WatchMove(wd) : wd \in 1 .. lastWd}
           \cup {WatchAutoscan(a, s, p) : a \in Adirs, s \in BOOLEAN, p \in Paths \cup {Nowhere}}

\* The directories, the kernel's watches and the table are of their types.
TypeOK ==
    /\ inode \in [Paths -> 0 .. inodes]
    /\ DOMAIN kernel \subseteq 1 .. lastWd /\ Range(kernel) \subseteq 1 .. inodes
    /\ DOMAIN watches \subseteq 1 .. lastWd
    /\ \A wd \in DOMAIN watches : Range(watches[wd].list) \subseteq WatchOf

Began(a) == \E wd \in DOMAIN watches : \E w \in Range(watches[wd].list) : IsAutoscan(w) /\ w.adir = a
WatchedFor(a, p) ==
    \E wd \in Descriptor(inode[p]) :
        wd \in DOMAIN watches /\ \E k \in DOMAIN watches[wd].list : Watches(a, watches[wd].list[k])

\* When all events are handled each directory below a recursive autoscan
\* directory is watched, whatever was made, removed or renamed meanwhile; left
\* out are those that came back together with it (recheckNonexistingMonitor) and
\* the consequences of the wrong paths that PathsAreTrue leaves out.
AllAreWatched ==
    Settled /\ ~strayed /\ ~hurried => \A a \in wanted : \A p \in Below(Location[a]) :
        \/ WatchedFor(a, p)
        \/ p # Location[a] /\ ~kind[a].recursive
        \/ p = Location[a] /\ ~kind[a].persistent
        \/ kind[a].persistent /\ (missed \/ ~Began(a))
        \/ \E q \in Below(Location[a]) : IsPrefix(q, p) /\ inode[q] \in overlooked
        \/ ~kind[a].persistent /\ ~WatchedFor(a, Location[a])

\* A persistent directory that comes back is watched again, unless one on its
\* path came or went between the look for it and the watch, or it was not there
\* when the thread was asked to watch it (threadProc gives up with an error).
ComesBack ==
    Settled /\ ~missed =>
        \A a \in wanted : kind[a].persistent /\ Began(a) /\ Exists(Location[a])
                            => WatchedFor(a, Location[a])

\* An event of a watched directory is taken for the directory it comes from:
\* the table has its path, unless it was renamed with others below it or is a
\* left-over of unmonitor (see UnmonitorEnds).
PathsAreTrue ==
    Settled /\ ~strayed /\ ~hurried /\ (\A a \in Adirs : kind[a].recursive \/ calls = 0) =>
        \A wd \in DOMAIN kernel \cap DOMAIN watches : Inode(watches[wd].path) = kernel[wd]

\* Nothing is watched any more for a directory that unmonitor was called for,
\* unless events were left or directories changed meanwhile; a directory that
\* was made below one that is not recursive is watched for good (doNewEntry).
UnmonitorEnds ==
    Settled /\ ~hurried =>
        \A a \in Adirs \ wanted, p \in Below(Root) :
            WatchedFor(a, p) => ~kind[a].recursive /\ p # Location[a]

\* The loops of checkMoveWatches and recheckNonexistingMonitors never use an
\* element of the vector that is gone, as long as no parent of an autoscan
\* directory is moved and no two of them wait at the same parent.
LoopsAreDefined == ~Doing("undefined")

\* So the whole tree is watched, under its paths, and by a table that is sound.
TreeIsWatched == TypeOK /\ AllAreWatched /\ PathsAreTrue /\ LoopsAreDefined
=============================================================================
