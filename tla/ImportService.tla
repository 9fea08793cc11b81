---------------------------- MODULE ImportService ----------------------------
(***************************************************************************)
(* The import of a watched directory into the tree of objects              *)
(* (ImportService::doImport and its callers in ContentManager, import mode *)
(* Gerbera).  The content thread scans the directory, the inotify thread   *)
(* adds what is new in it: containers for the directories, an item for     *)
(* each file, and below virtual containers the references the layout asks  *)
(* for.  Containers are looked up in two caches, one of the import service *)
(* of the directory and one, for the virtual containers, of the content    *)
(* manager's own.  Objects are removed by the content thread, by a thread  *)
(* of the web UI and by the inotify thread.  One import is under way at a  *)
(* time: the inotify thread begins its own between tasks of the other.     *)
(*                                                                         *)
(* An action is one statement of the database or one access of a cache.    *)
(* Metadata, fan art and the times of containers are left out; the tag of  *)
(* a file stands for its contents and its modification time, and says      *)
(* below which virtual containers its layout puts references.              *)
(***************************************************************************)
EXTENDS ObjectTree, Sequences, SequencesExt

CONSTANTS
    Top,        \* the watched directory
    DirOf,      \* the directory of each file
    Chain,      \* the path of each directory and virtual container
    Order,      \* files and directories by path, a directory before its files
    Fixed,      \* virtual containers whose keys the layout keeps from its start
    Modes,      \* scan modes the watched directory may have
    MaxTasks,   \* bound: tasks and removals started
    MaxChanges  \* bound: changes on disk

Entries == Files \cup Dirs
NoDir == "none"
Gone == Unread

\* files, directories and virtual containers are told apart, and a path or a
\* layout names what there is
ASSUME ImportAssumption ==
    /\ {"content", "web", "inotify"} \subseteq Threads
    /\ Files \cap (Dirs \cup Virtuals) = {} /\ Dirs \cap Virtuals = {}
    /\ {"none", "root", "fsroot"} \cap (Files \cup Dirs \cup Virtuals) = {}
    /\ Top \in Dirs /\ DirOf \in [Files -> Dirs]
    /\ DOMAIN Chain = Dirs \cup Virtuals
    /\ \A d \in Dirs : Chain[d] \in Seq(Dirs) /\ d \in Range(Chain[d])
    /\ \A v \in Virtuals : Chain[v] \in Seq(Virtuals)
    /\ Order \in Seq(Entries) /\ Entries \subseteq Range(Order)
    /\ Fixed \subseteq Virtuals /\ IsFiniteSet(Fixed)
    /\ Tags \subseteq Seq(Virtuals) /\ Gone \notin Tags
    /\ Modes \subseteq {"timed", "inotify"} /\ MaxRemoveSize \in Nat

VARIABLES
    disk,       \* what each file holds, Gone for one that is not there
    lost,       \* directories that are not there
    scanMode,   \* AutoscanDirectory::scanMode: "timed" or "inotify"
    own,        \* containerCache of the directory's import service
    shared,     \* containerCache of ContentManager::importService
    activeScan, \* ImportService::activeScan
    adirId,     \* AutoscanDirectory::objectID
    queue,      \* tasks of the content thread
    import,     \* the task of the content thread, and where it is
    tasks, changes,     \* counted against the bounds
    report      \* for the properties: how the last task ended

scanState == <<own, shared, activeScan, adirId>>
environment == <<disk, lost, changes, scanMode>>
vars == <<tree, removal, scanState, environment, queue, import, tasks, report>>

-------------------------------------------------------------------------------
(* The disk.                                                               *)

PresentDir(d) == Range(Chain[d]) \cap lost = {}
Present(e) == IF e \in Dirs THEN PresentDir(e) ELSE e \in Files /\ disk[e] # Gone
Below(place) == {e \in Entries : place \in Range(Chain[IF e \in Dirs THEN e ELSE DirOf[e]])}

-------------------------------------------------------------------------------
(* Tasks and the state of the one under way.                               *)

NoTask == [kind |-> "none", file |-> NoDir, object |-> INVALID_OBJECT_ID,
           parent |-> INVALID_OBJECT_ID, clear |-> FALSE]
ScanTask == [NoTask EXCEPT !.kind = "scan"]
AddNow(e, i) == [NoTask EXCEPT !.kind = "file", !.file = e, !.object = i,
                               !.parent = IF i \in Ids THEN tree[i].parent ELSE INVALID_OBJECT_ID]
RemoveTask(i, adir) == [NoTask EXCEPT !.kind = "remove", !.object = i, !.clear = adir]

\* addTask: removals go to the first queue, scans to the second
Removes == {k \in DOMAIN queue : queue[k].kind = "remove"}
NextPlace == IF Removes # {} THEN Min(Removes) ELSE 1
NextTask == queue[NextPlace]

\* list: currentContent; state, object, seen: the StateCache (seen is what was
\* read of a file); todo: entries the
\* loop has still to visit; chain, parent: addContainerTree; leaves: virtual
\* containers the layout has still to fill; refs, made: refObjects, resObjects
NoImport ==
    [pc |-> "idle", task |-> NoTask, place |-> NoDir, list |-> {},
     state |-> [e \in Entries |-> "none"],
     object |-> [e \in Entries |-> INVALID_OBJECT_ID],
     seen |-> [f \in Files |-> Gone], todo |-> {},
     file |-> NoDir, at |-> NoDir, chain |-> <<>>, parent |-> INVALID_OBJECT_ID,
     leaves |-> <<>>, refs |-> {}, made |-> {}]
ImportPCs == {"idle", "rescan", "flag", "list", "begin", "containers", "lookup", "segment", "use",
              "load", "items", "update", "layout", "reference", "clean", "cleaning", "played",
              "parents", "finish", "sweep", "sweeping", "removing", "crashed"}

In(pc) == import.pc = pc
Importer == IF import.task.kind = "file" THEN "inotify" ELSE "content"
Goto(pc) == import' = [import EXCEPT !.pc = pc]
Entry == Order[Min({k \in DOMAIN Order : Order[k] \in import.todo})]
Visited == import.todo \ {Entry}
InState(state, S) == {e \in S : import.state[e] = state}

\* the task is over: it has thrown, or done all it had to do
Ends(outcome) ==
    /\ import' = NoImport
    /\ report' = [report EXCEPT !.outcome = outcome]
Throws == Ends("thrown") /\ UNCHANGED <<tree, removal, scanState>>
Crashes == Goto("crashed") /\ UNCHANGED <<tree, removal, scanState, report>>

Kept(cache) == cache                                                \* mutant
Without(cache) == [p \in DOMAIN cache |-> INVALID_OBJECT_ID]
ClearForChanges(task) == task.object # INVALID_OBJECT_ID            \* mutant
MustClear(task) == task.object # INVALID_OBJECT_ID \/ scanMode # "inotify"

\* BuiltinLayout: the constructor adds its containers and keeps their keys
LaidOutTree ==
    LET order == SetToSeq(Fixed)
    IN [i \in 0 .. CDS_ID_FS_ROOT + Cardinality(Fixed) |->
           IF i \in DOMAIN FilledTree THEN FilledTree[i]
           ELSE Object("virtual", order[i - CDS_ID_FS_ROOT], CDS_ID_ROOT)]
KeptId(v) == CHOOSE i \in DOMAIN LaidOutTree : LaidOutTree[i].at = v

Init ==
    /\ tree = LaidOutTree /\ removal = [t \in Threads |-> NoRemoval]
    /\ disk \in [Files -> Tags \cup {Gone}] /\ lost = {} /\ scanMode \in Modes
    /\ own = [d \in Dirs |-> INVALID_OBJECT_ID]
    /\ shared = [v \in Virtuals |-> INVALID_OBJECT_ID]
    /\ activeScan = NoDir /\ adirId = INVALID_OBJECT_ID
    /\ queue = <<>> /\ import = NoImport
    /\ tasks = 0 /\ changes = 0
    /\ report = [outcome |-> "none", clean |-> FALSE, laid |-> {}]

-------------------------------------------------------------------------------
(* The content thread takes a task.                                        *)

StartTask ==
    /\ In("idle") /\ queue # <<>>
    /\ queue' = RemoveAt(queue, NextPlace)
    /\ LET task == NextTask
           begun == [NoImport EXCEPT !.task = task]
       IN CASE task.kind = "scan" ->
                 /\ import' = [begun EXCEPT !.pc = "rescan"]
                 /\ UNCHANGED <<removal, own, shared>>
            [] task.kind = "remove" ->
                 /\ import' = [begun EXCEPT !.pc = "removing"]
                 /\ shared' = Without(shared)
                 /\ own' = IF task.clear THEN Without(own) ELSE own
                 /\ Becomes("content", Removing({task.object}, FALSE))
    /\ report' = [outcome |-> "none", clean |-> NextTask.kind = "scan", laid |-> {}]
    /\ UNCHANGED <<tree, activeScan, adirId, environment, tasks>>

Removed ==
    /\ In("removing") /\ InRemoval("content", "done")
    /\ Becomes("content", NoRemoval)
    /\ Ends("removed")
    /\ UNCHANGED <<tree, scanState>>

-------------------------------------------------------------------------------
(* _rescanDirectory.                                                       *)

\* the rows of a directory's path that are missing are added, the uppermost first
Ensured(d) ==
    LET path == Chain[d]
        missing == {k \in DOMAIN path : At("dir", path[k]) = {}}
        key(k) == IF k = 0 THEN CDS_ID_FS_ROOT
                  ELSE IF k \in missing THEN NextId + Cardinality({j \in missing : j < k})
                  ELSE Min(At("dir", path[k]))
    IN [i \in Ids \cup {key(k) : k \in missing} |->
           IF i \in Ids THEN tree[i]
           ELSE LET k == CHOOSE k \in missing : key(k) = i
                IN Object("dir", path[k], key(k - 1))]

Rescan ==
    /\ In("rescan")
    /\ IF IsContainer(adirId)
       THEN /\ import' = [import EXCEPT !.pc = "list", !.place = tree[adirId].at]
            /\ UNCHANGED <<tree, removal, scanState, report>>
       ELSE IF ~PresentDir(Top)
       THEN /\ adirId' = INVALID_OBJECT_ID
            /\ Ends("absent")
            /\ UNCHANGED <<tree, removal, own, shared, activeScan>>
       ELSE /\ tree' = Ensured(Top)
            /\ adirId' = Min({i \in DOMAIN tree' : tree'[i].type = "dir" /\ tree'[i].at = Top})
            /\ import' = [import EXCEPT !.pc = "flag", !.place = Top]
            /\ UNCHANGED <<removal, own, shared, activeScan, report>>
    /\ UNCHANGED queue

\* updateAutoscanDirectory flags the row, and the row is read again
FlagContainer ==
    /\ In("flag")
    /\ IF IsContainer(adirId)
       THEN /\ tree' = [tree EXCEPT ![adirId].persistent = TRUE]
            /\ Goto("list")
            /\ UNCHANGED <<removal, scanState, report>>
       ELSE Throws
    /\ UNCHANGED queue

\* the files and directories of the tree at and below a container
ListedHere(top) == {i \in ChildrenOf({top}) : tree[i].type \in {"item", "dir"}}   \* mutant
Listed(top) ==
    LET reached[n \in 0 .. Cardinality(Ids)] ==
            IF n = 0 THEN {top}
            ELSE LET R == reached[n - 1]
                 IN R \cup {i \in ChildrenOf({c \in R : IsContainer(c)}) : tree[i].type \in {"item", "dir"}}
    IN reached[Cardinality(Ids)] \ {top}

\* a directory that cannot be opened is removed, by another task
ListContents ==
    /\ In("list")
    /\ IF Present(import.place)
       THEN /\ import' = [import EXCEPT !.pc = "begin", !.list = Listed(adirId)]
            /\ shared' = IF MustClear(import.task) THEN Without(shared) ELSE shared
            /\ UNCHANGED <<queue, adirId, report>>
       ELSE /\ queue' = Append(queue, RemoveTask(adirId, TRUE))
            /\ adirId' = IF import.place = Top THEN INVALID_OBJECT_ID ELSE adirId
            /\ Ends("absent")
            /\ UNCHANGED shared
    /\ UNCHANGED <<tree, removal, own, activeScan>>

-------------------------------------------------------------------------------
(* doImport: the entries of the directory, or of the file and the path to  *)
(* it, are read.  Where the file or directory is gone it returns at once.  *)

EntriesOf(place) ==
    IF place \in Dirs THEN {Top} \cup {e \in Below(place) : Present(e)}
    ELSE {Top, place} \cup Range(Chain[DirOf[place]])

Begin ==
    /\ In("begin")
    /\ LET task == import.task
           place == import.place
           new == EntriesOf(place)
       IN /\ own' = IF activeScan = NoDir /\ MustClear(task) THEN Without(own) ELSE own
          /\ activeScan' = IF activeScan = NoDir THEN place ELSE activeScan
          /\ IF Present(place)
             THEN /\ import' = [import EXCEPT
                         !.pc = "containers", !.todo = new,
                         !.state = [e \in Entries |-> IF e \in new THEN "New" ELSE "none"],
                         !.object = [@ EXCEPT ![place] = task.object],
                         !.seen = [f \in Files |-> IF f \in new THEN disk[f] ELSE Gone]]
                  /\ UNCHANGED report
             ELSE IF task.kind = "scan" THEN Goto("sweep") /\ UNCHANGED report
             ELSE Ends("absent")
    /\ UNCHANGED <<tree, removal, shared, adirId, queue>>

-------------------------------------------------------------------------------
(* addContainerTree: along a chain of containers, each is looked up in the *)
(* cache, and in the tree where it is not there.  A directory's chain uses *)
(* the cache of its import service, the layout's that of the manager.      *)

OfLayout == import.at \in Virtuals
Segment == Head(import.chain)
Cached == IF OfLayout THEN shared[Segment] ELSE own[Segment]
SetCache(i) == IF OfLayout THEN shared' = [shared EXCEPT ![Segment] = i] /\ UNCHANGED own
               ELSE own' = [own EXCEPT ![Segment] = i] /\ UNCHANGED shared
RowsAt(place) == At(IF OfLayout THEN "virtual" ELSE "dir", place)

\* an exception of the layout ends it for the file
Fails == IF OfLayout THEN Goto("played") /\ UNCHANGED <<tree, removal, scanState, report>>
         ELSE Throws

\* the chain is done: the container of a directory is taken from the cache
EndOfChain ==
    /\ In("segment") /\ import.chain = <<>>
    /\ import' = IF OfLayout THEN [import EXCEPT !.pc = "reference"]
                 ELSE [import EXCEPT !.pc = "containers",
                                     !.state[import.at] = "Created",
                                     !.object[import.at] = own[import.at]]
    /\ UNCHANGED <<tree, removal, scanState, queue, report>>

\* findObjectByPath, for a virtual container that is not cached
LookUp ==
    /\ In("lookup")
    /\ IF Cached = INVALID_OBJECT_ID /\ RowsAt(Segment) # {}
       THEN SetCache(Min(RowsAt(Segment))) ELSE UNCHANGED <<own, shared>>
    /\ Goto("segment")
    /\ UNCHANGED <<tree, removal, activeScan, adirId, queue, report>>

\* addContainer, for one that is still not cached
AddSegment ==
    /\ In("segment") /\ import.chain # <<>>
    /\ LET row == Object(IF OfLayout THEN "virtual" ELSE "dir", Segment, import.parent)
       IN IF Cached # INVALID_OBJECT_ID
          THEN Goto("use") /\ UNCHANGED <<tree, removal, scanState, report>>
          ELSE IF RowsAt(Segment) # {}
          THEN /\ import' = [import EXCEPT !.pc = "load", !.parent = Min(RowsAt(Segment))]
               /\ UNCHANGED <<tree, removal, scanState, report>>
          ELSE IF Refused(row) THEN Fails
          ELSE /\ Insert(row)
               /\ import' = [import EXCEPT !.pc = "load", !.parent = NextId]
               /\ UNCHANGED <<removal, scanState, report>>
    /\ UNCHANGED queue

NextSegment(i) ==
    import' = [import EXCEPT !.pc = IF OfLayout /\ Len(import.chain) > 1 THEN "lookup" ELSE "segment",
                             !.parent = i, !.chain = Tail(@)]

\* the cache is read a second time
UseCached ==
    /\ In("use")
    /\ IF Cached = INVALID_OBJECT_ID THEN Crashes
       ELSE NextSegment(Cached) /\ UNCHANGED <<tree, removal, scanState, report>>
    /\ UNCHANGED queue

\* the row found or added is loaded and cached
LoadSegment ==
    /\ In("load")
    /\ IF import.parent \notin Ids THEN Fails
       ELSE /\ SetCache(import.parent)
            /\ NextSegment(import.parent)
            /\ UNCHANGED <<tree, removal, activeScan, adirId, report>>
    /\ UNCHANGED queue

addContainerTree == EndOfChain \/ LookUp \/ AddSegment \/ UseCached \/ LoadSegment

-------------------------------------------------------------------------------
(* createContainers.                                                       *)

NextContainer ==
    /\ In("containers")
    /\ LET dirs == import.todo \cap Dirs
           d == Entry
           rest == [import EXCEPT !.todo = Visited]
       IN import' =
          IF dirs = {} THEN [import EXCEPT !.pc = "items", !.todo = InState("New", Files)]
          ELSE IF d \in Files \/ ~Present(d) THEN rest
          ELSE IF At("dir", d) # {}
          THEN [rest EXCEPT !.state[d] = "Existing", !.object[d] = Min(At("dir", d))]
          ELSE [rest EXCEPT !.pc = "segment", !.at = d, !.chain = Chain[d],
                            !.parent = CDS_ID_FS_ROOT]
    /\ UNCHANGED <<tree, removal, scanState, queue, report>>

-------------------------------------------------------------------------------
(* createItems.                                                            *)

\* a new item below the object that was found for its directory, or else the one
\* that addObject looks for or makes
CreateItem(f) ==
    LET parent == import.object[DirOf[f]]
        rows == IF parent = INVALID_OBJECT_ID THEN Ensured(DirOf[f]) ELSE tree
        above == IF parent # INVALID_OBJECT_ID THEN parent
                 ELSE Min({i \in DOMAIN rows : rows[i].type = "dir" /\ rows[i].at = DirOf[f]})
        new == Max(DOMAIN rows) + 1
    IN IF above \notin DOMAIN rows THEN Throws
       ELSE /\ tree' = Added(rows, new, Item(f, above, disk[f]))
            /\ import' = [import EXCEPT !.todo = Visited, !.pc = "update", !.file = f, !.object[f] = new,
                                        !.seen[f] = disk[f], !.parent = above]
            /\ UNCHANGED <<removal, scanState, report>>

NextItem ==
    /\ In("items")
    /\ LET f == Entry
           rest == [import EXCEPT !.todo = Visited]
           given == import.object[f]
           found == IF given # INVALID_OBJECT_ID THEN {given} ELSE At("item", f)
           id == Min(found)
       IN IF import.todo = {}
          THEN /\ import' = [import EXCEPT !.pc = "layout", !.todo = InState("Created", Entries)]
               /\ UNCHANGED <<tree, removal, scanState, report>>
          ELSE IF ~Present(f)
          THEN import' = rest /\ UNCHANGED <<tree, removal, scanState, report>>
          ELSE IF found # {} /\ given = INVALID_OBJECT_ID /\ tree[id].tag = import.seen[f]
          THEN /\ import' = [rest EXCEPT !.state[f] = "Existing", !.object[f] = id]
               /\ UNCHANGED <<tree, removal, scanState, report>>
          ELSE IF found # {}
          THEN /\ import' = [rest EXCEPT !.pc = "update", !.file = f, !.object[f] = id, !.seen[f] = disk[f],
                                         !.parent = IF given # INVALID_OBJECT_ID THEN import.task.parent
                                                    ELSE tree[id].parent]
               /\ UNCHANGED <<tree, removal, scanState, report>>
          ELSE CreateItem(f)
    /\ UNCHANGED queue

\* updateObject writes the row again; its details need one to refer to
Update ==
    /\ In("update")
    /\ LET f == import.file
           id == import.object[f]
       IN IF id \notin Ids \/ import.parent \notin Ids THEN Throws
          ELSE /\ tree' = [tree EXCEPT ![id] = Item(f, import.parent, import.seen[f])]
               /\ import' = [import EXCEPT !.pc = "items", !.state[f] = "Created"]
               /\ UNCHANGED <<removal, scanState, report>>
    /\ UNCHANGED queue

-------------------------------------------------------------------------------
(* fillLayout: for each item created or changed the layout adds references *)
(* below virtual containers, and removes the other ones.  Its exceptions   *)
(* end the layout of that item.  The script for playlists then loads the   *)
(* references; a directory without an object ends the program here.        *)

NextLeaf(r) ==
    IF r.leaves = <<>> THEN [r EXCEPT !.pc = "clean"]
    ELSE IF Head(r.leaves) \in Fixed
    THEN [r EXCEPT !.pc = "reference", !.at = Head(r.leaves), !.parent = KeptId(Head(r.leaves))]
    ELSE [r EXCEPT !.pc = "lookup", !.at = Head(r.leaves), !.parent = CDS_ID_ROOT,
                   !.chain = Chain[Head(r.leaves)]]

NextLayout ==
    /\ In("layout") /\ import.todo # {}
    /\ LET e == Entry
           loaded == [import EXCEPT !.todo = Visited, !.state[e] = "Loaded"]
       IN IF e \in Dirs
          THEN IF import.object[e] = INVALID_OBJECT_ID THEN Crashes
               ELSE import' = loaded /\ UNCHANGED <<tree, removal, scanState, report>>
          ELSE /\ import' = NextLeaf([loaded EXCEPT !.file = e, !.leaves = import.seen[e], !.made = {},
                                                    !.refs = RefsTo({import.object[e]})])
               /\ report' = [report EXCEPT !.laid = @ \cup {e}]
               /\ UNCHANGED <<tree, removal, scanState>>
    /\ UNCHANGED queue

\* _addUpdateObject: the main item by its key or else by its path; a reference
\* that is there is not added again
AddReference ==
    /\ In("reference")
    /\ LET f == import.file
           id == import.object[f]
           main == IF id \notin Ids THEN {} ELSE IF tree[id].at = f THEN {id} ELSE At("item", f)
           row == Reference(Min(main), import.parent)
           same == {i \in Ids : tree[i] = row}
           made(i) == import' = NextLeaf([import EXCEPT !.leaves = Tail(@), !.made = @ \cup {i}])
       IN IF main = {} THEN Fails
          ELSE IF same # {}
          THEN made(Min(same)) /\ UNCHANGED <<tree, removal, scanState, report>>
          ELSE IF Refused(row) THEN Fails
          ELSE Insert(row) /\ made(NextId) /\ UNCHANGED <<removal, scanState, report>>
    /\ UNCHANGED queue

\* Layout::cleanUp
NoCleanUp ==                                                        \* mutant
    /\ In("clean") /\ Goto("played")
    /\ UNCHANGED <<tree, removal, scanState, queue, report>>
CleanUp ==
    /\ In("clean")
    /\ LET orphans == import.refs \ import.made
           i == Min(orphans)
       IN IF orphans = {} \/ i \notin Ids THEN Goto("played") /\ UNCHANGED removal
          ELSE /\ Becomes(Importer, Removing({i}, FALSE))
               /\ import' = [import EXCEPT !.pc = "cleaning", !.refs = @ \ {i}]
    /\ UNCHANGED <<tree, scanState, queue, report>>
CleanedUp ==
    /\ In("cleaning") /\ InRemoval(Importer, "done")
    /\ Becomes(Importer, NoRemoval)
    /\ Goto("clean")
    /\ UNCHANGED <<tree, scanState, queue, report>>

\* getRefObjects, and loadObject for each
FindPlaylists ==
    /\ In("played")
    /\ import' = [import EXCEPT !.pc = "parents", !.refs = RefsTo({import.object[import.file]})]
    /\ UNCHANGED <<tree, removal, scanState, queue, report>>
LoadPlaylists ==
    /\ In("parents")
    /\ IF import.refs \subseteq Ids
       THEN Goto("layout") /\ UNCHANGED <<tree, removal, scanState, report>>
       ELSE Throws
    /\ UNCHANGED queue

fillLayout == NextLayout \/ AddReference \/ CleanUp \/ CleanedUp \/ FindPlaylists \/ LoadPlaylists

-------------------------------------------------------------------------------
(* The end of doImport, and of a scan: what the tree holds and the import  *)
(* has not seen is removed.                                                *)

Finish ==
    /\ In("layout") /\ import.todo = {}
    /\ LET kept == {import.object[e] : e \in {x \in Entries : import.state[x] # "none"}}
           left == import.list \ kept
           scan == import.task.kind = "scan"
       IN /\ own' = IF left # {} THEN Without(own) ELSE own
          /\ activeScan' = IF activeScan = import.place THEN NoDir ELSE activeScan
          /\ IF scan THEN import' = [import EXCEPT !.pc = "sweep", !.list = left] /\ UNCHANGED report
             ELSE Ends("added")
    /\ UNCHANGED <<tree, removal, shared, adirId, queue>>

Mixed(S) == \E i, j \in S \cap Ids : IsContainer(i) /\ ~IsContainer(j)
Sweep ==
    /\ In("sweep")
    /\ IF import.list = {} THEN Ends("scanned") /\ UNCHANGED removal
       ELSE /\ Becomes("content", Removing(import.list, FALSE))
            /\ Goto("sweeping")
            /\ report' = [report EXCEPT !.clean = @ /\ ~Mixed(import.list)]
    /\ UNCHANGED <<tree, scanState, queue>>
Swept ==
    /\ In("sweeping") /\ InRemoval("content", "done")
    /\ Becomes("content", NoRemoval)
    /\ Ends("scanned")
    /\ UNCHANGED <<tree, scanState, queue>>

importStep ==
    \/ Rescan \/ FlagContainer \/ ListContents \/ Begin \/ NextContainer \/ addContainerTree
    \/ NextItem \/ Update \/ fillLayout \/ Finish \/ Sweep \/ Swept
    \/ (Removed /\ UNCHANGED queue)

-------------------------------------------------------------------------------
(* What happens around the content thread.                                 *)

Started == tasks < MaxTasks /\ tasks' = tasks + 1
Disturbed == report' = [report EXCEPT !.clean = FALSE]

\* the timer, or a user, has the directory scanned
RequestScan ==
    /\ Started
    /\ queue' = Append(queue, ScanTask)
    /\ UNCHANGED <<tree, removal, scanState, environment, import, report>>

\* Web::Remove: its flag for the main objects is taken for "in a task"
WebRemove(i, all) ==
    /\ Started /\ InRemoval("web", "idle") /\ i \in Ids \ {CDS_ID_ROOT, CDS_ID_FS_ROOT}
    /\ IF all THEN queue' = Append(queue, RemoveTask(i, FALSE)) /\ UNCHANGED <<removal, shared>>
       ELSE Becomes("web", Removing({i}, FALSE)) /\ shared' = Without(shared) /\ UNCHANGED queue
    /\ Disturbed
    /\ UNCHANGED <<tree, own, activeScan, adirId, environment, import>>
WebRemoved ==
    /\ InRemoval("web", "done")
    /\ Becomes("web", NoRemoval)
    /\ UNCHANGED <<tree, scanState, environment, queue, import, tasks, report>>

Changed == changes < MaxChanges /\ changes' = changes + 1
Watched == scanMode = "inotify"
UnchangedTree == UNCHANGED <<tree, removal, scanState, import>>

\* the inotify thread adds a file or directory, or what has become of it
Adds(e) ==
    LET i == IF e \in Dirs \/ At("item", e) = {} THEN INVALID_OBJECT_ID ELSE Min(At("item", e))
        task == AddNow(e, i)
    IN /\ In("idle")
       /\ import' = [NoImport EXCEPT !.pc = "begin", !.task = task, !.place = e]
       /\ shared' = IF MustClear(task) THEN Without(shared) ELSE shared
       /\ report' = [outcome |-> "none", clean |-> FALSE, laid |-> {}]
       /\ UNCHANGED <<tree, removal, own, activeScan, adirId>>

\* it removes the object of what is gone
Drops(type, e) ==
    IF At(type, e) = {} THEN UNCHANGED <<removal, own, shared>>
    ELSE /\ InRemoval("inotify", "idle") /\ import.task.kind # "file"
         /\ Becomes("inotify", Removing({Min(At(type, e))}, FALSE))
         /\ own' = Without(own) /\ shared' = Without(shared)

\* a file appears or changes
WriteFile(f, tag) ==
    /\ Changed /\ PresentDir(DirOf[f]) /\ disk[f] # tag
    /\ disk' = [disk EXCEPT ![f] = tag]
    /\ IF Watched THEN Adds(f) ELSE Disturbed /\ UnchangedTree
    /\ UNCHANGED <<lost, scanMode, queue, tasks>>

\* a file is deleted
DeleteFile(f) ==
    /\ Changed /\ Present(f)
    /\ disk' = [disk EXCEPT ![f] = Gone]
    /\ IF Watched THEN Drops("item", f) ELSE UNCHANGED <<removal, own, shared>>
    /\ Disturbed
    /\ UNCHANGED <<tree, activeScan, adirId, lost, scanMode, queue, import, tasks>>
InotifyRemoved ==
    /\ InRemoval("inotify", "done") /\ ~(In("cleaning") /\ Importer = "inotify")
    /\ Becomes("inotify", NoRemoval)
    /\ UNCHANGED <<tree, scanState, environment, queue, import, tasks, report>>

\* a directory is moved away, with the files below it, and made again
LoseDirectory(d) ==
    /\ Changed /\ PresentDir(d) /\ (Watched => d # Top)
    /\ lost' = lost \cup {d}
    /\ disk' = [f \in Files |-> IF f \in Below(d) THEN Gone ELSE disk[f]]
    /\ IF Watched THEN Drops("dir", d) ELSE UNCHANGED <<removal, own, shared>>
    /\ Disturbed
    /\ UNCHANGED <<tree, activeScan, adirId, scanMode, queue, import, tasks>>
MakeDirectory(d) ==
    /\ Changed /\ d \in lost
    /\ lost' = lost \ {d}
    /\ IF Watched THEN Adds(d) ELSE Disturbed /\ UnchangedTree
    /\ UNCHANGED <<disk, scanMode, queue, tasks>>

removing(t) == removalStep(t) /\ UNCHANGED <<scanState, environment, queue, import, tasks, report>>
contentThread == importStep /\ UNCHANGED <<environment, tasks>>
diskChange ==
    \/ \E f \in Files : DeleteFile(f) \/ \E tag \in Tags : WriteFile(f, tag)
    \/ \E d \in Dirs : LoseDirectory(d) \/ MakeDirectory(d)

Next ==
    /\ ~In("crashed")
    /\ \/ StartTask \/ contentThread \/ RequestScan
       \/ "web" \in Threads /\ (WebRemoved \/ \E i \in Ids, all \in BOOLEAN : WebRemove(i, all))
       \/ "inotify" \in Threads /\ InotifyRemoved
       \/ \E t \in Threads : removing(t)
       \/ diskChange
Spec == Init /\ [][Next]_vars

-------------------------------------------------------------------------------
(* Removals of another thread that fall between the tasks of the content   *)
(* thread.  Directories change between tasks too, and a directory watched  *)
(* with inotify when none is left to do; objects of a timed directory are  *)
(* removed in the web UI.                                                  *)

Quiet == \A t \in Threads \ {Importer} : removal[t].pc = "idle"
Settled == In("idle") /\ queue = <<>>
SequentialStep ==
    \/ Quiet /\ (StartTask \/ contentThread \/ RequestScan)
    \/ Quiet /\ diskChange /\ (Settled \/ (scanMode = "timed" /\ (In("idle") \/ lost' = lost)))
    \/ \E t \in Threads : removing(t)
UserStep ==
    \/ Quiet /\ In("idle") /\ \E i \in Ids, all \in BOOLEAN : WebRemove(i, all)
    \/ WebRemoved
TreeNext ==
    /\ ~In("crashed")
    /\ \/ SequentialStep
       \/ InotifyRemoved
       \/ scanMode = "timed" /\ UserStep
SequentialSpec == Init /\ [][TreeNext]_vars

-------------------------------------------------------------------------------
(* Properties.                                                             *)

Keys == Nat \cup {INVALID_OBJECT_ID}

\* The rows, the removals and the state of the import are of their types.
ImportTypeOK ==
    /\ TreeTypeOK
    /\ disk \in [Files -> Tags \cup {Gone}] /\ lost \subseteq Dirs /\ scanMode \in Modes
    /\ own \in [Dirs -> Keys] /\ shared \in [Virtuals -> Keys]
    /\ activeScan \in Entries \cup {NoDir} /\ adirId \in Keys
    /\ import.pc \in ImportPCs /\ import.list \subseteq Nat /\ import.parent \in Keys
    /\ import.object \in [Entries -> Keys] /\ import.todo \subseteq Entries

\* A task of the content thread ends without an exception, and none brings the
\* program down: no container or item it works with has gone meanwhile.
ImportSucceeds == ~In("crashed") /\ report.outcome # "thrown"

\* A row hangs below a container, and a reference refers to an item.
TreeIsSound ==
    /\ ImportTypeOK
    /\ \A i \in Ids : /\ i = CDS_ID_ROOT \/ IsContainer(tree[i].parent)
                      /\ tree[i].type = "ref" => tree[i].ref \in Ids /\ tree[tree[i].ref].type = "item"

\* At the end of a scan that nothing interfered with there is an item, in its
\* directory and read when it was last changed, for each file on disk and for no
\* other, and no directory that is gone.
ScanMirrorsDisk ==
    report.outcome = "scanned" /\ report.clean =>
        /\ \A f \in Files :
               LET rows == At("item", f)
               IN IF Present(f)
                  THEN \E i \in rows : /\ rows = {i} /\ tree[i].tag = disk[f]
                                       /\ tree[tree[i].parent].at = DirOf[f]
                  ELSE rows = {}
        /\ \A d \in Dirs : At("dir", d) # {} => PresentDir(d) /\ Cardinality(At("dir", d)) = 1

\* At the end of such a scan the references to an item are below the containers
\* its layout asks for, one in each if the layout was at it in this scan, and no
\* virtual container is empty (Layout::cleanUp, _purgeEmptyContainers).
LayoutIsComplete ==
    report.outcome = "scanned" /\ report.clean =>
        /\ \A f \in Files : \A i \in At("item", f) :
               LET refs == RefsTo({i})
                   places == {tree[tree[r].parent].at : r \in refs}
               IN /\ places \subseteq Range(tree[i].tag)
                  /\ Cardinality(refs) = Cardinality(places)
                  /\ f \in report.laid => places = Range(tree[i].tag)
        /\ \A i \in Ids : tree[i].type = "virtual" /\ tree[i].at \notin Fixed \cup {"root"} =>
               ChildrenOf({i}) # {}

\* A removal leaves nothing of what it was asked to remove, no container empty
\* that it emptied, and reports each container that lost an object.
RemovalIsWhole == \A t \in Threads : AllGone(t) /\ NoneLeftEmpty(t) /\ LosersReported(t)
=============================================================================
