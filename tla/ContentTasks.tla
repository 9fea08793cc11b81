----------------------------- MODULE ContentTasks -----------------------------
(***************************************************************************)
(* content/content_manager.cc: the task queue of the content manager, the  *)
(* thread that works it off, and the callers that fill and clean it: the   *)
(* autoscan timer, the inotify thread and the web interface.               *)
(*                                                                         *)
(* Every action is one section of code between two points where the content*)
(* mutex is taken or released, one access of the autoscan list, which has a*)
(* mutex of its own, or one load or store of a task count, which has none. *)
(* The file system does not change; the database is the set of directories *)
(* that have a container (`known`).  Ids grow in the order in which tasks  *)
(* are pushed (both under the mutex), so a deque is the set of its tasks   *)
(* and its front is the one with the smallest id.                          *)
(***************************************************************************)
EXTENDS Integers, FiniteSets

CONSTANTS
    Dirs,           \* directories of the file system
    SubDirs,        \* the pairs <<path, parent>> for which isSubDir holds
    Adirs,          \* autoscan directories
    NoAdir,         \* the null autoscan directory
    Location,       \* Location[a]: the directory of a
    Persistent,     \* the autoscan directories that come from the config file
    Callers,        \* threads that call the content manager
    Inotify,        \* the inotify thread, one of them
    Timer,          \* the timer thread
    Added,          \* the calls of addFile: records path, adir, lowPriority
    Removed,        \* directories that get removed
    MaxTaskID       \* bound on the number of tasks

ASSUME DirsAssumption ==
    /\ SubDirs \subseteq Dirs \X Dirs
    /\ \A d \in Dirs : <<d, d>> \in SubDirs
    /\ \A d, e, f \in Dirs : <<d, e>> \in SubDirs /\ <<e, f>> \in SubDirs
                                 => <<d, f>> \in SubDirs
ASSUME AdirsAssumption ==
    /\ NoAdir \notin Adirs
    /\ Location \in [Adirs -> Dirs]
    /\ Persistent \subseteq Adirs
ASSUME CallsAssumption ==
    /\ Added \subseteq [path : Dirs, adir : Adirs \cup {NoAdir}, lowPriority : BOOLEAN]
    /\ Removed \subseteq Dirs
ASSUME ThreadsAssumption == Inotify \in Callers /\ Timer \notin Callers
ASSUME BoundAssumption == MaxTaskID \in Nat

isSubDir(path, parent) == <<path, parent>> \in SubDirs
Below(parent) == {d \in Dirs : isSubDir(d, parent)}
Entries(parent) ==
    {d \in Below(parent) \ {parent} :
        \A e \in Below(parent) \ {parent} : isSubDir(d, e) => e = d}

TaskTypes == {"AddFile", "RemoveObject", "RescanDirectory"}

(* path: the file of an AddFile, the object of the others.  cleans: the    *)
(* path argument of a removal is not empty.                                *)
Tasks == [id : 1..MaxTaskID, type : TaskTypes, path : Dirs,
          adir : Adirs \cup {NoAdir}, parentID : 0..MaxTaskID, cleans : BOOLEAN]
NoTask == [id |-> 0]
NoDir == "none"
Threads == Callers \cup {Timer}

VARIABLES
    taskQueue1, taskQueue2,     \* tasks of high and of low priority
    currentTask,
    taskID,                     \* id of the next task
    invalid,                    \* ids of the present tasks that were invalidated
    pc,                         \* where threadProc is
    todo, next,                 \* entries a rescan has still to visit, and its entry
    loaded,                     \* the task count that the thread is about to change
    stopping,                   \* how far shutdown is
    listed,                     \* the autoscan directories in autoscanList
    taskCount,                  \* taskCount of each of them
    known,                      \* directories that have a container
    stale,                      \* ids of the tasks whose container was deleted
    gone,                       \* autoscan directories whose objectID was deleted
    call,                       \* the call that each other thread is in
    overwritten,                \* auxiliary: updates of a count that another one undid
    removals                    \* auxiliary: finished removal tasks

queues == <<taskQueue1, taskQueue2, taskID>>
counts == <<taskCount, overwritten>>
autoscan == <<listed, counts, gone>>
rescan == <<todo, next, loaded>>
vars == <<queues, currentTask, invalid, pc, rescan, stopping, autoscan, known, stale,
          call, removals>>

(* At countRescan, countAdd and countDone the thread has loaded a count and*)
(* not stored it yet; at countAdd it holds the content mutex.              *)
ThreadStates ==
    {"top", "wait", "start", "scan", "addRescan", "countRescan", "pushRescan", "addFile",
     "countAdd", "import", "unlist", "invalidate", "delete", "finish", "countDone",
     "stopped", "crashed"}

(* A call that adds a task of an autoscan directory loads its count, stores*)
(* it and pushes the task; a removal unlists, invalidates, and then pushes *)
(* its task or deletes.                                                    *)
Idle == [stage |-> "idle"]
AddStages == {"load", "store", "push"}
RemoveStages == {"unlisted", "enqueue", "delete"}
AddCalls == [stage : AddStages, type : TaskTypes, path : Dirs, adir : Adirs,
             lowPriority : BOOLEAN, loaded : Int]
RemoveCalls == [stage : RemoveStages, path : Dirs, async : BOOLEAN]
Adding(stage, type, path, adir, lowPriority, count) ==
    [stage |-> stage, type |-> type, path |-> path, adir |-> adir,
     lowPriority |-> lowPriority, loaded |-> count]
Removing(stage, path, async) == [stage |-> stage, path |-> path, async |-> async]

(* autoscanList has been reset.                                            *)
NoList == stopping \in {"joining", "flagged"}
shutdownFlag == stopping = "flagged"
(* The content mutex is held in countAdd and while shutdown joins.         *)
MutexFree == pc # "countAdd" /\ stopping # "joining"

Init ==
    /\ taskQueue1 = {} /\ taskQueue2 = {}
    /\ currentTask = NoTask
    /\ taskID = 1
    /\ invalid = {}
    /\ pc = "top"
    /\ todo = {} /\ next = NoDir /\ loaded = 0
    /\ stopping = "no"
    /\ listed = Adirs
    /\ taskCount = [a \in Adirs |-> 0]
    /\ known \in {{Location[a] : a \in Adirs}, Dirs}
    /\ stale = {}
    /\ gone = {}
    /\ call = [x \in Threads |-> Idle]
    /\ overwritten = [a \in Adirs |-> 0]
    /\ removals = {}

-----------------------------------------------------------------------------
(* Queue *)

Queued == taskQueue1 \cup taskQueue2
Outstanding == Queued \cup ({currentTask} \ {NoTask})
Front(queue) == {t \in queue : \A u \in queue : t.id <= u.id}

NotNotified == pc      \* mutant
Notified == IF pc = "wait" THEN "top" ELSE pc

(* The bound: ids are left for one more task and for the calls under way.  *)
Pushing(x) ==
    \/ call[x].stage \in AddStages \cup {"enqueue"}
    \/ call[x].stage = "unlisted" /\ call[x].async
Room ==
    taskID + Cardinality({x \in Threads : Pushing(x)})
           + (IF pc \in {"countRescan", "pushRescan", "countAdd"} THEN 1 ELSE 0) <= MaxTaskID

(* addTask: `state` is where the thread goes on when it is the caller.     *)
addTask(task, lowPriority, state) ==
    /\ taskID <= MaxTaskID
    /\ taskID' = taskID + 1
    /\ IF lowPriority
       THEN taskQueue2' = taskQueue2 \cup {task} /\ UNCHANGED taskQueue1
       ELSE taskQueue1' = taskQueue1 \cup {task} /\ UNCHANGED taskQueue2
    /\ pc' = state

NewTask(type, path, adir, parentID, cleans) ==
    [id |-> taskID, type |-> type, path |-> path, adir |-> adir,
     parentID |-> parentID, cleans |-> cleans]

(* taskCount is a plain int: ++ and -- load it and store it, and a store   *)
(* undoes whatever other threads stored after the load.                    *)
NotCounted(old) == old    \* mutant
incTaskCount(old) == old + 1
decTaskCount(old) == old - 1
store(a, old, new) ==
    /\ taskCount' = [taskCount EXCEPT ![a] = new]
    /\ overwritten' = [overwritten EXCEPT
           ![a] = @ + (IF taskCount[a] > old THEN taskCount[a] - old ELSE 0)]

(* invalidateAddTask on the queues and the current task.                   *)
AddTasksBelow(path) ==
    {t \in Outstanding : t.type = "AddFile" /\ isSubDir(t.path, path)}
invalidateAddTasks(path) ==
    invalid' = invalid \cup {t.id : t \in AddTasksBelow(path)}

(* removeIfSubdir: the autoscan directories that cleanupTasks drops.       *)
RemovedWith(path) ==
    {a \in listed \ Persistent : isSubDir(Location[a], path)}

(* The rows of a removed directory go, with the ids that tasks and autoscan*)
(* directories hold of them.                                               *)
deleteObject(path) ==
    /\ known' = known \ Below(path)
    /\ stale' = stale \cup {t.id : t \in {u \in Outstanding : u.type = "RescanDirectory"
                                              /\ isSubDir(u.path, path)}}
    /\ gone' = gone \cup {a \in Adirs : isSubDir(Location[a], path)}

-----------------------------------------------------------------------------
(* threadProc and the tasks it runs *)

goto(state) == pc' = state
adir == currentTask.adir
Cancelled == currentTask.id \in invalid
IdsOf(tasks) == {t.id : t \in tasks}

(* `if (!shutdownFlag) lock.lock()`, and the next turn of the loop.  What  *)
(* is known of a task is forgotten with the task.                          *)
fetch ==
    /\ pc = "top"
    /\ \/ /\ shutdownFlag
          /\ goto("stopped")
          /\ UNCHANGED <<currentTask, taskQueue1, taskQueue2>>
       \/ /\ ~shutdownFlag /\ MutexFree /\ taskQueue1 # {}
          /\ currentTask' \in Front(taskQueue1)
          /\ taskQueue1' = taskQueue1 \ {currentTask'}
          /\ goto("start")
          /\ UNCHANGED taskQueue2
       \/ /\ ~shutdownFlag /\ MutexFree /\ taskQueue1 = {} /\ taskQueue2 # {}
          /\ currentTask' \in Front(taskQueue2)
          /\ taskQueue2' = taskQueue2 \ {currentTask'}
          /\ goto("start")
          /\ UNCHANGED taskQueue1
       \/ /\ ~shutdownFlag /\ MutexFree /\ Queued = {}
          /\ currentTask' = NoTask
          /\ goto("wait")
          /\ UNCHANGED <<taskQueue1, taskQueue2>>
    /\ invalid' = invalid \cap IdsOf(Queued)
    /\ stale' = stale \cap IdsOf(Queued)
    /\ UNCHANGED <<taskID, rescan, stopping, autoscan, known, call, removals>>

RemovesAtOnce == "delete"   \* mutant
CleansFirst == IF currentTask.cleans THEN "unlist" ELSE "delete"

(* `if (currentTask->isValid()) currentTask->run();`                       *)
runTask ==
    /\ pc = "start"
    /\ \/ Cancelled /\ goto("top")
       \/ ~Cancelled /\ currentTask.type = "AddFile" /\ goto("import")
       \/ /\ ~Cancelled /\ currentTask.type = "RemoveObject"
          /\ goto(CleansFirst)
    /\ UNCHANGED <<queues, currentTask, invalid, rescan, stopping, autoscan, known,
                   stale, call, removals>>

(* The head of _rescanDirectory: look the container up.  When it is gone a *)
(* persistent directory is created again and scanned from its location, any*)
(* other autoscan directory is removed (through a null pointer when the    *)
(* list has been reset).                                                   *)
runRescan ==
    /\ pc = "start" /\ ~Cancelled /\ currentTask.type = "RescanDirectory"
    /\ \/ /\ currentTask.id \notin stale
          /\ todo' = Entries(currentTask.path)
          /\ goto("scan")
          /\ UNCHANGED <<autoscan, known>>
       \/ /\ currentTask.id \in stale /\ adir \in Persistent
          /\ todo' = Entries(Location[adir])
          /\ known' = known \cup {d \in Dirs : isSubDir(Location[adir], d)}
          /\ gone' = gone \ {adir}
          /\ goto("scan")
          /\ UNCHANGED <<listed, counts>>
       \/ /\ currentTask.id \in stale /\ adir \notin Persistent
          /\ taskCount' = [taskCount EXCEPT ![adir] = -1]
          /\ listed' = listed \ {adir}
          /\ goto(IF NoList THEN "crashed" ELSE "finish")
          /\ UNCHANGED <<todo, overwritten, known, gone>>
    /\ UNCHANGED <<queues, currentTask, invalid, next, loaded, stopping, stale,
                   call, removals>>

(* One turn of the loop over the entries; files change no queue.           *)
scan ==
    /\ pc = "scan"
    /\ \/ /\ \/ todo = {}
             \/ shutdownFlag \/ Cancelled
             \/ adir \notin listed
          /\ todo' = {}
          /\ goto("finish")
          /\ UNCHANGED next
       \/ /\ ~shutdownFlag /\ ~Cancelled /\ adir \in listed
          /\ next' \in todo
          /\ todo' = todo \ {next'}
          /\ goto(IF next' \in known THEN "addRescan" ELSE "addFile")
    /\ UNCHANGED <<queues, currentTask, invalid, loaded, stopping, autoscan, known,
                   stale, call, removals>>

NoSecondLook(a) == TRUE     \* mutant
StillListed(a) == a \in listed

(* The task for the entry.                                                 *)
spawn(type, parentID) ==
    /\ addTask(NewTask(type, next, adir, parentID, FALSE), TRUE, "scan")
    /\ next' = NoDir
    /\ loaded' = 0

(* The rescan goes on to count its new task, or ends: because its directory*)
(* is not listed any more, or at the bound on tasks.                       *)
loadOrEnd(may, state) ==
    \/ /\ may /\ Room
       /\ loaded' = taskCount[adir]
       /\ goto(state)
       /\ UNCHANGED <<todo, next>>
    \/ /\ ~(may /\ Room)
       /\ todo' = {} /\ next' = NoDir
       /\ goto("finish")
       /\ UNCHANGED loaded

(* rescanDirectory by the thread: incTaskCount, and then addTask.          *)
addRescan ==
    /\ pc = "addRescan"
    /\ loadOrEnd(TRUE, "countRescan")
    /\ UNCHANGED <<queues, currentTask, invalid, stopping, autoscan, known, stale,
                   call, removals>>

countRescan ==
    /\ pc = "countRescan"
    /\ store(adir, loaded, incTaskCount(loaded))
    /\ goto("pushRescan")
    /\ UNCHANGED <<queues, currentTask, invalid, rescan, stopping, listed, gone,
                   known, stale, call, removals>>

pushRescan ==
    /\ pc = "pushRescan" /\ MutexFree
    /\ spawn("RescanDirectory", 0)
    /\ stale' = IF next \in known THEN stale ELSE stale \cup {taskID}
    /\ UNCHANGED <<currentTask, invalid, todo, stopping, autoscan, known, call, removals>>

(* With the mutex: look again whether the autoscan directory is valid, then*)
(* count (as the task is made) and add it.                                 *)
addSubDirectory ==
    /\ pc = "addFile" /\ MutexFree
    /\ loadOrEnd(StillListed(adir), "countAdd")
    /\ UNCHANGED <<queues, currentTask, invalid, stopping, autoscan, known, stale,
                   call, removals>>

countAdd ==
    /\ pc = "countAdd"
    /\ store(adir, loaded, incTaskCount(loaded))
    /\ spawn("AddFile", currentTask.id)
    /\ UNCHANGED <<currentTask, invalid, todo, stopping, listed, gone, known, stale,
                   call, removals>>

(* _addFile of a directory, with everything below it; an invalidated task  *)
(* stops somewhere.                                                        *)
import ==
    /\ pc = "import"
    /\ \E part \in {Below(currentTask.path)}
                       \cup (IF shutdownFlag \/ Cancelled THEN {{}} ELSE {}) :
           known' = known \cup part
    /\ goto("finish")
    /\ UNCHANGED <<queues, currentTask, invalid, rescan, stopping, autoscan, stale,
                   call, removals>>

(* run() throws: threadProc logs it, and what run() had still to do is not *)
(* done.                                                                   *)
fail ==
    /\ pc \in {"scan", "import", "delete"}
    /\ todo' = {}
    /\ goto("top")
    /\ UNCHANGED <<queues, currentTask, invalid, next, loaded, stopping, autoscan,
                   known, stale, call, removals>>

(* A file that needs findAutoscanDirectory (a playlist, a cue sheet) after *)
(* autoscanList was reset: a null pointer is dereferenced.                 *)
findAutoscanDirectory ==
    /\ pc \in {"scan", "import"} /\ NoList
    /\ goto("crashed")
    /\ UNCHANGED <<queues, currentTask, invalid, rescan, stopping, autoscan, known,
                   stale, call, removals>>

(* _removeObject: cleanupTasks, then the removal in the database.          *)
(* cleanupTasks dereferences autoscanList as well.                         *)
unlist ==
    /\ pc = "unlist"
    /\ \/ /\ ~NoList
          /\ listed' = listed \ RemovedWith(currentTask.path)
          /\ goto("invalidate")
       \/ /\ NoList
          /\ goto("crashed")
          /\ UNCHANGED listed
    /\ UNCHANGED <<queues, currentTask, invalid, rescan, stopping, counts, gone,
                   known, stale, call, removals>>

invalidate ==
    /\ pc = "invalidate" /\ MutexFree
    /\ invalidateAddTasks(currentTask.path)
    /\ goto("delete")
    /\ UNCHANGED <<queues, currentTask, rescan, stopping, autoscan, known, stale,
                   call, removals>>

delete ==
    /\ pc = "delete"
    /\ deleteObject(currentTask.path)
    /\ removals' = IF currentTask.cleans
                   THEN removals \cup {[id |-> currentTask.id, path |-> currentTask.path]}
                   ELSE removals
    /\ goto("top")
    /\ UNCHANGED <<queues, currentTask, invalid, rescan, stopping, listed, counts, call>>

(* The end of run(): the task no longer counts.                            *)
finish ==
    /\ pc = "finish"
    /\ \/ adir = NoAdir /\ goto("top") /\ UNCHANGED loaded
       \/ adir # NoAdir /\ loaded' = taskCount[adir] /\ goto("countDone")
    /\ UNCHANGED <<queues, currentTask, invalid, todo, next, stopping, autoscan,
                   known, stale, call, removals>>

countDone ==
    /\ pc = "countDone"
    /\ store(adir, loaded, decTaskCount(loaded))
    /\ loaded' = 0
    /\ goto("top")
    /\ UNCHANGED <<queues, currentTask, invalid, todo, next, stopping, listed, gone,
                   known, stale, call, removals>>

threadProc ==
    \/ fetch \/ runTask \/ runRescan \/ scan \/ addRescan \/ countRescan \/ pushRescan
    \/ addSubDirectory \/ countAdd \/ import \/ fail \/ findAutoscanDirectory
    \/ unlist \/ invalidate \/ delete \/ finish \/ countDone

-----------------------------------------------------------------------------
(* Callers.  The calls of web requests are over when shutdown begins (the  *)
(* UPnP library joins their threads); the inotify thread calls until it is *)
(* joined, and the timer thread finds the null list.                       *)

MayCall(x) ==
    \/ stopping = "no"
    \/ x = Inotify /\ stopping # "flagged"
    \/ x = Timer /\ ~NoList

ScanDue(a) == taskCount[a] <= 0

(* timerNotify: "do not rescan while other scans are still active".  The   *)
(* look at the count comes before the load of incTaskCount.                *)
timerNotify(a) ==
    /\ call[Timer] = Idle /\ MayCall(Timer) /\ Room
    /\ a \in listed /\ ScanDue(a)
    /\ call' = [call EXCEPT
           ![Timer] = Adding("load", "RescanDirectory", Location[a], a, TRUE, 0)]
    /\ UNCHANGED <<queues, currentTask, invalid, pc, rescan, stopping, autoscan,
                   known, stale, removals>>

(* rescanDirectory by Web::Autoscan::runScan, or by the inotify thread as  *)
(* it begins to monitor a directory.                                       *)
rescanDirectory(c, a) ==
    /\ call[c] = Idle /\ MayCall(c) /\ Room
    /\ a \in listed
    /\ call' = [call EXCEPT
           ![c] = Adding("store", "RescanDirectory", Location[a], a, TRUE, taskCount[a])]
    /\ UNCHANGED <<queues, currentTask, invalid, pc, rescan, stopping, autoscan,
                   known, stale, removals>>

(* addFile, asynchronous, with an autoscan directory: the inotify thread,  *)
(* when updateAttachedResources reads a directory again.                   *)
addFile(c, path, a, lowPriority) ==
    /\ call[c] = Idle /\ MayCall(c) /\ Room
    /\ a \in listed /\ isSubDir(path, Location[a])
    /\ call' = [call EXCEPT
           ![c] = Adding("store", "AddFile", path, a, lowPriority, taskCount[a])]
    /\ UNCHANGED <<queues, currentTask, invalid, pc, rescan, stopping, autoscan,
                   known, stale, removals>>

loadCount(x) ==
    /\ call[x].stage = "load"
    /\ call' = [call EXCEPT ![x].stage = "store", ![x].loaded = taskCount[call[x].adir]]
    /\ UNCHANGED <<queues, currentTask, invalid, pc, rescan, stopping, autoscan,
                   known, stale, removals>>

storeCount(x) ==
    /\ call[x].stage = "store"
    /\ store(call[x].adir, call[x].loaded, incTaskCount(call[x].loaded))
    /\ call' = [call EXCEPT ![x].stage = "push", ![x].loaded = 0]
    /\ UNCHANGED <<queues, currentTask, invalid, pc, rescan, stopping, listed, gone,
                   known, stale, removals>>

pushTask(x) ==
    /\ call[x].stage = "push" /\ MutexFree
    /\ addTask(NewTask(call[x].type, call[x].path, call[x].adir, 0, FALSE),
               call[x].lowPriority, Notified)
    /\ stale' = IF call[x].type = "RescanDirectory" /\ call[x].adir \in gone
                THEN stale \cup {taskID} ELSE stale
    /\ call' = [call EXCEPT ![x] = Idle]
    /\ UNCHANGED <<currentTask, invalid, rescan, stopping, autoscan, known, removals>>

(* addFile of the web interface and the command line: no autoscan          *)
(* directory, so no count.                                                 *)
webAdd(path, lowPriority) ==
    /\ stopping = "no" /\ MutexFree /\ Room
    /\ addTask(NewTask("AddFile", path, NoAdir, 0, FALSE), lowPriority, Notified)
    /\ UNCHANGED <<currentTask, invalid, rescan, stopping, autoscan, known, stale,
                   call, removals>>

invalidateTask(id) ==
    /\ stopping = "no" /\ MutexFree
    /\ invalid' = invalid \cup {t.id : t \in {u \in Outstanding : id \in {u.id, u.parentID}}}
    /\ UNCHANGED <<queues, currentTask, pc, rescan, stopping, autoscan, known, stale,
                   call, removals>>

(* removeObject of a container by the inotify thread: cleanupTasks in two  *)
(* steps, then a task or, if it is not asynchronous, the removal itself.   *)
(* After autoscanList was reset cleanupTasks crashes.                      *)
removeUnlist(c, path, async) ==
    /\ call[c] = Idle /\ MayCall(c) /\ path \in known
    /\ async => Room
    /\ \/ /\ ~NoList
          /\ listed' = listed \ RemovedWith(path)
          /\ call' = [call EXCEPT ![c] = Removing("unlisted", path, async)]
          /\ UNCHANGED pc
       \/ NoList /\ goto("crashed") /\ UNCHANGED <<listed, call>>
    /\ UNCHANGED <<queues, currentTask, invalid, rescan, stopping, counts, gone,
                   known, stale, removals>>

removeInvalidate(c) ==
    /\ call[c].stage = "unlisted" /\ MutexFree
    /\ invalidateAddTasks(call[c].path)
    /\ call' = [call EXCEPT ![c].stage = IF call[c].async THEN "enqueue" ELSE "delete"]
    /\ UNCHANGED <<queues, currentTask, pc, rescan, stopping, autoscan, known, stale,
                   removals>>

removeEnqueue(c) ==
    /\ call[c].stage = "enqueue" /\ MutexFree
    /\ addTask(NewTask("RemoveObject", call[c].path, NoAdir, 0, TRUE), FALSE, Notified)
    /\ call' = [call EXCEPT ![c] = Idle]
    /\ UNCHANGED <<currentTask, invalid, rescan, stopping, autoscan, known, stale,
                   removals>>

removeDelete(c) ==
    /\ call[c].stage = "delete"
    /\ deleteObject(call[c].path)
    /\ call' = [call EXCEPT ![c] = Idle]
    /\ UNCHANGED <<queues, currentTask, invalid, pc, rescan, stopping, listed, counts,
                   removals>>

(* Web::Remove: an empty path, so no cleanup; its parameter `all` becomes  *)
(* the argument `async`.                                                   *)
webRemove(path, all) ==
    /\ stopping = "no" /\ path \in known
    /\ IF all
       THEN /\ MutexFree /\ Room
            /\ addTask(NewTask("RemoveObject", path, NoAdir, 0, FALSE), FALSE, Notified)
            /\ UNCHANGED <<known, stale, gone>>
       ELSE /\ deleteObject(path)
            /\ UNCHANGED <<queues, pc>>
    /\ UNCHANGED <<currentTask, invalid, rescan, stopping, listed, counts, call,
                   removals>>

(* Of an autoscan directory from the watch list.                           *)
removeAutoscanDirectory(a) ==
    /\ stopping = "no" /\ a \in listed
    /\ taskCount' = [taskCount EXCEPT ![a] = -1]
    /\ listed' = listed \ {a}
    /\ UNCHANGED <<queues, currentTask, invalid, pc, rescan, stopping, overwritten,
                   gone, known, stale, call, removals>>

callStep(x) ==
    \/ loadCount(x) \/ storeCount(x) \/ pushTask(x)
    \/ removeInvalidate(x) \/ removeEnqueue(x) \/ removeDelete(x)

Calls ==
    \/ \E a \in Adirs : timerNotify(a) \/ removeAutoscanDirectory(a)
    \/ \E c \in Callers, a \in Adirs : rescanDirectory(c, a)
    \/ \E c \in Callers, f \in Added : f.adir # NoAdir /\ addFile(c, f.path, f.adir, f.lowPriority)
    \/ \E f \in Added : f.adir = NoAdir /\ webAdd(f.path, f.lowPriority)
    \/ \E t \in Outstanding : invalidateTask(t.id)
    \/ \E c \in Callers, d \in Removed, async \in BOOLEAN : removeUnlist(c, d, async)
    \/ \E d \in Removed, all \in BOOLEAN : webRemove(d, all)

-----------------------------------------------------------------------------
(* Shutdown holds the content mutex from its first line until the flag is  *)
(* set.                                                                    *)

(* Up to autoscanList.reset().  The modification times, the file system and*)
(* the database may throw: then the mutex is released, the list stays, and *)
(* a restart that failed so is followed by a second shutdown.              *)
shutdown ==
    /\ stopping \in {"no", "failed"} /\ MutexFree
    /\ \A c \in Callers \ {Inotify} : call[c] = Idle
    /\ stopping' \in {"joining", "failed"}
    /\ UNCHANGED <<queues, currentTask, invalid, pc, rescan, autoscan, known, stale,
                   call, removals>>

(* as_inotify.reset() joins the inotify thread, which ends after the event *)
(* it works on; only then the flag is set, the thread notified and the     *)
(* mutex released.                                                         *)
joinInotify ==
    /\ stopping = "joining" /\ call[Inotify] = Idle
    /\ stopping' = "flagged"
    /\ pc' = Notified
    /\ UNCHANGED <<queues, currentTask, invalid, rescan, autoscan, known, stale,
                   call, removals>>

(* The members of AutoscanInotify are destroyed before its thread is       *)
(* joined: a handler at work may use them.                                 *)
useDestroyed ==
    /\ stopping = "joining" /\ call[Inotify] # Idle
    /\ goto("crashed")
    /\ UNCHANGED <<queues, currentTask, invalid, rescan, stopping, autoscan, known,
                   stale, call, removals>>

(* A crash ends the process.                                               *)
Next ==
    /\ pc # "crashed"
    /\ \/ threadProc
       \/ Calls
       \/ \E x \in Threads : callStep(x)
       \/ shutdown \/ joinInotify \/ useDestroyed

Fairness ==
    /\ WF_vars(threadProc)
    /\ \A x \in Threads : WF_vars(callStep(x))
    /\ WF_vars(joinInotify)

Spec == Init /\ [][Next]_vars /\ Fairness

-----------------------------------------------------------------------------
(* Properties *)

(* Every variable has its type.                                            *)
TypeOK ==
    /\ taskQueue1 \in SUBSET Tasks /\ taskQueue2 \in SUBSET Tasks
    /\ currentTask \in Tasks \cup {NoTask}
    /\ taskID \in 1..(MaxTaskID + 1)
    /\ invalid \in SUBSET (1..MaxTaskID)
    /\ pc \in ThreadStates
    /\ todo \in SUBSET Dirs /\ next \in Dirs \cup {NoDir}
    /\ loaded \in Int
    /\ stopping \in {"no", "failed", "joining", "flagged"}
    /\ listed \in SUBSET Adirs
    /\ taskCount \in [Adirs -> Int]
    /\ overwritten \in [Adirs -> Nat]
    /\ known \in SUBSET Dirs
    /\ stale \in SUBSET (1..MaxTaskID)
    /\ gone \in SUBSET Adirs
    /\ call \in [Threads -> {Idle} \cup AddCalls \cup RemoveCalls]
    /\ removals \in SUBSET [id : 1..MaxTaskID, path : Dirs]

(* A task is in one place only, its id is its own, and a priority queue    *)
(* holds no task of the other kind of caller: ids name tasks for           *)
(* invalidateTask and for the web interface.                               *)
TaskIdsUnique ==
    /\ \A t, u \in Outstanding : t.id = u.id => t = u
    /\ taskQueue1 \cap taskQueue2 = {}
    /\ \A t \in Outstanding : t.id < taskID
    /\ currentTask \notin Queued

(* The tasks that count for an autoscan directory.                         *)
Counted(a) ==
    {t \in Queued : t.adir = a}
        \cup {t \in {currentTask} \ {NoTask} : t.adir = a /\ pc \notin {"top", "wait", "stopped", "crashed"}}

(* The count of a listed directory falls short of its tasks by no more than*)
(* the updates that another thread's store undid, whatever the callers, the*)
(* timer and the thread do to it at once: a removal, a failed or an        *)
(* invalidated task never makes timerNotify take a directory for idle that *)
(* is being scanned, only an overlap of two updates can.                   *)
CountNeverShort ==
    /\ TaskIdsUnique
    /\ \A a \in listed : taskCount[a] + overwritten[a] >= Cardinality(Counted(a))

(* The paths of removals that went through cleanupTasks and did not start. *)
PendingRemovals ==
    {call[c].path : c \in {x \in Threads : call[x].stage \in {"enqueue", "delete"}}}
        \cup {t.path : t \in {u \in taskQueue1 : u.type = "RemoveObject" /\ u.cleans}}

(* The valid AddFile tasks that rescans have put below a path.             *)
SpawnedBelow(path) ==
    {t \in AddTasksBelow(path) \cap Queued : t.parentID # 0 /\ t.id \notin invalid}

(* A rescan of an autoscan directory that goes away with a pending removal *)
(* has no task left that would add a directory the removal deletes, however*)
(* the rescan and the two steps of cleanupTasks interleave.                *)
NoAddBelowRemoval ==
    \A path \in PendingRemovals : \A t \in SpawnedBelow(path) :
        t.adir \in Persistent \/ ~isSubDir(Location[t.adir], path)

(* After a removal no task that was there before it can bring the directory*)
(* back: each of them is invalid, whoever created it.                      *)
RemovedStaysRemoved ==
    \A r \in removals, t \in Queued :
        t.type = "AddFile" /\ t.id < r.id /\ isSubDir(t.path, r.path) => t.id \in invalid

(* Every task of high priority is started, whatever the others do, unless  *)
(* shutdown has come so far as to reset the list.                          *)
TasksAreServed ==
    \A n \in 1..MaxTaskID :
        (\E t \in taskQueue1 : t.id = n) ~> (NoList \/ ~\E t \in taskQueue1 : t.id = n)

(* Shutdown joins the inotify thread with the content mutex held: when a   *)
(* handler waits for that mutex, both wait for ever.                       *)
JoinDeadlocked ==
    stopping = "joining" /\ call[Inotify].stage \in {"push", "unlisted", "enqueue"}

(* A shutdown that throws nothing ends the thread, or it is in that one    *)
(* deadlock: the task at work, the timer and the web interface never hold  *)
(* it up.                                                                  *)
ShutdownEnds ==
    stopping = "joining" ~> (pc \in {"stopped", "crashed"} \/ JoinDeadlocked)

=============================================================================
