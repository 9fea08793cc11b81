-------------------------- MODULE ContentTasksProofs --------------------------
(***************************************************************************)
(* The removal of a directory and the task queue, for every tree of        *)
(* directories, every set of autoscan directories and every number of      *)
(* tasks and callers: types, the two properties that keep a removed        *)
(* directory removed, and the count of the tasks of a directory.           *)
(***************************************************************************)
EXTENDS ContentTasks, TLAPS, FiniteSetTheorems

(* What the thread knows of its task at each of its places.  A rescan      *)
(* always has an autoscan directory.                                       *)
RescansHaveAdir == \A t \in Outstanding : t.type = "RescanDirectory" => t.adir \in Adirs
Rescanning == {"addRescan", "countRescan", "pushRescan", "addFile", "countAdd"}
Working ==
    /\ pc \notin {"top", "wait", "stopped", "crashed"} => currentTask \in Tasks
    /\ pc \in Rescanning \cup {"scan"} => currentTask.type = "RescanDirectory"
    /\ pc \in Rescanning => next \in Dirs
    /\ pc = "countDone" => currentTask.adir \in Adirs
TInv == TypeOK /\ Working /\ RescansHaveAdir

USE DEF queues, counts, autoscan, rescan

LEMMA EntriesType == ASSUME NEW d \in Dirs PROVE Entries(d) \in SUBSET Dirs
  BY DEF Entries, Below

LEMMA NotifiedType == ASSUME pc \in ThreadStates PROVE Notified \in ThreadStates
  BY DEF Notified, ThreadStates

LEMMA NewTaskType ==
  ASSUME taskID \in 1..MaxTaskID, NEW type \in TaskTypes, NEW path \in Dirs,
         NEW a \in Adirs \cup {NoAdir}, NEW parentID \in 0..MaxTaskID,
         NEW cleans \in BOOLEAN
  PROVE  NewTask(type, path, a, parentID, cleans) \in Tasks
  BY DEF NewTask, Tasks

LEMMA InitTInv == Init => TInv
  <1> SUFFICES ASSUME Init PROVE TInv
    OBVIOUS
  <1>1. TypeOK
    <2>1. known \in SUBSET Dirs
      <3>1. {Location[a] : a \in Adirs} \subseteq Dirs
        BY AdirsAssumption
      <3> QED BY <3>1 DEF Init
    <2>2. currentTask \in Tasks \cup {NoTask} /\ next \in Dirs \cup {NoDir}
      BY DEF Init
    <2>3. taskID \in 1..(MaxTaskID + 1) /\ taskCount \in [Adirs -> Int]
      BY BoundAssumption DEF Init
    <2>4. call \in [Threads -> {Idle} \cup AddCalls \cup RemoveCalls]
      BY DEF Init
    <2> QED BY <2>1, <2>2, <2>3, <2>4 DEF Init, TypeOK, ThreadStates
  <1>2. Working /\ RescansHaveAdir
    BY DEF Init, Working, Rescanning, RescansHaveAdir, Outstanding, Queued
  <1> QED BY <1>1, <1>2 DEF TInv

(* The actions that touch neither the queues nor the task in work.         *)
LEMMA addTaskEffect ==
  ASSUME TInv, NEW type \in TaskTypes, NEW path \in Dirs, NEW a \in Adirs \cup {NoAdir},
         NEW parentID \in 0..MaxTaskID, NEW cleans \in BOOLEAN, NEW low \in BOOLEAN,
         NEW state, type = "RescanDirectory" => a \in Adirs,
         addTask(NewTask(type, path, a, parentID, cleans), low, state)
  PROVE  /\ taskQueue1' \in SUBSET Tasks /\ taskQueue2' \in SUBSET Tasks
         /\ taskID' \in 1..(MaxTaskID + 1)
         /\ \A t \in taskQueue1' \cup taskQueue2' :
                t.type = "RescanDirectory" => t.adir \in Adirs
         /\ pc' = state
  <1>1. taskID \in 1..MaxTaskID
    BY BoundAssumption DEF TInv, TypeOK, addTask
  <1>2. NewTask(type, path, a, parentID, cleans) \in Tasks
    BY <1>1, NewTaskType
  <1>3. /\ NewTask(type, path, a, parentID, cleans).type = type
        /\ NewTask(type, path, a, parentID, cleans).adir = a
    BY DEF NewTask
  <1>4. taskQueue1' \in SUBSET Tasks /\ taskQueue2' \in SUBSET Tasks
    BY <1>2 DEF addTask, TInv, TypeOK
  <1>5. taskID' \in 1..(MaxTaskID + 1)
    BY <1>1, BoundAssumption DEF addTask
  <1>6. ASSUME NEW t \in taskQueue1' \cup taskQueue2', t.type = "RescanDirectory"
        PROVE  t.adir \in Adirs
    BY <1>3, <1>6 DEF addTask, TInv, RescansHaveAdir, Outstanding, Queued
  <1> QED BY <1>4, <1>5, <1>6 DEF addTask

(* A removal in the database leaves the queues alone.                      *)
LEMMA deleteObjectEffect ==
  ASSUME TypeOK, NEW path \in Dirs, deleteObject(path)
  PROVE  /\ known' \in SUBSET Dirs
         /\ stale' \in SUBSET (1..MaxTaskID)
         /\ gone' \in SUBSET Adirs
  <1>1. \A t \in Outstanding : t.id \in 1..MaxTaskID
    BY DEF Outstanding, Queued, TypeOK, Tasks
  <1> QED BY <1>1 DEF deleteObject, TypeOK

LEMMA invalidateEffect ==
  ASSUME TypeOK, NEW path \in Dirs, invalidateAddTasks(path)
  PROVE  invalid' \in SUBSET (1..MaxTaskID)
  <1>1. \A t \in Outstanding : t.id \in 1..MaxTaskID
    BY DEF Outstanding, Queued, TypeOK, Tasks
  <1> QED BY <1>1 DEF invalidateAddTasks, AddTasksBelow, TypeOK

(* A store of a count: what other threads stored since the load is undone, *)
(* and the auxiliary variable says so.                                     *)
Cover(a) == taskCount[a] + overwritten[a]

LEMMA storeEffect ==
  ASSUME TypeOK, NEW a \in Adirs, NEW old \in Int, NEW new \in Int, store(a, old, new)
  PROVE  /\ taskCount' \in [Adirs -> Int] /\ overwritten' \in [Adirs -> Nat]
         /\ Cover(a)' >= Cover(a) + (new - old)
         /\ \A b \in Adirs : b # a => Cover(b)' = Cover(b)
  <1>1. taskCount \in [Adirs -> Int] /\ overwritten \in [Adirs -> Nat]
    BY DEF TypeOK
  <1>2. /\ taskCount' = [taskCount EXCEPT ![a] = new]
        /\ overwritten' = [overwritten EXCEPT
               ![a] = overwritten[a] + (IF taskCount[a] > old THEN taskCount[a] - old ELSE 0)]
    BY DEF store
  <1>3. taskCount' \in [Adirs -> Int] /\ overwritten' \in [Adirs -> Nat]
    BY <1>1, <1>2
  <1>4. /\ taskCount'[a] = new
        /\ overwritten'[a] = overwritten[a]
               + (IF taskCount[a] > old THEN taskCount[a] - old ELSE 0)
    BY <1>1, <1>2
  <1>5. taskCount'[a] + overwritten'[a] >= taskCount[a] + overwritten[a] + (new - old)
    BY <1>1, <1>4
  <1>6. \A b \in Adirs : b # a => taskCount'[b] = taskCount[b] /\ overwritten'[b] = overwritten[b]
    BY <1>1, <1>2
  <1> QED BY <1>3, <1>5, <1>6 DEF Cover

(* The call that each thread is in.                                        *)
LEMMA CallType ==
  ASSUME TypeOK, NEW x \in Threads
  PROVE  /\ call[x] \in {Idle} \cup AddCalls \cup RemoveCalls
         /\ call[x].stage \in AddStages => call[x] \in AddCalls
         /\ call[x].stage \in RemoveStages => call[x] \in RemoveCalls
         /\ call[x] \in AddCalls => /\ call[x].path \in Dirs /\ call[x].type \in TaskTypes
                                    /\ call[x].adir \in Adirs /\ call[x].lowPriority \in BOOLEAN
                                    /\ call[x].loaded \in Int
         /\ call[x] \in RemoveCalls => call[x].path \in Dirs /\ call[x].async \in BOOLEAN
  BY DEF TypeOK, Idle, AddCalls, RemoveCalls, AddStages, RemoveStages

LEMMA addTaskOfThread ==
  ASSUME TInv, NEW type \in {"AddFile", "RescanDirectory"}, NEW parentID \in 0..MaxTaskID,
         pc \in Rescanning, spawn(type, parentID)
  PROVE  /\ taskQueue1' \in SUBSET Tasks /\ taskQueue2' \in SUBSET Tasks
         /\ taskID' \in 1..(MaxTaskID + 1)
         /\ \A t \in taskQueue1' \cup taskQueue2' :
                t.type = "RescanDirectory" => t.adir \in Adirs
         /\ pc' = "scan" /\ next' = NoDir /\ loaded' = 0
  <1>1. currentTask \in Tasks /\ currentTask.type = "RescanDirectory" /\ next \in Dirs
    BY DEF TInv, Working, Rescanning
  <1>2. adir \in Adirs
    BY <1>1 DEF adir, Tasks, NoTask, TInv, RescansHaveAdir, Outstanding
  <1>3. type \in TaskTypes /\ FALSE \in BOOLEAN /\ TRUE \in BOOLEAN /\ adir \in Adirs \cup {NoAdir}
    BY <1>2 DEF TaskTypes
  <1>4. addTask(NewTask(type, next, adir, parentID, FALSE), TRUE, "scan")
    BY DEF spawn
  <1> QED BY <1>1, <1>2, <1>3, <1>4, addTaskEffect DEF spawn

LEMMA QueuesGrow ==
  ASSUME TInv, UNCHANGED currentTask,
         \A t \in taskQueue1' \cup taskQueue2' : t.type = "RescanDirectory" => t.adir \in Adirs
  PROVE  RescansHaveAdir'
  BY DEF TInv, RescansHaveAdir, Outstanding, Queued

(* The steps of the thread.                                                *)
LEMMA ThreadTInv == TInv /\ threadProc => TInv'
  <1> SUFFICES ASSUME TInv, threadProc PROVE TInv'
    OBVIOUS
  <1>a. TypeOK
    BY DEF TInv
  <1>b. pc \in Rescanning => /\ currentTask \in Tasks /\ currentTask.type = "RescanDirectory"
                             /\ adir \in Adirs /\ currentTask.id \in 0..MaxTaskID
                             /\ next \in Dirs
    <2> SUFFICES ASSUME pc \in Rescanning
                 PROVE  /\ currentTask \in Tasks /\ currentTask.type = "RescanDirectory"
                        /\ adir \in Adirs /\ currentTask.id \in 0..MaxTaskID
                        /\ next \in Dirs
      OBVIOUS
    <2>1. currentTask \in Tasks /\ currentTask.type = "RescanDirectory" /\ next \in Dirs
      BY DEF TInv, Working, Rescanning
    <2>2. adir \in Adirs
      BY <2>1 DEF adir, Tasks, NoTask, TInv, RescansHaveAdir, Outstanding
    <2>3. currentTask.id \in 0..MaxTaskID
      BY <2>1, BoundAssumption DEF Tasks
    <2> QED BY <2>1, <2>2, <2>3
  <1>c. 0 \in 0..MaxTaskID /\ "AddFile" # "RescanDirectory"
    BY BoundAssumption
  <1>d. loaded \in Int /\ incTaskCount(loaded) \in Int /\ decTaskCount(loaded) \in Int
    BY <1>a DEF TypeOK, incTaskCount, decTaskCount
  <1>e. ASSUME UNCHANGED <<queues, currentTask>>, pc' \in {"finish", "top", "crashed"},
               pc \notin {"top", "wait", "stopped", "crashed"}
        PROVE  Working' /\ RescansHaveAdir'
    BY <1>e DEF TInv, Working, Rescanning, RescansHaveAdir, Outstanding, Queued
  <1>f. ASSUME UNCHANGED <<queues, currentTask>> PROVE RescansHaveAdir'
    BY <1>f DEF TInv, RescansHaveAdir, Outstanding, Queued
  <1>1. CASE fetch
    <2>1. currentTask' \in Queued \cup {NoTask, currentTask}
      BY <1>1 DEF fetch, Front, Queued
    <2>2. /\ taskQueue1' \subseteq taskQueue1 /\ taskQueue2' \subseteq taskQueue2
          /\ pc' \in {"stopped", "start", "wait"}
          /\ pc' = "start" => currentTask' \in Queued
          /\ invalid' \subseteq invalid /\ stale' \subseteq stale
      BY <1>1 DEF fetch, Front, Queued, goto
    <2>3. Queued \subseteq Tasks
      BY <1>a DEF TypeOK, Queued
    <2>4. TypeOK'
      BY <1>1, <1>a, <2>1, <2>2, <2>3 DEF fetch, TypeOK, ThreadStates
    <2>5. RescansHaveAdir'
      BY <2>1, <2>2 DEF TInv, RescansHaveAdir, Outstanding, Queued
    <2>6. Working'
      BY <2>2, <2>3 DEF Working, Rescanning
    <2> QED BY <2>4, <2>5, <2>6 DEF TInv
  <1>2. CASE runTask
    <2>1. pc' \in {"top", "import", "unlist", "delete"} /\ pc = "start"
      BY <1>2 DEF runTask, goto, CleansFirst
    <2>2. TypeOK' /\ UNCHANGED <<queues, currentTask>>
      BY <1>2, <1>a, <2>1 DEF runTask, TypeOK, ThreadStates
    <2> QED BY <1>f, <2>1, <2>2 DEF TInv, Working, Rescanning
  <1>3. CASE runRescan
    <2>1. currentTask \in Tasks /\ currentTask.type = "RescanDirectory"
      BY <1>3 DEF runRescan, TInv, Working
    <2>2. adir \in Adirs /\ currentTask.path \in Dirs
      BY <2>1 DEF adir, Tasks, NoTask, TInv, RescansHaveAdir, Outstanding
    <2>3. pc' \in {"scan", "finish", "crashed"} /\ UNCHANGED <<queues, currentTask>>
      BY <1>3 DEF runRescan, goto
    <2>4. Entries(currentTask.path) \in SUBSET Dirs /\ Entries(Location[adir]) \in SUBSET Dirs
      BY <2>2, AdirsAssumption, EntriesType
    <2>5. todo' \in SUBSET Dirs /\ known' \in SUBSET Dirs /\ gone' \in SUBSET Adirs
          /\ listed' \in SUBSET Adirs
      BY <1>3, <1>a, <2>4 DEF runRescan, TypeOK
    <2>6. taskCount' \in [Adirs -> Int] /\ overwritten' = overwritten
      BY <1>3, <1>a DEF runRescan, TypeOK
    <2>7. TypeOK'
      BY <1>3, <1>a, <2>3, <2>5, <2>6 DEF runRescan, TypeOK, ThreadStates
    <2>8. Working'
      BY <2>1, <2>3 DEF Working, Rescanning
    <2> QED BY <1>f, <2>3, <2>7, <2>8 DEF TInv
  <1>4. CASE scan
    <2>1. currentTask \in Tasks /\ currentTask.type = "RescanDirectory"
      BY <1>4 DEF scan, TInv, Working, Rescanning
    <2>2. /\ pc' \in {"finish", "addRescan", "addFile"} /\ UNCHANGED <<queues, currentTask>>
          /\ pc' # "finish" => next' \in Dirs
      BY <1>4, <1>a DEF scan, goto, TypeOK
    <2>3. TypeOK'
      BY <1>4, <1>a, <2>2 DEF scan, TypeOK, ThreadStates
    <2> QED BY <1>f, <2>1, <2>2, <2>3 DEF TInv, Working, Rescanning
  <1>5. CASE addRescan \/ addSubDirectory
    <2>1. pc \in Rescanning /\ UNCHANGED <<queues, currentTask>>
      BY <1>5 DEF addRescan, addSubDirectory, Rescanning
    <2>2. /\ pc' \in {"countRescan", "countAdd", "finish"}
          /\ todo' \in SUBSET Dirs /\ next' \in Dirs \cup {NoDir}
          /\ loaded' \in Int
          /\ pc' # "finish" => next' = next
      BY <1>5, <1>a, <1>b, <2>1 DEF addRescan, addSubDirectory, loadOrEnd, goto, TypeOK
    <2>3. TypeOK'
      BY <1>5, <1>a, <2>1, <2>2 DEF addRescan, addSubDirectory, TypeOK, ThreadStates
    <2> QED BY <1>b, <1>f, <2>1, <2>2, <2>3 DEF TInv, Working, Rescanning
  <1>6. CASE countRescan
    <2>1. pc \in Rescanning /\ UNCHANGED <<queues, currentTask, next>> /\ pc' = "pushRescan"
      BY <1>6 DEF countRescan, Rescanning, goto
    <2>2. taskCount' \in [Adirs -> Int] /\ overwritten' \in [Adirs -> Nat]
      BY <1>6, <1>a, <1>b, <1>d, <2>1, storeEffect DEF countRescan
    <2>3. TypeOK'
      BY <1>6, <1>a, <2>1, <2>2 DEF countRescan, TypeOK, ThreadStates
    <2> QED BY <1>b, <1>f, <2>1, <2>3 DEF TInv, Working, Rescanning
  <1>7. CASE pushRescan
    <2>1. pc \in Rescanning /\ spawn("RescanDirectory", 0)
      BY <1>7 DEF pushRescan, Rescanning
    <2>2. /\ taskQueue1' \in SUBSET Tasks /\ taskQueue2' \in SUBSET Tasks
          /\ taskID' \in 1..(MaxTaskID + 1)
          /\ \A t \in taskQueue1' \cup taskQueue2' :
                 t.type = "RescanDirectory" => t.adir \in Adirs
          /\ pc' = "scan" /\ next' = NoDir /\ loaded' = 0
      BY <1>c, <2>1, addTaskOfThread
    <2>3. taskID \in 1..MaxTaskID
      BY <1>a, <2>1, BoundAssumption DEF spawn, addTask, TypeOK
    <2>4. TypeOK'
      BY <1>7, <1>a, <2>2, <2>3 DEF pushRescan, TypeOK, ThreadStates
    <2>5. currentTask' = currentTask
      BY <1>7 DEF pushRescan
    <2>6. Working'
      BY <1>b, <2>1, <2>2, <2>5 DEF Working, Rescanning
    <2>7. RescansHaveAdir'
      BY <2>2, <2>5, QueuesGrow
    <2> QED BY <2>4, <2>6, <2>7 DEF TInv
  <1>8. CASE countAdd
    <2>1. pc \in Rescanning /\ spawn("AddFile", currentTask.id)
      BY <1>8 DEF countAdd, Rescanning
    <2>2. /\ taskQueue1' \in SUBSET Tasks /\ taskQueue2' \in SUBSET Tasks
          /\ taskID' \in 1..(MaxTaskID + 1)
          /\ \A t \in taskQueue1' \cup taskQueue2' :
                 t.type = "RescanDirectory" => t.adir \in Adirs
          /\ pc' = "scan" /\ next' = NoDir /\ loaded' = 0
      BY <1>b, <2>1, addTaskOfThread
    <2>3. taskCount' \in [Adirs -> Int] /\ overwritten' \in [Adirs -> Nat]
      BY <1>8, <1>a, <1>b, <1>d, <2>1, storeEffect DEF countAdd
    <2>4. TypeOK'
      BY <1>8, <1>a, <2>2, <2>3 DEF countAdd, TypeOK, ThreadStates
    <2>5. currentTask' = currentTask
      BY <1>8 DEF countAdd
    <2>6. Working'
      BY <1>b, <2>1, <2>2, <2>5 DEF Working, Rescanning
    <2>7. RescansHaveAdir'
      BY <2>2, <2>5, QueuesGrow
    <2> QED BY <2>4, <2>6, <2>7 DEF TInv
  <1>9. CASE import \/ fail \/ findAutoscanDirectory
    <2>1. /\ UNCHANGED <<queues, currentTask>> /\ pc' \in {"finish", "top", "crashed"}
          /\ pc \notin {"top", "wait", "stopped", "crashed"}
      BY <1>9 DEF import, fail, findAutoscanDirectory, goto
    <2>2. known' \in SUBSET Dirs /\ todo' \in SUBSET Dirs
      BY <1>9, <1>a DEF import, fail, findAutoscanDirectory, TypeOK, Below
    <2>3. TypeOK'
      BY <1>9, <1>a, <2>1, <2>2 DEF import, fail, findAutoscanDirectory, TypeOK, ThreadStates
    <2> QED BY <1>e, <2>1, <2>3 DEF TInv
  <1>10. CASE unlist \/ invalidate
    <2>1. /\ UNCHANGED <<queues, currentTask>> /\ pc' \in {"invalidate", "delete", "crashed"}
          /\ pc \in {"unlist", "invalidate"}
      BY <1>10 DEF unlist, invalidate, goto
    <2>2. currentTask \in Tasks
      BY <2>1 DEF TInv, Working
    <2>3. invalid' \in SUBSET (1..MaxTaskID) /\ listed' \in SUBSET Adirs
      <3>1. currentTask.path \in Dirs
        BY <2>2 DEF Tasks
      <3> QED BY <1>10, <1>a, <3>1, invalidateEffect DEF unlist, invalidate, TypeOK
    <2>4. TypeOK'
      BY <1>10, <1>a, <2>1, <2>3 DEF unlist, invalidate, TypeOK, ThreadStates
    <2> QED BY <1>f, <2>1, <2>2, <2>4 DEF TInv, Working, Rescanning
  <1>11. CASE delete
    <2>1. currentTask \in Tasks /\ currentTask.path \in Dirs /\ currentTask.id \in 1..MaxTaskID
      BY <1>11 DEF delete, TInv, Working, Tasks
    <2>2. known' \in SUBSET Dirs /\ stale' \in SUBSET (1..MaxTaskID) /\ gone' \in SUBSET Adirs
      BY <1>a, <1>11, <2>1, deleteObjectEffect DEF delete
    <2>3. removals' \in SUBSET [id : 1..MaxTaskID, path : Dirs]
      BY <1>11, <1>a, <2>1 DEF delete, TypeOK
    <2>4. UNCHANGED <<queues, currentTask>> /\ pc' = "top" /\ pc = "delete"
      BY <1>11 DEF delete, goto
    <2>5. TypeOK'
      BY <1>11, <1>a, <2>2, <2>3, <2>4 DEF delete, TypeOK, ThreadStates
    <2> QED BY <1>e, <2>4, <2>5 DEF TInv
  <1>12. CASE finish
    <2>1. currentTask \in Tasks /\ UNCHANGED <<queues, currentTask>>
      BY <1>12 DEF finish, TInv, Working
    <2>2. \/ pc' = "top" /\ loaded' = loaded
          \/ pc' = "countDone" /\ currentTask.adir \in Adirs /\ loaded' \in Int
      BY <1>12, <1>a, <2>1 DEF finish, goto, adir, Tasks, TypeOK
    <2>3. TypeOK'
      BY <1>12, <1>a, <2>2 DEF finish, TypeOK, ThreadStates
    <2> QED BY <1>f, <2>1, <2>2, <2>3 DEF TInv, Working, Rescanning
  <1>13. CASE countDone
    <2>1. currentTask.adir \in Adirs /\ UNCHANGED <<queues, currentTask>> /\ pc' = "top"
          /\ pc = "countDone"
      BY <1>13 DEF countDone, goto, TInv, Working
    <2>2. taskCount' \in [Adirs -> Int] /\ overwritten' \in [Adirs -> Nat]
      BY <1>13, <1>a, <1>d, <2>1, storeEffect DEF countDone, adir
    <2>3. TypeOK'
      BY <1>13, <1>a, <2>1, <2>2 DEF countDone, TypeOK, ThreadStates
    <2> QED BY <1>e, <2>1, <2>3 DEF TInv
  <1> QED BY <1>1, <1>2, <1>3, <1>4, <1>5, <1>6, <1>7, <1>8, <1>9, <1>10, <1>11, <1>12, <1>13
             DEF threadProc

(* A removal task of a caller.                                             *)
LEMMA addRemovalEffect ==
  ASSUME TInv, NEW path \in Dirs, NEW cleans \in BOOLEAN,
         addTask(NewTask("RemoveObject", path, NoAdir, 0, cleans), FALSE, Notified)
  PROVE  /\ taskQueue1' \in SUBSET Tasks /\ taskQueue2' \in SUBSET Tasks
         /\ taskID' \in 1..(MaxTaskID + 1)
         /\ \A t \in taskQueue1' \cup taskQueue2' :
                t.type = "RescanDirectory" => t.adir \in Adirs
         /\ pc' = Notified
  <1>1. 0 \in 0..MaxTaskID /\ "RemoveObject" \in TaskTypes
        /\ "RemoveObject" # "RescanDirectory" /\ NoAdir \in Adirs \cup {NoAdir}
    BY BoundAssumption DEF TaskTypes
  <1> QED BY <1>1, addTaskEffect

(* The steps of the callers.  The thread may be notified.                  *)
LEMMA NotifiedWorks ==
  ASSUME TInv, pc' \in {pc, Notified, "crashed"}, UNCHANGED <<currentTask, next>>
  PROVE  Working' /\ pc' \in ThreadStates
  BY DEF TInv, TypeOK, Working, Rescanning, Notified, ThreadStates

LEMMA QueuesStay ==
  ASSUME TInv, UNCHANGED <<taskQueue1, taskQueue2, currentTask>>
  PROVE  RescansHaveAdir'
  BY DEF TInv, RescansHaveAdir, Outstanding, Queued

LEMMA NewCallType ==
  ASSUME TypeOK, NEW x \in Threads, NEW c \in {Idle} \cup AddCalls \cup RemoveCalls,
         call' = [call EXCEPT ![x] = c]
  PROVE  call' \in [Threads -> {Idle} \cup AddCalls \cup RemoveCalls]
  BY DEF TypeOK

(* A call that begins.                                                     *)
LEMMA BeginTInv ==
  ASSUME TInv, NEW x \in Threads, NEW c \in {Idle} \cup AddCalls \cup RemoveCalls,
         call' = [call EXCEPT ![x] = c],
         UNCHANGED <<queues, currentTask, invalid, pc, rescan, stopping, autoscan,
                     known, stale, removals>>
  PROVE  TInv'
  <1>1. TypeOK'
    BY NewCallType DEF TInv, TypeOK
  <1>2. Working' /\ RescansHaveAdir'
    BY NotifiedWorks, QueuesStay
  <1> QED BY <1>1, <1>2 DEF TInv

LEMMA NextStageType ==
  ASSUME NEW c \in AddCalls, NEW stage \in AddStages, NEW n \in Int
  PROVE  [c EXCEPT !.stage = stage, !.loaded = n] \in AddCalls
  BY DEF AddCalls

LEMMA callStepTInv ==
  ASSUME TInv, NEW x \in Threads, callStep(x)
  PROVE  TInv'
  <1>a. TypeOK
    BY DEF TInv
  <1>b. 0 \in 0..MaxTaskID /\ "RemoveObject" \in TaskTypes /\ "RemoveObject" # "RescanDirectory"
    BY BoundAssumption DEF TaskTypes
  <1>1. CASE loadCount(x)
    <2>1. call[x] \in AddCalls /\ call[x].adir \in Adirs
      BY <1>1, <1>a, CallType DEF loadCount, AddStages
    <2>2. PICK n \in Int : n = taskCount[call[x].adir]
      BY <1>a, <2>1 DEF TypeOK
    <2>3. call' = [call EXCEPT ![x] = [call[x] EXCEPT !.stage = "store", !.loaded = n]]
      BY <1>1, <1>a, <2>2 DEF loadCount, TypeOK
    <2>4. [call[x] EXCEPT !.stage = "store", !.loaded = n] \in AddCalls
      <3>1. "store" \in AddStages
        BY DEF AddStages
      <3> QED BY <2>1, <3>1, NextStageType
    <2> QED BY <1>1, <2>3, <2>4, BeginTInv DEF loadCount
  <1>2. CASE storeCount(x)
    <2>1. call[x] \in AddCalls /\ call[x].adir \in Adirs /\ call[x].loaded \in Int
      BY <1>2, <1>a, CallType DEF storeCount, AddStages
    <2>2. call' = [call EXCEPT ![x] = [call[x] EXCEPT !.stage = "push", !.loaded = 0]]
      BY <1>2, <1>a DEF storeCount, TypeOK
    <2>3. [call[x] EXCEPT !.stage = "push", !.loaded = 0] \in AddCalls
      <3>1. "push" \in AddStages /\ 0 \in Int
        BY DEF AddStages
      <3> QED BY <2>1, <3>1, NextStageType
    <2>4. taskCount' \in [Adirs -> Int] /\ overwritten' \in [Adirs -> Nat]
      <3>1. incTaskCount(call[x].loaded) \in Int
        BY <2>1 DEF incTaskCount
      <3> QED BY <1>2, <1>a, <2>1, <3>1, storeEffect DEF storeCount
    <2>5. call' \in [Threads -> {Idle} \cup AddCalls \cup RemoveCalls]
      BY <1>a, <2>2, <2>3, NewCallType
    <2>6. TypeOK'
      BY <1>2, <1>a, <2>4, <2>5 DEF storeCount, TypeOK
    <2>7. Working' /\ RescansHaveAdir'
      BY <1>2, NotifiedWorks, QueuesStay DEF storeCount
    <2> QED BY <2>6, <2>7 DEF TInv
  <1>3. CASE pushTask(x)
    <2>1. call[x] \in AddCalls /\ call[x].adir \in Adirs /\ call[x].path \in Dirs
          /\ call[x].type \in TaskTypes /\ call[x].lowPriority \in BOOLEAN
      BY <1>3, <1>a, CallType DEF pushTask, AddStages
    <2>2. /\ taskQueue1' \in SUBSET Tasks /\ taskQueue2' \in SUBSET Tasks
          /\ taskID' \in 1..(MaxTaskID + 1)
          /\ \A t \in taskQueue1' \cup taskQueue2' :
                 t.type = "RescanDirectory" => t.adir \in Adirs
          /\ pc' = Notified
      BY <1>3, <1>b, <2>1, addTaskEffect DEF pushTask
    <2>3. taskID \in 1..MaxTaskID
      BY <1>3, <1>a, BoundAssumption DEF pushTask, addTask, TypeOK
    <2>4. call' \in [Threads -> {Idle} \cup AddCalls \cup RemoveCalls]
      BY <1>3, <1>a, NewCallType DEF pushTask
    <2>5. stale' \in SUBSET (1..MaxTaskID)
      BY <1>3, <1>a, <2>3 DEF pushTask, TypeOK
    <2>6. Working' /\ pc' \in ThreadStates /\ RescansHaveAdir'
      BY <1>3, <2>2, NotifiedWorks, QueuesGrow DEF pushTask
    <2>7. TypeOK'
      BY <1>3, <1>a, <2>2, <2>4, <2>5, <2>6 DEF pushTask, TypeOK
    <2> QED BY <2>6, <2>7 DEF TInv
  <1>4. CASE removeInvalidate(x)
    <2>1. call[x] \in RemoveCalls /\ call[x].path \in Dirs
      BY <1>4, <1>a, CallType DEF removeInvalidate, RemoveStages
    <2>2. PICK stage \in RemoveStages : call' = [call EXCEPT ![x].stage = stage]
      BY <1>4 DEF removeInvalidate, RemoveStages
    <2>3. call' = [call EXCEPT ![x] = [call[x] EXCEPT !.stage = stage]]
      BY <1>a, <2>2 DEF TypeOK
    <2>4. [call[x] EXCEPT !.stage = stage] \in RemoveCalls
      BY <2>1, <2>2 DEF RemoveCalls
    <2>5. call' \in [Threads -> {Idle} \cup AddCalls \cup RemoveCalls]
      BY <1>a, <2>3, <2>4, NewCallType
    <2>6. invalid' \in SUBSET (1..MaxTaskID)
      BY <1>a, <1>4, <2>1, invalidateEffect DEF removeInvalidate
    <2>7. TypeOK'
      BY <1>4, <1>a, <2>5, <2>6 DEF removeInvalidate, TypeOK
    <2>8. Working' /\ RescansHaveAdir'
      BY <1>4, NotifiedWorks, QueuesStay DEF removeInvalidate
    <2> QED BY <2>7, <2>8 DEF TInv
  <1>5. CASE removeEnqueue(x)
    <2>1. call[x].path \in Dirs
      BY <1>5, <1>a, CallType DEF removeEnqueue, RemoveStages
    <2>2. /\ taskQueue1' \in SUBSET Tasks /\ taskQueue2' \in SUBSET Tasks
          /\ taskID' \in 1..(MaxTaskID + 1)
          /\ \A t \in taskQueue1' \cup taskQueue2' :
                 t.type = "RescanDirectory" => t.adir \in Adirs
          /\ pc' = Notified
      BY <1>5, <2>1, addRemovalEffect DEF removeEnqueue
    <2>3. call' \in [Threads -> {Idle} \cup AddCalls \cup RemoveCalls]
      BY <1>5, <1>a, NewCallType DEF removeEnqueue
    <2>4. Working' /\ pc' \in ThreadStates /\ RescansHaveAdir'
      BY <1>5, <2>2, NotifiedWorks, QueuesGrow DEF removeEnqueue
    <2>5. TypeOK'
      BY <1>5, <1>a, <2>2, <2>3, <2>4 DEF removeEnqueue, TypeOK
    <2> QED BY <2>4, <2>5 DEF TInv
  <1>6. CASE removeDelete(x)
    <2>1. call[x].path \in Dirs
      BY <1>6, <1>a, CallType DEF removeDelete, RemoveStages
    <2>2. known' \in SUBSET Dirs /\ stale' \in SUBSET (1..MaxTaskID) /\ gone' \in SUBSET Adirs
      BY <1>a, <1>6, <2>1, deleteObjectEffect DEF removeDelete
    <2>3. call' \in [Threads -> {Idle} \cup AddCalls \cup RemoveCalls]
      BY <1>6, <1>a, NewCallType DEF removeDelete
    <2>4. TypeOK'
      BY <1>6, <1>a, <2>2, <2>3 DEF removeDelete, TypeOK
    <2>5. Working' /\ RescansHaveAdir'
      BY <1>6, NotifiedWorks, QueuesStay DEF removeDelete
    <2> QED BY <2>4, <2>5 DEF TInv
  <1> QED BY <1>1, <1>2, <1>3, <1>4, <1>5, <1>6 DEF callStep

LEMMA CallsTInv == TInv /\ Calls => TInv'
  <1> SUFFICES ASSUME TInv, Calls PROVE TInv'
    OBVIOUS
  <1>a. TypeOK
    BY DEF TInv
  <1>t. Timer \in Threads /\ Callers \subseteq Threads
    BY DEF Threads
  <1>b. ASSUME NEW stage \in AddStages, NEW type \in {"AddFile", "RescanDirectory"},
               NEW path \in Dirs, NEW a \in Adirs, NEW low \in BOOLEAN, NEW n \in Int
        PROVE  Adding(stage, type, path, a, low, n) \in AddCalls
    BY DEF Adding, AddCalls, TaskTypes
  <1>c. \A a \in Adirs : Location[a] \in Dirs /\ taskCount[a] \in Int
    BY <1>a, AdirsAssumption DEF TypeOK
  <1>1. ASSUME NEW a \in Adirs, timerNotify(a) PROVE TInv'
    <2>1. Location[a] \in Dirs /\ 0 \in Int /\ "load" \in AddStages
      BY <1>c DEF AddStages
    <2>2. Adding("load", "RescanDirectory", Location[a], a, TRUE, 0) \in AddCalls
      BY <1>b, <2>1
    <2> QED BY <1>1, <1>t, <2>2, BeginTInv DEF timerNotify
  <1>2. ASSUME NEW c \in Callers, NEW a \in Adirs, rescanDirectory(c, a) PROVE TInv'
    <2>1. Location[a] \in Dirs /\ taskCount[a] \in Int /\ "store" \in AddStages
      BY <1>c DEF AddStages
    <2>2. Adding("store", "RescanDirectory", Location[a], a, TRUE, taskCount[a]) \in AddCalls
      BY <1>b, <2>1
    <2> QED BY <1>2, <1>t, <2>2, BeginTInv DEF rescanDirectory
  <1>3. ASSUME NEW a \in Adirs, removeAutoscanDirectory(a) PROVE TInv'
    <2>1. TypeOK'
      BY <1>3, <1>a DEF removeAutoscanDirectory, TypeOK
    <2>2. Working' /\ RescansHaveAdir'
      BY <1>3, NotifiedWorks, QueuesStay DEF removeAutoscanDirectory
    <2> QED BY <2>1, <2>2 DEF TInv
  <1>4. ASSUME NEW c \in Callers, NEW f \in Added, f.adir # NoAdir,
               addFile(c, f.path, f.adir, f.lowPriority)
        PROVE  TInv'
    <2>1. f.path \in Dirs /\ f.adir \in Adirs /\ f.lowPriority \in BOOLEAN
      BY <1>4, CallsAssumption
    <2>2. Adding("store", "AddFile", f.path, f.adir, f.lowPriority, taskCount[f.adir]) \in AddCalls
      BY <1>b, <1>c, <2>1 DEF AddStages
    <2> QED BY <1>4, <1>t, <2>2, BeginTInv DEF addFile
  <1>5. ASSUME NEW f \in Added, webAdd(f.path, f.lowPriority) PROVE TInv'
    <2>1. f.path \in Dirs /\ f.lowPriority \in BOOLEAN
      BY CallsAssumption
    <2>2. /\ taskQueue1' \in SUBSET Tasks /\ taskQueue2' \in SUBSET Tasks
          /\ taskID' \in 1..(MaxTaskID + 1)
          /\ \A t \in taskQueue1' \cup taskQueue2' :
                 t.type = "RescanDirectory" => t.adir \in Adirs
          /\ pc' = Notified
      <3>1. 0 \in 0..MaxTaskID /\ "AddFile" \in TaskTypes /\ "AddFile" # "RescanDirectory"
            /\ FALSE \in BOOLEAN /\ NoAdir \in Adirs \cup {NoAdir}
        BY BoundAssumption DEF TaskTypes
      <3> QED BY <1>5, <2>1, <3>1, addTaskEffect DEF webAdd
    <2>3. Working' /\ pc' \in ThreadStates /\ RescansHaveAdir'
      BY <1>5, <2>2, NotifiedWorks, QueuesGrow DEF webAdd
    <2>4. TypeOK'
      BY <1>5, <1>a, <2>2, <2>3 DEF webAdd, TypeOK
    <2> QED BY <2>3, <2>4 DEF TInv
  <1>6. ASSUME NEW t \in Outstanding, invalidateTask(t.id) PROVE TInv'
    <2>1. \A u \in Outstanding : u.id \in 1..MaxTaskID
      BY <1>a DEF Outstanding, Queued, TypeOK, Tasks
    <2>2. invalid' \in SUBSET (1..MaxTaskID)
      BY <1>6, <1>a, <2>1 DEF invalidateTask, TypeOK
    <2>3. TypeOK'
      BY <1>6, <1>a, <2>2 DEF invalidateTask, TypeOK
    <2>4. Working' /\ RescansHaveAdir'
      BY <1>6, NotifiedWorks, QueuesStay DEF invalidateTask
    <2> QED BY <2>3, <2>4 DEF TInv
  <1>7. ASSUME NEW c \in Callers, NEW d \in Removed, NEW async \in BOOLEAN,
               removeUnlist(c, d, async)
        PROVE  TInv'
    <2>1. Removing("unlisted", d, async) \in RemoveCalls
      BY CallsAssumption DEF Removing, RemoveCalls, RemoveStages
    <2>2. /\ call' \in [Threads -> {Idle} \cup AddCalls \cup RemoveCalls]
          /\ listed' \in SUBSET Adirs
          /\ pc' \in {pc, Notified, "crashed"}
      BY <1>7, <1>a, <1>t, <2>1, NewCallType DEF removeUnlist, goto, TypeOK
    <2>3. Working' /\ pc' \in ThreadStates /\ RescansHaveAdir'
      BY <1>7, <2>2, NotifiedWorks, QueuesStay DEF removeUnlist
    <2>4. TypeOK'
      BY <1>7, <1>a, <2>2, <2>3 DEF removeUnlist, TypeOK
    <2> QED BY <2>3, <2>4 DEF TInv
  <1>8. ASSUME NEW d \in Removed, NEW all \in BOOLEAN, webRemove(d, all) PROVE TInv'
    <2>1. d \in Dirs
      BY CallsAssumption
    <2>2. CASE all
      <3>1. /\ taskQueue1' \in SUBSET Tasks /\ taskQueue2' \in SUBSET Tasks
            /\ taskID' \in 1..(MaxTaskID + 1)
            /\ \A t \in taskQueue1' \cup taskQueue2' :
                   t.type = "RescanDirectory" => t.adir \in Adirs
            /\ pc' = Notified
        BY <1>8, <2>1, <2>2, addRemovalEffect DEF webRemove
      <3>2. Working' /\ pc' \in ThreadStates /\ RescansHaveAdir'
        BY <1>8, <3>1, NotifiedWorks, QueuesGrow DEF webRemove
      <3>3. TypeOK'
        BY <1>8, <1>a, <2>2, <3>1, <3>2 DEF webRemove, TypeOK
      <3> QED BY <3>2, <3>3 DEF TInv
    <2>3. CASE ~all
      <3>1. known' \in SUBSET Dirs /\ stale' \in SUBSET (1..MaxTaskID) /\ gone' \in SUBSET Adirs
        BY <1>a, <1>8, <2>1, <2>3, deleteObjectEffect DEF webRemove
      <3>2. Working' /\ RescansHaveAdir'
        BY <1>8, <2>3, NotifiedWorks, QueuesStay DEF webRemove
      <3>3. TypeOK'
        BY <1>8, <1>a, <2>3, <3>1 DEF webRemove, TypeOK
      <3> QED BY <3>2, <3>3 DEF TInv
    <2> QED BY <2>2, <2>3
  <1> QED BY <1>1, <1>2, <1>3, <1>4, <1>5, <1>6, <1>7, <1>8 DEF Calls

LEMMA NextTInv == TInv /\ [Next]_vars => TInv'
  <1> SUFFICES ASSUME TInv, [Next]_vars PROVE TInv'
    OBVIOUS
  <1>1. ASSUME shutdown \/ joinInotify \/ useDestroyed PROVE TInv'
    <2>1. /\ pc' \in {pc, Notified, "crashed"}
          /\ stopping' \in {"no", "failed", "joining", "flagged"}
          /\ UNCHANGED <<queues, currentTask, next>>
      BY <1>1 DEF shutdown, joinInotify, useDestroyed, goto, TInv, TypeOK
    <2>2. Working' /\ pc' \in ThreadStates /\ RescansHaveAdir'
      BY <2>1, NotifiedWorks, QueuesStay
    <2>3. TypeOK'
      BY <1>1, <2>1, <2>2 DEF shutdown, joinInotify, useDestroyed, TInv, TypeOK
    <2> QED BY <2>2, <2>3 DEF TInv
  <1>2. CASE UNCHANGED vars
    <2>1. Working' /\ RescansHaveAdir'
      BY <1>2, NotifiedWorks, QueuesStay DEF vars
    <2>2. TypeOK'
      BY <1>2 DEF vars, TInv, TypeOK
    <2> QED BY <2>1, <2>2 DEF TInv
  <1> QED BY <1>1, <1>2, ThreadTInv, CallsTInv, callStepTInv DEF Next

(* Every variable of the task queue keeps its type.                        *)
THEOREM TypeCorrect == Spec => []TypeOK
  <1>1. TInv => TypeOK
    BY DEF TInv
  <1> QED BY <1>1, InitTInv, NextTInv, PTL DEF Spec

-----------------------------------------------------------------------------
(* Removals.  The argument for NoAddBelowRemoval: once a path is unlisted  *)
(* (Forgotten) no rescan of an autoscan directory below it begins to add a *)
(* task, because addSubDirectory looks again under the mutex; once its     *)
(* tasks are invalidated as well (Purged) none is left, in the queues or on*)
(* its way into them.                                                      *)
Spared(a, path) == a \in Persistent \/ ~isSubDir(Location[a], path)
Forgotten(path) == \A a \in listed : Spared(a, path)
Purged(path) ==
    /\ pc = "countAdd" => Spared(adir, path)
    /\ \A t \in Queued :
          t.type = "AddFile" /\ isSubDir(t.path, path) /\ t.parentID # 0 /\ t.id \notin invalid
              => Spared(t.adir, path)
Unlisted(c, path) == call[c].stage \in RemoveStages /\ call[c].path = path
Cleaned(c, path) == call[c].stage \in {"enqueue", "delete"} /\ call[c].path = path
InTask(path) ==
    \E t \in taskQueue1 : t.type = "RemoveObject" /\ t.cleans /\ t.path = path
RemovalsClean ==
    \A path \in Dirs :
        /\ \A c \in Threads : Unlisted(c, path) => Forgotten(path)
        /\ \A c \in Threads : Cleaned(c, path) => Purged(path)
        /\ InTask(path) => Forgotten(path) /\ Purged(path)

(* A new valid task is an old one, or it has the next id and comes from a  *)
(* caller or from a rescan that is at countAdd, which it reached while its *)
(* directory was listed.                                                   *)
QueueGrows ==
    /\ listed' \subseteq listed
    /\ taskID <= taskID'
    /\ \A t \in Queued' :
          t.type = "AddFile" /\ t.id \notin invalid' =>
              \/ t \in Queued /\ t.id \notin invalid
              \/ t.id = taskID /\ (t.parentID = 0 \/ (pc = "countAdd" /\ t.adir = adir))
    /\ pc' = "countAdd" => currentTask' = currentTask /\ (pc = "countAdd" \/ adir \in listed)

LEMMA addTaskGrows ==
  ASSUME TInv, NEW type \in TaskTypes, NEW path, NEW a, NEW parentID, NEW cleans,
         NEW low \in BOOLEAN, NEW state,
         addTask(NewTask(type, path, a, parentID, cleans), low, state),
         parentID = 0 \/ (pc = "countAdd" /\ a = adir),
         state = "countAdd" => pc = "countAdd",
         UNCHANGED <<invalid, listed, currentTask>>
  PROVE  QueueGrows
  <1>1. taskID \in Nat /\ taskID' = taskID + 1 /\ pc' = state
    BY BoundAssumption DEF addTask, TInv, TypeOK
  <1>2. Queued' = Queued \cup {NewTask(type, path, a, parentID, cleans)}
    BY DEF addTask, Queued
  <1> QED BY <1>1, <1>2 DEF QueueGrows, NewTask

LEMMA QueueStays ==
  ASSUME TInv, UNCHANGED <<queues, currentTask>>, listed' \subseteq listed,
         invalid \subseteq invalid',
         pc' = "countAdd" => pc = "countAdd" \/ adir \in listed
  PROVE  QueueGrows
  <1>1. taskID \in Nat
    BY BoundAssumption DEF TInv, TypeOK
  <1> QED BY <1>1 DEF QueueGrows, Queued

LEMMA QueueStep == TInv /\ [Next]_vars => QueueGrows
  <1> SUFFICES ASSUME TInv, [Next]_vars PROVE QueueGrows
    OBVIOUS
  <1>a. taskID \in Nat
    BY BoundAssumption DEF TInv, TypeOK
  <1>b. /\ "AddFile" \in TaskTypes /\ "RescanDirectory" \in TaskTypes
        /\ "RemoveObject" \in TaskTypes
        /\ TRUE \in BOOLEAN /\ FALSE \in BOOLEAN
    BY DEF TaskTypes
  <1>n. Notified = "countAdd" => pc = "countAdd"
    BY DEF Notified
  <1>1. CASE fetch
    BY <1>1, <1>a DEF fetch, goto, QueueGrows, Queued, IdsOf, Front
  <1>2. CASE pushRescan
    <2>1. addTask(NewTask("RescanDirectory", next, adir, 0, FALSE), TRUE, "scan")
      BY <1>2 DEF pushRescan, spawn
    <2>2. UNCHANGED <<invalid, listed, currentTask>>
      BY <1>2 DEF pushRescan
    <2>3. "scan" = "countAdd" => pc = "countAdd"
      OBVIOUS
    <2>4. 0 = 0 \/ (pc = "countAdd" /\ adir = adir)
      OBVIOUS
    <2> QED BY <1>b, <2>1, <2>2, <2>3, <2>4, addTaskGrows, Zenon
  <1>3. CASE countAdd
    <2>1. addTask(NewTask("AddFile", next, adir, currentTask.id, FALSE), TRUE, "scan")
      BY <1>3 DEF countAdd, spawn
    <2> QED BY <1>3, <1>b, <2>1, addTaskGrows DEF countAdd
  <1>4. CASE addSubDirectory
    <2>1. pc' = "countAdd" => adir \in listed
      BY <1>4 DEF addSubDirectory, loadOrEnd, StillListed, goto
    <2> QED BY <1>4, <2>1, QueueStays DEF addSubDirectory
  <1>5. CASE addRescan \/ countRescan \/ finish \/ countDone
    <2>1. pc' # "countAdd"
      BY <1>5 DEF addRescan, countRescan, finish, countDone, loadOrEnd, goto
    <2> QED BY <1>5, <2>1, QueueStays DEF addRescan, countRescan, finish, countDone
  <1>6. CASE runTask \/ runRescan \/ scan
    <2>1. pc' # "countAdd"
      BY <1>6 DEF runTask, CleansFirst, runRescan, scan, goto
    <2> QED BY <1>6, <2>1, QueueStays DEF runTask, runRescan, scan
  <1>7. CASE import \/ fail \/ findAutoscanDirectory \/ unlist \/ invalidate \/ delete
    <2>1. pc' # "countAdd"
      BY <1>7 DEF import, fail, findAutoscanDirectory, unlist, invalidate, delete, goto
    <2> QED BY <1>7, <2>1, QueueStays DEF import, fail, findAutoscanDirectory, unlist,
                  invalidate, invalidateAddTasks, delete
  <1>8. ASSUME NEW x \in Threads, callStep(x) PROVE QueueGrows
    <2>1. CASE pushTask(x)
      <3>1. call[x].type \in TaskTypes /\ call[x].lowPriority \in BOOLEAN
        BY <2>1, CallType DEF TInv, pushTask, AddStages
      <3>2. addTask(NewTask(call[x].type, call[x].path, call[x].adir, 0, FALSE),
                    call[x].lowPriority, Notified)
        BY <2>1 DEF pushTask
      <3> QED BY <1>n, <2>1, <3>1, <3>2, addTaskGrows DEF pushTask
    <2>2. CASE removeEnqueue(x)
      BY <1>b, <1>n, <2>2, addTaskGrows DEF removeEnqueue
    <2>3. CASE loadCount(x) \/ storeCount(x) \/ removeInvalidate(x) \/ removeDelete(x)
      BY <2>3, QueueStays DEF loadCount, storeCount, removeInvalidate, invalidateAddTasks,
                              removeDelete
    <2> QED BY <1>8, <2>1, <2>2, <2>3 DEF callStep
  <1>9. ASSUME Calls PROVE QueueGrows
    <2>1. ASSUME NEW f \in Added, webAdd(f.path, f.lowPriority) PROVE QueueGrows
      <3>1. f.lowPriority \in BOOLEAN
        BY CallsAssumption
      <3> QED BY <1>b, <1>n, <2>1, <3>1, addTaskGrows DEF webAdd
    <2>2. ASSUME NEW d \in Removed, NEW all \in BOOLEAN, webRemove(d, all) PROVE QueueGrows
      <3>1. CASE all
        BY <1>b, <1>n, <2>2, <3>1, addTaskGrows DEF webRemove
      <3>2. CASE ~all
        BY <2>2, <3>2, QueueStays DEF webRemove
      <3> QED BY <3>1, <3>2
    <2>3. ASSUME NEW a \in Adirs, timerNotify(a) \/ removeAutoscanDirectory(a)
          PROVE  QueueGrows
      BY <2>3, QueueStays DEF timerNotify, removeAutoscanDirectory
    <2>4. ASSUME NEW c \in Callers, NEW a \in Adirs, rescanDirectory(c, a) PROVE QueueGrows
      BY <2>4, QueueStays DEF rescanDirectory
    <2>5. ASSUME NEW c \in Callers, NEW f \in Added, addFile(c, f.path, f.adir, f.lowPriority)
          PROVE  QueueGrows
      BY <2>5, QueueStays DEF addFile
    <2>6. ASSUME NEW t \in Outstanding, invalidateTask(t.id) PROVE QueueGrows
      BY <2>6, QueueStays DEF invalidateTask
    <2>7. ASSUME NEW c \in Callers, NEW d \in Removed, NEW async \in BOOLEAN,
                 removeUnlist(c, d, async)
          PROVE  QueueGrows
      BY <2>7, QueueStays DEF removeUnlist, goto
    <2> QED BY <1>9, <2>1, <2>2, <2>3, <2>4, <2>5, <2>6, <2>7 DEF Calls
  <1>10. CASE shutdown \/ joinInotify \/ useDestroyed \/ UNCHANGED vars
    BY <1>n, <1>10, QueueStays DEF shutdown, joinInotify, useDestroyed, goto, vars
  <1> QED BY <1>1, <1>2, <1>3, <1>4, <1>5, <1>6, <1>7, <1>8, <1>9, <1>10
          DEF Next, threadProc

(* What a path has reached it keeps.                                       *)
LEMMA StaysForgotten ==
  ASSUME QueueGrows, NEW path, Forgotten(path)
  PROVE  Forgotten(path)'
  BY DEF QueueGrows, Forgotten, Spared

LEMMA StaysPurged ==
  ASSUME QueueGrows, NEW path, Forgotten(path), Purged(path)
  PROVE  Purged(path)'
  <1>1. ASSUME pc' = "countAdd" PROVE Spared(adir, path)'
    BY <1>1 DEF QueueGrows, Forgotten, Purged, Spared, adir
  <1>2. ASSUME NEW t \in Queued', t.type = "AddFile", isSubDir(t.path, path),
               t.parentID # 0, t.id \notin invalid'
        PROVE  Spared(t.adir, path)
    <2>1. CASE t \in Queued /\ t.id \notin invalid
      BY <1>2, <2>1 DEF Purged
    <2>2. CASE pc = "countAdd" /\ t.adir = adir
      BY <2>2 DEF Purged
    <2> QED BY <1>2, <2>1, <2>2 DEF QueueGrows
  <1> QED BY <1>1, <1>2 DEF Purged, Spared

(* How a path becomes unlisted, cleaned, or the path of a removal task.    *)
Removes(c) ==
    \/ removeInvalidate(c)
    \/ /\ \E d \in Removed, async \in BOOLEAN : removeUnlist(c, d, async)
       /\ ~NoList

LEMMA CallStep ==
  ASSUME TInv, [Next]_vars, NEW c \in Threads
  PROVE  \/ call'[c] = call[c] \/ call'[c].stage \notin RemoveStages
         \/ Removes(c)
  <1>t. /\ call \in [Threads -> {Idle} \cup AddCalls \cup RemoveCalls]
        /\ Timer \in Threads /\ Callers \subseteq Threads
    BY DEF TInv, TypeOK, Threads
  <1>i. Idle.stage \notin RemoveStages
    BY DEF Idle, RemoveStages
  <1>j. "store" \notin RemoveStages /\ "load" \notin RemoveStages /\ "push" \notin RemoveStages
    BY DEF RemoveStages
  <1>1. ASSUME NEW x \in Threads, callStep(x)
        PROVE  \/ call'[c] = call[c] \/ call'[c].stage \notin RemoveStages \/ Removes(c)
    <2>1. CASE removeInvalidate(x)
      BY <1>t, <2>1 DEF removeInvalidate, Removes
    <2>2. CASE pushTask(x) \/ removeEnqueue(x) \/ removeDelete(x)
      BY <1>t, <1>i, <2>2 DEF pushTask, removeEnqueue, removeDelete
    <2>3. CASE loadCount(x) \/ storeCount(x)
      <3>1. call[x] \in AddCalls
        BY <2>3, CallType DEF TInv, loadCount, storeCount, AddStages
      <3>2. call'[x].stage \in {"store", "push"}
        BY <1>t, <2>3, <3>1 DEF loadCount, storeCount, AddCalls
      <3>3. c # x => call'[c] = call[c]
        BY <1>t, <2>3 DEF loadCount, storeCount
      <3> QED BY <1>j, <3>2, <3>3
    <2> QED BY <1>1, <2>1, <2>2, <2>3 DEF callStep
  <1>2. ASSUME NEW x \in Callers, NEW d \in Removed, NEW async \in BOOLEAN,
               removeUnlist(x, d, async)
        PROVE  call'[c] = call[c] \/ Removes(c)
    BY <1>t, <1>2 DEF removeUnlist, Removes
  <1>3. ASSUME NEW x \in Threads, NEW stage \in {"load", "store"}, NEW type, NEW path, NEW a,
               NEW low, NEW n, call' = [call EXCEPT ![x] = Adding(stage, type, path, a, low, n)]
        PROVE  call'[c] = call[c] \/ call'[c].stage \notin RemoveStages
    <2>1. Adding(stage, type, path, a, low, n).stage = stage
      BY DEF Adding
    <2>2. c # x => call'[c] = call[c]
      BY <1>t, <1>3
    <2>3. c = x => call'[c] = Adding(stage, type, path, a, low, n)
      BY <1>t, <1>3
    <2> QED BY <1>j, <2>1, <2>2, <2>3
  <1>4. ASSUME NEW a \in Adirs, timerNotify(a)
        PROVE  call'[c] = call[c] \/ call'[c].stage \notin RemoveStages
    BY <1>t, <1>3, <1>4 DEF timerNotify
  <1>5. ASSUME NEW x \in Callers, NEW a \in Adirs, rescanDirectory(x, a)
        PROVE  call'[c] = call[c] \/ call'[c].stage \notin RemoveStages
    BY <1>t, <1>3, <1>5 DEF rescanDirectory
  <1>6. ASSUME NEW x \in Callers, NEW f \in Added, addFile(x, f.path, f.adir, f.lowPriority)
        PROVE  call'[c] = call[c] \/ call'[c].stage \notin RemoveStages
    BY <1>t, <1>3, <1>6 DEF addFile
  <1>7. ASSUME threadProc PROVE UNCHANGED call
    BY <1>7 DEF threadProc, fetch, runTask, runRescan, scan, addRescan, countRescan, pushRescan,
                addSubDirectory, countAdd, import, fail, findAutoscanDirectory, unlist,
                invalidate, delete, finish, countDone
  <1>8. ASSUME NEW a \in Adirs, removeAutoscanDirectory(a) PROVE UNCHANGED call
    BY <1>8 DEF removeAutoscanDirectory
  <1>9. ASSUME NEW f \in Added, webAdd(f.path, f.lowPriority) PROVE UNCHANGED call
    BY <1>9 DEF webAdd
  <1>10. ASSUME NEW t \in Outstanding, invalidateTask(t.id) PROVE UNCHANGED call
    BY <1>10 DEF invalidateTask
  <1>11. ASSUME NEW d \in Removed, NEW all \in BOOLEAN, webRemove(d, all) PROVE UNCHANGED call
    BY <1>11 DEF webRemove
  <1>12. CASE shutdown \/ joinInotify \/ useDestroyed \/ UNCHANGED vars
    BY <1>12 DEF shutdown, joinInotify, useDestroyed, vars
  <1> QED BY <1>1, <1>2, <1>4, <1>5, <1>6, <1>7, <1>8, <1>9, <1>10, <1>11, <1>12
          DEF Next, Calls

LEMMA CallerStep ==
  ASSUME TInv, [Next]_vars, RemovalsClean, QueueGrows, NEW c \in Threads, NEW path \in Dirs
  PROVE  /\ Unlisted(c, path)' => Forgotten(path)'
         /\ Cleaned(c, path)' => Purged(path)'
  <1>t. call \in [Threads -> {Idle} \cup AddCalls \cup RemoveCalls]
    BY DEF TInv, TypeOK
  <1>1. CASE call'[c] = call[c]
    <2>1. Unlisted(c, path)' => Unlisted(c, path)
      BY <1>1 DEF Unlisted
    <2>2. Cleaned(c, path)' => Cleaned(c, path) /\ Unlisted(c, path)
      BY <1>1 DEF Cleaned, Unlisted, RemoveStages
    <2> QED BY <2>1, <2>2, StaysForgotten, StaysPurged DEF RemovalsClean
  <1>2. CASE call'[c].stage \notin RemoveStages
    BY <1>2 DEF Unlisted, Cleaned, RemoveStages
  <1>3. ASSUME NEW d \in Removed, NEW async \in BOOLEAN, removeUnlist(c, d, async), ~NoList
        PROVE  ~Cleaned(c, path)' /\ (Unlisted(c, path)' => Forgotten(path)')
    <2>1. call'[c] = [stage |-> "unlisted", path |-> d, async |-> async]
      BY <1>3, <1>t DEF removeUnlist, Removing
    <2>2. listed' = listed \ RemovedWith(d)
      BY <1>3 DEF removeUnlist
    <2>3. Unlisted(c, path)' => path = d
      BY <2>1 DEF Unlisted
    <2> QED BY <2>1, <2>2, <2>3 DEF Forgotten, Spared, RemovedWith, Cleaned
  <1>4. CASE removeInvalidate(c)
    <2>1. call[c] \in RemoveCalls /\ call[c].stage = "unlisted"
      BY <1>4, CallType DEF TInv, removeInvalidate, RemoveStages
    <2>2. call'[c].path = call[c].path
      BY <1>4, <1>t, <2>1 DEF removeInvalidate, RemoveCalls
    <2>3. Unlisted(c, path)' => Unlisted(c, path)
      BY <2>1, <2>2 DEF Unlisted, RemoveStages
    <2>4. Cleaned(c, path)' => Purged(path)'
      <3>1. Cleaned(c, path)' => call[c].path = path
        BY <2>2 DEF Cleaned
      <3>2. pc' # "countAdd"
        BY <1>4 DEF removeInvalidate, MutexFree
      <3> QED BY <1>4, <3>1, <3>2 DEF removeInvalidate, invalidateAddTasks, AddTasksBelow, Purged,
                                Outstanding, Queued
    <2> QED BY <2>3, <2>4, StaysForgotten DEF RemovalsClean
  <1> QED BY <1>1, <1>2, <1>3, <1>4, CallStep DEF Removes

LEMMA TaskStep ==
  ASSUME TInv, [Next]_vars, NEW path \in Dirs, InTask(path)'
  PROVE  InTask(path) \/ \E c \in Threads : Cleaned(c, path)
  <1> DEFINE Others ==
        \A t \in taskQueue1' : t \in taskQueue1 \/ t.type # "RemoveObject" \/ ~t.cleans
  <1>a. Others => InTask(path)
    BY DEF InTask
  <1>1. ASSUME NEW type, NEW p, NEW a, NEW parentID, NEW low \in BOOLEAN, NEW state,
               addTask(NewTask(type, p, a, parentID, FALSE), low, state)
        PROVE  Others
    BY <1>1 DEF addTask, NewTask
  <1>s. ASSUME UNCHANGED taskQueue1 PROVE Others
    BY <1>s
  <1> HIDE DEF Others
  <1>2. ASSUME threadProc PROVE Others
    <2>1. CASE fetch
      BY <2>1 DEF fetch, Others
    <2>2. CASE pushRescan \/ countAdd
      BY <1>1, <2>2 DEF pushRescan, countAdd, spawn
    <2>3. CASE runTask \/ runRescan \/ scan \/ import \/ fail \/ finish \/ unlist
               \/ invalidate \/ delete
      BY <1>s, <2>3 DEF runTask, runRescan, scan, import, fail, finish, unlist, invalidate,
                  delete
    <2>4. CASE addRescan \/ countRescan \/ addSubDirectory \/ findAutoscanDirectory \/ countDone
      BY <1>s, <2>4 DEF addRescan, countRescan, addSubDirectory, findAutoscanDirectory, countDone
    <2> QED BY <1>2, <2>1, <2>2, <2>3, <2>4 DEF threadProc
  <1>3. ASSUME NEW c \in Callers, NEW a \in Adirs, rescanDirectory(c, a) PROVE Others
    BY <1>s, <1>3 DEF rescanDirectory
  <1>4. ASSUME NEW a \in Adirs, timerNotify(a) \/ removeAutoscanDirectory(a) PROVE Others
    BY <1>s, <1>4 DEF timerNotify, removeAutoscanDirectory
  <1>5. ASSUME NEW c \in Callers, NEW f \in Added, addFile(c, f.path, f.adir, f.lowPriority)
        PROVE  Others
    BY <1>s, <1>5 DEF addFile
  <1>6. ASSUME NEW t \in Outstanding, invalidateTask(t.id) PROVE Others
    BY <1>s, <1>6 DEF invalidateTask
  <1>7. ASSUME NEW c \in Callers, NEW d \in Removed, NEW async \in BOOLEAN,
               removeUnlist(c, d, async)
        PROVE  Others
    BY <1>s, <1>7 DEF removeUnlist
  <1>8. ASSUME NEW d \in Removed, NEW all \in BOOLEAN, webRemove(d, all) PROVE Others
    BY <1>1, <1>s, <1>8 DEF webRemove
  <1>9. ASSUME NEW f \in Added, webAdd(f.path, f.lowPriority) PROVE Others
    BY <1>1, <1>9, CallsAssumption DEF webAdd
  <1>10. ASSUME NEW x \in Threads, callStep(x)
         PROVE  Others \/ Cleaned(x, path) \/ InTask(path)
    <2>1. CASE removeEnqueue(x)
      <3>1. taskQueue1' = taskQueue1 \cup {NewTask("RemoveObject", call[x].path, NoAdir, 0, TRUE)}
        BY <2>1 DEF removeEnqueue, addTask
      <3> QED BY <2>1, <3>1 DEF removeEnqueue, InTask, Cleaned, NewTask
    <2>2. CASE pushTask(x)
      <3>1. call[x].lowPriority \in BOOLEAN
        BY <2>2, CallType DEF TInv, pushTask, AddStages
      <3> QED BY <1>1, <2>2, <3>1 DEF pushTask
    <2>3. CASE loadCount(x) \/ storeCount(x) \/ removeInvalidate(x) \/ removeDelete(x)
      BY <1>s, <2>3 DEF loadCount, storeCount, removeInvalidate, removeDelete
    <2> QED BY <1>10, <2>1, <2>2, <2>3 DEF callStep
  <1>11. ASSUME shutdown \/ joinInotify \/ useDestroyed \/ UNCHANGED vars PROVE Others
    BY <1>s, <1>11 DEF shutdown, joinInotify, useDestroyed, vars
  <1> QED BY <1>a, <1>2, <1>3, <1>4, <1>5, <1>6, <1>7, <1>8, <1>9, <1>10, <1>11
          DEF Next, Calls

LEMMA NextClean == TInv /\ RemovalsClean /\ [Next]_vars => RemovalsClean'
  <1> SUFFICES ASSUME TInv, RemovalsClean, [Next]_vars, NEW path \in Dirs
               PROVE  /\ \A c \in Threads : Unlisted(c, path)' => Forgotten(path)'
                      /\ \A c \in Threads : Cleaned(c, path)' => Purged(path)'
                      /\ InTask(path)' => Forgotten(path)' /\ Purged(path)'
    BY DEF RemovalsClean
  <1>1. QueueGrows
    BY QueueStep
  <1>2. ASSUME NEW c \in Threads
        PROVE  /\ Unlisted(c, path)' => Forgotten(path)'
               /\ Cleaned(c, path)' => Purged(path)'
    BY <1>1, CallerStep
  <1>3. ASSUME InTask(path)' PROVE Forgotten(path)' /\ Purged(path)'
    <2>1. Forgotten(path) /\ Purged(path)
      <3>1. CASE InTask(path)
        BY <3>1 DEF RemovalsClean
      <3>2. ASSUME NEW c \in Threads, Cleaned(c, path) PROVE Forgotten(path) /\ Purged(path)
        <4>1. Unlisted(c, path)
          BY <3>2 DEF Cleaned, Unlisted, RemoveStages
        <4> QED BY <3>2, <4>1 DEF RemovalsClean
      <3> QED BY <1>3, <3>1, <3>2, TaskStep
    <2> QED BY <1>1, <2>1, StaysForgotten, StaysPurged
  <1> QED BY <1>2, <1>3

(* While a removal is pending no rescan of an autoscan directory that goes *)
(* away with it has a valid add task below the removed path.               *)
THEOREM NoAddBelow == Spec => []NoAddBelowRemoval
  <1>1. Init => RemovalsClean
    BY DEF Init, RemovalsClean, Unlisted, Cleaned, InTask, Idle, RemoveStages
  <1>2. TInv /\ RemovalsClean => NoAddBelowRemoval
    <2> SUFFICES ASSUME TInv, RemovalsClean, NEW path \in PendingRemovals,
                        NEW t \in SpawnedBelow(path)
                 PROVE  t.adir \in Persistent \/ ~isSubDir(Location[t.adir], path)
      BY DEF NoAddBelowRemoval
    <2>1. path \in Dirs /\ Purged(path)
      <3>1. ASSUME NEW c \in Threads, call[c].stage \in {"enqueue", "delete"}, call[c].path = path
            PROVE  path \in Dirs /\ Purged(path)
        <4>1. path \in Dirs
          BY <3>1, CallType DEF TInv, RemoveStages
        <4> QED BY <3>1, <4>1 DEF RemovalsClean, Cleaned
      <3>2. CASE InTask(path)
        <4>1. path \in Dirs
          BY <3>2 DEF InTask, TInv, TypeOK, Tasks
        <4> QED BY <3>2, <4>1 DEF RemovalsClean
      <3> QED BY <3>1, <3>2 DEF PendingRemovals, InTask
    <2> QED BY <2>1 DEF SpawnedBelow, AddTasksBelow, Purged, Spared
  <1> QED BY <1>1, <1>2, InitTInv, NextTInv, NextClean, PTL DEF Spec

-----------------------------------------------------------------------------
(* RemovedStaysRemoved: what the thread sweeps in its own cleanupTasks     *)
(* stays swept, because every later task has a greater id.                 *)
Swept(id, path) ==
    \A t \in Queued : t.type = "AddFile" /\ t.id < id /\ isSubDir(t.path, path) => t.id \in invalid
IdsGrow == \A t \in Outstanding : t.id < taskID
RInv ==
    /\ IdsGrow
    /\ pc = "delete" /\ currentTask.cleans => Swept(currentTask.id, currentTask.path)
    /\ \A r \in removals : r.id < taskID /\ Swept(r.id, r.path)

Moves ==
    /\ pc' = "delete" => \/ pc = "delete" /\ currentTask' = currentTask
                         \/ invalidate
                         \/ runTask /\ ~currentTask.cleans
    /\ removals' = removals \/ delete
    /\ \A t \in Outstanding' : t \in Outstanding \/ (t.id = taskID /\ taskID' = taskID + 1)

LEMMA addTaskMoves ==
  ASSUME TInv, NEW type, NEW path, NEW a, NEW parentID, NEW cleans,
         NEW low \in BOOLEAN, NEW state,
         addTask(NewTask(type, path, a, parentID, cleans), low, state),
         state = "delete" => pc = "delete",
         UNCHANGED <<currentTask, removals>>
  PROVE  Moves
  <1>1. Outstanding' = Outstanding \cup {NewTask(type, path, a, parentID, cleans)}
    BY DEF addTask, Outstanding, Queued
  <1>2. taskID' = taskID + 1 /\ pc' = state
    BY DEF addTask
  <1>3. NewTask(type, path, a, parentID, cleans).id = taskID
    BY DEF NewTask
  <1> QED BY <1>1, <1>2, <1>3 DEF Moves

LEMMA StaysPut ==
  ASSUME UNCHANGED <<queues, currentTask, removals>>, pc' = "delete" => pc = "delete"
  PROVE  Moves
  BY DEF Moves, Outstanding, Queued

LEMMA MovesStep == TInv /\ [Next]_vars => Moves
  <1> SUFFICES ASSUME TInv, [Next]_vars PROVE Moves
    OBVIOUS
  <1>n. Notified = "delete" => pc = "delete"
    BY DEF Notified
  <1>b. TRUE \in BOOLEAN /\ FALSE \in BOOLEAN
    OBVIOUS
  <1>1. ASSUME threadProc PROVE Moves
    <2>1. CASE fetch
      BY <2>1 DEF fetch, goto, Front, Moves, Outstanding, Queued
    <2>2. CASE runTask
      BY <2>2 DEF runTask, CleansFirst, goto, Moves, Outstanding, Queued
    <2>3. CASE pushRescan \/ countAdd
      <3>1. UNCHANGED <<currentTask, removals>>
        BY <2>3 DEF pushRescan, countAdd
      <3>2. PICK type, parentID :
                addTask(NewTask(type, next, adir, parentID, FALSE), TRUE, "scan")
        BY <2>3 DEF pushRescan, countAdd, spawn
      <3>3. "scan" = "delete" => pc = "delete"
        OBVIOUS
      <3> QED BY <1>b, <3>1, <3>2, <3>3, addTaskMoves
    <2>4. CASE runRescan \/ scan \/ addRescan \/ countRescan \/ addSubDirectory
      BY <2>4, StaysPut DEF runRescan, scan, addRescan, countRescan, addSubDirectory, loadOrEnd, goto
    <2>5. CASE import \/ fail \/ findAutoscanDirectory \/ unlist \/ finish \/ countDone
      BY <2>5, StaysPut DEF import, fail, findAutoscanDirectory, unlist, finish, countDone, goto
    <2>6. CASE invalidate \/ delete
      BY <2>6 DEF invalidate, delete, goto, Moves, Outstanding, Queued
    <2> QED BY <1>1, <2>1, <2>2, <2>3, <2>4, <2>5, <2>6 DEF threadProc
  <1>2. ASSUME NEW c \in Callers, NEW a \in Adirs, rescanDirectory(c, a) PROVE Moves
    BY <1>2, StaysPut DEF rescanDirectory
  <1>3. ASSUME NEW a \in Adirs, timerNotify(a) \/ removeAutoscanDirectory(a) PROVE Moves
    BY <1>3, StaysPut DEF timerNotify, removeAutoscanDirectory
  <1>4. ASSUME NEW c \in Callers, NEW f \in Added, addFile(c, f.path, f.adir, f.lowPriority)
        PROVE  Moves
    BY <1>4, StaysPut DEF addFile
  <1>5. ASSUME NEW f \in Added, webAdd(f.path, f.lowPriority) PROVE Moves
    <2>1. f.lowPriority \in BOOLEAN
      BY CallsAssumption
    <2>2. /\ addTask(NewTask("AddFile", f.path, NoAdir, 0, FALSE), f.lowPriority, Notified)
          /\ UNCHANGED <<currentTask, removals>>
      BY <1>5 DEF webAdd
    <2> QED BY <1>n, <2>1, <2>2, addTaskMoves
  <1>6. ASSUME NEW t \in Outstanding, invalidateTask(t.id) PROVE Moves
    BY <1>6, StaysPut DEF invalidateTask
  <1>7. ASSUME NEW c \in Callers, NEW d \in Removed, NEW async \in BOOLEAN,
               removeUnlist(c, d, async)
        PROVE  Moves
    BY <1>7, StaysPut DEF removeUnlist, goto
  <1>8. ASSUME NEW d \in Removed, NEW all \in BOOLEAN, webRemove(d, all) PROVE Moves
    <2>1. CASE all
      BY <1>b, <1>n, <1>8, <2>1, addTaskMoves DEF webRemove
    <2>2. CASE ~all
      BY <1>8, <2>2, StaysPut DEF webRemove
    <2> QED BY <2>1, <2>2
  <1>9. ASSUME NEW x \in Threads, callStep(x) PROVE Moves
    <2>1. CASE removeEnqueue(x)
      BY <1>b, <1>n, <2>1, addTaskMoves DEF removeEnqueue
    <2>2. CASE pushTask(x)
      <3>1. call[x].lowPriority \in BOOLEAN
        BY <2>2, CallType DEF TInv, pushTask, AddStages
      <3> QED BY <1>n, <2>2, <3>1, addTaskMoves DEF pushTask
    <2>3. CASE loadCount(x) \/ storeCount(x) \/ removeInvalidate(x) \/ removeDelete(x)
      BY <2>3, StaysPut DEF loadCount, storeCount, removeInvalidate, removeDelete
    <2> QED BY <1>9, <2>1, <2>2, <2>3 DEF callStep
  <1>10. ASSUME shutdown \/ joinInotify \/ useDestroyed \/ UNCHANGED vars PROVE Moves
    BY <1>n, <1>10, StaysPut DEF shutdown, joinInotify, useDestroyed, goto, vars
  <1> QED BY <1>1, <1>2, <1>3, <1>4, <1>5, <1>6, <1>7, <1>8, <1>9, <1>10
          DEF Next, Calls

LEMMA StaysSwept ==
  ASSUME TInv, QueueGrows, NEW id \in Nat, NEW path, id <= taskID, Swept(id, path)
  PROVE  Swept(id, path)'
  <1> SUFFICES ASSUME NEW t \in Queued', t.type = "AddFile", t.id < id,
                      isSubDir(t.path, path), t.id \notin invalid'
               PROVE  FALSE
    BY DEF Swept
  <1>1. CASE t \in Queued /\ t.id \notin invalid
    BY <1>1 DEF Swept
  <1>2. CASE t.id = taskID
    BY <1>2, BoundAssumption DEF TInv, TypeOK
  <1> QED BY <1>1, <1>2 DEF QueueGrows

LEMMA NextRInv == TInv /\ RInv /\ [Next]_vars => RInv'
  <1> SUFFICES ASSUME TInv, RInv, [Next]_vars PROVE RInv'
    OBVIOUS
  <1>1. QueueGrows /\ Moves
    BY QueueStep, MovesStep
  <1>2. taskID \in Nat /\ taskID' \in Nat /\ taskID <= taskID'
    BY <1>1, NextTInv, BoundAssumption DEF TInv, TypeOK, QueueGrows
  <1>t. \A t \in Outstanding : t.id \in Nat
    BY DEF Outstanding, Queued, TInv, TypeOK, Tasks
  <1>3. IdsGrow'
    <2> SUFFICES ASSUME NEW t \in Outstanding' PROVE t.id < taskID'
      BY DEF IdsGrow
    <2> QED BY <1>1, <1>2, <1>t DEF Moves, RInv, IdsGrow
  <1>4. ASSUME pc' = "delete", currentTask'.cleans
        PROVE  Swept(currentTask.id, currentTask.path)'
    <2>1. CASE pc = "delete" /\ currentTask' = currentTask
      <3>1. PICK n, p : n = currentTask.id /\ p = currentTask.path
        OBVIOUS
      <3>2. currentTask \in Outstanding /\ n \in Nat /\ n <= taskID
        <4>1. currentTask \in Tasks /\ currentTask # NoTask
          BY <2>1 DEF TInv, Working, Tasks, NoTask
        <4>2. currentTask \in Outstanding
          BY <4>1 DEF Outstanding
        <4> QED BY <1>2, <1>t, <3>1, <4>2 DEF RInv, IdsGrow
      <3>3. Swept(n, p)'
        BY <1>1, <1>4, <2>1, <3>1, <3>2, StaysSwept DEF RInv
      <3> QED BY <2>1, <3>1, <3>3 DEF Swept
    <2>2. CASE invalidate
      BY <2>2 DEF invalidate, invalidateAddTasks, AddTasksBelow, Swept, Outstanding, Queued
    <2>3. CASE runTask /\ ~currentTask.cleans
      BY <1>4, <2>3 DEF runTask
    <2> QED BY <1>1, <1>4, <2>1, <2>2, <2>3 DEF Moves
  <1>5. ASSUME NEW r \in removals' PROVE r.id < taskID' /\ Swept(r.id, r.path)'
    <2>1. ASSUME NEW id \in Nat, NEW path, id < taskID, Swept(id, path)
          PROVE  id < taskID' /\ Swept(id, path)'
      BY <1>1, <1>2, <2>1, StaysSwept
    <2>2. CASE r \in removals
      <3>1. r.id \in Nat
        BY <2>2 DEF TInv, TypeOK
      <3> QED BY <2>1, <2>2, <3>1 DEF RInv
    <2>3. CASE delete /\ currentTask.cleans /\ r = [id |-> currentTask.id, path |-> currentTask.path]
      <3>1. currentTask \in Tasks /\ currentTask # NoTask /\ pc = "delete"
        BY <2>3 DEF delete, TInv, Working, Tasks, NoTask
      <3>2. r.id \in Nat /\ r.id < taskID
        BY <1>t, <2>3, <3>1 DEF RInv, IdsGrow, Outstanding
      <3>3. Swept(r.id, r.path)
        BY <2>3, <3>1 DEF RInv
      <3> QED BY <2>1, <3>2, <3>3
    <2> QED BY <1>1, <2>2, <2>3 DEF Moves, delete
  <1> QED BY <1>3, <1>4, <1>5 DEF RInv

(* After a removal task no older task is left that could bring the         *)
(* directory back.                                                         *)
THEOREM RemovalFinal == Spec => []RemovedStaysRemoved
  <1>1. Init => RInv
    BY DEF Init, RInv, IdsGrow, Outstanding, Queued
  <1>2. RInv => RemovedStaysRemoved
    BY DEF RInv, Swept, RemovedStaysRemoved
  <1> QED BY <1>1, <1>2, InitTInv, NextTInv, NextRInv, PTL DEF Spec

-----------------------------------------------------------------------------
(* TaskIdsUnique and CountNeverShort.  A step hands a new task to one queue*)
(* (Hands), takes one from a queue (fetch), or leaves the tasks where they *)
(* are (Rests).                                                            *)
Busy == pc \notin {"top", "wait", "stopped", "crashed"}

Hands ==
    \E t \in Tasks :
        /\ t.id = taskID /\ taskID' = taskID + 1
        /\ \/ taskQueue1' = taskQueue1 \cup {t} /\ taskQueue2' = taskQueue2
           \/ taskQueue1' = taskQueue1 /\ taskQueue2' = taskQueue2 \cup {t}
        /\ currentTask' = currentTask

Rests == UNCHANGED <<taskQueue1, taskQueue2, currentTask, taskID>>

LEMMA addTaskHands ==
  ASSUME TInv, NEW type \in TaskTypes, NEW path \in Dirs, NEW a \in Adirs \cup {NoAdir},
         NEW parentID \in 0..MaxTaskID, NEW cleans \in BOOLEAN, NEW low \in BOOLEAN,
         NEW state,
         addTask(NewTask(type, path, a, parentID, cleans), low, state),
         UNCHANGED currentTask
  PROVE  Hands
  <1> DEFINE t == NewTask(type, path, a, parentID, cleans)
  <1>1. taskID \in 1..MaxTaskID
    BY BoundAssumption DEF TInv, TypeOK, addTask
  <1>2. t \in Tasks
    BY <1>1, NewTaskType
  <1>3. t.id = taskID
    BY DEF NewTask
  <1>4. \/ taskQueue1' = taskQueue1 \cup {t} /\ taskQueue2' = taskQueue2
        \/ taskQueue1' = taskQueue1 /\ taskQueue2' = taskQueue2 \cup {t}
    BY DEF addTask
  <1>5. taskID' = taskID + 1
    BY DEF addTask
  <1> HIDE DEF t
  <1> QED BY <1>2, <1>3, <1>4, <1>5 DEF Hands

LEMMA TaskMoves == TInv /\ [Next]_vars => Hands \/ Rests \/ fetch
  <1> SUFFICES ASSUME TInv, [Next]_vars PROVE Hands \/ Rests \/ fetch
    OBVIOUS
  <1>a. TypeOK
    BY DEF TInv
  <1>b. /\ 0 \in 0..MaxTaskID /\ TRUE \in BOOLEAN /\ FALSE \in BOOLEAN
        /\ "AddFile" \in TaskTypes /\ "RemoveObject" \in TaskTypes
        /\ "RescanDirectory" \in TaskTypes /\ NoAdir \in Adirs \cup {NoAdir}
    BY BoundAssumption DEF TaskTypes
  <1>1. ASSUME threadProc PROVE Hands \/ Rests \/ fetch
    <2>1. CASE runTask \/ runRescan \/ scan \/ import \/ fail \/ unlist \/ invalidate \/ delete
      BY <2>1 DEF runTask, runRescan, scan, import, fail, unlist, invalidate, delete, Rests
    <2>2. CASE addRescan \/ countRescan \/ addSubDirectory \/ findAutoscanDirectory \/ finish
               \/ countDone
      BY <2>2 DEF addRescan, countRescan, addSubDirectory, findAutoscanDirectory, finish,
                  countDone, Rests
    <2>3. CASE pushRescan \/ countAdd
      <3>1. /\ currentTask \in Tasks /\ currentTask.type = "RescanDirectory" /\ next \in Dirs
            /\ UNCHANGED currentTask
        BY <2>3 DEF pushRescan, countAdd, TInv, Working, Rescanning
      <3>2. adir \in Adirs
        BY <3>1 DEF adir, Tasks, NoTask, TInv, RescansHaveAdir, Outstanding
      <3>3. currentTask.id \in 0..MaxTaskID
        BY <3>1, BoundAssumption DEF Tasks
      <3>4. PICK type \in TaskTypes, parentID \in 0..MaxTaskID :
                addTask(NewTask(type, next, adir, parentID, FALSE), TRUE, "scan")
        BY <1>b, <2>3, <3>3 DEF pushRescan, countAdd, spawn
      <3>5. adir \in Adirs \cup {NoAdir}
        BY <3>2
      <3> QED BY <1>b, <3>1, <3>4, <3>5, addTaskHands
    <2> QED BY <1>1, <2>1, <2>2, <2>3 DEF threadProc
  <1>2. ASSUME NEW c \in Callers, NEW a \in Adirs, rescanDirectory(c, a) PROVE Rests
    BY <1>2 DEF rescanDirectory, Rests
  <1>3. ASSUME NEW a \in Adirs, timerNotify(a) \/ removeAutoscanDirectory(a) PROVE Rests
    BY <1>3 DEF timerNotify, removeAutoscanDirectory, Rests
  <1>4. ASSUME NEW c \in Callers, NEW f \in Added, addFile(c, f.path, f.adir, f.lowPriority)
        PROVE  Rests
    BY <1>4 DEF addFile, Rests
  <1>5. ASSUME NEW f \in Added, webAdd(f.path, f.lowPriority) PROVE Hands
    <2>1. f.path \in Dirs /\ f.lowPriority \in BOOLEAN
      BY CallsAssumption
    <2> QED BY <1>5, <1>b, <2>1, addTaskHands DEF webAdd
  <1>6. ASSUME NEW t \in Outstanding, invalidateTask(t.id) PROVE Rests
    BY <1>6 DEF invalidateTask, Rests
  <1>7. ASSUME NEW c \in Callers, NEW d \in Removed, NEW async \in BOOLEAN,
               removeUnlist(c, d, async)
        PROVE  Rests
    BY <1>7 DEF removeUnlist, Rests
  <1>8. ASSUME NEW d \in Removed, NEW all \in BOOLEAN, webRemove(d, all) PROVE Hands \/ Rests
    <2>1. d \in Dirs
      BY CallsAssumption
    <2>2. CASE all
      BY <1>8, <1>b, <2>1, <2>2, addTaskHands DEF webRemove
    <2>3. CASE ~all
      BY <1>8, <2>3 DEF webRemove, Rests
    <2> QED BY <2>2, <2>3
  <1>9. ASSUME NEW x \in Threads, callStep(x) PROVE Hands \/ Rests
    <2>1. CASE removeEnqueue(x)
      <3>1. call[x].path \in Dirs
        BY <1>a, <2>1, CallType DEF removeEnqueue, RemoveStages
      <3> QED BY <1>b, <2>1, <3>1, addTaskHands DEF removeEnqueue
    <2>2. CASE pushTask(x)
      <3>1. /\ call[x].path \in Dirs /\ call[x].type \in TaskTypes
            /\ call[x].adir \in Adirs \cup {NoAdir} /\ call[x].lowPriority \in BOOLEAN
        BY <1>a, <2>2, CallType DEF pushTask, AddStages
      <3> QED BY <1>b, <2>2, <3>1, addTaskHands DEF pushTask
    <2>3. CASE loadCount(x) \/ storeCount(x) \/ removeInvalidate(x) \/ removeDelete(x)
      BY <2>3 DEF loadCount, storeCount, removeInvalidate, removeDelete, Rests
    <2> QED BY <1>9, <2>1, <2>2, <2>3 DEF callStep
  <1>10. ASSUME shutdown \/ joinInotify \/ useDestroyed \/ UNCHANGED vars PROVE Rests
    BY <1>10 DEF shutdown, joinInotify, useDestroyed, vars, Rests
  <1> QED BY <1>1, <1>2, <1>3, <1>4, <1>5, <1>6, <1>7, <1>8, <1>9, <1>10 DEF Next, Calls

LEMMA NextIds == TInv /\ TaskIdsUnique /\ (Hands \/ Rests \/ fetch) => TaskIdsUnique'
  <1> SUFFICES ASSUME TInv, TaskIdsUnique, Hands \/ Rests \/ fetch PROVE TaskIdsUnique'
    OBVIOUS
  <1>a. /\ Outstanding \subseteq Tasks
        /\ \A t \in Tasks : t.id \in Nat
        /\ taskID \in Nat
        /\ NoTask \notin Tasks
        /\ \A t \in Tasks : t # NoTask
    <2>1. \A t \in Tasks : t.id \in 1..MaxTaskID /\ t # NoTask
      BY DEF Tasks, NoTask
    <2>2. 1..MaxTaskID \subseteq Nat
      BY BoundAssumption
    <2>3. taskID \in Nat
      BY BoundAssumption DEF TInv, TypeOK
    <2> QED BY <2>1, <2>2, <2>3 DEF TInv, TypeOK, Outstanding, Queued
  <1>1. CASE Rests
    BY <1>1 DEF Rests, TaskIdsUnique, Outstanding, Queued
  <1>2. CASE Hands
    <2>1. PICK t \in Tasks :
              /\ t.id = taskID /\ taskID' = taskID + 1
              /\ \/ taskQueue1' = taskQueue1 \cup {t} /\ taskQueue2' = taskQueue2
                 \/ taskQueue1' = taskQueue1 /\ taskQueue2' = taskQueue2 \cup {t}
              /\ currentTask' = currentTask
      BY <1>2 DEF Hands
    <2>2. Outstanding' = Outstanding \cup {t}
      BY <2>1 DEF Outstanding, Queued
    <2>3. t \notin Outstanding
      BY <1>a, <2>1 DEF TaskIdsUnique
    <2>4. \A u, v \in Outstanding' : u.id = v.id => u = v
      BY <1>a, <2>1, <2>2 DEF TaskIdsUnique
    <2>5. \A u \in Outstanding' : u.id < taskID'
      BY <1>a, <2>1, <2>2 DEF TaskIdsUnique
    <2>6. (taskQueue1 \cap taskQueue2)' = {}
      BY <2>1, <2>3 DEF TaskIdsUnique, Outstanding, Queued
    <2>7. currentTask' \notin Queued'
      <3>1. currentTask # t
        BY <1>a, <2>1, <2>3 DEF Outstanding
      <3> QED BY <2>1, <3>1 DEF TaskIdsUnique, Queued
    <2> QED BY <2>4, <2>5, <2>6, <2>7 DEF TaskIdsUnique
  <1>3. CASE fetch
    <2>1. Outstanding' \subseteq Outstanding \cup {NoTask}
      BY <1>3 DEF fetch, Front, Outstanding, Queued
    <2>3. taskID' = taskID /\ taskQueue1' \subseteq taskQueue1 /\ taskQueue2' \subseteq taskQueue2
      BY <1>3 DEF fetch
    <2>2. Outstanding' \subseteq Outstanding
      <3>1. NoTask \notin Outstanding'
        BY <2>3, <1>a DEF Outstanding, Queued
      <3> QED BY <2>1, <3>1
    <2>4. currentTask' \notin Queued'
      <3>1. CASE currentTask' \in Front(taskQueue1) /\ taskQueue1' = taskQueue1 \ {currentTask'}
        BY <3>1, <2>3 DEF TaskIdsUnique, Queued, Front
      <3>2. CASE currentTask' \in Front(taskQueue2) /\ taskQueue2' = taskQueue2 \ {currentTask'}
        BY <3>2, <2>3 DEF TaskIdsUnique, Queued, Front
      <3>3. CASE currentTask' = NoTask
        BY <3>3, <2>3, <1>a DEF Queued, Outstanding
      <3>4. CASE UNCHANGED currentTask
        BY <3>4, <2>3 DEF TaskIdsUnique, Queued
      <3> QED BY <1>3, <3>1, <3>2, <3>3, <3>4 DEF fetch
    <2> QED BY <2>2, <2>3, <2>4 DEF TaskIdsUnique
  <1> QED BY <1>1, <1>2, <1>3

(* A listed directory owes its tasks, and those that were counted and not  *)
(* pushed yet: by a call, or by a rescan of the thread.  What was counted  *)
(* for it covers that.                                                     *)
CallsAhead(a) == {x \in Threads : call[x].stage = "push" /\ call[x].adir = a}
ThreadAhead(a) == pc = "pushRescan" /\ currentTask.adir = a
Debt(a) ==
    Cardinality(Counted(a)) + Cardinality(CallsAhead(a)) + (IF ThreadAhead(a) THEN 1 ELSE 0)
CInv ==
    /\ IsFiniteSet(Queued)
    /\ \A a \in listed : IsFiniteSet(CallsAhead(a)) /\ Cover(a) >= Debt(a)

(* What a step does to the account of a directory.                         *)
SameTasks(a) == Counted(a)' \subseteq Counted(a)
NewTaskOf(a) == \E t : Counted(a)' \subseteq Counted(a) \cup {t}
SameAhead(a) == CallsAhead(a)' \subseteq CallsAhead(a) /\ (ThreadAhead(a)' => ThreadAhead(a))
Same(a) == SameTasks(a) /\ SameAhead(a) /\ Cover(a)' >= Cover(a)
Counts(a) ==
    /\ SameTasks(a) /\ Cover(a)' >= Cover(a) + 1
    /\ \/ CallsAhead(a)' \subseteq CallsAhead(a) /\ ~ThreadAhead(a)
       \/ /\ \E x : CallsAhead(a)' \subseteq CallsAhead(a) \cup {x}
          /\ ThreadAhead(a)' => ThreadAhead(a)
Pushes(a) ==
    /\ NewTaskOf(a) /\ Cover(a)' >= Cover(a)
    /\ \/ CallsAhead(a)' \subseteq CallsAhead(a) /\ ThreadAhead(a) /\ ~ThreadAhead(a)'
       \/ /\ \E x \in CallsAhead(a) : CallsAhead(a)' = CallsAhead(a) \ {x}
          /\ ThreadAhead(a)' => ThreadAhead(a)
CountsAndPushes(a) == NewTaskOf(a) /\ SameAhead(a) /\ Cover(a)' >= Cover(a) + 1
Settles(a) ==
    /\ \E t \in Counted(a) : Counted(a)' = Counted(a) \ {t}
    /\ SameAhead(a) /\ Cover(a)' >= Cover(a) - 1
Pays(a) == Same(a) \/ Counts(a) \/ Pushes(a) \/ CountsAndPushes(a) \/ Settles(a)

LEMMA CountedFinite ==
  ASSUME NEW a, IsFiniteSet(Queued)
  PROVE  IsFiniteSet(Counted(a))
  <1>1. Counted(a) \subseteq Queued \cup {currentTask}
    BY DEF Counted
  <1>2. IsFiniteSet(Queued \cup {currentTask})
    BY FS_AddElement
  <1> QED BY <1>1, <1>2, FS_Subset

(* Fewer tasks count for less, one more for one more, one less for one less.*)
LEMMA CountedShrinks ==
  ASSUME NEW S, NEW T, IsFiniteSet(S), T \subseteq S
  PROVE  /\ IsFiniteSet(T)
         /\ Cardinality(T) \in Nat /\ Cardinality(S) \in Nat
         /\ Cardinality(T) <= Cardinality(S)
  BY FS_Subset, FS_CardinalityType

LEMMA CountedGrows ==
  ASSUME NEW S, NEW T, NEW t, IsFiniteSet(S), T \subseteq S \cup {t}
  PROVE  /\ IsFiniteSet(T)
         /\ Cardinality(T) \in Nat /\ Cardinality(S) \in Nat
         /\ Cardinality(T) <= Cardinality(S) + 1
  <1>1. IsFiniteSet(S \cup {t}) /\ Cardinality(S \cup {t}) <= Cardinality(S) + 1
        /\ Cardinality(S) \in Nat /\ Cardinality(S \cup {t}) \in Nat
    BY FS_AddElement, FS_CardinalityType
  <1>2. IsFiniteSet(T) /\ Cardinality(T) \in Nat /\ Cardinality(T) <= Cardinality(S \cup {t})
    BY <1>1, CountedShrinks
  <1> QED BY <1>1, <1>2

LEMMA CountedDrops ==
  ASSUME NEW S, NEW T, NEW t \in S, IsFiniteSet(S), T = S \ {t}
  PROVE  /\ IsFiniteSet(T)
         /\ Cardinality(T) \in Nat /\ Cardinality(S) \in Nat
         /\ Cardinality(T) = Cardinality(S) - 1
  BY FS_RemoveElement, FS_CardinalityType

(* Whatever a step does, what was counted goes on covering the debt.       *)
LEMMA PaysDebt ==
  ASSUME NEW a \in Adirs, IsFiniteSet(Counted(a)), IsFiniteSet(CallsAhead(a)),
         Cover(a) \in Int, Cover(a)' \in Int, Cover(a) >= Debt(a), Pays(a)
  PROVE  IsFiniteSet(CallsAhead(a)') /\ Cover(a)' >= Debt(a)'
  <1> DEFINE n == Cardinality(Counted(a))
             m == Cardinality(Counted(a)')
             j == Cardinality(CallsAhead(a))
             k == Cardinality(CallsAhead(a)')
  <1>s. SameTasks(a) => n \in Nat /\ m \in Nat /\ m <= n
    BY CountedShrinks DEF SameTasks
  <1>n. NewTaskOf(a) => n \in Nat /\ m \in Nat /\ m <= n + 1
    BY CountedGrows DEF NewTaskOf
  <1>c. CallsAhead(a)' \subseteq CallsAhead(a)
            => IsFiniteSet(CallsAhead(a)') /\ j \in Nat /\ k \in Nat /\ k <= j
    BY CountedShrinks
  <1>d. Debt(a) = n + j + (IF ThreadAhead(a) THEN 1 ELSE 0)
    BY DEF Debt
  <1>e. Debt(a)' = m + k + (IF ThreadAhead(a)' THEN 1 ELSE 0)
    BY DEF Debt
  <1>g. (\E x : CallsAhead(a)' \subseteq CallsAhead(a) \cup {x})
            => IsFiniteSet(CallsAhead(a)') /\ j \in Nat /\ k \in Nat /\ k <= j + 1
    BY CountedGrows
  <1>h. (\E x \in CallsAhead(a) : CallsAhead(a)' = CallsAhead(a) \ {x})
            => IsFiniteSet(CallsAhead(a)') /\ j \in Nat /\ k \in Nat /\ k = j - 1
    BY CountedDrops
  <1>i. (\E t \in Counted(a) : Counted(a)' = Counted(a) \ {t})
            => n \in Nat /\ m \in Nat /\ m = n - 1
    BY CountedDrops
  <1> HIDE DEF n, m, j, k
  <1>1. CASE Same(a)
    BY <1>1, <1>s, <1>c, <1>d, <1>e DEF Same, SameAhead
  <1>2. CASE Counts(a)
    BY <1>2, <1>s, <1>c, <1>g, <1>d, <1>e DEF Counts
  <1>3. CASE Pushes(a)
    BY <1>3, <1>n, <1>c, <1>h, <1>d, <1>e DEF Pushes
  <1>4. CASE CountsAndPushes(a)
    BY <1>4, <1>n, <1>c, <1>d, <1>e DEF CountsAndPushes, SameAhead
  <1>5. CASE Settles(a)
    BY <1>5, <1>i, <1>c, <1>d, <1>e DEF Settles, SameAhead
  <1> QED BY <1>1, <1>2, <1>3, <1>4, <1>5 DEF Pays

(* The parts of an account that a step leaves alone.                       *)
LEMMA TasksRest ==
  ASSUME NEW a, UNCHANGED <<taskQueue1, taskQueue2, currentTask>>, Busy' => Busy
  PROVE  SameTasks(a)
  BY DEF SameTasks, Counted, Queued, Busy

LEMMA TaskComes ==
  ASSUME NEW a, NEW type, NEW path, NEW b, NEW parentID, NEW cleans, NEW low, NEW state,
         addTask(NewTask(type, path, b, parentID, cleans), low, state),
         UNCHANGED currentTask, Busy' => Busy
  PROVE  NewTaskOf(a) /\ (a # b => SameTasks(a))
  <1>1. Queued' = Queued \cup {NewTask(type, path, b, parentID, cleans)}
    BY DEF addTask, Queued
  <1>2. NewTask(type, path, b, parentID, cleans).adir = b
    BY DEF NewTask
  <1>3. Counted(a)' \subseteq Counted(a) \cup {NewTask(type, path, b, parentID, cleans)}
    BY <1>1 DEF Counted, Busy
  <1>4. a # b => SameTasks(a)
    BY <1>1, <1>2 DEF SameTasks, Counted, Busy
  <1> QED BY <1>3, <1>4 DEF NewTaskOf

LEMMA CoverRests == ASSUME TypeOK, NEW a \in Adirs, UNCHANGED counts PROVE Cover(a)' >= Cover(a)
  <1>1. Cover(a)' = Cover(a) /\ Cover(a) \in Int
    BY DEF Cover, TypeOK
  <1> QED BY <1>1

LEMMA CallTurns ==
  ASSUME TypeOK, NEW a, NEW x \in Threads, NEW k, k.stage # "push",
         call' = [call EXCEPT ![x] = k]
  PROVE  CallsAhead(a)' \subseteq CallsAhead(a)
  BY DEF CallsAhead, TypeOK

LEMMA ThreadRests ==
  ASSUME NEW a, UNCHANGED currentTask, pc' = "pushRescan" => pc = "pushRescan"
  PROVE  ThreadAhead(a)' => ThreadAhead(a)
  BY DEF ThreadAhead

LEMMA CallsRest == ASSUME NEW a, UNCHANGED call PROVE CallsAhead(a)' = CallsAhead(a)
  BY DEF CallsAhead

LEMMA NotifiedQuiet ==
  ASSUME pc' \in {pc, Notified, "crashed"}
  PROVE  (Busy' => Busy) /\ (pc' = "pushRescan" => pc = "pushRescan")
  BY DEF Notified, Busy

LEMMA incStores ==
  ASSUME TypeOK, NEW b \in Adirs, NEW n \in Int, store(b, n, incTaskCount(n))
  PROVE  Cover(b)' >= Cover(b) + 1 /\ \A d \in Adirs : d # b => Cover(d)' = Cover(d)
  <1>1. incTaskCount(n) \in Int /\ incTaskCount(n) - n = 1
    BY DEF incTaskCount
  <1> QED BY <1>1, storeEffect

LEMMA decStores ==
  ASSUME TypeOK, NEW b \in Adirs, NEW n \in Int, store(b, n, decTaskCount(n))
  PROVE  Cover(b)' >= Cover(b) - 1 /\ \A d \in Adirs : d # b => Cover(d)' = Cover(d)
  <1>1. decTaskCount(n) \in Int /\ decTaskCount(n) - n = -1
    BY DEF decTaskCount
  <1>2. Cover(b) \in Int
    BY DEF TypeOK, Cover
  <1>3. /\ Cover(b)' >= Cover(b) + (decTaskCount(n) - n)
        /\ \A d \in Adirs : d # b => Cover(d)' = Cover(d)
    BY <1>1, storeEffect
  <1>4. Cover(b) + (decTaskCount(n) - n) = Cover(b) - 1
    BY <1>1, <1>2
  <1> QED BY <1>3, <1>4

LEMMA ThreadPays ==
  ASSUME TInv, TaskIdsUnique, threadProc, NEW a \in Adirs, a \in listed'
  PROVE  Pays(a)
  <1>a. TypeOK
    BY DEF TInv
  <1>b. pc \in Rescanning => currentTask \in Tasks /\ adir \in Adirs
    <2> SUFFICES ASSUME pc \in Rescanning PROVE currentTask \in Tasks /\ adir \in Adirs
      OBVIOUS
    <2>1. currentTask \in Tasks /\ currentTask.type = "RescanDirectory"
      BY DEF TInv, Working, Rescanning
    <2> QED BY <2>1 DEF adir, Tasks, NoTask, TInv, RescansHaveAdir, Outstanding
  <1>d. loaded \in Int
    BY <1>a DEF TypeOK
  <1>e. Cover(a) \in Int
    BY <1>a DEF TypeOK, Cover
  <1>q. ASSUME UNCHANGED <<taskQueue1, taskQueue2, currentTask, counts, call>>,
               Busy' => Busy, pc' # "pushRescan"
        PROVE  Pays(a)
    BY <1>a, <1>q, TasksRest, CallsRest, ThreadRests, CoverRests DEF Pays, Same, SameAhead
  <1>1. CASE fetch
    <2>1. /\ UNCHANGED <<counts, call>> /\ ~Busy /\ pc' # "pushRescan"
          /\ Queued' \subseteq Queued /\ (Busy' => currentTask' \in Queued)
      BY <1>1 DEF fetch, goto, Front, Queued, Busy
    <2>2. SameTasks(a)
      BY <2>1 DEF SameTasks, Counted, Busy
    <2>3. SameAhead(a)
      BY <2>1, CallsRest DEF SameAhead, ThreadAhead
    <2> QED BY <1>a, <2>1, <2>2, <2>3, CoverRests DEF Pays, Same
  <1>2. CASE runTask \/ scan \/ addRescan \/ addSubDirectory \/ import
    <2>1. /\ UNCHANGED <<taskQueue1, taskQueue2, currentTask, counts, call>>
          /\ Busy /\ pc' # "pushRescan"
      BY <1>2 DEF runTask, CleansFirst, scan, addRescan, addSubDirectory, loadOrEnd, import,
                  goto, Busy
    <2> QED BY <1>q, <2>1
  <1>3. CASE fail \/ findAutoscanDirectory \/ unlist \/ invalidate \/ delete \/ finish
    <2>1. /\ UNCHANGED <<taskQueue1, taskQueue2, currentTask, counts, call>>
          /\ Busy /\ pc' # "pushRescan"
      BY <1>3 DEF fail, findAutoscanDirectory, unlist, invalidate, delete, finish, goto, Busy
    <2> QED BY <1>q, <2>1
  <1>4. CASE runRescan
    <2>1. /\ UNCHANGED <<taskQueue1, taskQueue2, currentTask, overwritten, call>>
          /\ Busy /\ pc' # "pushRescan"
      BY <1>4 DEF runRescan, goto, Busy
    <2>2. taskCount'[a] = taskCount[a]
      BY <1>4, <1>a DEF runRescan, TypeOK
    <2>3. Cover(a)' >= Cover(a)
      <3>1. Cover(a)' = Cover(a)
        BY <2>1, <2>2 DEF Cover
      <3> QED BY <1>e, <3>1
    <2> QED BY <2>1, <2>3, TasksRest, CallsRest, ThreadRests DEF Pays, Same, SameAhead
  <1>5. CASE countRescan
    <2>1. /\ UNCHANGED <<taskQueue1, taskQueue2, currentTask, call>>
          /\ pc = "countRescan" /\ Busy /\ adir \in Adirs
      BY <1>5, <1>b DEF countRescan, Busy, Rescanning
    <2>2. PICK b \in Adirs, n \in Int :
              b = currentTask.adir /\ store(b, n, incTaskCount(n))
      BY <1>5, <1>d, <2>1 DEF countRescan, adir
    <2>3. Cover(b)' >= Cover(b) + 1 /\ \A d \in Adirs : d # b => Cover(d)' = Cover(d)
      BY <1>a, <2>2, incStores
    <2>4. SameTasks(a) /\ CallsAhead(a)' = CallsAhead(a) /\ ~ThreadAhead(a)
      BY <2>1, TasksRest, CallsRest DEF ThreadAhead
    <2>5. CASE a = b
      BY <2>3, <2>4, <2>5 DEF Pays, Counts
    <2>6. CASE a # b
      <3>1. Cover(a)' >= Cover(a)
        BY <1>e, <2>3, <2>6
      <3>2. ~ThreadAhead(a)'
        BY <2>1, <2>2, <2>6 DEF ThreadAhead
      <3> QED BY <2>4, <3>1, <3>2 DEF Pays, Same, SameAhead
    <2> QED BY <2>5, <2>6
  <1>6. CASE pushRescan
    <2>1. /\ UNCHANGED <<currentTask, counts, call>>
          /\ pc = "pushRescan" /\ Busy /\ pc' = "scan"
          /\ addTask(NewTask("RescanDirectory", next, adir, 0, FALSE), TRUE, "scan")
      BY <1>6 DEF pushRescan, spawn, addTask, Busy
    <2>2. NewTaskOf(a) /\ (a # adir => SameTasks(a))
      BY <2>1, TaskComes
    <2>3. CallsAhead(a)' = CallsAhead(a) /\ ~ThreadAhead(a)' /\ Cover(a)' >= Cover(a)
      BY <1>a, <2>1, CallsRest, CoverRests DEF ThreadAhead
    <2>4. CASE a = adir
      <3>1. ThreadAhead(a)
        BY <2>1, <2>4 DEF ThreadAhead, adir
      <3> QED BY <2>2, <2>3, <3>1 DEF Pays, Pushes
    <2>5. CASE a # adir
      BY <2>2, <2>3, <2>5 DEF Pays, Same, SameAhead
    <2> QED BY <2>4, <2>5
  <1>7. CASE countAdd
    <2>1. /\ UNCHANGED <<currentTask, call>>
          /\ pc = "countAdd" /\ Busy /\ pc' = "scan" /\ adir \in Adirs
          /\ addTask(NewTask("AddFile", next, adir, currentTask.id, FALSE), TRUE, "scan")
      BY <1>7, <1>b DEF countAdd, spawn, addTask, Busy, Rescanning
    <2>2. NewTaskOf(a) /\ (a # adir => SameTasks(a))
      BY <2>1, TaskComes
    <2>p. PICK b \in Adirs, n \in Int :
              b = currentTask.adir /\ store(b, n, incTaskCount(n))
      BY <1>7, <1>d, <2>1 DEF countAdd, adir
    <2>3. Cover(b)' >= Cover(b) + 1 /\ \A d \in Adirs : d # b => Cover(d)' = Cover(d)
      BY <1>a, <2>p, incStores
    <2>4. SameAhead(a)
      BY <2>1, CallsRest, ThreadRests DEF SameAhead
    <2>5. CASE a = b
      BY <2>2, <2>3, <2>4, <2>5 DEF Pays, CountsAndPushes
    <2>6. CASE a # b
      <3>1. Cover(a)' >= Cover(a)
        BY <1>e, <2>3, <2>6
      <3> QED BY <2>2, <2>p, <2>4, <2>6, <3>1 DEF Pays, Same, adir
    <2> QED BY <2>5, <2>6
  <1>8. CASE countDone
    <2>1. /\ UNCHANGED <<taskQueue1, taskQueue2, currentTask, call>>
          /\ pc = "countDone" /\ Busy /\ pc' = "top" /\ ~Busy'
      BY <1>8 DEF countDone, goto, Busy
    <2>2. currentTask \in Tasks /\ currentTask # NoTask /\ adir \in Adirs
      <3>1. currentTask \in Tasks /\ currentTask.adir \in Adirs
        BY <2>1 DEF TInv, Working
      <3> QED BY <3>1 DEF Tasks, NoTask, adir
    <2>p. PICK b \in Adirs, n \in Int :
              b = currentTask.adir /\ store(b, n, decTaskCount(n))
      BY <1>8, <1>d, <2>2 DEF countDone, adir
    <2>3. Cover(b)' >= Cover(b) - 1 /\ \A d \in Adirs : d # b => Cover(d)' = Cover(d)
      BY <1>a, <2>p, decStores
    <2>4. SameAhead(a)
      BY <2>1, CallsRest, ThreadRests DEF SameAhead
    <2>5. CASE a = b
      <3>1. currentTask \in Counted(a) /\ Counted(a)' = Counted(a) \ {currentTask}
        BY <2>1, <2>2, <2>p, <2>5 DEF Counted, Queued, Busy, TaskIdsUnique
      <3> QED BY <2>3, <2>4, <2>5, <3>1 DEF Pays, Settles
    <2>6. CASE a # b
      <3>1. Cover(a)' >= Cover(a)
        BY <1>e, <2>3, <2>6
      <3> QED BY <2>1, <2>4, <3>1, TasksRest DEF Pays, Same
    <2> QED BY <2>5, <2>6
  <1> QED BY <1>1, <1>2, <1>3, <1>4, <1>5, <1>6, <1>7, <1>8 DEF threadProc

(* A step of another thread that takes nothing on.                         *)
LEMMA QuietPays ==
  ASSUME TypeOK, NEW a \in Adirs, SameTasks(a), CallsAhead(a)' \subseteq CallsAhead(a),
         UNCHANGED <<currentTask, counts>>, pc' = "pushRescan" => pc = "pushRescan"
  PROVE  Pays(a)
  BY ThreadRests, CoverRests DEF Pays, Same, SameAhead

LEMMA callStepPays ==
  ASSUME TInv, NEW x \in Threads, callStep(x), NEW a \in Adirs
  PROVE  Pays(a)
  <1>a. TypeOK /\ call \in [Threads -> {Idle} \cup AddCalls \cup RemoveCalls]
    BY DEF TInv, TypeOK
  <1>e. Cover(a) \in Int
    BY <1>a DEF TypeOK, Cover
  <1>1. CASE loadCount(x)
    <2>1. call[x] \in AddCalls
      BY <1>a, <1>1, CallType DEF loadCount, AddStages
    <2>2. CallsAhead(a)' \subseteq CallsAhead(a)
      BY <1>a, <1>1, <2>1 DEF loadCount, CallsAhead, AddCalls
    <2> QED BY <1>1, <1>a, <2>2, TasksRest, QuietPays DEF loadCount, Busy
  <1>2. CASE storeCount(x)
    <2>1. call[x] \in AddCalls /\ call[x].adir \in Adirs /\ call[x].loaded \in Int
      BY <1>a, <1>2, CallType DEF storeCount, AddStages
    <2>2. PICK b \in Adirs, n \in Int :
              b = call[x].adir /\ store(b, n, incTaskCount(n))
      BY <1>2, <2>1 DEF storeCount
    <2>3. Cover(b)' >= Cover(b) + 1 /\ \A d \in Adirs : d # b => Cover(d)' = Cover(d)
      BY <1>a, <2>2, incStores
    <2>4. /\ UNCHANGED <<taskQueue1, taskQueue2, currentTask, pc>>
          /\ CallsAhead(a)' \subseteq CallsAhead(a) \cup {x}
          /\ a # b => CallsAhead(a)' \subseteq CallsAhead(a)
      BY <1>a, <1>2, <2>1, <2>2 DEF storeCount, CallsAhead, AddCalls
    <2>5. SameTasks(a) /\ (ThreadAhead(a)' => ThreadAhead(a))
      BY <2>4, TasksRest, ThreadRests DEF Busy
    <2>6. CASE a = b
      BY <2>3, <2>4, <2>5, <2>6 DEF Pays, Counts
    <2>7. CASE a # b
      BY <1>e, <2>3, <2>4, <2>5, <2>7 DEF Pays, Same, SameAhead
    <2> QED BY <2>6, <2>7
  <1>3. CASE pushTask(x)
    <2>1. /\ addTask(NewTask(call[x].type, call[x].path, call[x].adir, 0, FALSE),
                     call[x].lowPriority, Notified)
          /\ UNCHANGED <<currentTask, counts>> /\ pc' = Notified
          /\ call[x].stage = "push" /\ call' = [call EXCEPT ![x] = Idle]
      BY <1>3 DEF pushTask, addTask
    <2>2. (Busy' => Busy) /\ (pc' = "pushRescan" => pc = "pushRescan")
      BY <2>1, NotifiedQuiet
    <2>3. NewTaskOf(a) /\ (a # call[x].adir => SameTasks(a))
      <3>1. PICK type, path, b, low :
                /\ b = call[x].adir
                /\ addTask(NewTask(type, path, b, 0, FALSE), low, Notified)
        BY <2>1
      <3>2. NewTaskOf(a) /\ (a # b => SameTasks(a))
        BY <2>1, <2>2, <3>1, TaskComes
      <3> QED BY <3>1, <3>2
    <2>4. Idle.stage # "push"
      BY DEF Idle
    <2>5. CASE a = call[x].adir
      <3>1. x \in CallsAhead(a)
        BY <2>1, <2>5 DEF CallsAhead
      <3>2. CallsAhead(a)' = CallsAhead(a) \ {x}
        BY <1>a, <2>1, <2>4 DEF CallsAhead
      <3> QED BY <1>a, <2>1, <2>2, <2>3, <3>1, <3>2, ThreadRests, CoverRests DEF Pays, Pushes
    <2>6. CASE a # call[x].adir
      <3>1. CallsAhead(a)' \subseteq CallsAhead(a)
        BY <1>a, <2>1, <2>4, CallTurns
      <3> QED BY <1>a, <2>1, <2>2, <2>3, <2>6, <3>1, QuietPays
    <2> QED BY <2>5, <2>6
  <1>4. CASE removeInvalidate(x)
    <2>1. call[x] \in RemoveCalls
      BY <1>a, <1>4, CallType DEF removeInvalidate, RemoveStages
    <2>2. CallsAhead(a)' \subseteq CallsAhead(a)
      BY <1>a, <1>4, <2>1 DEF removeInvalidate, CallsAhead, RemoveCalls
    <2> QED BY <1>4, <1>a, <2>2, TasksRest, QuietPays DEF removeInvalidate, Busy
  <1>5. CASE removeEnqueue(x)
    <2>1. /\ addTask(NewTask("RemoveObject", call[x].path, NoAdir, 0, TRUE), FALSE, Notified)
          /\ UNCHANGED <<currentTask, counts>> /\ pc' = Notified
          /\ call' = [call EXCEPT ![x] = Idle]
      BY <1>5 DEF removeEnqueue, addTask
    <2>2. (Busy' => Busy) /\ (pc' = "pushRescan" => pc = "pushRescan")
      BY <2>1, NotifiedQuiet
    <2>3. SameTasks(a)
      BY <2>1, <2>2, TaskComes, AdirsAssumption
    <2>4. CallsAhead(a)' \subseteq CallsAhead(a)
      BY <1>a, <2>1, CallTurns DEF Idle
    <2> QED BY <1>a, <2>1, <2>2, <2>3, <2>4, QuietPays
  <1>6. CASE removeDelete(x)
    <2>1. CallsAhead(a)' \subseteq CallsAhead(a)
      BY <1>a, <1>6, CallTurns DEF removeDelete, Idle
    <2> QED BY <1>6, <1>a, <2>1, TasksRest, QuietPays DEF removeDelete, Busy
  <1> QED BY <1>1, <1>2, <1>3, <1>4, <1>5, <1>6 DEF callStep

LEMMA CallsPay ==
  ASSUME TInv, Calls, NEW a \in Adirs, a \in listed'
  PROVE  Pays(a)
  <1>a. TypeOK /\ call \in [Threads -> {Idle} \cup AddCalls \cup RemoveCalls]
    BY DEF TInv, TypeOK
  <1>t. Timer \in Threads /\ Callers \subseteq Threads
    BY DEF Threads
  <1>q. ASSUME UNCHANGED <<taskQueue1, taskQueue2, currentTask, counts, pc>>,
               CallsAhead(a)' \subseteq CallsAhead(a)
        PROVE  Pays(a)
    BY <1>a, <1>q, TasksRest, QuietPays DEF Busy
  <1>b. ASSUME NEW x \in Threads, NEW stage \in {"load", "store"}, NEW type, NEW path, NEW b,
               NEW low, NEW n, call' = [call EXCEPT ![x] = Adding(stage, type, path, b, low, n)]
        PROVE  CallsAhead(a)' \subseteq CallsAhead(a)
    <2>1. Adding(stage, type, path, b, low, n).stage # "push"
      BY DEF Adding
    <2> QED BY <1>a, <1>b, <2>1, CallTurns
  <1>1. ASSUME NEW b \in Adirs, timerNotify(b) PROVE Pays(a)
    <2>1. CallsAhead(a)' \subseteq CallsAhead(a)
      BY <1>1, <1>b, <1>t DEF timerNotify
    <2> QED BY <1>1, <1>q, <2>1 DEF timerNotify
  <1>2. ASSUME NEW c \in Callers, NEW b \in Adirs, rescanDirectory(c, b) PROVE Pays(a)
    <2>1. CallsAhead(a)' \subseteq CallsAhead(a)
      BY <1>2, <1>b, <1>t DEF rescanDirectory
    <2> QED BY <1>2, <1>q, <2>1 DEF rescanDirectory
  <1>3. ASSUME NEW b \in Adirs, removeAutoscanDirectory(b) PROVE Pays(a)
    <2>1. /\ UNCHANGED <<taskQueue1, taskQueue2, currentTask, overwritten, pc, call>>
          /\ a # b /\ taskCount'[a] = taskCount[a]
      BY <1>3, <1>a DEF removeAutoscanDirectory, TypeOK
    <2>2. Cover(a)' >= Cover(a)
      <3>1. Cover(a)' = Cover(a) /\ Cover(a) \in Int
        BY <1>a, <2>1 DEF Cover, TypeOK
      <3> QED BY <3>1
    <2> QED BY <2>1, <2>2, TasksRest, CallsRest, ThreadRests DEF Pays, Same, SameAhead, Busy
  <1>4. ASSUME NEW c \in Callers, NEW f \in Added, addFile(c, f.path, f.adir, f.lowPriority)
        PROVE  Pays(a)
    <2>1. CallsAhead(a)' \subseteq CallsAhead(a)
      BY <1>4, <1>b, <1>t DEF addFile
    <2> QED BY <1>4, <1>q, <2>1 DEF addFile
  <1>n. ASSUME NEW type, NEW path, NEW cleans, NEW low,
               addTask(NewTask(type, path, NoAdir, 0, cleans), low, Notified),
               UNCHANGED <<currentTask, counts, call>>
        PROVE  Pays(a)
    <2>1. pc' = Notified
      BY <1>n DEF addTask
    <2>2. (Busy' => Busy) /\ (pc' = "pushRescan" => pc = "pushRescan")
      BY <2>1, NotifiedQuiet
    <2>3. SameTasks(a)
      BY <1>n, <2>2, TaskComes, AdirsAssumption
    <2> QED BY <1>a, <1>n, <2>2, <2>3, CallsRest, QuietPays
  <1>5. ASSUME NEW f \in Added, webAdd(f.path, f.lowPriority) PROVE Pays(a)
    BY <1>5, <1>n DEF webAdd
  <1>6. ASSUME NEW t \in Outstanding, invalidateTask(t.id) PROVE Pays(a)
    BY <1>6, <1>q, CallsRest DEF invalidateTask
  <1>7. ASSUME NEW c \in Callers, NEW d \in Removed, NEW async \in BOOLEAN,
               removeUnlist(c, d, async)
        PROVE  Pays(a)
    <2>1. CallsAhead(a)' \subseteq CallsAhead(a)
      <3>1. Removing("unlisted", d, async).stage # "push"
        BY DEF Removing
      <3> QED BY <1>a, <1>t, <1>7, <3>1, CallTurns, CallsRest DEF removeUnlist
    <2>2. UNCHANGED <<taskQueue1, taskQueue2, currentTask, counts>> /\ pc' \in {pc, Notified, "crashed"}
      BY <1>7 DEF removeUnlist, goto
    <2> QED BY <1>a, <2>1, <2>2, NotifiedQuiet, TasksRest, QuietPays
  <1>8. ASSUME NEW d \in Removed, NEW all \in BOOLEAN, webRemove(d, all) PROVE Pays(a)
    <2>1. CASE all
      BY <1>8, <1>n, <2>1 DEF webRemove
    <2>2. CASE ~all
      BY <1>8, <1>q, <2>2, CallsRest DEF webRemove
    <2> QED BY <2>1, <2>2
  <1> QED BY <1>1, <1>2, <1>3, <1>4, <1>5, <1>6, <1>7, <1>8 DEF Calls

LEMMA NextPays ==
  ASSUME TInv, TaskIdsUnique, [Next]_vars, NEW a \in Adirs, a \in listed'
  PROVE  Pays(a)
  <1>1. CASE shutdown \/ joinInotify \/ useDestroyed \/ UNCHANGED vars
    <2>1. /\ UNCHANGED <<taskQueue1, taskQueue2, currentTask, counts, call>>
          /\ pc' \in {pc, Notified, "crashed"}
      BY <1>1 DEF shutdown, joinInotify, useDestroyed, goto, vars
    <2> QED BY <2>1, NotifiedQuiet, TasksRest, CallsRest, QuietPays DEF TInv
  <1> QED BY <1>1, ThreadPays, CallsPay, callStepPays DEF Next

LEMMA NextCount ==
  ASSUME TInv, TInv', TaskIdsUnique, CInv, [Next]_vars
  PROVE  CInv'
  <1>1. IsFiniteSet(Queued')
    <2>1. CASE Hands
      <3>1. PICK t : Queued' = Queued \cup {t}
        BY <2>1 DEF Hands, Queued
      <3> QED BY <3>1, FS_AddElement DEF CInv
    <2>2. CASE Rests \/ fetch
      <3>1. Queued' \subseteq Queued
        BY <2>2 DEF Rests, fetch, Queued
      <3> QED BY <3>1, FS_Subset DEF CInv
    <2> QED BY <2>1, <2>2, TaskMoves
  <1>2. ASSUME NEW a \in listed' PROVE IsFiniteSet(CallsAhead(a)') /\ Cover(a)' >= Debt(a)'
    <2>1. a \in listed /\ a \in Adirs
      BY QueueStep DEF QueueGrows, TInv, TypeOK
    <2>2. Pays(a)
      BY <2>1, NextPays
    <2>3. IsFiniteSet(Counted(a)) /\ IsFiniteSet(CallsAhead(a)) /\ Cover(a) >= Debt(a)
      BY <2>1, CountedFinite DEF CInv
    <2>4. Cover(a) \in Int /\ Cover(a)' \in Int
      BY <2>1 DEF Cover, TInv, TypeOK
    <2> QED BY <2>1, <2>2, <2>3, <2>4, PaysDebt
  <1> QED BY <1>1, <1>2 DEF CInv

LEMMA InitCount == Init => TaskIdsUnique /\ CInv
  <1> SUFFICES ASSUME Init PROVE TaskIdsUnique /\ CInv
    OBVIOUS
  <1>1. Queued = {} /\ Outstanding = {}
    BY DEF Init, Queued, Outstanding
  <1>2. TaskIdsUnique
    BY <1>1 DEF Init, TaskIdsUnique
  <1>3. ASSUME NEW a \in listed PROVE IsFiniteSet(CallsAhead(a)) /\ Cover(a) >= Debt(a)
    <2>1. Counted(a) = {} /\ CallsAhead(a) = {} /\ ~ThreadAhead(a)
      BY <1>1 DEF Counted, CallsAhead, ThreadAhead, Init, Idle
    <2>2. Cover(a) = 0
      BY DEF Init, Cover
    <2> QED BY <2>1, <2>2, FS_EmptySet DEF Debt
  <1>4. IsFiniteSet(Queued)
    BY <1>1, FS_EmptySet
  <1> QED BY <1>2, <1>3, <1>4 DEF CInv

(* The count of a listed directory falls short of the tasks it has, in the *)
(* queues and in work, by no more than the updates that were overwritten.  *)
THEOREM CountCovers == Spec => []CountNeverShort
  <1>1. TInv /\ TaskIdsUnique /\ CInv /\ [Next]_vars => (TaskIdsUnique /\ CInv)'
    BY TaskMoves, NextIds, NextTInv, NextCount
  <1>2. TInv /\ TaskIdsUnique /\ CInv => CountNeverShort
    <2> SUFFICES ASSUME TInv, TaskIdsUnique, CInv, NEW a \in listed
                 PROVE  taskCount[a] + overwritten[a] >= Cardinality(Counted(a))
      BY DEF CountNeverShort
    <2>1. Cover(a) >= Debt(a) /\ IsFiniteSet(CallsAhead(a)) /\ IsFiniteSet(Counted(a))
      BY CountedFinite DEF CInv
    <2>2. Cardinality(Counted(a)) \in Nat /\ Cardinality(CallsAhead(a)) \in Nat
      BY <2>1, FS_CardinalityType
    <2>3. Cover(a) \in Int
      BY DEF Cover, TInv, TypeOK
    <2> QED BY <2>1, <2>2, <2>3 DEF Debt, Cover
  <1> QED BY <1>1, <1>2, InitCount, InitTInv, NextTInv, PTL DEF Spec
=============================================================================
