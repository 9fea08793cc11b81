# Gerbera in TLA+

Gerbera is a UPnP media server: it keeps a database of media files and virtual
containers, keeps it in step with directories of the file system, and serves
the files, transcoded if need be, to UPnP players and to a web interface. This
directory holds TLA+ models of the parts of it where several threads, a crash or
a long sequence of calls meet over shared state; the TLC runs that check them; and
proofs, checked by TLAPS, of what should hold for any number of directories,
requests and bytes.

Paths of the source are given relative to the repository's `src/` directory
(`content/update_manager.cc` is `src/content/update_manager.cc`), docs relative to `doc/`.

Contents: [inventory](#1-inventory), [plan](#2-plan),
[modules and their code](#3-the-modules-and-the-code), [runs](#4-the-runs),
[fairness](#5-fairness), [proofs](#6-proofs),
[disagreements with the docs](#7-where-code-and-documentation-disagree),
[limits](#8-what-is-not-modelled).

## 1. Inventory

### Threads

| thread | started by | what it does |
|---|---|---|
| main | `main.cc` | starts and stops `Server` |
| libupnp pool | libupnp | requests of players and of the web pages, reads of files that are sent |
| content manager | `ContentManager::run` | works off the task queue |
| inotify | `AutoscanInotify::run` | turns file system events into calls of the content manager |
| timer | `Timer::run` | notifies autoscan directories and sessions that are due |
| update manager | `UpdateManager::run` | sends the events of changed containers |
| database driver | `Sqlite3Database::init`, `PostgresDatabase::init` | executes the statements of all other threads (not with MySQL) |
| buffer | `IOHandlerBufferHelper::open` | one for each transcoded or remote stream: reads ahead |
| chainer | `TranscodeExternalHandler` | feeds a transcoder that cannot read a URL itself |
| online services | `ContentManager` | remote catalogues; no service is registered in this version |

### Components

For each: its state and operations, what is hard about it and when it is correct.
`PROJECT.json` lists the same components with their source files, and the hazards with
their lines.

| component | state, operations | hard | correct if |
|---|---|---|---|
| **Update manager** `content/update_manager.cc` | hash of changed ids, cache of the last one, flush policy; `containerChanged`, `containersChanged`, `threadProc` | a call that overfills the hash gives the mutex up half-way; timeouts and notifications | no change is dropped, all are sent, no more often than once per interval |
| **Task queue** `content/content_manager.cc`, `content/cm_task.cc` | two queues, the current task, counts per directory; `addFile`, `rescanDirectory`, `removeObject`, `cleanupTasks`, `timerNotify` | tasks queue tasks while callers invalidate them in several steps | a directory being scanned is not taken for idle, nothing brings a removed one back, each task is started |
| **Autoscan register** `config/result/autoscan.cc`, `config/result/edit_helper.h` | watch list, rows, flags, subscriptions; `setAutoscanDirectory`, `removeAutoscanDirectory`, start, `updateLMinDB` | three copies changed one after the other by several threads, rebuilt at a restart | copies agree, ids are distinct, directories do not overlap |
| **Import service** `content/import_service.cc`, `content/layout`, `database/sql_database.cc` | tree of objects, two caches of containers, a state per entry; scan, add, layout, removal, purging | removals by other threads between two statements; disk changes under the scan; keys that come back | the tree mirrors the disk, references match the layout, a removal is whole |
| **Playlists** `content/scripting`, `scripts/js` | entries of a playlist in two containers; parse, add, refresh, prune | files come and go while the script reads, tasks are cancelled | after an import the containers hold the entries, once each and in order |
| **Browsing, events** `upnp/cont_dir_service.cc`, `database/sql_database.cc` | tree, `SystemUpdateID`, dynamic containers; Browse in pages, events | the tree changes between count, page and answer | a client told of no change has the container as it is |
| **Search** `database/search_handler.cc` | parser, joins in a shared mapper | nesting, filters, several requests at once | the answer is what the criteria ask for, with the right total |
| **Inotify** `content/inotify` | table of watches, queues of requests, the kernel's watches and events | the file system changes between look and watch; moves | each directory below is watched, under its path |
| **Database drivers** `database/sqlite3`, `database/mysql`, `database/postgres` | queue, flags, one connection, one transaction, a backup | threads share the transaction; errors shut the driver down | operations end, what is acknowledged stays, several statements are atomic |
| **Database setup** `database/sqlite3`, `database/sql_migration.cc` | version, tables, backup file, log | a death after any statement, statements that cannot be run twice | a server that is ready has the whole database |
| **Read-ahead buffers** `iohandler/io_handler_buffer_helper.cc`, `buffered_io_handler.cc`, `curl_io_handler.cc` | a ring with two indices, flags, seeks | copies without the mutex, two threads on one condition variable | bytes in order, none twice, each call returns |
| **Process I/O** `iohandler/process_io_handler.cc`, `util/process_executor.cc` | FIFOs, a child process, timeouts | the program hangs or fails at any time | the client gets what the program made; nothing is left behind |
| **Requests** `request_handler/file_request_handler.cc`, other I/O handlers, `server.cc` callbacks | handle and announced length of a request, archives | the file is replaced between two callbacks | content in order, the end where it was announced |
| **Clients** `upnp/client_manager.cc` | a vector of clients to which requests hold pointers | the vector changes under them | one entry per client, each served by its own profile |
| **Timer, sessions** `util/timer.cc`, `web/session_manager.cc` | subscribers with times; sessions with ids to reload | two mutexes, notifications between test and wait | expired sessions go, no change is forgotten, shutdown ends |
| **Configuration lists** `config/config_options.cc` | entries, index map | removals and additions in any order | an edit changes one entry, and it stays where it was |

Metadata readers, the building of XML, web pages that only load and print, the definition and
the file of the configuration, the online services and the browser part of the web interface
are sequential code on data (section 8).

### How they interact

    web pages ----+                          +---> database --> driver thread
    inotify ------+--> content manager ------+---> update manager --> server --> players
    timer --------+    (queue, list, import) +---> timer (subscriptions), sessions --> browsers
    players --> browse, search --> database
    players --> file requests --> read-ahead buffer --> process / curl I/O

Several modules look at one component from different sides. `ContentTasks` takes the set of
autoscan directories as given and looks at what tasks do; `AutoscanRegistry` takes
scanning as a notification and looks at the entries; `ImportService` looks at what one task
does to the tree. `ContentDirectory` has one branch of that tree and the clients
that read it. `UpdateManager` sees all of them as callers that report any ids at any
time, and `ContentDirectory` sees `UpdateManager` as what it promises. The models of
requests see the database drivers, proved or checked on their own, as statements that are atomic.

## 2. Plan

The modules came in this order, the most shared parts first:

1. `UpdateManager`, `ContentTasks`, `AutoscanRegistry`, `BufferedIOHandler` with `ByteStream`,
   each with its proofs;
2. `CurlIOHandler`, `ProcessIOHandler` (streams); `Timer`, `WebSessions`; `SqliteDriver`,
   `DatabaseSetup`, `MysqlDriver`, `PostgresDriver` (database);
3. `ObjectTree`, `ImportService`, `Playlists`, `ContentDirectory`, `Search` (what the database
   holds and what clients read of it); `InotifyWatches`; `FileRequest`, `ClientManager`,
   `ConfigOptions`;
4. proofs for the database drivers, the sessions, the counts of tasks and the other I/O handlers.

What is worth adding: the edits of the configuration through a restart (`web/config_save.cc`, the
overlay in the database), the order of the server's shutdown with its threads, the
last modification times per location. What is worth proving next:
`TreeIsSound` of `ImportService` for layouts without containers of their own, the watches of `InotifyWatches`.

## 3. The modules and the code

An action is one section of code that holds the mutex, from one point where it is
released to the next, one statement of the database, or one call of an object that locks
for itself; where shared state is touched without a mutex it is one such access. Functions
carry the names of the source where one action is one function. The module headers say what
their actions stand for; `PROJECT.json` (`map`) gives the lines of each definition.

| module | code | checked in | proofs |
|---|---|---|---|
| `UpdateManager` | `content/update_manager.cc` | `um_all`, `um_split_idle` | `UpdateManagerProofs` |
| `Timer`, `WebSessions` | `util/timer.cc`; `web/session_manager.cc`, `web/auth.cc` | `um_all` | `WebSessionsProofs` |
| `ContentTasks` | task queue of `content/content_manager.cc`, `content/cm_task.cc` | `ct_scan`, `ct_live` | `ContentTasksProofs` |
| `AutoscanRegistry` | autoscan part of `content_manager.cc`, `config/result`, `database/sql_database.cc` | `ar_requests` | `AutoscanRegistryProofs` |
| `ByteStream`, `BufferedIOHandler` | `iohandler/io_handler_buffer_helper.cc`, `buffered_io_handler.cc` | `io_buffer` | `IOHandlerProofs` |
| `CurlIOHandler` | `iohandler/curl_io_handler.cc` | `io_buffer` | `IOHandlerProofs` |
| `ProcessIOHandler` | `iohandler/process_io_handler.cc`, `io_handler_chainer.cc`, `transcoding/transcode_ext_handler.cc` | `io_buffer` | `IOHandlerProofs` |
| `SqliteDriver`, `MysqlDriver`, `PostgresDriver` | `database/sqlite3`, `database/mysql`, `database/postgres` | `sq_queue` | `DatabaseProofs` |
| `DatabaseSetup` | `database/sqlite3/sqlite_database.cc`, `database/sql_migration.cc` | `sq_queue`, `su_loss` | `DatabaseProofs` |
| `ObjectTree`, `ImportService` | object table of `sql_database.cc`; `content/import_service.cc`, `content/layout` | `db_tree`, `db_inotify` | `ImportServiceProofs` |
| `Playlists` | `content/scripting`, `scripts/js/playlists.js` | `db_tree` | |
| `ContentDirectory` | `upnp/cont_dir_service.cc`, `SQLDatabase::browse` | `db_tree` | |
| `Search` | `database/search_handler.cc`, `SQLDatabase::search` | `db_tree` | |
| `InotifyWatches` | `content/inotify` | `in_watch` | |
| `FileRequest` | `request_handler/file_request_handler.cc`, `server.cc`, `iohandler`, `transcoding` | `rq_serve` | `RequestProofs` |
| `ClientManager` | `upnp/client_manager.cc` | `rq_serve` | `RequestProofs` |
| `ConfigOptions` | `config/config_options.cc` | `rq_serve` | |

The `MC` modules give each of them small constants; where several are checked in one run, the
first state chooses a part, and the variables of the others stay as they are.

### UpdateManager

| model | code |
|---|---|
| `objectIDHash`, `lastContainerChanged`, `flushPolicy`, `shutdownFlag` | the members of that name |
| `pc` | where `threadProc` is: `idle` is `wait`, `sleep` is `waitFor`, `send` is without the mutex |
| `elapsed` | `specInterval` has passed since `lastUpdate`; the whole of the clock |
| `call[c]` | a `containersChanged` that released the mutex in its loop: the ids left, and the local `signal` |
| `killed` | `kill(0, SIGINT)` after an exception of the database or the server |
| `unsent` | auxiliary: reported, and in no update yet |

A set of ids has no order in the source (it is a vector of whatever order the database
returns), so the part inserted before the hash overflows is any part of the right size. An id
may have no row any more: `event` is any subset of the hash. `flush` may instead throw.

### Timer and WebSessions

| model | code |
|---|---|
| `subscribers`, `left` | `Timer::subscribers` and, for each, the ticks until its next notification |
| `tpc`, `wait`, `toNotify` | where `Timer::triggerWait` is, its time to wait, its copy of those to call |
| `lost` | auxiliary: a notification came between the test and the wait |
| `sessions`, `loggedIn`, `updateAll`, `uiUpdateIDs`, `age` | the array of `SessionManager`, the fields of `Session` |
| `switching` | sessions in `containerChangedUI` between its two assignments, which `hasUIUpdateIDs` reads without a mutex |
| `poll` | what a page with `updates=get` has read so far |
| `unseen` | auxiliary: changes the browser has neither been told of nor loaded |

The timer waits with a mutex that nobody else takes, so what it has tested can be old when
it starts to wait: the test and the wait are two actions.

### ContentTasks

| model | code |
|---|---|
| `taskQueue1`, `taskQueue2`, `currentTask`, `taskID` | members of that name; a deque is a set, its front the least id, as ids are given out and tasks pushed in one critical section |
| `invalid` | ids of tasks whose `valid` is false |
| `listed`, `taskCount` | `AutoscanList` (with a mutex of its own) and the count in each directory |
| `overwritten` | auxiliary: updates of a count that the store of another thread undid |
| `known` | directories with a container in the database |
| `stale`, `gone` | tasks and autoscan directories whose container has been deleted, so that loading it by id fails |
| `pc`, `todo`, `next`, `loaded` | where `threadProc` is, inside of which task, what of the directory is left, and the count it has loaded |
| `call[x]` | the call of another thread (inotify, timer, web) and how far it is: a rescan or add loads the count, stores it and pushes its task; a removal unlists, invalidates, and pushes its task or deletes |
| `stopping` | how far `shutdown` is: `failed` when it threw, `joining` while it waits for the inotify thread, `flagged` when `shutdownFlag` is set |
| `removals` | auxiliary: removals that are done |

The count is a plain `int`, so `++` and `--` are a load and a store, between which any thread may do the
same; `timerNotify` looks at it before it loads it. The content mutex is held where a subdirectory is counted
(`countAdd`) and by `shutdown` from its first line until the flag is set: it may throw before it has
reset the list, and it joins the inotify thread meanwhile, which ends only after the event it works on
(`joinInotify`). So a handler that waits for the mutex and `shutdown` wait for each other. The handler may also use
members of `AutoscanInotify` that are destroyed already (`useDestroyed`); what uses the list after it was
reset (a cleanup, `findAutoscanDirectory`, a rescan of a directory that is gone) dereferences a null pointer.
Both end in `crashed`. Web requests are over when `shutdown` begins; the inotify thread and the timer are not.

Files (as opposed to directories) are left out, since they queue nothing; the import of a
directory is one step, with what is below it, or any part of it or nothing if it is
stopped (`ImportService` takes it apart). Tasks of online services and what the
inotify thread adds synchronously are left out.

### AutoscanRegistry

| model | code |
|---|---|
| `ads` | the `AutoscanDirectory` objects by reference; `owner` is the object that made the timer parameter, which copies share |
| `list`, `nextIndex` | `EditHelper::list`, and the next free key of `indexMap` |
| `subs` | `Timer::subscribers` of autoscan directories |
| `rows`, `flags` | the autoscan table; containers with `OBJECT_FLAG_PERSISTENT_CONTAINER` |
| `worker[w]` | a request of `Web::Autoscan::editSave` and the statement it is at |
| `phase`, `saved` | up, closing (`updateLMinDB`), aborted by its exception, down |
| `fired` | the last notification: the directory whose subscription it was, and the one scanned |
| `misled` (`MCAutoscanRegistry`) | auxiliary: whether a request has named a watched directory by the id of its container, and if so, since the last start or before |

A container is identified with its directory. Containers are not removed, and inotify
mode is left out. The three selects of `_checkOverlappingAutoscans` are one step, and so
are a select and a delete by the same key; every other statement is a step of its own, as
nothing holds a lock or a transaction over two of them. Keys of rows are those of SQLite
without AUTOINCREMENT: one above the highest. Rows come in any order at a start, since the
select has none. The timer parameter is the scan id at the time of the subscription.

### ByteStream, BufferedIOHandler, CurlIOHandler

`ByteStream` is the promise of `IOHandler::read`: the next bytes, at least one and at
most as many as asked for; or the end, which is true; or an error; and an answer always.
`BufferedIOHandler` is the code:

| model | code |
|---|---|
| `buffer`, `startIndex`, `endIndex`, `empty` | the ring |
| `waitForInitialFillSize`, `eof`, `readError`, `threadShutdown`, `posRead` | members of that name |
| `reader` | the caller of `read` or `close`; `seen` is its copy of the end index from before it unlocks |
| `thread` | `threadProc`: what it asks the handler for, and what it got |
| `delivered` | what the underlying handler has delivered |
| `out`, `result` | auxiliary: what the reads have returned |

The cells have arbitrary content at first, since the constructor does not clear them. The
copy of bytes outside the mutex is one step at its end: anything that the thread might
overwrite meanwhile it has overwritten by then. `seekEnabled` is false in this class
(`buffered_io_handler.cc:57`), so the branches for `doSeek` are dead. A handler is
opened once. An error is -1, as with npupnp and with libupnp from 1.18.2; before that it is 0
and the caller cannot tell it from the end.

`CurlIOHandler` is the other class with that ring: libcurl fills it in pieces of any size, and it
seeks. `cells` hold positions, so that a byte out of place shows; `doSeek`, `seekTo`, `isFresh`
are members of that name; `resume` is the position the next request starts at; `eof` and
`readError` are set, and `doSeek` is read, without the mutex, which are steps of their own. `flaws` notes
each of the defects of section 7 the behaviour has met, and the properties name those that
excuse them: a property says that nothing else goes wrong.

### ProcessIOHandler

The caller (`client`), the external program (`agent`), the thread of `IOHandlerChainer`
(`chain`) and the two FIFOs between them (`inFifo`, `outFifo`, with the flags that say
whether anybody writes or reads). `files` are the FIFOs in the temporary directory. The program is
external: slow, hanging or failing at any time, but if it ends by itself with success it
has read and written everything. `raced` and `repeated` note a timeout that met the end of
the program, and a partial write that the chainer repeats (section 7).

### SqliteDriver, MysqlDriver, PostgresDriver

| model | code |
|---|---|
| `use_transaction` | the option `use-transactions` |
| `taskQueue`, `taskQueueOpen`, `shutdownFlag`, `dirty` | members of `Sqlite3Database`, `PostgresDatabase` |
| `inTransaction`, `sqlMutex` | the flag by which operations take turns; who is in `beginTransaction` (or, with MySQL, a select) |
| `tpc` | the database thread |
| `tx`, `txWrites`, `durable`, `backup` | the database: an open transaction, writes in it, those on disk and in the backup file |
| `gone`, `conn` | a lost connection (MySQL, PostgreSQL) |
| `pc`, `prog`, `reply` | of each caller: where it is, the statements left, the last answer |
| `broken`, `harmed` | auxiliary: a wait for the turn gave up; the flag did not keep operations apart |
| `told`, `acked` | auxiliary: writes a caller was told of; those of operations that returned |

An operation of `SQLDatabase` is a single statement, a select (`look`), several writes between
`beginTransaction` and `commit`, or several of which the second part throws before the commit.
Any statement may fail, up to a bound. Of SQLite: one transaction per connection, a failed
BEGIN or COMMIT changes nothing. Of MySQL: `START TRANSACTION` commits the one that is
open. Of PostgreSQL: each task is a transaction of its own (`pqxx::work`).

### DatabaseSetup

`pc`, `at`, `part` say where the start is (open, restore, create, upgrade from version to
version, fill in columns, back up); `db` is what the database holds, `file` and `backup` what
the two files hold, `wal` and `onError` are options. `Scripts` gives the statements of each
upgrade by what running them twice does; the server dies between any two of them.
`harmed` notes the deaths of section 7 that later starts cannot repair. A backup that can be read counts, also one without
tables (`NoFile`, as opposed to `NoBackup`): the start restores it, finds no version and ends.

### ObjectTree and ImportService

| model | code |
|---|---|
| `tree` | `mt_cds_object`: type, parent, location, reference and tag of each row |
| `removal[t]` | a removal of the content thread or a web page: `_removeObjects`, `_recursiveRemove`, `_purgeEmptyContainers`, statement by statement |
| `disk`, `lost` | what each file holds; directories that are gone |
| `own`, `shared` | `containerCache` of the directory's import service, and of the content manager's own |
| `activeScan`, `adirId` | `ImportService::activeScan`, `AutoscanDirectory::objectID` |
| `queue`, `import` | tasks of the content thread; the one it is in, with its state cache |
| `report` | auxiliary: how the last task ended |

A tag stands for the contents, the modification time and the layout of a file. Metadata, fan
art and times of containers are left out; `ensurePathExistence` is one step; removals come
first and other tasks in order; the inotify thread imports synchronously, one import at a
time; the watched directory is persistent. A removal gives up after 500 turns in the code (`MAX_REMOVE_RECURSION`), and never in the model.
Keys are those of SQLite, so a key may come back. `Spec` lets the threads' statements interleave as they may;
`SequentialSpec` lets removals and changes of directories fall between tasks.

### Playlists

`import` follows `doImport` over a playlist: the lines (`list`), the entries the script has gathered,
the items it adds to the two containers (`entries`) and the pruning of what is left from the last
time. `disk` and `rows` are versions of media files on disk and in the database. `missed`,
`lost`, `ruined` note which entries the last import could not see. Left out: ASX
`writeThrough`, metadata defaults, the containers themselves, XML, titles of untagged files.

### ContentDirectory and Search

In `ContentDirectory` the tree is one branch of containers that come with their first item and go
with the last; `import` is what writes it (built-in layout, JavaScript layout, or the
scan of files, which report different containers), `changed` and `systemUpdateID` are what
`UpdateManager` promises; `client` is the page a client is at and the listing it
keeps; `dynamicContainers` is the map of that name. `Search` is `SearchParser` and `DefaultSQLEmitter` on
tokens, and the `mapper` whose joins all requests share; the meaning of SQL is defined in the module.
Its operators are recursive, as the parser is.

### InotifyWatches

| model | code |
|---|---|
| `inode`, `kernel`, `events` | external: directories, watch descriptors, events not read yet |
| `watches` | `AutoscanInotify::watches`: for each descriptor its path and what it is watched for |
| `monitorQueue`, `unmonitorQueue` | queues of that name |
| `todo` | what `threadProc` has still to do before the next event |
| `missed`, `strayed`, `hurried`, `overlooked` | auxiliary: the races of section 7 that happened |

Left out: an exception of a handler (`content/inotify/autoscan_inotify.cc:185`), which skips the rest of its event, the watch of a
new directory included.

### FileRequest, ClientManager, ConfigOptions

`FileRequest` follows the callbacks of libupnp for one request: `GetInfo` announces a length,
`Open` makes an I/O handler for one of six kinds of content, `Seek`, `Read` and `Close`. Between any two the
file (`version`), the object (`alias`) or the archive changes and the server shuts down. `cut` is a transcoding in the process
that takes a packet it cannot read or decode for the end of the file (`FilterPackets`).
`ClientManager` has the vector of clients (`cache`) and requests with pointers into it
(`calls[r].ptr`, 0 when the storage is gone, `moved` when it is another client's by now).
`ConfigOptions` is `ArrayOption` and `DictionaryOption`: `option`, `origSize`, `indexMap` as in the code, a `size_t` that
wraps at `MaxSize`; `asked` is what the user asked for, `spoilt` the defects of section 7.

## 4. The runs

Constants are chosen so that each branch is taken; every passing run covers the whole of its
state space. States are distinct states. A property that covers several parts is the
conjunction of the parts' own (each part's type invariant included, in one of them).

| run | constants | states | shows |
|---|---|---|---|
| `um_all` | *configured*: 3 ids, one caller, reports of one id, hash of 2, overload 3; *tiny*: hash and overload 1, reports up to 3, spurious wakeups; *browsers*: two sessions, one with a password, one id, limit 2, timeout 1, a second subscriber of the timer | 158,428 | `NoLostUpdate`, `EachModerated`, `ChangesAreSent` (with the cache, and the split call's return); `NoChangeForgotten`, `ExpiredSessionsGoUnlessLost`, `ShutdownEnds` |
| `um_split_idle` | 4 ids, hash of 2, overload 1 | | `IdleMeansNoUpdates` is **violated** by a split call |
| `ct_scan` | directory and subdirectory, autoscan directory at the top that a removal drops; inotify thread, timer, web; each load and store of a count apart; 3 tasks | 5,357,393 | `CountNeverShort`, `NoAddBelowRemoval`, `RemovedStaysRemoved` |
| `ct_live` | the autoscan directory is from the configuration, adds with and without it, 2 tasks | 478,742 | `TasksAreServed`, `ShutdownEnds` |
| `ar_requests` | three requests by directory or object id, one directory of the configuration; *concurrent*: two of them at a time; *sequential*: one by one, two starts, crashes | 3,152,454 | `ScanIDsUnique`; `SequentialNoOverlap`, `SequentialRestartKeeps` |
| `io_buffer` | *buffered*: 7 bytes, ring of 3, pieces up to 2, initial fill 2, reads of 1 and 3; *curl*: 4 bytes, pieces of 1 and 2, reads of 2, two seeks; *process*: 3 bytes, FIFOs of 2, reads of 2, one retry | 545,396 | `IsByteStream` (refinement), `NeverBothWait`, `CurlRightBytes`, `ReadInOrder`, `EndIsWhole`, `ReadReturns` |
| `sq_queue` | *serve*: two callers with one operation each, one error, both modes of transactions, 3 attempts of shutdown; *mysql*: up to 3 operations, one lost connection; *postgres*: one operation each; *start*: 5 versions, 2 deaths, 1 error, 2 losses, 1 copy | 559,010 | `OperationsAreApart`, `AckedIsKept`, `BackupIsCurrent`, `ReadyIsWhole`, `OperationsEnd` |
| `su_loss` | the start of *start*; a first start of a new server in journal mode WAL, whose backup has no tables | | `LossIsRecovered` is **violated** |
| `db_tree` | *tree*: directory, subdirectory, a file in each, two nested virtual containers, two layouts, 3 tasks, 2 changes; *browse*: two levels, 3 items, 2 changes, pages of one; *search*: each of 574 criteria; *searches*: two at once; *playlists*: two files and a URL, 2 changes | 1,772,284 | `ImportSucceeds`, `TreeIsSound`, `ScanMirrorsDisk`, `VirtualTreeIsComplete`, `RemovalIsWhole`; `ListingIsFresh`, `DynamicIsShown`; `SearchIsExact` |
| `db_inotify` | the tree part in inotify mode, one virtual container | | `ImportSucceeds` is **violated** |
| `in_watch` | six directories, 3 changes, 2 calls of monitor or unmonitor | 1,659,050 | `TreeIsWatched`, `ComesBack`, `UnmonitorEnds` |
| `rq_serve` | *content*: two requests; *stream*: one request of any kind, 2 changes; *phone*, *player*: one address with three user agents, two addresses with one; *config*: lists of up to 3 entries, indexes to 4, `MaxSize` 7 | 597,655 | `InOrder`, `EndIsWhole`, `ServedAsItself`, `EditsAreLocal` |

Why the bounds are enough to be of use:

- *Update manager.* The limits of the source (1000 ids, overload 30) matter only by
  comparison; with a hash of 1 or 2 and 3 or 4 ids every comparison goes both ways. One
  split call and the unsplit calls of `containerChanged`, which needs no caller, interleave.
- *Sessions.* Two sessions that do and do not log in, an id and the limit, a timer with a second
  subscriber that wakes it early: each test of `checkTimer` and `hasUIUpdateIDs` meets each other call.
- *Tasks.* Three tasks are a rescan, what it spawns, and a removal or an add that
  overtakes it. A directory and one below it are enough for every test of `isSubDir`.
- *Register.* A recursive directory and one below it are the least that can overlap; three
  requests are to add, to change and to remove, with a restart anywhere between. A request by object id that names
  a watched directory works on a new object instead of the entry of the list, so that list and rows
  disagree until the next start (section 7): `misled` says so, and the property holds before and after.
- *Streams.* Seven bytes go through a ring of three cells at least twice, so that both indices
  wrap, also in the middle of a copy, with the ring empty, full and in between. Two seeks of each kind
  are enough to seek while a seek is pending.
- *Drivers.* Two callers meet in one transaction; one error comes at any statement. What more callers,
  operations and errors add is covered by the proofs. Five versions hold each kind of statement that
  the 29 upgrades are made of.
- *Tree.* Two nested virtual containers are the least with a chain; two files of which one is below the
  other's directory; three tasks are a scan, a removal and a scan, with changes between their statements.
- *Requests.* Contents of three bytes have a first, an inner and a last one; one replacement before or after
  any callback.

`CHECK_DEADLOCK FALSE` is set in each configuration: a server that is shut down and a
handler that is closed stop, and the bounded models stop when their bounds are
used up. Each property of a passing run also comes with a mutant, a plausible error in
the modelled code (marked `mutant` where it is defined) with which the run fails.

The bounds `MaxReport`, `MaxTaskID`, `MaxRequests`, `MaxStarts`, `MaxSeeks`, `MaxRead`, `MaxOps`, `MaxErrors`, `MaxCuts`, `MaxLosses`,
`MaxDeaths`, `MaxCopies`, `MaxTasks`, `MaxChanges`, `MaxCalls`, `MaxId`, `MaxCount`, `MaxTime`, `MaxClients`, `MaxOrig`
and `MaxIndex` are in guards and not in the code. At `MaxTaskID` a caller adds no task and a rescan ends.

## 5. Fairness

- `UpdateManager`: weak fairness of the thread, of the clock, and of the shutdown that
  follows SIGINT. For a caller in the inner `while` of `containersChanged`, which unlocks and locks
  in a loop, weak fairness is not enough: the hash may be small each time it
  is about to look and full again when it does. Strong fairness of the step with
  a small hash says that this caller gets the mutex at some such moment; a `std::mutex` does not
  promise it, but other callers would have to refill the hash in every one of these moments.
- `WebSessions`: weak fairness of the timer thread, the clock, a shutdown that has begun, and of a
  call between its two assignments; strong fairness of `timerNotify`, which needs the mutex of the
  manager: the calls of pages hold it for moments only, but there may always be another.
- `ContentTasks`: weak fairness of the thread, of each call under way, and of the end of a join of the inotify
  thread. The calls themselves and `shutdown`, which may throw, are not fair. Only tasks of high priority are promised a start, since those of
  low priority wait until there are none of the other.
- `BufferedIOHandler`, `CurlIOHandler`: weak fairness of the reader and of the thread, which includes the read
  of the underlying handler or the progress of libcurl, which has timeouts. Spurious wakeups are
  possible and not fair. These give `WF(Answer)` and `WF(EndClose)` of `ByteStream`.
- `ProcessIOHandler`: weak fairness of the caller and the chainer; none of the program, which may hang: `read` waits
  with a timeout.
- `SqliteDriver`: weak fairness of the database thread, of each caller that has begun and of the shutdown;
  strong fairness of `lockBegin`, which needs the mutex at a moment when nobody else has it. The wait in
  `beginTransaction` gives up after a time, so it is a step that is always possible.
- `AutoscanRegistry`, `ImportService`, `InotifyWatches`, the requests and the other drivers state safety only; what ends is
  stated about their states at rest.

## 6. Proofs

All are for every value of the constants, under the named assumptions in the modules. The
proof modules extend the module they are about, or its `MC` module where they state a property
of a run that joins several parts. No proof depends on a bound having some value.

**`UpdateManagerProofs`** (`TypeCorrect`, `CacheCorrect`, `NothingLost`, `ModeratedUnlessSplit`, `PagesForgetNothing`,
`EachPartModerates`). `NoLostUpdate` is not
inductive: `containerChanged` drops an id that equals the cache. `IInv` adds `CacheInHash`, so
that this id is in the hash already, and that a finished call has nothing left
(`IdleCallsEmpty`). The steps of the thread either drain hash, cache and
`unsent` together or leave them alone (`Drains`, `Keeps`), which is the point of the proof: the reset
of the cache and the clearing of the hash are in one critical section.
Moderation rests on `ModInv`: the thread sleeps only over updates, and whoever wakes it leaves a reason to send at once (a full
hash, an immediate policy), which stays until it does. The attempt to prove it for calls that are split failed for the
reason given in section 7, so the theorem has the hypothesis that no call is split (`[]Quiet`) and no wakeup spurious. With
room for one id (*tiny*) neither matters, as every update fills the hash (`TinyNext`).

**`WebSessionsProofs`** (`NothingForgotten`). A change that is not in the session's ids is covered by
`updateAll`. The invariant adds that a session between the two assignments of `containerChangedUI` has `updateAll` set
(`SwitchingIsAll`), so that clearing the ids loses nothing whatever pages read meanwhile; an answer waits for the
mutex of the session. `SessionAssumption` says of the constants what the code has: intervals from 1 on, the manager subscribed for good. TLC evaluates
it for the instance (`PagesAssumption`), and `PagesForgetNothing` cites the proof for that instance.

**`ContentTasksProofs`** (`TypeCorrect`, `NoAddBelow`, `RemovalFinal`, `CountCovers`).
`TInv` is the types with two facts: the thread has a task while it works on one, and rescans have an
autoscan directory. `NoAddBelow` rests on `RemovalsClean`: a path that a removal has unlisted has no listed
autoscan directory below it that the removal should drop (`Forgotten`), and once its tasks are
invalidated as well, no valid one of a rescan is left (`Purged`). Both survive the steps of the thread because of
`QueueGrows`: a new task of a rescan belongs to a directory that is listed at that moment. This is where the
second look of the rescan counts, under the mutex of its `addTask`. `RemovalFinal` is about tasks of anybody:
what the thread invalidates in its own `cleanupTasks` stays so (`Swept`), and a later task has a
greater id (`IdsGrow`, `Moves`). `CountCovers`: the tasks of a directory, in the queues and in hand, are counted by cardinality. The
invariant (`Cover`) adds those that are counted and not pushed yet, by a call (`CallsAhead`) or by the thread itself (`ThreadAhead`): the count with
the updates that were undone (`overwritten`) is at least all of these together. A store adds to `overwritten` what it undoes, so it raises
the sum by one, whatever other threads stored since its load; a push moves a task from one summand to another. It assumes nothing of how
loads and stores interleave.

**`AutoscanRegistryProofs`** (`TypeCorrect`, `ScanIDs`, `OneRequestNoOverlap`, `SequentialRowsApart`,
`SequentialRestarts`). `TInv` adds that
references are in range and nobody serves requests unless the server is up. `ScanIDs`: an
entry has an id below the next index (`IDs`), and the objects that requests still write to are not in the
list, each in the hands of one request (`OwnInv`), so that a request cannot
change the id of an entry by the object it holds. This holds for any number of
concurrent requests. The others are about requests that come one after the other (`[]OneAtATime`, or the sequential instance of the
run, where no step begins a second request: `OneRequestInv`), without which they are
false (section 7). `OneRequestNoOverlap`, `SequentialRowsApart`: what was checked is still true when the row is written (`CheckedInv`).
`SequentialRestarts`, for any configuration and for requests by path or object id: in the middle of a request the list and the table differ by the row the request is about and by
nothing else (`KInv`; `Mirrors` with the row that is `Stale` and the one that is `Fresh` at each call), and each call relies on what
the earlier ones established (`Removes`, `Adds`, `Changes`): the entry a request took from the list is still there, the
copy has the id of the entry it replaces, and the check before the change implies the one after it. Entries of the configuration have
no row (`Rowless`, `TheRow`), and a request that removes or changes one leaves the table alone. A request that names a
watched directory by object id ends `KInv` until the next start (`misled`), but never what that start
begins from: that rows have distinct keys (`KeysInv`, `StepKeys`). A start makes one entry of each row (`StartKInv`), and so brings `KInv` back.

**`IOHandlerProofs`** (`TypeCorrect`, `ImplementsByteStream`, `NoMutualWait`, `FillFirst`; `CurlServesRightBytes`; `ProcessReadsInOrder`,
`ProcessEndIsWhole`). *The read-ahead buffer*: `IInv` says where each byte is (`FlowInv`): read, in the ring at its place, or in the
piece the thread has filled in and not yet counted; and that this piece is in cells outside of what the
reader may copy (`RingInv`), whatever the reader does meanwhile. Each step of the code
then is an answer of `ByteStream` or leaves it unchanged. `WaitInv`: a thread
that waits has seen a full ring and a reader that waits an empty one or one below the
initial fill, which is at most the size of the ring; so they never both wait. `StartInv` follows the initial fill.
*Curl*: as long as no flaw has
occurred (`Clean`), the ring holds the bytes from `posRead` on and the request goes on behind them, and `pos`, the position the
caller means, is `posRead` or the target of the pending seek (`CurlStream`). A seek is pending only while its caller waits
(`CurlSeek`), which is why nothing is read between the request of a seek and its answer; and a piece that is stored fits,
whatever a seek in the callback did to the ring (`CurlRing`). *Process*: where each byte is, from the source to the client:
`SourceInv` follows them through the chainer and its FIFO until a part of its buffer is repeated, `OutInv` through the second
FIFO and the call under way until the end is told. `ToldInv`: a program that ended well by itself has had the whole source,
which is so only for one that reads the source itself (`Whole`), as a FIFO of the chainer is closed with the handler; and an empty, closed
FIFO leaves nothing that was not read. So the end is whole also where reading the source failed or a part was repeated: with a chainer it is not told. `LeftInv` follows what the handler
leaves behind. `MCInv` joins both with `IInv` for the run, in which one of the three moves.

**`RequestProofs`** (`RequestsInOrder`, `RequestsEndWhole`), for any number of requests, any sizes of content, reads and packets. `Sound`
follows one request from callback to callback: what GetInfo announced is kept (`Announcement`), nothing is sent before the first read
(`Fresh`), and what was sent is the bytes from the start of the range on, up to the place of the handler less what is kept of it (`Reads`).
A transcoding at its end keeps a rest that is shorter than a read, so the end is never told of it and `Ended` needs nothing more
of it. Where a failure was taken for the end (`cut`), what was sent is all up to the packet that failed. The place of the handler never passes the content, whichever file it is by then
(`SizesAre`). `ArchiveInv`: an archive belongs to a request that is not closed, and who lost one lost it to a request that is. Each callback moves one request
and disturbs the archives in no other way (`Moves`, `Quiet`).

In the same module, `ServedByOwnProfile` and `ClientsServedApart`, for any clients, profiles, requests and bounds. `ServedInv`: the
entry a request holds is in the list, and as long as its pointer was not moved it has the profile the client is known by (`Own`), so that
is what it is told (`Told`). Whatever changes the list (an entry that is renewed, erased, or appended in place or with another
storage), each request either keeps its entry or is marked as moved (`Follows`). One entry for each client needs more: of the entries of
one address only the last may have a profile that is for all (`Apart`), since the search takes the first that matches; the profile of
the others is what their address or user agent tells (`Direct`), so that a restart, which forgets descriptions, leaves it; and a
client known by such a profile never holds an entry for all and downloads no description (`Steady`). This has the hypothesis
`KnownDirectly`: no profile with `unique="no"` is matched by a description. Of the built-in profiles
only that of the server itself is not unique, and it is matched by its address (`upnp/client_manager.cc:292`); a configured one may be
(`config/setup/config_setup_client.cc:89`), and then `OneEntryEach` fails (section 7). The lemmas about places of a list
(`Listable`, `InOrderIs`, `EntriesAtIs`), by the least counterexample, say that `std::remove_if` keeps the others in their order.

**`DatabaseProofs`** (`SqliteTogether`, `DriversInvariant`, `OperationsApart`, `AckedStays`, `BackupIsKept`, `StartIsWhole`), for any callers,
operations and errors. *SQLite*: `TInv` gives each caller its program and place, and each waiting caller exactly its one task in the queue.
Without transactions what a caller was told is on disk (`PlainInv`). While nothing has failed there is no
ROLLBACK, so what was told is in `durable` or in the open transaction (`QuietInv`). While moreover no wait for the turn gave up, at
most one caller has the turn, the transaction of the connection follows its program, and holds its writes and no
others (`CalmInv`, `TurnInv`): hence its operation is on disk as a whole or not at all. That the database thread works on while the counter of shutdown
attempts is 1 needs `shutdownAttempts` of at least 2 (`AttemptsAssumption`, `config/config_definition.cc:301`). *MySQL*: as long as the flag kept
operations apart (`harmed` is false), whoever begins, is inside, or selects holds the flag, and an open or
lost transaction is its own (`MyTurn`), through failed statements and lost connections. *PostgreSQL*: while the connection is there and nothing
failed, every answer is good (`PgCalmInv`) and the owner of the flag is one (`PgTurn`); each statement is on disk when its caller is told
(`ToldIn`). *The start*, for any upgrades that move metadata and make entry types once each, as those of `sqlite3-upgrade.xml` do
(`UpgradeAssumption`): what a file can hold follows from its version, apart from what the statements of that version have
already done (`Aged`, or `Young` where the server created the database after a loss), and the start knows at each place which of
them are behind (`Past`, `PlaceInv`). A death outside `Fragile` leaves what the first statement can be run on again
(`Opened`); each statement, run again or not, leaves what it is for (`AddStatement`, `ClassifyStatement`, `MetadataRebuilt`, ...), so that the
version is only raised over complete upgrades (`NextVersion`), and a complete database is the whole one, part by part (`CompleteIsWhole`).
A start that ends without a server was harmed, was told to (`on-error`), or found neither tables nor a backup with any.
`PartsInv` joins the four parts of the run.

**`ImportServiceProofs`** (`TypeCorrect`, `NoRowDangles`, `RemovedIsGone`, `RemovalsAreWhole`), for any files, directories, layouts and depth of the tree.
`Spec`, in which the statements of all threads interleave, keeps `IInv`: what the foreign keys promise (`NothingDangles`) with the types
of the rows, and of each thread and of the import what the next statement relies on (`IsRemoval`: never a root; `Focus`, `FileObjects`). A delete takes
the least set of rows with what is below and what refers to them (`CascadeIsLeast`, by induction over the turns of the cascade), so that
nothing dangles after it. The other two are about `SequentialSpec`: its steps let one removal go on at a time (`Alone`, `InTurn`), which since its begin has seen rows go
and none come or change (`Shrunk`). `Taken` says where the listed objects are at each statement; with `NothingDangles` what hung on them is gone
with them (`GoneWithAll`), however large the removal. That nothing is left empty or unreported needs more: of what it is to delete a removal has
still to look at some items for references and at some containers for children (`Unfinished`), has noted where each row is missed
(`Noted`), so that what it deletes is just what it has collected (`DeleteWhole`), and then each container that lost a row is still to be looked at, about to be
deleted, or protected and reported (`Purges`). This has two hypotheses. Rows are below containers (`TreeIsSound`), which `db_tree` checks
and which is open as a theorem: it does not hold of a layout whose own containers were purged (section 7). And what a removal has
collected is deleted at once (`FitsAtOnce`): with more than `MAX_REMOVE_SIZE` rows the references to a row that is already deleted have gone with it, and their
containers are neither purged nor reported.

Only model-checked: the liveness properties (`EveryChangeSent`, `SplitCallReturns`, `ExpiredSessionsGoUnlessLost`, `TasksAreServed`,
`ShutdownEnds`, `ReadReturns`, `OperationsEnd`, the liveness part of `IsByteStream`), as TLAPS does not handle fairness or ENABLED; what is about
`Search`, whose operators are RECURSIVE, and what `MCImportService`, which reaches it, joins (`ListingIsFresh`, `DynamicIsShown`,
`VirtualTreeIsComplete`); and the safety properties that no theorem names, which are open: see section 2.

## 7. Where code and documentation disagree

Kept as runs, each with a counterexample:

- `um_split_idle`: `containersChanged` uses the signal decision it took before it gave up the mutex, so
  ids may lie in the hash while the thread waits without timeout, and later reports do not signal
  either (`content/update_manager.cc:92`).
- `su_loss`: the backup copies the file without its log, so in journal mode WAL, the default, a first backup
  holds no tables. When the file is lost, the start restores that backup, finds no version in it and ends, and so does every later one, instead
  of creating a database (`doc/config-server.rst:1094`; `database/sqlite3/sqlite_database.cc:160`).
- `db_inotify`: a removal by a web page clears the wrong container cache, and the next new file
  is put below a container that is gone (`content/content_manager.cc:612`).

Seen while modelling or proving, and not kept as runs. Where a property would otherwise
fail, it names the case.

*Update manager, sessions, timer*

- Found by the proof of moderation: the `signal` of a split call is also late the other way. It wakes the thread
  for updates that have been sent meanwhile, and what came since is sent before `specInterval` has passed, with a hash that is not full.
  So does a spurious wakeup of `waitFor`, as its return is not looked at again (`update_manager.cc:195`).
- A notification between the timer's test and its wait is lost (`util/timer.cc:118`): a new subscriber,
  or the shutdown, waits for whatever comes next (`web/session_manager.h:62`).

*Tasks and autoscans*

- An exception in a task, or its invalidation, leaves the task count too high, so that
  the timer does not scan the directory any more (`content/cm_task.cc:107`). The count is a plain `int`
  changed by several threads (`config/result/autoscan.h:174`): an update that another store undoes makes a directory that is being scanned look idle,
  or one that is idle look scanned for good.
- The check for overlapping autoscans and the insertion are separate statements
  (`database/sql_database.cc:2969`, `:3184` "Overlapping Autoscans are not allowed").
- The scan id is used as a position of the list (`content/content_manager.cc:283`,
  `config/result/autoscan.h:220`): the timer may scan another directory. `TimerScansItsDirectory` of `AutoscanRegistry` states what does not hold.
- A timed directory that is added or changed while the server runs is not subscribed until the
  next start (`content_manager.cc:1765`); a request by object id does not touch the entry
  of the list (`:1644`); a row's key may come back for another directory (`sql_database.cc:3011`). Both together leave a row without its
  flag: add a directory, remove it by object id, add another, which gets the key of the row, change the first by path, and die
  between the flag and the row. So `SequentialRestartKeeps` excuses what such requests do.
- `getTasklist` returns an empty list when a task of low priority waits (`content_manager.cc:393`).
- At shutdown: the inotify thread is joined with the content mutex held (`content_manager.cc:329`), for which a handler that adds or removes
  waits: both wait for ever (`JoinDeadlocked`). The members of `AutoscanInotify` are destroyed before its thread is joined.
  `updateLMinDB` may throw (`:325`) before the flag is set (`:337`), and then the thread goes on. The list is reset (`:327`)
  while the cleanup of a removal (`:1588`), `findAutoscanDirectory` (`:935`) and the head of a rescan dereference it.

*Import, layouts, playlists*

- The built-in layout keeps keys of containers that have been purged (`content/layout/builtin_layout.cc:69`, `doc/layout.rst:214`).
- A failed import leaves `activeScan` set; a null container crashes it (`content/import_service.cc:886`); `addContainerTree` looks
  and inserts in two statements (`content_manager.cc:1290`); `Layout::cleanUp` drops the containers it changed (`content/layout/layout.cc:98`);
  a web removal's `all` is passed as `async` (`web/remove.cc:54`).
- Two playlists of one title share the container below "All Playlists", whose reference is the first one's: a refresh of the first prunes
  the entries of the second.
- A playlist entry on disk that has no row is imported under the layout mutex that is held already (`import_service.cc:928`,
  `import_service.h:244`): the content thread waits for itself. The model calls this state `stuck`.
- An entry that was missing at the last import comes back only when the playlist changes. A cancelled task reads as the end of
  the playlist, and the rest is pruned. URLs have no check for duplicates; without `create-link` nothing is pruned; PLS number 0 is
  taken for 1, and titles after the last file are lost. A crash between the objects and their layout leaves them without it.

*Browsing and searching*

- A chain of two new containers reports the deepest only (`content_manager.cc:1284`, comment `:1231`); scripts add objects without an
  event for the parent of a new container; "PC Directory" is written without one (`import_service.cc:773`).
- The first page returns the requested number and the dynamic containers on top, so that a client that goes on at
  `NumberReturned` skips as many children. `TotalMatches` counts forbidden ones. An answer may carry an `UpdateID` newer than its content.
- The map of dynamic containers is changed by several threads without a mutex; one whose parent was
  purged and made anew is missing (`doc/config-server.rst`, dynamic containers).
- The search `*` always fails; three groups side by side fail and four lose two; a filter binds to the
  last alternative of an `or` only (`doc/config-server.rst:1501`); overlapping searches share aliases or fail
  (`test_searchhandler.cc:397`); a start beyond the end gives a wrong total (`sql_database.cc:1387`); `exists false` on metadata never holds.

*Inotify*

- `recheckNonexistingMonitors` changes the vector it iterates over (`content/inotify/autoscan_inotify.cc:282`, `:339`), and of two persistent
  directories that wait at one parent the second is passed over; `checkMoveWatches` goes past an iterator when a parent is renamed (`:298`).
- A persistent directory that is missing when its monitor is handled is never watched (`:123`, `doc/config-import.rst:1311`); one that comes back is
  watched but not scanned, and not below.
- `IN_IGNORED` is not asked for, so what handles it is dead and watches are never dropped; `removeWatchMoves` would loop (`:545`).
- A directory made or moved between the look and the watch is missed; one moved out is watched under its old path; an unmonitor that is
  queued before its monitor does nothing.

*Database*

- SQLite: a failed statement rolls back what other threads have in the transaction, and their commit does nothing
  (`database/sqlite3/sqlite_database.cc:312`, `:597`; `doc/config-server.rst:903`). An exception between begin and commit
  leaves the transaction open (`database/sql_database.cc:979`). `waitForTask` waits once (`sl_task.cc:64`).
- MySQL: `beginTransaction` tests and sets its flag without the mutex, and two operations may pass together
  (`mysql_database.cc:324`); a select takes and gives back the flag of another (`:360`); any rollback takes the transaction of whoever has one;
  a failed begin or commit leaves the flag set.
- PostgreSQL: each task is a `pqxx::work`, so `use-transactions` gives no atomicity (`pg_task.cc:164`); the shutdown does not tell the thread
  (`postgres_database.cc:397`), which is joined for ever; a lost connection is not opened again.
- Setup: a death after the last statement of an upgrade and before the version is written makes every later start
  fail; a failed statement is logged and the version written (`sql_migration.cc:108`); a death in the middle of moving metadata loses the
  rest; `LIKE 'F%'` takes a letter of `ftp://`; `--drop-tables` drops nothing (`doc/run.rst:429`).

*Streams*

- Curl: a seek on a new handler after a read is ignored, and one after the end of the transfer is not processed
  (`io_handler_buffer_helper.cc:142`, `:169`); a seek backwards in the buffer gives wrong bytes (`curl_io_handler.cc:196`), one by 0 with a full
  buffer drops it (`:200`); a request that ends while a seek comes keeps the old buffer (`:154`); a buffer drained by a seek, and a kept one that is full, make both
  sides wait (`:224`, `:147`); the notification at the end may be lost (`:168`).
- Process: `close` leaves the FIFO of a proxied URL open (`process_io_handler.cc:393`); a write that times out after a part returns 0 and the
  part is repeated (`:340`, `io_handler_chainer.cc:86`); a timeout that meets the end of the program drops data (`:226`); a program that waits for the end of
  a FIFO the chainer feeds never sees it, so the client is told an error after the retries, and never the end (`ToldInv` in the
  proof); `~IOHandlerChainer` frees what its thread uses; after a failed `execvp` the child goes on
  as a copy of the server (`process_executor.cc:77`).

*Requests, clients, configuration*

- `FileIOHandler::open` of a part locks twice (`file_io_handler.cc:53`); the length announced for a track is the file's
  (`file_request_handler.cc:271`); a transcoding read after its end repeats the rest (`transcode_io_handler.cc:150`); a packet that cannot be read or
  decoded is taken for the end of the file (`:360`, `:374`, `:161`), and the rest is not sent; other streams throw
  (`:367`); two requests for one container share an archive (`file_request_handler.cc:476`), and an empty one waits for ever (`:392`); the id of a virtual
  object may be another file's by now.
- Requests keep pointers into the vector of clients (`server.cc:755`); a new entry is looked up by its address only (`client_manager.cc:459`);
  a lookup does not count as a contact (`client_manager.cc:402`, `doc/config-clients.rst:56`); a profile found by description is lost at a restart (`:57`);
  a client whose profile has `unique="no"` and is found by a description may get two entries after a restart: the first entry of its address
  is unknown again and so matches every client, the next request takes it over, and its own comes behind it. This is why the
  proof has `KnownDirectly`; with a `ByDescription` of `bubble` TLC finds it.
- `DictionaryOption::setKey` tests the wrong index, so that removing a key erases all added since (`config_options.cc:69`);
  an array without entries gets index `SIZE_MAX` (`:152`); removing an entry twice erases before the begin (`:143`).

## 8. What is not modelled

Within the modules: see the abstractions in section 3. Of the components:

- **Online services**: no service is registered in this version, so the code is dead; its task processor notifies
  without the mutex and its shutdown may hang.
- **Play status** (`triggerPlayHook`): a load, an increment and a save without a transaction, which loses increments.
- **Object store**: how an object is split over tables, and what of a reference falls back to its original, is code on data; its
  statements are atomic in the models above it.
- **Metadata, XML, web pages that load or print, configuration definition, transcoding profiles, the JavaScript of the web interface**: one
  request, one answer; they keep no state that several actors change, and their correctness is about formats.
- **Configuration through a restart** (`web/config_save.cc` and the overlay in the database), **the order of the server's shutdown**, **last modification
  times per location**: next in the plan (section 2).

`PROJECT.json` gives the reason for each.
