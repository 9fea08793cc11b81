--------------------------- MODULE AutoscanRegistry ---------------------------
(***************************************************************************)
(* The register of autoscan directories of Gerbera, which exists three     *)
(* times: as the watch list in memory (AutoscanList, an EditHelper), as    *)
(* the rows of the autoscan table (SQLDatabase) and as the subscriptions   *)
(* of the timer thread.  Requests of the web UI (Web::Autoscan::editSave)  *)
(* change the three one call after the other, and several requests may be  *)
(* under way; a restart builds the watch list and the subscriptions from   *)
(* the rows and the configuration.                                         *)
(*                                                                         *)
(* A container is identified with the directory it stands for; containers  *)
(* are not removed.  An action is one call of the watch list, of the timer *)
(* or one statement (the check: three selects) of the database.            *)
(***************************************************************************)
EXTENDS Integers, Sequences, FiniteSets

CONSTANTS
    Paths,        \* directories that have a container in the database
    Inside,       \* <<p, q>>: directory p lies somewhere below directory q
    Config,       \* for each mode, the directories of the configuration file
    Workers,      \* threads that serve requests of the web UI
    Via,          \* how a request names its directory: "fs", "object"
    MaxRequests,  \* bound: requests in one behaviour
    MaxStarts     \* bound: starts of the server in one behaviour

Modes == {"timed", "manual"}
Setting == [path : Paths, mode : Modes, recursive : BOOLEAN]

ASSUME PathsAssumption ==
    /\ Inside \subseteq Paths \X Paths
    /\ \A p \in Paths : <<p, p>> \notin Inside
    /\ Config \in [Modes -> Seq(Setting)]
    /\ \A m \in Modes : \A i \in DOMAIN Config[m] : Config[m][i].mode = m
    /\ Via \subseteq {"fs", "object"}
    /\ MaxRequests \in Nat /\ MaxStarts \in Nat

INVALID == -1     \* INVALID_SCAN_ID
NoRow   == 0      \* databaseID of a directory without a row
NoDir   == 0      \* nullptr

VARIABLES
    phase,      \* "up", "closing" (updateLMinDB under way), "aborted", "down"
    ads,        \* the AutoscanDirectory objects; a reference is an index
    list,       \* AutoscanList::list, a sequence of references
    nextIndex,  \* getEditSize(): one above the highest key of indexMap
    subs,       \* Timer::subscribers
    rows,       \* rows of the autoscan table
    flags,      \* containers with the flag PersistentContainer
    worker,     \* the request each worker serves, and where it is
    saved,      \* entries of the list updateLMinDB has written
    fired,      \* the last notification: the directory due, the one it scanned
    requests,   \* requests so far
    starts      \* starts so far

vars == <<phase, ads, list, nextIndex, subs, rows, flags, worker, saved,
          fired, requests, starts>>
memory == <<ads, list, nextIndex, subs, fired>>
counts == <<requests, starts>>

-------------------------------------------------------------------------------
(* The pieces of state.                                                    *)

\* AutoscanDirectory: owner is the object that holds the timer parameter
AD(s, persistent, scanID, row, owner) ==
    [path |-> s.path, mode |-> s.mode, recursive |-> s.recursive,
     persistent |-> persistent, scanID |-> scanID, row |-> row, owner |-> owner]
ADs == [path : Paths, mode : Modes, recursive : BOOLEAN, persistent : BOOLEAN,
        scanID : Nat \cup {INVALID}, row : Nat, owner : Nat]

\* a parameter of its own for each subscription: its owner is no directory
Sub(path, id) == [path |-> path, id |-> id, owner |-> NoDir]
Subs == [path : Paths, id : Nat \cup {INVALID}, owner : Nat]

Row(id, s) == [id |-> id, path |-> s.path, mode |-> s.mode, recursive |-> s.recursive]
Rows == [id : Nat, path : Paths, mode : Modes, recursive : BOOLEAN]

Free == [pc |-> "idle", dir |-> NoDir, orig |-> NoDir, copy |-> NoDir, flag |-> {}]
PCs == {"idle", "unlist", "unrow", "unflag", "unsubscribe", "find", "check",
        "addcheck", "insert", "scan", "replace", "drop", "rescan", "update", "write"}
WorkerStates == [pc : PCs, dir : Nat, orig : Nat, copy : Nat, flag : SUBSET Paths]
Notices == [due : Paths, scanned : Paths \cup {"none"}]

Goto(w, pc) == worker' = [worker EXCEPT ![w].pc = pc]
Finish(w) == worker' = [worker EXCEPT ![w] = Free]

-------------------------------------------------------------------------------
(* The watch list.                                                         *)

Without(l, k) == [i \in 1 .. Len(l) - 1 |-> IF i < k THEN l[i] ELSE l[i + 1]]
IsFirst(l, P(_), k) == k \in DOMAIN l /\ P(l[k]) /\ \A i \in 1 .. k - 1 : ~P(l[i])
IsListed(l, P(_)) == \E i \in DOMAIN l : P(l[i])

\* the first entry of that path, if any: getKey, getByObjectID
ListedAt(path) ==
    LET Has(d) == ads[d].path = path
    IN {list[k] : k \in {j \in DOMAIN list : IsFirst(list, Has, j)}}

\* EditHelper::_add of the object d, at the given index or at a fresh one
FreshIndex == nextIndex
AddUnchecked(a, d, index) ==                                        \* mutant
    /\ ads' = [a EXCEPT ![d].scanID = index]
    /\ list' = Append(list, d)
    /\ nextIndex' = IF index < nextIndex THEN nextIndex ELSE index + 1
Add(a, d, index) ==
    LET Equal(e) == a[e].scanID = a[d].scanID
    IN IF IsListed(list, Equal)
       THEN ads' = a /\ UNCHANGED <<list, nextIndex>>
       ELSE /\ ads' = [a EXCEPT ![d].scanID = index]
            /\ list' = Append(list, d)
            /\ nextIndex' = IF index < nextIndex THEN nextIndex ELSE index + 1

\* EditHelper::remove of the object d: the first equal entry leaves the list
Remove(d) ==
    LET Equal(e) == ads[e].scanID = ads[d].scanID
    IN IF IsListed(list, Equal)
       THEN /\ \E k \in DOMAIN list : IsFirst(list, Equal, k) /\ list' = Without(list, k)
            /\ ads' = [ads EXCEPT ![d].scanID = INVALID]
       ELSE UNCHANGED <<list, ads>>

\* timerNotify: AutoscanList::get takes the id for a position of the list
Scanned(l, a, id) == IF id + 1 \in DOMAIN l THEN a[l[id + 1]].path ELSE "none"
Notify(path, id) == fired' = {[due |-> path, scanned |-> Scanned(list', ads', id)]}

-------------------------------------------------------------------------------
(* The database.                                                           *)

UpTo(path) == {path} \cup {q \in Paths : <<path, q>> \in Inside}

\* _checkOverlappingAutoscans finds a row against the directory s
OverlapsAboveOnly(rs, s, row) ==                                    \* mutant
    \E r \in rs :
        /\ row # NoRow => r.id # row
        /\ r.path = s.path \/ (r.recursive /\ r.path \in UpTo(s.path))
Overlaps(rs, s, row) ==
    \E r \in rs :
        /\ row # NoRow => r.id # row
        /\ \/ r.path = s.path
           \/ s.recursive /\ s.path \in UpTo(r.path)
           \/ r.recursive /\ r.path \in UpTo(s.path)

\* the key SQLite gives the next row: one above the highest
IsNextRow(id) ==
    /\ \A r \in rows : r.id < id
    /\ id > 1 => \E r \in rows : r.id = id - 1

\* updateAutoscanDirectory: the container the row had, and the flags after it
OldPath(ad) == {r.path : r \in {q \in rows : q.id = ad.row}}
NewFlags(ad) == IF ad.path \in OldPath(ad) THEN flags
                ELSE (flags \ OldPath(ad)) \cup {ad.path}
WrittenRows(ad) ==
    LET old == {r \in rows : r.id = ad.row}
    IN (rows \ old) \cup (IF old = {} THEN {} ELSE {Row(ad.row, ad)})
\* the unique index on obj_id refuses the update
Refused(ad) == \E r, q \in WrittenRows(ad) : r.id # q.id /\ r.path = q.path

-------------------------------------------------------------------------------
(* A start of the server: ContentManager::run.                             *)

\* getAutoscanList: the rows of a mode, in the order the database returns them
Orders(S) == {f \in [1 .. Cardinality(S) -> S] : \A i, j \in DOMAIN f : f[i] = f[j] => i = j}
RowsOf(mode) == Orders({r \in rows : r.mode = mode})
ConfigOf(mode) == Config[mode]

Start ==
    /\ phase = "down" /\ starts < MaxStarts
    /\ \E timed \in RowsOf("timed"), manual \in RowsOf("manual") :
       LET fromRows == timed \o manual
           all == fromRows \o ConfigOf("timed") \o ConfigOf("manual")
           known(i) == i <= Len(fromRows)
       IN /\ ads' = [i \in DOMAIN all |->
                         AD(all[i], ~known(i), i - 1,
                            IF known(i) THEN fromRows[i].id ELSE NoRow, i)]
          /\ list' = [i \in DOMAIN all |-> i]
          /\ nextIndex' = Len(all)
          /\ subs' = {Sub(all[i].path, i - 1) : i \in {j \in DOMAIN all : all[j].mode = "timed"}}
    /\ phase' = "up"
    /\ starts' = starts + 1
    /\ fired' = {}
    /\ UNCHANGED <<rows, flags, worker, saved, requests>>

Init ==
    /\ phase = "down"
    /\ ads = <<>> /\ list = <<>> /\ nextIndex = 0 /\ subs = {}
    /\ rows = {} /\ flags = {}
    /\ worker = [w \in Workers |-> Free]
    /\ saved = 0 /\ fired = {} /\ requests = 0 /\ starts = 0

-------------------------------------------------------------------------------
(* Web::Autoscan::editSave.                                                *)

Idle(w) == phase = "up" /\ worker[w].pc = "idle" /\ requests < MaxRequests

\* scan_mode "none": the directory to remove comes from the watch list or, for
\* a request by object id, as a new object from the database
RequestRemove(w, path, via) ==
    /\ Idle(w)
    /\ requests' = requests + 1
    /\ \/ /\ via = "fs" /\ ListedAt(path) = {}
          /\ UNCHANGED <<worker, ads>>
       \/ /\ via = "fs"
          /\ \E d \in ListedAt(path) :
                worker' = [worker EXCEPT ![w].pc = "unlist", ![w].dir = d]
          /\ ads' = ads
       \/ /\ via = "object" /\ \A r \in rows : r.path # path
          /\ UNCHANGED <<worker, ads>>
       \/ /\ via = "object"
          /\ \E r \in rows : r.path = path /\
                ads' = Append(ads, AD(r, FALSE, INVALID, r.id, Len(ads) + 1))
          /\ worker' = [worker EXCEPT ![w].pc = "unlist", ![w].dir = Len(ads) + 1]
    /\ UNCHANGED <<phase, list, nextIndex, subs, rows, flags, saved, fired, starts>>

\* any other scan_mode: a new object with the parameters of the request
RequestSet(w, s, via) ==
    /\ Idle(w)
    /\ requests' = requests + 1
    /\ LET known == IF via = "fs" THEN ListedAt(s.path) ELSE {}
       IN \E scanID \in IF known = {} THEN {INVALID} ELSE {ads[d].scanID : d \in known} :
             ads' = Append(ads, AD(s, FALSE, scanID, NoRow, Len(ads) + 1))
    /\ worker' = [worker EXCEPT ![w].pc = "find", ![w].dir = Len(ads) + 1]
    /\ UNCHANGED <<phase, list, nextIndex, subs, rows, flags, saved, fired, starts>>

-------------------------------------------------------------------------------
(* ContentManager::removeAutoscanDirectory.                                *)

Unlist(w) ==
    /\ worker[w].pc = "unlist"
    /\ Remove(worker[w].dir)
    /\ Goto(w, "unrow")
    /\ UNCHANGED <<phase, nextIndex, subs, rows, flags, saved, fired, counts>>

Unrow(w) ==
    /\ worker[w].pc = "unrow"
    /\ LET gone == {r \in rows : r.id = ads[worker[w].dir].row}
       IN /\ rows' = rows \ gone
          /\ worker' = [worker EXCEPT ![w].pc = "unflag", ![w].flag = {r.path : r \in gone}]
    /\ UNCHANGED <<phase, memory, flags, saved, counts>>

Unflag(w) ==
    /\ worker[w].pc = "unflag"
    /\ flags' = flags \ worker[w].flag
    /\ Goto(w, "unsubscribe")
    /\ UNCHANGED <<phase, memory, rows, saved, counts>>

\* Timer::removeTimerSubscriber finds subscriptions by their parameter
StillSubscribed(d) == {s \in subs : s.owner # ads[d].owner}
Unsubscribe(w) ==
    /\ worker[w].pc = "unsubscribe"
    /\ subs' = IF ads[worker[w].dir].mode = "timed" THEN StillSubscribed(worker[w].dir) ELSE subs
    /\ Finish(w)
    /\ UNCHANGED <<phase, ads, list, nextIndex, rows, flags, saved, fired, counts>>

-------------------------------------------------------------------------------
(* ContentManager::setAutoscanDirectory.                                   *)

FindOriginal(w) ==
    /\ worker[w].pc = "find"
    /\ LET d == worker[w].dir
           original == ListedAt(ads[d].path)
       IN \/ /\ original = {}
             /\ Goto(w, "check") /\ ads' = ads
          \/ \E o \in original :
                /\ worker' = [worker EXCEPT ![w].pc = "check", ![w].orig = o]
                /\ ads' = [ads EXCEPT ![d].row = ads[o].row]
    /\ UNCHANGED <<phase, list, nextIndex, subs, rows, flags, saved, fired, counts>>

\* a check that finds an overlap throws, and the request ends
CheckOverlapping(w) ==
    /\ worker[w].pc = "check"
    /\ LET d == ads[worker[w].dir]
       IN IF Overlaps(rows, d, d.row) THEN Finish(w)
          ELSE Goto(w, IF worker[w].orig = NoDir THEN "addcheck" ELSE "replace")
    /\ UNCHANGED <<phase, memory, rows, flags, saved, counts>>

\* addAutoscanDirectory: the check again and the flag
AddFlag(w) ==
    /\ worker[w].pc = "addcheck"
    /\ LET d == ads[worker[w].dir]
       IN IF Overlaps(rows, d, d.row)
          THEN Finish(w) /\ flags' = flags
          ELSE Goto(w, "insert") /\ flags' = flags \cup {d.path}
    /\ UNCHANGED <<phase, memory, rows, saved, counts>>

\* addAutoscanDirectory: the row, unless the unique index refuses it
InsertRow(w) ==
    /\ worker[w].pc = "insert"
    /\ LET d == ads[worker[w].dir]
       IN IF \E r \in rows : r.path = d.path
          THEN Finish(w) /\ UNCHANGED <<rows, ads>>
          ELSE \E id \in 1 .. MaxRequests :
               /\ IsNextRow(id)
               /\ rows' = rows \cup {Row(id, d)}
               /\ ads' = [ads EXCEPT ![worker[w].dir].row = id]
               /\ Goto(w, "scan")
    /\ UNCHANGED <<phase, list, nextIndex, subs, flags, saved, fired, counts>>

\* scanDir(d): the list takes d at its index, a timed one is notified
ScanDir(d) ==
    /\ Add(ads, d, IF ads[d].scanID = INVALID THEN FreshIndex ELSE ads[d].scanID)
    /\ IF ads[d].mode = "timed" THEN Notify(ads[d].path, ads'[d].scanID) ELSE fired' = fired

ScanNew(w) ==
    /\ worker[w].pc = "scan"
    /\ ScanDir(worker[w].dir)
    /\ Finish(w)
    /\ UNCHANGED <<phase, subs, rows, flags, saved, counts>>

\* an existing directory: its subscription goes, a copy takes the new parameters
Replace(w) ==
    /\ worker[w].pc = "replace"
    /\ LET o == ads[worker[w].orig]
           d == ads[worker[w].dir]
       IN /\ subs' = IF o.mode = "timed" THEN StillSubscribed(worker[w].orig) ELSE subs
          /\ ads' = Append(ads, [o EXCEPT !.recursive = d.recursive])
    /\ worker' = [worker EXCEPT ![w].pc = "drop", ![w].copy = Len(ads) + 1]
    /\ UNCHANGED <<phase, list, nextIndex, rows, flags, saved, fired, counts>>

\* the old version leaves the list, if the request knows its scan id
KeepOld(w) ==                                                       \* mutant
    /\ worker[w].pc = "drop"
    /\ Goto(w, "rescan")
    /\ UNCHANGED <<phase, memory, rows, flags, saved, counts>>
DropOld(w) ==
    /\ worker[w].pc = "drop"
    /\ IF ads[worker[w].dir].scanID = INVALID THEN UNCHANGED <<list, ads>>
       ELSE Remove(worker[w].dir)
    /\ Goto(w, "rescan")
    /\ UNCHANGED <<phase, nextIndex, subs, rows, flags, saved, fired, counts>>

ScanCopy(w) ==
    /\ worker[w].pc = "rescan"
    /\ ScanDir(worker[w].copy)
    /\ Goto(w, "update")
    /\ UNCHANGED <<phase, subs, rows, flags, saved, counts>>

\* the new mode reaches the copy; updateAutoscanDirectory: the check and the flags
UpdateFlags(w) ==
    /\ worker[w].pc = "update"
    /\ LET c == worker[w].copy
           new == [ads[c] EXCEPT !.mode = ads[worker[w].dir].mode]
       IN /\ ads' = [ads EXCEPT ![c] = new]
          /\ IF Overlaps(rows, new, new.row)
             THEN Finish(w) /\ flags' = flags
             ELSE Goto(w, "write") /\ flags' = NewFlags(new)
    /\ UNCHANGED <<phase, list, nextIndex, subs, rows, saved, fired, counts>>

WriteRow(w) ==
    /\ worker[w].pc = "write"
    /\ LET c == ads[worker[w].copy]
       IN rows' = IF Refused(c) THEN rows ELSE WrittenRows(c)
    /\ Finish(w)
    /\ UNCHANGED <<phase, memory, flags, saved, counts>>

-------------------------------------------------------------------------------
(* The timer thread, the end of the server, and crashes.                   *)

\* a subscription is due: its parameter goes to timerNotify
TimerNotify ==
    /\ phase = "up"
    /\ \E s \in subs : fired' = {[due |-> s.path, scanned |-> Scanned(list, ads, s.id)]}
    /\ UNCHANGED <<phase, ads, list, nextIndex, subs, rows, flags, worker, saved, counts>>

\* Server::shutdown: UpnpFinish waits for the requests
Shutdown ==
    /\ phase = "up"
    /\ \A w \in Workers : worker[w].pc = "idle"
    /\ phase' = "closing" /\ saved' = 0
    /\ UNCHANGED <<memory, rows, flags, worker, counts>>

\* ContentManager::shutdown, updateLMinDB: updateAutoscanDirectory for the next
\* entry; an overlap throws out of the shutdown
SaveNext ==
    /\ phase = "closing" /\ saved < Len(list)
    /\ LET ad == ads[list[saved + 1]]
       IN IF Overlaps(rows, ad, ad.row) \/ Refused(ad)
          THEN phase' = "aborted" /\ UNCHANGED <<rows, flags, saved>>
          ELSE /\ flags' = NewFlags(ad) /\ rows' = WrittenRows(ad)
               /\ saved' = saved + 1 /\ phase' = phase
    /\ UNCHANGED <<memory, worker, counts>>

Stop ==
    /\ phase = "closing" /\ saved = Len(list)
    /\ phase' = "down"
    /\ UNCHANGED <<memory, rows, flags, worker, saved, counts>>

\* the process ends at any point; rows and flags are on disk
Crash ==
    /\ phase \in {"up", "closing", "aborted"}
    /\ phase' = "down"
    /\ worker' = [w \in Workers |-> Free]
    /\ UNCHANGED <<memory, rows, flags, saved, counts>>

WebStep(w) ==
    \/ \E path \in Paths, via \in Via : RequestRemove(w, path, via)
    \/ \E s \in Setting, via \in Via : RequestSet(w, s, via)
    \/ Unlist(w) \/ Unrow(w) \/ Unflag(w) \/ Unsubscribe(w)
    \/ FindOriginal(w) \/ CheckOverlapping(w)
    \/ AddFlag(w) \/ InsertRow(w) \/ ScanNew(w)
    \/ Replace(w) \/ DropOld(w) \/ ScanCopy(w) \/ UpdateFlags(w) \/ WriteRow(w)

Next == \/ Start \/ TimerNotify \/ Shutdown \/ SaveNext \/ Stop \/ Crash
        \/ \E w \in Workers : WebStep(w)

Spec == Init /\ [][Next]_vars

-------------------------------------------------------------------------------
(* Properties.                                                             *)

\* Every variable holds a value of its kind, and references are in range.
TypeOK ==
    /\ phase \in {"up", "closing", "aborted", "down"}
    /\ ads \in Seq(ADs)
    /\ list \in Seq(DOMAIN ads)
    /\ nextIndex \in Nat
    /\ subs \subseteq Subs
    /\ rows \subseteq Rows
    /\ flags \subseteq Paths
    /\ worker \in [Workers -> WorkerStates]
    /\ saved \in Nat
    /\ fired \subseteq Notices
    /\ requests \in Nat /\ starts \in Nat

AllIdle == \A w \in Workers : worker[w].pc = "idle"

\* No two entries of the watch list have the same scan id, and each has one:
\* EditHelper::remove and the duplicate test of EditHelper::_add tell entries
\* apart by the scan id alone.
ScanIDsUnique ==
    \A i, j \in DOMAIN list :
        /\ ads[list[i]].scanID # INVALID
        /\ ads[list[i]].scanID = ads[list[j]].scanID => i = j

\* No recursive autoscan of the database covers another one, and no container
\* has two: what _checkOverlappingAutoscans is there to ensure.
NoOverlap ==
    \A r, q \in rows : r # q =>
        r.path # q.path /\ ~(r.recursive /\ r.path \in UpTo(q.path))

\* The container of every row keeps the flag that protects it from being
\* purged as empty, also when the server dies between the two statements.
RowFlagged == \A r \in rows : r.path \in flags

\* While no request is under way, the entries of the watch list that do not
\* come from the configuration are the rows of the database: after a restart
\* the same directories are watched with the same parameters.
RestartKeeps ==
    (phase = "up" /\ AllIdle) =>
        {Row(ads[list[i]].row, ads[list[i]]) :
            i \in {j \in DOMAIN list : ~ads[list[j]].persistent}} = rows

\* autoscan.h:220, getTimerParameter: "Get the timer notify parameter associated
\* with this directory": the notification of a directory scans no other one.  It
\* does not hold once an entry has left the list and later ones have moved.
TimerScansItsDirectory == \A n \in fired : n.scanned \in {n.due, "none"}
===============================================================================
