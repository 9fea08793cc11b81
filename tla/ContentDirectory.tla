--------------------------- MODULE ContentDirectory ---------------------------
(***************************************************************************)
(* Browsing while the library changes: the importer (ContentManager, the   *)
(* layouts, SQLDatabase) writes the tree and reports containers, changed   *)
(* containers are sent as events that count up the SystemUpdateID, and a   *)
(* client pages through a container (ContentDirectoryService::doBrowse,    *)
(* SQLDatabase::browse) and keeps the listing until it learns of a change. *)
(*                                                                         *)
(* The tree is one branch: the container at level 0 stays, those of levels *)
(* 1 .. Depth come with the first item below them and go with the last,    *)
(* and may come back with another key.  UpdateManager is reduced to what   *)
(* it promises: what is reported is sent some time later.                  *)
(***************************************************************************)
EXTENDS Integers, Sequences, FiniteSets, FiniteSetsExt, SequencesExt

CONSTANTS
    Depth,
    Items,          \* numbers of items, in the order of a listing
    Home,           \* the level of the container of each item
    Hidden,         \* items in directories that are forbidden to the client
    Writers,        \* who may write the tree: "builtin", "js" or "files"
    Clients,        \* how a client learns of changes, "events" or "poll", and goes on: by
                    \* the "returned" or the "requested" number, or it gets "all" at once
    PageSize,
    DynamicAt,      \* the level in which each dynamic container is configured
    MaxId,          \* bound: keys of containers
    MaxChanges      \* bound: items added or removed

INVALID_OBJECT_ID == -333
CDS_ID_ROOT == 0
Levels == 0 .. Depth

VARIABLES
    id,                 \* the key of the container of each level
    items,              \* items in the database
    writer,             \* who writes the tree
    import,             \* where the importer is
    changed,            \* containers reported, not sent yet
    systemUpdateID,
    dynamicContainers,  \* parent and index of the dynamic containers made so far
    changes,
    client,             \* the listing of the client, and its request
    inbox,              \* containers named in events under way to the client
    overtaken,          \* auxiliary: an event was sent before the first answer
    unannounced         \* auxiliary: levels with a change nobody reports

vars == <<id, items, writer, import, changed, systemUpdateID, dynamicContainers,
          changes, client, inbox, overtaken, unannounced>>
importVars == <<id, items, writer, import, changed, changes, unannounced>>
clientVars == <<dynamicContainers, client, overtaken>>

Exists(l) == id[l] # INVALID_OBJECT_ID
Existing == {l \in Levels : Exists(l)}
LevelsOf(ids) == {l \in Existing : id[l] \in ids}
ItemsIn(l) == {i \in items : Home[i] = l}
IsEmpty(l) == ItemsIn(l) = {} /\ ~(l < Depth /\ Exists(l + 1))

ContainerEntry(l) == <<"container", id[l]>>
DynamicEntry(k) == <<"dynamic", k>>
ItemEntry(i) == <<"item", i>>

\* the rows below a container, containers first, without the forbidden items
SubContainer(l) == IF l < Depth /\ Exists(l + 1) THEN <<ContainerEntry(l + 1)>> ELSE <<>>
Rows(l) ==
    LET sorted == SetToSortSeq(ItemsIn(l) \ Hidden, <)
    IN SubContainer(l) \o [n \in DOMAIN sorted |-> ItemEntry(sorted[n])]

\* getChildCounts: the forbidden items are counted
ChildCount(l) == Len(SubContainer(l)) + Cardinality(ItemsIn(l))

NoImport == [pc |-> "idle", item |-> 0, level |-> 0, isNew |-> FALSE]
NoListing == [pc |-> "idle", at |-> INVALID_OBJECT_ID, level |-> 0, start |-> 0,
              total |-> 0, page |-> <<>>, listing |-> <<>>, dirty |-> FALSE, known |-> 0,
              mode |-> "events", paging |-> "all"]

Init ==
    /\ items \in SUBSET Items
    /\ id = [l \in Levels |-> IF l = 0 THEN CDS_ID_ROOT
                              ELSE IF \E i \in items : Home[i] >= l THEN l ELSE INVALID_OBJECT_ID]
    /\ writer \in Writers
    /\ import = NoImport
    /\ changed = {}
    /\ systemUpdateID = 0
    /\ dynamicContainers = {}
    /\ changes = 0
    /\ \E c \in Clients : client = [NoListing EXCEPT !.mode = c[1], !.paging = c[2]]
    /\ inbox = {}
    /\ overtaken = FALSE
    /\ unannounced = {}

-------------------------------------------------------------------------------
(* The importer.                                                           *)

Import(i, pc) ==
    /\ import.pc = "idle"
    /\ changes < MaxChanges
    /\ changes' = changes + 1
    /\ import' = [NoImport EXCEPT !.pc = pc, !.item = i, !.level = Home[i]]
    /\ UNCHANGED <<id, items, writer, changed, unannounced>>
    /\ UNCHANGED <<systemUpdateID, inbox, clientVars>>
add(i) == i \notin items /\ Import(i, "tree")
remove(i) == i \in items /\ Import(i, "delete")

Report(ids) ==
    /\ changed' = changed \cup ids
    /\ unannounced' = unannounced \ LevelsOf(ids)

\* addContainerTree: the containers that are missing, one by one; in the end
\* the last one is reported, if there was a new one
CreateMissing ==
    /\ import.pc = "tree"
    /\ \E l \in Levels, new \in 1 .. MaxId :
           /\ ~Exists(l) /\ Exists(l - 1) /\ l <= import.level
           /\ \A k \in Existing : id[k] < new
           /\ id' = [id EXCEPT ![l] = new]
           /\ unannounced' = IF writer # "builtin" \/ l < import.level
                             THEN unannounced \cup {l - 1} ELSE unannounced
    /\ import' = [import EXCEPT !.isNew = TRUE]
    /\ UNCHANGED <<items, writer, changed, changes, systemUpdateID, inbox, clientVars>>

TreeComplete ==
    /\ import.pc = "tree" /\ Exists(import.level)
    /\ import' = [import EXCEPT !.pc = "insert"]
    /\ IF import.isNew /\ writer # "files" THEN Report({id[import.level]})
       ELSE UNCHANGED <<changed, unannounced>>
    /\ UNCHANGED <<id, items, writer, changes, systemUpdateID, inbox, clientVars>>

\* what addObject reports once the item is in: its container, and the one above
\* if a layout says that the container is new and the item is the first in it
FirstOnly ==                                                        \* mutant
    IF import.isNew THEN {id[import.level], id[import.level - 1]} ELSE {}
AddReports ==
    CASE writer = "files" -> {}
      [] writer = "js" -> {id[import.level]}
      [] writer = "builtin" ->
             {id[import.level]} \cup
             IF import.isNew /\ ChildCount(import.level) = 1 THEN {id[import.level - 1]} ELSE {}

addObject ==
    /\ import.pc = "insert"
    /\ items' = items \cup {import.item}
    /\ import' = [import EXCEPT !.pc = "report"]
    /\ unannounced' = IF writer = "files" THEN unannounced \cup {import.level} ELSE unannounced
    /\ UNCHANGED <<id, writer, changed, changes, systemUpdateID, inbox, clientVars>>

addObjectReports ==
    /\ import.pc = "report"
    /\ Report(AddReports)
    /\ import' = NoImport
    /\ UNCHANGED <<id, items, writer, changes, systemUpdateID, inbox, clientVars>>

\* removeObject, and then _purgeEmptyContainers level by level; the container
\* that is left is reported
removeObject ==
    /\ import.pc = "delete"
    /\ items' = items \ {import.item}
    /\ import' = [import EXCEPT !.pc = "purge"]
    /\ UNCHANGED <<id, writer, changed, changes, unannounced, systemUpdateID, inbox, clientVars>>

purge ==
    /\ import.pc = "purge"
    /\ LET l == import.level
       IN IF l > 0 /\ IsEmpty(l)
          THEN /\ id' = [id EXCEPT ![l] = INVALID_OBJECT_ID]
               /\ import' = [import EXCEPT !.level = l - 1]
               /\ UNCHANGED <<changed, unannounced>>
          ELSE Report({id[l]}) /\ import' = NoImport /\ UNCHANGED id
    /\ UNCHANGED <<items, writer, changes, systemUpdateID, inbox, clientVars>>

importer == CreateMissing \/ TreeComplete \/ addObject \/ addObjectReports \/ removeObject \/ purge

-------------------------------------------------------------------------------
(* The update manager and sendSubscriptionUpdate: the containers that are  *)
(* still there are sent, if there are any.                                 *)

AwaitsAnswer == client.mode = "poll" /\ client.pc \in {"select", "dynamic", "answer"} /\ client.start = 0

\* an event is of no interest to a client that polls or looks elsewhere
Subscribed == IF client.mode = "events" THEN {client.at} ELSE {}

incrementUpdateIDs(ids) == {id[l] : l \in LevelsOf(ids)}

send ==
    /\ changed # {}
    /\ changed' = {}
    /\ LET event == incrementUpdateIDs(changed)
       IN IF event = {} THEN UNCHANGED <<systemUpdateID, inbox, overtaken>>
          ELSE /\ systemUpdateID' = systemUpdateID + 1
               /\ inbox' = inbox \cup (event \cap Subscribed)
               /\ overtaken' = (overtaken \/ AwaitsAnswer)
    /\ UNCHANGED <<id, items, writer, import, changes, unannounced, dynamicContainers, client>>

-------------------------------------------------------------------------------
(* The requests of the client.                                             *)

ClientStep(pc, to) ==
    /\ client.pc = pc
    /\ client' = to
    /\ UNCHANGED <<importVars, systemUpdateID, inbox>>

\* The client reaches a container by its key and asks for its first page.
browse(l) ==
    /\ Exists(l)
    /\ ClientStep("idle", [client EXCEPT !.pc = "load", !.at = id[l], !.start = 0,
                                         !.page = <<>>, !.listing = <<>>, !.dirty = FALSE])
    /\ overtaken' = FALSE
    /\ UNCHANGED dynamicContainers

\* loadObject; the client gives up on an object that is gone
load ==
    /\ ClientStep("load",
           IF LevelsOf({client.at}) = {}
           THEN [NoListing EXCEPT !.mode = client.mode, !.paging = client.paging]
           ELSE [client EXCEPT !.pc = "count", !.level = Max(LevelsOf({client.at}))])
    /\ UNCHANGED <<dynamicContainers, overtaken>>

\* the rows are found by the key of the parent, whichever container has it now
Found(ask(_), otherwise) ==
    IF LevelsOf({client.at}) = {} THEN otherwise ELSE ask(Max(LevelsOf({client.at})))

count ==
    /\ ClientStep("count", [client EXCEPT !.pc = "select", !.total = Found(ChildCount, 0)])
    /\ UNCHANGED <<dynamicContainers, overtaken>>

PageOf(rows) ==
    IF client.paging = "all" THEN rows
    ELSE SubSeq(rows, client.start + 1, Min({client.start + PageSize, Len(rows)}))

selectPage ==
    /\ ClientStep("select", [client EXCEPT !.pc = IF client.start = 0 THEN "dynamic" ELSE "answer",
                                           !.page = PageOf(Found(Rows, <<>>))])
    /\ UNCHANGED <<dynamicContainers, overtaken>>

\* initDynContainers: the parent that is browsed is taken as it was loaded, the
\* others are looked up; the key of a dynamic container is made from its parent's
ParentOf(k) == IF DynamicAt[k] = client.level THEN client.at ELSE id[DynamicAt[k]]

InitOnce(known) == known = {}                                       \* mutant
InitNeeded(known) == Cardinality(known) < Len(DynamicAt)

Made ==
    IF InitNeeded(dynamicContainers)
    THEN dynamicContainers \cup
         {<<ParentOf(k), k>> : k \in {j \in DOMAIN DynamicAt : ParentOf(j) # INVALID_OBJECT_ID}}
    ELSE dynamicContainers

\* The dynamic containers follow the first page and count as further matches.
addDynamic ==
    LET here == {k \in DOMAIN DynamicAt : <<client.at, k>> \in Made}
        shown == SetToSortSeq(here, <)
    IN /\ ClientStep("dynamic",
              [client EXCEPT !.pc = "answer",
                             !.page = @ \o [n \in DOMAIN shown |-> DynamicEntry(shown[n])],
                             !.total = @ + Len(shown)])
       /\ dynamicContainers' = Made
       /\ UNCHANGED overtaken

\* the answer carries the SystemUpdateID of this moment; the client keeps that
\* of the first page, and goes on until it has everything, or gets nothing
NextStart(start, page) == start + IF client.paging = "returned" THEN Len(page) ELSE PageSize
IsLastPage(start, page, total) == client.paging = "all" \/ page = <<>> \/ NextStart(start, page) >= total

answer ==
    /\ ClientStep("answer",
           [client EXCEPT !.pc = IF IsLastPage(client.start, client.page, client.total) THEN "idle" ELSE "load",
                          !.listing = @ \o client.page,
                          !.page = <<>>, !.total = 0,
                          !.known = IF client.mode = "poll" /\ client.start = 0 THEN systemUpdateID ELSE @,
                          !.start = IF IsLastPage(client.start, client.page, client.total) THEN 0
                                    ELSE NextStart(client.start, client.page)])
    /\ UNCHANGED <<dynamicContainers, overtaken>>

\* an event, which the client attends to between its requests
hear ==
    /\ inbox # {} /\ client.pc = "idle"
    /\ inbox' = {}
    /\ client' = [client EXCEPT !.dirty = @ \/ client.at \in inbox]
    /\ UNCHANGED <<importVars, systemUpdateID, dynamicContainers, overtaken>>

request == load \/ count \/ selectPage \/ addDynamic \/ answer

Next ==
    \/ \E i \in Items : add(i) \/ remove(i)
    \/ importer
    \/ send
    \/ \E l \in Levels : browse(l)
    \/ request
    \/ hear

Spec == Init /\ [][Next]_vars

-------------------------------------------------------------------------------
(* Properties *)

(* Every variable has its type.                                            *)
TypeOK ==
    /\ id \in [Levels -> 0 .. MaxId \cup {INVALID_OBJECT_ID}] /\ items \subseteq Items
    /\ writer \in Writers /\ changes \in 0 .. MaxChanges
    /\ import \in [pc : {"idle", "tree", "insert", "report", "delete", "purge"},
                   item : Items \cup {0}, level : Levels, isNew : BOOLEAN]
    /\ changed \subseteq 0 .. MaxId /\ inbox \subseteq 0 .. MaxId /\ systemUpdateID \in Nat
    /\ dynamicContainers \subseteq (0 .. MaxId) \X (DOMAIN DynamicAt)
    /\ client.pc \in {"idle", "load", "count", "select", "dynamic", "answer"}
    /\ overtaken \in BOOLEAN /\ unannounced \subseteq Levels

\* the client has a listing it believes in, and no change is under way
Believes ==
    /\ client.pc = "idle" /\ client.at # INVALID_OBJECT_ID
    /\ IF client.mode = "events" THEN ~client.dirty ELSE client.known = systemUpdateID
Settled == import.pc = "idle" /\ changed = {} /\ inbox = {}

IsDynamic(entry) == entry[1] = "dynamic"
Listed == ToSet(client.listing)
RealEntries == SelectSeq(client.listing, LAMBDA e : ~IsDynamic(e))

(* A client that was told of no change since has the container as it is,   *)
(* entry for entry.  Three things break this in the code and are left out: *)
(* changes that nobody reports (a new container other than the one of the  *)
(* first item, one made by a script, anything written by a directory scan);*)
(* a client that polls and whose answer was overtaken by an event (it      *)
(* carries a SystemUpdateID newer than its content); and a client that     *)
(* goes on behind the number of entries returned, among which the dynamic  *)
(* containers of the first page do not count as children, so that it skips *)
(* as many.                                                                *)
ListingIsFresh ==
    \A l \in LevelsOf({client.at}) :
        Believes /\ Settled /\ l \notin unannounced
          /\ ~(client.mode = "poll" /\ overtaken)
          /\ ~(client.paging = "returned" /\ \E e \in Listed : IsDynamic(e))
        => RealEntries = Rows(l)

(* Each dynamic container is shown where it was configured (the directory  *)
(* scan included), unless one of a parent that was removed meanwhile takes *)
(* its place in the map until the server restarts.                         *)
Stale == {d \in dynamicContainers : d[1] # id[DynamicAt[d[2]]]}
DynamicIsShown ==
    \A k \in DOMAIN DynamicAt :
        client.pc = "idle" /\ client.at = id[DynamicAt[k]] /\ client.at # INVALID_OBJECT_ID
            /\ client.level = DynamicAt[k]
            /\ ~(Stale # {} /\ Cardinality(dynamicContainers) >= Len(DynamicAt))
        => DynamicEntry(k) \in Listed
===============================================================================
