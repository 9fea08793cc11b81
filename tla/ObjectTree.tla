----------------------------- MODULE ObjectTree -----------------------------
(***************************************************************************)
(* The table mt_cds_object of Gerbera (SQLDatabase): containers and items, *)
(* each below a parent, and references, which are virtual items that point *)
(* to a main item.  Two foreign keys delete the children and the           *)
(* references of a deleted row with it.  SQLite gives a new row the key    *)
(* above the highest one, so the key of a deleted row may come back.       *)
(*                                                                         *)
(* A removal collects what hangs below an object in turns of selects,      *)
(* deletes it, and then deletes the containers that this left empty.  An   *)
(* action is one statement; several threads may be removing at once.       *)
(***************************************************************************)
EXTENDS Integers, FiniteSets, FiniteSetsExt, TLC

CONSTANTS
    Files,          \* files of the watched directory
    Dirs,           \* directories: the watched one and those below it
    Virtuals,       \* virtual containers a layout may create
    Tags,           \* what a file may hold
    Threads,        \* threads that remove objects
    MaxRemoveSize   \* MAX_REMOVE_SIZE

INVALID_OBJECT_ID == -333
CDS_ID_ROOT == 0
CDS_ID_FS_ROOT == 1
Unread == <<>>      \* the tag of an object that is no main item

VARIABLES
    tree,       \* the rows: a function on the keys in use
    removal     \* for each thread, the removal it is in

-------------------------------------------------------------------------------
(* The rows.                                                               *)

Object(type, at, parent) ==
    [type |-> type, at |-> at, parent |-> parent,
     ref |-> INVALID_OBJECT_ID, tag |-> Unread, persistent |-> FALSE]
Item(file, parent, tag) == [Object("item", file, parent) EXCEPT !.tag = tag]
Reference(main, parent) == [Object("ref", "none", parent) EXCEPT !.ref = main]
Objects == [type : {"item", "ref", "dir", "virtual"},
            at : Files \cup Dirs \cup Virtuals \cup {"none", "root", "fsroot"},
            parent : Int, ref : Int, tag : Tags \cup {Unread}, persistent : BOOLEAN]

\* fillDatabase: two containers are always there, and never purged; the row
\* above the root, which is below itself, is left out
FilledTree ==
    [i \in {CDS_ID_ROOT, CDS_ID_FS_ROOT} |->
        [IF i = CDS_ID_ROOT THEN Object("virtual", "root", -1) ELSE Object("dir", "fsroot", CDS_ID_ROOT)
         EXCEPT !.persistent = TRUE]]

Ids == DOMAIN tree
IsContainer(i) == i \in Ids /\ tree[i].type \in {"dir", "virtual"}
ChildrenOf(S) == {i \in Ids : tree[i].parent \in S}
RefsTo(S) == {i \in Ids : tree[i].ref \in S}
ParentsOf(S) == {tree[i].parent : i \in S \cap Ids}

\* the rows of a type at a location: findObjectByPath, addContainer
At(type, place) == {i \in Ids : tree[i].type = type /\ tree[i].at = place}

NextId == Max(Ids) + 1
Added(rows, id, object) == [i \in DOMAIN rows \cup {id} |-> IF i = id THEN object ELSE rows[i]]
Insert(object) == tree' = Added(tree, NextId, object)

\* the foreign keys refuse a row below no parent or with no main item
Refused(object) ==
    \/ object.parent \notin Ids
    \/ object.ref # INVALID_OBJECT_ID /\ object.ref \notin Ids

\* DELETE ... ON DELETE CASCADE: the rows that go with those of S
Cascade(S) ==
    LET reached[n \in 0 .. Cardinality(Ids)] ==
            IF n = 0 THEN S \cap Ids
            ELSE LET R == reached[n - 1] IN R \cup ChildrenOf(R) \cup RefsTo(R)
    IN reached[Cardinality(Ids)]
Delete(S) == tree' = [i \in Ids \ Cascade(S) |-> tree[i]]

-------------------------------------------------------------------------------
(* A removal.                                                              *)

\* pending keys of _recursiveRemove and of _purgeEmptyContainers, the changed
\* containers it reports, and, for the properties, the rows it started from
NoRemoval ==
    [pc |-> "idle", listed |-> {}, all |-> FALSE,
     items |-> {}, parents |-> {}, containers |-> {}, remove |-> {}, empty |-> {},
     upnp |-> {}, ui |-> {}, changed |-> {}, was |-> <<>>]

RemovalPCs == {"idle", "types", "signals", "parents", "items", "children",
               "delete", "upnp", "ui", "purge", "done"}
Removals(was) ==
    [pc : RemovalPCs, listed : SUBSET Int, all : BOOLEAN,
     items : SUBSET Int, parents : SUBSET Int, containers : SUBSET Int,
     remove : SUBSET Int, empty : SUBSET Int, upnp : SUBSET Int, ui : SUBSET Int,
     changed : SUBSET Int, was : {was}]

InRemoval(t, pc) == removal[t].pc = pc
Becomes(t, r) == removal' = [removal EXCEPT ![t] = r]

\* the call of removeObject or removeObjects
Removing(listed, all) ==
    [NoRemoval EXCEPT !.pc = "types", !.listed = listed, !.all = all, !.was = tree]

\* where _recursiveRemove goes on in a turn, and at the end of one
Pending(r) == r.items \cup r.parents \cup r.containers # {}
EndOfTurn(r) ==
    IF Cardinality(r.remove) > MaxRemoveSize \/ ~Pending(r)
    THEN [r EXCEPT !.pc = "delete"] ELSE [r EXCEPT !.pc = "parents"]

\* removeObject: with all, a reference stands for its main item
Types(t) ==
    /\ InRemoval(t, "types")
    /\ LET r == removal[t]
           main(i) == IF r.all /\ tree[i].ref > CDS_ID_FS_ROOT THEN tree[i].ref ELSE i
           known == {main(i) : i \in r.listed \cap Ids}
           containers == {i \in known : IsContainer(i)}
           items == known \ containers
       IN IF known = {} THEN Becomes(t, [r EXCEPT !.pc = "done"])
          ELSE Becomes(t, [r EXCEPT !.pc = IF containers = {} THEN "parents" ELSE "signals",
                                    !.items = items, !.parents = items,
                                    !.containers = containers, !.remove = containers])
    /\ UNCHANGED tree

\* with a container in the list its select also takes, and clears, the items
Signals(t) ==
    /\ InRemoval(t, "signals")
    /\ LET r == removal[t]
       IN Becomes(t, [r EXCEPT !.pc = "parents", !.parents = {},
                               !.ui = ParentsOf(r.parents \cup r.containers)])
    /\ UNCHANGED tree

\* the objects of parents are to go, and their parents changed
Parents(t) ==
    /\ InRemoval(t, "parents")
    /\ LET r == removal[t]
       IN Becomes(t, [r EXCEPT !.pc = "items", !.parents = {},
                               !.remove = @ \cup r.parents,
                               !.upnp = @ \cup ParentsOf(r.parents)])
    /\ UNCHANGED tree

\* the references to the items are to go, and their parents changed
SkipReferences(t) ==                                                \* mutant
    /\ InRemoval(t, "items")
    /\ Becomes(t, [removal[t] EXCEPT !.pc = "children", !.items = {}])
    /\ UNCHANGED tree
References(t) ==
    /\ InRemoval(t, "items")
    /\ LET r == removal[t]
           refs == RefsTo(r.items)
       IN Becomes(t, [r EXCEPT !.pc = "children", !.items = {},
                               !.remove = @ \cup refs,
                               !.upnp = @ \cup ParentsOf(refs)])
    /\ UNCHANGED tree

\* the children of the containers are to go; with all, a reference among them
\* stands for its main item
Children(t) ==
    /\ InRemoval(t, "children")
    /\ LET r == removal[t]
           children == ChildrenOf(r.containers)
           below == {i \in children : IsContainer(i)}
           mains == IF r.all THEN {tree[i].ref : i \in {j \in children \ below : tree[j].ref # INVALID_OBJECT_ID}}
                    ELSE {}
           found == {i \in children \ below : ~r.all \/ tree[i].ref = INVALID_OBJECT_ID} \cup mains
       IN Becomes(t, EndOfTurn([r EXCEPT !.containers = below, !.items = found,
                                         !.parents = mains, !.remove = @ \cup below \cup found]))
    /\ UNCHANGED tree

\* _removeObjects: at the end, or as soon as there are too many
DeleteCollected(t) ==
    /\ InRemoval(t, "delete")
    /\ Delete(removal[t].remove)
    /\ LET r == [removal[t] EXCEPT !.remove = {}]
       IN Becomes(t, [r EXCEPT !.pc = IF Pending(r) THEN "parents" ELSE "upnp"])

\* _purgeEmptyContainers: of the changed containers, those that are protected
\* are changed, those without children are to go, the others are tried again
Protected(S) == {i \in S : IsContainer(i) /\ tree[i].persistent}
Childless(S) == {i \in S : IsContainer(i) /\ ~tree[i].persistent /\ ChildrenOf({i}) = {}}
Occupied(S) == {i \in S : IsContainer(i) /\ ~tree[i].persistent /\ ChildrenOf({i}) # {}}

FindEmptyUpnp(t) ==
    /\ InRemoval(t, "upnp")
    /\ LET r == removal[t]
       IN Becomes(t, [r EXCEPT !.pc = "ui",
                               !.changed = @ \cup Protected(r.upnp),
                               !.empty = Childless(r.upnp),
                               !.ui = @ \cup ParentsOf(Childless(r.upnp)),
                               !.upnp = Occupied(r.upnp)])
    /\ UNCHANGED tree

\* the end of a round: nothing was to go, or nothing is left to be tried
FindEmptyUi(t) ==
    /\ InRemoval(t, "ui")
    /\ LET r == removal[t]
           empty == r.empty \cup Childless(r.ui)
           left == Occupied(r.ui) \cup ParentsOf(Childless(r.ui))
       IN Becomes(t, IF empty = {}
                     THEN [r EXCEPT !.pc = "done",
                                    !.changed = @ \cup Protected(r.ui) \cup left \cup r.upnp]
                     ELSE [r EXCEPT !.pc = "purge", !.empty = empty, !.ui = left,
                                    !.changed = @ \cup Protected(r.ui)])
    /\ UNCHANGED tree

Purge(t) ==
    /\ InRemoval(t, "purge")
    /\ Delete(removal[t].empty)
    /\ LET r == [removal[t] EXCEPT !.empty = {}]
       IN Becomes(t, IF r.upnp \cup r.ui = {} THEN [r EXCEPT !.pc = "done"]
                     ELSE [r EXCEPT !.pc = "upnp"])

removalStep(t) ==
    \/ Types(t) \/ Signals(t) \/ Parents(t) \/ References(t) \/ Children(t)
    \/ DeleteCollected(t) \/ FindEmptyUpnp(t) \/ FindEmptyUi(t) \/ Purge(t)

-------------------------------------------------------------------------------
(* What a removal that nothing interferes with has done at its end.  Left  *)
(* out are lists of items and containers, whose items stay (see Signals),  *)
(* and removals of more than MaxRemoveSize objects, whose references go    *)
(* with the first part, unseen.                                            *)

Before(r, S) == {i \in DOMAIN r.was : r.was[i].parent \in S}
IsMixed(r) ==
    \E i, j \in r.listed \cap DOMAIN r.was :
        r.was[i].type \in {"dir", "virtual"} /\ r.was[j].type \notin {"dir", "virtual"}

TreeTypeOK ==
    /\ Ids \subseteq Nat /\ \A i \in Ids : tree[i] \in Objects
    /\ \A t \in Threads : removal[t] \in Removals(removal[t].was)

\* The listed objects are gone, and so is what was below them and what
\* referred to them (database.h:202-205).
Related(S, rows) ==
    LET reached[n \in 0 .. Cardinality(DOMAIN rows)] ==
            IF n = 0 THEN S
            ELSE LET R == reached[n - 1]
                 IN R \cup {i \in DOMAIN rows : rows[i].parent \in R \/ rows[i].ref \in R}
    IN reached[Cardinality(DOMAIN rows)]
AllGone(t) ==
    LET r == removal[t]
    IN InRemoval(t, "done") /\ ~IsMixed(r) => Ids \cap Related(r.listed, r.was) = {}

\* A container that lost a child either went as well or is reported as changed,
\* and is not empty unless it is protected.
LosersReported(t) ==
    LET r == removal[t]
        losers == {c \in Ids \cap DOMAIN r.was : Before(r, {c}) \ Ids # {}}
    IN InRemoval(t, "done") /\ ~IsMixed(r) => losers \subseteq r.changed
NoneLeftEmpty(t) ==
    LET r == removal[t]
    IN InRemoval(t, "done") /\ ~IsMixed(r) =>
           \A c \in Ids \cap DOMAIN r.was :
               Before(r, {c}) # {} /\ ChildrenOf({c}) = {} => tree[c].persistent
=============================================================================
