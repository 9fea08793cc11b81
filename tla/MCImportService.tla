-------------------------- MODULE MCImportService --------------------------
(***************************************************************************)
(* What the database holds and what a client reads of it, in one run of    *)
(* TLC; the first state chooses a part:                                    *)
(*   "tree"      a watched directory with one below it, a file in each, and *)
(*               layouts over two nested virtual containers                *)
(*               (ImportService).  Files change while the directory is     *)
(*               scanned; directories come and go, and objects are removed *)
(*               by the other threads, between tasks of the content thread,*)
(*   "browse"    a client keeps the listing of a container while one item  *)
(*               after the other comes and goes (ContentDirectory),        *)
(*   "search"    one search, with each of 574 criteria (Search),           *)
(*   "searches"  two searches at once, with few criteria,                  *)
(*   "playlists" a playlist of each format over two media files and a URL, *)
(*               which come, change and go while it is read (Playlists).   *)
(***************************************************************************)
EXTENDS ImportService

MCFiles == {"f", "g"}
MCDirs == {"top", "sub"}
MCVirtuals == {"all", "year"}
MCDirOf == [f |-> "top", g |-> "sub"]
MCChain == [top |-> <<"top">>, sub |-> <<"top", "sub">>, all |-> <<"all">>, year |-> <<"all", "year">>]
MCOrder == <<"top", "f", "sub", "g">>
MCTags == {<<"year">>, <<"year", "all">>}

\* they are removed in the web UI whatever the scan mode
InotifyNext == ~In("crashed") /\ (SequentialStep \/ InotifyRemoved \/ UserStep)

-------------------------------------------------------------------------------
(* The parts.                                                              *)

CONSTANTS s1, s2, Parts

EachPart == {"tree", "browse", "search", "searches", "playlists"}
OnlyTree == {"tree"}

VARIABLES part
VARIABLES id, items, writer, importing, changed, systemUpdateID, dynamicContainers, edits,
          client, inbox, overtaken, unannounced
VARIABLES tableAlias, joins, metaCnt, req
VARIABLES files, list, rows, listTime, entries, reading, missed, perished, ruined, writes
browseVars == <<id, items, writer, importing, changed, systemUpdateID, dynamicContainers, edits,
                client, inbox, overtaken, unannounced>>
searchVars == <<tableAlias, joins, metaCnt, req>>
playlistVars == <<files, list, rows, listTime, entries, reading, missed, perished, ruined, writes>>

Browse == INSTANCE ContentDirectory WITH
    Depth <- 2, Items <- {1, 2, 3}, Home <- <<2, 2, 1>>, Hidden <- {2},
    Writers <- {"builtin", "js"},
    Clients <- {<<"events", "returned">>, <<"events", "requested">>, <<"poll", "all">>},
    PageSize <- 1, DynamicAt <- <<0, 1>>, MaxId <- 3, MaxChanges <- 2,
    import <- importing, changes <- edits

Token(is, name) == [is |-> is, name |-> name, alias |-> -1]
Operators == {<<Token("and", "")>>, <<Token("or", "")>>}
Class == <<Token("relation", "class")>>
Artist == <<Token("relation", "artist")>>
Genre == <<Token("relation", "genre")>>
Group(s) == <<Token("(", "")>> \o s \o <<Token(")", "")>>
Joined(A, B) == {a \o o \o b : a \in A, o \in Operators, b \in B}

Singles == {Class, Artist, Group(Genre)}
Pairs == {Group(s) : s \in Joined({Class, Artist}, {Artist, Genre})}
Nested == {Group(s) : s \in Joined({Genre}, {Group(Artist)}) \cup Joined({Group(Class)}, {Artist})}
Terms == Singles \cup Pairs \cup Nested
EachCriterion ==
    Terms \cup Joined(Terms, Terms) \cup Joined(Joined(Singles, Singles), Singles)
          \cup {<<Token("*", "")>>}
FewCriteria == {Artist, Artist \o <<Token("or", "")>> \o Genre, Group(Class) \o <<Token("and", "")>> \o Genre}

One == INSTANCE Search WITH
    Requests <- {s1}, Criteria <- EachCriterion, NestingLimit <- 1, MaxCount <- 2,
    Properties <- {"class", "artist", "genre"}, MetaProperties <- {"artist", "genre"}
Two == INSTANCE Search WITH
    Requests <- {s1, s2}, Criteria <- FewCriteria, NestingLimit <- 2, MaxCount <- 2,
    Properties <- {"class", "artist", "genre"}, MetaProperties <- {"artist", "genre"}

TitleLine(number, title) == [is |-> "title", number |-> number, title |-> title]
FileLine(number, place) == [is |-> "file", number |-> number, place |-> place]
XmlTrack(title, places) == [number |-> 0, title |-> title, places |-> places]
EachList ==
    {[kind |-> "m3u", lines |-> <<TitleLine(0, 11), FileLine(0, "u"), FileLine(0, "f"), FileLine(0, "f"), FileLine(0, "g")>>],
     [kind |-> "m3u", lines |-> <<FileLine(0, "g"), FileLine(0, "f"), FileLine(0, "u")>>],
     [kind |-> "pls", lines |-> <<FileLine(1, "f"), TitleLine(1, 11), FileLine(2, "u"), TitleLine(2, 12)>>],
     [kind |-> "pls", lines |-> <<TitleLine(2, 12), FileLine(2, "u"), FileLine(3, "u"), FileLine(1, "g")>>],
     [kind |-> "xml", lines |-> <<XmlTrack(11, <<"f", "g">>), XmlTrack(0, <<"u">>), XmlTrack(0, <<"g">>)>>],
     [kind |-> "bad", lines |-> <<>>]}

Play == INSTANCE Playlists WITH
    Files <- {"f", "g"}, Urls <- {"u"}, Lists <- EachList, MaxChanges <- 2,
    disk <- files, import <- reading, lost <- perished, changes <- writes

\* what a part does not look at begins, and stays, in one state
TreeInit == Init /\ (part # "tree" => disk = [f \in Files |-> Gone] /\ scanMode = "timed")
BrowseInit ==
    IF part = "browse"
    THEN /\ Browse!Init
         /\ client.mode = "poll" => writer = "builtin"
         /\ client.paging = "returned" => writer = "js"
    ELSE /\ id = <<>> /\ items = {} /\ writer = "files" /\ importing = [pc |-> "idle"]
         /\ changed = {} /\ systemUpdateID = 0 /\ dynamicContainers = {} /\ edits = 0
         /\ client = [pc |-> "idle"] /\ inbox = {} /\ overtaken = FALSE /\ unannounced = {}
SearchInit ==
    CASE part = "search" -> One!Init
      [] part = "searches" -> Two!Init
      [] OTHER -> tableAlias = -1 /\ joins = <<>> /\ metaCnt = 0 /\ req = <<>>
PlaylistInit ==
    IF part = "playlists" THEN Play!Init
    ELSE /\ files = <<>> /\ list = <<>> /\ rows = <<>> /\ listTime = 0 /\ entries = {} /\ reading = <<>>
         /\ missed = {} /\ perished = {} /\ ruined = FALSE /\ writes = 0
PartInit == part \in Parts /\ TreeInit /\ BrowseInit /\ SearchInit /\ PlaylistInit

PartNext ==
    /\ UNCHANGED part
    /\ \/ part = "tree" /\ TreeNext /\ UNCHANGED <<browseVars, searchVars, playlistVars>>
       \/ part = "browse" /\ Browse!Next /\ UNCHANGED <<vars, searchVars, playlistVars>>
       \/ part = "search" /\ One!Next /\ UNCHANGED <<vars, browseVars, playlistVars>>
       \/ part = "searches" /\ Two!Next /\ UNCHANGED <<vars, browseVars, playlistVars>>
       \/ part = "playlists" /\ Play!Next /\ UNCHANGED <<vars, browseVars, searchVars>>

AllVars == <<part, vars, browseVars, searchVars, playlistVars>>
PartSpec == PartInit /\ [][PartNext]_AllVars

InotifySpec ==
    /\ PartInit
    /\ [][InotifyNext /\ UNCHANGED <<part, browseVars, searchVars, playlistVars>>]_AllVars

(* After a scan a file is below the containers of its layout               *)
(* (LayoutIsComplete of ImportService), and the entries of a playlist are  *)
(* in its containers (EntriesAreListed of Playlists).                      *)
VirtualTreeIsComplete ==
    /\ part = "tree" => LayoutIsComplete
    /\ part = "playlists" => Play!EntriesAreListed

(* The properties of ContentDirectory.                                     *)
ListingIsFresh == part = "browse" => Browse!TypeOK /\ Browse!ListingIsFresh
DynamicIsShown == part = "browse" => Browse!DynamicIsShown

(* The properties of Search.                                               *)
SearchIsExact ==
    /\ part = "search" => One!TypeOK /\ One!SearchIsExact /\ One!TotalIsRight
    /\ part = "searches" => Two!TypeOK /\ Two!SearchIsExact /\ Two!TotalIsRight
=============================================================================
