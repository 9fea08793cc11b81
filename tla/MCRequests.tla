------------------------------ MODULE MCRequests ------------------------------
(***************************************************************************)
(* What serves the requests of clients and browsers, in one run of TLC; the*)
(* first state chooses what is looked at:                                  *)
(*   "content"  requests for content of some kinds (FileRequest), whose    *)
(*              file changes once,                                         *)
(*   "stream"   one request, for any kind of content,                      *)
(*   "phone"    one address with three user agents (ClientManager), two    *)
(*              unknown and recognised by its description,                 *)
(*   "player"   two addresses with one user agent, one known by address,   *)
(*   "config"   the edits of an array or a dictionary of the configuration *)
(*              (ConfigOptions), with three entries at most at first.      *)
(***************************************************************************)
EXTENDS Integers

CONSTANTS
    phone, player, app, tv, browser, bubble, samsung, mine,
    Addrs, Agents, ByAddr, ByAgent, ByDescription, Unrecognized, None, NotUnique,
    cacheThreshold, MaxTime, MaxClients

Described == [x \in {phone, player} |-> IF x = phone THEN samsung ELSE None]
KnownPlayer == [x \in {phone, player} |-> IF x = player THEN mine ELSE None]
KnownAgents == [x \in {app, tv, browser} |-> IF x = app THEN bubble ELSE IF x = tv THEN samsung ELSE None]

CONSTANTS
    Requests,
    alone,      \* the request of "stream"
    Shared,     \* the kinds of content of "content"
    Size, Length, Packet, MaxChanges

ASSUME ContentAssumption ==
    /\ Size \in Nat \ {0} /\ Length \in Nat \ {0} /\ Packet \in Nat \ {0}

ASSUME ClientAssumption ==
    /\ Addrs # {} /\ Agents # {}
    /\ Unrecognized # None /\ None \notin NotUnique

VARIABLES part
VARIABLES version, changes, alias, archive, archives, shutdown, req
VARIABLES cache, room, now, calls, misled
VARIABLES kind, option, origSize, indexMap, asked, spoilt

fileVars == <<version, changes, alias, archive, archives, shutdown, req>>
clientVars == <<cache, room, now, calls, misled>>
configVars == <<kind, option, origSize, indexMap, asked, spoilt>>

Content == INSTANCE FileRequest WITH
    Kinds <- {"file", "track", "art", "zip", "steady", "live"}

Clients == INSTANCE ClientManager WITH Unknown <- Unrecognized

Edits == INSTANCE ConfigOptions WITH
    Values <- {"a", "b", "c"}, MaxSize <- 7, MaxOrig <- 3, MaxIndex <- 4

MCInit ==
    /\ part \in {"content", "stream", "phone", "player", "config"}
    /\ IF part = "config" THEN Edits!Init
       ELSE kind = "array" /\ option = <<>> /\ origSize = 0 /\ indexMap = <<>> /\ asked = <<>> /\ spoilt = FALSE
    /\ Content!Init
    /\ Clients!Init

MCNext ==
    /\ UNCHANGED part
    /\ \/ /\ part = "content" /\ Content!Next /\ UNCHANGED <<clientVars, configVars>>
          /\ changes' <= 1 /\ \A r \in Requests : req'[r].kind \in Shared
       \/ /\ part = "stream" /\ Content!Next /\ UNCHANGED <<clientVars, configVars>>
          /\ \A r \in Requests \ {alone} : req'[r] = req[r]
       \/ /\ part = "phone" /\ Clients!Next /\ UNCHANGED <<fileVars, configVars>>
          /\ \A r \in Requests : calls'[r].at # "idle" => calls'[r].addr = phone
       \/ /\ part = "player" /\ Clients!Next /\ UNCHANGED <<fileVars, configVars>>
          /\ \A r \in Requests : calls'[r].at # "idle" => calls'[r].agent = browser
       \/ part = "config" /\ Edits!Next /\ UNCHANGED <<fileVars, clientVars>>

MCSpec == MCInit /\ [][MCNext]_<<part, fileVars, clientVars, configVars>>

(* The properties of FileRequest.                                          *)
InOrder == Content!TypeOK /\ Content!InOrder
EndIsWhole == Content!EndIsWhole /\ Content!NoArchiveLeft /\ Content!AloneIsServed

(* The properties of ClientManager.                                        *)
ServedAsItself == Clients!TypeOK /\ Clients!ServedAsItself /\ Clients!OneEntryEach

(* The property of ConfigOptions.                                          *)
EditsAreLocal == part = "config" => Edits!EditsAreLocal
===============================================================================
