----------------------------- MODULE ClientManager -----------------------------
(***************************************************************************)
(* The list of the clients of the server (ClientManager) and the requests  *)
(* that are served by what it tells of them.  A client is recognised by    *)
(* its address, by its user agent, by what was found out about it before   *)
(* or not at all, and the profile that is found decides what it may do and *)
(* which workarounds it gets.                                              *)
(*                                                                         *)
(* A request keeps a pointer to the entry of its client, into the vector   *)
(* of all clients, from the callback that begins it to the one that ends   *)
(* it; only the search itself holds the mutex.  A pointer is modelled by   *)
(* the place in the vector, and as 0 where the storage was given back.     *)
(***************************************************************************)
EXTENDS Naturals, Sequences, FiniteSets

CONSTANTS
    Addrs, Agents, Requests,
    ByAddr,         \* the profile of an address, or None
    ByAgent,        \* the profile of a user agent, or None
    ByDescription,  \* the profile in the description of the device at an address
    Unknown,        \* the profile of all others
    None,
    NotUnique,      \* profiles of which several clients may have one address
    cacheThreshold,
    MaxTime, MaxClients     \* bounds: of the clock and of the list

Profiles == {Unknown} \cup {ByAddr[a] : a \in Addrs} \cup {ByAgent[g] : g \in Agents}
            \cup {ByDescription[a] : a \in Addrs}

VARIABLES
    cache,      \* the entries: address, user agent, profile, time of the last contact
    room,       \* capacity of the vector
    now,
    calls,      \* where each request is, and what it holds
    misled      \* auxiliary: see OneEntryEach

vars == <<cache, room, now, calls, misled>>

Entry(addr, agent, profile) == [addr |-> addr, agent |-> agent, profile |-> profile, last |-> now]

\* the entry of a client: other user agents of an address are the same client,
\* unless the profile tells otherwise
Matches(entry, addr, agent) ==
    entry.addr = addr /\ (entry.profile \notin NotUnique \/ entry.agent = agent)

Places(list, addr, agent) == {i \in DOMAIN list : Matches(list[i], addr, agent)}
First(places) == IF places = {} THEN 0 ELSE CHOOSE i \in places : \A j \in places : i <= j

\* the entries at some places, in their order
InOrder(places) ==
    CHOOSE f \in [1 .. Cardinality(places) -> places] : \A i, j \in DOMAIN f : i < j => f[i] < f[j]
EntriesAt(places) == [i \in 1 .. Cardinality(places) |-> cache[InOrder(places)[i]]]

-------------------------------------------------------------------------------
(* Pointers into the vector.                                               *)

\* an erased entry moves the others up, and the last places are destroyed; an
\* entry that is changed may become that of another client
Shortened(length) ==
    [r \in Requests |-> IF calls[r].ptr > length THEN [calls[r] EXCEPT !.ptr = 0, !.moved = TRUE]
                        ELSE [calls[r] EXCEPT !.moved = @ \/ length < Len(cache)]]
Changed(list) ==
    [r \in Requests |-> LET call == Shortened(Len(list))[r]
                        IN [call EXCEPT !.moved = @ \/ (call.ptr # 0 /\ cache[call.ptr].profile
                                                                       # list[call.ptr].profile)]]
\* a vector that grows beyond its room is copied to another place
Reallocated == [r \in Requests |-> [calls[r] EXCEPT !.ptr = 0, !.moved = TRUE]]

-------------------------------------------------------------------------------
(* getInfo.                                                                *)

Idle == [at |-> "idle", addr |-> CHOOSE a \in Addrs : TRUE, agent |-> CHOOSE g \in Agents : TRUE,
         info |-> None, ptr |-> 0, moved |-> FALSE, shared |-> FALSE, discovery |-> FALSE,
         profile |-> None]

\* the profile by address, else by user agent
Info(addr, agent) == IF ByAddr[addr] # None THEN ByAddr[addr] ELSE ByAgent[agent]

Ask(r, addr, agent, discovery) ==
    /\ calls[r].at = "idle"
    /\ calls' = [calls EXCEPT ![r] = [Idle EXCEPT !.addr = addr, !.agent = agent,
                                                  !.info = Info(addr, agent), !.discovery = discovery,
                                                  !.at = IF Info(addr, agent) = None THEN "look" ELSE "update"]]
    /\ UNCHANGED <<cache, room, now, misled>>

\* getInfoByCache: neither expires an entry nor notes the contact
Look(r) ==
    /\ calls[r].at = "look"
    /\ LET place == First(Places(cache, calls[r].addr, calls[r].agent))
       IN calls' = IF place = 0 THEN [calls EXCEPT ![r].info = Unknown, ![r].at = "update"]
                   ELSE [calls EXCEPT ![r].ptr = place, ![r].at = "use", ![r].moved = FALSE]
    /\ UNCHANGED <<cache, room, now, misled>>

\* updateCache.  A new entry is looked up by its address alone.
Expired(entry) == entry.last + cacheThreshold < now
Kept == EntriesAt({i \in DOMAIN cache : ~Expired(cache[i])})

RenewedAgent(entry, agent, info) ==                                 \* mutant
    [entry EXCEPT !.last = now, !.agent = agent]
Renewed(entry, agent, info) ==
    IF entry.profile = info THEN [entry EXCEPT !.last = now] ELSE Entry(entry.addr, agent, info)

Found(list, addr) == First({i \in DOMAIN list : list[i].addr = addr})

\* a request holds the entry at a place, a description that was downloaded none
Holding(r, place, others, shared) ==
    IF calls[r].at = "describe" THEN [others EXCEPT ![r] = Idle]
    ELSE [others EXCEPT ![r].at = "use", ![r].moved = FALSE, ![r].ptr = place, ![r].shared = shared]

Refresh(r, place) ==
    /\ cache' = [Kept EXCEPT ![place] = Renewed(@, calls[r].agent, calls[r].info)]
    /\ calls' = Holding(r, place, Changed(cache'), FALSE)
    /\ UNCHANGED room

Insert(r) ==
    LET full == Len(Kept) = room
        place == Found(cache', calls[r].addr)
    IN /\ Len(Kept) < MaxClients
       /\ cache' = Append(Kept, Entry(calls[r].addr, calls[r].agent, calls[r].info))
       /\ room' = IF full THEN IF room = 0 THEN 1 ELSE 2 * room ELSE room
       /\ calls' = Holding(r, place, IF full THEN Reallocated ELSE Shortened(Len(Kept)), place < Len(cache'))

Update(r) ==
    LET place == First(Places(Kept, calls[r].addr, calls[r].agent))
    IN /\ calls[r].at \in {"update", "describe"}
       /\ IF place # 0 THEN Refresh(r, place) ELSE Insert(r)
       /\ UNCHANGED <<now, misled>>

-------------------------------------------------------------------------------
(* What a request does with the pointer.                                   *)

\* Quirks: the profile is read from the entry, which may be another's, or gone
Held(r) == IF calls[r].ptr = 0 THEN None ELSE cache[calls[r].ptr].profile

\* a discovery of a client that is not known downloads its description
Use(r) ==
    /\ calls[r].at = "use"
    /\ calls' = IF calls[r].discovery
                THEN IF Held(r) = Unknown /\ ByDescription[calls[r].addr] # None
                     THEN [calls EXCEPT ![r].info = ByDescription[calls[r].addr], ![r].at = "describe"]
                     ELSE [calls EXCEPT ![r] = Idle]
                ELSE [calls EXCEPT ![r].profile = Held(r), ![r].at = "served"]
    /\ misled' = (misled \/ (calls[r].discovery /\ calls[r].moved))
    /\ UNCHANGED <<cache, room, now>>

\* the next callback of the same request takes the pointer from the cookie
Callback(r) ==
    /\ calls[r].at = "served" /\ calls' = [calls EXCEPT ![r].at = "use"]
    /\ UNCHANGED <<cache, room, now, misled>>
End(r) ==
    /\ calls[r].at = "served" /\ calls' = [calls EXCEPT ![r] = Idle]
    /\ UNCHANGED <<cache, room, now, misled>>

-------------------------------------------------------------------------------

removeClient(addr, agent) ==
    /\ cache' = EntriesAt(DOMAIN cache \ Places(cache, addr, agent))
    /\ cache' # cache
    /\ calls' = Shortened(Len(cache'))
    /\ UNCHANGED <<room, now, misled>>

\* the list is saved with every change; profiles are found anew, and what was
\* told by a description is not
Loaded(entry) == [entry EXCEPT !.profile = IF Info(entry.addr, entry.agent) = None THEN Unknown
                                           ELSE Info(entry.addr, entry.agent)]
Restart ==
    /\ cache' = [i \in DOMAIN cache |-> Loaded(cache[i])]
    /\ cache' # cache
    /\ calls' = [r \in Requests |-> Idle]
    /\ UNCHANGED <<room, now, misled>>

Tick == now < MaxTime /\ now' = now + 1 /\ UNCHANGED <<cache, room, calls, misled>>

Init ==
    /\ cache = <<>> /\ room = 0 /\ now = 0 /\ misled = FALSE
    /\ calls = [r \in Requests |-> Idle]

Next ==
    \/ \E r \in Requests :
         \/ \E addr \in Addrs, agent \in Agents, discovery \in BOOLEAN : Ask(r, addr, agent, discovery)
         \/ Look(r) \/ Update(r) \/ Use(r) \/ Callback(r) \/ End(r)
    \/ \E addr \in Addrs, agent \in Agents : removeClient(addr, agent)
    \/ Restart \/ Tick

Spec == Init /\ [][Next]_vars

-------------------------------------------------------------------------------
(* Properties.                                                             *)

TypeOK ==
    /\ \A i \in DOMAIN cache : cache[i].profile \in Profiles \ {None} /\ cache[i].last <= now
    /\ Len(cache) <= room
    /\ \A r \in Requests : calls[r].ptr <= Len(cache)

(* No two entries stand for one client: there is one for an address and a  *)
(* user agent, in whatever order profiles were found, given up and found,  *)
(* until a discovery takes the entry of another client for its own, as its *)
(* pointer was moved.                                                      *)
OneEntryEach == ~misled =>
    \A i, j \in DOMAIN cache :
        cache[i].addr = cache[j].addr /\ cache[i].agent = cache[j].agent => i = j

(* A client that is known by its address or its user agent is served by    *)
(* that profile, unless the list was changed by another request since its  *)
(* pointer was taken (`moved`: the pointer is another's or dangles), or it *)
(* was new at an address that had a client already (`shared`: the pointer  *)
(* is that of the other client).                                           *)
ServedAsItself ==
    \A r \in Requests :
        calls[r].at = "served" /\ ~calls[r].moved /\ ~calls[r].shared
          /\ Info(calls[r].addr, calls[r].agent) # None =>
            calls[r].profile = Info(calls[r].addr, calls[r].agent)

================================================================================
