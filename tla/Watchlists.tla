------------------------------ MODULE Watchlists ------------------------------
(****************************************************************************)
(* The stock watchlists of an organization's users: named lists and the     *)
(* symbols saved on them, in two collections.  Every request looks first    *)
(* and writes later; unique indexes on the name (per user) and on the       *)
(* symbol (per list) decide races.  The catalogue a symbol is looked up in  *)
(* changes at any time.                                                     *)
(****************************************************************************)
EXTENDS Naturals, FiniteSets

CONSTANTS
    Owners,
    Names,          \* normalized names
    Symbols,
    Requests,       \* requests in progress at once
    None,
    MaxLists,       \* bound on the lists ever created
    MaxRequests,    \* bound on requests
    MaxFaults       \* bound on failed calls and crashes

VARIABLES
    lists,          \* stock_watchlists: [id, owner, name]
    items,          \* stock_watchlist_items: [list, owner, symbol]
    created,        \* ids given out
    catalogue,      \* symbols of the active snapshot
    request,        \* requests in progress
    received,       \* requests received
    faults,         \* failures so far
    raced           \* history: items saved on a list whose items were being,
                    \* or had been, deleted

watchlistVars == <<lists, items, created, catalogue, request, received, faults, raced>>

Kinds == {"create", "rename", "delete", "add", "remove"}
Idle == [pc |-> "idle", kind |-> "create", owner |-> None, list |-> 0, name |-> None,
         symbol |-> None]

At(r, step) == request[r].pc = step
Goto(r, step) == request' = [request EXCEPT ![r].pc = step]
Done(r) == request' = [request EXCEPT ![r] = Idle]
Fault == faults < MaxFaults /\ faults' = faults + 1

Init ==
    /\ lists = {}
    /\ items = {}
    /\ created = 0
    /\ catalogue = Symbols
    /\ request = [r \in Requests |-> Idle]
    /\ received = 0
    /\ faults = 0
    /\ raced = {}

-----------------------------------------------------------------------------
(* The repositories.                                                        *)

Owned(r) == {l \in lists : l.id = request[r].list /\ l.owner = request[r].owner}

\* has_duplicate_name, without the list that is renamed.
HasDuplicateName(r) ==
    \E l \in lists : /\ l.owner = request[r].owner /\ l.name = request[r].name
                     /\ request[r].kind = "rename" => l.id # request[r].list

HasDuplicateSymbol(r) ==
    \E i \in items : i.list = request[r].list /\ i.symbol = request[r].symbol

\* list_watchlist_items: the stock of an item may have left the catalogue.
ListedItems(list) ==
    {[symbol |-> i.symbol, stock |-> IF i.symbol \in catalogue THEN i.symbol ELSE None] :
        i \in {i \in items : i.list = list.id /\ i.owner = list.owner}}

-----------------------------------------------------------------------------
(* Requests.                                                                *)

\* _get_owned_watchlist: everything but a creation stops with 404 for a list
\* that is not the caller's; creating needs no list.
Begin(r) ==
    /\ At(r, "idle") /\ received < MaxRequests /\ received' = received + 1
    /\ \E kind \in Kinds, owner \in Owners, list \in 0 .. created, name \in Names,
          symbol \in Symbols :
        /\ (kind = "create") = (list = 0)
        /\ kind # "create" => \E l \in lists : l.id = list /\ l.owner = owner
        /\ kind \notin {"create", "rename"} => name = CHOOSE n \in Names : TRUE
        /\ kind \notin {"add", "remove"} => symbol = CHOOSE s \in Symbols : TRUE
        /\ request' = [request EXCEPT ![r] =
                [pc |-> "found", kind |-> kind, owner |-> owner, list |-> list, name |-> name,
                 symbol |-> symbol]]
    /\ UNCHANGED <<lists, items, created, catalogue, faults, raced>>

\* _ensure_unique_watchlist_name, skipped by a rename that keeps the name as it
\* was read.
CheckName(r) ==
    /\ At(r, "found") /\ request[r].kind \in {"create", "rename"}
    /\ IF HasDuplicateName(r) THEN Done(r) ELSE Goto(r, "write")
    /\ UNCHANGED <<lists, items, created, catalogue, received, faults, raced>>

\* The insert, or the loser's error of the unique index.
CreateList(r) ==
    /\ At(r, "write") /\ request[r].kind = "create"
    /\ created < MaxLists
    /\ IF HasDuplicateName(r) THEN UNCHANGED <<lists, created>>
       ELSE /\ lists' = lists \cup {[id |-> created + 1, owner |-> request[r].owner,
                                     name |-> request[r].name]}
            /\ created' = created + 1
    /\ Done(r)
    /\ UNCHANGED <<items, catalogue, received, faults, raced>>

\* A list that is gone by now answers 404.
RenameList(r) ==
    /\ At(r, "write") /\ request[r].kind = "rename"
    /\ lists' = IF HasDuplicateName(r) THEN lists
                ELSE {IF l \in Owned(r) THEN [l EXCEPT !.name = request[r].name] ELSE l :
                        l \in lists}
    /\ Done(r)
    /\ UNCHANGED <<items, created, catalogue, received, faults, raced>>

DeleteList(r) ==
    /\ At(r, "write") /\ request[r].kind = "delete"
    /\ lists' = lists \ Owned(r)
    /\ Done(r)
    /\ UNCHANGED <<items, created, catalogue, received, faults, raced>>

\* Variant: the list goes first, its items are deleted afterwards.
DeleteListFirst(r) ==
    /\ At(r, "found") /\ request[r].kind = "delete"
    /\ lists' = lists \ Owned(r)
    /\ Goto(r, "write")
    /\ UNCHANGED <<items, created, catalogue, received, faults, raced>>

\* delete_watchlist deletes the items, then the list.
DeleteItems(r) ==
    /\ At(r, "found") /\ request[r].kind = "delete"
    /\ items' = {i \in items : ~(i.list = request[r].list /\ i.owner = request[r].owner)}
    /\ Goto(r, "write")
    /\ UNCHANGED <<lists, created, catalogue, received, faults, raced>>

\* add_item: the symbol must be listed, and not be on the list yet.
CheckSymbol(r) ==
    /\ At(r, "found") /\ request[r].kind = "add"
    /\ IF request[r].symbol \in catalogue THEN Goto(r, "duplicate") ELSE Done(r)
    /\ UNCHANGED <<lists, items, created, catalogue, received, faults, raced>>

CheckDuplicate(r) ==
    /\ At(r, "duplicate")
    /\ IF HasDuplicateSymbol(r) THEN Done(r) ELSE Goto(r, "write")
    /\ UNCHANGED <<lists, items, created, catalogue, received, faults, raced>>

\* The insert, or the loser's error of the unique index.  Nothing looks whether
\* the list is still there.
AddItem(r) ==
    /\ At(r, "write") /\ request[r].kind = "add"
    /\ LET item == [list |-> request[r].list, owner |-> request[r].owner,
                    symbol |-> request[r].symbol]
           late == Owned(r) = {} \/ \E q \in Requests : /\ request[q].kind = "delete"
                                                        /\ request[q].list = request[r].list
                                                        /\ At(q, "write")
       IN  IF HasDuplicateSymbol(r) THEN UNCHANGED <<items, raced>>
           ELSE /\ items' = items \cup {item}
                /\ raced' = IF late THEN raced \cup {item} ELSE raced \ {item}
    /\ Done(r)
    /\ UNCHANGED <<lists, created, catalogue, received, faults>>

RemoveItem(r) ==
    /\ At(r, "found") /\ request[r].kind = "remove"
    /\ items' = {i \in items : ~(/\ i.list = request[r].list /\ i.owner = request[r].owner
                                 /\ i.symbol = request[r].symbol)}
    /\ Done(r)
    /\ UNCHANGED <<lists, created, catalogue, received, faults, raced>>

\* A call raises or the process dies: what was written stays.
RequestFails(r) ==
    /\ ~At(r, "idle") /\ Fault /\ Done(r)
    /\ UNCHANGED <<lists, items, created, catalogue, received, raced>>

\* The catalogue is refreshed.
RefreshCatalogue ==
    /\ \E s \in SUBSET Symbols : catalogue' = s
    /\ UNCHANGED <<lists, items, created, request, received, faults, raced>>

Next ==
    \/ RefreshCatalogue
    \/ \E r \in Requests :
        \/ Begin(r) \/ CheckName(r) \/ CreateList(r) \/ RenameList(r)
        \/ DeleteItems(r) \/ DeleteList(r)
        \/ CheckSymbol(r) \/ CheckDuplicate(r) \/ AddItem(r)
        \/ RemoveItem(r) \/ RequestFails(r)
Spec == Init /\ [][Next]_watchlistVars

-----------------------------------------------------------------------------
\* Type invariant.
TypeOK ==
    /\ \A l \in lists : l.id \in 1 .. created /\ l.owner \in Owners /\ l.name \in Names
    /\ \A i \in items : i.list \in 1 .. created /\ i.owner \in Owners /\ i.symbol \in Symbols
    /\ \A r \in Requests : request[r].pc \in {"idle", "found", "duplicate", "write"}

\* An item without its list was saved by a request that looked the list up
\* before a deletion and inserted after it had deleted the items
\* (delete_watchlist and add_item share no transaction); a deletion that dies
\* half way leaves a list, never orphans.
OrphansAreRaces ==
    \A i \in items : i \in raced \/ \E l \in lists : l.id = i.list /\ l.owner = i.owner

\* However requests interleave between their checks and their writes, a user
\* has no two lists of one name and a list no symbol twice, and the items of a
\* list are its owner's.
ListsAreSets ==
    /\ \A l, k \in lists : l.owner = k.owner /\ l.name = k.name => l = k
    /\ \A i, j \in items : i.list = j.list /\ i.symbol = j.symbol => i = j
    /\ \A i \in items, l \in lists : i.list = l.id => i.owner = l.owner
===============================================================================
