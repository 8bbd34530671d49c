------------------------------ MODULE ListsProofs ------------------------------
(****************************************************************************)
(* What holds of the components that keep lists behind a check and a write  *)
(* (the stock catalogue and its cache, watchlists, notifications, accounts  *)
(* and organizations) and of voices and speeches, for every value of their  *)
(* constants.  Each component is an instance, with the variables it has in  *)
(* the platform and bounds of its own, so that one instance of this module  *)
(* covers them all; each part gives an inductive invariant and what it      *)
(* tells.                                                                   *)
(****************************************************************************)
EXTENDS Naturals, Sequences, FiniteSets, SequencesExt, TLAPS

CONSTANTS
    None, Requests,
    StockSymbols, PageSize, Readers, Refreshers, MaxRefreshes, MaxPageReads, MaxCatalogFaults,
    Owners, ListNames, ListSymbols, MaxLists, MaxListRequests, MaxListFaults,
    Keys, Creators, Clients, MaxCreations, MaxClientReads, MaxNoticeFaults,
    OrgNames, Emails, Founders, MaxAccounts, MaxOrganizations, MaxOrgRequests, MaxOrgFaults,
    VoiceIds, SystemVoices, Users, Admins, MaxChunks, MaxVoiceRequests, MaxVoiceFaults

VARIABLES
    faults,
    rows, active, pages, refresher, pageReader, refreshes, pageReads, excusedPages,
    lists, items, created, catalogue, listRequest, received, lateItems,
    notifications, creator, client, emitted, clock, creations, unannounced,
    accounts, orgs, members, orgRequest, orgRequests, overlappedEmails, ungoverned,
    voices, files, cloned, voiceRequest, voicesAsked, told, leaked, cut

-----------------------------------------------------------------------------
(* The stock catalogue.  What a page contains does not matter: Response is  *)
(* never expanded.                                                          *)
Catalog == INSTANCE StockCatalog WITH
    Symbols <- StockSymbols, MaxReads <- MaxPageReads, MaxFaults <- MaxCatalogFaults,
    cache <- pages, reader <- pageReader, clock <- refreshes, reads <- pageReads,
    excused <- excusedPages

\* The fields of a request and of a refresh.
ReaderFits(v) ==
    v \in [pc : {v.pc}, page : {v.page}, at : {v.at}, total : {v.total},
           overlapped : {v.overlapped}, response : {v.response}]

RefresherFits(v) ==
    v \in [pc : {v.pc}, at : {v.at}, symbols : {v.symbols}, keys : {v.keys}]

Shapes ==
    /\ rows = [s \in StockSymbols |-> rows[s]]
    /\ pages = [p \in Catalog!Pages |-> pages[p]]
    /\ refresher = [r \in Refreshers |-> refresher[r]]
    /\ pageReader = [q \in Readers |-> pageReader[q]]
    /\ \A r \in Refreshers : RefresherFits(refresher[r])
    /\ \A q \in Readers : ReaderFits(pageReader[q])
    /\ \A q \in Readers : pageReader[q].pc # "idle" => pageReader[q].page \in Catalog!Pages

\* A request that no replacement overlapped has read the active snapshot.
HasReadActive(v) ==
    /\ v.pc \in {"count", "find", "store"} => v.at = active
    /\ v.pc = "find" => v.total = Catalog!Cardinality(Catalog!Active(active))
    /\ v.pc = "store" => v.response = Catalog!Current(v.page)

ReadersAreCurrent == \A q \in Readers : pageReader[q].overlapped \/ HasReadActive(pageReader[q])

\* A refresh is about to drop the page.
Doomed(p) ==
    \E r \in Refreshers :
        \/ refresher[r].pc = "scan"
        \/ refresher[r].pc = "unlink" /\ p \in refresher[r].keys

PagesAreCurrent == \A p \in Catalog!Cached \ excusedPages : pages[p] = Catalog!Current(p) \/ Doomed(p)

\* The inductive invariant.
CatalogSound == Shapes /\ Catalog!OneSnapshot /\ ReadersAreCurrent /\ PagesAreCurrent

-----------------------------------------------------------------------------
\* Pages depend on the catalogue only.
LEMMA SameCatalogue ==
    ASSUME UNCHANGED <<rows, active>>
    PROVE  /\ Catalog!Active(active)' = Catalog!Active(active)
           /\ \A p : Catalog!Current(p)' = Catalog!Current(p)
           /\ \A at : Catalog!Active(at)' = Catalog!Active(at)
BY DEF Catalog!Active, Catalog!Current

\* Two requests have the same fields, but for those of a set.
SameBut(w, v, fields) ==
    /\ ReaderFits(w)
    /\ "pc" \in fields \/ w.pc = v.pc
    /\ "at" \in fields \/ w.at = v.at
    /\ "total" \in fields \/ w.total = v.total
    /\ "overlapped" \in fields \/ w.overlapped = v.overlapped
    /\ "response" \in fields \/ w.response = v.response
    /\ w.page = v.page

\* The updates of a request.
LEMMA Overlapping ==
    ASSUME NEW v, ReaderFits(v), NEW x
    PROVE  LET w == [v EXCEPT !.overlapped = x]
           IN  SameBut(w, v, {"overlapped"}) /\ w.overlapped = x
BY DEF ReaderFits, SameBut

LEMMA CatalogReading ==
    ASSUME NEW v, ReaderFits(v), NEW x
    PROVE  LET w == [v EXCEPT !.pc = "count", !.at = x]
           IN  SameBut(w, v, {"pc", "at"}) /\ w.pc = "count" /\ w.at = x
BY DEF ReaderFits, SameBut

LEMMA CatalogSoundInit == Catalog!Init => CatalogSound
<1> SUFFICES ASSUME Catalog!Init PROVE CatalogSound
  OBVIOUS
<1>1. Shapes
  <2>1. \A q \in Readers : pageReader[q] = Catalog!NoRead
    BY DEF Catalog!Init
  <2>2. \A r \in Refreshers : refresher[r] = Catalog!NoRefresh
    BY DEF Catalog!Init
  <2>3. ReaderFits(Catalog!NoRead) /\ Catalog!NoRead.pc = "idle" /\ RefresherFits(Catalog!NoRefresh)
    BY DEF ReaderFits, RefresherFits, Catalog!NoRead, Catalog!NoRefresh
  <2>4. QED BY <2>1, <2>2, <2>3 DEF Catalog!Init, Shapes
<1>2. Catalog!OneSnapshot
  BY DEF Catalog!Init, Catalog!OneSnapshot
<1>3. ReadersAreCurrent
  BY DEF Catalog!Init, ReadersAreCurrent, HasReadActive, Catalog!NoRead
<1>4. PagesAreCurrent
  BY DEF Catalog!Init, PagesAreCurrent, Catalog!Cached
<1>5. QED BY <1>1, <1>2, <1>3, <1>4 DEF CatalogSound

LEMMA FetchInvariant ==
    ASSUME CatalogSound, NEW r \in Refreshers, Catalog!Fetch(r)
    PROVE  CatalogSound'
<1>1. Shapes'
  BY DEF CatalogSound, Shapes, Catalog!Fetch, RefresherFits
<1>2. Catalog!OneSnapshot'
  BY DEF CatalogSound, Catalog!OneSnapshot, Catalog!Fetch
<1>3. ReadersAreCurrent'
  BY SameCatalogue DEF CatalogSound, ReadersAreCurrent, HasReadActive, Catalog!Fetch
<1>4. PagesAreCurrent'
  <2>1. \A p \in Catalog!Cached : Doomed(p) => Doomed(p)'
    BY DEF CatalogSound, Shapes, Doomed, Catalog!Fetch, RefresherFits
  <2>2. Catalog!Cached' = Catalog!Cached /\ pages' = pages /\ excusedPages' = excusedPages
    BY DEF Catalog!Fetch, Catalog!Cached
  <2>3. QED BY <2>1, <2>2, SameCatalogue DEF CatalogSound, PagesAreCurrent, Catalog!Fetch
<1>5. QED BY <1>1, <1>2, <1>3, <1>4 DEF CatalogSound

\* A replacement overlaps every request that has read something, and its
\* refresh goes on to scan: no page needs to be current.
LEMMA ReplaceInvariant ==
    ASSUME CatalogSound, NEW r \in Refreshers, Catalog!Replace(r)
    PROVE  CatalogSound'
<1>1. \A q \in Readers : SameBut(pageReader'[q], pageReader[q], {"overlapped"})
  BY Overlapping DEF CatalogSound, Shapes, Catalog!Replace
<1>2. \A q \in Readers : pageReader'[q].overlapped \/ pageReader[q].pc \in {"idle", "snapshot"}
  <2> SUFFICES ASSUME NEW q \in Readers, pageReader[q].pc \notin {"idle", "snapshot"}
               PROVE  pageReader'[q].overlapped
    OBVIOUS
  <2>1. pageReader'[q].overlapped = (pageReader[q].pc \notin {"idle", "snapshot"})
    BY Overlapping DEF CatalogSound, Shapes, Catalog!Replace
  <2>2. QED BY <2>1, Zenon
<1>3. Shapes' /\ Catalog!OneSnapshot'
  <2>1. pageReader' = [q \in Readers |-> pageReader'[q]]
    BY DEF Catalog!Replace
  <2>2. \A t \in Refreshers : RefresherFits(refresher'[t])
    BY DEF CatalogSound, Shapes, Catalog!Replace, RefresherFits
  <2>3. /\ rows' = [s \in StockSymbols |-> rows'[s]]
        /\ pages' = [p \in Catalog!Pages |-> pages'[p]]
        /\ refresher' = [t \in Refreshers |-> refresher'[t]]
    BY DEF CatalogSound, Shapes, Catalog!Replace
  <2>4. Catalog!OneSnapshot'
    BY DEF Catalog!OneSnapshot, Catalog!Replace
  <2>5. QED BY <1>1, <2>1, <2>2, <2>3, <2>4 DEF CatalogSound, Shapes, SameBut
<1>4. ReadersAreCurrent'
  BY <1>1, <1>2 DEF ReadersAreCurrent, HasReadActive, SameBut
<1>5. PagesAreCurrent'
  BY DEF CatalogSound, Shapes, RefresherFits, PagesAreCurrent, Doomed, Catalog!Replace
<1>6. QED BY <1>3, <1>4, <1>5 DEF CatalogSound

\* A scan finds every page it must drop.
LEMMA ScanInvariant ==
    ASSUME CatalogSound, NEW r \in Refreshers, Catalog!Scan(r)
    PROVE  CatalogSound'
<1>1. Shapes'
  BY DEF CatalogSound, Shapes, Catalog!Scan, RefresherFits
<1>2. Catalog!OneSnapshot'
  BY DEF CatalogSound, Catalog!OneSnapshot, Catalog!Scan
<1>3. ReadersAreCurrent'
  BY SameCatalogue DEF CatalogSound, ReadersAreCurrent, HasReadActive, Catalog!Scan
<1>4. PagesAreCurrent'
  <2>1. \A p \in Catalog!Cached : Doomed(p)'
    BY DEF CatalogSound, Shapes, RefresherFits, Doomed, Catalog!Scan, Catalog!Keys
  <2>2. Catalog!Cached' = Catalog!Cached
    BY DEF Catalog!Scan, Catalog!Cached
  <2>3. QED BY <2>1, <2>2 DEF PagesAreCurrent
<1>5. QED BY <1>1, <1>2, <1>3, <1>4 DEF CatalogSound

\* What an unlink leaves in the cache was put there after its scan.
LEMMA UnlinkInvariant ==
    ASSUME CatalogSound, NEW r \in Refreshers, Catalog!Unlink(r)
    PROVE  CatalogSound'
<1>1. Shapes'
  BY DEF CatalogSound, Shapes, Catalog!Unlink, RefresherFits, Catalog!NoRefresh
<1>2. Catalog!OneSnapshot'
  BY DEF CatalogSound, Catalog!OneSnapshot, Catalog!Unlink
<1>3. ReadersAreCurrent'
  BY SameCatalogue DEF CatalogSound, ReadersAreCurrent, HasReadActive, Catalog!Unlink
<1>4. PagesAreCurrent'
  <2> SUFFICES ASSUME NEW p \in Catalog!Cached', p \notin excusedPages'
               PROVE  pages'[p] = Catalog!Current(p)' \/ Doomed(p)'
    BY DEF PagesAreCurrent
  <2>1. p \in Catalog!Cached /\ p \notin refresher[r].keys /\ pages'[p] = pages[p] /\ p \notin excusedPages
    BY DEF CatalogSound, Shapes, Catalog!Unlink, Catalog!Cached
  <2>2. Catalog!Current(p)' = Catalog!Current(p)
    BY SameCatalogue DEF Catalog!Unlink
  <2>3. Doomed(p) => Doomed(p)'
    BY <2>1 DEF CatalogSound, Shapes, Doomed, Catalog!Unlink
  <2>4. QED BY <2>1, <2>2, <2>3 DEF CatalogSound, PagesAreCurrent
<1>5. QED BY <1>1, <1>2, <1>3, <1>4 DEF CatalogSound

\* A failure after the replacement excuses every page; one before it excuses
\* none and dooms none.
LEMMA RefreshFailsInvariant ==
    ASSUME CatalogSound, NEW r \in Refreshers, Catalog!RefreshFails(r)
    PROVE  CatalogSound'
<1>1. Shapes'
  BY DEF CatalogSound, Shapes, Catalog!RefreshFails, RefresherFits, Catalog!NoRefresh
<1>2. Catalog!OneSnapshot'
  BY DEF CatalogSound, Catalog!OneSnapshot, Catalog!RefreshFails
<1>3. ReadersAreCurrent'
  BY SameCatalogue DEF CatalogSound, ReadersAreCurrent, HasReadActive, Catalog!RefreshFails
<1>4. PagesAreCurrent'
  <2> SUFFICES ASSUME NEW p \in Catalog!Cached', p \notin excusedPages'
               PROVE  pages'[p] = Catalog!Current(p)' \/ Doomed(p)'
    BY DEF PagesAreCurrent
  <2>1. p \in Catalog!Cached /\ pages'[p] = pages[p] /\ Catalog!Current(p)' = Catalog!Current(p)
    BY SameCatalogue DEF Catalog!RefreshFails, Catalog!Cached
  <2>2. refresher[r].pc = "replace" /\ p \notin excusedPages
    BY <2>1 DEF Catalog!RefreshFails
  <2>3. Doomed(p) => Doomed(p)'
    BY <2>2 DEF CatalogSound, Shapes, Doomed, Catalog!RefreshFails
  <2>4. QED BY <2>1, <2>2, <2>3 DEF CatalogSound, PagesAreCurrent
<1>5. QED BY <1>1, <1>2, <1>3, <1>4 DEF CatalogSound

-----------------------------------------------------------------------------
\* The queries of a request change no page.
LEMMA QueryInvariant ==
    ASSUME CatalogSound, NEW q \in Readers, Catalog!GetPage(q) \/ Catalog!ReadSnapshot(q) \/ Catalog!Count(q) \/ Catalog!Find(q)
    PROVE  CatalogSound'
<1> USE DEF Catalog!GetPage, Catalog!ReadSnapshot, Catalog!Count, Catalog!Find
<1>1. UNCHANGED <<rows, active, pages, refresher, excusedPages>>
  OBVIOUS
<1>2. /\ pageReader' = [v \in Readers |-> pageReader'[v]]
      /\ \A v \in Readers \ {q} : pageReader'[v] = pageReader[v]
  BY DEF CatalogSound, Shapes
<1>3. /\ ReaderFits(pageReader'[q]) /\ pageReader'[q].page \in Catalog!Pages
      /\ pageReader'[q].overlapped \/ HasReadActive(pageReader'[q])
  <2> DEFINE v == pageReader[q]
  <2>1. ReaderFits(v) /\ (v.pc # "idle" => v.page \in Catalog!Pages)
        /\ (v.overlapped \/ HasReadActive(v))
    BY DEF CatalogSound, Shapes, ReadersAreCurrent
  <2>2. CASE Catalog!GetPage(q)
    BY <2>2 DEF CatalogSound, Shapes, ReaderFits, Catalog!NoRead, HasReadActive
  <2>3. CASE Catalog!ReadSnapshot(q)
    <3>1. SameBut(pageReader'[q], v, {"pc", "at"})
          /\ pageReader'[q].pc = "count" /\ pageReader'[q].at = active
      BY <2>1, <2>3, CatalogReading DEF CatalogSound, Shapes
    <3>2. QED BY <2>1, <2>3, <3>1 DEF SameBut, HasReadActive
  <2>4. CASE Catalog!Count(q)
    <3> DEFINE n == Catalog!Cardinality(Catalog!Active(v.at))
    <3>1. SameBut(pageReader'[q], v, {"pc", "total"}) /\ pageReader'[q].pc = "find"
          /\ pageReader'[q].total = n
      <4>1. pageReader'[q] = [v EXCEPT !.pc = "find", !.total = n]
        BY <2>4 DEF CatalogSound, Shapes
      <4> HIDE DEF n
      <4>2. QED BY <2>1, <4>1 DEF ReaderFits, SameBut
    <3>2. QED BY <2>1, <2>4, <3>1 DEF SameBut, HasReadActive
  <2>5. CASE Catalog!Find(q)
    <3> DEFINE found == Catalog!Response(Catalog!Active(v.at), v.total, v.page)
    <3>1. SameBut(pageReader'[q], v, {"pc", "response"}) /\ pageReader'[q].pc = "store"
          /\ pageReader'[q].response = found
      <4>1. pageReader'[q] = [v EXCEPT !.pc = "store", !.response = found]
        BY <2>5 DEF CatalogSound, Shapes
      <4> HIDE DEF found
      <4>2. QED BY <2>1, <4>1 DEF ReaderFits, SameBut
    <3>2. QED BY <2>1, <2>5, <3>1 DEF SameBut, HasReadActive, Catalog!Current
  <2>6. QED BY <2>2, <2>3, <2>4, <2>5
<1>4. Shapes' /\ Catalog!OneSnapshot'
  BY <1>1, <1>2, <1>3 DEF CatalogSound, Shapes, Catalog!OneSnapshot
<1>5. ReadersAreCurrent'
  <2>1. \A v : HasReadActive(v) => HasReadActive(v)'
    BY <1>1, SameCatalogue DEF HasReadActive
  <2>2. QED BY <1>2, <1>3, <2>1 DEF CatalogSound, ReadersAreCurrent
<1>6. PagesAreCurrent'
  BY <1>1, SameCatalogue DEF CatalogSound, PagesAreCurrent, Doomed, Catalog!Cached
<1>7. QED BY <1>4, <1>5, <1>6 DEF CatalogSound

\* A request that overlapped nothing stores the current page.
LEMMA SetPageInvariant ==
    ASSUME CatalogSound, NEW q \in Readers, Catalog!SetPage(q)
    PROVE  CatalogSound'
<1>1. Shapes'
  BY DEF CatalogSound, Shapes, Catalog!SetPage, ReaderFits, Catalog!NoRead
<1>2. Catalog!OneSnapshot'
  BY DEF CatalogSound, Catalog!OneSnapshot, Catalog!SetPage
<1>3. ReadersAreCurrent'
  BY SameCatalogue DEF CatalogSound, Shapes, ReadersAreCurrent, HasReadActive, Catalog!SetPage,
     Catalog!NoRead
<1>4. PagesAreCurrent'
  <2> SUFFICES ASSUME NEW p \in Catalog!Cached', p \notin excusedPages'
               PROVE  pages'[p] = Catalog!Current(p)' \/ Doomed(p)'
    BY DEF PagesAreCurrent
  <2>1. Catalog!Current(p)' = Catalog!Current(p) /\ (Doomed(p) => Doomed(p)')
    BY SameCatalogue DEF Catalog!SetPage, Doomed
  <2>2. CASE pages' = pages /\ excusedPages' = excusedPages
    BY <2>1, <2>2 DEF CatalogSound, PagesAreCurrent, Catalog!Cached
  <2>3. CASE /\ pages' = [pages EXCEPT ![pageReader[q].page] = pageReader[q].response]
             /\ excusedPages' = IF pageReader[q].overlapped THEN excusedPages \cup {pageReader[q].page}
                           ELSE excusedPages \ {pageReader[q].page}
    <3>1. CASE p = pageReader[q].page
      <4>1. ~pageReader[q].overlapped /\ pages'[p] = pageReader[q].response
        BY <2>3, <3>1 DEF CatalogSound, Shapes, Catalog!SetPage
      <4>2. QED BY <2>1, <3>1, <4>1 DEF CatalogSound, ReadersAreCurrent, HasReadActive,
                   Catalog!SetPage
    <3>2. CASE p # pageReader[q].page
      <4>1. pages'[p] = pages[p] /\ p \in Catalog!Cached /\ p \notin excusedPages
        BY <2>3, <3>2 DEF CatalogSound, Shapes, Catalog!Cached
      <4>2. QED BY <2>1, <4>1 DEF CatalogSound, PagesAreCurrent
    <3>3. QED BY <3>1, <3>2
  <2>4. QED BY <2>2, <2>3 DEF Catalog!SetPage
<1>5. QED BY <1>1, <1>2, <1>3, <1>4 DEF CatalogSound

LEMMA ExpirePageInvariant ==
    ASSUME CatalogSound, Catalog!ExpirePage
    PROVE  CatalogSound'
<1>1. Shapes'
  BY DEF CatalogSound, Shapes, Catalog!ExpirePage
<1>2. Catalog!OneSnapshot'
  BY DEF CatalogSound, Catalog!OneSnapshot, Catalog!ExpirePage
<1>3. ReadersAreCurrent'
  BY SameCatalogue DEF CatalogSound, ReadersAreCurrent, HasReadActive, Catalog!ExpirePage
<1>4. PagesAreCurrent'
  <2> SUFFICES ASSUME NEW p \in Catalog!Cached', p \notin excusedPages'
               PROVE  pages'[p] = Catalog!Current(p)' \/ Doomed(p)'
    BY DEF PagesAreCurrent
  <2>1. p \in Catalog!Cached /\ pages'[p] = pages[p] /\ p \notin excusedPages
    BY DEF CatalogSound, Shapes, Catalog!ExpirePage, Catalog!Cached
  <2>2. Catalog!Current(p)' = Catalog!Current(p) /\ (Doomed(p) => Doomed(p)')
    BY SameCatalogue DEF Catalog!ExpirePage, Doomed
  <2>3. QED BY <2>1, <2>2 DEF CatalogSound, PagesAreCurrent
<1>5. QED BY <1>1, <1>2, <1>3, <1>4 DEF CatalogSound

LEMMA CatalogSoundStep == CatalogSound /\ [Catalog!Next]_(Catalog!catalogVars) => CatalogSound'
<1> SUFFICES ASSUME CatalogSound, [Catalog!Next]_(Catalog!catalogVars) PROVE CatalogSound'
  OBVIOUS
<1>1. ASSUME NEW r \in Refreshers, Catalog!RefreshStep(r) PROVE CatalogSound'
  BY <1>1, FetchInvariant, ReplaceInvariant, ScanInvariant, UnlinkInvariant,
     RefreshFailsInvariant DEF Catalog!RefreshStep
<1>2. ASSUME NEW q \in Readers, Catalog!ReadStep(q) PROVE CatalogSound'
  BY <1>2, QueryInvariant, SetPageInvariant DEF Catalog!ReadStep
<1>3. CASE UNCHANGED Catalog!catalogVars
  BY <1>3 DEF Catalog!catalogVars, CatalogSound, Shapes, ReaderFits, RefresherFits,
     Catalog!OneSnapshot,
     ReadersAreCurrent, HasReadActive, PagesAreCurrent, Doomed, Catalog!Cached, Catalog!Current, Catalog!Active
<1>4. QED BY <1>1, <1>2, <1>3, ExpirePageInvariant DEF Catalog!Next

-----------------------------------------------------------------------------
LEMMA CatalogSoundTells == CatalogSound => Catalog!CacheFollowsCatalogue /\ Catalog!OneSnapshot
BY DEF CatalogSound, PagesAreCurrent, Doomed, Catalog!CacheFollowsCatalogue

\* Once the refreshes have dropped the cached pages, a page in the cache is the
\* page of the active snapshot, unless its reader overlapped the replacement or
\* an invalidation failed (list_stocks, refresh_catalog).
THEOREM PagesFollowCatalogue == Catalog!Spec => []Catalog!CacheFollowsCatalogue
BY CatalogSoundInit, CatalogSoundStep, CatalogSoundTells, PTL DEF Catalog!Spec

\* The rows are those of the active snapshot, whatever refreshes overlapped
\* (replace_snapshot is one transaction).
THEOREM SnapshotsDoNotMix == Catalog!Spec => []Catalog!OneSnapshot
BY CatalogSoundInit, CatalogSoundStep, CatalogSoundTells, PTL DEF Catalog!Spec

-----------------------------------------------------------------------------
(* Watchlists.                                                              *)
Lists == INSTANCE Watchlists WITH
    Names <- ListNames, Symbols <- ListSymbols, MaxRequests <- MaxListRequests,
    MaxFaults <- MaxListFaults, request <- listRequest, raced <- lateItems

\* Who owns a list is settled when it is created: a list, an item and a request
\* that name it agree, also when the list is gone.
ListRows == [id : 1 .. created, owner : Owners, name : ListNames]
ItemRows == [list : 1 .. created, owner : Owners, symbol : ListSymbols]
Asks(c, n) ==
    /\ c = [pc |-> c.pc, kind |-> c.kind, owner |-> c.owner, list |-> c.list,
            name |-> c.name, symbol |-> c.symbol]
    /\ c.pc \in {"idle", "found", "duplicate", "write"}
    /\ c.pc # "idle" =>
        /\ c.owner \in Owners /\ c.name \in ListNames /\ c.symbol \in ListSymbols
        /\ c.kind # "create" => c.list \in 1 .. n
    /\ c.pc = "duplicate" => c.kind = "add"
ListsTyping ==
    /\ created \in Nat
    /\ lists \subseteq ListRows
    /\ items \subseteq ItemRows
    /\ listRequest = [r \in Requests |-> listRequest[r]]
    /\ \A r \in Requests : Asks(listRequest[r], created)

\* A list, an item and a request say whose a list is.
Claimed(id, owner) ==
    \/ \E l \in lists : l.id = id /\ l.owner = owner
    \/ \E i \in items : i.list = id /\ i.owner = owner
    \/ \E r \in Requests : /\ listRequest[r].pc # "idle" /\ listRequest[r].kind # "create"
                           /\ listRequest[r].list = id /\ listRequest[r].owner = owner
OwnersAgree ==
    /\ \A l, k \in lists : l.id = k.id => l = k
    /\ \A id \in 1 .. created, o, p \in Owners : Claimed(id, o) /\ Claimed(id, p) => o = p

\* Once a deletion has deleted the items of its list, what is on it is late.
DeletedFirst ==
    \A r \in Requests : listRequest[r].kind = "delete" /\ listRequest[r].pc = "write" =>
        \A i \in items :
            i.list = listRequest[r].list /\ i.owner = listRequest[r].owner => i \in lateItems
Sets ==
    /\ \A l, k \in lists : l.owner = k.owner /\ l.name = k.name => l = k
    /\ \A i, j \in items : i.list = j.list /\ i.symbol = j.symbol => i = j
ListsSound == ListsTyping /\ OwnersAgree /\ DeletedFirst /\ Sets /\ Lists!OrphansAreRaces

-----------------------------------------------------------------------------
LEMMA ClaimedTyped ==
    ASSUME ListsTyping, NEW id, NEW o, Claimed(id, o)
    PROVE  id \in 1 .. created /\ o \in Owners
BY DEF ListsTyping, Claimed, Asks, ListRows, ItemRows

\* Claims that were there before agree.
LEMMA ClaimsAgree ==
    ASSUME ListsTyping, OwnersAgree, UNCHANGED created,
           \A l, k \in lists' : l.id = k.id => l = k,
           \A id, o : Claimed(id, o)' => Claimed(id, o)
    PROVE  OwnersAgree'
BY DEF OwnersAgree

\* How a request goes on or ends.
LEMMA Moves ==
    ASSUME ListsTyping, NEW r \in Requests,
           \/ Lists!Done(r) \/ Lists!Goto(r, "write")
           \/ Lists!Goto(r, "duplicate") /\ listRequest[r].kind = "add",
           listRequest[r].pc # "idle"
    PROVE  /\ listRequest' = [q \in Requests |-> listRequest'[q]]
           /\ \A q \in Requests : q # r => listRequest'[q] = listRequest[q]
           /\ Asks(listRequest'[r], created)
           /\ \/ listRequest'[r].pc = "idle"
              \/ /\ listRequest'[r].kind = listRequest[r].kind /\ listRequest'[r].owner = listRequest[r].owner
                 /\ listRequest'[r].list = listRequest[r].list /\ listRequest'[r].name = listRequest[r].name
                 /\ listRequest'[r].symbol = listRequest[r].symbol
<1> DEFINE c == listRequest[r]
<1>1. c = [pc |-> c.pc, kind |-> c.kind, owner |-> c.owner, list |-> c.list,
           name |-> c.name, symbol |-> c.symbol]
  BY DEF ListsTyping, Asks
<1>2. CASE Lists!Done(r)
  <2>1. (\A n : Asks(Lists!Idle, n)) /\ Lists!Idle.pc = "idle"
    BY DEF Asks, Lists!Idle
  <2>2. QED BY <1>2, <2>1 DEF Lists!Done, ListsTyping
<1>3. ASSUME NEW step \in {"duplicate", "write"}, Lists!Goto(r, step),
             step = "duplicate" => c.kind = "add"
      PROVE  /\ listRequest' = [q \in Requests |-> listRequest'[q]]
             /\ \A q \in Requests : q # r => listRequest'[q] = listRequest[q]
             /\ Asks(listRequest'[r], created)
             /\ /\ listRequest'[r].kind = listRequest[r].kind /\ listRequest'[r].owner = listRequest[r].owner
                /\ listRequest'[r].list = listRequest[r].list /\ listRequest'[r].name = listRequest[r].name
                /\ listRequest'[r].symbol = listRequest[r].symbol
  <2> DEFINE d == [c EXCEPT !.pc = step]
  <2>1. /\ d.pc = step /\ d.kind = c.kind /\ d.owner = c.owner /\ d.list = c.list
        /\ d.name = c.name /\ d.symbol = c.symbol
        /\ d = [pc |-> d.pc, kind |-> d.kind, owner |-> d.owner, list |-> d.list,
                name |-> d.name, symbol |-> d.symbol]
    BY <1>1
  <2>2. listRequest' = [listRequest EXCEPT ![r] = d]
    BY <1>3 DEF Lists!Goto
  <2> HIDE DEF d
  <2>3. Asks(d, created)
    BY <1>3, <2>1 DEF ListsTyping, Asks
  <2>4. QED BY <2>1, <2>2, <2>3 DEF ListsTyping
<1>4. QED BY <1>2, <1>3

LEMMA AsksGrow ==
    ASSUME NEW c, Asks(c, created), created \in Nat, created' \in Nat, created' >= created
    PROVE  Asks(c, created')
BY DEF Asks

\* Steps that write nothing.
LEMMA Reads ==
    ASSUME ListsSound, NEW r \in Requests,
           Lists!CheckName(r) \/ Lists!CheckSymbol(r) \/ Lists!CheckDuplicate(r) \/ Lists!RequestFails(r)
    PROVE  ListsSound'
<1>1. /\ ListsTyping /\ OwnersAgree /\ DeletedFirst /\ Sets /\ Lists!OrphansAreRaces
      /\ UNCHANGED <<lists, items, created, lateItems>>
  BY DEF ListsSound, Lists!CheckName, Lists!CheckSymbol, Lists!CheckDuplicate,
     Lists!RequestFails
<1>2. /\ \/ Lists!Done(r)
         \/ Lists!Goto(r, "write") /\ listRequest[r].kind # "delete"
         \/ Lists!Goto(r, "duplicate") /\ listRequest[r].kind = "add"
      /\ listRequest[r].pc # "idle"
  BY <1>1 DEF Lists!CheckName, Lists!CheckSymbol, Lists!CheckDuplicate, Lists!RequestFails,
     Lists!At, ListsTyping, Asks
<1>3. /\ listRequest' = [q \in Requests |-> listRequest'[q]]
      /\ \A q \in Requests : q # r => listRequest'[q] = listRequest[q]
      /\ Asks(listRequest'[r], created)
      /\ \/ listRequest'[r].pc = "idle"
         \/ listRequest'[r].kind = listRequest[r].kind /\ listRequest'[r].owner = listRequest[r].owner
            /\ listRequest'[r].list = listRequest[r].list
  BY <1>1, <1>2, Moves
<1>4. ListsTyping'
  <2>1. \A c : Asks(c, created') <=> Asks(c, created)
    BY <1>1 DEF Asks
  <2>2. QED BY <1>1, <1>3, <2>1 DEF ListsTyping, ListRows, ItemRows
<1>5. OwnersAgree'
  <2>1. \A id, o : Claimed(id, o)' => Claimed(id, o)
    BY <1>1, <1>2, <1>3 DEF Claimed
  <2>2. QED BY <1>1, <2>1, ClaimsAgree DEF OwnersAgree
<1>6. DeletedFirst'
  <2>1. listRequest'[r].pc = "write" => listRequest'[r].kind # "delete"
    BY <1>1, <1>2, <1>3 DEF Lists!Done, Lists!Idle, Lists!Goto, ListsTyping
  <2>2. QED BY <1>1, <1>3, <2>1 DEF DeletedFirst
<1>7. QED BY <1>1, <1>4, <1>5, <1>6 DEF ListsSound, Sets, Lists!OrphansAreRaces

LEMMA ListsBegins ==
    ASSUME ListsSound, NEW r \in Requests, Lists!Begin(r)
    PROVE  ListsSound'
<1>1. /\ ListsTyping /\ OwnersAgree /\ DeletedFirst /\ Sets /\ Lists!OrphansAreRaces
      /\ UNCHANGED <<lists, items, created, lateItems>>
  BY DEF ListsSound, Lists!Begin
<1>2. PICK kind \in Lists!Kinds, owner \in Owners, list \in 0 .. created, name \in ListNames,
           symbol \in ListSymbols :
        /\ (kind = "create") = (list = 0)
        /\ kind # "create" => \E l \in lists : l.id = list /\ l.owner = owner
        /\ kind \notin {"create", "rename"} => name = CHOOSE n \in ListNames : TRUE
        /\ kind \notin {"add", "remove"} => symbol = CHOOSE s \in ListSymbols : TRUE
        /\ listRequest' = [listRequest EXCEPT ![r] =
                [pc |-> "found", kind |-> kind, owner |-> owner, list |-> list, name |-> name,
                 symbol |-> symbol]]
  BY DEF Lists!Begin
<1> DEFINE d == [pc |-> "found", kind |-> kind, owner |-> owner, list |-> list, name |-> name,
                 symbol |-> symbol]
<1>3. Asks(d, created)
  <2>1. kind # "create" => list \in 1 .. created
    BY <1>1, <1>2 DEF ListsTyping
  <2>2. QED BY <2>1 DEF Asks
<1>4. /\ listRequest' = [q \in Requests |-> listRequest'[q]]
      /\ \A q \in Requests : q # r => listRequest'[q] = listRequest[q]
      /\ listRequest'[r] = d
  BY <1>1, <1>2 DEF ListsTyping
<1>5. ListsTyping'
  <2>1. \A c : Asks(c, created') <=> Asks(c, created)
    BY <1>1 DEF Asks
  <2>2. QED BY <1>1, <1>3, <1>4, <2>1 DEF ListsTyping, ListRows, ItemRows
<1>6. OwnersAgree'
  <2>1. d.kind # "create" => \E l \in lists : l.id = d.list /\ l.owner = d.owner
    BY <1>2
  <2> HIDE DEF d
  <2>2. \A id, o : Claimed(id, o)' => Claimed(id, o)
    BY <1>1, <1>4, <2>1 DEF Claimed
  <2>3. QED BY <1>1, <2>2, ClaimsAgree DEF OwnersAgree
<1>7. DeletedFirst'
  BY <1>1, <1>4 DEF DeletedFirst
<1>8. QED BY <1>1, <1>5, <1>6, <1>7 DEF ListsSound, Sets, Lists!OrphansAreRaces

\* A request that ends with its write.
LEMMA Finishes ==
    ASSUME ListsTyping, NEW r \in Requests, Lists!Done(r), created' \in Nat, created' >= created,
           lists' \subseteq ListRows', items' \subseteq ItemRows'
    PROVE  /\ ListsTyping'
           /\ \A q \in Requests : listRequest'[q].pc # "idle" => listRequest'[q] = listRequest[q] /\ q # r
<1>1. (\A n : Asks(Lists!Idle, n)) /\ Lists!Idle.pc = "idle"
  BY DEF Asks, Lists!Idle
<1>2. \A q \in Requests : listRequest'[q] = Lists!Idle \/ (listRequest'[q] = listRequest[q] /\ q # r)
  BY DEF Lists!Done, ListsTyping
<1>3. listRequest' = [q \in Requests |-> listRequest'[q]]
  BY DEF Lists!Done, ListsTyping
<1>4. \A q \in Requests : Asks(listRequest'[q], created')
  BY <1>1, <1>2, AsksGrow DEF ListsTyping
<1>5. QED BY <1>1, <1>2, <1>3, <1>4 DEF ListsTyping

LEMMA Creates ==
    ASSUME ListsSound, NEW r \in Requests, Lists!CreateList(r)
    PROVE  ListsSound'
<1> DEFINE c == listRequest[r]
           new == [id |-> created + 1, owner |-> c.owner, name |-> c.name]
<1>1. /\ ListsTyping /\ OwnersAgree /\ DeletedFirst /\ Sets /\ Lists!OrphansAreRaces
      /\ UNCHANGED <<items, lateItems>> /\ Lists!Done(r) /\ c.pc = "write" /\ c.kind = "create"
  BY DEF ListsSound, Lists!CreateList, Lists!At
<1>2. \/ UNCHANGED <<lists, created>>
      \/ /\ lists' = lists \cup {new} /\ created' = created + 1
         /\ \A l \in lists : l.owner # c.owner \/ l.name # c.name
  BY <1>1 DEF Lists!CreateList, Lists!HasDuplicateName
<1>3. created' \in Nat /\ created' >= created
  BY <1>1, <1>2 DEF ListsTyping
<1>4. lists' \subseteq ListRows' /\ items' \subseteq ItemRows'
  <2>1. c.owner \in Owners /\ c.name \in ListNames
    BY <1>1 DEF ListsTyping, Asks
  <2>2. 1 .. created \subseteq 1 .. created'
    BY <1>1, <1>3 DEF ListsTyping
  <2>3. \A l \in lists : l \in ListRows'
    BY <1>1, <2>2 DEF ListsTyping, ListRows
  <2>4. \A i \in items : i \in ItemRows'
    BY <1>1, <2>2 DEF ListsTyping, ItemRows
  <2>5. created' = created + 1 => new \in ListRows'
    BY <1>1, <1>3, <2>1 DEF ListRows, ListsTyping
  <2>6. QED BY <1>1, <1>2, <2>3, <2>4, <2>5
<1>5. /\ ListsTyping'
      /\ \A q \in Requests : listRequest'[q].pc # "idle" => listRequest'[q] = listRequest[q] /\ q # r
  BY <1>1, <1>3, <1>4, Finishes
<1>6. OwnersAgree'
  <2>1. \A l \in lists : l.id \in 1 .. created
    BY <1>1 DEF ListsTyping, ListRows
  <2>2. created + 1 \notin 1 .. created
    BY <1>1 DEF ListsTyping
  <2>3. new.id = created + 1 /\ new.owner = c.owner
    OBVIOUS
  <2> HIDE DEF new
  <2>4. \A l, k \in lists' : l.id = k.id => l = k
    BY <1>1, <1>2, <2>1, <2>2, <2>3 DEF OwnersAgree
  <2>5. \A id, o : Claimed(id, o)' => \/ Claimed(id, o)
                                      \/ id = created + 1 /\ o = c.owner /\ created' # created
    BY <1>1, <1>2, <1>5, <2>3 DEF Claimed, ListsTyping
  <2>6. \A id, o : Claimed(id, o) => id \in 1 .. created
    BY <1>1, ClaimedTyped
  <2>7. \A id, o, p : Claimed(id, o) /\ Claimed(id, p) => o = p
    BY <1>1, ClaimedTyped DEF OwnersAgree
  <2>8. \A id, o, p : Claimed(id, o)' /\ Claimed(id, p)' => o = p
    BY <2>2, <2>5, <2>6, <2>7
  <2>9. QED BY <2>4, <2>8 DEF OwnersAgree
<1>7. DeletedFirst'
  BY <1>1, <1>5 DEF DeletedFirst
<1>8. Sets' /\ Lists!OrphansAreRaces'
  BY <1>1, <1>2 DEF Sets, Lists!OrphansAreRaces
<1>9. QED BY <1>5, <1>6, <1>7, <1>8 DEF ListsSound

LEMMA Renames ==
    ASSUME ListsSound, NEW r \in Requests, Lists!RenameList(r)
    PROVE  ListsSound'
<1> DEFINE c == listRequest[r]
           f(l) == IF l \in Lists!Owned(r) THEN [l EXCEPT !.name = c.name] ELSE l
<1>1. /\ ListsTyping /\ OwnersAgree /\ DeletedFirst /\ Sets /\ Lists!OrphansAreRaces
      /\ UNCHANGED <<items, lateItems, created>> /\ Lists!Done(r) /\ c.pc = "write" /\ c.kind = "rename"
  BY DEF ListsSound, Lists!RenameList, Lists!At
<1>2. \/ UNCHANGED lists
      \/ /\ lists' = {f(l) : l \in lists}
         /\ \A l \in lists : l.owner # c.owner \/ l.name # c.name \/ l.id = c.list
  BY <1>1 DEF Lists!RenameList, Lists!HasDuplicateName
<1>3. ASSUME NEW l \in lists
      PROVE  /\ f(l) \in ListRows /\ f(l).id = l.id /\ f(l).owner = l.owner
             /\ \/ f(l) = l /\ (l.id # c.list \/ l.owner # c.owner)
                \/ f(l).name = c.name /\ l.id = c.list /\ l.owner = c.owner
  <2>1. c.name \in ListNames
    BY <1>1 DEF ListsTyping, Asks
  <2>2. QED BY <1>1, <2>1 DEF ListsTyping, ListRows, Lists!Owned
<1> HIDE DEF f
<1>4. lists' \subseteq ListRows' /\ items' \subseteq ItemRows'
  BY <1>1, <1>2, <1>3 DEF ListsTyping, ListRows, ItemRows
<1>5. /\ ListsTyping'
      /\ \A q \in Requests : listRequest'[q].pc # "idle" => listRequest'[q] = listRequest[q] /\ q # r
  BY <1>1, <1>4, Finishes DEF ListsTyping
<1>6. OwnersAgree'
  <2>1. \A l, k \in lists' : l.id = k.id => l = k
    BY <1>1, <1>2, <1>3 DEF OwnersAgree
  <2>2. \A id, o : Claimed(id, o)' => Claimed(id, o)
    BY <1>1, <1>2, <1>3, <1>5 DEF Claimed
  <2>3. QED BY <1>1, <2>1, <2>2, ClaimsAgree
<1>7. DeletedFirst'
  BY <1>1, <1>5 DEF DeletedFirst
<1>8. Sets'
  BY <1>1, <1>2, <1>3 DEF Sets, OwnersAgree
<1>9. Lists!OrphansAreRaces'
  BY <1>1, <1>2, <1>3 DEF Lists!OrphansAreRaces
<1>10. QED BY <1>5, <1>6, <1>7, <1>8, <1>9 DEF ListsSound

LEMMA Deletes ==
    ASSUME ListsSound, NEW r \in Requests, Lists!DeleteList(r)
    PROVE  ListsSound'
<1>1. /\ ListsTyping /\ OwnersAgree /\ DeletedFirst /\ Sets /\ Lists!OrphansAreRaces
      /\ UNCHANGED <<items, lateItems, created>> /\ Lists!Done(r)
      /\ listRequest[r].pc = "write" /\ listRequest[r].kind = "delete"
      /\ lists' = lists \ Lists!Owned(r)
  BY DEF ListsSound, Lists!DeleteList, Lists!At
<1>2. /\ ListsTyping'
      /\ \A q \in Requests : listRequest'[q].pc # "idle" => listRequest'[q] = listRequest[q] /\ q # r
  BY <1>1, Finishes DEF ListsTyping, ListRows, ItemRows
<1>3. OwnersAgree'
  <2>1. \A id, o : Claimed(id, o)' => Claimed(id, o)
    BY <1>1, <1>2 DEF Claimed
  <2>2. QED BY <1>1, <2>1, ClaimsAgree DEF OwnersAgree
<1>4. DeletedFirst' /\ Sets'
  BY <1>1, <1>2 DEF DeletedFirst, Sets
<1>5. Lists!OrphansAreRaces'
  <2> SUFFICES ASSUME NEW i \in items, i \notin lateItems
               PROVE  \E l \in lists' : l.id = i.list /\ l.owner = i.owner
    BY <1>1 DEF Lists!OrphansAreRaces
  <2>1. PICK l \in lists : l.id = i.list /\ l.owner = i.owner
    BY <1>1 DEF Lists!OrphansAreRaces
  <2>2. ~(i.list = listRequest[r].list /\ i.owner = listRequest[r].owner)
    BY <1>1 DEF DeletedFirst
  <2>3. QED BY <1>1, <2>1, <2>2 DEF Lists!Owned
<1>6. QED BY <1>2, <1>3, <1>4, <1>5 DEF ListsSound

LEMMA ItemsGo ==
    ASSUME ListsSound, NEW r \in Requests, Lists!DeleteItems(r) \/ Lists!RemoveItem(r)
    PROVE  ListsSound'
<1> DEFINE c == listRequest[r]
<1>1. /\ ListsTyping /\ OwnersAgree /\ DeletedFirst /\ Sets /\ Lists!OrphansAreRaces
      /\ UNCHANGED <<lists, lateItems, created>> /\ c.pc = "found"
      /\ items' \subseteq items
  BY DEF ListsSound, Lists!DeleteItems, Lists!RemoveItem, Lists!At
<1>2. \/ Lists!Done(r)
      \/ /\ Lists!Goto(r, "write")
         /\ \A i \in items' : ~(i.list = c.list /\ i.owner = c.owner)
  BY DEF Lists!DeleteItems, Lists!RemoveItem
<1>3. /\ listRequest' = [q \in Requests |-> listRequest'[q]]
      /\ \A q \in Requests : q # r => listRequest'[q] = listRequest[q]
      /\ Asks(listRequest'[r], created)
      /\ \/ listRequest'[r].pc = "idle"
         \/ listRequest'[r].kind = c.kind /\ listRequest'[r].owner = c.owner
            /\ listRequest'[r].list = c.list
  BY <1>1, <1>2, Moves
<1>4. ListsTyping'
  <2>1. \A d : Asks(d, created') <=> Asks(d, created)
    BY <1>1 DEF Asks
  <2>2. QED BY <1>1, <1>3, <2>1 DEF ListsTyping, ListRows, ItemRows
<1>5. OwnersAgree'
  <2>1. \A id, o : Claimed(id, o)' => Claimed(id, o)
    BY <1>1, <1>3 DEF Claimed
  <2>2. QED BY <1>1, <2>1, ClaimsAgree DEF OwnersAgree
<1>6. DeletedFirst'
  <2>1. \/ listRequest'[r].pc = "idle"
        \/ \A i \in items' : ~(i.list = listRequest'[r].list /\ i.owner = listRequest'[r].owner)
    <3>1. CASE Lists!Done(r)
      BY <1>1, <3>1 DEF Lists!Done, Lists!Idle, ListsTyping
    <3>2. CASE ~Lists!Done(r)
      BY <1>2, <1>3, <3>2
    <3>3. QED BY <3>1, <3>2
  <2>2. QED BY <1>1, <1>3, <2>1 DEF DeletedFirst
<1>7. Sets' /\ Lists!OrphansAreRaces'
  BY <1>1 DEF Sets, Lists!OrphansAreRaces
<1>8. QED BY <1>4, <1>5, <1>6, <1>7 DEF ListsSound

LEMMA Adds ==
    ASSUME ListsSound, NEW r \in Requests, Lists!AddItem(r)
    PROVE  ListsSound'
<1> DEFINE c == listRequest[r]
           item == [list |-> c.list, owner |-> c.owner, symbol |-> c.symbol]
           late == Lists!Owned(r) = {} \/ \E q \in Requests : /\ listRequest[q].kind = "delete"
                                                        /\ listRequest[q].list = c.list
                                                        /\ Lists!At(q, "write")
<1>1. /\ ListsTyping /\ OwnersAgree /\ DeletedFirst /\ Sets /\ Lists!OrphansAreRaces
      /\ UNCHANGED <<lists, created>> /\ Lists!Done(r)
      /\ c.pc = "write" /\ c.kind = "add"
  BY DEF ListsSound, Lists!AddItem, Lists!At
<1>2. \/ UNCHANGED <<items, lateItems>>
      \/ /\ items' = items \cup {item}
         /\ lateItems' = IF late THEN lateItems \cup {item} ELSE lateItems \ {item}
         /\ \A i \in items : i.list # c.list \/ i.symbol # c.symbol
  BY DEF Lists!AddItem, Lists!HasDuplicateSymbol
<1>3. item \in ItemRows /\ item.list = c.list /\ item.owner = c.owner /\ item.symbol = c.symbol
  BY <1>1 DEF ListsTyping, Asks, ItemRows
<1>4. ~late => \E l \in lists : l.id = c.list /\ l.owner = c.owner
  BY DEF Lists!Owned
<1> HIDE DEF item
<1>5. /\ ListsTyping'
      /\ \A q \in Requests : listRequest'[q].pc # "idle" => listRequest'[q] = listRequest[q] /\ q # r
  <2>1. lists' \subseteq ListRows' /\ items' \subseteq ItemRows'
    BY <1>1, <1>2, <1>3 DEF ListsTyping, ListRows, ItemRows
  <2>2. QED BY <1>1, <2>1, Finishes DEF ListsTyping
<1>6. OwnersAgree'
  <2>1. \A id, o : Claimed(id, o)' => Claimed(id, o)
    BY <1>1, <1>2, <1>3, <1>5 DEF Claimed
  <2>2. QED BY <1>1, <2>1, ClaimsAgree DEF OwnersAgree
<1>7. DeletedFirst'
  <2> SUFFICES ASSUME NEW q \in Requests, listRequest'[q].kind = "delete", listRequest'[q].pc = "write",
                      NEW i \in items', i.list = listRequest'[q].list, i.owner = listRequest'[q].owner
               PROVE  i \in lateItems'
    BY DEF DeletedFirst
  <2>1. listRequest'[q] = listRequest[q]
    BY <1>5
  <2>2. CASE UNCHANGED <<items, lateItems>>
    BY <1>1, <2>1, <2>2 DEF DeletedFirst
  <2>3. CASE ~UNCHANGED <<items, lateItems>>
    <3>1. i = item => late
      BY <1>3, <2>1 DEF Lists!At
    <3>2. i # item => i \in lateItems
      BY <1>1, <1>2, <2>1, <2>3 DEF DeletedFirst
    <3> HIDE DEF late
    <3>3. QED BY <1>2, <2>3, <3>1, <3>2
  <2>4. QED BY <2>2, <2>3
<1>8. Sets'
  <2> HIDE DEF late
  <2>1. QED BY <1>1, <1>2, <1>3 DEF Sets
<1>9. Lists!OrphansAreRaces'
  <2> HIDE DEF late
  <2>1. QED BY <1>1, <1>2, <1>3, <1>4 DEF Lists!OrphansAreRaces
<1>10. QED BY <1>5, <1>6, <1>7, <1>8, <1>9 DEF ListsSound

-----------------------------------------------------------------------------
LEMMA ListsSoundInit == Lists!Init => ListsSound
<1> SUFFICES ASSUME Lists!Init PROVE ListsSound
  OBVIOUS
<1>1. lists = {} /\ items = {} /\ created = 0 /\ listRequest = [r \in Requests |-> Lists!Idle]
  BY DEF Lists!Init
<1>2. \A r \in Requests : listRequest[r].pc = "idle" /\ Asks(listRequest[r], created)
  BY <1>1 DEF Asks, Lists!Idle
<1>3. ListsTyping
  BY <1>1, <1>2 DEF ListsTyping
<1>4. OwnersAgree /\ DeletedFirst /\ Sets /\ Lists!OrphansAreRaces
  BY <1>1, <1>2 DEF OwnersAgree, DeletedFirst, Sets, Lists!OrphansAreRaces
<1>5. QED BY <1>3, <1>4 DEF ListsSound

LEMMA ListsSoundStep == ListsSound /\ [Lists!Next]_(Lists!watchlistVars) => ListsSound'
<1> SUFFICES ASSUME ListsSound, [Lists!Next]_(Lists!watchlistVars) PROVE ListsSound'
  OBVIOUS
<1>1. CASE UNCHANGED Lists!watchlistVars \/ Lists!RefreshCatalogue
  <2>1. UNCHANGED <<lists, items, created, listRequest, lateItems>>
    BY <1>1 DEF Lists!watchlistVars, Lists!RefreshCatalogue
  <2>2. ListsTyping'
    BY <2>1 DEF ListsSound, ListsTyping, Asks, ListRows, ItemRows
  <2>3. OwnersAgree'
    BY <2>1 DEF ListsSound, OwnersAgree, Claimed
  <2>4. QED BY <2>1, <2>2, <2>3 DEF ListsSound, DeletedFirst, Sets, Lists!OrphansAreRaces
<1>2. ASSUME NEW r \in Requests,
             \/ Lists!Begin(r) \/ Lists!CheckName(r) \/ Lists!CreateList(r) \/ Lists!RenameList(r)
             \/ Lists!DeleteItems(r) \/ Lists!DeleteList(r)
             \/ Lists!CheckSymbol(r) \/ Lists!CheckDuplicate(r) \/ Lists!AddItem(r)
             \/ Lists!RemoveItem(r) \/ Lists!RequestFails(r)
      PROVE  ListsSound'
  BY <1>2, Reads, ListsBegins, Creates, Renames, Deletes, ItemsGo, Adds
<1>3. QED BY <1>1, <1>2 DEF Lists!Next

LEMMA ListsSoundTells == ListsSound => Lists!TypeOK /\ Lists!OrphansAreRaces /\ Lists!ListsAreSets
<1> SUFFICES ASSUME ListsSound PROVE Lists!TypeOK /\ Lists!OrphansAreRaces /\ Lists!ListsAreSets
  OBVIOUS
<1>1. Lists!TypeOK
  BY DEF ListsSound, ListsTyping, Lists!TypeOK, ListRows, ItemRows, Asks
<1>2. \A i \in items, l \in lists : i.list = l.id => i.owner = l.owner
  <2> SUFFICES ASSUME NEW i \in items, NEW l \in lists, i.list = l.id PROVE i.owner = l.owner
    OBVIOUS
  <2>1. Claimed(l.id, i.owner) /\ Claimed(l.id, l.owner)
    BY DEF Claimed
  <2>2. QED BY <2>1, ClaimedTyped DEF ListsSound, OwnersAgree
<1>3. QED BY <1>1, <1>2 DEF ListsSound, Sets, Lists!ListsAreSets

\* An item without its list was saved while, or after, the list was deleted;
\* whatever requests overlap, a user has no two lists of one name, a list no
\* symbol twice, and its items are its owner's.
THEOREM ListsAndItems == Lists!Spec => [](Lists!TypeOK /\ Lists!OrphansAreRaces /\ Lists!ListsAreSets)
  BY ListsSoundInit, ListsSoundStep, ListsSoundTells, PTL DEF Lists!Spec

-----------------------------------------------------------------------------
(* Notifications.                                                           *)
Notices == INSTANCE Notifications WITH
    MaxReads <- MaxClientReads, MaxFaults <- MaxNoticeFaults, lost <- unannounced

Stored == [key : Keys \cup {None}, isRead : BOOLEAN, readAt : Nat]
Creation == [pc : {"idle", "insert", "emit"}, key : Keys \cup {None}, id : Nat]
NoticesReading == [pc : {"idle", "mark"}, id : Nat, at : Nat]
Stamped == \A i \in Notices!Ids : /\ notifications[i].isRead <=> notifications[i].readAt > 0
                          /\ notifications[i].readAt <= clock
NoticesTyping ==
    /\ notifications \in Seq(Stored)
    /\ creator \in [Creators -> Creation]
    /\ client \in [Clients -> NoticesReading]
    /\ emitted \in Seq(Nat)
    /\ clock \in Nat
    /\ Stamped
    /\ \A c \in Creators : IF creator[c].pc = "emit" THEN creator[c].id \in Notices!Ids
                           ELSE creator[c].id = 0
    /\ \A q \in Clients : IF client[q].pc = "mark"
                          THEN client[q].id \in Notices!Ids /\ client[q].at \in 1 .. clock
                          ELSE client[q].id = 0

\* One creator is about to announce a notification that was not announced.
Announcers ==
    /\ \A c \in Creators, n \in DOMAIN emitted : creator[c].pc = "emit" => emitted[n] # creator[c].id
    /\ \A c, d \in Creators :
        creator[c].pc = "emit" /\ creator[d].pc = "emit" /\ creator[c].id = creator[d].id => c = d
Announced ==
    /\ \A m, n \in DOMAIN emitted : emitted[m] = emitted[n] => m = n
    /\ \A n \in DOMAIN emitted : emitted[n] \in Notices!Ids
    /\ \A i \in Notices!Ids : \/ i \in unannounced \/ \E n \in DOMAIN emitted : emitted[n] = i
                      \/ \E c \in Creators : creator[c].id = i
NoticesSound == NoticesTyping /\ Announcers /\ Announced /\ Notices!OnePerKey

-----------------------------------------------------------------------------
\* What is read and announced does not change the keys.
LEMMA KeysStay ==
    ASSUME Notices!OnePerKey, Notices!Ids' = Notices!Ids, \A i \in Notices!Ids : notifications'[i].key = notifications[i].key
    PROVE  Notices!OnePerKey'
BY DEF Notices!OnePerKey, Notices!Ids

LEMMA RowsTyped ==
    ASSUME NoticesTyping
    PROVE  \A i \in Notices!Ids : notifications[i] \in Stored
BY DEF NoticesTyping, Notices!Ids

LEMMA NoticesBegins ==
    ASSUME NoticesSound, NEW c \in Creators, Notices!BeginCreation(c)
    PROVE  NoticesSound'
<1>1. /\ NoticesTyping /\ Announcers /\ Announced /\ Notices!OnePerKey
      /\ UNCHANGED <<notifications, client, emitted, clock, unannounced>>
      /\ creator[c].pc = "idle"
  BY DEF NoticesSound, Notices!BeginCreation
<1>2. PICK d \in Creation : /\ creator' = [creator EXCEPT ![c] = d]
                            /\ d.pc # "emit" /\ d.id = 0
  <2>1. PICK key \in Keys \cup {None} :
            creator' = [creator EXCEPT ![c] =
                IF key # None /\ Notices!FindByDedupeKey(key) # {} THEN Notices!NoCreation
                ELSE [pc |-> "insert", key |-> key, id |-> 0]]
    BY DEF Notices!BeginCreation
  <2>2. /\ [pc |-> "insert", key |-> key, id |-> 0] \in Creation
        /\ Notices!NoCreation \in Creation /\ Notices!NoCreation.pc # "emit" /\ Notices!NoCreation.id = 0
    BY DEF Creation, Notices!NoCreation
  <2>3. QED BY <2>1, <2>2
<1>3. NoticesTyping'
  BY <1>1, <1>2 DEF NoticesTyping, Stamped, Notices!Ids
<1>4. Announcers'
  BY <1>1, <1>2 DEF NoticesTyping, Announcers
<1>5. Announced'
  <2>1. \A i \in Notices!Ids : i # 0
    BY <1>1 DEF NoticesTyping, Notices!Ids
  <2>2. creator[c].id = 0
    BY <1>1 DEF NoticesTyping
  <2>3. QED BY <1>1, <1>2, <2>1, <2>2 DEF NoticesTyping, Announced, Notices!Ids
<1>6. QED BY <1>1, <1>3, <1>4, <1>5, KeysStay DEF NoticesSound, Notices!Ids

LEMMA Inserts ==
    ASSUME NoticesSound, NEW c \in Creators, Notices!Insert(c)
    PROVE  NoticesSound'
<1>1. /\ NoticesTyping /\ Announcers /\ Announced /\ Notices!OnePerKey
      /\ UNCHANGED <<client, emitted, clock, unannounced>> /\ creator[c].pc = "insert"
  BY DEF NoticesSound, Notices!Insert
<1>2. CASE creator' = [creator EXCEPT ![c] = Notices!NoCreation] /\ UNCHANGED notifications
  <2>1. Notices!NoCreation \in Creation /\ Notices!NoCreation.pc # "emit" /\ Notices!NoCreation.id = 0
    BY DEF Creation, Notices!NoCreation
  <2>2. NoticesTyping'
    BY <1>1, <1>2, <2>1 DEF NoticesTyping, Stamped, Notices!Ids
  <2>3. Announcers'
    BY <1>1, <1>2, <2>1 DEF NoticesTyping, Announcers
  <2>4. Announced'
    <3>1. \A i \in Notices!Ids : i # 0
      BY <1>1 DEF NoticesTyping, Notices!Ids
    <3>2. creator[c].id = 0
      BY <1>1 DEF NoticesTyping
    <3>3. QED BY <1>1, <1>2, <2>1, <3>1, <3>2 DEF NoticesTyping, Announced, Notices!Ids
  <2>5. QED BY <1>1, <1>2, <2>2, <2>3, <2>4, KeysStay DEF NoticesSound, Notices!Ids
<1>3. CASE creator[c].key = None \/ Notices!FindByDedupeKey(creator[c].key) = {}
  <2> DEFINE new == [key |-> creator[c].key, isRead |-> FALSE, readAt |-> 0]
             n == Len(notifications) + 1
             d == [creator[c] EXCEPT !.pc = "emit", !.id = n]
  <2>1. /\ notifications' = Append(notifications, new)
        /\ creator' = [creator EXCEPT ![c] = d]
    BY <1>3 DEF Notices!Insert
  <2>2. new \in Stored /\ new.key = creator[c].key /\ ~new.isRead /\ new.readAt = 0
    BY <1>1 DEF NoticesTyping, Creation, Stored
  <2>3. n \in Nat
    BY <1>1 DEF NoticesTyping
  <2>4. d \in Creation /\ d.pc = "emit" /\ d.id = n
    BY <1>1, <2>3 DEF NoticesTyping, Creation
  <2> HIDE DEF new, d
  <2>5. /\ notifications' \in Seq(Stored) /\ Notices!Ids' = Notices!Ids \cup {n} /\ n \notin Notices!Ids
        /\ notifications'[n] = new /\ \A i \in Notices!Ids : notifications'[i] = notifications[i]
    BY <1>1, <2>1, <2>2 DEF NoticesTyping, Notices!Ids
  <2> HIDE DEF n
  <2>6. NoticesTyping'
    <3>1. Stamped'
      BY <1>1, <2>2, <2>5 DEF NoticesTyping, Stamped
    <3>2. creator' \in [Creators -> Creation]
      BY <1>1, <2>1, <2>4 DEF NoticesTyping
    <3>3. \A e \in Creators : IF creator'[e].pc = "emit" THEN creator'[e].id \in Notices!Ids'
                              ELSE creator'[e].id = 0
      BY <1>1, <2>1, <2>4, <2>5 DEF NoticesTyping
    <3>4. QED BY <1>1, <2>5, <3>1, <3>2, <3>3 DEF NoticesTyping
  <2>7. Announcers'
    <3>1. \A m \in DOMAIN emitted : emitted[m] # n
      BY <1>1, <2>5 DEF Announced
    <3>2. \A e \in Creators : creator[e].pc = "emit" => creator[e].id # n
      BY <1>1, <2>5 DEF NoticesTyping
    <3>3. QED BY <1>1, <2>1, <2>4, <3>1, <3>2 DEF NoticesTyping, Announcers
  <2>8. Announced'
    <3>1. 0 \notin Notices!Ids
      BY <1>1 DEF NoticesTyping, Notices!Ids
    <3>2. creator[c].id = 0
      BY <1>1 DEF NoticesTyping
    <3>3. QED BY <1>1, <2>1, <2>4, <2>5, <3>1, <3>2 DEF NoticesTyping, Announced
  <2>9. Notices!OnePerKey'
    <3>1. creator[c].key = None \/ \A i \in Notices!Ids : notifications[i].key # creator[c].key
      BY <1>3 DEF Notices!FindByDedupeKey
    <3>2. QED BY <1>1, <2>2, <2>5, <3>1 DEF Notices!OnePerKey
  <2>10. QED BY <2>6, <2>7, <2>8, <2>9 DEF NoticesSound
<1>4. QED BY <1>2, <1>3 DEF Notices!Insert

LEMMA Emits ==
    ASSUME NoticesSound, NEW c \in Creators, Notices!EmitCreated(c)
    PROVE  NoticesSound'
<1> DEFINE i == creator[c].id
           n == Len(emitted) + 1
<1>1. /\ NoticesTyping /\ Announcers /\ Announced /\ Notices!OnePerKey
      /\ UNCHANGED <<notifications, client, clock, unannounced>> /\ creator[c].pc = "emit"
      /\ emitted' = Append(emitted, i) /\ creator' = [creator EXCEPT ![c] = Notices!NoCreation]
  BY DEF NoticesSound, Notices!EmitCreated
<1>2. Notices!NoCreation \in Creation /\ Notices!NoCreation.pc # "emit" /\ Notices!NoCreation.id = 0
  BY DEF Creation, Notices!NoCreation
<1>3. i \in Notices!Ids /\ i \in Nat
  BY <1>1 DEF NoticesTyping, Creation
<1> HIDE DEF i
<1>4. /\ emitted' \in Seq(Nat) /\ DOMAIN emitted' = DOMAIN emitted \cup {n}
      /\ emitted'[n] = i /\ \A m \in DOMAIN emitted : emitted'[m] = emitted[m]
      /\ n \notin DOMAIN emitted
  BY <1>1, <1>3 DEF NoticesTyping
<1> HIDE DEF n
<1>5. NoticesTyping'
  BY <1>1, <1>2, <1>4 DEF NoticesTyping, Stamped, Notices!Ids
<1>6. Announcers'
  <2>1. \A e \in Creators : e # c /\ creator[e].pc = "emit" => creator[e].id # i
    BY <1>1 DEF Announcers, i
  <2>2. QED BY <1>1, <1>2, <1>4, <2>1 DEF NoticesTyping, Announcers
<1>7. Announced'
  <2>1. \A m \in DOMAIN emitted : emitted[m] # i
    BY <1>1 DEF Announcers, i
  <2>2. Notices!Ids' = Notices!Ids
    BY <1>1 DEF Notices!Ids
  <2>3. \A m, k \in DOMAIN emitted' : emitted'[m] = emitted'[k] => m = k
    BY <1>1, <1>4, <2>1 DEF Announced
  <2>4. \A m \in DOMAIN emitted' : emitted'[m] \in Notices!Ids'
    BY <1>1, <1>3, <1>4, <2>2 DEF Announced
  <2>5. \A j \in Notices!Ids : \/ j \in unannounced \/ \E m \in DOMAIN emitted' : emitted'[m] = j
                       \/ \E e \in Creators : creator'[e].id = j
    <3> SUFFICES ASSUME NEW j \in Notices!Ids
                 PROVE  \/ j \in unannounced \/ \E m \in DOMAIN emitted' : emitted'[m] = j
                        \/ \E e \in Creators : creator'[e].id = j
      OBVIOUS
    <3>1. CASE j = i
      BY <1>4, <3>1
    <3>2. CASE \E e \in Creators : e # c /\ creator[e].id = j
      BY <1>1, <3>2 DEF NoticesTyping
    <3>3. CASE j \in unannounced \/ \E m \in DOMAIN emitted : emitted[m] = j
      BY <1>4, <3>3
    <3>4. QED BY <1>1, <3>1, <3>2, <3>3 DEF Announced, i
  <2>6. QED BY <1>1, <2>2, <2>3, <2>4, <2>5 DEF Announced
<1>8. QED BY <1>1, <1>5, <1>6, <1>7, KeysStay DEF NoticesSound, Notices!Ids

LEMMA Fails ==
    ASSUME NoticesSound, NEW c \in Creators, Notices!CreationFails(c)
    PROVE  NoticesSound'
<1>1. /\ NoticesTyping /\ Announcers /\ Announced /\ Notices!OnePerKey
      /\ UNCHANGED <<notifications, client, clock, emitted>>
      /\ unannounced' = IF creator[c].pc = "emit" THEN unannounced \cup {creator[c].id} ELSE unannounced
      /\ creator' = [creator EXCEPT ![c] = Notices!NoCreation]
  BY DEF NoticesSound, Notices!CreationFails
<1>2. Notices!NoCreation \in Creation /\ Notices!NoCreation.pc # "emit" /\ Notices!NoCreation.id = 0
  BY DEF Creation, Notices!NoCreation
<1>3. NoticesTyping'
  BY <1>1, <1>2 DEF NoticesTyping, Stamped, Notices!Ids
<1>4. Announcers'
  BY <1>1, <1>2 DEF NoticesTyping, Announcers
<1>5. Announced'
  <2>1. Notices!Ids' = Notices!Ids /\ 0 \notin Notices!Ids
    BY <1>1 DEF Notices!Ids, NoticesTyping
  <2>2. ASSUME NEW j \in Notices!Ids
        PROVE  \/ j \in unannounced' \/ \E m \in DOMAIN emitted : emitted[m] = j
               \/ \E e \in Creators : creator'[e].id = j
    <3>1. CASE j = creator[c].id
      BY <1>1, <2>1, <3>1 DEF NoticesTyping
    <3>2. CASE \E e \in Creators : e # c /\ creator[e].id = j
      BY <1>1, <3>2 DEF NoticesTyping
    <3>3. CASE j \in unannounced \/ \E m \in DOMAIN emitted : emitted[m] = j
      BY <1>1, <3>3
    <3>4. QED BY <1>1, <3>1, <3>2, <3>3 DEF Announced
  <2>3. QED BY <1>1, <2>1, <2>2 DEF Announced
<1>6. QED BY <1>1, <1>3, <1>4, <1>5, KeysStay DEF NoticesSound, Notices!Ids

LEMMA Finds ==
    ASSUME NoticesSound, NEW q \in Clients, Notices!FindUnread(q)
    PROVE  NoticesSound'
<1>1. /\ NoticesTyping /\ Announcers /\ Announced /\ Notices!OnePerKey
      /\ UNCHANGED <<notifications, creator, emitted, unannounced>> /\ clock' = clock + 1
  BY DEF NoticesSound, Notices!FindUnread
<1>2. PICK i \in Notices!Ids : client' = [client EXCEPT ![q] = [pc |-> "mark", id |-> i, at |-> clock + 1]]
  BY DEF Notices!FindUnread
<1>3. Notices!Ids' = Notices!Ids /\ Notices!Ids \subseteq Nat /\ clock + 1 \in 1 .. clock' /\ clock' \in Nat
  BY <1>1 DEF Notices!Ids, NoticesTyping
<1> DEFINE d == [pc |-> "mark", id |-> i, at |-> clock + 1]
<1>4. d \in NoticesReading /\ d.pc = "mark" /\ d.id = i /\ d.at = clock + 1
  BY <1>1, <1>3 DEF NoticesReading, NoticesTyping
<1> HIDE DEF d
<1>5. Stamped'
  <2>1. \A j \in Notices!Ids : notifications[j].readAt \in Nat
    BY <1>1, RowsTyped DEF Stored
  <2>2. QED BY <1>1, <1>3, <2>1 DEF NoticesTyping, Stamped
<1>6. /\ client' \in [Clients -> NoticesReading]
      /\ \A p \in Clients : client'[p] = IF p = q THEN d ELSE client[p]
  BY <1>1, <1>2, <1>4 DEF NoticesTyping, d
<1>7. \A p \in Clients : IF client'[p].pc = "mark"
                         THEN client'[p].id \in Notices!Ids /\ client'[p].at \in 1 .. clock'
                         ELSE client'[p].id = 0
  <2>1. \A at \in 1 .. clock : at \in 1 .. clock'
    BY <1>1 DEF NoticesTyping
  <2>2. QED BY <1>1, <1>3, <1>4, <1>6, <2>1 DEF NoticesTyping
<1>8. NoticesTyping'
  BY <1>1, <1>3, <1>5, <1>6, <1>7 DEF NoticesTyping
<1>9. Announcers' /\ Announced'
  BY <1>1, <1>3 DEF Announcers, Announced
<1>10. QED BY <1>1, <1>3, <1>8, <1>9, KeysStay DEF NoticesSound

\* Marking as read keeps keys and stamps.
LEMMA Marks ==
    ASSUME NoticesSound,
           \/ Notices!MarkAllAsRead
           \/ \E q \in Clients : Notices!MarkAsRead(q)
    PROVE  NoticesSound'
<1>1. /\ NoticesTyping /\ Announcers /\ Announced /\ Notices!OnePerKey
      /\ UNCHANGED <<creator, emitted, unannounced>> /\ clock' \in Nat /\ clock' >= clock
  <2>1. clock \in Nat
    BY DEF NoticesSound, NoticesTyping
  <2>2. clock' = clock \/ clock' = clock + 1
    BY DEF Notices!MarkAllAsRead, Notices!MarkAsRead
  <2>3. UNCHANGED <<creator, emitted, unannounced>>
    BY DEF Notices!MarkAllAsRead, Notices!MarkAsRead
  <2>4. QED BY <2>1, <2>2, <2>3 DEF NoticesSound
<1> DEFINE Marked(i, t) == [notifications[i] EXCEPT !.isRead = TRUE, !.readAt = t]
<1>2. ASSUME NEW i \in Notices!Ids, NEW t \in 1 .. clock'
      PROVE  /\ Marked(i, t) \in Stored /\ Marked(i, t).key = notifications[i].key
             /\ Marked(i, t).isRead /\ Marked(i, t).readAt = t
  <2>1. notifications[i] \in Stored /\ t \in Nat
    BY <1>1, RowsTyped
  <2>2. QED BY <2>1 DEF Stored
<1> HIDE DEF Marked
<1>3. /\ notifications' \in Seq(Stored) /\ Notices!Ids' = Notices!Ids
      /\ \A i \in Notices!Ids : \/ notifications'[i] = notifications[i]
                        \/ \E t \in 1 .. clock' : notifications'[i] = Marked(i, t)
  <2>1. CASE Notices!MarkAllAsRead
    <3>1. notifications' = [i \in Notices!Ids |-> IF notifications[i].isRead THEN notifications[i]
                                ELSE Marked(i, clock + 1)]
      BY <2>1 DEF Notices!MarkAllAsRead, Marked
    <3>2. clock + 1 \in 1 .. clock'
      <4>1. clock' = clock + 1
        BY <2>1 DEF Notices!MarkAllAsRead
      <4>2. QED BY <1>1, <4>1 DEF NoticesTyping
    <3>3. \A i \in Notices!Ids : Marked(i, clock + 1) \in Stored
      BY <1>2, <3>2
    <3>4. notifications \in Seq(Stored) /\ Notices!Ids = DOMAIN notifications
      BY <1>1 DEF NoticesTyping, Notices!Ids
    <3>5. Notices!Ids = 1 .. Len(notifications) /\ Len(notifications) \in Nat
      BY <3>4
    <3>6. \A i \in Notices!Ids : notifications'[i] \in Stored
      BY <3>1, <3>3, <3>4
    <3>7. notifications' \in Seq(Stored) /\ DOMAIN notifications' = Notices!Ids
      BY <3>1, <3>5, <3>6
    <3>8. QED BY <3>1, <3>2, <3>7 DEF Notices!Ids
  <2>2. CASE \E q \in Clients : Notices!MarkAsRead(q)
    <3>1. PICK q \in Clients : Notices!MarkAsRead(q)
      BY <2>2
    <3>2. client[q].id \in Notices!Ids /\ client[q].at \in 1 .. clock'
      BY <1>1, <3>1 DEF Notices!MarkAsRead, NoticesTyping
    <3>3. notifications' = [notifications EXCEPT ![client[q].id] = Marked(client[q].id, client[q].at)]
      BY <3>1 DEF Notices!MarkAsRead, Marked
    <3>4. Marked(client[q].id, client[q].at) \in Stored
      BY <1>2, <3>2
    <3>5. QED BY <1>1, <3>2, <3>3, <3>4 DEF NoticesTyping, Notices!Ids
  <2>3. QED BY <2>1, <2>2
<1>4. Stamped'
  <2> SUFFICES ASSUME NEW i \in Notices!Ids
               PROVE  /\ notifications'[i].isRead <=> notifications'[i].readAt > 0
                      /\ notifications'[i].readAt <= clock'
    BY <1>3 DEF Stamped
  <2>1. CASE notifications'[i] = notifications[i]
    <3>1. notifications[i].readAt \in Nat
      BY <1>1, RowsTyped DEF Stored
    <3>2. /\ notifications[i].isRead <=> notifications[i].readAt > 0
          /\ notifications[i].readAt <= clock
      BY <1>1 DEF NoticesTyping, Stamped
    <3>3. clock \in Nat
      BY <1>1 DEF NoticesTyping
    <3>4. QED BY <1>1, <2>1, <3>1, <3>2, <3>3
  <2>2. CASE \E t \in 1 .. clock' : notifications'[i] = Marked(i, t)
    BY <1>1, <1>2, <2>2
  <2>3. QED BY <1>3, <2>1, <2>2
<1>5. /\ client' \in [Clients -> NoticesReading]
      /\ \A q \in Clients : client'[q] = client[q] \/ client'[q] = Notices!NoRequest
  <2>1. Notices!NoRequest \in NoticesReading
    BY DEF Notices!NoRequest, NoticesReading
  <2>2. \/ UNCHANGED client
        \/ \E q \in Clients : client' = [client EXCEPT ![q] = Notices!NoRequest]
    BY DEF Notices!MarkAllAsRead, Notices!MarkAsRead
  <2>3. QED BY <1>1, <2>1, <2>2 DEF NoticesTyping
<1>6. \A p \in Clients : IF client'[p].pc = "mark"
                         THEN client'[p].id \in Notices!Ids /\ client'[p].at \in 1 .. clock'
                         ELSE client'[p].id = 0
  <2>1. Notices!NoRequest.pc = "idle" /\ Notices!NoRequest.id = 0
    BY DEF Notices!NoRequest
  <2>2. \A at \in 1 .. clock : at \in 1 .. clock'
    BY <1>1 DEF NoticesTyping
  <2>3. QED BY <1>1, <1>5, <2>1, <2>2 DEF NoticesTyping
<1>7. NoticesTyping'
  BY <1>1, <1>3, <1>4, <1>5, <1>6 DEF NoticesTyping
<1>8. Announcers' /\ Announced'
  BY <1>1, <1>3 DEF Announcers, Announced
<1>9. \A i \in Notices!Ids : notifications'[i].key = notifications[i].key
  BY <1>2, <1>3
<1>10. QED BY <1>1, <1>3, <1>7, <1>8, <1>9, KeysStay DEF NoticesSound

-----------------------------------------------------------------------------
LEMMA NoticesSoundInit == Notices!Init => NoticesSound
<1> SUFFICES ASSUME Notices!Init PROVE NoticesSound
  OBVIOUS
<1>1. Notices!NoCreation \in Creation /\ Notices!NoCreation.pc = "idle" /\ Notices!NoCreation.id = 0
  BY DEF Creation, Notices!NoCreation
<1>2. Notices!NoRequest \in NoticesReading /\ Notices!NoRequest.pc = "idle" /\ Notices!NoRequest.id = 0
  BY DEF NoticesReading, Notices!NoRequest
<1>3. NoticesTyping
  BY <1>1, <1>2 DEF Notices!Init, NoticesTyping, Stamped, Notices!Ids
<1>4. Announcers /\ Announced /\ Notices!OnePerKey
  BY <1>1 DEF Notices!Init, Announcers, Announced, Notices!OnePerKey, Notices!Ids
<1>5. QED BY <1>3, <1>4 DEF NoticesSound

LEMMA NoticesSoundStep == NoticesSound /\ [Notices!Next]_(Notices!notificationVars) => NoticesSound'
<1> SUFFICES ASSUME NoticesSound, [Notices!Next]_(Notices!notificationVars) PROVE NoticesSound'
  OBVIOUS
<1>1. CASE UNCHANGED Notices!notificationVars
  BY <1>1 DEF Notices!notificationVars, NoticesSound, NoticesTyping, Stamped, Notices!Ids,
     Announcers, Announced, Notices!OnePerKey
<1>2. CASE Notices!Next
  BY <1>2, NoticesBegins, Inserts, Emits, Fails, Finds, Marks DEF Notices!Next
<1>3. QED BY <1>1, <1>2

LEMMA NoticesSoundTells == NoticesSound => Notices!TypeOK /\ Notices!OnePerKey /\ Notices!AnnouncedOnce
<1> SUFFICES ASSUME NoticesSound PROVE Notices!TypeOK /\ Notices!OnePerKey /\ Notices!AnnouncedOnce
  OBVIOUS
<1>1. Notices!TypeOK
  <2>1. ASSUME NEW i \in Notices!Ids
        PROVE  /\ notifications[i].key \in Keys \cup {None}
               /\ notifications[i].isRead = (notifications[i].readAt > 0)
               /\ notifications[i].readAt \in 0 .. clock
    <3>1. notifications[i] \in Stored
      BY DEF NoticesSound, NoticesTyping, Notices!Ids
    <3>2. /\ notifications[i].isRead <=> notifications[i].readAt > 0
          /\ notifications[i].readAt <= clock /\ clock \in Nat
      BY DEF NoticesSound, NoticesTyping, Stamped
    <3>3. notifications[i].isRead \in BOOLEAN /\ notifications[i].readAt \in Nat
          /\ notifications[i].key \in Keys \cup {None}
      BY <3>1 DEF Stored
    <3>4. (notifications[i].readAt > 0) \in BOOLEAN
      OBVIOUS
    <3>5. notifications[i].isRead = (notifications[i].readAt > 0)
      BY <3>2, <3>3, <3>4
    <3>6. QED BY <3>2, <3>3, <3>5
  <2>2. QED BY <2>1 DEF Notices!TypeOK, NoticesSound, NoticesTyping, Creation, NoticesReading
<1>2. Notices!AnnouncedOnce
  BY DEF NoticesSound, Announced, Notices!AnnouncedOnce, Notices!IsInjective, Notices!ToSet
<1>3. QED BY <1>1, <1>2 DEF NoticesSound

\* Creations that overlap leave one notification of a key, and a stored one is
\* announced once, or will be, or its creator failed after the insert.
THEOREM NotifiedOnce == Notices!Spec => [](Notices!TypeOK /\ Notices!OnePerKey /\ Notices!AnnouncedOnce)
  BY NoticesSoundInit, NoticesSoundStep, NoticesSoundTells, PTL DEF Notices!Spec

-----------------------------------------------------------------------------
(* Accounts and organizations.  The invariant adds to AdminRemains what a   *)
(* request still knows when it writes: it takes nothing from its caller.    *)
Orgs == INSTANCE Organizations WITH
    Names <- OrgNames, MaxRequests <- MaxOrgRequests, MaxFaults <- MaxOrgFaults,
    request <- orgRequest, received <- orgRequests, overlapped <- overlappedEmails

\* A request and a membership are records of these fields.
Fields == {"pc", "kind", "actor", "super", "org", "user", "email", "role", "slug", "active"}
IsRequest(c) ==
    /\ c = [field \in Fields |-> c[field]]
    /\ c.role \in Orgs!Roles /\ c.email \in Emails \cup {None}
IsRow(m) == m = [user |-> m.user, org |-> m.org, role |-> m.role, active |-> m.active]

\* A request that takes rights away spares its caller's, from its checks to its
\* write; the steps of the other requests are their own.
SparesCaller(c) ==
    /\ c.kind = "deactivate" => c.user # c.actor
    /\ c.pc \in {"target", "write"} =>
        /\ c.kind = "remove" => c.user # c.actor
        /\ c.kind = "role" /\ c.role = "user" => c.user # c.actor
    /\ c.pc = "lookup" => c.kind = "add"
    /\ c.pc \in {"insert", "member", "count", "email", "again"} =>
        c.kind \in {"create_user", "bootstrap"}
    /\ c.pc = "slug" => c.kind \in {"create_org", "update_org"}

Accounts == [email : Emails \cup {None}, super : BOOLEAN, active : BOOLEAN]
RequestOK(c) == IsRequest(c) /\ SparesCaller(c)
RequestsOK ==
    /\ orgRequest = [r \in Requests |-> orgRequest[r]]
    /\ \A r \in Requests : RequestOK(orgRequest[r])
OrgsIInv ==
    /\ accounts \in Seq(Accounts)
    /\ \A m \in members : IsRow(m)
    /\ RequestsOK
    /\ Orgs!AdminRemains

-----------------------------------------------------------------------------
(* Requests.                                                                *)

\* One request moves.
LEMMA OneMoves ==
    ASSUME RequestsOK, NEW r \in Requests, NEW d, RequestOK(d),
           orgRequest' = [orgRequest EXCEPT ![r] = d]
    PROVE  RequestsOK'
  BY DEF RequestsOK

\* An idle request.
LEMMA IdleOK == RequestOK(Orgs!Idle)
  BY DEF RequestOK, IsRequest, Fields, SparesCaller, Orgs!Idle, Orgs!Roles

\* Only the step changes.
LEMMA NextStep ==
    ASSUME NEW c, IsRequest(c), NEW step
    PROVE  LET d == [c EXCEPT !.pc = step]
           IN  /\ IsRequest(d) /\ d.pc = step /\ d.kind = c.kind /\ d.user = c.user
               /\ d.actor = c.actor /\ d.role = c.role
  BY DEF IsRequest, Fields

\* A request that goes on or ends, as SparesCaller allows.
LEMMA GoesOn ==
    ASSUME RequestsOK, NEW r \in Requests, NEW step, Orgs!Goto(r, step),
           SparesCaller([orgRequest[r] EXCEPT !.pc = step])
    PROVE  RequestsOK'
  <1>1. IsRequest([orgRequest[r] EXCEPT !.pc = step])
    BY NextStep DEF RequestsOK, RequestOK
  <1>2. orgRequest' = [orgRequest EXCEPT ![r] = [orgRequest[r] EXCEPT !.pc = step]]
    BY DEF Orgs!Goto
  <1>3. QED
    BY <1>1, <1>2, OneMoves DEF RequestOK

LEMMA Ends ==
    ASSUME RequestsOK, NEW r \in Requests, Orgs!Done(r)
    PROVE  RequestsOK'
  BY IdleOK, OneMoves DEF Orgs!Done

\* Calls spare their caller.
LEMMA CallsOK == \A call \in Orgs!Calls : RequestOK(call)
  <1>1. ASSUME NEW e \in Emails PROVE RequestOK([Orgs!Idle EXCEPT !.pc = "count", !.email = e])
    BY DEF Orgs!Idle, RequestOK, IsRequest, Fields, SparesCaller, Orgs!Roles
  <1>2. ASSUME NEW u, NEW call \in Orgs!CallsOf(u) PROVE RequestOK(call)
    <2> DEFINE c == Orgs!Call(u)
    <2>1. IsRequest(c) /\ c.actor = u
      BY DEF Orgs!Call, Orgs!Idle, IsRequest, Fields, Orgs!Roles
    <2> HIDE DEF c
    <2>2. ASSUME NEW o, NEW e \in Emails, NEW p \in Orgs!Roles
          PROVE  RequestOK(Orgs!AddCall(u, o, e, p)) /\ RequestOK(Orgs!CreateUserCall(u, o, e, p))
      BY <2>1 DEF Orgs!AddCall, Orgs!CreateUserCall, RequestOK, IsRequest, Fields, SparesCaller,
         c
    <2>3. ASSUME NEW o, NEW v, NEW p \in Orgs!Roles
          PROVE  RequestOK(Orgs!RemoveCall(u, o, v)) /\ RequestOK(Orgs!RoleCall(u, o, v, p))
      BY <2>1 DEF Orgs!RemoveCall, Orgs!RoleCall, RequestOK, IsRequest, Fields, SparesCaller, c
    <2>4. ASSUME NEW o, NEW v, v # u PROVE RequestOK(Orgs!DeactivateCall(u, o, v))
      BY <2>1, <2>4 DEF Orgs!DeactivateCall, RequestOK, IsRequest, Fields, SparesCaller, c
    <2>5. ASSUME NEW o, NEW n, NEW a
          PROVE  /\ RequestOK(Orgs!CreateOrgCall(u, n)) /\ RequestOK(Orgs!RenameOrgCall(u, o, n))
                 /\ RequestOK(Orgs!SwitchOrgCall(u, o, a))
      BY <2>1 DEF Orgs!CreateOrgCall, Orgs!RenameOrgCall, Orgs!SwitchOrgCall, RequestOK,
         IsRequest, Fields,
                  SparesCaller, c
    <2>6. \/ \E o, e, p : /\ e \in Emails /\ p \in Orgs!Roles
                          /\ call \in {Orgs!AddCall(u, o, e, p), Orgs!CreateUserCall(u, o, e, p)}
          \/ \E o, v : call = Orgs!RemoveCall(u, o, v)
          \/ \E o, v, p : p \in Orgs!Roles /\ call = Orgs!RoleCall(u, o, v, p)
          \/ \E o, v : v # u /\ call = Orgs!DeactivateCall(u, o, v)
          \/ \E o, n, a : call \in {Orgs!CreateOrgCall(u, n), Orgs!RenameOrgCall(u, o, n),
                                    Orgs!SwitchOrgCall(u, o, a)}
      BY <1>2 DEF Orgs!CallsOf
    <2>7. "user" \in Orgs!Roles
      BY DEF Orgs!Roles
    <2>8. QED BY <2>2, <2>3, <2>4, <2>5, <2>6, <2>7
  <1>3. QED BY <1>1, <1>2 DEF Orgs!Calls

\* Permitted stops whoever acts on themselves.
LEMMA PermittedOK ==
    ASSUME RequestsOK, NEW r \in Requests, Orgs!Permitted(r)
    PROVE  RequestsOK'
  <1>1. CASE Orgs!OnSelf(r)
    BY <1>1, Ends DEF Orgs!Permitted
  <1>2. CASE ~Orgs!OnSelf(r)
    <2> DEFINE c == orgRequest[r]
    <2>1. IsRequest(c) /\ SparesCaller(c)
      BY DEF RequestsOK, RequestOK
    <2>2. CASE c.kind = "create_user"
      <3>1. SparesCaller([c EXCEPT !.pc = "again"])
        BY <2>1, <2>2, NextStep DEF SparesCaller
      <3>2. Orgs!Goto(r, "again")
        BY <1>2, <2>2 DEF Orgs!Permitted
      <3>3. QED BY <3>1, <3>2, GoesOn
    <2>3. CASE c.kind = "add"
      <3>1. SparesCaller([c EXCEPT !.pc = "lookup"])
        BY <2>1, <2>3, NextStep DEF SparesCaller
      <3>2. Orgs!Goto(r, "lookup")
        BY <1>2, <2>3 DEF Orgs!Permitted
      <3>3. QED BY <3>1, <3>2, GoesOn
    <2>4. CASE c.kind # "create_user" /\ c.kind # "add"
      <3>1. SparesCaller([c EXCEPT !.pc = "target"])
        BY <1>2, <2>1, <2>4, NextStep DEF SparesCaller, Orgs!OnSelf
      <3>2. Orgs!Goto(r, "target")
        BY <1>2, <2>4 DEF Orgs!Permitted
      <3>3. QED BY <3>1, <3>2, GoesOn
    <2>5. QED BY <2>2, <2>3, <2>4
  <1>3. QED BY <1>1, <1>2

\* Every step keeps RequestsOK.
LEMMA RequestsKept ==
    ASSUME RequestsOK, NEW r \in Requests
    PROVE  /\ Orgs!Begin(r) => RequestsOK'
           /\ Orgs!CountUsers(r) \/ Orgs!CheckEmail(r) \/ Orgs!CheckAgain(r) => RequestsOK'
           /\ Orgs!CheckOrganization(r) \/ Orgs!CheckActor(r) => RequestsOK'
           /\ Orgs!FindUser(r) => RequestsOK'
           /\ Orgs!CheckTarget(r) => RequestsOK'
           /\ Orgs!InsertUser(r) => RequestsOK'
           /\ Orgs!TrySlug(r) => RequestsOK'
  <1> DEFINE c == orgRequest[r]
  <1>0. IsRequest(c) /\ SparesCaller(c)
    BY DEF RequestsOK, RequestOK
  <1>1. ASSUME Orgs!Begin(r) PROVE RequestsOK'
    BY <1>1, CallsOK, OneMoves DEF Orgs!Begin
  <1>2. ASSUME Orgs!CountUsers(r) \/ Orgs!CheckEmail(r) \/ Orgs!CheckAgain(r) PROVE RequestsOK'
    <2>1. CASE Orgs!Done(r)
      BY <2>1, Ends
    <2>2. CASE ~Orgs!Done(r)
      <3>1. c.kind \in {"create_user", "bootstrap"}
        BY <1>0, <1>2 DEF Orgs!CountUsers, Orgs!CheckEmail, Orgs!CheckAgain, Orgs!At,
           SparesCaller
      <3>2. \E step \in {"email", "insert", "again", "organization"} : Orgs!Goto(r, step)
        BY <1>2, <2>2 DEF Orgs!CountUsers, Orgs!CheckEmail, Orgs!CheckAgain
      <3>3. PICK step \in {"email", "insert", "again", "organization"} : Orgs!Goto(r, step)
        BY <3>2
      <3>4. SparesCaller([c EXCEPT !.pc = step])
        BY <1>0, <3>1, NextStep DEF SparesCaller
      <3>5. QED BY <3>3, <3>4, GoesOn
    <2>3. QED BY <2>1, <2>2
  <1>3. ASSUME Orgs!CheckOrganization(r) \/ Orgs!CheckActor(r) PROVE RequestsOK'
    <2>1. Orgs!Done(r) \/ Orgs!Permitted(r) \/ Orgs!Goto(r, "actor")
      BY <1>3 DEF Orgs!CheckOrganization, Orgs!CheckActor
    <2>2. SparesCaller([c EXCEPT !.pc = "actor"])
      BY <1>0, NextStep DEF SparesCaller
    <2>3. QED BY <2>1, <2>2, GoesOn, Ends, PermittedOK
  <1>4. ASSUME Orgs!FindUser(r) PROVE RequestsOK'
    <2>1. CASE Orgs!Done(r)
      BY <2>1, Ends
    <2>2. CASE ~Orgs!Done(r)
      <3>1. PICK u : orgRequest' = [orgRequest EXCEPT ![r] = [c EXCEPT !.user = u, !.pc = "target"]]
        BY <1>4, <2>2 DEF Orgs!FindUser
      <3>2. c.kind = "add"
        BY <1>0, <1>4 DEF Orgs!FindUser, Orgs!At, SparesCaller
      <3> DEFINE d == [c EXCEPT !.user = u, !.pc = "target"]
      <3>3. RequestOK(d)
        <4>1. IsRequest(d) /\ d.pc = "target" /\ d.kind = c.kind
          BY <1>0 DEF IsRequest, Fields
        <4>2. QED BY <3>2, <4>1 DEF RequestOK, SparesCaller
      <3>4. QED BY <3>1, <3>3, OneMoves
    <2>3. QED BY <2>1, <2>2
  <1>5. ASSUME Orgs!CheckTarget(r) PROVE RequestsOK'
    <2>1. Orgs!Done(r) \/ Orgs!Goto(r, "write")
      BY <1>5 DEF Orgs!CheckTarget
    <2>2. SparesCaller([c EXCEPT !.pc = "write"])
      BY <1>0, <1>5, NextStep DEF SparesCaller, Orgs!CheckTarget, Orgs!At
    <2>3. QED BY <2>1, <2>2, GoesOn, Ends
  <1>6. ASSUME Orgs!InsertUser(r) PROVE RequestsOK'
    <2>1. CASE Orgs!Done(r)
      BY <2>1, Ends
    <2>2. CASE ~Orgs!Done(r)
      <3>1. PICK u : orgRequest' = [orgRequest EXCEPT ![r] = [c EXCEPT !.user = u, !.pc = "member"]]
        BY <1>6, <2>2 DEF Orgs!InsertUser
      <3>2. c.kind \in {"create_user", "bootstrap"}
        BY <1>0, <1>6 DEF Orgs!InsertUser, Orgs!At, SparesCaller
      <3> DEFINE d == [c EXCEPT !.user = u, !.pc = "member"]
      <3>3. RequestOK(d)
        <4>1. IsRequest(d) /\ d.pc = "member" /\ d.kind = c.kind
          BY <1>0 DEF IsRequest, Fields
        <4>2. QED BY <3>2, <4>1 DEF RequestOK, SparesCaller
      <3>4. QED BY <3>1, <3>3, OneMoves
    <2>3. QED BY <2>1, <2>2
  <1>7. ASSUME Orgs!TrySlug(r) PROVE RequestsOK'
    <2>1. c.pc = "slug" /\ c.kind \in {"create_org", "update_org"}
      BY <1>0, <1>7 DEF Orgs!TrySlug, Orgs!At, SparesCaller
    <2>2. CASE Orgs!Goto(r, "write")
      <3>1. SparesCaller([c EXCEPT !.pc = "write"])
        BY <1>0, <2>1, NextStep DEF SparesCaller
      <3>2. QED BY <2>2, <3>1, GoesOn
    <2>3. CASE ~Orgs!Goto(r, "write")
      <3>1. PICK s : orgRequest' = [orgRequest EXCEPT ![r] = [c EXCEPT !.slug = s]]
        BY <1>7, <2>3 DEF Orgs!TrySlug
      <3>2. RequestOK([c EXCEPT !.slug = s])
        BY <1>0, <2>1 DEF RequestOK, IsRequest, Fields, SparesCaller
      <3>3. QED BY <3>1, <3>2, OneMoves
    <2>4. QED BY <2>2, <2>3
  <1>8. QED BY <1>1, <1>2, <1>3, <1>4, <1>5, <1>6, <1>7

-----------------------------------------------------------------------------
(* Admins.                                                                  *)

\* An organization whose admins are untouched, or excused, keeps the promise.
LEMMA Excused ==
    ASSUME Orgs!AdminRemains, NEW reasons, Orgs!Excuse(reasons),
           \A o \in DOMAIN orgs' :
               o \notin reasons => /\ o \in DOMAIN orgs
                                   /\ o \in ungoverned
                                      \/ Orgs!Governors(accounts', members', o) # {}
    PROVE  Orgs!AdminRemains'
  BY DEF Orgs!AdminRemains, Orgs!Excuse

\* A request without an excuse leaves its caller among the admins.
LEMMA CallerGoverns ==
    ASSUME NEW r, NEW o \in DOMAIN orgs \ Orgs!Reasons(r)
    PROVE  o = orgRequest[r].org => orgRequest[r].actor \in Orgs!Governors(accounts, members, o)
  BY DEF Orgs!Reasons

LEMMA Removal ==
    ASSUME OrgsIInv, NEW r \in Requests, Orgs!RemoveMember(r)
    PROVE  OrgsIInv'
  <1> DEFINE c == orgRequest[r]
  <1>1. RequestsOK'
    BY Ends DEF OrgsIInv, Orgs!RemoveMember
  <1>2. c.user # c.actor
    BY DEF OrgsIInv, RequestsOK, RequestOK, SparesCaller, Orgs!RemoveMember, Orgs!At
  <1>3. \A m \in members' : IsRow(m)
    BY DEF OrgsIInv, Orgs!RemoveMember, IsRow, Orgs!Member
  <1>4. ASSUME NEW o \in DOMAIN orgs \ Orgs!Reasons(r), o \notin ungoverned
        PROVE  Orgs!Governors(accounts', members', o) # {}
    <2>1. PICK g \in Orgs!Governors(accounts, members, o) : o = c.org => g = c.actor
      BY <1>4, CallerGoverns DEF OrgsIInv, Orgs!AdminRemains
    <2>2. PICK m \in members : m.user = g /\ m.org = o /\ m.active /\ m.role = "admin"
      BY <2>1 DEF Orgs!Governors
    <2>3. m \in members'
      BY <1>2, <2>1, <2>2 DEF Orgs!RemoveMember, Orgs!Member
    <2>4. g \in DOMAIN accounts' /\ accounts'[g].active
      BY <2>1 DEF Orgs!RemoveMember, Orgs!Governors
    <2>5. QED BY <2>2, <2>3, <2>4 DEF Orgs!Governors
  <1>5. Orgs!AdminRemains'
    BY <1>4, Excused DEF OrgsIInv, Orgs!RemoveMember
  <1>6. QED BY <1>1, <1>3, <1>5 DEF OrgsIInv, Orgs!RemoveMember

LEMMA NewRole ==
    ASSUME OrgsIInv, NEW r \in Requests, Orgs!ChangeRole(r)
    PROVE  OrgsIInv'
  <1> DEFINE c == orgRequest[r]
  <1>1. RequestsOK'
    BY Ends DEF OrgsIInv, Orgs!ChangeRole
  <1>2. c.role \in Orgs!Roles /\ (c.role = "user" => c.user # c.actor)
    BY DEF OrgsIInv, RequestsOK, RequestOK, IsRequest, SparesCaller, Orgs!ChangeRole, Orgs!At
  <1>3. \A m \in members' : IsRow(m)
    BY DEF OrgsIInv, Orgs!ChangeRole, IsRow, Orgs!Member
  <1>4. ASSUME NEW o \in DOMAIN orgs \ Orgs!Reasons(r), o \notin ungoverned
        PROVE  Orgs!Governors(accounts', members', o) # {}
    <2>1. PICK g \in Orgs!Governors(accounts, members, o) : o = c.org => g = c.actor
      BY <1>4, CallerGoverns DEF OrgsIInv, Orgs!AdminRemains
    <2>2. PICK m \in members : m.user = g /\ m.org = o /\ m.active /\ m.role = "admin"
      BY <2>1 DEF Orgs!Governors
    <2>3. \E n \in members' : n.user = g /\ n.org = o /\ n.active /\ n.role = "admin"
      <3>1. CASE m \in Orgs!Member(c.user, c.org)
        <4>1. c.role = "admin"
          BY <1>2, <2>1, <2>2, <3>1 DEF Orgs!Member, Orgs!Roles
        <4>2. [m EXCEPT !.role = c.role] \in members'
          BY <2>2, <3>1 DEF Orgs!ChangeRole
        <4>3. IsRow(m)
          BY <2>2 DEF OrgsIInv
        <4>4. QED BY <2>2, <4>1, <4>2, <4>3 DEF IsRow
      <3>2. CASE m \notin Orgs!Member(c.user, c.org)
        <4>1. m \in members'
          BY <2>2, <3>2 DEF Orgs!ChangeRole
        <4>2. QED BY <2>2, <4>1
      <3>3. QED BY <3>1, <3>2
    <2>4. g \in DOMAIN accounts' /\ accounts'[g].active
      BY <2>1 DEF Orgs!ChangeRole, Orgs!Governors
    <2>5. QED BY <2>3, <2>4 DEF Orgs!Governors
  <1>5. Orgs!AdminRemains'
    BY <1>4, Excused DEF OrgsIInv, Orgs!ChangeRole
  <1>6. QED BY <1>1, <1>3, <1>5 DEF OrgsIInv, Orgs!ChangeRole

LEMMA Deactivation ==
    ASSUME OrgsIInv, NEW r \in Requests, Orgs!DeactivateUser(r)
    PROVE  OrgsIInv'
  <1> DEFINE c == orgRequest[r]
             reasons == Orgs!Reasons(r) \cup (DOMAIN orgs \ {c.org})
  <1>1. RequestsOK'
    BY Ends DEF OrgsIInv, Orgs!DeactivateUser
  <1>2. c.user # c.actor
    BY DEF OrgsIInv, RequestsOK, RequestOK, SparesCaller, Orgs!DeactivateUser, Orgs!At
  <1>3. accounts' \in Seq(Accounts)
    <2>1. accounts \in Seq(Accounts)
      BY DEF OrgsIInv
    <2>2. CASE c.user \in DOMAIN accounts
      <3>0. accounts[c.user] \in Accounts
        BY <2>1, <2>2
      <3>1. [accounts[c.user] EXCEPT !.active = FALSE] \in Accounts
        BY <3>0 DEF Accounts
      <3>2. accounts' = [accounts EXCEPT ![c.user] = [accounts[c.user] EXCEPT !.active = FALSE]]
        BY DEF Orgs!DeactivateUser
      <3>3. QED BY <2>1, <2>2, <3>1, <3>2
    <2>3. CASE c.user \notin DOMAIN accounts
      <3>1. accounts = [u \in DOMAIN accounts |-> accounts[u]]
        BY <2>1
      <3>2. accounts' = accounts
        BY <2>3, <3>1 DEF Orgs!DeactivateUser
      <3>3. QED BY <2>1, <3>2
    <2>4. QED BY <2>2, <2>3
  <1>4. ASSUME NEW o \in DOMAIN orgs \ reasons
        PROVE  Orgs!Governors(accounts', members', o) # {}
    <2>1. c.actor \in Orgs!Governors(accounts, members, o)
      BY <1>4, CallerGoverns
    <2>2. c.actor \in DOMAIN accounts' /\ accounts'[c.actor] = accounts[c.actor]
      BY <1>2, <2>1 DEF Orgs!DeactivateUser, Orgs!Governors, OrgsIInv
    <2>3. QED BY <2>1, <2>2 DEF Orgs!Governors, Orgs!DeactivateUser
  <1>5. Orgs!AdminRemains'
    BY <1>4, Excused DEF OrgsIInv, Orgs!DeactivateUser
  <1>6. QED BY <1>1, <1>3, <1>5 DEF OrgsIInv, Orgs!DeactivateUser

\* Nothing is taken: whoever governed still does.
LEMMA Additions ==
    ASSUME OrgsIInv, NEW r \in Requests,
           Orgs!AddMember(r) \/ Orgs!InsertUser(r) \/ Orgs!CreateOrganization(r)
    PROVE  OrgsIInv'
  <1> DEFINE c == orgRequest[r]
  <1>1. RequestsOK'
    BY Ends, RequestsKept DEF OrgsIInv, Orgs!AddMember, Orgs!CreateOrganization
  <1>2. accounts' \in Seq(Accounts) /\ \A u \in DOMAIN accounts : u \in DOMAIN accounts'
                                                              /\ accounts'[u] = accounts[u]
    <2>1. CASE Orgs!InsertUser(r)
      <3>1. Orgs!Account(c.email, c.kind = "bootstrap") \in Accounts
        BY DEF OrgsIInv, RequestsOK, RequestOK, IsRequest, Orgs!Account, Accounts
      <3>2. accounts' = Append(accounts, Orgs!Account(c.email, c.kind = "bootstrap"))
        BY <2>1 DEF Orgs!InsertUser
      <3>3. QED BY <3>1, <3>2 DEF OrgsIInv
    <2>2. CASE Orgs!AddMember(r) \/ Orgs!CreateOrganization(r)
      BY <2>2 DEF Orgs!AddMember, Orgs!CreateOrganization, OrgsIInv
    <2>3. QED BY <2>1, <2>2
  <1>3. members \subseteq members' /\ \A m \in members' : IsRow(m)
    <2>1. CASE Orgs!AddMember(r)
      BY <2>1 DEF Orgs!AddMember, Orgs!Row, IsRow, OrgsIInv
    <2>2. CASE Orgs!InsertUser(r) \/ Orgs!CreateOrganization(r)
      BY <2>2 DEF Orgs!InsertUser, Orgs!CreateOrganization, OrgsIInv
    <2>3. QED BY <2>1, <2>2
  <1>4. \A o : Orgs!Governors(accounts, members, o) \subseteq Orgs!Governors(accounts', members', o)
    BY <1>2, <1>3 DEF Orgs!Governors
  <1>5. Orgs!AdminRemains'
    <2>1. CASE Orgs!AddMember(r)
      <3>1. Orgs!Excuse({}) /\ orgs' = orgs
        BY <2>1 DEF Orgs!AddMember
      <3>2. \A o \in DOMAIN orgs :
                o \in ungoverned \/ Orgs!Governors(accounts', members', o) # {}
        BY <1>4 DEF OrgsIInv, Orgs!AdminRemains
      <3>3. QED BY <3>1, <3>2, Excused DEF OrgsIInv
    <2>2. CASE Orgs!InsertUser(r)
      BY <2>2, <1>4 DEF OrgsIInv, Orgs!InsertUser, Orgs!AdminRemains
    <2>3. CASE Orgs!CreateOrganization(r)
      BY <2>3, Excused DEF OrgsIInv, Orgs!CreateOrganization
    <2>4. QED BY <2>1, <2>2, <2>3
  <1>6. QED BY <1>1, <1>2, <1>3, <1>5 DEF OrgsIInv

LEMMA OrgsOthers ==
    ASSUME OrgsIInv, NEW r \in Requests,
           \/ Orgs!Begin(r) \/ Orgs!CountUsers(r) \/ Orgs!CheckEmail(r) \/ Orgs!CheckAgain(r)
           \/ Orgs!CheckOrganization(r) \/ Orgs!CheckActor(r) \/ Orgs!FindUser(r) \/ Orgs!CheckTarget(r)
           \/ Orgs!TrySlug(r) \/ Orgs!UpdateOrganization(r) \/ Orgs!RequestFails(r)
    PROVE  OrgsIInv'
  <1>1. RequestsOK'
    BY Ends, RequestsKept DEF OrgsIInv, Orgs!UpdateOrganization, Orgs!RequestFails
  <1>2. accounts' = accounts /\ members' = members /\ ungoverned' = ungoverned
        /\ DOMAIN orgs' = DOMAIN orgs
    BY DEF Orgs!Begin, Orgs!CountUsers, Orgs!CheckEmail, Orgs!CheckAgain,
       Orgs!CheckOrganization, Orgs!CheckActor, Orgs!FindUser,
           Orgs!CheckTarget, Orgs!TrySlug, Orgs!UpdateOrganization, Orgs!RequestFails
  <1>3. QED BY <1>1, <1>2 DEF OrgsIInv, Orgs!AdminRemains

LEMMA OrgsInitInvariant ==
    ASSUME Founders \in Seq(Emails), Len(Founders) \in {0, 3}, Orgs!Init
    PROVE  OrgsIInv
  <1>1. RequestsOK
    BY IdleOK DEF Orgs!Init, RequestsOK
  <1>2. /\ DOMAIN accounts = 1 .. Len(Founders)
        /\ \A i \in 1 .. Len(Founders) : accounts[i] = Orgs!Account(Founders[i], i = 1)
    BY DEF Orgs!Init
  <1>3. accounts \in Seq(Accounts)
    <2>1. \A i \in 1 .. Len(Founders) : Orgs!Account(Founders[i], i = 1) \in Accounts
      BY DEF Orgs!Account, Accounts
    <2>2. accounts = [i \in 1 .. Len(Founders) |-> Orgs!Account(Founders[i], i = 1)]
      BY DEF Orgs!Init
    <2>3. QED BY <2>1, <2>2
  <1>4. \A m \in members : IsRow(m)
    BY DEF Orgs!Init, Orgs!Row, IsRow
  <1>5. Orgs!AdminRemains
    <2>1. CASE Founders = <<>>
      <3>1. DOMAIN orgs = {}
        BY <2>1 DEF Orgs!Init
      <3>2. QED BY <3>1 DEF Orgs!AdminRemains
    <2>2. CASE Founders # <<>>
      <3>1. DOMAIN orgs = 1 .. 2 /\ Orgs!Row(2, 1, "admin") \in members
            /\ Orgs!Row(2, 2, "admin") \in members
        BY <2>2 DEF Orgs!Init
      <3>2. 2 \in DOMAIN accounts /\ accounts[2].active
        BY <1>2, <2>2 DEF Orgs!Account
      <3>3. \A o \in 1 .. 2 : 2 \in Orgs!Governors(accounts, members, o)
        <4>1. \A o \in 1 .. 2 : Orgs!Row(2, o, "admin") \in members
          BY <3>1
        <4>2. \A o : LET m == Orgs!Row(2, o, "admin")
                     IN  m.user = 2 /\ m.org = o /\ m.active /\ m.role = "admin"
          BY DEF Orgs!Row
        <4>3. QED BY <3>2, <4>1, <4>2 DEF Orgs!Governors
      <3>4. QED BY <3>1, <3>3 DEF Orgs!AdminRemains
    <2>3. QED BY <2>1, <2>2
  <1>6. QED BY <1>1, <1>3, <1>4, <1>5 DEF OrgsIInv

LEMMA StepInvariant ==
    ASSUME OrgsIInv, [Orgs!Next]_(Orgs!organizationVars)
    PROVE  OrgsIInv'
  <1>1. CASE UNCHANGED Orgs!organizationVars
    BY <1>1 DEF Orgs!organizationVars, OrgsIInv, RequestsOK, Orgs!AdminRemains
  <1>2. ASSUME NEW r \in Requests, Orgs!RemoveMember(r) \/ Orgs!ChangeRole(r) \/ Orgs!DeactivateUser(r)
        PROVE  OrgsIInv'
    BY <1>2, Removal, NewRole, Deactivation
  <1>3. CASE Orgs!Next
    BY <1>2, <1>3, Additions, OrgsOthers DEF Orgs!Next
  <1>4. QED BY <1>1, <1>3
-----------------------------------------------------------------------------
(* Types.                                                                   *)

Slugs == OrgNames \X Nat
\* The constants of an instance of the model: nobody, or three founders with an
\* e-mail each.
OrgsSetup ==
    /\ Founders \in Seq(Emails) /\ Len(Founders) \in {0, 3} /\ Len(Founders) <= MaxAccounts
    /\ \A i, j \in DOMAIN Founders : Founders[i] = Founders[j] => i = j
    /\ MaxAccounts \in Nat /\ OrgNames # {} /\ None \notin Slugs

AccountRows == [email : Emails, super : BOOLEAN, active : BOOLEAN]
OrgRows == [slug : Slugs, active : BOOLEAN]
MemberRows(users, orgIds) == [user : users, org : orgIds, role : Orgs!Roles, active : BOOLEAN]

\* What a request says of accounts and organizations, when there are these.
Places(c, users, orgIds) ==
    /\ c.pc # "idle" /\ c.kind \in {"create_user", "bootstrap", "add"} => c.email \in Emails
    /\ c.kind \in {"remove", "role", "deactivate"} => c.user \in users
    /\ c.pc \in {"target", "write"} /\ c.kind = "add" => c.user \in users
    /\ c.kind \in {"add", "remove", "role", "deactivate"} => c.org \in orgIds
    /\ c.org \in orgIds \cup {0}
    /\ c.pc = "member" => c.user \in users /\ c.org \in orgIds
    /\ c.kind = "create_org" \/ c.pc = "slug" => c.slug \in Slugs
    /\ c.kind = "update_org" => c.slug \in Slugs \/ (c.slug = None /\ c.active \in BOOLEAN)

RequestsPlaced == \A r \in Requests : Places(orgRequest[r], DOMAIN accounts, DOMAIN orgs)
OrgsTyping ==
    /\ accounts \in Seq(AccountRows) /\ Len(accounts) <= MaxAccounts
    /\ orgs \in Seq(OrgRows)
    /\ members \subseteq MemberRows(DOMAIN accounts, DOMAIN orgs)
    /\ overlappedEmails \subseteq Emails
    /\ ungoverned \subseteq DOMAIN orgs
    /\ RequestsPlaced

\* One row per member, one slug per organization.
RowsApart == \A m, n \in members : m.user = n.user /\ m.org = n.org => m = n
SlugsApart == \A o, p \in DOMAIN orgs : orgs[o].slug = orgs[p].slug => o = p

LEMMA PlacesGrow ==
    ASSUME NEW c, NEW U, NEW O, Places(c, U, O), NEW V, NEW P, U \subseteq V, O \subseteq P
    PROVE  Places(c, V, P)
BY DEF Places

\* Only the step changes: the other fields of a request.
LEMMA OtherFields ==
    ASSUME NEW c, IsRequest(c), NEW step
    PROVE  LET d == [c EXCEPT !.pc = step]
           IN  /\ d.org = c.org /\ d.email = c.email /\ d.slug = c.slug
               /\ d.active = c.active /\ d.super = c.super
  BY DEF IsRequest, Fields

LEMMA PlacesGoOn ==
    ASSUME NEW c, IsRequest(c), NEW U, NEW O, Places(c, U, O), c.pc # "idle",
           NEW step, step \notin {"member", "slug"},
           step \in {"target", "write"} /\ c.kind = "add" => c.user \in U
    PROVE  Places([c EXCEPT !.pc = step], U, O)
<1> DEFINE d == [c EXCEPT !.pc = step]
<1>1. /\ d.pc = step /\ d.kind = c.kind /\ d.user = c.user /\ d.org = c.org
      /\ d.email = c.email /\ d.slug = c.slug /\ d.active = c.active
  BY NextStep, OtherFields
<1> HIDE DEF d
<1>2. Places(d, U, O)
  BY <1>1 DEF Places
<1>3. QED BY <1>2 DEF d

LEMMA IdlePlaces == \A U, O : Places(Orgs!Idle, U, O)
  BY DEF Places, Orgs!Idle

\* Calls name accounts and organizations there are.
LEMMA CallsPlaced ==
    ASSUME OrgsSetup, OrgsTyping
    PROVE  \A call \in Orgs!Calls : Places(call, DOMAIN accounts, DOMAIN orgs)
<1> DEFINE U == DOMAIN accounts
           O == DOMAIN orgs
<1>1. ASSUME NEW e \in Emails PROVE Places([Orgs!Idle EXCEPT !.pc = "count", !.email = e], U, O)
  BY DEF Orgs!Idle, Places
<1>2. ASSUME NEW u, NEW call \in Orgs!CallsOf(u) PROVE Places(call, U, O)
  <2> DEFINE c == Orgs!Call(u)
  <2>1. IsRequest(c) /\ c.actor = u /\ c.org = 0 /\ c.slug = None /\ c.pc = "idle"
    BY DEF Orgs!Call, Orgs!Idle, IsRequest, Fields, Orgs!Roles
  <2> HIDE DEF c
  <2>2. ASSUME NEW o \in O, NEW e \in Emails, NEW p \in Orgs!Roles
        PROVE  Places(Orgs!AddCall(u, o, e, p), U, O)
    BY <2>1 DEF Orgs!AddCall, Places, IsRequest, Fields, c
  <2>3. ASSUME NEW o \in O \cup {0}, NEW e \in Emails, NEW p \in Orgs!Roles
        PROVE  Places(Orgs!CreateUserCall(u, o, e, p), U, O)
    BY <2>1 DEF Orgs!CreateUserCall, Places, IsRequest, Fields, c
  <2>4. ASSUME NEW o \in O, NEW v \in U, NEW p \in Orgs!Roles
        PROVE  Places(Orgs!RemoveCall(u, o, v), U, O) /\ Places(Orgs!RoleCall(u, o, v, p), U, O)
    BY <2>1 DEF Orgs!RemoveCall, Orgs!RoleCall, Places, IsRequest, Fields, c
  <2>5. ASSUME NEW o \in O, NEW v \in U PROVE Places(Orgs!DeactivateCall(u, o, v), U, O)
    BY <2>1 DEF Orgs!DeactivateCall, Places, IsRequest, Fields, c
  <2>6. ASSUME NEW o \in O, NEW n \in OrgNames, NEW a \in BOOLEAN
        PROVE  Places(Orgs!RenameOrgCall(u, o, n), U, O) /\ Places(Orgs!SwitchOrgCall(u, o, a), U, O)
    <3>1. <<n, 1>> \in Slugs
      BY DEF Slugs
    <3>2. QED
      BY <2>1, <3>1 DEF Orgs!RenameOrgCall, Orgs!SwitchOrgCall, Places, IsRequest, Fields, c
  <2>7. ASSUME NEW n \in OrgNames PROVE Places(Orgs!CreateOrgCall(u, n), U, O)
    <3>1. <<n, 1>> \in Slugs
      BY DEF Slugs
    <3>2. QED
      BY <2>1, <3>1 DEF Orgs!CreateOrgCall, Places, IsRequest, Fields, c
  <2>8. \/ \E o \in O, e \in Emails, p \in Orgs!Roles : call = Orgs!AddCall(u, o, e, p)
        \/ \E o \in O \cup {0}, e \in Emails, p \in Orgs!Roles : call = Orgs!CreateUserCall(u, o, e, p)
        \/ \E o \in O, v \in U : call = Orgs!RemoveCall(u, o, v)
        \/ \E o \in O, v \in U, p \in Orgs!Roles : call = Orgs!RoleCall(u, o, v, p)
        \/ \E o \in O, v \in U : call = Orgs!DeactivateCall(u, o, v)
        \/ \E n \in OrgNames : call = Orgs!CreateOrgCall(u, n)
        \/ \E o \in O, n \in OrgNames : call = Orgs!RenameOrgCall(u, o, n)
        \/ \E o \in O, a \in BOOLEAN : call = Orgs!SwitchOrgCall(u, o, a)
    BY <1>2 DEF Orgs!CallsOf
  <2> HIDE DEF U, O
  <2>9. CASE \E o \in O, n \in OrgNames : call = Orgs!RenameOrgCall(u, o, n)
    BY <2>6, <2>9
  <2>10. CASE \E o \in O, a \in BOOLEAN : call = Orgs!SwitchOrgCall(u, o, a)
    BY <2>6, <2>10 DEF OrgsSetup
  <2>11. CASE \E o \in O, v \in U : call = Orgs!RemoveCall(u, o, v)
    <3>1. "user" \in Orgs!Roles
      BY DEF Orgs!Roles
    <3>2. QED BY <2>4, <2>11, <3>1
  <2>12. QED BY <2>2, <2>3, <2>4, <2>5, <2>7, <2>8, <2>9, <2>10, <2>11
<1>3. QED BY <1>1, <1>2 DEF Orgs!Calls

\* Where a step leaves its request, and that accounts and organizations stay.
LEMMA StepPlaces ==
    ASSUME RequestsOK, OrgsTyping, NEW r \in Requests, NEW d,
           orgRequest' = [orgRequest EXCEPT ![r] = d],
           DOMAIN accounts \subseteq DOMAIN accounts', DOMAIN orgs \subseteq DOMAIN orgs',
           Places(d, DOMAIN accounts', DOMAIN orgs')
    PROVE  RequestsPlaced'
<1>1. \A q \in Requests : orgRequest'[q] = orgRequest[q] \/ orgRequest'[q] = d
  BY DEF RequestsOK
<1>2. QED BY <1>1, PlacesGrow DEF OrgsTyping, RequestsPlaced

\* Steps that change nothing but requests.
LEMMA RequestMoves ==
    ASSUME OrgsSetup, OrgsIInv, OrgsTyping, NEW r \in Requests,
           \/ Orgs!CountUsers(r) \/ Orgs!CheckEmail(r) \/ Orgs!CheckOrganization(r) \/ Orgs!CheckActor(r)
           \/ Orgs!CheckAgain(r) \/ Orgs!FindUser(r) \/ Orgs!CheckTarget(r) \/ Orgs!TrySlug(r) \/ Orgs!RequestFails(r)
    PROVE  RequestsPlaced'
<1> DEFINE c == orgRequest[r]
<1>1. /\ UNCHANGED <<accounts, orgs>> /\ IsRequest(c) /\ SparesCaller(c) /\ RequestsOK
      /\ Places(c, DOMAIN accounts, DOMAIN orgs) /\ c.pc # "idle"
  BY DEF OrgsIInv, RequestsOK, RequestOK, OrgsTyping, RequestsPlaced, Orgs!At, Orgs!CountUsers,
     Orgs!CheckEmail,
     Orgs!CheckOrganization, Orgs!CheckActor, Orgs!CheckAgain, Orgs!FindUser, Orgs!CheckTarget, Orgs!TrySlug, Orgs!RequestFails
<1>2. CASE Orgs!Done(r)
  BY <1>1, <1>2, IdlePlaces, StepPlaces DEF Orgs!Done
<1>3. ASSUME NEW step, Orgs!Goto(r, step), step \notin {"member", "slug"},
             step \in {"target", "write"} /\ c.kind = "add" => c.user \in DOMAIN accounts
      PROVE  RequestsPlaced'
  <2> DEFINE d == [c EXCEPT !.pc = step]
  <2>1. Places(d, DOMAIN accounts, DOMAIN orgs)
    BY <1>1, <1>3, PlacesGoOn
  <2>2. orgRequest' = [orgRequest EXCEPT ![r] = d]
    BY <1>3 DEF Orgs!Goto
  <2> HIDE DEF d
  <2>3. QED BY <1>1, <2>1, <2>2, StepPlaces
<1>4. CASE Orgs!FindUser(r) /\ ~Orgs!Done(r)
  <2>1. PICK u \in DOMAIN accounts :
            orgRequest' = [orgRequest EXCEPT ![r] = [c EXCEPT !.user = u, !.pc = "target"]]
    BY <1>4 DEF Orgs!FindUser
  <2> DEFINE d == [c EXCEPT !.user = u, !.pc = "target"]
  <2>2. /\ d.pc = "target" /\ d.kind = c.kind /\ d.user = u /\ d.org = c.org
        /\ d.email = c.email /\ d.slug = c.slug /\ d.active = c.active
    BY <1>1 DEF IsRequest, Fields
  <2> HIDE DEF d
  <2>3. Places(d, DOMAIN accounts, DOMAIN orgs)
    BY <1>1, <2>2 DEF Places
  <2>4. QED BY <1>1, <2>1, <2>3, StepPlaces DEF d
<1>5. CASE Orgs!TrySlug(r) /\ ~Orgs!Goto(r, "write")
  <2> DEFINE d == [c EXCEPT !.slug[2] = @ + 1]
  <2>1. orgRequest' = [orgRequest EXCEPT ![r] = d]
    BY <1>5 DEF Orgs!TrySlug
  <2>2. c.pc = "slug" /\ c.slug \in Slugs
    BY <1>1, <1>5 DEF Orgs!TrySlug, Orgs!At, Places
  <2>3. [c.slug EXCEPT ![2] = @ + 1] \in Slugs
    BY <2>2 DEF Slugs
  <2>4. d = [c EXCEPT !.slug = [c.slug EXCEPT ![2] = @ + 1]]
    OBVIOUS
  <2>5. /\ d.pc = c.pc /\ d.kind = c.kind /\ d.user = c.user /\ d.org = c.org
        /\ d.email = c.email /\ d.slug \in Slugs /\ d.active = c.active
    BY <1>1, <2>3, <2>4 DEF IsRequest, Fields
  <2> HIDE DEF d
  <2>6. Places(d, DOMAIN accounts, DOMAIN orgs)
    BY <1>1, <2>5 DEF Places
  <2>7. QED BY <1>1, <2>1, <2>6, StepPlaces
<1>6. CASE Orgs!Permitted(r)
  <2>1. \/ Orgs!Done(r) \/ Orgs!Goto(r, "again") \/ Orgs!Goto(r, "lookup")
        \/ Orgs!Goto(r, "target") /\ c.kind # "add"
    BY <1>6 DEF Orgs!Permitted
  <2>2. QED BY <1>2, <1>3, <2>1
<1>7. CASE Orgs!CountUsers(r) \/ Orgs!CheckEmail(r) \/ Orgs!CheckAgain(r)
  <2>1. Orgs!Done(r) \/ \E step \in {"email", "insert", "again", "organization"} : Orgs!Goto(r, step)
    BY <1>7 DEF Orgs!CountUsers, Orgs!CheckEmail, Orgs!CheckAgain
  <2>2. QED BY <1>2, <1>3, <2>1
<1>8. CASE Orgs!CheckOrganization(r) \/ Orgs!CheckActor(r)
  <2>1. Orgs!Done(r) \/ Orgs!Permitted(r) \/ Orgs!Goto(r, "actor")
    BY <1>8 DEF Orgs!CheckOrganization, Orgs!CheckActor
  <2>2. QED BY <1>2, <1>3, <1>6, <2>1
<1>9. CASE Orgs!CheckTarget(r)
  <2>1. \/ Orgs!Done(r)
        \/ Orgs!Goto(r, "write") /\ (c.kind = "add" => c.user \in DOMAIN accounts)
    BY <1>1, <1>9 DEF Orgs!CheckTarget, Orgs!At, Places
  <2>2. QED BY <1>2, <1>3, <2>1
<1>10. CASE Orgs!TrySlug(r) /\ Orgs!Goto(r, "write")
  <2>1. c.kind # "add"
    BY <1>1, <1>10 DEF Orgs!TrySlug, Orgs!At, SparesCaller
  <2>2. QED BY <1>3, <1>10, <2>1
<1>11. QED BY <1>2, <1>4, <1>5, <1>7, <1>8, <1>9, <1>10 DEF Orgs!FindUser, Orgs!RequestFails

LEMMA InsertPlaces ==
    ASSUME OrgsSetup, OrgsIInv, OrgsTyping, NEW r \in Requests, Orgs!InsertUser(r)
    PROVE  /\ accounts' \in Seq(AccountRows) /\ Len(accounts') <= MaxAccounts
           /\ DOMAIN accounts \subseteq DOMAIN accounts'
           /\ RequestsPlaced'
<1> DEFINE c == orgRequest[r]
           new == Orgs!Account(c.email, c.kind = "bootstrap")
<1>1. /\ IsRequest(c) /\ SparesCaller(c) /\ RequestsOK /\ c.pc = "insert"
      /\ Places(c, DOMAIN accounts, DOMAIN orgs)
  BY DEF OrgsIInv, RequestsOK, RequestOK, OrgsTyping, RequestsPlaced, Orgs!InsertUser, Orgs!At
<1>2. accounts' = Append(accounts, new) /\ Len(accounts) < MaxAccounts /\ UNCHANGED orgs
  BY DEF Orgs!InsertUser
<1>3. accounts \in Seq(AccountRows) /\ new \in AccountRows
  BY <1>1 DEF OrgsTyping, Orgs!Account, AccountRows, SparesCaller, Places
<1> HIDE DEF new
<1>4. /\ accounts' \in Seq(AccountRows) /\ Len(accounts') = Len(accounts) + 1
      /\ Len(accounts) \in Nat /\ DOMAIN accounts = 1 .. Len(accounts)
      /\ DOMAIN accounts' = 1 .. Len(accounts) + 1
  BY <1>2, <1>3
<1>5. DOMAIN accounts \subseteq DOMAIN accounts' /\ Len(accounts) + 1 \in DOMAIN accounts'
  BY <1>4
<1>6. RequestsPlaced'
  <2>1. CASE c.org = 0
    BY <1>1, <1>2, <1>5, <2>1, IdlePlaces, StepPlaces DEF Orgs!InsertUser, Orgs!Done
  <2>2. CASE c.org # 0
    <3> DEFINE d == [c EXCEPT !.user = Len(accounts) + 1, !.pc = "member"]
    <3>1. /\ d.pc = "member" /\ d.kind = c.kind /\ d.user = Len(accounts) + 1 /\ d.org = c.org
          /\ d.email = c.email /\ d.slug = c.slug /\ d.active = c.active
      BY <1>1 DEF IsRequest, Fields
    <3>2. orgRequest' = [orgRequest EXCEPT ![r] = d]
      BY <2>2 DEF Orgs!InsertUser
    <3>3. c.kind \in {"create_user", "bootstrap"}
      BY <1>1 DEF SparesCaller
    <3> HIDE DEF d
    <3>4. Places(d, DOMAIN accounts', DOMAIN orgs')
      BY <1>1, <1>2, <1>5, <2>2, <3>1, <3>3 DEF Places
    <3>5. QED BY <1>1, <1>2, <1>5, <3>2, <3>4, StepPlaces
  <2>3. QED BY <2>1, <2>2
<1>7. QED BY <1>2, <1>4, <1>5, <1>6 DEF OrgsSetup

\* Those who are on record as ungoverned are organizations there are.
LEMMA ExcusedExist == \A reasons : Orgs!Excuse(reasons) => ungoverned' \subseteq DOMAIN orgs'
BY DEF Orgs!Excuse

LEMMA RowsGrow ==
    \A U, V, O, P : U \subseteq V /\ O \subseteq P => MemberRows(U, O) \subseteq MemberRows(V, P)
BY DEF MemberRows

\* The three ways to change a membership.
LEMMA MembershipTypes ==
    ASSUME OrgsSetup, OrgsIInv, OrgsTyping, RowsApart, NEW r \in Requests,
           Orgs!AddMember(r) \/ Orgs!RemoveMember(r) \/ Orgs!ChangeRole(r)
    PROVE  OrgsTyping' /\ RowsApart'
<1> DEFINE c == orgRequest[r]
           U == DOMAIN accounts
           O == DOMAIN orgs
<1>1. /\ UNCHANGED <<accounts, orgs, overlappedEmails>> /\ Orgs!Done(r)
      /\ IsRequest(c) /\ Places(c, U, O) /\ RequestsOK
      /\ members \subseteq MemberRows(U, O)
  BY DEF OrgsIInv, RequestsOK, RequestOK, OrgsTyping, RequestsPlaced, Orgs!AddMember,
     Orgs!RemoveMember, Orgs!ChangeRole
<1>2. c.role \in Orgs!Roles
  BY <1>1 DEF IsRequest
<1>3. RequestsPlaced'
  BY <1>1, IdlePlaces, StepPlaces DEF Orgs!Done
<1>4. ungoverned' \subseteq DOMAIN orgs'
  BY ExcusedExist DEF Orgs!AddMember, Orgs!RemoveMember, Orgs!ChangeRole
<1>5. members' \subseteq MemberRows(U, O) /\ RowsApart'
  <2>1. CASE Orgs!AddMember(r)
    <3>1. Orgs!Row(c.user, c.org, c.role) \in MemberRows(U, O)
      <4>1. c.user \in U /\ c.org \in O
        BY <1>1, <2>1 DEF Orgs!AddMember, Orgs!At, Places
      <4>2. QED BY <1>2, <4>1 DEF Orgs!Row, MemberRows
    <3>2. \/ UNCHANGED members
          \/ /\ members' = members \cup {Orgs!Row(c.user, c.org, c.role)}
             /\ \A m \in members : m.user # c.user \/ m.org # c.org
      BY <2>1 DEF Orgs!AddMember, Orgs!HasRow
    <3>3. Orgs!Row(c.user, c.org, c.role).user = c.user /\ Orgs!Row(c.user, c.org, c.role).org = c.org
      BY DEF Orgs!Row
    <3>4. QED BY <1>1, <3>1, <3>2, <3>3 DEF RowsApart
  <2>2. CASE Orgs!RemoveMember(r)
    <3> DEFINE f(m) == IF m \in Orgs!Member(c.user, c.org) THEN [m EXCEPT !.active = FALSE] ELSE m
    <3>1. members' = {f(m) : m \in members}
      BY <2>2 DEF Orgs!RemoveMember
    <3>2. ASSUME NEW m \in members
          PROVE  f(m) \in MemberRows(U, O) /\ f(m).user = m.user /\ f(m).org = m.org
      BY <1>1 DEF MemberRows
    <3> HIDE DEF f
    <3>3. QED BY <3>1, <3>2 DEF RowsApart
  <2>3. CASE Orgs!ChangeRole(r)
    <3> DEFINE f(m) == IF m \in Orgs!Member(c.user, c.org) THEN [m EXCEPT !.role = c.role] ELSE m
    <3>1. members' = {f(m) : m \in members}
      BY <2>3 DEF Orgs!ChangeRole
    <3>2. ASSUME NEW m \in members
          PROVE  f(m) \in MemberRows(U, O) /\ f(m).user = m.user /\ f(m).org = m.org
      BY <1>1, <1>2 DEF MemberRows
    <3> HIDE DEF f
    <3>3. QED BY <3>1, <3>2 DEF RowsApart
  <2>4. QED BY <2>1, <2>2, <2>3
<1>6. QED BY <1>1, <1>3, <1>4, <1>5 DEF OrgsTyping

LEMMA DeactivationTypes ==
    ASSUME OrgsSetup, OrgsIInv, OrgsTyping, NEW r \in Requests, Orgs!DeactivateUser(r)
    PROVE  OrgsTyping'
<1> DEFINE c == orgRequest[r]
<1>1. /\ UNCHANGED <<orgs, members, overlappedEmails>> /\ Orgs!Done(r) /\ RequestsOK
      /\ Places(c, DOMAIN accounts, DOMAIN orgs) /\ accounts \in Seq(AccountRows)
  BY DEF OrgsIInv, OrgsTyping, RequestsPlaced, Orgs!DeactivateUser
<1>2. c.user \in DOMAIN accounts
  BY <1>1 DEF Orgs!DeactivateUser, Places
<1>3. [accounts[c.user] EXCEPT !.active = FALSE] \in AccountRows
  <2>1. accounts[c.user] \in AccountRows
    BY <1>1, <1>2
  <2>2. QED BY <2>1 DEF AccountRows
<1>4. accounts' = [accounts EXCEPT ![c.user] = [accounts[c.user] EXCEPT !.active = FALSE]]
  BY DEF Orgs!DeactivateUser
<1>5. /\ accounts' \in Seq(AccountRows) /\ Len(accounts') = Len(accounts)
      /\ DOMAIN accounts' = DOMAIN accounts
  BY <1>1, <1>2, <1>3, <1>4
<1>6. RequestsPlaced'
  BY <1>1, <1>5, IdlePlaces, StepPlaces DEF Orgs!Done
<1>7. ungoverned' \subseteq DOMAIN orgs'
  BY ExcusedExist DEF Orgs!DeactivateUser
<1>8. QED BY <1>1, <1>5, <1>6, <1>7 DEF OrgsTyping

\* A slug is written only while no other organization has it.
LEMMA OrganizationTypes ==
    ASSUME OrgsSetup, OrgsIInv, OrgsTyping, SlugsApart, NEW r \in Requests,
           Orgs!CreateOrganization(r) \/ Orgs!UpdateOrganization(r)
    PROVE  OrgsTyping' /\ SlugsApart'
<1> DEFINE c == orgRequest[r]
<1>1. /\ UNCHANGED <<accounts, members, overlappedEmails>> /\ Orgs!Done(r) /\ RequestsOK
      /\ Places(c, DOMAIN accounts, DOMAIN orgs) /\ orgs \in Seq(OrgRows)
      /\ members \subseteq MemberRows(DOMAIN accounts, DOMAIN orgs)
      /\ ungoverned \subseteq DOMAIN orgs
  BY DEF OrgsIInv, OrgsTyping, RequestsPlaced, Orgs!CreateOrganization, Orgs!UpdateOrganization
<1>2. orgs' \in Seq(OrgRows) /\ DOMAIN orgs \subseteq DOMAIN orgs' /\ SlugsApart'
  <2>1. CASE Orgs!CreateOrganization(r) /\ ~UNCHANGED orgs
    <3> DEFINE new == [slug |-> c.slug, active |-> TRUE]
    <3>1. orgs' = Append(orgs, new) /\ ~Orgs!Taken(c.slug, 0)
      BY <2>1 DEF Orgs!CreateOrganization
    <3>2. c.kind = "create_org"
      BY <2>1 DEF Orgs!CreateOrganization
    <3>3. new \in OrgRows /\ new.slug = c.slug
      BY <1>1, <3>2 DEF Places, OrgRows
    <3> HIDE DEF new
    <3>4. \A o \in DOMAIN orgs : orgs[o].slug # c.slug
      BY <1>1, <3>1 DEF Orgs!Taken
    <3>5. /\ orgs' \in Seq(OrgRows) /\ DOMAIN orgs' = DOMAIN orgs \cup {Len(orgs) + 1}
          /\ orgs'[Len(orgs) + 1] = new
          /\ \A o \in DOMAIN orgs : orgs'[o] = orgs[o]
      BY <1>1, <3>1, <3>3
    <3>6. QED BY <3>3, <3>4, <3>5 DEF SlugsApart
  <2>2. CASE Orgs!UpdateOrganization(r) /\ c.slug = None
    <3>1. c.active \in BOOLEAN
      BY <1>1, <2>2 DEF OrgsSetup, Places, Orgs!UpdateOrganization
    <3>2. orgs' = [orgs EXCEPT ![c.org] = [orgs[c.org] EXCEPT !.active = c.active]]
      BY <2>2 DEF Orgs!UpdateOrganization
    <3>3. CASE c.org \in DOMAIN orgs
      <4>1. orgs[c.org] \in OrgRows
        BY <1>1, <3>3
      <4> DEFINE new == [orgs[c.org] EXCEPT !.active = c.active]
      <4>2. new \in OrgRows /\ new.slug = orgs[c.org].slug
        BY <3>1, <4>1 DEF OrgRows
      <4> HIDE DEF new
      <4>3. orgs' = [orgs EXCEPT ![c.org] = new]
        BY <3>2 DEF new
      <4>4. /\ orgs' \in Seq(OrgRows) /\ DOMAIN orgs' = DOMAIN orgs
            /\ orgs'[c.org] = new /\ \A o \in DOMAIN orgs \ {c.org} : orgs'[o] = orgs[o]
        BY <1>1, <3>3, <4>2, <4>3
      <4>5. QED BY <4>2, <4>4 DEF SlugsApart
    <3>4. CASE c.org \notin DOMAIN orgs
      <4>1. orgs = [o \in DOMAIN orgs |-> orgs[o]]
        BY <1>1
      <4>2. orgs' = orgs
        BY <3>2, <3>4, <4>1
      <4>3. QED BY <1>1, <4>2 DEF SlugsApart
    <3>5. QED BY <3>3, <3>4
  <2>3. CASE Orgs!UpdateOrganization(r) /\ c.slug # None /\ ~UNCHANGED orgs
    <3>1. c.slug \in Slugs
      BY <1>1, <2>3 DEF Places, Orgs!UpdateOrganization
    <3>2. orgs' = [orgs EXCEPT ![c.org] = [orgs[c.org] EXCEPT !.slug = c.slug]]
          /\ ~Orgs!Taken(c.slug, c.org)
      BY <2>3 DEF Orgs!UpdateOrganization
    <3>3. CASE c.org \in DOMAIN orgs
      <4>1. orgs[c.org] \in OrgRows
        BY <1>1, <3>3
      <4> DEFINE new == [orgs[c.org] EXCEPT !.slug = c.slug]
      <4>2. new \in OrgRows /\ new.slug = c.slug
        BY <3>1, <4>1 DEF OrgRows
      <4> HIDE DEF new
      <4>3. orgs' = [orgs EXCEPT ![c.org] = new]
        BY <3>2 DEF new
      <4>4. /\ orgs' \in Seq(OrgRows) /\ DOMAIN orgs' = DOMAIN orgs
            /\ orgs'[c.org] = new /\ \A o \in DOMAIN orgs \ {c.org} : orgs'[o] = orgs[o]
        BY <1>1, <3>3, <4>2, <4>3
      <4>5. \A o \in DOMAIN orgs \ {c.org} : orgs[o].slug # c.slug
        BY <3>2 DEF Orgs!Taken
      <4>6. QED BY <4>2, <4>4, <4>5 DEF SlugsApart
    <3>4. CASE c.org \notin DOMAIN orgs
      <4>1. orgs = [o \in DOMAIN orgs |-> orgs[o]]
        BY <1>1
      <4>2. QED BY <2>3, <3>2, <3>4, <4>1
    <3>5. QED BY <3>3, <3>4
  <2>4. CASE UNCHANGED orgs
    BY <1>1, <2>4 DEF SlugsApart
  <2>5. QED BY <2>1, <2>2, <2>3, <2>4
<1>3. RequestsPlaced'
  BY <1>1, <1>2, IdlePlaces, StepPlaces DEF Orgs!Done
<1>4. ungoverned' \subseteq DOMAIN orgs'
  BY <1>1, <1>2, ExcusedExist DEF Orgs!CreateOrganization, Orgs!UpdateOrganization
<1>5. members' \subseteq MemberRows(DOMAIN accounts', DOMAIN orgs')
  BY <1>1, <1>2, RowsGrow
<1>6. QED BY <1>1, <1>2, <1>3, <1>4, <1>5 DEF OrgsTyping

LEMMA BeginTypes ==
    ASSUME OrgsSetup, OrgsIInv, OrgsTyping, NEW r \in Requests, Orgs!Begin(r)
    PROVE  OrgsTyping'
<1>1. PICK call \in Orgs!Calls :
        /\ orgRequest' = [orgRequest EXCEPT ![r] = call]
        /\ overlappedEmails' \subseteq overlappedEmails \cup {call.email}
                \cup {orgRequest[q].email : q \in {q \in Requests : Orgs!Creates(orgRequest[q])}}
        /\ Orgs!Creates(call) \/ overlappedEmails' = overlappedEmails
  BY DEF Orgs!Begin
<1>2. UNCHANGED <<accounts, orgs, members, ungoverned>>
  BY DEF Orgs!Begin
<1>3. Places(call, DOMAIN accounts, DOMAIN orgs)
  BY CallsPlaced
<1>4. RequestsPlaced'
  BY <1>1, <1>2, <1>3, StepPlaces DEF OrgsIInv
<1>5. Orgs!Creates(call) => call.email \in Emails
  BY <1>3 DEF Orgs!Creates, Places
<1>6. \A q \in Requests : Orgs!Creates(orgRequest[q]) => orgRequest[q].email \in Emails
  BY DEF OrgsTyping, RequestsPlaced, Orgs!Creates, Places
<1>7. overlappedEmails' \subseteq Emails
  BY <1>1, <1>5, <1>6 DEF OrgsTyping
<1>8. QED BY <1>2, <1>4, <1>7 DEF OrgsTyping

LEMMA TypingStep ==
    ASSUME OrgsSetup, OrgsIInv, OrgsTyping, RowsApart, SlugsApart, [Orgs!Next]_(Orgs!organizationVars)
    PROVE  OrgsTyping' /\ RowsApart' /\ SlugsApart'
<1>1. ASSUME NEW r \in Requests,
             \/ Orgs!CountUsers(r) \/ Orgs!CheckEmail(r) \/ Orgs!CheckOrganization(r) \/ Orgs!CheckActor(r)
             \/ Orgs!CheckAgain(r) \/ Orgs!FindUser(r) \/ Orgs!CheckTarget(r) \/ Orgs!TrySlug(r) \/ Orgs!RequestFails(r)
      PROVE  OrgsTyping' /\ RowsApart' /\ SlugsApart'
  <2>1. RequestsPlaced'
    BY <1>1, RequestMoves
  <2>2. UNCHANGED <<accounts, orgs, members, overlappedEmails, ungoverned>>
    BY <1>1 DEF Orgs!CountUsers, Orgs!CheckEmail, Orgs!CheckOrganization, Orgs!CheckActor,
       Orgs!CheckAgain, Orgs!FindUser,
       Orgs!CheckTarget, Orgs!TrySlug, Orgs!RequestFails
  <2>3. QED BY <2>1, <2>2 DEF OrgsTyping, RowsApart, SlugsApart
<1>2. ASSUME NEW r \in Requests, Orgs!AddMember(r) \/ Orgs!RemoveMember(r) \/ Orgs!ChangeRole(r)
      PROVE  OrgsTyping' /\ RowsApart' /\ SlugsApart'
  <2>1. UNCHANGED orgs
    BY <1>2 DEF Orgs!AddMember, Orgs!RemoveMember, Orgs!ChangeRole
  <2>2. QED BY <1>2, <2>1, MembershipTypes DEF SlugsApart
<1>3. ASSUME NEW r \in Requests, Orgs!CreateOrganization(r) \/ Orgs!UpdateOrganization(r)
      PROVE  OrgsTyping' /\ RowsApart' /\ SlugsApart'
  <2>1. UNCHANGED members
    BY <1>3 DEF Orgs!CreateOrganization, Orgs!UpdateOrganization
  <2>2. QED BY <1>3, <2>1, OrganizationTypes DEF RowsApart
<1>4. ASSUME NEW r \in Requests, Orgs!InsertUser(r)
      PROVE  OrgsTyping' /\ RowsApart' /\ SlugsApart'
  <2>1. UNCHANGED <<orgs, members, overlappedEmails, ungoverned>>
    BY <1>4 DEF Orgs!InsertUser
  <2>2. members' \subseteq MemberRows(DOMAIN accounts', DOMAIN orgs')
    BY <1>4, <2>1, InsertPlaces, RowsGrow DEF OrgsTyping
  <2>3. QED BY <1>4, <2>1, <2>2, InsertPlaces DEF OrgsTyping, RowsApart, SlugsApart
<1>5. ASSUME NEW r \in Requests, Orgs!DeactivateUser(r)
      PROVE  OrgsTyping' /\ RowsApart' /\ SlugsApart'
  <2>1. UNCHANGED <<orgs, members>>
    BY <1>5 DEF Orgs!DeactivateUser
  <2>2. QED BY <1>5, <2>1, DeactivationTypes DEF RowsApart, SlugsApart
<1>6. ASSUME NEW r \in Requests, Orgs!Begin(r)
      PROVE  OrgsTyping' /\ RowsApart' /\ SlugsApart'
  <2>1. UNCHANGED <<orgs, members>>
    BY <1>6 DEF Orgs!Begin
  <2>2. QED BY <1>6, <2>1, BeginTypes DEF RowsApart, SlugsApart
<1>7. CASE UNCHANGED Orgs!organizationVars
  BY <1>7 DEF Orgs!organizationVars, OrgsTyping, RequestsPlaced, RowsApart, SlugsApart
<1>8. QED BY <1>1, <1>2, <1>3, <1>4, <1>5, <1>6, <1>7 DEF Orgs!Next

LEMMA InitTyping == OrgsSetup /\ Orgs!Init => OrgsTyping /\ RowsApart /\ SlugsApart
<1> SUFFICES ASSUME OrgsSetup, Orgs!Init PROVE OrgsTyping /\ RowsApart /\ SlugsApart
  OBVIOUS
<1>1. /\ DOMAIN accounts = 1 .. Len(Founders) /\ accounts \in Seq(AccountRows)
      /\ Len(accounts) <= MaxAccounts
  <2>1. \A i \in 1 .. Len(Founders) : Orgs!Account(Founders[i], i = 1) \in AccountRows
    BY DEF Orgs!Account, AccountRows, OrgsSetup
  <2>2. accounts = [i \in 1 .. Len(Founders) |-> Orgs!Account(Founders[i], i = 1)]
    BY DEF Orgs!Init, OrgsSetup
  <2>3. QED BY <2>1, <2>2 DEF OrgsSetup
<1>2. RequestsPlaced
  BY IdlePlaces DEF Orgs!Init, RequestsPlaced
<1> DEFINE n == CHOOSE n \in OrgNames : TRUE
           O == IF Founders = <<>> THEN {} ELSE 1 .. 2
<1>3. n \in OrgNames
  BY DEF OrgsSetup
<1> HIDE DEF n
<1>4. orgs = [o \in O |-> [slug |-> <<n, o>>, active |-> TRUE]]
  BY DEF Orgs!Init, n
<1>5. orgs \in Seq(OrgRows) /\ DOMAIN orgs = O /\ SlugsApart
  <2>1. \A o \in 1 .. 2 : [slug |-> <<n, o>>, active |-> TRUE] \in OrgRows
    BY <1>3 DEF OrgRows, Slugs
  <2>2. orgs \in Seq(OrgRows)
    <3>1. CASE Founders = <<>>
      BY <1>4, <3>1
    <3>2. CASE Founders # <<>>
      BY <1>4, <2>1, <3>2
    <3>3. QED BY <3>1, <3>2
  <2>3. QED BY <1>4, <2>2 DEF SlugsApart
<1>6. members \subseteq MemberRows(DOMAIN accounts, DOMAIN orgs) /\ RowsApart
  <2>1. CASE Founders = <<>>
    BY <2>1 DEF Orgs!Init, RowsApart
  <2>2. CASE Founders # <<>>
    <3>1. DOMAIN accounts = 1 .. 3 /\ DOMAIN orgs = 1 .. 2
      BY <1>1, <1>5, <2>2 DEF OrgsSetup
    <3>2. members = {Orgs!Row(2, 1, "admin"), Orgs!Row(3, 1, "admin"), Orgs!Row(2, 2, "admin"),
                     Orgs!Row(3, 2, "user")}
      BY <2>2 DEF Orgs!Init
    <3>3. \A u \in 1 .. 3, o \in 1 .. 2, p \in Orgs!Roles : Orgs!Row(u, o, p) \in MemberRows(1 .. 3, 1 .. 2)
      BY DEF Orgs!Row, MemberRows
    <3>4. \A u, o, p : Orgs!Row(u, o, p).user = u /\ Orgs!Row(u, o, p).org = o
      BY DEF Orgs!Row
    <3>5. QED BY <3>1, <3>2, <3>3, <3>4 DEF Orgs!Roles, RowsApart
  <2>3. QED BY <2>1, <2>2
<1>7. overlappedEmails = {} /\ ungoverned = {}
  BY DEF Orgs!Init
<1>8. QED BY <1>1, <1>2, <1>5, <1>6, <1>7 DEF OrgsTyping

\* What members are shown is what they may enter.
LEMMA SetsTell == RowsApart /\ SlugsApart /\ OrgsTyping => Orgs!MembersAreSets
<1> SUFFICES ASSUME RowsApart, SlugsApart, OrgsTyping,
                    NEW u \in DOMAIN accounts, accounts[u].active, ~accounts[u].super
             PROVE  LET entered == {o \in DOMAIN orgs : Orgs!MayEnter(u, o)}
                    IN  /\ Orgs!OrganizationsOf(u) = entered
                        /\ {o \in DOMAIN orgs : Orgs!Open(o) /\ u \in Orgs!MembersOf(o)} = entered
  BY DEF Orgs!MembersAreSets, RowsApart, SlugsApart
<1>1. \A o : Orgs!MayEnter(u, o) <=> Orgs!Open(o) /\ \E m \in members : m.user = u /\ m.org = o /\ m.active
  BY DEF Orgs!MayEnter, Orgs!Member
<1>2. \A o : o \in Orgs!OrganizationsOf(u)
                <=> Orgs!Open(o) /\ \E m \in members : m.user = u /\ m.org = o /\ m.active
  BY DEF Orgs!OrganizationsOf
<1>3. \A o : u \in Orgs!MembersOf(o) <=> \E m \in members : m.user = u /\ m.org = o /\ m.active
  BY DEF Orgs!MembersOf
<1>4. \A o : Orgs!Open(o) => o \in DOMAIN orgs
  BY DEF Orgs!Open
<1>5. QED BY <1>1, <1>2, <1>3, <1>4

LEMMA TypingTells == OrgsTyping => Orgs!TypeOK
<1> SUFFICES ASSUME OrgsTyping PROVE Orgs!TypeOK
  OBVIOUS
<1>1. /\ \A u \in DOMAIN accounts : accounts[u] \in AccountRows
      /\ \A o \in DOMAIN orgs : orgs[o] \in OrgRows
  BY DEF OrgsTyping
<1>2. \A row \in OrgRows : row.slug[1] \in OrgNames /\ row.active \in BOOLEAN
  BY DEF OrgRows, Slugs
<1>3. /\ members \subseteq [user : DOMAIN accounts, org : DOMAIN orgs, role : Orgs!Roles, active : BOOLEAN]
      /\ Len(accounts) <= MaxAccounts /\ overlappedEmails \subseteq Emails
      /\ ungoverned \subseteq DOMAIN orgs
  BY DEF OrgsTyping, MemberRows
<1>4. \A u \in DOMAIN accounts : accounts[u] \in [email : Emails, super : BOOLEAN, active : BOOLEAN]
  BY <1>1 DEF AccountRows
<1>5. \A o \in DOMAIN orgs : orgs[o].slug[1] \in OrgNames /\ orgs[o].active \in BOOLEAN
  BY <1>1, <1>2
<1>6. QED BY <1>3, <1>4, <1>5 DEF Orgs!TypeOK
-----------------------------------------------------------------------------
(* Accounts.                                                                *)

\* Creations of one e-mail, or of super admins, that overlap are on record.
OverlapsKnown ==
    \A q, r \in Requests :
        /\ q # r /\ Orgs!Creates(orgRequest[q]) /\ Orgs!Creates(orgRequest[r])
        /\ \/ orgRequest[q].email = orgRequest[r].email
           \/ orgRequest[q].kind = "bootstrap" /\ orgRequest[r].kind = "bootstrap"
        => orgRequest[q].email \in overlappedEmails /\ orgRequest[r].email \in overlappedEmails

\* What a creation has checked holds on, but for what overlapped with it.
EmailChecked(r) ==
    Orgs!Creates(orgRequest[r]) /\ orgRequest[r].pc \in {"again", "organization", "actor", "insert"} =>
        \A v \in DOMAIN accounts :
            accounts[v].email = orgRequest[r].email => orgRequest[r].email \in overlappedEmails
EmptyChecked(r) ==
    orgRequest[r].kind = "bootstrap" /\ orgRequest[r].pc \in {"email", "insert"} =>
        \A v \in DOMAIN accounts :
            accounts[v].super => {accounts[v].email, orgRequest[r].email} \subseteq overlappedEmails
\* The first account is asked for on its own.
BootstrapAlone(c) ==
    c.pc # "idle" /\ c.kind = "bootstrap" => c.org = 0 /\ c.pc \in {"count", "email", "insert"}
Distinctness ==
    /\ OverlapsKnown
    /\ \A r \in Requests : EmailChecked(r) /\ EmptyChecked(r) /\ BootstrapAlone(orgRequest[r])
    /\ Orgs!AccountsAreDistinct

\* A request that is not new: it ends, or goes on with what it has checked.
Checked == {"again", "organization", "actor", "insert"}
Continues(c, d) ==
    \/ d.pc = "idle"
    \/ /\ c.pc # "idle" /\ d.kind = c.kind /\ d.email = c.email /\ BootstrapAlone(d)
       /\ Orgs!Creates(c) /\ d.pc \in Checked =>
            c.pc \in Checked \/ \A v \in DOMAIN accounts : accounts[v].email # c.email
       /\ c.kind = "bootstrap" /\ d.pc \in {"email", "insert"} =>
            c.pc \in {"email", "insert"} \/ DOMAIN accounts = {}

LEMMA StepsContinue ==
    ASSUME RequestsOK, accounts \in Seq(AccountRows), NEW r \in Requests,
           BootstrapAlone(orgRequest[r]),
           \/ Orgs!CountUsers(r) \/ Orgs!CheckEmail(r) \/ Orgs!CheckOrganization(r) \/ Orgs!CheckActor(r)
           \/ Orgs!CheckAgain(r) \/ Orgs!FindUser(r) \/ Orgs!CheckTarget(r) \/ Orgs!TrySlug(r) \/ Orgs!RequestFails(r)
           \/ Orgs!AddMember(r) \/ Orgs!RemoveMember(r) \/ Orgs!ChangeRole(r) \/ Orgs!DeactivateUser(r)
           \/ Orgs!InsertUser(r) \/ Orgs!CreateOrganization(r) \/ Orgs!UpdateOrganization(r)
    PROVE  \E d : orgRequest' = [orgRequest EXCEPT ![r] = d] /\ Continues(orgRequest[r], d)
<1> DEFINE c == orgRequest[r]
<1>1. IsRequest(c) /\ SparesCaller(c)
  BY DEF RequestsOK, RequestOK
<1>2. CASE Orgs!Done(r)
  <2>1. Orgs!Idle.pc = "idle"
    BY DEF Orgs!Idle
  <2>2. QED BY <1>2, <2>1 DEF Orgs!Done, Continues
<1>3. ASSUME NEW step, Orgs!Goto(r, step), c.pc # "idle",
             step \in Checked =>
                \/ c.pc \in Checked \/ c.kind \notin {"bootstrap", "create_user"}
                \/ \A v \in DOMAIN accounts : accounts[v].email # c.email,
             c.kind = "bootstrap" =>
                \/ step \in {"email", "insert"} /\ c.pc \in {"email", "insert"}
                \/ step = "email" /\ DOMAIN accounts = {}
      PROVE  \E d : orgRequest' = [orgRequest EXCEPT ![r] = d] /\ Continues(orgRequest[r], d)
  <2> DEFINE d == [c EXCEPT !.pc = step]
  <2>1. /\ d.pc = step /\ d.kind = c.kind /\ d.email = c.email /\ d.org = c.org
    BY <1>1, NextStep, OtherFields
  <2>2. orgRequest' = [orgRequest EXCEPT ![r] = d]
    BY <1>3 DEF Orgs!Goto
  <2> HIDE DEF d
  <2>3. Continues(c, d)
    BY <1>3, <2>1 DEF Continues, BootstrapAlone, Orgs!Creates
  <2>4. QED BY <2>2, <2>3
<1>4. CASE Orgs!CountUsers(r)
  <2>1. Orgs!Done(r) \/ (Orgs!Goto(r, "email") /\ DOMAIN accounts = {} /\ c.pc = "count")
    BY <1>4 DEF Orgs!CountUsers, Orgs!At
  <2>2. QED BY <1>2, <1>3, <2>1 DEF Checked
<1>5. CASE Orgs!CheckEmail(r)
  <2>1. \/ Orgs!Done(r)
        \/ /\ \A v \in DOMAIN accounts : accounts[v].email # c.email
           /\ c.pc = "email"
           /\ \/ Orgs!Goto(r, "insert") /\ c.org = 0
              \/ c.org # 0 /\ \E step \in {"again", "organization"} : Orgs!Goto(r, step)
    BY <1>5 DEF Orgs!CheckEmail, Orgs!At
  <2>2. QED BY <1>2, <1>3, <2>1 DEF Checked, BootstrapAlone
<1>6. CASE Orgs!CheckAgain(r)
  <2>1. Orgs!Done(r) \/ (Orgs!Goto(r, "insert") /\ c.pc = "again")
    BY <1>6 DEF Orgs!CheckAgain, Orgs!At
  <2>2. QED BY <1>2, <1>3, <2>1 DEF Checked, BootstrapAlone
<1>7. CASE Orgs!CheckOrganization(r) \/ Orgs!CheckActor(r)
  <2>1. /\ c.pc \in {"organization", "actor"}
        /\ \/ Orgs!Done(r)
           \/ \E step \in {"again", "lookup", "target", "actor"} : Orgs!Goto(r, step)
    BY <1>7 DEF Orgs!CheckOrganization, Orgs!CheckActor, Orgs!Permitted, Orgs!At
  <2>2. QED BY <1>2, <1>3, <2>1 DEF Checked, BootstrapAlone
<1>8. CASE Orgs!CheckTarget(r)
  <2>1. Orgs!Done(r) \/ (Orgs!Goto(r, "write") /\ c.pc = "target")
    BY <1>8 DEF Orgs!CheckTarget, Orgs!At
  <2>2. QED BY <1>2, <1>3, <2>1 DEF Checked, BootstrapAlone
<1>9. CASE Orgs!FindUser(r) /\ ~Orgs!Done(r)
  <2>1. PICK u \in DOMAIN accounts :
            orgRequest' = [orgRequest EXCEPT ![r] = [c EXCEPT !.user = u, !.pc = "target"]]
    BY <1>9 DEF Orgs!FindUser
  <2> DEFINE d == [c EXCEPT !.user = u, !.pc = "target"]
  <2>2. d.pc = "target" /\ d.kind = c.kind /\ d.email = c.email
    BY <1>1 DEF IsRequest, Fields
  <2>3. c.kind = "add" /\ c.pc # "idle"
    BY <1>1, <1>9 DEF Orgs!FindUser, Orgs!At, SparesCaller
  <2> HIDE DEF d
  <2>4. Continues(c, d)
    BY <2>2, <2>3 DEF Continues, BootstrapAlone, Orgs!Creates, Checked
  <2>5. QED BY <2>1, <2>4 DEF d
<1>10. CASE Orgs!TrySlug(r)
  <2>1. c.pc = "slug" /\ c.kind \in {"create_org", "update_org"}
    BY <1>1, <1>10 DEF Orgs!TrySlug, Orgs!At, SparesCaller
  <2>2. CASE Orgs!Goto(r, "write")
    BY <1>3, <2>1, <2>2 DEF Checked
  <2>3. CASE ~Orgs!Goto(r, "write")
    <3> DEFINE d == [c EXCEPT !.slug[2] = @ + 1]
    <3>1. orgRequest' = [orgRequest EXCEPT ![r] = d]
      BY <1>10, <2>3 DEF Orgs!TrySlug
    <3>2. d.pc = c.pc /\ d.kind = c.kind /\ d.email = c.email
      BY <1>1 DEF IsRequest, Fields
    <3> HIDE DEF d
    <3>3. Continues(c, d)
      BY <2>1, <3>2 DEF Continues, BootstrapAlone, Orgs!Creates, Checked
    <3>4. QED BY <3>1, <3>3
  <2>4. QED BY <2>2, <2>3
<1>11. CASE Orgs!InsertUser(r) /\ ~Orgs!Done(r)
  <2> DEFINE d == [c EXCEPT !.user = Len(accounts) + 1, !.pc = "member"]
  <2>1. orgRequest' = [orgRequest EXCEPT ![r] = d] /\ c.org # 0 /\ c.pc = "insert"
    BY <1>11 DEF Orgs!InsertUser, Orgs!At
  <2>2. d.pc = "member" /\ d.kind = c.kind /\ d.email = c.email
    BY <1>1 DEF IsRequest, Fields
  <2> HIDE DEF d
  <2>3. Continues(c, d)
    BY <2>1, <2>2 DEF Continues, BootstrapAlone, Orgs!Creates, Checked
  <2>4. QED BY <2>1, <2>3
<1>12. QED
  BY <1>2, <1>4, <1>5, <1>6, <1>7, <1>8, <1>9, <1>10, <1>11 DEF Orgs!RequestFails,
     Orgs!AddMember,
     Orgs!RemoveMember, Orgs!ChangeRole, Orgs!DeactivateUser, Orgs!CreateOrganization, Orgs!UpdateOrganization

\* What is on record stays right when requests go on and no account is new.
LEMMA RecordKept ==
    ASSUME RequestsOK, Distinctness, NEW r \in Requests, NEW d,
           orgRequest' = [orgRequest EXCEPT ![r] = d], Continues(orgRequest[r], d),
           UNCHANGED overlappedEmails
    PROVE  /\ OverlapsKnown'
           /\ \A q \in Requests : BootstrapAlone(orgRequest'[q])
<1>1. \A q \in Requests : orgRequest'[q] = orgRequest[q] \/ (q = r /\ orgRequest'[q] = d)
  BY DEF RequestsOK
<1>2. \A q \in Requests : Orgs!Creates(orgRequest'[q]) =>
        /\ Orgs!Creates(orgRequest[q]) /\ orgRequest'[q].kind = orgRequest[q].kind
        /\ orgRequest'[q].email = orgRequest[q].email
  BY <1>1 DEF Continues, Orgs!Creates
<1>3. OverlapsKnown'
  BY <1>2 DEF Distinctness, OverlapsKnown
<1>4. BootstrapAlone(d)
  BY DEF Continues, BootstrapAlone
<1>5. QED BY <1>1, <1>3, <1>4 DEF Distinctness

LEMMA AccountsStay ==
    ASSUME RequestsOK, Distinctness, NEW r \in Requests, NEW d,
           orgRequest' = [orgRequest EXCEPT ![r] = d], Continues(orgRequest[r], d),
           UNCHANGED overlappedEmails, DOMAIN accounts' = DOMAIN accounts,
           \A v \in DOMAIN accounts : /\ accounts'[v].email = accounts[v].email
                                      /\ accounts'[v].super = accounts[v].super
    PROVE  Distinctness'
<1>1. \A q \in Requests : orgRequest'[q] = orgRequest[q] \/ (q = r /\ orgRequest'[q] = d)
  BY DEF RequestsOK
<1>2. ASSUME NEW q \in Requests PROVE EmailChecked(q)' /\ EmptyChecked(q)'
  <2>1. EmailChecked(q) /\ EmptyChecked(q)
    BY DEF Distinctness
  <2>2. CASE orgRequest'[q] = orgRequest[q]
    BY <2>1, <2>2 DEF EmailChecked, EmptyChecked, Orgs!Creates
  <2>3. CASE q = r /\ orgRequest'[q] = d
    <3>1. EmailChecked(q)'
      BY <2>1, <2>3 DEF EmailChecked, Continues, Orgs!Creates, Checked
    <3>2. EmptyChecked(q)'
      BY <2>1, <2>3 DEF EmptyChecked, Continues
    <3>3. QED BY <3>1, <3>2
  <2>4. QED BY <1>1, <2>2, <2>3
<1>3. Orgs!AccountsAreDistinct'
  BY DEF Distinctness, Orgs!AccountsAreDistinct
<1>4. QED BY <1>2, <1>3, RecordKept DEF Distinctness

LEMMA InsertDistinct ==
    ASSUME RequestsOK, accounts \in Seq(AccountRows), Distinctness,
           NEW r \in Requests, Orgs!InsertUser(r)
    PROVE  Distinctness'
<1> DEFINE c == orgRequest[r]
           new == Orgs!Account(c.email, c.kind = "bootstrap")
           n == Len(accounts) + 1
<1>1. PICK d : orgRequest' = [orgRequest EXCEPT ![r] = d] /\ Continues(c, d)
  BY StepsContinue DEF Distinctness
<1>2. d.pc \in {"idle", "member"}
  <2>1. orgRequest'[r] = d
    BY <1>1 DEF RequestsOK
  <2>2. CASE c.org = 0
    BY <2>1, <2>2 DEF Orgs!InsertUser, Orgs!Done, RequestsOK, Orgs!Idle
  <2>3. CASE c.org # 0
    <3>1. orgRequest'[r] = [c EXCEPT !.user = Len(accounts) + 1, !.pc = "member"]
      BY <2>3 DEF Orgs!InsertUser, RequestsOK
    <3>2. IsRequest(c)
      BY DEF RequestsOK, RequestOK
    <3>3. QED BY <2>1, <3>1, <3>2 DEF IsRequest, Fields
  <2>4. QED BY <2>2, <2>3
<1>3. /\ c.pc = "insert" /\ c.kind \in {"create_user", "bootstrap"} /\ Orgs!Creates(c)
      /\ UNCHANGED overlappedEmails
  BY DEF Orgs!InsertUser, Orgs!At, RequestsOK, RequestOK, SparesCaller, Orgs!Creates
<1>4. new.email = c.email /\ (new.super => c.kind = "bootstrap")
  BY DEF Orgs!Account
<1>5. /\ DOMAIN accounts' = DOMAIN accounts \cup {n} /\ accounts'[n] = new
      /\ \A v \in DOMAIN accounts : accounts'[v] = accounts[v]
  <2>1. accounts' = Append(accounts, new)
    BY DEF Orgs!InsertUser
  <2> HIDE DEF new
  <2>2. QED BY <2>1
<1> HIDE DEF new, n
<1>6. \A q \in Requests : q # r => orgRequest'[q] = orgRequest[q]
  BY <1>1 DEF RequestsOK
<1>7. orgRequest'[r] = d
  BY <1>1 DEF RequestsOK
<1>8. ASSUME NEW q \in Requests PROVE EmailChecked(q)'
  <2>1. CASE q = r
    BY <1>2, <1>7, <2>1 DEF EmailChecked
  <2>2. CASE q # r
    <3>1. orgRequest'[q] = orgRequest[q]
      BY <1>6, <2>2
    <3>2. EmailChecked(q) /\ OverlapsKnown
      BY DEF Distinctness
    <3>3. Orgs!Creates(orgRequest[q]) /\ orgRequest[q].email = c.email => c.email \in overlappedEmails
      BY <1>3, <2>2, <3>2 DEF OverlapsKnown
    <3>4. QED BY <1>3, <1>4, <1>5, <3>1, <3>2, <3>3 DEF EmailChecked
  <2>3. QED BY <2>1, <2>2
<1>9. ASSUME NEW q \in Requests PROVE EmptyChecked(q)'
  <2>1. CASE q = r
    BY <1>2, <1>7, <2>1 DEF EmptyChecked
  <2>2. CASE q # r
    <3>1. orgRequest'[q] = orgRequest[q]
      BY <1>6, <2>2
    <3>2. EmptyChecked(q) /\ OverlapsKnown
      BY DEF Distinctness
    <3>3. orgRequest[q].kind = "bootstrap" /\ orgRequest[q].pc \in {"email", "insert"}
            /\ c.kind = "bootstrap" => {c.email, orgRequest[q].email} \subseteq overlappedEmails
      BY <1>3, <2>2, <3>2 DEF OverlapsKnown, Orgs!Creates
    <3>4. QED BY <1>3, <1>4, <1>5, <3>1, <3>2, <3>3 DEF EmptyChecked
  <2>3. QED BY <2>1, <2>2
<1>10. Orgs!AccountsAreDistinct'
  <2>1. ASSUME NEW v \in DOMAIN accounts
        PROVE  \/ {accounts[v].email, c.email} \subseteq overlappedEmails
               \/ accounts[v].email # c.email /\ ~(accounts[v].super /\ c.kind = "bootstrap")
    <3>1. EmailChecked(r) /\ EmptyChecked(r)
      BY DEF Distinctness
    <3>2. QED BY <1>3, <2>1, <3>1 DEF EmailChecked, EmptyChecked
  <2>2. Orgs!AccountsAreDistinct
    BY DEF Distinctness
  <2>3. QED BY <1>3, <1>4, <1>5, <2>1, <2>2 DEF Orgs!AccountsAreDistinct
<1>11. OverlapsKnown' /\ \A q \in Requests : BootstrapAlone(orgRequest'[q])
  BY <1>1, <1>3, RecordKept
<1>12. QED BY <1>8, <1>9, <1>10, <1>11 DEF Distinctness

\* Calls that create accounts start with their first check.
LEMMA CallsStart ==
    \A call \in Orgs!Calls :
        /\ BootstrapAlone(call)
        /\ Orgs!Creates(call) => call.pc \in {"count", "email"}
        /\ call.kind = "bootstrap" => call.pc = "count"
<1> SUFFICES ASSUME NEW call \in Orgs!Calls
             PROVE  /\ BootstrapAlone(call)
                    /\ Orgs!Creates(call) => call.pc \in {"count", "email"}
                    /\ call.kind = "bootstrap" => call.pc = "count"
  OBVIOUS
<1>1. CASE \E e : call = [Orgs!Idle EXCEPT !.pc = "count", !.email = e]
  BY <1>1 DEF Orgs!Idle, BootstrapAlone, Orgs!Creates
<1>2. ASSUME NEW u, call \in Orgs!CallsOf(u)
      PROVE  /\ BootstrapAlone(call)
             /\ Orgs!Creates(call) => call.pc \in {"count", "email"}
             /\ call.kind = "bootstrap" => call.pc = "count"
  <2> DEFINE c == Orgs!Call(u)
  <2>1. IsRequest(c)
    BY DEF Orgs!Call, Orgs!Idle, IsRequest, Fields, Orgs!Roles
  <2> HIDE DEF c
  <2>2. \A o, e, p : /\ Orgs!AddCall(u, o, e, p).kind = "add"
                     /\ Orgs!CreateUserCall(u, o, e, p).kind = "create_user"
                     /\ Orgs!CreateUserCall(u, o, e, p).pc = "email"
    BY <2>1 DEF Orgs!AddCall, Orgs!CreateUserCall, IsRequest, Fields, c
  <2>3. \A o, v, p : /\ Orgs!RemoveCall(u, o, v).kind = "remove" /\ Orgs!RoleCall(u, o, v, p).kind = "role"
                     /\ Orgs!DeactivateCall(u, o, v).kind = "deactivate"
    BY <2>1 DEF Orgs!RemoveCall, Orgs!RoleCall, Orgs!DeactivateCall, IsRequest, Fields, c
  <2>4. \A o, n, a : /\ Orgs!CreateOrgCall(u, n).kind = "create_org"
                     /\ Orgs!RenameOrgCall(u, o, n).kind = "update_org"
                     /\ Orgs!SwitchOrgCall(u, o, a).kind = "update_org"
    BY <2>1 DEF Orgs!CreateOrgCall, Orgs!RenameOrgCall, Orgs!SwitchOrgCall, IsRequest, Fields, c
  <2>5. \/ \E o, e, p : call \in {Orgs!AddCall(u, o, e, p), Orgs!CreateUserCall(u, o, e, p)}
        \/ \E o, v : call \in {Orgs!RemoveCall(u, o, v), Orgs!DeactivateCall(u, o, v)}
        \/ \E o, v, p : call = Orgs!RoleCall(u, o, v, p)
        \/ \E o, n, a : call \in {Orgs!CreateOrgCall(u, n), Orgs!RenameOrgCall(u, o, n),
                                  Orgs!SwitchOrgCall(u, o, a)}
    BY <1>2 DEF Orgs!CallsOf
  <2>6. \/ call.kind \notin {"bootstrap", "create_user"}
        \/ call.kind = "create_user" /\ call.pc = "email"
    BY <2>2, <2>3, <2>4, <2>5
  <2>7. QED BY <2>6 DEF BootstrapAlone, Orgs!Creates
<1>3. QED BY <1>1, <1>2 DEF Orgs!Calls

LEMMA BeginDistinct ==
    ASSUME RequestsOK, Distinctness, NEW r \in Requests, Orgs!Begin(r)
    PROVE  Distinctness'
<1> DEFINE Clash(call) ==
        \E q \in Requests : /\ Orgs!Creates(orgRequest[q]) /\ Orgs!Creates(call)
                            /\ \/ orgRequest[q].email = call.email
                               \/ orgRequest[q].kind = "bootstrap" /\ call.kind = "bootstrap"
<1>1. PICK call \in Orgs!Calls :
        /\ orgRequest' = [orgRequest EXCEPT ![r] = call]
        /\ overlappedEmails \subseteq overlappedEmails'
        /\ Clash(call) => /\ call.email \in overlappedEmails'
                          /\ \A q \in Requests : Orgs!Creates(orgRequest[q]) => orgRequest[q].email \in overlappedEmails'
  BY DEF Orgs!Begin
<1> HIDE DEF Clash
<1>2. /\ UNCHANGED accounts
      /\ \A q \in Requests : q # r => orgRequest'[q] = orgRequest[q]
      /\ orgRequest'[r] = call
  BY <1>1 DEF Orgs!Begin, RequestsOK
<1>3. /\ BootstrapAlone(call) /\ Orgs!Creates(call) => call.pc \in {"count", "email"}
      /\ call.kind = "bootstrap" => call.pc = "count"
  BY CallsStart
<1>4. ASSUME NEW q \in Requests
      PROVE  /\ EmailChecked(q)' /\ EmptyChecked(q)' /\ BootstrapAlone(orgRequest'[q])
  <2>1. EmailChecked(q) /\ EmptyChecked(q) /\ BootstrapAlone(orgRequest[q])
    BY DEF Distinctness
  <2>2. CASE q # r
    BY <1>1, <1>2, <2>1, <2>2 DEF EmailChecked, EmptyChecked
  <2>3. CASE q = r
    BY <1>2, <1>3, <2>3, CallsStart DEF EmailChecked, EmptyChecked, Orgs!Creates
  <2>4. QED BY <2>2, <2>3
<1>5. ASSUME NEW p \in Requests, NEW q \in Requests, p # q,
             Orgs!Creates(orgRequest'[p]), Orgs!Creates(orgRequest'[q]),
             \/ orgRequest'[p].email = orgRequest'[q].email
             \/ orgRequest'[p].kind = "bootstrap" /\ orgRequest'[q].kind = "bootstrap"
      PROVE  orgRequest'[p].email \in overlappedEmails' /\ orgRequest'[q].email \in overlappedEmails'
  <2>1. CASE p # r /\ q # r
    <3>1. OverlapsKnown
      BY DEF Distinctness
    <3>2. QED BY <1>1, <1>2, <1>5, <2>1, <3>1 DEF OverlapsKnown
  <2>2. CASE p = r
    <3>1. Clash(call) /\ Orgs!Creates(orgRequest[q]) /\ orgRequest'[q] = orgRequest[q]
      BY <1>2, <1>5, <2>2 DEF Clash
    <3>2. QED BY <1>1, <1>2, <2>2, <3>1
  <2>3. CASE q = r
    <3>1. Clash(call) /\ Orgs!Creates(orgRequest[p]) /\ orgRequest'[p] = orgRequest[p]
      BY <1>2, <1>5, <2>3 DEF Clash
    <3>2. QED BY <1>1, <1>2, <2>3, <3>1
  <2>4. QED BY <2>1, <2>2, <2>3
<1>6. OverlapsKnown'
  BY <1>5 DEF OverlapsKnown
<1>7. Orgs!AccountsAreDistinct'
  BY <1>1, <1>2 DEF Distinctness, Orgs!AccountsAreDistinct
<1>8. QED BY <1>4, <1>6, <1>7 DEF Distinctness

LEMMA DistinctnessStep ==
    ASSUME RequestsOK, accounts \in Seq(AccountRows), Distinctness, [Orgs!Next]_(Orgs!organizationVars)
    PROVE  Distinctness'
<1>1. ASSUME NEW r \in Requests,
             \/ Orgs!CountUsers(r) \/ Orgs!CheckEmail(r) \/ Orgs!CheckOrganization(r) \/ Orgs!CheckActor(r)
             \/ Orgs!CheckAgain(r) \/ Orgs!FindUser(r) \/ Orgs!CheckTarget(r) \/ Orgs!TrySlug(r) \/ Orgs!RequestFails(r)
             \/ Orgs!AddMember(r) \/ Orgs!RemoveMember(r) \/ Orgs!ChangeRole(r)
             \/ Orgs!CreateOrganization(r) \/ Orgs!UpdateOrganization(r) \/ Orgs!DeactivateUser(r)
      PROVE  Distinctness'
  <2>1. PICK d : orgRequest' = [orgRequest EXCEPT ![r] = d] /\ Continues(orgRequest[r], d)
    BY <1>1, StepsContinue DEF Distinctness
  <2>2. UNCHANGED overlappedEmails
    BY <1>1 DEF Orgs!CountUsers, Orgs!CheckEmail, Orgs!CheckOrganization, Orgs!CheckActor,
       Orgs!CheckAgain, Orgs!FindUser,
       Orgs!CheckTarget, Orgs!TrySlug, Orgs!RequestFails, Orgs!AddMember, Orgs!RemoveMember, Orgs!ChangeRole,
       Orgs!CreateOrganization, Orgs!UpdateOrganization, Orgs!DeactivateUser
  <2>3. /\ DOMAIN accounts' = DOMAIN accounts
        /\ \A v \in DOMAIN accounts : /\ accounts'[v].email = accounts[v].email
                                      /\ accounts'[v].super = accounts[v].super
    <3>1. CASE UNCHANGED accounts
      BY <3>1
    <3>2. CASE Orgs!DeactivateUser(r)
      <4> DEFINE u == orgRequest[r].user
                 row == [accounts[u] EXCEPT !.active = FALSE]
      <4>1. accounts' = [accounts EXCEPT ![u] = row]
        BY <3>2 DEF Orgs!DeactivateUser
      <4>2. \A v \in DOMAIN accounts : accounts[v] \in AccountRows
        OBVIOUS
      <4>3. u \in DOMAIN accounts => row.email = accounts[u].email /\ row.super = accounts[u].super
        BY <4>2 DEF AccountRows
      <4> HIDE DEF row
      <4>4. QED BY <4>1, <4>3
    <3>3. QED
      BY <1>1, <3>1, <3>2 DEF Orgs!CountUsers, Orgs!CheckEmail, Orgs!CheckOrganization,
         Orgs!CheckActor, Orgs!CheckAgain,
         Orgs!FindUser, Orgs!CheckTarget, Orgs!TrySlug, Orgs!RequestFails, Orgs!AddMember, Orgs!RemoveMember, Orgs!ChangeRole,
         Orgs!CreateOrganization, Orgs!UpdateOrganization
  <2>4. QED BY <2>1, <2>2, <2>3, AccountsStay
<1>2. ASSUME NEW r \in Requests, Orgs!InsertUser(r) PROVE Distinctness'
  BY <1>2, InsertDistinct
<1>3. ASSUME NEW r \in Requests, Orgs!Begin(r) PROVE Distinctness'
  BY <1>3, BeginDistinct
<1>4. CASE UNCHANGED Orgs!organizationVars
  BY <1>4 DEF Orgs!organizationVars, Distinctness, OverlapsKnown, EmailChecked, EmptyChecked,
     Orgs!AccountsAreDistinct, Orgs!Creates
<1>5. QED BY <1>1, <1>2, <1>3, <1>4 DEF Orgs!Next

LEMMA InitDistinct == OrgsSetup /\ Orgs!Init => Distinctness
<1> SUFFICES ASSUME OrgsSetup, Orgs!Init PROVE Distinctness
  OBVIOUS
<1>1. \A r \in Requests : orgRequest[r].pc = "idle"
  BY DEF Orgs!Init, Orgs!Idle
<1>2. \A u, v \in DOMAIN accounts : u # v =>
        accounts[u].email # accounts[v].email /\ ~(accounts[u].super /\ accounts[v].super)
  <2>1. \A e, b : Orgs!Account(e, b).email = e /\ Orgs!Account(e, b).super = b
    BY DEF Orgs!Account
  <2>2. accounts = [i \in DOMAIN Founders |-> Orgs!Account(Founders[i], i = 1)]
    BY DEF Orgs!Init
  <2>3. \A i \in DOMAIN Founders : /\ accounts[i].email = Founders[i]
                                   /\ accounts[i].super => i = 1
    BY <2>1, <2>2
  <2>4. DOMAIN accounts = DOMAIN Founders
    BY <2>2
  <2>5. QED BY <2>3, <2>4 DEF OrgsSetup
<1>3. QED
  BY <1>1, <1>2 DEF Distinctness, OverlapsKnown, EmailChecked, EmptyChecked, BootstrapAlone,
     Orgs!AccountsAreDistinct, Orgs!Creates

-----------------------------------------------------------------------------
\* The invariant of the whole: what TypeOK, AdminRemains, MembersAreSets and
\* AccountsAreDistinct need of each other.
OrgsSound == OrgsIInv /\ OrgsTyping /\ RowsApart /\ SlugsApart /\ Distinctness

LEMMA OrgsSoundInit == OrgsSetup /\ Orgs!Init => OrgsSound
  BY OrgsInitInvariant, InitTyping, InitDistinct DEF OrgsSound, OrgsSetup

LEMMA OrgsSoundStep == OrgsSetup /\ OrgsSound /\ [Orgs!Next]_(Orgs!organizationVars) => OrgsSound'
  BY StepInvariant, TypingStep, DistinctnessStep DEF OrgsSound, OrgsIInv, OrgsTyping

LEMMA OrgsSoundTells == OrgsSound => Orgs!TypeOK /\ Orgs!AdminRemains /\ Orgs!MembersAreSets /\ Orgs!AccountsAreDistinct
  BY SetsTell, TypingTells DEF OrgsSound, OrgsIInv, Distinctness

\* An organization that has an admin who can log in keeps one, whatever
\* requests overlap, unless one of the three reasons of AdminRemains applies.
THEOREM AdminsRemain ==
    ASSUME Founders \in Seq(Emails), Len(Founders) \in {0, 3}
    PROVE  Orgs!Spec => []Orgs!AdminRemains
  <1>1. Orgs!Init => OrgsIInv
    BY OrgsInitInvariant
  <1>2. OrgsIInv /\ [Orgs!Next]_(Orgs!organizationVars) => OrgsIInv'
    BY StepInvariant
  <1>3. OrgsIInv => Orgs!AdminRemains
    BY DEF OrgsIInv
  <1>4. QED BY <1>1, <1>2, <1>3, PTL DEF Orgs!Spec

\* However requests interleave, an organization has one row per member and a
\* slug of its own, what members are shown is what they may enter, and two
\* accounts share an e-mail or are both super admins only when the requests
\* that created them overlapped.
THEOREM AccountsAndMembers ==
    ASSUME OrgsSetup
    PROVE  Orgs!Spec => [](Orgs!TypeOK /\ Orgs!MembersAreSets /\ Orgs!AccountsAreDistinct)
  <1>1. Orgs!Init => OrgsSound
    BY OrgsSoundInit
  <1>2. OrgsSound /\ [Orgs!Next]_(Orgs!organizationVars) => OrgsSound'
    BY OrgsSoundStep
  <1>3. OrgsSound => Orgs!TypeOK /\ Orgs!MembersAreSets /\ Orgs!AccountsAreDistinct
    BY OrgsSoundTells
  <1>4. QED BY <1>1, <1>2, <1>3, PTL DEF Orgs!Spec

-----------------------------------------------------------------------------
(* Cloned voices and generated speech.                                      *)
Voicing == INSTANCE Voices WITH
    MaxRequests <- MaxVoiceRequests, MaxFaults <- MaxVoiceFaults, rows <- voices,
    assets <- files, request <- voiceRequest, received <- voicesAsked

\* An id of a cloned voice is not the mark of no voice; the bound is a number.
VoicesSetup == MaxChunks \in Nat /\ None \notin VoiceIds

Kinds == {"clone", "delete", "generate", "stream"}
Flow(kind) ==
    CASE kind = "clone" -> {"upload", "provide", "cleanup", "insert"}
      [] kind = "delete" -> {"soft", "unclone", "remove"}
      [] kind = "generate" -> {"access", "speak", "upload", "insert"}
      [] OTHER -> {"start", "access", "speak", "upload", "insert", "complete"}
AllVoices == VoiceIds \cup SystemVoices
Rows == [kind : {"voice", "audio"}, voice : AllVoices, owner : Users, asset : Nat,
         chunks : 0 .. MaxChunks, live : BOOLEAN, raced : BOOLEAN]
Calls == [pc : Voicing!Steps, kind : Kinds, number : Nat, user : Users \cup {None},
          voice : AllVoices \cup {None}, row : Nat, chunks : 0 .. MaxChunks, raced : BOOLEAN]
Events == [event : {"started", "chunk", "completed", "error"}, arg : Nat]

VoicesTyping ==
    /\ voices \in Seq(Rows)
    /\ \A i \in DOMAIN voices : voices[i].asset \in 1 .. voicesAsked
                              /\ (voices[i].kind = "voice" => voices[i].voice \in VoiceIds)
    /\ voicesAsked \in Nat
    /\ files \subseteq 1 .. voicesAsked /\ leaked \subseteq 1 .. voicesAsked
    /\ cloned \in [VoiceIds -> 0 .. voicesAsked]
    /\ voiceRequest \in [Requests -> Calls]
    /\ told \in Seq(Seq(Events)) /\ Len(told) = voicesAsked

\* A request in progress: its number, its step, and what it names.
Works(c, table, last) ==
    /\ c.number \in 1 .. last /\ c.pc \in Flow(c.kind) /\ c.user \in Users
    /\ c.kind = "clone" => c.voice \in VoiceIds
    /\ c.kind \in {"generate", "stream"} => c.voice \in AllVoices
    /\ c.kind = "delete" =>
        /\ c.row \in DOMAIN table
        /\ c.voice = IF table[c.row].kind = "voice" THEN table[c.row].voice ELSE None
        /\ c.pc = "unclone" => table[c.row].kind = "voice"
        /\ c.pc # "soft" => ~table[c.row].live
    /\ c.kind = "stream" /\ c.pc \in {"upload", "insert", "complete"} => c.chunks > 0
    /\ c.pc = "complete" => /\ c.row \in DOMAIN table /\ table[c.row].asset = c.number
                            /\ table[c.row].chunks = c.chunks
Requesting ==
    /\ \A r \in Requests : voiceRequest[r] = Voicing!Idle \/ Works(voiceRequest[r], voices, voicesAsked)
    /\ \A q, r \in Requests : voiceRequest[q].number = voiceRequest[r].number => q = r \/ voiceRequest[r] = Voicing!Idle

\* Files: each has a number of its own, a row or a request that knows it.
Uploaded == {"provide", "cleanup", "insert"}
OneFilePerRow == \A i, j \in DOMAIN voices : voices[i].asset = voices[j].asset => i = j
FilesOfRequests ==
    \A r \in Requests :
        /\ voiceRequest[r].pc # "complete" => \A i \in DOMAIN voices : voices[i].asset # voiceRequest[r].number
        /\ voiceRequest[r].pc \in {"provide", "insert"} => voiceRequest[r].number \in files
        /\ voiceRequest[r].pc \notin Uploaded \cup {"complete"} => voiceRequest[r].number \notin files
FilesOfRows ==
    \A i \in DOMAIN voices :
        /\ voices[i].live => voices[i].asset \in files
        /\ \/ voices[i].live \/ voices[i].asset \notin files \/ voices[i].asset \in leaked
           \/ \E r \in Requests : voiceRequest[r].pc \in {"unclone", "remove"} /\ voiceRequest[r].row = i
FilesKnown ==
    \A a \in files \ leaked :
        \/ \E i \in DOMAIN voices : voices[i].asset = a
        \/ \E r \in Requests : voiceRequest[r].pc \in Uploaded /\ voiceRequest[r].number = a
Files == OneFilePerRow /\ FilesOfRequests /\ FilesOfRows /\ FilesKnown

\* Clones: who is not alone with its id is on record.
Clones(r, v) == voiceRequest[r].kind = "clone" /\ voiceRequest[r].voice = v
LiveVoice(i, v) == voices[i].kind = "voice" /\ voices[i].live /\ voices[i].voice = v
Uncloning(r, v) == voiceRequest[r].pc = "unclone" /\ voiceRequest[r].voice = v
Raced(v) ==
    /\ \A q, r \in Requests : Clones(q, v) /\ Clones(r, v) => q = r \/ voiceRequest[r].raced
    /\ \A r \in Requests, i \in DOMAIN voices :
        Clones(r, v) /\ LiveVoice(i, v) => voiceRequest[r].raced /\ voices[i].raced
    /\ \A q, r \in Requests : Clones(r, v) /\ Uncloning(q, v) => voiceRequest[r].raced
    /\ \A i, j \in DOMAIN voices : LiveVoice(i, v) /\ LiveVoice(j, v) => i = j \/ voices[j].raced
    /\ \A q \in Requests, i \in DOMAIN voices :
        Uncloning(q, v) /\ LiveVoice(i, v) => voices[i].raced
    /\ \A r \in Requests :
        Clones(r, v) /\ voiceRequest[r].pc = "insert" => voiceRequest[r].raced \/ cloned[v] = voiceRequest[r].number
    /\ \A i \in DOMAIN voices : LiveVoice(i, v) => voices[i].raced \/ cloned[v] = voices[i].asset
ClonesAlone == \A v \in VoiceIds : Raced(v)

\* Streams: started, chunk by chunk, one outcome.
Started == [event |-> "started", arg |-> 0]
Chunk(k) == [event |-> "chunk", arg |-> k]
InOrder(s, n) == \A k \in 1 .. n : s[k] = IF k = 1 THEN Started ELSE Chunk(k - 1)
Told(r) ==
    LET c == voiceRequest[r]
        s == told[c.number]
    IN  c.pc # "idle" =>
        IF c.kind = "stream" /\ c.pc # "start" THEN Len(s) = c.chunks + 1 /\ InOrder(s, Len(s))
        ELSE s = <<>> /\ c.chunks = 0
Outcome(n) ==
    LET s == told[n]
        last == s[Len(s)]
    IN  s # <<>> =>
        /\ InOrder(s, Len(s) - 1)
        /\ last.event = "completed" =>
            /\ last.arg \in DOMAIN voices /\ voices[last.arg].asset = n
            /\ voices[last.arg].chunks = Len(s) - 2 /\ Len(s) > 2
        /\ \/ last.event \in {"completed", "error"} \/ n \in cut
           \/ \E r \in Requests : voiceRequest[r].number = n
Streams ==
    /\ \A r \in Requests : Told(r)
    /\ \A n \in 1 .. voicesAsked : Outcome(n)

VoicesSound == VoicesTyping /\ Requesting /\ Files /\ ClonesAlone /\ Streams

-----------------------------------------------------------------------------
(* How requests move.                                                       *)

Same(c, d) == /\ d.kind = c.kind /\ d.number = c.number /\ d.user = c.user /\ d.voice = c.voice
              /\ d.row = c.row /\ d.chunks = c.chunks /\ d.raced = c.raced
Untouched(r) == /\ voiceRequest' \in [Requests -> Calls]
                /\ \A q \in Requests : q # r => voiceRequest'[q] = voiceRequest[q]
\* The other requests stay, but for the mark of a race.
Alike(c, d) == /\ c = Voicing!Idle => d = Voicing!Idle
               /\ d.pc = c.pc /\ d.kind = c.kind /\ d.number = c.number /\ d.user = c.user
               /\ d.voice = c.voice /\ d.row = c.row /\ d.chunks = c.chunks
VoicesOthers(r) == /\ voiceRequest' \in [Requests -> Calls]
             /\ \A q \in Requests : q # r => Alike(voiceRequest[q], voiceRequest'[q])

LEMMA UntouchedOthers == \A r : Untouched(r) => VoicesOthers(r)
BY DEF Untouched, VoicesOthers, Alike

LEMMA IdleFacts ==
    /\ Voicing!Idle.pc = "idle" /\ Voicing!Idle.kind = "clone" /\ Voicing!Idle.number = 0 /\ Voicing!Idle.voice = None
    /\ Voicing!Idle.row = 0 /\ Voicing!Idle.chunks = 0
    /\ VoicesSetup => Voicing!Idle \in Calls
BY DEF Voicing!Idle, Calls, Voicing!Steps, Kinds, VoicesSetup

LEMMA GotoFacts ==
    ASSUME VoicesTyping, NEW r \in Requests, NEW step \in Voicing!Steps, Voicing!Goto(r, step)
    PROVE  Untouched(r) /\ voiceRequest'[r].pc = step /\ Same(voiceRequest[r], voiceRequest'[r])
<1> DEFINE d == [voiceRequest[r] EXCEPT !.pc = step]
<1>1. voiceRequest[r] \in Calls
  BY DEF VoicesTyping
<1>2. d \in Calls /\ d.pc = step /\ Same(voiceRequest[r], d)
  BY <1>1 DEF Calls, Same
<1>3. voiceRequest' = [voiceRequest EXCEPT ![r] = d]
  BY DEF Voicing!Goto
<1> HIDE DEF d
<1>4. QED BY <1>2, <1>3 DEF VoicesTyping, Untouched

LEMMA DoneFacts ==
    ASSUME VoicesSetup, VoicesTyping, NEW r \in Requests, Voicing!Done(r)
    PROVE  Untouched(r) /\ voiceRequest'[r] = Voicing!Idle
BY IdleFacts DEF VoicesTyping, Untouched, Voicing!Done

\* A request at a step is no idle one.
LEMMA IsWorking ==
    ASSUME Requesting, NEW r \in Requests, voiceRequest[r].pc # "idle"
    PROVE  Works(voiceRequest[r], voices, voicesAsked)
BY IdleFacts DEF Requesting

\* Rows are only added and taken off the lists.
RowsKept ==
    /\ DOMAIN voices \subseteq DOMAIN voices'
    /\ \A i \in DOMAIN voices :
        /\ voices'[i].kind = voices[i].kind /\ voices'[i].voice = voices[i].voice
        /\ voices'[i].asset = voices[i].asset /\ voices'[i].chunks = voices[i].chunks
        /\ voices'[i].raced = voices[i].raced
        /\ voices'[i].live => voices[i].live

LEMMA WorkingKept ==
    ASSUME NEW c, Works(c, voices, voicesAsked), RowsKept, voicesAsked \in Nat, voicesAsked' \in Nat, voicesAsked' >= voicesAsked
    PROVE  Works(c, voices', voicesAsked')
BY DEF Works, RowsKept

LEMMA RequestingStep ==
    ASSUME VoicesTyping, Requesting, NEW r \in Requests, VoicesOthers(r), RowsKept,
           voicesAsked' \in Nat, voicesAsked' >= voicesAsked,
           \/ voiceRequest'[r] = Voicing!Idle
           \/ /\ Works(voiceRequest'[r], voices', voicesAsked')
              /\ \/ voiceRequest[r].pc # "idle" /\ voiceRequest'[r].number = voiceRequest[r].number
                 \/ voiceRequest'[r].number = voicesAsked + 1 /\ voicesAsked' = voicesAsked + 1
    PROVE  Requesting'
<1>1. ASSUME NEW q \in Requests PROVE voiceRequest'[q] = Voicing!Idle \/ Works(voiceRequest'[q], voices', voicesAsked')
  <2>1. CASE q = r
    BY <2>1
  <2>2. CASE q # r
    <3>1. Alike(voiceRequest[q], voiceRequest'[q])
      BY <2>2 DEF VoicesOthers
    <3>2. voiceRequest[q] = Voicing!Idle \/ Works(voiceRequest[q], voices', voicesAsked')
      BY WorkingKept DEF Requesting, VoicesTyping
    <3>3. QED BY <3>1, <3>2 DEF Alike, Works
  <2>3. QED BY <2>1, <2>2
<1>2. \A q \in Requests : voiceRequest[q].number \in 0 .. voicesAsked
  BY IdleFacts DEF Requesting, Works, VoicesTyping
<1>3. \A q \in Requests : voiceRequest[q] # Voicing!Idle => voiceRequest[q].number # 0
  BY DEF Requesting, Works, VoicesTyping
<1>4. \A q, p \in Requests : voiceRequest'[q].number = voiceRequest'[p].number => q = p \/ voiceRequest'[p] = Voicing!Idle
  <2> SUFFICES ASSUME NEW q \in Requests, NEW p \in Requests,
                      voiceRequest'[q].number = voiceRequest'[p].number, q # p, voiceRequest'[p] # Voicing!Idle
               PROVE  FALSE
    OBVIOUS
  <2>1. CASE q # r /\ p # r
    <3>1. Alike(voiceRequest[q], voiceRequest'[q]) /\ Alike(voiceRequest[p], voiceRequest'[p])
      BY <2>1 DEF VoicesOthers
    <3>2. QED BY <2>1, <3>1 DEF Alike, Requesting
  <2>2. voiceRequest'[r] # Voicing!Idle => voiceRequest'[r].number # 0
    BY DEF Works
  <2>3. CASE q = r /\ voiceRequest'[r] = Voicing!Idle
    <3>1. Alike(voiceRequest[p], voiceRequest'[p])
      BY <2>3 DEF VoicesOthers
    <3>2. QED BY <1>3, <2>3, <3>1, IdleFacts DEF Alike
  <2>4. CASE q = r /\ voiceRequest'[r] # Voicing!Idle
    <3>1. Alike(voiceRequest[p], voiceRequest'[p])
      BY <2>4 DEF VoicesOthers
    <3>2. QED BY <1>2, <2>2, <2>4, <3>1, IdleFacts DEF Alike, Requesting, VoicesTyping
  <2>5. CASE p = r
    <3>0. Alike(voiceRequest[q], voiceRequest'[q])
      BY <2>5 DEF VoicesOthers
    <3>1. CASE voiceRequest'[r].number = voicesAsked + 1
      BY <1>2, <2>5, <3>0, <3>1 DEF Alike, VoicesTyping
    <3>2. CASE voiceRequest[r].pc # "idle" /\ voiceRequest'[r].number = voiceRequest[r].number
      BY <2>5, <3>0, <3>2, IdleFacts DEF Alike, Requesting
    <3>3. QED BY <2>5, <3>1, <3>2
  <2>6. QED BY <2>1, <2>3, <2>4, <2>5
<1>5. QED BY <1>1, <1>4 DEF Requesting

\* The same request at another step.
LEMMA NextStepWorks ==
    ASSUME NEW c, NEW d, Works(c, voices, voicesAsked), Same(c, d), d.pc \in Flow(c.kind),
           d.pc = "unclone" => voices[c.row].kind = "voice",
           c.kind = "delete" => d.pc = "soft" \/ c.pc # "soft" \/ ~voices[c.row].live,
           d.pc \in {"upload", "insert", "complete"} =>
                c.pc \in {"upload", "insert"} \/ c.chunks > 0 \/ c.kind # "stream",
           d.pc # "complete"
    PROVE  Works(d, voices, voicesAsked)
BY DEF Works, Same

-----------------------------------------------------------------------------
(* The parts that a step leaves alone.                                      *)

LEMMA FilesQuiet ==
    ASSUME VoicesTyping, Files, NEW r \in Requests, VoicesOthers(r),
           UNCHANGED <<voices, files>>, leaked \subseteq leaked',
           LET c == voiceRequest[r]
               d == voiceRequest'[r]
           IN  /\ \/ d.number \in {0, voicesAsked + 1} /\ d.pc \notin Uploaded \cup {"complete"}
                  \/ /\ d.number = c.number
                     /\ c.pc = "complete" => d.pc = "complete"
                     /\ c.pc \notin Uploaded \cup {"complete"} => d.pc \notin Uploaded \cup {"complete"}
                     /\ c.pc \in {"provide", "insert"} \/ d.pc \notin {"provide", "insert"}
               /\ c.pc \in {"unclone", "remove"} => d.pc \in {"unclone", "remove"} /\ d.row = c.row
               /\ c.pc \in Uploaded => d.pc \in Uploaded /\ d.number = c.number
    PROVE  Files'
<1> DEFINE c == voiceRequest[r]
           d == voiceRequest'[r]
<1>1. \A i \in DOMAIN voices : voices[i].asset \in 1 .. voicesAsked
  BY DEF VoicesTyping
<1>2. voicesAsked \in Nat /\ files \subseteq 1 .. voicesAsked
  BY DEF VoicesTyping
<1>3. \A q \in Requests : q # r => /\ voiceRequest'[q].pc = voiceRequest[q].pc
                                    /\ voiceRequest'[q].number = voiceRequest[q].number
                                    /\ voiceRequest'[q].row = voiceRequest[q].row
  BY DEF VoicesOthers, Alike
<1>4. FilesOfRequests'
  <2>1. ASSUME NEW q \in Requests
        PROVE  /\ voiceRequest'[q].pc # "complete" => \A i \in DOMAIN voices : voices[i].asset # voiceRequest'[q].number
               /\ voiceRequest'[q].pc \in {"provide", "insert"} => voiceRequest'[q].number \in files
               /\ voiceRequest'[q].pc \notin Uploaded \cup {"complete"} => voiceRequest'[q].number \notin files
    <3>1. CASE q # r
      BY <1>3, <3>1 DEF Files, FilesOfRequests
    <3>2. CASE q = r /\ d.number \in {0, voicesAsked + 1} /\ d.pc \notin Uploaded \cup {"complete"}
      BY <1>1, <1>2, <3>2 DEF Uploaded
    <3>3. CASE q = r /\ ~(d.number \in {0, voicesAsked + 1} /\ d.pc \notin Uploaded \cup {"complete"})
      BY <3>3 DEF Files, FilesOfRequests, Uploaded
    <3>4. QED BY <3>1, <3>2, <3>3
  <2>2. QED BY <2>1 DEF FilesOfRequests
<1>5. FilesOfRows'
  <2> SUFFICES ASSUME NEW i \in DOMAIN voices
               PROVE  /\ voices[i].live => voices[i].asset \in files
                      /\ \/ voices[i].live \/ voices[i].asset \notin files \/ voices[i].asset \in leaked'
                         \/ \E q \in Requests : voiceRequest'[q].pc \in {"unclone", "remove"} /\ voiceRequest'[q].row = i
    BY DEF FilesOfRows
  <2>1. CASE \E q \in Requests : voiceRequest[q].pc \in {"unclone", "remove"} /\ voiceRequest[q].row = i
    BY <1>3, <2>1 DEF Files, FilesOfRows
  <2>2. QED BY <2>1 DEF Files, FilesOfRows
<1>6. FilesKnown'
  <2> SUFFICES ASSUME NEW a \in files \ leaked'
               PROVE  \/ \E i \in DOMAIN voices : voices[i].asset = a
                      \/ \E q \in Requests : voiceRequest'[q].pc \in Uploaded /\ voiceRequest'[q].number = a
    BY DEF FilesKnown
  <2>1. CASE \E q \in Requests : voiceRequest[q].pc \in Uploaded /\ voiceRequest[q].number = a
    BY <1>3, <2>1
  <2>2. QED BY <2>1 DEF Files, FilesKnown
<1>7. QED BY <1>4, <1>5, <1>6 DEF Files, OneFilePerRow

LEMMA RacedQuiet ==
    ASSUME VoicesSetup, VoicesTyping, ClonesAlone, NEW r \in Requests, Untouched(r),
           UNCHANGED <<voices, cloned>>,
           LET c == voiceRequest[r]
               d == voiceRequest'[r]
           IN  /\ d.kind = "clone" /\ d.voice \in VoiceIds =>
                    /\ c.kind = "clone" /\ c.voice = d.voice /\ c.raced = d.raced
                    /\ d.pc = "insert" => c.pc = "insert" /\ c.number = d.number
               /\ d.pc = "unclone" => c.pc = "unclone" /\ c.voice = d.voice
    PROVE  ClonesAlone'
<1> SUFFICES ASSUME NEW v \in VoiceIds PROVE Raced(v)'
  BY DEF ClonesAlone
<1>1. Raced(v)
  BY DEF ClonesAlone
<1>2. \A q \in Requests : Clones(q, v)' => Clones(q, v) /\ voiceRequest'[q].raced = voiceRequest[q].raced
  BY DEF Untouched, Clones
<1>3. \A q \in Requests : Uncloning(q, v)' => Uncloning(q, v)
  BY DEF Untouched, Uncloning
<1>4. \A q \in Requests : Clones(q, v)' /\ voiceRequest'[q].pc = "insert" =>
        voiceRequest[q].pc = "insert" /\ voiceRequest'[q].number = voiceRequest[q].number
  BY DEF Untouched, Clones
<1>5. \A i \in DOMAIN voices : LiveVoice(i, v)' <=> LiveVoice(i, v)
  BY DEF LiveVoice
<1>6. QED BY <1>1, <1>2, <1>3, <1>4, <1>5 DEF Raced

LEMMA OutcomeKept ==
    ASSUME NEW n, Outcome(n), told'[n] = told[n], RowsKept, cut \subseteq cut',
           \A r \in Requests : voiceRequest[r].number = n =>
                \E q \in Requests : voiceRequest'[q].number = n
    PROVE  Outcome(n)'
BY DEF Outcome, RowsKept

LEMMA StreamsQuiet ==
    ASSUME VoicesSetup, VoicesTyping, Requesting, Streams, NEW r \in Requests, VoicesOthers(r), RowsKept,
           UNCHANGED <<told, cut, voicesAsked>>,
           LET c == voiceRequest[r]
               d == voiceRequest'[r]
           IN  /\ c.pc # "idle"
               /\ \/ d = Voicing!Idle /\ c.kind # "stream"
                  \/ /\ d.number = c.number /\ d.kind = c.kind /\ d.chunks = c.chunks
                     /\ d.pc = "start" <=> c.pc = "start"
    PROVE  Streams'
<1> DEFINE c == voiceRequest[r]
           d == voiceRequest'[r]
<1>1. \A q \in Requests : Told(q)'
  <2>1. \A q \in Requests : Told(q)
    BY DEF Streams
  <2>2. \A q \in Requests : q # r =>
            /\ voiceRequest'[q].pc = voiceRequest[q].pc /\ voiceRequest'[q].number = voiceRequest[q].number
            /\ voiceRequest'[q].kind = voiceRequest[q].kind /\ voiceRequest'[q].chunks = voiceRequest[q].chunks
    BY DEF VoicesOthers, Alike
  <2>3. CASE d = Voicing!Idle
    BY <2>1, <2>2, <2>3, IdleFacts DEF Told
  <2>4. CASE d # Voicing!Idle
    BY <2>1, <2>2, <2>4 DEF Told
  <2>5. QED BY <2>3, <2>4
<1>2. ASSUME NEW n \in 1 .. voicesAsked PROVE Outcome(n)'
  <2>1. Outcome(n)
    BY DEF Streams
  <2>2. CASE d = Voicing!Idle /\ c.kind # "stream" /\ n = c.number
    <3>1. told[n] = <<>>
      BY <2>2 DEF Streams, Told
    <3>2. QED BY <3>1 DEF Outcome
  <2>3. CASE d.number = c.number \/ n # c.number
    <3>1. \A q \in Requests : voiceRequest[q].number = n => voiceRequest'[q].number = n
      BY <2>3 DEF VoicesOthers, Alike
    <3>2. QED BY <2>1, <3>1, OutcomeKept
  <2>4. QED BY <2>2, <2>3
<1>3. QED BY <1>1, <1>2 DEF Streams

\* A stream tells its next event.
LEMMA StreamsTell ==
    ASSUME VoicesSetup, VoicesTyping, Requesting, Streams, NEW r \in Requests, VoicesOthers(r), RowsKept,
           UNCHANGED <<cut, voicesAsked>>, NEW e \in Events,
           voiceRequest[r].pc # "idle", voiceRequest[r].kind = "stream", Voicing!Tell(r, e),
           LET c == voiceRequest[r]
               d == voiceRequest'[r]
           IN  \/ d = Voicing!Idle /\ e.event = "error"
               \/ d = Voicing!Idle /\ e.event = "completed" /\ c.pc = "complete" /\ e.arg = c.row
               \/ /\ d.number = c.number /\ d.kind = c.kind /\ d.pc \notin {"start", "idle"}
                  /\ \/ c.pc = "start" /\ e = Started /\ d.chunks = c.chunks
                     \/ c.pc # "start" /\ e = Chunk(c.chunks + 1) /\ d.chunks = c.chunks + 1
    PROVE  /\ Streams'
           /\ told' \in Seq(Seq(Events)) /\ Len(told') = voicesAsked
<1> DEFINE c == voiceRequest[r]
           d == voiceRequest'[r]
           n == c.number
           s == told[n]
           t == Append(s, e)
<1>1. /\ n \in 1 .. voicesAsked /\ voicesAsked \in Nat /\ Len(told) = voicesAsked
      /\ told \in Seq(Seq(Events)) /\ c.chunks \in Nat
      /\ Works(c, voices, voicesAsked)
  <2>1. Works(c, voices, voicesAsked)
    BY IsWorking
  <2>2. c \in Calls
    BY DEF VoicesTyping
  <2>3. QED BY <2>1, <2>2 DEF Works, VoicesTyping, Calls, VoicesSetup
<1>2. s \in Seq(Events)
  BY <1>1
<1>3. told' = [told EXCEPT ![n] = t]
  BY DEF Voicing!Tell
<1>4. t \in Seq(Events) /\ Len(t) = Len(s) + 1 /\ t[Len(t)] = e /\ Len(s) \in Nat
      /\ \A k \in 1 .. Len(s) : t[k] = s[k]
  BY <1>2
<1> HIDE DEF t
<1>5. /\ told' \in Seq(Seq(Events)) /\ Len(told') = voicesAsked /\ told'[n] = t
      /\ \A m \in 1 .. voicesAsked : m # n => told'[m] = told[m]
  BY <1>1, <1>3, <1>4
<1>6. /\ c.pc = "start" => s = <<>> /\ c.chunks = 0
      /\ c.pc # "start" => Len(s) = c.chunks + 1 /\ InOrder(s, Len(s))
  BY DEF Streams, Told
<1>7. InOrder(t, Len(s)) /\ (s = <<>> <=> Len(s) = 0)
  BY <1>1, <1>2, <1>4, <1>6 DEF InOrder
<1>8. d.number = n /\ d.kind = c.kind /\ d.pc \notin {"start", "idle"} /\ d # Voicing!Idle =>
        Len(t) = d.chunks + 1 /\ InOrder(t, Len(t))
  <2>1. CASE c.pc = "start" /\ e = Started /\ d.chunks = c.chunks
    BY <1>1, <1>4, <1>6, <2>1 DEF InOrder
  <2>2. CASE c.pc # "start" /\ e = Chunk(c.chunks + 1) /\ d.chunks = c.chunks + 1
    <3>1. Len(t) = c.chunks + 2 /\ t[c.chunks + 2] = Chunk(c.chunks + 1)
      BY <1>1, <1>4, <1>6, <2>2
    <3>2. \A k \in 1 .. c.chunks + 1 : t[k] = IF k = 1 THEN Started ELSE Chunk(k - 1)
      BY <1>1, <1>4, <1>6, <2>2 DEF InOrder
    <3>3. QED BY <1>1, <2>2, <3>1, <3>2 DEF InOrder
  <2>3. QED BY <2>1, <2>2, IdleFacts
<1>9. \A q \in Requests : Told(q)'
  <2> SUFFICES ASSUME NEW q \in Requests PROVE Told(q)'
    OBVIOUS
  <2>1. Told(q)
    BY DEF Streams
  <2>2. CASE q # r
    <3>1. Alike(voiceRequest[q], voiceRequest'[q])
      BY <2>2 DEF VoicesOthers
    <3>2. CASE voiceRequest[q].pc = "idle"
      BY <3>1, <3>2 DEF Told, Alike
    <3>3. CASE voiceRequest[q].pc # "idle"
      <4>1. voiceRequest[q].number \in 1 .. voicesAsked /\ voiceRequest[q].number # n
        BY <2>2, <3>3, IsWorking, IdleFacts DEF Works, Requesting
      <4>2. told'[voiceRequest[q].number] = told[voiceRequest[q].number]
        BY <1>5, <4>1
      <4>3. QED BY <2>1, <3>1, <4>2 DEF Told, Alike
    <3>4. QED BY <3>2, <3>3
  <2>3. CASE q = r
    <3>1. CASE d = Voicing!Idle
      BY <2>3, <3>1, IdleFacts DEF Told
    <3>2. CASE d # Voicing!Idle
      BY <1>5, <1>8, <2>3, <3>2 DEF Told
    <3>3. QED BY <3>1, <3>2
  <2>4. QED BY <2>2, <2>3
<1>10. ASSUME NEW m \in 1 .. voicesAsked PROVE Outcome(m)'
  <2>1. CASE m # n
    <3>1. \A q \in Requests : voiceRequest[q].number = m => voiceRequest'[q].number = m
      BY <2>1 DEF VoicesOthers, Alike
    <3>2. Outcome(m) /\ told'[m] = told[m]
      BY <1>5, <2>1 DEF Streams
    <3>3. QED BY <3>1, <3>2, OutcomeKept
  <2>2. CASE m = n
    <3>1. InOrder(t, Len(t) - 1)
      BY <1>4, <1>7
    <3>2. t[Len(t)].event = "completed" =>
            /\ t[Len(t)].arg \in DOMAIN voices' /\ voices'[t[Len(t)].arg].asset = n
            /\ voices'[t[Len(t)].arg].chunks = Len(t) - 2 /\ Len(t) > 2
      <4> SUFFICES ASSUME e.event = "completed"
                   PROVE  /\ e.arg \in DOMAIN voices' /\ voices'[e.arg].asset = n
                          /\ voices'[e.arg].chunks = Len(t) - 2 /\ Len(t) > 2
        BY <1>4
      <4>1. c.pc = "complete" /\ e.arg = c.row
        BY DEF Started, Chunk
      <4>2. /\ c.row \in DOMAIN voices /\ voices[c.row].asset = n /\ voices[c.row].chunks = c.chunks
            /\ c.chunks > 0
        BY <1>1, <4>1 DEF Works
      <4>3. Len(s) = c.chunks + 1
        BY <1>6, <4>1
      <4> HIDE DEF s
      <4>5. Len(t) = c.chunks + 2
        BY <1>1, <1>4, <4>3
      <4>6. e.arg \in DOMAIN voices' /\ voices'[e.arg].asset = n /\ voices'[e.arg].chunks = c.chunks
        BY <4>1, <4>2 DEF RowsKept
      <4>7. c.chunks = Len(t) - 2 /\ Len(t) > 2
        BY <1>1, <4>2, <4>5
      <4> HIDE DEF c
      <4>8. QED BY <4>6, <4>7
    <3>3. \/ t[Len(t)].event \in {"completed", "error"}
          \/ \E q \in Requests : voiceRequest'[q].number = n
      <4>1. t[Len(t)] = e
        BY <1>4
      <4>2. QED BY <4>1
    <3>4. QED BY <1>5, <2>2, <3>1, <3>2, <3>3 DEF Outcome
  <2>3. QED BY <2>1, <2>2
<1>11. QED BY <1>5, <1>9, <1>10 DEF Streams

\* A request is received: it tells nothing yet.
LEMMA StreamsBegin ==
    ASSUME VoicesSetup, VoicesTyping, Requesting, Streams, NEW r \in Requests, VoicesOthers(r), RowsKept,
           UNCHANGED cut, voicesAsked' = voicesAsked + 1, told' = Append(told, <<>>),
           voiceRequest[r] = Voicing!Idle,
           LET d == voiceRequest'[r]
           IN  /\ d.number = voicesAsked + 1 /\ d.chunks = 0
               /\ d.kind = "stream" => d.pc = "start"
    PROVE  /\ Streams'
           /\ told' \in Seq(Seq(Events)) /\ Len(told') = voicesAsked'
<1>1. /\ told \in Seq(Seq(Events)) /\ Len(told) = voicesAsked /\ voicesAsked \in Nat
      /\ <<>> \in Seq(Events)
  BY DEF VoicesTyping
<1>2. /\ told' \in Seq(Seq(Events)) /\ Len(told') = voicesAsked' /\ told'[voicesAsked + 1] = <<>>
      /\ \A m \in 1 .. voicesAsked : told'[m] = told[m]
  BY <1>1
<1>3. ASSUME NEW q \in Requests PROVE Told(q)'
  <2>1. Told(q)
    BY DEF Streams
  <2>2. CASE q # r
    <3>1. Alike(voiceRequest[q], voiceRequest'[q])
      BY <2>2 DEF VoicesOthers
    <3>2. CASE voiceRequest[q].pc = "idle"
      BY <3>1, <3>2 DEF Told, Alike
    <3>3. CASE voiceRequest[q].pc # "idle"
      <4>1. voiceRequest[q].number \in 1 .. voicesAsked
        BY <3>3, IsWorking DEF Works
      <4>2. told'[voiceRequest[q].number] = told[voiceRequest[q].number]
        BY <1>2, <4>1
      <4>3. QED BY <2>1, <3>1, <4>2 DEF Told, Alike
    <3>4. QED BY <3>2, <3>3
  <2>3. CASE q = r
    BY <1>2, <2>3 DEF Told
  <2>4. QED BY <2>2, <2>3
<1>4. ASSUME NEW m \in 1 .. voicesAsked' PROVE Outcome(m)'
  <2>1. CASE m = voicesAsked + 1
    BY <1>2, <2>1 DEF Outcome
  <2>2. CASE m \in 1 .. voicesAsked
    <3>1. \A q \in Requests : voiceRequest[q].number = m => voiceRequest'[q].number = m
      BY <2>2, IdleFacts DEF VoicesOthers, Alike
    <3>2. Outcome(m) /\ told'[m] = told[m]
      BY <1>2, <2>2 DEF Streams
    <3>3. QED BY <3>1, <3>2, OutcomeKept
  <2>3. QED BY <1>1, <2>1, <2>2
<1>5. QED BY <1>2, <1>3, <1>4 DEF Streams

-----------------------------------------------------------------------------
(* The steps.                                                               *)

LEMMA BeginKeeps ==
    ASSUME VoicesSetup, VoicesSound, NEW r \in Requests, VoicesOthers(r), voiceRequest[r].pc = "idle",
           voicesAsked' = voicesAsked + 1, told' = Append(told, <<>>),
           UNCHANGED <<voices, files, cloned, leaked, cut>>, ClonesAlone',
           LET d == voiceRequest'[r]
           IN  /\ Works(d, voices, voicesAsked + 1) /\ d.number = voicesAsked + 1
               /\ d.pc \notin Uploaded \cup {"complete"} /\ d.chunks = 0
               /\ d.kind = "stream" => d.pc = "start"
    PROVE  VoicesSound'
<1>1. voiceRequest[r] = Voicing!Idle /\ voicesAsked \in Nat
  BY DEF VoicesSound, Requesting, Works, Flow, VoicesTyping
<1>2. RowsKept
  BY DEF RowsKept
<1>3. Requesting'
  BY <1>1, <1>2, RequestingStep DEF VoicesSound
<1>4. Streams' /\ told' \in Seq(Seq(Events)) /\ Len(told') = voicesAsked'
  BY <1>1, <1>2, StreamsBegin DEF VoicesSound
<1>5. Files'
  BY <1>1, FilesQuiet, IdleFacts DEF VoicesSound, Uploaded
<1>6. 1 .. voicesAsked \subseteq 1 .. voicesAsked' /\ 0 .. voicesAsked \subseteq 0 .. voicesAsked'
      /\ voicesAsked' \in Nat
  BY <1>1
<1>7. VoicesTyping'
  <2>1. cloned' \in [VoiceIds -> 0 .. voicesAsked']
    <3>1. cloned' \in [VoiceIds -> 0 .. voicesAsked]
      BY DEF VoicesSound, VoicesTyping
    <3>2. QED BY <1>6, <3>1
  <2>2. QED BY <1>4, <1>6, <2>1 DEF VoicesSound, VoicesTyping, VoicesOthers
<1>8. QED BY <1>3, <1>4, <1>5, <1>7 DEF VoicesSound

LEMMA ReceiveFacts ==
    ASSUME VoicesSetup, VoicesTyping, NEW r \in Requests, NEW call \in Calls, Voicing!Receive(r, call)
    PROVE  LET d == voiceRequest'[r]
           IN  /\ Untouched(r) /\ d.number = voicesAsked + 1 /\ d.pc = call.pc /\ d.kind = call.kind
               /\ d.user = call.user /\ d.voice = call.voice /\ d.row = call.row
               /\ d.chunks = call.chunks
<1> DEFINE d == [call EXCEPT !.number = voicesAsked + 1]
<1>1. voicesAsked \in Nat
  BY DEF VoicesTyping
<1>2. /\ d \in Calls /\ d.number = voicesAsked + 1 /\ d.pc = call.pc /\ d.kind = call.kind
      /\ d.user = call.user /\ d.voice = call.voice /\ d.row = call.row
      /\ d.chunks = call.chunks
  BY <1>1 DEF Calls
<1>3. voiceRequest' = [voiceRequest EXCEPT ![r] = d]
  BY DEF Voicing!Receive
<1> HIDE DEF d
<1>4. QED BY <1>2, <1>3 DEF VoicesTyping, Untouched

LEMMA BeginDeleteKeeps ==
    ASSUME VoicesSetup, VoicesSound, NEW r \in Requests, Voicing!BeginDelete(r)
    PROVE  VoicesSound'
<1>1. PICK u \in Users : \E i \in Voicing!Listed(u, "voice") \cup Voicing!Listed(u, "audio") :
        Voicing!Receive(r, [Voicing!Idle EXCEPT !.pc = "soft", !.kind = "delete", !.user = u, !.row = i,
                    !.voice = IF voices[i].kind = "voice" THEN voices[i].voice ELSE None])
  BY DEF Voicing!BeginDelete
<1>2. PICK i \in Voicing!Listed(u, "voice") \cup Voicing!Listed(u, "audio") :
        Voicing!Receive(r, [Voicing!Idle EXCEPT !.pc = "soft", !.kind = "delete", !.user = u, !.row = i,
                    !.voice = IF voices[i].kind = "voice" THEN voices[i].voice ELSE None])
  BY <1>1
<1> DEFINE w == IF voices[i].kind = "voice" THEN voices[i].voice ELSE None
           call == [Voicing!Idle EXCEPT !.pc = "soft", !.kind = "delete", !.user = u, !.row = i,
                                !.voice = w]
           d == voiceRequest'[r]
<1>3. i \in DOMAIN voices /\ i \in Nat /\ voicesAsked \in Nat /\ voices[i] \in Rows
  BY DEF Voicing!Listed, VoicesSound, VoicesTyping
<1>4. w \in AllVoices \cup {None} /\ w = IF voices[i].kind = "voice" THEN voices[i].voice ELSE None
  BY <1>3 DEF Rows
<1> HIDE DEF w
<1>5. /\ call \in Calls /\ call.pc = "soft" /\ call.kind = "delete" /\ call.user = u
      /\ call.voice = w /\ call.row = i /\ call.chunks = 0
  BY <1>3, <1>4, IdleFacts DEF Calls, Voicing!Steps, Kinds
<1>6. Voicing!Receive(r, call)
  BY <1>2 DEF w
<1> HIDE DEF call
<1>7. /\ Untouched(r) /\ d.number = voicesAsked + 1 /\ d.pc = "soft" /\ d.kind = "delete"
      /\ d.user = u /\ d.voice = w /\ d.row = i /\ d.chunks = 0
  BY <1>5, <1>6, ReceiveFacts DEF VoicesSound
<1>8. Works(d, voices, voicesAsked + 1)
  BY <1>3, <1>4, <1>7 DEF Works, Flow
<1>9. ClonesAlone'
  BY <1>6, <1>7, RacedQuiet DEF VoicesSound, Voicing!Receive
<1>10. QED
  BY <1>6, <1>7, <1>8, <1>9, UntouchedOthers, BeginKeeps DEF Voicing!Receive, Voicing!At,
     Uploaded

LEMMA BeginSpeechKeeps ==
    ASSUME VoicesSetup, VoicesSound, NEW r \in Requests, Voicing!BeginSpeech(r)
    PROVE  VoicesSound'
<1>1. PICK u \in Users, v \in VoiceIds \cup SystemVoices, kind \in {"generate", "stream"} :
        Voicing!Receive(r, [Voicing!Idle EXCEPT !.pc = IF kind = "stream" THEN "start" ELSE "access",
                    !.kind = kind, !.user = u, !.voice = v])
  BY DEF Voicing!BeginSpeech
<1> DEFINE p == IF kind = "stream" THEN "start" ELSE "access"
           call == [Voicing!Idle EXCEPT !.pc = p, !.kind = kind, !.user = u, !.voice = v]
           d == voiceRequest'[r]
<1>3. voicesAsked \in Nat
  BY DEF VoicesSound, VoicesTyping
<1>4. p \in {"start", "access"} /\ (kind = "stream" => p = "start") /\ (p = "start" => kind = "stream")
  OBVIOUS
<1> HIDE DEF p
<1>5. /\ call \in Calls /\ call.pc = p /\ call.kind = kind /\ call.user = u
      /\ call.voice = v /\ call.row = 0 /\ call.chunks = 0
  BY <1>3, <1>4, IdleFacts DEF Calls, Voicing!Steps, Kinds, AllVoices
<1>6. Voicing!Receive(r, call)
  BY <1>1 DEF p
<1> HIDE DEF call
<1>7. /\ Untouched(r) /\ d.number = voicesAsked + 1 /\ d.pc = p /\ d.kind = kind
      /\ d.user = u /\ d.voice = v /\ d.row = 0 /\ d.chunks = 0
  BY <1>5, <1>6, ReceiveFacts DEF VoicesSound
<1>8. Works(d, voices, voicesAsked + 1)
  BY <1>3, <1>4, <1>7 DEF Works, Flow, AllVoices
<1>9. ClonesAlone'
  BY <1>4, <1>6, <1>7, RacedQuiet DEF VoicesSound, Voicing!Receive
<1>10. QED
  BY <1>4, <1>6, <1>7, <1>8, <1>9, UntouchedOthers, BeginKeeps DEF Voicing!Receive, Voicing!At,
     Uploaded

LEMMA BeginCloneKeeps ==
    ASSUME VoicesSetup, VoicesSound, NEW r \in Requests, Voicing!BeginClone(r)
    PROVE  VoicesSound'
<1> DEFINE others(v) == {q \in Requests : voiceRequest[q].voice = v
                                        /\ (voiceRequest[q].kind = "clone" \/ Voicing!At(q, "unclone"))}
<1>1. PICK u \in Users, v \in {v \in VoiceIds : Voicing!Found(v) = {}} :
            /\ Voicing!At(r, "idle")
            /\ voicesAsked < MaxVoiceRequests /\ voicesAsked' = voicesAsked + 1
            /\ voiceRequest' = [q \in Requests |->
                IF q = r
                THEN [Voicing!Idle EXCEPT !.pc = "upload", !.number = voicesAsked + 1, !.user = u,
                                  !.voice = v, !.raced = others(v) # {}]
                ELSE [voiceRequest[q] EXCEPT !.raced = @ \/ q \in others(v)]]
            /\ told' = Append(told, <<>>)
            /\ UNCHANGED <<voices, files, cloned, faults, leaked, cut>>
  BY DEF Voicing!BeginClone
<1> DEFINE d == [pc |-> "upload", kind |-> "clone", number |-> voicesAsked + 1, user |-> u,
                 voice |-> v, row |-> 0, chunks |-> 0, raced |-> others(v) # {}]
           Marked(q) == [voiceRequest[q] EXCEPT !.raced = @ \/ q \in others(v)]
<1>2. voicesAsked \in Nat /\ v \in VoiceIds /\ Voicing!Found(v) = {} /\ voiceRequest[r] = Voicing!Idle
  BY <1>1 DEF VoicesSound, VoicesTyping, Requesting, Works, Flow, Voicing!At
<1>3. d \in Calls
  BY <1>2 DEF Calls, AllVoices, Voicing!Steps, Kinds, VoicesSetup
<1>4. ASSUME NEW q \in Requests
      PROVE  /\ Marked(q) \in Calls /\ Alike(voiceRequest[q], Marked(q))
             /\ Marked(q).raced <=> voiceRequest[q].raced \/ q \in others(v)
  <2>1. voiceRequest[q] \in Calls
    BY DEF VoicesSound, VoicesTyping
  <2>2. Marked(q) \in Calls
    BY <2>1 DEF Calls
  <2>3. /\ Marked(q).raced <=> voiceRequest[q].raced \/ q \in others(v)
        /\ Marked(q).pc = voiceRequest[q].pc /\ Marked(q).kind = voiceRequest[q].kind
        /\ Marked(q).number = voiceRequest[q].number /\ Marked(q).user = voiceRequest[q].user
        /\ Marked(q).voice = voiceRequest[q].voice /\ Marked(q).row = voiceRequest[q].row
        /\ Marked(q).chunks = voiceRequest[q].chunks
    BY <2>1 DEF Calls
  <2>4. voiceRequest[q] = Voicing!Idle => Marked(q) = Voicing!Idle
    <3> SUFFICES ASSUME voiceRequest[q] = Voicing!Idle PROVE Marked(q) = Voicing!Idle
      OBVIOUS
    <3>1. q \notin others(v)
      BY <1>2, IdleFacts DEF VoicesSetup, Voicing!At
    <3> HIDE DEF others
    <3> DEFINE I == Voicing!Idle
    <3>2. /\ I.raced = FALSE
          /\ I = [pc |-> I.pc, kind |-> I.kind, number |-> I.number, user |-> I.user,
                  voice |-> I.voice, row |-> I.row, chunks |-> I.chunks, raced |-> I.raced]
      <4>1. I.raced = FALSE
        BY Zenon DEF Voicing!Idle
      <4>2. QED BY <4>1 DEF Voicing!Idle
    <3>3. Marked(q) = [I EXCEPT !.raced = I.raced \/ q \in others(v)]
      OBVIOUS
    <3> HIDE DEF I
    <3>4. (I.raced \/ q \in others(v)) = I.raced
      BY <3>1, <3>2, Zenon
    <3>5. [I EXCEPT !.raced = I.raced] = I
      BY <3>2
    <3>6. QED BY <3>3, <3>4, <3>5 DEF I
  <2>5. QED BY <2>2, <2>3, <2>4 DEF Alike
<1>5. /\ voiceRequest'[r] = d
      /\ \A q \in Requests : q # r => voiceRequest'[q] = Marked(q)
      /\ voiceRequest' = [q \in Requests |-> voiceRequest'[q]]
  BY <1>1 DEF Voicing!Idle
<1>6. Works(d, voices, voicesAsked + 1)
  BY <1>2 DEF Works, Flow
<1>7. /\ d.number = voicesAsked + 1 /\ d.pc = "upload" /\ d.chunks = 0
      /\ d.kind = "clone" /\ d.voice = v /\ (d.raced <=> others(v) # {})
  OBVIOUS
<1>8. others(v) \subseteq Requests
      /\ \A q \in Requests : Clones(q, v) \/ Uncloning(q, v) => q \in others(v)
  BY DEF Clones, Uncloning, Voicing!At
<1> HIDE DEF d, Marked, others
<1>9. VoicesOthers(r)
  BY <1>3, <1>4, <1>5 DEF VoicesOthers
<1>10. ClonesAlone'
  <2> SUFFICES ASSUME NEW w \in VoiceIds PROVE Raced(w)'
    BY DEF ClonesAlone
  <2>0. Raced(w)
    BY DEF VoicesSound, ClonesAlone
  <2>1. \A i \in DOMAIN voices : LiveVoice(i, w)' <=> LiveVoice(i, w)
    BY <1>1 DEF LiveVoice
  <2>2. \A q \in Requests : q # r =>
          /\ voiceRequest'[q].raced <=> voiceRequest[q].raced \/ q \in others(v)
          /\ Clones(q, w)' <=> Clones(q, w)
          /\ Uncloning(q, w)' <=> Uncloning(q, w)
          /\ voiceRequest'[q].pc = voiceRequest[q].pc /\ voiceRequest'[q].number = voiceRequest[q].number
    BY <1>4, <1>5 DEF Alike, Clones, Uncloning
  <2>3. /\ Clones(r, w)' => w = v
        /\ ~Uncloning(r, w)' /\ voiceRequest'[r].pc # "insert"
        /\ voiceRequest'[r].raced <=> others(v) # {}
    BY <1>5, <1>7 DEF Clones, Uncloning
  <2>4. \A i \in DOMAIN voices : ~LiveVoice(i, v)
    BY <1>2 DEF Voicing!Found, LiveVoice
  <2>5. cloned' = cloned /\ voices' = voices
    BY <1>1
  <2>6. ASSUME NEW p \in Requests, NEW q \in Requests, Clones(p, w)', Clones(q, w)', p # q
        PROVE  voiceRequest'[q].raced
    <3>1. CASE q = r
      BY <1>8, <2>2, <2>3, <2>6, <3>1
    <3>2. CASE q # r /\ p = r
      BY <1>8, <2>2, <2>3, <2>6, <3>2
    <3>3. CASE q # r /\ p # r
      <4>1. voiceRequest[q].raced
        BY <2>0, <2>2, <2>6, <3>3 DEF Raced
      <4>2. QED BY <2>2, <3>3, <4>1
    <3>4. QED BY <3>1, <3>2, <3>3
  <2>7. ASSUME NEW q \in Requests, NEW i \in DOMAIN voices, Clones(q, w)', LiveVoice(i, w)'
        PROVE  voiceRequest'[q].raced /\ voices[i].raced
    <3>1. q # r /\ Clones(q, w) /\ LiveVoice(i, w)
      BY <2>1, <2>2, <2>3, <2>4, <2>7
    <3>2. voiceRequest[q].raced /\ voices[i].raced
      BY <2>0, <3>1 DEF Raced
    <3>3. QED BY <2>2, <3>1, <3>2
  <2>8. ASSUME NEW p \in Requests, NEW q \in Requests, Clones(q, w)', Uncloning(p, w)'
        PROVE  voiceRequest'[q].raced
    <3>1. p # r /\ Uncloning(p, w)
      BY <2>2, <2>3, <2>8
    <3>2. CASE q = r
      BY <1>8, <2>3, <2>8, <3>1, <3>2
    <3>3. CASE q # r
      <4>1. voiceRequest[q].raced
        BY <2>0, <2>2, <2>8, <3>1, <3>3 DEF Raced
      <4>2. QED BY <2>2, <3>3, <4>1
    <3>4. QED BY <3>2, <3>3
  <2>9. ASSUME NEW q \in Requests, NEW i \in DOMAIN voices, Uncloning(q, w)', LiveVoice(i, w)'
        PROVE  voices[i].raced
    BY <2>0, <2>1, <2>2, <2>3, <2>9 DEF Raced
  <2>10. ASSUME NEW q \in Requests, Clones(q, w)', voiceRequest'[q].pc = "insert"
         PROVE  voiceRequest'[q].raced \/ cloned[w] = voiceRequest'[q].number
    <3>1. q # r /\ Clones(q, w) /\ voiceRequest[q].pc = "insert"
      BY <2>2, <2>3, <2>10
    <3>2. voiceRequest[q].raced \/ cloned[w] = voiceRequest[q].number
      BY <2>0, <3>1 DEF Raced
    <3>3. QED BY <2>2, <3>1, <3>2
  <2>11. /\ \A i, j \in DOMAIN voices : LiveVoice(i, w)' /\ LiveVoice(j, w)' => i = j \/ voices[j].raced
         /\ \A i \in DOMAIN voices : LiveVoice(i, w)' => voices[i].raced \/ cloned[w] = voices[i].asset
    BY <2>0, <2>1 DEF Raced
  <2> USE <2>5
  <2>12. /\ \A p, q \in Requests : Clones(p, w)' /\ Clones(q, w)' => p = q \/ voiceRequest'[q].raced
         /\ \A q \in Requests, i \in DOMAIN voices :
                Clones(q, w)' /\ LiveVoice(i, w)' => voiceRequest'[q].raced /\ voices[i].raced
         /\ \A p, q \in Requests : Clones(q, w)' /\ Uncloning(p, w)' => voiceRequest'[q].raced
         /\ \A q \in Requests, i \in DOMAIN voices :
                Uncloning(q, w)' /\ LiveVoice(i, w)' => voices[i].raced
         /\ \A q \in Requests : Clones(q, w)' /\ voiceRequest'[q].pc = "insert" =>
                voiceRequest'[q].raced \/ cloned[w] = voiceRequest'[q].number
    BY <2>6, <2>7, <2>8, <2>9, <2>10
  <2>13. QED BY <2>11, <2>12 DEF Raced
<1>11. QED
  BY <1>1, <1>5, <1>6, <1>7, <1>9, <1>10, BeginKeeps DEF Voicing!At, Uploaded

LEMMA NumbersApart ==
    ASSUME Requesting, NEW r \in Requests, voiceRequest[r].pc # "idle", NEW q \in Requests, q # r
    PROVE  voiceRequest[q].number # voiceRequest[r].number
<1>1. voiceRequest[r] # Voicing!Idle
  BY IdleFacts
<1>2. QED BY <1>1 DEF Requesting

\* Who does what is known by the step.
LEMMA KindOf ==
    ASSUME NEW c \in Calls, c.pc \in Flow(c.kind)
    PROVE  /\ c.pc \in {"provide", "cleanup"} => c.kind = "clone"
           /\ c.pc \in {"soft", "unclone", "remove"} => c.kind = "delete"
           /\ c.pc \in {"start", "complete"} => c.kind = "stream"
           /\ c.pc \in {"access", "speak"} => c.kind \in {"generate", "stream"}
           /\ c.pc \in {"upload", "insert"} => c.kind # "delete"
BY DEF Flow, Calls, Kinds

LEMMA RaiseFacts ==
    ASSUME VoicesSetup, VoicesSound, NEW r \in Requests, voiceRequest[r].pc # "idle", Voicing!Raise(r),
           UNCHANGED <<voices, voicesAsked, cut>>
    PROVE  /\ Untouched(r) /\ voiceRequest'[r] = Voicing!Idle /\ Streams'
           /\ told' \in Seq(Seq(Events)) /\ Len(told') = voicesAsked
<1>1. Untouched(r) /\ voiceRequest'[r] = Voicing!Idle
  BY DoneFacts DEF Voicing!Raise, VoicesSound
<1>2. RowsKept /\ VoicesOthers(r)
  BY <1>1, UntouchedOthers DEF RowsKept
<1>3. CASE voiceRequest[r].kind = "stream"
  <2>1. [event |-> "error", arg |-> 0] \in Events /\ Voicing!Tell(r, [event |-> "error", arg |-> 0])
    BY <1>3 DEF Voicing!Raise, Events
  <2>2. QED BY <1>1, <1>2, <1>3, <2>1, StreamsTell DEF VoicesSound
<1>4. CASE voiceRequest[r].kind # "stream"
  <2>1. told' = told
    BY <1>4 DEF Voicing!Raise
  <2>2. Streams'
    BY <1>1, <1>2, <1>4, <2>1, StreamsQuiet DEF VoicesSound
  <2>3. QED BY <1>1, <2>1, <2>2 DEF VoicesSound, VoicesTyping
<1>5. QED BY <1>3, <1>4

\* A step of a speech touches neither rows nor files nor the provider.
LEMMA SpeechKeeps ==
    ASSUME VoicesSetup, VoicesSound, NEW r \in Requests, Untouched(r), voiceRequest[r].pc # "idle",
           UNCHANGED <<voices, files, cloned, voicesAsked, leaked, cut>>,
           Streams', told' \in Seq(Seq(Events)), Len(told') = voicesAsked,
           LET c == voiceRequest[r]
               d == voiceRequest'[r]
           IN  /\ c.pc \in {"start", "access", "speak", "complete"}
               /\ \/ d = Voicing!Idle
                  \/ /\ Works(d, voices, voicesAsked) /\ d.number = c.number /\ d.kind = c.kind
                     /\ d.pc \in {"access", "speak", "upload"} /\ c.pc # "complete"
    PROVE  VoicesSound'
<1> DEFINE c == voiceRequest[r]
           d == voiceRequest'[r]
<1>1. RowsKept /\ VoicesOthers(r) /\ voicesAsked \in Nat
  BY UntouchedOthers DEF RowsKept, VoicesSound, VoicesTyping
<1>2. c.kind \in {"generate", "stream"}
  <2>1. Works(c, voices, voicesAsked)
    BY IsWorking DEF VoicesSound
  <2>2. QED BY <2>1, KindOf DEF Works, VoicesSound, VoicesTyping
<1>3. Requesting'
  BY <1>1, RequestingStep DEF VoicesSound
<1>4. Files'
  BY <1>1, FilesQuiet, IdleFacts DEF VoicesSound, Uploaded
<1>5. d.kind = "clone" => d.voice \notin VoiceIds
  BY <1>2, IdleFacts DEF VoicesSetup
<1>6. d.pc # "unclone"
  BY IdleFacts
<1>7. ClonesAlone'
  BY <1>5, <1>6, RacedQuiet DEF VoicesSound
<1>8. VoicesTyping'
  BY DEF VoicesSound, VoicesTyping, Untouched
<1>9. QED BY <1>3, <1>4, <1>7, <1>8 DEF VoicesSound

LEMMA EmitStartedKeeps ==
    ASSUME VoicesSetup, VoicesSound, NEW r \in Requests, Voicing!EmitStarted(r)
    PROVE  VoicesSound'
<1>1. voiceRequest[r].pc = "start" /\ Voicing!Goto(r, "access") /\ Voicing!Tell(r, Started)
      /\ UNCHANGED <<voices, files, cloned, voicesAsked, leaked, cut>>
  BY DEF Voicing!EmitStarted, Voicing!At, Started
<1>2. Untouched(r) /\ voiceRequest'[r].pc = "access" /\ Same(voiceRequest[r], voiceRequest'[r])
  BY <1>1, GotoFacts DEF VoicesSound, Voicing!Steps
<1>3. Works(voiceRequest[r], voices, voicesAsked) /\ voiceRequest[r].kind = "stream"
  BY <1>1, IsWorking, KindOf DEF VoicesSound, Works, VoicesTyping
<1>4. Works(voiceRequest'[r], voices, voicesAsked)
  BY <1>1, <1>2, <1>3, NextStepWorks DEF Flow
<1>5. Started \in Events /\ RowsKept
  BY <1>1 DEF Started, Events, RowsKept
<1>6. Streams' /\ told' \in Seq(Seq(Events)) /\ Len(told') = voicesAsked
  BY <1>1, <1>2, <1>3, <1>5, UntouchedOthers, StreamsTell DEF VoicesSound, Same
<1>7. QED BY <1>1, <1>2, <1>4, <1>6, SpeechKeeps DEF Same

LEMMA RaisedSpeech ==
    ASSUME VoicesSetup, VoicesSound, NEW r \in Requests, Voicing!Raise(r),
           voiceRequest[r].pc \in {"start", "access", "speak", "complete"},
           UNCHANGED <<voices, files, cloned, voicesAsked, leaked, cut>>
    PROVE  VoicesSound'
BY RaiseFacts, SpeechKeeps

\* On to the next step, telling nothing.
LEMMA SpeechGoesOn ==
    ASSUME VoicesSetup, VoicesSound, NEW r \in Requests, NEW step \in {"speak", "upload"}, Voicing!Goto(r, step),
           voiceRequest[r].pc = IF step = "speak" THEN "access" ELSE "speak",
           step = "upload" => voiceRequest[r].kind # "stream" \/ voiceRequest[r].chunks > 0,
           UNCHANGED <<voices, files, cloned, voicesAsked, told, leaked, cut>>
    PROVE  VoicesSound'
<1>2. Untouched(r) /\ voiceRequest'[r].pc = step /\ Same(voiceRequest[r], voiceRequest'[r])
  BY GotoFacts DEF VoicesSound, Voicing!Steps
<1>3. Works(voiceRequest[r], voices, voicesAsked) /\ voiceRequest[r].kind \in {"generate", "stream"}
  BY IsWorking, KindOf DEF VoicesSound, Works, VoicesTyping
<1>4. Works(voiceRequest'[r], voices, voicesAsked)
  <2>1. step \in Flow(voiceRequest[r].kind)
    BY <1>3 DEF Flow
  <2>2. QED BY <1>2, <1>3, <2>1, NextStepWorks
<1>5. RowsKept
  BY DEF RowsKept
<1>6. Streams'
  BY <1>2, <1>3, <1>5, UntouchedOthers, StreamsQuiet DEF VoicesSound, Same
<1>7. told' \in Seq(Seq(Events)) /\ Len(told') = voicesAsked
  BY DEF VoicesSound, VoicesTyping
<1>8. QED BY <1>2, <1>4, <1>6, <1>7, SpeechKeeps DEF Same

LEMMA ValidateVoiceAccessKeeps ==
    ASSUME VoicesSetup, VoicesSound, NEW r \in Requests, Voicing!ValidateVoiceAccess(r)
    PROVE  VoicesSound'
<1>1. voiceRequest[r].pc = "access" /\ UNCHANGED <<voices, files, cloned, voicesAsked, leaked, cut>>
  BY DEF Voicing!ValidateVoiceAccess, Voicing!At
<1>2. CASE Voicing!Goto(r, "speak") /\ UNCHANGED told
  BY <1>1, <1>2, SpeechGoesOn
<1>3. CASE Voicing!Raise(r)
  BY <1>1, <1>3, RaisedSpeech
<1>4. QED BY <1>2, <1>3 DEF Voicing!ValidateVoiceAccess

LEMMA EndSpeechKeeps ==
    ASSUME VoicesSetup, VoicesSound, NEW r \in Requests, Voicing!EndSpeech(r)
    PROVE  VoicesSound'
<1>1. voiceRequest[r].pc = "speak" /\ UNCHANGED <<voices, files, cloned, voicesAsked, leaked, cut>>
  BY DEF Voicing!EndSpeech, Voicing!At
<1>2. CASE Voicing!Goto(r, "upload") /\ UNCHANGED told /\ (voiceRequest[r].kind = "stream" => voiceRequest[r].chunks > 0)
  BY <1>1, <1>2, SpeechGoesOn
<1>3. CASE Voicing!Raise(r)
  BY <1>1, <1>3, RaisedSpeech
<1>4. QED BY <1>2, <1>3 DEF Voicing!EndSpeech

LEMMA EmitCompletedKeeps ==
    ASSUME VoicesSetup, VoicesSound, NEW r \in Requests, Voicing!EmitCompleted(r)
    PROVE  VoicesSound'
<1> DEFINE e == [event |-> "completed", arg |-> voiceRequest[r].row]
<1>1. voiceRequest[r].pc = "complete" /\ Voicing!Done(r) /\ Voicing!Tell(r, e)
      /\ UNCHANGED <<voices, files, cloned, voicesAsked, leaked, cut>>
  BY DEF Voicing!EmitCompleted, Voicing!At
<1>2. Untouched(r) /\ voiceRequest'[r] = Voicing!Idle
  BY <1>1, DoneFacts DEF VoicesSound
<1>3. Works(voiceRequest[r], voices, voicesAsked) /\ voiceRequest[r].kind = "stream"
  BY <1>1, IsWorking, KindOf DEF VoicesSound, Works, VoicesTyping
<1>4. voiceRequest[r] \in Calls
  BY DEF VoicesSound, VoicesTyping
<1>5. e \in Events /\ RowsKept /\ e.event = "completed" /\ e.arg = voiceRequest[r].row
  BY <1>1, <1>4 DEF Events, RowsKept, Calls
<1> HIDE DEF e
<1>6. Streams' /\ told' \in Seq(Seq(Events)) /\ Len(told') = voicesAsked
  BY <1>1, <1>2, <1>3, <1>5, UntouchedOthers, StreamsTell DEF VoicesSound
<1>7. QED BY <1>1, <1>2, <1>6, SpeechKeeps

LEMMA SpeakChunkKeeps ==
    ASSUME VoicesSetup, VoicesSound, NEW r \in Requests, Voicing!SpeakChunk(r)
    PROVE  VoicesSound'
<1> DEFINE c == voiceRequest[r]
           e == [event |-> "chunk", arg |-> c.chunks + 1]
           d == [c EXCEPT !.chunks = @ + 1]
<1>1. c.pc = "speak" /\ c.kind = "stream" /\ c.chunks < MaxChunks /\ Voicing!Tell(r, e)
      /\ UNCHANGED <<voices, files, cloned, voicesAsked, leaked, cut>>
  BY DEF Voicing!SpeakChunk, Voicing!At
<1>2. c \in Calls
  BY DEF VoicesSound, VoicesTyping
<1>3. /\ d \in Calls /\ d.pc = c.pc /\ d.kind = c.kind /\ d.number = c.number /\ d.user = c.user
      /\ d.voice = c.voice /\ d.row = c.row /\ d.chunks = c.chunks + 1
  BY <1>1, <1>2 DEF Calls, VoicesSetup
<1>4. voiceRequest' = [voiceRequest EXCEPT ![r] = d]
  BY DEF Voicing!SpeakChunk
<1>5. e \in Events /\ e = Chunk(c.chunks + 1)
  BY <1>2 DEF Events, Chunk, Calls
<1> HIDE DEF d, e
<1>6. Untouched(r) /\ voiceRequest'[r] = d
  BY <1>3, <1>4 DEF VoicesSound, VoicesTyping, Untouched
<1>7. Works(c, voices, voicesAsked)
  BY <1>1, IsWorking DEF VoicesSound
<1>8. Works(d, voices, voicesAsked)
  BY <1>1, <1>3, <1>7 DEF Works
<1>9. RowsKept
  BY <1>1 DEF RowsKept
<1>10. Streams' /\ told' \in Seq(Seq(Events)) /\ Len(told') = voicesAsked
  BY <1>1, <1>3, <1>5, <1>6, <1>9, UntouchedOthers, StreamsTell DEF VoicesSound
<1>11. QED BY <1>1, <1>3, <1>6, <1>8, <1>10, SpeechKeeps

\* A step of a request other than its reception or its last words.
LEMMA WorkKeeps ==
    ASSUME VoicesSetup, VoicesSound, NEW r \in Requests, Untouched(r), voiceRequest[r].pc # "idle", RowsKept,
           UNCHANGED <<voicesAsked, told, cut>>,
           voiceRequest'[r] = Voicing!Idle \/ Works(voiceRequest'[r], voices', voicesAsked),
           LET c == voiceRequest[r]
               d == voiceRequest'[r]
           IN  \/ d = Voicing!Idle /\ c.kind # "stream"
               \/ /\ d.number = c.number /\ d.kind = c.kind /\ d.chunks = c.chunks
                  /\ c.pc # "start" /\ d.pc # "start"
    PROVE  Requesting' /\ Streams'
<1>1. VoicesOthers(r) /\ voicesAsked \in Nat
  BY UntouchedOthers DEF VoicesSound, VoicesTyping
<1>2. Requesting'
  BY <1>1, RequestingStep, IdleFacts DEF VoicesSound
<1>3. Streams'
  BY <1>1, StreamsQuiet DEF VoicesSound
<1>4. QED BY <1>2, <1>3

LEMMA UploadKeeps ==
    ASSUME VoicesSetup, VoicesSound, NEW r \in Requests, Voicing!Upload(r)
    PROVE  VoicesSound'
<1> DEFINE c == voiceRequest[r]
           d == voiceRequest'[r]
           n == c.number
           step == IF c.kind = "clone" THEN "provide" ELSE "insert"
<1>1. c.pc = "upload" /\ files' = files \cup {n} /\ Voicing!Goto(r, step)
      /\ UNCHANGED <<voices, cloned, voicesAsked, told, leaked, cut>>
  BY DEF Voicing!Upload, Voicing!At
<1>2. Works(c, voices, voicesAsked) /\ c \in Calls /\ c.kind # "delete"
  BY <1>1, IsWorking, KindOf DEF VoicesSound, Works, VoicesTyping
<1>3. step \in {"provide", "insert"} /\ (step = "provide" <=> c.kind = "clone")
  OBVIOUS
<1> HIDE DEF step
<1>4. Untouched(r) /\ d.pc = step /\ Same(c, d)
  BY <1>1, <1>3, GotoFacts DEF VoicesSound, Voicing!Steps
<1>5. step \in Flow(c.kind)
  BY <1>2, <1>3 DEF Flow, Calls, Kinds
<1>6. Works(d, voices, voicesAsked)
  BY <1>1, <1>2, <1>3, <1>4, <1>5, NextStepWorks
<1>7. RowsKept
  BY <1>1 DEF RowsKept
<1>8. Requesting' /\ Streams'
  BY <1>1, <1>3, <1>4, <1>6, <1>7, WorkKeeps DEF Same
<1>9. ClonesAlone'
  <2>1. d.kind = "clone" => d.pc # "insert"
    BY <1>3, <1>4 DEF Same
  <2>2. QED BY <1>1, <1>3, <1>4, <2>1, RacedQuiet DEF VoicesSound, Same
<1>10. \A i \in DOMAIN voices : voices[i].asset # n
  BY <1>1 DEF VoicesSound, Files, FilesOfRequests
<1>11. \A q \in Requests : q # r => voiceRequest'[q] = voiceRequest[q] /\ voiceRequest[q].number # n
  BY <1>1, <1>4, NumbersApart DEF VoicesSound, Untouched
<1>12. d.number = n
  BY <1>4 DEF Same
<1>13. FilesOfRequests'
  BY <1>1, <1>3, <1>4, <1>10, <1>11, <1>12 DEF VoicesSound, Files, FilesOfRequests, Uploaded
<1>14. FilesOfRows'
  BY <1>1, <1>10, <1>11 DEF VoicesSound, Files, FilesOfRows
<1>15. FilesKnown'
  BY <1>1, <1>3, <1>4, <1>11, <1>12 DEF VoicesSound, Files, FilesKnown, Uploaded
<1>16. VoicesTyping'
  BY <1>1, <1>2, <1>4 DEF VoicesSound, VoicesTyping, Untouched, Works
<1>17. QED BY <1>1, <1>8, <1>9, <1>13, <1>14, <1>15, <1>16 DEF VoicesSound, Files, OneFilePerRow

LEMMA ProvideKeeps ==
    ASSUME VoicesSetup, VoicesSound, NEW r \in Requests, Voicing!Provide(r)
    PROVE  VoicesSound'
<1> DEFINE c == voiceRequest[r]
           d == voiceRequest'[r]
           n == c.number
           v == c.voice
<1>1. c.pc = "provide" /\ UNCHANGED <<voices, files, voicesAsked, told, leaked, cut>>
  BY DEF Voicing!Provide, Voicing!At
<1>2. PICK step \in {"insert", "cleanup"} :
        /\ Voicing!Goto(r, step)
        /\ \/ cloned' = [cloned EXCEPT ![v] = n]
           \/ cloned' = cloned /\ step = "cleanup"
  BY DEF Voicing!Provide
<1>3. Works(c, voices, voicesAsked) /\ c \in Calls /\ c.kind = "clone" /\ v \in VoiceIds
  BY <1>1, IsWorking, KindOf DEF VoicesSound, Works, VoicesTyping
<1>4. Untouched(r) /\ d.pc = step /\ Same(c, d)
  BY <1>2, GotoFacts DEF VoicesSound, Voicing!Steps
<1>5. Works(d, voices, voicesAsked)
  <2>1. step \in Flow(c.kind)
    BY <1>3 DEF Flow
  <2>2. QED BY <1>1, <1>3, <1>4, <2>1, NextStepWorks
<1>6. RowsKept /\ VoicesOthers(r)
  BY <1>1, <1>4, UntouchedOthers DEF RowsKept
<1>7. Requesting' /\ Streams'
  BY <1>1, <1>4, <1>5, <1>6, WorkKeeps DEF Same
<1>8. Files'
  BY <1>1, <1>4, <1>6, FilesQuiet DEF VoicesSound, Same, Uploaded
<1>9. ClonesAlone'
  <2> SUFFICES ASSUME NEW w \in VoiceIds PROVE Raced(w)'
    BY DEF ClonesAlone
  <2>0. Raced(w)
    BY DEF VoicesSound, ClonesAlone
  <2>1. \A i \in DOMAIN voices : LiveVoice(i, w)' <=> LiveVoice(i, w)
    BY <1>1 DEF LiveVoice
  <2>2. \A q \in Requests : /\ Clones(q, w)' <=> Clones(q, w)
                            /\ voiceRequest'[q].raced = voiceRequest[q].raced
                            /\ voiceRequest'[q].number = voiceRequest[q].number
    BY <1>4 DEF Untouched, Same, Clones
  <2>3. \A q \in Requests : Uncloning(q, w)' => Uncloning(q, w)
    BY <1>4 DEF Untouched, Uncloning
  <2>4. \A q \in Requests : q # r => voiceRequest'[q].pc = voiceRequest[q].pc
    BY <1>4 DEF Untouched
  <2>5. w # v => cloned'[w] = cloned[w]
    BY <1>2, <1>3 DEF VoicesSound, VoicesTyping
  <2>6. step = "cleanup" \/ cloned'[v] = n
    BY <1>2, <1>3 DEF VoicesSound, VoicesTyping
  <2>7. Clones(r, v) /\ (Clones(r, w) => w = v)
    BY <1>3 DEF Clones
  <2>8. ASSUME NEW q \in Requests, Clones(q, w)', voiceRequest'[q].pc = "insert"
        PROVE  voiceRequest'[q].raced \/ cloned'[w] = voiceRequest'[q].number
    <3>1. CASE q = r
      BY <1>4, <2>2, <2>6, <2>7, <2>8, <3>1
    <3>2. CASE q # r /\ w = v
      <4>1. voiceRequest[q].raced
        BY <2>0, <2>2, <2>7, <2>8, <3>2 DEF Raced
      <4>2. QED BY <2>2, <4>1
    <3>3. CASE q # r /\ w # v
      <4>1. voiceRequest[q].raced \/ cloned[w] = voiceRequest[q].number
        BY <2>0, <2>2, <2>4, <2>8, <3>3 DEF Raced
      <4>2. QED BY <2>2, <2>5, <3>3, <4>1
    <3>4. QED BY <3>1, <3>2, <3>3
  <2>9. ASSUME NEW i \in DOMAIN voices, LiveVoice(i, w)
        PROVE  voices[i].raced \/ cloned'[w] = voices[i].asset
    <3>1. CASE w = v
      BY <2>0, <2>7, <2>9, <3>1 DEF Raced
    <3>2. CASE w # v
      BY <2>0, <2>5, <2>9, <3>2 DEF Raced
    <3>3. QED BY <3>1, <3>2
  <2>10. voices' = voices
    BY <1>1
  <2>11. \A p, q \in Requests : Clones(p, w)' /\ Clones(q, w)' => p = q \/ voiceRequest'[q].raced
    BY <2>0, <2>2 DEF Raced
  <2>12. \A q \in Requests, i \in DOMAIN voices :
            Clones(q, w)' /\ LiveVoice(i, w)' => voiceRequest'[q].raced /\ voices[i].raced
    BY <2>0, <2>1, <2>2 DEF Raced
  <2>13. \A p, q \in Requests : Clones(q, w)' /\ Uncloning(p, w)' => voiceRequest'[q].raced
    BY <2>0, <2>2, <2>3 DEF Raced
  <2>14. /\ \A i, j \in DOMAIN voices : LiveVoice(i, w)' /\ LiveVoice(j, w)' => i = j \/ voices[j].raced
         /\ \A q \in Requests, i \in DOMAIN voices :
                Uncloning(q, w)' /\ LiveVoice(i, w)' => voices[i].raced
    BY <2>0, <2>1, <2>3 DEF Raced
  <2>15. QED BY <2>1, <2>8, <2>9, <2>10, <2>11, <2>12, <2>13, <2>14 DEF Raced
<1>10. VoicesTyping'
  <2>1. cloned' \in [VoiceIds -> 0 .. voicesAsked]
    BY <1>2, <1>3 DEF VoicesSound, VoicesTyping, Works
  <2>2. QED BY <1>1, <1>4, <2>1 DEF VoicesSound, VoicesTyping, Untouched
<1>11. QED BY <1>7, <1>8, <1>9, <1>10 DEF VoicesSound

LEMMA CleanupKeeps ==
    ASSUME VoicesSetup, VoicesSound, NEW r \in Requests, Voicing!Cleanup(r)
    PROVE  VoicesSound'
<1> DEFINE c == voiceRequest[r]
           d == voiceRequest'[r]
           n == c.number
<1>1. /\ c.pc = "cleanup" /\ Voicing!Done(r)
      /\ UNCHANGED <<voices, cloned, voicesAsked, told, cut>>
      /\ \/ files' = files \ {n} /\ leaked' = leaked
         \/ files' = files /\ leaked' = leaked \cup {n}
  BY DEF Voicing!Cleanup, Voicing!At
<1>2. Works(c, voices, voicesAsked) /\ c.kind = "clone" /\ n \in 1 .. voicesAsked
  BY <1>1, IsWorking, KindOf DEF VoicesSound, Works, VoicesTyping
<1>3. Untouched(r) /\ d = Voicing!Idle
  BY <1>1, DoneFacts DEF VoicesSound
<1>4. RowsKept
  BY <1>1 DEF RowsKept
<1>5. Requesting' /\ Streams'
  BY <1>1, <1>2, <1>3, <1>4, WorkKeeps DEF VoicesSound
<1>6. ClonesAlone'
  BY <1>1, <1>3, RacedQuiet, IdleFacts DEF VoicesSound, VoicesSetup
<1>7. \A i \in DOMAIN voices : voices[i].asset # n /\ voices[i].asset # 0
  BY <1>1 DEF VoicesSound, Files, FilesOfRequests, VoicesTyping
<1>8. \A q \in Requests : q # r => voiceRequest'[q] = voiceRequest[q] /\ voiceRequest[q].number # n
  BY <1>1, <1>3, NumbersApart DEF VoicesSound, Untouched
<1>9. 0 \notin files' /\ files' \subseteq files /\ leaked \subseteq leaked'
      /\ \A a \in files \ files' : a = n
  BY <1>1 DEF VoicesSound, VoicesTyping
<1>10. FilesOfRequests'
  BY <1>1, <1>3, <1>7, <1>8, <1>9, IdleFacts DEF VoicesSound, Files, FilesOfRequests, Uploaded
<1>11. FilesOfRows'
  BY <1>1, <1>7, <1>8, <1>9 DEF VoicesSound, Files, FilesOfRows
<1>12. FilesKnown'
  BY <1>1, <1>7, <1>8, <1>9 DEF VoicesSound, Files, FilesKnown
<1>13. VoicesTyping'
  BY <1>1, <1>2, <1>3 DEF VoicesSound, VoicesTyping, Untouched
<1>14. QED BY <1>1, <1>5, <1>6, <1>10, <1>11, <1>12, <1>13 DEF VoicesSound, Files, OneFilePerRow

LEMMA InsertKeeps ==
    ASSUME VoicesSetup, VoicesSound, NEW r \in Requests, Voicing!Insert(r)
    PROVE  VoicesSound'
<1> DEFINE c == voiceRequest[r]
           d == voiceRequest'[r]
           n == c.number
           v == c.voice
           row == [kind |-> IF c.kind = "clone" THEN "voice" ELSE "audio", voice |-> v,
                   owner |-> c.user, asset |-> n, chunks |-> c.chunks,
                   live |-> TRUE, raced |-> c.raced]
<1>0. PICK l \in Nat : l = Len(voices) + 1
  BY DEF VoicesSound, VoicesTyping
<1>1. /\ c.pc = "insert" /\ voices' = Append(voices, row)
      /\ UNCHANGED <<files, cloned, voicesAsked, told, leaked, cut>>
      /\ \/ c.kind = "stream" /\ voiceRequest' = [voiceRequest EXCEPT ![r].pc = "complete", ![r].row = l]
         \/ c.kind # "stream" /\ Voicing!Done(r)
  BY <1>0 DEF Voicing!Insert, Voicing!At
<1>2. Works(c, voices, voicesAsked) /\ c \in Calls /\ c.kind # "delete" /\ n \in 1 .. voicesAsked
      /\ v \in AllVoices /\ (c.kind = "clone" => v \in VoiceIds)
  BY <1>1, IsWorking, KindOf DEF VoicesSound, Works, VoicesTyping, Calls, Kinds, AllVoices
<1>3. row \in Rows
  BY <1>2 DEF Rows, Calls, Works
<1>4. /\ row.kind = (IF c.kind = "clone" THEN "voice" ELSE "audio") /\ row.voice = v
      /\ row.asset = n /\ row.chunks = c.chunks /\ row.live /\ (row.raced <=> c.raced)
  OBVIOUS
<1> HIDE DEF row
<1>5. voices \in Seq(Rows) /\ l \in Nat /\ l \notin DOMAIN voices
  BY <1>0 DEF VoicesSound, VoicesTyping
<1>6. /\ voices' \in Seq(Rows) /\ DOMAIN voices' = DOMAIN voices \cup {l} /\ voices'[l] = row
      /\ \A i \in DOMAIN voices : voices'[i] = voices[i]
  BY <1>0, <1>1, <1>3, <1>5
<1>7. /\ Untouched(r)
      /\ \/ /\ c.kind = "stream" /\ d.pc = "complete" /\ d.kind = c.kind /\ d.number = n
            /\ d.user = c.user /\ d.voice = v /\ d.chunks = c.chunks /\ d.row = l
         \/ c.kind # "stream" /\ d = Voicing!Idle
  <2>1. CASE c.kind = "stream"
    <3> DEFINE e == [c EXCEPT !.pc = "complete", !.row = l]
    <3>1. /\ e \in Calls /\ e.pc = "complete" /\ e.kind = c.kind /\ e.number = n /\ e.row = l
          /\ e.user = c.user /\ e.voice = v /\ e.chunks = c.chunks
      BY <1>2, <1>5 DEF Calls, Voicing!Steps
    <3>2. voiceRequest' = [voiceRequest EXCEPT ![r] = e]
      BY <1>1, <2>1
    <3> HIDE DEF e
    <3>3. QED BY <2>1, <3>1, <3>2 DEF VoicesSound, VoicesTyping, Untouched
  <2>2. CASE c.kind # "stream"
    BY <1>1, <2>2, DoneFacts DEF VoicesSound
  <2>3. QED BY <2>1, <2>2
<1>8. RowsKept
  BY <1>6 DEF RowsKept
<1>9. d = Voicing!Idle \/ Works(d, voices', voicesAsked)
  BY <1>1, <1>2, <1>4, <1>6, <1>7 DEF Works, Flow
<1>10. Requesting' /\ Streams'
  BY <1>1, <1>7, <1>8, <1>9, WorkKeeps
<1>11. \A i \in DOMAIN voices : voices[i].asset # n /\ voices[i].asset # 0
  BY <1>1 DEF VoicesSound, Files, FilesOfRequests, VoicesTyping
<1>12. n \in files
  BY <1>1 DEF VoicesSound, Files, FilesOfRequests
<1>13. \A q \in Requests : q # r => voiceRequest'[q] = voiceRequest[q] /\ voiceRequest[q].number # n
  BY <1>1, <1>7, NumbersApart DEF VoicesSound, Untouched
<1>14. OneFilePerRow'
  BY <1>4, <1>6, <1>11 DEF VoicesSound, Files, OneFilePerRow
<1>15. FilesOfRequests'
  <2> SUFFICES ASSUME NEW q \in Requests
        PROVE  /\ voiceRequest'[q].pc # "complete" => \A i \in DOMAIN voices' : voices'[i].asset # voiceRequest'[q].number
               /\ voiceRequest'[q].pc \in {"provide", "insert"} => voiceRequest'[q].number \in files
               /\ voiceRequest'[q].pc \notin Uploaded \cup {"complete"} => voiceRequest'[q].number \notin files
    BY <1>1 DEF FilesOfRequests
  <2>1. CASE q = r /\ c.kind = "stream"
    BY <1>7, <2>1
  <2>2. CASE q = r /\ c.kind # "stream"
    BY <1>2, <1>4, <1>6, <1>7, <1>11, <2>2, IdleFacts DEF VoicesSound, VoicesTyping
  <2>3. CASE q # r
    BY <1>4, <1>6, <1>13, <2>3 DEF VoicesSound, Files, FilesOfRequests
  <2>4. QED BY <2>1, <2>2, <2>3
<1>16. FilesOfRows'
  <2> SUFFICES ASSUME NEW i \in DOMAIN voices'
        PROVE  /\ voices'[i].live => voices'[i].asset \in files
               /\ \/ voices'[i].live \/ voices'[i].asset \notin files \/ voices'[i].asset \in leaked
                  \/ \E q \in Requests : voiceRequest'[q].pc \in {"unclone", "remove"} /\ voiceRequest'[q].row = i
    BY <1>1 DEF FilesOfRows
  <2>1. CASE i = l
    BY <1>4, <1>6, <1>12, <2>1
  <2>2. CASE i \in DOMAIN voices
    <3>1. CASE \E q \in Requests : voiceRequest[q].pc \in {"unclone", "remove"} /\ voiceRequest[q].row = i
      BY <1>1, <1>6, <1>13, <2>2, <3>1 DEF VoicesSound, Files, FilesOfRows
    <3>2. QED BY <1>6, <2>2, <3>1 DEF VoicesSound, Files, FilesOfRows
  <2>3. QED BY <1>6, <2>1, <2>2
<1>17. FilesKnown'
  <2> SUFFICES ASSUME NEW a \in files \ leaked
        PROVE  \/ \E i \in DOMAIN voices' : voices'[i].asset = a
               \/ \E q \in Requests : voiceRequest'[q].pc \in Uploaded /\ voiceRequest'[q].number = a
    BY <1>1 DEF FilesKnown
  <2>1. CASE a = n
    BY <1>4, <1>6, <2>1
  <2>2. CASE a # n
    BY <1>6, <1>13, <2>2 DEF VoicesSound, Files, FilesKnown
  <2>3. QED BY <2>1, <2>2
<1>18. ClonesAlone'
  <2> SUFFICES ASSUME NEW w \in VoiceIds PROVE Raced(w)'
    BY DEF ClonesAlone
  <2>0. Raced(w)
    BY DEF VoicesSound, ClonesAlone
  <2>1. \A i \in DOMAIN voices : LiveVoice(i, w)' <=> LiveVoice(i, w)
    BY <1>6 DEF LiveVoice
  <2>2. LiveVoice(l, w)' => Clones(r, w)
    BY <1>4, <1>6 DEF LiveVoice, Clones
  <2>3. \A q \in Requests : Clones(q, w)' =>
            q # r /\ Clones(q, w) /\ voiceRequest'[q] = voiceRequest[q]
    BY <1>7, <1>13, IdleFacts DEF Clones, VoicesSetup
  <2>4. \A q \in Requests : Uncloning(q, w)' => Uncloning(q, w)
    BY <1>7, <1>13, IdleFacts DEF Uncloning
  <2>5. voices'[l].raced <=> c.raced
    BY <1>4, <1>6
  <2>6. voices'[l].asset = n
    BY <1>4, <1>6
  <2>7. \A p, q \in Requests : Clones(p, w)' /\ Clones(q, w)' => p = q \/ voiceRequest'[q].raced
    BY <2>0, <2>3 DEF Raced
  <2>8. ASSUME NEW q \in Requests, NEW i \in DOMAIN voices', Clones(q, w)', LiveVoice(i, w)'
        PROVE  voiceRequest'[q].raced /\ voices'[i].raced
    <3>1. CASE i = l
      BY <2>0, <2>2, <2>3, <2>5, <2>8, <3>1 DEF Raced
    <3>2. CASE i \in DOMAIN voices
      BY <1>6, <2>0, <2>1, <2>3, <2>8, <3>2 DEF Raced
    <3>3. QED BY <1>6, <3>1, <3>2
  <2>9. \A p, q \in Requests : Clones(q, w)' /\ Uncloning(p, w)' => voiceRequest'[q].raced
    BY <2>0, <2>3, <2>4 DEF Raced
  <2>10. ASSUME NEW i \in DOMAIN voices', NEW j \in DOMAIN voices', LiveVoice(i, w)', LiveVoice(j, w)'
         PROVE  i = j \/ voices'[j].raced
    <3>1. CASE i = l /\ j \in DOMAIN voices
      BY <1>6, <2>0, <2>1, <2>2, <2>10, <3>1 DEF Raced
    <3>2. CASE i \in DOMAIN voices /\ j = l
      BY <2>0, <2>1, <2>2, <2>5, <2>10, <3>2 DEF Raced
    <3>3. CASE i \in DOMAIN voices /\ j \in DOMAIN voices
      BY <1>6, <2>0, <2>1, <2>10, <3>3 DEF Raced
    <3>4. QED BY <1>6, <3>1, <3>2, <3>3
  <2>11. ASSUME NEW q \in Requests, NEW i \in DOMAIN voices', Uncloning(q, w)', LiveVoice(i, w)'
         PROVE  voices'[i].raced
    <3>1. CASE i = l
      BY <2>0, <2>2, <2>4, <2>5, <2>11, <3>1 DEF Raced
    <3>2. CASE i \in DOMAIN voices
      BY <1>6, <2>0, <2>1, <2>4, <2>11, <3>2 DEF Raced
    <3>3. QED BY <1>6, <3>1, <3>2
  <2>12. \A q \in Requests : Clones(q, w)' /\ voiceRequest'[q].pc = "insert" =>
            voiceRequest'[q].raced \/ cloned[w] = voiceRequest'[q].number
    BY <2>0, <2>3 DEF Raced
  <2>13. ASSUME NEW i \in DOMAIN voices', LiveVoice(i, w)'
         PROVE  voices'[i].raced \/ cloned[w] = voices'[i].asset
    <3>1. CASE i = l
      BY <1>1, <2>0, <2>2, <2>5, <2>6, <2>13, <3>1 DEF Raced
    <3>2. CASE i \in DOMAIN voices
      BY <1>6, <2>0, <2>1, <2>13, <3>2 DEF Raced
    <3>3. QED BY <1>6, <3>1, <3>2
  <2>14. cloned' = cloned
    BY <1>1
  <2>15. QED BY <2>7, <2>8, <2>9, <2>10, <2>11, <2>12, <2>13, <2>14 DEF Raced
<1>19. VoicesTyping'
  BY <1>1, <1>2, <1>4, <1>6, <1>7 DEF VoicesSound, VoicesTyping, Untouched
<1>20. QED BY <1>10, <1>14, <1>15, <1>16, <1>17, <1>18, <1>19 DEF VoicesSound, Files

LEMMA SoftDeleteKeeps ==
    ASSUME VoicesSetup, VoicesSound, NEW r \in Requests, Voicing!SoftDelete(r)
    PROVE  VoicesSound'
<1> DEFINE c == voiceRequest[r]
           d == voiceRequest'[r]
           i == c.row
           gone == [voices[i] EXCEPT !.live = FALSE]
           step == IF voices[i].kind = "voice" THEN "unclone" ELSE "remove"
<1>1. /\ c.pc = "soft" /\ voices' = [voices EXCEPT ![i] = gone]
      /\ UNCHANGED <<files, cloned, voicesAsked, told, leaked, cut>>
      /\ \/ ~voices[i].live /\ Voicing!Done(r)
         \/ voices[i].live /\ Voicing!Goto(r, step)
  BY DEF Voicing!SoftDelete, Voicing!At
<1>2. Works(c, voices, voicesAsked) /\ c \in Calls /\ c.kind = "delete" /\ i \in DOMAIN voices
      /\ c.voice = IF voices[i].kind = "voice" THEN voices[i].voice ELSE None
  BY <1>1, IsWorking, KindOf DEF VoicesSound, Works, VoicesTyping
<1>3. voices[i] \in Rows /\ voices \in Seq(Rows)
  BY <1>2 DEF VoicesSound, VoicesTyping
<1>4. /\ gone \in Rows /\ ~gone.live /\ gone.kind = voices[i].kind /\ gone.voice = voices[i].voice
      /\ gone.asset = voices[i].asset /\ gone.chunks = voices[i].chunks
      /\ (gone.raced <=> voices[i].raced) /\ gone.raced = voices[i].raced
  BY <1>3 DEF Rows
<1>5. step \in {"unclone", "remove"} /\ (step = "unclone" <=> voices[i].kind = "voice")
  OBVIOUS
<1> HIDE DEF gone, step
<1>6. /\ voices' \in Seq(Rows) /\ DOMAIN voices' = DOMAIN voices /\ voices'[i] = gone
      /\ \A j \in DOMAIN voices : j # i => voices'[j] = voices[j]
  BY <1>1, <1>2, <1>3, <1>4
<1>7. RowsKept
  BY <1>4, <1>6 DEF RowsKept
<1>8. /\ Untouched(r)
      /\ \/ ~voices[i].live /\ d = Voicing!Idle
         \/ voices[i].live /\ d.pc = step /\ Same(c, d)
  <2>1. CASE Voicing!Done(r) /\ ~voices[i].live
    BY <2>1, DoneFacts DEF VoicesSound
  <2>2. CASE Voicing!Goto(r, step) /\ voices[i].live
    BY <1>5, <2>2, GotoFacts DEF VoicesSound, Voicing!Steps
  <2>3. QED BY <1>1, <2>1, <2>2
<1>9. d = Voicing!Idle \/ Works(d, voices', voicesAsked)
  <2>1. CASE d.pc = step /\ Same(c, d)
    BY <1>2, <1>4, <1>5, <1>6, <2>1 DEF Works, Same, Flow
  <2>2. QED BY <1>8, <2>1
<1>10. Requesting' /\ Streams'
  BY <1>1, <1>2, <1>5, <1>7, <1>8, <1>9, WorkKeeps DEF Same
<1>11. \A q \in Requests : q # r => voiceRequest'[q] = voiceRequest[q]
  BY <1>8 DEF Untouched
<1>12. \A j \in DOMAIN voices : voices'[j].asset = voices[j].asset /\ (j # i => voices'[j].live = voices[j].live)
  BY <1>4, <1>6
<1>13. d.number \in {0, c.number} /\ d.pc \notin Uploaded \cup {"complete"}
  BY <1>5, <1>8, IdleFacts DEF Same, Uploaded
<1>14. OneFilePerRow'
  BY <1>6, <1>12 DEF VoicesSound, Files, OneFilePerRow
<1>15. FilesOfRequests'
  <2>1. \A j \in DOMAIN voices : voices[j].asset # 0
    BY DEF VoicesSound, VoicesTyping
  <2>2. 0 \notin files
    BY DEF VoicesSound, VoicesTyping
  <2>3. c.number \notin files /\ \A j \in DOMAIN voices : voices[j].asset # c.number
    BY <1>1 DEF VoicesSound, Files, FilesOfRequests, Uploaded
  <2>4. QED BY <1>1, <1>6, <1>11, <1>12, <1>13, <2>1, <2>2, <2>3
            DEF VoicesSound, Files, FilesOfRequests, Uploaded
<1>16. FilesOfRows'
  <2> SUFFICES ASSUME NEW j \in DOMAIN voices
        PROVE  /\ voices'[j].live => voices'[j].asset \in files
               /\ \/ voices'[j].live \/ voices'[j].asset \notin files \/ voices'[j].asset \in leaked
                  \/ \E q \in Requests : voiceRequest'[q].pc \in {"unclone", "remove"} /\ voiceRequest'[q].row = j
    BY <1>1, <1>6 DEF FilesOfRows
  <2>0. /\ voices[j].live => voices[j].asset \in files
        /\ \/ voices[j].live \/ voices[j].asset \notin files \/ voices[j].asset \in leaked
           \/ \E q \in Requests : voiceRequest[q].pc \in {"unclone", "remove"} /\ voiceRequest[q].row = j
    BY DEF VoicesSound, Files, FilesOfRows
  <2>1. CASE j = i /\ voices[i].live
    <3>1. voiceRequest'[r].pc \in {"unclone", "remove"} /\ voiceRequest'[r].row = j
      BY <1>5, <1>8, <2>1 DEF Same
    <3>2. QED BY <1>4, <1>6, <2>1, <3>1
  <2>2. CASE j # i \/ ~voices[i].live
    <3>1. voices'[j].live <=> voices[j].live
      BY <1>4, <1>6, <2>2
    <3>2. CASE \E q \in Requests : voiceRequest[q].pc \in {"unclone", "remove"} /\ voiceRequest[q].row = j
      BY <1>1, <1>11, <1>12, <2>0, <3>1, <3>2
    <3>3. QED BY <1>12, <2>0, <3>1, <3>2
  <2>3. QED BY <2>1, <2>2
<1>17. FilesKnown'
  BY <1>1, <1>6, <1>11, <1>12 DEF VoicesSound, Files, FilesKnown, Uploaded
<1>18. ClonesAlone'
  <2> SUFFICES ASSUME NEW w \in VoiceIds PROVE Raced(w)'
    BY DEF ClonesAlone
  <2>0. Raced(w)
    BY DEF VoicesSound, ClonesAlone
  <2>1. \A j \in DOMAIN voices : LiveVoice(j, w)' =>
            LiveVoice(j, w) /\ j # i /\ voices'[j] = voices[j]
    BY <1>4, <1>6 DEF LiveVoice
  <2>2. \A q \in Requests : Clones(q, w)' =>
            q # r /\ Clones(q, w) /\ voiceRequest'[q] = voiceRequest[q]
    BY <1>2, <1>8, <1>11, IdleFacts DEF Clones, VoicesSetup, Same
  <2>3. \A q \in Requests : Uncloning(q, w)' => Uncloning(q, w) \/ LiveVoice(i, w)
    BY <1>2, <1>5, <1>8, <1>11, IdleFacts DEF Uncloning, LiveVoice, Same
  <2>4. \A p, q \in Requests : Clones(p, w)' /\ Clones(q, w)' => p = q \/ voiceRequest'[q].raced
    BY <2>0, <2>2 DEF Raced
  <2>5. \A q \in Requests, j \in DOMAIN voices :
            Clones(q, w)' /\ LiveVoice(j, w)' => voiceRequest'[q].raced /\ voices'[j].raced
    BY <2>0, <2>1, <2>2 DEF Raced
  <2>6. \A p, q \in Requests : Clones(q, w)' /\ Uncloning(p, w)' => voiceRequest'[q].raced
    BY <1>2, <2>0, <2>2, <2>3 DEF Raced
  <2>7. \A j, k \in DOMAIN voices : LiveVoice(j, w)' /\ LiveVoice(k, w)' => j = k \/ voices'[k].raced
    BY <2>0, <2>1 DEF Raced
  <2>8. \A q \in Requests, j \in DOMAIN voices :
            Uncloning(q, w)' /\ LiveVoice(j, w)' => voices'[j].raced
    BY <1>2, <2>0, <2>1, <2>3 DEF Raced
  <2>9. \A q \in Requests : Clones(q, w)' /\ voiceRequest'[q].pc = "insert" =>
            voiceRequest'[q].raced \/ cloned[w] = voiceRequest'[q].number
    BY <2>0, <2>2 DEF Raced
  <2>10. \A j \in DOMAIN voices : LiveVoice(j, w)' => voices'[j].raced \/ cloned[w] = voices'[j].asset
    BY <2>0, <2>1 DEF Raced
  <2>11. cloned' = cloned /\ DOMAIN voices' = DOMAIN voices
    BY <1>1, <1>6
  <2>12. QED BY <2>4, <2>5, <2>6, <2>7, <2>8, <2>9, <2>10, <2>11 DEF Raced
<1>19. VoicesTyping'
  BY <1>1, <1>4, <1>6, <1>8 DEF VoicesSound, VoicesTyping, Untouched
<1>20. QED BY <1>10, <1>14, <1>15, <1>16, <1>17, <1>18, <1>19 DEF VoicesSound, Files

LEMMA UncloneKeeps ==
    ASSUME VoicesSetup, VoicesSound, NEW r \in Requests, Voicing!Unclone(r)
    PROVE  VoicesSound'
<1> DEFINE c == voiceRequest[r]
           d == voiceRequest'[r]
           i == c.row
           v == c.voice
<1>1. /\ c.pc = "unclone" /\ cloned' = [cloned EXCEPT ![v] = 0]
      /\ UNCHANGED <<voices, files, voicesAsked, told, cut>>
      /\ \/ Voicing!Goto(r, "remove") /\ leaked' = leaked
         \/ Voicing!Done(r) /\ leaked' = leaked \cup {voices[i].asset}
  BY DEF Voicing!Unclone, Voicing!At
<1>2. Works(c, voices, voicesAsked) /\ c \in Calls /\ c.kind = "delete" /\ i \in DOMAIN voices
      /\ voices[i].kind = "voice" /\ v = voices[i].voice /\ ~voices[i].live
  BY <1>1, IsWorking, KindOf DEF VoicesSound, Works, VoicesTyping
<1>3. v \in VoiceIds /\ voices[i].asset \in 1 .. voicesAsked
  BY <1>2 DEF VoicesSound, VoicesTyping
<1>4. /\ Untouched(r)
      /\ \/ d.pc = "remove" /\ Same(c, d) /\ leaked' = leaked
         \/ d = Voicing!Idle /\ leaked' = leaked \cup {voices[i].asset}
  <2>1. CASE Voicing!Goto(r, "remove") /\ leaked' = leaked
    BY <2>1, GotoFacts DEF VoicesSound, Voicing!Steps
  <2>2. CASE Voicing!Done(r) /\ leaked' = leaked \cup {voices[i].asset}
    BY <2>2, DoneFacts DEF VoicesSound
  <2>3. QED BY <1>1, <2>1, <2>2
<1>5. RowsKept
  BY <1>1 DEF RowsKept
<1>6. d = Voicing!Idle \/ Works(d, voices', voicesAsked)
  <2>1. CASE d.pc = "remove" /\ Same(c, d)
    BY <1>1, <1>2, <2>1 DEF Works, Same, Flow
  <2>2. QED BY <1>4, <2>1
<1>7. Requesting' /\ Streams'
  BY <1>1, <1>2, <1>4, <1>5, <1>6, WorkKeeps DEF Same
<1>8. \A q \in Requests : q # r => voiceRequest'[q] = voiceRequest[q]
  BY <1>4 DEF Untouched
<1>9. d.number \in {0, c.number} /\ d.pc \notin Uploaded \cup {"complete"}
  BY <1>4, IdleFacts DEF Same, Uploaded
<1>10. FilesOfRequests'
  <2>1. \A j \in DOMAIN voices : voices[j].asset # 0
    BY DEF VoicesSound, VoicesTyping
  <2>2. 0 \notin files
    BY DEF VoicesSound, VoicesTyping
  <2>3. c.number \notin files /\ \A j \in DOMAIN voices : voices[j].asset # c.number
    BY <1>1 DEF VoicesSound, Files, FilesOfRequests, Uploaded
  <2>4. QED BY <1>1, <1>8, <1>9, <2>1, <2>2, <2>3
            DEF VoicesSound, Files, FilesOfRequests, Uploaded
<1>11. FilesOfRows'
  <2> SUFFICES ASSUME NEW j \in DOMAIN voices
        PROVE  /\ voices[j].live => voices[j].asset \in files
               /\ \/ voices[j].live \/ voices[j].asset \notin files \/ voices[j].asset \in leaked'
                  \/ \E q \in Requests : voiceRequest'[q].pc \in {"unclone", "remove"} /\ voiceRequest'[q].row = j
    BY <1>1 DEF FilesOfRows
  <2>0. /\ voices[j].live => voices[j].asset \in files
        /\ \/ voices[j].live \/ voices[j].asset \notin files \/ voices[j].asset \in leaked
           \/ \E q \in Requests : voiceRequest[q].pc \in {"unclone", "remove"} /\ voiceRequest[q].row = j
    BY DEF VoicesSound, Files, FilesOfRows
  <2>1. CASE j = i
    BY <1>4, <2>0, <2>1 DEF Same
  <2>2. CASE j # i
    <3>1. CASE \E q \in Requests : voiceRequest[q].pc \in {"unclone", "remove"} /\ voiceRequest[q].row = j
      BY <1>8, <2>0, <2>2, <3>1
    <3>2. QED BY <1>4, <2>0, <3>1
  <2>3. QED BY <2>1, <2>2
<1>12. FilesKnown'
  <2>1. leaked \subseteq leaked'
    BY <1>4
  <2>2. QED BY <1>1, <1>8, <2>1 DEF VoicesSound, Files, FilesKnown, Uploaded
<1>13. ClonesAlone'
  <2> SUFFICES ASSUME NEW w \in VoiceIds PROVE Raced(w)'
    BY DEF ClonesAlone
  <2>0. Raced(w)
    BY DEF VoicesSound, ClonesAlone
  <2>1. \A j \in DOMAIN voices : LiveVoice(j, w)' <=> LiveVoice(j, w)
    BY <1>1 DEF LiveVoice
  <2>2. \A q \in Requests : Clones(q, w)' =>
            q # r /\ Clones(q, w) /\ voiceRequest'[q] = voiceRequest[q]
    BY <1>2, <1>4, <1>8, IdleFacts DEF Clones, VoicesSetup, Same
  <2>3. \A q \in Requests : Uncloning(q, w)' => Uncloning(q, w)
    BY <1>4, <1>8, IdleFacts DEF Uncloning
  <2>4. \/ w = v /\ Uncloning(r, w)
        \/ cloned'[w] = cloned[w]
    BY <1>1, <1>3 DEF Uncloning, VoicesSound, VoicesTyping
  <2>5. \A q \in Requests : Clones(q, w)' /\ voiceRequest'[q].pc = "insert" =>
            voiceRequest'[q].raced \/ cloned'[w] = voiceRequest'[q].number
    BY <2>0, <2>2, <2>4 DEF Raced
  <2>6. \A j \in DOMAIN voices : LiveVoice(j, w) => voices[j].raced \/ cloned'[w] = voices[j].asset
    BY <2>0, <2>4 DEF Raced
  <2>7. voices' = voices
    BY <1>1
  <2>8. /\ \A p, q \in Requests : Clones(p, w)' /\ Clones(q, w)' => p = q \/ voiceRequest'[q].raced
        /\ \A q \in Requests, j \in DOMAIN voices :
            Clones(q, w)' /\ LiveVoice(j, w) => voiceRequest'[q].raced /\ voices[j].raced
        /\ \A p, q \in Requests : Clones(q, w)' /\ Uncloning(p, w)' => voiceRequest'[q].raced
        /\ \A q \in Requests, j \in DOMAIN voices :
            Uncloning(q, w)' /\ LiveVoice(j, w) => voices[j].raced
    BY <2>0, <2>2, <2>3 DEF Raced
  <2>9. \A j, k \in DOMAIN voices : LiveVoice(j, w) /\ LiveVoice(k, w) => j = k \/ voices[k].raced
    BY <2>0 DEF Raced
  <2>10. QED BY <2>1, <2>5, <2>6, <2>7, <2>8, <2>9 DEF Raced
<1>14. VoicesTyping'
  <2>0. 0 \in 0 .. voicesAsked /\ cloned \in [VoiceIds -> 0 .. voicesAsked]
    BY DEF VoicesSound, VoicesTyping
  <2>1. cloned' \in [VoiceIds -> 0 .. voicesAsked]
    BY <1>1, <2>0
  <2>2. leaked' \subseteq 1 .. voicesAsked
    BY <1>3, <1>4 DEF VoicesSound, VoicesTyping
  <2>3. QED BY <1>1, <1>4, <2>1, <2>2 DEF VoicesSound, VoicesTyping, Untouched
<1>15. QED BY <1>1, <1>7, <1>10, <1>11, <1>12, <1>13, <1>14 DEF VoicesSound, Files,
              OneFilePerRow

LEMMA RemoveAssetKeeps ==
    ASSUME VoicesSetup, VoicesSound, NEW r \in Requests, Voicing!RemoveAsset(r)
    PROVE  VoicesSound'
<1> DEFINE c == voiceRequest[r]
           d == voiceRequest'[r]
           i == c.row
           a == voices[i].asset
<1>1. /\ c.pc = "remove" /\ Voicing!Done(r) /\ files' = files \ {a}
      /\ UNCHANGED <<voices, cloned, voicesAsked, told, leaked, cut>>
  BY DEF Voicing!RemoveAsset, Voicing!At
<1>2. c.kind = "delete" /\ i \in DOMAIN voices /\ ~voices[i].live
  BY <1>1, IsWorking, KindOf DEF VoicesSound, Works, VoicesTyping
<1>3. Untouched(r) /\ d = Voicing!Idle
  BY <1>1, DoneFacts DEF VoicesSound
<1>4. RowsKept
  BY <1>1 DEF RowsKept
<1>5. Requesting' /\ Streams'
  BY <1>1, <1>2, <1>3, <1>4, WorkKeeps DEF VoicesSound
<1>6. ClonesAlone'
  BY <1>1, <1>3, RacedQuiet, IdleFacts DEF VoicesSound, VoicesSetup
<1>7. \A q \in Requests : q # r => voiceRequest'[q] = voiceRequest[q]
  BY <1>3 DEF Untouched
<1>8. FilesOfRequests'
  <2>1. \A j \in DOMAIN voices : voices[j].asset # 0
    BY DEF VoicesSound, VoicesTyping
  <2>2. 0 \notin files
    BY DEF VoicesSound, VoicesTyping
  <2>3. \A q \in Requests : voiceRequest[q].pc # "complete" => voiceRequest[q].number # a
    BY <1>2 DEF VoicesSound, Files, FilesOfRequests
  <2>4. QED BY <1>1, <1>3, <1>7, <2>1, <2>2, <2>3, IdleFacts
            DEF VoicesSound, Files, FilesOfRequests, Uploaded
<1>9. FilesOfRows'
  <2> SUFFICES ASSUME NEW j \in DOMAIN voices
        PROVE  /\ voices[j].live => voices[j].asset \in files'
               /\ \/ voices[j].live \/ voices[j].asset \notin files' \/ voices[j].asset \in leaked
                  \/ \E q \in Requests : voiceRequest'[q].pc \in {"unclone", "remove"} /\ voiceRequest'[q].row = j
    BY <1>1 DEF FilesOfRows
  <2>0. /\ voices[j].live => voices[j].asset \in files
        /\ \/ voices[j].live \/ voices[j].asset \notin files \/ voices[j].asset \in leaked
           \/ \E q \in Requests : voiceRequest[q].pc \in {"unclone", "remove"} /\ voiceRequest[q].row = j
    BY DEF VoicesSound, Files, FilesOfRows
  <2>1. CASE j = i
    BY <1>1, <1>2, <2>1
  <2>2. CASE j # i
    <3>1. voices[j].asset # a
      BY <1>2, <2>2 DEF VoicesSound, Files, OneFilePerRow
    <3>2. CASE \E q \in Requests : voiceRequest[q].pc \in {"unclone", "remove"} /\ voiceRequest[q].row = j
      BY <1>1, <1>7, <2>0, <2>2, <3>1, <3>2
    <3>3. QED BY <1>1, <2>0, <3>1, <3>2
  <2>3. QED BY <2>1, <2>2
<1>10. FilesKnown'
  BY <1>1, <1>7 DEF VoicesSound, Files, FilesKnown, Uploaded
<1>11. VoicesTyping'
  BY <1>1, <1>3 DEF VoicesSound, VoicesTyping, Untouched
<1>12. QED BY <1>1, <1>5, <1>6, <1>8, <1>9, <1>10, <1>11 DEF VoicesSound, Files, OneFilePerRow

LEMMA RequestFailsKeeps ==
    ASSUME VoicesSetup, VoicesSound, NEW r \in Requests, Voicing!RequestFails(r)
    PROVE  VoicesSound'
<1> DEFINE c == voiceRequest[r]
           d == voiceRequest'[r]
           n == c.number
           i == c.row
           more == CASE Voicing!At(r, "upload") \/ Voicing!At(r, "insert") -> {n}
                     [] Voicing!At(r, "unclone") \/ Voicing!At(r, "remove") -> {voices[i].asset}
                     [] OTHER -> {}
<1>1. /\ c.pc \notin {"idle", "provide", "cleanup"}
      /\ files' \in {files, files \cup {m \in {n} : Voicing!At(r, "upload")}}
      /\ leaked' = leaked \cup more
      /\ UNCHANGED <<voices, cloned, voicesAsked>>
      /\ \/ Voicing!Raise(r) /\ UNCHANGED cut
         \/ Voicing!Done(r) /\ UNCHANGED told /\ cut' = cut \cup {m \in {n} : c.kind = "stream"}
  BY DEF Voicing!RequestFails
<1>2. Works(c, voices, voicesAsked) /\ n \in 1 .. voicesAsked /\ c \in Calls
  BY <1>1, IsWorking DEF VoicesSound, Works, VoicesTyping
<1>3. /\ c.pc \in {"upload", "insert"} => more = {n}
      /\ c.pc \in {"unclone", "remove"} => more = {voices[i].asset}
      /\ more \subseteq 1 .. voicesAsked
  <2>1. c.pc \in {"unclone", "remove"} => i \in DOMAIN voices
    BY <1>2, KindOf DEF Works
  <2>2. \A j \in DOMAIN voices : voices[j].asset \in 1 .. voicesAsked
    BY DEF VoicesSound, VoicesTyping
  <2>3. QED BY <1>2, <2>1, <2>2 DEF Voicing!At
<1> HIDE DEF more
<1>4. RowsKept
  BY <1>1 DEF RowsKept
<1>5. Untouched(r) /\ d = Voicing!Idle
  BY <1>1, DoneFacts DEF VoicesSound, Voicing!Raise
<1>6. VoicesOthers(r) /\ voicesAsked \in Nat
  BY <1>5, UntouchedOthers DEF VoicesSound, VoicesTyping
<1>7. Requesting'
  BY <1>1, <1>4, <1>5, <1>6, RequestingStep DEF VoicesSound
<1>8. Streams' /\ told' \in Seq(Seq(Events)) /\ Len(told') = voicesAsked
  <2>1. CASE Voicing!Raise(r) /\ UNCHANGED cut
    BY <1>1, <2>1, RaiseFacts
  <2>2. CASE UNCHANGED told /\ cut' = cut \cup {m \in {n} : c.kind = "stream"}
    <3>1. \A q \in Requests : Told(q)'
      BY <1>5, <2>2, IdleFacts DEF VoicesSound, Streams, Told, Untouched
    <3>2. ASSUME NEW m \in 1 .. voicesAsked PROVE Outcome(m)'
      <4>1. Outcome(m)
        BY DEF VoicesSound, Streams
      <4>2. CASE m = n /\ c.kind # "stream"
        <5>1. told[m] = <<>>
          BY <1>1, <4>2 DEF VoicesSound, Streams, Told
        <5>2. QED BY <2>2, <5>1 DEF Outcome
      <4>3. CASE m = n /\ c.kind = "stream"
        BY <1>1, <2>2, <4>1, <4>3 DEF Outcome
      <4>4. CASE m # n
        <5>1. \A q \in Requests : voiceRequest[q].number = m => voiceRequest'[q].number = m
          BY <1>5, <4>4 DEF Untouched
        <5>2. cut \subseteq cut'
          BY <2>2
        <5>3. QED BY <1>4, <2>2, <4>1, <5>1, <5>2, OutcomeKept
      <4>5. QED BY <4>2, <4>3, <4>4
    <3>3. QED BY <1>1, <2>2, <3>1, <3>2 DEF VoicesSound, Streams, VoicesTyping
  <2>3. QED BY <1>1, <2>1, <2>2
<1>9. ClonesAlone'
  BY <1>1, <1>5, RacedQuiet, IdleFacts DEF VoicesSound, VoicesSetup
<1>10. \A q \in Requests : q # r => voiceRequest'[q] = voiceRequest[q] /\ voiceRequest[q].number # n
  BY <1>1, <1>5, NumbersApart DEF VoicesSound, Untouched
<1>11. /\ files \subseteq files' /\ (c.pc # "upload" => files' = files)
       /\ \A a \in files' \ files : a = n
  BY <1>1 DEF Voicing!At
<1>12. c.pc # "complete" => \A j \in DOMAIN voices : voices[j].asset # n
  BY DEF VoicesSound, Files, FilesOfRequests
<1>13. FilesOfRequests'
  <2>1. \A j \in DOMAIN voices : voices[j].asset # 0
    BY DEF VoicesSound, VoicesTyping
  <2>2. 0 \notin files'
    BY <1>2, <1>6, <1>11 DEF VoicesSound, VoicesTyping
  <2>3. QED BY <1>1, <1>5, <1>10, <1>11, <2>1, <2>2, IdleFacts
            DEF VoicesSound, Files, FilesOfRequests, Uploaded
<1>14. FilesOfRows'
  <2> SUFFICES ASSUME NEW j \in DOMAIN voices
        PROVE  /\ voices[j].live => voices[j].asset \in files'
               /\ \/ voices[j].live \/ voices[j].asset \notin files' \/ voices[j].asset \in leaked'
                  \/ \E q \in Requests : voiceRequest'[q].pc \in {"unclone", "remove"} /\ voiceRequest'[q].row = j
    BY <1>1 DEF FilesOfRows
  <2>0. /\ voices[j].live => voices[j].asset \in files
        /\ \/ voices[j].live \/ voices[j].asset \notin files \/ voices[j].asset \in leaked
           \/ \E q \in Requests : voiceRequest[q].pc \in {"unclone", "remove"} /\ voiceRequest[q].row = j
    BY DEF VoicesSound, Files, FilesOfRows
  <2>1. voices[j].asset \in files' => voices[j].asset \in files
    BY <1>11, <1>12
  <2>2. CASE \E q \in Requests : q # r /\ voiceRequest[q].pc \in {"unclone", "remove"} /\ voiceRequest[q].row = j
    BY <1>10, <1>11, <2>0, <2>2
  <2>3. CASE voiceRequest[r].pc \in {"unclone", "remove"} /\ voiceRequest[r].row = j
    BY <1>1, <1>3, <1>11, <2>0, <2>3
  <2>4. QED BY <1>1, <1>11, <2>0, <2>1, <2>2, <2>3
<1>15. FilesKnown'
  <2> SUFFICES ASSUME NEW a \in files' \ leaked'
        PROVE  \/ \E j \in DOMAIN voices : voices[j].asset = a
               \/ \E q \in Requests : voiceRequest'[q].pc \in Uploaded /\ voiceRequest'[q].number = a
    BY <1>1 DEF FilesKnown
  <2>1. CASE a = n /\ c.pc \in {"upload", "insert"}
    BY <1>1, <1>3, <2>1
  <2>2. CASE a \in files /\ ~(a = n /\ c.pc \in {"upload", "insert"})
    <3>1. a \in files \ leaked
      BY <1>1, <2>2
    <3>2. CASE \E q \in Requests : voiceRequest[q].pc \in Uploaded /\ voiceRequest[q].number = a
      <4>1. PICK q \in Requests : voiceRequest[q].pc \in Uploaded /\ voiceRequest[q].number = a
        BY <3>2
      <4>2. q # r
        BY <1>1, <2>2, <4>1 DEF Uploaded
      <4>3. QED BY <1>10, <4>1, <4>2
    <3>3. QED BY <3>1, <3>2 DEF VoicesSound, Files, FilesKnown
  <2>3. QED BY <1>11, <2>1, <2>2
<1>16. VoicesTyping'
  BY <1>1, <1>2, <1>3, <1>5, <1>8, <1>11 DEF VoicesSound, VoicesTyping, Untouched
<1>17. QED BY <1>1, <1>7, <1>8, <1>9, <1>13, <1>14, <1>15, <1>16 DEF VoicesSound, Files,
              OneFilePerRow

-----------------------------------------------------------------------------
(* The invariant.                                                           *)

LEMMA VoicesSoundInit == VoicesSetup /\ Voicing!Init => VoicesSound
<1> SUFFICES ASSUME VoicesSetup, Voicing!Init PROVE VoicesSound
  OBVIOUS
<1>1. /\ voices = <<>> /\ files = {} /\ voicesAsked = 0 /\ told = <<>> /\ leaked = {} /\ cut = {}
      /\ cloned = [v \in VoiceIds |-> 0] /\ voiceRequest = [r \in Requests |-> Voicing!Idle]
  BY DEF Voicing!Init
<1>2. DOMAIN voices = {}
  BY <1>1
<1>3. \A r \in Requests : voiceRequest[r] = Voicing!Idle
  BY <1>1
<1>4. VoicesTyping
  BY <1>1, <1>2, IdleFacts DEF VoicesTyping
<1>5. Requesting
  BY <1>3 DEF Requesting
<1>6. Files
  BY <1>1, <1>2, <1>3, IdleFacts DEF Files, OneFilePerRow, FilesOfRequests, FilesOfRows,
     FilesKnown
<1>7. ClonesAlone
  BY <1>2, <1>3, IdleFacts DEF ClonesAlone, Raced, Clones, Uncloning, LiveVoice, VoicesSetup
<1>8. Streams
  BY <1>1, <1>3, IdleFacts DEF Streams, Told
<1>9. QED BY <1>4, <1>5, <1>6, <1>7, <1>8 DEF VoicesSound

LEMMA SoundIdle == VoicesSound /\ UNCHANGED Voicing!voiceVars => VoicesSound'
<1> SUFFICES ASSUME VoicesSound, UNCHANGED Voicing!voiceVars PROVE VoicesSound'
  OBVIOUS
<1> USE DEF Voicing!voiceVars
<1>1. VoicesTyping' /\ Requesting'
  BY DEF VoicesSound, VoicesTyping, Requesting
<1>2. Files'
  BY DEF VoicesSound, Files, OneFilePerRow, FilesOfRequests, FilesOfRows, FilesKnown
<1>3. ClonesAlone'
  BY DEF VoicesSound, ClonesAlone, Raced, Clones, Uncloning, LiveVoice
<1>4. Streams'
  BY DEF VoicesSound, Streams, Told, Outcome
<1>5. QED BY <1>1, <1>2, <1>3, <1>4 DEF VoicesSound

LEMMA VoicesSoundStep == VoicesSetup /\ VoicesSound /\ [Voicing!Next]_(Voicing!voiceVars) => VoicesSound'
<1> SUFFICES ASSUME VoicesSetup, VoicesSound, [Voicing!Next]_(Voicing!voiceVars) PROVE VoicesSound'
  OBVIOUS
<1>1. CASE UNCHANGED Voicing!voiceVars
  BY <1>1, SoundIdle
<1>2. CASE Voicing!Next
  <2>1. PICK r \in Requests :
            \/ Voicing!BeginClone(r) \/ Voicing!BeginDelete(r) \/ Voicing!BeginSpeech(r)
            \/ Voicing!Upload(r) \/ Voicing!Provide(r) \/ Voicing!Cleanup(r) \/ Voicing!Insert(r)
            \/ Voicing!SoftDelete(r) \/ Voicing!Unclone(r) \/ Voicing!RemoveAsset(r)
            \/ Voicing!EmitStarted(r) \/ Voicing!ValidateVoiceAccess(r) \/ Voicing!SpeakChunk(r) \/ Voicing!EndSpeech(r)
            \/ Voicing!EmitCompleted(r) \/ Voicing!RequestFails(r)
    BY <1>2 DEF Voicing!Next
  <2>2. QED
    BY <2>1, BeginCloneKeeps, BeginDeleteKeeps, BeginSpeechKeeps, UploadKeeps, ProvideKeeps,
       CleanupKeeps, InsertKeeps, SoftDeleteKeeps, UncloneKeeps, RemoveAssetKeeps,
       EmitStartedKeeps, ValidateVoiceAccessKeeps, SpeakChunkKeeps, EndSpeechKeeps,
       EmitCompletedKeeps, RequestFailsKeeps
<1>3. QED BY <1>1, <1>2

LEMMA VoicesSoundTells ==
    VoicesSetup /\ VoicesSound => Voicing!TypeOK /\ Voicing!RowsHaveTheirFiles /\ Voicing!NoFileForgotten /\ Voicing!StreamsTellTheirOutcome
<1> SUFFICES ASSUME VoicesSetup, VoicesSound
             PROVE  Voicing!TypeOK /\ Voicing!RowsHaveTheirFiles /\ Voicing!NoFileForgotten /\ Voicing!StreamsTellTheirOutcome
  OBVIOUS
<1>1. Voicing!TypeOK
  <2>1. \A i \in DOMAIN voices : voices[i] \in Rows
    BY DEF VoicesSound, VoicesTyping
  <2>2. \A r \in Requests : voiceRequest[r] \in Calls /\ voiceRequest[r].number \in 0 .. voicesAsked
    BY IdleFacts DEF VoicesSound, VoicesTyping, Requesting, Works
  <2>3. QED BY <2>1, <2>2 DEF Voicing!TypeOK, VoicesSound, VoicesTyping, Rows, Calls, AllVoices
<1>2. Voicing!RowsHaveTheirFiles
  <2> SUFFICES ASSUME NEW i \in DOMAIN voices, voices[i].live
        PROVE  /\ voices[i].asset \in files
               /\ voices[i].kind = "voice" /\ ~voices[i].raced => cloned[voices[i].voice] = voices[i].asset
    BY DEF Voicing!RowsHaveTheirFiles
  <2>1. voices[i].asset \in files
    BY DEF VoicesSound, Files, FilesOfRows
  <2>2. ASSUME voices[i].kind = "voice", ~voices[i].raced
        PROVE  cloned[voices[i].voice] = voices[i].asset
    <3>1. voices[i].voice \in VoiceIds /\ LiveVoice(i, voices[i].voice)
      BY <2>2 DEF VoicesSound, VoicesTyping, LiveVoice
    <3>2. QED BY <2>2, <3>1 DEF VoicesSound, ClonesAlone, Raced
  <2>3. QED BY <2>1, <2>2
<1>3. Voicing!NoFileForgotten
  <2> SUFFICES ASSUME NEW a \in files \ leaked
        PROVE  \/ \E i \in DOMAIN voices : voices[i].asset = a /\
                    (voices[i].live \/ \E r \in Requests : voiceRequest[r].kind = "delete" /\ voiceRequest[r].row = i)
               \/ \E r \in Requests : voiceRequest[r].number = a
    BY DEF Voicing!NoFileForgotten
  <2>1. CASE \E i \in DOMAIN voices : voices[i].asset = a
    <3>1. PICK i \in DOMAIN voices : voices[i].asset = a
      BY <2>1
    <3>2. CASE \E r \in Requests : voiceRequest[r].pc \in {"unclone", "remove"} /\ voiceRequest[r].row = i
      <4>1. PICK r \in Requests : voiceRequest[r].pc \in {"unclone", "remove"} /\ voiceRequest[r].row = i
        BY <3>2
      <4>2. voiceRequest[r].kind = "delete"
        BY <4>1, IsWorking, KindOf DEF VoicesSound, Works, VoicesTyping
      <4>3. QED BY <3>1, <4>1, <4>2
    <3>3. QED BY <3>1, <3>2 DEF VoicesSound, Files, FilesOfRows
  <2>2. QED BY <2>1 DEF VoicesSound, Files, FilesKnown
<1>4. Voicing!StreamsTellTheirOutcome
  <2> SUFFICES ASSUME NEW n \in 1 .. voicesAsked, told[n] # <<>>
        PROVE  /\ InOrder(told[n], Len(told[n]) - 1)
               /\ told[n][Len(told[n])].event = "completed" =>
                    /\ voices[told[n][Len(told[n])].arg].asset = n
                    /\ voices[told[n][Len(told[n])].arg].chunks = Len(told[n]) - 2
                    /\ Len(told[n]) > 2
               /\ \/ told[n][Len(told[n])].event \in {"completed", "error"} \/ n \in cut
                  \/ \E r \in Requests : voiceRequest[r].number = n
    BY DEF Voicing!StreamsTellTheirOutcome, InOrder, Started, Chunk
  <2>1. QED BY DEF VoicesSound, Streams, Outcome
<1>5. QED BY <1>1, <1>2, <1>3, <1>4

\* A listed voice or speech has its file, and a voice that was not raced the
\* clone of its own recording; a file out of every list belongs to a request or
\* to a failure on record; a stream tells its chunks in order and one outcome:
\* clone_voice, delete_voice, delete_audio, generate_audio and the streams,
\* whatever the requests, the calls that fail and the provider's answers.
THEOREM VoicesAndSpeeches ==
    ASSUME VoicesSetup
    PROVE  Voicing!Spec => [](Voicing!TypeOK /\ Voicing!RowsHaveTheirFiles /\ Voicing!NoFileForgotten /\ Voicing!StreamsTellTheirOutcome)
<1>1. Voicing!Init => VoicesSound
  BY VoicesSoundInit
<1>2. VoicesSound /\ [Voicing!Next]_(Voicing!voiceVars) => VoicesSound'
  BY VoicesSoundStep
<1>3. VoicesSound => Voicing!TypeOK /\ Voicing!RowsHaveTheirFiles /\ Voicing!NoFileForgotten /\ Voicing!StreamsTellTheirOutcome
  BY VoicesSoundTells
<1>4. QED BY <1>1, <1>2, <1>3, PTL DEF Voicing!Spec
=============================================================================
