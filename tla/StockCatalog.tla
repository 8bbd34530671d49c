----------------------------- MODULE StockCatalog -----------------------------
(****************************************************************************)
(* The stock catalogue: refreshes replace its snapshot in one transaction   *)
(* and then drop the cached pages; readers serve a cached page, or read     *)
(* the active snapshot in three queries and cache what they found.          *)
(* Refreshers and readers run in any number of processes.                   *)
(*                                                                          *)
(* Filtered lists bypass the cache and are the operator Listed.             *)
(****************************************************************************)
EXTENDS Naturals, Sequences, FiniteSets, SequencesExt

CONSTANTS
    Symbols,        \* numbers, in the order of the symbols
    PageSize,
    Readers,
    Refreshers,
    None,
    MaxRefreshes,   \* bound on refreshes
    MaxReads,       \* bound on requests for a page
    MaxFaults       \* bound on failed calls and crashes

VARIABLES
    rows,           \* stock_symbols: per symbol, its snapshot_at, or 0
    active,         \* snapshot_at of the metadata document, 0 before the first
    cache,          \* stocks:list: per page, the response or None
    refresher,      \* per refresh: next step, its timestamp, snapshot and keys
    reader,         \* per request: next step, page and what it read
    clock,          \* timestamps given out
    reads,          \* requests so far
    faults,         \* failures so far
    excused         \* history: cached pages of a reader that overlapped a
                    \* replacement, or that an invalidation left behind

catalogVars == <<rows, active, cache, refresher, reader, clock, reads, faults, excused>>

Pages == 1 .. (Cardinality(Symbols) + PageSize - 1) \div PageSize
NoRefresh == [pc |-> "idle", at |-> 0, symbols |-> {}, keys |-> {}]
NoRead == [pc |-> "idle", page |-> 1, at |-> 0, total |-> 0, overlapped |-> FALSE,
           response |-> None]

Cached == {p \in Pages : cache[p] # None}
Fault == faults < MaxFaults /\ faults' = faults + 1

Init ==
    /\ rows = [s \in Symbols |-> 0]
    /\ active = 0
    /\ cache = [p \in Pages |-> None]
    /\ refresher = [r \in Refreshers |-> NoRefresh]
    /\ reader = [r \in Readers |-> NoRead]
    /\ clock = 0
    /\ reads = 0
    /\ faults = 0
    /\ excused = {}

-----------------------------------------------------------------------------
(* What a listing returns.                                                  *)

\* _build_active_query: the rows of the active snapshot.
Active(at) == {s \in Symbols : rows[s] # 0 /\ (at # 0 => rows[s] = at)}

\* Sorted by symbol, one page.
PageOf(symbols, page) ==
    LET sorted == SetToSortSeq(symbols, <)
        from == (page - 1) * PageSize
    IN  SubSeq(sorted, from + 1, IF from + PageSize < Len(sorted) THEN from + PageSize
                                                                  ELSE Len(sorted))

Response(symbols, total, page) == [items |-> PageOf(symbols, page), total |-> total]
Current(page) == Response(Active(active), Cardinality(Active(active)), page)

\* find_filtered: the filters that are given, on the active snapshot.
Matches(stock, query) ==
    /\ query.exchange # None => stock.exchange = query.exchange
    /\ query.group # None => query.group \in stock.groups
    /\ query.industry # None => stock.industry = query.industry
    /\ query.text # None => query.text \in stock.words
Listed(stocks, query) == SelectSeq(stocks, LAMBDA s : Matches(s, query))
HasFilters(query) == \E f \in DOMAIN query : query[f] # None

-----------------------------------------------------------------------------
(* A refresh.                                                               *)

\* The timestamp is taken before the four provider calls.  They block the
\* process, and may fail.
Fetch(r) ==
    /\ refresher[r].pc = "idle"
    /\ clock < MaxRefreshes
    /\ clock' = clock + 1
    /\ \E symbols \in SUBSET Symbols :
        refresher' = [refresher EXCEPT ![r] = [@ EXCEPT !.pc = "replace", !.at = clock + 1,
                                                        !.symbols = symbols]]
    /\ UNCHANGED <<rows, active, cache, reader, reads, faults, excused>>

\* replace_snapshot, one transaction: upsert the rows, switch the metadata,
\* delete the rows of other snapshots.  Readers in the middle of their queries
\* overlap it.
Replace(r) ==
    /\ refresher[r].pc = "replace"
    /\ rows' = [s \in Symbols |-> IF s \in refresher[r].symbols THEN refresher[r].at ELSE 0]
    /\ active' = refresher[r].at
    /\ reader' = [q \in Readers |->
                    [reader[q] EXCEPT !.overlapped = reader[q].pc \notin {"idle", "snapshot"}]]
    /\ refresher' = [refresher EXCEPT ![r].pc = "scan"]
    /\ UNCHANGED <<cache, clock, reads, faults, excused>>

\* Variant: only the first page is dropped.
FirstKey == {1} \cap Cached

\* invalidate_all, first half: scan_iter.
Keys == Cached
Scan(r) ==
    /\ refresher[r].pc = "scan"
    /\ refresher' = [refresher EXCEPT ![r] = [@ EXCEPT !.pc = "unlink", !.keys = Keys]]
    /\ UNCHANGED <<rows, active, cache, reader, clock, reads, faults, excused>>

Unlink(r) ==
    /\ refresher[r].pc = "unlink"
    /\ cache' = [p \in Pages |-> IF p \in refresher[r].keys THEN None ELSE cache[p]]
    /\ excused' = excused \ refresher[r].keys
    /\ refresher' = [refresher EXCEPT ![r] = NoRefresh]
    /\ UNCHANGED <<rows, active, reader, clock, reads, faults>>

\* A provider call or the transaction raises: nothing has changed.  Redis
\* fails in an invalidation, or the process dies before it: the refresh
\* succeeded and the cached pages stay.
RefreshFails(r) ==
    /\ refresher[r].pc # "idle"
    /\ Fault
    /\ excused' = IF refresher[r].pc = "replace" THEN excused
                  ELSE excused \cup Cached
    /\ refresher' = [refresher EXCEPT ![r] = NoRefresh]
    /\ UNCHANGED <<rows, active, cache, reader, clock, reads>>

-----------------------------------------------------------------------------
(* A request for a page without filters.                                    *)

\* A cached page is the answer; a cache that fails counts as a miss.
GetPage(q) ==
    /\ reader[q].pc = "idle"
    /\ reads < MaxReads
    /\ reads' = reads + 1
    /\ \E p \in Pages :
        /\ cache[p] # None => Fault
        /\ cache[p] = None => UNCHANGED faults
        /\ reader' = [reader EXCEPT ![q] = [NoRead EXCEPT !.pc = "snapshot", !.page = p]]
    /\ UNCHANGED <<rows, active, cache, refresher, clock, excused>>

\* list_paginated: the metadata, the count and the page are three queries.
ReadSnapshot(q) ==
    /\ reader[q].pc = "snapshot"
    /\ reader' = [reader EXCEPT ![q] = [@ EXCEPT !.pc = "count", !.at = active]]
    /\ UNCHANGED <<rows, active, cache, refresher, clock, reads, faults, excused>>

Count(q) ==
    /\ reader[q].pc = "count"
    /\ reader' = [reader EXCEPT ![q] = [@ EXCEPT !.pc = "find",
                                                 !.total = Cardinality(Active(reader[q].at))]]
    /\ UNCHANGED <<rows, active, cache, refresher, clock, reads, faults, excused>>

Find(q) ==
    /\ reader[q].pc = "find"
    /\ reader' = [reader EXCEPT ![q] =
                    [@ EXCEPT !.pc = "store",
                              !.response = Response(Active(reader[q].at), reader[q].total,
                                                    reader[q].page)]]
    /\ UNCHANGED <<rows, active, cache, refresher, clock, reads, faults, excused>>

\* set_page: a failure is logged and the answer is sent.
SetPage(q) ==
    /\ reader[q].pc = "store"
    /\ LET p == reader[q].page IN
        \/ /\ cache' = [cache EXCEPT ![p] = reader[q].response]
           /\ excused' = IF reader[q].overlapped THEN excused \cup {p} ELSE excused \ {p}
           /\ UNCHANGED faults
        \/ Fault /\ UNCHANGED <<cache, excused>>
    /\ reader' = [reader EXCEPT ![q] = NoRead]
    /\ UNCHANGED <<rows, active, refresher, clock, reads>>

\* A cached page lives for CACHE_TTL_SECONDS.
ExpirePage ==
    /\ \E p \in Cached :
        /\ cache' = [cache EXCEPT ![p] = None]
        /\ excused' = excused \ {p}
    /\ UNCHANGED <<rows, active, refresher, reader, clock, reads, faults>>

RefreshStep(r) == Fetch(r) \/ Replace(r) \/ Scan(r) \/ Unlink(r) \/ RefreshFails(r)
ReadStep(q) == GetPage(q) \/ ReadSnapshot(q) \/ Count(q) \/ Find(q) \/ SetPage(q)
Next ==
    \/ \E r \in Refreshers : RefreshStep(r)
    \/ \E q \in Readers : ReadStep(q)
    \/ ExpirePage
Spec == Init /\ [][Next]_catalogVars

-----------------------------------------------------------------------------
\* Type invariant.
TypeOK ==
    /\ rows \in [Symbols -> 0 .. MaxRefreshes] /\ active \in 0 .. clock
    /\ \A p \in Pages : cache[p] # None =>
        /\ cache[p].total \in 0 .. Cardinality(Symbols)
        /\ Len(cache[p].items) <= PageSize /\ ToSet(cache[p].items) \subseteq Symbols
    /\ \A r \in Refreshers : refresher[r].pc \in {"idle", "replace", "scan", "unlink"}
    /\ excused \subseteq Cached

\* Once a refresh has dropped the cached pages, a page in the cache is the page
\* of the active snapshot, items and total, unless its reader overlapped the
\* replacement or the invalidation failed (list_stocks and refresh_catalog
\* share no lock).
CacheFollowsCatalogue ==
    (\A r \in Refreshers : refresher[r].pc \notin {"scan", "unlink"}) =>
        \A p \in Cached \ excused : cache[p] = Current(p)

\* The rows are those of the active snapshot, whatever refreshes overlapped,
\* so a page is read from one snapshot or comes out empty.
OneSnapshot == \A s \in Symbols : rows[s] \in {0, active}
===============================================================================
