----------------------------- MODULE SheetSync -----------------------------
(***************************************************************************)
(* One connected Google sheet and everything that touches its stored copy: *)
(* the connection endpoints (api/v1/sheet_crawler/router.py), the internal *)
(* "enqueue all" trigger, the sync workers (workers/sheet_sync_worker.py)  *)
(* running SheetCrawlerService.sync_sheet, and the analytics cache that a  *)
(* successful sync invalidates (services/analytics/cache_manager.py).      *)
(*                                                                         *)
(* A worker step ends where the code awaits; several workers may serve the *)
(* same connection because nothing locks it.  The sheet is only appended   *)
(* to, and its blank rows may be filled in later.  A row's content is the  *)
(* number of the row it was typed into, so that a row stored under another *)
(* number is noticed; a blank row holds None.                              *)
(***************************************************************************)
EXTENDS Integers, Sequences, FiniteSets, SequencesExt

CONSTANTS
    Workers,      \* sync worker processes
    Users,        \* users who send requests
    Owner,        \* the user who creates the connection
    None,         \* no value
    DataStart,    \* data_start_row of the connection
    MaxRetries,   \* MAX_RETRIES of the worker
    MaxRows,      \* bound: last row the sheet may grow to
    MaxTasks,     \* bound: sync requests ever made
    MaxFaults     \* bound: failures of Google, MongoDB, Redis or a process

VARIABLES
    sheet,        \* the rows of the sheet, by row number
    connection,   \* "none", "live", the stages of its deletion, "deleted"
    enabled,      \* its sync_enabled flag
    sync,         \* its sync state document, or None
    stored,       \* its stored row of each row number, or None
    tasks,        \* the Redis queue: the retry count of each task
    worker,       \* what each worker is doing
    cache,        \* the cached analytics: the row numbers they cover, or None
    reader,       \* an analytics request between its query and its caching
    asked,        \* sync requests made
    faults,       \* failures so far
    blank,        \* ghost: row numbers a sync read as blank
    overlapped,   \* ghost: two syncs of the connection ran at once
    stale         \* ghost: the cache holds a result older than its invalidation

vars == << sheet, connection, enabled, sync, stored, tasks, worker, cache,
           reader, asked, faults, blank, overlapped, stale >>

Rows == 1..MaxRows
Statuses == {"syncing", "success", "failed"}
Idle == [pc |-> "idle", retry |-> 0, last |-> 0, total |-> 0,
         start |-> 0, rows |-> << >>, next |-> 0, synced |-> 0]

(* A document the handlers find until the last step of the deletion.       *)
Exists == connection \in {"live", "deleting_state", "deleting_data", "deleting"}
(* Every handler looks the connection up and compares its user_id.         *)
Owned(u) == Exists /\ u = Owner

Fault == faults < MaxFaults /\ faults' = faults + 1
NoFault == UNCHANGED faults
StoredRows == {r \in Rows : stored[r] # None}

-----------------------------------------------------------------------------
(* The sheet, edited by its owner in Google Sheets. *)

AppendRow ==
    /\ Len(sheet) < MaxRows
    /\ \E content \in {None, Len(sheet) + 1} : sheet' = Append(sheet, content)
    /\ UNCHANGED << connection, enabled, sync, stored, tasks, worker, cache,
                    reader, asked, faults, blank, overlapped, stale >>

FillRow ==
    /\ \E r \in DOMAIN sheet : sheet[r] = None /\ sheet' = [sheet EXCEPT ![r] = r]
    /\ UNCHANGED << connection, enabled, sync, stored, tasks, worker, cache,
                    reader, asked, faults, blank, overlapped, stale >>

-----------------------------------------------------------------------------
(* The endpoints. *)

(* RedisQueue.enqueue: a failure is logged and reported as False, which no *)
(* caller here looks at.                                                   *)
Enqueue(retry) ==
    \/ tasks' = Append(tasks, retry) /\ NoFault
    \/ tasks' = tasks /\ Fault

Ask == asked < MaxTasks /\ asked' = asked + 1

CreateConnection ==
    /\ connection = "none" /\ Ask
    /\ connection' = "live" /\ enabled' = TRUE
    /\ Enqueue(0)
    /\ UNCHANGED << sheet, sync, stored, worker, cache, reader, blank,
                    overlapped, stale >>

UpdateConnection(u) ==
    /\ Owned(u)
    /\ enabled' \in BOOLEAN
    /\ UNCHANGED << sheet, connection, sync, stored, tasks, worker, cache,
                    reader, asked, faults, blank, overlapped, stale >>

TriggerSync(u) ==
    /\ Owned(u) /\ Ask
    /\ Enqueue(0)
    /\ UNCHANGED << sheet, connection, enabled, sync, stored, worker, cache,
                    reader, blank, overlapped, stale >>

(* The internal endpoint of the scheduler: every enabled connection.       *)
EnqueueAll ==
    /\ Exists /\ enabled /\ Ask
    /\ Enqueue(0)
    /\ UNCHANGED << sheet, connection, enabled, sync, stored, worker, cache,
                    reader, blank, overlapped, stale >>

(* delete_connection removes the sync state, then the rows, then the       *)
(* connection itself; the analytics cache is left to expire.               *)
BeginDelete(u) ==
    /\ Owned(u) /\ connection = "live"
    /\ connection' = "deleting_state"
    /\ UNCHANGED << sheet, enabled, sync, stored, tasks, worker, cache, reader,
                    asked, faults, blank, overlapped, stale >>

DeleteState ==
    /\ connection = "deleting_state"
    /\ connection' = "deleting_data" /\ sync' = None
    /\ UNCHANGED << sheet, enabled, stored, tasks, worker, cache, reader, asked,
                    faults, blank, overlapped, stale >>

DeleteData ==
    /\ connection = "deleting_data"
    /\ connection' = "deleting" /\ stored' = [r \in Rows |-> None]
    /\ UNCHANGED << sheet, enabled, sync, tasks, worker, cache, reader, asked,
                    faults, blank, overlapped, stale >>

DeleteConnection ==
    /\ connection = "deleting" /\ connection' = "deleted"
    /\ UNCHANGED << sheet, enabled, sync, stored, tasks, worker, cache, reader,
                    asked, faults, blank, overlapped, stale >>

(* What the status endpoint answers: a connection without a document has   *)
(* never been synced.                                                      *)
SyncStatus == IF sync = None THEN [last |-> 0, total |-> 0, status |-> "pending"]
                             ELSE sync

(* One page of the stored rows, in row order.                              *)
SyncedPage(page, size) ==
    LET ordered == SetToSortSeq(StoredRows, <)
    IN  [data |-> SubSeq(ordered, (page - 1) * size + 1,
                         IF page * size < Len(ordered) THEN page * size
                                                       ELSE Len(ordered)),
         total |-> Len(ordered)]

-----------------------------------------------------------------------------
(* The worker: run_once, process_task and sync_sheet. *)

At(w, pc) == worker[w].pc = pc
Goto(w, pc) == worker' = [worker EXCEPT ![w].pc = pc]
Release(w) == worker' = [worker EXCEPT ![w] = Idle]

(* The rate limiter's wait is part of this step: it reads and writes none  *)
(* of the state here.                                                      *)
Dequeue(w) ==
    /\ At(w, "idle") /\ tasks # << >>
    /\ worker' = [worker EXCEPT ![w].pc = "find", ![w].retry = Head(tasks)]
    /\ tasks' = Tail(tasks)
    /\ UNCHANGED << sheet, connection, enabled, sync, stored, cache, reader,
                    asked, faults, blank, overlapped, stale >>

(* sync_enabled is not consulted.                                          *)
FindConnection(w) ==
    /\ At(w, "find")
    /\ \/ Exists /\ Goto(w, "read") /\ NoFault
       \/ ~Exists /\ Goto(w, "retry") /\ NoFault
       \/ Fault /\ Goto(w, "retry")
    /\ UNCHANGED << sheet, connection, enabled, sync, stored, tasks, cache,
                    reader, asked, blank, overlapped, stale >>

Syncing(w) == worker[w].pc \in {"mark", "fetch", "store", "failed"}

ReadState(w) ==
    /\ At(w, "read")
    /\ worker' = [worker EXCEPT ![w].pc = "mark",
                                ![w].last = SyncStatus.last,
                                ![w].total = SyncStatus.total]
    /\ overlapped' = (overlapped \/ \E v \in Workers \ {w} : Syncing(v))
    /\ UNCHANGED << sheet, connection, enabled, sync, stored, tasks, cache,
                    reader, asked, faults, blank, stale >>

WriteState(w, last, total, status) ==
    sync' = [last |-> last, total |-> total, status |-> status]

(* This write is outside the try block: if it raises, nothing is recorded. *)
MarkSyncing(w) ==
    /\ At(w, "mark")
    /\ \/ /\ WriteState(w, worker[w].last, worker[w].total, "syncing")
          /\ Goto(w, "fetch") /\ NoFault
       \/ Fault /\ sync' = sync /\ Goto(w, "retry")
    /\ UNCHANGED << sheet, connection, enabled, stored, tasks, cache, reader,
                    asked, blank, overlapped, stale >>

StartRow(last) == IF last = 0 THEN DataStart ELSE last + 1

(* get_headers, validate_required_columns and get_sheet_values: any of the *)
(* three may fail.  Nothing is returned when the start row is past the     *)
(* end of the sheet.                                                       *)
FetchRows(w) ==
    /\ At(w, "fetch")
    /\ \/ LET start == StartRow(worker[w].last)
          IN  /\ worker' = [worker EXCEPT ![w].pc = "store",
                                          ![w].start = start,
                                          ![w].rows = SubSeq(sheet, start, Len(sheet)),
                                          ![w].next = start,
                                          ![w].synced = 0]
              /\ NoFault
       \/ Fault /\ Goto(w, "failed")
    /\ UNCHANGED << sheet, connection, enabled, sync, stored, tasks, cache,
                    reader, asked, blank, overlapped, stale >>

(* Variant that breaks a property, not the code.                           *)
(* A skipped row does not advance the row number.                          *)
StoreRowLosingBlanks(w) ==
    LET task == worker[w] IN
    /\ At(w, "store") /\ task.rows # << >> /\ NoFault
    /\ worker' = [worker EXCEPT
                    ![w].rows = Tail(task.rows),
                    ![w].next = task.next + (IF Head(task.rows) = None THEN 0 ELSE 1),
                    ![w].synced = task.synced + (IF Head(task.rows) = None THEN 0 ELSE 1)]
    /\ blank' = IF Head(task.rows) = None THEN blank \union {task.next} ELSE blank
    /\ stored' = IF Head(task.rows) = None THEN stored
                 ELSE [stored EXCEPT ![task.next] = Head(task.rows)]
    /\ UNCHANGED << sheet, connection, enabled, sync, tasks, cache, reader,
                    asked, overlapped, stale >>

(* The loop body: a blank row is counted and skipped, another is upserted  *)
(* under the running row number.                                           *)
StoreRow(w) ==
    LET task == worker[w] IN
    /\ At(w, "store") /\ task.rows # << >>
    /\ \/ /\ Head(task.rows) = None
          /\ worker' = [worker EXCEPT ![w].rows = Tail(task.rows),
                                      ![w].next = task.next + 1]
          /\ blank' = blank \union {task.next}
          /\ stored' = stored /\ NoFault
       \/ /\ Head(task.rows) # None
          /\ worker' = [worker EXCEPT ![w].rows = Tail(task.rows),
                                      ![w].next = task.next + 1,
                                      ![w].synced = task.synced + 1]
          /\ stored' = [stored EXCEPT ![task.next] = Head(task.rows)]
          /\ blank' = blank /\ NoFault
       \/ /\ Head(task.rows) # None /\ Fault
          /\ Goto(w, "failed") /\ UNCHANGED << stored, blank >>
    /\ UNCHANGED << sheet, connection, enabled, sync, tasks, cache, reader,
                    asked, overlapped, stale >>

WriteSuccess(w) ==
    LET task == worker[w] IN
    /\ At(w, "store") /\ task.rows = << >>
    /\ \/ /\ WriteState(w, IF task.synced > 0 THEN task.next - 1 ELSE task.last,
                        task.total + task.synced, "success")
          /\ Goto(w, "invalidate") /\ NoFault
       \/ Fault /\ sync' = sync /\ Goto(w, "failed")
    /\ UNCHANGED << sheet, connection, enabled, stored, tasks, cache, reader,
                    asked, blank, overlapped, stale >>

(* Variant that breaks a property, not the code.                           *)
(* A sync that completes leaves the cache alone.                           *)
InvalidateNothing(w) ==
    /\ At(w, "invalidate") /\ Release(w)
    /\ UNCHANGED << sheet, connection, enabled, sync, stored, tasks, cache,
                    reader, asked, faults, blank, overlapped, stale >>

(* cache_manager.invalidate; its errors are swallowed.                     *)
Invalidate(w) ==
    /\ At(w, "invalidate") /\ Release(w)
    /\ \/ cache' = None /\ stale' = FALSE /\ NoFault
       \/ Fault /\ cache' = cache /\ stale' = (cache # None)
    /\ reader' = [reader EXCEPT !.old = (@ \/ reader.pc = "computed")]
    /\ UNCHANGED << sheet, connection, enabled, sync, stored, tasks, asked,
                    blank, overlapped >>

(* Variant that breaks a property, not the code.                           *)
(* A failed sync keeps the count of the rows it managed to store.          *)
WriteFailedCounting(w) ==
    /\ At(w, "failed") /\ Goto(w, "retry") /\ NoFault
    /\ WriteState(w, worker[w].last, worker[w].total + worker[w].synced, "failed")
    /\ UNCHANGED << sheet, connection, enabled, stored, tasks, cache, reader,
                    asked, blank, overlapped, stale >>

(* The except clauses: the old watermark and the old count go back.        *)
WriteFailed(w) ==
    /\ At(w, "failed") /\ Goto(w, "retry")
    /\ \/ WriteState(w, worker[w].last, worker[w].total, "failed") /\ NoFault
       \/ Fault /\ sync' = sync
    /\ UNCHANGED << sheet, connection, enabled, stored, tasks, cache, reader,
                    asked, blank, overlapped, stale >>

\* Variant: the retries are counted one too far.
RetryOnceMore(w) ==
    /\ At(w, "retry") /\ Release(w)
    /\ \/ worker[w].retry <= MaxRetries /\ Enqueue(worker[w].retry + 1)
       \/ worker[w].retry > MaxRetries /\ tasks' = tasks /\ NoFault
    /\ UNCHANGED << sheet, connection, enabled, sync, stored, cache, reader,
                    asked, blank, overlapped, stale >>

(* handle_failed_task: re-queue, or tell the user once the retries are     *)
(* used up.                                                                *)
HandleFailedTask(w) ==
    /\ At(w, "retry") /\ Release(w)
    /\ \/ worker[w].retry < MaxRetries /\ Enqueue(worker[w].retry + 1)
       \/ worker[w].retry >= MaxRetries /\ tasks' = tasks /\ NoFault
    /\ UNCHANGED << sheet, connection, enabled, sync, stored, cache, reader,
                    asked, blank, overlapped, stale >>

(* A worker process dies: the task it had popped is gone, and with it an   *)
(* invalidation still to come.                                             *)
Crash(w) ==
    /\ ~At(w, "idle") /\ Fault /\ Release(w)
    /\ stale' = (stale \/ (At(w, "invalidate") /\ cache # None))
    /\ reader' = [reader EXCEPT !.old = @ \/ (At(w, "invalidate") /\ reader.pc = "computed")]
    /\ UNCHANGED << sheet, connection, enabled, sync, stored, tasks, cache,
                    asked, blank, overlapped >>

-----------------------------------------------------------------------------
(* An analytics request: a miss queries the stored rows and caches what it *)
(* computed.  A hit returns the cached value and changes nothing.          *)

ComputeAnalytics(u) ==
    /\ Owned(u) /\ cache = None /\ reader.pc = "idle"
    /\ reader' = [pc |-> "computed", rows |-> StoredRows, old |-> FALSE]
    /\ UNCHANGED << sheet, connection, enabled, sync, stored, tasks, worker,
                    cache, asked, faults, blank, overlapped, stale >>

CacheAnalytics ==
    /\ reader.pc = "computed"
    /\ reader' = [pc |-> "idle", rows |-> {}, old |-> FALSE]
    /\ \/ cache' = reader.rows /\ stale' = reader.old /\ NoFault
       \/ Fault /\ UNCHANGED << cache, stale >>
    /\ UNCHANGED << sheet, connection, enabled, sync, stored, tasks, worker,
                    asked, blank, overlapped >>

(* CACHE_TTL passes.                                                       *)
ExpireCache ==
    /\ cache # None /\ cache' = None /\ stale' = FALSE
    /\ UNCHANGED << sheet, connection, enabled, sync, stored, tasks, worker,
                    reader, asked, faults, blank, overlapped >>

-----------------------------------------------------------------------------
Init ==
    /\ sheet = [r \in 1..(DataStart - 1) |-> None]
    /\ connection = "none" /\ enabled = FALSE /\ sync = None
    /\ stored = [r \in Rows |-> None]
    /\ tasks = << >> /\ worker = [w \in Workers |-> Idle]
    /\ cache = None /\ reader = [pc |-> "idle", rows |-> {}, old |-> FALSE]
    /\ asked = 0 /\ faults = 0
    /\ blank = {} /\ overlapped = FALSE /\ stale = FALSE

Request(u) ==
    \/ UpdateConnection(u)
    \/ TriggerSync(u)
    \/ BeginDelete(u)
    \/ ComputeAnalytics(u)

Work(w) ==
    \/ Dequeue(w)
    \/ FindConnection(w)
    \/ ReadState(w)
    \/ MarkSyncing(w)
    \/ FetchRows(w)
    \/ StoreRow(w)
    \/ WriteSuccess(w)
    \/ Invalidate(w)
    \/ WriteFailed(w)
    \/ HandleFailedTask(w)
    \/ Crash(w)

Next ==
    \/ AppendRow
    \/ FillRow
    \/ CreateConnection
    \/ EnqueueAll
    \/ DeleteState
    \/ DeleteData
    \/ DeleteConnection
    \/ CacheAnalytics
    \/ ExpireCache
    \/ \E u \in Users : Request(u)
    \/ \E w \in Workers : Work(w)

Spec == Init /\ [][Next]_vars

-----------------------------------------------------------------------------
WorkerPcs == {"idle", "find", "read", "mark", "fetch", "store", "invalidate",
              "failed", "retry"}

(* The values of the documents, the queue and the workers.                 *)
TypeOK ==
    /\ connection \in {"none", "live", "deleting_state", "deleting_data",
                       "deleting", "deleted"}
    /\ sync = None \/ (sync.last \in 0..MaxRows /\ sync.total \in Nat
                       /\ sync.status \in Statuses)
    /\ \A r \in Rows : stored[r] \in Rows \union {None}
    /\ \A i \in DOMAIN tasks : tasks[i] \in 0..MaxRetries
    /\ \A w \in Workers : worker[w].pc \in WorkerPcs
    /\ cache = None \/ cache \subseteq Rows

(* Incremental sync skips nothing: each row up to the stored watermark is  *)
(* stored under its own number, or was blank when a sync passed it; under  *)
(* any overlap of workers, retries, crashes and rows typed during a sync   *)
(* (sync_sheet, crawler_service.py:184-270).                               *)
NoRowSkipped ==
    connection = "live" /\ sync # None =>
        \A r \in DataStart..sync.last :
            IF stored[r] = None THEN r \in blank ELSE stored[r] = sheet[r]

(* total_rows_synced of a successful state is the number of stored rows,   *)
(* whatever was half stored by failed or crashed attempts before, as long  *)
(* as no two workers synced the connection at once.                        *)
TotalCountsRows ==
    connection = "live" /\ sync # None /\ ~overlapped =>
        (sync.status = "success" => sync.total = Cardinality(StoredRows))

(* After a completed sync the cached analytics cover every row up to the   *)
(* watermark.  The exceptions are a result computed before the             *)
(* invalidation and cached after it, and an invalidation that failed or    *)
(* died with its worker: each lasts until the entry expires.  Two syncs at *)
(* once are excepted too: the second may store a row below the watermark   *)
(* of the first.                                                           *)
CacheCoversWatermark ==
    connection = "live" /\ sync # None /\ cache # None /\ ~stale /\ ~overlapped
        /\ (\A w \in Workers : ~At(w, "invalidate"))
        => StoredRows \cap (1..sync.last) \subseteq cache
=============================================================================
