----------------------------- MODULE ServicesProofs -----------------------------
(****************************************************************************)
(* What holds of the sheet sync and of the live interview, for every value  *)
(* of their constants.  Each component is an instance, with the variables   *)
(* it has in the platform.                                                  *)
(****************************************************************************)
EXTENDS Integers, Sequences, FiniteSets, FiniteSetTheorems, SequenceTheorems,
        WellFoundedInduction, TLAPS

CONSTANTS
    None,
    SyncWorkers, SheetUsers, SheetOwner, DataStart, MaxRetries, MaxRows, MaxSyncs, MaxSyncFaults,
    MaxStreams, Channels, Interviewer, Handlers, Listener, MaxRecent, SaveAttempts, MaxEvents,
    MaxTalkFaults

VARIABLES
    faults,
    sheet, connection, enabled, sync, syncedRows, syncTasks, worker, cache, reader,
    syncsAsked, blank, syncsOverlapped, stale,
    connected, registered, listening, session, link, queue, task, deferred,
    recent, answering, saving, durable, heard, closed, stored, dropped

-----------------------------------------------------------------------------
(* The sync of a connected sheet.                                           *)
Sync == INSTANCE SheetSync WITH
    tasks <- syncTasks, stored <- syncedRows, asked <- syncsAsked,
    overlapped <- syncsOverlapped, Workers <- SyncWorkers, MaxTasks <- MaxSyncs,
    MaxFaults <- MaxSyncFaults, Users <- SheetUsers, Owner <- SheetOwner

SheetStates == [last : Nat, total : Nat, status : Sync!Statuses]
SheetSetup ==
    /\ DataStart \in Nat \ {0} /\ MaxRows \in Nat /\ DataStart <= MaxRows + 1
    /\ MaxRetries \in Nat /\ None \notin Nat \cup SheetStates

\* The rows of the sheet and what is stored of them.
SheetFits ==
    /\ sheet \in Seq(Nat \cup {None}) /\ DataStart - 1 <= Len(sheet) /\ Len(sheet) <= MaxRows
    /\ \A r \in 1 .. Len(sheet) : sheet[r] \in {r, None}
    /\ syncedRows \in [Sync!Rows -> Sync!Rows \cup {None}]
    /\ \A r \in Sync!Rows : syncedRows[r] # None =>
        /\ r \in DataStart .. Len(sheet)
        /\ syncedRows[r] = r /\ sheet[r] = r

\* What a worker holds: rows of the sheet as they were when it fetched them.
SheetTasks == [pc : Sync!WorkerPcs, retry : 0 .. MaxRetries, last : Nat, total : Nat, start : Nat,
          rows : Seq(Nat \cup {None}), next : Nat, synced : Nat]
SheetTaskFits(c) ==
    /\ c.last <= Len(sheet) /\ (c.last = 0 \/ c.last >= DataStart)
    /\ c.pc = "store" =>
        /\ Sync!StartRow(c.last) + c.synced <= c.next
        /\ c.next + Len(c.rows) <= Len(sheet) + 1
        /\ \A k \in 1 .. Len(c.rows) : c.rows[k] = None \/ c.rows[k] = c.next + k - 1
        /\ \A k \in 1 .. Len(c.rows) : c.rows[k] # None => sheet[c.next + k - 1] = c.rows[k]
SheetTyping ==
    /\ SheetFits
    /\ connection \in {"none", "live", "deleting_state", "deleting_data", "deleting", "deleted"}
    /\ sync = None \/ sync \in [last : 0 .. Len(sheet), total : Nat, status : Sync!Statuses]
    /\ Sync!SyncStatus.last = 0 \/ Sync!SyncStatus.last >= DataStart
    /\ syncTasks \in Seq(0 .. MaxRetries)
    /\ worker \in [SyncWorkers -> SheetTasks]
    /\ \A w \in SyncWorkers : SheetTaskFits(worker[w])
    /\ cache = None \/ cache \subseteq Sync!Rows
    /\ reader \in [pc : {"idle", "computed"}, rows : SUBSET Sync!Rows, old : BOOLEAN]

\* Up to a watermark every row was stored or blank.
Passed(n) == \A r \in DataStart .. n : syncedRows[r] # None \/ r \in blank
SyncPassing ==
    /\ Passed(Sync!SyncStatus.last)
    /\ \A w \in SyncWorkers : Sync!Syncing(w) => Passed(worker[w].last)
    /\ \A w \in SyncWorkers : Sync!At(w, "store") => Passed(worker[w].next - 1)

\* A sync that is alone.
Below(n) == {r \in Sync!StoredRows : r <= n}
SyncFits(w) ==
    LET c == worker[w]
    IN  /\ Sync!SyncStatus.last = c.last /\ Sync!SyncStatus.total = c.total
        /\ c.pc # "mark" => Sync!SyncStatus.status # "success"
        /\ c.pc = "store" =>
            /\ Sync!StoredRows \subseteq 1 .. c.next + Len(c.rows) - 1
            /\ \A k \in 1 .. Len(c.rows) : c.rows[k] = None => syncedRows[c.next + k - 1] = None
            /\ c.total + c.synced = Sync!Cardinality(Below(c.next - 1))
            /\ c.synced = 0 => Below(c.next - 1) \subseteq 1 .. c.last
SyncAlone ==
    /\ \A v, w \in SyncWorkers : Sync!Syncing(v) /\ Sync!Syncing(w) => v = w
    /\ \A w \in SyncWorkers : Sync!Syncing(w) => SyncFits(w)
SyncCounting ==
    /\ Sync!SyncStatus.total = Sync!Cardinality(Below(Sync!SyncStatus.last))
    /\ Sync!SyncStatus.status = "success" => Sync!StoredRows \subseteq 1 .. Sync!SyncStatus.last
SyncCovering ==
    \/ \E w \in SyncWorkers : Sync!At(w, "invalidate")
    \/ /\ cache = None \/ stale \/ Below(Sync!SyncStatus.last) \subseteq cache
       /\ reader.pc = "idle" \/ reader.old \/ Below(Sync!SyncStatus.last) \subseteq reader.rows
SheetsSound ==
    /\ SheetTyping
    /\ connection \in {"none", "live"} =>
        /\ SyncPassing
        /\ ~syncsOverlapped => SyncAlone /\ SyncCounting /\ SyncCovering

-----------------------------------------------------------------------------
(* Parts of a step.                                                         *)

\* A worker moves, the others do not.
SheetOthers(w) ==
    /\ worker' \in [SyncWorkers -> SheetTasks]
    /\ \A v \in SyncWorkers : v # w => worker'[v] = worker[v]
SameTask(c, d) ==
    /\ d.last = c.last /\ d.total = c.total /\ d.start = c.start
    /\ d.rows = c.rows /\ d.next = c.next /\ d.synced = c.synced

LEMMA Moving ==
    ASSUME worker \in [SyncWorkers -> SheetTasks], NEW w \in SyncWorkers, NEW c \in SheetTasks,
           worker' = [worker EXCEPT ![w] = c]
    PROVE  SheetOthers(w) /\ worker'[w] = c
BY DEF SheetOthers

LEMMA Going ==
    ASSUME worker \in [SyncWorkers -> SheetTasks], NEW w \in SyncWorkers, NEW pc \in Sync!WorkerPcs, Sync!Goto(w, pc)
    PROVE  SheetOthers(w) /\ worker'[w].pc = pc /\ SameTask(worker[w], worker'[w])
<1> DEFINE c == [worker[w] EXCEPT !.pc = pc]
<1>1. c \in SheetTasks /\ c.pc = pc /\ SameTask(worker[w], c)
  BY DEF SheetTasks, SameTask
<1>2. worker' = [worker EXCEPT ![w] = c]
  BY DEF Sync!Goto
<1> HIDE DEF c
<1> QED
  BY <1>1, <1>2, Moving

LEMMA Releasing ==
    ASSUME SheetSetup, worker \in [SyncWorkers -> SheetTasks], NEW w \in SyncWorkers, Sync!Release(w)
    PROVE  SheetOthers(w) /\ worker'[w].pc = "idle" /\ worker'[w].last = 0
<1>1. Sync!Idle \in SheetTasks /\ Sync!Idle.pc = "idle" /\ Sync!Idle.last = 0
  <2>1. << >> \in Seq(Nat \cup {None})
    BY EmptySeq
  <2> QED
    BY <2>1 DEF Sync!Idle, SheetTasks, Sync!WorkerPcs, SheetSetup
<1> QED
  BY <1>1, Moving DEF Sync!Release

\* The sheet is only appended to and filled in.
Grows ==
    /\ Len(sheet) <= Len(sheet')
    /\ \A r \in 1 .. Len(sheet) : sheet[r] # None => sheet'[r] = sheet[r]

LEMMA SheetEdited ==
    ASSUME SheetSetup, SheetFits, Sync!AppendRow \/ Sync!FillRow
    PROVE  SheetFits' /\ Grows
<1>1. CASE Sync!AppendRow
  <2>1. PICK content \in {None, Len(sheet) + 1} : sheet' = Append(sheet, content)
    BY <1>1 DEF Sync!AppendRow
  <2>2. content \in Nat \cup {None} /\ Len(sheet) \in Nat
    BY <2>1 DEF SheetFits
  <2>3. /\ sheet' \in Seq(Nat \cup {None}) /\ Len(sheet') = Len(sheet) + 1
        /\ \A r \in 1 .. Len(sheet) : sheet'[r] = sheet[r]
        /\ sheet'[Len(sheet) + 1] = content
    BY <2>1, <2>2, AppendProperties DEF SheetFits
  <2>4. Grows
    BY <2>2, <2>3 DEF Grows
  <2>5. \A r \in 1 .. Len(sheet') : sheet'[r] \in {r, None}
    BY <2>1, <2>2, <2>3 DEF SheetFits
  <2>6. syncedRows' = syncedRows /\ Len(sheet') <= MaxRows
    BY <1>1, <2>2, <2>3 DEF Sync!AppendRow, SheetSetup
  <2> QED
    BY <2>2, <2>3, <2>4, <2>5, <2>6 DEF SheetFits, SheetSetup, Sync!Rows
<1>2. CASE Sync!FillRow
  <2>1. PICK r \in DOMAIN sheet : sheet[r] = None /\ sheet' = [sheet EXCEPT ![r] = r]
    BY <1>2 DEF Sync!FillRow
  <2>2. r \in 1 .. Len(sheet) /\ Len(sheet) \in Nat
    BY <2>1 DEF SheetFits
  <2>3. sheet' \in Seq(Nat \cup {None}) /\ Len(sheet') = Len(sheet)
    BY <2>1, <2>2, ExceptSeq DEF SheetFits
  <2>4. \A q \in 1 .. Len(sheet) : sheet'[q] = IF q = r THEN r ELSE sheet[q]
    BY <2>1, <2>2 DEF SheetFits
  <2>5. syncedRows' = syncedRows
    BY <1>2 DEF Sync!FillRow
  <2> QED
    BY <2>1, <2>2, <2>3, <2>4, <2>5 DEF SheetFits, SheetSetup, Sync!Rows, Grows
<1> QED
  BY <1>1, <1>2

LEMMA TaskStays ==
    ASSUME SheetSetup, SheetFits, SheetFits', Grows, NEW c \in SheetTasks, SheetTaskFits(c)
    PROVE  SheetTaskFits(c)'
<1>1. Len(sheet) \in Nat /\ Len(sheet') \in Nat /\ c.last \in Nat /\ c.next \in Nat
     /\ c.synced \in Nat /\ Len(c.rows) \in Nat /\ DataStart \in Nat \ {0}
  BY DEF SheetFits, SheetTasks, SheetSetup
<1>2. ASSUME c.pc = "store", NEW k \in 1 .. Len(c.rows), c.rows[k] # None
      PROVE  sheet'[c.next + k - 1] = c.rows[k]
  <2>1. c.next + k - 1 \in 1 .. Len(sheet) /\ sheet[c.next + k - 1] = c.rows[k]
    <3>1. /\ Sync!StartRow(c.last) + c.synced <= c.next /\ c.next + Len(c.rows) <= Len(sheet) + 1
          /\ sheet[c.next + k - 1] = c.rows[k]
      BY <1>2 DEF SheetTaskFits
    <3>2. Sync!StartRow(c.last) \in Nat \ {0}
      BY <1>1 DEF Sync!StartRow
    <3>3. c.next \in Nat \ {0} /\ c.next + k - 1 \in 1 .. Len(sheet)
      <4> DEFINE start == Sync!StartRow(c.last)
                 len == Len(c.rows)
      <4>1. start \in Nat \ {0} /\ start + c.synced <= c.next /\ c.next + len <= Len(sheet) + 1
        BY <3>1, <3>2
      <4>2. len \in Nat /\ k \in 1 .. len
        BY <1>1
      <4> HIDE DEF start, len
      <4> QED
        BY <1>1, <4>1, <4>2
    <3> QED
      BY <3>1, <3>3
  <2> QED
    BY <1>2, <2>1 DEF Grows
<1> QED
  BY <1>1, <1>2 DEF SheetTaskFits, Grows

-----------------------------------------------------------------------------
(* Types.                                                                   *)

LEMMA StatusTyped ==
    ASSUME SheetTyping
    PROVE  /\ Sync!SyncStatus.last \in 0 .. Len(sheet) /\ Sync!SyncStatus.last \in Nat
           /\ Sync!SyncStatus.total \in Nat /\ Len(sheet) \in Nat
<1>1. Len(sheet) \in Nat
  BY DEF SheetTyping, SheetFits
<1>2. CASE sync = None
  BY <1>1, <1>2 DEF Sync!SyncStatus
<1>3. CASE sync # None
  <2>1. sync \in [last : 0 .. Len(sheet), total : Nat, status : Sync!Statuses]
    BY <1>3 DEF SheetTyping
  <2> QED
    BY <1>1, <1>3, <2>1 DEF Sync!SyncStatus
<1> QED
  BY <1>2, <1>3

LEMMA QueueTyped ==
    ASSUME SheetSetup, SheetTyping, NEW retry \in 0 .. MaxRetries, Sync!Enqueue(retry)
    PROVE  syncTasks' \in Seq(0 .. MaxRetries)
<1>1. syncTasks \in Seq(0 .. MaxRetries)
  BY DEF SheetTyping
<1>2. Append(syncTasks, retry) \in Seq(0 .. MaxRetries)
  BY <1>1, AppendProperties
<1> QED
  BY <1>1, <1>2 DEF Sync!Enqueue

\* The sheet stays, a worker moves.
LEMMA WorkerTyped ==
    ASSUME SheetSetup, SheetTyping, NEW w \in SyncWorkers, SheetOthers(w), SheetTaskFits(worker'[w]),
           UNCHANGED <<sheet, connection>>, SheetFits',
           sync' = None \/ sync' \in [last : 0 .. Len(sheet), total : Nat, status : Sync!Statuses],
           Sync!SyncStatus'.last = 0 \/ Sync!SyncStatus'.last >= DataStart,
           syncTasks' \in Seq(0 .. MaxRetries), cache' = None \/ cache' \subseteq Sync!Rows,
           reader' \in [pc : {"idle", "computed"}, rows : SUBSET Sync!Rows, old : BOOLEAN]
    PROVE  SheetTyping'
<1>1. \A v \in SyncWorkers : SheetTaskFits(worker[v])'
  BY DEF SheetTyping, SheetOthers, SheetTaskFits
<1> QED
  BY <1>1 DEF SheetTyping, SheetOthers

\* A worker that neither fetches nor stores keeps what it knows.
LEMMA StillFits ==
    ASSUME NEW c, NEW d, SheetTaskFits(c), SameTask(c, d), d.pc # "store" \/ c.pc = "store"
    PROVE  SheetTaskFits(d)
BY DEF SheetTaskFits, SameTask

LEMMA DequeueTyped ==
    ASSUME SheetSetup, SheetTyping, NEW w \in SyncWorkers, Sync!Dequeue(w)
    PROVE  SheetTyping' /\ SheetOthers(w) /\ worker'[w].pc = "find"
<1> DEFINE c == [worker[w] EXCEPT !.pc = "find", !.retry = Head(syncTasks)]
<1>1. Head(syncTasks) \in 0 .. MaxRetries /\ Tail(syncTasks) \in Seq(0 .. MaxRetries)
  BY HeadTailProperties DEF Sync!Dequeue, SheetTyping
<1>2. c \in SheetTasks /\ c.pc = "find" /\ SameTask(worker[w], c)
  BY <1>1 DEF SheetTyping, SheetTasks, SameTask, Sync!WorkerPcs
<1>3. worker' = [worker EXCEPT ![w] = c]
  BY DEF Sync!Dequeue
<1> HIDE DEF c
<1>4. SheetOthers(w) /\ worker'[w] = c
  BY <1>2, <1>3, Moving DEF SheetTyping
<1>5. SheetTaskFits(worker'[w])
  BY <1>2, <1>4, StillFits DEF SheetTyping
<1>6. SheetTyping'
  BY <1>1, <1>4, <1>5, WorkerTyped DEF Sync!Dequeue, SheetTyping, SheetFits, Sync!SyncStatus
<1> QED
  BY <1>2, <1>4, <1>6

\* What a worker has read or fetched.
LEMMA ReadTyped ==
    ASSUME SheetSetup, SheetTyping, NEW w \in SyncWorkers, Sync!ReadState(w)
    PROVE  /\ SheetTyping' /\ SheetOthers(w) /\ worker'[w].pc = "mark"
           /\ worker'[w].last = Sync!SyncStatus.last /\ worker'[w].total = Sync!SyncStatus.total
<1> DEFINE c == [worker[w] EXCEPT !.pc = "mark", !.last = Sync!SyncStatus.last,
                                  !.total = Sync!SyncStatus.total]
<1>1. Sync!SyncStatus.last \in 0 .. Len(sheet) /\ Sync!SyncStatus.last \in Nat /\ Sync!SyncStatus.total \in Nat
  BY StatusTyped
<1>2. c \in SheetTasks /\ c.pc = "mark" /\ c.last = Sync!SyncStatus.last /\ c.total = Sync!SyncStatus.total
  BY <1>1 DEF SheetTyping, SheetTasks, Sync!WorkerPcs
<1>3. worker' = [worker EXCEPT ![w] = c]
  BY DEF Sync!ReadState
<1> HIDE DEF c
<1>4. SheetOthers(w) /\ worker'[w] = c
  BY <1>2, <1>3, Moving DEF SheetTyping
<1>5. SheetTaskFits(worker'[w])
  BY <1>1, <1>2, <1>4 DEF SheetTyping, SheetTaskFits
<1>6. SheetTyping'
  BY <1>4, <1>5, WorkerTyped DEF Sync!ReadState, SheetTyping, SheetFits, Sync!SyncStatus
<1> QED
  BY <1>2, <1>4, <1>6

Fetched(c, d) ==
    /\ d.pc = "store" /\ d.last = c.last /\ d.total = c.total /\ d.synced = 0
    /\ d.next = Sync!StartRow(c.last)
    /\ d.next + Len(d.rows) = Len(sheet) + 1
    /\ \A k \in 1 .. Len(d.rows) : d.rows[k] = sheet[d.next + k - 1]
LEMMA FetchTyped ==
    ASSUME SheetSetup, SheetTyping, NEW w \in SyncWorkers, Sync!FetchRows(w)
    PROVE  /\ SheetTyping' /\ SheetOthers(w)
           /\ \/ worker'[w].pc = "failed" /\ SameTask(worker[w], worker'[w])
              \/ Fetched(worker[w], worker'[w])
<1>1. CASE Sync!Goto(w, "failed")
  <2>1. SheetOthers(w) /\ worker'[w].pc = "failed" /\ SameTask(worker[w], worker'[w])
    BY <1>1, Going DEF SheetTyping, Sync!WorkerPcs
  <2>2. SheetTaskFits(worker'[w])
    BY <2>1, StillFits DEF SheetTyping
  <2> QED
    BY <2>1, <2>2, WorkerTyped DEF Sync!FetchRows, SheetTyping, SheetFits, Sync!SyncStatus
<1>2. CASE ~Sync!Goto(w, "failed")
  <2> DEFINE start == Sync!StartRow(worker[w].last)
             got == SubSeq(sheet, start, Len(sheet))
             c == [worker[w] EXCEPT !.pc = "store", !.start = start, !.rows = got,
                                    !.next = start, !.synced = 0]
  <2>1. start \in Nat \ {0} /\ start <= Len(sheet) + 1 /\ Len(sheet) \in Nat
    BY DEF SheetTyping, SheetTaskFits, SheetTasks, Sync!StartRow, SheetSetup, SheetFits
  <2>2. /\ got \in Seq(Nat \cup {None}) /\ start + Len(got) = Len(sheet) + 1
        /\ \A k \in 1 .. Len(got) : got[k] = sheet[start + k - 1]
    <3>1. \A i \in start .. Len(sheet) : sheet[i] \in Nat \cup {None}
      BY <2>1 DEF SheetTyping, SheetFits
    <3>2. /\ got \in Seq(Nat \cup {None})
          /\ Len(got) = IF start <= Len(sheet) THEN Len(sheet) - start + 1 ELSE 0
          /\ \A i \in 1 .. Len(sheet) - start + 1 : got[i] = sheet[start + i - 1]
      BY <2>1, <3>1, SubSeqProperties
    <3> QED
      BY <2>1, <3>2
  <2> HIDE DEF start, got
  <2>3. c \in SheetTasks /\ c.pc = "store" /\ c.last = worker[w].last /\ c.total = worker[w].total
        /\ c.rows = got /\ c.next = start /\ c.synced = 0
    <3>1. worker[w] \in SheetTasks /\ start \in Nat /\ got \in Seq(Nat \cup {None})
      BY <2>1, <2>2 DEF SheetTyping
    <3>2. c \in SheetTasks
      BY <3>1 DEF SheetTasks, Sync!WorkerPcs
    <3> QED
      BY <3>1, <3>2 DEF SheetTasks
  <2>4. worker' = [worker EXCEPT ![w] = c]
    BY <1>2 DEF Sync!FetchRows, start, got
  <2> HIDE DEF c
  <2>5. SheetOthers(w) /\ worker'[w] = c
    BY <2>3, <2>4, Moving DEF SheetTyping
  <2>6. Fetched(worker[w], c)
    BY <2>1, <2>2, <2>3 DEF Fetched, start
  <2>7. SheetTaskFits(c)
    <3>1. \A k \in 1 .. Len(got) : got[k] \in {start + k - 1, None}
      BY <2>1, <2>2 DEF SheetTyping, SheetFits
    <3>2. worker[w].last <= Len(sheet) /\ (worker[w].last = 0 \/ worker[w].last >= DataStart)
      BY DEF SheetTyping, SheetTaskFits
    <3>3. Sync!StartRow(c.last) + c.synced <= c.next
      BY <2>1, <2>3 DEF start
    <3>4. \A k \in 1 .. Len(got) : got[k] # None => sheet[c.next + k - 1] = got[k]
      BY <2>2, <2>3
    <3> QED
      BY <2>1, <2>2, <2>3, <3>1, <3>2, <3>3, <3>4 DEF SheetTaskFits
  <2> QED
    BY <2>5, <2>6, <2>7, WorkerTyped DEF Sync!FetchRows, SheetTyping, SheetFits, Sync!SyncStatus
<1> QED
  BY <1>1, <1>2

NextRow(c) == [c EXCEPT !.rows = Tail(c.rows), !.next = c.next + 1, !.synced = c.synced + 1]
BlankRow(c) == [c EXCEPT !.rows = Tail(c.rows), !.next = c.next + 1]
LEMMA NextTask ==
    ASSUME NEW c \in SheetTasks, c.rows # << >>
    PROVE  LET d == NextRow(c)
           IN  /\ d \in SheetTasks /\ d.pc = c.pc /\ d.last = c.last /\ d.total = c.total
               /\ d.rows = Tail(c.rows) /\ d.next = c.next + 1 /\ d.synced = c.synced + 1
<1> DEFINE rows == Tail(c.rows)
           next == c.next + 1
           synced == c.synced + 1
<1>1. rows \in Seq(Nat \cup {None}) /\ next \in Nat /\ synced \in Nat
  BY HeadTailProperties DEF SheetTasks
<1> HIDE DEF rows, next, synced
<1>2. ASSUME NEW d, d = [c EXCEPT !.rows = rows, !.next = next, !.synced = synced]
      PROVE  /\ d \in SheetTasks /\ d.pc = c.pc /\ d.last = c.last /\ d.total = c.total
             /\ d.rows = rows /\ d.next = next /\ d.synced = synced
  BY <1>1, <1>2 DEF SheetTasks
<1>3. NextRow(c) = [c EXCEPT !.rows = rows, !.next = next, !.synced = synced]
  BY DEF NextRow, rows, next, synced
<1> HIDE DEF NextRow
<1> QED
  BY <1>2, <1>3 DEF rows, next, synced
LEMMA BlankTask ==
    ASSUME NEW c \in SheetTasks, c.rows # << >>
    PROVE  LET d == BlankRow(c)
           IN  /\ d \in SheetTasks /\ d.pc = c.pc /\ d.last = c.last /\ d.total = c.total
               /\ d.rows = Tail(c.rows) /\ d.next = c.next + 1 /\ d.synced = c.synced
<1> DEFINE rows == Tail(c.rows)
           next == c.next + 1
<1>1. rows \in Seq(Nat \cup {None}) /\ next \in Nat
  BY HeadTailProperties DEF SheetTasks
<1> HIDE DEF rows, next
<1>2. ASSUME NEW d, d = [c EXCEPT !.rows = rows, !.next = next]
      PROVE  /\ d \in SheetTasks /\ d.pc = c.pc /\ d.last = c.last /\ d.total = c.total
             /\ d.rows = rows /\ d.next = next /\ d.synced = c.synced
  BY <1>1, <1>2 DEF SheetTasks
<1>3. BlankRow(c) = [c EXCEPT !.rows = rows, !.next = next]
  BY DEF BlankRow, rows, next
<1> QED
  BY <1>2, <1>3 DEF rows, next

\* A step of the loop: the row at hand is blank, stored, or could not be.
Shifted(c, d) ==
    /\ d.pc = "store" /\ d.last = c.last /\ d.total = c.total /\ d.next = c.next + 1
    /\ d.rows \in Seq(Nat \cup {None}) /\ Len(d.rows) = Len(c.rows) - 1
    /\ \A k \in 1 .. Len(d.rows) : d.rows[k] = c.rows[k + 1]
LEMMA Shifting ==
    ASSUME SheetSetup, SheetTyping, NEW w \in SyncWorkers, Sync!At(w, "store"), worker[w].rows # << >>,
           NEW d \in SheetTasks, worker' = [worker EXCEPT ![w] = d],
           d.pc = "store", d.last = worker[w].last, d.total = worker[w].total,
           d.rows = Tail(worker[w].rows), d.next = worker[w].next + 1,
           d.synced \in {worker[w].synced, worker[w].synced + 1}
    PROVE  /\ SheetOthers(w) /\ worker'[w] = d /\ Shifted(worker[w], d) /\ SheetTaskFits(d)
<1> DEFINE c == worker[w]
<1>1. c \in SheetTasks /\ c.rows \in Seq(Nat \cup {None}) /\ c.next \in Nat /\ c.synced \in Nat
      /\ c.pc = "store" /\ c.last \in Nat
  BY DEF SheetTyping, SheetTasks, Sync!At
<1>2. /\ Tail(c.rows) \in Seq(Nat \cup {None}) /\ Len(Tail(c.rows)) = Len(c.rows) - 1
      /\ \A k \in 1 .. Len(Tail(c.rows)) : Tail(c.rows)[k] = c.rows[k + 1]
      /\ Len(c.rows) \in Nat \ {0}
  BY <1>1, HeadTailProperties, EmptySeq
<1>3. Shifted(c, d)
  BY <1>2 DEF Shifted
<1>4. SheetTaskFits(c)
  BY DEF SheetTyping
<1>5. SheetTaskFits(d)
  <2>1. /\ d.last = c.last /\ Sync!StartRow(d.last) = Sync!StartRow(c.last)
        /\ c.last <= Len(sheet) /\ (c.last = 0 \/ c.last >= DataStart)
    BY <1>4 DEF SheetTaskFits
  <2>2. /\ Sync!StartRow(c.last) + c.synced <= c.next /\ c.next + Len(c.rows) <= Len(sheet) + 1
        /\ \A k \in 1 .. Len(c.rows) : c.rows[k] = None \/ c.rows[k] = c.next + k - 1
        /\ \A k \in 1 .. Len(c.rows) : c.rows[k] # None => sheet[c.next + k - 1] = c.rows[k]
    BY <1>1, <1>4 DEF SheetTaskFits
  <2>3. Sync!StartRow(c.last) \in Nat /\ Len(sheet) \in Nat /\ Len(d.rows) = Len(c.rows) - 1
    BY <1>1, <1>2 DEF Sync!StartRow, SheetSetup, SheetTyping, SheetFits
  <2>4. Sync!StartRow(c.last) + d.synced <= d.next /\ d.next + Len(d.rows) <= Len(sheet) + 1
    <3>1. d.synced \in Nat /\ d.synced <= c.synced + 1 /\ d.next = c.next + 1
      BY <1>1
    <3>2. /\ Sync!StartRow(c.last) + c.synced <= c.next /\ c.next + Len(c.rows) <= Len(sheet) + 1
          /\ Len(c.rows) \in Nat
      BY <1>2, <2>2
    <3>3. Sync!StartRow(c.last) + d.synced <= d.next
      BY <1>1, <2>3, <3>1, <3>2
    <3>4. d.next + Len(d.rows) <= Len(sheet) + 1
      BY <1>1, <2>3, <3>1, <3>2
    <3> QED
      BY <3>3, <3>4
  <2>5. ASSUME NEW k \in 1 .. Len(d.rows)
        PROVE  /\ d.rows[k] = None \/ d.rows[k] = d.next + k - 1
               /\ d.rows[k] # None => sheet[d.next + k - 1] = d.rows[k]
    <3>1. k + 1 \in 1 .. Len(c.rows) /\ d.rows[k] = c.rows[k + 1]
      BY <1>2, <2>3
    <3>2. d.next + k - 1 = c.next + (k + 1) - 1
      BY <1>1, <1>2, <2>3
    <3> HIDE DEF c
    <3> QED
      BY <2>2, <3>1, <3>2
  <2> HIDE DEF c
  <2> QED
    BY <2>1, <2>4, <2>5 DEF SheetTaskFits
<1>6. SheetOthers(w) /\ worker'[w] = d
  BY Moving DEF SheetTyping
<1> QED
  BY <1>3, <1>5, <1>6

Skips(w) == worker[w].rows[1] = None /\ blank' = blank \cup {worker[w].next} /\ syncedRows' = syncedRows
            /\ worker'[w].synced = worker[w].synced
Stores(w) ==
    /\ worker[w].next \in DataStart .. Len(sheet) /\ sheet[worker[w].next] = worker[w].next
    /\ syncedRows' = [syncedRows EXCEPT ![worker[w].next] = worker[w].next]
    /\ blank' = blank /\ worker'[w].synced = worker[w].synced + 1
LEMMA StoreTyped ==
    ASSUME SheetSetup, SheetTyping, NEW w \in SyncWorkers, Sync!StoreRow(w)
    PROVE  /\ SheetTyping' /\ SheetOthers(w) /\ worker[w].pc = "store" /\ Len(worker[w].rows) \in Nat \ {0}
           /\ \/ worker'[w].pc = "failed" /\ SameTask(worker[w], worker'[w])
                 /\ UNCHANGED <<syncedRows, blank>>
              \/ Shifted(worker[w], worker'[w]) /\ (Skips(w) \/ Stores(w))
<1> DEFINE c == worker[w]
<1>1. /\ Sync!At(w, "store") /\ c.rows # << >> /\ c.pc = "store"
      /\ UNCHANGED <<sheet, connection, sync, syncTasks, cache, reader>>
  BY DEF Sync!StoreRow, Sync!At
<1>2. c \in SheetTasks /\ c.next \in Nat /\ c.synced \in Nat /\ SheetTaskFits(c) /\ c.last \in Nat
  BY DEF SheetTyping, SheetTasks
<1>3. /\ Head(c.rows) = c.rows[1] /\ Len(c.rows) \in Nat \ {0}
      /\ Tail(c.rows) \in Seq(Nat \cup {None})
  BY <1>1, <1>2, EmptySeq, HeadTailProperties DEF SheetTasks
<1>4. CASE Sync!Goto(w, "failed") /\ UNCHANGED <<syncedRows, blank>>
  <2>1. SheetOthers(w) /\ worker'[w].pc = "failed" /\ SameTask(c, worker'[w])
    BY <1>4, Going DEF SheetTyping, Sync!WorkerPcs
  <2>2. SheetTaskFits(worker'[w])
    BY <1>2, <2>1, StillFits
  <2> QED
    BY <1>1, <1>3, <1>4, <2>1, <2>2, WorkerTyped DEF SheetTyping, SheetFits, Sync!SyncStatus
<1>5. CASE /\ c.rows[1] = None /\ blank' = blank \cup {c.next} /\ syncedRows' = syncedRows
           /\ worker' = [worker EXCEPT ![w].rows = Tail(c.rows), ![w].next = c.next + 1]
  <2> DEFINE d == BlankRow(c)
  <2>1. /\ d \in SheetTasks /\ d.pc = "store" /\ d.last = c.last /\ d.total = c.total
        /\ d.rows = Tail(c.rows) /\ d.next = c.next + 1 /\ d.synced = c.synced
    BY <1>1, <1>2, BlankTask
  <2>2. worker' = [worker EXCEPT ![w] = d]
    BY <1>5 DEF BlankRow
  <2> HIDE DEF d
  <2>3. /\ SheetOthers(w) /\ Shifted(c, worker'[w]) /\ worker'[w].synced = c.synced
        /\ SheetTaskFits(worker'[w])
    BY <1>1, <2>1, <2>2, Shifting
  <2>4. SheetTyping'
    BY <1>1, <1>5, <2>3, WorkerTyped DEF SheetTyping, SheetFits, Sync!SyncStatus
  <2> QED
    BY <1>1, <1>3, <1>5, <2>3, <2>4 DEF Skips
<1>6. CASE /\ c.rows[1] # None /\ blank' = blank /\ syncedRows' = [syncedRows EXCEPT ![c.next] = c.rows[1]]
           /\ worker' = [worker EXCEPT ![w].rows = Tail(c.rows), ![w].next = c.next + 1,
                                       ![w].synced = c.synced + 1]
  <2> DEFINE d == NextRow(c)
  <2>a. /\ d \in SheetTasks /\ d.pc = "store" /\ d.last = c.last /\ d.total = c.total
        /\ d.rows = Tail(c.rows) /\ d.next = c.next + 1 /\ d.synced = c.synced + 1
    BY <1>1, <1>2, NextTask
  <2>b. worker' = [worker EXCEPT ![w] = d]
    BY <1>6 DEF NextRow
  <2> HIDE DEF d
  <2>1. /\ SheetOthers(w) /\ Shifted(c, worker'[w]) /\ worker'[w].synced = c.synced + 1
        /\ SheetTaskFits(worker'[w])
    BY <1>1, <2>a, <2>b, Shifting
  <2>2. c.rows[1] = c.next /\ sheet[c.next] = c.next
    <3>1. 1 \in 1 .. Len(c.rows)
      BY <1>3
    <3> QED
      BY <1>1, <1>2, <1>6, <3>1 DEF SheetTaskFits
  <2>3. c.next \in DataStart .. Len(sheet) /\ Len(sheet) \in Nat /\ Len(sheet) <= MaxRows
    <3>1. /\ Sync!StartRow(c.last) + c.synced <= c.next /\ c.next + Len(c.rows) <= Len(sheet) + 1
          /\ (c.last = 0 \/ c.last >= DataStart)
      BY <1>1, <1>2 DEF SheetTaskFits
    <3>2. Sync!StartRow(c.last) >= DataStart /\ Sync!StartRow(c.last) \in Nat
      BY <1>2, <3>1 DEF Sync!StartRow, SheetSetup
    <3> QED
      BY <1>2, <1>3, <3>1, <3>2 DEF SheetTyping, SheetFits, SheetSetup
  <2>4. c.next \in Sync!Rows
    BY <2>3 DEF Sync!Rows, SheetSetup
  <2>5. SheetFits'
    BY <1>1, <1>6, <2>2, <2>3, <2>4 DEF SheetTyping, SheetFits, SheetSetup
  <2>6. SheetTyping'
    BY <1>1, <2>1, <2>5, WorkerTyped DEF SheetTyping, Sync!SyncStatus
  <2> QED
    BY <1>1, <1>3, <1>6, <2>1, <2>2, <2>3, <2>6 DEF Stores
<1> QED
  BY <1>3, <1>4, <1>5, <1>6 DEF Sync!StoreRow

\* The writes of the sync state.
LEMMA Writing ==
    ASSUME SheetSetup, NEW w, NEW last \in Nat, NEW total \in Nat, NEW status \in Sync!Statuses,
           Sync!WriteState(w, last, total, status)
    PROVE  /\ sync' = [last |-> last, total |-> total, status |-> status] /\ sync' # None
           /\ Sync!SyncStatus' = sync'
           /\ Sync!SyncStatus'.last = last /\ Sync!SyncStatus'.total = total /\ Sync!SyncStatus'.status = status
<1>1. sync' = [last |-> last, total |-> total, status |-> status]
  BY DEF Sync!WriteState
<1>2. sync' # None
  BY <1>1 DEF SheetSetup, SheetStates
<1>3. Sync!SyncStatus' = sync'
  BY <1>2 DEF Sync!SyncStatus
<1> QED
  BY <1>1, <1>2, <1>3

LEMMA WritingTyped ==
    ASSUME SheetSetup, SheetTyping, NEW w \in SyncWorkers, SheetOthers(w), SheetTaskFits(worker'[w]),
           NEW last \in Nat, NEW total \in Nat, NEW status \in Sync!Statuses,
           last <= Len(sheet), last = 0 \/ last >= DataStart,
           Sync!WriteState(w, last, total, status),
           UNCHANGED <<sheet, connection, syncedRows, syncTasks, cache, reader>>
    PROVE  SheetTyping'
<1>1. sync' \in [last : 0 .. Len(sheet), total : Nat, status : Sync!Statuses]
  BY Writing DEF SheetTyping, SheetFits
<1>2. Sync!SyncStatus'.last = 0 \/ Sync!SyncStatus'.last >= DataStart
  BY Writing
<1> QED
  BY <1>1, <1>2, WorkerTyped DEF SheetTyping, SheetFits

LEMMA TaskTyped ==
    ASSUME SheetSetup, SheetTyping, NEW w \in SyncWorkers
    PROVE  /\ worker[w] \in SheetTasks /\ SheetTaskFits(worker[w])
           /\ worker[w].last \in Nat /\ worker[w].total \in Nat /\ worker[w].next \in Nat
           /\ worker[w].synced \in Nat /\ worker[w].retry \in 0 .. MaxRetries
           /\ worker[w].last <= Len(sheet) /\ Len(sheet) \in Nat
           /\ worker[w].last = 0 \/ worker[w].last >= DataStart
BY DEF SheetTyping, SheetTasks, SheetTaskFits, SheetFits

MarkWrites(w) ==
    /\ worker'[w].pc = "fetch"
    /\ Sync!WriteState(w, worker[w].last, worker[w].total, "syncing")
LEMMA MarkTyped ==
    ASSUME SheetSetup, SheetTyping, NEW w \in SyncWorkers, Sync!MarkSyncing(w)
    PROVE  /\ SheetTyping' /\ SheetOthers(w) /\ SameTask(worker[w], worker'[w])
           /\ MarkWrites(w) \/ (worker'[w].pc = "retry" /\ sync' = sync)
<1>1. PICK pc \in {"fetch", "retry"} :
        /\ Sync!Goto(w, pc)
        /\ \/ pc = "fetch" /\ Sync!WriteState(w, worker[w].last, worker[w].total, "syncing")
           \/ pc = "retry" /\ sync' = sync
  BY DEF Sync!MarkSyncing
<1>2. SheetOthers(w) /\ worker'[w].pc = pc /\ SameTask(worker[w], worker'[w])
  BY <1>1, Going DEF SheetTyping, Sync!WorkerPcs
<1>3. SheetTaskFits(worker'[w])
  BY <1>2, StillFits DEF SheetTyping
<1>4. UNCHANGED <<sheet, connection, syncedRows, syncTasks, cache, reader>>
  BY DEF Sync!MarkSyncing
<1>5. SheetTyping'
  <2>1. CASE pc = "fetch"
    BY <1>1, <1>2, <1>3, <1>4, <2>1, TaskTyped, WritingTyped DEF Sync!Statuses
  <2>2. CASE pc = "retry"
    BY <1>1, <1>2, <1>3, <1>4, <2>2, WorkerTyped DEF SheetTyping, SheetFits, Sync!SyncStatus
  <2> QED
    BY <2>1, <2>2
<1> QED
  BY <1>1, <1>2, <1>5 DEF MarkWrites

Watermark(c) == IF c.synced > 0 THEN c.next - 1 ELSE c.last
SuccessWrites(w) ==
    /\ worker'[w].pc = "invalidate"
    /\ Sync!WriteState(w, Watermark(worker[w]), worker[w].total + worker[w].synced, "success")
LEMMA SuccessTyped ==
    ASSUME SheetSetup, SheetTyping, NEW w \in SyncWorkers, Sync!WriteSuccess(w)
    PROVE  /\ SheetTyping' /\ SheetOthers(w) /\ SameTask(worker[w], worker'[w])
           /\ worker[w].pc = "store" /\ Len(worker[w].rows) = 0
           /\ Watermark(worker[w]) \in Nat
           /\ SuccessWrites(w) \/ (worker'[w].pc = "failed" /\ sync' = sync)
<1> DEFINE c == worker[w]
<1>1. PICK pc \in {"invalidate", "failed"} :
        /\ Sync!Goto(w, pc)
        /\ \/ pc = "invalidate" /\ Sync!WriteState(w, Watermark(c), c.total + c.synced, "success")
           \/ pc = "failed" /\ sync' = sync
  BY DEF Sync!WriteSuccess, Watermark
<1>2. SheetOthers(w) /\ worker'[w].pc = pc /\ SameTask(c, worker'[w])
  BY <1>1, Going DEF SheetTyping, Sync!WorkerPcs
<1>3. SheetTaskFits(worker'[w])
  BY <1>1, <1>2, StillFits DEF SheetTyping
<1>4. UNCHANGED <<sheet, connection, syncedRows, syncTasks, cache, reader>> /\ c.pc = "store"
      /\ Len(c.rows) = 0
  BY EmptySeq DEF Sync!WriteSuccess, Sync!At
<1>5. Watermark(c) \in Nat /\ Watermark(c) <= Len(sheet) /\ (Watermark(c) = 0 \/ Watermark(c) >= DataStart)
  <2>1. Sync!StartRow(c.last) + c.synced <= c.next /\ c.next + 0 <= Len(sheet) + 1
    BY <1>4, TaskTyped DEF SheetTaskFits
  <2>2. Sync!StartRow(c.last) \in Nat \ {0} /\ Sync!StartRow(c.last) >= DataStart
    BY TaskTyped DEF Sync!StartRow, SheetSetup
  <2> HIDE DEF c
  <2>3. c.last \in Nat /\ c.next \in Nat /\ c.synced \in Nat /\ c.last <= Len(sheet) /\ Len(sheet) \in Nat
        /\ (c.last = 0 \/ c.last >= DataStart)
    BY TaskTyped DEF c
  <2> QED
    BY <2>1, <2>2, <2>3 DEF Watermark, SheetSetup
<1>6. c.total + c.synced \in Nat
  BY TaskTyped
<1>7. SheetTyping'
  <2>1. CASE pc = "invalidate"
    BY <1>1, <1>2, <1>3, <1>4, <1>5, <1>6, <2>1, WritingTyped DEF Sync!Statuses
  <2>2. CASE pc = "failed"
    BY <1>1, <1>2, <1>3, <1>4, <2>2, WorkerTyped DEF SheetTyping, SheetFits, Sync!SyncStatus
  <2> QED
    BY <2>1, <2>2
<1> QED
  BY <1>1, <1>2, <1>4, <1>5, <1>7 DEF SuccessWrites

FailureWrites(w) == Sync!WriteState(w, worker[w].last, worker[w].total, "failed")
LEMMA FailureTyped ==
    ASSUME SheetSetup, SheetTyping, NEW w \in SyncWorkers, Sync!WriteFailed(w)
    PROVE  /\ SheetTyping' /\ SheetOthers(w) /\ worker'[w].pc = "retry" /\ SameTask(worker[w], worker'[w])
           /\ FailureWrites(w) \/ sync' = sync
<1>1. SheetOthers(w) /\ worker'[w].pc = "retry" /\ SameTask(worker[w], worker'[w])
  BY Going DEF Sync!WriteFailed, SheetTyping, Sync!WorkerPcs
<1>2. SheetTaskFits(worker'[w])
  BY <1>1, StillFits DEF SheetTyping
<1>3. UNCHANGED <<sheet, connection, syncedRows, syncTasks, cache, reader>>
  BY DEF Sync!WriteFailed
<1>4. FailureWrites(w) \/ sync' = sync
  BY DEF Sync!WriteFailed, FailureWrites
<1>5. CASE FailureWrites(w)
  BY <1>1, <1>2, <1>3, <1>5, TaskTyped, WritingTyped DEF FailureWrites, Sync!Statuses
<1>6. CASE sync' = sync
  BY <1>1, <1>2, <1>3, <1>6, WorkerTyped DEF SheetTyping, SheetFits, Sync!SyncStatus
<1> QED
  BY <1>1, <1>4, <1>5, <1>6

LEMMA FindTyped ==
    ASSUME SheetSetup, SheetTyping, NEW w \in SyncWorkers, Sync!FindConnection(w)
    PROVE  SheetTyping' /\ SheetOthers(w) /\ worker'[w].pc \in {"read", "retry"}
<1>1. PICK pc \in {"read", "retry"} : Sync!Goto(w, pc)
  BY DEF Sync!FindConnection
<1>2. SheetOthers(w) /\ worker'[w].pc = pc /\ SameTask(worker[w], worker'[w])
  BY <1>1, Going DEF SheetTyping, Sync!WorkerPcs
<1>3. SheetTaskFits(worker'[w])
  BY <1>2, StillFits DEF SheetTyping
<1> QED
  BY <1>2, <1>3, WorkerTyped DEF Sync!FindConnection, SheetTyping, SheetFits, Sync!SyncStatus

\* A worker that is done, or dies.
LEMMA DoneTyped ==
    ASSUME SheetSetup, SheetTyping, NEW w \in SyncWorkers, Sync!Invalidate(w) \/ Sync!HandleFailedTask(w) \/ Sync!Crash(w)
    PROVE  SheetTyping' /\ SheetOthers(w) /\ worker'[w].pc = "idle"
<1>1. SheetOthers(w) /\ worker'[w].pc = "idle" /\ worker'[w].last = 0
  BY Releasing DEF Sync!Invalidate, Sync!HandleFailedTask, Sync!Crash, SheetTyping
<1>2. SheetTaskFits(worker'[w])
  BY <1>1 DEF SheetTaskFits, SheetTyping, SheetFits
<1>3. syncTasks' \in Seq(0 .. MaxRetries)
  <2>1. CASE Sync!HandleFailedTask(w) /\ worker[w].retry < MaxRetries /\ Sync!Enqueue(worker[w].retry + 1)
    <3>1. worker[w].retry + 1 \in 0 .. MaxRetries
      BY <2>1, TaskTyped DEF SheetSetup
    <3> QED
      BY <2>1, <3>1, QueueTyped
  <2>2. CASE syncTasks' = syncTasks
    BY <2>2 DEF SheetTyping
  <2> QED
    BY <2>1, <2>2 DEF Sync!Invalidate, Sync!HandleFailedTask, Sync!Crash
<1>4. cache' = None \/ cache' = cache
  BY DEF Sync!Invalidate, Sync!HandleFailedTask, Sync!Crash
<1>5. reader' \in [pc : {"idle", "computed"}, rows : SUBSET Sync!Rows, old : BOOLEAN]
  <2>1. reader \in [pc : {"idle", "computed"}, rows : SUBSET Sync!Rows, old : BOOLEAN]
    BY DEF SheetTyping
  <2>2. reader' = reader \/ \E b \in BOOLEAN : reader' = [reader EXCEPT !.old = b]
    BY <2>1 DEF Sync!Invalidate, Sync!HandleFailedTask, Sync!Crash, Sync!At
  <2> QED
    BY <2>1, <2>2
<1>6. UNCHANGED <<sheet, connection, sync, syncedRows>>
  BY DEF Sync!Invalidate, Sync!HandleFailedTask, Sync!Crash
<1> QED
  BY <1>1, <1>2, <1>3, <1>4, <1>5, <1>6, WorkerTyped DEF SheetTyping, SheetFits, Sync!SyncStatus

\* Nothing but a few documents changes.
LEMMA ElsewhereTyped ==
    ASSUME SheetSetup, SheetTyping, UNCHANGED <<sheet, worker>>, SheetFits',
           sync' = sync \/ sync' = None,
           connection' \in {"none", "live", "deleting_state", "deleting_data", "deleting", "deleted"},
           syncTasks' \in Seq(0 .. MaxRetries), cache' = None \/ cache' \subseteq Sync!Rows,
           reader' \in [pc : {"idle", "computed"}, rows : SUBSET Sync!Rows, old : BOOLEAN]
    PROVE  SheetTyping'
<1>1. \A v \in SyncWorkers : SheetTaskFits(worker[v])'
  BY DEF SheetTyping, SheetTaskFits
<1>2. Sync!SyncStatus'.last = Sync!SyncStatus.last \/ Sync!SyncStatus'.last = 0
  BY DEF Sync!SyncStatus
<1>3. sync' = None \/ sync' \in [last : 0 .. Len(sheet), total : Nat, status : Sync!Statuses]
  BY DEF SheetTyping
<1> QED
  BY <1>1, <1>2, <1>3 DEF SheetTyping

LEMMA TypingStep == SheetSetup /\ SheetTyping /\ [Sync!Next]_(Sync!vars) => SheetTyping'
<1> SUFFICES ASSUME SheetSetup, SheetTyping, [Sync!Next]_(Sync!vars) PROVE SheetTyping'
  OBVIOUS
<1>1. CASE Sync!AppendRow \/ Sync!FillRow
  <2>1. SheetFits' /\ Grows
    BY <1>1, SheetEdited DEF SheetTyping
  <2>2. UNCHANGED <<connection, sync, syncedRows, syncTasks, worker, cache, reader>>
    BY <1>1 DEF Sync!AppendRow, Sync!FillRow
  <2>3. \A v \in SyncWorkers : SheetTaskFits(worker[v])'
    <3>1. \A v \in SyncWorkers : worker[v] \in SheetTasks /\ SheetTaskFits(worker[v])
      BY DEF SheetTyping
    <3>2. \A c \in SheetTasks : SheetTaskFits(c) => SheetTaskFits(c)'
      BY <2>1, TaskStays DEF SheetTyping
    <3> QED
      BY <2>2, <3>1, <3>2 DEF SheetTaskFits
  <2>4. sync' = None \/ sync' \in [last : 0 .. Len(sheet'), total : Nat, status : Sync!Statuses]
    BY <2>1, <2>2 DEF SheetTyping, Grows, SheetFits
  <2> QED
    BY <2>1, <2>2, <2>3, <2>4 DEF SheetTyping, Sync!SyncStatus
<1>2. ASSUME NEW w \in SyncWorkers, Sync!Work(w) PROVE SheetTyping'
  BY <1>2, DequeueTyped, FindTyped, ReadTyped, MarkTyped, FetchTyped, StoreTyped, SuccessTyped,
     FailureTyped, DoneTyped DEF Sync!Work
<1>3. CASE Sync!CreateConnection \/ Sync!EnqueueAll \/ \E u \in SheetUsers : Sync!TriggerSync(u)
  <2>1. Sync!Enqueue(0) /\ 0 \in 0 .. MaxRetries
    BY <1>3 DEF Sync!CreateConnection, Sync!EnqueueAll, Sync!TriggerSync, SheetSetup
  <2>2. UNCHANGED <<sheet, worker, syncedRows, sync, cache, reader>> /\ connection' \in {connection, "live"}
    BY <1>3 DEF Sync!CreateConnection, Sync!EnqueueAll, Sync!TriggerSync
  <2>3. syncTasks' \in Seq(0 .. MaxRetries)
    BY <2>1, QueueTyped
  <2> QED
    BY <2>2, <2>3, ElsewhereTyped DEF SheetTyping, SheetFits
<1>4. CASE \/ Sync!DeleteState \/ Sync!DeleteConnection \/ Sync!ExpireCache
           \/ \E u \in SheetUsers : Sync!UpdateConnection(u) \/ Sync!BeginDelete(u)
  <2>1. /\ UNCHANGED <<sheet, worker, syncedRows, syncTasks, reader>> /\ sync' \in {sync, None}
        /\ cache' \in {cache, None}
        /\ connection' \in {connection, "deleting_state", "deleting_data", "deleted"}
    BY <1>4 DEF Sync!DeleteState, Sync!DeleteConnection, Sync!ExpireCache,
       Sync!UpdateConnection, Sync!BeginDelete
  <2> QED
    BY <2>1, ElsewhereTyped DEF SheetTyping, SheetFits
<1>5. CASE Sync!DeleteData
  <2>1. UNCHANGED <<sheet, worker, syncTasks, reader, sync, cache>> /\ connection' = "deleting"
        /\ syncedRows' = [r \in Sync!Rows |-> None]
    BY <1>5 DEF Sync!DeleteData
  <2>2. SheetFits'
    BY <2>1 DEF SheetTyping, SheetFits
  <2> QED
    BY <2>1, <2>2, ElsewhereTyped DEF SheetTyping
<1>6. CASE Sync!CacheAnalytics \/ \E u \in SheetUsers : Sync!ComputeAnalytics(u)
  <2>1. UNCHANGED <<sheet, worker, syncTasks, sync, syncedRows, connection>>
    BY <1>6 DEF Sync!CacheAnalytics, Sync!ComputeAnalytics
  <2>2. reader' \in [pc : {"idle", "computed"}, rows : SUBSET Sync!Rows, old : BOOLEAN]
    <3>1. ASSUME NEW pc \in {"idle", "computed"}, NEW rows \in SUBSET Sync!Rows, NEW old \in BOOLEAN
          PROVE  [pc |-> pc, rows |-> rows, old |-> old]
                    \in [pc : {"idle", "computed"}, rows : SUBSET Sync!Rows, old : BOOLEAN]
      OBVIOUS
    <3>2. CASE Sync!CacheAnalytics
      BY <3>1, <3>2 DEF Sync!CacheAnalytics
    <3>3. CASE \E u \in SheetUsers : Sync!ComputeAnalytics(u)
      <4>1. Sync!StoredRows \in SUBSET Sync!Rows
        BY DEF Sync!StoredRows
      <4>2. reader' = [pc |-> "computed", rows |-> Sync!StoredRows, old |-> FALSE]
        BY <3>3 DEF Sync!ComputeAnalytics
      <4> QED
        BY <3>1, <4>1, <4>2
    <3> QED
      BY <1>6, <3>2, <3>3
  <2>3. cache' = None \/ cache' \subseteq Sync!Rows
    <3>1. reader.rows \subseteq Sync!Rows
      BY DEF SheetTyping
    <3> QED
      BY <1>6, <3>1 DEF Sync!CacheAnalytics, Sync!ComputeAnalytics, SheetTyping
  <2> QED
    BY <2>1, <2>2, <2>3, ElsewhereTyped DEF SheetTyping, SheetFits
<1>7. CASE UNCHANGED Sync!vars
  BY <1>7, ElsewhereTyped DEF Sync!vars, SheetTyping, SheetFits
<1> QED
  BY <1>1, <1>2, <1>3, <1>4, <1>5, <1>6, <1>7 DEF Sync!Next, Sync!Request

-----------------------------------------------------------------------------
(* What a sync has passed.                                                  *)

Keeps ==
    /\ \A r \in Sync!Rows : syncedRows[r] # None => syncedRows'[r] # None
    /\ blank \subseteq blank'
LEMMA PassedStays ==
    ASSUME SheetSetup, Keeps
    PROVE  \A n \in Int : n <= MaxRows /\ Passed(n) => Passed(n)'
<1> SUFFICES ASSUME NEW n \in Int, n <= MaxRows, Passed(n),
                    NEW r \in DataStart .. n
             PROVE  syncedRows'[r] # None \/ r \in blank'
  BY DEF Passed
<1>1. r \in Sync!Rows
  BY DEF Sync!Rows, SheetSetup
<1> QED
  BY <1>1 DEF Passed, Keeps

\* What a worker holds lies within the bound.
LEMMA Bounded ==
    ASSUME SheetSetup, SheetTyping
    PROVE  /\ Sync!SyncStatus.last \in Int /\ Sync!SyncStatus.last <= MaxRows
           /\ \A w \in SyncWorkers : worker[w].last \in Int /\ worker[w].last <= MaxRows
           /\ \A w \in SyncWorkers : Sync!At(w, "store") =>
                worker[w].next - 1 \in Int /\ worker[w].next - 1 <= MaxRows
<1>1. Len(sheet) \in Nat /\ Len(sheet) <= MaxRows /\ MaxRows \in Nat
  BY DEF SheetTyping, SheetFits, SheetSetup
<1>2. Sync!SyncStatus.last \in Int /\ Sync!SyncStatus.last <= MaxRows
  BY <1>1, StatusTyped
<1>3. ASSUME NEW w \in SyncWorkers
      PROVE  /\ worker[w].last \in Int /\ worker[w].last <= MaxRows
             /\ Sync!At(w, "store") => worker[w].next - 1 \in Int /\ worker[w].next - 1 <= MaxRows
  <2>1. worker[w].last \in Int /\ worker[w].last <= MaxRows
    BY <1>1, TaskTyped
  <2>2. CASE Sync!At(w, "store")
    <3>1. worker[w].next + Len(worker[w].rows) <= Len(sheet) + 1 /\ worker[w].next \in Nat
      BY <2>2, TaskTyped DEF Sync!At, SheetTaskFits
    <3>2. Len(worker[w].rows) \in Nat
      BY TaskTyped DEF SheetTasks
    <3> QED
      BY <1>1, <2>1, <3>1, <3>2
  <2> QED
    BY <2>1, <2>2
<1> QED
  BY <1>2, <1>3

LEMMA PassingByWorker ==
    ASSUME SheetSetup, SheetTyping, SyncPassing, Keeps, NEW w \in SyncWorkers, SheetOthers(w),
           sync' = sync \/ Passed(Sync!SyncStatus.last)',
           Sync!Syncing(w)' => Passed(worker[w].last)',
           Sync!At(w, "store")' => Passed(worker[w].next - 1)'
    PROVE  SyncPassing'
<1>1. Passed(Sync!SyncStatus.last)'
  <2>1. CASE sync' = sync
    <3>1. Sync!SyncStatus' = Sync!SyncStatus
      BY <2>1 DEF Sync!SyncStatus
    <3>2. Passed(Sync!SyncStatus.last)
      BY DEF SyncPassing
    <3> QED
      BY <3>1, <3>2, Bounded, PassedStays DEF Passed
  <2> QED
    BY <2>1
<1>2. ASSUME NEW v \in SyncWorkers, v # w
      PROVE  /\ Sync!Syncing(v)' => Passed(worker[v].last)'
             /\ Sync!At(v, "store")' => Passed(worker[v].next - 1)'
  <2>1. worker'[v] = worker[v]
    BY <1>2 DEF SheetOthers
  <2>2. /\ Sync!Syncing(v) => Passed(worker[v].last)
        /\ Sync!At(v, "store") => Passed(worker[v].next - 1)
    BY DEF SyncPassing
  <2>3. ASSUME Sync!Syncing(v) PROVE Passed(worker[v].last)'
    BY <2>1, <2>2, <2>3, Bounded, PassedStays DEF Passed
  <2>4. ASSUME Sync!At(v, "store") PROVE Passed(worker[v].next - 1)'
    BY <2>1, <2>2, <2>4, Bounded, PassedStays DEF Passed
  <2> QED
    BY <2>1, <2>3, <2>4 DEF Sync!Syncing, Sync!At
<1> QED
  BY <1>1, <1>2 DEF SyncPassing

LEMMA PassingOfWork ==
    ASSUME SheetSetup, SheetTyping, SyncPassing, NEW w \in SyncWorkers, Sync!Work(w)
    PROVE  SyncPassing'
<1>1. CASE \/ Sync!Dequeue(w)
           \/ Sync!FindConnection(w)
           \/ Sync!Invalidate(w) \/ Sync!HandleFailedTask(w) \/ Sync!Crash(w)
  <2>1. SheetOthers(w) /\ worker'[w].pc \in {"idle", "find", "read", "retry"}
    BY <1>1, DequeueTyped, FindTyped, DoneTyped
  <2>2. UNCHANGED <<sync, syncedRows, blank>>
    BY <1>1 DEF Sync!Dequeue, Sync!FindConnection, Sync!Invalidate, Sync!HandleFailedTask,
       Sync!Crash
  <2> QED
    BY <2>1, <2>2, PassingByWorker DEF Keeps, Sync!Syncing, Sync!At
<1>2. CASE Sync!ReadState(w)
  <2>1. SheetOthers(w) /\ worker'[w].pc = "mark" /\ worker'[w].last = Sync!SyncStatus.last
    BY <1>2, ReadTyped
  <2>2. UNCHANGED <<sync, syncedRows, blank>>
    BY <1>2 DEF Sync!ReadState
  <2>3. Passed(worker[w].last)'
    BY <2>1, <2>2 DEF SyncPassing, Passed
  <2> QED
    BY <2>1, <2>2, <2>3, PassingByWorker DEF Keeps, Sync!Syncing, Sync!At
<1>3. CASE Sync!MarkSyncing(w) \/ Sync!WriteFailed(w)
  <2>1. SheetOthers(w) /\ worker'[w].pc \in {"fetch", "retry"} /\ worker'[w].last = worker[w].last
    BY <1>3, MarkTyped, FailureTyped DEF SameTask, MarkWrites
  <2>2. UNCHANGED <<syncedRows, blank>> /\ Sync!Syncing(w)
    BY <1>3 DEF Sync!MarkSyncing, Sync!WriteFailed, Sync!Syncing, Sync!At
  <2>3. sync' = sync \/ Sync!SyncStatus'.last = worker[w].last
    BY <1>3, MarkTyped, FailureTyped, TaskTyped, Writing DEF MarkWrites, FailureWrites,
       Sync!Statuses
  <2>4. Passed(worker[w].last)
    BY <2>2 DEF SyncPassing
  <2>5. Passed(worker[w].last)' /\ (sync' = sync \/ Passed(Sync!SyncStatus.last)')
    BY <2>1, <2>2, <2>3, <2>4 DEF Passed
  <2> QED
    BY <2>1, <2>2, <2>5, PassingByWorker DEF Keeps, Sync!At
<1>4. CASE Sync!FetchRows(w)
  <2>1. UNCHANGED <<sync, syncedRows, blank>> /\ Sync!Syncing(w)
    BY <1>4 DEF Sync!FetchRows, Sync!Syncing, Sync!At
  <2>2. SheetOthers(w) /\ worker'[w].last = worker[w].last
    BY <1>4, FetchTyped DEF Fetched, SameTask
  <2>3. Passed(worker[w].last)
    BY <2>1 DEF SyncPassing
  <2>4. Passed(worker[w].last)'
    BY <2>1, <2>2, <2>3 DEF Passed
  <2>5. ASSUME worker'[w].pc = "store" PROVE Passed(worker[w].next - 1)'
    <3>1. worker'[w].next = Sync!StartRow(worker[w].last)
      BY <1>4, <2>5, FetchTyped DEF Fetched
    <3>2. worker'[w].next - 1 = worker[w].last \/ worker'[w].next - 1 < DataStart
      BY <3>1, TaskTyped DEF Sync!StartRow, SheetSetup
    <3> QED
      BY <2>1, <2>3, <3>1, <3>2, TaskTyped DEF Passed, SheetSetup, Sync!StartRow
  <2> QED
    BY <2>1, <2>2, <2>4, <2>5, PassingByWorker DEF Keeps, Sync!At
<1>5. CASE Sync!StoreRow(w)
  <2>1. /\ SheetOthers(w) /\ worker[w].pc = "store" /\ worker'[w].last = worker[w].last
        /\ sync' = sync
    BY <1>5, StoreTyped DEF Shifted, SameTask, Sync!StoreRow
  <2>2. Keeps
    <3>1. UNCHANGED <<syncedRows, blank>> \/ Skips(w) \/ Stores(w)
      BY <1>5, StoreTyped
    <3>2. syncedRows \in [Sync!Rows -> Sync!Rows \cup {None}] /\ worker[w].next \in Nat /\ None \notin Nat
      BY TaskTyped DEF SheetTyping, SheetFits, SheetSetup
    <3> QED
      BY <3>1, <3>2 DEF Keeps, Skips, Stores
  <2>3. Passed(worker[w].last) /\ Passed(worker[w].next - 1)
    BY <2>1 DEF SyncPassing, Sync!At, Sync!Syncing
  <2>4. /\ worker[w].last \in Int /\ worker[w].last <= MaxRows
        /\ worker[w].next - 1 \in Int /\ worker[w].next - 1 <= MaxRows
    BY <2>1, Bounded DEF Sync!At
  <2>5. Passed(worker[w].last)'
    BY <2>1, <2>2, <2>3, <2>4, PassedStays DEF Passed
  <2>6. ASSUME worker'[w].pc = "store" PROVE Passed(worker[w].next - 1)'
    <3>1. Shifted(worker[w], worker'[w]) /\ (Skips(w) \/ Stores(w))
      BY <1>5, <2>6, StoreTyped
    <3>2. worker'[w].next - 1 = worker[w].next /\ worker[w].next \in Nat
      BY <3>1, TaskTyped DEF Shifted
    <3>3. \A r \in DataStart .. worker[w].next - 1 : syncedRows'[r] # None \/ r \in blank'
      <4> DEFINE n == worker[w].next - 1
      <4>1. n \in Int /\ n <= MaxRows /\ Passed(n)
        BY <2>3, <2>4
      <4> HIDE DEF n
      <4>2. \A r \in DataStart .. n : r \in Sync!Rows
        BY <4>1 DEF Sync!Rows, SheetSetup
      <4>3. \A r \in DataStart .. n : syncedRows'[r] # None \/ r \in blank'
        BY <2>2, <4>1, <4>2 DEF Passed, Keeps
      <4> QED
        BY <4>3 DEF n
    <3>4. worker[w].next \in DataStart .. MaxRows => syncedRows'[worker[w].next] # None \/ worker[w].next \in blank'
      <4>1. syncedRows \in [Sync!Rows -> Sync!Rows \cup {None}] /\ None \notin Nat
        BY DEF SheetTyping, SheetFits, SheetSetup
      <4>2. worker[w].next \in DataStart .. MaxRows => worker[w].next \in Sync!Rows
        BY DEF Sync!Rows, SheetSetup
      <4> QED
        BY <3>1, <3>2, <4>1, <4>2 DEF Skips, Stores
    <3>5. worker'[w].next - 1 <= MaxRows
      <4>1. worker[w].next + Len(worker[w].rows) <= Len(sheet) + 1 /\ Len(worker[w].rows) \in Nat \ {0}
        BY <1>5, <2>1, StoreTyped, TaskTyped DEF SheetTaskFits
      <4>2. Len(sheet) \in Nat /\ Len(sheet) <= MaxRows /\ MaxRows \in Nat
        BY DEF SheetTyping, SheetFits, SheetSetup
      <4> QED
        BY <3>2, <4>1, <4>2
    <3>6. \A r \in DataStart .. worker[w].next : r \in DataStart .. worker[w].next - 1
                                               \/ (r = worker[w].next /\ r \in DataStart .. MaxRows)
      BY <3>2, <3>5 DEF SheetSetup
    <3> QED
      BY <3>2, <3>3, <3>4, <3>6 DEF Passed
  <2> QED
    BY <2>1, <2>2, <2>5, <2>6, PassingByWorker DEF Sync!At
<1>6. CASE Sync!WriteSuccess(w)
  <2>1. /\ SheetOthers(w) /\ worker[w].pc = "store" /\ worker'[w].last = worker[w].last
        /\ worker'[w].pc \in {"invalidate", "failed"}
    BY <1>6, SuccessTyped DEF SameTask, SuccessWrites
  <2>2. UNCHANGED <<syncedRows, blank>>
    BY <1>6 DEF Sync!WriteSuccess
  <2>3. Passed(worker[w].last) /\ Passed(worker[w].next - 1)
    BY <2>1 DEF SyncPassing, Sync!At, Sync!Syncing
  <2>4. sync' = sync \/ Sync!SyncStatus'.last = Watermark(worker[w])
    BY <1>6, SuccessTyped, TaskTyped, Writing DEF SuccessWrites, Sync!Statuses
  <2>5. Watermark(worker[w]) = worker[w].last \/ Watermark(worker[w]) = worker[w].next - 1
    BY DEF Watermark
  <2>6. Passed(worker[w].last)' /\ (sync' = sync \/ Passed(Sync!SyncStatus.last)')
    BY <2>1, <2>2, <2>3, <2>4, <2>5 DEF Passed
  <2> QED
    BY <2>1, <2>2, <2>6, PassingByWorker DEF Keeps, Sync!At
<1> QED
  BY <1>1, <1>2, <1>3, <1>4, <1>5, <1>6 DEF Sync!Work

\* The steps that do not begin or go on with a deletion.
AskingStep == Sync!CreateConnection \/ Sync!EnqueueAll \/ \E u \in SheetUsers : Sync!UpdateConnection(u) \/ Sync!TriggerSync(u)
CachingStep == Sync!CacheAnalytics \/ Sync!ExpireCache \/ \E u \in SheetUsers : Sync!ComputeAnalytics(u)
LEMMA StillThere ==
    ASSUME [Sync!Next]_(Sync!vars), connection' \in {"none", "live"}
    PROVE  /\ connection \in {"none", "live"}
           /\ \/ Sync!AppendRow \/ Sync!FillRow \/ AskingStep \/ UNCHANGED Sync!vars
              \/ CachingStep
              \/ \E w \in SyncWorkers : Sync!Work(w)
<1>1. ASSUME NEW w \in SyncWorkers, Sync!Work(w) PROVE connection' = connection
  BY <1>1 DEF Sync!Work, Sync!Dequeue, Sync!FindConnection, Sync!ReadState, Sync!MarkSyncing,
     Sync!FetchRows, Sync!StoreRow,
              Sync!WriteSuccess, Sync!Invalidate, Sync!WriteFailed, Sync!HandleFailedTask, Sync!Crash
<1>2. ~Sync!DeleteState /\ ~Sync!DeleteData /\ ~Sync!DeleteConnection /\ \A u \in SheetUsers : ~Sync!BeginDelete(u)
  BY DEF Sync!DeleteState, Sync!DeleteData, Sync!DeleteConnection, Sync!BeginDelete
<1>3. /\ Sync!AppendRow \/ Sync!FillRow \/ CachingStep \/ UNCHANGED Sync!vars => connection' = connection
      /\ AskingStep => connection' = connection \/ connection = "none"
  BY DEF Sync!AppendRow, Sync!FillRow, CachingStep, Sync!CacheAnalytics, Sync!ExpireCache,
     Sync!ComputeAnalytics, Sync!vars,
         AskingStep, Sync!CreateConnection, Sync!EnqueueAll, Sync!UpdateConnection, Sync!TriggerSync
<1>4. \/ Sync!AppendRow \/ Sync!FillRow \/ AskingStep \/ UNCHANGED Sync!vars
      \/ CachingStep
      \/ \E w \in SyncWorkers : Sync!Work(w)
  BY <1>2 DEF Sync!Next, Sync!Request, AskingStep, CachingStep
<1> QED
  BY <1>1, <1>3, <1>4

LEMMA PassingStep ==
    ASSUME SheetSetup, SheetTyping, SyncPassing, [Sync!Next]_(Sync!vars), connection' \in {"none", "live"}
    PROVE  SyncPassing'
<1>1. CASE Sync!AppendRow \/ Sync!FillRow \/ AskingStep \/ UNCHANGED Sync!vars \/ CachingStep
  <2>1. UNCHANGED <<worker, sync, syncedRows, blank>>
    BY <1>1 DEF Sync!AppendRow, Sync!FillRow, CachingStep, Sync!CacheAnalytics,
       Sync!ExpireCache, Sync!ComputeAnalytics, Sync!vars,
                AskingStep, Sync!CreateConnection, Sync!EnqueueAll, Sync!UpdateConnection, Sync!TriggerSync
  <2> QED
    BY <2>1 DEF SyncPassing, Passed, Sync!SyncStatus, Sync!Syncing, Sync!At
<1>2. ASSUME NEW w \in SyncWorkers, Sync!Work(w) PROVE SyncPassing'
  BY <1>2, PassingOfWork
<1> QED
  BY <1>1, <1>2, StillThere

-----------------------------------------------------------------------------
(* What a sync that is alone has counted.                                   *)

LEMMA SyncCardinality == \A S : Sync!Cardinality(S) = Cardinality(S)
BY DEF Sync!Cardinality, Cardinality

LEMMA BelowFinite ==
    ASSUME SheetSetup
    PROVE  \A n : IsFiniteSet(Below(n))
<1>1. IsFiniteSet(Sync!Rows)
  BY FS_Interval DEF Sync!Rows, SheetSetup
<1> QED
  BY <1>1, FS_Subset DEF Below, Sync!StoredRows

LEMMA RowsStored ==
    ASSUME SheetSetup, SheetFits
    PROVE  /\ Sync!StoredRows = {r \in Sync!Rows : syncedRows[r] # None} /\ Len(sheet) \in Nat
           /\ \A r \in Sync!StoredRows : /\ r \in Nat \ {0} /\ r >= DataStart /\ r <= Len(sheet)
                                    /\ sheet[r] = r /\ syncedRows[r] = r
BY DEF SheetFits, Sync!StoredRows, Sync!Rows, SheetSetup

\* A worker that syncs alone moves on.
LEMMA AloneOn ==
    ASSUME NEW w \in SyncWorkers, SheetOthers(w), \A v \in SyncWorkers : v # w => ~Sync!Syncing(v),
           Sync!Syncing(w)' => SyncFits(w)'
    PROVE  SyncAlone'
<1>1. \A v \in SyncWorkers : Sync!Syncing(v)' => v = w
  BY DEF SheetOthers, Sync!Syncing
<1> QED
  BY <1>1 DEF SyncAlone

\* A worker that does not sync moves.
LEMMA AloneAside ==
    ASSUME NEW w \in SyncWorkers, SyncAlone, SheetOthers(w), ~Sync!Syncing(w)', UNCHANGED <<sync, syncedRows>>
    PROVE  SyncAlone'
<1>1. ASSUME NEW v \in SyncWorkers, Sync!Syncing(v)' PROVE v # w /\ worker'[v] = worker[v] /\ Sync!Syncing(v)
  BY <1>1 DEF SheetOthers, Sync!Syncing
<1>2. \A v \in SyncWorkers : worker'[v] = worker[v] => (SyncFits(v) => SyncFits(v)')
  BY DEF SyncFits, Sync!SyncStatus, Sync!StoredRows, Below
<1> QED
  BY <1>1, <1>2 DEF SyncAlone

\* The sync state and the rows stay, and so does their count.
LEMMA CountStays ==
    ASSUME SyncCounting, UNCHANGED <<sync, syncedRows>>
    PROVE  SyncCounting'
<1>1. /\ Sync!SyncStatus' = Sync!SyncStatus /\ Sync!StoredRows' = Sync!StoredRows
      /\ \A n : Below(n)' = Below(n)
  BY DEF Sync!SyncStatus, Sync!StoredRows, Below
<1> QED
  BY <1>1 DEF SyncCounting

\* The sync state is written again with what the worker read.
LEMMA CountBack ==
    ASSUME SheetSetup, NEW w, NEW last \in Nat, NEW total \in Nat, NEW status \in Sync!Statuses,
           SyncCounting, Sync!SyncStatus.last = last, Sync!SyncStatus.total = total, status # "success",
           Sync!WriteState(w, last, total, status), syncedRows' = syncedRows
    PROVE  SyncCounting'
<1>1. Sync!SyncStatus'.last = last /\ Sync!SyncStatus'.total = total /\ Sync!SyncStatus'.status = status
  BY Writing
<1>2. \A n : Below(n)' = Below(n)
  BY DEF Sync!StoredRows, Below
<1> QED
  BY <1>1, <1>2 DEF SyncCounting

LEMMA ReadCounts ==
    ASSUME SheetSetup, SheetTyping, SyncAlone, SyncCounting, NEW w \in SyncWorkers, Sync!ReadState(w), ~syncsOverlapped'
    PROVE  SyncAlone' /\ SyncCounting'
<1>1. /\ SheetOthers(w) /\ worker'[w].pc = "mark"
      /\ worker'[w].last = Sync!SyncStatus.last /\ worker'[w].total = Sync!SyncStatus.total
  BY ReadTyped
<1>2. UNCHANGED <<sync, syncedRows>> /\ \A v \in SyncWorkers : v # w => ~Sync!Syncing(v)
  BY DEF Sync!ReadState
<1>3. SyncFits(w)'
  BY <1>1, <1>2 DEF SyncFits, Sync!SyncStatus
<1> QED
  BY <1>1, <1>2, <1>3, AloneOn, CountStays

LEMMA MarkCounts ==
    ASSUME SheetSetup, SheetTyping, SyncAlone, SyncCounting, NEW w \in SyncWorkers, Sync!MarkSyncing(w)
    PROVE  SyncAlone' /\ SyncCounting'
<1>1. SheetOthers(w) /\ SameTask(worker[w], worker'[w]) /\ syncedRows' = syncedRows /\ Sync!Syncing(w)
      /\ (MarkWrites(w) \/ (worker'[w].pc = "retry" /\ sync' = sync))
  BY MarkTyped DEF Sync!MarkSyncing, Sync!Syncing, Sync!At
<1>2. CASE worker'[w].pc = "retry" /\ sync' = sync
  BY <1>1, <1>2, AloneAside, CountStays DEF Sync!Syncing
<1>3. CASE MarkWrites(w)
  <2>1. SyncFits(w) /\ \A v \in SyncWorkers : v # w => ~Sync!Syncing(v)
    BY <1>1 DEF SyncAlone
  <2>2. Sync!SyncStatus.last = worker[w].last /\ Sync!SyncStatus.total = worker[w].total
    BY <2>1 DEF SyncFits
  <2>3. /\ Sync!SyncStatus'.last = worker[w].last /\ Sync!SyncStatus'.total = worker[w].total
        /\ Sync!SyncStatus'.status = "syncing"
    BY <1>3, TaskTyped, Writing DEF MarkWrites, Sync!Statuses
  <2>4. SyncCounting'
    BY <1>1, <1>3, <2>2, TaskTyped, CountBack DEF MarkWrites, Sync!Statuses
  <2>5. SyncFits(w)'
    BY <1>1, <1>3, <2>3 DEF SyncFits, MarkWrites, SameTask
  <2> QED
    BY <1>1, <2>1, <2>4, <2>5, AloneOn
<1> QED
  BY <1>1, <1>2, <1>3

LEMMA FailureCounts ==
    ASSUME SheetSetup, SheetTyping, SyncAlone, SyncCounting, NEW w \in SyncWorkers, Sync!WriteFailed(w)
    PROVE  SyncAlone' /\ SyncCounting'
<1>1. SheetOthers(w) /\ worker'[w].pc = "retry" /\ syncedRows' = syncedRows /\ Sync!Syncing(w)
      /\ (FailureWrites(w) \/ sync' = sync)
  BY FailureTyped DEF Sync!WriteFailed, Sync!Syncing, Sync!At
<1>2. CASE sync' = sync
  BY <1>1, <1>2, AloneAside, CountStays DEF Sync!Syncing
<1>3. CASE FailureWrites(w)
  <2>1. SyncFits(w) /\ \A v \in SyncWorkers : v # w => ~Sync!Syncing(v)
    BY <1>1 DEF SyncAlone
  <2>2. Sync!SyncStatus.last = worker[w].last /\ Sync!SyncStatus.total = worker[w].total
    BY <2>1 DEF SyncFits
  <2>3. SyncCounting'
    BY <1>1, <1>3, <2>2, TaskTyped, CountBack DEF FailureWrites, Sync!Statuses
  <2> QED
    BY <1>1, <2>1, <2>3, AloneOn DEF Sync!Syncing
<1> QED
  BY <1>1, <1>2, <1>3

\* A sync that fails, where neither a row nor the state is written.
LEMMA FailingFits ==
    ASSUME NEW w \in SyncWorkers, SyncAlone, Sync!Syncing(w), worker[w].pc # "mark", SheetOthers(w),
           worker'[w].pc = "failed", SameTask(worker[w], worker'[w]), UNCHANGED <<sync, syncedRows>>
    PROVE  SyncAlone'
<1>1. SyncFits(w) /\ \A v \in SyncWorkers : v # w => ~Sync!Syncing(v)
  BY DEF SyncAlone
<1>2. SyncFits(w)'
  BY <1>1 DEF SyncFits, SameTask, Sync!SyncStatus
<1> QED
  BY <1>1, <1>2, AloneOn

LEMMA FetchCounts ==
    ASSUME SheetSetup, SheetTyping, SyncAlone, SyncCounting, NEW w \in SyncWorkers, Sync!FetchRows(w)
    PROVE  SyncAlone' /\ SyncCounting'
<1> DEFINE c == worker[w]
           d == worker'[w]
<1>1. /\ SheetOthers(w) /\ c.pc = "fetch" /\ Sync!Syncing(w) /\ UNCHANGED <<sync, syncedRows>>
      /\ (d.pc = "failed" /\ SameTask(c, d)) \/ Fetched(c, d)
  BY FetchTyped DEF Sync!FetchRows, Sync!Syncing, Sync!At
<1>2. CASE d.pc = "failed" /\ SameTask(c, d)
  BY <1>1, <1>2, FailingFits, CountStays
<1>3. CASE Fetched(c, d)
  <2>1. SyncFits(w) /\ \A v \in SyncWorkers : v # w => ~Sync!Syncing(v)
    BY <1>1 DEF SyncAlone
  <2>2. /\ Sync!SyncStatus' = Sync!SyncStatus /\ Sync!StoredRows' = Sync!StoredRows
        /\ \A n : Below(n)' = Below(n)
    BY <1>1 DEF Sync!SyncStatus, Sync!StoredRows, Below
  <2>3. /\ d.pc = "store" /\ d.last = c.last /\ d.total = c.total /\ d.synced = 0
        /\ d.next = Sync!StartRow(c.last) /\ d.next + Len(d.rows) = Len(sheet) + 1
        /\ \A k \in 1 .. Len(d.rows) : d.rows[k] = sheet[d.next + k - 1]
    BY <1>3 DEF Fetched
  <2>4. c.last \in Nat /\ d.next \in Nat /\ Len(sheet) \in Nat /\ DataStart \in Nat \ {0}
        /\ d.total \in Nat
    BY <2>3, TaskTyped DEF Sync!StartRow, SheetSetup
  <2>5. \A r \in Sync!StoredRows : /\ r \in Nat \ {0} /\ r >= DataStart /\ r <= Len(sheet)
                              /\ sheet[r] = r /\ syncedRows[r] = r
    BY RowsStored DEF SheetTyping
  <2>6. Below(d.next - 1) = Below(c.last)
    <3>1. CASE c.last = 0
      <4>1. d.next - 1 = DataStart - 1
        BY <2>3, <3>1 DEF Sync!StartRow
      <4> HIDE DEF c, d
      <4>2. \A r \in Sync!StoredRows : ~(r <= d.next - 1) /\ ~(r <= c.last)
        BY <2>4, <2>5, <3>1, <4>1
      <4> QED
        BY <4>2 DEF Below
    <3>2. CASE c.last # 0
      BY <2>3, <2>4, <3>2 DEF Sync!StartRow
    <3> QED
      BY <3>1, <3>2
  <2>7. Sync!SyncStatus.last = c.last /\ Sync!SyncStatus.total = c.total /\ Sync!SyncStatus.status # "success"
    BY <1>1, <2>1 DEF SyncFits
  <2>8. d.total + d.synced = Sync!Cardinality(Below(d.next - 1))
    BY <2>3, <2>4, <2>6, <2>7 DEF SyncCounting
  <2>9. Sync!StoredRows \subseteq 1 .. d.next + Len(d.rows) - 1
    BY <2>3, <2>4, <2>5
  <2>10. Below(d.next - 1) \subseteq 1 .. d.last
    BY <2>3, <2>4, <2>5, <2>6 DEF Below
  <2>11. \A k \in 1 .. Len(d.rows) : d.rows[k] = None => syncedRows[d.next + k - 1] = None
    <3> SUFFICES ASSUME NEW k \in 1 .. Len(d.rows), d.rows[k] = None,
                        syncedRows[d.next + k - 1] # None
                 PROVE  FALSE
      OBVIOUS
    <3>1. d.next + k - 1 \in Sync!Rows
      <4>1. d.next + k - 1 \in 1 .. Len(sheet)
        <5>1. d.next >= 1
          BY <2>3, <2>4 DEF Sync!StartRow
        <5> QED
          BY <2>3, <2>4, <5>1
      <4> QED
        BY <2>4, <4>1 DEF SheetTyping, SheetFits, Sync!Rows, SheetSetup
    <3>2. d.next + k - 1 \in Sync!StoredRows
      BY <3>1 DEF Sync!StoredRows
    <3>3. sheet[d.next + k - 1] = d.next + k - 1 /\ d.next + k - 1 \in Nat
      BY <2>5, <3>2
    <3> QED
      BY <2>3, <3>3 DEF SheetSetup
  <2>12. SyncFits(w)'
    BY <1>1, <2>2, <2>3, <2>7, <2>8, <2>9, <2>10, <2>11 DEF SyncFits
  <2>13. SyncAlone'
    BY <1>1, <2>1, <2>12, AloneOn
  <2> QED
    BY <1>1, <2>13, CountStays
<1> QED
  BY <1>1, <1>2, <1>3

LEMMA AllBelow ==
    ASSUME NEW n \in Int, Sync!StoredRows \subseteq 1 .. n
    PROVE  Below(n) = Sync!StoredRows
<1>1. \A r \in Sync!StoredRows : r <= n
  OBVIOUS
<1> QED
  BY <1>1 DEF Below

LEMMA StoreCounts ==
    ASSUME SheetSetup, SheetTyping, SyncAlone, SyncCounting, NEW w \in SyncWorkers, Sync!StoreRow(w)
    PROVE  SyncAlone' /\ SyncCounting'
<1> DEFINE c == worker[w]
           d == worker'[w]
<1>1. /\ SheetTyping' /\ SheetOthers(w) /\ c.pc = "store" /\ Sync!Syncing(w) /\ sync' = sync
      /\ Len(c.rows) \in Nat \ {0}
      /\ \/ d.pc = "failed" /\ SameTask(c, d) /\ syncedRows' = syncedRows
         \/ Shifted(c, d) /\ (Skips(w) \/ Stores(w))
  BY StoreTyped DEF Sync!StoreRow, Sync!Syncing, Sync!At
<1>2. CASE d.pc = "failed" /\ SameTask(c, d) /\ syncedRows' = syncedRows
  BY <1>1, <1>2, FailingFits, CountStays
<1>3. SyncFits(w) /\ \A v \in SyncWorkers : v # w => ~Sync!Syncing(v)
  BY <1>1 DEF SyncAlone
<1>4. /\ Sync!SyncStatus.last = c.last /\ Sync!SyncStatus.total = c.total /\ Sync!SyncStatus.status # "success"
      /\ Sync!StoredRows \subseteq 1 .. c.next + Len(c.rows) - 1
      /\ \A k \in 1 .. Len(c.rows) : c.rows[k] = None => syncedRows[c.next + k - 1] = None
      /\ c.total + c.synced = Sync!Cardinality(Below(c.next - 1))
      /\ c.synced = 0 => Below(c.next - 1) \subseteq 1 .. c.last
  BY <1>1, <1>3 DEF SyncFits
<1>5. /\ c.last \in Nat /\ c.next \in Nat \ {0} /\ c.total \in Nat /\ c.synced \in Nat
      /\ c.last < c.next
  <2>1. Sync!StartRow(c.last) + c.synced <= c.next /\ c.synced \in Nat /\ c.last \in Nat /\ c.next \in Nat
        /\ c.total \in Nat
    BY <1>1, TaskTyped DEF SheetTaskFits
  <2>2. Sync!StartRow(c.last) \in Nat \ {0} /\ Sync!StartRow(c.last) > c.last
    BY <2>1 DEF Sync!StartRow, SheetSetup
  <2> HIDE DEF c
  <2> QED
    BY <2>1, <2>2
<1>6. \A r \in Sync!StoredRows : r \in Nat \ {0}
  BY RowsStored DEF SheetTyping
<1>7. Sync!SyncStatus' = Sync!SyncStatus
  BY <1>1 DEF Sync!SyncStatus
<1>8. ASSUME Shifted(c, d)
      PROVE  /\ d.pc = "store" /\ d.last = c.last /\ d.total = c.total /\ d.next = c.next + 1
             /\ Len(d.rows) = Len(c.rows) - 1 /\ d.next + Len(d.rows) - 1 = c.next + Len(c.rows) - 1
             /\ d.next - 1 = c.next
             /\ \A k \in 1 .. Len(d.rows) :
                  d.rows[k] = None => k + 1 \in 1 .. Len(c.rows) /\ c.rows[k + 1] = None
                                      /\ d.next + k - 1 = c.next + (k + 1) - 1
  <2>1. /\ d.pc = "store" /\ d.last = c.last /\ d.total = c.total /\ d.next = c.next + 1
        /\ Len(d.rows) = Len(c.rows) - 1
        /\ \A k \in 1 .. Len(d.rows) : d.rows[k] = c.rows[k + 1]
    BY <1>8 DEF Shifted
  <2>2. Len(c.rows) \in Nat \ {0} /\ c.next \in Nat \ {0}
    BY <1>1, <1>5
  <2> HIDE DEF c, d
  <2>3. /\ d.next + Len(d.rows) - 1 = c.next + Len(c.rows) - 1
        /\ d.next - 1 = c.next
        /\ \A k \in 1 .. Len(d.rows) : k + 1 \in 1 .. Len(c.rows) /\ d.next + k - 1 = c.next + (k + 1) - 1
    <3>1. ASSUME NEW k \in 1 .. Len(d.rows)
          PROVE  k + 1 \in 1 .. Len(c.rows) /\ d.next + k - 1 = c.next + (k + 1) - 1
      <4>1. k \in 1 .. Len(c.rows) - 1 /\ d.next = c.next + 1
        BY <2>1, <3>1
      <4> QED
        BY <2>2, <4>1
    <3>2. Len(d.rows) = Len(c.rows) - 1 /\ d.next = c.next + 1
      BY <2>1
    <3>3. d.next + Len(d.rows) - 1 = c.next + Len(c.rows) - 1 /\ d.next - 1 = c.next
      BY <2>2, <3>2
    <3> QED
      BY <3>1, <3>3
  <2> QED
    BY <2>1, <2>3
<1>9. CASE Shifted(c, d) /\ Skips(w)
  <2>1. syncedRows' = syncedRows /\ d.synced = c.synced /\ c.rows[1] = None
    BY <1>9 DEF Skips
  <2>2. Sync!StoredRows' = Sync!StoredRows /\ \A n : Below(n)' = Below(n)
    BY <2>1 DEF Sync!StoredRows, Below
  <2>3. c.next \notin Sync!StoredRows
    <3>1. syncedRows[c.next + 1 - 1] = None
      BY <1>1, <1>4, <2>1
    <3> QED
      BY <1>5, <3>1 DEF Sync!StoredRows
  <2>4. Below(c.next) = Below(c.next - 1)
    <3>1. \A r \in Sync!StoredRows : r <= c.next <=> r <= c.next - 1
      BY <1>5, <1>6, <2>3
    <3> QED
      BY <3>1 DEF Below
  <2>5. \A k \in 1 .. Len(d.rows) : d.rows[k] = None => syncedRows[d.next + k - 1] = None
    BY <1>4, <1>8, <1>9
  <2>6. SyncFits(w)'
    BY <1>4, <1>7, <1>8, <1>9, <2>1, <2>2, <2>4, <2>5 DEF SyncFits
  <2> QED
    BY <1>1, <1>3, <2>1, <2>6, AloneOn, CountStays
<1>10. CASE Shifted(c, d) /\ Stores(w)
  <2>1. /\ syncedRows' = [syncedRows EXCEPT ![c.next] = c.next] /\ d.synced = c.synced + 1
        /\ c.next \in DataStart .. Len(sheet)
    BY <1>10 DEF Stores
  <2>2. Sync!StoredRows' = Sync!StoredRows \cup {c.next} /\ c.next \in Sync!Rows
    <3>1. c.next \in Sync!Rows /\ None \notin Nat
      BY <1>5, <2>1 DEF SheetTyping, SheetFits, SheetSetup, Sync!Rows
    <3>2. syncedRows \in [Sync!Rows -> Sync!Rows \cup {None}]
      BY DEF SheetTyping, SheetFits
    <3> QED
      BY <1>5, <2>1, <3>1, <3>2 DEF Sync!StoredRows
  <2> PICK m \in Int, l \in Int : m = c.next /\ l = c.last
    BY <1>5
  <2>3. Below(m)' = Below(c.next - 1) \cup {c.next}
    <3>1. \A r \in Sync!StoredRows : (r <= c.next /\ r # c.next) <=> r <= c.next - 1
      BY <1>5, <1>6
    <3>2. {r \in Sync!StoredRows \cup {c.next} : r <= c.next} = {r \in Sync!StoredRows : r <= c.next - 1} \cup {c.next}
      BY <1>5, <3>1
    <3>3. Below(m)' = {r \in Sync!StoredRows' : r <= m}
      BY DEF Below
    <3>4. Below(c.next - 1) = {r \in Sync!StoredRows : r <= c.next - 1}
      BY DEF Below
    <3> QED
      BY <2>2, <3>2, <3>3, <3>4
  <2>4. Sync!Cardinality(Below(c.next - 1) \cup {c.next}) = Sync!Cardinality(Below(c.next - 1)) + 1
    <3>1. c.next \notin Below(c.next - 1)
      BY <1>5 DEF Below
    <3>2. IsFiniteSet(Below(c.next - 1))
      BY BelowFinite
    <3> QED
      BY <3>1, <3>2, FS_AddElement, SyncCardinality
  <2>5. d.total + d.synced = Sync!Cardinality(Below(c.next - 1) \cup {c.next}) /\ d.synced # 0
    <3>1. Sync!Cardinality(Below(c.next - 1)) = c.total + c.synced /\ d.total = c.total /\ d.synced = c.synced + 1
      BY <1>4, <1>8, <1>10, <2>1
    <3>2. c.total \in Nat /\ c.synced \in Nat
      BY <1>5
    <3> HIDE DEF c, d
    <3> QED
      BY <2>4, <3>1, <3>2
  <2>6. Sync!StoredRows' \subseteq 1 .. d.next + Len(d.rows) - 1
    <3>1. c.next \in 1 .. c.next + Len(c.rows) - 1
      BY <1>1, <1>5
    <3> QED
      BY <1>4, <1>8, <1>10, <2>2, <3>1
  <2>7. \A k \in 1 .. Len(d.rows) : d.rows[k] = None => syncedRows'[d.next + k - 1] = None
    <3> SUFFICES ASSUME NEW k \in 1 .. Len(d.rows), d.rows[k] = None
                 PROVE  syncedRows'[d.next + k - 1] = None
      OBVIOUS
    <3>1. syncedRows[c.next + (k + 1) - 1] = None /\ d.next + k - 1 = c.next + (k + 1) - 1
      BY <1>4, <1>8, <1>10
    <3>2. d.next + k - 1 # c.next
      BY <1>5, <3>1
    <3>3. \A n : n # c.next /\ syncedRows[n] = None => syncedRows'[n] = None
      BY <2>1 DEF SheetTyping, SheetFits
    <3> HIDE DEF c, d
    <3> QED
      BY <3>1, <3>2, <3>3
  <2>8. SyncFits(w)'
    <3>1. worker'[w].next - 1 = m
      BY <1>8, <1>10
    <3>2. Sync!SyncStatus'.last = d.last /\ Sync!SyncStatus'.total = d.total /\ Sync!SyncStatus'.status # "success"
      BY <1>4, <1>7, <1>8, <1>10
    <3>3. d.total + d.synced = Sync!Cardinality(Below(worker[w].next - 1)')
      BY <2>3, <2>5, <3>1
    <3>4. /\ Sync!StoredRows' \subseteq 1 .. d.next + Len(d.rows) - 1 /\ d.synced # 0
          /\ \A k \in 1 .. Len(d.rows) : d.rows[k] = None => syncedRows'[d.next + k - 1] = None
      BY <2>5, <2>6, <2>7
    <3> QED
      BY <3>2, <3>3, <3>4 DEF SyncFits
  <2>9. Below(l)' = Below(l)
    <3>1. {r \in Sync!StoredRows \cup {c.next} : r <= l} = {r \in Sync!StoredRows : r <= l}
      BY <1>5
    <3>2. Below(l)' = {r \in Sync!StoredRows' : r <= l} /\ Below(l) = {r \in Sync!StoredRows : r <= l}
      BY DEF Below
    <3> QED
      BY <2>2, <3>1, <3>2
  <2>10. SyncCounting'
    <3>1. Sync!SyncStatus.last = l /\ Sync!SyncStatus'.last = l /\ Sync!SyncStatus'.status # "success"
      BY <1>4, <1>7
    <3>2. Sync!SyncStatus'.total = Sync!Cardinality(Below(l)')
      BY <1>7, <2>9, <3>1 DEF SyncCounting
    <3> QED
      BY <3>1, <3>2 DEF SyncCounting
  <2> QED
    BY <1>1, <1>3, <2>8, <2>10, AloneOn
<1> QED
  BY <1>1, <1>2, <1>9, <1>10

LEMMA SuccessCounts ==
    ASSUME SheetSetup, SheetTyping, SyncAlone, SyncCounting, NEW w \in SyncWorkers, Sync!WriteSuccess(w)
    PROVE  SyncAlone' /\ SyncCounting'
<1> DEFINE c == worker[w]
<1>1. /\ SheetOthers(w) /\ SameTask(c, worker'[w]) /\ c.pc = "store" /\ Sync!Syncing(w) /\ syncedRows' = syncedRows
      /\ Len(c.rows) = 0 /\ Watermark(c) \in Nat
      /\ SuccessWrites(w) \/ (worker'[w].pc = "failed" /\ sync' = sync)
  BY SuccessTyped DEF Sync!WriteSuccess, Sync!Syncing, Sync!At
<1>2. CASE worker'[w].pc = "failed" /\ sync' = sync
  BY <1>1, <1>2, FailingFits, CountStays
<1>3. CASE SuccessWrites(w)
  <2>1. SyncFits(w) /\ \A v \in SyncWorkers : v # w => ~Sync!Syncing(v)
    BY <1>1 DEF SyncAlone
  <2>2. /\ Sync!StoredRows \subseteq 1 .. c.next + 0 - 1
        /\ c.total + c.synced = Sync!Cardinality(Below(c.next - 1))
        /\ c.synced = 0 => Below(c.next - 1) \subseteq 1 .. c.last
    BY <1>1, <2>1 DEF SyncFits
  <2>3. c.total + c.synced \in Nat /\ c.synced \in Nat /\ c.last \in Nat /\ c.next \in Nat
    BY TaskTyped
  <2>4. /\ Sync!SyncStatus'.last = Watermark(c) /\ Sync!SyncStatus'.total = c.total + c.synced
    BY <1>1, <1>3, <2>3, Writing DEF SuccessWrites, Sync!Statuses
  <2>5. Sync!StoredRows' = Sync!StoredRows /\ \A n : Below(n)' = Below(n)
    BY <1>1 DEF Sync!StoredRows, Below
  <2>6. Below(c.next - 1) = Sync!StoredRows
    BY <2>2, <2>3, AllBelow
  <2>7. Sync!StoredRows \subseteq 1 .. Watermark(c)
    BY <2>2, <2>3, <2>6 DEF Watermark
  <2>8. Below(Watermark(c)) = Sync!StoredRows
    BY <1>1, <2>7, AllBelow
  <2>9. SyncCounting'
    BY <2>2, <2>4, <2>5, <2>6, <2>7, <2>8 DEF SyncCounting
  <2>10. SyncAlone'
    BY <1>1, <1>3, <2>1, AloneOn DEF SuccessWrites, Sync!Syncing
  <2> QED
    BY <2>9, <2>10
<1> QED
  BY <1>1, <1>2, <1>3

LEMMA WorkCounts ==
    ASSUME SheetSetup, SheetTyping, SyncAlone, SyncCounting, ~syncsOverlapped', NEW w \in SyncWorkers, Sync!Work(w)
    PROVE  SyncAlone' /\ SyncCounting'
<1>1. CASE \/ Sync!Dequeue(w)
           \/ Sync!FindConnection(w)
           \/ Sync!Invalidate(w) \/ Sync!HandleFailedTask(w) \/ Sync!Crash(w)
  <2>1. SheetOthers(w) /\ worker'[w].pc \in {"idle", "find", "read", "retry"}
    BY <1>1, DequeueTyped, FindTyped, DoneTyped
  <2>2. UNCHANGED <<sync, syncedRows>>
    BY <1>1 DEF Sync!Dequeue, Sync!FindConnection, Sync!Invalidate, Sync!HandleFailedTask,
       Sync!Crash
  <2> QED
    BY <2>1, <2>2, AloneAside, CountStays DEF Sync!Syncing
<1> QED
  BY <1>1, ReadCounts, MarkCounts, FetchCounts, StoreCounts, SuccessCounts, FailureCounts
     DEF Sync!Work

-----------------------------------------------------------------------------
(* What the cached analytics cover.                                         *)

\* Nothing a sync or the cache holds changes.
LEMMA StandStill ==
    ASSUME SyncAlone, SyncCounting, SyncCovering, UNCHANGED <<worker, sync, syncedRows, cache, reader, stale>>
    PROVE  SyncAlone' /\ SyncCounting' /\ SyncCovering'
<1>1. /\ Sync!SyncStatus' = Sync!SyncStatus /\ Sync!StoredRows' = Sync!StoredRows
      /\ \A n : Below(n)' = Below(n)
  BY DEF Sync!SyncStatus, Sync!StoredRows, Below
<1>2. \A w \in SyncWorkers : SyncFits(w)' <=> SyncFits(w)
  BY <1>1 DEF SyncFits
<1>3. SyncAlone'
  BY <1>2 DEF SyncAlone, Sync!Syncing
<1>4. SyncCounting'
  BY CountStays
<1>5. SyncCovering'
  BY <1>1 DEF SyncCovering, Sync!At
<1> QED
  BY <1>3, <1>4, <1>5

CacheCovers ==
    /\ cache = None \/ stale \/ Below(Sync!SyncStatus.last) \subseteq cache
    /\ reader.pc = "idle" \/ reader.old \/ Below(Sync!SyncStatus.last) \subseteq reader.rows

LEMMA CachingCounts ==
    ASSUME SheetSetup, SheetTyping, SyncAlone, SyncCounting, SyncCovering, CachingStep
    PROVE  SyncAlone' /\ SyncCounting' /\ SyncCovering'
<1>1. UNCHANGED <<worker, sync, syncedRows>>
  BY DEF CachingStep, Sync!CacheAnalytics, Sync!ExpireCache, Sync!ComputeAnalytics
<1>2. /\ Sync!SyncStatus' = Sync!SyncStatus /\ Sync!StoredRows' = Sync!StoredRows
      /\ \A n : Below(n)' = Below(n)
  BY <1>1 DEF Sync!SyncStatus, Sync!StoredRows, Below
<1>3. SyncAlone' /\ SyncCounting'
  <2>1. \A w \in SyncWorkers : SyncFits(w)' <=> SyncFits(w)
    BY <1>1, <1>2 DEF SyncFits
  <2>2. SyncAlone'
    BY <1>1, <2>1 DEF SyncAlone, Sync!Syncing
  <2> QED
    BY <1>1, <2>2, CountStays
<1>4. CASE \E w \in SyncWorkers : Sync!At(w, "invalidate")
  BY <1>1, <1>3, <1>4 DEF SyncCovering, Sync!At
<1>5. CASE CacheCovers
  <2>1. CASE Sync!CacheAnalytics
    <3>1. reader.pc = "computed" /\ reader'.pc = "idle"
          /\ \/ cache' = reader.rows /\ stale' = reader.old
             \/ UNCHANGED <<cache, stale>>
      BY <2>1 DEF Sync!CacheAnalytics
    <3> QED
      BY <1>2, <1>3, <1>5, <3>1 DEF SyncCovering, CacheCovers
  <2>2. CASE Sync!ExpireCache
    <3>1. cache' = None /\ reader' = reader
      BY <2>2 DEF Sync!ExpireCache
    <3> QED
      BY <1>2, <1>3, <1>5, <3>1 DEF SyncCovering, CacheCovers
  <2>3. CASE \E u \in SheetUsers : Sync!ComputeAnalytics(u)
    <3>1. reader'.rows = Sync!StoredRows /\ UNCHANGED <<cache, stale>>
      BY <2>3 DEF Sync!ComputeAnalytics
    <3>2. Below(Sync!SyncStatus.last) \subseteq Sync!StoredRows
      BY DEF Below
    <3> QED
      BY <1>2, <1>3, <1>5, <3>1, <3>2 DEF SyncCovering, CacheCovers
  <2> QED
    BY <2>1, <2>2, <2>3 DEF CachingStep
<1> QED
  BY <1>4, <1>5 DEF SyncCovering, CacheCovers

\* A worker other than one that invalidates leaves the cache covered, if it
\* does not move the watermark.
LEMMA CoverStays ==
    ASSUME SyncCovering, NEW w \in SyncWorkers, SheetOthers(w), worker[w].pc # "invalidate",
           UNCHANGED <<cache, reader, stale>>,
           Sync!SyncStatus'.last = Sync!SyncStatus.last,
           \A n : n = Sync!SyncStatus.last => Below(n)' = Below(n)
    PROVE  SyncCovering'
<1>1. \A v \in SyncWorkers : Sync!At(v, "invalidate") => Sync!At(v, "invalidate")'
  BY DEF SheetOthers, Sync!At
<1>2. PICK n : n = Sync!SyncStatus.last
  OBVIOUS
<1>3. Below(n)' = Below(n) /\ Sync!SyncStatus'.last = n
  BY <1>2
<1> QED
  BY <1>1, <1>2, <1>3 DEF SyncCovering

LEMMA WorkCovers ==
    ASSUME SheetSetup, SheetTyping, SyncAlone, SyncCounting, SyncCovering, ~syncsOverlapped', NEW w \in SyncWorkers, Sync!Work(w)
    PROVE  SyncCovering'
<1>1. CASE Sync!Dequeue(w) \/ Sync!FindConnection(w) \/ Sync!HandleFailedTask(w) \/ Sync!ReadState(w) \/ Sync!FetchRows(w)
  <2>1. SheetOthers(w) /\ worker[w].pc # "invalidate" /\ UNCHANGED <<sync, syncedRows, cache, reader, stale>>
    BY <1>1, DequeueTyped, FindTyped, DoneTyped, ReadTyped, FetchTyped
    DEF Sync!Dequeue, Sync!FindConnection, Sync!HandleFailedTask, Sync!ReadState, Sync!FetchRows, Sync!At
  <2> QED
    BY <2>1, CoverStays DEF Sync!SyncStatus, Below, Sync!StoredRows
<1>2. CASE Sync!MarkSyncing(w) \/ Sync!WriteFailed(w)
  <2>1. SheetOthers(w) /\ Sync!Syncing(w) /\ UNCHANGED <<syncedRows, cache, reader, stale>>
        /\ worker[w].pc # "invalidate"
    BY <1>2, MarkTyped, FailureTyped DEF Sync!MarkSyncing, Sync!WriteFailed, Sync!Syncing,
       Sync!At
  <2>2. Sync!SyncStatus.last = worker[w].last
    BY <2>1 DEF SyncAlone, SyncFits
  <2>3. Sync!SyncStatus'.last = Sync!SyncStatus.last
    <3>1. CASE sync' = sync
      BY <3>1 DEF Sync!SyncStatus
    <3>2. CASE sync' # sync
      BY <1>2, <2>2, <3>2, MarkTyped, FailureTyped, TaskTyped, Writing
      DEF MarkWrites, FailureWrites, Sync!Statuses
    <3> QED
      BY <3>1, <3>2
  <2> QED
    BY <2>1, <2>3, CoverStays DEF Below, Sync!StoredRows
<1>3. CASE Sync!StoreRow(w)
  <2>1. /\ SheetOthers(w) /\ worker[w].pc = "store" /\ Sync!Syncing(w)
        /\ UNCHANGED <<sync, cache, reader, stale>>
        /\ syncedRows' = syncedRows \/ Stores(w)
    BY <1>3, StoreTyped DEF Sync!StoreRow, Sync!Syncing, Sync!At, Skips
  <2>2. Sync!SyncStatus.last = worker[w].last /\ Sync!SyncStatus' = Sync!SyncStatus
    BY <2>1 DEF SyncAlone, SyncFits, Sync!SyncStatus
  <2>3. worker[w].next > worker[w].last
    <3>1. Sync!StartRow(worker[w].last) + worker[w].synced <= worker[w].next
      BY <2>1, TaskTyped DEF SheetTaskFits
    <3>2. Sync!StartRow(worker[w].last) \in Nat \ {0} /\ Sync!StartRow(worker[w].last) > worker[w].last
      BY TaskTyped DEF Sync!StartRow, SheetSetup
    <3> QED
      BY <3>1, <3>2, TaskTyped
  <2>4. ASSUME NEW n, n = Sync!SyncStatus.last PROVE Below(n)' = Below(n)
    <3>1. \A r \in Sync!Rows : r <= n => syncedRows'[r] = syncedRows[r]
      <4>1. syncedRows \in [Sync!Rows -> Sync!Rows \cup {None}] /\ worker[w].next \in Nat /\ worker[w].last \in Nat
        BY TaskTyped DEF SheetTyping, SheetFits
      <4>2. CASE Stores(w)
        <5>1. n < worker[w].next /\ n \in Nat
          BY <2>2, <2>3, <2>4, <4>1
        <5>2. \A r \in Sync!Rows : r <= n => r # worker[w].next
          BY <4>1, <5>1 DEF Sync!Rows
        <5>3. syncedRows' = [syncedRows EXCEPT ![worker[w].next] = worker[w].next]
          BY <4>2 DEF Stores
        <5> QED
          BY <4>1, <5>2, <5>3
      <4> QED
        BY <2>1, <4>2
    <3> QED
      BY <3>1 DEF Below, Sync!StoredRows
  <2> QED
    BY <2>1, <2>2, <2>4, CoverStays
<1>4. CASE Sync!WriteSuccess(w)
  <2>1. /\ SheetOthers(w) /\ worker[w].pc = "store" /\ UNCHANGED <<syncedRows, cache, reader, stale>>
        /\ worker'[w].pc = "invalidate" \/ sync' = sync
    BY <1>4, SuccessTyped DEF Sync!WriteSuccess, SuccessWrites
  <2>2. CASE worker'[w].pc = "invalidate"
    BY <2>2 DEF SyncCovering, Sync!At
  <2>3. CASE sync' = sync
    BY <2>1, <2>3, CoverStays DEF Sync!SyncStatus, Below, Sync!StoredRows
  <2> QED
    BY <2>1, <2>2, <2>3
<1>5. CASE Sync!Invalidate(w)
  <2>1. (cache' = None \/ stale') /\ reader' = [reader EXCEPT !.old = (@ \/ reader.pc = "computed")]
    BY <1>5 DEF Sync!Invalidate
  <2>2. reader'.pc = "idle" \/ reader'.old
    <3>1. reader'.pc = reader.pc /\ (reader'.old <=> (reader.old \/ reader.pc = "computed"))
      BY <2>1 DEF SheetTyping
    <3> QED
      BY <3>1 DEF SheetTyping
  <2> QED
    BY <2>1, <2>2 DEF SyncCovering
<1>6. CASE Sync!Crash(w)
  <2>1. /\ SheetOthers(w) /\ UNCHANGED <<sync, syncedRows, cache>>
        /\ stale' <=> (stale \/ (Sync!At(w, "invalidate") /\ cache # None))
        /\ reader' = [reader EXCEPT !.old = @ \/ (Sync!At(w, "invalidate") /\ reader.pc = "computed")]
    BY <1>6, DoneTyped DEF Sync!Crash
  <2>2. /\ reader'.pc = reader.pc /\ reader'.rows = reader.rows
        /\ reader'.old <=> (reader.old \/ (Sync!At(w, "invalidate") /\ reader.pc = "computed"))
    BY <2>1 DEF SheetTyping
  <2>3. Sync!SyncStatus' = Sync!SyncStatus /\ \A n : Below(n)' = Below(n)
    BY <2>1 DEF Sync!SyncStatus, Below, Sync!StoredRows
  <2>4. CASE \E v \in SyncWorkers : v # w /\ Sync!At(v, "invalidate")
    BY <2>1, <2>4 DEF SyncCovering, SheetOthers, Sync!At
  <2>5. CASE Sync!At(w, "invalidate")
    <3>1. (cache' = None \/ stale') /\ (reader'.pc = "idle" \/ reader'.old)
      BY <2>1, <2>2, <2>5 DEF SheetTyping
    <3> QED
      BY <3>1 DEF SyncCovering
  <2>6. CASE CacheCovers
    BY <2>1, <2>2, <2>3, <2>6 DEF SyncCovering, CacheCovers
  <2> QED
    BY <2>4, <2>5, <2>6 DEF SyncCovering, CacheCovers
<1> QED
  BY <1>1, <1>2, <1>3, <1>4, <1>5, <1>6 DEF Sync!Work

-----------------------------------------------------------------------------
(* The invariant.                                                           *)

LEMMA SheetsStart == SheetSetup /\ Sync!Init => SheetsSound
<1> SUFFICES ASSUME SheetSetup, Sync!Init PROVE SheetsSound
  OBVIOUS
<1>1. SheetFits
  <2>1. /\ sheet = [r \in 1 .. (DataStart - 1) |-> None] /\ syncedRows = [r \in Sync!Rows |-> None]
    BY DEF Sync!Init
  <2>2. sheet \in Seq(Nat \cup {None}) /\ Len(sheet) = DataStart - 1
    <3>1. DataStart - 1 \in Nat
      BY DEF SheetSetup
    <3>2. sheet \in [1 .. (DataStart - 1) -> Nat \cup {None}]
      BY <2>1
    <3> QED
      BY <2>1, <3>1, <3>2, SeqDef, LenProperties
  <2> QED
    BY <2>1, <2>2 DEF SheetFits, SheetSetup
<1>2. Sync!Idle \in SheetTasks /\ Sync!Idle.pc = "idle" /\ Sync!Idle.last = 0
  <2>1. << >> \in Seq(Nat \cup {None})
    BY EmptySeq
  <2> QED
    BY <2>1 DEF Sync!Idle, SheetTasks, Sync!WorkerPcs, SheetSetup
<1>3. worker \in [SyncWorkers -> SheetTasks] /\ \A w \in SyncWorkers : worker[w].pc = "idle" /\ worker[w].last = 0
  BY <1>2 DEF Sync!Init
<1>4. \A w \in SyncWorkers : SheetTaskFits(worker[w])
  BY <1>1, <1>3 DEF SheetTaskFits, SheetFits
<1>5. Sync!SyncStatus.last = 0 /\ Sync!SyncStatus.total = 0 /\ Sync!SyncStatus.status = "pending"
  BY DEF Sync!Init, Sync!SyncStatus
<1>6. reader \in [pc : {"idle", "computed"}, rows : SUBSET Sync!Rows, old : BOOLEAN] /\ reader.pc = "idle"
  BY DEF Sync!Init
<1>7. syncTasks \in Seq(0 .. MaxRetries)
  BY EmptySeq DEF Sync!Init
<1>8. SheetTyping
  BY <1>1, <1>3, <1>4, <1>5, <1>6, <1>7 DEF SheetTyping, Sync!Init
<1>9. SyncPassing
  BY <1>3, <1>5 DEF SyncPassing, Passed, Sync!Syncing, Sync!At, SheetSetup
<1>10. SyncAlone
  BY <1>3 DEF SyncAlone, Sync!Syncing
<1>11. Sync!StoredRows = {} /\ Below(0) = {}
  BY DEF Sync!Init, Sync!StoredRows, Below
<1>12. SyncCounting
  BY <1>5, <1>11, FS_EmptySet, SyncCardinality DEF SyncCounting
<1>13. SyncCovering
  BY <1>6 DEF SyncCovering, Sync!Init
<1> QED
  BY <1>8, <1>9, <1>10, <1>12, <1>13 DEF SheetsSound

LEMMA SheetsContinue == SheetSetup /\ SheetsSound /\ [Sync!Next]_(Sync!vars) => SheetsSound'
<1> SUFFICES ASSUME SheetSetup, SheetsSound, [Sync!Next]_(Sync!vars) PROVE SheetsSound'
  OBVIOUS
<1>1. SheetTyping /\ SheetTyping'
  BY TypingStep DEF SheetsSound
<1>2. CASE connection' \in {"none", "live"}
  <2>1. /\ connection \in {"none", "live"}
        /\ \/ Sync!AppendRow \/ Sync!FillRow \/ AskingStep \/ UNCHANGED Sync!vars
           \/ CachingStep
           \/ \E w \in SyncWorkers : Sync!Work(w)
    BY <1>2, StillThere
  <2>2. SyncPassing'
    BY <1>1, <1>2, <2>1, PassingStep DEF SheetsSound
  <2>3. ASSUME ~syncsOverlapped' PROVE SyncAlone' /\ SyncCounting' /\ SyncCovering'
    <3>1. ~syncsOverlapped
      <4>1. ASSUME NEW w \in SyncWorkers, Sync!Work(w) PROVE syncsOverlapped => syncsOverlapped'
        BY <4>1 DEF Sync!Work, Sync!Dequeue, Sync!FindConnection, Sync!ReadState,
           Sync!MarkSyncing, Sync!FetchRows, Sync!StoreRow,
                    Sync!WriteSuccess, Sync!Invalidate, Sync!WriteFailed, Sync!HandleFailedTask, Sync!Crash
      <4>2. CASE Sync!AppendRow \/ Sync!FillRow \/ AskingStep \/ UNCHANGED Sync!vars \/ CachingStep
        BY <2>3, <4>2 DEF Sync!AppendRow, Sync!FillRow, CachingStep, Sync!CacheAnalytics,
           Sync!ExpireCache, Sync!ComputeAnalytics,
                    Sync!vars, AskingStep, Sync!CreateConnection, Sync!EnqueueAll, Sync!UpdateConnection, Sync!TriggerSync
      <4> QED
        BY <2>1, <2>3, <4>1, <4>2
    <3>2. SyncAlone /\ SyncCounting /\ SyncCovering
      BY <2>1, <3>1 DEF SheetsSound
    <3>3. CASE Sync!AppendRow \/ Sync!FillRow \/ AskingStep \/ UNCHANGED Sync!vars
      <4>1. UNCHANGED <<worker, sync, syncedRows, cache, reader, stale>>
        BY <3>3 DEF Sync!AppendRow, Sync!FillRow, Sync!vars, AskingStep, Sync!CreateConnection,
           Sync!EnqueueAll,
                    Sync!UpdateConnection, Sync!TriggerSync
      <4> QED
        BY <3>2, <4>1, StandStill
    <3>4. CASE CachingStep
      BY <1>1, <3>2, <3>4, CachingCounts
    <3>5. ASSUME NEW w \in SyncWorkers, Sync!Work(w) PROVE SyncAlone' /\ SyncCounting' /\ SyncCovering'
      BY <1>1, <2>3, <3>2, <3>5, WorkCounts, WorkCovers
    <3> QED
      BY <2>1, <3>3, <3>4, <3>5
  <2> QED
    BY <1>1, <2>2, <2>3 DEF SheetsSound
<1> QED
  BY <1>1, <1>2 DEF SheetsSound

LEMMA InSeq ==
    ASSUME NEW S, NEW s \in Seq(S)
    PROVE  \A i \in DOMAIN s : s[i] \in S
<1>1. DOMAIN s = 1 .. Len(s) /\ s \in [1 .. Len(s) -> S]
  BY LenProperties
<1> QED
  BY <1>1

LEMMA SheetsTold ==
    SheetSetup /\ SheetsSound =>
        /\ Sync!TypeOK /\ Sync!NoRowSkipped
        /\ Sync!TotalCountsRows /\ Sync!CacheCoversWatermark
<1> SUFFICES ASSUME SheetSetup, SheetsSound
             PROVE  /\ Sync!TypeOK /\ Sync!NoRowSkipped
                    /\ Sync!TotalCountsRows /\ Sync!CacheCoversWatermark
  OBVIOUS
<1>1. SheetTyping /\ Len(sheet) \in Nat /\ Len(sheet) <= MaxRows
  BY DEF SheetsSound, SheetTyping, SheetFits
<1>2. Sync!TypeOK
  <2>1. sync = None \/ (sync.last \in 0 .. MaxRows /\ sync.total \in Nat /\ sync.status \in Sync!Statuses)
    BY <1>1 DEF SheetTyping, SheetSetup
  <2>2. \A w \in SyncWorkers : worker[w].pc \in Sync!WorkerPcs
    BY <1>1 DEF SheetTyping, SheetTasks
  <2>3. \A i \in DOMAIN syncTasks : syncTasks[i] \in 0 .. MaxRetries
    <3>1. syncTasks \in Seq(0 .. MaxRetries)
      BY <1>1 DEF SheetTyping
    <3> QED
      BY <3>1, InSeq
  <2> QED
    BY <1>1, <2>1, <2>2, <2>3 DEF Sync!TypeOK, SheetTyping, SheetFits
<1>3. ASSUME connection = "live", sync # None
      PROVE  SyncPassing /\ (~syncsOverlapped => SyncAlone /\ SyncCounting /\ SyncCovering) /\ Sync!SyncStatus = sync
             /\ sync.last \in 0 .. Len(sheet)
  BY <1>1, <1>3 DEF SheetsSound, Sync!SyncStatus, SheetTyping
<1>4. Sync!NoRowSkipped
  <2> SUFFICES ASSUME connection = "live", sync # None, NEW r \in DataStart .. sync.last
               PROVE  IF syncedRows[r] = None THEN r \in blank ELSE syncedRows[r] = sheet[r]
    BY DEF Sync!NoRowSkipped
  <2>1. r \in Sync!Rows
    BY <1>1, <1>3 DEF Sync!Rows, SheetSetup
  <2> QED
    BY <1>1, <1>3, <2>1 DEF SyncPassing, Passed, SheetTyping, SheetFits
<1>5. Sync!TotalCountsRows
  <2> SUFFICES ASSUME connection = "live", sync # None, ~syncsOverlapped, sync.status = "success"
               PROVE  sync.total = Sync!Cardinality(Sync!StoredRows)
    BY DEF Sync!TotalCountsRows
  <2>1. Sync!StoredRows \subseteq 1 .. sync.last /\ sync.total = Sync!Cardinality(Below(sync.last)) /\ sync.last \in Int
    BY <1>3 DEF SyncCounting
  <2> QED
    BY <2>1, AllBelow
<1>6. Sync!CacheCoversWatermark
  <2> SUFFICES ASSUME connection = "live", sync # None, cache # None, ~stale, ~syncsOverlapped,
                      \A w \in SyncWorkers : ~Sync!At(w, "invalidate"),
                      NEW r \in Sync!StoredRows \cap (1 .. sync.last)
               PROVE  r \in cache
    BY DEF Sync!CacheCoversWatermark
  <2>1. Below(sync.last) \subseteq cache
    BY <1>3 DEF SyncCovering
  <2>2. r \in Below(sync.last)
    BY <1>3 DEF Below
  <2> QED
    BY <2>1, <2>2
<1> QED
  BY <1>2, <1>4, <1>5, <1>6

-----------------------------------------------------------------------------
\* However many workers serve one connection, whatever they fail at and whenever
\* they die: no row below the watermark is skipped, the total of a sync that was
\* alone is the number of stored rows, and cached analytics cover what it stored.
THEOREM SyncSkipsNothing ==
    ASSUME SheetSetup
    PROVE  Sync!Spec => [](/\ Sync!TypeOK /\ Sync!NoRowSkipped
                           /\ Sync!TotalCountsRows /\ Sync!CacheCoversWatermark)
<1> USE SheetSetup
<1> QED
  BY SheetsStart, SheetsContinue, SheetsTold, PTL DEF Sync!Spec

-----------------------------------------------------------------------------
(* A live interview on one socket.                                          *)
Talk == INSTANCE InterviewSession WITH MaxFaults <- MaxTalkFaults

TalkSetup ==
    /\ MaxStreams \in Nat /\ MaxEvents \in Nat /\ SaveAttempts \in Nat \ {0}
    /\ Channels \subseteq Nat /\ IsFiniteSet(Channels) /\ Interviewer \in Channels
    /\ None \notin Talk!Streams

\* The channels of an interview, one or two, are a finite set.
LEMMA PairIsFinite == \A a, b : IsFiniteSet({a, b})
<1> TAKE a, b
<1>1. IsFiniteSet({a})
  BY FS_Singleton
<1>2. {a, b} = {a} \cup {b}
  OBVIOUS
<1> QED
  BY <1>1, <1>2, FS_AddElement

Timers == {"none", "running", "due"}
Sessions == [state : Talk!States, timer : [Channels -> Timers],
             text : [Channels -> SUBSET (1 .. MaxEvents)],
             last : [Channels -> {"speech", "end"}]]
Coroutines == [at : Talk!Running \cup Talk!Awaits, op : Talk!Ops, stream : Talk!Streams \cup {None},
               todo : Seq(Talk!Turns), closes : BOOLEAN]
Savings == [turn : Talk!Turns, left : 1 .. SaveAttempts]

TalkTyping ==
    /\ registered \in Talk!Streams \cup {None}
    /\ session \in [Talk!Streams -> Sessions]
    /\ queue \in [Talk!Streams -> Seq(Talk!Events)]
    /\ task \in [Talk!Tasks -> Coroutines]
    /\ heard \in 0 .. MaxEvents
    /\ closed \in Seq(Talk!Turns) /\ stored \in Seq(Talk!Turns) /\ dropped \subseteq Talk!Turns
    /\ answering \subseteq Talk!Turns /\ durable \subseteq Talk!Turns /\ saving \subseteq Savings

\* A coroutine that is doing something has a session; one with turns in hand is
\* about to store the first of them.
CoroutinesFit ==
    \A t \in Talk!Tasks :
        /\ task[t].at # "idle" => task[t].stream \in Talk!Streams
        /\ task[t].todo # <<>> <=> task[t].at = "append"

\* A timer runs on a quiet channel; no two channels share a fragment.
SessionFits(S) ==
    /\ \A c \in Channels : S.timer[c] # "none" => S.last[c] = "end" /\ S.text[c] # {}
    /\ \A c, d \in Channels : c # d => S.text[c] \cap S.text[d] = {}
Texts(S) == UNION {S.text[c] : c \in Channels}

\* Turns of one stream share no fragment, and none with the open turns.
TurnsApart(turns) == \A i, j \in DOMAIN turns : i # j => turns[i].text \cap turns[j].text = {}
ClosedFits ==
    /\ \A i \in DOMAIN closed : closed[i].text # {} /\ closed[i].text \subseteq 1 .. heard
    /\ \A i, j \in DOMAIN closed :
        i # j /\ closed[i].stream = closed[j].stream => closed[i].text \cap closed[j].text = {}
    /\ \A i \in DOMAIN closed :
        closed[i].text \cap Texts(session[closed[i].stream]) = {}
\* A fragment on its way is in no turn yet.
EventsFresh(s, events) ==
    /\ \A i \in DOMAIN events : events[i].n \in 0 .. heard
    /\ \A i \in DOMAIN events : events[i].kind = "final" =>
        /\ events[i].n > 0 /\ events[i].n \notin Texts(session[s])
        /\ \A j \in DOMAIN closed : closed[j].stream = s => events[i].n \notin closed[j].text
    /\ \A i, j \in DOMAIN events :
        i # j /\ events[i].kind = "final" /\ events[j].kind = "final"
        => events[i].n # events[j].n
FragmentsFit ==
    /\ \A s \in Talk!Streams :
        /\ SessionFits(session[s]) /\ Texts(session[s]) \subseteq 1 .. heard
        /\ EventsFresh(s, queue[s])
    /\ ClosedFits

\* A closed turn is in one place.
Held == UNION {Talk!ToSet(task[t].todo) : t \in Talk!Tasks}
PlacesFit ==
    /\ Talk!ToSet(closed) = Talk!ToSet(stored) \cup dropped \cup Held
    /\ Talk!Distinct(stored) /\ Talk!ToSet(stored) \cap dropped = {}
    /\ \A t \in Talk!Tasks :
        /\ Talk!Distinct(task[t].todo)
        /\ Talk!ToSet(task[t].todo) \cap (Talk!ToSet(stored) \cup dropped) = {}
        /\ \A u \in Talk!Tasks : u # t => Talk!ToSet(task[u].todo) \cap Talk!ToSet(task[t].todo) = {}
AfterStoring ==
    /\ durable \subseteq Talk!ToSet(stored) /\ \A p \in saving : p.turn \in Talk!ToSet(stored)
    /\ answering \subseteq {u \in Talk!ToSet(stored) : u.channel = Interviewer}
    /\ deferred \subseteq {registered}

TalkSound == TalkTyping /\ CoroutinesFit /\ FragmentsFit /\ PlacesFit /\ AfterStoring

-----------------------------------------------------------------------------
(* Induction, by the least number that a set of naturals lacks.             *)

LEMMA NatSetInduction ==
    ASSUME NEW G, 0 \in G, \A n \in Nat : n \in G => n + 1 \in G
    PROVE  Nat \subseteq G
<1> DEFINE T == Nat \ G
           R == {ss \in Nat \X Nat : ss[1] < ss[2]}
<1>1. IsWellFoundedOn(R, Nat)
  BY NatLessThanWellFounded DEF OpToRel
<1>2. ASSUME T # {} PROVE FALSE
  <2>1. PICK x \in T : \A y \in T : ~(<<y, x>> \in R)
    <3> HIDE DEF R
    <3> QED
      BY <1>1, <1>2, WFMin
  <2>2. x \in Nat /\ x # 0 /\ x - 1 \in Nat /\ x - 1 < x
    BY <2>1
  <2>3. <<x - 1, x>> \in R
    BY <2>2
  <2>4. (x - 1) + 1 \in G
    BY <2>1, <2>2, <2>3
  <2>5. (x - 1) + 1 = x
    BY <2>2
  <2> QED
    BY <2>1, <2>4, <2>5
<1> QED
  BY <1>2

-----------------------------------------------------------------------------
(* The turns that are due, in the order of their channels.                  *)

LEMMA PlacesAreApart ==
    ASSUME NEW S, S \subseteq Nat, IsFiniteSet(S)
    PROVE  /\ Cardinality(S) \in Nat
           /\ \A k \in 1 .. Cardinality(S) :
                \E c \in S : Cardinality({d \in S : d <= c}) = k
<1> DEFINE n == Cardinality(S)
           Up(c) == {d \in S : d <= c}
           f == [c \in S |-> Cardinality(Up(c))]
<1>1. n \in Nat
  BY FS_CardinalityType
<1>2. ASSUME NEW c \in S
      PROVE  IsFiniteSet(Up(c)) /\ Cardinality(Up(c)) \in 1 .. n
  <2>1. Up(c) \subseteq S /\ c \in Up(c)
    OBVIOUS
  <2>2. IsFiniteSet(Up(c)) /\ Cardinality(Up(c)) <= n
    BY <2>1, FS_Subset
  <2>3. Cardinality(Up(c)) \in Nat /\ Cardinality(Up(c)) # 0
    BY <2>1, <2>2, FS_CardinalityType, FS_EmptySet
  <2> QED
    BY <1>1, <2>2, <2>3
<1>3. ASSUME NEW c \in S, NEW d \in S, c < d
      PROVE  Cardinality(Up(c)) # Cardinality(Up(d))
  <2>1. c \in Nat /\ d \in Nat
    OBVIOUS
  <2>2. Up(c) \subseteq Up(d)
    <3> SUFFICES ASSUME NEW e \in S, e <= c PROVE e <= d
      OBVIOUS
    <3>1. e \in Nat
      OBVIOUS
    <3> QED
      BY <1>3, <2>1, <3>1
  <2>4. d \in Up(d) /\ d \notin Up(c)
    BY <1>3, <2>1
  <2>3. IsFiniteSet(Up(d))
    BY <1>2
  <2> HIDE DEF Up
  <2> QED
    BY <2>2, <2>3, <2>4, FS_Subset
<1>4. f \in Injection(S, 1 .. n)
  <2>1. f \in [S -> 1 .. n]
    BY <1>2
  <2>2. ASSUME NEW c \in S, NEW d \in S, f[c] = f[d] PROVE c = d
    <3>1. c \in Nat /\ d \in Nat /\ Cardinality(Up(c)) = Cardinality(Up(d))
      BY <2>2
    <3>2. ~(c < d) /\ ~(d < c)
      BY <1>3, <3>1
    <3> QED
      BY <3>1, <3>2
  <2> HIDE DEF f
  <2> QED
    BY <2>1, <2>2 DEF Injection, IsInjective
<1>5. IsFiniteSet(1 .. n) /\ Cardinality(1 .. n) = n
  BY <1>1, FS_Interval
<1>6. f \in Surjection(S, 1 .. n)
  <2> HIDE DEF f
  <2> QED
    BY <1>4, <1>5, FS_Injection
<1>7. \A k \in 1 .. n : \E c \in S : f[c] = k
  <2> HIDE DEF f
  <2> QED
    BY <1>6 DEF Surjection
<1> QED
  BY <1>1, <1>7

LEMMA TalkCardinality == \A S : Talk!Cardinality(S) = Cardinality(S)
BY DEF Talk!Cardinality, Cardinality

LEMMA DueTurnsAre ==
    ASSUME TalkSetup, NEW s \in Talk!Streams, NEW S \in Sessions
    PROVE  /\ Talk!DueTurns(s, S) \in Seq(Talk!Turns)
           /\ \A k \in DOMAIN Talk!DueTurns(s, S) : \E c \in Talk!DueChannels(S) :
                /\ S.text[c] # {}
                /\ Talk!DueTurns(s, S)[k] = [stream |-> s, channel |-> c, text |-> S.text[c]]
           /\ \A k, l \in DOMAIN Talk!DueTurns(s, S) :
                k # l => Talk!DueTurns(s, S)[k].channel # Talk!DueTurns(s, S)[l].channel
<1> DEFINE said == {c \in Talk!DueChannels(S) : S.text[c] # {}}
           Place(c) == Talk!Cardinality({d \in said : d <= c})
           TurnOf(c) == [stream |-> s, channel |-> c, text |-> S.text[c]]
           pick == [k \in 1 .. Talk!Cardinality(said) |-> CHOOSE c \in said : Place(c) = k]
<1>1. said \subseteq Channels /\ said \subseteq Nat /\ IsFiniteSet(said)
  <2>1. said \subseteq Channels
    BY DEF Talk!DueChannels
  <2> QED
    BY <2>1, FS_Subset DEF TalkSetup
<1>2. /\ Talk!Cardinality(said) \in Nat
      /\ \A k \in 1 .. Talk!Cardinality(said) : \E c \in said : Place(c) = k
  <2> HIDE DEF said
  <2>1. /\ Cardinality(said) \in Nat
        /\ \A k \in 1 .. Cardinality(said) : \E c \in said : Cardinality({d \in said : d <= c}) = k
    BY <1>1, PlacesAreApart
  <2>2. Talk!Cardinality(said) = Cardinality(said)
    BY TalkCardinality
  <2>3. \A c : Place(c) = Cardinality({d \in said : d <= c})
    BY TalkCardinality
  <2> QED
    BY <2>1, <2>2, <2>3
<1>3. \A k \in 1 .. Talk!Cardinality(said) : pick[k] \in said /\ Place(pick[k]) = k
  <2> HIDE DEF said, Place
  <2> QED
    BY <1>2
<1>4. Talk!DueTurns(s, S) = [k \in 1 .. Talk!Cardinality(said) |-> TurnOf(pick[k])]
  BY DEF Talk!DueTurns
<1>5. \A c \in said : TurnOf(c) \in Talk!Turns
  <2>1. \A c \in Channels : S.text[c] \in SUBSET (1 .. MaxEvents)
    BY DEF Sessions
  <2> QED
    BY <1>1, <2>1 DEF Talk!Turns
<1> HIDE DEF pick, Place
<1>6. /\ Talk!DueTurns(s, S) \in Seq(Talk!Turns) /\ DOMAIN Talk!DueTurns(s, S) = 1 .. Talk!Cardinality(said)
      /\ \A k \in 1 .. Talk!Cardinality(said) : Talk!DueTurns(s, S)[k] = TurnOf(pick[k])
  <2> HIDE DEF said, TurnOf
  <2>1. \A k \in 1 .. Talk!Cardinality(said) : TurnOf(pick[k]) \in Talk!Turns
    BY <1>3, <1>5
  <2> QED
    BY <1>2, <1>4, <2>1, SeqDef
<1> HIDE DEF said
<1>7. \A k, l \in 1 .. Talk!Cardinality(said) : k # l => pick[k] # pick[l]
  BY <1>3
<1>8. \A k \in 1 .. Talk!Cardinality(said) : TurnOf(pick[k]).channel = pick[k]
  OBVIOUS
<1>9. \A k \in DOMAIN Talk!DueTurns(s, S) : \E c \in Talk!DueChannels(S) :
        /\ S.text[c] # {}
        /\ Talk!DueTurns(s, S)[k] = [stream |-> s, channel |-> c, text |-> S.text[c]]
  <2> SUFFICES ASSUME NEW k \in 1 .. Talk!Cardinality(said)
               PROVE  \E c \in Talk!DueChannels(S) : S.text[c] # {} /\ Talk!DueTurns(s, S)[k] = TurnOf(c)
    BY <1>6
  <2>1. pick[k] \in Talk!DueChannels(S) /\ S.text[pick[k]] # {}
    BY <1>3 DEF said
  <2> QED
    BY <1>6, <2>1
<1> QED
  BY <1>6, <1>7, <1>8, <1>9

-----------------------------------------------------------------------------
(* consume_provider_events, one event after the other.                      *)

AfterEvent(s, acc, e) ==
    LET S == Talk!Heard(acc.sess, e)
    IN  [sess |-> Talk!CloseDue(S), closed |-> acc.closed \o Talk!DueTurns(s, S)]
BeforeEvents(s) == [sess |-> session[s], closed |-> <<>>]
\* What the fold computes for each set of positions it comes through.
Unfolds(s, events, g, X) ==
    g = [x \in SUBSET X |->
            IF x = {} THEN BeforeEvents(s) ELSE AfterEvent(s, g[x \ {Talk!Max(x)}], events[Talk!Max(x)])]

LEMMA ConsumedUnfolds ==
    ASSUME NEW s, NEW events
    PROVE  Talk!Consumed(s, events) =
                (CHOOSE g : Unfolds(s, events, g, DOMAIN events))[DOMAIN events]
BY DEF Talk!Consumed, Talk!FoldLeft, Talk!MapThenFoldSet, Unfolds, BeforeEvents, AfterEvent

LEMMA MaxOf ==
    ASSUME NEW k \in Nat, NEW x, x \subseteq 1 .. k + 1, k + 1 \in x
    PROVE  Talk!Max(x) = k + 1
<1>1. \A y \in x : k + 1 >= y
  OBVIOUS
<1>2. \A z \in x : (\A y \in x : z >= y) => z = k + 1
  OBVIOUS
<1> QED
  BY <1>1, <1>2 DEF Talk!Max

LEMMA UnfoldingExists ==
    ASSUME NEW s, NEW events
    PROVE  \A k \in Nat : \E g : Unfolds(s, events, g, 1 .. k)
<1> DEFINE G == {k \in Nat : \E g : Unfolds(s, events, g, 1 .. k)}
<1>1. 0 \in G
  <2> DEFINE g == [x \in SUBSET {} |-> BeforeEvents(s)]
  <2>1. 1 .. 0 = {}
    OBVIOUS
  <2>2. Unfolds(s, events, g, {})
    BY DEF Unfolds
  <2> QED
    BY <2>1, <2>2
<1>2. ASSUME NEW k \in Nat, k \in G PROVE k + 1 \in G
  <2>1. PICK g : Unfolds(s, events, g, 1 .. k)
    BY <1>2
  <2> DEFINE h == [x \in SUBSET (1 .. k + 1) |->
                        IF k + 1 \in x THEN AfterEvent(s, g[x \ {k + 1}], events[k + 1]) ELSE g[x]]
  <2>2. 1 .. k \subseteq 1 .. k + 1 /\ k + 1 \notin 1 .. k
    OBVIOUS
  <2>3. \A x \in SUBSET (1 .. k) : h[x] = g[x]
    BY <2>2
  <2>4. ASSUME NEW x \in SUBSET (1 .. k + 1)
        PROVE  h[x] = IF x = {} THEN BeforeEvents(s) ELSE AfterEvent(s, h[x \ {Talk!Max(x)}], events[Talk!Max(x)])
    <3>1. CASE k + 1 \in x
      <4>1. Talk!Max(x) = k + 1
        BY <3>1, MaxOf
      <4>2. x \ {k + 1} \in SUBSET (1 .. k)
        OBVIOUS
      <4>3. h[x] = AfterEvent(s, g[x \ {k + 1}], events[k + 1])
        BY <3>1
      <4> HIDE DEF h
      <4> QED
        BY <2>3, <3>1, <4>1, <4>2, <4>3
    <3>2. CASE k + 1 \notin x
      <4>0. x \in SUBSET (1 .. k)
        <5> SUFFICES ASSUME NEW e \in x PROVE e \in 1 .. k
          OBVIOUS
        <5>1. e \in 1 .. k + 1 /\ e # k + 1
          BY <3>2
        <5> QED
          BY <5>1
      <4>1. x \in SUBSET (1 .. k) /\ x \ {Talk!Max(x)} \in SUBSET (1 .. k)
        BY <4>0
      <4>2. g[x] = IF x = {} THEN BeforeEvents(s) ELSE AfterEvent(s, g[x \ {Talk!Max(x)}], events[Talk!Max(x)])
        BY <2>1, <4>1 DEF Unfolds
      <4> HIDE DEF h
      <4> QED
        BY <2>3, <4>1, <4>2
    <3> QED
      BY <3>1, <3>2
  <2>5. h = [x \in SUBSET (1 .. k + 1) |-> h[x]]
    OBVIOUS
  <2> HIDE DEF h
  <2>6. Unfolds(s, events, h, 1 .. k + 1)
    BY <2>4, <2>5 DEF Unfolds
  <2> QED
    BY <2>6
<1> HIDE DEF G
<1>3. Nat \subseteq G
  BY <1>1, <1>2, NatSetInduction
<1> QED
  BY <1>3 DEF G

\* What is collected after each of n events.
Collected(s, events, n, h) ==
    /\ h[0] = BeforeEvents(s)
    /\ \A i \in 1 .. n : h[i] = AfterEvent(s, h[i - 1], events[i])
    /\ Talk!Consumed(s, events) = h[n]

LEMMA ConsumedSteps ==
    ASSUME NEW s, NEW events, NEW n \in Nat, DOMAIN events = 1 .. n
    PROVE  \E h : Collected(s, events, n, h)
<1> DEFINE g == CHOOSE g : Unfolds(s, events, g, 1 .. n)
           h == [i \in 0 .. n |-> g[1 .. i]]
<1>1. Unfolds(s, events, g, 1 .. n)
  BY UnfoldingExists
<1>2. Talk!Consumed(s, events) = g[1 .. n]
  BY ConsumedUnfolds
<1> HIDE DEF g
<1>3. h[0] = BeforeEvents(s)
  <2>1. 1 .. 0 = {} /\ {} \in SUBSET (1 .. n)
    OBVIOUS
  <2> QED
    BY <1>1, <2>1 DEF Unfolds
<1>4. ASSUME NEW i \in 1 .. n PROVE h[i] = AfterEvent(s, h[i - 1], events[i])
  <2>1. i - 1 \in Nat /\ (i - 1) + 1 = i /\ i \in 0 .. n /\ i - 1 \in 0 .. n
    OBVIOUS
  <2>2. 1 .. i \in SUBSET (1 .. n) /\ 1 .. i # {} /\ i \in 1 .. i
    OBVIOUS
  <2>3. Talk!Max(1 .. i) = i
    BY <2>1, <2>2, MaxOf
  <2>4. (1 .. i) \ {i} = 1 .. i - 1
    OBVIOUS
  <2>5. g[1 .. i] = AfterEvent(s, g[1 .. i - 1], events[i])
    BY <1>1, <2>2, <2>3, <2>4 DEF Unfolds
  <2> QED
    BY <2>1, <2>5
<1>5. h[n] = g[1 .. n]
  OBVIOUS
<1> HIDE DEF h
<1> QED
  BY <1>2, <1>3, <1>4, <1>5 DEF Collected

-----------------------------------------------------------------------------
(* What an event and a close do to a session and its fragments.             *)

Added(e) == IF e.kind = "final" THEN {e.n} ELSE {}

\* A session, field by field.
LEMMA SessionFields ==
    ASSUME NEW S \in Sessions
    PROVE  /\ S.state \in Talk!States /\ S.timer \in [Channels -> Timers]
           /\ S.text \in [Channels -> SUBSET (1 .. MaxEvents)]
           /\ S.last \in [Channels -> {"speech", "end"}]
BY DEF Sessions

LEMMA DiscardedFits ==
    ASSUME NEW S \in Sessions, NEW state \in Talk!States
    PROVE  /\ Talk!Discarded(S, state) \in Sessions /\ SessionFits(Talk!Discarded(S, state))
           /\ Texts(Talk!Discarded(S, state)) = {}
<1> DEFINE timer == [c \in Channels |-> "none"]
           text == [c \in Channels |-> {}]
           R == Talk!Discarded(S, state)
<1>1. timer \in [Channels -> Timers] /\ text \in [Channels -> SUBSET (1 .. MaxEvents)]
  BY DEF Timers
<1>2. R = [S EXCEPT !.state = state, !.timer = timer, !.text = text]
  BY DEF Talk!Discarded
<1> HIDE DEF timer, text, R
<1>3. R \in Sessions /\ R.timer = timer /\ R.text = text
  BY <1>1, <1>2 DEF Sessions
<1>4. \A c \in Channels : R.timer[c] = "none" /\ R.text[c] = {}
  BY <1>3 DEF timer, text
<1>5. SessionFits(R) /\ Texts(R) = {}
  BY <1>4 DEF SessionFits, Texts
<1> QED
  BY <1>3, <1>5 DEF R

LEMMA ChannelHeard ==
    ASSUME NEW S \in Sessions, SessionFits(S), NEW e \in Talk!Events, NEW V, Texts(S) \subseteq V,
           e.kind \in Talk!ChannelKinds,
           e.kind = "final" => e.n > 0 /\ e.n \notin V
    PROVE  /\ Talk!Heard(S, e) \in Sessions /\ SessionFits(Talk!Heard(S, e))
           /\ Texts(Talk!Heard(S, e)) \subseteq V \cup Added(e)
<1> DEFINE c == e.channel
           R == Talk!Heard(S, e)
<1>1. c \in Channels /\ e.n \in 0 .. MaxEvents
  BY DEF Talk!Events
<1>2. CASE e.kind = "final"
  <2> DEFINE timer == [S.timer EXCEPT ![c] = "none"]
             text == [S.text EXCEPT ![c] = @ \cup {e.n}]
             last == [S.last EXCEPT ![c] = "speech"]
  <2>1. /\ timer \in [Channels -> Timers] /\ text \in [Channels -> SUBSET (1 .. MaxEvents)]
        /\ last \in [Channels -> {"speech", "end"}]
    <3>1. e.n \in 1 .. MaxEvents
      BY <1>1, <1>2
    <3>2. S.text[c] \cup {e.n} \in SUBSET (1 .. MaxEvents)
      BY <1>1, <3>1, SessionFields
    <3> QED
      BY <1>1, <3>2, SessionFields DEF Timers, Talk!ChannelKinds
  <2>2. R = [S EXCEPT !.timer = timer, !.text = text, !.last = last]
    BY <1>2, SessionFields DEF Talk!Heard, Talk!HeardFinal, Sessions
  <2>3. \A d \in Channels : /\ timer[d] = IF d = c THEN "none" ELSE S.timer[d]
                            /\ text[d] = IF d = c THEN S.text[d] \cup {e.n} ELSE S.text[d]
                            /\ last[d] = IF d = c THEN "speech" ELSE S.last[d]
    BY SessionFields
  <2> HIDE DEF timer, text, last, R
  <2>4. R \in Sessions /\ R.timer = timer /\ R.text = text /\ R.last = last
    BY <2>1, <2>2 DEF Sessions
  <2>5. \A d \in Channels : e.n \notin S.text[d]
    BY <1>2 DEF Texts
  <2>8. /\ \A d \in Channels : R.timer[d] # "none" => R.last[d] = "end" /\ R.text[d] # {}
        /\ \A d \in Channels : R.text[d] \subseteq S.text[d] \cup {e.n}
        /\ \A d \in Channels : d # c => R.text[d] = S.text[d]
    BY <2>3, <2>4 DEF SessionFits
  <2>9. ASSUME NEW b \in Channels, NEW d \in Channels, b # d PROVE R.text[b] \cap R.text[d] = {}
    <3>1. S.text[b] \cap S.text[d] = {}
      BY <2>9 DEF SessionFits
    <3>2. e.n \notin S.text[b] /\ e.n \notin S.text[d] /\ (R.text[b] = S.text[b] \/ R.text[d] = S.text[d])
      BY <2>5, <2>8, <2>9
    <3>3. R.text[b] \subseteq S.text[b] \cup {e.n} /\ R.text[d] \subseteq S.text[d] \cup {e.n}
      BY <2>8
    <3> QED
      BY <3>1, <3>2, <3>3
  <2>6. SessionFits(R)
    BY <2>8, <2>9 DEF SessionFits
  <2>7. Texts(R) \subseteq V \cup {e.n}
    <3> SUFFICES ASSUME NEW d \in Channels, NEW x \in R.text[d] PROVE x \in V \cup {e.n}
      BY DEF Texts
    <3>1. x \in S.text[d] \/ x = e.n
      BY <2>8
    <3>2. S.text[d] \subseteq Texts(S)
      BY DEF Texts
    <3> QED
      BY <3>1, <3>2
  <2> QED
    BY <1>2, <2>4, <2>6, <2>7 DEF R, Added
<1>3. CASE e.kind # "final"
  <2> DEFINE timer == [S.timer EXCEPT ![c] = IF e.kind = "activity" THEN "none"
                                             ELSE IF S.text[c] = {} THEN @ ELSE "running"]
             last == [S.last EXCEPT ![c] = IF e.kind = "end" THEN "end" ELSE "speech"]
  <2>5. e.kind = "activity" \/ e.kind = "end"
    BY <1>3 DEF Talk!ChannelKinds
  <2>6. R = [S EXCEPT !.timer = timer, !.last = last]
    BY <2>5, SessionFields DEF Talk!Heard, Talk!HeardActivity, Talk!HeardEnd, Sessions
  <2>7. /\ timer \in [Channels -> Timers] /\ last \in [Channels -> {"speech", "end"}]
        /\ \A d \in Channels : d # c => timer[d] = S.timer[d] /\ last[d] = S.last[d]
        /\ e.kind = "end" => last[c] = "end"
    BY <1>1, SessionFields DEF Timers
  <2>8. timer[c] = IF e.kind = "activity" THEN "none"
                   ELSE IF S.text[c] = {} THEN S.timer[c] ELSE "running"
    BY <1>1, SessionFields
  <2>9. S.timer[c] # "none" => S.text[c] # {}
    BY <1>1 DEF SessionFits
  <2> HIDE DEF timer, last
  <2>1. timer[c] # "none" => last[c] = "end" /\ S.text[c] # {}
    BY <2>5, <2>7, <2>8, <2>9
  <2> HIDE DEF R
  <2>2. R \in Sessions /\ R.timer = timer /\ R.text = S.text /\ R.last = last
    BY <2>6, <2>7 DEF Sessions
  <2>3. SessionFits(R)
    BY <2>1, <2>2, <2>7 DEF SessionFits
  <2>4. Texts(R) = Texts(S)
    BY <2>2 DEF Texts
  <2> QED
    BY <2>2, <2>3, <2>4 DEF R
<1> QED
  BY <1>2, <1>3

LEMMA HeardFits ==
    ASSUME NEW S \in Sessions, SessionFits(S), NEW e \in Talk!Events, NEW V, Texts(S) \subseteq V,
           e.kind = "final" => e.n > 0 /\ e.n \notin V
    PROVE  /\ Talk!Heard(S, e) \in Sessions /\ SessionFits(Talk!Heard(S, e))
           /\ Texts(Talk!Heard(S, e)) \subseteq V \cup Added(e)
<1>1. CASE e.kind \in Talk!ChannelKinds
  BY <1>1, ChannelHeard
<1>2. CASE e.kind \in {"close", "error"}
  <2>1. PICK state \in Talk!States : Talk!Heard(S, e) = Talk!Discarded(S, state)
    BY <1>2 DEF Talk!Heard, Talk!HeardClose, Talk!States
  <2> QED
    BY <2>1, DiscardedFits
<1>3. CASE e.kind = "finalized"
  <2>1. Talk!Heard(S, e) = S
    BY <1>3 DEF Talk!Heard
  <2> QED
    BY <2>1
<1>4. e.kind \in Talk!ChannelKinds \cup Talk!StreamKinds
  BY DEF Talk!Events
<1> QED
  BY <1>1, <1>2, <1>3, <1>4 DEF Talk!StreamKinds

LEMMA CloseFits ==
    ASSUME NEW S \in Sessions, SessionFits(S)
    PROVE  /\ Talk!CloseDue(S) \in Sessions /\ SessionFits(Talk!CloseDue(S))
           /\ \A c \in Channels :
                Talk!CloseDue(S).text[c] = IF c \in Talk!DueChannels(S) THEN {} ELSE S.text[c]
<1> DEFINE timer == [c \in Channels |-> IF c \in Talk!DueChannels(S) THEN "none" ELSE S.timer[c]]
           text == [c \in Channels |-> IF c \in Talk!DueChannels(S) THEN {} ELSE S.text[c]]
           R == Talk!CloseDue(S)
<1>1. timer \in [Channels -> Timers] /\ text \in [Channels -> SUBSET (1 .. MaxEvents)]
  BY SessionFields DEF Timers
<1>2. R = [S EXCEPT !.timer = timer, !.text = text]
  BY DEF Talk!CloseDue, Sessions
<1>3. \A c \in Channels : /\ timer[c] = IF c \in Talk!DueChannels(S) THEN "none" ELSE S.timer[c]
                          /\ text[c] = IF c \in Talk!DueChannels(S) THEN {} ELSE S.text[c]
  OBVIOUS
<1> HIDE DEF timer, text, R
<1>4. R \in Sessions /\ R.timer = timer /\ R.text = text /\ R.last = S.last
  BY <1>1, <1>2 DEF Sessions
<1>5. SessionFits(R)
  BY <1>3, <1>4 DEF SessionFits
<1> QED
  BY <1>3, <1>4, <1>5 DEF R

-----------------------------------------------------------------------------
(* What is left of a session, and the turns it closed: every fragment, one  *)
(* of V, is in one turn or still open.                                      *)

ResultFits(s, r, V) ==
    /\ r.sess \in Sessions /\ SessionFits(r.sess) /\ Texts(r.sess) \subseteq V
    /\ r.closed \in Seq(Talk!Turns) /\ TurnsApart(r.closed)
    /\ \A i \in DOMAIN r.closed :
        /\ r.closed[i].stream = s /\ r.closed[i].text # {} /\ r.closed[i].text \subseteq V
        /\ r.closed[i].text \cap Texts(r.sess) = {}

LEMMA DueTurnsFit ==
    ASSUME TalkSetup, NEW s \in Talk!Streams, NEW S \in Sessions, SessionFits(S)
    PROVE  LET due == Talk!DueTurns(s, S) IN
           /\ due \in Seq(Talk!Turns) /\ TurnsApart(due)
           /\ \A k \in DOMAIN due :
                /\ due[k].stream = s /\ due[k].text # {} /\ due[k].text \subseteq Texts(S)
                /\ due[k].text \cap Texts(Talk!CloseDue(S)) = {}
           /\ Texts(Talk!CloseDue(S)) \subseteq Texts(S)
<1> DEFINE due == Talk!DueTurns(s, S)
<1>1. /\ due \in Seq(Talk!Turns)
      /\ \A k \in DOMAIN due : \E c \in Talk!DueChannels(S) :
           S.text[c] # {} /\ due[k] = [stream |-> s, channel |-> c, text |-> S.text[c]]
      /\ \A k, l \in DOMAIN due : k # l => due[k].channel # due[l].channel
  BY DueTurnsAre
<1>2. Talk!DueChannels(S) \subseteq Channels
  BY DEF Talk!DueChannels
<1> HIDE DEF due
<1>3. \A k \in DOMAIN due : \E c \in Talk!DueChannels(S) :
        /\ c \in Channels /\ S.text[c] # {} /\ due[k].stream = s /\ due[k].channel = c
        /\ due[k].text = S.text[c]
  BY <1>1, <1>2
<1>4. \A c, d \in Channels : c # d => S.text[c] \cap S.text[d] = {}
  BY DEF SessionFits
<1>5. TurnsApart(due)
  BY <1>1, <1>3, <1>4 DEF TurnsApart
<1>6. \A c \in Channels : Talk!CloseDue(S).text[c] = IF c \in Talk!DueChannels(S) THEN {} ELSE S.text[c]
  BY CloseFits
<1>7. Texts(Talk!CloseDue(S)) \subseteq Texts(S)
  BY <1>6 DEF Texts
<1>8. ASSUME NEW k \in DOMAIN due
      PROVE  /\ due[k].stream = s /\ due[k].text # {} /\ due[k].text \subseteq Texts(S)
             /\ due[k].text \cap Texts(Talk!CloseDue(S)) = {}
  <2>1. PICK c \in Talk!DueChannels(S) :
          /\ c \in Channels /\ S.text[c] # {} /\ due[k].stream = s /\ due[k].text = S.text[c]
    BY <1>3
  <2>2. S.text[c] \subseteq Texts(S)
    BY <2>1 DEF Texts
  <2>3. ASSUME NEW x \in S.text[c], x \in Texts(Talk!CloseDue(S)) PROVE FALSE
    <3>1. PICK d \in Channels : x \in Talk!CloseDue(S).text[d]
      BY <2>3 DEF Texts
    <3>2. d \notin Talk!DueChannels(S) /\ x \in S.text[d]
      BY <1>6, <3>1
    <3> QED
      BY <1>4, <2>1, <3>2
  <2> QED
    BY <2>1, <2>2, <2>3
<1> QED
  BY <1>1, <1>5, <1>7, <1>8 DEF due

\* Closing what is due after some turns have been closed.
LEMMA ClosingFits ==
    ASSUME TalkSetup, NEW s \in Talk!Streams, NEW S \in Sessions, SessionFits(S), NEW V,
           Texts(S) \subseteq V, NEW turns \in Seq(Talk!Turns), TurnsApart(turns),
           \A i \in DOMAIN turns :
                /\ turns[i].stream = s /\ turns[i].text # {} /\ turns[i].text \subseteq V
                /\ turns[i].text \cap Texts(S) = {}
    PROVE  ResultFits(s, [sess |-> Talk!CloseDue(S), closed |-> turns \o Talk!DueTurns(s, S)], V)
<1> DEFINE due == Talk!DueTurns(s, S)
           left == Texts(Talk!CloseDue(S))
           all == turns \o due
<1>1. /\ due \in Seq(Talk!Turns) /\ TurnsApart(due)
      /\ \A k \in DOMAIN due :
            /\ due[k].stream = s /\ due[k].text # {} /\ due[k].text \subseteq Texts(S)
            /\ due[k].text \cap left = {}
      /\ left \subseteq Texts(S)
  BY DueTurnsFit
<1> HIDE DEF due, left
<1>2. /\ all \in Seq(Talk!Turns)
      /\ \A i \in DOMAIN all :
           \/ i \in DOMAIN turns /\ all[i] = turns[i]
           \/ /\ i - Len(turns) \in DOMAIN due /\ all[i] = due[i - Len(turns)]
              /\ i \in Nat /\ i > Len(turns)
  BY <1>1
<1>3. Len(turns) \in Nat /\ \A i \in DOMAIN turns : i \in Nat /\ i <= Len(turns)
  OBVIOUS
<1> HIDE DEF all
<1>4. \A i \in DOMAIN turns, k \in DOMAIN due : turns[i].text \cap due[k].text = {}
  BY <1>1
<1>5. ASSUME NEW i \in DOMAIN all, NEW j \in DOMAIN all, i # j
      PROVE  all[i].text \cap all[j].text = {}
  <2>1. CASE i \in DOMAIN turns /\ j \in DOMAIN turns /\ all[i] = turns[i] /\ all[j] = turns[j]
    BY <1>5, <2>1 DEF TurnsApart
  <2>2. CASE /\ i - Len(turns) \in DOMAIN due /\ all[i] = due[i - Len(turns)]
             /\ i \in Nat /\ j \in Nat
             /\ j - Len(turns) \in DOMAIN due /\ all[j] = due[j - Len(turns)]
    <3>1. i - Len(turns) # j - Len(turns)
      BY <1>3, <1>5, <2>2
    <3> QED
      BY <1>1, <2>2, <3>1 DEF TurnsApart
  <2> QED
    BY <1>2, <1>4, <2>1, <2>2
<1>6. ASSUME NEW i \in DOMAIN all
      PROVE  /\ all[i].stream = s /\ all[i].text # {} /\ all[i].text \subseteq V
             /\ all[i].text \cap left = {}
  <2>1. \A k \in DOMAIN turns : turns[k].text \cap left = {}
    BY <1>1
  <2>2. \A k \in DOMAIN due : due[k].text \subseteq V
    BY <1>1
  <2> QED
    BY <1>1, <1>2, <2>1, <2>2
<1>7. Talk!CloseDue(S) \in Sessions /\ SessionFits(Talk!CloseDue(S)) /\ left \subseteq V
  BY <1>1, CloseFits
<1> QED
  BY <1>2, <1>5, <1>6, <1>7 DEF ResultFits, TurnsApart, all, due, left

LEMMA StepFits ==
    ASSUME TalkSetup, NEW s \in Talk!Streams, NEW V, NEW acc, ResultFits(s, acc, V), NEW e \in Talk!Events,
           e.kind = "final" => e.n > 0 /\ e.n \notin V
    PROVE  ResultFits(s, AfterEvent(s, acc, e), V \cup Added(e))
<1> DEFINE S == Talk!Heard(acc.sess, e)
<1>1. /\ acc.sess \in Sessions /\ SessionFits(acc.sess) /\ Texts(acc.sess) \subseteq V
      /\ acc.closed \in Seq(Talk!Turns) /\ TurnsApart(acc.closed)
      /\ \A i \in DOMAIN acc.closed :
           /\ acc.closed[i].stream = s /\ acc.closed[i].text # {} /\ acc.closed[i].text \subseteq V
           /\ acc.closed[i].text \cap Texts(acc.sess) = {}
  BY DEF ResultFits
<1>2. /\ S \in Sessions /\ SessionFits(S)
      /\ Texts(S) \subseteq Texts(acc.sess) \cup Added(e)
  <2>1. e.kind = "final" => e.n > 0 /\ e.n \notin Texts(acc.sess)
    BY <1>1
  <2> QED
    BY <1>1, <2>1, HeardFits
<1> HIDE DEF S
<1>3. Added(e) \cap V = {}
  BY DEF Added
<1>4. Texts(S) \subseteq V \cup Added(e)
  BY <1>1, <1>2
<1>5. \A i \in DOMAIN acc.closed :
        /\ acc.closed[i].stream = s /\ acc.closed[i].text # {}
        /\ acc.closed[i].text \subseteq V \cup Added(e)
        /\ acc.closed[i].text \cap Texts(S) = {}
  <2> SUFFICES ASSUME NEW i \in DOMAIN acc.closed
               PROVE  /\ acc.closed[i].stream = s /\ acc.closed[i].text # {}
                      /\ acc.closed[i].text \subseteq V \cup Added(e)
                      /\ acc.closed[i].text \cap Texts(S) = {}
    OBVIOUS
  <2> DEFINE text == acc.closed[i].text
  <2>1. text # {} /\ text \subseteq V /\ text \cap Texts(acc.sess) = {} /\ acc.closed[i].stream = s
    BY <1>1
  <2> HIDE DEF text
  <2>2. text \subseteq V \cup Added(e) /\ text \cap Texts(S) = {}
    BY <1>2, <1>3, <2>1
  <2> QED
    BY <2>1, <2>2 DEF text
<1>6. ResultFits(s, [sess |-> Talk!CloseDue(S), closed |-> acc.closed \o Talk!DueTurns(s, S)],
                 V \cup Added(e))
  BY <1>1, <1>2, <1>4, <1>5, ClosingFits
<1> QED
  BY <1>6 DEF AfterEvent, S

\* The fragments of the first k events.
Finals(events, k) == {events[i].n : i \in {j \in 1 .. k : events[j].kind = "final"}}

\* Events that bring new fragments, each once.
FreshFinals(s, events) ==
    /\ \A i \in DOMAIN events : events[i].kind = "final" =>
        events[i].n > 0 /\ events[i].n \notin Texts(session[s])
    /\ \A i, j \in DOMAIN events :
        i # j /\ events[i].kind = "final" /\ events[j].kind = "final"
        => events[i].n # events[j].n

LEMMA ConsumedFits ==
    ASSUME TalkSetup, NEW s \in Talk!Streams, session[s] \in Sessions, SessionFits(session[s]),
           NEW events \in Seq(Talk!Events), FreshFinals(s, events)
    PROVE  ResultFits(s, Talk!Consumed(s, events), Texts(session[s]) \cup Finals(events, Len(events)))
<1> DEFINE n == Len(events)
           V(k) == Texts(session[s]) \cup Finals(events, k)
<1>0. n \in Nat /\ DOMAIN events = 1 .. n /\ \A i \in 1 .. n : events[i] \in Talk!Events
  OBVIOUS
<1>1. PICK h : Collected(s, events, n, h)
  <2>1. n \in Nat /\ DOMAIN events = 1 .. n
    BY <1>0
  <2> HIDE DEF n
  <2> QED
    BY <2>1, ConsumedSteps
<1> DEFINE G == {k \in Nat : k <= n => ResultFits(s, h[k], V(k))}
<1>2. 0 \in G
  <2>1. BeforeEvents(s).sess = session[s] /\ BeforeEvents(s).closed = <<>>
    BY DEF BeforeEvents
  <2>2. <<>> \in Seq(Talk!Turns) /\ DOMAIN <<>> = {}
    OBVIOUS
  <2>3. ResultFits(s, BeforeEvents(s), V(0))
    BY <2>1, <2>2 DEF ResultFits, TurnsApart
  <2> QED
    BY <1>1, <2>3 DEF Collected
<1>3. ASSUME NEW k \in Nat, k \in G PROVE k + 1 \in G
  <2> SUFFICES ASSUME k + 1 <= n PROVE ResultFits(s, h[k + 1], V(k + 1))
    OBVIOUS
  <2> DEFINE e == events[k + 1]
  <2>1. k + 1 \in 1 .. n /\ k <= n /\ (k + 1) - 1 = k
    BY <1>0
  <2>2. h[k + 1] = AfterEvent(s, h[k], e) /\ ResultFits(s, h[k], V(k)) /\ e \in Talk!Events
    BY <1>0, <1>1, <1>3, <2>1 DEF Collected
  <2>3. e.kind = "final" => e.n > 0 /\ e.n \notin V(k)
    <3> SUFFICES ASSUME e.kind = "final" PROVE e.n > 0 /\ e.n \notin V(k)
      OBVIOUS
    <3>1. e.n > 0 /\ e.n \notin Texts(session[s])
      BY <1>0, <2>1 DEF FreshFinals
    <3>2. ASSUME NEW j \in 1 .. k, events[j].kind = "final" PROVE e.n # events[j].n
      <4>1. j \in 1 .. n /\ j # k + 1
        BY <1>0, <2>1
      <4> QED
        BY <1>0, <2>1, <3>2, <4>1 DEF FreshFinals
    <3>3. e.n \notin Finals(events, k)
      BY <3>2 DEF Finals
    <3> QED
      BY <3>1, <3>3
  <2>4. V(k + 1) = V(k) \cup Added(e)
    <3>1. 1 .. k + 1 = (1 .. k) \cup {k + 1}
      OBVIOUS
    <3>2. Finals(events, k + 1) = Finals(events, k) \cup Added(e)
      BY <3>1 DEF Finals, Added
    <3> QED
      BY <3>2
  <2> HIDE DEF V, e
  <2> QED
    BY <2>2, <2>3, <2>4, StepFits
<1> HIDE DEF G
<1>4. n \in G
  BY <1>0, <1>2, <1>3, NatSetInduction
<1> QED
  BY <1>0, <1>1, <1>4 DEF G, Collected

LEMMA DueResultFits ==
    ASSUME TalkSetup, NEW s \in Talk!Streams, session[s] \in Sessions, SessionFits(session[s])
    PROVE  ResultFits(s, Talk!DueResult(s), Texts(session[s]))
<1> DEFINE none == <<>>
<1>1. none \in Seq(Talk!Turns) /\ DOMAIN none = {}
  OBVIOUS
<1>2. none \o Talk!DueTurns(s, session[s]) = Talk!DueTurns(s, session[s])
  BY DueTurnsAre
<1> HIDE DEF none
<1>3. ResultFits(s, [sess |-> Talk!CloseDue(session[s]), closed |-> none \o Talk!DueTurns(s, session[s])],
                 Texts(session[s]))
  BY <1>1, ClosingFits DEF TurnsApart
<1> QED
  BY <1>2, <1>3 DEF Talk!DueResult

-----------------------------------------------------------------------------
(* A quiet step closes, stores and gives up no turn.                        *)

Shrinks(S, R) == R \in Sessions /\ SessionFits(R) /\ Texts(R) \subseteq Texts(S)
SessionsShrink ==
    session' \in [Talk!Streams -> Sessions] /\ \A s \in Talk!Streams : Shrinks(session[s], session'[s])
QueuesKept ==
    /\ queue' \in [Talk!Streams -> Seq(Talk!Events)]
    /\ \A s \in Talk!Streams : queue'[s] = queue[s] \/ queue'[s] = Append(queue[s], Talk!CloseEvent)
HandsKept ==
    /\ task' \in [Talk!Tasks -> Coroutines] /\ CoroutinesFit'
    /\ \A t \in Talk!Tasks : task'[t].todo = task[t].todo
WorkShrinks ==
    /\ registered' \in Talk!Streams \cup {None}
    /\ answering' \subseteq answering /\ durable' \subseteq durable \cup {p.turn : p \in saving}
    /\ saving' \subseteq Savings /\ \A p \in saving' : \E q \in saving : p.turn = q.turn
    /\ deferred' \subseteq {registered'}
QuietTalk ==
    /\ SessionsShrink /\ QueuesKept /\ HandsKept /\ WorkShrinks
    /\ UNCHANGED <<heard, closed, stored, dropped>>

LEMMA QuietFragments ==
    ASSUME TalkSetup, TalkTyping, FragmentsFit, SessionsShrink, QueuesKept, heard' = heard,
           closed' = closed
    PROVE  FragmentsFit'
<1>1. heard \in Nat
  BY DEF TalkTyping, TalkSetup
<1>2. ASSUME NEW s \in Talk!Streams
      PROVE  /\ SessionFits(session'[s]) /\ Texts(session'[s]) \subseteq 1 .. heard
             /\ Texts(session'[s]) \subseteq Texts(session[s])
  BY DEF SessionsShrink, Shrinks, FragmentsFit
<1>3. ASSUME NEW s \in Talk!Streams
      PROVE  EventsFresh(s, queue[s])'
  <2> DEFINE old == queue[s]
             new == queue'[s]
  <2>1. old \in Seq(Talk!Events) /\ new \in Seq(Talk!Events)
    BY DEF TalkTyping, QueuesKept
  <2>2. new = old \/ new = Append(old, Talk!CloseEvent)
    BY DEF QueuesKept
  <2>3. EventsFresh(s, old)
    BY DEF FragmentsFit
  <2> HIDE DEF old, new
  <2>4. \A i \in DOMAIN new : \/ i \in DOMAIN old /\ new[i] = old[i]
                              \/ new[i] = Talk!CloseEvent
    BY <2>1, <2>2
  <2>5. Talk!CloseEvent.n = 0 /\ Talk!CloseEvent.kind = "close"
    BY DEF Talk!CloseEvent
  <2>6. \A i \in DOMAIN new : new[i].n \in 0 .. heard
    BY <1>1, <2>3, <2>4, <2>5 DEF EventsFresh
  <2>7. \A i \in DOMAIN new : new[i].kind = "final" => i \in DOMAIN old /\ new[i] = old[i]
    BY <2>4, <2>5
  <2>8. \A i \in DOMAIN new : new[i].kind = "final" =>
          /\ new[i].n > 0 /\ new[i].n \notin Texts(session'[s])
          /\ \A j \in DOMAIN closed : closed[j].stream = s => new[i].n \notin closed[j].text
    BY <1>2, <2>3, <2>7 DEF EventsFresh
  <2>9. \A i, j \in DOMAIN new :
          i # j /\ new[i].kind = "final" /\ new[j].kind = "final" => new[i].n # new[j].n
    BY <2>3, <2>7 DEF EventsFresh
  <2> QED
    BY <2>6, <2>8, <2>9 DEF EventsFresh, new
<1>4. ClosedFits'
  <2>1. ASSUME NEW i \in DOMAIN closed PROVE closed[i].stream \in Talk!Streams
    <3>1. closed \in Seq(Talk!Turns)
      BY DEF TalkTyping
    <3>2. closed[i] \in Talk!Turns
      BY <3>1
    <3> QED
      BY <3>2 DEF Talk!Turns
  <2>2. ClosedFits
    BY DEF FragmentsFit
  <2>3. \A i \in DOMAIN closed : closed[i].text \cap Texts(session'[closed[i].stream]) = {}
    <3> SUFFICES ASSUME NEW i \in DOMAIN closed
                 PROVE  closed[i].text \cap Texts(session'[closed[i].stream]) = {}
      OBVIOUS
    <3>1. closed[i].text \cap Texts(session[closed[i].stream]) = {}
      BY <2>2 DEF ClosedFits
    <3> QED
      BY <1>2, <2>1, <3>1
  <2> QED
    BY <2>2, <2>3 DEF ClosedFits
<1> QED
  BY <1>2, <1>3, <1>4 DEF FragmentsFit

LEMMA HandsPlaces ==
    ASSUME PlacesFit, \A t \in Talk!Tasks : task'[t].todo = task[t].todo,
           UNCHANGED <<closed, stored, dropped>>
    PROVE  PlacesFit'
<1>1. Held' = Held
  BY DEF Held
<1> QED
  BY <1>1 DEF PlacesFit, Talk!Distinct

LEMMA QuietKeeps ==
    ASSUME TalkSetup, TalkSound, QuietTalk
    PROVE  TalkSound'
<1> USE DEF TalkSound
<1>0. TalkTyping /\ CoroutinesFit /\ FragmentsFit /\ PlacesFit /\ AfterStoring
  OBVIOUS
<1>1. FragmentsFit'
  BY <1>0, QuietFragments DEF QuietTalk
<1>2. PlacesFit'
  BY <1>0, HandsPlaces DEF QuietTalk, HandsKept
<1>3. CoroutinesFit'
  BY DEF QuietTalk, HandsKept
<1>4. AfterStoring'
  <2>1. durable' \subseteq Talk!ToSet(stored)
    BY <1>0 DEF QuietTalk, WorkShrinks, AfterStoring
  <2>2. \A p \in saving' : p.turn \in Talk!ToSet(stored)
    BY <1>0 DEF QuietTalk, WorkShrinks, AfterStoring
  <2>3. answering' \subseteq {u \in Talk!ToSet(stored) : u.channel = Interviewer}
    BY <1>0 DEF QuietTalk, WorkShrinks, AfterStoring
  <2>4. stored' = stored /\ deferred' \subseteq {registered'}
    BY DEF QuietTalk, WorkShrinks
  <2> QED
    BY <2>1, <2>2, <2>3, <2>4 DEF AfterStoring
<1>5. TalkTyping'
  <2>1. durable' \subseteq Talk!Turns
    BY <1>0 DEF QuietTalk, WorkShrinks, TalkTyping, Savings
  <2>2. answering' \subseteq Talk!Turns
    BY <1>0 DEF QuietTalk, WorkShrinks, TalkTyping
  <2> QED
    BY <1>0, <2>1, <2>2
       DEF QuietTalk, SessionsShrink, QueuesKept, HandsKept, WorkShrinks, TalkTyping
<1> QED
  BY <1>1, <1>2, <1>3, <1>4, <1>5

-----------------------------------------------------------------------------
(* The parts of a quiet step.                                               *)

LEMMA StatesFit ==
    ASSUME NEW S \in Sessions, SessionFits(S), NEW state \in Talk!States
    PROVE  Shrinks(S, [S EXCEPT !.state = state])
<1> DEFINE R == [S EXCEPT !.state = state]
<1>1. R \in Sessions /\ R.text = S.text /\ R.timer = S.timer /\ R.last = S.last
  BY DEF Sessions
<1> HIDE DEF R
<1>2. SessionFits(R) /\ Texts(R) = Texts(S)
  BY <1>1 DEF SessionFits, Texts
<1> QED
  BY <1>1, <1>2 DEF Shrinks, R

LEMMA NewSessionFits ==
    ASSUME NEW state \in Talk!States
    PROVE  /\ Talk!NewSession(state) \in Sessions /\ SessionFits(Talk!NewSession(state))
           /\ Texts(Talk!NewSession(state)) = {}
<1> DEFINE R == Talk!NewSession(state)
<1>1. R \in Sessions /\ \A c \in Channels : R.timer[c] = "none" /\ R.text[c] = {}
  BY DEF Talk!NewSession, Sessions, Timers
<1> HIDE DEF R
<1>2. SessionFits(R) /\ Texts(R) = {}
  BY <1>1 DEF SessionFits, Texts
<1> QED
  BY <1>1, <1>2 DEF R

LEMMA SessionsSame ==
    ASSUME TalkTyping, FragmentsFit, session' = session
    PROVE  SessionsShrink
BY DEF SessionsShrink, Shrinks, TalkTyping, FragmentsFit

LEMMA SessionsSet ==
    ASSUME TalkTyping, FragmentsFit, NEW s \in Talk!Streams, NEW R, Shrinks(session[s], R),
           session' = [session EXCEPT ![s] = R]
    PROVE  SessionsShrink
<1>1. R \in Sessions
  BY DEF Shrinks
<1>2. session' \in [Talk!Streams -> Sessions]
  BY <1>1 DEF TalkTyping
<1>3. \A r \in Talk!Streams : session'[r] = IF r = s THEN R ELSE session[r]
  BY DEF TalkTyping
<1>4. \A r \in Talk!Streams : Shrinks(session[r], session[r])
  BY DEF Shrinks, FragmentsFit, TalkTyping
<1> QED
  BY <1>2, <1>3, <1>4 DEF SessionsShrink

LEMMA StateSet ==
    ASSUME TalkTyping, FragmentsFit, NEW s \in Talk!Streams, NEW state \in Talk!States,
           session' = [session EXCEPT ![s].state = state]
    PROVE  SessionsShrink
<1>1. session[s] \in Sessions /\ SessionFits(session[s])
  BY DEF TalkTyping, FragmentsFit
<1>2. session' = [session EXCEPT ![s] = [session[s] EXCEPT !.state = state]]
  OBVIOUS
<1> QED
  BY <1>1, <1>2, StatesFit, SessionsSet

LEMMA QueuesSame ==
    ASSUME TalkTyping, queue' = queue
    PROVE  QueuesKept
BY DEF QueuesKept, TalkTyping

LEMMA CloseEventIs ==
    ASSUME TalkSetup
    PROVE  Talk!CloseEvent \in Talk!Events
BY DEF Talk!CloseEvent, Talk!Events, Talk!StreamKinds, TalkSetup

LEMMA QueueCloses ==
    ASSUME TalkSetup, TalkTyping, NEW s \in Talk!Streams,
           queue' = [queue EXCEPT ![s] = Append(@, Talk!CloseEvent)]
    PROVE  QueuesKept
<1>1. queue[s] \in Seq(Talk!Events) /\ Append(queue[s], Talk!CloseEvent) \in Seq(Talk!Events)
  BY CloseEventIs DEF TalkTyping
<1> QED
  BY <1>1 DEF QueuesKept, TalkTyping

LEMMA LinkCloses ==
    ASSUME TalkSetup, TalkTyping, NEW s \in Talk!Streams, Talk!CloseLink(s)
    PROVE  QueuesKept
BY QueuesSame, QueueCloses DEF Talk!CloseLink

LEMMA WorkSame ==
    ASSUME TalkTyping, AfterStoring,
           UNCHANGED <<registered, answering, durable, saving, deferred>>
    PROVE  WorkShrinks
BY DEF WorkShrinks, TalkTyping, AfterStoring

LEMMA WorkRemoved ==
    ASSUME TalkTyping, Talk!RemoveSession, UNCHANGED <<durable, saving>>
    PROVE  WorkShrinks
BY DEF WorkShrinks, TalkTyping, Talk!RemoveSession

LEMMA HandsSame ==
    ASSUME TalkTyping, CoroutinesFit, task' = task
    PROVE  HandsKept
BY DEF HandsKept, TalkTyping, CoroutinesFit

LEMMA IdleIs ==
    /\ Talk!Idle \in Coroutines /\ Talk!Idle.at = "idle" /\ Talk!Idle.todo = <<>> /\ Talk!Idle.stream = None
BY DEF Talk!Idle, Coroutines, Talk!Awaits, Talk!Ops

LEMMA HandSet ==
    ASSUME TalkTyping, CoroutinesFit, NEW t \in Talk!Tasks, NEW c \in Coroutines, task' = [task EXCEPT ![t] = c],
           c.at # "idle" => c.stream \in Talk!Streams, c.at # "append", c.todo = <<>>,
           task[t].at # "append"
    PROVE  HandsKept
<1>1. task' \in [Talk!Tasks -> Coroutines] /\ \A o \in Talk!Tasks : task'[o] = IF o = t THEN c ELSE task[o]
  BY DEF TalkTyping
<1>2. task[t].todo = <<>>
  BY DEF CoroutinesFit
<1>3. CoroutinesFit'
  BY <1>1 DEF CoroutinesFit
<1> QED
  BY <1>1, <1>2, <1>3 DEF HandsKept

LEMMA HandBegins ==
    ASSUME TalkTyping, CoroutinesFit, NEW t \in Talk!Tasks, NEW op \in Talk!Ops, NEW s \in Talk!Streams,
           NEW step \in (Talk!Running \cup Talk!Awaits) \ {"append"}, task[t].at = "idle",
           Talk!Begin(t, op, s, step)
    PROVE  HandsKept
<1>0. PICK o \in Coroutines : o = Talk!Idle /\ o.todo = <<>>
  BY IdleIs
<1> DEFINE c == [o EXCEPT !.at = step, !.op = op, !.stream = s]
<1>1. c \in Coroutines /\ c.at = step /\ c.stream = s /\ c.todo = o.todo
  BY DEF Coroutines
<1>2. task' = [task EXCEPT ![t] = c]
  BY <1>0 DEF Talk!Begin
<1> HIDE DEF c
<1> QED
  BY <1>0, <1>1, <1>2, HandSet

LEMMA HandGoes ==
    ASSUME TalkTyping, CoroutinesFit, NEW t \in Talk!Tasks, NEW step \in (Talk!Running \cup Talk!Awaits) \ {"append"},
           task[t].at \notin {"idle", "append"}, Talk!Goto(t, step)
    PROVE  HandsKept
<1> DEFINE c == [task[t] EXCEPT !.at = step]
<1>0. task[t] \in Coroutines /\ task[t].stream \in Talk!Streams /\ task[t].todo = <<>>
  BY DEF TalkTyping, CoroutinesFit
<1>1. c \in Coroutines /\ c.at = step /\ c.stream = task[t].stream /\ c.todo = task[t].todo
  BY <1>0 DEF Coroutines
<1>2. task' = [task EXCEPT ![t] = c]
  BY DEF Talk!Goto
<1> HIDE DEF c
<1> QED
  BY <1>0, <1>1, <1>2, HandSet

LEMMA HandEnds ==
    ASSUME TalkTyping, CoroutinesFit, NEW t \in Talk!Tasks, task[t].at # "append", Talk!End(t)
    PROVE  HandsKept
BY IdleIs, HandSet DEF Talk!End

-----------------------------------------------------------------------------
(* The quiet actions, one by one.                                           *)

LEMMA TalkParts ==
    ASSUME TalkSound
    PROVE  TalkTyping /\ CoroutinesFit /\ FragmentsFit /\ PlacesFit /\ AfterStoring
BY DEF TalkSound

LEMMA StepNames ==
    /\ Talk!Running \cup Talk!Awaits = {"collect", "finish", "idle", "open", "audio_lock", "send", "finalize",
                              "close", "wait", "append", "close_finalized", "drain_finalized", "fail"}
    /\ Talk!Ops = {"none", "start", "audio", "finalize", "stop", "disconnect", "listen", "reap"}
    /\ {"starting", "streaming", "finalizing", "completed", "failed", "none"} = Talk!States
BY DEF Talk!Running, Talk!Awaits, Talk!Ops, Talk!States

\* A coroutine that does something has a session.
LEMMA HasSession ==
    ASSUME TalkSound, NEW t \in Talk!Tasks, NEW step, Talk!At(t, step), step # "idle"
    PROVE  task[t].stream \in Talk!Streams
BY DEF TalkSound, CoroutinesFit, Talk!At

LEMMA LinkSame ==
    ASSUME TalkTyping, UNCHANGED <<registered, deferred, Talk!turnVars>>, AfterStoring
    PROVE  WorkShrinks /\ UNCHANGED <<closed, stored, dropped>>
BY WorkSame DEF Talk!turnVars

\* The session a request is about.
LEMMA RequestQuiet ==
    ASSUME TalkSound, NEW t \in Talk!Tasks, NEW op \in Talk!Ops,
           NEW step \in (Talk!Running \cup Talk!Awaits) \ {"append"}, Talk!Request(t, op, step)
    PROVE  registered \in Talk!Streams /\ HandsKept
<1>1. registered \in Talk!Streams /\ task[t].at = "idle" /\ Talk!Begin(t, op, registered, step)
  BY DEF Talk!Request, Talk!At, TalkSound, TalkTyping
<1> QED
  BY <1>1, HandBegins, TalkParts

LEMMA StartQuiet ==
    ASSUME TalkSetup, TalkSound, NEW t \in Talk!Tasks, Talk!Start(t)
    PROVE  QuietTalk
<1>0. TalkTyping /\ CoroutinesFit /\ FragmentsFit /\ AfterStoring
  BY TalkParts
<1>1. PICK s \in Talk!Streams :
        /\ session' = [session EXCEPT ![s] = Talk!NewSession("starting")]
        /\ registered' = s /\ Talk!Begin(t, "start", s, "open")
  BY DEF Talk!Start
<1>2. SessionsShrink
  <2>1. Shrinks(session[s], Talk!NewSession("starting"))
    BY NewSessionFits, StepNames DEF Shrinks
  <2> QED
    BY <1>0, <1>1, <2>1, SessionsSet
<1>3. QueuesKept
  BY <1>0, QueuesSame DEF Talk!Start
<1>4. HandsKept
  BY <1>0, <1>1, HandBegins, StepNames DEF Talk!Start, Talk!At
<1>5. WorkShrinks
  BY <1>0, <1>1 DEF WorkShrinks, Talk!Start, TalkTyping
<1> QED
  BY <1>2, <1>3, <1>4, <1>5 DEF QuietTalk, Talk!Start

LEMMA OpenedQuiet ==
    ASSUME TalkSetup, TalkSound, NEW t \in Talk!Tasks, Talk!Opened(t)
    PROVE  QuietTalk
<1>0. TalkTyping /\ CoroutinesFit /\ FragmentsFit /\ AfterStoring
  BY TalkParts
<1>1. task[t].stream \in Talk!Streams /\ task[t].at \notin {"idle", "append"}
  <2>1. PICK step \in {"open"} : Talk!At(t, step)
    BY DEF Talk!Opened
  <2> QED
    BY <2>1, HasSession DEF Talk!At
<1>2. SessionsShrink
  <2>1. "streaming" \in Talk!States /\ session' = [session EXCEPT ![task[t].stream].state = "streaming"]
    BY StepNames DEF Talk!Opened
  <2> QED
    BY <1>0, <1>1, <2>1, StateSet
<1>3. QueuesKept
  BY <1>0, QueuesSame DEF Talk!Opened, Talk!turnVars
<1>4. HandsKept
  BY <1>0, <1>1, HandGoes, StepNames DEF Talk!Opened
<1>5. WorkShrinks
  BY <1>0, WorkSame DEF Talk!Opened, Talk!turnVars
<1> QED
  BY <1>2, <1>3, <1>4, <1>5 DEF QuietTalk, Talk!Opened, Talk!turnVars

LEMMA OpenFailsQuiet ==
    ASSUME TalkSetup, TalkSound, NEW t \in Talk!Tasks, Talk!OpenFails(t)
    PROVE  QuietTalk
<1>0. TalkTyping /\ CoroutinesFit /\ FragmentsFit /\ AfterStoring
  BY TalkParts
<1>1. task[t].stream \in Talk!Streams /\ task[t].at \notin {"idle", "append"}
  <2>1. PICK step \in {"open"} : Talk!At(t, step)
    BY DEF Talk!OpenFails
  <2> QED
    BY <2>1, HasSession DEF Talk!At
<1>2. SessionsShrink
  <2>1. "failed" \in Talk!States /\ session' = [session EXCEPT ![task[t].stream].state = "failed"]
    BY StepNames DEF Talk!OpenFails
  <2> QED
    BY <1>0, <1>1, <2>1, StateSet
<1>3. QueuesKept
  BY <1>0, QueuesSame DEF Talk!OpenFails, Talk!turnVars
<1>4. HandsKept
  BY <1>0, <1>1, HandEnds DEF Talk!OpenFails
<1>5. WorkShrinks
  BY <1>0, WorkRemoved DEF Talk!OpenFails, Talk!turnVars
<1> QED
  BY <1>2, <1>3, <1>4, <1>5 DEF QuietTalk, Talk!OpenFails, Talk!turnVars

LEMMA PushAudioQuiet ==
    ASSUME TalkSetup, TalkSound, NEW t \in Talk!Tasks, Talk!PushAudio(t)
    PROVE  QuietTalk
<1>0. TalkTyping /\ CoroutinesFit /\ FragmentsFit /\ AfterStoring
  BY TalkParts
<1>2. SessionsShrink
  BY <1>0, SessionsSame DEF Talk!PushAudio, Talk!turnVars
<1>3. QueuesKept
  BY <1>0, QueuesSame DEF Talk!PushAudio, Talk!turnVars
<1>4. HandsKept
  BY RequestQuiet, StepNames DEF Talk!PushAudio
<1>5. WorkShrinks
  BY <1>0, WorkSame DEF Talk!PushAudio, Talk!turnVars
<1> QED
  BY <1>2, <1>3, <1>4, <1>5 DEF QuietTalk, Talk!PushAudio, Talk!turnVars

LEMMA SendAudioQuiet ==
    ASSUME TalkSetup, TalkSound, NEW t \in Talk!Tasks, Talk!SendAudio(t)
    PROVE  QuietTalk
<1>0. TalkTyping /\ CoroutinesFit /\ FragmentsFit /\ AfterStoring
  BY TalkParts
<1>1. task[t].stream \in Talk!Streams /\ task[t].at \notin {"idle", "append"}
  <2>1. PICK step \in {"audio_lock"} : Talk!At(t, step)
    BY DEF Talk!SendAudio
  <2> QED
    BY <2>1, HasSession DEF Talk!At
<1>2. SessionsShrink
  BY <1>0, SessionsSame DEF Talk!SendAudio, Talk!turnVars
<1>3. QueuesKept
  BY <1>0, QueuesSame DEF Talk!SendAudio, Talk!turnVars
<1>4. HandsKept
  <2>1. Talk!Goto(t, "send") \/ Talk!End(t)
    BY DEF Talk!SendAudio
  <2> QED
    BY <1>0, <1>1, <2>1, HandGoes, HandEnds, StepNames
<1>5. WorkShrinks
  BY <1>0, WorkSame DEF Talk!SendAudio, Talk!turnVars
<1> QED
  BY <1>2, <1>3, <1>4, <1>5 DEF QuietTalk, Talk!SendAudio, Talk!turnVars

LEMMA FinalizeQuiet ==
    ASSUME TalkSetup, TalkSound, NEW t \in Talk!Tasks, Talk!Finalize(t)
    PROVE  QuietTalk
<1>0. TalkTyping /\ CoroutinesFit /\ FragmentsFit /\ AfterStoring
  BY TalkParts
<1>1. registered \in Talk!Streams /\ HandsKept
  BY RequestQuiet, StepNames DEF Talk!Finalize
<1>2. SessionsShrink
  <2>1. "finalizing" \in Talk!States /\ session' = [session EXCEPT ![registered].state = "finalizing"]
    BY StepNames DEF Talk!Finalize
  <2> QED
    BY <1>0, <1>1, <2>1, StateSet
<1>3. QueuesKept
  BY <1>0, QueuesSame DEF Talk!Finalize, Talk!turnVars
<1>4. HandsKept
  BY <1>1
<1>5. WorkShrinks
  BY <1>0, WorkSame DEF Talk!Finalize, Talk!turnVars
<1> QED
  BY <1>2, <1>3, <1>4, <1>5 DEF QuietTalk, Talk!Finalize, Talk!turnVars

LEMMA SentQuiet ==
    ASSUME TalkSetup, TalkSound, NEW t \in Talk!Tasks, Talk!Sent(t)
    PROVE  QuietTalk
<1>0. TalkTyping /\ CoroutinesFit /\ FragmentsFit /\ AfterStoring
  BY TalkParts
<1>1. task[t].stream \in Talk!Streams /\ task[t].at \notin {"idle", "append"}
  <2>1. PICK step \in {"send", "finalize"} : Talk!At(t, step)
    BY DEF Talk!Sent
  <2> QED
    BY <2>1, HasSession DEF Talk!At
<1>2. SessionsShrink
  BY <1>0, SessionsSame DEF Talk!Sent, Talk!turnVars
<1>3. QueuesKept
  BY <1>0, QueuesSame DEF Talk!Sent, Talk!turnVars
<1>4. HandsKept
  BY <1>0, <1>1, HandGoes, StepNames DEF Talk!Sent
<1>5. WorkShrinks
  BY <1>0, WorkSame DEF Talk!Sent, Talk!turnVars
<1> QED
  BY <1>2, <1>3, <1>4, <1>5 DEF QuietTalk, Talk!Sent, Talk!turnVars

LEMMA SendFailsQuiet ==
    ASSUME TalkSetup, TalkSound, NEW t \in Talk!Tasks, Talk!SendFails(t)
    PROVE  QuietTalk
<1>0. TalkTyping /\ CoroutinesFit /\ FragmentsFit /\ AfterStoring
  BY TalkParts
<1>1. task[t].stream \in Talk!Streams /\ task[t].at \notin {"idle", "append"}
  <2>1. PICK step \in {"send", "finalize"} : Talk!At(t, step)
    BY DEF Talk!SendFails
  <2> QED
    BY <2>1, HasSession DEF Talk!At
<1>2. SessionsShrink
  BY <1>0, SessionsSame DEF Talk!SendFails, Talk!turnVars
<1>3. QueuesKept
  BY <1>0, QueuesSame DEF Talk!SendFails, Talk!turnVars
<1>4. HandsKept
  BY <1>0, <1>1, HandGoes, StepNames DEF Talk!SendFails
<1>5. WorkShrinks
  BY <1>0, WorkSame DEF Talk!SendFails, Talk!turnVars
<1> QED
  BY <1>2, <1>3, <1>4, <1>5 DEF QuietTalk, Talk!SendFails, Talk!turnVars

LEMMA StopQuiet ==
    ASSUME TalkSetup, TalkSound, NEW t \in Talk!Tasks, Talk!Stop(t)
    PROVE  QuietTalk
<1>0. TalkTyping /\ CoroutinesFit /\ FragmentsFit /\ AfterStoring
  BY TalkParts
<1>1. registered \in Talk!Streams /\ HandsKept
  <2>1. PICK step \in {"close", "collect"} : Talk!Request(t, "stop", step)
    BY DEF Talk!Stop
  <2> QED
    BY <2>1, RequestQuiet, StepNames
<1>2. SessionsShrink
  <2>1. CASE session' = session
    BY <1>0, <2>1, SessionsSame
  <2>2. CASE session' = [session EXCEPT ![registered].state = "finalizing"]
    BY <1>0, <1>1, <2>2, StateSet, StepNames
  <2> QED
    BY <2>1, <2>2 DEF Talk!Stop
<1>3. QueuesKept
  BY <1>0, QueuesSame DEF Talk!Stop, Talk!turnVars
<1>4. HandsKept
  BY <1>1
<1>5. WorkShrinks
  BY <1>0, WorkSame DEF Talk!Stop, Talk!turnVars
<1> QED
  BY <1>2, <1>3, <1>4, <1>5 DEF QuietTalk, Talk!Stop, Talk!turnVars

LEMMA DisconnectQuiet ==
    ASSUME TalkSetup, TalkSound, NEW t \in Talk!Tasks, Talk!Disconnect(t)
    PROVE  QuietTalk
<1>0. TalkTyping /\ CoroutinesFit /\ FragmentsFit /\ AfterStoring
  BY TalkParts
<1>1. registered \in Talk!Streams /\ HandsKept
  <2>1. PICK step \in {"close", "finish"} : Talk!Request(t, "disconnect", step)
    BY DEF Talk!Disconnect
  <2> QED
    BY <2>1, RequestQuiet, StepNames
<1>2. SessionsShrink
  BY <1>0, SessionsSame DEF Talk!Disconnect, Talk!turnVars
<1>3. QueuesKept
  BY <1>0, QueuesSame DEF Talk!Disconnect, Talk!turnVars
<1>4. HandsKept
  BY <1>1
<1>5. WorkShrinks
  BY <1>0, WorkSame DEF Talk!Disconnect, Talk!turnVars
<1> QED
  BY <1>2, <1>3, <1>4, <1>5 DEF QuietTalk, Talk!Disconnect, Talk!turnVars

LEMMA ClosedQuiet ==
    ASSUME TalkSetup, TalkSound, NEW t \in Talk!Tasks, Talk!Closed(t)
    PROVE  QuietTalk
<1>0. TalkTyping /\ CoroutinesFit /\ FragmentsFit /\ AfterStoring
  BY TalkParts
<1>1. task[t].stream \in Talk!Streams /\ task[t].at \notin {"idle", "append"}
  <2>1. PICK step \in {"close"} : Talk!At(t, step)
    BY DEF Talk!Closed
  <2> QED
    BY <2>1, HasSession DEF Talk!At
<1>2. SessionsShrink
  BY <1>0, SessionsSame DEF Talk!Closed, Talk!turnVars
<1>3. QueuesKept
  BY <1>0, <1>1, LinkCloses DEF Talk!Closed
<1>4. HandsKept
  BY <1>0, <1>1, HandGoes, StepNames DEF Talk!Closed
<1>5. WorkShrinks
  BY <1>0, WorkSame DEF Talk!Closed, Talk!turnVars
<1> QED
  BY <1>2, <1>3, <1>4, <1>5 DEF QuietTalk, Talk!Closed, Talk!turnVars

LEMMA CloseFinalizedQuiet ==
    ASSUME TalkSetup, TalkSound, NEW t \in Talk!Tasks, Talk!CloseFinalized(t)
    PROVE  QuietTalk
<1>0. TalkTyping /\ CoroutinesFit /\ FragmentsFit /\ AfterStoring
  BY TalkParts
<1>1. task[t].stream \in Talk!Streams /\ task[t].at \notin {"idle", "append"}
  <2>1. PICK step \in {"close_finalized"} : Talk!At(t, step)
    BY DEF Talk!CloseFinalized
  <2> QED
    BY <2>1, HasSession DEF Talk!At
<1>2. SessionsShrink
  BY <1>0, SessionsSame DEF Talk!CloseFinalized, Talk!turnVars
<1>3. QueuesKept
  BY <1>0, <1>1, LinkCloses DEF Talk!CloseFinalized
<1>4. HandsKept
  BY <1>0, <1>1, HandGoes, StepNames DEF Talk!CloseFinalized
<1>5. WorkShrinks
  BY <1>0, WorkSame DEF Talk!CloseFinalized, Talk!turnVars
<1> QED
  BY <1>2, <1>3, <1>4, <1>5 DEF QuietTalk, Talk!CloseFinalized, Talk!turnVars

LEMMA FailSessionQuiet ==
    ASSUME TalkSetup, TalkSound, NEW t \in Talk!Tasks, Talk!FailSession(t)
    PROVE  QuietTalk
<1>0. TalkTyping /\ CoroutinesFit /\ FragmentsFit /\ AfterStoring
  BY TalkParts
<1>1. task[t].stream \in Talk!Streams /\ task[t].at \notin {"idle", "append"}
  <2>1. PICK step \in {"fail"} : Talk!At(t, step)
    BY DEF Talk!FailSession
  <2> QED
    BY <2>1, HasSession DEF Talk!At
<1>2. SessionsShrink
  <2>1. session' = [session EXCEPT ![task[t].stream] = Talk!Discarded(session[task[t].stream], "failed")]
    BY DEF Talk!FailSession
  <2>2. session[task[t].stream] \in Sessions
    BY <1>0, <1>1 DEF TalkTyping
  <2>3. Shrinks(session[task[t].stream], Talk!Discarded(session[task[t].stream], "failed"))
    BY <2>2, DiscardedFits, StepNames DEF Shrinks
  <2> QED
    BY <1>0, <1>1, <2>1, <2>3, SessionsSet
<1>3. QueuesKept
  BY <1>0, <1>1, LinkCloses DEF Talk!FailSession
<1>4. HandsKept
  BY <1>0, <1>1, HandGoes, StepNames DEF Talk!FailSession
<1>5. WorkShrinks
  BY <1>0, WorkRemoved DEF Talk!FailSession, Talk!turnVars
<1> QED
  BY <1>2, <1>3, <1>4, <1>5 DEF QuietTalk, Talk!FailSession, Talk!turnVars

LEMMA ListenQuiet ==
    ASSUME TalkSetup, TalkSound, Talk!Listen
    PROVE  QuietTalk
<1>0. TalkTyping /\ CoroutinesFit /\ FragmentsFit /\ AfterStoring
  BY TalkParts
<1>2. SessionsShrink
  BY <1>0, SessionsSame DEF Talk!Listen, Talk!turnVars
<1>3. QueuesKept
  BY <1>0, QueuesSame DEF Talk!Listen, Talk!turnVars
<1>4. HandsKept
  <2>1. CASE task' = task
    BY <1>0, <2>1, HandsSame
  <2>2. CASE registered # None /\ Talk!Begin(Listener, "listen", registered, "collect")
    <3>1. registered \in Talk!Streams /\ Listener \in Talk!Tasks
      BY <1>0, <2>2 DEF TalkTyping, Talk!Tasks
    <3>2. "listen" \in Talk!Ops /\ "collect" \in (Talk!Running \cup Talk!Awaits) \ {"append"}
      BY StepNames
    <3>3. task[Listener].at = "idle"
      BY DEF Talk!Listen, Talk!At
    <3> QED
      BY <1>0, <2>2, <3>1, <3>2, <3>3, HandBegins
  <2> QED
    BY <2>1, <2>2 DEF Talk!Listen
<1>5. WorkShrinks
  BY <1>0, WorkSame DEF Talk!Listen, Talk!turnVars
<1> QED
  BY <1>2, <1>3, <1>4, <1>5 DEF QuietTalk, Talk!Listen, Talk!turnVars

LEMMA ReapQuiet ==
    ASSUME TalkSetup, TalkSound, Talk!Reap
    PROVE  QuietTalk
<1>0. TalkTyping /\ CoroutinesFit /\ FragmentsFit /\ AfterStoring
  BY TalkParts
<1>2. SessionsShrink
  BY <1>0, SessionsSame DEF Talk!Reap, Talk!turnVars
<1>3. QueuesKept
  BY <1>0, QueuesSame DEF Talk!Reap, Talk!turnVars
<1>4. HandsKept
  <2>1. CASE task' = task
    BY <1>0, <2>1, HandsSame
  <2>2. ASSUME NEW step \in {"fail", "close"}, Talk!Begin(Listener, "reap", registered, step)
        PROVE  HandsKept
    <3>1. registered \in Talk!Streams /\ Listener \in Talk!Tasks
      BY <1>0, <2>2 DEF TalkTyping, Talk!Tasks, Talk!Reap
    <3> QED
      BY <1>0, <2>2, <3>1, HandBegins, StepNames DEF Talk!Reap, Talk!At
  <2> QED
    BY <2>1, <2>2 DEF Talk!Reap
<1>5. WorkShrinks
  BY <1>0, WorkSame, WorkRemoved DEF Talk!Reap
<1> QED
  BY <1>2, <1>3, <1>4, <1>5 DEF QuietTalk, Talk!Reap, Talk!turnVars

LEMMA ProviderClosesQuiet ==
    ASSUME TalkSetup, TalkSound, NEW s \in Talk!Streams, Talk!ProviderCloses(s)
    PROVE  QuietTalk
<1>0. TalkTyping /\ CoroutinesFit /\ FragmentsFit /\ AfterStoring
  BY TalkParts
<1>2. SessionsShrink
  BY <1>0, SessionsSame DEF Talk!ProviderCloses, Talk!turnVars
<1>3. QueuesKept
  BY <1>0, QueueCloses DEF Talk!ProviderCloses
<1>4. HandsKept
  BY <1>0, HandsSame DEF Talk!ProviderCloses, Talk!turnVars
<1>5. WorkShrinks
  BY <1>0, WorkSame DEF Talk!ProviderCloses, Talk!turnVars
<1> QED
  BY <1>2, <1>3, <1>4, <1>5 DEF QuietTalk, Talk!ProviderCloses, Talk!turnVars

LEMMA GraceElapsesQuiet ==
    ASSUME TalkSetup, TalkSound, NEW s \in Talk!Streams, NEW c \in Channels, Talk!GraceElapses(s, c)
    PROVE  QuietTalk
<1>0. TalkTyping /\ CoroutinesFit /\ FragmentsFit /\ AfterStoring
  BY TalkParts
<1>2. SessionsShrink
  <2> DEFINE S == session[s]
             R == [S EXCEPT !.timer = [S.timer EXCEPT ![c] = "due"]]
  <2>1. S \in Sessions /\ SessionFits(S) /\ S.timer[c] # "none"
    BY <1>0 DEF TalkTyping, FragmentsFit, Talk!GraceElapses
  <2>2. session' = [session EXCEPT ![s] = R]
    BY DEF Talk!GraceElapses
  <2> HIDE DEF S
  <2>3. /\ R \in Sessions /\ R.text = S.text /\ R.last = S.last
        /\ \A d \in Channels : R.timer[d] = IF d = c THEN "due" ELSE S.timer[d]
    BY <2>1 DEF Sessions, Timers
  <2> HIDE DEF R
  <2>4. SessionFits(R) /\ Texts(R) = Texts(S)
    BY <2>1, <2>3 DEF SessionFits, Texts
  <2>5. Shrinks(S, R)
    BY <2>3, <2>4 DEF Shrinks
  <2> QED
    BY <1>0, <2>2, <2>5, SessionsSet DEF S
<1>3. QueuesKept
  BY <1>0, QueuesSame DEF Talk!GraceElapses, Talk!turnVars
<1>4. HandsKept
  BY <1>0, HandsSame DEF Talk!GraceElapses, Talk!turnVars
<1>5. WorkShrinks
  BY <1>0, WorkSame DEF Talk!GraceElapses, Talk!turnVars
<1> QED
  BY <1>2, <1>3, <1>4, <1>5 DEF QuietTalk, Talk!GraceElapses, Talk!turnVars

LEMMA AnswerEndsQuiet ==
    ASSUME TalkSetup, TalkSound, NEW u \in answering, Talk!AnswerEnds(u)
    PROVE  QuietTalk
<1>0. TalkTyping /\ CoroutinesFit /\ FragmentsFit /\ AfterStoring
  BY TalkParts
<1>2. SessionsShrink
  BY <1>0, SessionsSame DEF Talk!AnswerEnds, Talk!turnVars
<1>3. QueuesKept
  BY <1>0, QueuesSame DEF Talk!AnswerEnds, Talk!turnVars
<1>4. HandsKept
  BY <1>0, HandsSame DEF Talk!AnswerEnds, Talk!turnVars
<1>5. WorkShrinks
  BY <1>0 DEF Talk!AnswerEnds, WorkShrinks, TalkTyping, AfterStoring
<1> QED
  BY <1>2, <1>3, <1>4, <1>5 DEF QuietTalk, Talk!AnswerEnds, Talk!turnVars

LEMMA SaveTurnQuiet ==
    ASSUME TalkSetup, TalkSound, NEW p \in saving, Talk!SaveTurn(p)
    PROVE  QuietTalk
<1>0. TalkTyping /\ CoroutinesFit /\ FragmentsFit /\ AfterStoring
  BY TalkParts
<1>2. SessionsShrink
  BY <1>0, SessionsSame DEF Talk!SaveTurn, Talk!turnVars
<1>3. QueuesKept
  BY <1>0, QueuesSame DEF Talk!SaveTurn, Talk!turnVars
<1>4. HandsKept
  BY <1>0, HandsSame DEF Talk!SaveTurn, Talk!turnVars
<1>5. WorkShrinks
  BY <1>0 DEF Talk!SaveTurn, WorkShrinks, TalkTyping, AfterStoring
<1> QED
  BY <1>2, <1>3, <1>4, <1>5 DEF QuietTalk, Talk!SaveTurn, Talk!turnVars

LEMMA SaveFailsQuiet ==
    ASSUME TalkSetup, TalkSound, NEW p \in saving, Talk!SaveFails(p)
    PROVE  QuietTalk
<1>0. TalkTyping /\ CoroutinesFit /\ FragmentsFit /\ AfterStoring
  BY TalkParts
<1>2. SessionsShrink
  BY <1>0, SessionsSame DEF Talk!SaveFails, Talk!turnVars
<1>3. QueuesKept
  BY <1>0, QueuesSame DEF Talk!SaveFails, Talk!turnVars
<1>4. HandsKept
  BY <1>0, HandsSame DEF Talk!SaveFails, Talk!turnVars
<1>5. WorkShrinks
  <2> DEFINE again == [p EXCEPT !.left = @ - 1]
  <2>1. p \in Savings
    BY <1>0 DEF TalkTyping
  <2>2. p.left \in 1 .. SaveAttempts /\ (p.left > 1 => p.left - 1 \in 1 .. SaveAttempts)
    BY <2>1 DEF Savings, TalkSetup
  <2>3. p.left > 1 => again \in Savings
    BY <2>1, <2>2 DEF Savings
  <2>4. again.turn = p.turn
    BY <2>1 DEF Savings
  <2>5. saving' = (saving \ {p}) \cup (IF p.left > 1 THEN {again} ELSE {})
    BY DEF Talk!SaveFails
  <2> HIDE DEF again
  <2>6. saving' \subseteq Savings /\ \A r \in saving' : \E o \in saving : r.turn = o.turn
    BY <1>0, <2>3, <2>4, <2>5 DEF TalkTyping
  <2>7. deferred' \subseteq {registered'} /\ registered' \in Talk!Streams \cup {None}
    BY <1>0 DEF Talk!SaveFails, AfterStoring, TalkTyping
  <2> QED
    BY <2>6, <2>7 DEF Talk!SaveFails, WorkShrinks
<1> QED
  BY <1>2, <1>3, <1>4, <1>5 DEF QuietTalk, Talk!SaveFails, Talk!turnVars

-----------------------------------------------------------------------------
(* A provider event.                                                        *)

LEMMA ProduceKeeps ==
    ASSUME TalkSetup, TalkSound, NEW s \in Talk!Streams, Talk!Produce(s)
    PROVE  TalkSound'
<1>0. TalkTyping /\ CoroutinesFit /\ FragmentsFit /\ PlacesFit /\ AfterStoring
  BY TalkParts
<1>1. /\ heard \in Nat /\ heard < MaxEvents /\ heard' = heard + 1 /\ heard' \in 0 .. MaxEvents
      /\ 1 .. heard \subseteq 1 .. heard' /\ 0 .. heard \subseteq 0 .. heard'
  BY <1>0 DEF TalkTyping, TalkSetup, Talk!Produce
<1>2. UNCHANGED <<registered, session, task, deferred, recent, answering, saving, durable, closed,
                  stored, dropped>>
  BY DEF Talk!Produce, Talk!turnVars
<1>3. PICK e \in Talk!Events : /\ e.n = heard + 1
                               /\ queue' = [queue EXCEPT ![s] = Append(queue[s], e)]
  <2>1. PICK k \in Talk!ChannelKinds \cup {"finalized", "error"}, c \in Channels :
          queue' = [queue EXCEPT ![s] = Append(queue[s], [kind |-> k, channel |-> c, n |-> heard + 1])]
    BY <1>1 DEF Talk!Produce
  <2> DEFINE e == [kind |-> k, channel |-> c, n |-> heard + 1]
  <2>2. e \in Talk!Events /\ e.n = heard + 1
    BY <1>1 DEF Talk!Events, Talk!StreamKinds
  <2> HIDE DEF e
  <2>3. queue' = [queue EXCEPT ![s] = Append(queue[s], e)]
    BY <2>1 DEF e
  <2> QED
    BY <2>2, <2>3
<1>4. /\ queue' \in [Talk!Streams -> Seq(Talk!Events)]
      /\ \A r \in Talk!Streams : queue'[r] = IF r = s THEN Append(queue[s], e) ELSE queue[r]
  <2>1. queue[s] \in Seq(Talk!Events) /\ Append(queue[s], e) \in Seq(Talk!Events)
    BY <1>0 DEF TalkTyping
  <2> QED
    BY <1>0, <1>3, <2>1 DEF TalkTyping
<1>5. \A r \in Talk!Streams : SessionFits(session[r]) /\ Texts(session[r]) \subseteq 1 .. heard
  BY <1>0 DEF FragmentsFit
<1>6. ClosedFits
  BY <1>0 DEF FragmentsFit
<1>7. ASSUME NEW r \in Talk!Streams
      PROVE  EventsFresh(r, queue[r])'
  <2> DEFINE new == queue'[r]
  <2>1. queue[r] \in Seq(Talk!Events)
    BY <1>0 DEF TalkTyping
  <2>2. EventsFresh(r, queue[r])
    BY <1>0 DEF FragmentsFit
  <2>3. new = queue[r] \/ new = Append(queue[r], e)
    BY <1>4
  <2> HIDE DEF new
  <2>4. \A i \in DOMAIN new : \/ i \in DOMAIN queue[r] /\ new[i] = queue[r][i]
                              \/ /\ i = Len(queue[r]) + 1 /\ new[i] = e
                                 /\ i \notin DOMAIN queue[r]
    BY <2>1, <2>3
  <2>5. \A i \in DOMAIN queue[r] : queue[r][i].n \in 0 .. heard
    BY <2>2 DEF EventsFresh
  <2>6. \A i \in DOMAIN new : new[i].n \in 0 .. heard'
    BY <1>1, <1>3, <2>4, <2>5
  <2>7. e.n \notin Texts(session[r]) /\ e.n > 0 /\ e.n \notin 0 .. heard
    BY <1>1, <1>3, <1>5
  <2>8. \A j \in DOMAIN closed : e.n \notin closed[j].text
    BY <1>1, <1>3, <1>6 DEF ClosedFits
  <2>9. \A i \in DOMAIN new : new[i].kind = "final" =>
          /\ new[i].n > 0 /\ new[i].n \notin Texts(session[r])
          /\ \A j \in DOMAIN closed : closed[j].stream = r => new[i].n \notin closed[j].text
    BY <2>2, <2>4, <2>7, <2>8 DEF EventsFresh
  <2>10. \A i, j \in DOMAIN new :
           i # j /\ new[i].kind = "final" /\ new[j].kind = "final" => new[i].n # new[j].n
    <3> SUFFICES ASSUME NEW i \in DOMAIN new, NEW j \in DOMAIN new, i # j,
                        new[i].kind = "final", new[j].kind = "final"
                 PROVE  new[i].n # new[j].n
      OBVIOUS
    <3>1. CASE /\ i \in DOMAIN queue[r] /\ new[i] = queue[r][i]
               /\ j \in DOMAIN queue[r] /\ new[j] = queue[r][j]
      BY <2>2, <3>1 DEF EventsFresh
    <3>2. CASE i \in DOMAIN queue[r] /\ new[i] = queue[r][i] /\ new[j] = e
      BY <2>5, <2>7, <3>2
    <3>3. CASE j \in DOMAIN queue[r] /\ new[j] = queue[r][j] /\ new[i] = e
      BY <2>5, <2>7, <3>3
    <3> QED
      BY <2>4, <3>1, <3>2, <3>3
  <2> QED
    BY <1>2, <2>6, <2>9, <2>10 DEF EventsFresh, new
<1>8. ClosedFits'
  <2>1. \A i \in DOMAIN closed : closed[i].text # {} /\ closed[i].text \subseteq 1 .. heard'
    BY <1>1, <1>6 DEF ClosedFits
  <2> QED
    BY <1>2, <1>6, <2>1 DEF ClosedFits
<1>9. FragmentsFit'
  <2>1. \A r \in Talk!Streams : (SessionFits(session[r]) /\ Texts(session[r]) \subseteq 1 .. heard)'
    BY <1>1, <1>2, <1>5
  <2> QED
    BY <1>7, <1>8, <2>1 DEF FragmentsFit
<1>10. TalkTyping'
  BY <1>0, <1>1, <1>2, <1>4 DEF TalkTyping
<1>11. CoroutinesFit' /\ PlacesFit' /\ AfterStoring'
  BY <1>0, <1>2 DEF CoroutinesFit, PlacesFit, AfterStoring, Held, Talk!Distinct
<1> QED
  BY <1>9, <1>10, <1>11 DEF TalkSound

-----------------------------------------------------------------------------
(* Turns are closed.                                                        *)

\* The fragments of the session, of the closed turns and of the queue, when
\* what became of one session is written back.
LEMMA ResultKeepsFragments ==
    ASSUME TalkSetup, TalkTyping, FragmentsFit, NEW s \in Talk!Streams, NEW r, NEW V, ResultFits(s, r, V),
           V \subseteq 1 .. heard,
           \A j \in DOMAIN closed : closed[j].stream = s => closed[j].text \cap V = {},
           queue' = queue \/ queue' = [queue EXCEPT ![s] = <<>>],
           \A i \in DOMAIN queue'[s] : queue'[s][i].kind = "final" => queue'[s][i].n \notin V,
           session' = [session EXCEPT ![s] = r.sess], closed' = closed \o r.closed,
           heard' = heard
    PROVE  /\ session' \in [Talk!Streams -> Sessions] /\ queue' \in [Talk!Streams -> Seq(Talk!Events)]
           /\ closed' \in Seq(Talk!Turns) /\ FragmentsFit'
           /\ Talk!ToSet(closed') = Talk!ToSet(closed) \cup Talk!ToSet(r.closed)
           /\ Talk!Distinct(r.closed) /\ Talk!ToSet(r.closed) \cap Talk!ToSet(closed) = {}
<1> DEFINE new == r.closed
           all == closed'
<1>1. /\ r.sess \in Sessions /\ SessionFits(r.sess) /\ Texts(r.sess) \subseteq V
      /\ new \in Seq(Talk!Turns)
      /\ \A i, j \in DOMAIN new : i # j => new[i].text \cap new[j].text = {}
      /\ \A i \in DOMAIN new :
           /\ new[i].stream = s /\ new[i].text # {} /\ new[i].text \subseteq V
           /\ new[i].text \cap Texts(r.sess) = {}
  BY DEF ResultFits, TurnsApart
<1>2. closed \in Seq(Talk!Turns) /\ closed' = closed \o new
  BY DEF TalkTyping
<1> HIDE DEF new
<1>3. /\ closed' \in Seq(Talk!Turns)
      /\ \A i \in DOMAIN closed' :
           \/ i \in DOMAIN closed /\ closed'[i] = closed[i]
           \/ /\ i - Len(closed) \in DOMAIN new /\ closed'[i] = new[i - Len(closed)]
              /\ i \in Nat /\ i > Len(closed)
      /\ \A i \in DOMAIN closed : i \in DOMAIN closed' /\ closed'[i] = closed[i]
      /\ \A i \in DOMAIN new : /\ i + Len(closed) \in DOMAIN closed'
                               /\ closed'[i + Len(closed)] = new[i]
      /\ Len(closed) \in Nat
  BY <1>1, <1>2
<1> HIDE DEF all
<1>4. /\ session' \in [Talk!Streams -> Sessions]
      /\ \A q \in Talk!Streams : session'[q] = IF q = s THEN r.sess ELSE session[q]
  BY <1>1 DEF TalkTyping
<1>5. /\ queue' \in [Talk!Streams -> Seq(Talk!Events)]
      /\ \A q \in Talk!Streams : queue'[q] = queue[q] \/ (q = s /\ queue'[q] = <<>>)
  <2>1. <<>> \in Seq(Talk!Events)
    OBVIOUS
  <2> QED
    BY <2>1 DEF TalkTyping
<1>6. ClosedFits /\ \A q \in Talk!Streams : /\ SessionFits(session[q]) /\ EventsFresh(q, queue[q])
                                            /\ Texts(session[q]) \subseteq 1 .. heard
  BY DEF FragmentsFit
<1>7. Talk!ToSet(closed') = Talk!ToSet(closed) \cup Talk!ToSet(new)
  <2>1. \A x : x \in Talk!ToSet(closed') => x \in Talk!ToSet(closed) \cup Talk!ToSet(new)
    BY <1>3 DEF Talk!ToSet
  <2>2. \A x : x \in Talk!ToSet(closed) => x \in Talk!ToSet(closed')
    BY <1>3 DEF Talk!ToSet
  <2>3. ASSUME NEW i \in DOMAIN new PROVE new[i] \in Talk!ToSet(closed')
    <3>1. i + Len(closed) \in DOMAIN closed' /\ closed'[i + Len(closed)] = new[i]
      BY <1>3
    <3> QED
      BY <3>1 DEF Talk!ToSet
  <2>4. \A x : x \in Talk!ToSet(new) => x \in Talk!ToSet(closed')
    BY <2>3 DEF Talk!ToSet
  <2> QED
    BY <2>1, <2>2, <2>4
<1>8. Talk!Distinct(new) /\ Talk!ToSet(new) \cap Talk!ToSet(closed) = {}
  <2>1. Talk!Distinct(new)
    BY <1>1 DEF Talk!Distinct
  <2>2. \A i \in DOMAIN new, j \in DOMAIN closed : new[i] # closed[j]
    BY <1>1
  <2> QED
    BY <2>1, <2>2 DEF Talk!ToSet
<1>9. \A q \in Talk!Streams : /\ SessionFits(session'[q]) /\ Texts(session'[q]) \subseteq 1 .. heard
  BY <1>1, <1>4, <1>6
<1>10. ASSUME NEW q \in Talk!Streams
       PROVE  EventsFresh(q, queue[q])'
  <2>1. CASE q = s
    <3> DEFINE left == queue'[s]
    <3>1. \/ left = <<>>
          \/ EventsFresh(s, left)
      BY <1>5, <1>6
    <3>2. \A i \in DOMAIN left : left[i].kind = "final" => left[i].n \notin V
      OBVIOUS
    <3> HIDE DEF left
    <3>3. /\ \A i \in DOMAIN left : left[i].n \in 0 .. heard
          /\ \A i \in DOMAIN left : left[i].kind = "final" =>
               /\ left[i].n > 0
               /\ \A j \in DOMAIN closed : closed[j].stream = s => left[i].n \notin closed[j].text
          /\ \A i, j \in DOMAIN left :
               i # j /\ left[i].kind = "final" /\ left[j].kind = "final" => left[i].n # left[j].n
      BY <3>1 DEF EventsFresh
    <3>4. \A i \in DOMAIN left : left[i].kind = "final" =>
            /\ left[i].n \notin Texts(session'[s])
            /\ \A j \in DOMAIN closed' : closed'[j].stream = s => left[i].n \notin closed'[j].text
      BY <1>1, <1>3, <1>4, <3>2, <3>3
    <3>5. EventsFresh(s, queue[s])'
      BY <3>3, <3>4 DEF EventsFresh, left
    <3> QED
      BY <2>1, <3>5
  <2>2. CASE q # s
    <3>1. queue'[q] = queue[q] /\ session'[q] = session[q] /\ EventsFresh(q, queue[q])
      BY <1>4, <1>5, <1>6, <2>2
    <3>2. \A j \in DOMAIN closed' : closed'[j].stream = q =>
            j \in DOMAIN closed /\ closed'[j] = closed[j]
      BY <1>1, <1>3, <2>2
    <3> QED
      BY <3>1, <3>2 DEF EventsFresh
  <2> QED
    BY <2>1, <2>2
<1>11. ClosedFits'
  <2>4. \A i \in DOMAIN closed : closed[i].text # {} /\ closed[i].text \subseteq 1 .. heard
    BY <1>6 DEF ClosedFits
  <2>5. \A i \in DOMAIN new : new[i].text # {} /\ new[i].text \subseteq 1 .. heard
    BY <1>1
  <2>1. \A i \in DOMAIN closed' : closed'[i].text # {} /\ closed'[i].text \subseteq 1 .. heard
    BY <1>3, <2>4, <2>5
  <2>2. ASSUME NEW i \in DOMAIN closed', NEW j \in DOMAIN closed', i # j,
               closed'[i].stream = closed'[j].stream
        PROVE  closed'[i].text \cap closed'[j].text = {}
    <3>1. CASE /\ i \in DOMAIN closed /\ closed'[i] = closed[i]
               /\ j \in DOMAIN closed /\ closed'[j] = closed[j]
      BY <1>6, <2>2, <3>1 DEF ClosedFits
    <3>2. CASE /\ i - Len(closed) \in DOMAIN new /\ closed'[i] = new[i - Len(closed)]
               /\ i \in Nat /\ j \in Nat
               /\ j - Len(closed) \in DOMAIN new /\ closed'[j] = new[j - Len(closed)]
      <4>1. i - Len(closed) # j - Len(closed)
        BY <1>3, <2>2, <3>2
      <4> QED
        BY <1>1, <3>2, <4>1
    <3>3. CASE /\ i \in DOMAIN closed /\ closed'[i] = closed[i]
               /\ j - Len(closed) \in DOMAIN new /\ closed'[j] = new[j - Len(closed)]
      <4>1. closed[i].stream = s /\ closed[i].text \cap V = {}
        BY <1>1, <2>2, <3>3
      <4> QED
        BY <1>1, <3>3, <4>1
    <3>4. CASE /\ j \in DOMAIN closed /\ closed'[j] = closed[j]
               /\ i - Len(closed) \in DOMAIN new /\ closed'[i] = new[i - Len(closed)]
      <4>1. closed[j].stream = s /\ closed[j].text \cap V = {}
        BY <1>1, <2>2, <3>4
      <4> QED
        BY <1>1, <3>4, <4>1
    <3> QED
      BY <1>3, <3>1, <3>2, <3>3, <3>4
  <2>3. ASSUME NEW i \in DOMAIN closed'
        PROVE  closed'[i].text \cap Texts(session'[closed'[i].stream]) = {}
    <3>1. CASE i \in DOMAIN closed /\ closed'[i] = closed[i]
      <4>1. closed[i].stream \in Talk!Streams
        <5>1. closed[i] \in Talk!Turns
          BY <1>2, <3>1
        <5> QED
          BY <5>1 DEF Talk!Turns
      <4>2. CASE closed[i].stream = s
        <5>1. closed[i].text \cap V = {}
          BY <3>1, <4>2
        <5> QED
          BY <1>1, <1>4, <3>1, <4>2, <5>1
      <4>3. CASE closed[i].stream # s
        BY <1>4, <1>6, <3>1, <4>1, <4>3 DEF ClosedFits
      <4> QED
        BY <4>2, <4>3
    <3>2. CASE i - Len(closed) \in DOMAIN new /\ closed'[i] = new[i - Len(closed)]
      BY <1>1, <1>4, <3>2
    <3> QED
      BY <1>3, <3>1, <3>2
  <2> QED
    BY <2>1, <2>2, <2>3 DEF ClosedFits
<1>12. FragmentsFit'
  BY <1>9, <1>10, <1>11 DEF FragmentsFit
<1> QED
  BY <1>3, <1>4, <1>5, <1>7, <1>8, <1>12 DEF new

-----------------------------------------------------------------------------
(* Where the closed turns are.                                              *)

LEMMA FirstAndRest ==
    ASSUME NEW seq \in Seq(Talk!Turns), seq # <<>>, Talk!Distinct(seq)
    PROVE  /\ Head(seq) \in Talk!Turns /\ Tail(seq) \in Seq(Talk!Turns) /\ Talk!Distinct(Tail(seq))
           /\ Talk!ToSet(seq) = {Head(seq)} \cup Talk!ToSet(Tail(seq)) /\ Head(seq) \notin Talk!ToSet(Tail(seq))
           /\ Tail(seq) # <<>> <=> Len(seq) > 1
<1> DEFINE rest == Tail(seq)
<1>1. /\ Head(seq) = seq[1] /\ 1 \in DOMAIN seq /\ seq[1] \in Talk!Turns /\ rest \in Seq(Talk!Turns)
      /\ \A i \in DOMAIN rest : i + 1 \in DOMAIN seq /\ rest[i] = seq[i + 1] /\ i + 1 # 1
      /\ \A i \in DOMAIN seq : i = 1 \/ (i - 1 \in DOMAIN rest /\ rest[i - 1] = seq[i])
      /\ rest # <<>> <=> Len(seq) > 1
      /\ \A i \in DOMAIN rest : i \in Nat
  OBVIOUS
<1> HIDE DEF rest
<1>2. Talk!Distinct(rest)
  <2> SUFFICES ASSUME NEW i \in DOMAIN rest, NEW j \in DOMAIN rest, i # j PROVE rest[i] # rest[j]
    BY DEF Talk!Distinct
  <2>1. i + 1 # j + 1
    BY <1>1
  <2> QED
    BY <1>1, <2>1 DEF Talk!Distinct
<1>3. \A i \in DOMAIN rest : rest[i] # seq[1]
  BY <1>1 DEF Talk!Distinct
<1>4. seq[1] \notin Talk!ToSet(rest)
  BY <1>3 DEF Talk!ToSet
<1>5. \A x : x \in Talk!ToSet(seq) => x = seq[1] \/ x \in Talk!ToSet(rest)
  <2>1. ASSUME NEW i \in DOMAIN seq PROVE seq[i] = seq[1] \/ seq[i] \in Talk!ToSet(rest)
    <3>1. CASE i - 1 \in DOMAIN rest /\ rest[i - 1] = seq[i]
      BY <3>1 DEF Talk!ToSet
    <3> QED
      BY <1>1, <3>1
  <2> QED
    BY <2>1 DEF Talk!ToSet
<1>6. \A x : x \in Talk!ToSet(rest) => x \in Talk!ToSet(seq)
  BY <1>1 DEF Talk!ToSet
<1>7. seq[1] \in Talk!ToSet(seq)
  BY <1>1 DEF Talk!ToSet
<1>8. Talk!ToSet(seq) = {seq[1]} \cup Talk!ToSet(rest)
  BY <1>5, <1>6, <1>7
<1> QED
  BY <1>1, <1>2, <1>4, <1>8 DEF rest

LEMMA OneTurnMore ==
    ASSUME NEW seq \in Seq(Talk!Turns), NEW u \in Talk!Turns
    PROVE  /\ Append(seq, u) \in Seq(Talk!Turns) /\ Talk!ToSet(Append(seq, u)) = Talk!ToSet(seq) \cup {u}
           /\ Talk!Distinct(seq) /\ u \notin Talk!ToSet(seq) => Talk!Distinct(Append(seq, u))
<1> DEFINE all == Append(seq, u)
<1>1. /\ all \in Seq(Talk!Turns)
      /\ \A i \in DOMAIN all : \/ i \in DOMAIN seq /\ all[i] = seq[i]
                               \/ i = Len(seq) + 1 /\ all[i] = u
      /\ \A i \in DOMAIN seq : i \in DOMAIN all /\ all[i] = seq[i]
      /\ Len(seq) + 1 \in DOMAIN all /\ all[Len(seq) + 1] = u
  OBVIOUS
<1> HIDE DEF all
<1>2. \A x : x \in Talk!ToSet(all) => x \in Talk!ToSet(seq) \/ x = u
  BY <1>1 DEF Talk!ToSet
<1>3. \A x : x \in Talk!ToSet(seq) => x \in Talk!ToSet(all)
  BY <1>1 DEF Talk!ToSet
<1>4. u \in Talk!ToSet(all)
  BY <1>1 DEF Talk!ToSet
<1>5. Talk!ToSet(all) = Talk!ToSet(seq) \cup {u}
  BY <1>2, <1>3, <1>4
<1>6. ASSUME Talk!Distinct(seq), u \notin Talk!ToSet(seq) PROVE Talk!Distinct(all)
  <2>1. \A i \in DOMAIN seq : seq[i] # u
    BY <1>6 DEF Talk!ToSet
  <2> QED
    BY <1>1, <1>6, <2>1 DEF Talk!Distinct
<1> QED
  BY <1>1, <1>5, <1>6 DEF all

\* Every turn in some hand is a closed one.
LEMMA HandsHoldClosed ==
    ASSUME PlacesFit, NEW t \in Talk!Tasks
    PROVE  Talk!ToSet(task[t].todo) \subseteq Talk!ToSet(closed)
<1>1. Talk!ToSet(task[t].todo) \subseteq Held
  BY DEF Held
<1> QED
  BY <1>1 DEF PlacesFit

LEMMA TakenPlaces ==
    ASSUME PlacesFit, NEW t \in Talk!Tasks, NEW new, task[t].todo = <<>>,
           \A o \in Talk!Tasks : task'[o].todo = IF o = t THEN new ELSE task[o].todo,
           Talk!ToSet(closed') = Talk!ToSet(closed) \cup Talk!ToSet(new), Talk!Distinct(new),
           Talk!ToSet(new) \cap Talk!ToSet(closed) = {}, UNCHANGED <<stored, dropped>>
    PROVE  PlacesFit'
<1>1. Talk!ToSet(task[t].todo) = {}
  BY DEF Talk!ToSet
<1>2. /\ Talk!ToSet(closed) = Talk!ToSet(stored) \cup dropped \cup Held
      /\ Talk!Distinct(stored) /\ Talk!ToSet(stored) \cap dropped = {}
      /\ \A o \in Talk!Tasks :
           /\ Talk!Distinct(task[o].todo)
           /\ Talk!ToSet(task[o].todo) \cap (Talk!ToSet(stored) \cup dropped) = {}
           /\ \A u \in Talk!Tasks : u # o => Talk!ToSet(task[u].todo) \cap Talk!ToSet(task[o].todo) = {}
  BY DEF PlacesFit
<1>3. Held' = Held \cup Talk!ToSet(new)
  <2>1. \A x : x \in Held' => x \in Held \/ x \in Talk!ToSet(new)
    BY DEF Held
  <2>2. \A x : x \in Talk!ToSet(new) => x \in Held'
    BY DEF Held
  <2>3. \A x : x \in Held => x \in Held'
    BY <1>1 DEF Held
  <2> QED
    BY <2>1, <2>2, <2>3
<1>4. Talk!ToSet(closed') = Talk!ToSet(stored) \cup dropped \cup Held'
  BY <1>2, <1>3
<1>5. \A o \in Talk!Tasks : Talk!ToSet(task[o].todo) \subseteq Talk!ToSet(closed)
  BY HandsHoldClosed
<1>6. ASSUME NEW o \in Talk!Tasks
      PROVE  /\ Talk!Distinct(task'[o].todo)
             /\ Talk!ToSet(task'[o].todo) \cap (Talk!ToSet(stored) \cup dropped) = {}
             /\ \A u \in Talk!Tasks : u # o => Talk!ToSet(task'[u].todo) \cap Talk!ToSet(task'[o].todo) = {}
  BY <1>2, <1>5
<1> QED
  BY <1>2, <1>4, <1>6 DEF PlacesFit

\* Some turns leave the hands of t for Redis or are given up: those it keeps
\* and those that go are the ones it had.
LEMMA LeftPlaces ==
    ASSUME PlacesFit, NEW t \in Talk!Tasks, NEW rest, NEW gone,
           Talk!Distinct(rest), Talk!ToSet(task[t].todo) = gone \cup Talk!ToSet(rest), gone \cap Talk!ToSet(rest) = {},
           \A o \in Talk!Tasks : task'[o].todo = IF o = t THEN rest ELSE task[o].todo,
           closed' = closed, Talk!Distinct(stored'),
           \/ Talk!ToSet(stored') = Talk!ToSet(stored) \cup gone /\ dropped' = dropped
           \/ stored' = stored /\ dropped' = dropped \cup gone
    PROVE  PlacesFit'
<1>1. /\ Talk!ToSet(closed) = Talk!ToSet(stored) \cup dropped \cup Held
      /\ Talk!ToSet(stored) \cap dropped = {}
      /\ \A o \in Talk!Tasks :
           /\ Talk!Distinct(task[o].todo)
           /\ Talk!ToSet(task[o].todo) \cap (Talk!ToSet(stored) \cup dropped) = {}
           /\ \A u \in Talk!Tasks : u # o => Talk!ToSet(task[u].todo) \cap Talk!ToSet(task[o].todo) = {}
  BY DEF PlacesFit
<1>2. Held = Held' \cup gone
  <2>1. \A x : x \in Held => x \in Held' \/ x \in gone
    BY DEF Held
  <2>2. \A x : x \in gone => x \in Held
    BY DEF Held
  <2>3. \A x : x \in Held' => x \in Held
    BY DEF Held
  <2> QED
    BY <2>1, <2>2, <2>3
<1>3. Talk!ToSet(stored') \cup dropped' = Talk!ToSet(stored) \cup dropped \cup gone
  OBVIOUS
<1>4. Talk!ToSet(closed) = Talk!ToSet(stored') \cup dropped' \cup Held'
  BY <1>1, <1>2, <1>3
<1>5. gone \cap (Talk!ToSet(stored) \cup dropped) = {}
  BY <1>1
<1>6. Talk!ToSet(stored') \cap dropped' = {}
  BY <1>1, <1>5
<1>7. \A o \in Talk!Tasks : /\ Talk!ToSet(task'[o].todo) \subseteq Talk!ToSet(task[o].todo)
                            /\ Talk!Distinct(task'[o].todo)
                            /\ Talk!ToSet(task'[o].todo) \cap gone = {}
  <2> SUFFICES ASSUME NEW o \in Talk!Tasks
               PROVE  /\ Talk!ToSet(task'[o].todo) \subseteq Talk!ToSet(task[o].todo)
                      /\ Talk!Distinct(task'[o].todo)
                      /\ Talk!ToSet(task'[o].todo) \cap gone = {}
    OBVIOUS
  <2>1. CASE o = t
    BY <2>1
  <2>2. CASE o # t
    <3>1. task'[o].todo = task[o].todo
      BY <2>2
    <3>2. Talk!ToSet(task[o].todo) \cap Talk!ToSet(task[t].todo) = {}
      BY <1>1, <2>2
    <3> QED
      BY <1>1, <3>1, <3>2
  <2> QED
    BY <2>1, <2>2
<1>8. ASSUME NEW o \in Talk!Tasks
      PROVE  /\ Talk!ToSet(task'[o].todo) \cap (Talk!ToSet(stored') \cup dropped') = {}
             /\ \A u \in Talk!Tasks : u # o => Talk!ToSet(task'[u].todo) \cap Talk!ToSet(task'[o].todo) = {}
  <2>1. Talk!ToSet(task'[o].todo) \cap (Talk!ToSet(stored) \cup dropped) = {}
    BY <1>1, <1>7
  <2>2. Talk!ToSet(task'[o].todo) \cap (Talk!ToSet(stored') \cup dropped') = {}
    BY <1>3, <1>7, <2>1
  <2>3. \A u \in Talk!Tasks : u # o => Talk!ToSet(task'[u].todo) \cap Talk!ToSet(task'[o].todo) = {}
    BY <1>1, <1>7
  <2> QED
    BY <2>2, <2>3
<1> QED
  BY <1>4, <1>6, <1>7, <1>8 DEF PlacesFit

-----------------------------------------------------------------------------
(* The collectors.                                                          *)

ReadyFor(s, r, V) ==
    /\ ResultFits(s, r, V) /\ V \subseteq 1 .. heard
    /\ \A j \in DOMAIN closed : closed[j].stream = s => closed[j].text \cap V = {}

LEMMA DueReady ==
    ASSUME TalkSetup, TalkSound, NEW s \in Talk!Streams
    PROVE  /\ ReadyFor(s, Talk!DueResult(s), Texts(session[s]))
           /\ \A i \in DOMAIN queue[s] :
                queue[s][i].kind = "final" => queue[s][i].n \notin Texts(session[s])
<1>0. TalkTyping /\ FragmentsFit
  BY TalkParts
<1>1. ResultFits(s, Talk!DueResult(s), Texts(session[s]))
  BY <1>0, DueResultFits DEF TalkTyping, FragmentsFit
<1>2. \A j \in DOMAIN closed : closed[j].stream = s => closed[j].text \cap Texts(session[s]) = {}
  BY <1>0 DEF FragmentsFit, ClosedFits
<1>3. Texts(session[s]) \subseteq 1 .. heard
  BY <1>0 DEF FragmentsFit
<1>4. \A i \in DOMAIN queue[s] :
        queue[s][i].kind = "final" => queue[s][i].n \notin Texts(session[s])
  BY <1>0 DEF FragmentsFit, EventsFresh
<1> QED
  BY <1>1, <1>2, <1>3, <1>4 DEF ReadyFor

LEMMA ConsumedReady ==
    ASSUME TalkSetup, TalkSound, NEW s \in Talk!Streams, NEW events,
           events = queue[s] \/ events = <<Talk!CloseEvent>>
    PROVE  \E V : ReadyFor(s, Talk!Consumed(s, events), V)
<1> DEFINE n == Len(events)
           V == Texts(session[s]) \cup Finals(events, n)
<1>0. /\ TalkTyping /\ FragmentsFit /\ heard \in Nat
  BY TalkParts DEF TalkTyping, TalkSetup
<1>1. events \in Seq(Talk!Events)
  <2>1. <<Talk!CloseEvent>> \in Seq(Talk!Events)
    BY CloseEventIs
  <2> QED
    BY <1>0, <2>1 DEF TalkTyping
<1>2. EventsFresh(s, queue[s])
  BY <1>0 DEF FragmentsFit
<1>3. Talk!CloseEvent.kind = "close"
  BY DEF Talk!CloseEvent
<1>5. /\ \A i \in DOMAIN events : events[i].kind = "final" =>
           /\ events[i].n \in 0 .. heard /\ events[i].n > 0 /\ events[i].n \notin Texts(session[s])
           /\ \A j \in DOMAIN closed : closed[j].stream = s => events[i].n \notin closed[j].text
      /\ \A i, j \in DOMAIN events :
           i # j /\ events[i].kind = "final" /\ events[j].kind = "final"
           => events[i].n # events[j].n
  <2>1. CASE events = queue[s]
    BY <1>2, <2>1 DEF EventsFresh
  <2>2. CASE events = <<Talk!CloseEvent>>
    <3>1. \A i \in DOMAIN events : events[i].kind # "final"
      BY <1>3, <2>2
    <3> QED
      BY <3>1
  <2> QED
    BY <2>1, <2>2
<1>6. FreshFinals(s, events)
  BY <1>5 DEF FreshFinals
<1>7. session[s] \in Sessions /\ SessionFits(session[s]) /\ Texts(session[s]) \subseteq 1 .. heard
  BY <1>0 DEF TalkTyping, FragmentsFit
<1>8. ResultFits(s, Talk!Consumed(s, events), V)
  BY <1>1, <1>6, <1>7, ConsumedFits
<1>9. DOMAIN events = 1 .. n
  BY <1>1
<1>10. Finals(events, n) \subseteq 1 .. heard
  <2> SUFFICES ASSUME NEW i \in 1 .. n, events[i].kind = "final" PROVE events[i].n \in 1 .. heard
    BY DEF Finals
  <2> QED
    BY <1>0, <1>5, <1>9
<1>11. \A j \in DOMAIN closed : closed[j].stream = s => closed[j].text \cap Finals(events, n) = {}
  <2> SUFFICES ASSUME NEW j \in DOMAIN closed, closed[j].stream = s,
                      NEW i \in 1 .. n, events[i].kind = "final"
               PROVE  events[i].n \notin closed[j].text
    BY DEF Finals
  <2> QED
    BY <1>5, <1>9
<1>12. \A j \in DOMAIN closed : closed[j].stream = s => closed[j].text \cap Texts(session[s]) = {}
  BY <1>0 DEF FragmentsFit, ClosedFits
<1> HIDE DEF n
<1>13. ReadyFor(s, Talk!Consumed(s, events), V)
  BY <1>7, <1>8, <1>10, <1>11, <1>12 DEF ReadyFor
<1> QED
  BY <1>13

\* The hand of t takes some turns, or none.
LEMMA HandTakes ==
    ASSUME TalkTyping, CoroutinesFit, NEW t \in Talk!Tasks, NEW c \in Coroutines, task' = [task EXCEPT ![t] = c],
           c.stream \in Talk!Streams, c.todo # <<>> <=> c.at = "append"
    PROVE  /\ task' \in [Talk!Tasks -> Coroutines] /\ CoroutinesFit'
           /\ \A o \in Talk!Tasks : task'[o].todo = IF o = t THEN c.todo ELSE task[o].todo
<1>1. task' \in [Talk!Tasks -> Coroutines] /\ \A o \in Talk!Tasks : task'[o] = IF o = t THEN c ELSE task[o]
  BY DEF TalkTyping
<1>2. CoroutinesFit'
  BY <1>1 DEF CoroutinesFit
<1> QED
  BY <1>1, <1>2

LEMMA ApplyKeeps ==
    ASSUME TalkSetup, TalkSound, NEW t \in Talk!Tasks, task[t].at \notin {"idle", "append"},
           NEW r, NEW V, NEW events, ReadyFor(task[t].stream, r, V), Talk!Apply(t, r, events),
           queue' = queue \/ queue' = [queue EXCEPT ![task[t].stream] = <<>>],
           \A i \in DOMAIN queue'[task[t].stream] :
                queue'[task[t].stream][i].kind = "final" => queue'[task[t].stream][i].n \notin V,
           deferred' = deferred,
           UNCHANGED <<registered, answering, saving, durable, stored, dropped, heard>>
    PROVE  TalkSound'
<1> DEFINE s == task[t].stream
<1>0. TalkTyping /\ CoroutinesFit /\ FragmentsFit /\ PlacesFit /\ AfterStoring
  BY TalkParts
<1>1. s \in Talk!Streams /\ task[t].todo = <<>> /\ task[t] \in Coroutines
  <2>1. task[t] \in Coroutines
    BY <1>0 DEF TalkTyping
  <2> QED
    BY <1>0, <2>1 DEF CoroutinesFit
<1>2. session' = [session EXCEPT ![s] = r.sess] /\ closed' = closed \o r.closed
  BY DEF Talk!Apply
<1>3. r.closed \in Seq(Talk!Turns)
  BY DEF ReadyFor, ResultFits
<1>4. PICK next \in (Talk!Running \cup Talk!Awaits), closes \in BOOLEAN :
        /\ next = "append" <=> r.closed # <<>>
        /\ task' = [task EXCEPT ![t].at = next, ![t].todo = r.closed, ![t].closes = closes]
  <2> DEFINE closes == session[s].state = "finalizing" /\ \E k \in DOMAIN events :
                           events[k].kind = "finalized"
             next == IF r.closed # <<>> THEN "append"
                     ELSE IF closes /\ r.sess.state = "finalizing" THEN "close_finalized"
                     ELSE "finish"
  <2>1. task' = [task EXCEPT ![t].at = next, ![t].todo = r.closed, ![t].closes = closes]
    BY DEF Talk!Apply
  <2>2. closes \in BOOLEAN
    OBVIOUS
  <2> HIDE DEF closes
  <2>3. next \in Talk!Running \cup Talk!Awaits /\ (next = "append" <=> r.closed # <<>>)
    BY StepNames
  <2> HIDE DEF next
  <2>4. \E n \in Talk!Running \cup Talk!Awaits : n = next
    BY <2>3
  <2> QED
    BY <2>1, <2>2, <2>3, <2>4
<1>5. PICK c \in Coroutines : /\ task' = [task EXCEPT ![t] = c]
                              /\ c.at = next /\ c.todo = r.closed /\ c.stream = s
  <2> DEFINE o == task[t]
             c == [o EXCEPT !.at = next, !.todo = r.closed, !.closes = closes]
  <2>1. c \in Coroutines /\ c.at = next /\ c.todo = r.closed /\ c.stream = o.stream
    BY <1>1, <1>3 DEF Coroutines
  <2>2. task' = [task EXCEPT ![t] = c]
    BY <1>0, <1>4 DEF TalkTyping
  <2> HIDE DEF c
  <2> QED
    BY <2>1, <2>2
<1>6. /\ task' \in [Talk!Tasks -> Coroutines] /\ CoroutinesFit'
      /\ \A o \in Talk!Tasks : task'[o].todo = IF o = t THEN r.closed ELSE task[o].todo
  <2>1. c.stream \in Talk!Streams /\ (c.todo # <<>> <=> c.at = "append")
    BY <1>1, <1>4, <1>5
  <2>2. /\ task' \in [Talk!Tasks -> Coroutines] /\ CoroutinesFit'
        /\ \A o \in Talk!Tasks : task'[o].todo = IF o = t THEN c.todo ELSE task[o].todo
    BY <1>0, <1>5, <2>1, HandTakes
  <2> QED
    BY <1>5, <2>2
<1>7. /\ session' \in [Talk!Streams -> Sessions] /\ queue' \in [Talk!Streams -> Seq(Talk!Events)]
      /\ closed' \in Seq(Talk!Turns) /\ FragmentsFit'
      /\ Talk!ToSet(closed') = Talk!ToSet(closed) \cup Talk!ToSet(r.closed)
      /\ Talk!Distinct(r.closed) /\ Talk!ToSet(r.closed) \cap Talk!ToSet(closed) = {}
  BY <1>0, <1>1, <1>2, ResultKeepsFragments DEF ReadyFor
<1> HIDE DEF s
<1>8. PlacesFit'
  BY <1>0, <1>1, <1>6, <1>7, TakenPlaces
<1>9. TalkTyping' /\ AfterStoring'
  BY <1>0, <1>6, <1>7 DEF TalkTyping, AfterStoring
<1> QED
  BY <1>6, <1>7, <1>8, <1>9 DEF TalkSound

LEMMA DueKeeps ==
    ASSUME TalkSetup, TalkSound, NEW t \in Talk!Tasks, task[t].at \notin {"idle", "append"},
           Talk!Apply(t, Talk!DueResult(task[t].stream), <<>>), queue' = queue, deferred' = deferred,
           UNCHANGED <<registered, answering, saving, durable, stored, dropped, heard>>
    PROVE  TalkSound'
<1>1. task[t].stream \in Talk!Streams
  BY TalkParts DEF CoroutinesFit
<1>2. /\ ReadyFor(task[t].stream, Talk!DueResult(task[t].stream), Texts(session[task[t].stream]))
      /\ \A i \in DOMAIN queue[task[t].stream] :
           queue[task[t].stream][i].kind = "final"
           => queue[task[t].stream][i].n \notin Texts(session[task[t].stream])
  BY <1>1, DueReady
<1> QED
  BY <1>2, ApplyKeeps

LEMMA ConsumedKeeps ==
    ASSUME TalkSetup, TalkSound, NEW t \in Talk!Tasks, task[t].at \notin {"idle", "append"},
           Talk!Apply(t, Talk!Consumed(task[t].stream, queue[task[t].stream]), queue[task[t].stream]),
           queue' = [queue EXCEPT ![task[t].stream] = <<>>], deferred' = deferred,
           UNCHANGED <<registered, answering, saving, durable, stored, dropped, heard>>
    PROVE  TalkSound'
<1> DEFINE s == task[t].stream
<1>1. s \in Talk!Streams
  BY TalkParts DEF CoroutinesFit
<1>2. PICK V : ReadyFor(s, Talk!Consumed(s, queue[s]), V)
  BY <1>1, ConsumedReady
<1>3. queue'[s] = <<>>
  BY <1>1, TalkParts DEF TalkTyping
<1>4. \A i \in DOMAIN queue'[s] : queue'[s][i].kind = "final" => queue'[s][i].n \notin V
  BY <1>3
<1> QED
  BY <1>2, <1>4, ApplyKeeps

LEMMA CollectKeeps ==
    ASSUME TalkSetup, TalkSound, NEW t \in Talk!Tasks, Talk!Collect(t)
    PROVE  TalkSound'
<1>0. TalkTyping /\ CoroutinesFit /\ FragmentsFit /\ AfterStoring
  BY TalkParts
<1>1. task[t].at = "collect"
  BY DEF Talk!Collect, Talk!At
<1>2. UNCHANGED <<registered, answering, saving, durable, stored, dropped, heard>>
  BY DEF Talk!Collect
<1>3. CASE Talk!Apply(t, Talk!DueResult(task[t].stream), <<>>) /\ queue' = queue /\ deferred' = deferred
  BY <1>1, <1>2, <1>3, DueKeeps
<1>4. CASE /\ Talk!Apply(t, Talk!Consumed(task[t].stream, queue[task[t].stream]), queue[task[t].stream])
           /\ queue' = [queue EXCEPT ![task[t].stream] = <<>>] /\ deferred' = deferred
  BY <1>1, <1>2, <1>4, ConsumedKeeps
<1>5. ASSUME NEW step \in {"finish", "wait", "fail"}, Talk!Goto(t, step),
             UNCHANGED <<session, queue, closed>>, deferred' = {} \/ deferred' = deferred
      PROVE  TalkSound'
  <2>1. HandsKept
    BY <1>0, <1>1, <1>5, HandGoes, StepNames
  <2>2. WorkShrinks
    BY <1>0, <1>2, <1>5 DEF WorkShrinks, TalkTyping, AfterStoring
  <2>3. QuietTalk
    BY <1>0, <1>2, <1>5, <2>1, <2>2, SessionsSame, QueuesSame DEF QuietTalk
  <2> QED
    BY <2>3, QuietKeeps
<1> QED
  BY <1>3, <1>4, <1>5 DEF Talk!Collect

LEMMA EventComesKeeps ==
    ASSUME TalkSetup, TalkSound, NEW t \in Talk!Tasks, Talk!EventComes(t)
    PROVE  TalkSound'
<1>1. task[t].at = "wait" /\ deferred' = deferred
  BY DEF Talk!EventComes, Talk!At
<1>2. UNCHANGED <<registered, answering, saving, durable, stored, dropped, heard>>
  BY DEF Talk!EventComes
<1>3. /\ Talk!Apply(t, Talk!Consumed(task[t].stream, queue[task[t].stream]), queue[task[t].stream])
      /\ queue' = [queue EXCEPT ![task[t].stream] = <<>>]
  BY DEF Talk!EventComes
<1> QED
  BY <1>1, <1>2, <1>3, ConsumedKeeps

LEMMA WaitTimesOutKeeps ==
    ASSUME TalkSetup, TalkSound, NEW t \in Talk!Tasks, Talk!WaitTimesOut(t)
    PROVE  TalkSound'
<1>0. TalkTyping /\ CoroutinesFit /\ FragmentsFit /\ AfterStoring
  BY TalkParts
<1>1. task[t].at = "wait" /\ queue' = queue /\ deferred' = deferred
  BY DEF Talk!WaitTimesOut, Talk!At
<1>2. UNCHANGED <<registered, answering, saving, durable, stored, dropped, heard>>
  BY DEF Talk!WaitTimesOut
<1>3. CASE Talk!Apply(t, Talk!DueResult(task[t].stream), <<>>)
  BY <1>1, <1>2, <1>3, DueKeeps
<1>4. ASSUME NEW step \in {"finish", "fail"}, Talk!Goto(t, step), UNCHANGED <<session, closed>>
      PROVE  TalkSound'
  <2>1. HandsKept
    BY <1>0, <1>1, <1>4, HandGoes, StepNames
  <2>2. WorkShrinks
    BY <1>0, <1>1, <1>2, WorkSame
  <2>3. QuietTalk
    BY <1>0, <1>1, <1>2, <1>4, <2>1, <2>2, SessionsSame, QueuesSame DEF QuietTalk
  <2> QED
    BY <2>3, QuietKeeps
<1> QED
  BY <1>3, <1>4 DEF Talk!WaitTimesOut

-----------------------------------------------------------------------------
(* The end of a turn, of the session and of a handler.                      *)

\* The first turn in hand has been tried.
LEMMA FirstTurnGoes ==
    ASSUME TalkSetup, TalkSound, NEW t \in Talk!Tasks, task[t].at = "append",
           task' = [task EXCEPT ![t].at = Talk!AfterAppend(t), ![t].todo = Tail(@)],
           UNCHANGED <<registered, session, queue, closed, heard>>,
           \/ stored' = Append(stored, Head(task[t].todo)) /\ dropped' = dropped
           \/ stored' = stored /\ dropped' = dropped \cup {Head(task[t].todo)}
    PROVE  /\ task' \in [Talk!Tasks -> Coroutines] /\ CoroutinesFit' /\ FragmentsFit' /\ PlacesFit'
           /\ stored' \in Seq(Talk!Turns) /\ dropped' \subseteq Talk!Turns
           /\ Head(task[t].todo) \in Talk!Turns
           /\ Talk!ToSet(stored') \in {Talk!ToSet(stored), Talk!ToSet(stored) \cup {Head(task[t].todo)}}
<1> DEFINE o == task[t]
           u == Head(o.todo)
           rest == Tail(o.todo)
<1>0. TalkTyping /\ CoroutinesFit /\ FragmentsFit /\ PlacesFit /\ AfterStoring
  BY TalkParts
<1>1. o \in Coroutines /\ o.stream \in Talk!Streams /\ o.todo # <<>> /\ o.todo \in Seq(Talk!Turns)
  BY <1>0 DEF CoroutinesFit, TalkTyping, Coroutines
<1>2. Talk!Distinct(o.todo) /\ Talk!ToSet(o.todo) \cap (Talk!ToSet(stored) \cup dropped) = {}
  BY <1>0 DEF PlacesFit
<1>3. /\ u \in Talk!Turns /\ rest \in Seq(Talk!Turns) /\ Talk!Distinct(rest)
      /\ Talk!ToSet(o.todo) = {u} \cup Talk!ToSet(rest) /\ u \notin Talk!ToSet(rest)
      /\ rest # <<>> <=> Len(o.todo) > 1
  BY <1>1, <1>2, FirstAndRest
<1>4. /\ Talk!AfterAppend(t) \in Talk!Running \cup Talk!Awaits
      /\ Talk!AfterAppend(t) = "append" <=> rest # <<>>
  <2>1. Talk!AfterAppend(t) = "append" <=> Len(o.todo) > 1
    BY DEF Talk!AfterAppend
  <2>2. Talk!AfterAppend(t) \in {"append", "close_finalized", "finish"}
    BY DEF Talk!AfterAppend
  <2> QED
    BY <1>3, <2>1, <2>2, StepNames
<1>5. PICK c \in Coroutines : /\ task' = [task EXCEPT ![t] = c]
                              /\ c.at = Talk!AfterAppend(t) /\ c.todo = rest /\ c.stream = o.stream
  <2> HIDE DEF rest, u
  <2> DEFINE c == [o EXCEPT !.at = Talk!AfterAppend(t), !.todo = rest]
  <2>1. c \in Coroutines /\ c.at = Talk!AfterAppend(t) /\ c.todo = rest /\ c.stream = o.stream
    BY <1>1, <1>3, <1>4 DEF Coroutines
  <2>2. task' = [task EXCEPT ![t] = c]
    BY <1>0 DEF TalkTyping, rest
  <2> HIDE DEF c
  <2> QED
    BY <2>1, <2>2
<1>6. /\ task' \in [Talk!Tasks -> Coroutines] /\ CoroutinesFit'
      /\ \A k \in Talk!Tasks : task'[k].todo = IF k = t THEN rest ELSE task[k].todo
  <2> HIDE DEF rest
  <2>1. c.stream \in Talk!Streams /\ (c.todo # <<>> <=> c.at = "append")
    BY <1>1, <1>4, <1>5
  <2>2. /\ task' \in [Talk!Tasks -> Coroutines] /\ CoroutinesFit'
        /\ \A k \in Talk!Tasks : task'[k].todo = IF k = t THEN c.todo ELSE task[k].todo
    BY <1>0, <1>5, <2>1, HandTakes
  <2> QED
    BY <1>5, <2>2
<1>7. FragmentsFit'
  BY <1>0, QuietFragments, SessionsSame, QueuesSame
<1>8. stored \in Seq(Talk!Turns) /\ Talk!Distinct(stored) /\ u \notin Talk!ToSet(stored)
  BY <1>0, <1>2, <1>3 DEF TalkTyping, PlacesFit
<1>9. /\ Append(stored, u) \in Seq(Talk!Turns) /\ Talk!Distinct(Append(stored, u))
      /\ Talk!ToSet(Append(stored, u)) = Talk!ToSet(stored) \cup {u}
  BY <1>3, <1>8, OneTurnMore
<1>10. /\ \/ stored' = Append(stored, u) /\ dropped' = dropped
          \/ stored' = stored /\ dropped' = dropped \cup {u}
       /\ closed' = closed
  OBVIOUS
<1>11. dropped \subseteq Talk!Turns
  BY <1>0 DEF TalkTyping
<1> HIDE DEF u, rest
<1>12. /\ \/ Talk!ToSet(stored') = Talk!ToSet(stored) \cup {u} /\ dropped' = dropped
          \/ stored' = stored /\ dropped' = dropped \cup {u}
       /\ Talk!Distinct(stored') /\ stored' \in Seq(Talk!Turns) /\ dropped' \subseteq Talk!Turns
  BY <1>3, <1>8, <1>9, <1>10, <1>11
<1>13. {u} \cap Talk!ToSet(rest) = {} /\ Talk!ToSet(task[t].todo) = {u} \cup Talk!ToSet(rest)
  BY <1>3
<1>14. PlacesFit'
  BY <1>0, <1>3, <1>6, <1>10, <1>12, <1>13, LeftPlaces
<1>15. Talk!ToSet(stored') \in {Talk!ToSet(stored), Talk!ToSet(stored) \cup {u}}
  BY <1>12
<1> QED
  BY <1>3, <1>6, <1>7, <1>12, <1>14, <1>15 DEF u

LEMMA StoreTurnKeeps ==
    ASSUME TalkSetup, TalkSound, NEW t \in Talk!Tasks, Talk!StoreTurn(t)
    PROVE  TalkSound'
<1> DEFINE u == Head(task[t].todo)
<1>0. TalkTyping /\ AfterStoring /\ task[t].at = "append"
  BY TalkParts DEF Talk!StoreTurn, Talk!At
<1>1. /\ task' = [task EXCEPT ![t].at = Talk!AfterAppend(t), ![t].todo = Tail(@)]
      /\ UNCHANGED <<registered, session, queue, closed, heard, deferred, durable>>
      /\ stored' = Append(stored, u) /\ dropped' = dropped
      /\ answering' = IF u.channel = Interviewer THEN answering \cup {u} ELSE answering
      /\ saving' = saving \cup {[turn |-> u, left |-> SaveAttempts]}
  BY DEF Talk!StoreTurn
<1>2. /\ task' \in [Talk!Tasks -> Coroutines] /\ CoroutinesFit' /\ FragmentsFit' /\ PlacesFit'
      /\ stored' \in Seq(Talk!Turns) /\ dropped' \subseteq Talk!Turns /\ u \in Talk!Turns
  BY <1>0, <1>1, FirstTurnGoes
<1>3. Talk!ToSet(stored') = Talk!ToSet(stored) \cup {u}
  BY <1>0, <1>1, <1>2, OneTurnMore DEF TalkTyping
<1> HIDE DEF u
<1>4. [turn |-> u, left |-> SaveAttempts] \in Savings
  BY <1>2 DEF Savings, TalkSetup
<1>5. [turn |-> u, left |-> SaveAttempts].turn = u
  OBVIOUS
<1>6. saving' \subseteq Savings /\ \A p \in saving' : p.turn \in Talk!ToSet(stored')
  BY <1>0, <1>1, <1>3, <1>4, <1>5 DEF TalkTyping, AfterStoring
<1>7. answering' \subseteq {v \in Talk!ToSet(stored') : v.channel = Interviewer}
  BY <1>0, <1>1, <1>3 DEF AfterStoring
<1>8. answering' \subseteq Talk!Turns /\ durable' \subseteq Talk!ToSet(stored') /\ deferred' \subseteq {registered'}
  BY <1>0, <1>1, <1>2, <1>3 DEF TalkTyping, AfterStoring
<1>9. AfterStoring'
  BY <1>6, <1>7, <1>8 DEF AfterStoring
<1>10. TalkTyping'
  BY <1>0, <1>1, <1>2, <1>6, <1>8 DEF TalkTyping
<1> QED
  BY <1>2, <1>9, <1>10 DEF TalkSound

LEMMA StoreFailsKeeps ==
    ASSUME TalkSetup, TalkSound, NEW t \in Talk!Tasks, Talk!StoreFails(t)
    PROVE  TalkSound'
<1>0. TalkTyping /\ AfterStoring /\ task[t].at = "append"
  BY TalkParts DEF Talk!StoreFails, Talk!At
<1>1. /\ task' = [task EXCEPT ![t].at = Talk!AfterAppend(t), ![t].todo = Tail(@)]
      /\ UNCHANGED <<registered, session, queue, closed, heard, deferred, durable, answering,
                     saving>>
      /\ stored' = stored /\ dropped' = dropped \cup {Head(task[t].todo)}
  BY DEF Talk!StoreFails
<1>2. /\ task' \in [Talk!Tasks -> Coroutines] /\ CoroutinesFit' /\ FragmentsFit' /\ PlacesFit'
      /\ stored' \in Seq(Talk!Turns) /\ dropped' \subseteq Talk!Turns
  BY <1>0, <1>1, FirstTurnGoes
<1>3. TalkTyping' /\ AfterStoring'
  BY <1>0, <1>1, <1>2 DEF TalkTyping, AfterStoring
<1> QED
  BY <1>2, <1>3 DEF TalkSound

LEMMA DrainFinalizedKeeps ==
    ASSUME TalkSetup, TalkSound, NEW t \in Talk!Tasks, Talk!DrainFinalized(t)
    PROVE  TalkSound'
<1> DEFINE s == task[t].stream
           events == IF queue[s] = <<>> THEN <<Talk!CloseEvent>> ELSE queue[s]
           r == Talk!Consumed(s, events)
<1>0. TalkTyping /\ CoroutinesFit /\ FragmentsFit /\ PlacesFit /\ AfterStoring
  BY TalkParts
<1>1. s \in Talk!Streams /\ task[t].at = "drain_finalized"
  BY <1>0 DEF CoroutinesFit, Talk!DrainFinalized, Talk!At
<1>2. /\ session' = [session EXCEPT ![s] = r.sess] /\ closed' = closed \o r.closed
      /\ dropped' = dropped \cup Talk!ToSet(r.closed) /\ queue' = [queue EXCEPT ![s] = <<>>]
      /\ Talk!Goto(t, "finish")
      /\ UNCHANGED <<registered, deferred, answering, saving, durable, stored, heard>>
  BY DEF Talk!DrainFinalized
<1>3. events = queue[s] \/ events = <<Talk!CloseEvent>>
  OBVIOUS
<1> HIDE DEF events
<1>4. PICK V : ReadyFor(s, r, V)
  BY <1>1, <1>3, ConsumedReady
<1>5. \A i \in DOMAIN queue'[s] : queue'[s][i].kind = "final" => queue'[s][i].n \notin V
  <2>1. queue'[s] = <<>>
    BY <1>0, <1>1, <1>2 DEF TalkTyping
  <2> QED
    BY <2>1
<1> HIDE DEF s, r
<1>6. /\ session' \in [Talk!Streams -> Sessions] /\ queue' \in [Talk!Streams -> Seq(Talk!Events)]
      /\ closed' \in Seq(Talk!Turns) /\ FragmentsFit'
      /\ Talk!ToSet(closed') = Talk!ToSet(closed) \cup Talk!ToSet(r.closed)
      /\ Talk!Distinct(r.closed) /\ Talk!ToSet(r.closed) \cap Talk!ToSet(closed) = {}
  BY <1>0, <1>1, <1>2, <1>4, <1>5, ResultKeepsFragments DEF ReadyFor
<1>7. HandsKept
  BY <1>0, <1>1, <1>2, HandGoes, StepNames
<1>8. Talk!ToSet(r.closed) \subseteq Talk!Turns
  <2>1. r.closed \in Seq(Talk!Turns)
    BY <1>4 DEF ReadyFor, ResultFits
  <2> QED
    BY <2>1 DEF Talk!ToSet
<1>9. PlacesFit'
  <2>1. Held' = Held
    BY <1>7 DEF Held, HandsKept
  <2>2. /\ Talk!ToSet(closed) = Talk!ToSet(stored) \cup dropped \cup Held
        /\ Talk!Distinct(stored) /\ Talk!ToSet(stored) \cap dropped = {}
    BY <1>0 DEF PlacesFit
  <2>3. Talk!ToSet(closed') = Talk!ToSet(stored) \cup dropped' \cup Held'
    BY <1>2, <1>6, <2>1, <2>2
  <2>4. Talk!ToSet(stored) \cap dropped' = {}
    BY <1>2, <1>6, <2>2
  <2>5. ASSUME NEW o \in Talk!Tasks
        PROVE  /\ Talk!Distinct(task'[o].todo)
               /\ Talk!ToSet(task'[o].todo) \cap (Talk!ToSet(stored) \cup dropped') = {}
               /\ \A u \in Talk!Tasks : u # o => Talk!ToSet(task'[u].todo) \cap Talk!ToSet(task'[o].todo) = {}
    <3>1. \A u \in Talk!Tasks : task'[u].todo = task[u].todo
      BY <1>7 DEF HandsKept
    <3>2. Talk!ToSet(task[o].todo) \subseteq Talk!ToSet(closed)
      BY <1>0, HandsHoldClosed
    <3>3. /\ Talk!Distinct(task[o].todo)
          /\ Talk!ToSet(task[o].todo) \cap (Talk!ToSet(stored) \cup dropped) = {}
          /\ \A u \in Talk!Tasks : u # o => Talk!ToSet(task[u].todo) \cap Talk!ToSet(task[o].todo) = {}
      BY <1>0 DEF PlacesFit
    <3>4. Talk!ToSet(task[o].todo) \cap (Talk!ToSet(stored) \cup dropped') = {}
      BY <1>2, <1>6, <3>2, <3>3
    <3> QED
      BY <3>1, <3>3, <3>4
  <2> QED
    BY <1>2, <2>2, <2>3, <2>4, <2>5 DEF PlacesFit
<1>10. TalkTyping' /\ AfterStoring'
  BY <1>0, <1>2, <1>6, <1>7, <1>8 DEF TalkTyping, AfterStoring, HandsKept
<1> QED
  BY <1>6, <1>7, <1>9, <1>10 DEF TalkSound, HandsKept

LEMMA FinishKeeps ==
    ASSUME TalkSetup, TalkSound, NEW t \in Talk!Tasks, Talk!Finish(t)
    PROVE  TalkSound'
<1> DEFINE final == task[t].op \in {"stop", "disconnect"}
           given == IF final THEN Talk!ToSet(task[Listener].todo) ELSE {}
<1>0. TalkTyping /\ CoroutinesFit /\ FragmentsFit /\ PlacesFit /\ AfterStoring
  BY TalkParts
<1>1. task[t].at = "finish" /\ task[t].todo = <<>> /\ Listener \in Talk!Tasks
  BY <1>0 DEF CoroutinesFit, Talk!Finish, Talk!At, Talk!Tasks
<1>2. /\ task' = [u \in Talk!Tasks |-> IF u = t \/ (final /\ u = Listener) THEN Talk!Idle ELSE task[u]]
      /\ dropped' = dropped \cup given
      /\ UNCHANGED <<session, queue, saving, durable, closed, stored, heard>>
  BY DEF Talk!Finish
<1>3. WorkShrinks
  <2>1. CASE Talk!RemoveSession
    BY <1>0, <1>2, <2>1, WorkRemoved
  <2>2. CASE UNCHANGED <<registered, answering, deferred>>
    BY <1>0, <1>2, <2>2, WorkSame
  <2> QED
    BY <2>1, <2>2 DEF Talk!Finish
<1> HIDE DEF final
<1>4. \A u \in Talk!Tasks : task'[u] = IF u = t \/ (final /\ u = Listener) THEN Talk!Idle ELSE task[u]
  BY <1>2
<1>5. task' \in [Talk!Tasks -> Coroutines] /\ CoroutinesFit'
  <2>1. task' \in [Talk!Tasks -> Coroutines]
    BY <1>0, <1>2, IdleIs DEF TalkTyping
  <2> QED
    BY <1>0, <1>4, <2>1, IdleIs DEF CoroutinesFit
<1>6. FragmentsFit'
  BY <1>0, <1>2, QuietFragments, SessionsSame, QueuesSame
<1>7. Talk!Distinct(<<>>) /\ Talk!ToSet(<<>>) = {}
  BY DEF Talk!Distinct, Talk!ToSet
<1>8. PlacesFit'
  <2>1. CASE final
    <3>1. \A u \in Talk!Tasks : task'[u].todo = IF u = Listener THEN <<>> ELSE task[u].todo
      BY <1>1, <1>4, <2>1, IdleIs
    <3>2. dropped' = dropped \cup Talk!ToSet(task[Listener].todo) /\ stored' = stored
      BY <1>2, <2>1
    <3>3. Talk!Distinct(stored')
      BY <1>0, <3>2 DEF PlacesFit
    <3>4. Talk!ToSet(task[Listener].todo) = Talk!ToSet(task[Listener].todo) \cup Talk!ToSet(<<>>)
      BY <1>7
    <3>5. Talk!ToSet(task[Listener].todo) \cap Talk!ToSet(<<>>) = {}
      BY <1>7
    <3> QED
      BY <1>0, <1>1, <1>2, <1>7, <3>1, <3>2, <3>3, <3>4, <3>5, LeftPlaces
  <2>2. CASE ~final
    <3>1. \A u \in Talk!Tasks : task'[u].todo = task[u].todo
      BY <1>1, <1>4, <2>2, IdleIs
    <3>2. UNCHANGED <<closed, stored, dropped>>
      BY <1>2, <2>2
    <3> QED
      BY <1>0, <3>1, <3>2, HandsPlaces
  <2> QED
    BY <2>1, <2>2
<1>9. dropped' \subseteq Talk!Turns
  <2>1. task[Listener].todo \in Seq(Talk!Turns)
    BY <1>0, <1>1 DEF TalkTyping, Coroutines
  <2>2. Talk!ToSet(task[Listener].todo) \subseteq Talk!Turns
    BY <2>1 DEF Talk!ToSet
  <2> QED
    BY <1>0, <1>2, <2>2 DEF TalkTyping
<1> HIDE DEF given
<1>10. TalkTyping' /\ AfterStoring'
  BY <1>0, <1>2, <1>3, <1>5, <1>9 DEF TalkTyping, AfterStoring, WorkShrinks
<1> QED
  BY <1>5, <1>6, <1>8, <1>10 DEF TalkSound

-----------------------------------------------------------------------------
(* The interview, from its start.                                           *)

LEMMA TalkStart ==
    ASSUME TalkSetup, Talk!Init
    PROVE  TalkSound
<1>1. <<>> \in Seq(Talk!Turns) /\ <<>> \in Seq(Talk!Events) /\ Talk!ToSet(<<>>) = {} /\ Talk!Distinct(<<>>)
  BY DEF Talk!ToSet, Talk!Distinct
<1>2. \A s \in Talk!Streams : session[s] = Talk!NewSession("none") /\ queue[s] = <<>>
  BY DEF Talk!Init
<1>3. /\ session \in [Talk!Streams -> Sessions]
      /\ \A s \in Talk!Streams : SessionFits(session[s]) /\ Texts(session[s]) = {}
  <2>1. Talk!NewSession("none") \in Sessions
    BY NewSessionFits, StepNames
  <2> QED
    BY <1>2, <2>1, NewSessionFits, StepNames DEF Talk!Init
<1>4. heard = 0 /\ MaxEvents \in Nat
  BY DEF Talk!Init, TalkSetup
<1>5. task \in [Talk!Tasks -> Coroutines] /\ \A t \in Talk!Tasks : task[t] = Talk!Idle
  BY IdleIs DEF Talk!Init
<1>6. TalkTyping
  BY <1>1, <1>3, <1>4, <1>5 DEF TalkTyping, Talk!Init
<1>7. CoroutinesFit
  BY <1>5, IdleIs DEF CoroutinesFit
<1>8. FragmentsFit
  BY <1>2, <1>3, <1>4 DEF FragmentsFit, EventsFresh, ClosedFits, Talk!Init
<1>9. PlacesFit
  <2>1. closed = <<>> /\ stored = <<>> /\ dropped = {}
    BY DEF Talk!Init
  <2>2. \A t \in Talk!Tasks : task[t].todo = <<>>
    BY <1>5, IdleIs
  <2>3. Held = {}
    BY <1>1, <2>2 DEF Held
  <2> QED
    BY <1>1, <2>1, <2>2, <2>3 DEF PlacesFit
<1>10. AfterStoring
  BY DEF AfterStoring, Talk!Init
<1> QED
  BY <1>6, <1>7, <1>8, <1>9, <1>10 DEF TalkSound

LEMMA TalkContinues ==
    ASSUME TalkSetup, TalkSound, Talk!Next
    PROVE  TalkSound'
<1>1. ASSUME NEW t \in Talk!Tasks, Talk!Coroutine(t) PROVE TalkSound'
  <2>1. CASE QuietTalk
    BY <2>1, QuietKeeps
  <2> QED
    BY <1>1, <2>1, StartQuiet, OpenedQuiet, OpenFailsQuiet, PushAudioQuiet, SendAudioQuiet,
       FinalizeQuiet, SentQuiet, SendFailsQuiet, StopQuiet, DisconnectQuiet, ClosedQuiet,
       FailSessionQuiet, CloseFinalizedQuiet, CollectKeeps, EventComesKeeps, WaitTimesOutKeeps,
       StoreTurnKeeps, StoreFailsKeeps, DrainFinalizedKeeps, FinishKeeps
       DEF Talk!Coroutine
<1>2. CASE Talk!Listen \/ Talk!Reap
  BY <1>2, ListenQuiet, ReapQuiet, QuietKeeps
<1>3. ASSUME NEW s \in Talk!Streams, Talk!Produce(s) \/ Talk!ProviderCloses(s) PROVE TalkSound'
  BY <1>3, ProduceKeeps, ProviderClosesQuiet, QuietKeeps
<1>4. ASSUME NEW s \in Talk!Streams, NEW c \in Channels, Talk!GraceElapses(s, c) PROVE TalkSound'
  BY <1>4, GraceElapsesQuiet, QuietKeeps
<1>5. ASSUME NEW u \in answering, Talk!AnswerEnds(u) PROVE TalkSound'
  BY <1>5, AnswerEndsQuiet, QuietKeeps
<1>6. ASSUME NEW p \in saving, Talk!SaveTurn(p) \/ Talk!SaveFails(p) PROVE TalkSound'
  BY <1>6, SaveTurnQuiet, SaveFailsQuiet, QuietKeeps
<1> QED
  BY <1>1, <1>2, <1>3, <1>4, <1>5, <1>6 DEF Talk!Next

LEMMA TalkStutters ==
    ASSUME TalkSound, UNCHANGED Talk!interviewVars
    PROVE  TalkSound'
<1>0. UNCHANGED <<registered, session, queue, task, deferred, answering, saving, durable, closed,
                  stored, dropped, heard>>
  BY DEF Talk!interviewVars, Talk!turnVars
<1>1. TalkTyping' /\ CoroutinesFit'
  BY <1>0, TalkParts DEF TalkTyping, CoroutinesFit
<1>2. PlacesFit'
  BY <1>0, TalkParts, HandsPlaces
<1>3. AfterStoring'
  BY <1>0, TalkParts DEF AfterStoring
<1>4. FragmentsFit'
  BY <1>0, TalkParts DEF FragmentsFit, EventsFresh, ClosedFits
<1> QED
  BY <1>1, <1>2, <1>3, <1>4 DEF TalkSound

LEMMA TalkTells ==
    ASSUME TalkSound
    PROVE  Talk!PendingTurnIsQuiet /\ Talk!TurnsKept /\ Talk!DeferredBelongsToSession
<1> DEFINE pending == {t \in Talk!Tasks : task[t].todo # <<>>}
<1>0. CoroutinesFit /\ FragmentsFit /\ PlacesFit /\ AfterStoring
  BY TalkParts
<1>1. Talk!PendingTurnIsQuiet
  BY <1>0 DEF Talk!PendingTurnIsQuiet, FragmentsFit, SessionFits
<1>2. Talk!DeferredBelongsToSession
  BY <1>0 DEF Talk!DeferredBelongsToSession, AfterStoring
<1>3. ASSUME NEW i \in DOMAIN closed, NEW c \in Channels
      PROVE  closed[i].text \cap session[closed[i].stream].text[c] = {}
  <2>1. closed[i].text \cap Texts(session[closed[i].stream]) = {}
    BY <1>0 DEF FragmentsFit, ClosedFits
  <2> QED
    BY <2>1 DEF Texts
<1>4. UNION {Talk!ToSet(task[t].todo) : t \in pending} = Held
  <2>1. \A t \in Talk!Tasks : t \notin pending => Talk!ToSet(task[t].todo) = {}
    BY DEF Talk!ToSet
  <2> QED
    BY <2>1 DEF Held
<1>5. durable \cup {p.turn : p \in saving} \subseteq Talk!ToSet(stored)
  BY <1>0 DEF AfterStoring
<1>6. answering \subseteq {u \in Talk!ToSet(stored) : u.channel = Interviewer}
  BY <1>0 DEF AfterStoring
<1>7. Talk!TurnsKept
  <2>1. \A t \in pending : Talk!ToSet(task[t].todo) \cap (Talk!ToSet(stored) \cup dropped) = {}
    BY <1>0 DEF PlacesFit
  <2>2. Talk!ToSet(closed) = Talk!ToSet(stored) \cup dropped \cup UNION {Talk!ToSet(task[t].todo) : t \in pending}
    BY <1>0, <1>4 DEF PlacesFit
  <2>3. \A i, j \in DOMAIN closed :
          i # j /\ closed[i].stream = closed[j].stream => closed[i].text \cap closed[j].text = {}
    BY <1>0 DEF FragmentsFit, ClosedFits
  <2>4. Talk!Distinct(stored) /\ Talk!ToSet(stored) \cap dropped = {}
    BY <1>0 DEF PlacesFit
  <2> QED
    BY <1>3, <1>5, <1>6, <2>1, <2>2, <2>3, <2>4 DEF Talk!TurnsKept
<1> QED
  BY <1>1, <1>2, <1>7

LEMMA TalkStays ==
    TalkSetup /\ TalkSound /\ [Talk!Next]_(Talk!interviewVars) => TalkSound'
BY TalkContinues, TalkStutters

\* An interview on one socket: a turn is only pending on a channel that is quiet
\* after final text; every closed turn has its own fragments and is in one
\* place, and only stored turns are answered or become durable; a queued error
\* belongs to the session the socket has.
THEOREM TurnsStayApart ==
    ASSUME TalkSetup
    PROVE  Talk!Spec => []Talk!PendingTurnIsQuiet /\ []Talk!TurnsKept /\ []Talk!DeferredBelongsToSession
<1>1. Talk!Init => TalkSound
  BY TalkStart
<1>2. TalkSound /\ [Talk!Next]_(Talk!interviewVars) => TalkSound'
  BY TalkStays
<1>3. TalkSound => Talk!PendingTurnIsQuiet /\ Talk!TurnsKept /\ Talk!DeferredBelongsToSession
  BY TalkTells
<1> QED
  BY <1>1, <1>2, <1>3, PTL DEF Talk!Spec
=============================================================================
