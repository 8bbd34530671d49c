------------------------ MODULE StockResearchDispatch ------------------------
(****************************************************************************)
(* The recurring stock research schedules and the dispatcher that turns     *)
(* each due occurrence into one queued report.                              *)
(*                                                                          *)
(* An invocation of the internal dispatch endpoint reads the due schedules  *)
(* once, with one value of "now", and walks through that snapshot; every    *)
(* step of the walk is a separate round trip to MongoDB or Redis, so other  *)
(* invocations, users editing the schedule and a crash come in between.     *)
(*                                                                          *)
(* Time is a clock in abstract units.  What a schedule definition says      *)
(* (every 15 minutes, daily, weekly) is reduced to the one fact the code    *)
(* relies on: the next run is an occurrence strictly after the given time.  *)
(****************************************************************************)
EXTENDS Naturals, FiniteSets

CONSTANTS
    Schedules,         \* schedule ids
    Dispatchers,       \* concurrent invocations of dispatch_due
    Clients,           \* concurrent schedule edits through the HTTP API
    Reports,           \* ids a report document may get
    NoReport,          \* report_id None
    Keep,              \* a field an update request leaves out
    Occurrences,       \* the times a schedule can name
    NextRun,           \* calculate_next_stock_research_run_at
    LockSeconds,       \* SCHEDULE_DISPATCH_LOCK_SECONDS
    Limit,             \* size of one batch of due schedules
    MaxClock,          \* bound on the clock
    MaxFailures,       \* bound on failed enqueues and crashes
    CrashPoints,       \* where an invocation may die
    AmbiguousEnqueue,  \* an enqueue that reports failure may have pushed
    Timely             \* nothing in flight outlives its lock or its "now"

Times == 0 .. MaxClock
RunKeys == Schedules \X Occurrences

ASSUME ClockAssumption ==
    /\ MaxClock \in Nat
    /\ LockSeconds \in Nat \ {0}
    /\ MaxFailures \in Nat
    /\ Limit \in Nat \ {0}

ASSUME NextRunAssumption ==
    /\ Occurrences \subseteq Nat
    /\ NextRun \in [Times -> Occurrences]
    /\ \A t \in Times : NextRun[t] > t

Statuses == {"absent", "active", "paused", "deleted"}

ASSUME NullAssumption ==
    NoReport \notin Reports /\ Keep \notin Occurrences /\ Keep \notin Statuses

ASSUME SwitchAssumption == AmbiguousEnqueue \in BOOLEAN /\ Timely \in BOOLEAN

VARIABLES
    clock,
    schedule,   \* stock_research_schedules: status and next_run_at
    run,        \* stock_research_schedule_runs, unique per schedule and occurrence
    origin,     \* stock_research_reports: the run a report was created for
    enqueued,   \* reports whose task has reached the Redis queue
    edit,       \* per client: the update it is about to write
    pc,         \* per invocation: the call it makes next
    now,        \* per invocation: dispatch_now
    todo,       \* per invocation: snapshots still to dispatch
    cur,        \* per invocation: schedule and occurrence being dispatched
    mine,       \* per invocation: the local report_id
    failures,   \* failed enqueues and crashes so far
    advanced    \* history: occurrences a dispatcher moved a schedule past

dbVars   == <<schedule, run, origin, enqueued, advanced>>
dispVars == <<pc, now, todo, cur, mine>>
vars     == <<clock, dbVars, edit, dispVars, failures>>

RunStatuses == {"absent", "dispatching", "enqueue_failed", "queued"}
Owning == {"create", "attach", "enqueue", "mark_queued", "mark_failed"}
Steps == {"idle", "next", "stale", "retry", "advance"} \cup Owning

NoSchedule == [status |-> "absent", next |-> 0]
NoRun     == [status |-> "absent", report |-> NoReport, lock |-> 0]
NoRequest == [sched |-> Keep, status |-> Keep, next |-> Keep]
NoKey     == <<Keep, Keep>>
Unborn    == NoKey        \* the origin of an id no document has yet

TypeOK ==
    /\ clock \in Times
    /\ schedule \in [Schedules -> [status : Statuses, next : Occurrences \cup {0}]]
    /\ run \in [RunKeys -> [status : RunStatuses,
                            report : Reports \cup {NoReport}, lock : Nat]]
    /\ origin \in [Reports -> RunKeys \cup {Unborn}]
    /\ enqueued \subseteq Reports
    /\ edit \in [Clients -> [sched : Schedules \cup {Keep},
                             status : (Statuses \ {"absent"}) \cup {Keep},
                             next : Occurrences \cup {Keep}]]
    /\ pc \in [Dispatchers -> Steps]
    /\ now \in [Dispatchers -> Times]
    /\ todo \in [Dispatchers -> SUBSET RunKeys]
    /\ cur \in [Dispatchers -> RunKeys \cup {NoKey}]
    /\ mine \in [Dispatchers -> Reports \cup {NoReport}]
    /\ failures \in 0 .. MaxFailures
    /\ advanced \subseteq RunKeys

\* Some schedules may already exist.
Init ==
    /\ clock = 0
    /\ schedule \in [Schedules -> {NoSchedule}
                        \cup [status : {"active"}, next : Occurrences \ {0}]]
    /\ run = [k \in RunKeys |-> NoRun]
    /\ origin = [r \in Reports |-> Unborn]
    /\ enqueued = {}
    /\ edit = [c \in Clients |-> NoRequest]
    /\ pc = [d \in Dispatchers |-> "idle"]
    /\ now = [d \in Dispatchers |-> 0]
    /\ todo = [d \in Dispatchers |-> {}]
    /\ cur = [d \in Dispatchers |-> NoKey]
    /\ mine = [d \in Dispatchers |-> NoReport]
    /\ failures = 0
    /\ advanced = {}

-----------------------------------------------------------------------------
(* Time.  Under Timely the clock waits for whoever would otherwise be       *)
(* overtaken: an invocation whose locks would expire, an edit whose newly   *)
(* computed next_run_at would no longer lie in the future.                  *)

Tick ==
    /\ clock < MaxClock
    /\ Timely => /\ \A d \in Dispatchers :
                        pc[d] # "idle" => clock + 1 < now[d] + LockSeconds
                 /\ \A c \in Clients :
                        edit[c].next # Keep => clock + 1 < edit[c].next
    /\ clock' = clock + 1
    /\ UNCHANGED <<dbVars, edit, dispVars, failures>>

-----------------------------------------------------------------------------
(* Users.  Each request reads the schedule, computes the fields to write    *)
(* and writes them in a later call; update_owned_schedule refuses a         *)
(* schedule that was deleted in between.                                    *)

\* pause, delete; resume and any change of definition recompute next_run_at.
Requests ==
    [status : {"paused", "deleted"}, next : {Keep}]
        \cup [status : {Keep, "active", "paused"}, next : Occurrences]

BeginCreate(c, s, n) ==
    /\ edit[c] = NoRequest
    /\ schedule[s].status = "absent"
    /\ \A other \in Clients : edit[other].sched # s
    /\ n > clock
    /\ edit' = [edit EXCEPT ![c] = [sched |-> s, status |-> "active", next |-> n]]
    /\ UNCHANGED <<clock, dbVars, dispVars, failures>>

BeginEdit(c, s, request) ==
    /\ edit[c] = NoRequest
    /\ schedule[s].status \notin {"absent", "deleted"}
    /\ request.next # Keep => request.next > clock
    /\ edit' = [edit EXCEPT ![c] = [sched |-> s, status |-> request.status,
                                    next |-> request.next]]
    /\ UNCHANGED <<clock, dbVars, dispVars, failures>>

\* Variant: fields the request leaves out are written as null.
UpdatedWithNulls(row, request) == [status |-> request.status, next |-> request.next]

Updated(row, request) ==
    [status |-> IF request.status = Keep THEN row.status ELSE request.status,
     next   |-> IF request.next = Keep THEN row.next ELSE request.next]

\* Variant: the update does not exclude deleted schedules.
WritableAlways(s) == TRUE

Writable(s) == schedule[s].status # "deleted"

CommitEdit(c) ==
    /\ edit[c] # NoRequest
    /\ LET s == edit[c].sched
       IN  schedule' = IF Writable(s)
                       THEN [schedule EXCEPT ![s] = Updated(schedule[s], edit[c])]
                       ELSE schedule
    /\ edit' = [edit EXCEPT ![c] = NoRequest]
    /\ UNCHANGED <<clock, run, origin, enqueued, advanced, dispVars, failures>>

-----------------------------------------------------------------------------
(* The dispatcher.                                                          *)

Due == {<<s, schedule[s].next>> :
            s \in {x \in Schedules : /\ schedule[x].status = "active"
                                     /\ schedule[x].next <= clock}}

\* list_due_active_schedules: the Limit earliest of them, ties in any order.
IsBatch(batch) ==
    /\ batch \subseteq Due
    /\ Cardinality(batch) <= Limit
    /\ batch # Due => Cardinality(batch) = Limit
    /\ \A k \in batch, other \in Due \ batch : k[2] <= other[2]

Start(d) ==
    /\ pc[d] = "idle"
    /\ \E batch \in SUBSET Due :
        /\ IsBatch(batch)
        /\ todo' = [todo EXCEPT ![d] = batch]
    /\ now' = [now EXCEPT ![d] = clock]
    /\ pc' = [pc EXCEPT ![d] = "next"]
    /\ UNCHANGED <<clock, dbVars, edit, cur, mine, failures>>

\* The invocation leaves the current schedule and goes on with the next one.
Leave(d) ==
    /\ pc' = [pc EXCEPT ![d] = "next"]
    /\ cur' = [cur EXCEPT ![d] = NoKey]
    /\ mine' = [mine EXCEPT ![d] = NoReport]

\* Variant: the report of the claimed run is not looked at.
OwnAfresh(d, k, report) ==
    /\ pc' = [pc EXCEPT ![d] = "create"]
    /\ cur' = [cur EXCEPT ![d] = k]
    /\ mine' = [mine EXCEPT ![d] = NoReport]

\* A claimed run that already has a report goes straight to the queue.
Own(d, k, report) ==
    /\ pc' = [pc EXCEPT ![d] = IF report = NoReport THEN "create" ELSE "enqueue"]
    /\ cur' = [cur EXCEPT ![d] = k]
    /\ mine' = [mine EXCEPT ![d] = report]

Expiry(d) == now[d] + LockSeconds

\* create_dispatching: the insert fails when the occurrence has a run.
CreateRun(d) ==
    /\ pc[d] = "next"
    /\ \E k \in todo[d] :
        /\ \A other \in todo[d] : k[2] <= other[2]
        /\ todo' = [todo EXCEPT ![d] = todo[d] \ {k}]
        /\ IF run[k].status = "absent"
           THEN /\ run' = [run EXCEPT ![k] = [status |-> "dispatching",
                                              report |-> NoReport,
                                              lock   |-> Expiry(d)]]
                /\ Own(d, k, NoReport)
           ELSE /\ pc' = [pc EXCEPT ![d] = "stale"]
                /\ cur' = [cur EXCEPT ![d] = k]
                /\ UNCHANGED <<run, mine>>
    /\ UNCHANGED <<clock, schedule, origin, enqueued, advanced, edit, now, failures>>

\* Variants: the lock is not compared, or compared the wrong way round.
IsDispatching(d) == run[cur[d]].status = "dispatching"

IsFresh(d) ==
    /\ run[cur[d]].status = "dispatching"
    /\ run[cur[d]].lock >= now[d]

\* claim_stale_dispatching, with the "now" the invocation started with.
IsStale(d) ==
    /\ run[cur[d]].status = "dispatching"
    /\ run[cur[d]].lock <= now[d]

ClaimStale(d) ==
    /\ pc[d] = "stale"
    /\ IF IsStale(d)
       THEN /\ run' = [run EXCEPT ![cur[d]].lock = Expiry(d)]
            /\ Own(d, cur[d], run[cur[d]].report)
       ELSE /\ pc' = [pc EXCEPT ![d] = "retry"]
            /\ UNCHANGED <<run, cur, mine>>
    /\ UNCHANGED <<clock, schedule, origin, enqueued, advanced, edit, now, todo,
                   failures>>

\* Variant: any run that is not being dispatched can be claimed again.
ClaimEnqueueEnded(d) ==
    /\ pc[d] = "retry"
    /\ IF run[cur[d]].status \in {"enqueue_failed", "queued"}
       THEN /\ run' = [run EXCEPT ![cur[d]].status = "dispatching",
                                  ![cur[d]].lock = Expiry(d)]
            /\ Own(d, cur[d], run[cur[d]].report)
       ELSE Leave(d) /\ UNCHANGED run
    /\ UNCHANGED <<clock, schedule, origin, enqueued, advanced, edit, now, todo,
                   failures>>

\* claim_enqueue_failed; an occurrence that cannot be claimed is skipped.
ClaimEnqueueFailed(d) ==
    /\ pc[d] = "retry"
    /\ IF run[cur[d]].status = "enqueue_failed"
       THEN /\ run' = [run EXCEPT ![cur[d]].status = "dispatching",
                                  ![cur[d]].lock = Expiry(d)]
            /\ Own(d, cur[d], run[cur[d]].report)
       ELSE Leave(d) /\ UNCHANGED run
    /\ UNCHANGED <<clock, schedule, origin, enqueued, advanced, edit, now, todo,
                   failures>>

CreateReport(d) ==
    /\ pc[d] = "create"
    /\ \E r \in Reports :
        /\ origin[r] = Unborn
        /\ origin' = [origin EXCEPT ![r] = cur[d]]
        /\ mine' = [mine EXCEPT ![d] = r]
    /\ pc' = [pc EXCEPT ![d] = "attach"]
    /\ UNCHANGED <<clock, schedule, run, enqueued, advanced, edit, now, todo, cur,
                   failures>>

\* attach_report; when it finds nothing to update, the local id is kept.
AttachReport(d) ==
    /\ pc[d] = "attach"
    /\ run' = IF run[cur[d]].status = "dispatching" /\ run[cur[d]].report = NoReport
              THEN [run EXCEPT ![cur[d]].report = mine[d]]
              ELSE run
    /\ pc' = [pc EXCEPT ![d] = "enqueue"]
    /\ UNCHANGED <<clock, schedule, origin, enqueued, advanced, edit, now, todo, cur,
                   mine, failures>>

\* RedisQueue.enqueue: any exception of rpush is a failure, also one raised
\* after the push took effect.
EnqueueOk(d) ==
    /\ pc[d] = "enqueue"
    /\ enqueued' = enqueued \cup {mine[d]}
    /\ pc' = [pc EXCEPT ![d] = "mark_queued"]
    /\ UNCHANGED <<clock, schedule, run, origin, advanced, edit, now, todo, cur, mine,
                   failures>>

\* Variant: the boolean that enqueue returns is ignored.
EnqueueErrorIgnored(d) ==
    /\ pc[d] = "enqueue"
    /\ failures < MaxFailures
    /\ failures' = failures + 1
    /\ pc' = [pc EXCEPT ![d] = "mark_queued"]
    /\ UNCHANGED <<clock, dbVars, edit, now, todo, cur, mine>>

EnqueueError(d) ==
    /\ pc[d] = "enqueue"
    /\ failures < MaxFailures
    /\ failures' = failures + 1
    /\ \/ UNCHANGED enqueued
       \/ AmbiguousEnqueue /\ enqueued' = enqueued \cup {mine[d]}
    /\ pc' = [pc EXCEPT ![d] = "mark_failed"]
    /\ UNCHANGED <<clock, schedule, run, origin, advanced, edit, now, todo, cur, mine>>

\* _mark_terminal: only a dispatching run is marked, and it gets the local
\* report id whoever attached the one it had.
MarkTerminal(d, status) ==
    run' = IF run[cur[d]].status = "dispatching"
           THEN [run EXCEPT ![cur[d]].status = status, ![cur[d]].report = mine[d]]
           ELSE run

\* Variant: the schedule advances although the enqueue failed.
MarkFailedAndAdvance(d) ==
    /\ pc[d] = "mark_failed"
    /\ MarkTerminal(d, "enqueue_failed")
    /\ pc' = [pc EXCEPT ![d] = "advance"]
    /\ UNCHANGED <<clock, schedule, origin, enqueued, advanced, edit, now, todo, cur,
                   mine, failures>>

MarkEnqueueFailed(d) ==
    /\ pc[d] = "mark_failed"
    /\ MarkTerminal(d, "enqueue_failed")
    /\ Leave(d)
    /\ UNCHANGED <<clock, schedule, origin, enqueued, advanced, edit, now, todo,
                   failures>>

\* Variant: the schedule is not advanced.
MarkQueuedOnly(d) ==
    /\ pc[d] = "mark_queued"
    /\ MarkTerminal(d, "queued")
    /\ Leave(d)
    /\ UNCHANGED <<clock, schedule, origin, enqueued, advanced, edit, now, todo,
                   failures>>

MarkQueued(d) ==
    /\ pc[d] = "mark_queued"
    /\ MarkTerminal(d, "queued")
    /\ pc' = [pc EXCEPT ![d] = "advance"]
    /\ UNCHANGED <<clock, schedule, origin, enqueued, advanced, edit, now, todo, cur,
                   mine, failures>>

\* advance_next_run_at: only while the schedule is active and still names
\* the occurrence that was dispatched.
Advances(s, occurrence) ==
    schedule[s].status = "active" /\ schedule[s].next = occurrence

Advance(d) ==
    /\ pc[d] = "advance"
    /\ LET s == cur[d][1]
           occurrence == cur[d][2]
       IN  IF Advances(s, occurrence)
           THEN /\ schedule' = [schedule EXCEPT ![s].next = NextRun[occurrence]]
                /\ advanced' = advanced \cup {cur[d]}
           ELSE UNCHANGED <<schedule, advanced>>
    /\ Leave(d)
    /\ UNCHANGED <<clock, run, origin, enqueued, edit, now, todo, failures>>

Reset(d) ==
    /\ pc' = [pc EXCEPT ![d] = "idle"]
    /\ now' = [now EXCEPT ![d] = 0]
    /\ todo' = [todo EXCEPT ![d] = {}]
    /\ cur' = [cur EXCEPT ![d] = NoKey]
    /\ mine' = [mine EXCEPT ![d] = NoReport]

Finish(d) ==
    /\ pc[d] = "next"
    /\ todo[d] = {}
    /\ Reset(d)
    /\ UNCHANGED <<clock, dbVars, edit, failures>>

\* The process dies, or a call raises and dispatch_due gives up the batch.
\* Crashes stop early enough for the abandoned lock to expire in the clock's
\* range.
Crash(d) ==
    /\ pc[d] \in CrashPoints
    /\ failures < MaxFailures
    /\ Expiry(d) <= MaxClock
    /\ failures' = failures + 1
    /\ Reset(d)
    /\ UNCHANGED <<clock, dbVars, edit>>

-----------------------------------------------------------------------------
DispatchStep(d) ==
    \/ CreateRun(d) \/ ClaimStale(d) \/ ClaimEnqueueFailed(d)
    \/ CreateReport(d) \/ AttachReport(d)
    \/ EnqueueOk(d) \/ EnqueueError(d)
    \/ MarkEnqueueFailed(d) \/ MarkQueued(d) \/ Advance(d)
    \/ Finish(d)

Next ==
    \/ Tick
    \/ \E c \in Clients, s \in Schedules, n \in Occurrences : BeginCreate(c, s, n)
    \/ \E c \in Clients, s \in Schedules, request \in Requests :
            BeginEdit(c, s, request)
    \/ \E c \in Clients : CommitEdit(c)
    \/ \E d \in Dispatchers : Start(d) \/ DispatchStep(d) \/ Crash(d)

Spec == Init /\ [][Next]_vars

\* EventBridge keeps invoking the endpoint, an invocation and an API request
\* run to their end unless they crash, and time passes.
Fairness ==
    /\ WF_vars(Tick)
    /\ \A c \in Clients : WF_vars(CommitEdit(c))
    /\ \A d \in Dispatchers : WF_vars(Start(d)) /\ WF_vars(DispatchStep(d))

FairSpec == Spec /\ Fairness

-----------------------------------------------------------------------------
(* Properties.                                                              *)

\* A run marked queued names a report that was created for that very
\* occurrence and whose task has reached the Redis queue, whoever took the
\* run over in between (mark_queued writes the caller's own report id).
QueuedRunIsEnqueued ==
    \A k \in RunKeys :
        run[k].status = "queued" =>
            /\ run[k].report \in enqueued
            /\ origin[run[k].report] = k

\* A dispatcher never moves a schedule past an occurrence for which no
\* report reached the worker queue: no occurrence is lost to a failed or
\* ambiguous enqueue, a takeover of the run or a crash.
NoOccurrenceSkipped ==
    \A k \in advanced : \E r \in enqueued : origin[r] = k

\* Schedule occurrences are idempotent: one occurrence gets at most one
\* report, whatever the number of dispatchers and retries.
OneReportPerOccurrence ==
    \A r1, r2 \in Reports :
        origin[r1] # Unborn /\ origin[r1] = origin[r2] => r1 = r2

\* An active schedule whose current occurrence is already queued is about to
\* be advanced by the dispatcher that queued it.  Otherwise no claim of that
\* occurrence succeeds again and the schedule never runs another time.
NoStuckSchedule ==
    \A s \in Schedules :
        LET k == <<s, schedule[s].next>>
        IN  schedule[s].status = "active" /\ run[k].status = "queued"
                => \E d \in Dispatchers : pc[d] = "advance" /\ cur[d] = k

\* The lock of a run keeps two dispatchers from working on the same
\* occurrence between its claim and its terminal mark.
ExclusiveDispatch ==
    \A d, e \in Dispatchers :
        pc[d] \in Owning /\ pc[e] \in Owning /\ cur[d] = cur[e] => d = e

\* Once a run is queued, neither a late dispatcher nor a retry changes its
\* status or the report it names.
QueuedIsFinal ==
    [][\A k \in RunKeys : run[k].status = "queued" =>
            run'[k].status = "queued" /\ run'[k].report = run[k].report]_vars

\* A deleted schedule stays deleted and keeps its next_run_at: no resume,
\* edit or advance that was already under way brings it back.
DeletedIsFinal ==
    [][\A s \in Schedules : schedule[s].status = "deleted" =>
            schedule'[s] = schedule[s]]_vars

\* Every due occurrence of an active schedule is eventually dispatched (its
\* schedule moves on) unless the user edits the schedule.
DueIsDispatched ==
    \A s \in Schedules, o \in Occurrences :
        (schedule[s].status = "active" /\ schedule[s].next = o /\ o <= clock)
            ~> (schedule[s].status # "active" \/ schedule[s].next # o)
==============================================================================
