------------------------ MODULE StockResearchReports ------------------------
(****************************************************************************)
(* The life of a stock research report: creation and enqueueing by a caller *)
(* (the HTTP API, run-now, or the schedule dispatcher), the Redis list, and *)
(* the worker processes that pop tasks into a bounded pool of coroutines,   *)
(* claim the report, run the agent and write the terminal state.            *)
(*                                                                          *)
(* The Redis list is popped destructively and never acknowledged; every     *)
(* report update but the claim is unconditional.                            *)
(****************************************************************************)
EXTENDS Naturals, Sequences, FiniteSets

CONSTANTS
    Reports,
    Manual,            \* callers that give a report up when its enqueue fails
    Scheduled,         \* dispatch of an occurrence: its enqueue is retried
    Workers,           \* worker processes
    MaxConcurrency,    \* permits of a worker's semaphore
    Tasks,             \* coroutine identities
    NoReport,
    NoWorker,
    MaxFailures,       \* bound on failures of every kind
    AmbiguousEnqueue   \* an enqueue that reports failure may have pushed

Callers == Manual \cup Scheduled

ASSUME ReportAssumption ==
    /\ MaxConcurrency \in Nat \ {0}
    /\ MaxFailures \in Nat
    /\ NoReport \notin Reports
    /\ NoWorker \notin Workers
    /\ IsFiniteSet(Tasks)
    /\ AmbiguousEnqueue \in BOOLEAN

VARIABLES
    report,      \* stock_research_reports: status, whether content and error are set
    queue,       \* the Redis list
    caller,      \* per caller: next call and report
    permits,     \* per worker: value of its semaphore
    loop,        \* per worker: where its main loop is
    task,        \* per coroutine: worker, report and next call
    notified,    \* notifications: report and announced status
    failures,
    lost,        \* history: reports whose task or caller died on the way
    agentRuns    \* history: agent runs per report

workerVars == <<permits, loop, task>>
vars == <<report, queue, caller, workerVars, notified, failures, lost, agentRuns>>

Terminal == {"completed", "failed"}
ReportStatus == {"absent", "queued", "running"} \cup Terminal
CallerSteps == {"idle", "enqueue", "mark_failed"}
LoopSteps == {"idle", "dequeue", "draining", "stopped"}
Processing == {"start", "agent", "complete", "fail", "notify_completed",
               "notify_failed"}
TaskSteps == {"none", "claim"} \cup Processing

NoTask == [worker |-> NoWorker, report |-> NoReport, step |-> "none"]

TypeOK ==
    /\ report \in [Reports -> [status : ReportStatus, content : BOOLEAN,
                               error : BOOLEAN]]
    /\ queue \in Seq(Reports)
    /\ caller \in [Callers -> [step : CallerSteps, report : Reports \cup {NoReport}]]
    /\ permits \in [Workers -> 0 .. MaxConcurrency]
    /\ loop \in [Workers -> LoopSteps]
    /\ task \in [Tasks -> [worker : Workers \cup {NoWorker},
                           report : Reports \cup {NoReport}, step : TaskSteps]]
    /\ notified \subseteq Reports \X Terminal
    /\ failures \in 0 .. MaxFailures
    /\ lost \subseteq Reports
    /\ agentRuns \in [Reports -> Nat]

Row(status, content, error) ==
    [status |-> status, content |-> content, error |-> error]

Init ==
    /\ report = [r \in Reports |-> Row("absent", FALSE, FALSE)]
    /\ queue = <<>>
    /\ caller = [c \in Callers |-> [step |-> "idle", report |-> NoReport]]
    /\ permits = [w \in Workers |-> MaxConcurrency]
    /\ loop = [w \in Workers |-> "idle"]
    /\ task = [t \in Tasks |-> NoTask]
    /\ notified = {}
    /\ failures = 0
    /\ lost = {}
    /\ agentRuns = [r \in Reports |-> 0]

Fail ==
    /\ failures < MaxFailures
    /\ failures' = failures + 1

-----------------------------------------------------------------------------
(* Callers: persist a queued report, then push its task.                    *)

CreateReport(c) ==
    /\ caller[c].step = "idle"
    /\ \E r \in Reports :
        /\ report[r].status = "absent"
        /\ report' = [report EXCEPT ![r] = Row("queued", FALSE, FALSE)]
        /\ caller' = [caller EXCEPT ![c] = [step |-> "enqueue", report |-> r]]
    /\ UNCHANGED <<queue, workerVars, notified, failures, lost, agentRuns>>

Done(c) == caller' = [caller EXCEPT ![c] = [step |-> "idle", report |-> NoReport]]

EnqueueOk(c) ==
    /\ caller[c].step = "enqueue"
    /\ queue' = Append(queue, caller[c].report)
    /\ Done(c)
    /\ UNCHANGED <<report, workerVars, notified, failures, lost, agentRuns>>

\* A failed enqueue ends a manual request through mark_failed; the dispatcher
\* retries the same report later.
EnqueueError(c) ==
    /\ caller[c].step = "enqueue"
    /\ Fail
    /\ \/ UNCHANGED queue
       \/ AmbiguousEnqueue /\ queue' = Append(queue, caller[c].report)
    /\ IF c \in Manual
       THEN caller' = [caller EXCEPT ![c].step = "mark_failed"]
       ELSE UNCHANGED caller
    /\ UNCHANGED <<report, workerVars, notified, lost, agentRuns>>

\* Variant: the content of the report is not unset.
MarkEnqueueFailedOnly(c) ==
    /\ caller[c].step = "mark_failed"
    /\ report' = [report EXCEPT ![caller[c].report] =
                    [@ EXCEPT !.status = "failed", !.error = TRUE]]
    /\ Done(c)
    /\ UNCHANGED <<queue, workerVars, notified, failures, lost, agentRuns>>

\* mark_report_enqueue_failed does not look at the state it overwrites.
MarkEnqueueFailed(c) ==
    /\ caller[c].step = "mark_failed"
    /\ report' = [report EXCEPT ![caller[c].report] = Row("failed", FALSE, TRUE)]
    /\ Done(c)
    /\ UNCHANGED <<queue, workerVars, notified, failures, lost, agentRuns>>

\* The process dies between two calls of a request.  (A scheduled dispatch is
\* taken over from its stale lock, see StockResearchDispatch.)
CallerCrash(c) ==
    /\ c \in Manual
    /\ caller[c].step # "idle"
    /\ Fail
    /\ lost' = lost \cup {caller[c].report}
    /\ Done(c)
    /\ UNCHANGED <<report, queue, workerVars, notified, agentRuns>>

-----------------------------------------------------------------------------
(* The worker loop.                                                         *)

Active(w) == {t \in Tasks : task[t].worker = w}

\* run_once waits for a permit before it pops.
Acquire(w) ==
    /\ loop[w] = "idle"
    /\ permits[w] > 0
    /\ permits' = [permits EXCEPT ![w] = @ - 1]
    /\ loop' = [loop EXCEPT ![w] = "dequeue"]
    /\ UNCHANGED <<report, queue, caller, task, notified, failures, lost, agentRuns>>

\* Variant: run_once releases the permit it handed over.
DispatchReleasing(w) ==
    /\ loop[w] = "dequeue"
    /\ queue # <<>>
    /\ \E t \in Tasks :
        /\ task[t] = NoTask
        /\ task' = [task EXCEPT ![t] = [worker |-> w, report |-> Head(queue),
                                        step |-> "claim"]]
    /\ queue' = Tail(queue)
    /\ permits' = [permits EXCEPT ![w] = @ + 1]
    /\ loop' = [loop EXCEPT ![w] = "idle"]
    /\ UNCHANGED <<report, caller, notified, failures, lost, agentRuns>>

\* A popped task becomes a coroutine that takes the permit over.
Dispatch(w) ==
    /\ loop[w] = "dequeue"
    /\ queue # <<>>
    /\ \E t \in Tasks :
        /\ task[t] = NoTask
        /\ task' = [task EXCEPT ![t] = [worker |-> w, report |-> Head(queue),
                                        step |-> "claim"]]
    /\ queue' = Tail(queue)
    /\ loop' = [loop EXCEPT ![w] = "idle"]
    /\ UNCHANGED <<report, caller, permits, notified, failures, lost, agentRuns>>

\* Variant: an empty pop keeps the permit.
DequeueLeaking(w) ==
    /\ loop[w] = "dequeue"
    /\ queue = <<>>
    /\ loop' = [loop EXCEPT ![w] = "idle"]
    /\ UNCHANGED <<report, queue, caller, permits, task, notified, failures, lost,
                   agentRuns>>

\* The timeout passes, or the reply to the pop is lost (dequeue reports any
\* error as an empty queue): the finally clause gives the permit back.
DequeueNothing(w) ==
    /\ loop[w] = "dequeue"
    /\ \/ queue = <<>> /\ UNCHANGED <<queue, failures, lost>>
       \/ /\ queue # <<>>
          /\ Fail
          /\ lost' = lost \cup {Head(queue)}
          /\ queue' = Tail(queue)
    /\ permits' = [permits EXCEPT ![w] = @ + 1]
    /\ loop' = [loop EXCEPT ![w] = "idle"]
    /\ UNCHANGED <<report, caller, task, notified, agentRuns>>

\* stop() takes effect at the next turn of the loop; start() then waits for
\* the active coroutines and the process ends.
Stop(w) ==
    /\ loop[w] = "idle"
    /\ loop' = [loop EXCEPT ![w] = "draining"]
    /\ UNCHANGED <<report, queue, caller, permits, task, notified, failures, lost,
                   agentRuns>>

Exit(w) ==
    /\ loop[w] = "draining"
    /\ Active(w) = {}
    /\ loop' = [loop EXCEPT ![w] = "stopped"]
    /\ UNCHANGED <<report, queue, caller, permits, task, notified, failures, lost,
                   agentRuns>>

Restart(w) ==
    /\ loop[w] = "stopped"
    /\ permits' = [permits EXCEPT ![w] = MaxConcurrency]
    /\ loop' = [loop EXCEPT ![w] = "idle"]
    /\ UNCHANGED <<report, queue, caller, task, notified, failures, lost, agentRuns>>

\* The process dies with everything it had popped.
WorkerCrash(w) ==
    /\ loop[w] # "stopped"
    /\ Fail
    /\ lost' = lost \cup {task[t].report : t \in Active(w)}
    /\ task' = [t \in Tasks |-> IF t \in Active(w) THEN NoTask ELSE task[t]]
    /\ loop' = [loop EXCEPT ![w] = "stopped"]
    /\ UNCHANGED <<report, queue, caller, permits, notified, agentRuns>>

-----------------------------------------------------------------------------
(* One coroutine: process_task and process_report.                          *)

Goto(t, step) == task' = [task EXCEPT ![t].step = step]

\* _run_task ends, however it ends, with the release of its permit.
Release(t) ==
    /\ permits' = [permits EXCEPT ![task[t].worker] = @ + 1]
    /\ task' = [task EXCEPT ![t] = NoTask]

\* Variants: the claim looks for a running report too; for a terminal one too.
ClaimableUnlessTerminal(r) == report[r].status \in {"queued", "running"}

ClaimableUnlessRunning(r) == report[r].status # "running"

\* claim_queued_report
Claimable(r) == report[r].status = "queued"

Claim(t) ==
    /\ task[t].step = "claim"
    /\ LET r == task[t].report
       IN  IF Claimable(r)
           THEN /\ report' = [report EXCEPT ![r] = [@ EXCEPT !.status = "running",
                                                            !.error = FALSE]]
                /\ Goto(t, "start")
                /\ UNCHANGED permits
           ELSE Release(t) /\ UNCHANGED report
    /\ UNCHANGED <<queue, caller, loop, notified, failures, lost, agentRuns>>

\* process_report marks the claimed report running once more.
StartRun(t) ==
    /\ task[t].step = "start"
    /\ report' = [report EXCEPT ![task[t].report] =
                    [@ EXCEPT !.status = "running", !.error = FALSE]]
    /\ Goto(t, "agent")
    /\ UNCHANGED <<queue, caller, permits, loop, notified, failures, lost, agentRuns>>

RunAgent(t) ==
    /\ task[t].step = "agent"
    /\ agentRuns' = [agentRuns EXCEPT ![task[t].report] = @ + 1]
    /\ \/ Goto(t, "complete")
       \/ Goto(t, "fail")
    /\ UNCHANGED <<report, queue, caller, permits, loop, notified, failures, lost>>

Complete(t) ==
    /\ task[t].step = "complete"
    /\ report' = [report EXCEPT ![task[t].report] = Row("completed", TRUE, FALSE)]
    /\ Goto(t, "notify_completed")
    /\ UNCHANGED <<queue, caller, permits, loop, notified, failures, lost, agentRuns>>

\* The update to completed raises, maybe after it took effect: the failure path
\* of process_report.
CompleteRaises(t) ==
    /\ task[t].step = "complete"
    /\ Fail
    /\ \/ UNCHANGED report
       \/ report' = [report EXCEPT ![task[t].report] = Row("completed", TRUE, FALSE)]
    /\ Goto(t, "fail")
    /\ UNCHANGED <<queue, caller, permits, loop, notified, lost, agentRuns>>

FailReport(t) ==
    /\ task[t].step = "fail"
    /\ report' = [report EXCEPT ![task[t].report] = Row("failed", FALSE, TRUE)]
    /\ Goto(t, "notify_failed")
    /\ UNCHANGED <<queue, caller, permits, loop, notified, failures, lost, agentRuns>>

\* The notification announces what this coroutine wrote, whatever the report
\* says by now; it is best effort.
Announced(t) == IF task[t].step = "notify_completed" THEN "completed" ELSE "failed"

Notify(t) ==
    /\ task[t].step \in {"notify_completed", "notify_failed"}
    /\ \/ /\ notified' = notified \cup {<<task[t].report, Announced(t)>>}
          /\ UNCHANGED failures
       \/ Fail /\ UNCHANGED notified
    /\ Release(t)
    /\ UNCHANGED <<report, queue, caller, loop, lost, agentRuns>>

\* Variant: the permit is not released when processing raises.
TaskRaisesLeaking(t) ==
    /\ task[t].step \in {"claim", "start", "fail"}
    /\ Fail
    /\ lost' = lost \cup {task[t].report}
    /\ task' = [task EXCEPT ![t] = NoTask]
    /\ UNCHANGED <<report, queue, caller, permits, loop, notified, agentRuns>>

\* A database error outside process_report's try: logged by _run_task.
TaskRaises(t) ==
    /\ task[t].step \in {"claim", "start", "fail"}
    /\ Fail
    /\ lost' = lost \cup {task[t].report}
    /\ Release(t)
    /\ UNCHANGED <<report, queue, caller, loop, notified, agentRuns>>

-----------------------------------------------------------------------------
CallerStep(c) ==
    EnqueueOk(c) \/ EnqueueError(c) \/ MarkEnqueueFailed(c)

LoopStep(w) == Acquire(w) \/ Dispatch(w) \/ DequeueNothing(w) \/ Exit(w) \/ Restart(w)

TaskStep(t) ==
    \/ Claim(t) \/ StartRun(t) \/ RunAgent(t) \/ Complete(t) \/ CompleteRaises(t)
    \/ FailReport(t) \/ Notify(t) \/ TaskRaises(t)

Next ==
    \/ \E c \in Callers : CreateReport(c) \/ CallerStep(c) \/ CallerCrash(c)
    \/ \E w \in Workers : LoopStep(w) \/ Stop(w) \/ WorkerCrash(w)
    \/ \E t \in Tasks : TaskStep(t)

Spec == Init /\ [][Next]_vars

\* Requests and coroutines run on, worker loops turn and stopped workers are
\* restarted; nobody has to create reports, and a worker is not stopped for
\* ever before it can pop.
Fairness ==
    /\ \A c \in Callers : WF_vars(CallerStep(c))
    /\ \A w \in Workers : WF_vars(LoopStep(w)) /\ SF_vars(Acquire(w))
    /\ \A t \in Tasks : WF_vars(TaskStep(t))

FairSpec == Spec /\ Fairness

-----------------------------------------------------------------------------
(* Properties.                                                              *)

\* Every permit of a running worker is free, held by its loop around the pop
\* or held by one coroutine: none leaks on a lost pop, a skipped claim or an
\* exception, and no more than MaxConcurrency reports are processed at once.
PermitsConserved ==
    \A w \in Workers :
        loop[w] # "stopped" =>
            permits[w] + Cardinality(Active(w))
                + (IF loop[w] = "dequeue" THEN 1 ELSE 0) = MaxConcurrency

\* However often a report's task was pushed, at most one coroutine is past
\* the claim of that report, and its agent runs at most once ever.
AgentRunsOnce ==
    /\ \A t, u \in Tasks :
          /\ task[t].step \in Processing /\ task[u].step \in Processing
          /\ task[t].report = task[u].report
          => t = u
    /\ \A r \in Reports : agentRuns[r] <= 1

\* The status and the artifact agree: a completed report has content and no
\* error, a failed one an error and no content, one in progress neither.
ArtifactMatchesStatus ==
    \A r \in Reports :
        /\ report[r].content <=> report[r].status = "completed"
        /\ report[r].error <=> report[r].status = "failed"

\* A completed report is overwritten by two late failure marks only: that of the
\* very request that created it, after an enqueue that reported failure although
\* the task was pushed; and that of the very coroutine that completed it, after
\* an update that raised although it took effect, before it is announced.
CompletedIsStable ==
    [][\A r \in Reports :
          report[r].status = "completed" /\ report'[r] # report[r] =>
              /\ report'[r].status = "failed"
              /\ \/ \E c \in Manual : /\ caller[c].step = "mark_failed"
                                      /\ caller[c].report = r
                 \/ \E t \in Tasks : /\ task[t].step = "fail"
                                     /\ task[t].report = r
                                     /\ <<r, "completed">> \notin notified]_vars

\* Every queued task leads to a terminal report, unless a failure swallowed
\* it (a crash, a lost pop, a database error before the agent ran).
QueuedIsFinished ==
    \A r \in Reports :
        (\E i \in 1 .. Len(queue) : queue[i] = r)
            ~> (report[r].status \in Terminal \/ r \in lost)
==============================================================================
