---------------------- MODULE StockResearchReportsProofs ----------------------
(****************************************************************************)
(* The life of a report, for every number of reports, callers, workers and  *)
(* coroutines.  The permits are counted against the coroutines; the status  *)
(* of a report is tied to the one coroutine that got past its claim.        *)
(****************************************************************************)
EXTENDS StockResearchReports, FiniteSetTheorems, TLAPS

\* A coroutine that exists has a worker and a report; a caller between two
\* calls has a report, and only a manual one gives it up.
Shapes ==
    /\ \A t \in Tasks :
        \/ task[t] = NoTask
        \/ task[t].step # "none" /\ task[t].worker \in Workers /\ task[t].report \in Reports
    /\ \A c \in Callers :
        /\ caller[c].step # "idle" => caller[c].report \in Reports
        /\ caller[c].step = "mark_failed" => c \in Manual

\* Permits are counted while a worker runs; a stopped one has no coroutines.
Counted ==
    /\ PermitsConserved
    /\ \A w \in Workers : loop[w] = "stopped" => Active(w) = {}

PoolOK == TypeOK /\ Shapes /\ Counted

\* What the coroutine past the claim of a report knows of it.
Claimed(r) == \E t \in Tasks : task[t].step \in Processing /\ task[t].report = r
BeforeEnd == {"start", "agent", "complete"}
ReportOK ==
    /\ \A t, u \in Tasks :
        /\ task[t].step \in Processing /\ task[u].step \in Processing
        /\ task[t].report = task[u].report
        => t = u
    /\ \A r \in Reports :
        /\ report[r].status \in {"absent", "queued"} => ~Claimed(r) /\ agentRuns[r] = 0
        /\ <<r, "completed">> \in notified =>
            ~Claimed(r) /\ report[r].status \notin {"absent", "queued"}
        /\ agentRuns[r] <= 1
    /\ \A t \in Tasks :
        /\ task[t].step \in {"start", "agent"} => agentRuns[task[t].report] = 0
        /\ task[t].step \in BeforeEnd => report[task[t].report].status \in {"running", "failed"}
    /\ ArtifactMatchesStatus

IInv == PoolOK /\ ReportOK

-----------------------------------------------------------------------------
(* Permits and coroutines.                                                  *)

LEMMA Constants == /\ MaxConcurrency \in Nat \ {0} /\ MaxFailures \in Nat
                   /\ NoReport \notin Reports /\ NoWorker \notin Workers
                   /\ IsFiniteSet(Tasks) /\ NoTask.worker = NoWorker
                   /\ NoTask.step = "none" /\ NoTask.report = NoReport
  BY ReportAssumption DEF ReportAssumption, NoTask

LEMMA ActiveFinite == \A w : IsFiniteSet(Active(w)) /\ Cardinality(Active(w)) \in Nat
  <1>1. \A w : Active(w) \subseteq Tasks
    BY DEF Active
  <1>2. QED BY <1>1, Constants, FS_Subset, FS_CardinalityType

\* A worker's coroutines when one starts, moves on or ends.
LEMMA OneStarts ==
    ASSUME TypeOK, NEW t \in Tasks, task[t] = NoTask, NEW w \in Workers, NEW d,
           d.worker = w, task' = [task EXCEPT ![t] = d]
    PROVE  /\ Cardinality(Active(w)') = Cardinality(Active(w)) + 1
           /\ \A v \in Workers \ {w} : Active(v)' = Active(v)
  <1>1. t \notin Active(w)
    BY Constants DEF Active
  <1>2. Active(w)' = Active(w) \cup {t}
    BY DEF Active, TypeOK
  <1>3. \A v \in Workers \ {w} : Active(v)' = Active(v)
    BY Constants DEF Active, TypeOK
  <1>4. QED BY <1>1, <1>2, <1>3, ActiveFinite, FS_AddElement

LEMMA OneMoves ==
    ASSUME TypeOK, NEW t \in Tasks, NEW step, Goto(t, step)
    PROVE  \A v : Active(v)' = Active(v)
  BY DEF Active, TypeOK, Goto

LEMMA OneEnds ==
    ASSUME TypeOK, NEW t \in Tasks, NEW w \in Workers, task[t].worker = w,
           task' = [task EXCEPT ![t] = NoTask]
    PROVE  /\ Cardinality(Active(w)') = Cardinality(Active(w)) - 1
           /\ Cardinality(Active(w)) > 0
           /\ \A v \in Workers \ {w} : Active(v)' = Active(v)
  <1>1. t \in Active(w)
    BY DEF Active
  <1>2. Active(w)' = Active(w) \ {t}
    BY Constants DEF Active, TypeOK
  <1>3. \A v \in Workers \ {w} : Active(v)' = Active(v)
    BY Constants DEF Active, TypeOK
  <1>4. Cardinality(Active(w)) > 0
    BY <1>1, ActiveFinite, FS_EmptySet
  <1>5. QED BY <1>1, <1>2, <1>3, <1>4, ActiveFinite, FS_RemoveElement

\* A coroutine that moves on disturbs no permit.
LEMMA MoveKeepsPool ==
    ASSUME PoolOK, NEW t \in Tasks, task[t] # NoTask, NEW step \in Processing,
           Goto(t, step), UNCHANGED <<permits, loop>>
    PROVE  /\ task' \in [Tasks -> [worker : Workers \cup {NoWorker},
                                   report : Reports \cup {NoReport}, step : TaskSteps]]
           /\ \A u \in Tasks :
                \/ task'[u] = NoTask
                \/ /\ task'[u].step # "none" /\ task'[u].worker \in Workers
                   /\ task'[u].report \in Reports
           /\ Counted'
  <1>1. task[t] \in [worker : Workers, report : Reports, step : TaskSteps]
    BY DEF PoolOK, TypeOK, Shapes
  <1>2. step \in TaskSteps /\ step # "none"
    BY DEF Processing, TaskSteps
  <1>3. \A v : Active(v)' = Active(v)
    BY OneMoves DEF PoolOK
  <1>4. Counted'
    BY <1>3 DEF PoolOK, Counted, PermitsConserved
  <1>5. QED BY <1>1, <1>2, <1>4 DEF PoolOK, TypeOK, Shapes, Goto

\* The end of a coroutine gives its permit back.
LEMMA ReleaseKeepsPool ==
    ASSUME PoolOK, NEW t \in Tasks, task[t] # NoTask, Release(t), UNCHANGED loop
    PROVE  /\ task' \in [Tasks -> [worker : Workers \cup {NoWorker},
                                   report : Reports \cup {NoReport}, step : TaskSteps]]
           /\ permits' \in [Workers -> 0 .. MaxConcurrency]
           /\ \A u \in Tasks :
                \/ task'[u] = NoTask
                \/ /\ task'[u].step # "none" /\ task'[u].worker \in Workers
                   /\ task'[u].report \in Reports
           /\ Counted'
  <1>1. PICK w \in Workers : task[t].worker = w
    BY DEF PoolOK, Shapes
  <1>2. /\ Cardinality(Active(w)') = Cardinality(Active(w)) - 1
        /\ Cardinality(Active(w)) > 0
        /\ \A v \in Workers \ {w} : Active(v)' = Active(v)
    BY <1>1, OneEnds DEF PoolOK, Release
  <1>3. loop[w] # "stopped"
    BY <1>2, FS_EmptySet DEF PoolOK, Counted
  <1>4. permits[w] \in Nat /\ permits[w] + 1 <= MaxConcurrency
    <2>1. permits[w] \in Nat /\ Cardinality(Active(w)) \in Nat
      BY <1>1, ActiveFinite DEF PoolOK, TypeOK
    <2>2. permits[w] + Cardinality(Active(w))
              + (IF loop[w] = "dequeue" THEN 1 ELSE 0) = MaxConcurrency
      BY <1>1, <1>3 DEF PoolOK, Counted, PermitsConserved
    <2>3. QED BY <1>2, <2>1, <2>2, Constants
  <1>5. permits' = [permits EXCEPT ![w] = permits[w] + 1]
    BY <1>1 DEF Release
  <1>6. permits' \in [Workers -> 0 .. MaxConcurrency]
    BY <1>4, <1>5, Constants DEF PoolOK, TypeOK
  <1>7. ASSUME NEW v \in Workers, loop'[v] # "stopped"
        PROVE  permits'[v] + Cardinality(Active(v)')
                   + (IF loop'[v] = "dequeue" THEN 1 ELSE 0) = MaxConcurrency
    <2>1. CASE v = w
      BY <1>2, <1>3, <1>4, <1>5, <1>7, <2>1, ActiveFinite, Constants
         DEF PoolOK, TypeOK, Counted, PermitsConserved
    <2>2. CASE v # w
      BY <1>2, <1>5, <1>7, <2>2 DEF PoolOK, TypeOK, Counted, PermitsConserved
    <2>3. QED BY <2>1, <2>2
  <1>8. \A v \in Workers : loop'[v] = "stopped" => Active(v)' = {}
    BY <1>2, <1>3 DEF PoolOK, Counted
  <1>9. Counted'
    BY <1>7, <1>8 DEF Counted, PermitsConserved
  <1>10. NoTask \in [worker : Workers \cup {NoWorker},
                     report : Reports \cup {NoReport}, step : TaskSteps]
    BY DEF NoTask, TaskSteps
  <1>11. QED BY <1>6, <1>9, <1>10 DEF PoolOK, TypeOK, Shapes, Release

-----------------------------------------------------------------------------
(* Every step keeps the pool.                                               *)

LEMMA RowType ==
    \A s \in ReportStatus : \A c, e \in BOOLEAN :
        Row(s, c, e) \in [status : ReportStatus, content : BOOLEAN, error : BOOLEAN]
  BY DEF Row

LEMMA FailType == ASSUME TypeOK, Fail PROVE failures' \in 0 .. MaxFailures
  BY Constants DEF TypeOK, Fail

LEMMA CallersKeepPool ==
    ASSUME PoolOK, NEW c \in Callers,
           CreateReport(c) \/ CallerStep(c) \/ CallerCrash(c)
    PROVE  PoolOK'
  <1> USE DEF PoolOK
  <1>1. Counted'
    BY DEF Counted, PermitsConserved, Active, workerVars, CreateReport, CallerStep,
           CallerCrash, EnqueueOk, EnqueueError, MarkEnqueueFailed
  <1>2. CASE CreateReport(c)
    <2>1. PICK r \in Reports :
            /\ report' = [report EXCEPT ![r] = Row("queued", FALSE, FALSE)]
            /\ caller' = [caller EXCEPT ![c] = [step |-> "enqueue", report |-> r]]
      BY <1>2 DEF CreateReport
    <2>2. UNCHANGED <<queue, workerVars, notified, failures, lost, agentRuns>>
      BY <1>2 DEF CreateReport
    <2>3. report' \in [Reports -> [status : ReportStatus, content : BOOLEAN, error : BOOLEAN]]
      BY <2>1, RowType DEF TypeOK, ReportStatus
    <2>4. caller' \in [Callers -> [step : CallerSteps, report : Reports \cup {NoReport}]]
      BY <2>1 DEF TypeOK, CallerSteps
    <2>5. Shapes'
      BY <2>1, <2>2 DEF workerVars, TypeOK, Shapes
    <2>6. QED BY <1>1, <2>2, <2>3, <2>4, <2>5 DEF workerVars, TypeOK
  <1>3. CASE EnqueueOk(c)
    BY <1>1, <1>3 DEF EnqueueOk, Done, workerVars, TypeOK, Shapes, CallerSteps
  <1>4. CASE EnqueueError(c)
    <2>1. caller[c].report \in Reports
      BY <1>4 DEF EnqueueError, Shapes
    <2>2. queue' \in Seq(Reports)
      <3>1. queue' = queue \/ queue' = Append(queue, caller[c].report)
        BY <1>4 DEF EnqueueError
      <3>2. queue \in Seq(Reports)
        BY DEF TypeOK
      <3>3. QED BY <2>1, <3>1, <3>2
    <2>3. caller' \in [Callers -> [step : CallerSteps, report : Reports \cup {NoReport}]]
      <3>1. caller' = caller \/ caller' = [caller EXCEPT ![c].step = "mark_failed"]
        BY <1>4 DEF EnqueueError
      <3>2. /\ caller \in [Callers -> [step : CallerSteps, report : Reports \cup {NoReport}]]
            /\ "mark_failed" \in CallerSteps
        BY DEF TypeOK, CallerSteps
      <3>3. QED BY <3>1, <3>2
    <2>4. Shapes'
      BY <1>4 DEF EnqueueError, workerVars, TypeOK, Shapes
    <2>5. QED BY <1>1, <1>4, <2>2, <2>3, <2>4, FailType DEF EnqueueError, workerVars, TypeOK
  <1>5. CASE MarkEnqueueFailed(c)
    BY <1>1, <1>5, RowType DEF MarkEnqueueFailed, Done, workerVars, TypeOK, Shapes,
       ReportStatus, Terminal, CallerSteps
  <1>6. CASE CallerCrash(c)
    BY <1>1, <1>6, FailType DEF CallerCrash, Done, workerVars, TypeOK, Shapes, CallerSteps
  <1>7. QED BY <1>2, <1>3, <1>4, <1>5, <1>6 DEF CallerStep

LEMMA LoopsKeepPool ==
    ASSUME PoolOK, NEW w \in Workers, LoopStep(w) \/ Stop(w) \/ WorkerCrash(w)
    PROVE  PoolOK'
  <1> USE DEF PoolOK
  <1>0. \A v \in Workers : permits[v] \in 0 .. MaxConcurrency
    BY DEF TypeOK
  <1>1. CASE Acquire(w)
    <2>1. \A v : Active(v)' = Active(v)
      BY <1>1 DEF Acquire, Active
    <2>2. permits[w] \in Nat /\ permits[w] > 0 /\ permits[w] <= MaxConcurrency
      BY <1>0, <1>1, Constants DEF Acquire
    <2>3. TypeOK' /\ Shapes'
      BY <1>1, <2>2, Constants DEF Acquire, TypeOK, Shapes, LoopSteps
    <2>4. ASSUME NEW v \in Workers, loop'[v] # "stopped"
          PROVE  permits'[v] + Cardinality(Active(v)')
                     + (IF loop'[v] = "dequeue" THEN 1 ELSE 0) = MaxConcurrency
      <3>1. CASE v = w
        <4>1. loop[w] = "idle" /\ loop'[w] = "dequeue" /\ permits'[w] = permits[w] - 1
          BY <1>1 DEF Acquire, TypeOK
        <4>2. permits[w] + Cardinality(Active(w)) = MaxConcurrency
          BY <4>1, <2>2, ActiveFinite DEF Counted, PermitsConserved
        <4>3. QED BY <2>1, <2>2, <3>1, <4>1, <4>2, ActiveFinite
      <3>2. CASE v # w
        BY <1>1, <2>1, <2>4, <3>2 DEF Acquire, TypeOK, Counted, PermitsConserved
      <3>3. QED BY <3>1, <3>2
    <2>5. \A v \in Workers : loop'[v] = "stopped" => Active(v)' = {}
      BY <1>1, <2>1 DEF Acquire, TypeOK, Counted
    <2>6. QED BY <2>3, <2>4, <2>5 DEF Counted, PermitsConserved
  <1>2. CASE Dispatch(w)
    <2>1. queue # <<>> /\ queue \in Seq(Reports) /\ loop[w] = "dequeue"
      BY <1>2 DEF Dispatch, TypeOK
    <2>2. Head(queue) \in Reports /\ queue' \in Seq(Reports)
      BY <1>2, <2>1 DEF Dispatch
    <2>3. PICK t \in Tasks :
            /\ task[t] = NoTask
            /\ task' = [task EXCEPT ![t] = [worker |-> w, report |-> Head(queue),
                                            step |-> "claim"]]
      BY <1>2 DEF Dispatch
    <2>4. /\ Cardinality(Active(w)') = Cardinality(Active(w)) + 1
          /\ \A v \in Workers \ {w} : Active(v)' = Active(v)
      BY <2>3, OneStarts
    <2>5. /\ permits' = permits /\ loop' = [loop EXCEPT ![w] = "idle"]
          /\ UNCHANGED <<report, caller, notified, failures, lost, agentRuns>>
      BY <1>2 DEF Dispatch
    <2>6. TypeOK'
      BY <2>2, <2>3, <2>5 DEF TypeOK, LoopSteps, TaskSteps
    <2>7. Shapes'
      BY <2>2, <2>3, <2>5 DEF Shapes, TypeOK
    <2>8. ASSUME NEW v \in Workers, loop'[v] # "stopped"
          PROVE  permits'[v] + Cardinality(Active(v)')
                     + (IF loop'[v] = "dequeue" THEN 1 ELSE 0) = MaxConcurrency
      <3>1. CASE v = w
        <4>1. loop'[w] = "idle"
          BY <2>5 DEF TypeOK
        <4>2. permits[w] + Cardinality(Active(w)) + 1 = MaxConcurrency
          BY <2>1 DEF Counted, PermitsConserved
        <4>3. permits[w] \in Nat
          BY DEF TypeOK
        <4>4. QED BY <2>4, <2>5, <3>1, <4>1, <4>2, <4>3, ActiveFinite
      <3>2. CASE v # w
        BY <2>4, <2>5, <2>8, <3>2 DEF TypeOK, Counted, PermitsConserved
      <3>3. QED BY <3>1, <3>2
    <2>9. \A v \in Workers : loop'[v] = "stopped" => Active(v)' = {}
      BY <2>4, <2>5 DEF TypeOK, Counted
    <2>10. QED BY <2>6, <2>7, <2>8, <2>9 DEF Counted, PermitsConserved
  <1>3. CASE DequeueNothing(w)
    <2>1. /\ \A v : Active(v)' = Active(v)
          /\ permits' = [permits EXCEPT ![w] = @ + 1] /\ loop' = [loop EXCEPT ![w] = "idle"]
          /\ UNCHANGED <<report, caller, task, notified, agentRuns>>
      BY <1>3 DEF DequeueNothing, Active
    <2>2. /\ permits[w] \in Nat /\ loop[w] = "dequeue"
          /\ permits[w] + Cardinality(Active(w)) + 1 = MaxConcurrency
      <3>1. permits[w] \in Nat /\ loop[w] = "dequeue"
        BY <1>0, <1>3, Constants DEF DequeueNothing
      <3>2. QED BY <3>1 DEF Counted, PermitsConserved
    <2>3. permits[w] + 1 \in 0 .. MaxConcurrency
      BY <2>2, ActiveFinite, Constants
    <2>4. queue' \in Seq(Reports) /\ lost' \subseteq Reports /\ failures' \in 0 .. MaxFailures
      <3>1. CASE queue = <<>>
        BY <1>3, <3>1 DEF DequeueNothing, TypeOK
      <3>2. CASE queue # <<>>
        <4>1. Fail /\ lost' = lost \cup {Head(queue)} /\ queue' = Tail(queue)
          BY <1>3, <3>2 DEF DequeueNothing
        <4>2. queue \in Seq(Reports) /\ lost \subseteq Reports
          BY DEF TypeOK
        <4>3. QED BY <3>2, <4>1, <4>2, FailType
      <3>3. QED BY <3>1, <3>2
    <2>5. TypeOK' /\ Shapes'
      BY <2>1, <2>3, <2>4 DEF TypeOK, Shapes, LoopSteps
    <2>6. ASSUME NEW v \in Workers, loop'[v] # "stopped"
          PROVE  permits'[v] + Cardinality(Active(v)')
                     + (IF loop'[v] = "dequeue" THEN 1 ELSE 0) = MaxConcurrency
      <3>1. CASE v = w
        <4>1. loop'[w] = "idle" /\ permits'[w] = permits[w] + 1
          BY <2>1 DEF TypeOK
        <4>2. QED BY <2>1, <2>2, <3>1, <4>1, ActiveFinite
      <3>2. CASE v # w
        BY <2>1, <2>6, <3>2 DEF TypeOK, Counted, PermitsConserved
      <3>3. QED BY <3>1, <3>2
    <2>7. \A v \in Workers : loop'[v] = "stopped" => Active(v)' = {}
      BY <2>1 DEF TypeOK, Counted
    <2>8. QED BY <2>5, <2>6, <2>7 DEF Counted, PermitsConserved
  <1>4. CASE Exit(w)
    BY <1>4 DEF Exit, TypeOK, Shapes, LoopSteps, Counted, PermitsConserved, Active
  <1>5. CASE Restart(w)
    <2>1. /\ \A v : Active(v)' = Active(v)
          /\ permits' = [permits EXCEPT ![w] = MaxConcurrency]
          /\ loop' = [loop EXCEPT ![w] = "idle"] /\ loop[w] = "stopped"
      BY <1>5 DEF Restart, Active
    <2>2. TypeOK' /\ Shapes'
      BY <1>5, Constants DEF Restart, TypeOK, Shapes, LoopSteps
    <2>3. Cardinality(Active(w)) = 0
      BY <2>1, FS_EmptySet DEF Counted
    <2>4. ASSUME NEW v \in Workers, loop'[v] # "stopped"
          PROVE  permits'[v] + Cardinality(Active(v)')
                     + (IF loop'[v] = "dequeue" THEN 1 ELSE 0) = MaxConcurrency
      <3>1. CASE v = w
        BY <2>1, <2>3, <3>1, Constants DEF TypeOK
      <3>2. CASE v # w
        BY <2>1, <2>4, <3>2 DEF TypeOK, Counted, PermitsConserved
      <3>3. QED BY <3>1, <3>2
    <2>5. \A v \in Workers : loop'[v] = "stopped" => Active(v)' = {}
      BY <2>1 DEF TypeOK, Counted
    <2>6. QED BY <2>2, <2>4, <2>5 DEF Counted, PermitsConserved
  <1>6. CASE Stop(w)
    <2>1. TypeOK' /\ Shapes'
      BY <1>6 DEF Stop, TypeOK, Shapes, LoopSteps
    <2>2. \A v : Active(v)' = Active(v)
      BY <1>6 DEF Stop, Active
    <2>3. Counted'
      BY <1>6, <2>2 DEF Stop, TypeOK, Counted, PermitsConserved
    <2>4. QED BY <2>1, <2>3
  <1>7. CASE WorkerCrash(w)
    <2>1. /\ task' = [t \in Tasks |-> IF t \in Active(w) THEN NoTask ELSE task[t]]
          /\ loop' = [loop EXCEPT ![w] = "stopped"]
          /\ UNCHANGED <<report, queue, caller, permits, notified, agentRuns>>
          /\ lost' = lost \cup {task[t].report : t \in Active(w)}
      BY <1>7 DEF WorkerCrash
    <2>2. \A v \in Workers \ {w} : Active(v)' = Active(v)
      BY <2>1, Constants DEF Active, TypeOK
    <2>3. Active(w)' = {}
      BY <2>1, Constants DEF Active, TypeOK
    <2>4. lost' \subseteq Reports
      BY <2>1, Constants DEF Active, TypeOK, Shapes
    <2>5. NoTask \in [worker : Workers \cup {NoWorker},
                      report : Reports \cup {NoReport}, step : TaskSteps]
      BY DEF NoTask, TaskSteps
    <2>6. TypeOK' /\ Shapes'
      BY <1>7, <2>1, <2>4, <2>5, FailType DEF WorkerCrash, TypeOK, Shapes, LoopSteps
    <2>7. Counted'
      BY <2>1, <2>2, <2>3 DEF Counted, PermitsConserved, TypeOK
    <2>8. QED BY <2>6, <2>7
  <1>8. QED BY <1>1, <1>2, <1>3, <1>4, <1>5, <1>6, <1>7 DEF LoopStep

LEMMA TasksKeepPool ==
    ASSUME PoolOK, NEW t \in Tasks, TaskStep(t)
    PROVE  PoolOK'
  <1> USE DEF PoolOK
  <1>1. task[t].step # "none" /\ task[t] # NoTask
    BY Constants DEF TaskStep, Claim, StartRun, RunAgent, Complete, CompleteRaises,
                     FailReport, Notify, TaskRaises
  <1>2. task[t].report \in Reports /\ task[t].worker \in Workers
    BY <1>1 DEF Shapes
  <1>3. \A s \in ReportStatus : \A c, e \in BOOLEAN :
            [report EXCEPT ![task[t].report] = Row(s, c, e)]
                \in [Reports -> [status : ReportStatus, content : BOOLEAN, error : BOOLEAN]]
    BY <1>2, RowType DEF TypeOK
  <1>4. [report EXCEPT ![task[t].report] = [@ EXCEPT !.status = "running", !.error = FALSE]]
            \in [Reports -> [status : ReportStatus, content : BOOLEAN, error : BOOLEAN]]
    BY DEF TypeOK, ReportStatus
  <1>5. CASE Claim(t)
    <2>1. CASE Claimable(task[t].report)
      BY <1>1, <1>4, <1>5, <2>1, MoveKeepsPool DEF Claim, TypeOK, Shapes, Processing
    <2>2. CASE ~Claimable(task[t].report)
      BY <1>1, <1>5, <2>2, ReleaseKeepsPool DEF Claim, TypeOK, Shapes
    <2>3. QED BY <2>1, <2>2
  <1>6. CASE StartRun(t)
    BY <1>1, <1>4, <1>6, MoveKeepsPool DEF StartRun, TypeOK, Shapes, Processing
  <1>7. CASE RunAgent(t)
    <2>1. PICK step \in Processing : Goto(t, step)
      BY <1>7 DEF RunAgent, Processing
    <2>2. agentRuns' \in [Reports -> Nat]
      BY <1>2, <1>7 DEF RunAgent, TypeOK
    <2>3. QED BY <1>1, <1>7, <2>1, <2>2, MoveKeepsPool DEF RunAgent, TypeOK, Shapes
  <1>8. CASE Complete(t)
    BY <1>1, <1>3, <1>8, MoveKeepsPool
       DEF Complete, TypeOK, Shapes, Processing, ReportStatus, Terminal
  <1>9. CASE CompleteRaises(t)
    <2>1. report' \in [Reports -> [status : ReportStatus, content : BOOLEAN, error : BOOLEAN]]
      <3>1. report' = report
            \/ report' = [report EXCEPT ![task[t].report] = Row("completed", TRUE, FALSE)]
        BY <1>9 DEF CompleteRaises
      <3>2. "completed" \in ReportStatus
        BY DEF ReportStatus, Terminal
      <3>3. [report EXCEPT ![task[t].report] = Row("completed", TRUE, FALSE)]
                \in [Reports -> [status : ReportStatus, content : BOOLEAN, error : BOOLEAN]]
        BY <1>3, <3>2
      <3>4. QED BY <3>1, <3>3 DEF TypeOK
    <2>2. Goto(t, "fail") /\ "fail" \in Processing
          /\ UNCHANGED <<queue, caller, permits, loop, notified, lost, agentRuns>>
      BY <1>9 DEF CompleteRaises, Processing
    <2>3. failures' \in 0 .. MaxFailures
      BY <1>9, FailType DEF CompleteRaises
    <2>4. QED BY <1>1, <2>1, <2>2, <2>3, MoveKeepsPool DEF TypeOK, Shapes
  <1>10. CASE FailReport(t)
    BY <1>1, <1>3, <1>10, MoveKeepsPool
       DEF FailReport, TypeOK, Shapes, Processing, ReportStatus, Terminal
  <1>11. CASE Notify(t)
    <2>1. notified' \subseteq Reports \X Terminal
      BY <1>2, <1>11 DEF Notify, TypeOK, Announced, Terminal
    <2>2. failures' \in 0 .. MaxFailures
      BY <1>11, FailType DEF Notify, TypeOK
    <2>3. QED BY <1>1, <1>11, <2>1, <2>2, ReleaseKeepsPool DEF Notify, TypeOK, Shapes
  <1>12. CASE TaskRaises(t)
    BY <1>1, <1>2, <1>12, FailType, ReleaseKeepsPool DEF TaskRaises, TypeOK, Shapes
  <1>13. QED BY <1>5, <1>6, <1>7, <1>8, <1>9, <1>10, <1>11, <1>12 DEF TaskStep

-----------------------------------------------------------------------------
(* Every step keeps the reports and the coroutines past the claim in accord. *)

\* Coroutines that start before the claim or end disturb nothing.
LEMMA UnclaimedKeepsReports ==
    ASSUME ReportOK, UNCHANGED <<report, notified, agentRuns>>,
           \A t \in Tasks : task'[t] = task[t] \/ task'[t].step \notin Processing
    PROVE  ReportOK'
  <1>1. \A r : Claimed(r)' => Claimed(r)
    BY DEF Claimed
  <1>2. BeforeEnd \subseteq Processing /\ {"start", "agent"} \subseteq Processing
    BY DEF BeforeEnd, Processing
  <1>3. QED BY <1>1, <1>2 DEF ReportOK, ArtifactMatchesStatus

\* What a row says when it has been written.
LEMMA RowSays ==
    ASSUME TypeOK, NEW r \in Reports, NEW s, NEW c, NEW e,
           report' = [report EXCEPT ![r] = Row(s, c, e)]
    PROVE  /\ report'[r].status = s /\ report'[r].content = c /\ report'[r].error = e
           /\ \A q \in Reports \ {r} : report'[q] = report[q]
  BY DEF TypeOK, Row

LEMMA CallersKeepReports ==
    ASSUME PoolOK, ReportOK, NEW c \in Callers,
           CreateReport(c) \/ CallerStep(c) \/ CallerCrash(c)
    PROVE  ReportOK'
  <1>1. UNCHANGED <<task, notified, agentRuns>>
    BY DEF workerVars, CreateReport, CallerStep, CallerCrash, EnqueueOk, EnqueueError,
           MarkEnqueueFailed
  <1>2. CASE UNCHANGED report
    BY <1>1, <1>2, UnclaimedKeepsReports
  <1>3. CASE CreateReport(c)
    <2>1. PICK r \in Reports : report[r].status = "absent"
                               /\ report' = [report EXCEPT ![r] = Row("queued", FALSE, FALSE)]
      BY <1>3 DEF CreateReport
    <2>2. /\ report'[r].status = "queued" /\ ~report'[r].content /\ ~report'[r].error
          /\ \A q \in Reports \ {r} : report'[q] = report[q]
      BY <2>1, RowSays DEF PoolOK
    <2>3. ~Claimed(r) /\ agentRuns[r] = 0 /\ <<r, "completed">> \notin notified
      BY <2>1 DEF ReportOK
    <2>4. \A t \in Tasks : task[t].step \in BeforeEnd => task[t].report # r
      BY <2>3 DEF Claimed, BeforeEnd, Processing
    <2>5. \A q : Claimed(q)' <=> Claimed(q)
      BY <1>1 DEF Claimed
    <2>6. \A t \in Tasks : task[t].step \in BeforeEnd => task[t].report \in Reports
      BY Constants DEF PoolOK, Shapes, BeforeEnd
    <2>7. QED BY <1>1, <2>2, <2>3, <2>4, <2>5, <2>6 DEF ReportOK, ArtifactMatchesStatus
  <1>4. CASE MarkEnqueueFailed(c)
    <2>1. caller[c].report \in Reports
      BY <1>4 DEF MarkEnqueueFailed, PoolOK, Shapes
    <2>2. PICK r \in Reports : report' = [report EXCEPT ![r] = Row("failed", FALSE, TRUE)]
      BY <1>4, <2>1 DEF MarkEnqueueFailed
    <2>3. /\ report'[r].status = "failed" /\ ~report'[r].content /\ report'[r].error
          /\ \A q \in Reports \ {r} : report'[q] = report[q]
      BY <2>2, RowSays DEF PoolOK
    <2>4. \A q : Claimed(q)' <=> Claimed(q)
      BY <1>1 DEF Claimed
    <2>5. \A t \in Tasks : task[t].step \in BeforeEnd => task[t].report \in Reports
      BY Constants DEF PoolOK, Shapes, BeforeEnd
    <2>6. QED BY <1>1, <2>3, <2>4, <2>5 DEF ReportOK, ArtifactMatchesStatus
  <1>5. QED BY <1>2, <1>3, <1>4 DEF CallerStep, EnqueueOk, EnqueueError, CallerCrash

LEMMA LoopsKeepReports ==
    ASSUME PoolOK, ReportOK, NEW w \in Workers, LoopStep(w) \/ Stop(w) \/ WorkerCrash(w)
    PROVE  ReportOK'
  <1>1. UNCHANGED <<report, notified, agentRuns>>
    BY DEF LoopStep, Acquire, Dispatch, DequeueNothing, Exit, Restart, Stop, WorkerCrash
  <1>2. "none" \notin Processing /\ "claim" \notin Processing
    BY DEF Processing
  <1>3. \A t \in Tasks : task'[t] = task[t] \/ task'[t].step \notin Processing
    BY <1>2, Constants DEF LoopStep, Acquire, Dispatch, DequeueNothing, Exit, Restart, Stop,
                           WorkerCrash, PoolOK, TypeOK
  <1>4. QED BY <1>1, <1>3, UnclaimedKeepsReports

\* A coroutine past the claim is the only one of its report, which is not
\* announced as completed yet; it stays the only one while it moves on.
LEMMA ClaimantAlone ==
    ASSUME PoolOK, ReportOK, NEW t \in Tasks, task[t].step \in Processing
    PROVE  /\ task[t].report \in Reports
           /\ report[task[t].report].status \notin {"absent", "queued"}
           /\ <<task[t].report, "completed">> \notin notified
           /\ \A u \in Tasks \ {t} :
                task[u].step \in Processing => task[u].report # task[t].report
  <1>1. task[t].report \in Reports
    BY Constants DEF PoolOK, Shapes, Processing
  <1>2. Claimed(task[t].report)
    BY DEF Claimed
  <1>3. QED BY <1>1, <1>2 DEF ReportOK

LEMMA ClaimantMoves ==
    ASSUME PoolOK, ReportOK, NEW t \in Tasks, task[t].step \in Processing,
           NEW step \in Processing, Goto(t, step)
    PROVE  /\ task'[t].step = step
           /\ \A u \in Tasks : /\ task'[u].report = task[u].report
                               /\ task'[u].step \in Processing <=> task[u].step \in Processing
           /\ \A u \in Tasks \ {t} : task'[u] = task[u]
           /\ \A q : Claimed(q)' <=> Claimed(q)
  <1>1. /\ task'[t].step = step
        /\ \A u \in Tasks : task'[u].report = task[u].report
        /\ \A u \in Tasks \ {t} : task'[u] = task[u]
    BY DEF Goto, PoolOK, TypeOK
  <1>2. \A u \in Tasks : task'[u].step \in Processing <=> task[u].step \in Processing
    BY <1>1
  <1>3. QED BY <1>1, <1>2 DEF Claimed

\* The row that the claimant leaves decides whether the reports stay in accord.
LEMMA ClaimantWrites ==
    ASSUME PoolOK, ReportOK, NEW t \in Tasks, task[t].step \in Processing,
           NEW step \in Processing, Goto(t, step), UNCHANGED <<notified, agentRuns>>,
           \A q \in Reports \ {task[t].report} : report'[q] = report[q],
           report'[task[t].report].status \notin {"absent", "queued"},
           report'[task[t].report].content <=> report'[task[t].report].status = "completed",
           report'[task[t].report].error <=> report'[task[t].report].status = "failed",
           step \in {"start", "agent"} => agentRuns[task[t].report] = 0,
           step \in BeforeEnd => report'[task[t].report].status \in {"running", "failed"}
    PROVE  ReportOK'
  <1> DEFINE r == task[t].report
  <1>1. /\ r \in Reports /\ <<r, "completed">> \notin notified
        /\ \A u \in Tasks \ {t} : task[u].step \in Processing => task[u].report # r
    BY ClaimantAlone
  <1>2. /\ task'[t].step = step
        /\ \A u \in Tasks : /\ task'[u].report = task[u].report
                            /\ task'[u].step \in Processing <=> task[u].step \in Processing
        /\ \A u \in Tasks \ {t} : task'[u] = task[u]
        /\ \A q : Claimed(q)' <=> Claimed(q)
    BY ClaimantMoves
  <1>3. \A u, v \in Tasks :
            /\ task'[u].step \in Processing /\ task'[v].step \in Processing
            /\ task'[u].report = task'[v].report
            => u = v
    BY <1>2 DEF ReportOK
  <1>4. ASSUME NEW q \in Reports
        PROVE  /\ report'[q].status \in {"absent", "queued"}
                      => ~Claimed(q)' /\ agentRuns'[q] = 0
               /\ <<q, "completed">> \in notified'
                      => ~Claimed(q)' /\ report'[q].status \notin {"absent", "queued"}
               /\ agentRuns'[q] <= 1
    <2>1. CASE q = task[t].report
      BY <1>1, <2>1 DEF ReportOK
    <2>2. CASE q # task[t].report
      BY <1>2, <2>2 DEF ReportOK
    <2>3. QED BY <2>1, <2>2
  <1>5. ASSUME NEW u \in Tasks
        PROVE  /\ task'[u].step \in {"start", "agent"} => agentRuns'[task'[u].report] = 0
               /\ task'[u].step \in BeforeEnd
                      => report'[task'[u].report].status \in {"running", "failed"}
    <2>1. CASE u = t
      BY <1>2, <2>1
    <2>2. CASE u # t
      <3>1. task'[u] = task[u]
        BY <1>2, <2>2
      <3>2. task[u].step \in BeforeEnd => task[u].step \in Processing
        BY DEF BeforeEnd, Processing
      <3>3. task[u].step \in BeforeEnd => task[u].report \in Reports \ {task[t].report}
        BY <1>1, <2>2, <3>2, Constants DEF PoolOK, Shapes, BeforeEnd
      <3>4. QED BY <3>1, <3>3 DEF ReportOK
    <2>3. QED BY <2>1, <2>2
  <1>6. ArtifactMatchesStatus'
    BY <1>1 DEF ReportOK, ArtifactMatchesStatus
  <1>7. QED BY <1>3, <1>4, <1>5, <1>6 DEF ReportOK

LEMMA TasksKeepReports ==
    ASSUME PoolOK, ReportOK, NEW t \in Tasks, TaskStep(t)
    PROVE  ReportOK'
  <1> DEFINE r == task[t].report
  <1>1. task[t].step \in Processing =>
            r \in Reports /\ report[r].status \notin {"absent", "queued"}
    BY ClaimantAlone
  <1>2. ASSUME Release(t), UNCHANGED <<report, notified, agentRuns>> PROVE ReportOK'
    <2>1. \A u \in Tasks : task'[u] = task[u] \/ task'[u].step \notin Processing
      BY <1>2, Constants DEF Release, PoolOK, TypeOK, Processing
    <2>2. QED BY <1>2, <2>1, UnclaimedKeepsReports
  <1>3. CASE Claim(t)
    <2>1. CASE ~Claimable(r)
      BY <1>2, <1>3, <2>1 DEF Claim
    <2>2. CASE Claimable(r)
      <3>1. r \in Reports
        BY <1>3, Constants DEF Claim, PoolOK, Shapes
      <3>2. report[r].status = "queued" /\ ~Claimed(r) /\ agentRuns[r] = 0
            /\ <<r, "completed">> \notin notified
        BY <2>2, <3>1 DEF Claimable, ReportOK
      <3>3. /\ report'[r].status = "running" /\ ~report'[r].error
            /\ report'[r].content = report[r].content
            /\ \A q \in Reports \ {r} : report'[q] = report[q]
        <4>1. report' = [report EXCEPT ![r] = [@ EXCEPT !.status = "running", !.error = FALSE]]
          BY <1>3, <2>2 DEF Claim
        <4>2. report \in [Reports -> [status : ReportStatus, content : BOOLEAN, error : BOOLEAN]]
          BY DEF PoolOK, TypeOK
        <4>3. QED BY <3>1, <4>1, <4>2
      <3>4. ~report[r].content
        BY <3>1, <3>2 DEF ReportOK, ArtifactMatchesStatus
      <3>5. /\ task'[t].step = "start" /\ task'[t].report = r
            /\ \A u \in Tasks \ {t} : task'[u] = task[u]
            /\ UNCHANGED <<notified, agentRuns>>
        BY <1>3, <2>2 DEF Claim, Goto, PoolOK, TypeOK
      <3>6. \A u \in Tasks : task[u].step \in Processing => task[u].report # r
        BY <3>2 DEF Claimed
      <3>7. \A q : q # r => (Claimed(q)' <=> Claimed(q))
        <4>1. task[t].step \notin Processing
          BY <1>3 DEF Claim, Processing
        <4>2. QED BY <3>5, <4>1 DEF Claimed
      <3>8. \A u, v \in Tasks :
                /\ task'[u].step \in Processing /\ task'[v].step \in Processing
                /\ task'[u].report = task'[v].report
                => u = v
        BY <3>5, <3>6 DEF ReportOK
      <3>9. ASSUME NEW q \in Reports
            PROVE  /\ report'[q].status \in {"absent", "queued"}
                          => ~Claimed(q)' /\ agentRuns'[q] = 0
                   /\ <<q, "completed">> \in notified'
                          => ~Claimed(q)' /\ report'[q].status \notin {"absent", "queued"}
                   /\ agentRuns'[q] <= 1
        <4>1. CASE q = task[t].report
          BY <3>1, <3>2, <3>3, <3>5, <4>1
        <4>2. CASE q # task[t].report
          BY <3>3, <3>5, <3>7, <4>2 DEF ReportOK
        <4>3. QED BY <4>1, <4>2
      <3>10. ASSUME NEW u \in Tasks
             PROVE  /\ task'[u].step \in {"start", "agent"} => agentRuns'[task'[u].report] = 0
                    /\ task'[u].step \in BeforeEnd
                          => report'[task'[u].report].status \in {"running", "failed"}
        <4>1. CASE u = t
          BY <3>2, <3>3, <3>5, <4>1
        <4>2. CASE u # t
          <5>1. task[u].step \in BeforeEnd => task[u].report \in Reports \ {task[t].report}
            BY <3>6, Constants DEF PoolOK, Shapes, BeforeEnd, Processing
          <5>2. QED BY <3>3, <3>5, <4>2, <5>1 DEF ReportOK
        <4>3. QED BY <4>1, <4>2
      <3>11. ArtifactMatchesStatus'
        BY <3>1, <3>3, <3>4 DEF ReportOK, ArtifactMatchesStatus
      <3>12. QED BY <3>8, <3>9, <3>10, <3>11 DEF ReportOK
    <2>3. QED BY <2>1, <2>2
  <1>4. CASE StartRun(t)
    <2>1. task[t].step \in Processing /\ "agent" \in Processing /\ task[t].step \in BeforeEnd
      BY <1>4 DEF StartRun, Processing, BeforeEnd
    <2>2. report[r].status \in {"running", "failed"} /\ agentRuns[r] = 0 /\ ~report[r].content
      <3>1. report[r].status \in {"running", "failed"} /\ agentRuns[r] = 0
        BY <1>4, <2>1 DEF StartRun, ReportOK
      <3>2. QED BY <1>1, <2>1, <3>1 DEF ReportOK, ArtifactMatchesStatus
    <2>3. /\ report'[r].status = "running" /\ ~report'[r].error /\ ~report'[r].content
          /\ \A q \in Reports \ {r} : report'[q] = report[q]
      BY <1>1, <1>4, <2>1, <2>2 DEF StartRun, PoolOK, TypeOK
    <2>4. Goto(t, "agent") /\ UNCHANGED <<notified, agentRuns>>
      BY <1>4 DEF StartRun
    <2>5. QED BY <2>1, <2>2, <2>3, <2>4, ClaimantWrites
  <1>5. CASE RunAgent(t)
    <2>1. task[t].step \in Processing /\ task[t].step \in BeforeEnd
      BY <1>5 DEF RunAgent, Processing, BeforeEnd
    <2>2. PICK step \in {"complete", "fail"} : Goto(t, step)
      BY <1>5 DEF RunAgent
    <2>3. step \in Processing /\ step \notin {"start", "agent"}
      BY <2>2 DEF Processing
    <2>4. /\ task'[t].step = step
          /\ \A u \in Tasks : /\ task'[u].report = task[u].report
                              /\ task'[u].step \in Processing <=> task[u].step \in Processing
          /\ \A u \in Tasks \ {t} : task'[u] = task[u]
          /\ \A q : Claimed(q)' <=> Claimed(q)
      BY <2>1, <2>2, <2>3, ClaimantMoves
    <2>5. /\ agentRuns[r] = 0 /\ agentRuns'[r] = 1
          /\ \A q \in Reports \ {r} : agentRuns'[q] = agentRuns[q]
          /\ UNCHANGED <<report, notified>>
      BY <1>1, <1>5, <2>1 DEF RunAgent, ReportOK, PoolOK, TypeOK
    <2>6. \A u \in Tasks \ {t} : task[u].step \in Processing =>
                                   task[u].report \in Reports \ {r}
      BY <2>1, ClaimantAlone, Constants DEF PoolOK, Shapes, Processing
    <2>7. report[r].status \in {"running", "failed"}
      BY <2>1 DEF ReportOK
    <2>8. ASSUME NEW q \in Reports
          PROVE  /\ report'[q].status \in {"absent", "queued"}
                        => ~Claimed(q)' /\ agentRuns'[q] = 0
                 /\ <<q, "completed">> \in notified'
                        => ~Claimed(q)' /\ report'[q].status \notin {"absent", "queued"}
                 /\ agentRuns'[q] <= 1
      <3>1. CASE q = r
        BY <2>4, <2>5, <2>7, <3>1 DEF ReportOK
      <3>2. CASE q # r
        BY <2>4, <2>5, <3>2 DEF ReportOK
      <3>3. QED BY <3>1, <3>2
    <2>9. ASSUME NEW u \in Tasks
          PROVE  /\ task'[u].step \in {"start", "agent"} => agentRuns'[task'[u].report] = 0
                 /\ task'[u].step \in BeforeEnd
                       => report'[task'[u].report].status \in {"running", "failed"}
      <3>1. CASE u = t
        BY <2>3, <2>4, <2>5, <2>7, <3>1
      <3>2. CASE u # t
        <4>1. task[u].step \in BeforeEnd => task[u].step \in Processing
          BY DEF BeforeEnd, Processing
        <4>2. task[u].step \in {"start", "agent"} => task[u].step \in Processing
          BY DEF Processing
        <4>3. QED BY <2>4, <2>5, <2>6, <3>2, <4>1, <4>2 DEF ReportOK
      <3>3. QED BY <3>1, <3>2
    <2>10. QED BY <2>4, <2>5, <2>8, <2>9 DEF ReportOK, ArtifactMatchesStatus
  <1>6. CASE Complete(t)
    <2>1. task[t].step \in Processing /\ "notify_completed" \in Processing \ BeforeEnd
      BY <1>6 DEF Complete, Processing, BeforeEnd
    <2>2. /\ report'[r].status = "completed" /\ report'[r].content /\ ~report'[r].error
          /\ \A q \in Reports \ {r} : report'[q] = report[q]
      BY <1>1, <1>6, <2>1, RowSays DEF Complete, PoolOK
    <2>3. Goto(t, "notify_completed") /\ UNCHANGED <<notified, agentRuns>>
      BY <1>6 DEF Complete
    <2>4. QED BY <2>1, <2>2, <2>3, ClaimantWrites
  <1>7. CASE CompleteRaises(t)
    <2>1. task[t].step \in Processing /\ "fail" \in Processing \ BeforeEnd
      BY <1>7 DEF CompleteRaises, Processing, BeforeEnd
    <2>2. Goto(t, "fail") /\ UNCHANGED <<notified, agentRuns>>
      BY <1>7 DEF CompleteRaises
    <2>3. CASE UNCHANGED report
      BY <1>1, <2>1, <2>2, <2>3, ClaimantWrites DEF ReportOK, ArtifactMatchesStatus
    <2>4. CASE report' = [report EXCEPT ![r] = Row("completed", TRUE, FALSE)]
      <3>1. /\ report'[r].status = "completed" /\ report'[r].content /\ ~report'[r].error
            /\ \A q \in Reports \ {r} : report'[q] = report[q]
        BY <1>1, <2>1, <2>4, RowSays DEF PoolOK
      <3>2. QED BY <2>1, <2>2, <3>1, ClaimantWrites
    <2>5. QED BY <1>7, <2>3, <2>4 DEF CompleteRaises
  <1>8. CASE FailReport(t)
    <2>1. task[t].step \in Processing /\ "notify_failed" \in Processing \ BeforeEnd
      BY <1>8 DEF FailReport, Processing, BeforeEnd
    <2>2. /\ report'[r].status = "failed" /\ ~report'[r].content /\ report'[r].error
          /\ \A q \in Reports \ {r} : report'[q] = report[q]
      <3>1. report' = [report EXCEPT ![r] = Row("failed", FALSE, TRUE)]
        BY <1>8 DEF FailReport
      <3>2. QED BY <1>1, <2>1, <3>1, RowSays DEF PoolOK
    <2>3. Goto(t, "notify_failed") /\ UNCHANGED <<notified, agentRuns>>
      BY <1>8 DEF FailReport
    <2>4. QED BY <2>1, <2>2, <2>3, ClaimantWrites
  <1>9. CASE Notify(t)
    <2>1. task[t].step \in Processing /\ Release(t) /\ UNCHANGED <<report, agentRuns>>
      BY <1>9 DEF Notify, Processing
    <2>2. notified' \subseteq notified \cup {<<r, "completed">>, <<r, "failed">>}
      BY <1>9 DEF Notify, Announced
    <2>3. /\ \A u \in Tasks \ {t} : task'[u] = task[u]
          /\ task'[t].step \notin Processing
      BY <2>1, Constants DEF Release, PoolOK, TypeOK, Processing
    <2>4. \A q : Claimed(q)' => Claimed(q)
      BY <2>3 DEF Claimed
    <2>5. \A q : q = r => ~Claimed(q)'
      <3>1. \A u \in Tasks \ {t} : task[u].step \in Processing => task[u].report # r
        BY <2>1, ClaimantAlone
      <3>2. QED BY <2>3, <3>1 DEF Claimed
    <2>6. \A q \in Reports : <<q, "completed">> \in notified' =>
              ~Claimed(q)' /\ report'[q].status \notin {"absent", "queued"}
      BY <1>1, <2>1, <2>2, <2>4, <2>5 DEF ReportOK
    <2>7. BeforeEnd \subseteq Processing /\ {"start", "agent"} \subseteq Processing
      BY DEF BeforeEnd, Processing
    <2>8. QED BY <2>1, <2>3, <2>4, <2>6, <2>7 DEF ReportOK, ArtifactMatchesStatus
  <1>10. CASE TaskRaises(t)
    BY <1>2, <1>10 DEF TaskRaises
  <1>11. QED BY <1>3, <1>4, <1>5, <1>6, <1>7, <1>8, <1>9, <1>10 DEF TaskStep

-----------------------------------------------------------------------------
(* The theorems.                                                            *)

LEMMA InitIInv == Init => IInv
  <1> SUFFICES ASSUME Init PROVE IInv
    OBVIOUS
  <1>1. TypeOK
    BY Constants DEF Init, TypeOK, Row, NoTask, ReportStatus, CallerSteps, LoopSteps, TaskSteps
  <1>2. Shapes
    BY DEF Init, Shapes
  <1>3. \A w \in Workers : Active(w) = {}
    BY Constants DEF Init, Active
  <1>4. Counted
    <2>1. \A w \in Workers : Cardinality(Active(w)) = 0
      BY <1>3, FS_EmptySet
    <2>2. \A w \in Workers : permits[w] = MaxConcurrency /\ loop[w] = "idle"
      BY DEF Init
    <2>3. PermitsConserved
      BY <2>1, <2>2, Constants DEF PermitsConserved
    <2>4. QED BY <1>3, <2>3 DEF Counted
  <1>5. \A t \in Tasks : task[t].step \notin Processing \cup BeforeEnd
    BY Constants DEF Init, Processing, BeforeEnd
  <1>6. ReportOK
    BY <1>5 DEF Init, ReportOK, Claimed, ArtifactMatchesStatus, Row, BeforeEnd, Processing
  <1>7. QED BY <1>1, <1>2, <1>4, <1>6 DEF IInv, PoolOK

LEMMA NextIInv == IInv /\ [Next]_vars => IInv'
  <1> SUFFICES ASSUME PoolOK, ReportOK, [Next]_vars PROVE PoolOK' /\ ReportOK'
    BY DEF IInv
  <1>1. CASE \E c \in Callers : CreateReport(c) \/ CallerStep(c) \/ CallerCrash(c)
    BY <1>1, CallersKeepPool, CallersKeepReports
  <1>2. CASE \E w \in Workers : LoopStep(w) \/ Stop(w) \/ WorkerCrash(w)
    BY <1>2, LoopsKeepPool, LoopsKeepReports
  <1>3. CASE \E t \in Tasks : TaskStep(t)
    BY <1>3, TasksKeepPool, TasksKeepReports
  <1>4. CASE UNCHANGED vars
    BY <1>4 DEF vars, workerVars, PoolOK, TypeOK, Shapes, Counted, PermitsConserved, Active,
                ReportOK, Claimed, ArtifactMatchesStatus
  <1>5. QED BY <1>1, <1>2, <1>3, <1>4 DEF Next

\* The inductive invariant.
LEMMA IInvHolds == Spec => []IInv
  BY InitIInv, NextIInv, PTL DEF Spec

\* Every variable keeps its type.
THEOREM TypeCorrect == Spec => []TypeOK
  <1>1. IInv => TypeOK
    BY DEF IInv, PoolOK
  <1>2. QED BY <1>1, IInvHolds, PTL

\* However pops are lost, claims are skipped, processing raises and workers stop,
\* crash and restart, no permit of a running worker's semaphore is lost or doubled.
THEOREM PermitsAreConserved == Spec => []PermitsConserved
  <1>1. IInv => PermitsConserved
    BY DEF IInv, PoolOK, Counted
  <1>2. QED BY <1>1, IInvHolds, PTL

\* However often the task of a report was pushed, for any number of workers and
\* coroutines, one coroutine gets past its claim at a time and the agent runs once.
THEOREM AgentRunsAtMostOnce == Spec => []AgentRunsOnce
  <1>1. IInv => AgentRunsOnce
    BY DEF IInv, ReportOK, AgentRunsOnce
  <1>2. QED BY <1>1, IInvHolds, PTL

\* Late failure marks included, the artifact always agrees with the status.
THEOREM ArtifactAgrees == Spec => []ArtifactMatchesStatus
  <1>1. IInv => ArtifactMatchesStatus
    BY DEF IInv, ReportOK
  <1>2. QED BY <1>1, IInvHolds, PTL

\* Which steps may change the row of a completed report.
LEMMA StableStep ==
    ASSUME IInv, [Next]_vars, NEW r \in Reports,
           report[r].status = "completed", report'[r] # report[r]
    PROVE  /\ report'[r].status = "failed"
           /\ \/ \E c \in Manual : caller[c].step = "mark_failed" /\ caller[c].report = r
              \/ \E t \in Tasks : /\ task[t].step = "fail" /\ task[t].report = r
                                  /\ <<r, "completed">> \notin notified
  <1> USE DEF IInv
  <1>1. ASSUME NEW c \in Callers, CreateReport(c) \/ CallerStep(c) \/ CallerCrash(c)
        PROVE  /\ report'[r].status = "failed"
               /\ \E d \in Manual : caller[d].step = "mark_failed" /\ caller[d].report = r
    <2>1. ~CreateReport(c)
      BY DEF CreateReport, PoolOK, TypeOK
    <2>2. MarkEnqueueFailed(c)
      BY <1>1, <2>1 DEF CallerStep, EnqueueOk, EnqueueError, CallerCrash
    <2>3. caller[c].report \in Reports /\ c \in Manual /\ caller[c].step = "mark_failed"
      BY <2>2 DEF MarkEnqueueFailed, PoolOK, Shapes
    <2>4. report' = [report EXCEPT ![caller[c].report] = Row("failed", FALSE, TRUE)]
      BY <2>2 DEF MarkEnqueueFailed
    <2>5. /\ report'[caller[c].report].status = "failed"
          /\ \A q \in Reports \ {caller[c].report} : report'[q] = report[q]
      BY <2>3, <2>4, RowSays DEF PoolOK
    <2>6. QED BY <2>3, <2>5
  <1>2. ~\E w \in Workers : LoopStep(w) \/ Stop(w) \/ WorkerCrash(w)
    BY DEF LoopStep, Acquire, Dispatch, DequeueNothing, Exit, Restart, Stop, WorkerCrash
  <1>3. ASSUME NEW t \in Tasks, TaskStep(t)
        PROVE  /\ report'[r].status = "failed"
               /\ \E u \in Tasks : /\ task[u].step = "fail" /\ task[u].report = r
                                   /\ <<r, "completed">> \notin notified
    <2>1. ASSUME task[t].step \in BeforeEnd, task[t].report = r PROVE FALSE
      BY <2>1 DEF ReportOK
    <2>2. ~Claim(t)
      BY DEF Claim, Claimable, PoolOK, TypeOK
    <2>3. ~StartRun(t) /\ ~Complete(t) /\ ~CompleteRaises(t)
      BY <2>1 DEF StartRun, Complete, CompleteRaises, BeforeEnd, PoolOK, TypeOK
    <2>4. FailReport(t)
      BY <1>3, <2>2, <2>3 DEF TaskStep, RunAgent, Notify, TaskRaises
    <2>5. task[t].step \in Processing /\ task[t].step = "fail"
          /\ report' = [report EXCEPT ![task[t].report] = Row("failed", FALSE, TRUE)]
      BY <2>4 DEF FailReport, Processing
    <2>6. task[t].report \in Reports /\ <<task[t].report, "completed">> \notin notified
      BY <2>5, ClaimantAlone
    <2>7. /\ report'[task[t].report].status = "failed"
          /\ \A q \in Reports \ {task[t].report} : report'[q] = report[q]
      BY <2>5, <2>6, RowSays DEF PoolOK
    <2>8. QED BY <2>5, <2>6, <2>7
  <1>4. ~UNCHANGED vars
    BY DEF vars
  <1>5. QED BY <1>1, <1>2, <1>3, <1>4 DEF Next

\* A completed report is overwritten only by the late failure mark of its own
\* manual request or of the coroutine that completed it, before it is announced.
THEOREM CompletedStays == Spec => CompletedIsStable
  <1>1. IInv /\ [Next]_vars =>
            [\A r \in Reports :
                report[r].status = "completed" /\ report'[r] # report[r] =>
                    /\ report'[r].status = "failed"
                    /\ \/ \E c \in Manual : /\ caller[c].step = "mark_failed"
                                            /\ caller[c].report = r
                       \/ \E t \in Tasks : /\ task[t].step = "fail"
                                           /\ task[t].report = r
                                           /\ <<r, "completed">> \notin notified]_vars
    BY StableStep
  <1>2. QED BY <1>1, IInvHolds, PTL DEF Spec, CompletedIsStable

===============================================================================
