--------------------- MODULE StockResearchDispatchProofs ---------------------
(****************************************************************************)
(* What holds of the dispatcher for every number of schedules, invocations  *)
(* and clients: first with crashes at any step, ambiguous enqueues and      *)
(* invocations that outlive their locks (Timely and CrashPoints are left    *)
(* open), then what needs locks that are not outlived (Timely) and, for the *)
(* two theorems after that, invocations that do not die at one named step.  *)
(* The last part is about the calculator: it returns the first occurrence   *)
(* after the given instant, for every definition and every instant, and so  *)
(* meets what the dispatcher assumes of it.                                 *)
(****************************************************************************)
EXTENDS StockResearchDispatch, ScheduleCalculator, TLAPS

\* The steps of an invocation that works on one schedule.
Busy == {"stale", "retry", "advance"} \cup Owning

\* A request that is about to be written names a schedule.
EditNamesSchedule ==
    \A c \in Clients : edit[c] = NoRequest \/ edit[c].sched \in Schedules

\* A schedule that exists names an occurrence; only creation starts from an
\* absent one.
ScheduleNamesOccurrence ==
    /\ \A s \in Schedules :
          schedule[s].status # "absent" => schedule[s].next \in Occurrences
    /\ \A c \in Clients :
          edit[c] # NoRequest /\ edit[c].next = Keep =>
              schedule[edit[c].sched].status # "absent"

\* What an invocation works on is an occurrence that was due.
WorkIsDue ==
    /\ \A d \in Dispatchers : \A k \in todo[d] : k[2] <= clock
    /\ \A d \in Dispatchers :
          pc[d] \in Busy => cur[d] \in RunKeys /\ cur[d][2] <= clock

\* The local report id belongs to the occurrence being dispatched, and has
\* been pushed when the invocation goes on to mark the run queued.
LocalReport(d) ==
    /\ pc[d] \in {"attach", "enqueue", "mark_failed", "mark_queued", "advance"} =>
            mine[d] \in Reports /\ origin[mine[d]] = cur[d]
    /\ pc[d] \in {"mark_queued", "advance"} => mine[d] \in enqueued

\* A run names only reports created for it, and one that is queued or has
\* been passed by its schedule has a report in the queue.
RunReport ==
    \A k \in RunKeys :
        /\ run[k].report # NoReport => origin[run[k].report] = k
        /\ run[k].status = "queued" => run[k].report \in enqueued

\* Runs are inserted without a report.
AbsentHasNoReport ==
    \A k \in RunKeys : run[k].status = "absent" => run[k].report = NoReport

\* The inductive invariant.
IInv ==
    /\ TypeOK
    /\ EditNamesSchedule
    /\ ScheduleNamesOccurrence
    /\ WorkIsDue
    /\ \A d \in Dispatchers : LocalReport(d)
    /\ RunReport
    /\ AbsentHasNoReport
    /\ NoOccurrenceSkipped

-----------------------------------------------------------------------------
\* The null key names no run.
LEMMA NoKeyIsNoRun == NoKey \notin RunKeys
BY NullAssumption DEF NoKey, RunKeys

\* A run key is a schedule and an occurrence.
LEMMA KeyTime ==
    \A k \in RunKeys : k[1] \in Schedules /\ k[2] \in Nat /\ k[2] \in Occurrences
BY NextRunAssumption DEF RunKeys

\* The invariant holds initially.
LEMMA InitIInv == Init => IInv
<1> SUFFICES ASSUME Init PROVE IInv
  OBVIOUS
<1> USE NullAssumption, ClockAssumption, NextRunAssumption DEF Init
<1>1. TypeOK
  BY DEF TypeOK, Times, NoSchedule, NoRun, NoRequest, Unborn, Statuses,
         RunStatuses, Steps
<1>2. EditNamesSchedule /\ ScheduleNamesOccurrence /\ WorkIsDue
  BY DEF EditNamesSchedule, ScheduleNamesOccurrence, NoSchedule, WorkIsDue, Busy,
         Owning
<1>3. (\A d \in Dispatchers : LocalReport(d)) /\ RunReport /\ AbsentHasNoReport
        /\ NoOccurrenceSkipped
  BY DEF LocalReport, RunReport, AbsentHasNoReport, NoOccurrenceSkipped, NoRun
<1>4. QED BY <1>1, <1>2, <1>3 DEF IInv

\* One lemma per group of steps: time, users, claims, reports, ends.
LEMMA TickIInv == IInv /\ Tick => IInv'
<1> SUFFICES ASSUME IInv, Tick PROVE IInv'
  OBVIOUS
<1> USE ClockAssumption DEF IInv, Tick, dbVars, dispVars
<1>1. TypeOK' /\ EditNamesSchedule' /\ ScheduleNamesOccurrence'
  BY DEF TypeOK, EditNamesSchedule, ScheduleNamesOccurrence, Times
<1>2. WorkIsDue'
  <2>1. \A t \in Nat : t <= clock => t <= clock'
    BY DEF TypeOK, Times
  <2>2. \A d \in Dispatchers : \A k \in todo[d] : k[2] <= clock'
    BY <2>1, KeyTime DEF WorkIsDue, TypeOK
  <2>3. \A d \in Dispatchers :
           pc[d] \in Busy => cur[d] \in RunKeys /\ cur[d][2] <= clock'
    BY <2>1, KeyTime DEF WorkIsDue
  <2>4. QED BY <2>2, <2>3 DEF WorkIsDue
<1>3. (\A d \in Dispatchers : LocalReport(d)') /\ RunReport' /\ AbsentHasNoReport'
        /\ NoOccurrenceSkipped'
  BY DEF LocalReport, RunReport, AbsentHasNoReport, NoOccurrenceSkipped
<1>4. QED BY <1>1, <1>2, <1>3

\* A user reads a schedule and prepares a write.
LEMMA BeginEditIInv ==
    ASSUME IInv, NEW c \in Clients, NEW s \in Schedules,
           \/ \E n \in Occurrences : BeginCreate(c, s, n)
           \/ \E request \in Requests : BeginEdit(c, s, request)
    PROVE  IInv'
<1> USE DEF IInv, dbVars, dispVars
<1>1. PICK e \in [sched : {s}, status : (Statuses \ {"absent"}) \cup {Keep},
                  next : Occurrences \cup {Keep}] :
          edit' = [edit EXCEPT ![c] = e]
  BY DEF BeginCreate, BeginEdit, Requests, Statuses
<1>2. UNCHANGED <<clock, dbVars, dispVars, failures>>
  BY DEF BeginCreate, BeginEdit
<1>3. TypeOK' /\ EditNamesSchedule' /\ ScheduleNamesOccurrence'
  <2>1. TypeOK' /\ EditNamesSchedule'
    BY <1>1, <1>2 DEF TypeOK, EditNamesSchedule
  <2>2. edit'[c].next = Keep => schedule[s].status # "absent"
    <3>1. CASE \E n \in Occurrences : BeginCreate(c, s, n)
      <4>1. PICK n \in Occurrences : BeginCreate(c, s, n)
        BY <3>1
      <4>2. edit'[c].next = n
        BY <4>1 DEF BeginCreate, TypeOK
      <4>3. QED BY <4>2, NullAssumption
    <3>2. CASE \E request \in Requests : BeginEdit(c, s, request)
      BY <3>2 DEF BeginEdit
    <3>3. QED BY <3>1, <3>2
  <2>3. ScheduleNamesOccurrence'
    BY <1>1, <1>2, <2>2 DEF ScheduleNamesOccurrence, TypeOK
  <2>4. QED BY <2>1, <2>3
<1>4. WorkIsDue' /\ (\A d \in Dispatchers : LocalReport(d)') /\ RunReport'
        /\ AbsentHasNoReport' /\ NoOccurrenceSkipped'
  BY <1>2 DEF WorkIsDue, LocalReport, RunReport, AbsentHasNoReport,
         NoOccurrenceSkipped
<1>5. QED BY <1>3, <1>4

\* The write of an edit.
LEMMA CommitEditIInv ==
    ASSUME IInv, NEW c \in Clients, CommitEdit(c) PROVE IInv'
<1> USE DEF IInv, dispVars
<1>1. TypeOK'
  <2>1. edit[c].sched \in Schedules
    BY DEF CommitEdit, EditNamesSchedule
  <2>2. Updated(schedule[edit[c].sched], edit[c])
            \in [status : Statuses, next : Occurrences \cup {0}]
    BY <2>1 DEF Updated, TypeOK
  <2>3. schedule' \in [Schedules -> [status : Statuses, next : Occurrences \cup {0}]]
    BY <2>2 DEF CommitEdit, TypeOK
  <2>4. edit' \in [Clients -> [sched : Schedules \cup {Keep},
                              status : (Statuses \ {"absent"}) \cup {Keep},
                              next : Occurrences \cup {Keep}]]
    BY DEF CommitEdit, TypeOK, NoRequest
  <2>5. QED BY <2>3, <2>4 DEF CommitEdit, TypeOK
<1>2. EditNamesSchedule' /\ ScheduleNamesOccurrence'
  <2>1. EditNamesSchedule'
    BY DEF CommitEdit, EditNamesSchedule, TypeOK
  <2>2. \A s \in Schedules :
           /\ schedule'[s].status # "absent" => schedule'[s].next \in Occurrences
           /\ schedule[s].status # "absent" => schedule'[s].status # "absent"
    BY DEF CommitEdit, Updated, TypeOK, EditNamesSchedule, ScheduleNamesOccurrence
  <2>3. ScheduleNamesOccurrence'
    BY <2>2 DEF CommitEdit, ScheduleNamesOccurrence, EditNamesSchedule, TypeOK
  <2>4. QED BY <2>1, <2>3
<1>3. WorkIsDue' /\ (\A d \in Dispatchers : LocalReport(d)') /\ RunReport'
        /\ AbsentHasNoReport' /\ NoOccurrenceSkipped'
  BY DEF CommitEdit, WorkIsDue, LocalReport, RunReport, AbsentHasNoReport,
         NoOccurrenceSkipped
<1>4. QED BY <1>1, <1>2, <1>3
\* An invocation reads its batch of due schedules.
LEMMA StartIInv ==
    ASSUME IInv, NEW d \in Dispatchers, Start(d) PROVE IInv'
<1> USE DEF IInv, Start, dbVars
<1>1. PICK batch \in SUBSET Due : todo' = [todo EXCEPT ![d] = batch]
  OBVIOUS
<1>2. Due \subseteq RunKeys /\ \A k \in Due : k[2] <= clock
  <2>1. SUFFICES ASSUME NEW s \in Schedules, schedule[s].status = "active",
                        schedule[s].next <= clock
                 PROVE  <<s, schedule[s].next>> \in RunKeys
    BY DEF Due
  <2>2. schedule[s].next \in Occurrences
    BY <2>1 DEF TypeOK, ScheduleNamesOccurrence
  <2>3. QED BY <2>2 DEF RunKeys
<1>3. TypeOK' /\ EditNamesSchedule' /\ ScheduleNamesOccurrence'
  BY <1>1, <1>2 DEF TypeOK, EditNamesSchedule, ScheduleNamesOccurrence, Steps
<1>4. WorkIsDue'
  BY <1>1, <1>2 DEF WorkIsDue, Busy, Owning, TypeOK
<1>5. (\A e \in Dispatchers : LocalReport(e)') /\ RunReport' /\ AbsentHasNoReport'
        /\ NoOccurrenceSkipped'
  BY DEF LocalReport, RunReport, AbsentHasNoReport, NoOccurrenceSkipped, TypeOK
<1>6. QED BY <1>3, <1>4, <1>5
\* The three claims: on success the run is dispatching, with the report it
\* already names, and the invocation takes that report over.
LEMMA ClaimIInv ==
    ASSUME IInv, NEW d \in Dispatchers,
           CreateRun(d) \/ ClaimStale(d) \/ ClaimEnqueueFailed(d)
    PROVE  IInv'
<1> USE DEF IInv
<1> DEFINE Row == [status : RunStatuses, report : Reports \cup {NoReport}, lock : Nat]
<1>1. Expiry(d) \in Nat
  BY ClockAssumption DEF Expiry, TypeOK, Times
<1>2. UNCHANGED <<clock, schedule, origin, enqueued, advanced, edit, now, failures>>
  BY DEF CreateRun, ClaimStale, ClaimEnqueueFailed
<1>3. /\ todo' \in [Dispatchers -> SUBSET RunKeys]
      /\ \A e \in Dispatchers : todo'[e] \subseteq todo[e]
  BY DEF CreateRun, ClaimStale, ClaimEnqueueFailed, TypeOK
<1>4. PICK k \in RunKeys :
        /\ k[2] <= clock
        /\ cur' \in {[cur EXCEPT ![d] = k], [cur EXCEPT ![d] = NoKey], cur}
        /\ cur'[d] = k \/ pc'[d] = "next"
        /\ run' = run \/ \E l \in Nat :
              run' = [run EXCEPT ![k] = [status |-> "dispatching",
                                         report |-> run[k].report, lock |-> l]]
        /\ mine' \in {mine, [mine EXCEPT ![d] = NoReport],
                      [mine EXCEPT ![d] = run[k].report]}
        /\ pc' \in {[pc EXCEPT ![d] = "next"], [pc EXCEPT ![d] = "stale"],
                    [pc EXCEPT ![d] = "retry"], [pc EXCEPT ![d] = "create"]}
           \/ /\ pc' = [pc EXCEPT ![d] = "enqueue"]
              /\ mine' = [mine EXCEPT ![d] = run[k].report]
              /\ run[k].report # NoReport
  <2>1. CASE CreateRun(d)
    <3>1. PICK k \in todo[d] :
            IF run[k].status = "absent"
            THEN /\ run' = [run EXCEPT ![k] = [status |-> "dispatching",
                                               report |-> NoReport,
                                               lock   |-> Expiry(d)]]
                 /\ Own(d, k, NoReport)
            ELSE /\ pc' = [pc EXCEPT ![d] = "stale"]
                 /\ cur' = [cur EXCEPT ![d] = k]
                 /\ UNCHANGED <<run, mine>>
      BY <2>1 DEF CreateRun
    <3>2. k \in RunKeys /\ k[2] <= clock
      BY DEF TypeOK, WorkIsDue
    <3>3. run[k].status = "absent" => run[k].report = NoReport
      BY <3>2 DEF AbsentHasNoReport
    <3>4. cur' = [cur EXCEPT ![d] = k] /\ cur'[d] = k
      BY <3>1 DEF Own, TypeOK
    <3>5. CASE run[k].status = "absent"
      BY <3>1, <3>2, <3>3, <3>4, <3>5, <1>1 DEF Own
    <3>6. CASE run[k].status # "absent"
      BY <3>1, <3>2, <3>4, <3>6
    <3>7. QED BY <3>5, <3>6
  <2>2. CASE ClaimStale(d)
    <3>1. cur[d] \in RunKeys /\ cur[d][2] <= clock
      BY <2>2 DEF ClaimStale, WorkIsDue, Busy
    <3>2. CASE IsStale(d)
      <4>1. run' = [run EXCEPT ![cur[d]] = [status |-> "dispatching",
                        report |-> run[cur[d]].report, lock |-> Expiry(d)]]
        BY <2>2, <3>1, <3>2, <1>1 DEF ClaimStale, IsStale, TypeOK
      <4>2. QED BY <2>2, <3>1, <3>2, <4>1, <1>1 DEF ClaimStale, Own, TypeOK
    <3>3. CASE ~IsStale(d)
      BY <2>2, <3>1, <3>3 DEF ClaimStale, TypeOK
    <3>4. QED BY <3>2, <3>3
  <2>3. CASE ClaimEnqueueFailed(d)
    <3>1. cur[d] \in RunKeys /\ cur[d][2] <= clock
      BY <2>3 DEF ClaimEnqueueFailed, WorkIsDue, Busy
    <3>2. CASE run[cur[d]].status = "enqueue_failed"
      <4>1. run' = [run EXCEPT ![cur[d]] = [status |-> "dispatching",
                        report |-> run[cur[d]].report, lock |-> Expiry(d)]]
        BY <2>3, <3>1, <3>2, <1>1 DEF ClaimEnqueueFailed, TypeOK
      <4>2. QED BY <2>3, <3>1, <3>2, <4>1, <1>1 DEF ClaimEnqueueFailed, Own, TypeOK
    <3>3. CASE run[cur[d]].status # "enqueue_failed"
      BY <2>3, <3>1, <3>3 DEF ClaimEnqueueFailed, Leave, TypeOK
    <3>4. QED BY <3>2, <3>3
  <2>4. QED BY <2>1, <2>2, <2>3
<1>5. run' \in [RunKeys -> Row]
  BY <1>4 DEF TypeOK, RunStatuses
<1>6. TypeOK'
  <2>1. pc' \in [Dispatchers -> Steps]
    BY <1>4 DEF TypeOK, Steps, Owning
  <2>2. cur' \in [Dispatchers -> RunKeys \cup {NoKey}]
    BY <1>4 DEF TypeOK
  <2>3. mine' \in [Dispatchers -> Reports \cup {NoReport}]
    BY <1>4 DEF TypeOK
  <2>4. QED BY <1>2, <1>3, <1>5, <2>1, <2>2, <2>3 DEF TypeOK
<1>7. EditNamesSchedule' /\ ScheduleNamesOccurrence' /\ NoOccurrenceSkipped'
  BY <1>2 DEF EditNamesSchedule, ScheduleNamesOccurrence, NoOccurrenceSkipped
<1>8. WorkIsDue'
  <2>1. \A e \in Dispatchers : \A key \in todo'[e] : key[2] <= clock'
    BY <1>2, <1>3 DEF WorkIsDue
  <2>2. \A e \in Dispatchers : e # d => pc'[e] = pc[e] /\ cur'[e] = cur[e]
    BY <1>4 DEF TypeOK
  <2>3. pc'[d] \in Busy => cur'[d] = k
    BY <1>4 DEF Busy, Owning
  <2>4. ASSUME NEW e \in Dispatchers, pc'[e] \in Busy
        PROVE  cur'[e] \in RunKeys /\ cur'[e][2] <= clock'
    BY <1>2, <1>4, <2>2, <2>3, <2>4 DEF WorkIsDue
  <2>5. QED BY <2>1, <2>4 DEF WorkIsDue
<1>9. (\A e \in Dispatchers : LocalReport(e)')
  BY <1>2, <1>4 DEF LocalReport, RunReport, TypeOK
<1>10. RunReport'
  BY <1>2, <1>4 DEF RunReport, TypeOK
<1>11. AbsentHasNoReport'
  BY <1>4 DEF AbsentHasNoReport, TypeOK
<1>12. QED BY <1>6, <1>7, <1>8, <1>9, <1>10, <1>11
\* The owner of a run creates a report.
LEMMA CreateReportIInv ==
    ASSUME IInv, NEW d \in Dispatchers, CreateReport(d) PROVE IInv'
<1> USE DEF IInv
<1>1. PICK r \in Reports : /\ origin[r] = Unborn
                           /\ origin' = [origin EXCEPT ![r] = cur[d]]
                           /\ mine' = [mine EXCEPT ![d] = r]
  BY DEF CreateReport
<1>2. cur[d] \in RunKeys
  BY DEF CreateReport, WorkIsDue, Busy, Owning
<1>3. \A q \in Reports : origin[q] # Unborn => origin'[q] = origin[q]
  BY <1>1 DEF TypeOK
<1>4. TypeOK'
  BY <1>1, <1>2 DEF CreateReport, TypeOK, Steps, Owning
<1>5. EditNamesSchedule' /\ ScheduleNamesOccurrence' /\ WorkIsDue' /\ AbsentHasNoReport'
  BY DEF CreateReport, EditNamesSchedule, ScheduleNamesOccurrence, WorkIsDue,
         AbsentHasNoReport, Busy, Owning, TypeOK
<1>6. ASSUME NEW e \in Dispatchers PROVE LocalReport(e)'
  <2>1. CASE e = d
    BY <1>1, <2>1 DEF CreateReport, LocalReport, TypeOK
  <2>2. CASE e # d
    <3>1. /\ pc'[e] = pc[e] /\ mine'[e] = mine[e] /\ cur'[e] = cur[e]
          /\ enqueued' = enqueued
      BY <1>1, <2>2 DEF CreateReport, TypeOK
    <3>2. pc[e] \in {"attach", "enqueue", "mark_failed", "mark_queued", "advance"}
             => cur[e] \in RunKeys
      BY DEF WorkIsDue, Busy, Owning
    <3>3. QED BY <1>3, <3>1, <3>2, NoKeyIsNoRun DEF LocalReport, Unborn
  <2>3. QED BY <2>1, <2>2
<1>7. RunReport' /\ NoOccurrenceSkipped'
  <2>1. RunReport'
    BY <1>3, NoKeyIsNoRun DEF CreateReport, RunReport, Unborn, TypeOK
  <2>2. NoOccurrenceSkipped'
    BY <1>3, NoKeyIsNoRun DEF CreateReport, NoOccurrenceSkipped, Unborn, TypeOK
  <2>3. QED BY <2>1, <2>2
<1>8. QED BY <1>4, <1>5, <1>6, <1>7

\* The report is attached to the run, or the lock is gone.
LEMMA AttachReportIInv ==
    ASSUME IInv, NEW d \in Dispatchers, AttachReport(d) PROVE IInv'
<1> USE DEF IInv
<1>1. /\ cur[d] \in RunKeys /\ mine[d] \in Reports /\ origin[mine[d]] = cur[d]
  BY DEF AttachReport, WorkIsDue, LocalReport, Busy, Owning
<1>2. TypeOK'
  BY <1>1 DEF AttachReport, TypeOK, Steps, Owning
<1>3. /\ EditNamesSchedule' /\ ScheduleNamesOccurrence' /\ WorkIsDue'
      /\ NoOccurrenceSkipped'
  BY DEF AttachReport, EditNamesSchedule, ScheduleNamesOccurrence, WorkIsDue,
         NoOccurrenceSkipped, Busy, Owning, TypeOK
<1>4. \A e \in Dispatchers : LocalReport(e)'
  BY <1>1 DEF AttachReport, LocalReport, TypeOK
<1>5. RunReport' /\ AbsentHasNoReport'
  BY <1>1 DEF AttachReport, RunReport, AbsentHasNoReport, TypeOK
<1>6. QED BY <1>2, <1>3, <1>4, <1>5

\* The report is pushed, with or without a reply.
LEMMA EnqueueIInv ==
    ASSUME IInv, NEW d \in Dispatchers, EnqueueOk(d) \/ EnqueueError(d) PROVE IInv'
<1> USE DEF IInv
<1>1. cur[d] \in RunKeys /\ mine[d] \in Reports /\ origin[mine[d]] = cur[d]
  BY DEF EnqueueOk, EnqueueError, WorkIsDue, LocalReport, Busy, Owning
<1>2. UNCHANGED <<clock, schedule, run, origin, advanced, edit, now, todo, cur, mine>>
  BY DEF EnqueueOk, EnqueueError
<1>3. /\ enqueued \subseteq enqueued' /\ enqueued' \subseteq enqueued \cup {mine[d]}
      /\ pc' = [pc EXCEPT ![d] = "mark_queued"] => mine[d] \in enqueued'
      /\ \/ pc' = [pc EXCEPT ![d] = "mark_queued"]
         \/ pc' = [pc EXCEPT ![d] = "mark_failed"]
  <2>1. CASE EnqueueOk(d)
    BY <2>1 DEF EnqueueOk
  <2>2. CASE EnqueueError(d)
    <3>1. [pc EXCEPT ![d] = "mark_failed"][d] = "mark_failed"
      BY DEF TypeOK
    <3>2. [pc EXCEPT ![d] = "mark_queued"][d] = "mark_queued"
      BY DEF TypeOK
    <3>3. pc' # [pc EXCEPT ![d] = "mark_queued"]
      BY <2>2, <3>1, <3>2 DEF EnqueueError
    <3>4. QED BY <2>2, <3>3 DEF EnqueueError
  <2>3. QED BY <2>1, <2>2
<1>4. TypeOK'
  <2>1. failures' \in 0 .. MaxFailures
    BY ClockAssumption DEF EnqueueOk, EnqueueError, TypeOK
  <2>2. pc' \in [Dispatchers -> Steps] /\ enqueued' \subseteq Reports
    BY <1>1, <1>3 DEF TypeOK, Steps, Owning
  <2>3. QED BY <1>2, <2>1, <2>2 DEF TypeOK
<1>5. EditNamesSchedule' /\ ScheduleNamesOccurrence' /\ AbsentHasNoReport'
  BY <1>2 DEF EditNamesSchedule, ScheduleNamesOccurrence, AbsentHasNoReport
<1>6. WorkIsDue'
  BY <1>1, <1>2, <1>3 DEF WorkIsDue, EnqueueOk, EnqueueError, Busy, Owning, TypeOK
<1>7. \A e \in Dispatchers : LocalReport(e)'
  <2>1. LocalReport(d)'
    BY <1>1, <1>2, <1>3 DEF LocalReport, TypeOK
  <2>2. ASSUME NEW e \in Dispatchers, e # d PROVE LocalReport(e)'
    <3>1. pc'[e] = pc[e]
      BY <1>3, <2>2 DEF TypeOK
    <3>2. QED BY <1>2, <1>3, <3>1 DEF LocalReport
  <2>3. QED BY <2>1, <2>2
<1>8. RunReport' /\ NoOccurrenceSkipped'
  BY <1>2, <1>3 DEF RunReport, NoOccurrenceSkipped
<1>9. QED BY <1>4, <1>5, <1>6, <1>7, <1>8

\* The run is marked queued or failed.
LEMMA MarkIInv ==
    ASSUME IInv, NEW d \in Dispatchers, MarkQueued(d) \/ MarkEnqueueFailed(d)
    PROVE  IInv'
<1> USE DEF IInv
<1>1. /\ cur[d] \in RunKeys /\ cur[d][2] <= clock
      /\ mine[d] \in Reports /\ origin[mine[d]] = cur[d]
  BY DEF MarkQueued, MarkEnqueueFailed, WorkIsDue, LocalReport, Busy, Owning
<1>2. UNCHANGED <<clock, schedule, origin, enqueued, advanced, edit, now, todo, failures>>
  BY DEF MarkQueued, MarkEnqueueFailed
<1>3. run' = run \/ \E status \in {"queued", "enqueue_failed"} :
          /\ run' = [run EXCEPT ![cur[d]].status = status, ![cur[d]].report = mine[d]]
          /\ status = "queued" => mine[d] \in enqueued
  <2>1. MarkQueued(d) => mine[d] \in enqueued
    BY DEF MarkQueued, LocalReport
  <2>2. QED BY <2>1 DEF MarkQueued, MarkEnqueueFailed, MarkTerminal
<1>4. \/ /\ pc' = [pc EXCEPT ![d] = "advance"]
         /\ UNCHANGED <<cur, mine>>
         /\ mine[d] \in enqueued
      \/ Leave(d)
  BY DEF MarkQueued, MarkEnqueueFailed, LocalReport
<1>5. TypeOK'
  <2>1. run' \in [RunKeys -> [status : RunStatuses,
                              report : Reports \cup {NoReport}, lock : Nat]]
    <3> DEFINE Runs == [status : RunStatuses, report : Reports \cup {NoReport},
                        lock : Nat]
    <3>1. run \in [RunKeys -> Runs]
      BY DEF TypeOK
    <3>2. ASSUME NEW status \in {"queued", "enqueue_failed"},
                 run' = [run EXCEPT ![cur[d]].status = status,
                                    ![cur[d]].report = mine[d]]
          PROVE  run' \in [RunKeys -> Runs]
      <4>1. run[cur[d]] \in Runs /\ status \in RunStatuses
        BY <1>1, <3>1 DEF RunStatuses
      <4>2. [[run[cur[d]] EXCEPT !.status = status] EXCEPT !.report = mine[d]] \in Runs
        BY <1>1, <4>1
      <4> HIDE DEF Runs
      <4>3. QED BY <1>1, <3>1, <3>2, <4>2
    <3>3. QED BY <1>3, <3>1, <3>2
  <2>2. /\ pc' \in [Dispatchers -> Steps]
        /\ cur' \in [Dispatchers -> RunKeys \cup {NoKey}]
        /\ mine' \in [Dispatchers -> Reports \cup {NoReport}]
    BY <1>4 DEF TypeOK, Leave, Steps
  <2>3. QED BY <1>2, <2>1, <2>2 DEF TypeOK
<1>6. EditNamesSchedule' /\ ScheduleNamesOccurrence' /\ NoOccurrenceSkipped'
  BY <1>2 DEF EditNamesSchedule, ScheduleNamesOccurrence, NoOccurrenceSkipped
<1>7. ASSUME NEW e \in Dispatchers, e # d
      PROVE  pc'[e] = pc[e] /\ cur'[e] = cur[e] /\ mine'[e] = mine[e]
  BY <1>4, <1>7 DEF Leave, TypeOK
<1>8. WorkIsDue'
  <2>1. pc'[d] \in Busy => cur'[d] \in RunKeys /\ cur'[d][2] <= clock'
    BY <1>1, <1>2, <1>4 DEF Leave, Busy, Owning, TypeOK
  <2>2. QED BY <1>2, <1>7, <2>1 DEF WorkIsDue
<1>9. \A e \in Dispatchers : LocalReport(e)'
  <2>1. LocalReport(d)'
    BY <1>1, <1>2, <1>4 DEF LocalReport, Leave, TypeOK
  <2>2. QED BY <1>2, <1>7, <2>1 DEF LocalReport
<1>10. RunReport' /\ AbsentHasNoReport'
  <2>1. \A k \in RunKeys : k # cur[d] => run'[k] = run[k]
    BY <1>1, <1>3 DEF TypeOK
  <2>2. \/ run'[cur[d]] = run[cur[d]]
        \/ /\ run'[cur[d]].report = mine[d]
           /\ run'[cur[d]].status \in {"queued", "enqueue_failed"}
           /\ run'[cur[d]].status = "queued" => mine[d] \in enqueued
    <3>1. ASSUME NEW status \in {"queued", "enqueue_failed"},
                 run' = [run EXCEPT ![cur[d]].status = status,
                                    ![cur[d]].report = mine[d]]
          PROVE  run'[cur[d]].status = status /\ run'[cur[d]].report = mine[d]
      <4>1. run[cur[d]] \in [status : RunStatuses, report : Reports \cup {NoReport},
                             lock : Nat]
        BY <1>1 DEF TypeOK
      <4>2. QED BY <1>1, <3>1, <4>1 DEF TypeOK
    <3>2. QED BY <1>3, <3>1
  <2>3. RunReport'
    BY <1>1, <1>2, <2>1, <2>2 DEF RunReport
  <2>4. AbsentHasNoReport'
    BY <2>1, <2>2 DEF AbsentHasNoReport
  <2>5. QED BY <2>3, <2>4
<1>11. QED BY <1>5, <1>6, <1>8, <1>9, <1>10

\* The schedule advances, if it still names the occurrence.
LEMMA AdvanceIInv ==
    ASSUME IInv, NEW d \in Dispatchers, Advance(d) PROVE IInv'
<1> USE DEF IInv
<1>1. /\ cur[d] \in RunKeys /\ cur[d][1] \in Schedules /\ cur[d][2] \in Times
      /\ mine[d] \in enqueued /\ mine[d] \in Reports /\ origin[mine[d]] = cur[d]
  BY KeyTime, ClockAssumption DEF Advance, WorkIsDue, LocalReport, Busy, TypeOK, Times
<1>2. NextRun[cur[d][2]] \in Occurrences
  BY <1>1, NextRunAssumption
<1>3. UNCHANGED <<clock, run, origin, enqueued, edit, now, todo, failures>> /\ Leave(d)
  BY DEF Advance
<1>4. \/ UNCHANGED <<schedule, advanced>>
      \/ /\ schedule' = [schedule EXCEPT ![cur[d][1]].next = NextRun[cur[d][2]]]
         /\ advanced' = advanced \cup {cur[d]}
  BY DEF Advance
<1>5. TypeOK'
  <2>1. schedule' \in [Schedules -> [status : Statuses, next : Occurrences \cup {0}]]
    <3>1. CASE UNCHANGED schedule
      BY <3>1 DEF TypeOK
    <3>2. CASE schedule' = [schedule EXCEPT ![cur[d][1]].next = NextRun[cur[d][2]]]
      BY <1>1, <1>2, <3>2 DEF TypeOK
    <3>3. QED BY <1>4, <3>1, <3>2
  <2>2. advanced' \subseteq RunKeys
    BY <1>1, <1>4 DEF TypeOK
  <2>3. QED BY <1>3, <2>1, <2>2 DEF TypeOK, Leave, Steps
<1>6. EditNamesSchedule' /\ ScheduleNamesOccurrence'
  <2>1. ASSUME NEW s \in Schedules
        PROVE  /\ schedule'[s].status = schedule[s].status
               /\ schedule'[s].next \in {schedule[s].next, NextRun[cur[d][2]]}
    <3>1. schedule[s] \in [status : Statuses, next : Occurrences \cup {0}]
      BY DEF TypeOK
    <3>2. CASE UNCHANGED schedule
      BY <3>2
    <3>3. CASE schedule' = [schedule EXCEPT ![cur[d][1]].next = NextRun[cur[d][2]]]
      BY <1>1, <3>1, <3>3 DEF TypeOK
    <3>4. QED BY <1>4, <3>2, <3>3
  <2>2. EditNamesSchedule'
    BY <1>3 DEF EditNamesSchedule
  <2>3. ScheduleNamesOccurrence'
    BY <1>2, <1>3, <2>1 DEF ScheduleNamesOccurrence, EditNamesSchedule
  <2>4. QED BY <2>2, <2>3
<1>7. WorkIsDue' /\ \A e \in Dispatchers : LocalReport(e)'
  <2>1. pc'[d] = "next"
    BY <1>3 DEF Leave, TypeOK
  <2>2. ASSUME NEW e \in Dispatchers, e # d
        PROVE  pc'[e] = pc[e] /\ cur'[e] = cur[e] /\ mine'[e] = mine[e]
    BY <1>3, <2>2 DEF Leave, TypeOK
  <2>3. WorkIsDue'
    BY <1>3, <2>1, <2>2 DEF WorkIsDue, Busy, Owning
  <2>4. \A e \in Dispatchers : LocalReport(e)'
    BY <1>3, <2>1, <2>2 DEF LocalReport
  <2>5. QED BY <2>3, <2>4
<1>8. RunReport' /\ AbsentHasNoReport'
  BY <1>3 DEF RunReport, AbsentHasNoReport
<1>9. NoOccurrenceSkipped'
  BY <1>1, <1>3, <1>4 DEF NoOccurrenceSkipped
<1>10. QED BY <1>5, <1>6, <1>7, <1>8, <1>9

\* An invocation ends or dies.
LEMMA EndIInv ==
    ASSUME IInv, NEW d \in Dispatchers, Finish(d) \/ Crash(d) PROVE IInv'
<1> USE DEF IInv
<1>1. Reset(d) /\ UNCHANGED <<clock, schedule, run, origin, enqueued, advanced, edit>>
  BY DEF Finish, Crash, dbVars
<1>2. TypeOK'
  <2>1. failures' \in 0 .. MaxFailures
    BY ClockAssumption DEF Finish, Crash, TypeOK
  <2>2. QED BY <1>1, <2>1, ClockAssumption DEF Reset, TypeOK, Steps, Times
<1>3. WorkIsDue' /\ \A e \in Dispatchers : LocalReport(e)'
  BY <1>1 DEF Reset, WorkIsDue, LocalReport, Busy, Owning, TypeOK
<1>4. /\ EditNamesSchedule' /\ ScheduleNamesOccurrence' /\ RunReport'
      /\ AbsentHasNoReport' /\ NoOccurrenceSkipped'
  BY <1>1 DEF EditNamesSchedule, ScheduleNamesOccurrence, RunReport,
              AbsentHasNoReport, NoOccurrenceSkipped
<1>5. QED BY <1>2, <1>3, <1>4
\* Every step keeps the invariant.
LEMMA StepIInv == IInv /\ [Next]_vars => IInv'
<1> SUFFICES ASSUME IInv, [Next]_vars PROVE IInv'
  OBVIOUS
<1>1. CASE Tick
  BY <1>1, TickIInv
<1>2. CASE \E c \in Clients, s \in Schedules, n \in Occurrences : BeginCreate(c, s, n)
  BY <1>2, BeginEditIInv
<1>3. CASE \E c \in Clients, s \in Schedules, request \in Requests :
              BeginEdit(c, s, request)
  BY <1>3, BeginEditIInv
<1>4. CASE \E c \in Clients : CommitEdit(c)
  BY <1>4, CommitEditIInv
<1>5. CASE \E d \in Dispatchers : Start(d) \/ DispatchStep(d) \/ Crash(d)
  BY <1>5, StartIInv, ClaimIInv, CreateReportIInv, AttachReportIInv, EnqueueIInv,
     MarkIInv, AdvanceIInv, EndIInv DEF DispatchStep
<1>6. CASE UNCHANGED vars
  BY <1>6 DEF vars, dbVars, dispVars, IInv, TypeOK, EditNamesSchedule,
              ScheduleNamesOccurrence, WorkIsDue, LocalReport, RunReport,
              AbsentHasNoReport, NoOccurrenceSkipped
<1>7. QED BY <1>1, <1>2, <1>3, <1>4, <1>5, <1>6 DEF Next

\* The inductive invariant holds in every reachable state, with any number of
\* overruns and crashes.
THEOREM Invariance == Spec => []IInv
<1>1. QED BY InitIInv, StepIInv, PTL DEF Spec

-----------------------------------------------------------------------------
\* The variables stay in their types: every next_run_at a schedule gets is an
\* occurrence, every claimed run one of a known schedule.
THEOREM TypeCorrect == Spec => []TypeOK
<1>1. IInv => TypeOK
  BY DEF IInv
<1>2. QED BY <1>1, Invariance, PTL

\* A run marked queued by mark_queued names a report created for that
\* occurrence and pushed to Redis, also after a takeover of its lock.
THEOREM QueuedRunCorrect == Spec => []QueuedRunIsEnqueued
<1>1. IInv => QueuedRunIsEnqueued
  <2>1. IInv => NoReport \notin enqueued
    BY NullAssumption DEF IInv, TypeOK
  <2>2. QED BY <2>1 DEF IInv, RunReport, QueuedRunIsEnqueued
<1>2. QED BY <1>1, Invariance, PTL

\* advance_next_run_at never leaves behind an occurrence without a report in
\* the worker queue.
THEOREM NoOccurrenceSkippedCorrect == Spec => []NoOccurrenceSkipped
<1>1. IInv => NoOccurrenceSkipped
  BY DEF IInv
<1>2. QED BY <1>1, Invariance, PTL

\* A queued run keeps its status and its report whatever late or retrying
\* dispatchers do: every write of a run is conditional on its status.
THEOREM QueuedFinal == Spec => QueuedIsFinal
<1> DEFINE Keeps(k) == run[k].status = "queued" => run'[k].status = "queued"
                                                /\ run'[k].report = run[k].report
<1>1. IInv /\ [Next]_vars => [\A k \in RunKeys : Keeps(k)]_vars
  <2> SUFFICES ASSUME IInv, Next, NEW k \in RunKeys, run[k].status = "queued"
               PROVE  run'[k].status = "queued" /\ run'[k].report = run[k].report
    OBVIOUS
  <2> USE DEF IInv, TypeOK
  <2>1. CASE UNCHANGED run
    BY <2>1
  <2>2. ASSUME NEW d \in Dispatchers,
               CreateRun(d) \/ ClaimStale(d) \/ ClaimEnqueueFailed(d)
        PROVE  run'[k] = run[k]
    BY <2>2 DEF CreateRun, ClaimStale, IsStale, ClaimEnqueueFailed
  <2>3. ASSUME NEW d \in Dispatchers,
               AttachReport(d) \/ MarkQueued(d) \/ MarkEnqueueFailed(d)
        PROVE  run'[k] = run[k]
    BY <2>3 DEF AttachReport, MarkQueued, MarkEnqueueFailed, MarkTerminal
  <2>4. QED BY <2>1, <2>2, <2>3
            DEF Next, DispatchStep, Tick, BeginCreate, BeginEdit, CommitEdit, Start,
                CreateReport, EnqueueOk, EnqueueError, Advance, Finish, Crash, dbVars
<1>2. QED BY <1>1, Invariance, PTL DEF Spec, QueuedIsFinal

\* A deleted schedule is never written again: edits are refused and a
\* dispatcher advances active schedules only.
THEOREM DeletedFinal == Spec => DeletedIsFinal
<1>1. IInv /\ [Next]_vars => [\A s \in Schedules : schedule[s].status = "deleted" =>
                                  schedule'[s] = schedule[s]]_vars
  <2> SUFFICES ASSUME IInv, Next, NEW s \in Schedules, schedule[s].status = "deleted"
               PROVE  schedule'[s] = schedule[s]
    OBVIOUS
  <2> USE DEF IInv, TypeOK
  <2>1. CASE UNCHANGED schedule
    BY <2>1
  <2>2. ASSUME NEW c \in Clients, CommitEdit(c) PROVE schedule'[s] = schedule[s]
    BY <2>2 DEF CommitEdit, Writable
  <2>3. ASSUME NEW d \in Dispatchers, Advance(d) PROVE schedule'[s] = schedule[s]
    BY <2>3 DEF Advance, Advances
  <2>4. QED BY <2>1, <2>2, <2>3
            DEF Next, DispatchStep, Tick, BeginCreate, BeginEdit, Start, CreateRun,
                ClaimStale, ClaimEnqueueFailed, CreateReport, AttachReport, EnqueueOk,
                EnqueueError, MarkQueued, MarkEnqueueFailed, Finish, Crash, dbVars
<1>2. QED BY <1>1, Invariance, PTL DEF Spec, DeletedIsFinal

-----------------------------------------------------------------------------
(* While nothing in flight outlives its lock or its "now" (Timely), the lock *)
(* excludes; the rest follows from it and from where an invocation may die.  *)

\* No invocation has outlived its locks and no edit its new next_run_at.
InTime ==
    /\ \A d \in Dispatchers :
          pc[d] # "idle" => now[d] <= clock /\ clock < now[d] + LockSeconds
    /\ \A c \in Clients : edit[c].next # Keep => clock < edit[c].next

\* Who owns a run holds its lock, and the run is not marked yet.
OwnsRun ==
    \A d \in Dispatchers : pc[d] \in Owning =>
        run[cur[d]].status = "dispatching" /\ run[cur[d]].lock = Expiry(d)

LockInv == IInv /\ InTime /\ OwnsRun /\ ExclusiveDispatch

\* An owner works with the report of its run; every report belongs to its run
\* or is about to be attached to it.
OwnsReport ==
    \A d \in Dispatchers :
        /\ pc[d] \in {"create", "attach"} => run[cur[d]].report = NoReport
        /\ pc[d] \in {"enqueue", "mark_queued", "mark_failed"} =>
              run[cur[d]].report = mine[d]
ReportIsAttached ==
    \A r \in Reports : origin[r] # Unborn =>
        \/ run[origin[r]].report = r
        \/ \E d \in Dispatchers : pc[d] = "attach" /\ cur[d] = origin[r] /\ mine[d] = r

ReportInv == LockInv /\ OwnsReport /\ ReportIsAttached

\* Only a pause or a deletion leaves next_run_at alone.
KeepIsInactive ==
    \A c \in Clients : edit[c] # NoRequest /\ edit[c].next = Keep =>
        edit[c].status \in {"paused", "deleted"}

\* What was ever dispatched, or is about to be, is not later than the
\* occurrence its schedule names.
Handled(k) ==
    \/ run[k].status # "absent"
    \/ \E d \in Dispatchers : k \in todo[d] \/ cur[d] = k
HandledIsPast ==
    \A k \in RunKeys : Handled(k) => k[2] <= clock /\ k[2] <= schedule[k[1]].next

StuckInv == IInv /\ InTime /\ KeepIsInactive /\ HandledIsPast /\ NoStuckSchedule

-----------------------------------------------------------------------------
\* An invocation does not touch the local variables of another one.
LEMMA OthersKeepTheirs ==
    ASSUME TypeOK, NEW d \in Dispatchers, NEW e \in Dispatchers, e # d,
           Start(d) \/ DispatchStep(d) \/ Crash(d)
    PROVE  /\ pc'[e] = pc[e] /\ cur'[e] = cur[e] /\ mine'[e] = mine[e]
           /\ todo'[e] = todo[e] /\ now'[e] = now[e]
<1> USE DEF TypeOK
<1>1. CASE Start(d)
  BY <1>1 DEF Start
<1>2. CASE CreateRun(d)
  BY <1>2 DEF CreateRun, Own
<1>3. CASE ClaimStale(d) \/ ClaimEnqueueFailed(d)
  BY <1>3 DEF ClaimStale, ClaimEnqueueFailed, Own, Leave
<1>4. CASE CreateReport(d) \/ AttachReport(d) \/ EnqueueOk(d) \/ EnqueueError(d)
  BY <1>4 DEF CreateReport, AttachReport, EnqueueOk, EnqueueError
<1>5. CASE MarkEnqueueFailed(d) \/ MarkQueued(d) \/ Advance(d)
  BY <1>5 DEF MarkEnqueueFailed, MarkQueued, Advance, Leave
<1>6. CASE Finish(d) \/ Crash(d)
  BY <1>6 DEF Finish, Crash, Reset
<1>7. QED BY <1>1, <1>2, <1>3, <1>4, <1>5, <1>6 DEF DispatchStep

\* Under Timely no lock and no new next_run_at expires.
LEMMA InTimeKept == ASSUME Timely, IInv, InTime, [Next]_vars PROVE InTime'
<1> USE ClockAssumption DEF IInv, TypeOK, Times
<1>1. CASE Tick
  BY <1>1 DEF Tick, InTime, dbVars, dispVars
<1>2. ASSUME NEW c \in Clients, NEW s \in Schedules,
             \/ \E n \in Occurrences : BeginCreate(c, s, n)
             \/ \E request \in Requests : BeginEdit(c, s, request)
      PROVE  InTime'
  <2>1. edit'[c].next # Keep => clock < edit'[c].next
    BY <1>2, NextRunAssumption DEF BeginCreate, BeginEdit
  <2>2. \A other \in Clients : other # c => edit'[other] = edit[other]
    BY <1>2 DEF BeginCreate, BeginEdit
  <2>3. UNCHANGED <<clock, pc, now>>
    BY <1>2 DEF BeginCreate, BeginEdit, dbVars, dispVars
  <2>4. QED BY <2>1, <2>2, <2>3 DEF InTime
<1>3. ASSUME NEW c \in Clients, CommitEdit(c) PROVE InTime'
  BY <1>3 DEF CommitEdit, InTime, NoRequest, dispVars
<1>4. ASSUME NEW d \in Dispatchers, Start(d) \/ DispatchStep(d) \/ Crash(d)
      PROVE  InTime'
  <2>1. UNCHANGED <<clock, edit>>
    BY <1>4 DEF Start, DispatchStep, CreateRun, ClaimStale, ClaimEnqueueFailed,
                CreateReport, AttachReport, EnqueueOk, EnqueueError,
                MarkEnqueueFailed, MarkQueued, Advance, Finish, Crash
  <2>2. pc'[d] # "idle" => now'[d] <= clock /\ clock < now'[d] + LockSeconds
    <3>1. CASE Start(d)
      BY <3>1 DEF Start
    <3>2. CASE DispatchStep(d) /\ ~Finish(d)
      BY <3>2 DEF DispatchStep, CreateRun, ClaimStale, ClaimEnqueueFailed,
                  CreateReport, AttachReport, EnqueueOk, EnqueueError,
                  MarkEnqueueFailed, MarkQueued, Advance, InTime
    <3>3. CASE Finish(d) \/ Crash(d)
      BY <3>3 DEF Finish, Crash, Reset
    <3>4. QED BY <1>4, <3>1, <3>2, <3>3
  <2>3. QED BY <1>4, <2>1, <2>2, OthersKeepTheirs DEF InTime
<1>5. CASE UNCHANGED vars
  BY <1>5 DEF vars, dispVars, InTime
<1>6. QED BY <1>1, <1>2, <1>3, <1>4, <1>5 DEF Next

\* A run that is claimed has no owner: a run nobody has inserted, one whose
\* enqueue failed, or one whose lock is over.
LEMMA ClaimedIsFree ==
    ASSUME LockInv, NEW d \in Dispatchers, NEW k \in RunKeys,
           \/ run[k].status # "dispatching"
           \/ pc[d] # "idle" /\ run[k].lock <= now[d],
           NEW e \in Dispatchers, pc[e] \in Owning
    PROVE  cur[e] # k
<1> SUFFICES ASSUME cur[e] = k PROVE FALSE
  OBVIOUS
<1>1. run[k].status = "dispatching" /\ run[k].lock = now[e] + LockSeconds
  BY DEF LockInv, OwnsRun, Expiry
<1>2. pc[e] # "idle"
  BY DEF Owning
<1>3. now[d] \in Nat /\ now[e] \in Nat /\ clock \in Nat
  BY ClockAssumption DEF LockInv, IInv, TypeOK, Times
<1>4. QED BY <1>1, <1>2, <1>3, ClockAssumption DEF LockInv, InTime

\* After a claim the claimant, and nobody else, owns the run.
LEMMA ClaimKeepsLock ==
    ASSUME LockInv, NEW d \in Dispatchers,
           CreateRun(d) \/ ClaimStale(d) \/ ClaimEnqueueFailed(d)
    PROVE  OwnsRun' /\ ExclusiveDispatch'
<1> USE DEF LockInv, IInv
<1>1. now' = now /\ clock' = clock
  BY DEF CreateRun, ClaimStale, ClaimEnqueueFailed
<1>2. PICK k \in RunKeys :
        \/ /\ run' = run /\ pc'[d] \notin Owning
        \/ /\ \A e \in Dispatchers : pc[e] \in Owning => cur[e] # k
           /\ \A other \in RunKeys \ {k} : run'[other] = run[other]
           /\ run'[k].status = "dispatching" /\ run'[k].lock = Expiry(d)
           /\ cur'[d] = k
  <2>1. CASE CreateRun(d)
    <3>1. PICK k \in todo[d] :
            IF run[k].status = "absent"
            THEN /\ run' = [run EXCEPT ![k] = [status |-> "dispatching",
                                               report |-> NoReport,
                                               lock   |-> Expiry(d)]]
                 /\ Own(d, k, NoReport)
            ELSE /\ pc' = [pc EXCEPT ![d] = "stale"]
                 /\ cur' = [cur EXCEPT ![d] = k]
                 /\ UNCHANGED <<run, mine>>
      BY <2>1 DEF CreateRun
    <3>2. k \in RunKeys
      BY DEF TypeOK
    <3>3. CASE run[k].status = "absent"
      BY <3>1, <3>2, <3>3, ClaimedIsFree DEF Own, TypeOK
    <3>4. CASE run[k].status # "absent"
      BY <3>1, <3>2, <3>4 DEF TypeOK, Owning
    <3>5. QED BY <3>3, <3>4
  <2>2. CASE ClaimStale(d)
    <3>1. cur[d] \in RunKeys
      BY <2>2 DEF ClaimStale, WorkIsDue, Busy
    <3>2. CASE IsStale(d)
      <4>1. \A e \in Dispatchers : pc[e] \in Owning => cur[e] # cur[d]
        BY <2>2, <3>1, <3>2, ClaimedIsFree DEF ClaimStale, IsStale
      <4>2. run' = [run EXCEPT ![cur[d]].lock = Expiry(d)] /\ cur'[d] = cur[d]
        BY <2>2, <3>1, <3>2 DEF ClaimStale, Own, TypeOK
      <4>3. run[cur[d]].status = "dispatching"
        BY <3>2 DEF IsStale
      <4>4. QED BY <3>1, <4>1, <4>2, <4>3 DEF TypeOK
    <3>3. CASE ~IsStale(d)
      BY <2>2, <3>1, <3>3 DEF ClaimStale, TypeOK, Owning
    <3>4. QED BY <3>2, <3>3
  <2>3. CASE ClaimEnqueueFailed(d)
    <3>1. cur[d] \in RunKeys
      BY <2>3 DEF ClaimEnqueueFailed, WorkIsDue, Busy
    <3>2. CASE run[cur[d]].status = "enqueue_failed"
      <4>1. \A e \in Dispatchers : pc[e] \in Owning => cur[e] # cur[d]
        BY <3>1, <3>2, ClaimedIsFree
      <4>2. /\ run' = [run EXCEPT ![cur[d]].status = "dispatching",
                                  ![cur[d]].lock = Expiry(d)]
            /\ cur'[d] = cur[d]
        BY <2>3, <3>1, <3>2 DEF ClaimEnqueueFailed, Own, TypeOK
      <4>3. run[cur[d]] \in [status : RunStatuses, report : Reports \cup {NoReport},
                             lock : Nat]
        BY <3>1 DEF TypeOK
      <4>4. QED BY <3>1, <4>1, <4>2, <4>3 DEF TypeOK
    <3>3. CASE run[cur[d]].status # "enqueue_failed"
      BY <2>3, <3>1, <3>3 DEF ClaimEnqueueFailed, Leave, TypeOK, Owning
    <3>4. QED BY <3>2, <3>3
  <2>4. QED BY <2>1, <2>2, <2>3
<1>3. \A e \in Dispatchers : e # d => pc'[e] = pc[e] /\ cur'[e] = cur[e]
  BY OthersKeepTheirs DEF DispatchStep
<1>4. \A e \in Dispatchers : pc[e] \in Owning => cur[e] \in RunKeys
  BY DEF WorkIsDue, Busy
<1>5. OwnsRun'
  BY <1>1, <1>2, <1>3, <1>4 DEF OwnsRun, Expiry
<1>6. ExclusiveDispatch'
  BY <1>2, <1>3 DEF ExclusiveDispatch
<1>7. QED BY <1>5, <1>6

\* While an invocation owns its run, it keeps it to itself.
LEMMA OwnerKeepsLock ==
    ASSUME LockInv, NEW d \in Dispatchers,
           \/ CreateReport(d) \/ AttachReport(d) \/ EnqueueOk(d) \/ EnqueueError(d)
           \/ MarkQueued(d) \/ MarkEnqueueFailed(d)
    PROVE  OwnsRun' /\ ExclusiveDispatch'
<1> USE DEF LockInv, IInv
<1>1. now' = now /\ clock' = clock
  BY DEF CreateReport, AttachReport, EnqueueOk, EnqueueError, MarkQueued,
         MarkEnqueueFailed
<1>2. pc[d] \in Owning /\ cur[d] \in RunKeys
  BY DEF CreateReport, AttachReport, EnqueueOk, EnqueueError, MarkQueued,
         MarkEnqueueFailed, WorkIsDue, Busy, Owning
<1>3. pc'[d] \in Owning => /\ cur'[d] = cur[d]
                           /\ run'[cur[d]].status = run[cur[d]].status
                           /\ run'[cur[d]].lock = run[cur[d]].lock
  <2>1. CASE CreateReport(d) \/ EnqueueOk(d) \/ EnqueueError(d)
    BY <2>1 DEF CreateReport, EnqueueOk, EnqueueError
  <2>2. CASE AttachReport(d)
    BY <1>2, <2>2 DEF AttachReport, TypeOK
  <2>3. CASE MarkQueued(d) \/ MarkEnqueueFailed(d)
    BY <2>3 DEF MarkQueued, MarkEnqueueFailed, Leave, TypeOK, Owning
  <2>4. QED BY <2>1, <2>2, <2>3
<1>4. \A k \in RunKeys : k # cur[d] => run'[k] = run[k]
  BY <1>2 DEF CreateReport, AttachReport, EnqueueOk, EnqueueError, MarkQueued,
              MarkEnqueueFailed, MarkTerminal, TypeOK
<1>5. \A e \in Dispatchers : e # d => pc'[e] = pc[e] /\ cur'[e] = cur[e]
  BY OthersKeepTheirs DEF DispatchStep
<1>6. \A e \in Dispatchers : pc[e] \in Owning => cur[e] \in RunKeys
  BY DEF WorkIsDue, Busy
<1>7. \A e \in Dispatchers : e # d /\ pc[e] \in Owning => cur[e] # cur[d]
  BY <1>2 DEF ExclusiveDispatch
<1>8. OwnsRun'
  BY <1>1, <1>2, <1>3, <1>4, <1>5, <1>6, <1>7 DEF OwnsRun, Expiry
<1>9. ExclusiveDispatch'
  BY <1>2, <1>3, <1>5 DEF ExclusiveDispatch
<1>10. QED BY <1>8, <1>9

\* Steps that own nothing and write no run.
LEMMA IdleKeepsLock ==
    ASSUME LockInv, NEW d \in Dispatchers,
           Start(d) \/ Advance(d) \/ Finish(d) \/ Crash(d)
    PROVE  OwnsRun' /\ ExclusiveDispatch'
<1> USE DEF LockInv, IInv, TypeOK
<1>1. run' = run /\ pc'[d] \notin Owning
  BY DEF Start, Advance, Finish, Crash, Leave, Reset, Owning, dbVars
<1>2. \A e \in Dispatchers : e # d => pc'[e] = pc[e] /\ cur'[e] = cur[e] /\ now'[e] = now[e]
  BY OthersKeepTheirs DEF DispatchStep
<1>3. QED BY <1>1, <1>2 DEF OwnsRun, ExclusiveDispatch, Expiry

LEMMA InitLockInv == Init => LockInv
<1> SUFFICES ASSUME Init PROVE LockInv
  OBVIOUS
<1>1. InTime /\ OwnsRun /\ ExclusiveDispatch
  BY DEF Init, InTime, OwnsRun, ExclusiveDispatch, NoRequest, Owning
<1>2. QED BY <1>1, InitIInv DEF LockInv

LEMMA StepLockInv == ASSUME Timely PROVE LockInv /\ [Next]_vars => LockInv'
<1> SUFFICES ASSUME LockInv, [Next]_vars PROVE LockInv'
  OBVIOUS
<1>1. IInv' /\ InTime'
  BY StepIInv, InTimeKept DEF LockInv
<1>2. ASSUME NEW d \in Dispatchers, Start(d) \/ DispatchStep(d) \/ Crash(d)
      PROVE  OwnsRun' /\ ExclusiveDispatch'
  BY <1>2, ClaimKeepsLock, OwnerKeepsLock, IdleKeepsLock DEF DispatchStep
<1>3. Next /\ ~(\E d \in Dispatchers : Start(d) \/ DispatchStep(d) \/ Crash(d))
        => UNCHANGED <<pc, cur, now, run>>
  BY DEF Next, Tick, BeginCreate, BeginEdit, CommitEdit, dbVars, dispVars
<1>4. OwnsRun' /\ ExclusiveDispatch'
  <2>1. UNCHANGED vars => UNCHANGED <<pc, cur, now, run>>
    BY DEF vars, dbVars, dispVars
  <2>2. CASE \E d \in Dispatchers : Start(d) \/ DispatchStep(d) \/ Crash(d)
    BY <1>2, <2>2
  <2>3. CASE UNCHANGED <<pc, cur, now, run>>
    BY <2>3 DEF LockInv, OwnsRun, ExclusiveDispatch, Expiry
  <2>4. QED BY <1>3, <2>1, <2>2, <2>3
<1>5. QED BY <1>1, <1>4 DEF LockInv

\* When invocations end before their locks do, the lock of a run keeps every
\* other invocation off it between claim and terminal mark, wherever some of
\* them die.
THEOREM ExclusiveDispatchCorrect ==
    ASSUME Timely PROVE Spec => []ExclusiveDispatch
<1>1. LockInv => ExclusiveDispatch
  BY DEF LockInv
<1>2. QED BY <1>1, InitLockInv, StepLockInv, PTL DEF Spec

-----------------------------------------------------------------------------
\* What OwnsReport asks of one invocation.
OwnsItsReport(d) ==
    /\ pc[d] \in {"create", "attach"} => run[cur[d]].report = NoReport
    /\ pc[d] \in {"enqueue", "mark_queued", "mark_failed"} =>
          run[cur[d]].report = mine[d]

\* A step that attaches no report keeps both parts, if its invocation ends up
\* with the report of its run.
LEMMA ReportFrame ==
    ASSUME ReportInv, NEW d \in Dispatchers,
           Start(d) \/ DispatchStep(d) \/ Crash(d),
           \A k \in RunKeys : run'[k].report = run[k].report,
           origin' = origin, pc[d] # "attach", OwnsItsReport(d)'
    PROVE  OwnsReport' /\ ReportIsAttached'
<1>1. \A e \in Dispatchers : e # d =>
          pc'[e] = pc[e] /\ cur'[e] = cur[e] /\ mine'[e] = mine[e]
  BY OthersKeepTheirs DEF ReportInv, LockInv, IInv
<1>2. \A e \in Dispatchers :
          pc[e] \in {"create", "attach", "enqueue", "mark_queued", "mark_failed"}
              => cur[e] \in RunKeys
  BY DEF ReportInv, LockInv, IInv, WorkIsDue, Busy, Owning
<1>3. OwnsReport'
  BY <1>1, <1>2 DEF OwnsReport, OwnsItsReport, ReportInv
<1>4. \A r \in Reports : origin[r] # Unborn => origin[r] \in RunKeys
  BY DEF ReportInv, LockInv, IInv, TypeOK
<1>5. ReportIsAttached'
  BY <1>1, <1>4 DEF ReportIsAttached, ReportInv
<1>6. QED BY <1>3, <1>5

\* A claim changes no report_id and hands the run's own over.
LEMMA ClaimKeepsReports ==
    ASSUME ReportInv, NEW d \in Dispatchers,
           CreateRun(d) \/ ClaimStale(d) \/ ClaimEnqueueFailed(d)
    PROVE  OwnsReport' /\ ReportIsAttached'
<1> USE DEF ReportInv, LockInv, IInv
<1>1. \A k \in RunKeys : run[k] \in [status : RunStatuses,
                                    report : Reports \cup {NoReport}, lock : Nat]
  BY DEF TypeOK
<1>2. (\A k \in RunKeys : run'[k].report = run[k].report) /\ OwnsItsReport(d)'
  <2>1. CASE CreateRun(d)
    <3>1. PICK k \in todo[d] :
            IF run[k].status = "absent"
            THEN /\ run' = [run EXCEPT ![k] = [status |-> "dispatching",
                                               report |-> NoReport,
                                               lock   |-> Expiry(d)]]
                 /\ Own(d, k, NoReport)
            ELSE /\ pc' = [pc EXCEPT ![d] = "stale"]
                 /\ cur' = [cur EXCEPT ![d] = k]
                 /\ UNCHANGED <<run, mine>>
      BY <2>1 DEF CreateRun
    <3>2. k \in RunKeys
      BY DEF TypeOK
    <3>3. CASE run[k].status = "absent"
      <4>1. run[k].report = NoReport
        BY <3>2, <3>3 DEF AbsentHasNoReport
      <4>2. QED BY <3>1, <3>2, <3>3, <4>1 DEF Own, OwnsItsReport, TypeOK
    <3>4. CASE run[k].status # "absent"
      BY <3>1, <3>2, <3>4 DEF OwnsItsReport, TypeOK
    <3>5. QED BY <3>3, <3>4
  <2>2. CASE ClaimStale(d)
    <3>1. cur[d] \in RunKeys
      BY <2>2 DEF ClaimStale, WorkIsDue, Busy
    <3>2. CASE IsStale(d)
      <4>1. run' = [run EXCEPT ![cur[d]].lock = Expiry(d)]
            /\ Own(d, cur[d], run[cur[d]].report)
        BY <2>2, <3>2 DEF ClaimStale
      <4>2. \A k \in RunKeys : run'[k].report = run[k].report
        BY <3>1, <4>1, <1>1 DEF TypeOK
      <4>3. QED BY <3>1, <4>1, <4>2 DEF Own, OwnsItsReport, TypeOK
    <3>3. CASE ~IsStale(d)
      BY <2>2, <3>1, <3>3 DEF ClaimStale, OwnsItsReport, TypeOK
    <3>4. QED BY <3>2, <3>3
  <2>3. CASE ClaimEnqueueFailed(d)
    <3>1. cur[d] \in RunKeys
      BY <2>3 DEF ClaimEnqueueFailed, WorkIsDue, Busy
    <3>2. CASE run[cur[d]].status = "enqueue_failed"
      <4>1. /\ run' = [run EXCEPT ![cur[d]].status = "dispatching",
                                  ![cur[d]].lock = Expiry(d)]
            /\ Own(d, cur[d], run[cur[d]].report)
        BY <2>3, <3>2 DEF ClaimEnqueueFailed
      <4>2. \A k \in RunKeys : run'[k].report = run[k].report
        BY <3>1, <4>1, <1>1 DEF TypeOK
      <4>3. QED BY <3>1, <4>1, <4>2 DEF Own, OwnsItsReport, TypeOK
    <3>3. CASE run[cur[d]].status # "enqueue_failed"
      BY <2>3, <3>1, <3>3 DEF ClaimEnqueueFailed, Leave, OwnsItsReport, TypeOK
    <3>4. QED BY <3>2, <3>3
  <2>4. QED BY <2>1, <2>2, <2>3
<1>3. origin' = origin /\ pc[d] # "attach"
  BY DEF CreateRun, ClaimStale, ClaimEnqueueFailed
<1>4. QED BY <1>2, <1>3, ReportFrame DEF DispatchStep

\* A report is created for a run that has none, and attached to it.
LEMMA CreateKeepsReports ==
    ASSUME ReportInv, NEW d \in Dispatchers, CreateReport(d)
    PROVE  OwnsReport' /\ ReportIsAttached'
<1> USE DEF ReportInv, LockInv, IInv
<1>1. \A e \in Dispatchers : e # d =>
          pc'[e] = pc[e] /\ cur'[e] = cur[e] /\ mine'[e] = mine[e]
  BY OthersKeepTheirs DEF DispatchStep
<1>2. PICK r \in Reports : /\ origin[r] = Unborn
                           /\ origin' = [origin EXCEPT ![r] = cur[d]]
                           /\ mine' = [mine EXCEPT ![d] = r]
  BY DEF CreateReport
<1>3. run' = run /\ cur' = cur /\ pc[d] = "create" /\ pc'[d] = "attach"
      /\ mine'[d] = r
  BY <1>2 DEF CreateReport, TypeOK
<1>4. OwnsReport'
  BY <1>1, <1>3 DEF OwnsReport
<1>5. ASSUME NEW q \in Reports, origin'[q] # Unborn
      PROVE  \/ run'[origin'[q]].report = q
             \/ \E e \in Dispatchers :
                    pc'[e] = "attach" /\ cur'[e] = origin'[q] /\ mine'[e] = q
  <2>1. CASE q = r
    BY <1>2, <1>3, <2>1 DEF TypeOK
  <2>2. CASE q # r
    <3>1. origin'[q] = origin[q]
      BY <1>2, <2>2 DEF TypeOK
    <3>2. QED BY <1>1, <1>3, <1>5, <3>1 DEF ReportIsAttached
  <2>3. QED BY <2>1, <2>2
<1>6. QED BY <1>4, <1>5 DEF ReportIsAttached

LEMMA AttachKeepsReports ==
    ASSUME ReportInv, NEW d \in Dispatchers, AttachReport(d)
    PROVE  OwnsReport' /\ ReportIsAttached'
<1> USE DEF ReportInv, LockInv, IInv
<1>1. \A e \in Dispatchers : e # d =>
          pc'[e] = pc[e] /\ cur'[e] = cur[e] /\ mine'[e] = mine[e]
  BY OthersKeepTheirs DEF DispatchStep
<1>2. pc[d] = "attach" /\ cur[d] \in RunKeys /\ pc[d] \in Owning
  BY DEF AttachReport, WorkIsDue, Busy, Owning
<1>3. run[cur[d]].status = "dispatching" /\ run[cur[d]].report = NoReport
  BY <1>2 DEF OwnsRun, OwnsReport
<1>4. /\ run' = [run EXCEPT ![cur[d]].report = mine[d]]
      /\ pc'[d] = "enqueue" /\ cur' = cur /\ mine' = mine /\ origin' = origin
  BY <1>3 DEF AttachReport, TypeOK
<1>5. /\ run'[cur[d]].report = mine[d]
      /\ \A k \in RunKeys : k # cur[d] => run'[k] = run[k]
  BY <1>2, <1>4 DEF TypeOK
<1>6. OwnsReport'
  <2>1. \A e \in Dispatchers : e # d /\ pc[e] \in Owning =>
            cur[e] # cur[d] /\ cur[e] \in RunKeys
    BY <1>2 DEF ExclusiveDispatch, WorkIsDue, Busy
  <2>2. \A e \in Dispatchers : e # d => OwnsItsReport(e)'
    BY <1>1, <1>4, <1>5, <2>1 DEF OwnsReport, OwnsItsReport, Owning
  <2>3. OwnsItsReport(d)'
    BY <1>4, <1>5 DEF OwnsItsReport
  <2>4. QED BY <2>2, <2>3 DEF OwnsReport, OwnsItsReport
<1>7. ASSUME NEW q \in Reports, origin[q] # Unborn
      PROVE  \/ run'[origin[q]].report = q
             \/ \E e \in Dispatchers :
                    pc'[e] = "attach" /\ cur'[e] = origin[q] /\ mine'[e] = q
  <2>1. origin[q] \in RunKeys
    BY <1>7 DEF TypeOK
  <2>2. CASE run[origin[q]].report = q
    BY <1>3, <1>5, <2>1, <2>2, NullAssumption
  <2>3. ASSUME NEW e \in Dispatchers, pc[e] = "attach", cur[e] = origin[q], mine[e] = q
        PROVE  \/ run'[origin[q]].report = q
               \/ pc'[e] = "attach" /\ cur'[e] = origin[q] /\ mine'[e] = q
    BY <1>1, <1>5, <2>3
  <2>4. QED BY <1>7, <2>2, <2>3 DEF ReportIsAttached
<1>8. QED BY <1>4, <1>6, <1>7 DEF ReportIsAttached

\* A terminal mark writes the report_id the run has already.
LEMMA MarkKeepsReports ==
    ASSUME ReportInv, NEW d \in Dispatchers, MarkQueued(d) \/ MarkEnqueueFailed(d)
    PROVE  OwnsReport' /\ ReportIsAttached'
<1> USE DEF ReportInv, LockInv, IInv
<1>1. cur[d] \in RunKeys /\ run[cur[d]].report = mine[d]
  BY DEF MarkQueued, MarkEnqueueFailed, WorkIsDue, OwnsReport, Busy, Owning
<1>2. run' = run \/ \E status \in {"queued", "enqueue_failed"} :
          run' = [run EXCEPT ![cur[d]].status = status, ![cur[d]].report = mine[d]]
  BY DEF MarkQueued, MarkEnqueueFailed, MarkTerminal
<1>3. \A k \in RunKeys : run[k] \in [status : RunStatuses,
                                    report : Reports \cup {NoReport}, lock : Nat]
  BY DEF TypeOK
<1>4. \A k \in RunKeys : run'[k].report = run[k].report
  BY <1>1, <1>2, <1>3 DEF TypeOK
<1>5. pc'[d] \in {"advance", "next"} /\ origin' = origin /\ pc[d] # "attach"
  BY DEF MarkQueued, MarkEnqueueFailed, Leave, TypeOK
<1>6. OwnsItsReport(d)'
  BY <1>5 DEF OwnsItsReport
<1>7. QED BY <1>4, <1>5, <1>6, ReportFrame DEF DispatchStep

\* The other steps of an invocation touch no report_id; it does not die
\* between the creation of a report and its attachment.
LEMMA RestKeepsReports ==
    ASSUME "attach" \notin CrashPoints, ReportInv, NEW d \in Dispatchers,
           \/ EnqueueOk(d) \/ EnqueueError(d) \/ Start(d) \/ Advance(d)
           \/ Finish(d) \/ Crash(d)
    PROVE  OwnsReport' /\ ReportIsAttached'
<1> USE DEF ReportInv, LockInv, IInv
<1>1. run' = run /\ origin' = origin /\ pc[d] # "attach"
  BY DEF EnqueueOk, EnqueueError, Start, Advance, Finish, Crash, dbVars
<1>2. OwnsItsReport(d)'
  <2>1. CASE EnqueueOk(d) \/ EnqueueError(d)
    BY <2>1 DEF EnqueueOk, EnqueueError, OwnsReport, OwnsItsReport, TypeOK
  <2>2. CASE Start(d) \/ Advance(d) \/ Finish(d) \/ Crash(d)
    BY <2>2 DEF Start, Advance, Finish, Crash, Leave, Reset, OwnsItsReport, TypeOK
  <2>3. QED BY <2>1, <2>2
<1>3. QED BY <1>1, <1>2, ReportFrame DEF DispatchStep

LEMMA InitReportInv == Init => ReportInv
<1> SUFFICES ASSUME Init PROVE ReportInv
  OBVIOUS
<1>1. OwnsReport /\ ReportIsAttached
  BY DEF Init, OwnsReport, ReportIsAttached
<1>2. QED BY <1>1, InitLockInv DEF ReportInv

LEMMA StepReportInv ==
    ASSUME Timely, "attach" \notin CrashPoints
    PROVE  ReportInv /\ [Next]_vars => ReportInv'
<1> SUFFICES ASSUME ReportInv, [Next]_vars PROVE ReportInv'
  OBVIOUS
<1>1. LockInv'
  BY StepLockInv DEF ReportInv
<1>2. ASSUME NEW d \in Dispatchers, Start(d) \/ DispatchStep(d) \/ Crash(d)
      PROVE  OwnsReport' /\ ReportIsAttached'
  BY <1>2, ClaimKeepsReports, CreateKeepsReports, AttachKeepsReports,
     MarkKeepsReports, RestKeepsReports DEF DispatchStep
<1>3. UNCHANGED <<pc, cur, mine, run, origin>> => OwnsReport' /\ ReportIsAttached'
  BY DEF ReportInv, OwnsReport, ReportIsAttached, IInv
<1>4. Next /\ ~(\E d \in Dispatchers : Start(d) \/ DispatchStep(d) \/ Crash(d))
        => UNCHANGED <<pc, cur, mine, run, origin>>
  BY DEF Next, Tick, BeginCreate, BeginEdit, CommitEdit, dbVars, dispVars
<1>5. UNCHANGED vars => UNCHANGED <<pc, cur, mine, run, origin>>
  BY DEF vars, dbVars, dispVars
<1>6. QED BY <1>1, <1>2, <1>3, <1>4, <1>5 DEF ReportInv

\* When no invocation outlives its locks and none dies between create_report
\* and attach_report, one occurrence gets one report: whoever creates one owns
\* the run, the run has none yet, and every later claim finds the report there.
THEOREM OneReportCorrect ==
    ASSUME Timely, "attach" \notin CrashPoints
    PROVE  Spec => []OneReportPerOccurrence
<1>1. ReportInv => OneReportPerOccurrence
  <2> SUFFICES ASSUME ReportInv, NEW r1 \in Reports, NEW r2 \in Reports,
                      origin[r1] # Unborn, origin[r1] = origin[r2]
               PROVE  r1 = r2
    BY DEF OneReportPerOccurrence
  <2> DEFINE Attaches(d, r) == pc[d] = "attach" /\ cur[d] = origin[r] /\ mine[d] = r
  <2>1. /\ run[origin[r1]].report = r1 \/ \E d \in Dispatchers : Attaches(d, r1)
        /\ run[origin[r2]].report = r2 \/ \E d \in Dispatchers : Attaches(d, r2)
    BY DEF ReportInv, ReportIsAttached
  <2>2. \A d \in Dispatchers :
            Attaches(d, r1) \/ Attaches(d, r2) => run[origin[r1]].report = NoReport
    BY DEF ReportInv, OwnsReport
  <2>3. \A d, e \in Dispatchers : Attaches(d, r1) /\ Attaches(e, r2) => d = e
    BY DEF ReportInv, LockInv, ExclusiveDispatch, Owning
  <2>4. QED BY <2>1, <2>2, <2>3, NullAssumption
<1>2. QED BY <1>1, InitReportInv, StepReportInv, PTL DEF Spec

-----------------------------------------------------------------------------
StuckRest == KeepIsInactive /\ HandledIsPast /\ NoStuckSchedule

\* A step of an invocation that leaves the schedules alone, takes up nothing
\* new and queues a run only to advance its schedule next.
LEMMA StuckFrame ==
    ASSUME StuckInv, NEW d \in Dispatchers,
           Start(d) \/ DispatchStep(d) \/ Crash(d),
           UNCHANGED <<clock, schedule, edit>>, pc[d] # "advance",
           \A k \in RunKeys : Handled(k)' => Handled(k),
           \A k \in RunKeys : run'[k].status = "queued" =>
               run[k].status = "queued" \/ (pc'[d] = "advance" /\ cur'[d] = k)
    PROVE  StuckRest'
<1> USE DEF StuckInv, StuckRest
<1>1. \A e \in Dispatchers : e # d => pc'[e] = pc[e] /\ cur'[e] = cur[e]
  BY OthersKeepTheirs DEF IInv
<1>2. KeepIsInactive' /\ HandledIsPast'
  BY DEF KeepIsInactive, HandledIsPast
<1>3. ASSUME NEW s \in Schedules, schedule[s].status = "active",
             run'[<<s, schedule[s].next>>].status = "queued"
      PROVE  \E e \in Dispatchers :
                 pc'[e] = "advance" /\ cur'[e] = <<s, schedule[s].next>>
  <2>1. <<s, schedule[s].next>> \in RunKeys
    BY <1>3 DEF IInv, ScheduleNamesOccurrence, RunKeys
  <2>2. CASE pc'[d] = "advance" /\ cur'[d] = <<s, schedule[s].next>>
    BY <2>2
  <2>3. CASE run[<<s, schedule[s].next>>].status = "queued"
    BY <1>1, <1>3, <2>3 DEF NoStuckSchedule
  <2>4. QED BY <1>3, <2>1, <2>2, <2>3
<1>4. NoStuckSchedule'
  BY <1>3 DEF NoStuckSchedule
<1>5. QED BY <1>2, <1>4

\* An invocation takes up only what its schedule names.
LEMMA StartKeepsStuck ==
    ASSUME StuckInv, NEW d \in Dispatchers, Start(d) PROVE StuckRest'
<1> USE DEF StuckInv, StuckRest
<1>1. UNCHANGED <<clock, schedule, run, edit, cur>> /\ pc[d] # "advance"
  BY DEF Start, dbVars
<1>2. \A e \in Dispatchers : e # d =>
          pc'[e] = pc[e] /\ cur'[e] = cur[e] /\ todo'[e] = todo[e]
  BY OthersKeepTheirs DEF IInv
<1>3. \A k \in todo'[d] : k[2] <= clock /\ k[2] <= schedule[k[1]].next
  <2>1. todo'[d] \subseteq Due
    BY DEF Start, IInv, TypeOK
  <2>2. ASSUME NEW s \in Schedules, schedule[s].status = "active",
               schedule[s].next <= clock
        PROVE  schedule[s].next <= schedule[s].next
    <3>1. schedule[s].next \in Nat
      BY <2>2, NextRunAssumption DEF IInv, ScheduleNamesOccurrence
    <3>2. QED BY <3>1
  <2>3. QED BY <2>1, <2>2 DEF Due
<1>4. HandledIsPast'
  BY <1>1, <1>2, <1>3 DEF HandledIsPast, Handled
<1>5. KeepIsInactive'
  BY <1>1 DEF KeepIsInactive
<1>6. NoStuckSchedule'
  BY <1>1, <1>2 DEF NoStuckSchedule
<1>7. QED BY <1>4, <1>5, <1>6

\* Claims concern runs already taken up and queue none.
LEMMA ClaimKeepsStuck ==
    ASSUME StuckInv, NEW d \in Dispatchers,
           CreateRun(d) \/ ClaimStale(d) \/ ClaimEnqueueFailed(d)
    PROVE  StuckRest'
<1> USE DEF StuckInv, IInv
<1>1. \A k \in RunKeys : run[k] \in [status : RunStatuses,
                                    report : Reports \cup {NoReport}, lock : Nat]
  BY DEF TypeOK
<1>2. /\ \A k \in RunKeys :
            run'[k].status = run[k].status
            \/ (run'[k].status = "dispatching" /\ (k \in todo[d] \/ cur[d] = k))
      /\ todo'[d] \subseteq todo[d]
      /\ cur'[d] \in todo[d] \/ cur'[d] = cur[d] \/ cur'[d] = NoKey
  <2>1. CASE CreateRun(d)
    BY <2>1 DEF CreateRun, Own, TypeOK
  <2>2. CASE ClaimStale(d)
    <3>1. cur[d] \in RunKeys
      BY <2>2 DEF ClaimStale, WorkIsDue, Busy
    <3>2. QED BY <2>2, <3>1, <1>1 DEF ClaimStale, IsStale, Own, TypeOK
  <2>3. CASE ClaimEnqueueFailed(d)
    <3>1. cur[d] \in RunKeys
      BY <2>3 DEF ClaimEnqueueFailed, WorkIsDue, Busy
    <3>2. CASE run[cur[d]].status = "enqueue_failed"
      BY <2>3, <3>1, <3>2, <1>1 DEF ClaimEnqueueFailed, Own, TypeOK
    <3>3. CASE run[cur[d]].status # "enqueue_failed"
      BY <2>3, <3>1, <3>3 DEF ClaimEnqueueFailed, Leave, TypeOK
    <3>4. QED BY <3>2, <3>3
  <2>4. QED BY <2>1, <2>2, <2>3
<1>3. \A e \in Dispatchers : e # d => cur'[e] = cur[e] /\ todo'[e] = todo[e]
  BY OthersKeepTheirs DEF DispatchStep
<1>4. \A k \in RunKeys : Handled(k)' => Handled(k)
  BY <1>2, <1>3, NoKeyIsNoRun DEF Handled
<1>5. \A k \in RunKeys : run'[k].status = "queued" => run[k].status = "queued"
  BY <1>2
<1>6. UNCHANGED <<clock, schedule, edit>> /\ pc[d] # "advance"
  BY DEF CreateRun, ClaimStale, ClaimEnqueueFailed
<1>7. QED BY <1>4, <1>5, <1>6, StuckFrame DEF DispatchStep

\* The steps of an owner; only a mark_queued queues a run, and the advance of
\* its schedule comes next.
LEMMA OwnerKeepsStuck ==
    ASSUME StuckInv, NEW d \in Dispatchers,
           \/ CreateReport(d) \/ AttachReport(d) \/ EnqueueOk(d) \/ EnqueueError(d)
           \/ MarkQueued(d) \/ MarkEnqueueFailed(d)
    PROVE  StuckRest'
<1> USE DEF StuckInv, IInv
<1>1. \A k \in RunKeys : run[k] \in [status : RunStatuses,
                                    report : Reports \cup {NoReport}, lock : Nat]
  BY DEF TypeOK
<1>2. cur[d] \in RunKeys
  BY DEF CreateReport, AttachReport, EnqueueOk, EnqueueError, MarkQueued,
         MarkEnqueueFailed, WorkIsDue, Busy, Owning
<1>3. /\ \A k \in RunKeys :
            \/ run'[k].status = run[k].status
            \/ cur[d] = k /\ run'[k].status = "enqueue_failed"
            \/ cur[d] = k /\ pc'[d] = "advance" /\ cur'[d] = k
      /\ cur'[d] \in {cur[d], NoKey}
  <2>1. CASE CreateReport(d) \/ EnqueueOk(d) \/ EnqueueError(d)
    BY <2>1 DEF CreateReport, EnqueueOk, EnqueueError
  <2>2. CASE AttachReport(d)
    BY <1>1, <1>2, <2>2 DEF AttachReport, TypeOK
  <2>3. CASE MarkQueued(d)
    BY <1>1, <1>2, <2>3 DEF MarkQueued, MarkTerminal, TypeOK
  <2>4. CASE MarkEnqueueFailed(d)
    BY <1>1, <1>2, <2>4 DEF MarkEnqueueFailed, MarkTerminal, Leave, TypeOK
  <2>5. QED BY <2>1, <2>2, <2>3, <2>4
<1>4. UNCHANGED <<clock, schedule, edit, todo>> /\ pc[d] # "advance"
  BY DEF CreateReport, AttachReport, EnqueueOk, EnqueueError, MarkQueued,
         MarkEnqueueFailed
<1>5. \A e \in Dispatchers : e # d => cur'[e] = cur[e]
  BY OthersKeepTheirs DEF DispatchStep
<1>6. \A k \in RunKeys : Handled(k)' => Handled(k)
  BY <1>2, <1>3, <1>4, <1>5, NoKeyIsNoRun DEF Handled
<1>7. QED BY <1>3, <1>4, <1>6, StuckFrame DEF DispatchStep

\* An advance moves on to a later occurrence, which nobody has taken up.
LEMMA AdvanceKeepsStuck ==
    ASSUME StuckInv, NEW d \in Dispatchers, Advance(d) PROVE StuckRest'
<1> USE DEF StuckInv, IInv
<1>1. /\ cur[d] \in RunKeys /\ cur[d] = <<cur[d][1], cur[d][2]>>
      /\ cur[d][1] \in Schedules /\ cur[d][2] \in Times
  BY KeyTime, ClockAssumption
     DEF Advance, WorkIsDue, Busy, TypeOK, Times, RunKeys
<1>2. \A e \in Dispatchers : e # d => pc'[e] = pc[e] /\ cur'[e] = cur[e]
  BY OthersKeepTheirs DEF DispatchStep
<1>3. UNCHANGED <<clock, run, edit, todo>> /\ pc'[d] = "next" /\ cur'[d] = NoKey
  BY DEF Advance, Leave, TypeOK
<1>4. \A k \in RunKeys : Handled(k)' => Handled(k)
  BY <1>2, <1>3, NoKeyIsNoRun DEF Handled
<1>5. KeepIsInactive'
  BY <1>3 DEF KeepIsInactive
<1>6. CASE Advances(cur[d][1], cur[d][2])
  <2> DEFINE s == cur[d][1]
             o == cur[d][2]
  <2>1. /\ schedule[s].status = "active" /\ schedule[s].next = o
        /\ schedule' = [schedule EXCEPT ![s].next = NextRun[o]]
    BY <1>6 DEF Advance, Advances
  <2>2. NextRun[o] \in Occurrences /\ NextRun[o] > o /\ o \in Nat /\ NextRun[o] \in Nat
    <3>1. cur[d][2] \in Times /\ cur[d][2] \in Nat
      BY <1>1, KeyTime
    <3>2. NextRun[cur[d][2]] \in Occurrences /\ NextRun[cur[d][2]] > cur[d][2]
      BY <3>1, NextRunAssumption
    <3>3. QED BY <3>1, <3>2, NextRunAssumption
  <2>3. /\ schedule'[s].next = NextRun[o]
        /\ \A other \in Schedules : other # s => schedule'[other] = schedule[other]
    BY <1>1, <2>1 DEF TypeOK
  <2>4. HandledIsPast'
    <3>1. SUFFICES ASSUME NEW k \in RunKeys, Handled(k)
                   PROVE  k[2] <= clock /\ k[2] <= schedule'[k[1]].next
      BY <1>3, <1>4 DEF HandledIsPast
    <3>2. k[2] <= clock /\ k[2] <= schedule[k[1]].next
      BY <3>1 DEF HandledIsPast
    <3>3. k[1] \in Schedules /\ k[2] \in Nat
      BY KeyTime
    <3>4. QED BY <2>1, <2>2, <2>3, <3>2, <3>3
  <2>5. run[<<s, NextRun[o]>>].status = "absent"
    <3>1. <<s, NextRun[o]>> \in RunKeys
      BY <1>1, <2>2 DEF RunKeys
    <3>2. ~Handled(<<s, NextRun[o]>>)
      BY <2>1, <2>2, <3>1 DEF HandledIsPast
    <3>3. QED BY <3>2 DEF Handled
  <2>6. NoStuckSchedule'
    <3>1. SUFFICES ASSUME NEW x \in Schedules, schedule'[x].status = "active",
                          run[<<x, schedule'[x].next>>].status = "queued"
                   PROVE  \E e \in Dispatchers :
                             pc'[e] = "advance" /\ cur'[e] = <<x, schedule'[x].next>>
      BY <1>3 DEF NoStuckSchedule
    <3>2. x # s
      BY <2>3, <2>5, <3>1
    <3>3. schedule'[x] = schedule[x]
      BY <2>3, <3>2
    <3>4. PICK e \in Dispatchers :
              pc[e] = "advance" /\ cur[e] = <<x, schedule[x].next>>
      BY <3>1, <3>3 DEF NoStuckSchedule
    <3>5. e # d
      BY <3>2, <3>4
    <3>6. QED BY <1>2, <3>3, <3>4, <3>5
  <2>7. QED BY <1>5, <2>4, <2>6 DEF StuckRest
<1>7. CASE ~Advances(cur[d][1], cur[d][2])
  <2>1. schedule' = schedule
    BY <1>7 DEF Advance
  <2>2. HandledIsPast'
    BY <1>3, <1>4, <2>1 DEF HandledIsPast
  <2>3. ASSUME NEW x \in Schedules, schedule[x].status = "active"
        PROVE  cur[d] # <<x, schedule[x].next>>
    BY <1>1, <1>7, <2>3 DEF Advances
  <2>4. NoStuckSchedule'
    BY <1>2, <1>3, <2>1, <2>3 DEF NoStuckSchedule
  <2>5. QED BY <1>5, <2>2, <2>4 DEF StuckRest
<1>8. QED BY <1>6, <1>7

\* An invocation ends, or dies anywhere but before an advance.
LEMMA EndKeepsStuck ==
    ASSUME "advance" \notin CrashPoints, StuckInv, NEW d \in Dispatchers,
           Finish(d) \/ Crash(d)
    PROVE  StuckRest'
<1> USE DEF StuckInv, IInv
<1>1. UNCHANGED <<clock, schedule, edit, run>> /\ pc[d] # "advance"
      /\ todo'[d] = {} /\ cur'[d] = NoKey
  BY DEF Finish, Crash, Reset, dbVars, TypeOK
<1>2. \A e \in Dispatchers : e # d => cur'[e] = cur[e] /\ todo'[e] = todo[e]
  BY OthersKeepTheirs DEF DispatchStep
<1>3. \A k \in RunKeys : Handled(k)' => Handled(k)
  BY <1>1, <1>2, NoKeyIsNoRun DEF Handled
<1>4. QED BY <1>1, <1>3, StuckFrame DEF DispatchStep

\* A user prepares a write: only pauses and deletions leave next_run_at out.
LEMMA BeginEditKeepsStuck ==
    ASSUME StuckInv, NEW c \in Clients, NEW s \in Schedules,
           \/ \E n \in Occurrences : BeginCreate(c, s, n)
           \/ \E request \in Requests : BeginEdit(c, s, request)
    PROVE  StuckRest'
<1> USE DEF StuckInv, StuckRest, IInv
<1>1. UNCHANGED <<clock, schedule, run, pc, cur, todo>>
  BY DEF BeginCreate, BeginEdit, dbVars, dispVars
<1>2. edit'[c].next = Keep => edit'[c].status \in {"paused", "deleted"}
  <2>1. ASSUME NEW n \in Occurrences, BeginCreate(c, s, n) PROVE edit'[c].next # Keep
    BY <2>1, NullAssumption DEF BeginCreate, TypeOK
  <2>2. ASSUME NEW request \in Requests, BeginEdit(c, s, request)
        PROVE  edit'[c].next = Keep => edit'[c].status \in {"paused", "deleted"}
    BY <2>2, NullAssumption DEF BeginEdit, Requests, TypeOK
  <2>3. QED BY <2>1, <2>2
<1>3. \A other \in Clients : other # c => edit'[other] = edit[other]
  BY DEF BeginCreate, BeginEdit, TypeOK
<1>4. KeepIsInactive'
  BY <1>2, <1>3 DEF KeepIsInactive
<1>5. HandledIsPast' /\ NoStuckSchedule'
  BY <1>1 DEF HandledIsPast, Handled, NoStuckSchedule
<1>6. QED BY <1>4, <1>5

\* A written next_run_at lies in the future: nobody has taken it up.
LEMMA CommitKeepsStuck ==
    ASSUME StuckInv, NEW c \in Clients, CommitEdit(c) PROVE StuckRest'
<1> USE DEF StuckInv, IInv
<1> DEFINE s == edit[c].sched
<1>1. edit[c] # NoRequest /\ s \in Schedules
  BY DEF CommitEdit, EditNamesSchedule
<1>2. UNCHANGED <<clock, run, pc, cur, todo>>
  BY DEF CommitEdit, dispVars
<1>3. KeepIsInactive'
  BY DEF CommitEdit, KeepIsInactive, TypeOK
<1>4. \A x \in Schedules : x # s => schedule'[x] = schedule[x]
  BY <1>1 DEF CommitEdit, TypeOK
<1>5. schedule'[s] = schedule[s] \/ schedule'[s] = Updated(schedule[s], edit[c])
  BY <1>1 DEF CommitEdit, TypeOK
<1>6. CASE schedule'[s] = schedule[s]
  <2>1. \A x \in Schedules : schedule'[x] = schedule[x]
    BY <1>4, <1>6
  <2>2. HandledIsPast'
    BY <1>2, <2>1, KeyTime DEF HandledIsPast, Handled
  <2>3. NoStuckSchedule'
    BY <1>2, <2>1 DEF NoStuckSchedule
  <2>4. QED BY <1>3, <2>2, <2>3 DEF StuckRest
<1>7. CASE schedule'[s] = Updated(schedule[s], edit[c]) /\ edit[c].next = Keep
  <2>1. schedule'[s].next = schedule[s].next /\ schedule'[s].status # "active"
    <3>1. edit[c].status \in {"paused", "deleted"}
      BY <1>1, <1>7 DEF KeepIsInactive
    <3>2. schedule'[s].next = schedule[s].next
      BY <1>7 DEF Updated
    <3>3. schedule'[s].status \in {schedule[s].status, edit[c].status}
          /\ (edit[c].status # Keep => schedule'[s].status = edit[c].status)
      BY <1>7 DEF Updated
    <3>4. edit[c].status # Keep
      BY <3>1, NullAssumption DEF Statuses
    <3>5. QED BY <3>1, <3>2, <3>3, <3>4
  <2>2. HandledIsPast'
    BY <1>2, <1>4, <2>1, KeyTime DEF HandledIsPast, Handled
  <2>3. NoStuckSchedule'
    BY <1>2, <1>4, <2>1 DEF NoStuckSchedule
  <2>4. QED BY <1>3, <2>2, <2>3 DEF StuckRest
<1>8. CASE schedule'[s] = Updated(schedule[s], edit[c]) /\ edit[c].next # Keep
  <2>1. /\ schedule'[s].next = edit[c].next /\ edit[c].next \in Occurrences
        /\ edit[c].next \in Nat /\ clock < edit[c].next /\ clock \in Nat
    <3>1. schedule'[s].next = edit[c].next
      BY <1>8 DEF Updated
    <3>2. edit[c].next \in Occurrences /\ clock \in Times
      BY <1>8 DEF TypeOK
    <3>3. clock < edit[c].next
      BY <1>8 DEF InTime
    <3>4. edit[c].next \in Nat
      BY <3>2, NextRunAssumption
    <3>5. clock \in Nat
      BY <3>2, ClockAssumption DEF Times
    <3>6. QED BY <3>1, <3>2, <3>3, <3>4, <3>5
  <2>2. HandledIsPast'
    <3>1. SUFFICES ASSUME NEW k \in RunKeys, Handled(k)
                   PROVE  k[2] <= clock /\ k[2] <= schedule'[k[1]].next
      BY <1>2 DEF HandledIsPast, Handled
    <3>2. k[2] <= clock /\ k[2] <= schedule[k[1]].next /\ k[2] \in Nat
          /\ k[1] \in Schedules
      BY <3>1, KeyTime DEF HandledIsPast
    <3>3. QED BY <1>4, <2>1, <3>2
  <2>3. run[<<s, edit[c].next>>].status = "absent"
    <3>1. <<s, edit[c].next>> \in RunKeys
      BY <1>1, <2>1 DEF RunKeys
    <3>2. ~Handled(<<s, edit[c].next>>)
      BY <2>1, <3>1 DEF HandledIsPast
    <3>3. QED BY <3>2 DEF Handled
  <2>4. NoStuckSchedule'
    BY <1>2, <1>4, <2>1, <2>3 DEF NoStuckSchedule
  <2>5. QED BY <1>3, <2>2, <2>4 DEF StuckRest
<1>9. QED BY <1>5, <1>6, <1>7, <1>8

LEMMA TickKeepsStuck == ASSUME StuckInv, Tick PROVE StuckRest'
<1> USE DEF StuckInv, IInv, Tick, dbVars, dispVars
<1>1. HandledIsPast'
  <2>1. \A t \in Nat : t <= clock => t <= clock'
    BY ClockAssumption DEF TypeOK, Times
  <2>2. QED BY <2>1, KeyTime DEF HandledIsPast, Handled
<1>2. QED BY <1>1 DEF StuckRest, KeepIsInactive, NoStuckSchedule

LEMMA InitStuckInv == Init => StuckInv
<1> SUFFICES ASSUME Init PROVE StuckInv
  OBVIOUS
<1>1. KeepIsInactive /\ NoStuckSchedule
  <2>1. \A s \in Schedules : schedule[s].status = "active" =>
            <<s, schedule[s].next>> \in RunKeys
    BY InitIInv DEF IInv, ScheduleNamesOccurrence, RunKeys
  <2>2. NoStuckSchedule
    BY <2>1 DEF Init, NoStuckSchedule, NoRun
  <2>3. KeepIsInactive
    BY DEF Init, KeepIsInactive
  <2>4. QED BY <2>2, <2>3
<1>2. HandledIsPast
  BY NoKeyIsNoRun DEF Init, HandledIsPast, Handled, NoRun
<1>3. QED BY <1>1, <1>2, InitLockInv DEF StuckInv, LockInv

LEMMA StepStuckInv ==
    ASSUME Timely, "advance" \notin CrashPoints
    PROVE  StuckInv /\ [Next]_vars => StuckInv'
<1> SUFFICES ASSUME StuckInv, [Next]_vars PROVE StuckInv'
  OBVIOUS
<1>1. IInv' /\ InTime'
  BY StepIInv, InTimeKept DEF StuckInv
<1>2. Next => StuckRest'
  BY TickKeepsStuck, BeginEditKeepsStuck, CommitKeepsStuck, StartKeepsStuck,
     ClaimKeepsStuck, OwnerKeepsStuck, AdvanceKeepsStuck, EndKeepsStuck
     DEF Next, DispatchStep
<1>3. UNCHANGED vars => StuckRest'
  BY DEF vars, dbVars, dispVars, StuckInv, StuckRest, KeepIsInactive, HandledIsPast,
         Handled, NoStuckSchedule
<1>4. QED BY <1>1, <1>2, <1>3 DEF StuckInv, StuckRest

\* When nothing in flight is overtaken by time and no invocation dies between
\* mark_queued and advance_next_run_at, an active schedule never names an
\* occurrence that was queued already: every new next_run_at, written by an
\* edit or an advance, is one no run exists for.
THEOREM NoStuckScheduleCorrect ==
    ASSUME Timely, "advance" \notin CrashPoints
    PROVE  Spec => []NoStuckSchedule
<1>1. StuckInv => NoStuckSchedule
  BY DEF StuckInv
<1>2. QED BY <1>1, InitStuckInv, StepStuckInv, PTL DEF Spec

-----------------------------------------------------------------------------
(* The calculator.                                                          *)

\* An instant is a day and a second of that day, in the local zone.
LEMMA LocalTime ==
    ASSUME NEW t \in Int
    PROVE  /\ LocalDate(t) \in Int
           /\ Day * LocalDate(t) - Offset <= t
           /\ t < Day * (LocalDate(t) + 1) - Offset
BY DEF LocalDate, Day, Offset, Hour, Minute

\* A day has the weekday of its residue.
LEMMA WeekdayType == \A d \in Int : Weekday(d) \in Weekdays
BY DEF Weekday, Weekdays

\* The local date of an hour of a day is that day.
LEMMA DateOfHour ==
    ASSUME NEW d \in Int, NEW hour \in Hours
    PROVE  At(d, hour) \in Int /\ LocalDate(At(d, hour)) = d
BY DEF At, LocalDate, Hours, Day, Hour, Offset, Minute

\* Quotient and remainder by a minute, and by the fifteen minutes of a quarter.
LEMMA Minutes ==
    ASSUME NEW m \in Int, NEW s \in 0 .. 59
    PROVE  (60 * m + s) % 60 = s /\ (60 * m) \div 60 = m
OBVIOUS

\* A number is a whole number of sixties and a rest.
LEMMA Split60 ==
    ASSUME NEW x \in Int PROVE \E m \in Int, s \in 0 .. 59 : x = 60 * m + s
<1>1. x \div 60 \in Int /\ x - 60 * (x \div 60) \in 0 .. 59
  OBVIOUS
<1>2. x = 60 * (x \div 60) + (x - 60 * (x \div 60))
  BY <1>1
<1>3. QED BY <1>1, <1>2

\* A number is a whole number of fifteens and its remainder.
LEMMA Split15 ==
    ASSUME NEW x \in Int PROVE \E q \in Int, r \in 0 .. 14 : x = 15 * q + r /\ x % 15 = r
<1>1. x \div 15 \in Int /\ x - 15 * (x \div 15) \in 0 .. 14
  OBVIOUS
<1>2. x = 15 * (x \div 15) + (x - 15 * (x \div 15))
  BY <1>1
<1>3. \A q \in Int, r \in 0 .. 14 : (15 * q + r) % 15 = r
  OBVIOUS
<1>4. QED BY <1>1, <1>2, <1>3

\* An instant is a whole minute and its seconds.
LEMMA Decompose ==
    ASSUME NEW x \in Int PROVE \E m \in Int, s \in 0 .. 59 : x = 60 * m + s /\ x % 60 = s
<1>1. PICK m \in Int, s \in 0 .. 59 : x = 60 * m + s
  BY Split60
<1>2. (60 * m + s) % 60 = s
  BY Minutes
<1>3. x % 60 = s
  BY ONLY <1>1, <1>2, Zenon
<1>4. QED BY <1>1, <1>3

\* The next quarter hour is the next multiple of a quarter.
LEMMA QuarterIsNext ==
    ASSUME NEW after \in Int
    PROVE  \E q \in Int : /\ NextQuarterHour(after) = 900 * q
                          /\ 900 * q - 900 <= after
                          /\ after < 900 * q
<1>1. PICK m \in Int, s \in 0 .. 59 : after = 60 * m + s /\ after % 60 = s
  BY Decompose
<1>2. PICK p \in Int, r \in 0 .. 14 : m = 15 * p + r /\ m % 15 = r
  BY Split15
<1> DEFINE rem   == after % 60
           base  == after - rem
           past  == (base \div 60) % 15
<1>3. NextQuarterHour(after) = base + 60 * (15 - past)
  BY DEF NextQuarterHour, Minute
<1>4. rem = s
  BY <1>1
<1> HIDE DEF rem
<1>5. base = 60 * m
  BY <1>1, <1>4
<1> HIDE DEF base
<1>6. past = r
  <2>1. (60 * m) \div 60 = m
    BY Minutes
  <2>2. base \div 60 = m
    BY ONLY <1>5, <2>1
  <2>3. QED BY ONLY <1>2, <2>2 DEF past
<1> HIDE DEF past
<1>7. NextQuarterHour(after) = 900 * (p + 1)
  BY <1>2, <1>3, <1>5, <1>6
<1>8. /\ 900 * (p + 1) - 900 <= after
      /\ after < 900 * (p + 1)
  <2>1. after = 60 * m + s
    BY <1>1
  <2>2. m = 15 * p + r
    BY <1>2
  <2>3. QED BY ONLY <2>1, <2>2, p \in Int, r \in 0 .. 14, s \in 0 .. 59
<1>9. p + 1 \in Int
  OBVIOUS
<1>10. QED
  <2> DEFINE q == p + 1
  <2>1. NextQuarterHour(after) = 900 * q /\ 900 * q - 900 <= after /\ after < 900 * q
    BY ONLY <1>7, <1>8
  <2>2. q \in Int
    BY <1>9
  <2> HIDE DEF q
  <2>3. QED BY ONLY <2>1, <2>2

\* A multiple of a quarter hour, and nothing else, has no remainder.
LEMMA QuarterMultiples ==
    ASSUME NEW t \in Int
    PROVE  t % 900 = 0 <=> \E q \in Int : t = 900 * q
<1>1. \A q \in Int : (900 * q) % 900 = 0
  OBVIOUS
<1>2. t % 900 = 0 => \E q \in Int : t = 900 * q
  OBVIOUS
<1>3. QED BY <1>1, <1>2

\* The occurrence on a day comes after the instant and is the first at that hour
\* of the day.
LEMMA DailyIsNext ==
    ASSUME NEW after \in Int, NEW hour \in Hours
    PROVE  LET t == NextDaily(after, hour)
           IN  /\ t \in Int
               /\ after < t
               /\ t = At(LocalDate(t), hour)
               /\ \A u \in Int : after < u /\ u < t => u # At(LocalDate(u), hour)
<1> DEFINE d == LocalDate(after)
           t == NextDaily(after, hour)
<1>1. d \in Int /\ Day * d - Offset <= after /\ after < Day * (d + 1) - Offset
  BY LocalTime
<1> HIDE DEF d
<1>2. \A e \in Int : At(e, hour) \in Int /\ LocalDate(At(e, hour)) = e
  BY DateOfHour
<1>3. \/ t = At(d, hour) /\ after < At(d, hour)
      \/ t = At(d + 1, hour) /\ At(d, hour) <= after
  BY <1>1, <1>2 DEF NextDaily, At, d, Day, Hour, Minute, Offset, Hours
<1>4. t \in Int /\ t = At(LocalDate(t), hour)
  BY <1>1, <1>2, <1>3
<1>5. after < t
  BY <1>1, <1>3 DEF At, Day, Hour, Minute, Offset, Hours
<1>6. ASSUME NEW u \in Int, after < u, u < t, u = At(LocalDate(u), hour) PROVE FALSE
  <2>1. PICK e \in Int : u = At(e, hour)
    BY <1>6, LocalTime
  <2>2. QED BY <1>1, <1>3, <1>6, <2>1 DEF At, Day, Hour, Minute, Offset, Hours
<1>7. QED BY <1>4, <1>5, <1>6

\* The occurrence on one weekday is one of the eight days from the local date, and
\* the first at that hour and weekday.
FirstOn(after, hour, weekday, t) ==
    /\ \E i \in 0 .. 7 : t = At(LocalDate(after) + i, hour)
    /\ after < t
    /\ Weekday(LocalDate(t)) = weekday
    /\ \A e \in Int : after < At(e, hour) /\ At(e, hour) < t => Weekday(e) # weekday

LEMMA WeekdayIsNext ==
    ASSUME NEW after \in Int, NEW hour \in Hours, NEW weekday \in Weekdays
    PROVE  FirstOn(after, hour, weekday, NextOn(after, hour, weekday))
<1> DEFINE d == LocalDate(after)
           n == (weekday - Weekday(d)) % 7
           t == NextOn(after, hour, weekday)
<1>1. d \in Int /\ Day * d - Offset <= after /\ after < Day * (d + 1) - Offset
  BY LocalTime
<1>4. t = IF At(d + n, hour) <= after THEN At(d + n, hour) + Week ELSE At(d + n, hour)
  BY ONLY DEF NextOn
<1> HIDE DEF d
<1>2. PICK p \in Int, k \in Weekdays : d = 7 * p + k /\ Weekday(d) = k
  <2>1. d \div 7 \in Int /\ d - 7 * (d \div 7) \in 0 .. 6
    BY <1>1
  <2>2. d = 7 * (d \div 7) + (d - 7 * (d \div 7))
    BY <1>1, <2>1
  <2>3. \A p \in Int, k \in 0 .. 6 : (7 * p + k) % 7 = k
    OBVIOUS
  <2>4. QED BY <2>1, <2>2, <2>3 DEF Weekday, Weekdays
<1>3. /\ n \in 0 .. 6
      /\ \/ k <= weekday /\ n = weekday - k
         \/ weekday < k /\ n = weekday - k + 7
  <2>1. \A x \in 0 .. 6 : x % 7 = x
    OBVIOUS
  <2>2. \A x \in -6 .. -1 : x % 7 = x + 7
    OBVIOUS
  <2>3. CASE k <= weekday
    BY <1>2, <2>1, <2>3 DEF Weekdays
  <2>4. CASE weekday < k
    BY <1>2, <2>2, <2>4 DEF Weekdays
  <2>5. QED BY <2>3, <2>4 DEF Weekdays
<1> HIDE DEF n, t
<1>5. \A e \in Int : At(e, hour) \in Int /\ LocalDate(At(e, hour)) = e
  BY DateOfHour
<1>6. \E i \in 0 .. 7 :
          /\ t = At(d + i, hour) /\ after < t /\ \E j \in 0 .. 1 : i = n + 7 * j
          /\ i >= 7 => At(d, hour) <= after /\ n = 0
  <2>1. CASE At(d + n, hour) <= after
    <3>1. n = 0
      BY <1>1, <1>3, <2>1 DEF At, Day, Hour, Minute, Offset, Hours
    <3>2. t = At(d + 7, hour) /\ after < t
      BY <1>1, <1>4, <2>1, <3>1 DEF At, Day, Week, Hour, Minute, Offset, Hours
    <3>3. QED BY <1>1, <2>1, <3>1, <3>2
  <2>2. CASE ~(At(d + n, hour) <= after)
    BY <1>1, <1>3, <1>4, <1>5, <2>2
  <2>3. QED BY <2>1, <2>2
<1>7. PICK i \in 0 .. 7 :
          /\ t = At(d + i, hour) /\ after < t /\ \E j \in 0 .. 1 : i = n + 7 * j
          /\ i >= 7 => At(d, hour) <= after /\ n = 0
  BY <1>6
<1>8. \A x \in Int : (\E y \in Int : x = 7 * y + weekday) <=> x % 7 = weekday
  BY DEF Weekdays
<1>9. Weekday(LocalDate(t)) = weekday
  <2>1. LocalDate(t) = d + i
    BY <1>1, <1>5, <1>7
  <2>2. \E y \in Int : d + i = 7 * y + weekday
    <3>1. PICK j \in 0 .. 1 : i = n + 7 * j
      BY <1>7
    <3>2. n = weekday - k \/ n = weekday - k + 7
      BY <1>3
    <3>3. p \in Int /\ k \in Int /\ weekday \in Int /\ d = 7 * p + k
      BY <1>2 DEF Weekdays
    <3>4. CASE n = weekday - k
      <4>1. d + i = 7 * (p + j) + weekday
        BY ONLY <3>1, <3>3, <3>4, j \in 0 .. 1
      <4>2. p + j \in Int
        BY ONLY <3>3, j \in 0 .. 1
      <4>3. QED BY ONLY <4>1, <4>2
    <3>5. CASE n = weekday - k + 7
      <4>1. d + i = 7 * (p + j + 1) + weekday
        BY ONLY <3>1, <3>3, <3>5, j \in 0 .. 1
      <4>2. p + j + 1 \in Int
        BY ONLY <3>3, j \in 0 .. 1
      <4>3. QED BY ONLY <4>1, <4>2
    <3>6. QED BY <3>2, <3>4, <3>5
  <2>3. QED BY <1>1, <1>8, <2>1, <2>2 DEF Weekday
<1>10. ASSUME NEW e \in Int, after < At(e, hour), At(e, hour) < t, Weekday(e) = weekday
       PROVE  FALSE
  <2>1. e - d \in 0 .. i - 1 /\ (At(d, hour) <= after => e - d \in 1 .. i - 1)
    BY <1>1, <1>7, <1>10 DEF At, Day, Hour, Minute, Offset, Hours
  <2>2. PICK y \in Int : e = 7 * y + weekday
    BY <1>8, <1>10 DEF Weekday
  <2>3. QED BY <1>2, <1>3, <1>7, <2>1, <2>2 DEF Weekdays
<1>11. QED BY <1>7, <1>9, <1>10 DEF d, t, FirstOn

\* A nonempty set of numbers up to seven has a least one.
LEMMA LeastOfEight ==
    ASSUME NEW S \in SUBSET (0 .. 7), S # {}
    PROVE  \E first \in S : \A other \in S : first <= other
<1>1. CASE 0 \in S
  BY <1>1
<1>2. CASE 0 \notin S /\ 1 \in S
  BY <1>2
<1>3. CASE 0 \notin S /\ 1 \notin S /\ 2 \in S
  BY <1>3
<1>4. CASE 0 \notin S /\ 1 \notin S /\ 2 \notin S /\ 3 \in S
  BY <1>4
<1>5. CASE 0 \notin S /\ 1 \notin S /\ 2 \notin S /\ 3 \notin S /\ 4 \in S
  BY <1>5
<1>6. CASE 0 \notin S /\ 1 \notin S /\ 2 \notin S /\ 3 \notin S /\ 4 \notin S /\ 5 \in S
  BY <1>6
<1>7. CASE 0 \notin S /\ 1 \notin S /\ 2 \notin S /\ 3 \notin S /\ 4 \notin S /\ 5 \notin S /\ 6 \in S
  BY <1>7
<1>8. CASE 0 \notin S /\ 1 \notin S /\ 2 \notin S /\ 3 \notin S /\ 4 \notin S /\ 5 \notin S /\ 6 \notin S /\ 7 \in S
  BY <1>8
<1>9. \E k \in 0 .. 7 : k \in S
  OBVIOUS
<1>10. QED BY <1>1, <1>2, <1>3, <1>4, <1>5, <1>6, <1>7, <1>8, <1>9

\* The earliest of the occurrences on the chosen weekdays is the first at that
\* hour on any of them.
LEMMA WeeklyIsNext ==
    ASSUME NEW after \in Int, NEW hour \in Hours,
           NEW weekdays \in (SUBSET Weekdays) \ {{}}
    PROVE  LET t == NextWeekly(after, hour, weekdays)
           IN  /\ t \in Int
               /\ after < t
               /\ t = At(LocalDate(t), hour)
               /\ Weekday(LocalDate(t)) \in weekdays
               /\ \A e \in Int : /\ after < At(e, hour)
                                 /\ At(e, hour) < t
                                 => Weekday(e) \notin weekdays
<1> DEFINE d          == LocalDate(after)
           on(w)      == NextOn(after, hour, w)
           candidates == {on(w) : w \in weekdays}
           ahead      == {i \in 0 .. 7 : At(d + i, hour) \in candidates}
           t          == NextWeekly(after, hour, weekdays)
<1>1. t = CHOOSE first \in candidates : \A other \in candidates : first <= other
  BY DEF NextWeekly
<1>2. \A w \in weekdays :
          /\ \E i \in 0 .. 7 : on(w) = At(d + i, hour)
          /\ after < on(w)
          /\ Weekday(LocalDate(on(w))) = w
          /\ \A e \in Int : after < At(e, hour) /\ At(e, hour) < on(w) => Weekday(e) # w
  <2>1. \A w \in Weekdays : FirstOn(after, hour, w, NextOn(after, hour, w))
    BY WeekdayIsNext
  <2>2. QED BY <2>1 DEF FirstOn
<1>3. d \in Int
  BY LocalTime
<1>4. \A e \in Int : At(e, hour) \in Int /\ LocalDate(At(e, hour)) = e
  BY DateOfHour
<1>5. \A i, j \in 0 .. 7 : i <= j => At(d + i, hour) <= At(d + j, hour)
  BY <1>3 DEF At, Day, Hour, Minute, Offset, Hours
<1> HIDE DEF d, on, t
<1>6. ahead \in SUBSET (0 .. 7) /\ ahead # {}
  BY <1>2
<1>7. PICK i \in ahead : \A j \in ahead : i <= j
  BY <1>6, LeastOfEight
<1>8. At(d + i, hour) \in candidates /\ \A other \in candidates : At(d + i, hour) <= other
  BY <1>2, <1>5, <1>7
<1>9. t \in candidates /\ \A other \in candidates : t <= other
  BY <1>1, <1>8
<1>10. PICK w \in weekdays : t = on(w)
  BY <1>9
<1>11. \E e \in Int : t = At(e, hour)
  BY <1>2, <1>3, <1>10
<1>12. t \in Int /\ t = At(LocalDate(t), hour)
  BY <1>4, <1>11
<1>13. after < t /\ Weekday(LocalDate(t)) \in weekdays
  BY <1>2, <1>10
<1>14. ASSUME NEW e \in Int, after < At(e, hour), At(e, hour) < t, Weekday(e) \in weekdays
       PROVE  FALSE
  <2>1. t <= on(Weekday(e)) /\ on(Weekday(e)) \in Int
    BY <1>2, <1>3, <1>4, <1>9, <1>14
  <2>2. At(e, hour) \in Int /\ At(e, hour) < on(Weekday(e))
    BY <1>4, <1>12, <1>14, <2>1
  <2>3. QED BY <1>2, <1>14, <2>2
<1>15. QED BY <1>12, <1>13, <1>14 DEF t

-----------------------------------------------------------------------------

\* calculate_next_stock_research_run_at returns the first occurrence strictly
\* after the reference, whatever the definition and the reference: it skips
\* none and never returns the reference itself.
THEOREM NextRunIsNext ==
    ASSUME NEW def \in Definitions, NEW after \in Int
    PROVE  NextRunAt(def, after) \in Int /\ IsNext(def, after, NextRunAt(def, after))
<1> DEFINE t == NextRunAt(def, after)
<1>1. CASE def \in [type : {"every_15_minutes"}, hour : {NoHour}, weekdays : {{}}]
  <2>1. def.type = "every_15_minutes"
    BY <1>1
  <2>2. t = NextQuarterHour(after)
    BY <2>1 DEF NextRunAt
  <2>3. PICK q \in Int : t = 900 * q /\ 900 * q - 900 <= after /\ after < 900 * q
    BY <2>2, QuarterIsNext
  <2>4. \A u : Occurs(def, u) <=> u % 900 = 0
    BY <2>1 DEF Occurs, Quarter, Minute
  <2>5. t \in Int /\ Occurs(def, t)
    BY <2>3, <2>4, QuarterMultiples
  <2>6. ASSUME NEW u \in after + 1 .. t - 1, Occurs(def, u) PROVE FALSE
    <3>1. PICK p \in Int : u = 900 * p
      BY <2>4, <2>5, <2>6, QuarterMultiples
    <3>2. QED BY <2>3, <2>6, <3>1
  <2>7. QED BY <2>3, <2>5, <2>6 DEF IsNext
<1>2. CASE def \in [type : {"daily"}, hour : Hours, weekdays : {{}}]
  <2>1. def.type = "daily" /\ def.hour \in Hours
    BY <1>2
  <2>2. t = NextDaily(after, def.hour)
    BY <2>1 DEF NextRunAt
  <2>3. \A u : Occurs(def, u) <=> u = At(LocalDate(u), def.hour)
    BY <2>1 DEF Occurs
  <2>4. /\ t \in Int /\ after < t /\ t = At(LocalDate(t), def.hour)
        /\ \A u \in Int : after < u /\ u < t => u # At(LocalDate(u), def.hour)
    BY <2>1, <2>2, DailyIsNext
  <2> HIDE DEF t
  <2>5. QED BY <2>3, <2>4 DEF IsNext, t
<1>3. CASE def \in [type : {"weekly"}, hour : Hours, weekdays : (SUBSET Weekdays) \ {{}}]
  <2>1. /\ def.type = "weekly" /\ def.hour \in Hours
        /\ def.weekdays \in (SUBSET Weekdays) \ {{}}
    BY <1>3
  <2>2. t = NextWeekly(after, def.hour, def.weekdays)
    BY <2>1 DEF NextRunAt
  <2>3. \A u : Occurs(def, u) <=> /\ u = At(LocalDate(u), def.hour)
                                  /\ Weekday(LocalDate(u)) \in def.weekdays
    BY <2>1 DEF Occurs
  <2>4. /\ t \in Int /\ after < t /\ t = At(LocalDate(t), def.hour)
        /\ Weekday(LocalDate(t)) \in def.weekdays
        /\ \A e \in Int : /\ after < At(e, def.hour)
                          /\ At(e, def.hour) < t
                          => Weekday(e) \notin def.weekdays
    BY <2>1, <2>2, WeeklyIsNext
  <2> HIDE DEF t
  <2>5. ASSUME NEW u \in after + 1 .. t - 1, Occurs(def, u) PROVE FALSE
    <3>1. u \in Int /\ after < u /\ u < t
      BY <2>4
    <3>2. LocalDate(u) \in Int
      BY <3>1, LocalTime
    <3>3. QED BY <2>3, <2>4, <2>5, <3>1, <3>2
  <2>6. QED BY <2>3, <2>4, <2>5 DEF IsNext, t
<1>4. QED BY <1>1, <1>2, <1>3 DEF Definitions

\* Two references give their next runs in order: what the dispatcher assumes of
\* the calculator when it plans from the clock or from an occurrence.
THEOREM NextRunMonotone ==
    ASSUME NEW def \in Definitions, NEW a \in Int, NEW b \in Int, a <= b
    PROVE  NextRunAt(def, a) <= NextRunAt(def, b)
<1> DEFINE s == NextRunAt(def, a)
           t == NextRunAt(def, b)
<1>1. s \in Int /\ IsNext(def, a, s) /\ t \in Int /\ IsNext(def, b, t)
  BY NextRunIsNext
<1> HIDE DEF s, t
<1>2. Occurs(def, t) /\ b < t /\ \A u \in a + 1 .. s - 1 : ~Occurs(def, u)
  BY <1>1 DEF IsNext
<1>3. CASE t < s
  <2>1. t \in a + 1 .. s - 1
    BY <1>1, <1>2, <1>3
  <2>2. QED BY <1>2, <2>1
<1>4. QED BY <1>1, <1>3 DEF s, t
=============================================================================
