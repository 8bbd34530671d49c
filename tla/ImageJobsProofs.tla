--------------------------- MODULE ImageJobsProofs ---------------------------
(****************************************************************************)
(* Whatever requests, workers, failures and crashes do, an image job goes   *)
(* through the life cycle of JobLifecycle, a job that has not ended is on   *)
(* its way, and no picture that is shown lacks its file: for every number   *)
(* of jobs, pictures, requests and permits.                                 *)
(****************************************************************************)
EXTENDS ImageJobs, TLAPS

\* The steps at which a request still has to announce the new job.
Creating == {"enqueue", "emit_created"}

RequestFits(r) ==
    /\ request[r].step # "idle" => request[r].job \in Jobs
    /\ request[r].step \in Creating =>
        /\ job[request[r].job].status # "absent"
        /\ "pending" \notin events[request[r].job]
    /\ request[r].step = "emit_cancelled" =>
        /\ job[request[r].job].status = "cancelled"
        /\ "cancelled" \notin events[request[r].job]

\* At most one request creates a job, and at most one cancels it.
RequestsApart ==
    \A q, r \in Requests :
        /\ q # r
        /\ request[q].step # "idle"
        /\ request[r].step # "idle"
        /\ request[q].job = request[r].job
        => (request[q].step \in Creating <=> request[r].step = "emit_cancelled")

\* The steps at which a permit has claimed its job.
Working == {"generate", "upload", "create_image", "mark_succeeded"}
Claimed == Working \cup {"emit_processing", "mark_failed", "emit_succeeded", "emit_failed"}

SlotFits(s) ==
    /\ slot[s].step # "idle" => slot[s].job \in Jobs
    /\ slot[s].step \in {"upload", "create_image", "mark_succeeded"} => slot[s].image \in Images
    /\ slot[s].step \in Working => job[slot[s].job].status = "processing"
    /\ slot[s].step = "mark_failed" => job[slot[s].job].status \in {"processing", "succeeded"}
    /\ slot[s].step = "emit_processing" =>
        /\ job[slot[s].job].status = "processing"
        /\ "processing" \notin events[slot[s].job]
    /\ slot[s].step = "emit_succeeded" =>
        /\ job[slot[s].job].status = "succeeded"
        /\ "succeeded" \notin events[slot[s].job]
    /\ slot[s].step = "emit_failed" =>
        /\ job[slot[s].job].status = "failed"
        /\ "failed" \notin events[slot[s].job]

\* No two permits have claimed one job.
SlotsApart ==
    \A s, t \in Slots :
        s # t /\ slot[s].step \in Claimed /\ slot[t].step \in Claimed
            => slot[s].job # slot[t].job

JobFits(j) ==
    /\ events[j] \subseteq Lifecycle!Reached(job[j].status)
    /\ job[j].status = "absent" => events[j] = {} /\ job[j].output = {}

\* The inductive invariant.
IInv ==
    /\ TypeOK
    /\ \A r \in Requests : RequestFits(r)
    /\ RequestsApart
    /\ \A s \in Slots : SlotFits(s)
    /\ SlotsApart
    /\ \A j \in Jobs : JobFits(j)
-----------------------------------------------------------------------------
(* Types.                                                                   *)

LEMMA InitInvariant == Init => IInv
<1> SUFFICES ASSUME Init PROVE IInv
  OBVIOUS
<1>1. TypeOK
  BY ImageJobsAssumption DEF Init, TypeOK, JobRow, ImageRow, IdleRequest, IdleSlot, JobStatus,
     RequestSteps, SlotSteps, ImageStatus
<1>2. \A r \in Requests : request[r].step = "idle"
  BY DEF Init, IdleRequest
<1>3. \A s \in Slots : slot[s].step = "idle"
  BY DEF Init, IdleSlot
<1>4. \A j \in Jobs : JobFits(j)
  BY DEF Init, JobFits, JobRow
<1>5. QED
  BY <1>1, <1>2, <1>3, <1>4
     DEF IInv, RequestFits, RequestsApart, SlotFits, SlotsApart, Creating, Working, Claimed

LEMMA FaultsAreBounded == TypeOK /\ Fault => faults' \in 0 .. MaxFaults
BY ImageJobsAssumption DEF TypeOK, Fault

\* The updates of the rows, of the permits and of the history.
JobRows == [status : JobStatus, owner : Users \cup {None}, output : SUBSET Images]
JobTypes == [Jobs -> JobRows]
SlotRows == [step : SlotSteps, job : Jobs \cup {None}, image : Images \cup {None}]
SlotTypes == [Slots -> SlotRows]

LEMMA RowUpdates ==
    ASSUME NEW i \in Images
    PROVE  /\ \A v \in JobRows : [v EXCEPT !.status = "succeeded", !.output = {i}] \in JobRows
           /\ \A v \in SlotRows : [v EXCEPT !.step = "upload", !.image = i] \in SlotRows
BY DEF JobRows, SlotRows, JobStatus, SlotSteps

LEMMA Updates ==
    ASSUME TypeOK
    PROVE  /\ \A j \in Jobs, st \in JobStatus : SetStatus(j, st) => job' \in JobTypes
           /\ \A j \in Jobs, st \in JobStatus :
                Announce(j, st) => events' \in [Jobs -> SUBSET JobStatus]
           /\ \A s \in Slots, step \in SlotSteps : Goto(s, step) => slot' \in SlotTypes
           /\ \A s \in Slots : EndTask(s) => slot' \in SlotTypes
<1>1. \A j \in Jobs, st \in JobStatus : SetStatus(j, st) => job' \in JobTypes
  <2>1. job \in JobTypes
    BY DEF TypeOK, JobTypes, JobRows
  <2>2. QED BY <2>1 DEF SetStatus, JobTypes, JobRows
<1>2. \A j \in Jobs, st \in JobStatus :
        Announce(j, st) => events' \in [Jobs -> SUBSET JobStatus]
  BY DEF TypeOK, Announce
<1>3. \A s \in Slots, step \in SlotSteps : Goto(s, step) => slot' \in SlotTypes
  <2>1. slot \in SlotTypes
    BY DEF TypeOK, SlotTypes, SlotRows
  <2>2. QED BY <2>1 DEF Goto, SlotTypes, SlotRows
<1>4. \A s \in Slots : EndTask(s) => slot' \in SlotTypes
  BY DEF TypeOK, EndTask, SlotTypes, SlotRows, IdleSlot, SlotSteps
<1>5. QED BY <1>1, <1>2, <1>3, <1>4

LEMMA RequestType ==
    ASSUME IInv, NEW r \in Requests, RequestStep(r)
    PROVE  TypeOK'
<1>1. RequestFits(r) /\ TypeOK
  BY DEF IInv
<1>2. IdleRequest \in [step : RequestSteps, job : Jobs \cup {None}]
  BY DEF IdleRequest, RequestSteps
<1> USE FaultsAreBounded, Updates, <1>1, <1>2 DEF TypeOK, imageVars, RequestFits, Creating,
       JobTypes, JobRows, SlotTypes, SlotRows
<1>3. CASE CreateJob(r)
  BY <1>3 DEF CreateJob, JobRow, JobStatus, RequestSteps
<1>4. CASE EnqueueJob(r)
  <2>1. request[r].job \in Jobs
    BY <1>4 DEF EnqueueJob
  <2>2. tasks' \in Seq(Jobs)
    BY <1>4, <2>1 DEF EnqueueJob
  <2>3. QED BY <1>4, <2>2 DEF EnqueueJob, RequestSteps
<1>5. CASE EnqueueFails(r)
  <2>1. request[r].job \in Jobs
    BY <1>5 DEF EnqueueFails
  <2>2. tasks' \in Seq(Jobs) /\ lost' \subseteq Jobs
    <3>1. Append(tasks, request[r].job) \in Seq(Jobs)
      BY <2>1
    <3>2. QED BY <1>5, <2>1, <3>1 DEF EnqueueFails
  <2>3. QED BY <1>5, <2>2 DEF EnqueueFails
<1>6. CASE EmitCreated(r)
  BY <1>6 DEF EmitCreated, JobStatus
<1>7. CASE CancelJob(r)
  <2>1. PICK j \in Jobs : /\ SetStatus(j, "cancelled")
                         /\ request' = [request EXCEPT ![r] = [step |-> "emit_cancelled", job |-> j]]
    BY <1>7 DEF CancelJob
  <2>2. QED BY <1>7, <2>1 DEF CancelJob, JobStatus, RequestSteps
<1>8. CASE EmitCancelled(r)
  BY <1>8 DEF EmitCancelled, JobStatus
<1>9. CASE RequestCrash(r)
  BY <1>9 DEF RequestCrash
<1>10. QED BY <1>3, <1>4, <1>5, <1>6, <1>7, <1>8, <1>9 DEF RequestStep

LEMMA SlotType ==
    ASSUME IInv, NEW s \in Slots, TaskStep(s)
    PROVE  TypeOK'
<1>1. SlotFits(s) /\ TypeOK
  BY DEF IInv
<1> USE FaultsAreBounded, Updates, <1>1 DEF TypeOK, imageVars, At, SlotFits, Working,
       JobTypes, JobRows, SlotTypes, SlotRows
<1>2. CASE Dequeue(s)
  <2>1. Head(tasks) \in Jobs /\ Tail(tasks) \in Seq(Jobs)
    BY <1>2 DEF Dequeue
  <2>2. [IdleSlot EXCEPT !.step = "find", !.job = Head(tasks)]
            \in [step : SlotSteps, job : Jobs \cup {None}, image : Images \cup {None}]
    BY <2>1 DEF IdleSlot, SlotSteps
  <2>3. slot' \in SlotTypes
    BY <1>2, <2>2 DEF Dequeue
  <2>4. QED BY <1>2, <2>1, <2>3 DEF Dequeue
<1>3. CASE FindJob(s)
  BY <1>3 DEF FindJob, SlotSteps
<1>4. CASE ClaimJob(s)
  BY <1>4 DEF ClaimJob, SlotSteps, JobStatus
<1>5. CASE EmitProcessing(s)
  BY <1>5 DEF EmitProcessing, SlotSteps, JobStatus
<1>6. CASE Generate(s)
  <2>1. slot' \in SlotTypes
    <3>1. CASE Goto(s, "mark_failed")
      BY <3>1 DEF SlotSteps
    <3>2. CASE \E i \in Images : slot' = [slot EXCEPT ![s].step = "upload", ![s].image = i]
      <4>1. PICK i \in Images : slot' = [slot EXCEPT ![s].step = "upload", ![s].image = i]
        BY <3>2
      <4>2. slot \in SlotTypes /\ "upload" \in SlotSteps
        BY DEF SlotSteps
      <4>3. [slot[s] EXCEPT !.step = "upload", !.image = i] \in SlotRows
        BY RowUpdates
      <4>4. QED BY <4>1, <4>2, <4>3
    <3>3. QED BY <1>6, <3>1, <3>2 DEF Generate
  <2>2. QED BY <1>6, <2>1 DEF Generate
<1>7. CASE UploadGenerated(s)
  BY <1>7 DEF UploadGenerated, SlotSteps
<1>8. CASE CreateGeneratedImage(s)
  BY <1>8 DEF CreateGeneratedImage, SlotSteps, ImageRow, ImageStatus
<1>9. CASE GenerationFails(s)
  BY <1>9 DEF GenerationFails, SlotSteps
<1>10. CASE MarkSucceeded(s)
  <2>1. slot[s].job \in Jobs /\ slot[s].image \in Images
    BY <1>10 DEF MarkSucceeded
  <2>2. job' \in JobTypes
    <3>1. job \in JobTypes /\ "succeeded" \in JobStatus
      BY DEF JobStatus
    <3>2. [job[slot[s].job] EXCEPT !.status = "succeeded", !.output = {slot[s].image}]
              \in JobRows
      BY <2>1, RowUpdates
    <3>3. QED BY <1>10, <2>1, <3>1, <3>2 DEF MarkSucceeded
  <2>3. slot' \in SlotTypes
    BY <1>10 DEF MarkSucceeded, SlotSteps
  <2>4. QED BY <1>10, <2>2, <2>3 DEF MarkSucceeded
<1>11. CASE MarkSucceededUnknown(s)
  <2>1. slot[s].job \in Jobs /\ slot[s].image \in Images
    BY <1>11 DEF MarkSucceededUnknown
  <2>2. job' \in JobTypes
    <3>1. job \in JobTypes /\ "succeeded" \in JobStatus
      BY DEF JobStatus
    <3>2. [job[slot[s].job] EXCEPT !.status = "succeeded", !.output = {slot[s].image}]
              \in JobRows
      BY <2>1, RowUpdates
    <3>3. QED BY <1>11, <2>1, <3>1, <3>2 DEF MarkSucceededUnknown
  <2>3. slot' \in SlotTypes
    BY <1>11 DEF MarkSucceededUnknown, SlotSteps
  <2>4. QED BY <1>11, <2>2, <2>3 DEF MarkSucceededUnknown
<1>12. CASE MarkFailed(s)
  BY <1>12 DEF MarkFailed, SlotSteps, JobStatus
<1>13. CASE EmitEnd(s)
  BY <1>13 DEF EmitEnd, JobStatus
<1>14. CASE TaskDies(s)
  BY <1>14 DEF TaskDies
<1>15. QED
  BY <1>2, <1>3, <1>4, <1>5, <1>6, <1>7, <1>8, <1>9, <1>10, <1>11, <1>12, <1>13, <1>14
     DEF TaskStep

LEMMA LibraryType ==
    ASSUME TypeOK, NEW i \in Images, LibraryStep(i)
    PROVE  TypeOK'
<1> USE FaultsAreBounded DEF TypeOK, imageVars,
        ImageRow, ImageStatus
<1>1. CASE BeginUpload(i)
  BY <1>1 DEF BeginUpload
<1>2. CASE UploadFile(i)
  BY <1>2 DEF UploadFile
<1>3. CASE CreateUploadedImage(i)
  BY <1>3 DEF CreateUploadedImage
<1>4. CASE UploadFails(i)
  BY <1>4 DEF UploadFails
<1>5. CASE DeleteImage(i)
  BY <1>5 DEF DeleteImage
<1>6. CASE DestroyAsset(i)
  BY <1>6 DEF DestroyAsset
<1>7. QED BY <1>1, <1>2, <1>3, <1>4, <1>5, <1>6
   DEF LibraryStep

LEMMA TypeStep == IInv /\ [Next]_imageJobVars => TypeOK'
<1> SUFFICES ASSUME IInv, [Next]_imageJobVars PROVE TypeOK'
  OBVIOUS
<1>1. TypeOK
  BY DEF IInv
<1>2. CASE StopWorker \/ StartWorker
  BY <1>1, <1>2 DEF TypeOK, StopWorker, StartWorker, imageVars
<1>3. CASE WorkerCrash
  <2>1. lost' \subseteq Jobs
    BY <1>3 DEF WorkerCrash, IInv, SlotFits, TypeOK, At
  <2>2. IdleSlot \in SlotRows
    BY DEF IdleSlot, SlotRows, SlotSteps
  <2>3. QED BY <1>1, <1>3, <2>1, <2>2, FaultsAreBounded
           DEF WorkerCrash, TypeOK, SlotRows, imageVars
<1>4. CASE UNCHANGED imageJobVars
  BY <1>1, <1>4 DEF TypeOK, imageJobVars, imageVars
<1>5. QED BY <1>1, <1>2, <1>3, <1>4, RequestType, SlotType, LibraryType DEF Next

-----------------------------------------------------------------------------
(* The rest of the invariant.                                               *)

\* Steps that change neither a row nor what was announced: of a request, of a
\* permit, of neither.
LEMMA QuietInvariant ==
    ASSUME IInv, TypeOK', UNCHANGED <<job, events, request, slot>>
    PROVE  IInv'
BY DEF IInv, RequestFits, RequestsApart, SlotFits, SlotsApart, JobFits

LEMMA SameRequestsInvariant ==
    ASSUME IInv, TypeOK', UNCHANGED <<job, events, request>>,
           \A s \in Slots : SlotFits(s)',
           SlotsApart'
    PROVE  IInv'
BY DEF IInv, RequestFits, RequestsApart, JobFits

LEMMA RequestEndsInvariant ==
    ASSUME IInv, TypeOK', UNCHANGED <<job, events, slot>>, NEW r \in Requests,
           \/ request' = [request EXCEPT ![r] = IdleRequest]
           \/ request[r].step = "enqueue" /\ request' = [request EXCEPT ![r].step = "emit_created"]
    PROVE  IInv'
<1>1. \A q \in Requests :
        \/ request'[q].step = "idle"
        \/ request'[q] = request[q]
        \/ /\ request[q].step = "enqueue" /\ request'[q].step = "emit_created"
           /\ request'[q].job = request[q].job
  BY DEF IInv, TypeOK, IdleRequest
<1>2. \A q \in Requests : RequestFits(q)'
  BY <1>1 DEF IInv, RequestFits, Creating
<1>3. RequestsApart'
  BY <1>1 DEF IInv, RequestsApart, Creating
<1>4. QED BY <1>2, <1>3 DEF IInv, SlotFits, SlotsApart, JobFits

\* A permit that goes on with its job or returns.
LEMMA SlotMovesInvariant ==
    ASSUME IInv, TypeOK', UNCHANGED <<job, events, request>>, NEW s \in Slots,
           \A t \in Slots \ {s} : slot'[t] = slot[t],
           SlotFits(s)',
           slot'[s].step \in Claimed => slot[s].step \in Claimed /\ slot'[s].job = slot[s].job
    PROVE  IInv'
<1>1. \A t \in Slots : SlotFits(t)'
  BY DEF IInv, SlotFits
<1>2. SlotsApart'
  BY DEF IInv, SlotsApart
<1>3. QED BY <1>1, <1>2, SameRequestsInvariant

\* Steps that change one job: those who work for other jobs notice nothing.
OnlyJob(j) == \A k \in Jobs \ {j} : job'[k] = job[k] /\ events'[k] = events[k]

LEMMA OthersFit ==
    ASSUME IInv, NEW j \in Jobs, OnlyJob(j)
    PROVE  /\ \A q \in Requests : request'[q] = request[q]
                /\ (request[q].step = "idle" \/ request[q].job # j) => RequestFits(q)'
           /\ \A t \in Slots : slot'[t] = slot[t]
                /\ (slot[t].step = "idle" \/ slot[t].job # j) => SlotFits(t)'
           /\ \A k \in Jobs \ {j} : JobFits(k)'
<1>1. \A q \in Requests : request'[q] = request[q]
        /\ (request[q].step = "idle" \/ request[q].job # j) => RequestFits(q)'
  BY DEF IInv, OnlyJob, RequestFits, Creating
<1>2. \A t \in Slots : slot'[t] = slot[t]
        /\ (slot[t].step = "idle" \/ slot[t].job # j) => SlotFits(t)'
  BY DEF IInv, OnlyJob, SlotFits, Working
<1>3. \A k \in Jobs \ {j} : JobFits(k)'
  BY DEF IInv, OnlyJob, JobFits
<1>4. QED BY <1>1, <1>2, <1>3

\* An absent job is nobody's.
LEMMA CreateJobInvariant ==
    ASSUME IInv, TypeOK', NEW r \in Requests, CreateJob(r)
    PROVE  IInv'
<1>1. PICK j \in Jobs, u \in Users :
        /\ job[j].status = "absent"
        /\ job' = [job EXCEPT ![j] = JobRow("pending", u, {})]
        /\ request' = [request EXCEPT ![r] = [step |-> "enqueue", job |-> j]]
  BY DEF CreateJob
<1>2. UNCHANGED <<slot, events>>
  BY DEF CreateJob
<1>3. /\ job'[j].status = "pending" /\ job'[j].output = {}
      /\ request'[r].step = "enqueue" /\ request'[r].job = j
      /\ \A q \in Requests \ {r} : request'[q] = request[q]
      /\ OnlyJob(j) /\ events[j] = {}
  BY <1>1, <1>2 DEF IInv, TypeOK, JobFits, JobRow, OnlyJob
<1>4. /\ \A q \in Requests : request[q].step = "idle" \/ request[q].job # j
      /\ \A t \in Slots : slot[t].step \notin Claimed \/ slot[t].job # j
  BY <1>1 DEF IInv, RequestFits, SlotFits, Creating, Claimed, Working, TypeOK, RequestSteps
<1>5. \A q \in Requests : RequestFits(q)'
  BY <1>2, <1>3, <1>4, OthersFit DEF RequestFits, Creating
<1>6. RequestsApart'
  BY <1>3, <1>4 DEF IInv, RequestsApart, Creating
<1>7. \A t \in Slots : SlotFits(t)'
  BY <1>2, <1>3, <1>4, OthersFit DEF IInv, SlotFits, Claimed, Working
<1>8. SlotsApart'
  BY <1>2 DEF IInv, SlotsApart
<1>9. \A k \in Jobs : JobFits(k)'
  BY <1>2, <1>3, OthersFit DEF JobFits
<1>10. QED BY <1>5, <1>6, <1>7, <1>8, <1>9 DEF IInv

\* A pending job is cancelled: no permit has claimed it, nobody else cancels it.
LEMMA CancelJobInvariant ==
    ASSUME IInv, TypeOK', NEW r \in Requests, CancelJob(r)
    PROVE  IInv'
<1>1. PICK j \in Jobs :
        /\ job[j].status = "pending"
        /\ SetStatus(j, "cancelled")
        /\ request' = [request EXCEPT ![r] = [step |-> "emit_cancelled", job |-> j]]
  BY DEF CancelJob
<1>2. UNCHANGED <<slot, events>> /\ request[r].step = "idle"
  BY DEF CancelJob
<1>3. /\ job'[j].status = "cancelled"
      /\ request'[r].step = "emit_cancelled" /\ request'[r].job = j
      /\ \A q \in Requests \ {r} : request'[q] = request[q]
      /\ OnlyJob(j) /\ events[j] \subseteq {"pending"}
  BY <1>1, <1>2 DEF IInv, TypeOK, JobFits, SetStatus, OnlyJob, Lifecycle!Reached
<1>4. /\ \A q \in Requests : request[q].step # "emit_cancelled" \/ request[q].job # j
      /\ \A t \in Slots : slot[t].step \notin Claimed \/ slot[t].job # j
  BY <1>1 DEF IInv, RequestFits, SlotFits, Claimed, Working
<1>5. \A q \in Requests : RequestFits(q)'
  <2>1. \A q \in Requests \ {r} : request[q].job = j => RequestFits(q)'
    BY <1>2, <1>3, <1>4 DEF IInv, RequestFits, Creating
  <2>2. RequestFits(r)'
    BY <1>2, <1>3 DEF RequestFits, Creating
  <2>3. QED BY <1>3, <2>1, <2>2, OthersFit
<1>6. RequestsApart'
  <2>1. \A q \in Requests \ {r} :
            request[q].step # "idle" /\ request[q].job = j => request[q].step \in Creating
    BY <1>4 DEF IInv, TypeOK, RequestSteps, Creating
  <2>2. QED BY <1>3, <2>1 DEF IInv, RequestsApart, Creating
<1>7. \A t \in Slots : SlotFits(t)'
  BY <1>2, <1>3, <1>4, OthersFit DEF IInv, SlotFits, Claimed, Working
<1>8. SlotsApart'
  BY <1>2 DEF IInv, SlotsApart
<1>9. \A k \in Jobs : JobFits(k)'
  BY <1>2, <1>3, OthersFit DEF JobFits, Lifecycle!Reached
<1>10. QED BY <1>5, <1>6, <1>7, <1>8, <1>9 DEF IInv

\* A request announces: the other request on the job announces something else.
LEMMA EmitInvariant ==
    ASSUME IInv, TypeOK', NEW r \in Requests, EmitCreated(r) \/ EmitCancelled(r)
    PROVE  IInv'
<1>1. PICK j \in Jobs, st \in {"pending", "cancelled"} :
        /\ j = request[r].job
        /\ st = IF request[r].step = "emit_created" THEN "pending" ELSE "cancelled"
        /\ events' = [events EXCEPT ![j] = @ \cup {st}]
        /\ request' = [request EXCEPT ![r] = IdleRequest]
        /\ UNCHANGED <<job, slot>>
        /\ request[r].step \in {"emit_created", "emit_cancelled"}
  BY DEF EmitCreated, EmitCancelled, Announce, IInv, RequestFits
<1>2. /\ request'[r].step = "idle"
      /\ \A q \in Requests \ {r} : request'[q] = request[q]
      /\ events'[j] = events[j] \cup {st}
      /\ OnlyJob(j)
  BY <1>1 DEF IInv, TypeOK, IdleRequest, OnlyJob
<1>3. \A q \in Requests : RequestFits(q)'
  <2>1. \A q \in Requests \ {r} : request[q].step # "idle" /\ request[q].job = j =>
            (request[q].step \in Creating <=> st = "cancelled")
    BY <1>1 DEF IInv, RequestsApart, Creating
  <2>2. \A q \in Requests \ {r} : request[q].job = j => RequestFits(q)'
    BY <1>1, <1>2, <2>1 DEF IInv, RequestFits, Creating
  <2>3. RequestFits(r)'
    BY <1>2 DEF RequestFits, Creating
  <2>4. QED BY <1>2, <2>2, <2>3, OthersFit, <1>1
<1>4. RequestsApart'
  BY <1>2 DEF IInv, RequestsApart
<1>5. \A t \in Slots : SlotFits(t)'
  BY <1>1, <1>2 DEF IInv, SlotFits, OnlyJob
<1>6. SlotsApart'
  BY <1>1 DEF IInv, SlotsApart
<1>7. \A k \in Jobs : JobFits(k)'
  <2>1. st \in Lifecycle!Reached(job[j].status) /\ job[j].status # "absent"
    BY <1>1 DEF IInv, RequestFits, Creating, Lifecycle!Reached
  <2>2. JobFits(j)
    BY <1>1 DEF IInv
  <2>3. JobFits(j)'
    BY <1>1, <1>2, <2>1, <2>2 DEF JobFits, Lifecycle!Reached
  <2>4. \A k \in Jobs \ {j} : JobFits(k)'
    BY <1>1, <1>2, OthersFit
  <2>5. QED BY <2>3, <2>4
<1>8. QED BY <1>3, <1>4, <1>5, <1>6, <1>7 DEF IInv

\* The steps of a permit that change no row and announce nothing.
LEMMA QuietTaskInvariant ==
    ASSUME IInv, TypeOK', NEW s \in Slots, UNCHANGED <<job, events, request>>,
           \/ Dequeue(s) \/ FindJob(s) \/ ClaimJob(s) \/ Generate(s) \/ UploadGenerated(s)
           \/ CreateGeneratedImage(s) \/ GenerationFails(s) \/ MarkSucceeded(s)
           \/ MarkFailed(s) \/ TaskDies(s)
    PROVE  IInv'
<1>1. SlotFits(s) /\ TypeOK
  BY DEF IInv
<1>2. \A t \in Slots \ {s} : slot'[t] = slot[t]
  BY <1>1 DEF TypeOK, Dequeue, FindJob, ClaimJob, Generate, UploadGenerated,
     CreateGeneratedImage, GenerationFails, MarkSucceeded, MarkFailed, TaskDies, Goto, EndTask
<1>3. CASE slot' = [slot EXCEPT ![s] = IdleSlot]
  <2>1. slot'[s].step = "idle"
    BY <1>1, <1>3 DEF TypeOK, IdleSlot
  <2>2. SlotFits(s)' /\ slot'[s].step \notin Claimed
    BY <2>1 DEF SlotFits, Claimed, Working
  <2>3. QED BY <1>2, <2>2, SlotMovesInvariant
<1>4. CASE Dequeue(s)
  <2>1. slot'[s].step = "find" /\ slot'[s].job \in Jobs
    BY <1>1, <1>4 DEF Dequeue, TypeOK, IdleSlot
  <2>2. SlotFits(s)' /\ slot'[s].step \notin Claimed
    BY <2>1 DEF SlotFits, Claimed, Working
  <2>3. QED BY <1>2, <2>2, SlotMovesInvariant
<1>5. CASE Goto(s, "claim") /\ At(s, "find")
  <2>1. slot'[s].step = "claim" /\ slot'[s].job \in Jobs
    BY <1>1, <1>5 DEF Goto, At, SlotFits, TypeOK
  <2>2. SlotFits(s)' /\ slot'[s].step \notin Claimed
    BY <2>1 DEF SlotFits, Claimed, Working
  <2>3. QED BY <1>2, <2>2, SlotMovesInvariant
<1>6. CASE \/ Goto(s, "mark_failed") /\ slot[s].step \in Working
           \/ Goto(s, "create_image") /\ At(s, "upload")
           \/ Goto(s, "mark_succeeded") /\ At(s, "create_image")
  <2>1. /\ slot[s].step \in Working /\ slot[s].job \in Jobs
        /\ slot'[s].job = slot[s].job /\ slot'[s].image = slot[s].image
        /\ \/ slot'[s].step = "mark_failed"
           \/ /\ slot[s].step \in {"upload", "create_image"}
              /\ slot'[s].step \in {"create_image", "mark_succeeded"}
    BY <1>1, <1>6 DEF Goto, At, SlotFits, TypeOK, Working
  <2>2. SlotFits(s)'
    BY <1>1, <2>1 DEF SlotFits, Working
  <2>3. slot[s].step \in Claimed
    BY <2>1 DEF Claimed
  <2>4. QED BY <1>2, <2>1, <2>2, <2>3, SlotMovesInvariant
<1>7. CASE \E i \in Images : /\ At(s, "generate")
                           /\ slot' = [slot EXCEPT ![s].step = "upload", ![s].image = i]
  <2>1. /\ slot[s].step = "generate" /\ slot[s].job \in Jobs
        /\ slot'[s].job = slot[s].job /\ slot'[s].image \in Images
        /\ slot'[s].step = "upload"
    <3>1. PICK i \in Images : slot' = [slot EXCEPT ![s].step = "upload", ![s].image = i]
      BY <1>7
    <3>2. slot[s] \in SlotRows
      BY <1>1 DEF TypeOK, SlotRows
    <3>3. slot'[s] = [slot[s] EXCEPT !.step = "upload", !.image = i]
      BY <1>1, <3>1 DEF TypeOK
    <3>4. QED BY <1>1, <1>7, <3>2, <3>3 DEF SlotRows, SlotFits, At
  <2>2. SlotFits(s)'
    BY <1>1, <2>1 DEF SlotFits, Working
  <2>3. slot[s].step \in Claimed
    BY <2>1 DEF Claimed, Working
  <2>4. QED BY <1>2, <2>1, <2>2, <2>3, SlotMovesInvariant
<1>8. ASSUME NEW st \in {"processing", "succeeded", "failed"}, NEW from \in JobStatus,
             slot[s].job \in Jobs, job[slot[s].job].status = from, from # st
      PROVE  ~SetStatus(slot[s].job, st)
  BY <1>1, <1>8 DEF SetStatus, TypeOK
<1>9. QED
  <2>1. CASE ClaimJob(s)
    BY <1>1, <1>3, <1>8, <2>1 DEF ClaimJob, At, EndTask, SlotFits, JobStatus
  <2>2. CASE MarkFailed(s)
    BY <1>1, <1>3, <1>8, <2>2 DEF MarkFailed, At, EndTask, SlotFits, JobStatus
  <2>3. CASE MarkSucceeded(s)
    <3>1. slot[s].job \in Jobs /\ job[slot[s].job] \in JobRows
      BY <1>1, <2>3 DEF MarkSucceeded, At, SlotFits, TypeOK, JobRows
    <3>2. \A i : [job[slot[s].job] EXCEPT !.status = "succeeded", !.output = {i}]
                    # job[slot[s].job] \/ job[slot[s].job].status = "succeeded"
      BY <3>1 DEF JobRows
    <3>3. job[slot[s].job].status # "processing"
      BY <1>1, <2>3, <3>1, <3>2 DEF MarkSucceeded, TypeOK
    <3>4. QED BY <1>3, <2>3, <3>3 DEF MarkSucceeded, EndTask
  <2>4. QED BY <1>3, <1>4, <1>5, <1>6, <1>7, <2>1, <2>2, <2>3
            DEF FindJob, Generate, UploadGenerated, CreateGeneratedImage, GenerationFails,
                TaskDies, EndTask, At, Working

\* A permit that changes the job it has claimed, or claims it now.
LEMMA ClaimedJobInvariant ==
    ASSUME IInv, TypeOK', NEW s \in Slots, NEW j \in Jobs, UNCHANGED request, OnlyJob(j),
           \A t \in Slots \ {s} : slot'[t] = slot[t],
           \A t \in Slots \ {s} : slot[t].step \in Claimed => slot[t].job # j,
           slot'[s].step \in Claimed => slot'[s].job = j,
           job[j].status \notin {"absent", "cancelled"},
           job'[j].status # "absent",
           "pending" \in events'[j] => "pending" \in events[j],
           SlotFits(s)',
           JobFits(j)'
    PROVE  IInv'
<1>1. \A q \in Requests : RequestFits(q)'
  <2>1. \A q \in Requests : request[q].job = j => RequestFits(q)'
    BY DEF IInv, RequestFits, Creating
  <2>2. QED BY <2>1, OthersFit
<1>2. RequestsApart'
  BY DEF IInv, RequestsApart
<1>3. \A t \in Slots : SlotFits(t)'
  <2>1. \A t \in Slots \ {s} : slot[t].job = j => SlotFits(t)'
    BY DEF IInv, SlotFits, Claimed, Working
  <2>2. QED BY <2>1, OthersFit
<1>4. SlotsApart'
  BY DEF IInv, SlotsApart
<1>5. \A k \in Jobs : JobFits(k)'
  BY OthersFit
<1>6. QED BY <1>1, <1>2, <1>3, <1>4, <1>5 DEF IInv

LEMMA ClaimJobInvariant ==
    ASSUME IInv, TypeOK', NEW s \in Slots, ClaimJob(s), ~UNCHANGED job
    PROVE  IInv'
<1>1. PICK j \in Jobs :
        /\ j = slot[s].job /\ At(s, "claim")
        /\ job[j].status = "pending"
        /\ SetStatus(j, "processing") /\ Goto(s, "emit_processing")
        /\ UNCHANGED <<request, events>>
  BY DEF ClaimJob, At, IInv, SlotFits
<1>2. /\ job'[j].status = "processing" /\ job'[j].output = job[j].output
      /\ slot'[s].step = "emit_processing" /\ slot'[s].job = j
      /\ \A t \in Slots \ {s} : slot'[t] = slot[t]
      /\ OnlyJob(j)
  BY <1>1 DEF IInv, TypeOK, SetStatus, Goto, OnlyJob
<1>3. events[j] \subseteq {"pending"}
  BY <1>1 DEF IInv, JobFits, Lifecycle!Reached
<1>4. \A t \in Slots \ {s} : slot[t].step \in Claimed => slot[t].job # j
  BY <1>1 DEF IInv, SlotFits, Claimed, Working
<1>5. SlotFits(s)' /\ JobFits(j)'
  BY <1>1, <1>2, <1>3 DEF SlotFits, Working, JobFits, Lifecycle!Reached
<1>6. QED BY <1>1, <1>2, <1>4, <1>5, ClaimedJobInvariant

\* A permit announces the status its job has.
LEMMA EmitTaskInvariant ==
    ASSUME IInv, TypeOK', NEW s \in Slots, EmitProcessing(s) \/ EmitEnd(s)
    PROVE  IInv'
<1>1. PICK j \in Jobs, st \in {"processing", "succeeded", "failed"} :
        /\ j = slot[s].job
        /\ st = job[j].status
        /\ events' = [events EXCEPT ![j] = @ \cup {st}]
        /\ UNCHANGED <<job, request>>
        /\ slot[s].step \in {"emit_processing", "emit_succeeded", "emit_failed"}
        /\ \/ Goto(s, "generate") /\ st = "processing"
           \/ EndTask(s)
  <2>1. SlotFits(s)
    BY DEF IInv
  <2>2. CASE EmitProcessing(s)
    BY <2>1, <2>2 DEF EmitProcessing, At, Announce, SlotFits
  <2>3. CASE EmitEnd(s)
    BY <2>1, <2>3 DEF EmitEnd, Announce, SlotFits
  <2>4. QED BY <2>2, <2>3
<1>2. /\ events'[j] = events[j] \cup {st}
      /\ \A t \in Slots \ {s} : slot'[t] = slot[t]
      /\ OnlyJob(j)
  BY <1>1 DEF IInv, TypeOK, Goto, EndTask, OnlyJob
<1>3. \/ slot'[s].step = "generate" /\ slot'[s].job = j /\ st = "processing"
      \/ slot'[s].step = "idle"
  BY <1>1 DEF IInv, TypeOK, Goto, EndTask, IdleSlot
<1>4. \A t \in Slots \ {s} : slot[t].step \in Claimed => slot[t].job # j
  BY <1>1 DEF IInv, SlotsApart, Claimed
<1>5. SlotFits(s)'
  BY <1>1, <1>3 DEF SlotFits, Working
<1>6. JobFits(j)'
  <2>1. JobFits(j)
    BY DEF IInv
  <2>2. QED BY <1>1, <1>2, <2>1 DEF JobFits, Lifecycle!Reached
<1>7. slot'[s].step \in Claimed => slot'[s].job = j
  BY <1>3 DEF Claimed, Working
<1>8. QED BY <1>1, <1>2, <1>4, <1>5, <1>6, <1>7, ClaimedJobInvariant

\* A processing job ends.
LEMMA EndInvariant ==
    ASSUME IInv, TypeOK', NEW s \in Slots, ~UNCHANGED job,
           MarkSucceeded(s) \/ MarkSucceededUnknown(s) \/ MarkFailed(s)
    PROVE  IInv'
<1>1. PICK j \in Jobs, step \in {"emit_succeeded", "emit_failed", "mark_failed"} :
        /\ j = slot[s].job
        /\ job[j].status = "processing"
        /\ Goto(s, step)
        /\ UNCHANGED <<request, events>>
        /\ slot[s].step \in Claimed
        /\ \A k \in Jobs \ {j} : job'[k] = job[k]
        /\ job'[j].status = IF step = "emit_failed" THEN "failed" ELSE "succeeded"
  <2>1. SlotFits(s) /\ TypeOK /\ job \in JobTypes
    BY DEF IInv, TypeOK, JobTypes, JobRows
  <2>2. CASE MarkFailed(s)
    BY <2>1, <2>2 DEF MarkFailed, At, SetStatus, SlotFits, Claimed, JobTypes, JobRows
  <2>3. CASE MarkSucceeded(s)
    <3>1. slot[s].job \in Jobs /\ slot[s].image \in Images
      BY <2>1, <2>3 DEF MarkSucceeded, At, SlotFits
    <3>2. \A i : [job[slot[s].job] EXCEPT !.status = "succeeded", !.output = {i}].status
                    = "succeeded"
      BY <2>1, <3>1 DEF JobTypes, JobRows
    <3>3. QED BY <2>1, <2>3, <3>1, <3>2 DEF MarkSucceeded, At, Claimed, Working, JobTypes
  <2>4. CASE MarkSucceededUnknown(s)
    <3>1. slot[s].job \in Jobs /\ slot[s].image \in Images
      BY <2>1, <2>4 DEF MarkSucceededUnknown, At, SlotFits
    <3>2. \A i : [job[slot[s].job] EXCEPT !.status = "succeeded", !.output = {i}].status
                    = "succeeded"
      BY <2>1, <3>1 DEF JobTypes, JobRows
    <3>3. QED BY <2>1, <2>4, <3>1, <3>2 DEF MarkSucceededUnknown, At, Claimed, Working, JobTypes
  <2>5. QED BY <2>2, <2>3, <2>4
<1>2. /\ slot'[s].step = step /\ slot'[s].job = j
      /\ \A t \in Slots \ {s} : slot'[t] = slot[t]
      /\ OnlyJob(j)
  BY <1>1 DEF IInv, TypeOK, Goto, OnlyJob
<1>3. events[j] \subseteq {"pending", "processing"}
  BY <1>1 DEF IInv, JobFits, Lifecycle!Reached
<1>4. \A t \in Slots \ {s} : slot[t].step \in Claimed => slot[t].job # j
  BY <1>1 DEF IInv, SlotsApart
<1>5. SlotFits(s)' /\ JobFits(j)'
  BY <1>1, <1>2, <1>3 DEF SlotFits, Working, JobFits, Lifecycle!Reached
<1>6. QED BY <1>1, <1>2, <1>4, <1>5, ClaimedJobInvariant

LEMMA NextInvariant == IInv /\ [Next]_imageJobVars => IInv'
<1> SUFFICES ASSUME IInv, [Next]_imageJobVars PROVE IInv'
  OBVIOUS
<1>1. TypeOK'
  BY TypeStep
<1>2. ASSUME NEW r \in Requests, RequestStep(r) PROVE IInv'
  <2>1. CASE EnqueueJob(r) \/ EnqueueFails(r) \/ RequestCrash(r)
    BY <1>1, <2>1, RequestEndsInvariant DEF EnqueueJob, EnqueueFails, RequestCrash
  <2>2. QED BY <1>1, <1>2, <2>1, CreateJobInvariant, CancelJobInvariant, EmitInvariant
            DEF RequestStep
<1>3. ASSUME NEW s \in Slots, TaskStep(s) PROVE IInv'
  <2>1. CASE Dequeue(s) \/ FindJob(s) \/ Generate(s) \/ UploadGenerated(s)
             \/ CreateGeneratedImage(s) \/ GenerationFails(s) \/ TaskDies(s)
    <3>1. UNCHANGED <<job, events, request>>
      BY <2>1 DEF Dequeue, FindJob, Generate, UploadGenerated, CreateGeneratedImage,
         GenerationFails, TaskDies
    <3>2. QED BY <1>1, <2>1, <3>1, QuietTaskInvariant
  <2>2. CASE ClaimJob(s)
    <3>1. UNCHANGED <<events, request>>
      BY <2>2 DEF ClaimJob
    <3>2. QED BY <1>1, <2>2, <3>1, QuietTaskInvariant, ClaimJobInvariant
  <2>3. CASE MarkSucceeded(s) \/ MarkSucceededUnknown(s) \/ MarkFailed(s)
    <3>1. UNCHANGED <<events, request>>
      BY <2>3 DEF MarkSucceeded, MarkSucceededUnknown, MarkFailed
    <3>2. CASE ~UNCHANGED job
      BY <1>1, <2>3, <3>2, EndInvariant
    <3>3. CASE UNCHANGED job /\ MarkSucceededUnknown(s)
      <4>1. PICK j \in Jobs : /\ j = slot[s].job /\ job[j].status = "processing"
                             /\ job'[j] = [job[j] EXCEPT !.status = "succeeded",
                                                         !.output = {slot[s].image}]
        BY <3>3 DEF MarkSucceededUnknown, At, IInv, SlotFits, TypeOK
      <4>2. job[j] \in JobRows
        BY DEF IInv, TypeOK, JobRows
      <4>3. job'[j].status = "succeeded"
        BY <4>1, <4>2 DEF JobRows
      <4>4. QED BY <3>3, <4>1, <4>3
    <3>4. QED BY <1>1, <2>3, <3>1, <3>2, <3>3, QuietTaskInvariant
  <2>4. QED BY <1>1, <1>3, <2>1, <2>2, <2>3, EmitTaskInvariant DEF TaskStep
<1>4. ASSUME NEW i \in Images, LibraryStep(i) PROVE IInv'
  <2>1. UNCHANGED <<job, events, request, slot>>
    BY <1>4 DEF LibraryStep, BeginUpload, UploadFile, CreateUploadedImage, UploadFails,
       DeleteImage, DestroyAsset
  <2>2. QED BY <1>1, <2>1, QuietInvariant
<1>5. CASE StopWorker \/ StartWorker
  BY <1>1, <1>5, QuietInvariant DEF StopWorker, StartWorker
<1>6. CASE WorkerCrash
  <2>1. \A s \in Slots : slot'[s].step = "idle"
    BY <1>6 DEF WorkerCrash, IdleSlot
  <2>2. (\A s \in Slots : SlotFits(s)') /\ SlotsApart'
    BY <2>1 DEF SlotFits, SlotsApart, Claimed, Working
  <2>3. QED BY <1>1, <1>6, <2>2, SameRequestsInvariant DEF WorkerCrash
<1>7. CASE UNCHANGED imageJobVars
  BY <1>1, <1>7, QuietInvariant DEF imageJobVars
<1>8. QED BY <1>2, <1>3, <1>4, <1>5, <1>6, <1>7 DEF Next

-----------------------------------------------------------------------------
(* Every step is a step of the life cycle, or none.                         *)

Outputs == [j \in Jobs |-> job[j].output]

LEMMA NothingHappens ==
    ASSUME UNCHANGED <<job, events>>
    PROVE  UNCHANGED Lifecycle!vars
BY DEF Lifecycle!vars

LEMMA MoveImplements ==
    ASSUME IInv, NEW j \in Jobs, NEW st, OnlyJob(j), UNCHANGED events,
           job' = [k \in Jobs |-> job'[k]], job'[j].status = st,
           job'[j].output = job[j].output
    PROVE  Lifecycle!Move(j, job[j].status, st) /\ Outputs' = Outputs
BY DEF IInv, TypeOK, OnlyJob, Lifecycle!Move, Outputs

LEMMA StatusMoves ==
    ASSUME IInv, NEW j \in Jobs, NEW st, SetStatus(j, st), UNCHANGED events
    PROVE  /\ OnlyJob(j) /\ job' = [k \in Jobs |-> job'[k]]
           /\ job'[j].status = st /\ job'[j].output = job[j].output
<1>1. job \in JobTypes /\ job' = [job EXCEPT ![j] = [job[j] EXCEPT !.status = st]]
  BY DEF IInv, TypeOK, JobTypes, JobRows, SetStatus
<1>2. [job[j] EXCEPT !.status = st].status = st
      /\ [job[j] EXCEPT !.status = st].output = job[j].output
  BY <1>1 DEF JobTypes, JobRows
<1>3. job'[j] = [job[j] EXCEPT !.status = st] /\ \A k \in Jobs \ {j} : job'[k] = job[k]
  BY <1>1 DEF JobTypes
<1>4. QED BY <1>1, <1>2, <1>3 DEF OnlyJob, JobTypes

LEMMA AnnounceImplements ==
    ASSUME IInv, UNCHANGED job, NEW j \in Jobs, NEW st \in JobStatus \ events[j],
           job[j].status # "absent", st \in Lifecycle!Reached(job[j].status),
           events' = [events EXCEPT ![j] = @ \cup {st}]
    PROVE  Lifecycle!Announce(j)
BY DEF Lifecycle!Announce

LEMMA RequestImplements ==
    ASSUME IInv, NEW r \in Requests, RequestStep(r)
    PROVE  Lifecycle!Next \/ UNCHANGED Lifecycle!vars
<1>1. CASE CreateJob(r)
  <2>1. PICK j \in Jobs, u \in Users :
            /\ job[j].status = "absent"
            /\ job' = [job EXCEPT ![j] = JobRow("pending", u, {})]
    BY <1>1 DEF CreateJob
  <2>2. /\ OnlyJob(j) /\ UNCHANGED events /\ job' = [k \in Jobs |-> job'[k]]
        /\ job'[j].status = "pending" /\ job'[j].output = job[j].output
    BY <1>1, <2>1 DEF CreateJob, IInv, TypeOK, JobFits, JobRow, OnlyJob
  <2>3. Lifecycle!Submit(j)
    BY <2>1, <2>2, MoveImplements DEF Lifecycle!Submit, Outputs
  <2>4. QED BY <2>3 DEF Lifecycle!Next
<1>2. CASE CancelJob(r)
  <2>1. PICK j \in Jobs : job[j].status = "pending" /\ SetStatus(j, "cancelled")
    BY <1>2 DEF CancelJob
  <2>2. /\ OnlyJob(j) /\ UNCHANGED events /\ job' = [k \in Jobs |-> job'[k]]
        /\ job'[j].status = "cancelled" /\ job'[j].output = job[j].output
    BY <1>2, <2>1, StatusMoves DEF CancelJob
  <2>3. Lifecycle!Cancel(j)
    BY <2>1, <2>2, MoveImplements DEF Lifecycle!Cancel, Outputs
  <2>4. QED BY <2>3 DEF Lifecycle!Next
<1>3. CASE EmitCreated(r) \/ EmitCancelled(r)
  <2>1. RequestFits(r)
    BY DEF IInv
  <2>2. PICK j \in Jobs, st \in {"pending", "cancelled"} :
            /\ st \notin events[j] /\ job[j].status # "absent"
            /\ st \in Lifecycle!Reached(job[j].status)
            /\ events' = [events EXCEPT ![j] = @ \cup {st}]
    <3>1. CASE EmitCreated(r)
      BY <2>1, <3>1 DEF EmitCreated, Announce, RequestFits, Creating, Lifecycle!Reached
    <3>2. CASE EmitCancelled(r)
      BY <2>1, <3>2 DEF EmitCancelled, Announce, RequestFits, Lifecycle!Reached
    <3>3. QED BY <1>3, <3>1, <3>2
  <2>3. UNCHANGED job
    BY <1>3 DEF EmitCreated, EmitCancelled
  <2>4. Lifecycle!Announce(j)
    BY <2>2, <2>3, AnnounceImplements DEF JobStatus
  <2>5. QED BY <2>4 DEF Lifecycle!Next
<1>4. CASE EnqueueJob(r) \/ EnqueueFails(r) \/ RequestCrash(r)
  BY <1>4, NothingHappens DEF EnqueueJob, EnqueueFails, RequestCrash
<1>5. QED BY <1>1, <1>2, <1>3, <1>4 DEF RequestStep

LEMMA TaskImplements ==
    ASSUME IInv, NEW s \in Slots, TaskStep(s)
    PROVE  Lifecycle!Next \/ UNCHANGED Lifecycle!vars
<1>1. SlotFits(s) /\ job \in JobTypes
  BY DEF IInv, TypeOK, JobTypes, JobRows
<1>2. CASE ClaimJob(s) /\ ~UNCHANGED job
  <2>1. PICK j \in Jobs : job[j].status = "pending" /\ SetStatus(j, "processing")
    BY <1>1, <1>2 DEF ClaimJob, At, SlotFits
  <2>2. /\ OnlyJob(j) /\ UNCHANGED events /\ job' = [k \in Jobs |-> job'[k]]
        /\ job'[j].status = "processing" /\ job'[j].output = job[j].output
    BY <1>2, <2>1, StatusMoves DEF ClaimJob
  <2>3. Lifecycle!Claim(j)
    BY <2>1, <2>2, MoveImplements DEF Lifecycle!Claim, Outputs
  <2>4. QED BY <2>3 DEF Lifecycle!Next
<1>3. CASE MarkFailed(s) /\ ~UNCHANGED job
  <2>1. PICK j \in Jobs : job[j].status = "processing" /\ SetStatus(j, "failed")
    BY <1>1, <1>3 DEF MarkFailed, At, SlotFits
  <2>2. /\ OnlyJob(j) /\ UNCHANGED events /\ job' = [k \in Jobs |-> job'[k]]
        /\ job'[j].status = "failed" /\ job'[j].output = job[j].output
    BY <1>3, <2>1, StatusMoves DEF MarkFailed
  <2>3. Lifecycle!Fail(j)
    BY <2>1, <2>2, MoveImplements DEF Lifecycle!Fail, Outputs
  <2>4. QED BY <2>3 DEF Lifecycle!Next
<1>4. CASE (MarkSucceeded(s) \/ MarkSucceededUnknown(s)) /\ ~UNCHANGED job
  <2>1. PICK j \in Jobs, i \in Images :
            /\ job[j].status = "processing"
            /\ job' = [job EXCEPT ![j] = [@ EXCEPT !.status = "succeeded", !.output = {i}]]
            /\ UNCHANGED events
    BY <1>1, <1>4 DEF MarkSucceeded, MarkSucceededUnknown, At, SlotFits
  <2>2. [job[j] EXCEPT !.status = "succeeded", !.output = {i}].status = "succeeded"
        /\ [job[j] EXCEPT !.status = "succeeded", !.output = {i}].output = {i}
    BY <1>1 DEF JobTypes, JobRows
  <2>3. Lifecycle!Succeed(j)
    BY <1>1, <2>1, <2>2 DEF Lifecycle!Succeed, Lifecycle!Move, JobTypes, JobRows
  <2>4. QED BY <2>3 DEF Lifecycle!Next
<1>5. CASE EmitProcessing(s) \/ EmitEnd(s)
  <2>1. PICK j \in Jobs, st \in {"processing", "succeeded", "failed"} :
            /\ st \notin events[j] /\ job[j].status = st
            /\ events' = [events EXCEPT ![j] = @ \cup {st}]
    <3>1. CASE EmitProcessing(s)
      BY <1>1, <3>1 DEF EmitProcessing, At, Announce, SlotFits
    <3>2. CASE EmitEnd(s)
      BY <1>1, <3>2 DEF EmitEnd, Announce, SlotFits
    <3>3. QED BY <1>5, <3>1, <3>2
  <2>2. UNCHANGED job
    BY <1>5 DEF EmitProcessing, EmitEnd
  <2>3. Lifecycle!Announce(j)
    BY <2>1, <2>2, AnnounceImplements DEF JobStatus, Lifecycle!Reached
  <2>4. QED BY <2>3 DEF Lifecycle!Next
<1>6. CASE Dequeue(s) \/ FindJob(s) \/ Generate(s) \/ UploadGenerated(s)
           \/ CreateGeneratedImage(s) \/ GenerationFails(s) \/ TaskDies(s)
  BY <1>6, NothingHappens DEF Dequeue, FindJob, Generate, UploadGenerated,
     CreateGeneratedImage, GenerationFails, TaskDies
<1>7. CASE /\ UNCHANGED job
           /\ ClaimJob(s) \/ MarkSucceeded(s) \/ MarkSucceededUnknown(s) \/ MarkFailed(s)
  BY <1>7, NothingHappens DEF ClaimJob, MarkSucceeded, MarkSucceededUnknown, MarkFailed
<1>8. QED BY <1>2, <1>3, <1>4, <1>5, <1>6, <1>7 DEF TaskStep

LEMMA NextImplements == IInv /\ [Next]_imageJobVars => [Lifecycle!Next]_(Lifecycle!vars)
<1> SUFFICES ASSUME IInv, [Next]_imageJobVars
             PROVE  Lifecycle!Next \/ UNCHANGED Lifecycle!vars
  OBVIOUS
<1>1. ASSUME NEW i \in Images, LibraryStep(i) PROVE UNCHANGED Lifecycle!vars
  BY <1>1, NothingHappens DEF LibraryStep, BeginUpload, UploadFile, CreateUploadedImage,
     UploadFails, DeleteImage, DestroyAsset
<1>2. CASE StopWorker \/ StartWorker \/ WorkerCrash \/ UNCHANGED imageJobVars
  BY <1>2, NothingHappens DEF StopWorker, StartWorker, WorkerCrash, imageJobVars
<1>3. QED BY <1>1, <1>2, RequestImplements, TaskImplements DEF Next

LEMMA InitImplements == Init => Lifecycle!Init
BY DEF Init, JobRow, Lifecycle!Init

-----------------------------------------------------------------------------
(* A job that has not ended is on its way.                                  *)

\* The steps at which a permit will end the job it has claimed.
Holding == Working \cup {"emit_processing", "mark_failed"}

\* A pending job still is to be claimed, a claimed one is held by its permit.
PendingIsTracked(j) ==
    \/ j \in lost
    \/ \E r \in Requests : request[r] = [step |-> "enqueue", job |-> j]
    \/ \E k \in DOMAIN tasks : tasks[k] = j
    \/ \E s \in Slots : slot[s].job = j /\ slot[s].step \in {"find", "claim"}
ClaimedIsHeld(j) ==
    j \in lost \/ \E s \in Slots : slot[s].job = j /\ slot[s].step \in Holding
Tracked(j) ==
    /\ job[j].status = "pending" => PendingIsTracked(j)
    /\ job[j].status = "processing" => ClaimedIsHeld(j)
LiveJobsTracked == \A j \in Jobs : Tracked(j)

LEMMA InitTracked == Init => LiveJobsTracked
BY DEF Init, JobRow, LiveJobsTracked, Tracked

\* A task pushed to the list is in it, and so are the others; the one popped is
\* at its head.
LEMMA TaskPushed ==
    ASSUME tasks \in Seq(Jobs), NEW x \in Jobs, tasks' = Append(tasks, x)
    PROVE  /\ \E k \in DOMAIN tasks' : tasks'[k] = x
           /\ \A j \in Jobs : (\E k \in DOMAIN tasks : tasks[k] = j)
                => \E k \in DOMAIN tasks' : tasks'[k] = j
<1>1. Len(tasks) \in Nat /\ DOMAIN tasks = 1 .. Len(tasks)
  OBVIOUS
<1>2. DOMAIN tasks' = 1 .. Len(tasks) + 1 /\ tasks'[Len(tasks) + 1] = x
  OBVIOUS
<1>3. \A k \in DOMAIN tasks : k \in DOMAIN tasks' /\ tasks'[k] = tasks[k]
  BY <1>1, <1>2
<1>4. QED BY <1>1, <1>2, <1>3

LEMMA TaskPopped ==
    ASSUME tasks \in Seq(Jobs), tasks # <<>>, NEW j \in Jobs,
           NEW k \in DOMAIN tasks, tasks[k] = j
    PROVE  Head(tasks) = j \/ \E n \in DOMAIN Tail(tasks) : Tail(tasks)[n] = j
<1>1. CASE k = 1
  BY <1>1
<1>2. CASE k # 1
  <2>1. k - 1 \in DOMAIN Tail(tasks) /\ Tail(tasks)[k - 1] = tasks[k]
    BY <1>2
  <2>2. QED BY <2>1
<1>3. QED BY <1>1, <1>2

\* A job whose row, task, request and permits stay where they are.
LEMMA StaysTracked ==
    ASSUME NEW j \in Jobs, Tracked(j), job'[j].status = job[j].status,
           j \in lost => j \in lost',
           \A r \in Requests : request[r] = [step |-> "enqueue", job |-> j]
                => PendingIsTracked(j)',
           (\E k \in DOMAIN tasks : tasks[k] = j) => PendingIsTracked(j)',
           \A s \in Slots : slot[s].job = j =>
                /\ slot[s].step \in {"find", "claim"} /\ job[j].status = "pending"
                        => PendingIsTracked(j)'
                /\ slot[s].step \in Holding /\ job[j].status = "processing"
                        => ClaimedIsHeld(j)'
    PROVE  Tracked(j)'
<1>1. CASE job[j].status = "pending"
  <2>1. PendingIsTracked(j)
    BY <1>1 DEF Tracked
  <2>2. CASE j \in lost
    BY <1>1, <2>2 DEF Tracked, PendingIsTracked
  <2>3. PendingIsTracked(j)'
    BY <1>1, <2>1, <2>2 DEF PendingIsTracked
  <2>4. QED BY <1>1, <2>3 DEF Tracked
<1>2. CASE job[j].status = "processing"
  <2>1. ClaimedIsHeld(j)'
    BY <1>2 DEF Tracked, ClaimedIsHeld
  <2>2. QED BY <1>2, <2>1 DEF Tracked
<1>3. QED BY <1>1, <1>2 DEF Tracked

LEMMA RequestTracks ==
    ASSUME IInv, LiveJobsTracked, NEW r \in Requests, RequestStep(r), NEW j \in Jobs
    PROVE  Tracked(j)'
<1>1. TypeOK /\ RequestFits(r) /\ Tracked(j)
  BY DEF IInv, LiveJobsTracked
<1>2. UNCHANGED slot /\ lost \subseteq lost'
  BY DEF RequestStep, CreateJob, EnqueueJob, EnqueueFails, EmitCreated, CancelJob,
     EmitCancelled, RequestCrash
<1>3. \A q \in Requests \ {r} : request'[q] = request[q]
  BY <1>1 DEF TypeOK, RequestStep, CreateJob, EnqueueJob, EnqueueFails, EmitCreated, CancelJob,
     EmitCancelled, RequestCrash
<1>4. (\E k \in DOMAIN tasks : tasks[k] = j) => \E k \in DOMAIN tasks' : tasks'[k] = j
  <2>1. \/ UNCHANGED tasks
        \/ request[r].step = "enqueue" /\ tasks' = Append(tasks, request[r].job)
    BY DEF RequestStep, CreateJob, EnqueueJob, EnqueueFails, EmitCreated, CancelJob,
       EmitCancelled, RequestCrash
  <2>2. request[r].step = "enqueue" => request[r].job \in Jobs
    BY <1>1 DEF RequestFits
  <2>3. QED BY <1>1, <2>1, <2>2, TaskPushed DEF TypeOK
<1>5. request[r] = [step |-> "enqueue", job |-> j] => PendingIsTracked(j)'
  <2> SUFFICES ASSUME request[r] = [step |-> "enqueue", job |-> j]
               PROVE  j \in lost' \/ \E k \in DOMAIN tasks' : tasks'[k] = j
    BY DEF PendingIsTracked
  <2>1. request[r].step = "enqueue" /\ request[r].job = j
    OBVIOUS
  <2>2. j \in lost' \/ tasks' = Append(tasks, j)
    BY <2>1 DEF RequestStep, CreateJob, EnqueueJob, EnqueueFails, EmitCreated, CancelJob,
       EmitCancelled, RequestCrash
  <2>3. QED BY <1>1, <2>2, TaskPushed DEF TypeOK
<1>6. CASE job'[j].status = job[j].status
  <2>1. \A q \in Requests : request[q] = [step |-> "enqueue", job |-> j]
            => PendingIsTracked(j)'
    BY <1>3, <1>5 DEF PendingIsTracked
  <2>2. (\E k \in DOMAIN tasks : tasks[k] = j) => PendingIsTracked(j)'
    BY <1>4 DEF PendingIsTracked
  <2>3. QED BY <1>1, <1>2, <1>6, <2>1, <2>2, StaysTracked DEF PendingIsTracked, ClaimedIsHeld
<1>7. CASE job'[j].status # job[j].status
  <2>1. \/ job'[j].status = "pending" /\ request'[r] = [step |-> "enqueue", job |-> j]
        \/ job'[j].status = "cancelled"
    <3>1. CASE CreateJob(r)
      <4>1. PICK k \in Jobs, u \in Users :
                /\ job' = [job EXCEPT ![k] = JobRow("pending", u, {})]
                /\ request' = [request EXCEPT ![r] = [step |-> "enqueue", job |-> k]]
        BY <3>1 DEF CreateJob
      <4>2. k = j /\ job'[j].status = "pending"
        BY <1>1, <1>7, <4>1 DEF TypeOK, JobRow
      <4>3. QED BY <1>1, <4>1, <4>2 DEF TypeOK
    <3>2. CASE CancelJob(r)
      <4>1. PICK k \in Jobs : SetStatus(k, "cancelled")
        BY <3>2 DEF CancelJob
      <4>2. QED BY <1>1, <1>7, <4>1 DEF TypeOK, SetStatus
    <3>3. QED BY <1>7, <3>1, <3>2 DEF RequestStep, EnqueueJob, EnqueueFails, EmitCreated,
             EmitCancelled, RequestCrash
  <2>2. QED BY <2>1 DEF Tracked, PendingIsTracked
<1>8. QED BY <1>6, <1>7

LEMMA TaskTracks ==
    ASSUME IInv, LiveJobsTracked, NEW s \in Slots, TaskStep(s), NEW j \in Jobs
    PROVE  Tracked(j)'
<1>1. TypeOK /\ SlotFits(s) /\ Tracked(j)
  BY DEF IInv, LiveJobsTracked
<1>2. /\ UNCHANGED request /\ lost \subseteq lost'
      /\ \A t \in Slots \ {s} : slot'[t] = slot[t]
  BY <1>1 DEF TypeOK, TaskStep, Dequeue, FindJob, ClaimJob, EmitProcessing, Generate,
     UploadGenerated, CreateGeneratedImage, GenerationFails, MarkSucceeded,
     MarkSucceededUnknown, MarkFailed, EmitEnd, TaskDies, Goto, EndTask
<1>3. (\E k \in DOMAIN tasks : tasks[k] = j) => PendingIsTracked(j)'
  <2>1. CASE Dequeue(s)
    <3>1. slot'[s].step = "find" /\ slot'[s].job = Head(tasks)
      <4>1. slot'[s] = [IdleSlot EXCEPT !.step = "find", !.job = Head(tasks)]
        BY <1>1, <2>1 DEF Dequeue, TypeOK
      <4>2. QED BY <4>1 DEF IdleSlot
    <3>2. QED BY <1>1, <2>1, <3>1, TaskPopped DEF Dequeue, TypeOK, PendingIsTracked
  <2>2. CASE ~Dequeue(s)
    <3>1. UNCHANGED tasks
      BY <2>2 DEF TaskStep, FindJob, ClaimJob, EmitProcessing, Generate,
         UploadGenerated, CreateGeneratedImage, GenerationFails, MarkSucceeded,
         MarkSucceededUnknown, MarkFailed, EmitEnd, TaskDies
    <3>2. QED BY <3>1 DEF PendingIsTracked
  <2>3. QED BY <2>1, <2>2
<1>4. CASE job'[j].status = job[j].status
  <2>1. ASSUME slot[s].job = j, slot[s].step \in {"find", "claim"}, job[j].status = "pending"
        PROVE  PendingIsTracked(j)'
    <3>1. \/ FindJob(s) /\ Goto(s, "claim")
          \/ TaskDies(s)
      BY <1>1, <1>4, <2>1 DEF TaskStep, Dequeue, FindJob, ClaimJob, EmitProcessing,
         Generate, UploadGenerated, CreateGeneratedImage, GenerationFails, MarkSucceeded,
         MarkSucceededUnknown, MarkFailed, EmitEnd, TaskDies, At, SetStatus, TypeOK
    <3>2. CASE Goto(s, "claim")
      BY <1>1, <2>1, <3>2 DEF Goto, TypeOK, PendingIsTracked
    <3>3. CASE TaskDies(s)
      BY <2>1, <3>3 DEF TaskDies, PendingIsTracked
    <3>4. QED BY <3>1, <3>2, <3>3
  <2>2. ASSUME slot[s].job = j, slot[s].step \in Holding, job[j].status = "processing"
        PROVE  ClaimedIsHeld(j)'
    <3>1. \/ \E step \in Holding : Goto(s, step)
          \/ \E i \in Images : slot' = [slot EXCEPT ![s].step = "upload", ![s].image = i]
          \/ TaskDies(s)
      <4>1. CASE MarkSucceeded(s) \/ MarkSucceededUnknown(s) \/ MarkFailed(s)
        <5>1. job[slot[s].job] \in JobRows /\ slot[s].job \in Jobs
          BY <1>1, <2>2 DEF TypeOK, JobRows
        <5>2. \A i : [job[slot[s].job] EXCEPT !.status = "succeeded", !.output = {i}].status
                        = "succeeded"
          BY <5>1 DEF JobRows
        <5>3. ~MarkSucceeded(s) /\ ~MarkSucceededUnknown(s)
          <6>1. job \in JobTypes /\ slot[s].job = j
            BY <1>1, <2>2 DEF TypeOK, JobTypes, JobRows
          <6> DEFINE ended == [job[slot[s].job] EXCEPT !.status = "succeeded",
                                                       !.output = {slot[s].image}]
          <6>2. MarkSucceeded(s) \/ MarkSucceededUnknown(s)
                    => job' = [job EXCEPT ![slot[s].job] = ended]
            BY <2>2 DEF MarkSucceeded, MarkSucceededUnknown
          <6>3. ended.status = "succeeded"
            BY <5>2
          <6> HIDE DEF ended
          <6>4. job' = [job EXCEPT ![slot[s].job] = ended] => job'[j] = ended
            BY <6>1 DEF JobTypes
          <6>5. QED BY <1>4, <2>2, <6>2, <6>3, <6>4
        <5>4. ~MarkFailed(s)
          <6>1. job \in JobTypes /\ slot[s].job = j
            BY <1>1, <2>2 DEF TypeOK, JobTypes, JobRows
          <6>2. SetStatus(j, "failed") => job'[j] = [job[j] EXCEPT !.status = "failed"]
            BY <6>1 DEF SetStatus, JobTypes
          <6>3. [job[j] EXCEPT !.status = "failed"].status = "failed"
            BY <6>1 DEF JobTypes, JobRows
          <6>4. QED BY <1>4, <2>2, <6>1, <6>2, <6>3 DEF MarkFailed
        <5>5. QED BY <4>1, <5>3, <5>4
      <4>2. QED BY <1>1, <1>4, <2>2, <4>1 DEF TaskStep, Dequeue, FindJob, ClaimJob,
               EmitProcessing, Generate, UploadGenerated, CreateGeneratedImage,
               GenerationFails, EmitEnd, TaskDies, At, Holding, Working
    <3>2. CASE \E step \in Holding : Goto(s, step)
      <4>1. slot'[s].step \in Holding /\ slot'[s].job = j
        BY <1>1, <2>2, <3>2 DEF Goto, TypeOK
      <4>2. QED BY <4>1 DEF ClaimedIsHeld
    <3>3. CASE \E i \in Images : slot' = [slot EXCEPT ![s].step = "upload", ![s].image = i]
      <4>1. PICK i \in Images : slot' = [slot EXCEPT ![s].step = "upload", ![s].image = i]
        BY <3>3
      <4>2. slot[s] \in SlotRows /\ slot'[s] = [slot[s] EXCEPT !.step = "upload", !.image = i]
        BY <1>1, <4>1 DEF TypeOK, SlotRows
      <4>3. slot'[s].step = "upload" /\ slot'[s].job = j
        BY <2>2, <4>2 DEF SlotRows
      <4>4. QED BY <4>3 DEF ClaimedIsHeld, Holding, Working
    <3>4. CASE TaskDies(s)
      BY <2>2, <3>4 DEF TaskDies, ClaimedIsHeld
    <3>5. QED BY <3>1, <3>2, <3>3, <3>4
  <2>3. \A t \in Slots : slot[t].job = j =>
            /\ slot[t].step \in {"find", "claim"} /\ job[j].status = "pending"
                    => PendingIsTracked(j)'
            /\ slot[t].step \in Holding /\ job[j].status = "processing"
                    => ClaimedIsHeld(j)'
    BY <1>2, <2>1, <2>2 DEF PendingIsTracked, ClaimedIsHeld
  <2>4. \A r \in Requests : request[r] = [step |-> "enqueue", job |-> j]
            => PendingIsTracked(j)'
    BY <1>2 DEF PendingIsTracked
  <2>5. QED BY <1>1, <1>2, <1>3, <1>4, <2>3, <2>4, StaysTracked
<1>5. CASE job'[j].status # job[j].status
  <2>1. \/ /\ ClaimJob(s) /\ slot[s].job = j /\ job'[j].status = "processing"
           /\ Goto(s, "emit_processing")
        \/ job'[j].status \in {"succeeded", "failed"}
    <3>1. CASE MarkSucceeded(s) \/ MarkSucceededUnknown(s)
      <4>1. job \in JobTypes /\ slot[s].job \in Jobs
        BY <1>1, <3>1 DEF TypeOK, JobTypes, JobRows, MarkSucceeded, MarkSucceededUnknown, At,
           SlotFits
      <4>2. \A i : [job[slot[s].job] EXCEPT !.status = "succeeded", !.output = {i}].status
                      = "succeeded"
        BY <4>1 DEF JobTypes, JobRows
      <4>3. QED BY <1>5, <3>1, <4>1, <4>2 DEF MarkSucceeded, MarkSucceededUnknown, JobTypes
    <3>2. CASE ClaimJob(s) \/ MarkFailed(s)
      <4>1. slot[s].job \in Jobs
        BY <1>1, <3>2 DEF ClaimJob, MarkFailed, At, SlotFits
      <4>2. QED BY <1>1, <1>5, <3>2, <4>1 DEF ClaimJob, MarkFailed, SetStatus, TypeOK
    <3>3. QED BY <1>5, <3>1, <3>2 DEF TaskStep, Dequeue, FindJob, EmitProcessing, Generate,
             UploadGenerated, CreateGeneratedImage, GenerationFails, EmitEnd, TaskDies
  <2>2. CASE ClaimJob(s) /\ slot[s].job = j /\ Goto(s, "emit_processing")
    <3>1. slot'[s].step = "emit_processing" /\ slot'[s].job = j
      BY <1>1, <2>2 DEF Goto, TypeOK
    <3>2. QED BY <2>1, <3>1 DEF Tracked, ClaimedIsHeld, Holding
  <2>3. QED BY <2>1, <2>2 DEF Tracked
<1>6. QED BY <1>4, <1>5

LEMMA NextTracks == IInv /\ LiveJobsTracked /\ [Next]_imageJobVars => LiveJobsTracked'
<1> SUFFICES ASSUME IInv, LiveJobsTracked, [Next]_imageJobVars, NEW j \in Jobs
             PROVE  Tracked(j)'
  BY DEF LiveJobsTracked
<1>1. CASE WorkerCrash
  <2>1. \A s \in Slots : slot[s].job = j /\ slot[s].step # "idle" => j \in lost'
    BY <1>1 DEF WorkerCrash, At
  <2>2. UNCHANGED <<job, tasks, request>> /\ lost \subseteq lost' /\ Tracked(j)
    BY <1>1 DEF WorkerCrash, LiveJobsTracked
  <2>3. QED BY <2>1, <2>2, StaysTracked DEF PendingIsTracked, ClaimedIsHeld, Holding, Working
<1>2. CASE \/ StopWorker \/ StartWorker \/ UNCHANGED imageJobVars
           \/ \E i \in Images : LibraryStep(i)
  <2>1. UNCHANGED <<job, tasks, request, slot, lost>>
    BY <1>2 DEF StopWorker, StartWorker, imageJobVars, LibraryStep, BeginUpload, UploadFile,
       CreateUploadedImage, UploadFails, DeleteImage, DestroyAsset
  <2>2. QED BY <2>1 DEF LiveJobsTracked, Tracked, PendingIsTracked, ClaimedIsHeld
<1>3. QED BY <1>1, <1>2, RequestTracks, TaskTracks DEF Next

LEMMA TrackedTells == LiveJobsTracked => LiveJobIsTracked
BY DEF LiveJobsTracked, LiveJobIsTracked, Tracked, PendingIsTracked, ClaimedIsHeld

-----------------------------------------------------------------------------
(* No picture is broken.                                                    *)

\* A live picture has its asset; a picture being uploaded or destroyed is not
\* live; a generated one belongs to the owner of its job.
PictureFits(i) ==
    /\ image[i].status = "live" => i \in assets
    /\ image[i].status = "absent" => image[i].job = None
    /\ i \in deleting => image[i].status = "deleted"
    /\ upload[i].step \in {"upload", "create_image"} => image[i].status = "absent"
    /\ upload[i].step = "create_image" => i \in assets
    /\ image[i].job # None =>
        /\ job[image[i].job].status # "absent"
        /\ image[i].owner = job[image[i].job].owner

\* The steps at which a permit's picture has no row yet.
Storing == {"upload", "create_image"}
PermitFits(s) ==
    /\ slot[s].step \in Storing =>
        image[slot[s].image].status = "absent" /\ upload[slot[s].image].step = "none"
    /\ slot[s].step = "create_image" => slot[s].image \in assets
    /\ slot[s].step = "mark_succeeded" =>
        image[slot[s].image].status # "absent" /\ image[slot[s].image].job = slot[s].job
PicturesApart ==
    \A s, t \in Slots : s # t /\ slot[s].step \in Storing /\ slot[t].step \in Storing
        => slot[s].image # slot[t].image
OutputFits(j) == \A i \in job[j].output : image[i].status # "absent" /\ image[i].job = j
LibraryFits ==
    /\ \A i \in Images : PictureFits(i)
    /\ \A s \in Slots : PermitFits(s)
    /\ PicturesApart
    /\ \A j \in Jobs : OutputFits(j)

LEMMA InitLibrary == Init => LibraryFits
<1> SUFFICES ASSUME Init PROVE LibraryFits
  OBVIOUS
<1>1. \A i \in Images : PictureFits(i)
  BY DEF Init, ImageRow, PictureFits
<1>2. \A s \in Slots : slot[s].step = "idle"
  BY DEF Init, IdleSlot
<1>3. \A j \in Jobs : job[j].output = {}
  BY DEF Init, JobRow
<1>4. QED BY <1>1, <1>2, <1>3 DEF LibraryFits, PermitFits, PicturesApart, OutputFits, Storing

\* What a step does to the rows of jobs: an owner stays once there is a row.
RowsStay ==
    \A j \in Jobs : job[j].status # "absent" =>
        job'[j].status # "absent" /\ job'[j].owner = job[j].owner

LEMMA PicturesStay ==
    ASSUME IInv, LibraryFits, RowsStay, UNCHANGED imageVars
    PROVE  \A i \in Images : PictureFits(i)'
<1> SUFFICES ASSUME NEW i \in Images PROVE PictureFits(i)'
  OBVIOUS
<1>1. PictureFits(i) /\ image[i].job \in Jobs \cup {None}
  BY DEF IInv, TypeOK, LibraryFits
<1>2. QED BY <1>1 DEF RowsStay, PictureFits, imageVars

\* A permit that is not storing a picture, or no longer.
LEMMA PermitLeaves ==
    ASSUME IInv, LibraryFits, RowsStay, UNCHANGED imageVars,
           \A j \in Jobs : OutputFits(j)',
           \A s \in Slots : \/ slot'[s] = slot[s]
                            \/ slot'[s].step \notin Storing \cup {"mark_succeeded"}
    PROVE  LibraryFits'
<1>1. \A s \in Slots : PermitFits(s)'
  BY DEF LibraryFits, PermitFits, Storing, imageVars
<1>2. PicturesApart'
  BY DEF LibraryFits, PicturesApart
<1>3. QED BY <1>1, <1>2, PicturesStay DEF LibraryFits

LEMMA RequestKeepsLibrary ==
    ASSUME IInv, LibraryFits, NEW r \in Requests, RequestStep(r)
    PROVE  LibraryFits'
<1>1. UNCHANGED <<slot, imageVars>>
  BY DEF RequestStep, CreateJob, EnqueueJob, EnqueueFails, EmitCreated, CancelJob,
     EmitCancelled, RequestCrash
<1>2. \A j \in Jobs :
        \/ job'[j] = job[j]
        \/ job[j].status = "absent" /\ job'[j].output = {}
        \/ job'[j].status = "cancelled" /\ job'[j].owner = job[j].owner
           /\ job'[j].output = job[j].output
  <2>1. CASE CreateJob(r)
    <3>1. PICK k \in Jobs, u \in Users :
              job[k].status = "absent" /\ job' = [job EXCEPT ![k] = JobRow("pending", u, {})]
      BY <2>1 DEF CreateJob
    <3>2. QED BY <3>1 DEF IInv, TypeOK, JobRow
  <2>2. CASE CancelJob(r)
    <3>1. PICK k \in Jobs : SetStatus(k, "cancelled")
      BY <2>2 DEF CancelJob
    <3>2. QED BY <3>1 DEF IInv, TypeOK, SetStatus
  <2>3. QED BY <2>1, <2>2 DEF RequestStep, EnqueueJob, EnqueueFails, EmitCreated,
           EmitCancelled, RequestCrash
<1>3. RowsStay
  BY <1>2 DEF RowsStay
<1>4. \A j \in Jobs : OutputFits(j)'
  BY <1>1, <1>2 DEF LibraryFits, OutputFits, imageVars
<1>5. QED BY <1>1, <1>3, <1>4, PermitLeaves

\* The rows of jobs over the steps of a permit.
LEMMA TaskKeepsRows ==
    ASSUME IInv, LibraryFits, NEW s \in Slots, TaskStep(s)
    PROVE  /\ \A t \in Slots \ {s} : slot'[t] = slot[t]
           /\ RowsStay
           /\ UNCHANGED image => \A j \in Jobs : OutputFits(j)'
<1>1. TypeOK /\ SlotFits(s) /\ PermitFits(s) /\ job \in JobTypes
  BY DEF IInv, LibraryFits, TypeOK, JobTypes, JobRows
<1>2. \A t \in Slots \ {s} : slot'[t] = slot[t]
  BY <1>1 DEF TypeOK, TaskStep, Dequeue, FindJob, ClaimJob, EmitProcessing, Generate,
     UploadGenerated, CreateGeneratedImage, GenerationFails, MarkSucceeded,
     MarkSucceededUnknown, MarkFailed, EmitEnd, TaskDies, Goto, EndTask
<1>3. \A j \in Jobs :
        \/ job'[j] = job[j]
        \/ /\ job'[j].status # "absent" /\ job'[j].owner = job[j].owner
           /\ \/ job'[j].output = job[j].output
              \/ job'[j].output = {slot[s].image} /\ j = slot[s].job /\ At(s, "mark_succeeded")
  <2>1. CASE MarkSucceeded(s) \/ MarkSucceededUnknown(s)
    <3> DEFINE ended == [job[slot[s].job] EXCEPT !.status = "succeeded",
                                                 !.output = {slot[s].image}]
    <3>1. slot[s].job \in Jobs
      BY <1>1, <2>1 DEF MarkSucceeded, MarkSucceededUnknown, At, SlotFits
    <3>2. UNCHANGED job \/ job' = [job EXCEPT ![slot[s].job] = ended]
      BY <2>1 DEF MarkSucceeded, MarkSucceededUnknown
    <3>3. /\ ended.status = "succeeded" /\ ended.output = {slot[s].image}
          /\ ended.owner = job[slot[s].job].owner
      BY <1>1, <3>1 DEF JobTypes, JobRows
    <3>4. At(s, "mark_succeeded")
      BY <2>1 DEF MarkSucceeded, MarkSucceededUnknown
    <3> HIDE DEF ended
    <3>5. QED BY <1>1, <3>1, <3>2, <3>3, <3>4 DEF JobTypes
  <2>2. CASE ClaimJob(s) \/ MarkFailed(s)
    <3>1. slot[s].job \in Jobs
      BY <1>1, <2>2 DEF ClaimJob, MarkFailed, At, SlotFits
    <3>2. PICK st \in {"processing", "failed"} : UNCHANGED job \/ SetStatus(slot[s].job, st)
      BY <2>2 DEF ClaimJob, MarkFailed
    <3>3. QED BY <1>1, <3>1, <3>2 DEF SetStatus, JobTypes, JobRows
  <2>3. QED BY <2>1, <2>2 DEF TaskStep, Dequeue, FindJob, EmitProcessing, Generate,
           UploadGenerated, CreateGeneratedImage, GenerationFails, EmitEnd, TaskDies
<1>4. RowsStay
  BY <1>3 DEF RowsStay
<1>5. UNCHANGED image => \A j \in Jobs : OutputFits(j)'
  BY <1>1, <1>3 DEF LibraryFits, OutputFits, PermitFits, At
<1>6. QED BY <1>2, <1>4, <1>5

LEMMA GenerateKeepsLibrary ==
    ASSUME IInv, LibraryFits, NEW s \in Slots, Generate(s), TaskStep(s)
    PROVE  LibraryFits'
<1>1. UNCHANGED imageVars /\ slot \in SlotTypes
  BY DEF Generate, IInv, TypeOK, SlotTypes, SlotRows
<1>2. CASE Goto(s, "mark_failed")
  <2>1. slot'[s].step = "mark_failed"
    BY <1>1, <1>2 DEF Goto, SlotTypes, SlotRows
  <2>2. QED BY <1>1, <2>1, TaskKeepsRows, PermitLeaves DEF imageVars, Storing
<1>3. CASE \E i \in Images : Unused(i) /\ slot' = [slot EXCEPT ![s].step = "upload", ![s].image = i]
  <2>1. PICK i \in Images : /\ Unused(i)
                          /\ slot' = [slot EXCEPT ![s].step = "upload", ![s].image = i]
    BY <1>3
  <2>2. slot'[s] = [slot[s] EXCEPT !.step = "upload", !.image = i]
    BY <1>1, <2>1 DEF SlotTypes
  <2>3. slot'[s].step = "upload" /\ slot'[s].image = i
    BY <1>1, <2>2 DEF SlotTypes, SlotRows
  <2>4. \A t \in Slots \ {s} : slot'[t] = slot[t]
    BY TaskKeepsRows
  <2>5. \A t \in Slots : PermitFits(t)'
    <3>1. PermitFits(s)'
      BY <1>1, <2>1, <2>3 DEF PermitFits, Storing, imageVars, Unused
    <3>2. \A t \in Slots \ {s} : PermitFits(t)'
      BY <1>1, <2>4 DEF LibraryFits, PermitFits, imageVars
    <3>3. QED BY <3>1, <3>2
  <2>6. PicturesApart'
    <3>1. \A t \in Slots \ {s} : slot'[t].image # slot'[s].image
      BY <2>1, <2>3, <2>4 DEF Unused
    <3>2. QED BY <2>4, <3>1 DEF LibraryFits, PicturesApart
  <2>7. QED BY <1>1, <2>5, <2>6, TaskKeepsRows, PicturesStay DEF LibraryFits, imageVars
<1>4. QED BY <1>2, <1>3 DEF Generate

LEMMA UploadGeneratedKeepsLibrary ==
    ASSUME IInv, LibraryFits, NEW s \in Slots, UploadGenerated(s)
    PROVE  LibraryFits'
<1>1. /\ assets' = assets \cup {slot[s].image}
      /\ UNCHANGED <<job, image, upload, deleting>>
      /\ slot[s].step = "upload" /\ slot'[s].step = "create_image"
      /\ slot'[s].image = slot[s].image
      /\ \A t \in Slots \ {s} : slot'[t] = slot[t]
  BY DEF UploadGenerated, At, Goto, IInv, TypeOK
<1>2. \A i \in Images : PictureFits(i)'
  BY <1>1 DEF LibraryFits, PictureFits
<1>3. \A t \in Slots : PermitFits(t)'
  <2>1. PermitFits(s)'
    BY <1>1 DEF LibraryFits, PermitFits, Storing
  <2>2. QED BY <1>1, <2>1 DEF LibraryFits, PermitFits, Storing
<1>4. PicturesApart'
  BY <1>1 DEF LibraryFits, PicturesApart, Storing
<1>5. QED BY <1>1, <1>2, <1>3, <1>4 DEF LibraryFits, OutputFits

LEMMA CreateGeneratedKeepsLibrary ==
    ASSUME IInv, LibraryFits, NEW s \in Slots, CreateGeneratedImage(s)
    PROVE  LibraryFits'
<1>1. PICK i \in Images, j \in Jobs :
        /\ i = slot[s].image /\ j = slot[s].job
        /\ image' = [image EXCEPT ![i] = ImageRow("live", job[j].owner, j)]
        /\ UNCHANGED <<job, upload, deleting, assets>>
        /\ slot[s].step = "create_image" /\ slot'[s].step = "mark_succeeded"
        /\ slot'[s].image = i /\ slot'[s].job = j
        /\ \A t \in Slots \ {s} : slot'[t] = slot[t]
  <2>1. slot[s].step = "create_image" /\ slot[s].image \in Images /\ slot[s].job \in Jobs
    BY DEF CreateGeneratedImage, At, IInv, SlotFits
  <2>2. /\ slot'[s].step = "mark_succeeded" /\ slot'[s].image = slot[s].image
        /\ slot'[s].job = slot[s].job
        /\ \A t \in Slots \ {s} : slot'[t] = slot[t]
    BY DEF CreateGeneratedImage, Goto, IInv, TypeOK
  <2>3. QED BY <2>1, <2>2 DEF CreateGeneratedImage
<1>2. /\ image'[i].status = "live" /\ image'[i].owner = job[j].owner /\ image'[i].job = j
      /\ \A k \in Images \ {i} : image'[k] = image[k]
  BY <1>1 DEF IInv, TypeOK, ImageRow
<1>3. image[i].status = "absent" /\ upload[i].step = "none" /\ i \in assets
  BY <1>1 DEF LibraryFits, PermitFits, Storing
<1>4. job[j].status = "processing"
  BY <1>1 DEF IInv, SlotFits, Working
<1>5. \A k \in Images : PictureFits(k)'
  <2>1. PictureFits(i)'
    BY <1>1, <1>2, <1>3, <1>4 DEF LibraryFits, PictureFits
  <2>2. QED BY <1>1, <1>2, <2>1 DEF LibraryFits, PictureFits
<1>6. \A t \in Slots : PermitFits(t)'
  <2>1. PermitFits(s)'
    BY <1>1, <1>2 DEF PermitFits, Storing
  <2>2. ASSUME NEW t \in Slots \ {s}, slot[t].step \in Storing \cup {"mark_succeeded"}
        PROVE  slot[t].image \in Images \ {i}
    BY <1>1, <1>3, <2>2 DEF IInv, SlotFits, LibraryFits, PermitFits, PicturesApart, Storing
  <2>3. QED BY <1>1, <1>2, <2>1, <2>2 DEF LibraryFits, PermitFits, Storing
<1>7. PicturesApart'
  BY <1>1 DEF LibraryFits, PicturesApart, Storing
<1>8. \A k \in Jobs : OutputFits(k)'
  <2>1. \A k \in Jobs : job[k].output \subseteq Images \ {i}
    BY <1>3 DEF IInv, TypeOK, LibraryFits, OutputFits
  <2>2. QED BY <1>1, <1>2, <2>1 DEF LibraryFits, OutputFits
<1>9. QED BY <1>5, <1>6, <1>7, <1>8 DEF LibraryFits

LEMMA TaskKeepsLibrary ==
    ASSUME IInv, LibraryFits, NEW s \in Slots, TaskStep(s)
    PROVE  LibraryFits'
<1>1. CASE \/ Dequeue(s) \/ FindJob(s) \/ ClaimJob(s) \/ EmitProcessing(s) \/ GenerationFails(s)
           \/ MarkSucceeded(s) \/ MarkSucceededUnknown(s) \/ MarkFailed(s) \/ EmitEnd(s)
           \/ TaskDies(s)
  <2>1. UNCHANGED imageVars /\ slot \in SlotTypes
    BY <1>1 DEF IInv, TypeOK, SlotTypes, SlotRows, Dequeue, FindJob, ClaimJob, EmitProcessing,
       GenerationFails, MarkSucceeded, MarkSucceededUnknown, MarkFailed, EmitEnd, TaskDies
  <2>2. \/ slot' = [slot EXCEPT ![s] = IdleSlot]
        \/ slot' = [slot EXCEPT ![s] = [IdleSlot EXCEPT !.step = "find", !.job = Head(tasks)]]
        \/ \E step \in {"claim", "emit_processing", "generate", "mark_failed",
                        "emit_succeeded", "emit_failed"} : Goto(s, step)
    BY <1>1 DEF Dequeue, FindJob, ClaimJob, EmitProcessing, GenerationFails, MarkSucceeded,
       MarkSucceededUnknown, MarkFailed, EmitEnd, TaskDies, EndTask
  <2>3. slot'[s].step \notin Storing \cup {"mark_succeeded"}
    <3>1. CASE slot' = [slot EXCEPT ![s] = IdleSlot]
      BY <2>1, <3>1 DEF SlotTypes, IdleSlot, Storing
    <3>2. CASE slot' = [slot EXCEPT ![s] = [IdleSlot EXCEPT !.step = "find", !.job = Head(tasks)]]
      <4>1. slot'[s] = [IdleSlot EXCEPT !.step = "find", !.job = Head(tasks)]
        BY <2>1, <3>2 DEF SlotTypes
      <4>2. QED BY <4>1 DEF IdleSlot, Storing
    <3>3. QED BY <2>1, <2>2, <3>1, <3>2 DEF SlotTypes, SlotRows, Goto, Storing
  <2>4. QED BY <2>1, <2>3, TaskKeepsRows, PermitLeaves DEF imageVars
<1>2. QED BY <1>1, GenerateKeepsLibrary, UploadGeneratedKeepsLibrary,
         CreateGeneratedKeepsLibrary DEF TaskStep

\* The steps of an upload and of a deletion change one picture.
LEMMA OnePictureMoves ==
    ASSUME IInv, LibraryFits, NEW i \in Images, UNCHANGED <<job, slot>>,
           \A k \in Images \ {i} : /\ image'[k] = image[k] /\ upload'[k] = upload[k]
                                   /\ k \in assets <=> k \in assets'
                                   /\ k \in deleting <=> k \in deleting',
           PictureFits(i)',
           \A s \in Slots : slot[s].image = i => PermitFits(s)',
           image[i].status # "absent" =>
                image'[i].status # "absent" /\ image'[i].job = image[i].job
    PROVE  LibraryFits'
<1>1. \A k \in Images : PictureFits(k)'
  BY DEF LibraryFits, PictureFits
<1>2. \A s \in Slots : PermitFits(s)'
  <2> SUFFICES ASSUME NEW s \in Slots, slot[s].image # i PROVE PermitFits(s)'
    OBVIOUS
  <2>1. slot[s].step \in Storing \cup {"mark_succeeded"} => slot[s].image \in Images \ {i}
    BY DEF IInv, SlotFits, Storing
  <2>2. QED BY <2>1 DEF LibraryFits, PermitFits, Storing
<1>3. PicturesApart'
  BY DEF LibraryFits, PicturesApart
<1>4. \A j \in Jobs : OutputFits(j)'
  BY DEF IInv, TypeOK, LibraryFits, OutputFits
<1>5. QED BY <1>1, <1>2, <1>3, <1>4 DEF LibraryFits

LEMMA LibraryKeepsLibrary ==
    ASSUME IInv, LibraryFits, NEW i \in Images, LibraryStep(i)
    PROVE  LibraryFits'
<1>1. TypeOK /\ PictureFits(i) /\ \A s \in Slots : PermitFits(s)
  BY DEF IInv, LibraryFits
<1>2. UNCHANGED <<job, slot>>
  BY DEF LibraryStep, BeginUpload, UploadFile, CreateUploadedImage, UploadFails, DeleteImage,
     DestroyAsset
<1>3. CASE BeginUpload(i)
  <2>1. /\ upload'[i].step = "upload" /\ \A k \in Images \ {i} : upload'[k] = upload[k]
        /\ Unused(i) /\ UNCHANGED <<image, deleting, assets>>
    BY <1>1, <1>3 DEF BeginUpload, TypeOK
  <2>2. PictureFits(i)'
    BY <1>1, <1>2, <2>1 DEF PictureFits, Unused
  <2>3. QED BY <1>2, <2>1, <2>2, OnePictureMoves DEF Unused
<1>4. CASE UploadFile(i)
  <2>1. /\ upload[i].step = "upload" /\ upload'[i].step = "create_image"
        /\ \A k \in Images \ {i} : upload'[k] = upload[k]
        /\ assets' = assets \cup {i} /\ UNCHANGED <<image, deleting>>
    BY <1>1, <1>4 DEF UploadFile, TypeOK
  <2>2. PictureFits(i)'
    BY <1>1, <1>2, <2>1 DEF PictureFits
  <2>3. \A s \in Slots : slot[s].image = i => PermitFits(s)'
    BY <1>1, <1>2, <2>1 DEF PermitFits, Storing
  <2>4. QED BY <1>2, <2>1, <2>2, <2>3, OnePictureMoves
<1>5. CASE CreateUploadedImage(i)
  <2>1. /\ upload[i].step = "create_image" /\ upload'[i].step = "done"
        /\ \A k \in Images \ {i} : upload'[k] = upload[k] /\ image'[k] = image[k]
        /\ image'[i].status = "live" /\ image'[i].job = None
        /\ UNCHANGED <<deleting, assets>>
    BY <1>1, <1>5 DEF CreateUploadedImage, TypeOK, ImageRow
  <2>2. PictureFits(i)' /\ image[i].status = "absent"
    BY <1>1, <1>2, <2>1 DEF PictureFits
  <2>3. \A s \in Slots : slot[s].image = i => PermitFits(s)'
    BY <1>1, <1>2, <2>1, <2>2 DEF PermitFits, Storing
  <2>4. QED BY <1>2, <2>1, <2>2, <2>3, OnePictureMoves
<1>6. CASE UploadFails(i)
  <2>1. /\ upload[i].step \in {"upload", "create_image"} /\ upload'[i].step = "done"
        /\ \A k \in Images \ {i} : upload'[k] = upload[k]
        /\ UNCHANGED <<image, deleting, assets>>
    BY <1>1, <1>6 DEF UploadFails, TypeOK
  <2>2. PictureFits(i)'
    BY <1>1, <1>2, <2>1 DEF PictureFits
  <2>3. \A s \in Slots : slot[s].image = i => PermitFits(s)'
    BY <1>1, <1>2, <2>1 DEF PermitFits, Storing
  <2>4. QED BY <1>2, <2>1, <2>2, <2>3, OnePictureMoves
<1>7. CASE DeleteImage(i)
  <2>1. /\ image[i].status = "live" /\ image'[i].status = "deleted"
        /\ image'[i].job = image[i].job /\ image'[i].owner = image[i].owner
        /\ \A k \in Images \ {i} : image'[k] = image[k]
        /\ deleting' = deleting \cup {i} /\ UNCHANGED <<upload, assets>>
    BY <1>1, <1>7 DEF DeleteImage, TypeOK
  <2>2. PictureFits(i)'
    BY <1>1, <1>2, <2>1 DEF PictureFits
  <2>3. \A s \in Slots : slot[s].image = i => PermitFits(s)'
    BY <1>1, <1>2, <2>1 DEF PermitFits, Storing
  <2>4. QED BY <1>2, <2>1, <2>2, <2>3, OnePictureMoves
<1>8. CASE DestroyAsset(i)
  <2>1. /\ image[i].status = "deleted" /\ assets' \in {assets, assets \ {i}}
        /\ deleting' = deleting \ {i} /\ UNCHANGED <<image, upload>>
    BY <1>1, <1>8 DEF DestroyAsset, PictureFits
  <2>2. PictureFits(i)'
    BY <1>1, <1>2, <2>1 DEF PictureFits
  <2>3. \A s \in Slots : slot[s].image = i => PermitFits(s)'
    BY <1>1, <1>2, <2>1 DEF PermitFits, Storing
  <2>4. QED BY <1>2, <2>1, <2>2, <2>3, OnePictureMoves
<1>9. QED BY <1>3, <1>4, <1>5, <1>6, <1>7, <1>8 DEF LibraryStep

LEMMA NextLibrary == IInv /\ LibraryFits /\ [Next]_imageJobVars => LibraryFits'
<1> SUFFICES ASSUME IInv, LibraryFits, [Next]_imageJobVars PROVE LibraryFits'
  OBVIOUS
<1>1. CASE StopWorker \/ StartWorker \/ WorkerCrash \/ UNCHANGED imageJobVars
  <2>1. UNCHANGED <<job, imageVars>>
    BY <1>1 DEF StopWorker, StartWorker, WorkerCrash, imageJobVars
  <2>2. \A s \in Slots : slot'[s] = slot[s] \/ slot'[s].step \notin Storing \cup {"mark_succeeded"}
    BY <1>1 DEF StopWorker, StartWorker, WorkerCrash, imageJobVars, IdleSlot, Storing
  <2>3. RowsStay /\ \A j \in Jobs : OutputFits(j)'
    BY <2>1 DEF RowsStay, OutputFits, LibraryFits, imageVars
  <2>4. QED BY <2>1, <2>2, <2>3, PermitLeaves
<1>2. QED BY <1>1, RequestKeepsLibrary, TaskKeepsLibrary, LibraryKeepsLibrary DEF Next

LEMMA LibraryTells == IInv /\ LibraryFits => NoBrokenImage
<1> SUFFICES ASSUME IInv, LibraryFits PROVE NoBrokenImage
  OBVIOUS
<1>1. \A u \in Users : VisibleImages(u) \subseteq assets
  BY DEF LibraryFits, PictureFits, VisibleImages
<1>2. ASSUME NEW u \in Users, NEW j \in Jobs, NEW i \in OutputAccesses(j) \cap VisibleImages(u)
      PROVE  j \in VisibleJobs(u)
  <2>1. i \in Images /\ image[i].job = j /\ CanAccess(u, image[i].owner) /\ j # None
    BY <1>2, ImageJobsAssumption
       DEF OutputAccesses, VisibleImages, LibraryFits, OutputFits, IInv, TypeOK
  <2>2. job[j].status # "absent" /\ image[i].owner = job[j].owner
    BY <2>1 DEF LibraryFits, PictureFits
  <2>3. QED BY <2>1, <2>2 DEF VisibleJobs
<1>3. QED BY <1>1, <1>2 DEF NoBrokenImage, LibraryFits, OutputFits

-----------------------------------------------------------------------------
\* Every variable keeps its type.
THEOREM TypesKept == Spec => []TypeOK
<1>1. IInv => TypeOK
  BY DEF IInv
<1>2. QED BY <1>1, InitInvariant, NextInvariant, PTL DEF Spec

\* Whatever requests, workers and failures do in between, a job is claimed and
\* ended at most once, and the socket events name statuses it has reached, each
\* one at most once (the claim, cancel and terminal updates of the repository).
THEOREM JobsFollowLifecycle == Spec => ImplementsJobLifecycle
BY InitInvariant, NextInvariant, InitImplements, NextImplements, PTL
   DEF Spec, ImplementsJobLifecycle, Lifecycle!Spec

\* Whatever fails or dies, a job that has not ended is on its way (create_job
\* inserts before it enqueues, the worker claims before it generates), unless
\* the failed call or the crash that lost it is on record.
THEOREM LiveJobsAreTracked == Spec => []LiveJobIsTracked
BY InitInvariant, NextInvariant, InitTracked, NextTracks, TrackedTells, PTL DEF Spec

\* However uploads, generations and deletions interleave, a picture that can be
\* listed or linked is held by Cloudinary and belongs to the owner of its job.
THEOREM NoImageIsBroken == Spec => []NoBrokenImage
BY InitInvariant, NextInvariant, InitLibrary, NextLibrary, LibraryTells, PTL DEF Spec
===============================================================================
