------------------------------ MODULE ImageJobs ------------------------------
(****************************************************************************)
(* Text-to-image jobs and the image library they fill.  A request inserts a *)
(* pending job, pushes its task to a Redis list and announces it; a worker  *)
(* process pops tasks into the permits of its semaphore, claims the job,    *)
(* calls the provider, uploads the picture to Cloudinary, stores its row    *)
(* and ends the job.  Users upload, cancel and delete meanwhile.            *)
(*                                                                          *)
(* Rows are those of one organization; every query is scoped to it.         *)
(****************************************************************************)
EXTENDS Naturals, Sequences, FiniteSets

CONSTANTS
    Jobs,
    Images,          \* identities of pictures: asset and metadata row
    Users,
    Admins,          \* organization admins and super admins
    Requests,        \* concurrent requests on jobs
    Slots,           \* permits of the worker's semaphore
    None,
    MaxFaults        \* bound on failed calls and crashes

ASSUME ImageJobsAssumption ==
    /\ Admins \subseteq Users
    /\ None \notin Jobs \cup Images \cup Users
    /\ MaxFaults \in Nat

VARIABLES
    job,         \* image_generation_jobs
    tasks,       \* the Redis list
    request,     \* per request: next call and job
    slot,        \* per permit: next call, job and picture
    running,     \* the worker accepts tasks
    image,       \* images collection, with the job a picture was generated for
    upload,      \* per picture: next call of its upload by a user
    deleting,    \* pictures whose row is gone and whose asset is being destroyed
    assets,      \* pictures held by Cloudinary
    events,      \* history: statuses announced per job
    faults,      \* failures so far
    lost         \* history: jobs whose task or handler was lost

imageVars == <<image, upload, deleting, assets>>
imageJobVars == <<job, tasks, request, slot, running, events, lost, faults, imageVars>>

JobStatus == {"absent", "pending", "processing", "succeeded", "failed", "cancelled"}
RequestSteps == {"idle", "enqueue", "emit_created", "emit_cancelled"}
SlotSteps == {"idle", "find", "claim", "emit_processing", "generate", "upload",
              "create_image", "mark_succeeded", "mark_failed", "emit_succeeded",
              "emit_failed"}
ImageStatus == {"absent", "live", "deleted"}

JobRow(s, owner, output) == [status |-> s, owner |-> owner, output |-> output]
ImageRow(s, owner, j) == [status |-> s, owner |-> owner, job |-> j]
IdleRequest == [step |-> "idle", job |-> None]
IdleSlot == [step |-> "idle", job |-> None, image |-> None]

TypeOK ==
    /\ job \in [Jobs -> [status : JobStatus, owner : Users \cup {None},
                         output : SUBSET Images]]
    /\ tasks \in Seq(Jobs)
    /\ request \in [Requests -> [step : RequestSteps, job : Jobs \cup {None}]]
    /\ slot \in [Slots -> [step : SlotSteps, job : Jobs \cup {None},
                           image : Images \cup {None}]]
    /\ running \in BOOLEAN
    /\ image \in [Images -> [status : ImageStatus, owner : Users \cup {None},
                             job : Jobs \cup {None}]]
    /\ upload \in [Images -> [step : {"none", "upload", "create_image", "done"},
                              by : Users \cup {None}]]
    /\ deleting \subseteq Images
    /\ assets \subseteq Images
    /\ events \in [Jobs -> SUBSET JobStatus]
    /\ faults \in 0 .. MaxFaults
    /\ lost \subseteq Jobs

Init ==
    /\ job = [j \in Jobs |-> JobRow("absent", None, {})]
    /\ tasks = <<>>
    /\ request = [r \in Requests |-> IdleRequest]
    /\ slot = [s \in Slots |-> IdleSlot]
    /\ running = TRUE
    /\ image = [i \in Images |-> ImageRow("absent", None, None)]
    /\ upload = [i \in Images |-> [step |-> "none", by |-> None]]
    /\ deleting = {}
    /\ assets = {}
    /\ events = [j \in Jobs |-> {}]
    /\ faults = 0
    /\ lost = {}

Fault == faults < MaxFaults /\ faults' = faults + 1

CanAccess(u, owner) == u \in Admins \/ u = owner

SetStatus(j, s) == job' = [job EXCEPT ![j].status = s]
Announce(j, s) == events' = [events EXCEPT ![j] = @ \cup {s}]

-----------------------------------------------------------------------------
(* Requests: create_text_to_image_job and cancel_job.                       *)

CreateJob(r) ==
    /\ request[r].step = "idle"
    /\ \E j \in Jobs, u \in Users :
        /\ job[j].status = "absent"
        /\ job' = [job EXCEPT ![j] = JobRow("pending", u, {})]
        /\ request' = [request EXCEPT ![r] = [step |-> "enqueue", job |-> j]]
    /\ UNCHANGED <<tasks, slot, running, events, lost, faults, imageVars>>

EnqueueJob(r) ==
    /\ request[r].step = "enqueue"
    /\ tasks' = Append(tasks, request[r].job)
    /\ request' = [request EXCEPT ![r].step = "emit_created"]
    /\ UNCHANGED <<job, slot, running, events, lost, faults, imageVars>>

\* The request fails after the job was inserted: the job stays pending.  The
\* push may have reached Redis although the client saw an error.
EnqueueFails(r) ==
    /\ request[r].step = "enqueue"
    /\ Fault
    /\ \/ UNCHANGED tasks /\ lost' = lost \cup {request[r].job}
       \/ tasks' = Append(tasks, request[r].job) /\ UNCHANGED lost
    /\ request' = [request EXCEPT ![r] = IdleRequest]
    /\ UNCHANGED <<job, slot, running, events, imageVars>>

EmitCreated(r) ==
    /\ request[r].step = "emit_created"
    /\ Announce(request[r].job, "pending")
    /\ request' = [request EXCEPT ![r] = IdleRequest]
    /\ UNCHANGED <<job, tasks, slot, running, lost, faults, imageVars>>

\* Variant: cancel_pending_job without its condition on the status.
CancelAnyJob(r) ==
    /\ request[r].step = "idle"
    /\ \E j \in Jobs, u \in Users :
        /\ job[j].status # "absent"
        /\ CanAccess(u, job[j].owner)
        /\ SetStatus(j, "cancelled")
        /\ request' = [request EXCEPT ![r] = [step |-> "emit_cancelled", job |-> j]]
    /\ UNCHANGED <<tasks, slot, running, events, lost, faults, imageVars>>

\* The update is conditional on the status; a request that finds another one
\* is answered with an error and changes nothing.
CancelJob(r) ==
    /\ request[r].step = "idle"
    /\ \E j \in Jobs, u \in Users :
        /\ job[j].status = "pending"
        /\ CanAccess(u, job[j].owner)
        /\ SetStatus(j, "cancelled")
        /\ request' = [request EXCEPT ![r] = [step |-> "emit_cancelled", job |-> j]]
    /\ UNCHANGED <<tasks, slot, running, events, lost, faults, imageVars>>

EmitCancelled(r) ==
    /\ request[r].step = "emit_cancelled"
    /\ Announce(request[r].job, "cancelled")
    /\ request' = [request EXCEPT ![r] = IdleRequest]
    /\ UNCHANGED <<job, tasks, slot, running, lost, faults, imageVars>>

\* The server dies between two calls of a request.
RequestCrash(r) ==
    /\ request[r].step # "idle"
    /\ Fault
    /\ lost' = IF request[r].step = "enqueue"
               THEN lost \cup {request[r].job} ELSE lost
    /\ request' = [request EXCEPT ![r] = IdleRequest]
    /\ UNCHANGED <<job, tasks, slot, running, events, imageVars>>

-----------------------------------------------------------------------------
(* The provider: what generate_text_to_image makes of an answer.            *)

RetryableHttp == {408, 425, 429, 500, 502, 503, 504}
RetryableCodes == {1000, 1001, 1002, 1024, 1033, 1039}
NonRetryableCodes == {1004, 1008, 1026, 1027, 1042, 2013, 2049}

\* An answer of the provider: transport, HTTP status, whether it is JSON, the
\* code of its base_resp (0 when absent), a status message that says "busy" or
\* the like, the number of different pictures and the failures it reports.
Answers ==
    [sent : BOOLEAN, http : {200, 400, 503}, json : BOOLEAN, code : {0, 1002, 1004, 1},
     busy : BOOLEAN, pictures : 0 .. 1, failed : 0 .. 1]

Rejected(a) ==
    /\ a.code # 0
    /\ \/ a.code \in NonRetryableCodes
       \/ a.code \notin RetryableCodes /\ ~a.busy

GenerationResult(a) ==
    CASE ~a.sent -> "retryable"
      [] a.sent /\ a.http >= 400 ->
            IF a.http \in RetryableHttp THEN "retryable" ELSE "non_retryable"
      [] a.sent /\ a.http < 400 /\ ~a.json -> "retryable"
      [] a.sent /\ a.http < 400 /\ a.json /\ a.code # 0 ->
            IF Rejected(a) THEN "non_retryable" ELSE "retryable"
      [] a.sent /\ a.http < 400 /\ a.json /\ a.code = 0 /\ a.pictures = 0 ->
            IF a.failed > 0 THEN "non_retryable" ELSE "retryable"
      [] OTHER -> "picture"

GenerationResults == {GenerationResult(a) : a \in Answers}

-----------------------------------------------------------------------------
(* The worker: run_once takes a permit and pops, process_task does the work. *)

At(s, step) == slot[s].step = step
Goto(s, step) == slot' = [slot EXCEPT ![s].step = step]
EndTask(s) == slot' = [slot EXCEPT ![s] = IdleSlot]

Dequeue(s) ==
    /\ running
    /\ At(s, "idle")
    /\ tasks # <<>>
    /\ slot' = [slot EXCEPT ![s] = [IdleSlot EXCEPT !.step = "find", !.job = Head(tasks)]]
    /\ tasks' = Tail(tasks)
    /\ UNCHANGED <<job, request, running, events, lost, faults, imageVars>>

\* A task of a job that has ended is dropped.
FindJob(s) ==
    /\ At(s, "find")
    /\ IF job[slot[s].job].status \in {"succeeded", "failed", "cancelled"}
       THEN EndTask(s) ELSE Goto(s, "claim")
    /\ UNCHANGED <<job, tasks, request, running, events, lost, faults, imageVars>>

\* Variant: claims whatever status the job has by now.
ClaimAnyJob(s) ==
    /\ At(s, "claim")
    /\ SetStatus(slot[s].job, "processing")
    /\ Goto(s, "emit_processing")
    /\ UNCHANGED <<tasks, request, running, events, lost, faults, imageVars>>

ClaimJob(s) ==
    /\ At(s, "claim")
    /\ \/ /\ job[slot[s].job].status = "pending"
          /\ SetStatus(slot[s].job, "processing")
          /\ Goto(s, "emit_processing")
       \/ /\ job[slot[s].job].status # "pending"
          /\ EndTask(s)
          /\ UNCHANGED job
    /\ UNCHANGED <<tasks, request, running, events, lost, faults, imageVars>>

EmitProcessing(s) ==
    /\ At(s, "emit_processing")
    /\ Announce(slot[s].job, "processing")
    /\ Goto(s, "generate")
    /\ UNCHANGED <<job, tasks, request, running, lost, faults, imageVars>>

Unused(i) ==
    /\ image[i].status = "absent"
    /\ upload[i].step = "none"
    /\ \A s \in Slots : slot[s].image # i

Generate(s) ==
    /\ At(s, "generate")
    /\ \E result \in GenerationResults :
        IF result = "picture"
        THEN \E i \in Images \ assets :
                /\ Unused(i)
                /\ slot' = [slot EXCEPT ![s].step = "upload", ![s].image = i]
        ELSE Goto(s, "mark_failed")
    /\ UNCHANGED <<job, tasks, request, running, events, lost, faults, imageVars>>

UploadGenerated(s) ==
    /\ At(s, "upload")
    /\ assets' = assets \cup {slot[s].image}
    /\ Goto(s, "create_image")
    /\ UNCHANGED <<job, tasks, request, running, events, lost, faults, image, upload,
                   deleting>>

CreateGeneratedImage(s) ==
    LET j == slot[s].job IN
    /\ At(s, "create_image")
    /\ image' = [image EXCEPT ![slot[s].image] = ImageRow("live", job[j].owner, j)]
    /\ Goto(s, "mark_succeeded")
    /\ UNCHANGED <<job, tasks, request, running, events, lost, faults, upload, deleting,
                   assets>>

\* Any exception between the claim and the end is turned into a failed job;
\* what the earlier calls stored stays behind.
GenerationFails(s) ==
    /\ slot[s].step \in {"upload", "create_image", "mark_succeeded"}
    /\ Fault
    /\ Goto(s, "mark_failed")
    /\ UNCHANGED <<job, tasks, request, running, events, lost, imageVars>>

MarkSucceeded(s) ==
    /\ At(s, "mark_succeeded")
    /\ IF job[slot[s].job].status = "processing"
       THEN /\ job' = [job EXCEPT ![slot[s].job] =
                        [@ EXCEPT !.status = "succeeded", !.output = {slot[s].image}]]
            /\ Goto(s, "emit_succeeded")
       ELSE EndTask(s) /\ UNCHANGED job
    /\ UNCHANGED <<tasks, request, running, events, lost, faults, imageVars>>

MarkFailed(s) ==
    /\ At(s, "mark_failed")
    /\ IF job[slot[s].job].status = "processing"
       THEN SetStatus(slot[s].job, "failed") /\ Goto(s, "emit_failed")
       ELSE EndTask(s) /\ UNCHANGED job
    /\ UNCHANGED <<tasks, request, running, events, lost, faults, imageVars>>

\* An update that raises after the database applied it: the handler of the
\* exception finds the job ended and announces nothing.
MarkSucceededUnknown(s) ==
    /\ At(s, "mark_succeeded")
    /\ job[slot[s].job].status = "processing"
    /\ Fault
    /\ job' = [job EXCEPT ![slot[s].job] =
                 [@ EXCEPT !.status = "succeeded", !.output = {slot[s].image}]]
    /\ Goto(s, "mark_failed")
    /\ UNCHANGED <<tasks, request, running, events, lost, imageVars>>

EmitEnd(s) ==
    /\ slot[s].step \in {"emit_succeeded", "emit_failed"}
    /\ Announce(slot[s].job,
                IF slot[s].step = "emit_succeeded" THEN "succeeded" ELSE "failed")
    /\ EndTask(s)
    /\ UNCHANGED <<job, tasks, request, running, lost, faults, imageVars>>

\* An exception outside the try block, or in mark_failed itself, reaches
\* _run_task, which logs it and returns the permit.
TaskDies(s) ==
    /\ slot[s].step \in {"find", "claim", "mark_failed"}
    /\ Fault
    /\ lost' = lost \cup {slot[s].job}
    /\ EndTask(s)
    /\ UNCHANGED <<job, tasks, request, running, events, imageVars>>

\* A signal stops the loop; active tasks are awaited.
StopWorker ==
    /\ running
    /\ running' = FALSE
    /\ UNCHANGED <<job, tasks, request, slot, events, lost, faults, imageVars>>

\* The worker process dies with the tasks it had popped.
WorkerCrash ==
    /\ Fault
    /\ lost' = lost \cup {slot[s].job : s \in {t \in Slots : ~At(t, "idle")}}
    /\ slot' = [s \in Slots |-> IdleSlot]
    /\ running' = FALSE
    /\ UNCHANGED <<job, tasks, request, events, imageVars>>

StartWorker ==
    /\ ~running
    /\ \A s \in Slots : At(s, "idle")
    /\ running' = TRUE
    /\ UNCHANGED <<job, tasks, request, slot, events, lost, faults, imageVars>>

-----------------------------------------------------------------------------
(* The image library: upload_images handles its files concurrently and      *)
(* reports each failure on its own; delete_image hides the row first.       *)

BeginUpload(i) ==
    /\ i \notin assets
    /\ Unused(i)
    /\ \E u \in Users : upload' = [upload EXCEPT ![i] = [step |-> "upload", by |-> u]]
    /\ UNCHANGED <<job, tasks, request, slot, running, events, lost, faults, image,
                   deleting, assets>>

UploadFile(i) ==
    /\ upload[i].step = "upload"
    /\ assets' = assets \cup {i}
    /\ upload' = [upload EXCEPT ![i].step = "create_image"]
    /\ UNCHANGED <<job, tasks, request, slot, running, events, lost, faults, image,
                   deleting>>

CreateUploadedImage(i) ==
    /\ upload[i].step = "create_image"
    /\ image' = [image EXCEPT ![i] = ImageRow("live", upload[i].by, None)]
    /\ upload' = [upload EXCEPT ![i].step = "done"]
    /\ UNCHANGED <<job, tasks, request, slot, running, events, lost, faults, deleting,
                   assets>>

\* Validation, the upload or the insert fails: an asset without a row remains.
UploadFails(i) ==
    /\ upload[i].step \in {"upload", "create_image"}
    /\ Fault
    /\ upload' = [upload EXCEPT ![i].step = "done"]
    /\ UNCHANGED <<job, tasks, request, slot, running, events, lost, image, deleting,
                   assets>>

\* Variant: the asset is destroyed before the row is hidden.
DestroyFirst(i) ==
    /\ image[i].status = "live"
    /\ i \in assets
    /\ \E u \in Users : CanAccess(u, image[i].owner)
    /\ assets' = assets \ {i}
    /\ UNCHANGED <<job, tasks, request, slot, running, events, lost, faults, image, upload,
                   deleting>>

DeleteImage(i) ==
    /\ image[i].status = "live"
    /\ \E u \in Users : CanAccess(u, image[i].owner)
    /\ image' = [image EXCEPT ![i].status = "deleted"]
    /\ deleting' = deleting \cup {i}
    /\ UNCHANGED <<job, tasks, request, slot, running, events, lost, faults, upload, assets>>

DestroyAsset(i) ==
    /\ i \in deleting
    /\ \/ assets' = assets \ {i} /\ UNCHANGED faults
       \/ Fault /\ UNCHANGED assets
    /\ deleting' = deleting \ {i}
    /\ UNCHANGED <<job, tasks, request, slot, running, events, lost, image, upload>>

-----------------------------------------------------------------------------
RequestStep(r) ==
    \/ CreateJob(r) \/ EnqueueJob(r) \/ EnqueueFails(r) \/ EmitCreated(r)
    \/ CancelJob(r) \/ EmitCancelled(r) \/ RequestCrash(r)

TaskStep(s) ==
    \/ Dequeue(s) \/ FindJob(s) \/ ClaimJob(s) \/ EmitProcessing(s) \/ Generate(s)
    \/ UploadGenerated(s) \/ CreateGeneratedImage(s) \/ GenerationFails(s)
    \/ MarkSucceeded(s) \/ MarkSucceededUnknown(s) \/ MarkFailed(s) \/ EmitEnd(s)
    \/ TaskDies(s)

LibraryStep(i) ==
    \/ BeginUpload(i) \/ UploadFile(i) \/ CreateUploadedImage(i) \/ UploadFails(i)
    \/ DeleteImage(i) \/ DestroyAsset(i)

Next ==
    \/ \E r \in Requests : RequestStep(r)
    \/ \E s \in Slots : TaskStep(s)
    \/ \E i \in Images : LibraryStep(i)
    \/ StopWorker \/ StartWorker \/ WorkerCrash

Spec == Init /\ [][Next]_imageJobVars

-----------------------------------------------------------------------------
(* Reads: list_history / list_images and the pictures of a job detail.      *)

\* Jobs and pictures a user is shown.
VisibleJobs(u) == {j \in Jobs : job[j].status # "absent" /\ CanAccess(u, job[j].owner)}
VisibleImages(u) == {i \in Images : image[i].status = "live" /\ CanAccess(u, image[i].owner)}

\* Signed URLs are made for those outputs whose row is still there.
OutputAccesses(j) == {i \in job[j].output : image[i].status = "live"}

Lifecycle == INSTANCE JobLifecycle WITH
    Outputs <- Images,
    status <- [j \in Jobs |-> job[j].status],
    output <- [j \in Jobs |-> job[j].output],
    announced <- events

\* Whatever requests, workers and failures do in between, a job is claimed and
\* ended at most once, and the socket events name statuses it has reached, each
\* one at most once (the claim, cancel and terminal updates of the repository).
ImplementsJobLifecycle == Lifecycle!Spec

\* A job that has not ended is still on its way: its task is about to be pushed,
\* queued or held by a permit, unless a failed call or a crash lost it.
LiveJobIsTracked ==
    \A j \in Jobs :
        \/ job[j].status \notin {"pending", "processing"}
        \/ j \in lost
        \/ \E r \in Requests : request[r] = [step |-> "enqueue", job |-> j]
        \/ job[j].status = "pending" /\ \E k \in DOMAIN tasks : tasks[k] = j
        \/ \E s \in Slots : slot[s].job = j

\* Every picture that can be listed or linked from a job detail is held by
\* Cloudinary, and a user who sees the pictures of a job sees the job.
NoBrokenImage ==
    /\ \A u \in Users : VisibleImages(u) \subseteq assets
    /\ \A u \in Users, j \in Jobs :
        OutputAccesses(j) \cap VisibleImages(u) # {} => j \in VisibleJobs(u)
    /\ \A j \in Jobs : \A i \in job[j].output : image[i].job = j
=============================================================================
