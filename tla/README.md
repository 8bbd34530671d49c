# Formal model of the warmind_ai backend

TLA+ specifications of the concurrent parts of the backend in `src/app`, the TLC
configurations that check them on small instances, and TLAPS proofs of what
matters most. `PROJECT.json` lists the runs, the mutants that show each property
can fail, the source lines behind every definition, the hazards and the theorems.

## 1. The system

warmind_ai is a FastAPI backend (HTTP API under `src/app/api`, Socket.IO gateway
under `src/app/socket_gateway`) over MongoDB and Redis. Long work is done by four
worker processes that pop tasks from Redis lists, and by one internal endpoint
that an external scheduler invokes for the recurring stock research. What the
components promise is in `src/openspec/specs/*/spec.md`.

| component | state it keeps | operations | talks to |
|---|---|---|---|
| Stock research schedules and dispatcher | `stock_research_schedules` (status, `next_run_at`), `stock_research_schedule_runs` (unique per schedule and occurrence, with a lock time) | create, update, pause, resume, delete, run now; `dispatch_due` | reports, Redis queue |
| Schedule calculator | none | next occurrence after a time | dispatcher, schedule edits |
| Stock research reports and worker | `stock_research_reports`, a semaphore and a set of coroutines per worker | create and enqueue, claim, run the agent, complete or fail, notify | Redis queue, notifications, agents |
| Redis task queue | one list per kind of task | `enqueue` (rpush), `dequeue` (blpop, destructive, errors read as "empty") | all workers |
| Meeting notes pipeline | `meeting_utterances`, `meeting_note_chunks`; in Redis the hash of the note state, two pending structures and the summary lock | persist and stage an utterance, mark the end, select, generate, append and finalize batches; retry, defer | note queue, note generation, socket events |
| Meeting note generation | none | one model call per batch | note workers |
| Live meeting sessions | in memory per session: state, open utterances, sequence counter; `meetings` | start, push audio, provider events, finalize, close, fail | Deepgram, note queue, sockets |
| Meeting management | `meetings` | list, read, rename, archive | API |
| Image generation | `image_generation_jobs`, worker semaphore | submit, cancel, claim, generate, terminal updates | queue, image provider, sockets |
| Image upload | `images` | upload, delete | Cloudinary |
| Interview speech-to-text sessions | per-channel turn state and timers, conversation context in Redis, `interview_utterances` | audio, finalize, stop, turn closing, answers, background saves | Deepgram, sockets |
| Deepgram client | one provider connection | open, send, finalize, close | sessions |
| Socket gateway | connections and rooms | connect, emit, listener tasks | sessions, workers |
| Sheet sync | `sheet_connections`, `sheet_sync_states`, `sheet_raw_data` | connect, delete, sync from the row watermark, retry | Google Sheets, rate limiter, analytics cache |
| Sheet analytics | Redis cache of results | map, group, page, compare rows | Sheet sync |
| Notifications | `notifications` (unique dedupe key) | create, announce, list, mark read | reports worker, API, sockets |
| Stock catalogue, prices, company and financial caches | `stock_symbols` and its metadata; cached pages and sections | refresh the snapshot, read through, invalidate | market data provider |
| Watchlists | `stock_watchlists`, `stock_watchlist_items` | lists and items, each a check and a write | catalogue, API |
| Backtests and technical indicators | none | signals, fills, metrics; indicator readings | prices, agents |
| Lead agent and stock agent | conversations and messages, LangGraph checkpoints, skills and their access records | answer in the background, stream events, delegate, manage and load skills | model providers, sockets |
| Analyst outputs | none | what an analyst's answer must look like | agents, reports |
| Conversation, chat and data queries | conversations and messages | a workflow graph per turn | model providers, sockets |
| Organizations, users and authentication | `users`, `organizations`, `organization_members` | bootstrap, accounts, members, roles, switching off; tokens | API |
| Voices and TTS | `voices`, `audio_files`, files in Cloudinary, voices at MiniMax | clone, delete, generate, stream | MiniMax, Cloudinary, sockets |

**How they interact.** An API request, the dispatch endpoint or a live session
writes a document and then pushes a task: two separate calls, either of which may
fail, and a push that reports failure may still have been made. A worker pops the
task, claims or re-reads the document and writes its terminal state. Nothing is
acknowledged, no lock is renewed or fenced, and there is no transaction across
MongoDB and Redis, so the properties rest on conditional updates, unique indexes,
Redis `MULTI` blocks and locks with a time to live.

**What is hard.** Overlapping invocations of the dispatcher on one occurrence;
locks that expire under a slow holder; a crash between two writes; ambiguous or
lost queue calls; the same report popped twice; a failure mark that arrives after
completion; the watermark of the notes written back from a stale read; an utterance
task that gives up on a taken lock; finalize, close and provider events of a live
session; timers against transcripts in an interview, with collectors that overlap;
cancel against completion of an image; two syncs of one sheet; the latest checkpoint
of a conversation two turns share; checks that are stale when their write comes
(skills, lists, members, voices); caches filled from a read before an invalidation.
The `hazards` of `PROJECT.json` list them with their lines and the properties that
cover them.

**What makes each component correct.**

- Dispatcher: one report per occurrence; no occurrence is passed before its report
  is queued; a due schedule is eventually dispatched and never gets stuck; deleted
  schedules stay deleted.
- Reports: the agent runs once per report; status and artifact agree; permits do
  not leak; a queued task ends in a terminal report.
- Meeting notes: contiguous batches, each summarized in one chunk, no overlap;
  no utterance vanishes; the tail is flushed after the end.
- Live sessions: one live session per meeting, sequences allocated once, one
  terminal task pushed after the last utterance, no waiter left on a discarded lock.
- Images: a job is claimed and ended once and announced in accord with that; a live job
  is on its way; no listed picture is without its file.
- Interviews: every closed turn is kept in exactly one place and made of its own
  fragments; a turn does not close while somebody speaks.
- Sheet sync: nothing below the watermark is skipped; the total counts what is stored;
  cached analytics cover it.
- Conversations: an answer answers its request; the count follows the messages; the
  announced outcome is the stored one. Skills: enablement follows the requests, a
  version names one content, a grant is one stored skill's.
- Catalogue, lists, notifications: pages follow the active snapshot, lists are sets,
  one notification per key, announced once.
- Organizations: an admin remains. Voices: rows and files agree.
- Backtests: money is conserved, nothing looks ahead. Calculator: the next occurrence
  lies strictly after the reference.

## 2. Modules

| module | what it is |
|---|---|
| `StockResearchDispatch` | schedules, runs, edits, overlapping dispatcher invocations |
| `MCStockResearchDispatch` | its instance for TLC: cadence, crash points, symmetry; samples of the calculator |
| `StockResearchDispatchProofs` | the inductive invariants, what holds under overruns and what needs locks that last; the calculator meets its meaning |
| `ScheduleCalculator` | when a schedule runs next, and what that means |
| `StockResearchReports` | report creation, Redis list, worker loop, coroutines |
| `MeetingNotes` | the note queue, the hot state in Redis, the note workers |
| `MeetingNoteLedger` | abstract specification of what the notes promise |
| `MeetingSession` | the live sessions of one socket: requests, listener, provider, per-session lock |
| `MCMeetingSession` | its instance for TLC: symmetry |
| `MeetingSessionProofs` | five layers of inductive invariants and the six invariants of the session |
| `MeetingNotesProofs` | the inductive invariant, six invariants and the refinement |
| `StockResearchReportsProofs` | the inductive invariant, four invariants and `CompletedIsStable` |
| `JobLifecycle` | abstract specification of what an image job promises |
| `ImageJobs` | image jobs, their worker, uploads and deletions; implements `JobLifecycle` |
| `ImageJobsProofs` | the inductive invariant, that refinement, tracked jobs and unbroken pictures |
| `InterviewSession` | the interview sessions of one socket |
| `SheetSync` | one connected sheet, its workers and its analytics cache |
| `AgentConversations` | one conversation with overlapping turns; `LeadAgentConversations` and `ChatConversations` are its other two runtimes |
| `AgentSkills`, `LeadAgentSkills` | the skills of one user and a thread that loads them |
| `StockCatalog` | the catalogue and its cached pages |
| `Watchlists`, `Notifications` | lists behind a check and a write |
| `Organizations` | accounts, organizations, members |
| `Voices` | cloned voices and generated speech |
| `ListsProofs` | the inductive invariants of these five and all their properties |
| `ServicesProofs` | the inductive invariants of the sheet sync and of an interview, and their properties |
| `Backtests` | bars, templates, engine and metrics over a growing history |
| `TechnicalIndicators`, `StockSections`, `SheetAnalytics`, `AgentRuntime`, `LeadAgentRuntime`, `ConversationWorkflows`, `AnalystOutputs` | algorithms as operators |
| `MCOperators` | what those operators promise, as assumptions TLC evaluates over bounded inputs |
| `Platform`, `MCPlatform` | the components that share no state, in one specification; its instance for TLC |
| `PlatformProofs` | what is proved of the components holds in the platform |

An action is one round trip (one MongoDB or Redis call, or one
`MULTI` block) together with the local code up to the next one; the program counter
of a process names the call it makes next (in `MeetingSession` the call it awaits: there all
coroutines share one event loop). Definitions preceded by *Variant* are
plausible mistakes; they take no part in the specification and serve as mutants.

### StockResearchDispatch

| state | code |
|---|---|
| `schedule` | status and `next_run_at` of `stock_research_schedules` |
| `run` | `stock_research_schedule_runs`: a function on schedule and occurrence, which is the unique index |
| `origin` | the report documents, each with the run it was created for |
| `enqueued` | reports pushed to Redis (popping is in `StockResearchReports`) |
| `edit` | an API request between its read and its write |
| `pc`, `now`, `todo`, `cur`, `mine` | locals of one `dispatch_due` invocation |
| `advanced` | history |

`Start` reads `dispatch_now` and the due batch (`IsBatch`: the `Limit` schedules
with the earliest `next_run_at`). For each of them `CreateRun`, `ClaimStale` and
`ClaimEnqueueFailed` are the three claims tried in this order; `CreateReport`,
`AttachReport`, `EnqueueOk`/`EnqueueError`, `MarkQueued`/`MarkEnqueueFailed` and
`Advance` are the calls of `_dispatch_schedule`. `BeginEdit`/`CommitEdit` separate
the read and the write of `update_schedule`; pause, resume and delete are requests
without a dependence on what was read. `Crash` is a process that dies or a call that
raises. Of the calendar the module needs only `NextRunAssumption`: the next occurrence lies
strictly after the given time (`calculate_next_stock_research_run_at`, which `ScheduleCalculator` models).

`Timely` says that nothing in flight outlives its lock. It is a parameter because
the code does not enforce it: the specification's claims about duplicates hold with
it and fail without it (section 5); the proofs say which of them use it.

### ScheduleCalculator

Instants are seconds from a Monday midnight UTC, days are counted in the local zone,
which has no daylight saving. `NextQuarterHour`, `NextDaily`, `NextOn` and `NextWeekly`
follow the three branches of the calculator. `IsNext` says what is meant without them:
an occurrence of the definition, after the reference, with none in between. The
dispatcher's instance takes its `NextRun` from `NextQuarterHour`, and `NextRunSamples`
compares the other branches with `IsNext` around midnights and the end of the week.

### StockResearchReports

`report` is the row (status, content present, error present), `queue` the list,
`caller` the request or the dispatcher that creates and pushes, `permits`, `loop`
and `task` the semaphore, main loop and coroutines of each worker process. A manual
caller marks the report failed when its push reports failure; a scheduled one pushes
the same report again. `Acquire`, `Dispatch` and `DequeueNothing` are `run_once`:
the permit is taken before the pop and travels with the coroutine. `Claim` is the
only conditional update; `StartRun`, `Complete`, `FailReport` write unconditionally.
`CompleteRaises` covers an update that raises with or without having taken effect.
`Stop`, `Exit` and `Restart` are the shutdown, `WorkerCrash` and `CallerCrash`
processes that die. `lost` records the reports a failure swallowed.

### MeetingNotes and MeetingNoteLedger

| state | code |
|---|---|
| `spoken`, `ended` | sequence counter and end of the live session, which pushes its tasks in order under its own lock |
| `queue` | the Redis list |
| `persisted`, `chunks` | `meeting_utterances`, `meeting_note_chunks` |
| `state` | the Redis hash: exists, terminal, `last_summarized_sequence`, `final_sequence` |
| `pending` | the pending set and payload hash, always written in one `MULTI` |
| `lock` | holder of the summary lock |
| `pc`, `task`, `seen`, `batch` | locals of `process_task` |
| `lost`, `done` | history |

`Persist`, `Check`, `Stage` are `_persist_and_stage_utterance`; `ReadTerminal` and
`MarkTerminal` are the read and the write of `mark_terminal_state`; `Acquire` to
`Release` are `_drain_available_batches`, with the state, the pending sequences and
the payloads read in three calls. `Retry`, `Defer` and `DeferFails` are the worker's
three ways out. `Raise` is an exception in any call: inside the loop the `finally`
clause still releases the lock, and with `LosesLockReply` a lock call that raises may
have taken effect. `ExpireLock` is the time to live: of a holder that died always,
of one that is slow when `LockExpires`.

`MeetingNoteLedger` knows the meeting, the number of consumed utterances and the
chunks. Batches start at multiples of the batch size; a batch is written only when
its predecessors are consumed, consumed only as the next one, and shorter than the
batch size only at the end. `MeetingNotes` implements it with `done` and `chunks`
mapped to themselves; the queue, the lock, the hot state and the workers are hidden.
Rewriting a chunk that exists is allowed: chunks are upserted by their range.

### MeetingSession

| state | code |
|---|---|
| `registry`, `lock` | `_sessions[sid]` and the lock of each session in `_locks` of `MeetingSessionManager` |
| `state`, `goal`, `words`, `seq` | `state`, `_terminal_state_on_close`, whether the open utterance has words, `last_allocated_sequence` of a `MeetingSession` |
| `durable` | `status` in `meetings` |
| `conn`, `events` | the connection of a `DeepgramLiveClient` and its queue of events |
| `pushed` | the tasks that reached the note queue |
| `proc` | each handler of the socket and its listener task: the call it awaits, the session it works on, the session whose lock it asked for, the events and outputs in its hands |
| `connected` | no disconnect was handled yet |
| `lost` | history: sessions whose tasks or last write failed |

A coroutine runs until it awaits, so an action is the code between two awaits. The
code between two awaits that handles several provider events is one action per event,
during which `CanRun` lets nobody else move (`Running`). A call that may return
without waiting (a close of a closed connection, an update without a record) is
treated as an await, which only adds interleavings.

`StartRequest`, `Member`, `Create`, `Open` are a start: membership, registration,
record, provider. The other requests look the session up, take its lock (`Request`,
`Acquire`) and look at the registry again (`Refused`). `Collect`, `Consume`,
`Consumed`, `Push` are `_collect_session_events`, shared by audio, finish and listener;
`Drain`, `Deadline`, `Close` end a session that is finalizing; `FailLive` to
`FailClose` are `_fail_live_session`, `WriteFailed` the failure of a batch. `Emitted`
starts or cancels the listener. `Provider` is Deepgram: words, end of an utterance,
acknowledged flush, a transcript without words (`garbled`), an error, a close.

`Overlapping` names the requests that may arrive although a start is being handled or
an earlier session is not over yet. The passing runs allow no such request, or only a
second start where one session is all there is (the session that exists must survive
it); finding 4 is what a disconnect does there.

`TasksInOrder` and `TerminalCountsAll` are what `MeetingNotes` assumes of the session
that feeds it: sequences ascend, the terminal task comes last and counts them.

### ImageJobs over JobLifecycle

`job` and `image` are the two collections, `tasks` the Redis list, `request` the
requests between their calls (`Create`, push, announce; cancel), `slot` the permits of
the worker with the next call of `process_task`. `ClaimJob`, the cancel and the terminal
updates are conditional on the status; the claim and a cancel race for a pending job.
`upload` and `deleting` are uploads by users and deletions between row and asset;
`assets` is Cloudinary. The worker stops, crashes with its popped tasks, and restarts.
`JobLifecycle` knows status, output and announced statuses only; the queue, the
permits, the requests and the storage are hidden.

### InterviewSession

`session` holds per stream its state and per channel the grace timer (`none`,
running, due) and the final text of the open turn; `link` and `queue` are the provider
connection and its uncollected events; `task` gives per coroutine (a request handler or
the listener) what it awaits and which closed turns it still has to append. Nothing
locks a session, so collectors overlap at every await. A closed turn goes to the Redis
list (`recent`), then to a background save (`saving`, with its retries, `durable`) and, on
the interviewer's channel, to an answer (`answering`). An error of a background save is
queued for the session (`deferred`). Time is abstract: a timer that runs may become due.
`last` is history: whether the end of an utterance was heard last. `MaxFaults` bounds the
provider's errors and the listener's failing timeouts with the failures.

### SheetSync and SheetAnalytics

A sheet grows by rows that may be blank and filled later. `worker` is one sync: look
the connection up, read the state, mark it, fetch from the watermark, store row by row,
write the new watermark, invalidate the cache; a failure at any step requeues the task
until its retries are spent. `Connect`, `Delete` (four steps) and `Request` are the
endpoints; `reader` is an analytics request that computes and caches. `SheetAnalytics`
holds the column mapping, the conversions, the rate limiter and the strategies.

### Conversations, skills, runtimes

`AgentConversations`: a turn stores the user message, counts it, and is answered by a
background task: load the thread's latest checkpoint, run model and tools (a checkpoint
after every step), read the final state, store and count the answer, emit. `Runtime`
chooses the agents (a thread) or the chat (stored messages up to `HistoryLimit`).
Failures and a crash may come at every call. `AgentSkills`: the skill documents and the
access record are written one after the other, the record read, changed in memory and
written back; `thread` is the agent that resolves, is offered, loads and is granted a
skill meanwhile. The lead agent's services repeat the stock agent's call by call, so
`LeadAgentConversations` and `LeadAgentSkills` name, for each call of those files, the
step it is. `AgentRuntime`, `LeadAgentRuntime` and `ConversationWorkflows` are the parts
without state: provider catalogue, visible tools, delegation, prompts, routing of the
graphs, text of events.

### Catalogue, lists, organizations, voices

Each of these modules cuts requests where they await the database. `StockCatalog`: a
refresh replaces the snapshot in one transaction, scans for cached pages and unlinks
them; a reader looks in the cache, reads the active timestamp, counts, finds and stores.
`Watchlists` and `Notifications`: the lookup and the write of every operation, decided
by unique indexes. `Organizations`: the checks of a request one query at a time (caller,
organization, target), then its write; nothing is deleted, only switched off.
`Voices`: a clone uploads its recording, clones at the provider, inserts the row; a
deletion soft-deletes, unclones, removes the file; a speech is generated or streamed
chunk by chunk and stored. `raced`, `overlapped`, `ungoverned`, `leaked`, `cut`,
`excused` are histories: they name the races and failures after which the code gives no
guarantee, so that the properties hold it to everything else.

### Backtests and the other algorithms

`Backtests` is a state machine only in that `history` grows by a day at a time and the
backtest is run again: this makes *no look-ahead* an action property. Money and prices
are integers, derived values fractions. The remaining algorithms are operators;
`MCOperators` compares them with what their callers rely on, e.g. that two price
requests share a cache key only if they ask for the same bars, that pages partition the
rows, that groups add up to them, that a worker agent cannot delegate.

### Platform

`focus` chooses the component a behaviour follows; the others stay in their initial
state, so the state spaces add up. There are nineteen foci, since some modules are
instantiated twice with different bounds (two channels or two sessions of an interview,
one failing or two overlapping sync workers, two pages or two refreshes, two admins or
newcomers, clones or speech). Components of one shape share their variables.
`MCPlatform` adds `MCOperators`, which TLC evaluates and the proofs must not reach.

## 3. What each run checks

| run | instance | question |
|---|---|---|
| `dispatch_safety` | 1 schedule, 2 invocations, 2 clients, 3 reports, clock 0..6, cadence 3, lock 2, 2 failures | one report per occurrence, nothing skipped, nothing stuck, final states final |
| `dispatch_liveness` | 2 schedules, batch of 1, 2 invocations, 1 failure, clock 0..5 | a due occurrence is eventually dispatched |
| `dispatch_stuck` | 1 client, clock 0..7, a crash before the advance | finding 1 |
| `dispatch_overrun` | 1 client, clock 0..7, no crash, no `Timely` | finding 2 |
| `reports` | 1 manual and 1 scheduled caller, 1 worker, 2 permits, 3 coroutines, 2 reports, 2 failures | one agent run, permits, artifact, completion |
| `meeting_notes` | 2 workers, batches of 2, 3 utterances, 1 retry, 1 failure, locks that expire at any time, lost lock replies | chunks, watermark, accounting, refinement |
| `meeting_notes_single` | 1 worker, 2 retries, 3 failures, locks that expire at any time or are left behind | the tail is flushed |
| `meeting_notes_tail` | 2 workers, no failure, no expiry | finding 3 |
| `meeting_session` | 2 sessions one after the other, 2 handlers and the listener, 2 provider events besides the close, 1 failure | order of the tasks, nothing left behind |
| `meeting_session_ends` | 1 session, overlapping starts, 1 event, 1 failure | a meeting ends when its socket is gone |
| `meeting_session_abandoned` | 1 session, no failure, a disconnect at any time | finding 4 |
| `platform` | nineteen foci, see below | images, interviews, sheets, conversations, skills, lists, backtests; `MCOperators` |

**Bounds, and why they are enough.** Two invocations or workers are what the races
need: every takeover involves a loser and a winner. Two clients let one request delete
the schedule another one is about to write. The clock of `dispatch_safety`
covers two occurrences and a lock that expires between them, so an occurrence can be
failed, retried, taken over and advanced past; three reports leave a spare one for a
duplicate. A batch of one of two schedules makes the limit bite. With batches of two,
three utterances make one full batch and one tail; the boundary cases of the
selection (watermark + 1, full run, run that reaches the end) all occur. One retry
makes both outcomes of the retry check reachable; two, with three failures, are what it
takes for two utterances to come after the end and find the lock one of them left. Three coroutines for two permits
let an identity be reused. `MaxFailures` bounds crashes, exceptions, lost replies and
failed pushes together; one or two of them, placed anywhere, are the faults a single
task can meet before it gives up. In `meeting_session` two handlers and the listener
are every pair that can meet at the lock with a third one waiting; two provider events
and the close make a word, an end and a flush in any order around the two closes of
an utterance.

`platform` gives each component two actors of the kind that races (two permits, two
coroutines besides the listener, two turns, two requests, two refreshes) and, unless the
overlap itself fills the instance, one failure placed anywhere: images 2 jobs, 1 picture,
2 permits; interviews 1 session with 2 channels and 4 provider events (two turns, of one
channel or of both, or speech that resumes in the grace period, and a list of recent turns
that is trimmed), or 2 sessions with 2 events and a failure (a turn whose save fails when
its session was replaced); sheets 3
rows and 1 retry with 1 worker, 2 rows and 2 tasks with 2; conversations 2 turns; skills
2 ids with 4 (2) requests; backtests 6 days of 4 shapes and 3 templates; watchlists 2
lists and 4 requests; notifications 3 creations; organizations 3 accounts and 2 requests,
or 4 requests from nothing; voices 4 requests on one id, or 2 users' speeches of up to 2
chunks. Its properties are conjunctions of the modules' own: `StoredFilesKept`
(`LiveJobIsTracked`, `NoBrokenImage` of images; `RowsHaveTheirFiles`, `NoFileForgotten`,
`StreamsTellTheirOutcome` of voices), `InterviewTurnsKept`, `SheetFullySynced`,
`ConversationsAnswered`, `SkillsConsistent`, `ListsConsistent` (catalogue, watchlists,
notifications, organizations), `EquityConserved`, `NoLookAhead`, and the refinement
`ImplementsJobLifecycle`.

`dispatch_safety` lets an invocation die anywhere except between creating a report
and attaching it and between the mark and the advance: dying there breaks
`OneReportPerOccurrence` and `NoStuckSchedule` respectively. Finding 1 is the second;
the first is the crash twin of finding 2 and is listed as a hazard.

Deadlock checking is off for the meeting notes and sessions and for the platform: there a
meeting that is over and summarized, a socket that is gone, or clients that have made
their requests really stop. In the other modules the dispatcher keeps being invoked
and the workers keep polling.

**Mutants.** For each property a *Variant* of the code, put in the place of the
original, makes the run fail: a claim filter without its status, a mark that advances,
an eager selection, a terminal mark that moves the watermark, and so on.

### Fairness

- `StockResearchDispatch`: weak fairness of the clock, of the start of an invocation
  (the external scheduler keeps invoking the endpoint), of its steps and of the write
  of an edit already begun. Requests and crashes are never forced.
- `StockResearchReports`: weak fairness of callers, loops and coroutines (asyncio runs
  every ready coroutine), and strong fairness of `Acquire`: a worker that is restarted
  again and again is not stopped for ever before it can take a permit.
- `MeetingNotes`: weak fairness of each worker and of lock expiry. Nobody has to speak
  or hang up.

- `MeetingSession`: weak fairness of each coroutine, strong fairness of taking the lock
  (an `asyncio.Lock` wakes its waiters in order), of the deadline of a drain, and of the
  provider's close once a session is finalizing, when it gets no keepalives any more.

Liveness properties excuse what a failure swallowed (`lost`): the Redis list is popped
destructively, so a task whose worker dies is gone, and the code has no sweep for it.
Deferral of a terminal task while another worker drains is a loop of its own; in
`meeting_notes_single` there is one worker, so it ends when the lock expires. A lock
call that raises may leave the lock behind until then; an utterance task that finds it
(`LeftBehind`) after the end, with no task to follow, counts as swallowed too.

## 4. What is proved

TLAPS proves these for every value of the constants, with any number of failures.

**Dispatcher** (`StockResearchDispatchProofs`): `TypeCorrect`, `QueuedRunCorrect`
(a queued run names a report of its own occurrence that reached the queue),
`NoOccurrenceSkippedCorrect`, `QueuedFinal`, `DeletedFinal`. Neither `Timely` nor a
restriction of the crash points is used, so these hold under overruns too. The
invariant `IInv` adds to the types: what an edit or a schedule names is a known
occurrence (`EditNamesSchedule`, `ScheduleNamesOccurrence`); what an invocation works
on was due (`WorkIsDue`), hence differs from whatever `NextRun` yields; the local
report id belongs to the occurrence in hand and is pushed once the invocation marks it
queued (`LocalReport`); a run names only its own reports and a queued one is pushed
(`RunReport`). `LocalReport` is what makes a late write of a lost owner harmless: it
may replace the report of a run, but only by one of the same occurrence. Assumptions:
`ClockAssumption`, `NextRunAssumption`, `NullAssumption`, `SwitchAssumption`, all
evaluated by TLC in the runs.

Three more assume `Timely` and no more of the crash points than they must.
`ExclusiveDispatchCorrect`: an owner holds a lock that has not expired (`InTime`,
`OwnsRun` in `LockInv`), so nobody else can claim its run. `OneReportCorrect`, if no
invocation dies between creating and attaching a report: the owner's run has no report
until it attaches the one it created (`OwnsReport`), and every report is that of its run
or about to be (`ReportIsAttached`). `NoStuckScheduleCorrect`, if no invocation dies
between the mark and the advance: whatever was dispatched, or is about to be, is not
later than what its schedule names (`HandledIsPast`), and a new `next_run_at` is in the
future when it is computed and still when it is written. `dispatch_safety` satisfies the
hypotheses of all three; `dispatch_overrun` and `dispatch_stuck` show that two of them
cannot be dropped.

**Calculator** (same module): `NextRunIsNext` (the result is the first
occurrence strictly after the reference, for every definition that passes validation
and every instant) and `NextRunMonotone`. They justify `NextRunAssumption`. Quotient
and remainder are made explicit first (`Split15`, `LocalTime`, `DateOfHour`); each
weekday has one candidate among the eight days from the local date
(`WeekdayIsNext`), and the earliest candidate is the first on any chosen weekday.

**Meeting notes** (`MeetingNotesProofs`): `TypeCorrect`, `ChunksDisjointCorrect`,
`UtteranceAccountedCorrect`, `WatermarkIsConsumedCorrect`, `StateIsReadableCorrect`,
and `Refinement` (`Spec => ImplementsLedger`). The summary lock plays no part in their
argument: it could be removed and these would still hold. What carries them is that a
watermark, wherever it is stored or remembered, is a multiple of the batch size or the
end of the meeting (`StateIsCurrent`), so a batch selected from any stale state starts
after a multiple of the batch size and ends at the next one or at the end
(`BatchesAreOpen`); two such batches are equal or apart (`OpenBatches`), and one that
reaches past the consumed prefix starts right after it (`RemovalConsumes`). The end is
safe because a terminal task is pushed after the last utterance and nothing is spoken
afterwards (`TasksAreCurrent`). An utterance whose task is past staging is pending or
consumed (`StagedIsSecured`), which is why a task that ends early loses nothing.
`TailIsFlushedCorrect` is about one worker (with two, finding 3 refutes it). The hash
then is what the worker last read or wrote (`HashFollows`), and as long as no task was
lost either a task is still to look for a batch or there is none to find
(`EndIsAttended`); pending sequences up to the end would be one (`RestIsSelected`).
Assumptions: `NoteAssumption`, `NullAssumption`.

**Sessions** (`MeetingSessionProofs`), for any number of handlers, sessions, provider
events and failures. Each layer of the invariant contains the one before; what a theorem
assumes of `Overlapping` is what the code leaves to the client.

| layer | what it adds | assumes of `Overlapping` | theorem |
|---|---|---|---|
| `LocalInv` | types; who works on a session has one; a push has something to push | nothing | `TypeCorrect` |
| `LockInv` | who collects, sends or finalizes holds the session's lock; one start at a time, and no lock is held while it waits for its membership check | no `start` | `ExclusiveCollectionCorrect` |
| `OrderInv` | a close is the last event wherever events are; tasks in the queue followed by those in the hands of the lock's holder are in order; the end of a session is pushed when nothing can follow | no `start` | `TasksInOrderCorrect` |
| `CountInv` | these tasks are as many as the sequence counter says; who ends a session is not about to cancel the listener of the next | no `start`, no `disconnect` | `TerminalCountsAllCorrect` |
| `ServeInv` | a session with an open record is the socket's, or somebody is at a step that leads to its end; an open connection is that of an active session, or of one whose failure is being handled | none at all | `NoMeetingAbandonedCorrect`, `NoConnectionLeaksCorrect` |

With `Overlapping = {}`, as in `meeting_session`, a client waits for the answer to its
start, and starts again when nothing of the earlier session goes on: all hypotheses hold.
In `meeting_session_abandoned` one disconnect during a start breaks
`NoMeetingAbandoned`, audio or a finalize there does the same, and an overlapping start
also breaks `ExclusiveCollection` (finding 4). Whether `TasksInOrder` and
`TerminalCountsAll` need their hypotheses is open: without them TLC found no violation,
but the induction rests on `LockInv`. Requests other than a start overlap freely with each
other, with the listener and with the provider. The layers were checked by TLC on
instances with two sessions and with three failures before they were proved. That is how
the exception in `NoConnectionLeaks` came about: with two failures in a row, a session
whose failure cannot be written is left with its connection (section 5).
Assumption: `SessionAssumption`.

**Reports** (`StockResearchReportsProofs`): `TypeCorrect`, `PermitsAreConserved`,
`AgentRunsAtMostOnce`, `ArtifactAgrees` and `CompletedStays`. The pool (`PoolOK`) counts
the coroutines of each worker against its permits; a stopped worker has none. The reports
(`ReportOK`) tie each row to the one coroutine past its claim: before the agent ended the
row is running, or failed by a late mark; a row that is absent or queued has no such
coroutine and no agent run; a completion is announced only by the coroutine's last step.
The claim is the only conditional update, and `ClaimantWrites` shows that with it alone
every other, unconditional one is harmless. Assumption: `ReportAssumption`.

**Images** (`ImageJobsProofs`): `JobsFollowLifecycle` (`Spec => ImplementsJobLifecycle`)
`TypesKept`, `LiveJobsAreTracked` and `NoImageIsBroken`. At most one request creates a job
and at most one cancels it (`RequestsApart`), no two permits have claimed one job
(`SlotsApart`), each step of a permit knows the status its own update left (`SlotFits`),
and what was announced was reached (`JobFits`). A pending job is with the request that
made it, in the list or in a permit's hands, a processing one with the permit that claimed
it, or a failure lost it (`LiveJobsTracked`); a row that is shown has an asset nobody is
about to delete (`LibraryFits`). Assumption: `ImageJobsAssumption`.

`ListsProofs` takes five components as instances, with the variables they have in the
platform and constants of their own, and gives each an inductive invariant (`CatalogSound`,
`ListsSound`, `NoticesSound`, `OrgsSound`, `VoicesSound`).

**Catalogue**: `PagesFollowCatalogue`, `SnapshotsDoNotMix`. A reader that no replacement
overlapped has read the active snapshot (`ReadersAreCurrent`), and a cached page that is not
excused is current or about to be dropped (`PagesAreCurrent`). No assumption: what a page
contains does not matter.

**Watchlists**: `ListsAndItems`. What a request remembers of the list it looked up stays
true of the list as long as there is one, since ids and owners never change; an item saved
after the deletion of its list is recorded as late when it is saved, and a deletion removes
the items before the list. **Notifications**: `NotifiedOnce`. The unique index makes keys
apart whatever the lookups saw, and an id is announced by the one creator that holds it.

**Organizations**: `AdminsRemain`, `AccountsAndMembers`. From its checks to its write a
request that takes rights away spares its own caller (`SparesCaller`), who is an admin
unless the check has gone stale, which `ungoverned` records. Rows and slugs stay apart by
their indexes (`RowsApart`, `SlugsApart`); e-mails, which have none, because the e-mail a
creation found free is still free when it inserts, or another creation overlapped
(`Distinctness`). Hypotheses: the founders, if any, are three accounts with an e-mail each.

**Voices**: `VoicesAndSpeeches`. A request's number is its own, so is the file it uploads;
each step of a request knows which of its row, file and provider's voice exist, and a row
that is live is not the one a deletion has switched off. What a stream has told so far
tells at which step it is.

**Sheet sync** (`ServicesProofs`): `SyncSkipsNothing`. What a worker has fetched are rows
of the sheet, which later only grows and is filled in (`SheetTaskFits`). Up to every
watermark, stored or in a worker's hands, each row was stored or read as blank
(`SyncPassing`); this needs no assumption on overlaps, so late writes of a slower sync are
harmless to it. A sync that is alone knows the stored state (`SyncFits`): what it added
lies between its watermark and the next row, so the total it writes counts the stored rows
(`SyncCounting`), and the cache, unless about to be invalidated, covers them
(`SyncCovering`). Both end with the first overlap, which `overlapped` records. Hypotheses
(`SheetSetup`): the data start within the sheet, the bounds are numbers.

**Interview** (`ServicesProofs`): `TurnsStayApart`, for any channels, sessions, handlers
and numbers of events. `TalkSound` says what a coroutine has in its hands: turns only
while it appends them, and a stream whenever it is busy (`CoroutinesFit`). A fragment on its
way is in no turn yet, the open turns of a session share none with each other or with what
was closed, and a timer runs only on a quiet channel (`FragmentsFit`). A closed turn is in
one place (`PlacesFit`), and saves, answers and deferred errors follow from what was
stored (`AfterStoring`). Events are collected many at a time, by a fold; what a fold over
any number of events keeps is shown by induction over that number, written out with the
least number at which a claim fails, since the library's induction theorem cannot be used
here. Hypotheses (`TalkSetup`): channels are a finite set of numbers, bounds are numbers.

**Platform** (`PlatformProofs`): `ListsStayConsistent`, `FilesStayKept`,
`SheetsStaySynced` and `InterviewsStayKept`, the properties the run checks. A step of the platform is a step of the
component it follows and leaves the others alone, so the invariant is that of the component
followed. A component has one name in `Platform` and another in `ListsProofs` or
`ServicesProofs`; both are instances of one module with the same constants, and the lemmas
called `Follows` say so operator by operator. Hypothesis: `None` is not a number, a slug or
a sync state.

**Only model-checked.** Liveness (`DueIsDispatched`, `QueuedIsFinished`,
`EndIsFlushed`, `MeetingEnds`), which is out of the prover's reach; of the
platform, `PlatformTypeOK`, `ConversationsAnswered`, `SkillsConsistent`,
`EquityConserved` and `NoLookAhead`. The operators are checked over
bounded inputs (`ConversationWorkflows` is recursive, which the provers cannot take).

## 5. Findings

1. `dispatch_stuck`: an invocation that dies between `mark_queued` and
   `advance_next_run_at` leaves an active schedule on an occurrence no claim accepts;
   it never runs again.
2. `dispatch_overrun`: the 600 s lock counts from the start of the whole batch and is
   never renewed; an invocation overtaken between creating and attaching a report makes
   a second report for the occurrence.
3. `meeting_notes_tail`: an utterance task that finds the summary lock taken is not
   requeued, and the terminal task that holds the lock may have looked before that
   utterance was staged; the tail is never summarized.
4. `meeting_session_abandoned`: a socket that disconnects while its meeting is being
   created finds a session without a meeting id and a provider that is not open: it
   fails and discards the session without writing anything; the record is created
   afterwards and stays `streaming`. The same window opens for audio or finalize sent
   before the start is answered, and the end of one session that overlaps with the next
   start drops the new session, since `discard_session` goes by socket.

**Further observations.** Met while translating; the models behave like this, and the
properties name the exception.

- *Meetings.* `fail` writes the record before it closes the provider. When a malformed
  event makes a session fail and that write raises, the connection stays open, and a
  disconnect then discards the inactive session without closing it; only Deepgram's own
  timeout ends it. `NoConnectionLeaks` excludes sessions with a failed write.
- *Notes.* A release of the summary lock that raises leaves it for its 120 s. The retry
  comes at once, finds the lock taken and is done; when it is the last task after the end,
  the tail it staged is never summarized, even with one worker (`LeftBehind`).
- *Interview.* A transcript queued when the grace period ends is consumed after the turn
  closed, although `openspec/specs/interview-multichannel-ai-trigger/spec.md:40-44` says
  resumed speech cancels the closure. A stop while the provider connects leaves a
  session streaming that is no longer registered, with its connection. Removal goes by
  socket, so it may remove a later session. Turns closed at the very end are announced
  and not stored; an answer scheduled after the removal is never cancelled; two
  collectors may append turns out of order.
- *Sheets.* The worker does not look at `sync_enabled`. Deleting a connection leaves the
  cache, and a running sync creates the state and rows of the deleted connection anew.
  Overlapping syncs count rows twice. A row that was blank when passed and is filled
  later is never stored. The limiter documents 100 requests per 100 s; a bucket of 80
  that refills by 0.8 per second lets 160 through (`HundredSeconds`).
- *Conversations.* Chat history is the first hundred messages, not the latest. Turns
  that overlap store each other's answers, a run that ends without text stores an older
  answer again, and a failure after the answer was stored still emits the failed event. The
  strategic workflow is routed to but never registered.
- *Agents.* `result_max_chars` and the delegation-limit middleware are not applied; where
  the stock agent reports a worker that cannot be built, the lead agent raises.
- *Backtests.* An open price of zero divides by zero; `buy_and_hold` does not invest on
  the first bar; twice the warm-up in calendar days may be too few; without losses the
  profit factor is the profit. *Analytics.* Week buckets mix calendar years with ISO
  weeks; an integer conversion of a huge number is not caught.
- *Catalogue, lists, notifications.* A reader that overlaps a refresh caches a stale page
  for as long as the entry lives; an older fetch may replace a newer snapshot. An item
  added during a deletion stays for ever. The loser of a unique-index race gets a server
  error. A second `mark_as_read` may overwrite the time of the first.
- *Organizations.* A removed member cannot be added again: the soft-deleted row occupies
  the unique index. E-mails have no unique index, so overlapping creations both succeed.
  Two admins who remove each other leave none. A creation that fails between its two
  writes leaves an account without a membership.
- *Voices.* Two clones of one id both succeed, and a clone during a deletion loses its
  voice; only a provider's error removes the recording; a provider's error during a
  deletion leaves the file for ever.

## 6. What is not modelled

*Meeting management* reads and edits single documents, one call each: there is no
interleaving or ordering to be wrong about beyond what the database does. *Meeting note
generation* is one model call; only its outcome matters and is chosen freely. Of the
*Deepgram client* and the *socket gateway*, the audio and options, rooms, the worker
gateway and authentication are left out: they forward. *Data queries* run a generated
query against one collection. *Passwords, log-in and tokens* are library calls.
Schemas, prompts, tool descriptions and provider adapters are data.

Left out of modelled parts: how a meeting's words are grouped by speaker, fragments shown
to the user, the limit on waiting audio chunks, and a second listener that starts while a
cancelled one is still unwinding; the 24 h expiry of the hot note state (a meeting that
pauses longer than a day loses its staged utterances) and of caches in general; the
wording of reports, notes, answers and prompts; rows deleted or edited in a sheet; reads
that change nothing, where no property needs them; requests on documents of other
organizations, which every query excludes; run-now, which is a caller of
`StockResearchReports` like any other.

**Coverage.** The map covers a third of the implementation's lines. Most of the rest is
schemas, prompts, provider adapters, routing of requests to the services modelled here,
and the bodies of tools that call a library.

**What could come next.** Proofs of `ConversationsAnswered` and `SkillsConsistent`, from
what a turn or a request knows at each of its steps, in the way `ServicesProofs` has it.
