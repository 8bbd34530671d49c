---------------------------- MODULE MeetingNotes ----------------------------
(****************************************************************************)
(* The incremental notes of one meeting: the session manager pushes a task  *)
(* per closed utterance and one at the end, and the meeting note workers    *)
(* stage the utterances in Redis and turn contiguous batches of them into   *)
(* note chunks under a summary lock.                                        *)
(*                                                                          *)
(* The hot state is read and written in separate round trips; only the MULTI*)
(* blocks are atomic.  The lock has a time to live and no fencing: a slow   *)
(* generation outlives it, and another worker starts on the same meeting.   *)
(****************************************************************************)
EXTENDS Naturals, Sequences

CONSTANTS
    Workers,
    NoWorker,
    NoTask,
    BatchSize,      \* MeetingNoteProcessingService.BATCH_SIZE
    MaxRetries,     \* MeetingNoteWorker.MAX_RETRIES
    MaxUtterances,  \* bound on the length of the meeting
    MaxFailures,    \* bound on failures of every kind
    LockExpires,    \* generation may outlive the summary lock
    LosesLockReply  \* a lock call that raises may have taken effect

ASSUME NoteAssumption ==
    /\ BatchSize \in Nat \ {0}
    /\ MaxRetries \in Nat
    /\ MaxUtterances \in Nat
    /\ MaxFailures \in Nat
    /\ LockExpires \in BOOLEAN
    /\ LosesLockReply \in BOOLEAN
    /\ NoWorker \notin Workers

Kinds == {"utterance", "terminal"}
Tasks == [kind : Kinds, seq : 0 .. MaxUtterances, retry : 0 .. MaxRetries]

ASSUME NullAssumption == NoTask \notin Tasks

VARIABLES
    spoken,     \* last_allocated_sequence of the session
    ended,      \* the session is over
    queue,      \* the Redis list of tasks
    persisted,  \* meeting_utterances: sequences
    chunks,     \* meeting_note_chunks: first and last sequence
    state,      \* the Redis hash note_state
    pending,    \* the Redis keys pending_sequences and pending_utterances
    lock,       \* holder of the summary lock
    pc,         \* per worker: the call it makes next
    task,       \* per worker: the task it took
    seen,       \* per worker: the note state it read
    batch,      \* per worker: first and last sequence selected
    failures,
    lost,       \* history: tasks that were dropped, by kind and sequence
    done        \* history: utterances consumed by finalized batches

meetingVars == <<spoken, ended>>
redisVars   == <<state, pending>>
workerVars  == <<pc, task, seen, batch>>
vars == <<meetingVars, queue, persisted, chunks, redisVars, lock, workerVars,
          failures, lost, done>>

Sequences0 == 0 .. MaxUtterances
NoBatch == <<0, 0>>
NoState == [exists |-> FALSE, terminal |-> FALSE, watermark |-> 0, final |-> 0]
States  == [exists : BOOLEAN, terminal : BOOLEAN, watermark : Sequences0,
            final : Sequences0]

Staging  == {"persist", "check", "stage", "read_terminal", "mark"}
Releasing == {"release", "abort"}
Draining == {"state", "select", "payload", "generate", "append", "remove"}
                \cup Releasing
Steps    == {"idle", "lock", "defer", "retry"} \cup Staging \cup Draining

TypeOK ==
    /\ spoken \in Sequences0
    /\ ended \in BOOLEAN
    /\ queue \in Seq(Tasks)
    /\ persisted \subseteq 1 .. MaxUtterances
    /\ chunks \subseteq Sequences0 \X Sequences0
    /\ state \in States
    /\ pending \subseteq 1 .. MaxUtterances
    /\ lock \in Workers \cup {NoWorker}
    /\ pc \in [Workers -> Steps]
    /\ task \in [Workers -> Tasks \cup {NoTask}]
    /\ seen \in [Workers -> States]
    /\ batch \in [Workers -> Sequences0 \X Sequences0]
    /\ failures \in 0 .. MaxFailures
    /\ lost \subseteq Kinds \X Sequences0
    /\ done \in Sequences0

Init ==
    /\ spoken = 0
    /\ ended = FALSE
    /\ queue = <<>>
    /\ persisted = {}
    /\ chunks = {}
    /\ state = NoState
    /\ pending = {}
    /\ lock = NoWorker
    /\ pc = [w \in Workers |-> "idle"]
    /\ task = [w \in Workers |-> NoTask]
    /\ seen = [w \in Workers |-> NoState]
    /\ batch = [w \in Workers |-> NoBatch]
    /\ failures = 0
    /\ lost = {}
    /\ done = 0

Fail ==
    /\ failures < MaxFailures
    /\ failures' = failures + 1

Name(t) == <<t.kind, t.seq>>

\* An enqueue whose result is ignored: pushed, or gone.
Submit(t) ==
    \/ queue' = Append(queue, t) /\ UNCHANGED <<failures, lost>>
    \/ Fail /\ lost' = lost \cup {Name(t)} /\ UNCHANGED queue

-----------------------------------------------------------------------------
(* The session, which pushes its tasks in order under its lock.             *)

CloseUtterance ==
    /\ ~ended
    /\ spoken < MaxUtterances
    /\ spoken' = spoken + 1
    /\ Submit([kind |-> "utterance", seq |-> spoken + 1, retry |-> 0])
    /\ UNCHANGED <<ended, persisted, chunks, redisVars, lock, workerVars, done>>

\* Variant: the final sequence is read before the last utterance is closed.
EndMeetingTooSoon ==
    /\ ~ended
    /\ ended' = TRUE
    /\ Submit([kind |-> "terminal", seq |-> IF spoken = 0 THEN 0 ELSE spoken - 1,
               retry |-> 0])
    /\ UNCHANGED <<spoken, persisted, chunks, redisVars, lock, workerVars, done>>

\* completed or interrupted
EndMeeting ==
    /\ ~ended
    /\ ended' = TRUE
    /\ Submit([kind |-> "terminal", seq |-> spoken, retry |-> 0])
    /\ UNCHANGED <<spoken, persisted, chunks, redisVars, lock, workerVars, done>>

\* A failed session, or a dead API process, pushes no terminal task.
FailMeeting ==
    /\ ~ended
    /\ ended' = TRUE
    /\ UNCHANGED <<spoken, queue, persisted, chunks, redisVars, lock, workerVars,
                   failures, lost, done>>

-----------------------------------------------------------------------------
(* The worker loop: one task at a time.                                     *)

Goto(w, step) == pc' = [pc EXCEPT ![w] = step]

Rest(w) ==
    /\ pc' = [pc EXCEPT ![w] = "idle"]
    /\ task' = [task EXCEPT ![w] = NoTask]
    /\ seen' = [seen EXCEPT ![w] = NoState]
    /\ batch' = [batch EXCEPT ![w] = NoBatch]

Dequeue(w) ==
    /\ pc[w] = "idle"
    /\ queue # <<>>
    /\ queue' = Tail(queue)
    /\ task' = [task EXCEPT ![w] = Head(queue)]
    /\ Goto(w, IF Head(queue).kind = "utterance" THEN "persist" ELSE "read_terminal")
    /\ UNCHANGED <<meetingVars, persisted, chunks, redisVars, lock, seen, batch,
                   failures, lost, done>>

\* The reply to the pop is lost: dequeue reports an empty queue.
LosePop(w) ==
    /\ pc[w] = "idle"
    /\ queue # <<>>
    /\ Fail
    /\ lost' = lost \cup {Name(Head(queue))}
    /\ queue' = Tail(queue)
    /\ UNCHANGED <<meetingVars, persisted, chunks, redisVars, lock, workerVars, done>>

\* Variant: one retry too many.
RetryOnceMore(w) ==
    /\ pc[w] = "retry"
    /\ IF task[w].retry <= MaxRetries
       THEN Submit([task[w] EXCEPT !.retry = @ + 1])
       ELSE lost' = lost \cup {Name(task[w])} /\ UNCHANGED <<queue, failures>>
    /\ Rest(w)
    /\ UNCHANGED <<meetingVars, persisted, chunks, redisVars, lock, done>>

\* handle_failed_task: the result of the enqueue is not looked at.
Retry(w) ==
    /\ pc[w] = "retry"
    /\ IF task[w].retry < MaxRetries
       THEN Submit([task[w] EXCEPT !.retry = @ + 1])
       ELSE lost' = lost \cup {Name(task[w])} /\ UNCHANGED <<queue, failures>>
    /\ Rest(w)
    /\ UNCHANGED <<meetingVars, persisted, chunks, redisVars, lock, done>>

\* handle_deferred_task, for terminal tasks only; an enqueue that reports
\* failure, whether or not it pushed, raises into handle_failed_task.
Defer(w) ==
    /\ pc[w] = "defer"
    /\ queue' = Append(queue, task[w])
    /\ Rest(w)
    /\ UNCHANGED <<meetingVars, persisted, chunks, redisVars, lock, failures, lost,
                   done>>

DeferFails(w) ==
    /\ pc[w] = "defer"
    /\ Fail
    /\ queue' \in {queue, Append(queue, task[w])}
    /\ Goto(w, "retry")
    /\ UNCHANGED <<meetingVars, persisted, chunks, redisVars, lock, task, seen, batch,
                   lost, done>>

\* A database, Redis or model call raises.  Inside the drain loop the finally
\* clause still releases the lock; the lock calls themselves stand outside it.
Raise(w) ==
    /\ pc[w] \in {"lock"} \cup Staging \cup Draining
    /\ Fail
    /\ Goto(w, IF pc[w] \in Draining \ Releasing THEN "abort" ELSE "retry")
    /\ \/ UNCHANGED lock
       \/ /\ LosesLockReply
          /\ \/ pc[w] = "lock" /\ lock = NoWorker /\ lock' = w
             \/ pc[w] \in Releasing /\ lock = w /\ lock' = NoWorker
    /\ UNCHANGED <<meetingVars, queue, persisted, chunks, redisVars, task, seen, batch,
                   lost, done>>

Crash(w) ==
    /\ pc[w] # "idle"
    /\ Fail
    /\ lost' = lost \cup {Name(task[w])}
    /\ Rest(w)
    /\ UNCHANGED <<meetingVars, queue, persisted, chunks, redisVars, lock, done>>

-----------------------------------------------------------------------------
(* _persist_and_stage_utterance                                             *)

Persist(w) ==
    /\ pc[w] = "persist"
    /\ persisted' = persisted \cup {task[w].seq}
    /\ Goto(w, "check")
    /\ UNCHANGED <<meetingVars, queue, chunks, redisVars, lock, task, seen, batch,
                   failures, lost, done>>

\* Variant: the next sequence to summarize counts as summarized.
IsAlmostSummarized(n) == state.exists /\ n <= state.watermark + 1

IsSummarized(n) == state.exists /\ n <= state.watermark

Check(w) ==
    /\ pc[w] = "check"
    /\ Goto(w, IF IsSummarized(task[w].seq) THEN "lock" ELSE "stage")
    /\ UNCHANGED <<meetingVars, queue, persisted, chunks, redisVars, lock, task, seen,
                   batch, failures, lost, done>>

\* The fields of the hash are only set when it has none.
Stage(w) ==
    /\ pc[w] = "stage"
    /\ state' = [state EXCEPT !.exists = TRUE]
    /\ pending' = pending \cup {task[w].seq}
    /\ Goto(w, "lock")
    /\ UNCHANGED <<meetingVars, queue, persisted, chunks, lock, task, seen, batch,
                   failures, lost, done>>

(* mark_terminal_state: the watermark it read is written back.              *)

ReadTerminal(w) ==
    /\ pc[w] = "read_terminal"
    /\ seen' = [seen EXCEPT ![w] = state]
    /\ Goto(w, "mark")
    /\ UNCHANGED <<meetingVars, queue, persisted, chunks, redisVars, lock, task, batch,
                   failures, lost, done>>

Later(m, n) == IF m > n THEN m ELSE n

\* Variant: the end of the meeting moves the watermark too.
MarkAllSummarized(w) ==
    /\ pc[w] = "mark"
    /\ state' = [exists |-> TRUE, terminal |-> TRUE, watermark |-> task[w].seq,
                 final |-> Later(task[w].seq, seen[w].final)]
    /\ Goto(w, "lock")
    /\ UNCHANGED <<meetingVars, queue, persisted, chunks, pending, lock, task, seen,
                   batch, failures, lost, done>>

MarkTerminal(w) ==
    /\ pc[w] = "mark"
    /\ state' = [exists |-> TRUE, terminal |-> TRUE,
                 watermark |-> seen[w].watermark,
                 final |-> Later(task[w].seq, seen[w].final)]
    /\ Goto(w, "lock")
    /\ UNCHANGED <<meetingVars, queue, persisted, chunks, pending, lock, task, seen,
                   batch, failures, lost, done>>

-----------------------------------------------------------------------------
(* _drain_available_batches                                                 *)

\* A failure left the lock behind: its holder is not at work.
LeftBehind == lock # NoWorker /\ pc[lock] \notin Draining

\* An utterance task that finds the lock taken is done: only a terminal task
\* is requeued.  When a failure left the lock behind and no task follows, what
\* the utterance was to complete is lost.
Acquire(w) ==
    /\ pc[w] = "lock"
    /\ IF lock = NoWorker
       THEN lock' = w /\ Goto(w, "state") /\ UNCHANGED <<task, seen, batch, lost>>
       ELSE /\ UNCHANGED lock
            /\ IF task[w].kind = "terminal"
               THEN Goto(w, "defer") /\ UNCHANGED <<task, seen, batch, lost>>
               ELSE /\ Rest(w)
                    /\ lost' = IF LeftBehind /\ state.terminal /\ queue = <<>>
                               THEN lost \cup {Name(task[w])}
                               ELSE lost
    /\ UNCHANGED <<meetingVars, queue, persisted, chunks, redisVars, failures, done>>

ReadState(w) ==
    /\ pc[w] = "state"
    /\ seen' = [seen EXCEPT ![w] = state]
    /\ Goto(w, IF state.exists THEN "select" ELSE "release")
    /\ UNCHANGED <<meetingVars, queue, persisted, chunks, redisVars, lock, task, batch,
                   failures, lost, done>>

\* The sequences first .. last are pending, and last + 1 is not.
ContiguousRun(first, last) ==
    /\ first <= last
    /\ first .. last \subseteq pending
    /\ last + 1 \notin pending

\* Variants: a short run is taken while the meeting goes on; before it reaches
\* the final sequence; never.
SelectsEagerly(s, from, to) ==
    /\ from = s.watermark + 1
    /\ \/ to = from + BatchSize - 1 /\ from .. to \subseteq pending
       \/ ContiguousRun(from, to) /\ to < from + BatchSize - 1

SelectsPartialTail(s, from, to) ==
    /\ from = s.watermark + 1
    /\ \/ to = from + BatchSize - 1 /\ from .. to \subseteq pending
       \/ s.terminal /\ ContiguousRun(from, to) /\ to < from + BatchSize - 1

SelectsFullOnly(s, from, to) ==
    /\ from = s.watermark + 1
    /\ to = from + BatchSize - 1
    /\ from .. to \subseteq pending

\* select_batch_sequences: the next BatchSize contiguous sequences after the
\* watermark, or a shorter run that reaches the final sequence.
Selects(s, from, to) ==
    /\ from = s.watermark + 1
    /\ \/ /\ to = from + BatchSize - 1
          /\ from .. to \subseteq pending
       \/ /\ s.terminal
          /\ ContiguousRun(from, to)
          /\ to < from + BatchSize - 1
          /\ to >= s.final

Select(w) ==
    /\ pc[w] = "select"
    /\ \/ \E from, to \in 1 .. MaxUtterances :
            /\ Selects(seen[w], from, to)
            /\ batch' = [batch EXCEPT ![w] = <<from, to>>]
            /\ Goto(w, "payload")
       \/ /\ ~\E from, to \in 1 .. MaxUtterances : Selects(seen[w], from, to)
          /\ Goto(w, "release")
          /\ UNCHANGED batch
    /\ UNCHANGED <<meetingVars, queue, persisted, chunks, redisVars, lock, task, seen,
                   failures, lost, done>>

First(w) == batch[w][1]
Last(w)  == batch[w][2]

\* Payloads removed by somebody else in between are an error.
ReadPayload(w) ==
    /\ pc[w] = "payload"
    /\ Goto(w, IF First(w) .. Last(w) \subseteq pending THEN "generate" ELSE "abort")
    /\ UNCHANGED <<meetingVars, queue, persisted, chunks, redisVars, lock, task, seen,
                   batch, failures, lost, done>>

\* The model finds something note-worthy, or nothing.
Generate(w) ==
    /\ pc[w] = "generate"
    /\ \/ Goto(w, "append")
       \/ Goto(w, "remove")
    /\ UNCHANGED <<meetingVars, queue, persisted, chunks, redisVars, lock, task, seen,
                   batch, failures, lost, done>>

AppendChunk(w) ==
    /\ pc[w] = "append"
    /\ chunks' = chunks \cup {batch[w]}
    /\ Goto(w, "remove")
    /\ UNCHANGED <<meetingVars, queue, persisted, redisVars, lock, task, seen, batch,
                   failures, lost, done>>

\* remove_pending_utterances sets the watermark whatever it is by now.
RemovePending(w) ==
    /\ pc[w] = "remove"
    /\ pending' = pending \ (First(w) .. Last(w))
    /\ state' = [state EXCEPT !.watermark = Last(w)]
    /\ done' = Later(done, Last(w))
    /\ Goto(w, "state")
    /\ UNCHANGED <<meetingVars, queue, persisted, chunks, lock, task, seen, batch,
                   failures, lost>>

\* The release compares the token.
Release(w) ==
    /\ pc[w] \in Releasing
    /\ lock' = IF lock = w THEN NoWorker ELSE lock
    /\ IF pc[w] = "release"
       THEN Rest(w)
       ELSE Goto(w, "retry") /\ UNCHANGED <<task, seen, batch>>
    /\ UNCHANGED <<meetingVars, queue, persisted, chunks, redisVars, failures, lost,
                   done>>

\* The time to live of the lock passes: its holder died, or is slow.
ExpireLock ==
    /\ LeftBehind \/ (LockExpires /\ lock # NoWorker)
    /\ lock' = NoWorker
    /\ UNCHANGED <<meetingVars, queue, persisted, chunks, redisVars, workerVars,
                   failures, lost, done>>

-----------------------------------------------------------------------------
WorkerStep(w) ==
    \/ Dequeue(w) \/ LosePop(w) \/ Retry(w) \/ Defer(w) \/ DeferFails(w) \/ Raise(w)
    \/ Persist(w) \/ Check(w) \/ Stage(w) \/ ReadTerminal(w) \/ MarkTerminal(w)
    \/ Acquire(w) \/ ReadState(w) \/ Select(w) \/ ReadPayload(w) \/ Generate(w)
    \/ AppendChunk(w) \/ RemovePending(w) \/ Release(w)

Next ==
    \/ CloseUtterance \/ EndMeeting \/ FailMeeting
    \/ \E w \in Workers : WorkerStep(w) \/ Crash(w)
    \/ ExpireLock

Spec == Init /\ [][Next]_vars

\* Worker loops turn and locks expire; nobody has to speak or to hang up.
Fairness ==
    /\ \A w \in Workers : WF_vars(WorkerStep(w))
    /\ WF_vars(ExpireLock)

FairSpec == Spec /\ Fairness

-----------------------------------------------------------------------------
(* Properties.                                                              *)

Ledger == INSTANCE MeetingNoteLedger WITH
    BatchSize <- BatchSize, spoken <- spoken, ended <- ended, done <- done,
    chunks <- chunks

\* The notes consume a meeting batch by batch, in order, and each chunk is
\* exactly one of these batches, even when the summary lock expires under a
\* slow generation, a task is retried, or a stale worker puts the watermark
\* back.
ImplementsLedger == Ledger!Spec

\* No two note chunks of a meeting cover the same utterance.
ChunksDisjoint ==
    \A c, d \in chunks : c # d => c[2] < d[1] \/ d[2] < c[1]

\* The watermark never runs ahead of what finalized batches consumed:
\* an utterance it covers is not going to be staged again.
WatermarkIsConsumed ==
    /\ state.watermark <= done
    /\ \A w \in Workers : seen[w].watermark <= done

\* The terminal hash is never refused by its own validator, which every reader
\* runs: no batch goes past the final sequence.
StateIsReadable == state.terminal => state.watermark <= state.final

\* Every closed utterance is consumed, staged, or carried by a task that is
\* queued or being processed, unless a failure dropped its task: no
\* interleaving of workers makes one vanish.
UtteranceAccounted ==
    \A n \in 1 .. spoken :
        \/ n <= done
        \/ n \in pending
        \/ <<"utterance", n>> \in lost
        \/ \E i \in 1 .. Len(queue) : Name(queue[i]) = <<"utterance", n>>
        \/ \E w \in Workers :
                task[w] # NoTask /\ Name(task[w]) = <<"utterance", n>>

\* The tail of an ended meeting is summarized by the time all its tasks are
\* processed, if no failure made one of them vanish or left it behind a lock.
Quiet == queue = <<>> /\ \A w \in Workers : pc[w] = "idle"

TailIsFlushed ==
    Quiet /\ state.terminal /\ lost = {} => done = state.final

\* The end of a meeting leads to the consumption of all its utterances,
\* unless a task is dropped.
EndIsFlushed ==
    state.terminal ~> (done = spoken \/ lost # {})
==============================================================================
