------------------------- MODULE MeetingNotesProofs -------------------------
(****************************************************************************)
(* What holds of the notes of a meeting for every batch size, number of     *)
(* workers, retries and failures, whether or not the summary lock expires   *)
(* under its holder.  The lock is never used: the argument rests on the     *)
(* batches, which all start at multiples of the batch size.  What comes     *)
(* after the end of a meeting is about a single worker.                     *)
(****************************************************************************)
EXTENDS MeetingNotes, TLAPS

\* The tasks of a queue.
Elements(q) == {q[i] : i \in 1 .. Len(q)}

\* What a task says of the meeting stays true: nothing is spoken after the end.
CurrentAt(t, n, over) ==
    IF t.kind = "terminal" THEN over /\ t.seq = n ELSE t.seq \in 1 .. n

Current(t) == CurrentAt(t, spoken, ended)

NextCurrent(t) == CurrentAt(t, spoken', ended')

\* Every task, queued or taken, is about an utterance that was closed or about
\* the final sequence.
TasksAreCurrent ==
    /\ \A t \in Elements(queue) : Current(t)
    /\ \A w \in Workers : task[w] # NoTask => Current(task[w])

\* A worker has a task unless it is idle, and its steps are those of the kind
\* of its task.
FitsTask(w) ==
    /\ task[w] = NoTask <=> pc[w] = "idle"
    /\ pc[w] \in {"persist", "check", "stage"} => task[w].kind = "utterance"
    /\ pc[w] \in {"read_terminal", "mark", "defer"} => task[w].kind = "terminal"

StepFitsTask == \A w \in Workers : FitsTask(w)

\* A watermark is the end of a full batch, or of the meeting.
MarkAt(m, n, over) ==
    \/ m <= n /\ \E k \in 0 .. n : m = BatchSize * k
    \/ over /\ m = n

\* The note state: its final sequence is known once it is terminal.
HashAt(s, n, over, consumed) ==
    /\ MarkAt(s.watermark, n, over)
    /\ s.watermark <= consumed
    /\ s.terminal => over /\ s.final = n
    /\ ~s.terminal => s.final = 0

HashIsCurrent(s) == HashAt(s, spoken, ended, done)

\* The hash, every copy a worker read, and the consumed prefix end at marks.
StateIsCurrent ==
    /\ MarkAt(done, spoken, ended)
    /\ HashIsCurrent(state)
    /\ \A w \in Workers : HashIsCurrent(seen[w])
    /\ pending \subseteq 1 .. spoken

\* A batch that the ledger lets anybody write now.
OpenAt(c, n, over, consumed) ==
    /\ c[1] \in 1 .. n
    /\ c[2] \in 1 .. n
    /\ c[1] <= consumed + 1
    /\ \E k \in 0 .. n : c[1] = BatchSize * k + 1
    /\ \/ c[2] = c[1] + BatchSize - 1
       \/ over /\ c[2] = n /\ c[1] <= c[2] /\ c[2] < c[1] + BatchSize

IsOpenBatch(c) == OpenAt(c, spoken, ended, done)

\* The steps at which a worker holds a selected batch.
Holding == {"payload", "generate", "append", "remove"}

\* Held batches and written chunks are open batches.
BatchesAreOpen ==
    /\ \A w \in Workers : pc[w] \in Holding => IsOpenBatch(batch[w])
    /\ \A c \in chunks : IsOpenBatch(c)

\* Past its staging an utterance needs its task no more.
Secured(n) == n <= done \/ n \in pending

StagedIsSecured ==
    \A w \in Workers :
        pc[w] \in {"lock"} \cup Draining /\ task[w].kind = "utterance" =>
            Secured(task[w].seq)

\* The inductive invariant.
IInv ==
    /\ TypeOK
    /\ TasksAreCurrent
    /\ StepFitsTask
    /\ StateIsCurrent
    /\ BatchesAreOpen
    /\ StagedIsSecured
    /\ UtteranceAccounted

-----------------------------------------------------------------------------
(* Arithmetic and sequences.                                                *)

\* Multiples of b are at least b apart.
LEMMA Multiples ==
    ASSUME NEW b \in Nat \ {0}, NEW j \in Nat, NEW k \in Nat, b * j < b * k + b
    PROVE  j <= k
<1> SUFFICES ASSUME k < j PROVE FALSE
  OBVIOUS
<1>1. PICK d \in Nat : j = k + 1 + d
  <2>1. j - k - 1 \in Nat /\ j = k + 1 + (j - k - 1)
    OBVIOUS
  <2>2. QED BY <2>1
<1>2. b * j = b * k + b + b * d
  BY <1>1
<1>3. b * d \in Nat
  OBVIOUS
<1>4. b * k \in Nat
  OBVIOUS
<1>5. QED BY <1>2, <1>3, <1>4

\* The first element of a queue and the rest make up the queue.
LEMMA TailElements ==
    ASSUME NEW S, NEW q \in Seq(S), q # <<>>
    PROVE  /\ Head(q) \in S
           /\ Tail(q) \in Seq(S)
           /\ Elements(q) = {Head(q)} \cup Elements(Tail(q))
<1>1. Len(q) \in Nat \ {0} /\ Head(q) = q[1] /\ Head(q) \in S /\ Tail(q) \in Seq(S)
  OBVIOUS
<1>2. Len(Tail(q)) = Len(q) - 1 /\ \A i \in 1 .. Len(q) - 1 : Tail(q)[i] = q[i + 1]
  BY <1>1
<1>3. \A i \in 1 .. Len(q) : i = 1 \/ (i - 1 \in 1 .. Len(q) - 1 /\ q[i] = Tail(q)[i - 1])
  BY <1>1, <1>2
<1>4. Elements(q) \subseteq {Head(q)} \cup Elements(Tail(q))
  BY <1>1, <1>2, <1>3 DEF Elements
<1>5. {Head(q)} \cup Elements(Tail(q)) \subseteq Elements(q)
  <2>1. Head(q) \in Elements(q)
    BY <1>1 DEF Elements
  <2>2. \A i \in 1 .. Len(Tail(q)) : Tail(q)[i] = q[i + 1] /\ i + 1 \in 1 .. Len(q)
    BY <1>1, <1>2
  <2>3. QED BY <2>1, <2>2 DEF Elements
<1>6. QED BY <1>1, <1>4, <1>5

\* A push adds one element.
LEMMA AppendElements ==
    ASSUME NEW S, NEW q \in Seq(S), NEW t \in S
    PROVE  /\ Append(q, t) \in Seq(S)
           /\ Elements(Append(q, t)) = Elements(q) \cup {t}
<1>1. /\ Append(q, t) \in Seq(S)
      /\ Len(q) \in Nat
      /\ Len(Append(q, t)) = Len(q) + 1
      /\ \A i \in 1 .. Len(q) : Append(q, t)[i] = q[i]
      /\ Append(q, t)[Len(q) + 1] = t
  OBVIOUS
<1>2. QED BY <1>1 DEF Elements

(* Records.                                                                 *)

\* The fields of a task have their types, and a task is not the null value.
LEMMA TaskFields ==
    ASSUME NEW t \in Tasks
    PROVE  /\ t.kind \in Kinds /\ t.seq \in Sequences0 /\ t.retry \in 0 .. MaxRetries
           /\ Name(t) \in Kinds \X Sequences0
           /\ t # NoTask
BY NullAssumption DEF Tasks, Name, Sequences0

\* A retried task is the same task but for its retry count.
LEMMA RetriedTask ==
    ASSUME NEW t \in Tasks, t.retry < MaxRetries
    PROVE  /\ [t EXCEPT !.retry = @ + 1] \in Tasks
           /\ [t EXCEPT !.retry = @ + 1].kind = t.kind
           /\ [t EXCEPT !.retry = @ + 1].seq = t.seq
           /\ Name([t EXCEPT !.retry = @ + 1]) = Name(t)
BY NoteAssumption DEF Tasks, Name

\* Staging and finalizing change one field of the note state each.
LEMMA StateFields ==
    ASSUME NEW s \in States, NEW n \in Sequences0
    PROVE  /\ [s EXCEPT !.exists = TRUE] \in States
           /\ [s EXCEPT !.exists = TRUE].watermark = s.watermark
           /\ [s EXCEPT !.exists = TRUE].terminal = s.terminal
           /\ [s EXCEPT !.exists = TRUE].final = s.final
           /\ [s EXCEPT !.watermark = n] \in States
           /\ [s EXCEPT !.watermark = n].watermark = n
           /\ [s EXCEPT !.watermark = n].terminal = s.terminal
           /\ [s EXCEPT !.watermark = n].final = s.final
           /\ s.watermark \in Sequences0 /\ s.final \in Sequences0
           /\ s.terminal \in BOOLEAN
BY DEF States

\* A push of a task that may be lost keeps the types.
LEMMA SubmitType ==
    ASSUME TypeOK, NEW t \in Tasks, Submit(t)
    PROVE  /\ queue' \in Seq(Tasks)
           /\ failures' \in 0 .. MaxFailures
           /\ lost' \subseteq Kinds \X Sequences0
<1> USE NoteAssumption
<1>1. CASE queue' = Append(queue, t) /\ UNCHANGED <<failures, lost>>
  BY <1>1, AppendElements DEF TypeOK
<1>2. CASE Fail /\ lost' = lost \cup {Name(t)} /\ UNCHANGED queue
  BY <1>2 DEF TypeOK, Fail, Name, Tasks, Sequences0
<1>3. QED BY <1>1, <1>2 DEF Submit

\* A queue after a push that may be lost.
LEMMA PushedElements ==
    ASSUME TypeOK, NEW t \in Tasks, queue' \in {queue, Append(queue, t)}
    PROVE  Elements(queue') \subseteq Elements(queue) \cup {t}
<1>1. Elements(Append(queue, t)) = Elements(queue) \cup {t}
  BY AppendElements DEF TypeOK
<1>2. QED BY <1>1

\* One lemma per part of the invariant.
LEMMA TypeStep == TypeOK /\ TasksAreCurrent /\ StepFitsTask /\ Next => TypeOK'
<1> SUFFICES ASSUME TypeOK, TasksAreCurrent, StepFitsTask, Next PROVE TypeOK'
  OBVIOUS
<1> USE NoteAssumption
<1>1. CASE CloseUtterance
  <2>1. [kind |-> "utterance", seq |-> spoken + 1, retry |-> 0] \in Tasks
    BY <1>1 DEF CloseUtterance, TypeOK, Tasks, Kinds, Sequences0
  <2>2. /\ queue' \in Seq(Tasks)
        /\ failures' \in 0 .. MaxFailures
        /\ lost' \subseteq Kinds \X Sequences0
    BY <1>1, <2>1, SubmitType DEF CloseUtterance
  <2>3. spoken' \in Sequences0
    BY <1>1 DEF CloseUtterance, TypeOK, Sequences0
  <2>4. QED BY <1>1, <2>2, <2>3 DEF CloseUtterance, TypeOK, redisVars, workerVars
<1>2. CASE EndMeeting
  <2>1. [kind |-> "terminal", seq |-> spoken, retry |-> 0] \in Tasks
    BY DEF TypeOK, Tasks, Kinds, Sequences0
  <2>2. QED BY <1>2, <2>1, SubmitType DEF EndMeeting, TypeOK, redisVars, workerVars
<1>3. CASE FailMeeting
  BY <1>3 DEF FailMeeting, TypeOK, redisVars, workerVars
<1>4. CASE ExpireLock
  BY <1>4 DEF ExpireLock, TypeOK, meetingVars, redisVars, workerVars
<1>5. ASSUME NEW w \in Workers, WorkerStep(w) \/ Crash(w) PROVE TypeOK'
  <2> USE <1>5 DEF TypeOK, meetingVars, redisVars, workerVars, Goto, Rest, Steps,
                   Staging, Draining, Releasing
  <2>1. task[w] \in Tasks \cup {NoTask} /\ (pc[w] # "idle" => task[w] \in Tasks)
    BY DEF StepFitsTask, FitsTask
  <2>2. NoState \in States /\ NoBatch \in Sequences0 \X Sequences0
    BY DEF NoState, States, NoBatch, Sequences0
  <2>3. CASE Dequeue(w)
    BY <2>3, TailElements DEF Dequeue
  <2>4. CASE LosePop(w)
    BY <2>4, TailElements, TaskFields DEF LosePop, Fail
  <2>5. CASE Retry(w)
    <3>1. CASE task[w].retry < MaxRetries
      <4>1. [task[w] EXCEPT !.retry = @ + 1] \in Tasks
        BY <2>1, <2>5, <3>1, RetriedTask DEF Retry
      <4>2. QED BY <2>2, <2>5, <3>1, <4>1, SubmitType DEF Retry
    <3>2. CASE ~(task[w].retry < MaxRetries)
      BY <2>1, <2>2, <2>5, <3>2, TaskFields DEF Retry
    <3>3. QED BY <3>1, <3>2
  <2>6. CASE Defer(w)
    BY <2>1, <2>2, <2>6, AppendElements DEF Defer
  <2>7. CASE DeferFails(w)
    <3>1. task[w] \in Tasks
      BY <2>1, <2>7 DEF DeferFails
    <3>2. Append(queue, task[w]) \in Seq(Tasks)
      BY <3>1, AppendElements
    <3>3. queue' \in Seq(Tasks)
      BY <2>7, <3>2 DEF DeferFails
    <3>4. failures' \in 0 .. MaxFailures
      BY <2>7 DEF DeferFails, Fail
    <3>5. pc' \in [Workers -> Steps]
      BY <2>7 DEF DeferFails
    <3>6. QED BY <2>7, <3>3, <3>4, <3>5 DEF DeferFails
  <2>8. CASE Raise(w)
    BY <2>8 DEF Raise, Fail
  <2>9. CASE Crash(w)
    BY <2>1, <2>2, <2>9, TaskFields DEF Crash, Fail
  <2>10. CASE Persist(w)
    <3>1. task[w].seq \in 1 .. spoken
      BY <2>1, <2>10, TaskFields
         DEF Persist, StepFitsTask, FitsTask, TasksAreCurrent, Current, CurrentAt
    <3>2. task[w].seq \in 1 .. MaxUtterances
      BY <3>1 DEF Sequences0
    <3>3. persisted' \subseteq 1 .. MaxUtterances
      BY <2>10, <3>2 DEF Persist
    <3>4. QED BY <2>10, <3>3 DEF Persist
  <2>11. CASE Check(w)
    BY <2>11 DEF Check
  <2>12. CASE Stage(w)
    <3>1. task[w].seq \in 1 .. spoken
      BY <2>1, <2>12, TaskFields
         DEF Stage, StepFitsTask, FitsTask, TasksAreCurrent, Current, CurrentAt
    <3>2. state' \in States
      BY <2>12, StateFields DEF Stage
    <3>3. task[w].seq \in 1 .. MaxUtterances
      BY <3>1 DEF Sequences0
    <3>4. pending' \subseteq 1 .. MaxUtterances
      BY <2>12, <3>3 DEF Stage
    <3>5. QED BY <2>12, <3>2, <3>4 DEF Stage
  <2>13. CASE ReadTerminal(w)
    BY <2>13 DEF ReadTerminal
  <2>14. CASE MarkTerminal(w)
    <3>1. task[w].seq \in Sequences0 /\ seen[w] \in States
      BY <2>1, <2>14, TaskFields DEF MarkTerminal
    <3>2. state' \in States
      BY <2>14, <3>1 DEF MarkTerminal, Later, States
    <3>3. QED BY <2>14, <3>2 DEF MarkTerminal
  <2>15. CASE Acquire(w)
    <3>1. CASE lock = NoWorker
      BY <2>15, <3>1 DEF Acquire
    <3>2. CASE lock # NoWorker /\ task[w].kind = "terminal"
      BY <2>15, <3>2 DEF Acquire
    <3>3. CASE lock # NoWorker /\ task[w].kind # "terminal"
      <4>1. Rest(w) /\ UNCHANGED lock
        BY <2>15, <3>3 DEF Acquire
      <4>2. task[w] \in Tasks
        BY <2>1, <2>15 DEF Acquire
      <4>3. lost' \subseteq Kinds \X Sequences0
        BY <2>15, <3>3, <4>2, TaskFields DEF Acquire
      <4>4. QED BY <2>2, <2>15, <4>1, <4>3 DEF Acquire
    <3>4. QED BY <3>1, <3>2, <3>3
  <2>16. CASE ReadState(w)
    BY <2>16 DEF ReadState
  <2>17. CASE Select(w)
    <3>1. ASSUME NEW from \in 1 .. MaxUtterances, NEW to \in 1 .. MaxUtterances
          PROVE  <<from, to>> \in Sequences0 \X Sequences0
      BY DEF Sequences0
    <3>2. batch' \in [Workers -> Sequences0 \X Sequences0]
      BY <2>17, <3>1 DEF Select
    <3>3. pc' \in [Workers -> Steps]
      BY <2>17 DEF Select
    <3>4. QED BY <2>17, <3>2, <3>3 DEF Select
  <2>18. CASE ReadPayload(w) \/ Generate(w)
    BY <2>18 DEF ReadPayload, Generate
  <2>19. CASE AppendChunk(w)
    BY <2>19 DEF AppendChunk
  <2>20. CASE RemovePending(w)
    <3>1. Last(w) \in Sequences0
      BY DEF Last
    <3>2. state' \in States /\ done' \in Sequences0
      BY <2>20, <3>1, StateFields DEF RemovePending, Later
    <3>3. QED BY <2>20, <3>2 DEF RemovePending
  <2>21. CASE Release(w)
    <3>1. lock' \in Workers \cup {NoWorker}
      BY <2>21 DEF Release
    <3>2. CASE pc[w] = "release"
      <4>1. Rest(w)
        BY <2>21, <3>2 DEF Release
      <4>2. /\ pc' \in [Workers -> Steps]
            /\ task' \in [Workers -> Tasks \cup {NoTask}]
            /\ seen' \in [Workers -> States]
            /\ batch' \in [Workers -> Sequences0 \X Sequences0]
        BY <2>2, <4>1
      <4>3. QED BY <2>21, <3>1, <4>2 DEF Release
    <3>3. CASE pc[w] # "release"
      BY <2>21, <3>1, <3>3 DEF Release
    <3>4. QED BY <3>2, <3>3
  <2>22. QED BY <2>3, <2>4, <2>5, <2>6, <2>7, <2>8, <2>9, <2>10, <2>11, <2>12, <2>13,
               <2>14, <2>15, <2>16, <2>17, <2>18, <2>19, <2>20, <2>21 DEF WorkerStep
<1>6. QED BY <1>1, <1>2, <1>3, <1>4, <1>5 DEF Next

\* The steps of the workers leave the meeting alone.
LEMMA MeetingFootprint ==
    Next => CloseUtterance \/ EndMeeting \/ FailMeeting \/ UNCHANGED meetingVars
BY DEF Next, WorkerStep, Dequeue, LosePop, Retry, Defer, DeferFails, Raise, Crash,
       Persist, Check, Stage, ReadTerminal, MarkTerminal, Acquire, ReadState, Select,
       ReadPayload, Generate, AppendChunk, RemovePending, Release, ExpireLock,
       CloseUtterance, EndMeeting, FailMeeting

\* Utterances are closed one by one, and none after the end.
LEMMA MeetingStep ==
    TypeOK /\ Next => /\ spoken <= spoken'
                      /\ (ended => ended' /\ spoken' = spoken)
BY MeetingFootprint
   DEF TypeOK, CloseUtterance, EndMeeting, FailMeeting, meetingVars, Sequences0

\* What a task says stays true.
LEMMA CurrentStable ==
    ASSUME TypeOK, TypeOK', Next, NEW t \in Tasks, Current(t)
    PROVE  NextCurrent(t)
<1>1. t.seq \in Nat /\ spoken \in Nat /\ spoken' \in Nat
  <2>1. Sequences0 \subseteq Nat
    BY NoteAssumption DEF Sequences0
  <2>2. t.seq \in Sequences0 /\ spoken \in Sequences0 /\ spoken' \in Sequences0
    BY TaskFields DEF TypeOK
  <2>3. QED BY <2>1, <2>2
<1>2. spoken <= spoken' /\ (ended => ended' /\ spoken' = spoken)
  BY MeetingStep DEF TypeOK
<1>3. QED BY <1>1, <1>2 DEF Current, NextCurrent, CurrentAt

\* The actions that move tasks.
LEMMA TaskFootprint ==
    Next => \/ CloseUtterance \/ EndMeeting
            \/ \E w \in Workers : \/ Dequeue(w) \/ LosePop(w) \/ Retry(w) \/ Defer(w)
                                  \/ DeferFails(w) \/ Crash(w) \/ Acquire(w)
                                  \/ Release(w)
            \/ UNCHANGED <<queue, task>>
BY DEF Next, WorkerStep, Raise, Persist, Check, Stage, ReadTerminal, MarkTerminal,
       ReadState, Select, ReadPayload, Generate, AppendChunk, RemovePending,
       ExpireLock, FailMeeting, workerVars

\* Tasks stay current: the end of the meeting and a new utterance are pushed
\* as they happen.
LEMMA TasksStep ==
    TypeOK /\ TypeOK' /\ TasksAreCurrent /\ StepFitsTask /\ Next => TasksAreCurrent'
<1> SUFFICES ASSUME TypeOK, TypeOK', TasksAreCurrent, StepFitsTask, Next
             PROVE  TasksAreCurrent'
  OBVIOUS
<1>1. Elements(queue) \subseteq Tasks /\ Elements(queue') \subseteq Tasks
  BY DEF TypeOK, Elements
<1>2. /\ \A t \in Elements(queue) : NextCurrent(t)
      /\ \A w \in Workers : task[w] # NoTask => NextCurrent(task[w])
  BY <1>1, CurrentStable DEF TasksAreCurrent, TypeOK
<1>3. ASSUME \A t \in Elements(queue') :
                t \in Elements(queue) \/ NextCurrent(t),
             \A w \in Workers : task'[w] \in {NoTask, task[w]} \/ NextCurrent(task'[w])
      PROVE  TasksAreCurrent'
  BY <1>2, <1>3 DEF TasksAreCurrent, Elements, Current, NextCurrent
<1>4. CASE CloseUtterance
  <2> DEFINE new == [kind |-> "utterance", seq |-> spoken + 1, retry |-> 0]
  <2>1. new \in Tasks /\ NextCurrent(new)
    BY <1>4, NoteAssumption
       DEF CloseUtterance, TypeOK, Tasks, Kinds, Sequences0, NextCurrent, CurrentAt
  <2>2. \A t \in Elements(queue') : t \in Elements(queue) \/ t = new
    BY <1>4, <2>1, PushedElements DEF CloseUtterance, Submit
  <2>3. QED BY <1>3, <1>4, <2>1, <2>2 DEF CloseUtterance, workerVars
<1>5. CASE EndMeeting
  <2> DEFINE new == [kind |-> "terminal", seq |-> spoken, retry |-> 0]
  <2>1. new \in Tasks /\ NextCurrent(new)
    BY <1>5, NoteAssumption
       DEF EndMeeting, TypeOK, Tasks, Kinds, Sequences0, NextCurrent, CurrentAt
  <2>2. \A t \in Elements(queue') : t \in Elements(queue) \/ t = new
    BY <1>5, <2>1, PushedElements DEF EndMeeting, Submit
  <2>3. QED BY <1>3, <1>5, <2>1, <2>2 DEF EndMeeting, workerVars
<1>6. ASSUME NEW w \in Workers, Dequeue(w) \/ LosePop(w) PROVE TasksAreCurrent'
  <2>1. Elements(queue') \subseteq Elements(queue) /\ Head(queue) \in Elements(queue)
    BY <1>6, TailElements DEF Dequeue, LosePop, TypeOK
  <2>2. \A v \in Workers : task'[v] \in {NoTask, task[v], Head(queue)}
    BY <1>6 DEF Dequeue, LosePop, TypeOK, workerVars
  <2>3. QED BY <1>2, <1>3, <2>1, <2>2
<1>7. ASSUME NEW w \in Workers, Retry(w) \/ Defer(w) \/ DeferFails(w)
      PROVE  TasksAreCurrent'
  <2>1. task[w] \in Tasks /\ NextCurrent(task[w])
    BY <1>2, <1>7, TaskFields DEF StepFitsTask, FitsTask, TypeOK, Retry, Defer, DeferFails
  <2>2. CASE Retry(w) /\ task[w].retry < MaxRetries
    <3> DEFINE new == [task[w] EXCEPT !.retry = @ + 1]
    <3>1. new \in Tasks /\ new.kind = task[w].kind /\ new.seq = task[w].seq
      BY <2>1, <2>2, RetriedTask
    <3>2. NextCurrent(new)
      BY <2>1, <3>1 DEF NextCurrent, CurrentAt
    <3>3. Submit(new)
      BY <2>2 DEF Retry
    <3> HIDE DEF new
    <3>4. \A t \in Elements(queue') : t \in Elements(queue) \/ t = new
      BY <3>1, <3>3, PushedElements DEF Submit
    <3>5. \A v \in Workers : task'[v] \in {NoTask, task[v]}
      BY <2>2 DEF Retry, Rest, TypeOK
    <3>6. QED BY <1>3, <3>2, <3>4, <3>5
  <2>3. CASE ~(Retry(w) /\ task[w].retry < MaxRetries)
    <3>1. \A v \in Workers : task'[v] \in {NoTask, task[v]}
      BY <1>7 DEF Retry, Defer, DeferFails, Rest, TypeOK
    <3>2. queue' \in {queue, Append(queue, task[w])}
      BY <1>7, <2>3 DEF Retry, Defer, DeferFails
    <3>3. \A t \in Elements(queue') : t \in Elements(queue) \/ t = task[w]
      BY <2>1, <3>2, PushedElements
    <3>4. QED BY <1>3, <2>1, <3>1, <3>3
  <2>4. QED BY <2>2, <2>3
<1>8. ASSUME NEW w \in Workers, Crash(w) \/ Acquire(w) \/ Release(w)
      PROVE  TasksAreCurrent'
  <2>1. queue' = queue /\ \A v \in Workers : task'[v] \in {NoTask, task[v]}
    BY <1>8 DEF Crash, Acquire, Release, Rest, TypeOK
  <2>2. QED BY <1>3, <2>1
<1>9. CASE UNCHANGED <<queue, task>>
  BY <1>3, <1>9
<1>10. QED BY <1>4, <1>5, <1>6, <1>7, <1>8, <1>9, TaskFootprint

\* A worker is at a step of the kind of its task.
LEMMA FitStep == TypeOK /\ StepFitsTask /\ Next => StepFitsTask'
<1> SUFFICES ASSUME TypeOK, StepFitsTask, Next, NEW v \in Workers
             PROVE  FitsTask(v)'
  BY DEF StepFitsTask
<1>1. CASE UNCHANGED <<pc, task>>
  BY <1>1 DEF StepFitsTask, FitsTask
<1>2. ASSUME NEW w \in Workers, w # v,
             \E step \in Steps : pc' = [pc EXCEPT ![w] = step],
             \E t : task' = [task EXCEPT ![w] = t] \/ task' = task
      PROVE  FitsTask(v)'
  BY <1>2 DEF StepFitsTask, FitsTask, TypeOK
<1>3. CASE CloseUtterance \/ EndMeeting \/ FailMeeting \/ ExpireLock
  BY <1>1, <1>3 DEF CloseUtterance, EndMeeting, FailMeeting, ExpireLock, workerVars
<1>4. ASSUME NEW w \in Workers, WorkerStep(w) \/ Crash(w) PROVE FitsTask(v)'
  <2> USE NullAssumption
  <2>1. FitsTask(w) /\ task[w] \in Tasks \cup {NoTask} /\ pc[w] \in Steps
    BY DEF StepFitsTask, TypeOK
  <2>2. CASE LosePop(w)
    BY <1>1, <2>2 DEF LosePop, workerVars
  <2>3. CASE Dequeue(w)
    <3>1. Head(queue) \in Tasks
      BY <2>3, TailElements DEF Dequeue, TypeOK
    <3>2. CASE v = w
      BY <2>3, <3>1, <3>2, TaskFields DEF Dequeue, Goto, FitsTask, TypeOK, Kinds
    <3>3. CASE v # w
      BY <2>1, <2>3, <3>3 DEF Dequeue, Goto, StepFitsTask, FitsTask, TypeOK
    <3>4. QED BY <3>2, <3>3
  <2>4. CASE Rest(w)
    BY <2>4 DEF Rest, StepFitsTask, FitsTask, TypeOK
  <2>5. ASSUME NEW step \in Steps \ {"idle"}, Goto(w, step), task' = task,
               pc[w] # "idle",
               step \in {"persist", "check", "stage"} => task[w].kind = "utterance",
               step \in {"read_terminal", "mark", "defer"} =>
                    task[w].kind = "terminal"
        PROVE  FitsTask(v)'
    BY <2>5 DEF Goto, StepFitsTask, FitsTask, TypeOK
  <2>6. CASE Retry(w) \/ Defer(w) \/ Crash(w)
    BY <2>4, <2>6 DEF Retry, Defer, Crash
  <2>7. CASE DeferFails(w)
    BY <2>5, <2>7 DEF DeferFails, Steps
  <2>8. CASE Raise(w)
    <3>1. pc[w] # "idle"
      BY <2>8 DEF Raise, Staging, Draining, Releasing
    <3>2. PICK step \in {"abort", "retry"} : Goto(w, step)
      BY <2>8 DEF Raise
    <3>3. QED BY <2>5, <2>8, <3>1, <3>2 DEF Raise, Steps, Draining, Releasing
  <2>9. CASE Persist(w) \/ Check(w) \/ Stage(w)
    <3>1. task[w].kind = "utterance" /\ pc[w] # "idle" /\ task' = task
      BY <2>1, <2>9 DEF Persist, Check, Stage, FitsTask
    <3>2. PICK step \in {"check", "lock", "stage"} : Goto(w, step)
      BY <2>9 DEF Persist, Check, Stage
    <3>3. QED BY <2>5, <3>1, <3>2 DEF Steps, Staging
  <2>10. CASE ReadTerminal(w) \/ MarkTerminal(w)
    <3>1. task[w].kind = "terminal" /\ pc[w] # "idle" /\ task' = task
      BY <2>1, <2>10 DEF ReadTerminal, MarkTerminal, FitsTask
    <3>2. PICK step \in {"mark", "lock"} : Goto(w, step)
      BY <2>10 DEF ReadTerminal, MarkTerminal
    <3>3. QED BY <2>5, <3>1, <3>2 DEF Steps, Staging
  <2>11. CASE Acquire(w)
    BY <2>4, <2>5, <2>11 DEF Acquire, Steps, Draining
  <2>12. CASE \/ ReadState(w) \/ Select(w) \/ ReadPayload(w) \/ Generate(w)
              \/ AppendChunk(w) \/ RemovePending(w)
    <3>1. pc[w] # "idle" /\ task' = task
      BY <2>12 DEF ReadState, Select, ReadPayload, Generate, AppendChunk, RemovePending
    <3>2. PICK step \in Draining : Goto(w, step)
      BY <2>12 DEF ReadState, Select, ReadPayload, Generate, AppendChunk,
                   RemovePending, Draining, Releasing
    <3>3. QED BY <2>5, <3>1, <3>2 DEF Steps, Draining, Releasing
  <2>13. CASE Release(w)
    BY <2>4, <2>5, <2>13 DEF Release, Steps, Releasing
  <2>14. QED BY <1>4, <2>2, <2>3, <2>6, <2>7, <2>8, <2>9, <2>10, <2>11, <2>12, <2>13
             DEF WorkerStep
<1>5. QED BY <1>3, <1>4 DEF Next

\* A multiple is at least its factor.
LEMMA Factor ==
    ASSUME NEW b \in Nat \ {0}, NEW k \in Nat
    PROVE  k <= b * k
<1>1. PICK d \in Nat : b = 1 + d
  <2>1. b - 1 \in Nat /\ b = 1 + (b - 1)
    OBVIOUS
  <2>2. QED BY <2>1
<1>2. b * k = k + d * k /\ d * k \in Nat
  BY <1>1
<1>3. QED BY <1>2

\* Marks and consumed prefixes are kept when the meeting goes on.
LEMMA HashStable ==
    ASSUME NEW n \in Nat, NEW m \in Nat, NEW over \in BOOLEAN, NEW past \in BOOLEAN,
           n <= m, over => past /\ m = n,
           NEW d \in Nat, NEW e \in Nat, d <= e,
           NEW s \in States, HashAt(s, n, over, d)
    PROVE  HashAt(s, m, past, e)
<1>1. s.watermark \in Nat
  BY NoteAssumption DEF States, Sequences0
<1>2. MarkAt(s.watermark, m, past)
  BY <1>1 DEF HashAt, MarkAt
<1>3. QED BY <1>1, <1>2 DEF HashAt

\* The state of a meeting without a hash is current.
LEMMA NoStateIsCurrent == TypeOK => HashIsCurrent(NoState) /\ NoState \in States
<1> SUFFICES ASSUME TypeOK PROVE HashIsCurrent(NoState) /\ NoState \in States
  OBVIOUS
<1>1. spoken \in Nat /\ done \in Nat /\ BatchSize * 0 = 0 /\ 0 \in 0 .. MaxUtterances
  BY NoteAssumption DEF TypeOK, Sequences0
<1>2. NoState \in States
  BY <1>1 DEF NoState, States, Sequences0
<1>3. MarkAt(0, spoken, ended)
  BY <1>1 DEF MarkAt
<1>4. QED BY <1>1, <1>2, <1>3 DEF HashIsCurrent, HashAt, NoState

\* The actions that move the hot state or what a worker knows of it.
LEMMA StateFootprint ==
    Next => \/ CloseUtterance \/ EndMeeting \/ FailMeeting
            \/ \E w \in Workers : \/ Retry(w) \/ Defer(w) \/ Crash(w) \/ Acquire(w)
                                  \/ Release(w) \/ Stage(w) \/ ReadTerminal(w)
                                  \/ MarkTerminal(w) \/ ReadState(w)
                                  \/ RemovePending(w)
            \/ UNCHANGED <<spoken, ended, state, pending, seen, done>>
BY DEF Next, WorkerStep, Dequeue, LosePop, DeferFails, Raise, Persist, Check, Select,
       ReadPayload, Generate, AppendChunk, ExpireLock, meetingVars, redisVars,
       workerVars

\* The end of an open batch is a mark.
LEMMA OpenBatchEnd ==
    ASSUME NEW n \in Nat, NEW over \in BOOLEAN, NEW d \in Nat,
           NEW c \in Nat \X Nat, OpenAt(c, n, over, d)
    PROVE  MarkAt(c[2], n, over)
<1>1. c[1] \in Nat /\ c[2] \in Nat /\ c[2] <= n /\ BatchSize \in Nat \ {0}
  BY NoteAssumption DEF OpenAt
<1>2. PICK k \in 0 .. n : c[1] = BatchSize * k + 1
  BY DEF OpenAt
<1>3. CASE c[2] = c[1] + BatchSize - 1
  <2>1. c[2] = BatchSize * (k + 1)
    BY <1>1, <1>2, <1>3
  <2>2. k + 1 \in Nat /\ k + 1 <= c[2]
    BY <1>1, <2>1, Factor
  <2>3. k + 1 \in 0 .. n
    BY <1>1, <2>2
  <2>4. QED BY <1>1, <2>1, <2>3 DEF MarkAt
<1>4. CASE over /\ c[2] = n
  BY <1>4 DEF MarkAt
<1>5. QED BY <1>3, <1>4 DEF OpenAt

\* The hash stays at marks although stale workers write it, and the consumed
\* prefix never shrinks.
LEMMA StateStep ==
    /\ TypeOK /\ TypeOK' /\ TasksAreCurrent /\ StepFitsTask /\ StateIsCurrent
    /\ BatchesAreOpen /\ Next
    => StateIsCurrent' /\ done <= done'
<1> SUFFICES ASSUME TypeOK, TypeOK', TasksAreCurrent, StepFitsTask, StateIsCurrent,
                    BatchesAreOpen, Next
             PROVE  StateIsCurrent' /\ done <= done'
  OBVIOUS
<1> USE NoteAssumption
<1>1. /\ spoken \in Nat /\ spoken' \in Nat /\ done \in Nat /\ done' \in Nat
      /\ ended \in BOOLEAN /\ ended' \in BOOLEAN
      /\ state \in States /\ \A w \in Workers : seen[w] \in States
  BY DEF TypeOK, Sequences0
<1>2. spoken <= spoken' /\ (ended => ended' /\ spoken' = spoken)
  BY MeetingStep
<1>3. ASSUME MarkAt(done', spoken', ended'), done <= done',
             HashAt(state', spoken', ended', done'),
             \A w \in Workers : \/ HashIsCurrent(seen'[w])
                                \/ HashAt(seen'[w], spoken', ended', done'),
             pending' \subseteq 1 .. spoken'
      PROVE  StateIsCurrent' /\ done <= done'
  <2>1. \A w \in Workers : seen'[w] \in States
    BY DEF TypeOK
  <2>2. \A w \in Workers : HashAt(seen'[w], spoken', ended', done')
    BY <1>1, <1>2, <1>3, <2>1, HashStable DEF HashIsCurrent
  <2>3. QED BY <1>3, <2>2 DEF StateIsCurrent, HashIsCurrent
<1>4. ASSUME done' = done
      PROVE  /\ MarkAt(done', spoken', ended')
             /\ HashAt(state, spoken', ended', done')
             /\ \A w \in Workers : HashAt(seen[w], spoken', ended', done')
             /\ pending \subseteq 1 .. spoken'
  <2>1. \A s \in States : HashIsCurrent(s) => HashAt(s, spoken', ended', done')
    BY <1>1, <1>2, <1>4, HashStable DEF HashIsCurrent
  <2>2. MarkAt(done', spoken', ended')
    BY <1>1, <1>2, <1>4 DEF StateIsCurrent, MarkAt
  <2>3. pending \subseteq 1 .. spoken'
    BY <1>1, <1>2 DEF StateIsCurrent
  <2>4. QED BY <1>1, <2>1, <2>2, <2>3 DEF StateIsCurrent
<1>5. CASE UNCHANGED <<state, pending, seen, done>>
  BY <1>1, <1>3, <1>4, <1>5
<1>6. CASE CloseUtterance \/ EndMeeting \/ FailMeeting
  BY <1>5, <1>6 DEF CloseUtterance, EndMeeting, FailMeeting, redisVars, workerVars
<1>7. ASSUME NEW w \in Workers,
             Retry(w) \/ Defer(w) \/ Crash(w) \/ Acquire(w) \/ Release(w)
      PROVE  StateIsCurrent' /\ done <= done'
  <2>1. /\ UNCHANGED <<state, pending, done>>
        /\ seen' \in {seen, [seen EXCEPT ![w] = NoState]}
    BY <1>7 DEF Retry, Defer, Crash, Acquire, Release, Rest, redisVars
  <2>2. \A v \in Workers : seen'[v] \in {seen[v], NoState}
    BY <2>1 DEF TypeOK
  <2>3. \A v \in Workers : HashIsCurrent(seen'[v])
    BY <2>2, NoStateIsCurrent DEF StateIsCurrent
  <2>4. QED BY <1>1, <1>3, <1>4, <2>1, <2>3
<1>8. ASSUME NEW w \in Workers, ReadTerminal(w) \/ ReadState(w)
      PROVE  StateIsCurrent' /\ done <= done'
  <2>1. UNCHANGED <<state, pending, done>> /\ seen' = [seen EXCEPT ![w] = state]
    BY <1>8 DEF ReadTerminal, ReadState, redisVars
  <2>2. \A v \in Workers : seen'[v] \in {seen[v], state}
    BY <2>1 DEF TypeOK
  <2>3. \A v \in Workers : HashIsCurrent(seen'[v])
    BY <2>2 DEF StateIsCurrent
  <2>4. QED BY <1>1, <1>3, <1>4, <2>1, <2>3
<1>9. ASSUME NEW w \in Workers, Stage(w) PROVE StateIsCurrent' /\ done <= done'
  <2>1. UNCHANGED <<spoken, ended, seen, done>>
    BY <1>9 DEF Stage, meetingVars
  <2>2. task[w].kind = "utterance" /\ task[w] # NoTask
    BY <1>9 DEF Stage, StepFitsTask, FitsTask
  <2>3. task[w].seq \in 1 .. spoken
    BY <2>2 DEF TasksAreCurrent, Current, CurrentAt
  <2>4. pending' \subseteq 1 .. spoken'
    BY <1>9, <2>1, <2>3 DEF Stage, StateIsCurrent
  <2>5. /\ state'.watermark = state.watermark
        /\ state'.terminal = state.terminal
        /\ state'.final = state.final
    BY <1>1, <1>9, StateFields DEF Stage, States
  <2>6. HashAt(state', spoken', ended', done')
    BY <2>1, <2>5 DEF HashAt, HashIsCurrent, StateIsCurrent
  <2>7. QED BY <1>1, <1>3, <1>4, <2>1, <2>4, <2>6
<1>10. ASSUME NEW w \in Workers, MarkTerminal(w) PROVE StateIsCurrent' /\ done <= done'
  <2>1. UNCHANGED <<spoken, ended, pending, seen, done>>
    BY <1>10 DEF MarkTerminal, meetingVars
  <2>2. task[w].kind = "terminal" /\ task[w] # NoTask
    BY <1>10 DEF MarkTerminal, StepFitsTask, FitsTask
  <2>3. ended /\ task[w].seq = spoken
    BY <2>2 DEF TasksAreCurrent, Current, CurrentAt
  <2>4. /\ seen[w].final \in {0, spoken}
        /\ MarkAt(seen[w].watermark, spoken, ended)
        /\ seen[w].watermark <= done
    BY <1>1 DEF StateIsCurrent, HashIsCurrent, HashAt, States
  <2>5. Later(task[w].seq, seen[w].final) = spoken
    BY <1>1, <2>3, <2>4 DEF Later
  <2>6. HashAt(state', spoken', ended', done')
    BY <1>10, <2>1, <2>3, <2>4, <2>5 DEF MarkTerminal, HashAt
  <2>7. QED BY <1>1, <1>3, <1>4, <2>1, <2>6
<1>11. ASSUME NEW w \in Workers, RemovePending(w) PROVE StateIsCurrent' /\ done <= done'
  <2>1. UNCHANGED <<spoken, ended, seen>> /\ pending' \subseteq pending
    BY <1>11 DEF RemovePending, meetingVars
  <2>2. OpenAt(batch[w], spoken, ended, done) /\ batch[w] \in Nat \X Nat
    BY <1>11 DEF RemovePending, BatchesAreOpen, Holding, IsOpenBatch, TypeOK, Sequences0
  <2>3. MarkAt(Last(w), spoken, ended) /\ Last(w) \in Nat /\ Last(w) \in Sequences0
    BY <1>1, <2>2, OpenBatchEnd DEF Last, TypeOK
  <2>4. done' \in {done, Last(w)} /\ done <= done' /\ Last(w) <= done'
    BY <1>1, <1>11, <2>3 DEF RemovePending, Later
  <2>5. MarkAt(done', spoken', ended')
    BY <2>1, <2>3, <2>4 DEF StateIsCurrent
  <2>6. /\ state'.watermark = Last(w)
        /\ state'.terminal = state.terminal
        /\ state'.final = state.final
    BY <1>1, <1>11, <2>3, StateFields DEF RemovePending
  <2>7. HashAt(state', spoken', ended', done')
    BY <2>1, <2>3, <2>4, <2>6 DEF HashAt, HashIsCurrent, StateIsCurrent
  <2>8. QED BY <1>3, <2>1, <2>4, <2>5, <2>7 DEF StateIsCurrent
<1>12. QED BY <1>5, <1>6, <1>7, <1>8, <1>9, <1>10, <1>11, StateFootprint

\* Open batches stay open when the meeting goes on and more is consumed.
LEMMA OpenStable ==
    ASSUME NEW n \in Nat, NEW m \in Nat, NEW over \in BOOLEAN, NEW past \in BOOLEAN,
           n <= m, over => past /\ m = n,
           NEW d \in Nat, NEW e \in Nat, d <= e,
           NEW c \in Nat \X Nat, OpenAt(c, n, over, d)
    PROVE  OpenAt(c, m, past, e)
<1>1. c[1] \in Nat /\ c[2] \in Nat
  OBVIOUS
<1>2. QED BY <1>1 DEF OpenAt

\* What Select chooses is an open batch: the sequences it needs are pending,
\* hence spoken, and a shorter run reaches the end of the meeting.
LEMMA SelectedIsOpen ==
    ASSUME TypeOK, StateIsCurrent, NEW w \in Workers,
           NEW from \in 1 .. MaxUtterances, NEW to \in 1 .. MaxUtterances,
           Selects(seen[w], from, to)
    PROVE  OpenAt(<<from, to>>, spoken, ended, done)
<1> DEFINE s == seen[w]
<1>1. /\ spoken \in Nat /\ done \in Nat /\ BatchSize \in Nat \ {0}
      /\ from \in Nat /\ to \in Nat
      /\ s \in States /\ s.watermark \in Nat /\ s.final \in Nat
  BY NoteAssumption DEF TypeOK, States, Sequences0
<1>2. /\ MarkAt(s.watermark, spoken, ended)
      /\ s.watermark <= done
      /\ s.terminal => ended /\ s.final = spoken
  BY DEF StateIsCurrent, HashIsCurrent, HashAt
<1> HIDE DEF s
<1>3. Selects(s, from, to) /\ from = s.watermark + 1
  BY DEF Selects, s
<1>4. from <= to /\ from .. to \subseteq pending
  BY <1>1, <1>3 DEF Selects, ContiguousRun
<1>5. from \in 1 .. spoken /\ to \in 1 .. spoken
  BY <1>1, <1>4 DEF StateIsCurrent
<1>6. \E k \in 0 .. spoken : from = BatchSize * k + 1
  <2>1. s.watermark # spoken
    BY <1>1, <1>3, <1>5
  <2>2. PICK k \in 0 .. spoken : s.watermark = BatchSize * k
    BY <1>2, <2>1 DEF MarkAt
  <2>3. QED BY <1>3, <2>2
<1>7. \/ to = from + BatchSize - 1
      \/ ended /\ to = spoken /\ from <= to /\ to < from + BatchSize
  BY <1>1, <1>2, <1>3, <1>4, <1>5 DEF Selects
<1>8. from <= done + 1
  BY <1>1, <1>2, <1>3
<1>9. QED BY <1>5, <1>6, <1>7, <1>8 DEF OpenAt

\* A worker that holds a batch held it before, or has just selected it.
LEMMA HoldingFootprint ==
    TypeOK /\ Next =>
        \A v \in Workers : pc'[v] \in Holding =>
            \/ pc[v] \in Holding /\ batch'[v] = batch[v]
            \/ Select(v)
<1> SUFFICES ASSUME TypeOK, Next, NEW v \in Workers, pc'[v] \in Holding, ~Select(v)
             PROVE  pc[v] \in Holding /\ batch'[v] = batch[v]
  OBVIOUS
<1>1. CASE UNCHANGED <<pc, batch>>
  BY <1>1
<1>2. CASE CloseUtterance \/ EndMeeting \/ FailMeeting \/ ExpireLock
  BY <1>1, <1>2 DEF CloseUtterance, EndMeeting, FailMeeting, ExpireLock, workerVars
<1>3. ASSUME NEW w \in Workers, WorkerStep(w) \/ Crash(w)
      PROVE  pc[v] \in Holding /\ batch'[v] = batch[v]
  <2>1. CASE LosePop(w)
    BY <1>1, <2>1 DEF LosePop, workerVars
  <2>2. CASE Rest(w)
    BY <2>2 DEF Rest, Holding, TypeOK
  <2>3. ASSUME batch' = batch, NEW step \in Steps \ Holding, Goto(w, step)
        PROVE  pc[v] \in Holding /\ batch'[v] = batch[v]
    BY <2>3 DEF Goto, TypeOK
  <2>4. CASE Dequeue(w)
    BY <2>3, <2>4 DEF Dequeue, Holding, Steps, Staging
  <2>5. CASE Retry(w) \/ Defer(w) \/ Crash(w)
    BY <2>2, <2>5 DEF Retry, Defer, Crash
  <2>6. CASE DeferFails(w)
    BY <2>3, <2>6 DEF DeferFails, Holding, Steps
  <2>7. CASE Raise(w)
    BY <2>3, <2>7 DEF Raise, Holding, Steps, Draining, Releasing
  <2>8. CASE Persist(w) \/ Check(w) \/ Stage(w) \/ ReadTerminal(w) \/ MarkTerminal(w)
    <3>1. PICK step \in {"check", "lock", "stage", "mark"} : Goto(w, step)
      BY <2>8 DEF Persist, Check, Stage, ReadTerminal, MarkTerminal
    <3>2. batch' = batch
      BY <2>8 DEF Persist, Check, Stage, ReadTerminal, MarkTerminal
    <3>3. QED BY <2>3, <3>1, <3>2 DEF Holding, Steps, Staging
  <2>9. CASE Acquire(w)
    BY <2>2, <2>3, <2>9 DEF Acquire, Holding, Steps, Draining
  <2>10. CASE ReadState(w)
    <3>1. PICK step \in {"select", "release"} : Goto(w, step)
      BY <2>10 DEF ReadState
    <3>2. QED BY <2>3, <2>10, <3>1
              DEF ReadState, Holding, Steps, Draining, Releasing
  <2>11. CASE Select(w)
    BY <2>11 DEF Select, Goto, TypeOK
  <2>12. CASE ReadPayload(w) \/ Generate(w) \/ AppendChunk(w)
    BY <2>12 DEF ReadPayload, Generate, AppendChunk, Goto, Holding, TypeOK
  <2>13. CASE RemovePending(w)
    BY <2>3, <2>13 DEF RemovePending, Holding, Steps, Draining
  <2>14. CASE Release(w)
    BY <2>2, <2>3, <2>14 DEF Release, Holding, Steps
  <2>15. QED BY <1>3, <2>1, <2>4, <2>5, <2>6, <2>7, <2>8, <2>9, <2>10, <2>11, <2>12,
                <2>13, <2>14 DEF WorkerStep
<1>4. QED BY <1>2, <1>3 DEF Next

\* Chunks are appended, one held batch at a time.
LEMMA ChunkFootprint ==
    Next => chunks' = chunks \/ \E w \in Workers : AppendChunk(w)
<1>1. CloseUtterance \/ EndMeeting \/ FailMeeting \/ ExpireLock => chunks' = chunks
  BY DEF CloseUtterance, EndMeeting, FailMeeting, ExpireLock
<1>2. ASSUME NEW w \in Workers,
             \/ Dequeue(w) \/ LosePop(w) \/ Retry(w) \/ Defer(w) \/ DeferFails(w)
             \/ Raise(w) \/ Crash(w) \/ Persist(w) \/ Check(w) \/ Stage(w)
             \/ ReadTerminal(w) \/ MarkTerminal(w) \/ Acquire(w) \/ ReadState(w)
             \/ Select(w) \/ ReadPayload(w) \/ Generate(w) \/ RemovePending(w)
             \/ Release(w)
      PROVE  chunks' = chunks
  BY <1>2 DEF Dequeue, LosePop, Retry, Defer, DeferFails, Raise, Crash, Persist, Check,
              Stage, ReadTerminal, MarkTerminal, Acquire, ReadState, Select,
              ReadPayload, Generate, RemovePending, Release
<1>3. QED BY <1>1, <1>2 DEF Next, WorkerStep

\* Held batches and chunks stay open, whoever has the lock.
LEMMA BatchesStep ==
    /\ TypeOK /\ TypeOK' /\ StateIsCurrent /\ BatchesAreOpen /\ Next /\ done <= done'
    => BatchesAreOpen'
<1> SUFFICES ASSUME TypeOK, TypeOK', StateIsCurrent, BatchesAreOpen, Next,
                    done <= done'
             PROVE  BatchesAreOpen'
  OBVIOUS
<1>1. /\ spoken \in Nat /\ spoken' \in Nat /\ done \in Nat /\ done' \in Nat
      /\ ended \in BOOLEAN /\ ended' \in BOOLEAN
      /\ chunks \subseteq Nat \X Nat /\ \A w \in Workers : batch[w] \in Nat \X Nat
  BY NoteAssumption DEF TypeOK, Sequences0
<1>2. spoken <= spoken' /\ (ended => ended' /\ spoken' = spoken)
  BY MeetingStep
<1>3. \A c \in Nat \X Nat :
          OpenAt(c, spoken, ended, done) => OpenAt(c, spoken', ended', done')
  BY <1>1, <1>2, OpenStable
<1>4. ASSUME NEW w \in Workers, pc'[w] \in Holding
      PROVE  OpenAt(batch'[w], spoken', ended', done')
  <2>1. CASE pc[w] \in Holding /\ batch'[w] = batch[w]
    BY <1>1, <1>3, <2>1 DEF BatchesAreOpen, IsOpenBatch
  <2>2. CASE Select(w)
    <3>1. PICK from \in 1 .. MaxUtterances, to \in 1 .. MaxUtterances :
              /\ Selects(seen[w], from, to)
              /\ batch' = [batch EXCEPT ![w] = <<from, to>>]
      BY <1>4, <2>2 DEF Select, Goto, Holding, TypeOK
    <3>2. OpenAt(<<from, to>>, spoken, ended, done)
      BY <3>1, SelectedIsOpen
    <3>3. <<from, to>> \in Nat \X Nat /\ batch'[w] = <<from, to>>
      BY <3>1 DEF TypeOK
    <3>4. QED BY <1>3, <3>2, <3>3
  <2>3. QED BY <1>4, <2>1, <2>2, HoldingFootprint
<1>5. ASSUME NEW c \in chunks' PROVE OpenAt(c, spoken', ended', done')
  <2>1. CASE c \in chunks
    BY <1>1, <1>3, <2>1 DEF BatchesAreOpen, IsOpenBatch
  <2>2. CASE \E w \in Workers : AppendChunk(w) /\ c = batch[w]
    BY <1>1, <1>3, <2>2 DEF AppendChunk, BatchesAreOpen, IsOpenBatch, Holding
  <2>3. QED BY <2>1, <2>2, ChunkFootprint DEF AppendChunk
<1>6. QED BY <1>4, <1>5 DEF BatchesAreOpen, IsOpenBatch

\* What is consumed or pending stays so: a batch leaves the pending utterances
\* when it is consumed.
LEMMA SecuredStable ==
    ASSUME TypeOK, TypeOK', Next, done <= done', NEW n \in Nat, Secured(n)
    PROVE  n <= done' \/ n \in pending'
<1>1. done \in Nat /\ done' \in Nat
  BY NoteAssumption DEF TypeOK, Sequences0
<1>2. CASE n <= done
  BY <1>1, <1>2
<1>3. CASE n \in pending
  <2>1. CASE pending \subseteq pending'
    BY <1>3, <2>1
  <2>2. ASSUME NEW w \in Workers, RemovePending(w) PROVE n <= done' \/ n \in pending'
    <3>1. First(w) \in Nat /\ Last(w) \in Nat /\ Last(w) <= done'
      BY <1>1, <2>2, NoteAssumption
         DEF RemovePending, Later, First, Last, TypeOK, Sequences0
    <3>2. n \in pending' \/ n <= Last(w)
      BY <1>3, <2>2, <3>1 DEF RemovePending
    <3>3. QED BY <1>1, <3>1, <3>2
  <2>3. pending \subseteq pending' \/ \E w \in Workers : RemovePending(w)
    BY DEF Next, WorkerStep, Dequeue, LosePop, Retry, Defer, DeferFails, Raise, Crash,
           Persist, Check, Stage, ReadTerminal, MarkTerminal, Acquire, ReadState,
           Select, ReadPayload, Generate, AppendChunk, Release, ExpireLock,
           CloseUtterance, EndMeeting, FailMeeting, redisVars
  <2>4. QED BY <2>1, <2>2, <2>3
<1>4. QED BY <1>2, <1>3 DEF Secured

\* A worker past its staging was so before, or has just staged its utterance or
\* found it summarized.
Past == {"lock"} \cup Draining

\* The ways into the steps past the staging.
LEMMA PastFootprint ==
    TypeOK /\ StepFitsTask /\ Next =>
        \A v \in Workers : pc'[v] \in Past =>
            /\ task'[v] = task[v]
            /\ \/ pc[v] \in Past
               \/ Check(v) /\ IsSummarized(task[v].seq)
               \/ Stage(v)
               \/ task[v].kind = "terminal"
<1> SUFFICES ASSUME TypeOK, StepFitsTask, Next, NEW v \in Workers, pc'[v] \in Past
             PROVE  /\ task'[v] = task[v]
                    /\ \/ pc[v] \in Past
                       \/ Check(v) /\ IsSummarized(task[v].seq)
                       \/ Stage(v)
                       \/ task[v].kind = "terminal"
  OBVIOUS
<1> DEFINE Goal == /\ task'[v] = task[v]
                   /\ \/ pc[v] \in Past
                      \/ Check(v) /\ IsSummarized(task[v].seq)
                      \/ Stage(v)
                      \/ task[v].kind = "terminal"
<1>1. CASE UNCHANGED <<pc, task>>
  BY <1>1
<1>2. CASE CloseUtterance \/ EndMeeting \/ FailMeeting \/ ExpireLock
  BY <1>1, <1>2 DEF CloseUtterance, EndMeeting, FailMeeting, ExpireLock, workerVars
<1>3. ASSUME NEW w \in Workers, WorkerStep(w) \/ Crash(w) PROVE Goal
  <2>1. CASE LosePop(w)
    BY <1>1, <2>1 DEF LosePop, workerVars
  <2>2. CASE Rest(w)
    BY <2>2 DEF Rest, Past, Draining, Releasing, TypeOK
  <2>3. ASSUME task' = task, NEW step \in Steps \ Past, Goto(w, step) PROVE Goal
    BY <2>3 DEF Goto, TypeOK
  <2>4. ASSUME task' = task, NEW step, Goto(w, step), pc[w] \in Past PROVE Goal
    BY <2>4 DEF Goto, TypeOK
  <2>5. CASE Dequeue(w)
    BY <2>5 DEF Dequeue, Goto, Past, Draining, Releasing, TypeOK
  <2>6. CASE Retry(w) \/ Defer(w) \/ Crash(w)
    BY <2>2, <2>6 DEF Retry, Defer, Crash
  <2>7. CASE DeferFails(w)
    BY <2>3, <2>7 DEF DeferFails, Past, Steps, Draining, Releasing
  <2>8. CASE Raise(w)
    <3>1. CASE pc[w] \in Past
      BY <2>4, <2>8, <3>1 DEF Raise
    <3>2. CASE pc[w] \notin Past
      BY <2>3, <2>8, <3>2 DEF Raise, Past, Steps, Draining, Releasing
    <3>3. QED BY <3>1, <3>2
  <2>9. CASE Persist(w) \/ ReadTerminal(w)
    BY <2>3, <2>9 DEF Persist, ReadTerminal, Past, Steps, Staging, Draining, Releasing
  <2>10. CASE Check(w)
    <3>1. CASE IsSummarized(task[w].seq)
      BY <2>10, <3>1 DEF Check, Goto, TypeOK
    <3>2. CASE ~IsSummarized(task[w].seq)
      BY <2>3, <2>10, <3>2 DEF Check, Past, Steps, Staging, Draining, Releasing
    <3>3. QED BY <3>1, <3>2
  <2>11. CASE Stage(w)
    BY <2>11 DEF Stage, Goto, TypeOK
  <2>12. CASE MarkTerminal(w)
    <3>1. task[w].kind = "terminal"
      BY <2>12 DEF MarkTerminal, StepFitsTask, FitsTask
    <3>2. QED BY <2>12, <3>1 DEF MarkTerminal, Goto, TypeOK
  <2>13. CASE Acquire(w)
    BY <2>2, <2>4, <2>13 DEF Acquire, Past
  <2>14. CASE \/ ReadState(w) \/ Select(w) \/ ReadPayload(w) \/ Generate(w)
              \/ AppendChunk(w) \/ RemovePending(w)
    <3>1. task' = task /\ pc[w] \in Past /\ \E step : Goto(w, step)
      BY <2>14 DEF ReadState, Select, ReadPayload, Generate, AppendChunk,
                   RemovePending, Past, Draining
    <3>2. QED BY <2>4, <3>1
  <2>15. CASE Release(w)
    BY <2>2, <2>4, <2>15 DEF Release, Past, Draining
  <2>16. QED BY <1>3, <2>1, <2>5, <2>6, <2>7, <2>8, <2>9, <2>10, <2>11, <2>12, <2>13,
                <2>14, <2>15 DEF WorkerStep
<1>4. QED BY <1>2, <1>3 DEF Next

\* Past its staging an utterance stays consumed or pending.
LEMMA StagedStep ==
    /\ TypeOK /\ TypeOK' /\ StepFitsTask /\ StateIsCurrent /\ StagedIsSecured /\ Next
    /\ done <= done'
    => StagedIsSecured'
<1> SUFFICES ASSUME TypeOK, TypeOK', StepFitsTask, StateIsCurrent, StagedIsSecured, Next,
                    done <= done', NEW v \in Workers, pc'[v] \in Past,
                    task'[v].kind = "utterance"
             PROVE  task'[v].seq <= done' \/ task'[v].seq \in pending'
  BY DEF StagedIsSecured, Secured, Past
<1>1. /\ task'[v] = task[v]
      /\ pc[v] \in Past \/ (Check(v) /\ IsSummarized(task[v].seq)) \/ Stage(v)
  BY PastFootprint
<1>2. task[v] \in Tasks /\ task[v].seq \in Nat
  <2>1. pc[v] # "idle"
    BY <1>1 DEF Past, Draining, Releasing, Check, Stage
  <2>2. task[v] \in Tasks
    BY <2>1 DEF StepFitsTask, FitsTask, TypeOK
  <2>3. Sequences0 \subseteq Nat
    BY NoteAssumption DEF Sequences0
  <2>4. QED BY <2>2, <2>3, TaskFields
<1>3. done \in Nat /\ done' \in Nat /\ state.watermark \in Nat
  BY NoteAssumption DEF TypeOK, States, Sequences0
<1>4. CASE pc[v] \in Past
  BY <1>1, <1>2, <1>4, SecuredStable DEF StagedIsSecured, Past
<1>5. CASE Check(v) /\ IsSummarized(task[v].seq)
  BY <1>1, <1>2, <1>3, <1>5
     DEF IsSummarized, StateIsCurrent, HashIsCurrent, HashAt
<1>6. CASE Stage(v)
  BY <1>1, <1>6 DEF Stage
<1>7. QED BY <1>1, <1>4, <1>5, <1>6

\* A task of this name is dropped, queued or held by a worker.
CarriedAt(x, dropped, q, held) ==
    \/ x \in dropped
    \/ \E t \in Elements(q) : Name(t) = x
    \/ \E w \in Workers : held[w] # NoTask /\ Name(held[w]) = x

\* Nothing takes a dropped task back.
LEMMA LostGrows == Next => lost \subseteq lost'
<1> SUFFICES ASSUME Next PROVE lost \subseteq lost'
  OBVIOUS
<1>1. CASE CloseUtterance \/ EndMeeting
  BY <1>1 DEF CloseUtterance, EndMeeting, Submit
<1>2. CASE FailMeeting \/ ExpireLock
  BY <1>2 DEF FailMeeting, ExpireLock
<1>3. ASSUME NEW w \in Workers, LosePop(w) \/ Retry(w) \/ Crash(w) \/ Acquire(w)
      PROVE  lost \subseteq lost'
  BY <1>3 DEF LosePop, Retry, Crash, Submit, Acquire
<1>4. ASSUME NEW w \in Workers,
             \/ Dequeue(w) \/ Defer(w) \/ DeferFails(w) \/ Raise(w) \/ Persist(w)
             \/ Check(w) \/ Stage(w) \/ ReadTerminal(w) \/ MarkTerminal(w)
             \/ ReadState(w) \/ Select(w) \/ ReadPayload(w)
             \/ Generate(w) \/ AppendChunk(w) \/ RemovePending(w) \/ Release(w)
      PROVE  lost' = lost
  BY <1>4 DEF Dequeue, Defer, DeferFails, Raise, Persist, Check, Stage, ReadTerminal,
              MarkTerminal, ReadState, Select, ReadPayload, Generate,
              AppendChunk, RemovePending, Release
<1>5. QED BY <1>1, <1>2, <1>3, <1>4 DEF Next, WorkerStep

\* A task leaves the queue and the workers only when it is dropped or when its
\* worker is past the staging.
LEMMA CarriedStep ==
    ASSUME TypeOK, TypeOK', StepFitsTask, Next, NEW x,
           CarriedAt(x, lost, queue, task)
    PROVE  \/ CarriedAt(x, lost', queue', task')
           \/ \E v \in Workers : pc[v] \in Past /\ task[v] # NoTask /\ Name(task[v]) = x
<1> DEFINE Goal == \/ CarriedAt(x, lost', queue', task')
                   \/ \E v \in Workers :
                         pc[v] \in Past /\ task[v] # NoTask /\ Name(task[v]) = x
<1>1. ASSUME lost \subseteq lost',
             \A t \in Elements(queue) :
                \/ t \in Elements(queue')
                \/ Name(t) \in lost'
                \/ \E w \in Workers : task'[w] = t /\ t # NoTask,
             \A w \in Workers :
                \/ task[w] = NoTask
                \/ task'[w] = task[w]
                \/ Name(task[w]) \in lost'
                \/ \E t \in Elements(queue') : Name(t) = Name(task[w])
                \/ pc[w] \in Past
      PROVE  Goal
  <2>1. CASE x \in lost
    BY <1>1, <2>1 DEF CarriedAt
  <2>2. CASE \E t \in Elements(queue) : Name(t) = x
    BY <1>1, <2>2 DEF CarriedAt
  <2>3. CASE \E w \in Workers : task[w] # NoTask /\ Name(task[w]) = x
    BY <1>1, <2>3 DEF CarriedAt
  <2>4. QED BY <2>1, <2>2, <2>3 DEF CarriedAt
<1>2. CASE CloseUtterance \/ EndMeeting
  <2>1. PICK t \in Tasks : Submit(t)
    <3>1. CASE CloseUtterance
      <4>1. [kind |-> "utterance", seq |-> spoken + 1, retry |-> 0] \in Tasks
        BY <3>1, NoteAssumption DEF CloseUtterance, TypeOK, Tasks, Kinds, Sequences0
      <4>2. QED BY <3>1, <4>1 DEF CloseUtterance
    <3>2. CASE EndMeeting
      <4>1. [kind |-> "terminal", seq |-> spoken, retry |-> 0] \in Tasks
        BY NoteAssumption DEF TypeOK, Tasks, Kinds, Sequences0
      <4>2. QED BY <3>2, <4>1 DEF EndMeeting
    <3>3. QED BY <1>2, <3>1, <3>2
  <2>2. Elements(queue) \subseteq Elements(queue') /\ lost \subseteq lost'
    <3>1. Elements(Append(queue, t)) = Elements(queue) \cup {t}
      BY <2>1, AppendElements DEF TypeOK
    <3>2. QED BY <2>1, <3>1 DEF Submit
  <2>3. task' = task
    BY <1>2 DEF CloseUtterance, EndMeeting, workerVars
  <2>4. QED BY <1>1, <2>2, <2>3
<1>3. ASSUME NEW w \in Workers, Dequeue(w) \/ LosePop(w) PROVE Goal
  <2>1. /\ Elements(queue) = {Head(queue)} \cup Elements(queue')
        /\ Head(queue) \in Tasks
    BY <1>3, TailElements DEF Dequeue, LosePop, TypeOK
  <2>2. Head(queue) # NoTask
    BY <2>1, TaskFields
  <2>3. CASE Dequeue(w)
    <3>1. lost' = lost /\ task[w] = NoTask /\ task'[w] = Head(queue)
      BY <2>3 DEF Dequeue, StepFitsTask, FitsTask, TypeOK
    <3>2. \A v \in Workers : v # w => task'[v] = task[v]
      BY <2>3 DEF Dequeue, TypeOK
    <3>3. QED BY <1>1, <2>1, <2>2, <3>1, <3>2
  <2>4. CASE LosePop(w)
    <3>1. lost' = lost \cup {Name(Head(queue))} /\ task' = task
      BY <2>4 DEF LosePop, workerVars
    <3>2. QED BY <1>1, <2>1, <3>1
  <2>5. QED BY <1>3, <2>3, <2>4
<1>4. ASSUME NEW w \in Workers, Retry(w) \/ Defer(w) \/ DeferFails(w) \/ Crash(w)
      PROVE  Goal
  <2>1. task[w] \in Tasks
    BY <1>4 DEF StepFitsTask, FitsTask, TypeOK, Retry, Defer, DeferFails, Crash
  <2>2. \A v \in Workers : v # w => task'[v] = task[v]
    BY <1>4 DEF Retry, Defer, DeferFails, Crash, Rest, TypeOK
  <2>3. ASSUME lost \subseteq lost', Elements(queue) \subseteq Elements(queue'),
               \/ task'[w] = task[w]
               \/ Name(task[w]) \in lost'
               \/ \E t \in Elements(queue') : Name(t) = Name(task[w])
        PROVE  Goal
    BY <1>1, <2>2, <2>3
  <2>4. CASE Retry(w) /\ task[w].retry < MaxRetries
    <3> DEFINE new == [task[w] EXCEPT !.retry = @ + 1]
    <3>1. new \in Tasks /\ Name(new) = Name(task[w])
      BY <2>1, <2>4, RetriedTask
    <3>2. Submit(new)
      BY <2>4 DEF Retry
    <3> HIDE DEF new
    <3>3. Elements(Append(queue, new)) = Elements(queue) \cup {new}
      BY <3>1, AppendElements DEF TypeOK
    <3>4. CASE queue' = Append(queue, new) /\ lost' = lost
      BY <2>3, <3>1, <3>3, <3>4
    <3>5. CASE queue' = queue /\ lost' = lost \cup {Name(new)}
      BY <2>3, <3>1, <3>5
    <3>6. QED BY <3>2, <3>4, <3>5 DEF Submit
  <2>5. CASE (Retry(w) /\ ~(task[w].retry < MaxRetries)) \/ Crash(w)
    <3>1. queue' = queue /\ lost' = lost \cup {Name(task[w])}
      BY <2>5 DEF Retry, Crash
    <3>2. QED BY <2>3, <3>1
  <2>6. CASE Defer(w) \/ DeferFails(w)
    <3>1. Elements(Append(queue, task[w])) = Elements(queue) \cup {task[w]}
      BY <2>1, AppendElements DEF TypeOK
    <3>2. lost' = lost
      BY <2>6 DEF Defer, DeferFails
    <3>3. \/ queue' = Append(queue, task[w])
          \/ queue' = queue /\ task'[w] = task[w]
      BY <2>6 DEF Defer, DeferFails
    <3>4. QED BY <2>3, <3>1, <3>2, <3>3
  <2>7. QED BY <1>4, <2>4, <2>5, <2>6
<1>5. ASSUME NEW w \in Workers, Acquire(w) \/ Release(w) PROVE Goal
  <2>1. queue' = queue /\ lost \subseteq lost' /\ pc[w] \in Past
    BY <1>5, LostGrows DEF Acquire, Release, Past, Draining
  <2>2. \A v \in Workers : v # w => task'[v] = task[v]
    BY <1>5 DEF Acquire, Release, Rest, TypeOK
  <2>3. QED BY <1>1, <2>1, <2>2
<1>6. CASE UNCHANGED <<queue, task>>
  <2>1. lost \subseteq lost'
    BY LostGrows
  <2>2. QED BY <1>1, <1>6, <2>1
<1>7. QED BY <1>2, <1>3, <1>4, <1>5, <1>6, TaskFootprint

\* The queue of UtteranceAccounted, as a set.
LEMMA AccountedCarried ==
    TypeOK => (UtteranceAccounted <=>
                \A n \in 1 .. spoken :
                    \/ n <= done
                    \/ n \in pending
                    \/ CarriedAt(<<"utterance", n>>, lost, queue, task))
BY DEF UtteranceAccounted, CarriedAt, Elements, TypeOK

\* Every utterance stays accounted for.
LEMMA AccountedStep ==
    /\ TypeOK /\ TypeOK' /\ StepFitsTask /\ StagedIsSecured /\ UtteranceAccounted /\ Next
    /\ done <= done'
    => UtteranceAccounted'
<1> SUFFICES ASSUME TypeOK, TypeOK', StepFitsTask, StagedIsSecured, UtteranceAccounted,
                    Next, done <= done'
             PROVE  UtteranceAccounted'
  OBVIOUS
<1>1. ASSUME NEW n \in 1 .. spoken'
      PROVE  \/ n <= done'
             \/ n \in pending'
             \/ CarriedAt(<<"utterance", n>>, lost', queue', task')
  <2> DEFINE x == <<"utterance", n>>
             Goal == n <= done' \/ n \in pending' \/ CarriedAt(x, lost', queue', task')
  <2>1. spoken \in Nat /\ spoken' \in Nat /\ n \in Nat
    BY NoteAssumption DEF TypeOK, Sequences0
  <2>2. CASE n \in 1 .. spoken
    <3>1. Secured(n) \/ CarriedAt(x, lost, queue, task)
      BY <2>2, AccountedCarried DEF Secured
    <3>2. CASE Secured(n)
      BY <2>1, <3>2, SecuredStable
    <3>3. CASE CarriedAt(x, lost, queue, task)
      <4>1. CASE CarriedAt(x, lost', queue', task')
        BY <4>1
      <4>2. ASSUME NEW v \in Workers, pc[v] \in Past, task[v] # NoTask,
                   Name(task[v]) = x
            PROVE  Goal
        <5>1. task[v].kind = "utterance" /\ task[v].seq = n
          BY <4>2 DEF Name
        <5>2. Secured(n)
          BY <4>2, <5>1 DEF StagedIsSecured, Past
        <5>3. QED BY <2>1, <5>2, SecuredStable
      <4>3. QED BY <3>3, <4>1, <4>2, CarriedStep
    <3>4. QED BY <3>1, <3>2, <3>3
  <2>3. CASE n \notin 1 .. spoken
    <3>1. CloseUtterance /\ n = spoken + 1
      BY <2>1, <2>3, MeetingFootprint
         DEF CloseUtterance, EndMeeting, FailMeeting, meetingVars
    <3> DEFINE new == [kind |-> "utterance", seq |-> spoken + 1, retry |-> 0]
    <3>2. Submit(new) /\ Name(new) = x
      BY <3>1 DEF CloseUtterance, Name
    <3>3. new \in Tasks
      BY <3>1, NoteAssumption DEF CloseUtterance, TypeOK, Tasks, Kinds, Sequences0
    <3> HIDE DEF new
    <3>4. new \in Elements(Append(queue, new))
      BY <3>3, AppendElements DEF TypeOK
    <3>5. QED BY <3>2, <3>4 DEF Submit, CarriedAt
  <2>4. QED BY <2>2, <2>3
<1>2. QED
  BY <1>1 DEF UtteranceAccounted, CarriedAt, Elements, TypeOK

-----------------------------------------------------------------------------
(* The invariant, and what follows.                                         *)

\* The invariant holds before the meeting.
LEMMA InitIInv == Init => IInv
<1> SUFFICES ASSUME Init PROVE IInv
  OBVIOUS
<1> USE NoteAssumption DEF Init
<1>1. TypeOK
  <2>1. 0 \in Sequences0 /\ 0 \in 0 .. MaxFailures /\ <<>> \in Seq(Tasks)
    BY DEF Sequences0
  <2>2. NoState \in States /\ NoBatch \in Sequences0 \X Sequences0
    BY <2>1 DEF NoState, NoBatch, States
  <2> HIDE DEF NoState, NoBatch, Sequences0
  <2>3. QED BY <2>1, <2>2 DEF TypeOK, Steps
<1>2. Elements(queue) = {}
  BY DEF Elements
<1>3. TasksAreCurrent /\ StepFitsTask
  BY <1>2 DEF TasksAreCurrent, StepFitsTask, FitsTask
<1>4. StateIsCurrent
  <2>1. HashIsCurrent(NoState)
    BY <1>1, NoStateIsCurrent
  <2>2. MarkAt(done, spoken, ended)
    <3>1. 0 \in 0 .. 0 /\ BatchSize * 0 = 0
      OBVIOUS
    <3>2. QED BY <3>1 DEF MarkAt
  <2>3. QED BY <2>1, <2>2 DEF StateIsCurrent
<1>5. BatchesAreOpen /\ StagedIsSecured
  BY DEF BatchesAreOpen, StagedIsSecured, Holding, Draining, Releasing
<1>6. UtteranceAccounted
  BY DEF UtteranceAccounted
<1>7. QED BY <1>1, <1>3, <1>4, <1>5, <1>6 DEF IInv

\* Every step keeps the invariant.
LEMMA StepIInv == IInv /\ [Next]_vars => IInv'
<1> SUFFICES ASSUME IInv, [Next]_vars PROVE IInv'
  OBVIOUS
<1> USE DEF IInv
<1>1. CASE Next
  <2>1. TypeOK'
    BY <1>1, TypeStep
  <2>2. TasksAreCurrent' /\ StepFitsTask'
    BY <1>1, <2>1, TasksStep, FitStep
  <2>3. StateIsCurrent' /\ done <= done'
    BY <1>1, <2>1, StateStep
  <2>4. BatchesAreOpen'
    BY <1>1, <2>1, <2>3, BatchesStep
  <2>5. StagedIsSecured' /\ UtteranceAccounted'
    BY <1>1, <2>1, <2>3, StagedStep, AccountedStep
  <2>6. QED BY <2>1, <2>2, <2>3, <2>4, <2>5
<1>2. CASE UNCHANGED vars
  <2> USE <1>2 DEF vars, meetingVars, redisVars, workerVars
  <2>1. TypeOK'
    BY DEF TypeOK
  <2>2. TasksAreCurrent' /\ StepFitsTask'
    BY DEF TasksAreCurrent, Current, CurrentAt, StepFitsTask, FitsTask
  <2>3. StateIsCurrent'
    BY DEF StateIsCurrent, HashIsCurrent, HashAt, MarkAt
  <2>4. BatchesAreOpen'
    BY DEF BatchesAreOpen, IsOpenBatch, OpenAt
  <2>5. StagedIsSecured'
    BY DEF StagedIsSecured, Secured
  <2>6. UtteranceAccounted'
    BY DEF UtteranceAccounted
  <2>7. QED BY <2>1, <2>2, <2>3, <2>4, <2>5, <2>6
<1>3. QED BY <1>1, <1>2

\* The inductive invariant holds in every reachable state.
THEOREM Invariance == Spec => []IInv
BY InitIInv, StepIInv, PTL DEF Spec
\* The variables keep their types, whatever the tasks, retries and failures.
THEOREM TypeCorrect == Spec => []TypeOK
<1>1. IInv => TypeOK
  BY DEF IInv
<1>2. QED BY <1>1, Invariance, PTL

\* No closed utterance vanishes: each is consumed, staged, carried by a task, or
\* its task was dropped by a failure.
THEOREM UtteranceAccountedCorrect == Spec => []UtteranceAccounted
<1>1. IInv => UtteranceAccounted
  BY DEF IInv
<1>2. QED BY <1>1, Invariance, PTL

\* Neither the hash nor what a worker remembers of it runs ahead of the batches
\* that were consumed.
THEOREM WatermarkIsConsumedCorrect == Spec => []WatermarkIsConsumed
<1>1. IInv => WatermarkIsConsumed
  BY DEF IInv, StateIsCurrent, HashIsCurrent, HashAt, WatermarkIsConsumed
<1>2. QED BY <1>1, Invariance, PTL

\* The hash of an ended meeting passes the validator of its readers.
THEOREM StateIsReadableCorrect == Spec => []StateIsReadable
<1>1. IInv => StateIsReadable
  <2> SUFFICES ASSUME IInv, state.terminal PROVE state.watermark <= state.final
    BY DEF StateIsReadable
  <2>1. spoken \in Nat
    BY NoteAssumption DEF IInv, TypeOK, Sequences0
  <2>2. state.final = spoken /\ MarkAt(state.watermark, spoken, ended)
    BY DEF IInv, StateIsCurrent, HashIsCurrent, HashAt
  <2>3. QED BY <2>1, <2>2 DEF MarkAt
<1>2. QED BY <1>1, Invariance, PTL

\* Two open batches are the same or do not meet.
LEMMA OpenBatches ==
    ASSUME NEW n \in Nat, NEW over \in BOOLEAN, NEW e \in Nat,
           NEW c \in Nat \X Nat, NEW d \in Nat \X Nat,
           OpenAt(c, n, over, e), OpenAt(d, n, over, e)
    PROVE  c = d \/ c[2] < d[1] \/ d[2] < c[1]
<1>1. PICK j \in Nat : c[1] = BatchSize * j + 1
  BY DEF OpenAt
<1>2. PICK k \in Nat : d[1] = BatchSize * k + 1
  BY DEF OpenAt
<1>3. /\ BatchSize \in Nat \ {0} /\ BatchSize * j \in Nat /\ BatchSize * k \in Nat
      /\ c[1] \in Nat /\ c[2] \in Nat /\ d[1] \in Nat /\ d[2] \in Nat
      /\ c = <<c[1], c[2]>> /\ d = <<d[1], d[2]>>
  BY NoteAssumption
<1>4. /\ c[2] <= n /\ c[2] < c[1] + BatchSize
      /\ d[2] <= n /\ d[2] < d[1] + BatchSize
      /\ c[2] = c[1] + BatchSize - 1 \/ c[2] = n
      /\ d[2] = d[1] + BatchSize - 1 \/ d[2] = n
  BY <1>3 DEF OpenAt
<1>5. CASE BatchSize * k < BatchSize * j + BatchSize /\
           BatchSize * j < BatchSize * k + BatchSize
  <2>1. j = k
    BY <1>3, <1>5, Multiples
  <2>2. c[1] = d[1]
    BY <1>1, <1>2, <2>1
  <2>3. c[2] = d[2]
    BY <1>3, <1>4, <2>2
  <2>4. QED BY <1>3, <2>2, <2>3
<1>6. QED BY <1>1, <1>2, <1>3, <1>4, <1>5

\* No two note chunks overlap, even when the lock expires under its holder and
\* two workers summarize the same utterances.
THEOREM ChunksDisjointCorrect == Spec => []ChunksDisjoint
<1>1. IInv => ChunksDisjoint
  <2> SUFFICES ASSUME IInv, NEW c \in chunks, NEW d \in chunks, c # d
               PROVE  c[2] < d[1] \/ d[2] < c[1]
    BY DEF ChunksDisjoint
  <2>1. /\ spoken \in Nat /\ done \in Nat /\ ended \in BOOLEAN
        /\ c \in Nat \X Nat /\ d \in Nat \X Nat
    BY NoteAssumption DEF IInv, TypeOK, Sequences0
  <2>2. OpenAt(c, spoken, ended, done) /\ OpenAt(d, spoken, ended, done)
    BY DEF IInv, BatchesAreOpen, IsOpenBatch
  <2>3. QED BY <2>1, <2>2, OpenBatches
<1>2. QED BY <1>1, Invariance, PTL

-----------------------------------------------------------------------------
(* The notes implement the ledger.                                          *)

\* The actions that move what the ledger sees.
LEMMA LedgerFootprint ==
    Next => \/ CloseUtterance \/ EndMeeting \/ FailMeeting
            \/ \E w \in Workers : AppendChunk(w) \/ RemovePending(w)
            \/ UNCHANGED <<spoken, ended, done, chunks>>
BY DEF Next, WorkerStep, Dequeue, LosePop, Retry, Defer, DeferFails, Raise, Crash,
       Persist, Check, Stage, ReadTerminal, MarkTerminal, Acquire, ReadState, Select,
       ReadPayload, Generate, Release, ExpireLock, meetingVars

\* A batch held by a worker is one of the ledger.
LEMMA HeldIsBatch ==
    ASSUME IInv, NEW w \in Workers, pc[w] \in Holding
    PROVE  /\ First(w) \in 1 .. spoken /\ Last(w) \in 1 .. spoken
           /\ First(w) <= done + 1
           /\ Ledger!IsBatch(First(w), Last(w))
           /\ OpenAt(batch[w], spoken, ended, done)
           /\ batch[w] = <<First(w), Last(w)>>
<1>1. OpenAt(batch[w], spoken, ended, done) /\ batch[w] \in Sequences0 \X Sequences0
  BY DEF IInv, TypeOK, BatchesAreOpen, IsOpenBatch
<1>2. Last(w) <= spoken
  BY <1>1, NoteAssumption DEF OpenAt, Last, IInv, TypeOK, Sequences0
<1>3. QED BY <1>1, <1>2 DEF OpenAt, First, Last, Ledger!IsBatch

\* A removal that moves the consumed prefix moves it by the next batch.
LEMMA RemovalConsumes ==
    ASSUME IInv, NEW w \in Workers, pc[w] \in Holding, done < Last(w)
    PROVE  First(w) = done + 1
<1>1. /\ spoken \in Nat /\ done \in Nat /\ BatchSize \in Nat \ {0}
      /\ First(w) \in Nat /\ Last(w) \in Nat
  BY HeldIsBatch, NoteAssumption DEF IInv, TypeOK, Sequences0
<1>2. /\ First(w) <= done + 1 /\ Last(w) <= spoken
      /\ Last(w) < First(w) + BatchSize
      /\ \E j \in 0 .. spoken : First(w) = BatchSize * j + 1
  <2>1. OpenAt(batch[w], spoken, ended, done)
    BY HeldIsBatch
  <2>2. QED BY <1>1, <2>1 DEF OpenAt, First, Last
<1>3. PICK j \in Nat : First(w) = BatchSize * j + 1
  BY <1>1, <1>2
<1>4. PICK k \in Nat : done = BatchSize * k
  <2>1. done # spoken
    BY <1>1, <1>2
  <2>2. MarkAt(done, spoken, ended)
    BY DEF IInv, StateIsCurrent
  <2>3. QED BY <2>1, <2>2 DEF MarkAt
<1>5. BatchSize * j \in Nat /\ BatchSize * k \in Nat
  BY <1>1
<1>6. /\ BatchSize * j < BatchSize * k + BatchSize
      /\ BatchSize * k < BatchSize * j + BatchSize
  BY <1>1, <1>2, <1>3, <1>4, <1>5
<1>7. j = k
  BY <1>1, <1>6, Multiples
<1>8. QED BY <1>3, <1>4, <1>7

\* Every step of the notes is a step of the ledger, or leaves it alone.
LEMMA LedgerStep == IInv /\ IInv' /\ [Next]_vars => [Ledger!Next]_(Ledger!vars)
<1> SUFFICES ASSUME IInv, IInv', [Next]_vars
             PROVE  Ledger!Next \/ UNCHANGED <<spoken, ended, done, chunks>>
  BY DEF Ledger!vars
<1>1. CASE CloseUtterance
  BY <1>1 DEF CloseUtterance, Ledger!Next, Ledger!Speak
<1>2. CASE EndMeeting \/ FailMeeting
  BY <1>2 DEF EndMeeting, FailMeeting, Ledger!Next, Ledger!End
<1>3. ASSUME NEW w \in Workers, AppendChunk(w) PROVE Ledger!Next
  <2>1. pc[w] \in Holding /\ chunks' = chunks \cup {batch[w]}
        /\ UNCHANGED <<spoken, ended, done>>
    BY <1>3 DEF AppendChunk, Holding, meetingVars
  <2>2. Ledger!Write
    BY <2>1, HeldIsBatch DEF Ledger!Write
  <2>3. QED BY <2>2 DEF Ledger!Next
<1>4. ASSUME NEW w \in Workers, RemovePending(w)
      PROVE  Ledger!Next \/ UNCHANGED <<spoken, ended, done, chunks>>
  <2>1. /\ pc[w] \in Holding /\ done' = Later(done, Last(w))
        /\ UNCHANGED <<spoken, ended, chunks>>
    BY <1>4 DEF RemovePending, Holding, meetingVars
  <2>2. done \in Nat /\ Last(w) \in Nat
    <3>1. spoken \in Nat /\ done \in Nat
      BY NoteAssumption DEF IInv, TypeOK, Sequences0
    <3>2. Last(w) \in 1 .. spoken
      BY <2>1, HeldIsBatch
    <3>3. QED BY <3>1, <3>2
  <2>3. CASE ~(done < Last(w))
    BY <2>1, <2>2, <2>3 DEF Later
  <2>4. CASE done < Last(w)
    <3>1. First(w) = done + 1 /\ done' = Last(w)
      BY <2>1, <2>2, <2>4, RemovalConsumes DEF Later
    <3>2. Ledger!IsBatch(done + 1, Last(w)) /\ Last(w) \in 1 .. spoken
      BY <2>1, <3>1, HeldIsBatch
    <3>3. Ledger!Consume
      BY <2>1, <3>1, <3>2 DEF Ledger!Consume
    <3>4. QED BY <3>3 DEF Ledger!Next
  <2>5. QED BY <2>3, <2>4
<1>5. CASE UNCHANGED vars
  BY <1>5 DEF vars, meetingVars
<1>6. QED BY <1>1, <1>2, <1>3, <1>4, <1>5, LedgerFootprint

\* The workers, with their queue, their lock that may expire and their retries,
\* implement the ledger: they consume the meeting batch by batch and write the
\* chunks of these batches only.
THEOREM Refinement == Spec => ImplementsLedger
<1>1. Init => Ledger!Init
  BY DEF Init, Ledger!Init
<1>2. IInv /\ IInv' /\ [Next]_vars => [Ledger!Next]_(Ledger!vars)
  BY LedgerStep
<1>3. QED BY <1>1, <1>2, Invariance, PTL DEF Spec, ImplementsLedger, Ledger!Spec
-----------------------------------------------------------------------------
(* One worker, and what its tasks leave.                                    *)

Alone == \A v, w \in Workers : v = w

\* Somebody is still going to look for a batch, or there is none.
Attended    == queue # <<>> \/ \E w \in Workers : pc[w] \notin {"idle", "release"}
NothingLeft == ~\E from, to \in 1 .. MaxUtterances : Selects(state, from, to)

\* The hash is as the only worker last read or wrote it, its watermark is the
\* consumed prefix, and a batch held starts right after that.
HashFollows ==
    /\ state.watermark = done
    /\ state.terminal => state.exists
    /\ \A w \in Workers : pc[w] \in {"mark", "select"} => seen[w] = state
    /\ \A w \in Workers : pc[w] \in Holding => First(w) = done + 1

EndIsAttended == lost = {} /\ state.terminal => Attended \/ NothingLeft

TailInv == IInv /\ HashFollows /\ EndIsAttended

\* A queue is not empty after a push.
LEMMA PushedIsThere ==
    ASSUME NEW S, NEW q \in Seq(S), NEW t \in S PROVE Append(q, t) # <<>>
<1>1. Len(Append(q, t)) = Len(q) + 1 /\ Len(q) \in Nat
  OBVIOUS
<1>2. QED BY <1>1

LEMMA InitTailInv == Init => TailInv
<1> SUFFICES ASSUME Init PROVE TailInv
  OBVIOUS
<1>1. IInv
  BY InitIInv
<1>2. HashFollows
  BY DEF Init, HashFollows, NoState, Holding
<1>3. EndIsAttended
  BY DEF Init, EndIsAttended, NoState
<1>4. QED BY <1>1, <1>2, <1>3 DEF TailInv

\* What the steps of the only worker do to the hash and to its locals.
LEMMA HashFollowsStep ==
    ASSUME Alone, IInv, IInv', HashFollows, Next PROVE HashFollows'
<1> USE DEF IInv, TypeOK, Alone
<1>1. ASSUME UNCHANGED <<state, done>>,
             \A w \in Workers :
                /\ pc'[w] \in {"mark", "select"} => seen'[w] = state
                /\ pc'[w] \in Holding => batch'[w][1] = done + 1
      PROVE  HashFollows'
  BY <1>1 DEF HashFollows, First
<1>2. CASE CloseUtterance \/ EndMeeting \/ FailMeeting \/ ExpireLock
  BY <1>1, <1>2 DEF CloseUtterance, EndMeeting, FailMeeting, ExpireLock, HashFollows, First,
                    redisVars, workerVars
<1>3. ASSUME NEW w \in Workers, WorkerStep(w) \/ Crash(w) PROVE HashFollows'
  <2>1. \A v \in Workers : v = w
    OBVIOUS
  <2> USE DEF Goto, Holding
  <2>2. CASE Dequeue(w) \/ LosePop(w) \/ Persist(w) \/ Check(w)
    BY <1>1, <2>1, <2>2 DEF Dequeue, LosePop, Persist, Check, HashFollows, First,
                            redisVars, workerVars
  <2>3. CASE Retry(w) \/ Defer(w) \/ DeferFails(w) \/ Crash(w) \/ Raise(w)
    BY <1>1, <2>1, <2>3 DEF Retry, Defer, DeferFails, Crash, Raise, Rest, redisVars
  <2>4. CASE Stage(w)
    BY <2>1, <2>4, StateFields DEF Stage, HashFollows
  <2>5. CASE ReadTerminal(w) \/ ReadState(w)
    BY <1>1, <2>1, <2>5 DEF ReadTerminal, ReadState, redisVars
  <2>6. CASE MarkTerminal(w)
    BY <2>1, <2>6 DEF MarkTerminal, HashFollows
  <2>7. CASE Acquire(w) \/ Release(w)
    BY <1>1, <2>1, <2>7 DEF Acquire, Release, Rest, redisVars
  <2>8. CASE Select(w)
    <3>1. ASSUME NEW from \in 1 .. MaxUtterances, NEW to \in 1 .. MaxUtterances,
                 Selects(seen[w], from, to)
          PROVE  from = done + 1
      BY <2>8, <3>1 DEF Select, Selects, HashFollows
    <3>2. UNCHANGED <<state, done>> /\ pc'[w] \in {"payload", "release"}
      BY <2>8 DEF Select, redisVars
    <3>3. pc'[w] = "payload" => batch'[w][1] = done + 1
      BY <2>8, <3>1 DEF Select
    <3>4. QED BY <1>1, <2>1, <3>2, <3>3
  <2>9. CASE ReadPayload(w) \/ Generate(w) \/ AppendChunk(w)
    BY <1>1, <2>1, <2>9 DEF ReadPayload, Generate, AppendChunk, HashFollows, First, redisVars
  <2>10. CASE RemovePending(w)
    <3>1. IsOpenBatch(batch[w]) /\ First(w) = done + 1
      BY <2>10 DEF RemovePending, BatchesAreOpen, HashFollows
    <3>2. Last(w) >= done
      BY <3>1, NoteAssumption DEF IsOpenBatch, OpenAt, First, Last, Sequences0
    <3>3. Last(w) \in Sequences0 /\ done \in Sequences0
      BY DEF Last
    <3>4. done' = Last(w)
      BY <2>10, <3>2, <3>3 DEF RemovePending, Later, Sequences0
    <3>5. /\ state' = [state EXCEPT !.watermark = Last(w)]
          /\ pc'[w] = "state"
      BY <2>10 DEF RemovePending
    <3>6. /\ state'.watermark = Last(w) /\ state'.terminal = state.terminal
          /\ state'.exists = state.exists
      BY <3>3, <3>5 DEF States
    <3>7. QED BY <2>1, <3>4, <3>5, <3>6 DEF HashFollows
  <2>11. QED BY <1>3, <2>2, <2>3, <2>4, <2>5, <2>6, <2>7, <2>8, <2>9, <2>10 DEF WorkerStep
<1>4. QED BY <1>2, <1>3 DEF Next

\* A task is not done with before it found nothing to select, unless it is
\* dropped or another one follows.
LEMMA EndIsAttendedStep ==
    ASSUME Alone, IInv, HashFollows, EndIsAttended, Next PROVE EndIsAttended'
<1> SUFFICES ASSUME lost' = {}, state'.terminal PROVE Attended' \/ NothingLeft'
  BY DEF EndIsAttended
<1> USE DEF IInv, TypeOK, Alone
<1>1. lost = {}
  BY LostGrows
<1>2. ASSUME UNCHANGED <<state, pending>>, Attended => Attended' PROVE Attended' \/ NothingLeft'
  <2>1. Attended \/ NothingLeft
    BY <1>1, <1>2 DEF EndIsAttended
  <2>2. NothingLeft => NothingLeft'
    BY <1>2 DEF NothingLeft, Selects, ContiguousRun
  <2>3. QED BY <1>2, <2>1, <2>2
<1>3. CASE CloseUtterance \/ EndMeeting \/ FailMeeting
  <2>1. ~ended /\ state' = state
    BY <1>3 DEF CloseUtterance, EndMeeting, FailMeeting, redisVars
  <2>2. QED BY <2>1 DEF StateIsCurrent, HashIsCurrent, HashAt
<1>4. CASE ExpireLock
  BY <1>2, <1>4 DEF ExpireLock, Attended, redisVars, workerVars
<1>5. ASSUME NEW w \in Workers, WorkerStep(w) \/ Crash(w)
      PROVE  Attended' \/ NothingLeft'
  <2>1. \A v \in Workers : v = w
    OBVIOUS
  <2> USE DEF Goto
  <2>2. CASE pc'[w] \notin {"idle", "release"} \/ queue' # <<>>
    BY <2>2 DEF Attended
  <2>3. CASE LosePop(w) \/ Crash(w)
    BY <2>3 DEF LosePop, Crash
  <2>4. CASE Retry(w)
    <3>1. task[w] \in Tasks /\ task[w].retry < MaxRetries
      <4>1. task[w] \in Tasks
        BY <2>4 DEF Retry, StepFitsTask, FitsTask
      <4>2. task[w].retry < MaxRetries
        BY <2>4 DEF Retry
      <4>3. QED BY <4>1, <4>2
    <3>2. Append(queue, [task[w] EXCEPT !.retry = @ + 1]) # <<>>
      <4>1. \A t \in Tasks : Append(queue, t) # <<>>
        BY PushedIsThere
      <4>2. QED BY <3>1, <4>1, RetriedTask
    <3>3. queue' # <<>>
      BY <2>4, <3>1, <3>2 DEF Retry, Submit
    <3>4. QED BY <2>2, <3>3
  <2>5. CASE Defer(w)
    <3>1. Append(queue, task[w]) # <<>>
      OBVIOUS
    <3>2. QED BY <2>2, <2>5, <3>1 DEF Defer
  <2>6. CASE Dequeue(w) \/ DeferFails(w) \/ Raise(w) \/ Persist(w) \/ Check(w) \/ Stage(w)
             \/ ReadTerminal(w) \/ MarkTerminal(w) \/ ReadPayload(w) \/ Generate(w)
             \/ AppendChunk(w) \/ RemovePending(w)
    <3>1. pc'[w] \notin {"idle", "release"}
      BY <2>6 DEF Dequeue, DeferFails, Raise, Persist, Check, Stage, ReadTerminal,
                  MarkTerminal, ReadPayload, Generate, AppendChunk, RemovePending
    <3>2. QED BY <2>2, <3>1
  <2>7. CASE Acquire(w)
    <3>1. CASE lock # NoWorker /\ task[w].kind # "terminal"
      <4>1. lock = w /\ pc[w] = "lock" /\ state' = state /\ queue' = queue
        BY <2>1, <2>7, <3>1 DEF Acquire, redisVars
      <4>2. LeftBehind
        BY <3>1, <4>1 DEF LeftBehind, Draining, Releasing
      <4>3. queue # <<>>
        BY <2>7, <3>1, <4>1, <4>2 DEF Acquire
      <4>4. QED BY <2>2, <4>1, <4>3
    <3>2. CASE ~(lock # NoWorker /\ task[w].kind # "terminal")
      <4>1. pc'[w] \in {"state", "defer"}
        BY <2>7, <3>2 DEF Acquire
      <4>2. QED BY <2>2, <4>1
    <3>3. QED BY <3>1, <3>2
  <2>8. CASE ReadState(w)
    <3>1. state.exists
      BY <2>8 DEF ReadState, redisVars, HashFollows
    <3>2. QED BY <2>2, <2>8, <3>1 DEF ReadState
  <2>9. CASE Select(w)
    <3>1. UNCHANGED <<state, pending>> /\ seen[w] = state
      BY <2>9 DEF Select, redisVars, HashFollows
    <3>2. CASE pc'[w] = "payload"
      BY <2>2, <3>2
    <3>3. CASE pc'[w] # "payload"
      <4>1. ~\E from, to \in 1 .. MaxUtterances : Selects(seen[w], from, to)
        BY <2>9, <3>3 DEF Select
      <4>2. NothingLeft
        BY <3>1, <4>1 DEF NothingLeft
      <4>3. QED BY <3>1, <4>2 DEF NothingLeft, Selects, ContiguousRun
    <3>4. QED BY <3>2, <3>3
  <2>10. CASE Release(w)
    <3>1. UNCHANGED <<state, pending, queue>>
      BY <2>10 DEF Release, redisVars
    <3>2. CASE pc[w] = "release"
      BY <1>2, <2>1, <3>1, <3>2 DEF Attended
    <3>3. CASE pc[w] # "release"
      <4>1. pc'[w] = "retry"
        BY <2>10, <3>3 DEF Release
      <4>2. QED BY <2>2, <4>1
    <3>4. QED BY <3>2, <3>3
  <2>11. QED BY <1>5, <2>3, <2>4, <2>5, <2>6, <2>7, <2>8, <2>9, <2>10 DEF WorkerStep
<1>6. QED BY <1>3, <1>4, <1>5 DEF Next

LEMMA StepTailInv == ASSUME Alone PROVE TailInv /\ [Next]_vars => TailInv'
<1> SUFFICES ASSUME TailInv, [Next]_vars PROVE TailInv'
  OBVIOUS
<1>1. IInv /\ IInv'
  BY StepIInv DEF TailInv
<1>2. CASE Next
  BY <1>1, <1>2, HashFollowsStep, EndIsAttendedStep DEF TailInv
<1>3. CASE UNCHANGED vars
  BY <1>1, <1>3 DEF TailInv, HashFollows, EndIsAttended, Attended, NothingLeft, Selects,
                    ContiguousRun, First, vars, redisVars, workerVars
<1>4. QED BY <1>2, <1>3

\* What a run of pending sequences that reaches the end leaves to select.
LEMMA RestIsSelected ==
    ASSUME IInv, state.terminal, state.watermark = done, done < spoken,
           done + 1 .. spoken \subseteq pending
    PROVE  ~NothingLeft
<1>1. /\ done \in Nat /\ spoken \in Nat /\ spoken <= MaxUtterances /\ MaxUtterances \in Nat
      /\ BatchSize \in Nat \ {0}
  BY NoteAssumption DEF IInv, TypeOK, Sequences0
<1>2. state.final = spoken /\ pending \subseteq 1 .. spoken
  BY DEF IInv, StateIsCurrent, HashIsCurrent, HashAt
<1>3. CASE done + BatchSize <= spoken
  <2> DEFINE last == done + 1 + BatchSize - 1
  <2>1. /\ last \in 1 .. MaxUtterances /\ done + 1 \in 1 .. MaxUtterances
        /\ done + 1 .. last \subseteq done + 1 .. spoken
    BY <1>1, <1>3
  <2>2. Selects(state, done + 1, last)
    BY <2>1 DEF Selects
  <2>3. QED BY <2>1, <2>2 DEF NothingLeft
<1>4. CASE ~(done + BatchSize <= spoken)
  <2>1. /\ done + 1 \in 1 .. MaxUtterances /\ spoken \in 1 .. MaxUtterances
        /\ done + 1 <= spoken /\ spoken < done + 1 + BatchSize - 1 /\ spoken + 1 \notin 1 .. spoken
    BY <1>1, <1>4
  <2>2. Selects(state, done + 1, spoken)
    BY <1>1, <1>2, <2>1 DEF Selects, ContiguousRun
  <2>3. QED BY <2>1, <2>2 DEF NothingLeft
<1>5. QED BY <1>3, <1>4

\* With one worker the tail of an ended meeting is summarized by the time the last
\* task is done, however often tasks fail and are retried and the summary lock
\* expires, unless a failure made a task vanish or left the lock behind for the
\* last of them.
THEOREM TailIsFlushedCorrect ==
    ASSUME \A v, w \in Workers : v = w PROVE Spec => []TailIsFlushed
<1>1. Alone
  BY DEF Alone
<1>2. TailInv => TailIsFlushed
  <2> SUFFICES ASSUME TailInv, Quiet, state.terminal, lost = {} PROVE done = state.final
    BY DEF TailIsFlushed
  <2>1. IInv /\ NothingLeft /\ state.watermark = done
    BY DEF TailInv, HashFollows, EndIsAttended, Attended, Quiet
  <2>2. /\ done \in Nat /\ spoken \in Nat /\ done <= spoken /\ state.final = spoken
    BY <2>1, NoteAssumption
       DEF IInv, TypeOK, Sequences0, StateIsCurrent, HashIsCurrent, HashAt, MarkAt
  <2>3. \A n \in 1 .. spoken : n <= done \/ n \in pending
    <3>1. Len(queue) = 0 /\ \A w \in Workers : task[w] = NoTask
      BY <2>1 DEF Quiet, IInv, StepFitsTask, FitsTask
    <3>2. QED BY <2>1, <3>1 DEF IInv, UtteranceAccounted
  <2>4. done + 1 .. spoken \subseteq pending
    BY <2>2, <2>3
  <2>5. ~(done < spoken)
    BY <2>1, <2>4, RestIsSelected
  <2>6. QED BY <2>2, <2>5
<1>3. QED BY <1>1, <1>2, InitTailInv, StepTailInv, PTL DEF Spec
=============================================================================
