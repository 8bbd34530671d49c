-------------------------- MODULE InterviewSession --------------------------
(****************************************************************************)
(* The live interview transcription of one socket: the registry of sessions *)
(* keyed by socket, the coroutines of the socket's requests and its         *)
(* listener, the turn-taking state of a session, and what happens to a turn *)
(* once it is closed: the Redis context, the answer streamed to the user    *)
(* and the durable row.  All coroutines share one event loop, and nothing   *)
(* locks a session while its events are collected: an action is the code    *)
(* from one await to the next.                                              *)
(****************************************************************************)
EXTENDS Naturals, Sequences, FiniteSets, SequencesExt

CONSTANTS
    MaxStreams,      \* bound on the sessions the socket starts, one stream_id each
    Channels,        \* audio channels, numbered
    Interviewer,     \* the channel of the interviewer
    Handlers,        \* request handlers in flight
    Listener,        \* the listener task of the socket
    None,
    MaxRecent,       \* length of the Redis list
    SaveAttempts,    \* _async_persist_retry_attempts
    MaxEvents,       \* bound on provider events that are not a close
    MaxFaults        \* bound on failures, the provider's errors and timeouts among them

Streams == 1 .. MaxStreams
Tasks == Handlers \cup {Listener}

VARIABLES
    connected,   \* the socket
    registered,  \* _sessions[sid]
    listening,   \* the listener task exists
    session,     \* per stream: state, and per channel its timer, the final text of its open
                 \* turn and (history) whether the end of an utterance was heard last
    link,        \* per stream: the provider connection
    queue,       \* per stream: provider events nobody collected yet
    task,        \* per coroutine: what it awaits and its locals
    deferred,    \* _deferred_events[sid]: streams with a queued error
    recent,      \* the Redis list of closed turns
    answering,   \* _answer_tasks[sid]
    saving,      \* background persistence: turns and attempts left
    durable,     \* interview_utterances
    heard,       \* number of provider events so far
    faults,
    closed,      \* history: turns closed so far
    stored,      \* history: turns Redis has accepted
    dropped      \* history: turns closed whose append failed or was never made

turnVars == <<recent, answering, saving, durable, closed, stored, dropped>>
interviewVars == <<connected, registered, listening, session, link, queue, task, deferred,
                   turnVars, heard, faults>>

States == {"none", "starting", "streaming", "finalizing", "completed", "failed"}
\* "activity" is a partial transcript or the start of speech.
ChannelKinds == {"activity", "final", "end"}
\* "error" stands for every event without a valid channel as well.
StreamKinds == {"finalized", "error", "close"}
Ops == {"none", "start", "audio", "finalize", "stop", "disconnect", "listen", "reap"}
\* The coroutine has the event loop.
Running == {"collect", "finish"}
Awaits == {"idle", "open", "audio_lock", "send", "finalize", "close", "wait", "append",
           "close_finalized", "drain_finalized", "fail"}

Idle == [at |-> "idle", op |-> "none", stream |-> None, todo |-> <<>>, closes |-> FALSE]
NewSession(s) ==
    [state |-> s, timer |-> [c \in Channels |-> "none"],
     text |-> [c \in Channels |-> {}], last |-> [c \in Channels |-> "speech"]]

Turns == [stream : Streams, channel : Channels, text : SUBSET (1 .. MaxEvents)]
Events == [kind : ChannelKinds \cup StreamKinds, channel : Channels, n : 0 .. MaxEvents]

TypeOK ==
    /\ connected \in BOOLEAN
    /\ registered \in Streams \cup {None}
    /\ listening \in BOOLEAN
    /\ session \in [Streams ->
            [state : States, timer : [Channels -> {"none", "running", "due"}],
             text : [Channels -> SUBSET (1 .. MaxEvents)],
             last : [Channels -> {"speech", "end"}]]]
    /\ link \in [Streams -> {"none", "open", "gone", "closed"}]
    /\ queue \in [Streams -> Seq(Events)]
    /\ task \in [Tasks -> [at : Running \cup Awaits, op : Ops, stream : Streams \cup {None},
                           todo : Seq(Turns), closes : BOOLEAN]]
    /\ deferred \subseteq Streams
    /\ recent \in Seq(Turns) /\ Len(recent) <= MaxRecent
    /\ answering \subseteq Turns
    /\ saving \subseteq [turn : Turns, left : 1 .. SaveAttempts]
    /\ durable \subseteq Turns
    /\ heard \in 0 .. MaxEvents
    /\ faults \in 0 .. MaxFaults
    /\ closed \in Seq(Turns)
    /\ stored \in Seq(Turns)
    /\ dropped \subseteq Turns

Init ==
    /\ connected = TRUE
    /\ registered = None
    /\ listening = FALSE
    /\ session = [s \in Streams |-> NewSession("none")]
    /\ link = [s \in Streams |-> "none"]
    /\ queue = [s \in Streams |-> <<>>]
    /\ task = [t \in Tasks |-> Idle]
    /\ deferred = {}
    /\ recent = <<>>
    /\ answering = {}
    /\ saving = {}
    /\ durable = {}
    /\ heard = 0
    /\ faults = 0
    /\ closed = <<>>
    /\ stored = <<>>
    /\ dropped = {}

Fault == faults < MaxFaults /\ faults' = faults + 1

Active(s) == session[s].state \in {"starting", "streaming", "finalizing"}
\* Somebody still looks at the session.
Watched(s) == registered = s \/ \E t \in Tasks : task[t].stream = s
Live(s) == session[s].state \in {"streaming", "finalizing"}

-----------------------------------------------------------------------------
(* STTSession: what provider events and the turn-close timer do to it.      *)

Discarded(S, state) ==
    [S EXCEPT !.state = state, !.timer = [c \in Channels |-> "none"],
              !.text = [c \in Channels |-> {}]]

\* Variant: a transcript does not cancel the pending turn close.
HeardWithoutCancel(S, e) ==
    [S EXCEPT !.last[e.channel] = "speech",
              !.text[e.channel] = @ \cup {e.n}]

HeardFinal(S, e) ==
    [S EXCEPT !.last[e.channel] = "speech",
              !.timer[e.channel] = "none",
              !.text[e.channel] = @ \cup {e.n}]

HeardActivity(S, e) ==
    [S EXCEPT !.last[e.channel] = "speech", !.timer[e.channel] = "none"]

\* A turn without a final fragment stays open.
HeardEnd(S, e) ==
    [S EXCEPT !.last[e.channel] = "end",
              !.timer[e.channel] = IF S.text[e.channel] = {} THEN @ ELSE "running"]

\* Any close but the one asked for is an error; both discard the open turns.
HeardClose(S) ==
    Discarded(S, IF S.state = "finalizing" THEN "completed" ELSE "failed")

Heard(S, e) ==
    CASE e.kind = "final" -> HeardFinal(S, e)
      [] e.kind = "activity" -> HeardActivity(S, e)
      [] e.kind = "end" -> HeardEnd(S, e)
      [] e.kind = "close" -> HeardClose(S)
      [] e.kind = "error" -> Discarded(S, "failed")
      [] OTHER -> S

DueChannels(S) ==
    IF S.state \in {"starting", "streaming", "finalizing"}
    THEN {c \in Channels : S.timer[c] = "due"} ELSE {}

\* Variant: the utterance stays open after its turn was closed.
KeepOpen(S) ==
    [S EXCEPT !.timer = [c \in Channels |-> IF c \in DueChannels(S) THEN "none" ELSE @[c]]]

CloseDue(S) ==
    [S EXCEPT
        !.timer = [c \in Channels |-> IF c \in DueChannels(S) THEN "none" ELSE @[c]],
        !.text = [c \in Channels |-> IF c \in DueChannels(S) THEN {} ELSE @[c]]]

\* The turns CloseDue closes, in the order of the channels.
DueTurns(s, S) ==
    LET TurnOf(c) == [stream |-> s, channel |-> c, text |-> S.text[c]]
        said == {c \in DueChannels(S) : S.text[c] # {}}
        Place(c) == Cardinality({d \in said : d <= c})
    IN  [k \in 1 .. Cardinality(said) |-> TurnOf(CHOOSE c \in said : Place(c) = k)]

\* consume_provider_events: after each event the turns that are due are closed.
Consumed(s, events) ==
    FoldLeft(LAMBDA acc, e :
                 LET S == Heard(acc.sess, e)
                 IN  [sess |-> CloseDue(S), closed |-> acc.closed \o DueTurns(s, S)],
             [sess |-> session[s], closed |-> <<>>],
             events)

\* Speech activity and, after the grace period, the end of a turn.
GraceElapses(s, c) ==
    /\ \A t \in Tasks : task[t].at \notin Running
    /\ Watched(s)
    /\ session[s].timer[c] = "running"
    /\ session' = [session EXCEPT ![s].timer[c] = "due"]
    /\ UNCHANGED <<connected, registered, listening, link, queue, task, deferred, turnVars,
                   heard, faults>>

-----------------------------------------------------------------------------
(* The provider connection.                                                 *)

Produce(s) ==
    /\ \A t \in Tasks : task[t].at \notin Running
    /\ Watched(s)
    /\ link[s] = "open"
    /\ heard < MaxEvents
    /\ heard' = heard + 1
    /\ \E k \in ChannelKinds \cup {"finalized", "error"}, c \in Channels :
        /\ k = "finalized" => session[s].state = "finalizing"
        /\ k \in {"finalized", "error"} => c = Interviewer
        /\ IF k = "error" THEN Fault ELSE UNCHANGED faults
        /\ queue' = [queue EXCEPT ![s] = Append(@, [kind |-> k, channel |-> c, n |-> heard'])]
    /\ UNCHANGED <<connected, registered, listening, session, link, task, deferred, turnVars>>

CloseEvent == [kind |-> "close", channel |-> Interviewer, n |-> 0]

ProviderCloses(s) ==
    /\ \A t \in Tasks : task[t].at \notin Running
    /\ Watched(s)
    /\ link[s] = "open"
    /\ Fault
    /\ link' = [link EXCEPT ![s] = "gone"]
    /\ queue' = [queue EXCEPT ![s] = Append(@, CloseEvent)]
    /\ UNCHANGED <<connected, registered, listening, session, task, deferred, turnVars, heard>>

\* close() of the client: the close event may come too late to be published.
CloseLink(s) ==
    /\ link' = [link EXCEPT ![s] = IF @ = "none" THEN @ ELSE "closed"]
    /\ \/ UNCHANGED queue
       \/ /\ link[s] = "open"
          /\ queue' = [queue EXCEPT ![s] = Append(@, CloseEvent)]

-----------------------------------------------------------------------------
(* Coroutines.                                                              *)

At(t, step) ==
    /\ task[t].at = step
    /\ \A other \in Tasks \ {t} : task[other].at \notin Running

Begin(t, op, s, step) == task' = [task EXCEPT ![t] = [Idle EXCEPT !.at = step, !.op = op, !.stream = s]]
Goto(t, step) == task' = [task EXCEPT ![t].at = step]
End(t) == task' = [task EXCEPT ![t] = Idle]

\* Variant: deferred events outlive the session.
RemoveButDeferred == registered' = None /\ answering' = {} /\ UNCHANGED deferred

\* _remove_session takes whatever the socket has, and cancels its answers.
RemoveSession == registered' = None /\ answering' = {} /\ deferred' = {}

\* A session that has ended is replaced; a second live one is refused.
Start(t) ==
    /\ At(t, "idle") /\ t # Listener
    /\ connected
    /\ registered # None => ~Active(registered)
    /\ \E s \in Streams :
        /\ s = Cardinality({r \in Streams : session[r].state # "none"}) + 1
        /\ session' = [session EXCEPT ![s] = NewSession("starting")]
        /\ registered' = s
        /\ Begin(t, "start", s, "open")
    /\ answering' = IF registered = None THEN answering ELSE {}
    /\ deferred' = {}
    /\ UNCHANGED <<connected, listening, link, queue, recent, saving, durable, closed, stored,
                   dropped, heard, faults>>

\* Whatever happened to the session while the provider was opening, it streams now.
Opened(t) ==
    /\ At(t, "open")
    /\ link' = [link EXCEPT ![task[t].stream] = "open"]
    /\ session' = [session EXCEPT ![task[t].stream].state = "streaming"]
    /\ Goto(t, "collect")
    /\ UNCHANGED <<connected, registered, listening, queue, deferred, turnVars, heard, faults>>

OpenFails(t) ==
    /\ At(t, "open")
    /\ Fault
    /\ session' = [session EXCEPT ![task[t].stream].state = "failed"]
    /\ RemoveSession
    /\ End(t)
    /\ UNCHANGED <<connected, listening, link, queue, recent, saving, durable, closed, stored,
                   dropped, heard>>

\* A request names the stream the socket has registered, or is refused.
Request(t, op, step) ==
    /\ At(t, "idle") /\ t # Listener
    /\ connected
    /\ registered # None
    /\ Begin(t, op, registered, step)

PushAudio(t) ==
    /\ Request(t, "audio", "audio_lock")
    /\ UNCHANGED <<connected, registered, listening, session, link, queue, deferred, turnVars,
                   heard, faults>>

\* Once it has the lock the push looks the session up again.
SendAudio(t) ==
    LET s == task[t].stream IN
    /\ At(t, "audio_lock")
    /\ \A o \in Tasks \ {t} : ~(task[o].at = "send" /\ task[o].stream = s)
    /\ IF registered = s /\ Live(s) THEN Goto(t, "send") ELSE End(t)
    /\ UNCHANGED <<connected, registered, listening, session, link, queue, deferred, turnVars,
                   heard, faults>>

Finalize(t) ==
    /\ Request(t, "finalize", "finalize")
    /\ Live(registered)
    /\ session' = [session EXCEPT ![registered].state = "finalizing"]
    /\ UNCHANGED <<connected, registered, listening, link, queue, deferred, turnVars, heard,
                   faults>>

\* The provider took the audio or the finalize message.
Sent(t) ==
    /\ At(t, "send") \/ At(t, "finalize")
    /\ link[task[t].stream] = "open"
    /\ Goto(t, "collect")
    /\ UNCHANGED <<connected, registered, listening, session, link, queue, deferred, turnVars,
                   heard, faults>>

SendFails(t) ==
    /\ At(t, "send") \/ At(t, "finalize")
    /\ \/ link[task[t].stream] # "open" /\ UNCHANGED faults
       \/ Fault
    /\ Goto(t, "fail")
    /\ UNCHANGED <<connected, registered, listening, session, link, queue, deferred, turnVars,
                   heard>>

\* A stop closes the provider at once, whatever the session does.
Stop(t) ==
    /\ Request(t, "stop", IF Active(registered) THEN "close" ELSE "collect")
    /\ session' = IF Active(registered)
                  THEN [session EXCEPT ![registered].state = "finalizing"] ELSE session
    /\ UNCHANGED <<connected, registered, listening, link, queue, deferred, turnVars, heard,
                   faults>>

\* handle_disconnect closes without asking the session to finalize.
Disconnect(t) ==
    /\ Request(t, "disconnect", IF Active(registered) THEN "close" ELSE "finish")
    /\ connected' = FALSE
    /\ UNCHANGED <<registered, listening, session, link, queue, deferred, turnVars, heard,
                   faults>>

Closed(t) ==
    /\ At(t, "close")
    /\ CloseLink(task[t].stream)
    /\ Goto(t, "collect")
    /\ UNCHANGED <<connected, registered, listening, session, deferred, turnVars, heard, faults>>

\* _fail_live_session: close the provider, fail the session, forget the socket's.
FailSession(t) ==
    /\ At(t, "fail")
    /\ CloseLink(task[t].stream)
    /\ session' = [session EXCEPT ![task[t].stream] = Discarded(@, "failed")]
    /\ RemoveSession
    /\ Goto(t, "finish")
    /\ UNCHANGED <<connected, listening, recent, saving, durable, closed, stored, dropped,
                   heard, faults>>

-----------------------------------------------------------------------------
(* The listener.                                                            *)

Listen ==
    /\ At(Listener, "idle")
    /\ listening
    /\ \/ /\ registered = None
          /\ listening' = FALSE
          /\ UNCHANGED task
       \/ /\ registered # None
          /\ Begin(Listener, "listen", registered, "collect")
          /\ UNCHANGED listening
    /\ UNCHANGED <<connected, registered, session, link, queue, deferred, turnVars, heard, faults>>

\* After a quiet round: an inactive session is forgotten, one that got no audio
\* or stopped sending fails, one that waits for its end is closed.
Reap ==
    /\ At(Listener, "idle")
    /\ listening
    /\ registered # None
    /\ \/ /\ ~Active(registered)
          /\ RemoveSession
          /\ UNCHANGED <<task, faults>>
       \/ /\ Active(registered)
          /\ \/ Fault /\ Begin(Listener, "reap", registered, "fail")
             \/ /\ session[registered].state = "finalizing"
                /\ Begin(Listener, "reap", registered, "close")
                /\ UNCHANGED faults
          /\ UNCHANGED <<registered, deferred, answering>>
    /\ UNCHANGED <<connected, listening, session, link, queue, recent, saving, durable, closed,
                   stored, dropped, heard>>

-----------------------------------------------------------------------------
(* _collect_session_events.                                                 *)

\* The events of s are applied and the turns they close are to be stored.
Apply(t, result, events) ==
    LET s == task[t].stream
        closes == session[s].state = "finalizing" /\ \E k \in DOMAIN events :
                      events[k].kind = "finalized"
        next == IF result.closed # <<>> THEN "append"
                ELSE IF closes /\ result.sess.state = "finalizing" THEN "close_finalized"
                ELSE "finish"
    IN  /\ session' = [session EXCEPT ![s] = result.sess]
        /\ closed' = closed \o result.closed
        /\ task' = [task EXCEPT ![t].at = next, ![t].todo = result.closed,
                                ![t].closes = closes]

DueResult(s) == [sess |-> CloseDue(session[s]), closed |-> DueTurns(s, session[s])]

Waits(t) == task[t].op \in {"stop", "disconnect", "listen"}

Collect(t) ==
    LET s == task[t].stream IN
    /\ At(t, "collect")
    /\ \/ /\ deferred # {}
          /\ deferred' = {}
          /\ Goto(t, "finish")
          /\ UNCHANGED <<session, queue, closed, faults>>
       \/ /\ deferred = {} /\ DueTurns(s, session[s]) # <<>>
          /\ Apply(t, DueResult(s), <<>>)
          /\ UNCHANGED <<queue, deferred, faults>>
       \/ /\ deferred = {} /\ DueTurns(s, session[s]) = <<>>
          /\ queue[s] # <<>>
          /\ Apply(t, Consumed(s, queue[s]), queue[s])
          /\ queue' = [queue EXCEPT ![s] = <<>>]
          /\ UNCHANGED <<deferred, faults>>
       \/ /\ deferred = {} /\ DueTurns(s, session[s]) = <<>> /\ queue[s] = <<>>
          /\ \/ Waits(t) /\ Goto(t, "wait") /\ UNCHANGED faults
             \/ ~Waits(t) /\ Goto(t, "finish") /\ UNCHANGED faults
             \* the keepalive fails
             \/ ~Waits(t) /\ Active(s) /\ Fault /\ Goto(t, "fail")
          /\ UNCHANGED <<session, queue, deferred, closed>>
    /\ UNCHANGED <<connected, registered, listening, link, recent, answering, saving, durable,
                   stored, dropped, heard>>

EventComes(t) ==
    LET s == task[t].stream IN
    /\ At(t, "wait")
    /\ queue[s] # <<>>
    /\ Apply(t, Consumed(s, queue[s]), queue[s])
    /\ queue' = [queue EXCEPT ![s] = <<>>]
    /\ UNCHANGED <<connected, registered, listening, link, deferred, recent, answering, saving,
                   durable, stored, dropped, heard, faults>>

WaitTimesOut(t) ==
    LET s == task[t].stream IN
    /\ At(t, "wait")
    /\ queue[s] = <<>>
    /\ \/ DueTurns(s, session[s]) # <<>> /\ Apply(t, DueResult(s), <<>>) /\ UNCHANGED faults
       \/ /\ DueTurns(s, session[s]) = <<>>
          /\ \/ Goto(t, "finish") /\ UNCHANGED faults
             \/ Active(s) /\ Fault /\ Goto(t, "fail")
          /\ UNCHANGED <<session, closed>>
    /\ UNCHANGED <<connected, registered, listening, link, queue, deferred, recent, answering,
                   saving, durable, stored, dropped, heard>>

\* The step after the last append.
AfterAppend(t) ==
    IF Len(task[t].todo) > 1 THEN "append"
    ELSE IF task[t].closes /\ Active(task[t].stream) THEN "close_finalized"
    ELSE "finish"

\* append_closed_utterance, and the two tasks its success schedules.
StoreTurn(t) ==
    LET u == Head(task[t].todo)
        list == Append(recent, u)
    IN
    /\ At(t, "append")
    /\ recent' = SubSeq(list, IF Len(list) > MaxRecent THEN 2 ELSE 1, Len(list))
    /\ stored' = Append(stored, u)
    /\ answering' = IF u.channel = Interviewer
                    THEN answering \cup {u} ELSE answering
    /\ saving' = saving \cup {[turn |-> u, left |-> SaveAttempts]}
    /\ task' = [task EXCEPT ![t].at = AfterAppend(t), ![t].todo = Tail(@)]
    /\ UNCHANGED <<connected, registered, listening, session, link, queue, deferred, durable,
                   closed, dropped, heard, faults>>

StoreFails(t) ==
    /\ At(t, "append")
    /\ Fault
    /\ dropped' = dropped \cup {Head(task[t].todo)}
    /\ task' = [task EXCEPT ![t].at = AfterAppend(t), ![t].todo = Tail(@)]
    /\ UNCHANGED <<connected, registered, listening, session, link, queue, deferred, recent,
                   answering, saving, durable, closed, stored, heard>>

\* _close_finalized_session: close, then take what came, or make up a close.
CloseFinalized(t) ==
    /\ At(t, "close_finalized")
    /\ CloseLink(task[t].stream)
    /\ Goto(t, "drain_finalized")
    /\ UNCHANGED <<connected, registered, listening, session, deferred, turnVars, heard, faults>>

\* Turns closed here are announced but never stored.
DrainFinalized(t) ==
    LET s == task[t].stream
        result == Consumed(s, IF queue[s] = <<>> THEN <<CloseEvent>> ELSE queue[s])
    IN
    /\ At(t, "drain_finalized")
    /\ session' = [session EXCEPT ![s] = result.sess]
    /\ closed' = closed \o result.closed
    /\ dropped' = dropped \cup ToSet(result.closed)
    /\ queue' = [queue EXCEPT ![s] = <<>>]
    /\ Goto(t, "finish")
    /\ UNCHANGED <<connected, registered, listening, link, deferred, recent, answering, saving,
                   durable, stored, heard, faults>>

\* The end of a handler or of a round of the listener.  A stop or a disconnect
\* forgets the session and cancels the listener with what it had in hand.
Finish(t) ==
    LET final == task[t].op \in {"stop", "disconnect"}
        over == final \/ task[t].op = "reap" \/ ~Active(task[t].stream)
    IN
    /\ At(t, "finish")
    /\ IF over THEN RemoveSession ELSE UNCHANGED <<registered, answering, deferred>>
    /\ task' = [u \in Tasks |-> IF u = t \/ (final /\ u = Listener) THEN Idle ELSE task[u]]
    /\ dropped' = IF final THEN dropped \cup ToSet(task[Listener].todo) ELSE dropped
    /\ listening' = (task[t].op = "start" \/ (listening /\ ~final))
    /\ UNCHANGED <<connected, session, link, queue, recent, saving, durable, closed, stored,
                   heard, faults>>

-----------------------------------------------------------------------------
(* Background work on a stored turn.                                        *)

\* build_context_window: the recent turns of Redis, completed with durable rows
\* when the turn itself is not there, in the order in which they were closed.
Known(u, list, rows) ==
    {u} \cup ToSet(list) \cup (IF u \in ToSet(list) THEN {} ELSE rows)

ContextWindow(u, list, rows, order, limit) ==
    LET all == SelectSeq(order, LAMBDA v : v \in Known(u, list, rows))
        first == IF Len(all) > limit THEN Len(all) - limit + 1 ELSE 1
    IN  SubSeq(all, first, Len(all))

\* The answer was streamed to its end, or the context, the model or the socket failed.
AnswerEnds(u) ==
    /\ \A t \in Tasks : task[t].at \notin Running
    /\ answering' = answering \ {u}
    /\ UNCHANGED <<connected, registered, listening, session, link, queue, task, deferred,
                   recent, saving, durable, closed, stored, dropped, heard, faults>>

\* The row's id is the utterance's: writing it again changes nothing.
SaveTurn(p) ==
    /\ \A t \in Tasks : task[t].at \notin Running
    /\ durable' = durable \cup {p.turn}
    /\ saving' = saving \ {p}
    /\ UNCHANGED <<connected, registered, listening, session, link, queue, task, deferred,
                   recent, answering, closed, stored, dropped, heard, faults>>

\* Variant: the error is queued for whatever session the socket has.
SaveFailsAnyStream(p) ==
    /\ \A t \in Tasks : task[t].at \notin Running
    /\ Fault
    /\ saving' = (saving \ {p}) \cup
                 (IF p.left > 1 THEN {[p EXCEPT !.left = @ - 1]} ELSE {})
    /\ deferred' = IF p.left = 1 /\ registered # None
                   THEN deferred \cup {p.turn.stream} ELSE deferred
    /\ UNCHANGED <<connected, registered, listening, session, link, queue, task, durable,
                   recent, answering, closed, stored, dropped, heard>>

\* The last attempt queues an error for the stream, if the socket still has it.
SaveFails(p) ==
    /\ \A t \in Tasks : task[t].at \notin Running
    /\ Fault
    /\ saving' = (saving \ {p}) \cup
                 (IF p.left > 1 THEN {[p EXCEPT !.left = @ - 1]} ELSE {})
    /\ deferred' = IF p.left = 1 /\ registered = p.turn.stream
                   THEN deferred \cup {p.turn.stream} ELSE deferred
    /\ UNCHANGED <<connected, registered, listening, session, link, queue, task, durable,
                   recent, answering, closed, stored, dropped, heard>>

-----------------------------------------------------------------------------
Coroutine(t) ==
    \/ Start(t) \/ Opened(t) \/ OpenFails(t)
    \/ PushAudio(t) \/ SendAudio(t) \/ Finalize(t) \/ Sent(t) \/ SendFails(t)
    \/ Stop(t) \/ Disconnect(t) \/ Closed(t) \/ FailSession(t)
    \/ Collect(t) \/ EventComes(t) \/ WaitTimesOut(t) \/ StoreTurn(t) \/ StoreFails(t)
    \/ CloseFinalized(t) \/ DrainFinalized(t) \/ Finish(t)

Next ==
    \/ \E t \in Tasks : Coroutine(t)
    \/ Listen \/ Reap
    \/ \E s \in Streams : Produce(s) \/ ProviderCloses(s)
    \/ \E s \in Streams, c \in Channels : GraceElapses(s, c)
    \/ \E u \in answering : AnswerEnds(u)
    \/ \E p \in saving : SaveTurn(p) \/ SaveFails(p)

Spec == Init /\ [][Next]_interviewVars

-----------------------------------------------------------------------------
\* The grace timer of a channel runs only while the speaker is quiet: the last
\* thing heard on the channel is the end of an utterance that has final text
\* (_turn_close_deadlines against resumed speech, errors and closes).
PendingTurnIsQuiet ==
    \A s \in Streams, c \in Channels :
        session[s].timer[c] # "none" =>
            /\ session[s].last[c] = "end"
            /\ session[s].text[c] # {}

Distinct(seq) == \A i, j \in DOMAIN seq : i # j => seq[i] # seq[j]

\* However the collectors overlap, no fragment is part of two turns, every turn
\* that was closed is in exactly one place (in the hands of one coroutine, in
\* Redis, or given up), and only turns in Redis are once and for the
\* interviewer only, or become durable.
TurnsKept ==
    LET pending == {t \in Tasks : task[t].todo # <<>>} IN
    /\ \A i, j \in DOMAIN closed :
        i # j /\ closed[i].stream = closed[j].stream => closed[i].text \cap closed[j].text = {}
    /\ \A i \in DOMAIN closed, c \in Channels :
        closed[i].text \cap session[closed[i].stream].text[c] = {}
    /\ Distinct(stored)
    /\ ToSet(closed) = ToSet(stored) \cup dropped \cup UNION {ToSet(task[t].todo) : t \in pending}
    /\ ToSet(stored) \cap dropped = {}
    /\ \A t \in pending : ToSet(task[t].todo) \cap (ToSet(stored) \cup dropped) = {}
    /\ durable \cup {p.turn : p \in saving} \subseteq ToSet(stored)
    /\ answering \subseteq {u \in ToSet(stored) : u.channel = Interviewer}

\* An error queued by the background persistence of a stream is only ever given
\* to that stream: it goes with the session (_queue_deferred_event against the
\* removal and the replacement of sessions).
DeferredBelongsToSession == deferred \subseteq {registered}
=============================================================================
