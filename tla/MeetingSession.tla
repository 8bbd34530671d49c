--------------------------- MODULE MeetingSession ---------------------------
(****************************************************************************)
(* The live transcription sessions of one socket: the registry and its lock *)
(* per session, the handlers of the socket's requests, the listener task    *)
(* and the provider connection.  Everything runs on one event loop, where a *)
(* coroutine keeps running until it awaits: an action is the code from one  *)
(* await to the next, and what a coroutine does with several provider       *)
(* events in a row is one action per event during which nobody else moves.  *)
(****************************************************************************)
EXTENDS Naturals, Sequences, FiniteSets

CONSTANTS
    Meetings,        \* sessions the socket may start; each has its own stream_id
    Handlers,        \* request handlers in flight
    Listener,        \* the listener task of the socket
    None,
    MaxEvents,       \* bound on provider events that are not a close
    MaxFailures,     \* bound on failures of every kind
    Overlapping      \* requests that may arrive while a start is being handled

Procs == Handlers \cup {Listener}

ASSUME SessionAssumption ==
    /\ Listener \notin Handlers
    /\ None \notin Meetings \cup Procs
    /\ MaxEvents \in Nat
    /\ MaxFailures \in Nat
    /\ Overlapping \subseteq {"start", "audio", "finish", "disconnect"}

VARIABLES
    connected,   \* the socket
    registry,    \* _sessions[sid]
    lock,        \* per session: who holds its entry of _locks
    state,       \* per session: state
    goal,        \* per session: _terminal_state_on_close
    words,       \* per session: the open utterance has final words
    seq,         \* per session: last_allocated_sequence
    durable,     \* the meetings collection: status
    conn,        \* per session: the provider connection, gone once the provider closed it
    events,      \* per session: provider events nobody collected yet
    pushed,      \* per session: note tasks that reached the queue
    proc,        \* per coroutine: the call it awaits and its locals
    spoken,      \* number of provider events so far
    failures,
    lost         \* history: sessions whose tasks or terminal write failed

sessionVars == <<state, goal, words, seq>>
vars == <<connected, registry, lock, sessionVars, durable, conn, events, pushed,
          proc, spoken, failures, lost>>

Terminal == {"completed", "interrupted", "failed"}
Status   == {"none", "streaming", "finalizing"} \cup Terminal
Active(m) == state[m] \in {"streaming", "finalizing"}

ProviderEvents == {"words", "end", "flushed", "garbled", "error", "close"}
Tasks == [kind : {"utterance", "completed", "interrupted"}, n : Nat]

Ops   == {"none", "start", "audio", "finish", "disconnect", "listen"}
\* The coroutine has not yielded.
Running == {"enter", "collect", "consume", "collected"}
Awaits ==
    {"member", "create", "open", "start_failed", "wait", "send", "next_event",
     "keepalive", "write_failed", "close_failed", "write_terminal", "close", "push",
     "write_finalizing", "finalize", "fail", "fail_write", "fail_close", "emit"}
Steps == {"idle"} \cup Running \cup Awaits

Idle == [step |-> "idle", op |-> "none", sess |-> None, key |-> None, todo |-> <<>>,
         out |-> <<>>, closing |-> <<>>, flush |-> FALSE, drain |-> FALSE,
         broken |-> FALSE]

TypeOK ==
    /\ connected \in BOOLEAN
    /\ registry \in Meetings \cup {None}
    /\ lock \in [Meetings -> Procs \cup {None}]
    /\ state \in [Meetings -> Status]
    /\ goal \in [Meetings -> {"completed", "interrupted"}]
    /\ words \in [Meetings -> BOOLEAN]
    /\ seq \in [Meetings -> Nat]
    /\ durable \in [Meetings -> Status]
    /\ conn \in [Meetings -> {"none", "open", "gone", "closed"}]
    /\ events \in [Meetings -> Seq(ProviderEvents)]
    /\ pushed \in [Meetings -> Seq(Tasks)]
    /\ proc \in [Procs -> [step : Steps, op : Ops, sess : Meetings \cup {None},
                           key : Meetings \cup {None}, todo : Seq(ProviderEvents),
                           out : Seq(Tasks), closing : Seq(Tasks), flush : BOOLEAN,
                           drain : BOOLEAN, broken : BOOLEAN]]
    /\ spoken \in 0 .. MaxEvents
    /\ failures \in 0 .. MaxFailures
    /\ lost \subseteq Meetings

Init ==
    /\ connected = TRUE
    /\ registry = None
    /\ lock = [m \in Meetings |-> None]
    /\ state = [m \in Meetings |-> "none"]
    /\ goal = [m \in Meetings |-> "completed"]
    /\ words = [m \in Meetings |-> FALSE]
    /\ seq = [m \in Meetings |-> 0]
    /\ durable = [m \in Meetings |-> "none"]
    /\ conn = [m \in Meetings |-> "none"]
    /\ events = [m \in Meetings |-> <<>>]
    /\ pushed = [m \in Meetings |-> <<>>]
    /\ proc = [p \in Procs |-> Idle]
    /\ spoken = 0
    /\ failures = 0
    /\ lost = {}

Fail ==
    /\ failures < MaxFailures
    /\ failures' = failures + 1

\* The event loop is free, or p has it.
CanRun(p) == \A other \in Procs \ {p} : proc[other].step \notin Running

At(p, step) == proc[p].step = step /\ CanRun(p)

Goto(p, step) == proc' = [proc EXCEPT ![p].step = step]
Stop(p)       == proc' = [proc EXCEPT ![p] = Idle]

Held(p)       == {m \in Meetings : lock[m] = p}
Release(p)    == lock' = [m \in Meetings |-> IF lock[m] = p THEN None ELSE lock[m]]

\* The socket has a session that is not over.
InUse == registry # None /\ Active(registry)

\* discard_session takes whatever session the socket has.
DiscardIfOver(m) == registry' = IF Active(m) THEN registry ELSE None

-----------------------------------------------------------------------------
(* meeting_start: a membership check, the record, the provider.             *)

Opening == {"member", "create", "open", "start_failed"}

\* Unless Overlapping says more, a client starts a meeting when it has none and nothing
\* of an earlier one goes on, and does nothing else until the meeting has started.
StartRequest(h) ==
    /\ At(h, "idle") /\ h # Listener
    /\ connected
    /\ \/ "start" \in Overlapping
       \/ /\ ~InUse
          /\ \A other \in Procs : proc[other].step = "idle"
    /\ proc' = [proc EXCEPT ![h].step = "member", ![h].op = "start"]
    /\ UNCHANGED <<connected, registry, lock, sessionVars, durable, conn, events,
                   pushed, spoken, failures, lost>>

\* An active session makes the request fail.
Member(h) ==
    /\ At(h, "member")
    /\ \/ /\ InUse
          /\ Stop(h)
          /\ UNCHANGED <<registry, state>>
       \/ /\ ~InUse
          /\ \E m \in Meetings :
              /\ state[m] = "none"
              /\ state' = [state EXCEPT ![m] = "streaming"]
              /\ registry' = m
              /\ proc' = [proc EXCEPT ![h].step = "create", ![h].sess = m]
    /\ UNCHANGED <<connected, lock, goal, words, seq, durable, conn, events, pushed,
                   spoken, failures, lost>>

Create(h) ==
    /\ At(h, "create")
    /\ \/ /\ durable' = [durable EXCEPT ![proc[h].sess] = "streaming"]
          /\ Goto(h, "open")
          /\ UNCHANGED <<registry, failures>>
       \/ /\ Fail
          /\ registry' = None
          /\ Stop(h)
          /\ UNCHANGED durable
    /\ UNCHANGED <<connected, lock, sessionVars, conn, events, pushed, spoken, lost>>

\* Nothing can have arrived when open returns, so the collection that follows it
\* finds no event.
Open(h) ==
    LET m == proc[h].sess
    IN  /\ At(h, "open")
        /\ \/ /\ conn' = [conn EXCEPT ![m] = "open"]
              /\ DiscardIfOver(m)
              /\ Goto(h, "emit")
              /\ UNCHANGED <<state, words, failures>>
           \/ /\ Fail
              /\ state' = [state EXCEPT ![m] = "failed"]
              /\ words' = [words EXCEPT ![m] = FALSE]
              /\ Goto(h, "start_failed")
              /\ UNCHANGED <<conn, registry>>
        /\ UNCHANGED <<connected, lock, goal, seq, durable, events, pushed, spoken, lost>>

StartFailed(h) ==
    /\ At(h, "start_failed")
    /\ \/ /\ durable' = [durable EXCEPT ![proc[h].sess] = "failed"]
          /\ UNCHANGED <<failures, lost>>
       \/ /\ Fail
          /\ lost' = lost \cup {proc[h].sess}
          /\ UNCHANGED durable
    /\ registry' = None
    /\ Stop(h)
    /\ UNCHANGED <<connected, lock, sessionVars, conn, events, pushed, spoken>>

-----------------------------------------------------------------------------
(* Requests about a session take the lock it has when they arrive, and look *)
(* again at the registry once they have it.                                 *)

\* A lock nobody has or waits for is taken without yielding.
Waiting(p, m) == proc[p].step = "wait" /\ proc[p].key = m
Entry(m) == IF lock[m] = None /\ \A p \in Procs : ~Waiting(p, m) THEN "enter" ELSE "wait"

\* Variant: nobody waits for the lock.
TurnAtOnce(p) == At(p, "enter") \/ At(p, "wait")

\* It is p's turn to take the lock it asked for.
Turn(p) == (At(p, "enter") \/ At(p, "wait")) /\ lock[proc[p].key] = None

Request(h, op) ==
    /\ At(h, "idle") /\ h # Listener
    /\ connected
    /\ op \in Overlapping \/ \A other \in Handlers : proc[other].step \notin Opening
    /\ \/ /\ registry # None
          /\ proc' = [proc EXCEPT ![h].step = Entry(registry), ![h].op = op,
                        ![h].key = registry]
       \/ /\ registry = None /\ op = "disconnect"
          /\ proc' = [proc EXCEPT ![h].step = "emit", ![h].op = op]
    /\ connected' = (op # "disconnect")
    /\ UNCHANGED <<registry, lock, sessionVars, durable, conn, events, pushed, spoken,
                   failures, lost>>

\* The session is gone, over, or not the one of the request's stream.
Refused(p) ==
    \/ registry = None
    \/ proc[p].op \in {"audio", "finish"} /\ (registry # proc[p].key \/ ~InUse)
    \/ proc[p].op = "disconnect" /\ ~InUse

Refuse(p) ==
    /\ Turn(p)
    /\ Refused(p)
    /\ IF proc[p].op = "disconnect"
       THEN registry' = None /\ Goto(p, "emit")
       ELSE Stop(p) /\ UNCHANGED registry
    /\ UNCHANGED <<connected, lock, sessionVars, durable, conn, events, pushed, spoken,
                   failures, lost>>

\* request_finalize and request_interrupt wait for the record of the meeting to be
\* updated if there is one.
Acquire(p) ==
    LET m == registry
    IN  /\ Turn(p)
        /\ ~Refused(p)
        /\ lock' = [lock EXCEPT ![proc[p].key] = p]
        /\ \/ /\ proc[p].op \in {"audio", "listen"}
              /\ proc' = [proc EXCEPT ![p].sess = m,
                            ![p].step = IF proc[p].op = "audio" THEN "send" ELSE "collect"]
              /\ UNCHANGED <<state, goal>>
           \/ /\ proc[p].op \in {"finish", "disconnect"}
              /\ state' = [state EXCEPT ![m] = "finalizing"]
              /\ goal' = [goal EXCEPT ![m] = IF proc[p].op = "finish" THEN "completed"
                                                                      ELSE "interrupted"]
              /\ proc' = [proc EXCEPT ![p].sess = m,
                            ![p].step = IF durable[m] = "none" THEN "finalize"
                                                               ELSE "write_finalizing"]
        /\ UNCHANGED <<connected, registry, words, seq, durable, conn, events, pushed,
                       spoken, failures, lost>>

WriteFinalizing(p) ==
    /\ At(p, "write_finalizing")
    /\ \/ /\ durable' = [durable EXCEPT ![proc[p].sess] = "finalizing"]
          /\ Goto(p, "finalize")
          /\ UNCHANGED <<lock, failures>>
       \/ /\ Fail
          /\ Release(p)
          /\ Stop(p)
          /\ UNCHANGED durable
    /\ UNCHANGED <<connected, registry, sessionVars, conn, events, pushed, spoken, lost>>

\* send_audio, send_keepalive and finalize reach the provider.
Reaches(p) == conn[proc[p].sess] = "open" /\ UNCHANGED failures
\* There is no connection, or the call raises.
Misses(p)  == (conn[proc[p].sess] # "open" /\ UNCHANGED failures) \/ Fail

\* A failure of send_audio is handled after the lock is released.
Send(p) ==
    /\ \/ /\ At(p, "send")
          /\ \/ Reaches(p) /\ Goto(p, "collect") /\ UNCHANGED lock
             \/ Misses(p) /\ Release(p) /\ Goto(p, "fail")
       \/ /\ At(p, "finalize")
          /\ \/ Reaches(p) /\ Goto(p, "collect")
             \/ Misses(p) /\ Goto(p, "fail")
          /\ UNCHANGED lock
       \/ /\ At(p, "keepalive")
          /\ \/ Reaches(p) /\ Goto(p, "collected")
             \/ Misses(p) /\ Goto(p, "fail")
          /\ UNCHANGED lock
    /\ UNCHANGED <<connected, registry, sessionVars, durable, conn, events, pushed,
                   spoken, lost>>

-----------------------------------------------------------------------------
(* _collect_session_events: take what the provider sent, apply it to the    *)
(* session, push the tasks that come out of it.                             *)

Waits(p) == proc[p].op = "listen" \/ proc[p].drain

\* Take every event.  A session that is finalizing closes once the provider has
\* acknowledged the flush.
Take(p) ==
    LET m == proc[p].sess
    IN  /\ events[m] # <<>>
        /\ events' = [events EXCEPT ![m] = <<>>]
        /\ proc' = [proc EXCEPT ![p].step = "consume", ![p].todo = events[m],
                      ![p].flush = /\ state[m] = "finalizing"
                                   /\ \E i \in DOMAIN events[m] : events[m][i] = "flushed"]

\* Nothing arrived: a session that is streaming may be due for a keepalive.
Rest(p) ==
    \/ Goto(p, "collected")
    \/ state[proc[p].sess] = "streaming" /\ Goto(p, "keepalive")

Collect(p) ==
    /\ \/ /\ At(p, "collect")
          /\ \/ Take(p)
             \/ /\ events[proc[p].sess] = <<>>
                /\ IF Waits(p) THEN Goto(p, "next_event") ELSE Rest(p)
                /\ UNCHANGED events
       \/ /\ At(p, "next_event")
          /\ \/ Take(p)
             \/ events[proc[p].sess] = <<>> /\ Rest(p) /\ UNCHANGED events
    /\ UNCHANGED <<connected, registry, lock, sessionVars, durable, conn, pushed,
                   spoken, failures, lost>>

Utterance(n)  == [kind |-> "utterance", n |-> n]
\* What closing the open utterance of m adds to the output.
Flushed(m) == IF words[m] THEN <<Utterance(seq[m] + 1)>> ELSE <<>>

\* Variants: the counter does not move, or moves the wrong way.
FlushUncounted(m) ==
    /\ words' = [words EXCEPT ![m] = FALSE]
    /\ UNCHANGED seq
FlushBackwards(m) ==
    /\ seq' = [seq EXCEPT ![m] = @ - Len(Flushed(m))]
    /\ words' = [words EXCEPT ![m] = FALSE]

Flush(m) ==
    /\ seq' = [seq EXCEPT ![m] = @ + Len(Flushed(m))]
    /\ words' = [words EXCEPT ![m] = FALSE]

\* fail: the state changes before the record does.
FailSession(p, rest, broken) ==
    LET m == proc[p].sess
    IN  /\ state' = [state EXCEPT ![m] = "failed"]
        /\ words' = [words EXCEPT ![m] = FALSE]
        /\ proc' = [proc EXCEPT ![p].step = "write_failed", ![p].todo = rest,
                      ![p].closing = <<>>, ![p].broken = broken]

\* One provider event.  An event that raises ends the batch.
Consume(p) ==
    LET m    == proc[p].sess
        e    == Head(proc[p].todo)
        rest == Tail(proc[p].todo)
    IN  /\ At(p, "consume")
        /\ proc[p].todo # <<>>
        /\ \/ /\ e = "words"
              /\ words' = [words EXCEPT ![m] = TRUE]
              /\ proc' = [proc EXCEPT ![p].todo = rest]
              /\ UNCHANGED <<state, seq>>
           \/ /\ e = "end"
              /\ Flush(m)
              /\ proc' = [proc EXCEPT ![p].todo = rest, ![p].out = @ \o Flushed(m)]
              /\ UNCHANGED state
           \/ /\ e = "flushed" \/ (e = "close" /\ ~Active(m))
              /\ proc' = [proc EXCEPT ![p].todo = rest]
              /\ UNCHANGED <<state, words, seq>>
           \/ /\ e = "close" /\ state[m] = "finalizing"
              /\ Flush(m)
              /\ state' = [state EXCEPT ![m] = goal[m]]
              /\ proc' = [proc EXCEPT ![p].step = "write_terminal", ![p].todo = rest,
                            ![p].closing = Flushed(m)]
           \/ /\ e = "error" \/ (e = "close" /\ state[m] = "streaming")
              /\ FailSession(p, rest, FALSE)
              /\ UNCHANGED seq
           \/ /\ e = "garbled"
              /\ FailSession(p, <<>>, TRUE)
              /\ UNCHANGED seq
        /\ UNCHANGED <<connected, registry, lock, goal, durable, conn, events, pushed,
                       spoken, failures, lost>>

\* Variant: the end of the meeting goes before its last utterance.
WriteTerminalFirst(p) ==
    LET m == proc[p].sess
    IN  /\ At(p, "write_terminal")
        /\ durable' = [durable EXCEPT ![m] = goal[m]]
        /\ proc' = [proc EXCEPT ![p].step = "consume", ![p].closing = <<>>,
                      ![p].out = @ \o <<[kind |-> goal[m], n |-> seq[m]]>>
                                   \o proc[p].closing]
        /\ UNCHANGED <<connected, registry, lock, sessionVars, conn, events, pushed,
                       spoken, failures, lost>>

\* _handle_close_event; when the write raises, its output is lost.
WriteTerminal(p) ==
    LET m == proc[p].sess
    IN  /\ At(p, "write_terminal")
        /\ \/ /\ durable' = [durable EXCEPT ![m] = goal[m]]
              /\ proc' = [proc EXCEPT ![p].step = "consume", ![p].closing = <<>>,
                            ![p].out = @ \o proc[p].closing
                                         \o <<[kind |-> goal[m], n |-> seq[m]]>>]
              /\ UNCHANGED <<state, words, failures, lost>>
           \/ /\ Fail
              /\ FailSession(p, <<>>, TRUE)
              /\ lost' = lost \cup {m}
              /\ UNCHANGED durable
        /\ UNCHANGED <<connected, registry, lock, goal, seq, conn, events, pushed, spoken>>

\* The write of a failure: the first time it raises it is tried once more, the
\* second time the coroutine gives up with everything it collected.
WriteFailed(p) ==
    LET m == proc[p].sess
    IN  /\ At(p, "write_failed")
        /\ \/ /\ durable' = [durable EXCEPT ![m] = IF @ = "none" THEN @ ELSE "failed"]
              /\ Goto(p, "close_failed")
              /\ UNCHANGED <<lock, failures, lost>>
           \/ /\ Fail
              /\ lost' = lost \cup {m}
              /\ IF proc[p].broken
                 THEN Release(p) /\ Stop(p)
                 ELSE /\ proc' = [proc EXCEPT ![p].todo = <<>>, ![p].broken = TRUE]
                      /\ UNCHANGED lock
              /\ UNCHANGED durable
        /\ UNCHANGED <<connected, registry, sessionVars, conn, events, pushed, spoken>>

Closed(m) == conn' = [conn EXCEPT ![m] = IF @ = "none" THEN @ ELSE "closed"]

CloseFailed(p) ==
    /\ At(p, "close_failed")
    /\ Closed(proc[p].sess)
    /\ Goto(p, "consume")
    /\ UNCHANGED <<connected, registry, lock, sessionVars, durable, events, pushed,
                   spoken, failures, lost>>

\* The batch is done.  After an acknowledged flush the provider is closed.
Consumed(p) ==
    LET m == proc[p].sess
    IN  /\ At(p, "consume")
        /\ proc[p].todo = <<>>
        /\ \/ /\ proc[p].flush /\ Active(m)
              /\ Flush(m)
              /\ proc' = [proc EXCEPT ![p].step = "close", ![p].flush = FALSE,
                            ![p].out = @ \o Flushed(m)]
           \/ /\ ~(proc[p].flush /\ Active(m))
              /\ Goto(p, IF proc[p].out = <<>> THEN "collected" ELSE "push")
              /\ UNCHANGED <<seq, words>>
        /\ UNCHANGED <<connected, registry, lock, state, goal, durable, conn, events,
                       pushed, spoken, failures, lost>>

\* Variant: the close is made up, the connection stays.
CloseUnsent(p) ==
    /\ At(p, "close")
    /\ events' = [events EXCEPT ![proc[p].sess] = <<>>]
    /\ proc' = [proc EXCEPT ![p].step = "consume",
                  ![p].todo = Append(events[proc[p].sess], "close")]
    /\ UNCHANGED <<connected, registry, lock, sessionVars, durable, conn, pushed, spoken,
                   failures, lost>>

\* _close_finalized_session: a close that does not come is made up.
Close(p) ==
    LET m    == proc[p].sess
        last == {i \in DOMAIN events[m] : events[m][i] = "close"}
    IN  /\ At(p, "close")
        /\ Closed(m)
        /\ events' = [events EXCEPT ![m] = <<>>]
        /\ proc' = [proc EXCEPT ![p].step = "consume",
                      ![p].todo = IF last = {} THEN Append(events[m], "close") ELSE events[m]]
        /\ UNCHANGED <<connected, registry, lock, sessionVars, durable, pushed, spoken,
                       failures, lost>>

\* _process_session_events: the terminal task carries the last sequence.
Push(p) ==
    LET m    == proc[p].sess
        task == Head(proc[p].out)
    IN  /\ At(p, "push")
        /\ \/ /\ pushed' = [pushed EXCEPT ![m] =
                    Append(@, IF task.kind = "utterance" THEN task
                                                         ELSE [task EXCEPT !.n = seq[m]])]
              /\ UNCHANGED <<failures, lost>>
           \/ /\ Fail
              /\ lost' = lost \cup {m}
              /\ UNCHANGED pushed
        /\ proc' = [proc EXCEPT ![p].out = Tail(@),
                      ![p].step = IF Len(proc[p].out) = 1 THEN "collected" ELSE "push"]
        /\ UNCHANGED <<connected, registry, lock, sessionVars, durable, conn, events, spoken>>

\* _drain_finalizing_session: collect until the deadline, then close.
Draining(p) ==
    /\ At(p, "collected")
    /\ proc[p].op \in {"finish", "disconnect"}
    /\ state[proc[p].sess] = "finalizing"

Drain(p) ==
    /\ Draining(p)
    /\ proc' = [proc EXCEPT ![p].step = "collect", ![p].drain = TRUE]
    /\ UNCHANGED <<connected, registry, lock, sessionVars, durable, conn, events, pushed,
                   spoken, failures, lost>>

Deadline(p) ==
    LET m == proc[p].sess
    IN  /\ Draining(p)
        /\ Flush(m)
        /\ proc' = [proc EXCEPT ![p].step = "close", ![p].out = Flushed(m)]
        /\ UNCHANGED <<connected, registry, lock, state, goal, durable, conn, events,
                       pushed, spoken, failures, lost>>

\* The lock is left and the session discarded if it is over.
Leave(p) ==
    /\ At(p, "collected")
    /\ ~Draining(p)
    /\ Release(p)
    /\ DiscardIfOver(proc[p].sess)
    /\ Goto(p, "emit")
    /\ UNCHANGED <<connected, sessionVars, durable, conn, events, pushed, spoken,
                   failures, lost>>

-----------------------------------------------------------------------------
(* _fail_live_session: close, fail, write, close again, discard.            *)

FailLive(p) ==
    LET m == proc[p].sess
    IN  /\ At(p, "fail")
        /\ Closed(m)
        /\ state' = [state EXCEPT ![m] = "failed"]
        /\ words' = [words EXCEPT ![m] = FALSE]
        /\ Goto(p, "fail_write")
        /\ UNCHANGED <<connected, registry, lock, goal, seq, durable, events, pushed,
                       spoken, failures, lost>>

\* Variant: the failure is not recorded.
FailWriteNothing(p) ==
    /\ At(p, "fail_write")
    /\ Goto(p, "fail_close")
    /\ UNCHANGED <<connected, registry, lock, sessionVars, durable, conn, events, pushed,
                   spoken, failures, lost>>

FailWrite(p) ==
    LET m == proc[p].sess
    IN  /\ At(p, "fail_write")
        /\ \/ /\ durable' = [durable EXCEPT ![m] = IF @ = "none" THEN @ ELSE "failed"]
              /\ Goto(p, "fail_close")
              /\ UNCHANGED <<lock, failures, lost>>
           \/ /\ Fail
              /\ lost' = lost \cup {m}
              /\ Release(p)
              /\ Stop(p)
              /\ UNCHANGED durable
        /\ UNCHANGED <<connected, registry, sessionVars, conn, events, pushed, spoken>>

FailClose(p) ==
    /\ At(p, "fail_close")
    /\ Closed(proc[p].sess)
    /\ registry' = None
    /\ Release(p)
    /\ Goto(p, "emit")
    /\ UNCHANGED <<connected, sessionVars, durable, events, pushed, spoken, failures, lost>>

-----------------------------------------------------------------------------
(* After the events are emitted: a start makes sure that the listener runs, *)
(* the end of a session cancels it, whatever it is doing.                   *)

Listening == proc[Listener].step # "idle"

Emitted(h) ==
    /\ At(h, "emit") /\ h # Listener
    /\ \/ /\ proc[h].op = "start"
          /\ proc' = [proc EXCEPT ![h] = Idle,
                        ![Listener] = IF Listening THEN @
                                      ELSE [Idle EXCEPT !.step = "emit", !.op = "listen"]]
          /\ UNCHANGED lock
       \/ /\ proc[h].op = "audio"
          /\ Stop(h)
          /\ UNCHANGED lock
       \/ /\ proc[h].op \in {"finish", "disconnect"}
          /\ proc' = [proc EXCEPT ![h] = Idle, ![Listener] = Idle]
          /\ Release(Listener)
    /\ UNCHANGED <<connected, registry, sessionVars, durable, conn, events, pushed,
                   spoken, failures, lost>>

\* Variant: it goes on while the session is streaming.
ListenWhileStreaming ==
    /\ At(Listener, "emit")
    /\ IF registry = None \/ (registry # None /\ state[registry] # "streaming")
       THEN Stop(Listener)
       ELSE proc' = [proc EXCEPT ![Listener] = [Idle EXCEPT !.step = Entry(registry),
                                                  !.op = "listen", !.key = registry]]
    /\ UNCHANGED <<connected, registry, lock, sessionVars, durable, conn, events, pushed,
                   spoken, failures, lost>>

\* _run_meeting_listener goes on while the socket has a session.
Listen ==
    /\ At(Listener, "emit")
    /\ IF registry = None
       THEN Stop(Listener)
       ELSE proc' = [proc EXCEPT ![Listener] = [Idle EXCEPT !.step = Entry(registry),
                                                  !.op = "listen", !.key = registry]]
    /\ UNCHANGED <<connected, registry, lock, sessionVars, durable, conn, events, pushed,
                   spoken, failures, lost>>

\* The provider answers while its connection is open; a close is its last event.
Provider(m, e) ==
    /\ conn[m] = "open"
    /\ CanRun(None)
    /\ events' = [events EXCEPT ![m] = Append(@, e)]
    /\ \/ /\ e = "close"
          /\ conn' = [conn EXCEPT ![m] = "gone"]
          /\ UNCHANGED <<spoken, failures>>
       \/ /\ e # "close"
          /\ spoken < MaxEvents
          /\ spoken' = spoken + 1
          /\ IF e \in {"garbled", "error"} THEN Fail ELSE UNCHANGED failures
          /\ UNCHANGED conn
    /\ UNCHANGED <<connected, registry, lock, sessionVars, durable, pushed, proc, lost>>

-----------------------------------------------------------------------------

SessionStep(p) ==
    \/ Member(p) \/ Create(p) \/ Open(p) \/ StartFailed(p)
    \/ WriteFinalizing(p) \/ Send(p)
    \/ Collect(p) \/ Consume(p) \/ WriteTerminal(p) \/ WriteFailed(p) \/ CloseFailed(p)
    \/ Consumed(p) \/ Close(p) \/ Push(p) \/ Drain(p) \/ Deadline(p)
    \/ Leave(p)
    \/ FailLive(p) \/ FailWrite(p) \/ FailClose(p) \/ Emitted(p)

Next ==
    \/ \E h \in Handlers : StartRequest(h)
    \/ \E h \in Handlers, op \in {"audio", "finish", "disconnect"} : Request(h, op)
    \/ \E p \in Procs : Refuse(p) \/ Acquire(p) \/ SessionStep(p)
    \/ Listen
    \/ \E m \in Meetings, e \in ProviderEvents : Provider(m, e)

Spec == Init /\ [][Next]_vars

\* A coroutine that may go on does.  A lock goes to who waited longest, so nobody waits
\* for ever; the grace period of a drain ends; a provider that gets neither audio nor
\* keepalives any more closes its connection.
FairSpec ==
    /\ Spec
    /\ \A h \in Handlers : WF_vars(SessionStep(h) \/ Refuse(h))
    /\ WF_vars(SessionStep(Listener) \/ Refuse(Listener) \/ Listen)
    /\ \A p \in Procs : SF_vars(Acquire(p))
    /\ SF_vars(\E h \in Handlers : Deadline(h))
    /\ SF_vars(\E m \in Meetings : state[m] = "finalizing" /\ Provider(m, "close"))

-----------------------------------------------------------------------------
(* Properties.                                                              *)

\* Note tasks of a session reach the queue in the order of their sequences, and the
\* terminal task comes last and counts them all.
TasksInOrder ==
    \A m \in Meetings : \A i, j \in DOMAIN pushed[m] :
        i < j => /\ pushed[m][i].kind = "utterance"
                 /\ \/ pushed[m][i].n < pushed[m][j].n
                    \/ pushed[m][j].kind # "utterance" /\ pushed[m][i].n <= pushed[m][j].n

\* The end of a meeting reaches the queue only after every utterance it counts.
TerminalCountsAll ==
    \A m \in Meetings \ lost : \A j \in DOMAIN pushed[m] :
        pushed[m][j].kind # "utterance" => pushed[m][j].n = j - 1

\* A meeting whose record is not terminal is still being served.
NoMeetingAbandoned ==
    \A m \in Meetings \ lost : durable[m] \in {"streaming", "finalizing"} =>
        \/ registry = m
        \/ \E p \in Procs : proc[p].sess = m

\* The provider connection of a session nobody serves is not left open, unless a write
\* of its record failed: then the coroutine that was to close it may have given up.
NoConnectionLeaks ==
    \A m \in Meetings \ lost : conn[m] = "open" =>
        \/ registry = m
        \/ \E p \in Procs : proc[p].sess = m

\* Two coroutines never collect events of the same session at a time.
ExclusiveCollection ==
    \A p, q \in Procs :
        /\ p # q
        /\ {proc[p].step, proc[q].step} \subseteq
              {"collect", "next_event", "consume", "write_terminal", "write_failed",
               "close_failed", "close", "push", "collected"}
        => proc[p].sess # proc[q].sess

\* Once the socket is gone every meeting it had gets a terminal record.
MeetingEnds ==
    \A m \in Meetings : ~connected ~> (m \in lost \/ durable[m] \in Terminal \cup {"none"})
=============================================================================
