------------------------ MODULE MeetingSessionProofs ------------------------
(****************************************************************************)
(* Proofs about the sessions of a socket.  The invariants are layers, each  *)
(* containing the one before:                                               *)
(*                                                                          *)
(*   LocalInv   types, and what a coroutine at a step has;                  *)
(*   LockInv    whose lock it is, and what one start excludes;              *)
(*   OrderInv   the close is the last event, the tasks of a session are     *)
(*              ordered wherever they are, its end is the last of them;     *)
(*   CountInv   none of them is missing, unless one was lost;               *)
(*   ServeInv   who is about to write the record of a session that is over  *)
(*              and has an open record, or to close its connection.         *)
(*                                                                          *)
(* The first needs nothing of Overlapping; the next two that a start waits  *)
(* for what the socket did before; the fourth that a disconnect waits for a *)
(* start as well; the last that every request does, which is what a client  *)
(* that waits for the answer to its start ensures.                          *)
(****************************************************************************)
EXTENDS MeetingSession, SequenceTheorems, TLAPS

\* What a coroutine keeps.
Locals == [step : Steps, op : Ops, sess : Meetings \cup {None},
           key : Meetings \cup {None}, todo : Seq(ProviderEvents),
           out : Seq(Tasks), closing : Seq(Tasks), flush : BOOLEAN,
           drain : BOOLEAN, broken : BOOLEAN]

\* The steps of _collect_session_events, those under the session's lock, those
\* of _fail_live_session, and those of a coroutine that has a session.
Collecting == {"collect", "next_event", "consume", "write_terminal", "write_failed",
               "close_failed", "close", "push", "collected"}
Locking == Collecting \cup {"send", "write_finalizing", "finalize", "keepalive"}
Failing == {"fail", "fail_write", "fail_close"}
Using   == Locking \cup Failing \cup {"create", "open", "start_failed"}

UsesSession == \A p \in Procs : proc[p].step \in Using => proc[p].sess \in Meetings
PushHasOutput == \A p \in Procs : proc[p].step = "push" => proc[p].out # <<>>

\* TypeOK without the coroutines.
StoreType ==
    /\ connected \in BOOLEAN
    /\ registry \in Meetings \cup {None}
    /\ lock \in [Meetings -> Procs \cup {None}]
    /\ state \in [Meetings -> Status]
    /\ goal \in [Meetings -> {"completed", "interrupted"}]
    /\ words \in [Meetings -> BOOLEAN]
    /\ seq \in [Meetings -> Nat]
    /\ durable \in [Meetings -> Status]
    /\ conn \in [Meetings -> {"none", "open", "gone", "closed"}]
    /\ events \in [Meetings -> Seq(ProviderEvents)]
    /\ pushed \in [Meetings -> Seq(Tasks)]
    /\ spoken \in 0 .. MaxEvents
    /\ failures \in 0 .. MaxFailures
    /\ lost \subseteq Meetings

TypeInv == StoreType /\ proc \in [Procs -> Locals] /\ UsesSession

LocalInv == TypeInv /\ PushHasOutput

-----------------------------------------------------------------------------
LEMMA StepNames ==
    /\ "idle" \in Steps /\ "enter" \in Steps /\ "collect" \in Steps
    /\ "consume" \in Steps /\ "collected" \in Steps /\ "member" \in Steps
    /\ "create" \in Steps /\ "open" \in Steps /\ "start_failed" \in Steps
    /\ "wait" \in Steps /\ "send" \in Steps /\ "next_event" \in Steps
    /\ "keepalive" \in Steps /\ "write_failed" \in Steps /\ "close_failed" \in Steps
    /\ "write_terminal" \in Steps /\ "close" \in Steps /\ "push" \in Steps
    /\ "write_finalizing" \in Steps /\ "finalize" \in Steps /\ "fail" \in Steps
    /\ "fail_write" \in Steps /\ "fail_close" \in Steps /\ "emit" \in Steps
    /\ "none" \in Ops /\ "start" \in Ops /\ "audio" \in Ops /\ "finish" \in Ops
    /\ "disconnect" \in Ops /\ "listen" \in Ops
BY DEF Steps, Running, Awaits, Ops

LEMMA IdleIsLocal == Idle \in Locals
<1>1. <<>> \in Seq(ProviderEvents) /\ <<>> \in Seq(Tasks)
  OBVIOUS
<1>2. QED BY <1>1, StepNames DEF Idle, Locals

LEMMA ProcsAre == Listener \in Procs /\ (\A h \in Handlers : h \in Procs /\ h # Listener)
                  /\ None \notin Meetings /\ None \notin Procs
BY SessionAssumption DEF Procs

LEMMA TypeInvIsTypeOK == TypeInv => TypeOK
BY DEF TypeInv, StoreType, TypeOK, Locals

\* What closing an utterance and the end of a meeting add to the output.
LEMMA TaskTypes ==
    ASSUME StoreType, NEW m \in Meetings
    PROVE  /\ Flushed(m) \in Seq(Tasks) /\ Len(Flushed(m)) \in {0, 1}
           /\ [kind |-> goal[m], n |-> seq[m]] \in Tasks
<1>1. seq[m] \in Nat /\ goal[m] \in {"completed", "interrupted"}
  BY DEF StoreType
<1>2. Utterance(seq[m] + 1) \in Tasks
  BY <1>1 DEF Utterance, Tasks
<1>3. CASE words[m]
  <2>1. Flushed(m) = <<Utterance(seq[m] + 1)>>
    BY <1>3 DEF Flushed
  <2> HIDE DEF Tasks
  <2>2. QED BY <1>1, <1>2, <2>1 DEF Tasks
<1>4. CASE ~words[m]
  BY <1>1, <1>4 DEF Flushed, Tasks
<1>5. QED BY <1>3, <1>4

LEMMA FailType == StoreType /\ (Fail \/ failures' = failures) => failures' \in 0 .. MaxFailures
BY SessionAssumption DEF StoreType, Fail

\* The effect of one coroutine going to another step, and of its end.
LEMMA GotoEffect ==
    ASSUME TypeInv, NEW p \in Procs, NEW s \in Steps, Goto(p, s),
           s \in Using => proc[p].step \in Using
    PROVE  /\ proc' \in [Procs -> Locals] /\ UsesSession'
           /\ proc'[p] = [proc[p] EXCEPT !.step = s]
           /\ \A q \in Procs : q # p => proc'[q] = proc[q]
<1>1. proc \in [Procs -> Locals]
  BY DEF TypeInv
<1>2. proc' \in [Procs -> Locals]
  BY <1>1 DEF Goto, Locals
<1>3. proc'[p] = [proc[p] EXCEPT !.step = s] /\ \A q \in Procs : q # p => proc'[q] = proc[q]
  BY <1>1 DEF Goto
<1>4. proc'[p].step = s /\ proc'[p].sess = proc[p].sess
  BY <1>1, <1>3 DEF Locals
<1>5. QED BY <1>2, <1>3, <1>4 DEF UsesSession, TypeInv

LEMMA StopEffect ==
    ASSUME TypeInv, NEW p \in Procs, Stop(p)
    PROVE  /\ proc' \in [Procs -> Locals] /\ UsesSession'
           /\ proc'[p] = Idle
           /\ \A q \in Procs : q # p => proc'[q] = proc[q]
<1>1. proc \in [Procs -> Locals]
  BY DEF TypeInv
<1>2. proc' \in [Procs -> Locals]
  BY <1>1, IdleIsLocal DEF Stop
<1>3. proc'[p] = Idle /\ \A q \in Procs : q # p => proc'[q] = proc[q]
  BY <1>1 DEF Stop
<1>4. proc'[p].step = "idle"
  BY <1>3 DEF Idle
<1>5. QED BY <1>2, <1>3, <1>4 DEF UsesSession, TypeInv, Using, Locking, Failing, Collecting

\* The effect of a step on its coroutine, given its new locals.
LEMMA SetEffect ==
    ASSUME TypeInv, NEW p \in Procs, NEW r \in Locals, proc' = [proc EXCEPT ![p] = r],
           r.step \in Using => r.sess \in Meetings
    PROVE  /\ proc' \in [Procs -> Locals] /\ UsesSession'
           /\ proc'[p] = r
           /\ \A q \in Procs : q # p => proc'[q] = proc[q]
<1>1. proc \in [Procs -> Locals]
  BY DEF TypeInv
<1>2. proc' \in [Procs -> Locals] /\ proc'[p] = r
      /\ \A q \in Procs : q # p => proc'[q] = proc[q]
  BY <1>1
<1>3. QED BY <1>2 DEF UsesSession, TypeInv

LEMMA MemberType == ASSUME TypeInv, NEW h \in Procs, Member(h) PROVE TypeInv'
<1>1. proc \in [Procs -> Locals]
  BY DEF TypeInv
<1>2. proc' \in [Procs -> Locals] /\ UsesSession'
  <2>1. CASE Stop(h)
    BY <2>1, StopEffect
  <2>2. ASSUME NEW m \in Meetings,
               proc' = [proc EXCEPT ![h].step = "create", ![h].sess = m]
        PROVE  proc' \in [Procs -> Locals] /\ UsesSession'
    <3> DEFINE r == [proc[h] EXCEPT !.step = "create", !.sess = m]
    <3>1. r \in Locals /\ r.sess = m
      BY <1>1, StepNames DEF Locals
    <3>2. proc' = [proc EXCEPT ![h] = r]
      BY <2>2
    <3>3. QED BY <3>1, <3>2, SetEffect
  <2>3. QED BY <2>1, <2>2 DEF Member
<1>3. StoreType'
  BY DEF TypeInv, StoreType, Member, Status
<1>4. QED BY <1>2, <1>3 DEF TypeInv

LEMMA OpeningType ==
    ASSUME TypeInv, NEW p \in Procs,
           StartRequest(p) \/ Create(p) \/ Open(p) \/ StartFailed(p)
    PROVE  TypeInv'
<1> USE DEF TypeInv
<1>1. proc' \in [Procs -> Locals] /\ UsesSession'
  <2>1. CASE StartRequest(p)
    <3> DEFINE r == [proc[p] EXCEPT !.step = "member", !.op = "start"]
    <3>1. r \in Locals /\ r.step = "member"
      BY StepNames DEF Locals
    <3>2. proc' = [proc EXCEPT ![p] = r]
      BY <2>1 DEF StartRequest
    <3>3. QED BY <3>1, <3>2, SetEffect DEF Using, Locking, Failing, Collecting
  <2>2. CASE Create(p) \/ Open(p)
    <3>1. Stop(p) \/ Goto(p, "open") \/ Goto(p, "emit") \/ Goto(p, "start_failed")
      BY <2>2 DEF Create, Open
    <3>2. proc[p].step \in Using
      BY <2>2 DEF Create, Open, At, Using
    <3>3. QED BY <3>1, <3>2, GotoEffect, StopEffect, StepNames
  <2>3. CASE StartFailed(p)
    BY <2>3, StopEffect DEF StartFailed
  <2>4. QED BY <2>1, <2>2, <2>3
<1>2. StoreType'
  <2> USE FailType DEF StoreType, sessionVars
  <2>1. CASE StartRequest(p)
    BY <2>1 DEF StartRequest
  <2>2. CASE Create(p)
    BY <2>2 DEF Create, Status
  <2>3. CASE Open(p)
    BY <2>3 DEF Open, DiscardIfOver, Status, Terminal
  <2>4. CASE StartFailed(p)
    <3>1. proc[p].sess \in Meetings
      BY <2>4 DEF StartFailed, At, UsesSession, Using
    <3>2. QED BY <2>4, <3>1 DEF StartFailed, Status, Terminal
  <2>5. QED BY <2>1, <2>2, <2>3, <2>4
<1>3. QED BY <1>1, <1>2

LEMMA RequestType ==
    ASSUME TypeInv, NEW p \in Procs,
           \/ \E op \in {"audio", "finish", "disconnect"} : Request(p, op)
           \/ Refuse(p)
    PROVE  TypeInv'
<1> USE DEF TypeInv
<1>1. proc' \in [Procs -> Locals] /\ UsesSession'
  <2>1. ASSUME NEW op \in {"audio", "finish", "disconnect"}, Request(p, op)
        PROVE  proc' \in [Procs -> Locals] /\ UsesSession'
    <3>1. op \in Ops /\ Entry(registry) \in {"enter", "wait"} /\ Entry(registry) \in Steps
          /\ registry \in Meetings \cup {None}
      BY StepNames DEF Entry, StoreType
    <3>2. PICK s \in {"enter", "wait", "emit"}, k \in Meetings \cup {None} :
            proc' = [proc EXCEPT ![p] = [proc[p] EXCEPT !.step = s, !.op = op, !.key = k]]
      <4>1. proc[p] = [proc[p] EXCEPT !.key = proc[p].key]
            /\ proc[p].key \in Meetings \cup {None}
        BY DEF Locals
      <4>2. CASE proc' = [proc EXCEPT ![p].step = Entry(registry), ![p].op = op,
                                      ![p].key = registry]
        BY <3>1, <4>2
      <4>3. CASE proc' = [proc EXCEPT ![p].step = "emit", ![p].op = op]
        <5>1. [proc[p] EXCEPT !.step = "emit", !.op = op]
                = [proc[p] EXCEPT !.step = "emit", !.op = op, !.key = proc[p].key]
          BY DEF Locals
        <5>2. proc' = [proc EXCEPT ![p] = [proc[p] EXCEPT !.step = "emit", !.op = op]]
          BY <4>3
        <5>3. QED BY <4>1, <5>1, <5>2
      <4>4. QED BY <2>1, <4>2, <4>3 DEF Request
    <3> DEFINE r == [proc[p] EXCEPT !.step = s, !.op = op, !.key = k]
    <3>3. s \in Steps
      BY StepNames
    <3>4. r \in Locals /\ r.step = s
      BY <3>1, <3>3 DEF Locals
    <3>5. s \notin Using
      BY DEF Using, Locking, Failing, Collecting
    <3>6. QED BY <3>2, <3>4, <3>5, SetEffect
  <2>2. CASE Refuse(p)
    <3>1. Stop(p) \/ Goto(p, "emit")
      BY <2>2 DEF Refuse
    <3>2. "emit" \notin Using
      BY DEF Using, Locking, Failing, Collecting
    <3>3. QED BY <3>1, <3>2, GotoEffect, StopEffect, StepNames
  <2>3. QED BY <2>1, <2>2
<1>2. StoreType'
  BY DEF Request, Refuse, StoreType, sessionVars
<1>3. QED BY <1>1, <1>2

LEMMA AcquireType ==
    ASSUME TypeInv, NEW p \in Procs, Acquire(p) PROVE TypeInv'
<1> USE DEF TypeInv
<1>1. registry \in Meetings
  BY DEF Acquire, Refused, StoreType
<1>2. PICK s \in {"send", "collect", "finalize", "write_finalizing"} :
          proc' = [proc EXCEPT ![p].sess = registry, ![p].step = s]
  BY DEF Acquire
<1> DEFINE r == [proc[p] EXCEPT !.sess = registry, !.step = s]
<1>3. s \in Steps
  BY StepNames
<1>4. r \in Locals /\ r.sess = registry
  BY <1>1, <1>3 DEF Locals
<1>5. proc' = [proc EXCEPT ![p] = r]
  BY <1>2
<1>6. proc' \in [Procs -> Locals] /\ UsesSession'
  BY <1>1, <1>4, <1>5, SetEffect
<1>7. StoreType'
  BY DEF Acquire, StoreType, Status
<1>8. QED BY <1>6, <1>7

LEMMA SendType ==
    ASSUME TypeInv, NEW p \in Procs, WriteFinalizing(p) \/ Send(p) PROVE TypeInv'
<1> USE DEF TypeInv
<1>1. Stop(p) \/ Goto(p, "finalize") \/ Goto(p, "collect") \/ Goto(p, "fail")
      \/ Goto(p, "collected")
  BY DEF WriteFinalizing, Send
<1>2. proc[p].step \in Using
  BY DEF WriteFinalizing, Send, At, Using, Locking
<1>3. proc' \in [Procs -> Locals] /\ UsesSession'
  BY <1>1, <1>2, GotoEffect, StopEffect, StepNames
<1>4. StoreType'
  <2>1. failures' \in 0 .. MaxFailures
    BY FailType DEF WriteFinalizing, Send, Reaches, Misses
  <2>2. lock' \in [Meetings -> Procs \cup {None}]
    BY DEF WriteFinalizing, Send, Release, StoreType
  <2>3. durable' \in [Meetings -> Status]
    BY DEF WriteFinalizing, Send, StoreType, Status
  <2>4. QED BY <2>1, <2>2, <2>3 DEF WriteFinalizing, Send, StoreType, sessionVars
<1>5. QED BY <1>3, <1>4

LEMMA CollectType ==
    ASSUME TypeInv, NEW p \in Procs, Collect(p) PROVE TypeInv'
<1> USE DEF TypeInv
<1>1. proc[p].step \in Using /\ proc[p].sess \in Meetings
  BY DEF Collect, At, Using, Locking, Collecting, UsesSession
<1>2. proc' \in [Procs -> Locals] /\ UsesSession' /\ events' \in [Meetings -> Seq(ProviderEvents)]
  <2>1. CASE Take(p)
    <3> DEFINE m == proc[p].sess
               f == state[m] = "finalizing" /\ \E i \in DOMAIN events[m] : events[m][i] = "flushed"
               r == [proc[p] EXCEPT !.step = "consume", !.todo = events[m], !.flush = f]
    <3>1. proc' = [proc EXCEPT ![p] = r]
      BY <2>1 DEF Take
    <3>2. events[m] \in Seq(ProviderEvents) /\ f \in BOOLEAN
      BY <1>1 DEF StoreType
    <3>3. r \in Locals /\ r.sess = m
      <4> HIDE DEF f, m
      <4>1. QED BY <3>2, StepNames DEF Locals, m
    <3>4. events' \in [Meetings -> Seq(ProviderEvents)]
      <4>1. <<>> \in Seq(ProviderEvents)
        OBVIOUS
      <4>2. events' = [events EXCEPT ![proc[p].sess] = <<>>]
        BY <2>1 DEF Take
      <4>3. QED BY <1>1, <4>1, <4>2 DEF StoreType
    <3>5. QED BY <1>1, <3>1, <3>3, <3>4, SetEffect
  <2>2. CASE ~Take(p)
    <3>1. events' = events
          /\ (Goto(p, "next_event") \/ Goto(p, "collected") \/ Goto(p, "keepalive"))
      BY <2>2 DEF Collect, Rest
    <3>2. QED BY <1>1, <3>1, GotoEffect, StepNames DEF StoreType
  <2>3. QED BY <2>1, <2>2
<1>3. StoreType'
  BY <1>2 DEF Collect, StoreType, sessionVars
<1>4. QED BY <1>2, <1>3

LEMMA OutType ==
    ASSUME TypeInv, NEW p \in Procs, NEW m \in Meetings
    PROVE  /\ proc[p].out \in Seq(Tasks) /\ proc[p].closing \in Seq(Tasks)
           /\ proc[p].todo \in Seq(ProviderEvents)
           /\ proc[p].out \o Flushed(m) \in Seq(Tasks)
           /\ proc[p].out # <<>> => /\ Head(proc[p].out) \in Tasks
                                    /\ Tail(proc[p].out) \in Seq(Tasks)
           /\ proc[p].todo # <<>> => /\ Head(proc[p].todo) \in ProviderEvents
                                     /\ Tail(proc[p].todo) \in Seq(ProviderEvents)
<1>1. /\ proc[p].out \in Seq(Tasks) /\ proc[p].closing \in Seq(Tasks)
      /\ proc[p].todo \in Seq(ProviderEvents)
  BY DEF TypeInv, Locals
<1>2. Flushed(m) \in Seq(Tasks)
  BY TaskTypes DEF TypeInv
<1>3. proc[p].out \o Flushed(m) \in Seq(Tasks)
  BY <1>1, <1>2, ConcatProperties
<1>4. QED BY <1>1, <1>3, HeadTailProperties

LEMMA FlushType ==
    ASSUME StoreType, NEW m \in Meetings,
           Flush(m) \/ UNCHANGED <<seq, words>> \/ (seq' = seq /\ words' = [words EXCEPT ![m] = FALSE])
    PROVE  seq' \in [Meetings -> Nat] /\ words' \in [Meetings -> BOOLEAN]
<1>1. \A k \in {0, 1} : seq[m] + k \in Nat
  BY DEF StoreType
<1>2. seq[m] + Len(Flushed(m)) \in Nat
  BY <1>1, TaskTypes
<1>3. Flush(m) => seq' = [seq EXCEPT ![m] = seq[m] + Len(Flushed(m))]
                  /\ words' = [words EXCEPT ![m] = FALSE]
  BY DEF Flush
<1>4. QED BY <1>2, <1>3 DEF StoreType

LEMMA FailSessionEffect ==
    ASSUME TypeInv, NEW p \in Procs, NEW rest \in Seq(ProviderEvents),
           NEW b \in BOOLEAN, proc[p].step \in Using, FailSession(p, rest, b)
    PROVE  /\ proc' \in [Procs -> Locals] /\ UsesSession'
           /\ proc'[p] = [proc[p] EXCEPT !.step = "write_failed", !.todo = rest,
                                         !.closing = <<>>, !.broken = b]
           /\ \A q \in Procs : q # p => proc'[q] = proc[q]
           /\ state' \in [Meetings -> Status] /\ words' \in [Meetings -> BOOLEAN]
<1> DEFINE r == [proc[p] EXCEPT !.step = "write_failed", !.todo = rest,
                                !.closing = <<>>, !.broken = b]
<1>1. <<>> \in Seq(Tasks)
  OBVIOUS
<1>2. r \in Locals /\ r.sess = proc[p].sess
  BY <1>1, StepNames DEF Locals, TypeInv
<1>3. proc' = [proc EXCEPT ![p] = r]
  BY DEF FailSession
<1>4. proc[p].sess \in Meetings
  BY DEF TypeInv, UsesSession
<1>5. /\ proc' \in [Procs -> Locals] /\ UsesSession'
      /\ proc'[p] = r /\ \A q \in Procs : q # p => proc'[q] = proc[q]
  BY <1>2, <1>3, <1>4, SetEffect
<1>6. state' \in [Meetings -> Status] /\ words' \in [Meetings -> BOOLEAN]
  BY DEF FailSession, TypeInv, StoreType, Status, Terminal
<1>7. QED BY <1>5, <1>6

LEMMA ConsumeType ==
    ASSUME TypeInv, NEW p \in Procs, Consume(p) PROVE TypeInv'
<1> USE DEF TypeInv
<1> DEFINE m    == proc[p].sess
           e    == Head(proc[p].todo)
           rest == Tail(proc[p].todo)
<1>1. proc[p].step \in Using /\ m \in Meetings /\ proc[p].todo # <<>>
  BY DEF Consume, At, Using, Locking, Collecting, UsesSession
<1>2. rest \in Seq(ProviderEvents) /\ Flushed(m) \in Seq(Tasks)
      /\ proc[p].out \o Flushed(m) \in Seq(Tasks)
  BY <1>1, OutType, TaskTypes
<1> HIDE DEF rest, m
<1>3. /\ proc' \in [Procs -> Locals] /\ UsesSession'
      /\ state' \in [Meetings -> Status]
      /\ seq' \in [Meetings -> Nat] /\ words' \in [Meetings -> BOOLEAN]
  <2>1. CASE proc' = [proc EXCEPT ![p].todo = rest]
             /\ state' = state /\ seq' = seq /\ words' \in [Meetings -> BOOLEAN]
    <3>1. [proc[p] EXCEPT !.todo = rest] \in Locals
          /\ [proc[p] EXCEPT !.todo = rest].sess = m
      BY <1>2 DEF Locals, m
    <3>2. proc' = [proc EXCEPT ![p] = [proc[p] EXCEPT !.todo = rest]]
      BY <2>1
    <3>3. QED BY <1>1, <2>1, <3>1, <3>2, SetEffect DEF StoreType
  <2>2. CASE /\ Flush(m)
             /\ proc' = [proc EXCEPT ![p].todo = rest, ![p].out = @ \o Flushed(m)]
             /\ state' = state
    <3> DEFINE r == [proc[p] EXCEPT !.todo = rest, !.out = proc[p].out \o Flushed(m)]
    <3>1. r \in Locals /\ r.sess = m
      BY <1>2 DEF Locals, m
    <3>2. proc' = [proc EXCEPT ![p] = r]
      BY <2>2
    <3>3. proc' \in [Procs -> Locals] /\ UsesSession'
      BY <1>1, <3>1, <3>2, SetEffect
    <3>4. seq' \in [Meetings -> Nat] /\ words' \in [Meetings -> BOOLEAN]
      BY <1>1, <2>2, FlushType
    <3>5. QED BY <2>2, <3>3, <3>4 DEF StoreType
  <2>3. CASE /\ Flush(m)
             /\ state' = [state EXCEPT ![m] = goal[m]]
             /\ proc' = [proc EXCEPT ![p].step = "write_terminal", ![p].todo = rest,
                                     ![p].closing = Flushed(m)]
    <3> DEFINE r == [proc[p] EXCEPT !.step = "write_terminal", !.todo = rest,
                                    !.closing = Flushed(m)]
    <3>1. r \in Locals /\ r.sess = m
      BY <1>2, StepNames DEF Locals, m
    <3>2. proc' = [proc EXCEPT ![p] = r]
      BY <2>3
    <3>3. state' \in [Meetings -> Status]
      BY <1>1, <2>3 DEF StoreType, Status, Terminal
    <3>4. proc' \in [Procs -> Locals] /\ UsesSession'
      BY <1>1, <3>1, <3>2, SetEffect
    <3>5. seq' \in [Meetings -> Nat] /\ words' \in [Meetings -> BOOLEAN]
      BY <1>1, <2>3, FlushType
    <3>6. QED BY <3>3, <3>4, <3>5
  <2>4. CASE \E t \in Seq(ProviderEvents), b \in BOOLEAN :
                FailSession(p, t, b) /\ seq' = seq
    BY <1>1, <2>4, FailSessionEffect DEF StoreType
  <2>5. QED
    <3>1. CASE e = "words" /\ words' = [words EXCEPT ![m] = TRUE]
               /\ proc' = [proc EXCEPT ![p].todo = rest] /\ UNCHANGED <<state, seq>>
      BY <2>1, <3>1 DEF StoreType
    <3>2. CASE /\ proc' = [proc EXCEPT ![p].todo = rest] /\ UNCHANGED <<state, words, seq>>
      BY <2>1, <3>2 DEF StoreType
    <3>3. CASE FailSession(p, rest, FALSE) /\ UNCHANGED seq
      BY <1>2, <2>4, <3>3
    <3>4. CASE FailSession(p, <<>>, TRUE) /\ UNCHANGED seq
      <4>1. <<>> \in Seq(ProviderEvents)
        OBVIOUS
      <4>2. QED BY <4>1, <2>4, <3>4
    <3>5. QED BY <2>2, <2>3, <3>1, <3>2, <3>3, <3>4 DEF Consume, m, rest
<1>4. StoreType'
  BY <1>3 DEF Consume, StoreType
<1>5. QED BY <1>3, <1>4

LEMMA WriteTerminalType ==
    ASSUME TypeInv, NEW p \in Procs, WriteTerminal(p) PROVE TypeInv'
<1> USE DEF TypeInv
<1> DEFINE m == proc[p].sess
           end == [kind |-> goal[m], n |-> seq[m]]
           r == [proc[p] EXCEPT !.step = "consume", !.closing = <<>>,
                       !.out = proc[p].out \o proc[p].closing \o <<end>>]
<1>1. proc[p].step \in Using /\ m \in Meetings
  BY DEF WriteTerminal, At, Using, Locking, Collecting, UsesSession
<1>2. proc[p].out \o proc[p].closing \o <<end>> \in Seq(Tasks)
  <2>1. end \in Tasks
    BY <1>1, TaskTypes
  <2>2. <<end>> \in Seq(Tasks)
    BY <2>1
  <2>3. proc[p].out \in Seq(Tasks) /\ proc[p].closing \in Seq(Tasks)
    BY DEF Locals
  <2>4. QED BY <2>2, <2>3, ConcatProperties
<1>3. /\ proc' \in [Procs -> Locals] /\ UsesSession'
      /\ state' \in [Meetings -> Status] /\ words' \in [Meetings -> BOOLEAN]
  <2>1. CASE FailSession(p, <<>>, TRUE)
    <3>1. <<>> \in Seq(ProviderEvents)
      OBVIOUS
    <3>2. QED BY <1>1, <2>1, <3>1, FailSessionEffect
  <2>2. CASE /\ proc' = [proc EXCEPT ![p].step = "consume", ![p].closing = <<>>,
                            ![p].out = @ \o proc[p].closing
                                         \o <<[kind |-> goal[m], n |-> seq[m]]>>]
             /\ UNCHANGED <<state, words>>
    <3>1. proc' = [proc EXCEPT ![p] = r]
      BY <2>2
    <3>2. <<>> \in Seq(Tasks)
      OBVIOUS
    <3>3. r \in Locals /\ r.sess = m
      <4> DEFINE o == proc[p].out \o proc[p].closing \o <<end>>
      <4>1. o \in Seq(Tasks)
        BY <1>2
      <4> HIDE DEF o
      <4>2. [proc[p] EXCEPT !.step = "consume", !.closing = <<>>, !.out = o] \in Locals
        BY <3>2, <4>1, StepNames DEF Locals
      <4>3. QED BY <4>2 DEF o, Locals
    <3>4. QED BY <1>1, <2>2, <3>1, <3>3, SetEffect DEF StoreType
  <2>3. QED BY <2>1, <2>2 DEF WriteTerminal
<1>4. StoreType'
  <2>1. failures' \in 0 .. MaxFailures
    BY FailType DEF WriteTerminal
  <2>2. durable' \in [Meetings -> Status]
    <3>1. goal[m] \in Status
      BY <1>1 DEF StoreType, Status, Terminal
    <3>2. durable' = durable \/ durable' = [durable EXCEPT ![m] = goal[m]]
      BY DEF WriteTerminal
    <3>3. QED BY <3>1, <3>2 DEF StoreType
  <2>3. QED BY <1>1, <1>3, <2>1, <2>2 DEF WriteTerminal, StoreType
<1>5. QED BY <1>3, <1>4

LEMMA WriteFailedType ==
    ASSUME TypeInv, NEW p \in Procs, WriteFailed(p) \/ CloseFailed(p) PROVE TypeInv'
<1> USE DEF TypeInv
<1> DEFINE m == proc[p].sess
           r == [proc[p] EXCEPT !.todo = <<>>, !.broken = TRUE]
<1>1. proc[p].step \in Using /\ m \in Meetings
  BY DEF WriteFailed, CloseFailed, At, Using, Locking, Collecting, UsesSession
<1>2. proc' \in [Procs -> Locals] /\ UsesSession'
  <2>1. CASE Stop(p) \/ Goto(p, "close_failed") \/ Goto(p, "consume")
    BY <1>1, <2>1, StopEffect, GotoEffect, StepNames
  <2>2. CASE proc' = [proc EXCEPT ![p].todo = <<>>, ![p].broken = TRUE]
    <3>1. <<>> \in Seq(ProviderEvents)
      OBVIOUS
    <3>2. r \in Locals /\ r.sess = m
      BY <3>1 DEF Locals
    <3>3. proc' = [proc EXCEPT ![p] = r]
      BY <2>2
    <3>4. QED BY <1>1, <3>2, <3>3, SetEffect
  <2>3. QED BY <2>1, <2>2 DEF WriteFailed, CloseFailed
<1>3. StoreType'
  <2>1. failures' \in 0 .. MaxFailures
    BY FailType DEF WriteFailed, CloseFailed
  <2>2. durable' \in [Meetings -> Status]
    BY <1>1 DEF WriteFailed, CloseFailed, StoreType, Status, Terminal
  <2>3. conn' \in [Meetings -> {"none", "open", "gone", "closed"}]
    BY <1>1 DEF WriteFailed, CloseFailed, Closed, StoreType
  <2>4. lock' \in [Meetings -> Procs \cup {None}]
    BY DEF WriteFailed, CloseFailed, Release, StoreType
  <2>5. QED BY <1>1, <2>1, <2>2, <2>3, <2>4
            DEF WriteFailed, CloseFailed, StoreType, sessionVars
<1>4. QED BY <1>2, <1>3

LEMMA ConsumedType ==
    ASSUME TypeInv, NEW p \in Procs, Consumed(p) \/ Deadline(p) \/ Drain(p)
    PROVE  TypeInv'
<1> USE DEF TypeInv
<1> DEFINE m == proc[p].sess
<1>1. proc[p].step \in Using /\ m \in Meetings
  BY DEF Consumed, Deadline, Drain, Draining, At, Using, Locking, Collecting, UsesSession
<1>2. Flushed(m) \in Seq(Tasks) /\ proc[p].out \o Flushed(m) \in Seq(Tasks)
  BY <1>1, OutType, TaskTypes
<1> HIDE DEF m
<1>3. proc' \in [Procs -> Locals] /\ UsesSession'
  <2>1. CASE proc' = [proc EXCEPT ![p].step = "close", ![p].flush = FALSE,
                                 ![p].out = @ \o Flushed(m)]
    <3> DEFINE r == [proc[p] EXCEPT !.step = "close", !.flush = FALSE,
                                    !.out = proc[p].out \o Flushed(m)]
    <3>1. r \in Locals /\ r.sess = m
      BY <1>2, StepNames DEF Locals, m
    <3>2. proc' = [proc EXCEPT ![p] = r]
      BY <2>1
    <3>3. QED BY <1>1, <3>1, <3>2, SetEffect
  <2>2. CASE proc' = [proc EXCEPT ![p].step = "close", ![p].out = Flushed(m)]
    <3> DEFINE r == [proc[p] EXCEPT !.step = "close", !.out = Flushed(m)]
    <3>1. r \in Locals /\ r.sess = m
      BY <1>2, StepNames DEF Locals, m
    <3>2. proc' = [proc EXCEPT ![p] = r]
      BY <2>2
    <3>3. QED BY <1>1, <3>1, <3>2, SetEffect
  <2>3. CASE proc' = [proc EXCEPT ![p].step = "collect", ![p].drain = TRUE]
    <3> DEFINE r == [proc[p] EXCEPT !.step = "collect", !.drain = TRUE]
    <3>1. r \in Locals /\ r.sess = m
      BY StepNames DEF Locals, m
    <3>2. proc' = [proc EXCEPT ![p] = r]
      BY <2>3
    <3>3. QED BY <1>1, <3>1, <3>2, SetEffect
  <2>4. CASE Goto(p, "collected") \/ Goto(p, "push")
    BY <1>1, <2>4, GotoEffect, StepNames
  <2>5. QED BY <2>1, <2>2, <2>3, <2>4 DEF Consumed, Deadline, Drain, m
<1>4. seq' \in [Meetings -> Nat] /\ words' \in [Meetings -> BOOLEAN]
  BY <1>1, FlushType DEF Consumed, Deadline, Drain, sessionVars, m
<1>5. StoreType'
  BY <1>4 DEF Consumed, Deadline, Drain, StoreType, sessionVars
<1>6. QED BY <1>3, <1>5

LEMMA CloseType == ASSUME TypeInv, NEW p \in Procs, Close(p) PROVE TypeInv'
<1> USE DEF TypeInv
<1> DEFINE m == proc[p].sess
           last == {i \in DOMAIN events[m] : events[m][i] = "close"}
           t == IF last = {} THEN Append(events[m], "close") ELSE events[m]
           r == [proc[p] EXCEPT !.step = "consume", !.todo = t]
<1>1. proc[p].step \in Using /\ m \in Meetings
  BY DEF Close, At, Using, Locking, Collecting, UsesSession
<1>2. t \in Seq(ProviderEvents)
  <2>1. events[m] \in Seq(ProviderEvents) /\ "close" \in ProviderEvents
    BY <1>1 DEF StoreType, ProviderEvents
  <2>2. QED BY <2>1
<1>3. proc' = [proc EXCEPT ![p] = r]
  BY DEF Close
<1>4. r \in Locals /\ r.sess = m
  <2> HIDE DEF t
  <2>1. QED BY <1>2, StepNames DEF Locals
<1>5. proc' \in [Procs -> Locals] /\ UsesSession'
  BY <1>1, <1>3, <1>4, SetEffect
<1>6. StoreType'
  <2>1. <<>> \in Seq(ProviderEvents)
    OBVIOUS
  <2>2. events' = [events EXCEPT ![m] = <<>>]
    BY DEF Close
  <2>3. events' \in [Meetings -> Seq(ProviderEvents)]
    BY <2>1, <2>2 DEF StoreType
  <2>4. conn' \in [Meetings -> {"none", "open", "gone", "closed"}]
    BY <1>1 DEF Close, Closed, StoreType
  <2>5. QED BY <2>3, <2>4 DEF Close, StoreType, sessionVars
<1>7. QED BY <1>5, <1>6

LEMMA PushType == ASSUME TypeInv, NEW p \in Procs, Push(p), proc[p].out # <<>> PROVE TypeInv'
<1> USE DEF TypeInv
<1> DEFINE m == proc[p].sess
           task == Head(proc[p].out)
           s == IF Len(proc[p].out) = 1 THEN "collected" ELSE "push"
           r == [proc[p] EXCEPT !.out = Tail(proc[p].out), !.step = s]
<1>1. proc[p].step \in Using /\ m \in Meetings
  BY DEF Push, At, Using, Locking, Collecting, UsesSession
<1>2. task \in Tasks /\ Tail(proc[p].out) \in Seq(Tasks)
  BY <1>1, OutType
<1>3. proc' = [proc EXCEPT ![p] = r]
  BY DEF Push
<1>4. r \in Locals /\ r.sess = m
  <2>1. s \in Steps
    BY StepNames
  <2> HIDE DEF s
  <2>2. QED BY <1>2, <2>1 DEF Locals
<1>5. proc' \in [Procs -> Locals] /\ UsesSession'
  BY <1>1, <1>3, <1>4, SetEffect
<1>6. pushed' \in [Meetings -> Seq(Tasks)]
  <2>1. [task EXCEPT !.n = seq[m]] \in Tasks
    BY <1>1, <1>2 DEF Tasks, StoreType
  <2>2. PICK x \in Tasks : pushed' = pushed \/ pushed' = [pushed EXCEPT ![m] = Append(@, x)]
    BY <1>2, <2>1 DEF Push
  <2>3. Append(pushed[m], x) \in Seq(Tasks)
    <3>1. pushed[m] \in Seq(Tasks)
      BY <1>1 DEF StoreType
    <3>2. QED BY <3>1, AppendProperties
  <2>4. QED BY <2>2, <2>3 DEF StoreType
<1>7. StoreType'
  <2>1. failures' \in 0 .. MaxFailures
    BY FailType DEF Push
  <2>2. QED BY <1>1, <1>6, <2>1 DEF Push, StoreType, sessionVars
<1>8. QED BY <1>5, <1>7

LEMMA LeaveType ==
    ASSUME TypeInv, NEW p \in Procs,
           Leave(p) \/ FailLive(p) \/ FailWrite(p) \/ FailClose(p)
    PROVE  TypeInv'
<1> USE DEF TypeInv
<1>1. proc[p].step \in Using /\ proc[p].sess \in Meetings
  BY DEF Leave, FailLive, FailWrite, FailClose, At, Using, Locking, Collecting, Failing,
         UsesSession
<1>2. Stop(p) \/ Goto(p, "emit") \/ Goto(p, "fail_write") \/ Goto(p, "fail_close")
  BY DEF Leave, FailLive, FailWrite, FailClose
<1>3. proc' \in [Procs -> Locals] /\ UsesSession'
  BY <1>1, <1>2, GotoEffect, StopEffect, StepNames
<1>4. StoreType'
  <2>1. failures' \in 0 .. MaxFailures
    BY FailType DEF Leave, FailLive, FailWrite, FailClose
  <2>2. lock' \in [Meetings -> Procs \cup {None}]
    BY DEF Leave, FailLive, FailWrite, FailClose, Release, StoreType
  <2>3. /\ durable' \in [Meetings -> Status] /\ state' \in [Meetings -> Status]
        /\ words' \in [Meetings -> BOOLEAN]
    <3>1. CASE FailLive(p)
      BY <3>1 DEF FailLive, StoreType, Status, Terminal
    <3>2. CASE FailWrite(p)
      BY <3>2 DEF FailWrite, StoreType, Status, Terminal, sessionVars
    <3>3. CASE Leave(p) \/ FailClose(p)
      BY <3>3 DEF Leave, FailClose, StoreType, sessionVars
    <3>4. QED BY <3>1, <3>2, <3>3
  <2>4. conn' \in [Meetings -> {"none", "open", "gone", "closed"}]
    BY <1>1 DEF Leave, FailLive, FailWrite, FailClose, Closed, StoreType
  <2>5. QED BY <1>1, <2>1, <2>2, <2>3, <2>4
            DEF Leave, FailLive, FailWrite, FailClose, DiscardIfOver, StoreType,
                sessionVars
<1>5. QED BY <1>3, <1>4

LEMMA EmittedType ==
    ASSUME TypeInv, NEW h \in Procs, Emitted(h) \/ Listen PROVE TypeInv'
<1> USE ProcsAre DEF TypeInv
<1> DEFINE start == [Idle EXCEPT !.step = "emit", !.op = "listen"]
           turn == [Idle EXCEPT !.step = Entry(registry), !.op = "listen", !.key = registry]
<1>1. start \in Locals /\ start.step = "emit" /\ Idle.step = "idle"
  BY IdleIsLocal, StepNames DEF Locals, Idle
<1>2. registry # None => turn \in Locals /\ turn.step \in {"enter", "wait"}
  <2>1. Entry(registry) \in {"enter", "wait"} /\ Entry(registry) \in Steps
        /\ registry \in Meetings \cup {None}
    BY StepNames DEF Entry, StoreType
  <2>2. QED BY <2>1, IdleIsLocal, StepNames DEF Locals
<1>3. \A s \in {"emit", "idle", "enter", "wait"} : s \notin Using
  BY DEF Using, Locking, Failing, Collecting
<1>4. proc' \in [Procs -> Locals] /\ UsesSession'
  <2>1. CASE Listen
    <3>1. CASE registry = None
      BY <2>1, <3>1, StopEffect DEF Listen
    <3>2. CASE registry # None
      <4>1. proc' = [proc EXCEPT ![Listener] = turn]
        BY <2>1, <3>2 DEF Listen
      <4> HIDE DEF turn
      <4>2. QED BY <1>2, <1>3, <3>2, <4>1, SetEffect
    <3>3. QED BY <3>1, <3>2
  <2>2. CASE Emitted(h)
    <3>1. CASE Stop(h)
      BY <3>1, StopEffect
    <3>2. ASSUME NEW r \in Locals, r.step \notin Using \/ r = proc[Listener],
                 proc' = [proc EXCEPT ![h] = Idle, ![Listener] = r]
          PROVE  proc' \in [Procs -> Locals] /\ UsesSession'
      <4>1. proc' \in [Procs -> Locals]
        BY <3>2, IdleIsLocal
      <4>2. \A q \in Procs : proc'[q] = proc[q] \/ proc'[q] = Idle \/ (q = Listener /\ proc'[q] = r)
        BY <3>2
      <4>3. QED BY <1>1, <1>3, <3>2, <4>1, <4>2 DEF UsesSession
    <3>3. proc[Listener] \in Locals
      OBVIOUS
    <3>4. CASE proc' = [proc EXCEPT ![h] = Idle,
                        ![Listener] = IF Listening THEN @
                                      ELSE [Idle EXCEPT !.step = "emit", !.op = "listen"]]
      <4>1. h # Listener
        BY <2>2 DEF Emitted
      <4>2. CASE Listening
        <5>1. proc' = [proc EXCEPT ![h] = Idle, ![Listener] = proc[Listener]]
          BY <3>4, <4>1, <4>2
        <5>2. QED BY <3>2, <3>3, <5>1
      <4>3. CASE ~Listening
        <5>1. proc' = [proc EXCEPT ![h] = Idle, ![Listener] = start]
          BY <3>4, <4>1, <4>3
        <5> HIDE DEF start
        <5>2. QED BY <1>1, <1>3, <3>2, <5>1
      <4>4. QED BY <4>2, <4>3
    <3>5. CASE proc' = [proc EXCEPT ![h] = Idle, ![Listener] = Idle]
      BY <1>1, <1>3, <3>2, <3>5, IdleIsLocal
    <3>6. QED BY <2>2, <3>1, <3>4, <3>5 DEF Emitted
  <2>3. QED BY <2>1, <2>2
<1>5. StoreType'
  BY DEF Emitted, Listen, Release, StoreType, sessionVars
<1>6. QED BY <1>4, <1>5

LEMMA ProviderType ==
    ASSUME TypeInv, NEW m \in Meetings, NEW e \in ProviderEvents, Provider(m, e)
    PROVE  TypeInv'
<1> USE DEF TypeInv
<1>1. failures' \in 0 .. MaxFailures
  BY FailType DEF Provider
<1>2. spoken' \in 0 .. MaxEvents
  BY SessionAssumption DEF Provider, StoreType
<1>3. events' \in [Meetings -> Seq(ProviderEvents)]
  <2>1. events[m] \in Seq(ProviderEvents)
    BY DEF StoreType
  <2>2. Append(events[m], e) \in Seq(ProviderEvents)
    BY <2>1, AppendProperties
  <2>3. events' = [events EXCEPT ![m] = Append(events[m], e)]
    BY DEF Provider
  <2>4. QED BY <2>2, <2>3 DEF StoreType
<1>4. StoreType'
  BY <1>1, <1>2, <1>3 DEF Provider, StoreType, sessionVars
<1>5. QED BY <1>4 DEF Provider, UsesSession

-----------------------------------------------------------------------------
(* What a step does to its coroutine, field by field.                       *)

Becomes(p, s, t, o, c) ==
    /\ proc'[p].step = s /\ proc'[p].op = proc[p].op /\ proc'[p].sess = proc[p].sess
    /\ proc'[p].todo = t /\ proc'[p].out = o /\ proc'[p].closing = c
Same(p, s) == Becomes(p, s, proc[p].todo, proc[p].out, proc[p].closing)

LEMMA GotoBecomes ==
    ASSUME TypeInv, NEW p \in Procs, NEW s, Goto(p, s) PROVE Same(p, s)
BY DEF TypeInv, Goto, Locals, Same, Becomes

LEMMA IdleFields ==
    /\ Idle.step = "idle" /\ Idle.op = "none" /\ Idle.sess = None /\ Idle.todo = <<>>
    /\ Idle.out = <<>> /\ Idle.closing = <<>>
BY DEF Idle

LEMMA FailSessionBecomes ==
    ASSUME TypeInv, NEW p \in Procs, NEW t, NEW b, FailSession(p, t, b)
    PROVE  /\ Becomes(p, "write_failed", t, proc[p].out, <<>>)
           /\ state' = [state EXCEPT ![proc[p].sess] = "failed"]
           /\ words' = [words EXCEPT ![proc[p].sess] = FALSE]
BY DEF TypeInv, FailSession, Locals, Becomes

LEMMA CollectEffect ==
    ASSUME TypeInv, NEW p \in Procs, Collect(p)
    PROVE  LET m == proc[p].sess
           IN  \/ /\ Becomes(p, "consume", events[m], proc[p].out, proc[p].closing)
                  /\ events' = [events EXCEPT ![m] = <<>>]
               \/ /\ Same(p, "next_event") \/ Same(p, "collected") \/ Same(p, "keepalive")
                  /\ events' = events
<1> DEFINE m == proc[p].sess
           f == state[m] = "finalizing" /\ \E i \in DOMAIN events[m] : events[m][i] = "flushed"
<1>1. CASE Take(p)
  <2>1. proc' = [proc EXCEPT ![p].step = "consume", ![p].todo = events[m], ![p].flush = f]
    BY <1>1 DEF Take
  <2> HIDE DEF f, m
  <2>2. Becomes(p, "consume", events[m], proc[p].out, proc[p].closing)
    BY <2>1 DEF TypeInv, Locals, Becomes
  <2>3. QED BY <1>1, <2>2 DEF Take, m
<1>2. CASE ~Take(p)
  <2>1. events' = events
        /\ (Goto(p, "next_event") \/ Goto(p, "collected") \/ Goto(p, "keepalive"))
    BY <1>2 DEF Collect, Rest
  <2>2. QED BY <2>1, GotoBecomes
<1>3. QED BY <1>1, <1>2

LEMMA ConsumeEffect ==
    ASSUME TypeInv, NEW p \in Procs, Consume(p)
    PROVE  LET m    == proc[p].sess
               e    == Head(proc[p].todo)
               rest == Tail(proc[p].todo)
               out  == proc[p].out
               cl   == proc[p].closing
           IN  /\ proc[p].step = "consume" /\ proc[p].todo # <<>>
               /\ \/ /\ words' = [words EXCEPT ![m] = TRUE] /\ UNCHANGED <<state, seq>>
                     /\ e = "words" /\ Becomes(p, "consume", rest, out, cl)
                  \/ /\ Flush(m) /\ UNCHANGED state
                     /\ e = "end" /\ Becomes(p, "consume", rest, out \o Flushed(m), cl)
                  \/ /\ UNCHANGED <<state, words, seq>>
                     /\ e = "flushed" \/ (e = "close" /\ ~Active(m))
                     /\ Becomes(p, "consume", rest, out, cl)
                  \/ /\ Flush(m) /\ state' = [state EXCEPT ![m] = goal[m]]
                     /\ e = "close" /\ state[m] = "finalizing"
                     /\ Becomes(p, "write_terminal", rest, out, Flushed(m))
                  \/ /\ state' = [state EXCEPT ![m] = "failed"]
                     /\ words' = [words EXCEPT ![m] = FALSE] /\ UNCHANGED seq
                     /\ e # "close" \/ state[m] = "streaming"
                     /\ \/ Becomes(p, "write_failed", rest, out, <<>>)
                        \/ Becomes(p, "write_failed", <<>>, out, <<>>)
<1> DEFINE m    == proc[p].sess
           e    == Head(proc[p].todo)
           rest == Tail(proc[p].todo)
           out  == proc[p].out
           cl   == proc[p].closing
<1>1. proc[p].step = "consume" /\ proc[p].todo # <<>>
  BY DEF Consume, At
<1>2. proc' = [proc EXCEPT ![p].todo = rest] => Becomes(p, "consume", rest, out, cl)
  <2> HIDE DEF rest
  <2>1. QED BY <1>1 DEF TypeInv, Locals, Becomes
<1>3. proc' = [proc EXCEPT ![p].todo = rest, ![p].out = @ \o Flushed(m)]
          => Becomes(p, "consume", rest, out \o Flushed(m), cl)
  <2> HIDE DEF rest, m
  <2>1. QED BY <1>1 DEF TypeInv, Locals, Becomes
<1>4. proc' = [proc EXCEPT ![p].step = "write_terminal", ![p].todo = rest,
                           ![p].closing = Flushed(m)]
          => Becomes(p, "write_terminal", rest, out, Flushed(m))
  <2> HIDE DEF rest, m
  <2>1. QED BY <1>1 DEF TypeInv, Locals, Becomes
<1>5. CASE /\ e = "words"
           /\ words' = [words EXCEPT ![m] = TRUE]
           /\ proc' = [proc EXCEPT ![p].todo = rest]
           /\ UNCHANGED <<state, seq>>
  BY <1>1, <1>2, <1>5
<1>6. CASE /\ e = "end"
           /\ Flush(m)
           /\ proc' = [proc EXCEPT ![p].todo = rest, ![p].out = @ \o Flushed(m)]
           /\ UNCHANGED state
  BY <1>1, <1>3, <1>6
<1>7. CASE /\ e = "flushed" \/ (e = "close" /\ ~Active(m))
           /\ proc' = [proc EXCEPT ![p].todo = rest]
           /\ UNCHANGED <<state, words, seq>>
  BY <1>1, <1>2, <1>7
<1>8. CASE /\ e = "close" /\ state[m] = "finalizing"
           /\ Flush(m)
           /\ state' = [state EXCEPT ![m] = goal[m]]
           /\ proc' = [proc EXCEPT ![p].step = "write_terminal", ![p].todo = rest,
                            ![p].closing = Flushed(m)]
  BY <1>1, <1>4, <1>8
<1>9. CASE /\ e = "error" \/ (e = "close" /\ state[m] = "streaming")
           /\ FailSession(p, rest, FALSE)
           /\ UNCHANGED seq
  BY <1>1, <1>9, FailSessionBecomes
<1>10. CASE e = "garbled" /\ FailSession(p, <<>>, TRUE) /\ UNCHANGED seq
  BY <1>1, <1>10, FailSessionBecomes
<1>11. QED BY <1>5, <1>6, <1>7, <1>8, <1>9, <1>10 DEF Consume

LEMMA WriteTerminalEffect ==
    ASSUME TypeInv, NEW p \in Procs, WriteTerminal(p)
    PROVE  LET m   == proc[p].sess
               end == [kind |-> goal[m], n |-> seq[m]]
           IN  \/ /\ Becomes(p, "consume", proc[p].todo,
                             proc[p].out \o proc[p].closing \o <<end>>, <<>>)
                  /\ durable' = [durable EXCEPT ![m] = goal[m]]
                  /\ UNCHANGED <<state, words, lost>>
               \/ /\ Becomes(p, "write_failed", <<>>, proc[p].out, <<>>)
                  /\ state' = [state EXCEPT ![m] = "failed"]
                  /\ words' = [words EXCEPT ![m] = FALSE]
                  /\ lost' = lost \cup {m} /\ UNCHANGED durable
<1> DEFINE m   == proc[p].sess
           end == [kind |-> goal[m], n |-> seq[m]]
           o   == proc[p].out \o proc[p].closing \o <<end>>
<1>1. proc' = [proc EXCEPT ![p].step = "consume", ![p].closing = <<>>, ![p].out = o]
          => Becomes(p, "consume", proc[p].todo, o, <<>>)
  <2> HIDE DEF o
  <2>1. QED BY DEF TypeInv, Locals, Becomes
<1>2. CASE FailSession(p, <<>>, TRUE) /\ lost' = lost \cup {m} /\ UNCHANGED durable
  BY <1>2, FailSessionBecomes
<1>3. CASE /\ durable' = [durable EXCEPT ![m] = goal[m]]
           /\ proc' = [proc EXCEPT ![p].step = "consume", ![p].closing = <<>>,
                            ![p].out = @ \o proc[p].closing
                                         \o <<[kind |-> goal[m], n |-> seq[m]]>>]
           /\ UNCHANGED <<state, words, lost>>
  <2>1. proc' = [proc EXCEPT ![p].step = "consume", ![p].closing = <<>>, ![p].out = o]
    BY <1>3
  <2>2. Becomes(p, "consume", proc[p].todo, o, <<>>)
    BY <1>1, <2>1
  <2>3. QED BY <1>3, <2>2
<1>4. QED BY <1>2, <1>3 DEF WriteTerminal

LEMMA WriteFailedEffect ==
    ASSUME TypeInv, NEW p \in Procs, WriteFailed(p)
    PROVE  LET m == proc[p].sess
           IN  \/ /\ Same(p, "close_failed") /\ UNCHANGED <<lock, lost>>
                  /\ durable' = [durable EXCEPT ![m] = IF @ = "none" THEN @ ELSE "failed"]
               \/ /\ Becomes(p, "write_failed", <<>>, proc[p].out, proc[p].closing)
                  /\ lost' = lost \cup {m} /\ UNCHANGED <<lock, durable>>
               \/ /\ proc'[p] = Idle /\ Release(p)
                  /\ lost' = lost \cup {m} /\ UNCHANGED durable
<1>1. proc[p].step = "write_failed"
  BY DEF WriteFailed, At
<1>2. proc' = [proc EXCEPT ![p].todo = <<>>, ![p].broken = TRUE]
         => Becomes(p, "write_failed", <<>>, proc[p].out, proc[p].closing)
  BY <1>1 DEF TypeInv, Locals, Becomes
<1>3. QED BY <1>2, GotoBecomes, StopEffect DEF WriteFailed

LEMMA ConsumedEffect ==
    ASSUME TypeInv, NEW p \in Procs, Consumed(p)
    PROVE  LET m == proc[p].sess
           IN  /\ proc[p].step = "consume" /\ proc[p].todo = <<>>
               /\ \/ /\ Active(m) /\ Flush(m)
                     /\ Becomes(p, "close", proc[p].todo, proc[p].out \o Flushed(m),
                                proc[p].closing)
                  \/ /\ UNCHANGED <<seq, words>>
                     /\ \/ proc[p].out = <<>> /\ Same(p, "collected")
                        \/ proc[p].out # <<>> /\ Same(p, "push")
<1> DEFINE m == proc[p].sess
<1>1. proc[p].step = "consume" /\ proc[p].todo = <<>>
  BY DEF Consumed, At
<1>2. proc' = [proc EXCEPT ![p].step = "close", ![p].flush = FALSE,
                           ![p].out = @ \o Flushed(m)]
         => Becomes(p, "close", proc[p].todo, proc[p].out \o Flushed(m), proc[p].closing)
  <2> HIDE DEF m
  <2>1. QED BY DEF TypeInv, Locals, Becomes
<1>3. CASE /\ proc[p].flush /\ Active(m)
           /\ Flush(m)
           /\ proc' = [proc EXCEPT ![p].step = "close", ![p].flush = FALSE,
                            ![p].out = @ \o Flushed(m)]
  BY <1>1, <1>2, <1>3
<1>4. CASE /\ Goto(p, IF proc[p].out = <<>> THEN "collected" ELSE "push")
           /\ UNCHANGED <<seq, words>>
  <2>1. Same(p, IF proc[p].out = <<>> THEN "collected" ELSE "push")
    BY <1>4, GotoBecomes
  <2>2. QED BY <1>1, <1>4, <2>1
<1>5. QED BY <1>3, <1>4 DEF Consumed

LEMMA DrainSame ==
    ASSUME TypeInv, NEW p \in Procs, Drain(p) PROVE Same(p, "collect")
BY DEF Drain, TypeInv, Locals, Becomes, Same

LEMMA DeadlineEffect ==
    ASSUME TypeInv, NEW p \in Procs, Deadline(p)
    PROVE  LET m == proc[p].sess
           IN  /\ proc[p].step = "collected" /\ state[m] = "finalizing" /\ Flush(m)
               /\ Becomes(p, "close", proc[p].todo, Flushed(m), proc[p].closing)
<1> DEFINE m == proc[p].sess
<1>1. proc[p].step = "collected" /\ state[m] = "finalizing"
  BY DEF Deadline, Draining, At
<1>2. Flush(m) /\ proc' = [proc EXCEPT ![p].step = "close", ![p].out = Flushed(m)]
  BY DEF Deadline
<1>3. Becomes(p, "close", proc[p].todo, Flushed(m), proc[p].closing)
  <2> HIDE DEF m
  <2>1. QED BY <1>2 DEF TypeInv, Locals, Becomes
<1>4. QED BY <1>1, <1>2, <1>3

LEMMA DrainEffect ==
    ASSUME TypeInv, NEW p \in Procs, Drain(p) \/ Deadline(p)
    PROVE  LET m == proc[p].sess
           IN  /\ proc[p].step = "collected" /\ state[m] = "finalizing"
               /\ \/ Same(p, "collect") /\ UNCHANGED <<seq, words>>
                  \/ /\ Flush(m)
                     /\ Becomes(p, "close", proc[p].todo, Flushed(m), proc[p].closing)
<1>1. proc[p].step = "collected" /\ state[proc[p].sess] = "finalizing"
  BY DEF Drain, Deadline, Draining, At
<1>2. QED BY <1>1, DrainSame, DeadlineEffect DEF Drain, sessionVars

LEMMA CloseEffect ==
    ASSUME TypeInv, NEW p \in Procs, Close(p)
    PROVE  LET m == proc[p].sess
               t == IF \A i \in DOMAIN events[m] : events[m][i] # "close"
                    THEN Append(events[m], "close") ELSE events[m]
           IN  /\ Becomes(p, "consume", t, proc[p].out, proc[p].closing)
               /\ events' = [events EXCEPT ![m] = <<>>] /\ Closed(m)
<1> DEFINE m    == proc[p].sess
           last == {i \in DOMAIN events[m] : events[m][i] = "close"}
           u    == IF last = {} THEN Append(events[m], "close") ELSE events[m]
           t    == IF \A i \in DOMAIN events[m] : events[m][i] # "close"
                   THEN Append(events[m], "close") ELSE events[m]
<1>1. last = {} <=> \A i \in DOMAIN events[m] : events[m][i] # "close"
  OBVIOUS
<1>2. u = t
  BY <1>1
<1>3. proc' = [proc EXCEPT ![p].step = "consume", ![p].todo = u]
  BY DEF Close
<1>4. Becomes(p, "consume", t, proc[p].out, proc[p].closing)
  <2> HIDE DEF u, t
  <2>1. QED BY <1>2, <1>3 DEF TypeInv, Locals, Becomes
<1>5. QED BY <1>4 DEF Close

LEMMA PushEffect ==
    ASSUME TypeInv, NEW p \in Procs, Push(p)
    PROVE  LET m    == proc[p].sess
               task == Head(proc[p].out)
               s    == IF Len(proc[p].out) = 1 THEN "collected" ELSE "push"
           IN  /\ Becomes(p, s, proc[p].todo, Tail(proc[p].out), proc[p].closing)
               /\ \/ /\ pushed' = [pushed EXCEPT ![m] =
                           Append(@, IF task.kind = "utterance" THEN task
                                                         ELSE [task EXCEPT !.n = seq[m]])]
                     /\ UNCHANGED lost
                  \/ lost' = lost \cup {m} /\ UNCHANGED pushed
<1> DEFINE s == IF Len(proc[p].out) = 1 THEN "collected" ELSE "push"
<1>1. proc' = [proc EXCEPT ![p].out = Tail(@), ![p].step = s]
  BY DEF Push
<1>2. Becomes(p, s, proc[p].todo, Tail(proc[p].out), proc[p].closing)
  <2> HIDE DEF s
  <2>1. QED BY <1>1 DEF TypeInv, Locals, Becomes
<1>3. QED BY <1>2 DEF Push

\* A step that is not the end of a handler touches no other coroutine.
OwnStep(p) ==
    \/ StartRequest(p) \/ (\E op \in {"audio", "finish", "disconnect"} : Request(p, op))
    \/ Refuse(p) \/ Acquire(p) \/ (SessionStep(p) /\ ~Emitted(p))

LEMMA OthersKeep ==
    ASSUME TypeInv, NEW p \in Procs, OwnStep(p), NEW q \in Procs, q # p
    PROVE  proc'[q] = proc[q]
<1> USE DEF TypeInv
<1>1. CASE StartRequest(p) \/ Refuse(p) \/ Acquire(p) \/ Member(p) \/ Create(p) \/ Open(p)
  BY <1>1 DEF StartRequest, Refuse, Acquire, Member, Create, Open, Goto, Stop
<1>2. ASSUME NEW op \in {"audio", "finish", "disconnect"}, Request(p, op)
      PROVE  proc'[q] = proc[q]
  BY <1>2 DEF Request
<1>3. CASE StartFailed(p) \/ WriteFinalizing(p) \/ Send(p) \/ Collect(p)
  BY <1>3 DEF StartFailed, WriteFinalizing, Send, Collect, Take, Rest, Goto, Stop
<1>4. CASE Consume(p) \/ WriteTerminal(p) \/ WriteFailed(p) \/ CloseFailed(p)
  BY <1>4 DEF Consume, WriteTerminal, WriteFailed, CloseFailed, FailSession, Goto, Stop
<1>5. CASE Consumed(p) \/ Close(p) \/ Push(p) \/ Drain(p) \/ Deadline(p) \/ Leave(p)
  BY <1>5 DEF Consumed, Close, Push, Drain, Deadline, Leave, Goto
<1>6. CASE FailLive(p) \/ FailWrite(p) \/ FailClose(p)
  BY <1>6 DEF FailLive, FailWrite, FailClose, Goto, Stop
<1>7. QED BY <1>1, <1>2, <1>3, <1>4, <1>5, <1>6 DEF OwnStep, SessionStep

LEMMA PushKept == ASSUME LocalInv, NEW p \in Procs, OwnStep(p) PROVE PushHasOutput'
<1> USE DEF LocalInv
<1>1. ASSUME NEW s, Same(p, s), s # "push" PROVE proc'[p].step # "push"
  BY <1>1 DEF Same, Becomes
<1>2. Stop(p) => proc'[p].step # "push"
  BY StopEffect, IdleFields
<1>3. proc'[p].step = "push" => proc'[p].out # <<>>
  <2>1. CASE StartRequest(p) \/ Acquire(p) \/ Member(p)
    <3>1. proc'[p].step # "push"
      BY <1>2, <2>1 DEF StartRequest, Acquire, Member, TypeInv, Locals
    <3>2. QED BY <3>1
  <2>2. CASE Refuse(p) \/ Create(p) \/ Open(p) \/ StartFailed(p)
    <3>1. Stop(p) \/ \E s \in {"emit", "open", "start_failed"} : Goto(p, s)
      BY <2>2 DEF Refuse, Create, Open, StartFailed
    <3>2. QED BY <1>1, <1>2, <3>1, GotoBecomes
  <2>3. ASSUME NEW op \in {"audio", "finish", "disconnect"}, Request(p, op)
        PROVE  proc'[p].step # "push"
    <3>1. proc'[p].step = Entry(registry) \/ proc'[p].step = "emit"
      BY <2>3 DEF Request, Locals, TypeInv
    <3>2. QED BY <3>1 DEF Entry
  <2>4. CASE WriteFinalizing(p) \/ Send(p)
    <3>1. Stop(p) \/ \E s \in {"finalize", "collect", "fail", "collected"} : Goto(p, s)
      BY <2>4 DEF WriteFinalizing, Send
    <3>2. QED BY <1>1, <1>2, <3>1, GotoBecomes
  <2>5. CASE Collect(p)
    BY <2>5, CollectEffect DEF Same, Becomes
  <2>6. CASE Consume(p)
    BY <2>6, ConsumeEffect DEF Becomes
  <2>7. CASE WriteTerminal(p) \/ WriteFailed(p)
    BY <2>7, WriteTerminalEffect, WriteFailedEffect, IdleFields DEF Same, Becomes
  <2>8. CASE Consumed(p)
    BY <2>8, ConsumedEffect DEF Same, Becomes
  <2>9. CASE Drain(p) \/ Deadline(p) \/ Close(p)
    BY <2>9, DrainEffect, CloseEffect DEF Same, Becomes
  <2>10. CASE Push(p)
    <3>1. proc[p].out # <<>> /\ proc[p].out \in Seq(Tasks)
      BY <2>10 DEF Push, At, PushHasOutput, TypeInv, Locals
    <3>2. Tail(proc[p].out) = <<>> => Len(proc[p].out) = 1
      <4> DEFINE o == proc[p].out
      <4>1. Len(o) \in Nat /\ Len(o) # 0 /\ Len(Tail(o)) = Len(o) - 1
        BY <3>1, EmptySeq, HeadTailProperties
      <4>2. Tail(o) = <<>> => Len(Tail(o)) = 0
        BY EmptySeq
      <4> HIDE DEF o
      <4>3. QED BY <4>1, <4>2 DEF o
    <3>3. /\ proc'[p].out = Tail(proc[p].out)
          /\ proc'[p].step = IF Len(proc[p].out) = 1 THEN "collected" ELSE "push"
      BY <2>10, PushEffect DEF Becomes
    <3>4. QED BY <3>2, <3>3
  <2>11. CASE CloseFailed(p) \/ Leave(p) \/ FailLive(p) \/ FailWrite(p) \/ FailClose(p)
    <3>1. Stop(p) \/ \E s \in {"consume", "emit", "fail_write", "fail_close"} : Goto(p, s)
      BY <2>11 DEF CloseFailed, Leave, FailLive, FailWrite, FailClose
    <3>2. QED BY <1>1, <1>2, <3>1, GotoBecomes
  <2>12. QED BY <2>1, <2>2, <2>3, <2>4, <2>5, <2>6, <2>7, <2>8, <2>9, <2>10, <2>11
             DEF OwnStep, SessionStep
<1>4. QED BY <1>3, OthersKeep DEF PushHasOutput

LEMMA OwnStepLocal ==
    ASSUME LocalInv, NEW p \in Procs, OwnStep(p) PROVE LocalInv'
<1>1. TypeInv'
  <2>1. Push(p) => proc[p].out # <<>>
    BY DEF LocalInv, PushHasOutput, Push, At
  <2>2. QED BY <2>1, OpeningType, MemberType, RequestType, AcquireType, SendType,
               CollectType, ConsumeType, WriteTerminalType, WriteFailedType,
               ConsumedType, CloseType, PushType, LeaveType
            DEF LocalInv, OwnStep, SessionStep
<1>2. QED BY <1>1, PushKept DEF LocalInv

\* The listener starts, or asks for the lock of the socket's session.
Restarts ==
    /\ proc'[Listener].step \in {"emit", "enter", "wait"} /\ proc'[Listener].op = "listen"
    /\ proc'[Listener].out = <<>> /\ proc'[Listener].closing = <<>>
    /\ proc'[Listener].todo = <<>> /\ proc'[Listener].sess = None

\* The steps that end a handler or concern the listener leave every other
\* coroutine alone, and no session's store.
LEMMA EmittedEffect ==
    ASSUME TypeInv, NEW h \in Procs, Emitted(h) \/ Listen
    PROVE  /\ \A q \in Procs \ {h, Listener} : proc'[q] = proc[q]
           /\ Listen => \A q \in Procs \ {Listener} : proc'[q] = proc[q]
           /\ \A q \in Procs : \/ proc'[q] = proc[q] \/ proc'[q] = Idle
                               \/ q = Listener /\ Restarts
<1> USE ProcsAre DEF TypeInv
<1> DEFINE start == [Idle EXCEPT !.step = "emit", !.op = "listen"]
           turn == [Idle EXCEPT !.step = Entry(registry), !.op = "listen", !.key = registry]
<1>1. CASE Listen
  <2>1. proc' = [proc EXCEPT ![Listener] = Idle] \/ proc' = [proc EXCEPT ![Listener] = turn]
    BY <1>1 DEF Listen, Stop
  <2>2. Entry(registry) \in {"enter", "wait"}
    BY DEF Entry
  <2>3. proc' = [proc EXCEPT ![Listener] = turn] => Restarts
    BY <2>2 DEF Restarts, Idle
  <2> HIDE DEF turn
  <2>4. QED BY <2>1, <2>3
<1>2. CASE Emitted(h)
  <2>1. h # Listener
    BY <1>2 DEF Emitted
  <2>2. \/ proc' = [proc EXCEPT ![h] = Idle]
        \/ proc' = [proc EXCEPT ![h] = Idle, ![Listener] = Idle]
        \/ proc' = [proc EXCEPT ![h] = Idle, ![Listener] = proc[Listener]]
        \/ proc' = [proc EXCEPT ![h] = Idle, ![Listener] = start]
    BY <1>2, <2>1 DEF Emitted, Stop
  <2>3. proc' = [proc EXCEPT ![h] = Idle, ![Listener] = start] => Restarts
    BY <2>1 DEF Restarts, Idle
  <2> HIDE DEF start
  <2>4. \A q \in Procs \ {h, Listener} : proc'[q] = proc[q]
    BY <2>2
  <2>5. ~Listen
    <3>1. Listen => proc'[h] = proc[h]
      BY <2>1 DEF Listen, Stop
    <3>2. proc'[h] = Idle /\ proc[h].step = "emit"
      BY <1>2, <2>1, <2>2 DEF Emitted, At
    <3>3. QED BY <3>1, <3>2 DEF Idle
  <2>6. QED BY <2>1, <2>2, <2>3, <2>4, <2>5
<1>3. QED BY <1>1, <1>2

LEMMA InitLocal == Init => LocalInv
<1> SUFFICES ASSUME Init PROVE LocalInv
  OBVIOUS
<1> USE DEF Init
<1>1. \A p \in Procs : proc[p] = Idle /\ Idle.step = "idle"
  BY DEF Idle
<1>2. proc \in [Procs -> Locals]
  BY IdleIsLocal
<1>3. UsesSession /\ PushHasOutput
  BY <1>1 DEF UsesSession, PushHasOutput, Using, Locking, Failing, Collecting
<1>4. StoreType
  <2>1. <<>> \in Seq(ProviderEvents) /\ <<>> \in Seq(Tasks)
    OBVIOUS
  <2>2. QED BY <2>1, SessionAssumption DEF StoreType, Status
<1>5. QED BY <1>2, <1>3, <1>4 DEF LocalInv, TypeInv

LEMMA StepLocal == LocalInv /\ [Next]_vars => LocalInv'
<1> SUFFICES ASSUME LocalInv, [Next]_vars PROVE LocalInv'
  OBVIOUS
<1>1. ASSUME NEW p \in Procs, OwnStep(p) PROVE LocalInv'
  BY <1>1, OwnStepLocal
<1>2. ASSUME NEW h \in Procs, Emitted(h) \/ Listen PROVE LocalInv'
  <2>1. TypeInv'
    BY <1>2, EmittedType DEF LocalInv
  <2>2. Idle.step # "push" /\ (Restarts => proc'[Listener].step # "push")
    BY DEF Idle, Restarts
  <2>3. PushHasOutput'
    BY <1>2, <2>2, EmittedEffect DEF LocalInv, PushHasOutput
  <2>4. QED BY <2>1, <2>3 DEF LocalInv
<1>3. ASSUME NEW m \in Meetings, NEW e \in ProviderEvents, Provider(m, e) PROVE LocalInv'
  BY <1>3, ProviderType DEF LocalInv, PushHasOutput, Provider
<1>4. CASE UNCHANGED vars
  BY <1>4 DEF vars, sessionVars, LocalInv, TypeInv, StoreType, UsesSession, PushHasOutput
<1>5. CASE Next
  <2>1. \A h \in Handlers : h \in Procs
    BY ProcsAre
  <2>2. CASE \E h \in Handlers : StartRequest(h)
    BY <1>1, <2>1, <2>2 DEF OwnStep
  <2>3. CASE \E h \in Handlers, op \in {"audio", "finish", "disconnect"} : Request(h, op)
    BY <1>1, <2>1, <2>3 DEF OwnStep
  <2>4. CASE \E p \in Procs : Refuse(p) \/ Acquire(p) \/ SessionStep(p)
    BY <1>1, <1>2, <2>4 DEF OwnStep
  <2>5. CASE Listen
    BY <1>2, <2>5, ProcsAre
  <2>6. CASE \E m \in Meetings, e \in ProviderEvents : Provider(m, e)
    BY <1>3, <2>6
  <2>7. QED BY <1>5, <2>2, <2>3, <2>4, <2>5, <2>6 DEF Next
<1>6. QED BY <1>4, <1>5

\* Every coroutine that touches a session has one, and what it keeps of events
\* and tasks are events and tasks, whatever requests overlap.
THEOREM TypeCorrect == Spec => []TypeOK
<1>1. LocalInv => TypeOK
  BY TypeInvIsTypeOK DEF LocalInv
<1>2. QED BY <1>1, InitLocal, StepLocal, PTL DEF Spec
-----------------------------------------------------------------------------
(* One coroutine at a time works on a session, unless starts overlap.       *)

\* Starts do not overlap; while one waits for its membership check no lock is
\* held, the listener does not run and the others can only be turned away.
OneStart ==
    /\ \A p, q \in Procs : proc[p].step \in Opening /\ proc[q].step \in Opening => p = q
    /\ \A p \in Procs : proc[p].step = "member" =>
          p # Listener /\ ~InUse /\ \A m \in Meetings : lock[m] = None
    /\ \A p, q \in Procs : proc[p].step = "member" /\ q # p =>
          \/ proc[q].step = "idle"
          \/ /\ proc[q].step \in {"enter", "emit"}
             /\ proc[q].op \notin {"start", "listen"}
             /\ q # Listener

\* Who asked for a lock asked for the one of the session the socket has.
AsksForCurrent ==
    \A p \in Procs : proc[p].step \in {"enter", "wait"} =>
        proc[p].key \in Meetings /\ (registry = None \/ registry = proc[p].key)

\* The lock of a session and the coroutine that works on it name each other.
LockMatches ==
    /\ \A p \in Procs : proc[p].step \in Locking => lock[proc[p].sess] = p
    /\ \A p \in Procs, m \in Meetings : lock[m] = p =>
          proc[p].sess = m /\ proc[p].step \in Locking \cup Failing

LockInv == LocalInv /\ OneStart /\ AsksForCurrent /\ LockMatches

\* How a coroutine that has a session goes on: with it, or on its way out; it
\* gives its locks back or keeps them.
UsingMove(p) ==
    /\ proc[p].step \in Using
    /\ registry' \in {registry, None}
    /\ proc'[p].step \in Using \cup {"idle", "emit"}
    /\ proc'[p].step \in Using => proc'[p].sess = proc[p].sess
    /\ proc'[p].step \in Opening => proc[p].step \in Opening
    /\ \/ /\ lock' = lock
          /\ proc'[p].step \in Locking => proc[p].step \in Locking
          /\ proc[p].step \in Locking \cup Failing => proc'[p].step \in Locking \cup Failing
       \/ Release(p) /\ proc'[p].step \notin Locking

UsingStep(p) == SessionStep(p) /\ ~Emitted(p) /\ ~Member(p)

LEMMA UsingMoves ==
    ASSUME TypeInv, NEW p \in Procs, UsingStep(p) PROVE UsingMove(p)
<1> USE DEF Using, Locking, Failing, Collecting, Opening
<1>1. ASSUME NEW s, Goto(p, s) PROVE proc'[p].step = s /\ proc'[p].sess = proc[p].sess
  BY <1>1, GotoBecomes DEF Same, Becomes
<1>2. Stop(p) => proc'[p].step = "idle"
  BY StopEffect, IdleFields
<1>3. CASE Create(p)
  BY <1>1, <1>2, <1>3 DEF Create, At, UsingMove
<1>4. CASE Open(p)
  BY <1>1, <1>4 DEF Open, At, UsingMove, DiscardIfOver
<1>5. CASE StartFailed(p)
  BY <1>2, <1>5 DEF StartFailed, At, UsingMove
<1>6. CASE WriteFinalizing(p)
  BY <1>1, <1>2, <1>6 DEF WriteFinalizing, At, UsingMove
<1>7. CASE Send(p)
  BY <1>1, <1>7 DEF Send, At, UsingMove
<1>8. CASE Collect(p)
  BY <1>8, CollectEffect DEF Collect, At, UsingMove, Same, Becomes
<1>9. CASE Consume(p)
  BY <1>9, ConsumeEffect DEF Consume, UsingMove, Becomes
<1>10. CASE WriteTerminal(p)
  BY <1>10, WriteTerminalEffect DEF WriteTerminal, At, UsingMove, Becomes
<1>11. CASE WriteFailed(p)
  BY <1>11, WriteFailedEffect, IdleFields DEF WriteFailed, At, UsingMove, Same, Becomes
<1>12. CASE CloseFailed(p)
  BY <1>1, <1>12 DEF CloseFailed, At, UsingMove
<1>13. CASE Consumed(p)
  BY <1>13, ConsumedEffect DEF Consumed, UsingMove, Same, Becomes
<1>14. CASE Close(p)
  BY <1>14, CloseEffect DEF Close, At, UsingMove, Becomes
<1>15. CASE Push(p)
  <2> DEFINE s == IF Len(proc[p].out) = 1 THEN "collected" ELSE "push"
  <2>1. proc'[p].step = s /\ proc'[p].sess = proc[p].sess
    BY <1>15, PushEffect DEF Becomes
  <2>2. proc[p].step = "push" /\ UNCHANGED <<registry, lock>>
    BY <1>15 DEF Push, At
  <2>3. s \in {"collected", "push"}
    OBVIOUS
  <2> HIDE DEF s
  <2>4. QED BY <2>1, <2>2, <2>3 DEF UsingMove
<1>16. CASE Drain(p) \/ Deadline(p)
  BY <1>16, DrainEffect DEF Drain, Deadline, UsingMove, Same, Becomes
<1>17. CASE Leave(p)
  BY <1>1, <1>17 DEF Leave, At, UsingMove, DiscardIfOver
<1>18. CASE FailLive(p)
  BY <1>1, <1>18 DEF FailLive, At, UsingMove
<1>19. CASE FailWrite(p)
  BY <1>1, <1>2, <1>19 DEF FailWrite, At, UsingMove
<1>20. CASE FailClose(p)
  BY <1>1, <1>20 DEF FailClose, At, UsingMove
<1>21. QED
  BY <1>3, <1>4, <1>5, <1>6, <1>7, <1>8, <1>9, <1>10, <1>11, <1>12, <1>13, <1>14,
     <1>15, <1>16, <1>17, <1>18, <1>19, <1>20 DEF UsingStep, SessionStep

LEMMA UsingKeepsLock ==
    ASSUME LockInv, LocalInv', NEW p \in Procs, UsingMove(p),
           \A q \in Procs : q # p => proc'[q] = proc[q]
    PROVE  OneStart' /\ AsksForCurrent' /\ LockMatches'
<1> USE DEF LockInv
<1>1. \A s \in Using : s \notin {"member", "idle", "enter", "wait", "emit"}
  BY DEF Using, Locking, Failing, Collecting
<1>2. \A q \in Procs : proc[q].step # "member"
  <2>1. proc[p].step \notin {"idle", "enter", "emit", "member"}
    BY <1>1 DEF UsingMove
  <2>2. QED BY <2>1 DEF OneStart
<1>3. OneStart'
  <2>1. \A q \in Procs : proc'[q].step # "member"
    BY <1>1, <1>2 DEF UsingMove
  <2>2. \A q \in Procs : proc'[q].step \in Opening => proc[q].step \in Opening
    BY DEF UsingMove
  <2>3. QED BY <2>1, <2>2 DEF OneStart
<1>4. AsksForCurrent'
  BY <1>1 DEF AsksForCurrent, UsingMove
<1>5. lock \in [Meetings -> Procs \cup {None}] /\ p # None
  BY ProcsAre DEF LocalInv, TypeInv, StoreType
<1>6. Locking \subseteq Using /\ Failing \subseteq Using
  BY DEF Using
<1>7. ASSUME lock' = lock PROVE LockMatches'
  <2>1. proc'[p].step \in Locking => proc[p].step \in Locking
    <3>1. Release(p) => \A m \in Meetings : lock[m] # p
      BY <1>5, <1>7 DEF Release
    <3>2. QED BY <3>1 DEF UsingMove
  <2>2. \A m \in Meetings : lock[m] = p => proc[p].step \in Locking \cup Failing
            /\ proc'[p].step \in Locking \cup Failing
    <3>1. Release(p) => \A m \in Meetings : lock[m] # p
      BY <1>5, <1>7 DEF Release
    <3>2. QED BY <3>1 DEF LockMatches, UsingMove
  <2>3. ASSUME NEW q \in Procs, proc'[q].step \in Locking
        PROVE  lock'[proc'[q].sess] = q
    <3>1. CASE q = p
      BY <1>6, <1>7, <2>1, <2>3, <3>1 DEF LockMatches, UsingMove
    <3>2. CASE q # p
      BY <1>7, <2>3, <3>2 DEF LockMatches
    <3>3. QED BY <3>1, <3>2
  <2>4. ASSUME NEW q \in Procs, NEW m \in Meetings, lock'[m] = q
        PROVE  proc'[q].sess = m /\ proc'[q].step \in Locking \cup Failing
    <3>1. CASE q = p
      BY <1>6, <1>7, <2>2, <2>4, <3>1 DEF LockMatches, UsingMove
    <3>2. CASE q # p
      BY <1>7, <2>4, <3>2 DEF LockMatches
    <3>3. QED BY <3>1, <3>2
  <2>5. QED BY <2>3, <2>4 DEF LockMatches
<1>8. ASSUME Release(p), proc'[p].step \notin Locking PROVE LockMatches'
  <2>1. \A m \in Meetings : lock'[m] = IF lock[m] = p THEN None ELSE lock[m]
    BY <1>8 DEF Release
  <2>2. \A q \in Procs : q # p => q # None /\ (proc[q].step \in Locking => proc[q].sess \in Meetings)
    BY <1>6, ProcsAre DEF LocalInv, TypeInv, UsesSession
  <2>3. ASSUME NEW q \in Procs, proc'[q].step \in Locking
        PROVE  lock'[proc'[q].sess] = q
    <3>1. q # p /\ proc[q].step \in Locking /\ proc'[q] = proc[q]
      BY <1>8, <2>3
    <3>2. lock[proc[q].sess] = q /\ proc[q].sess \in Meetings
      BY <2>2, <3>1 DEF LockMatches
    <3>3. QED BY <2>1, <3>1, <3>2
  <2>4. ASSUME NEW q \in Procs, NEW m \in Meetings, lock'[m] = q
        PROVE  proc'[q].sess = m /\ proc'[q].step \in Locking \cup Failing
    <3>1. lock[m] = q /\ q # p
      BY <1>5, <2>1, <2>4, ProcsAre
    <3>2. QED BY <3>1 DEF LockMatches
  <2>5. (\A q \in Procs : proc[q].step \in Locking => lock[proc[q].sess] = q)'
    BY <2>3
  <2>6. (\A q \in Procs, m \in Meetings : lock[m] = q =>
            proc[q].sess = m /\ proc[q].step \in Locking \cup Failing)'
    BY <2>4
  <2>7. QED BY <2>5, <2>6 DEF LockMatches
<1>9. LockMatches'
  BY <1>7, <1>8 DEF UsingMove
<1>10. QED BY <1>3, <1>4, <1>9

\* A coroutine that neither collects nor fails holds no lock.
LEMMA HoldsNone ==
    ASSUME LockInv, NEW p \in Procs, proc[p].step \notin Locking \cup Failing
    PROVE  \A m \in Meetings : lock[m] # p
BY DEF LockInv, LockMatches

LEMMA NotMember ==
    ASSUME LockInv, NEW p \in Procs,
           \/ proc[p].step \notin {"idle", "enter", "emit", "member"}
           \/ p = Listener /\ proc[p].step # "idle"
    PROVE  \A q \in Procs : proc[q].step # "member"
BY DEF LockInv, OneStart

LEMMA StartKeepsLock ==
    ASSUME LockInv, "start" \notin Overlapping, NEW p \in Procs, StartRequest(p)
    PROVE  OneStart' /\ AsksForCurrent' /\ LockMatches'
<1> USE DEF LockInv, LocalInv, TypeInv
<1>1. /\ p # Listener /\ ~InUse /\ \A q \in Procs : proc[q].step = "idle"
      /\ UNCHANGED <<registry, lock, state>>
  BY DEF StartRequest, sessionVars
<1>2. proc' = [proc EXCEPT ![p].step = "member", ![p].op = "start"]
  BY DEF StartRequest
<1>3. proc'[p].step = "member" /\ \A q \in Procs \ {p} : proc'[q] = proc[q]
  BY <1>2 DEF Locals
<1>4. "idle" \notin Locking \cup Failing \cup Opening /\ "member" \notin Locking
  BY DEF Locking, Collecting, Failing, Opening
<1>5. \A q \in Procs, m \in Meetings : lock[m] # q
  BY <1>1, <1>4, HoldsNone
<1>6. \A m \in Meetings : lock[m] = None
  BY <1>5 DEF StoreType
<1>7. OneStart'
  <2>1. (~InUse)'
    BY <1>1 DEF InUse, Active
  <2>2. \A m \in Meetings : lock'[m] = None
    BY <1>1, <1>6
  <2>3. \A q \in Procs : q # p => proc'[q].step = "idle" /\ proc'[q].step \notin Opening
    BY <1>1, <1>3, <1>4
  <2>4. \A q, r \in Procs :
            proc'[q].step \in Opening /\ proc'[r].step \in Opening => q = r
    BY <2>3
  <2>5. \A q \in Procs : proc'[q].step = "member" =>
            q # Listener /\ ~InUse' /\ \A m \in Meetings : lock'[m] = None
    BY <1>1, <2>1, <2>2, <2>3
  <2>6. \A q, r \in Procs : proc'[q].step = "member" /\ r # q => proc'[r].step = "idle"
    BY <2>3
  <2>7. QED BY <2>4, <2>5, <2>6 DEF OneStart
<1>8. AsksForCurrent'
  BY <1>1, <1>3 DEF AsksForCurrent
<1>9. LockMatches'
  BY <1>1, <1>3, <1>4, <1>5 DEF LockMatches
<1>10. QED BY <1>7, <1>8, <1>9

LEMMA MemberKeepsLock ==
    ASSUME LockInv, NEW p \in Procs, Member(p)
    PROVE  OneStart' /\ AsksForCurrent' /\ LockMatches'
<1> USE DEF LockInv, LocalInv, TypeInv
<1>1. /\ proc[p].step = "member" /\ lock' = lock
      /\ \A q \in Procs \ {p} : proc[q].step # "enter"
  BY DEF Member, At, CanRun, Running
<1>2. PICK m \in Meetings : /\ registry' = m
                            /\ proc' = [proc EXCEPT ![p].step = "create", ![p].sess = m]
  BY <1>1 DEF Member, OneStart
<1>3. proc'[p].step = "create" /\ \A q \in Procs \ {p} : proc'[q] = proc[q]
  BY <1>2 DEF Locals
<1>4. \A q \in Procs \ {p} : proc'[q].step \in {"idle", "emit"}
  BY <1>1, <1>3 DEF OneStart
<1>5. \A n \in Meetings : lock'[n] = None
  BY <1>1 DEF OneStart
<1>6. OneStart'
  BY <1>3, <1>4 DEF OneStart, Opening
<1>7. AsksForCurrent'
  BY <1>3, <1>4 DEF AsksForCurrent
<1>8. {"idle", "emit", "create"} \cap Locking = {}
  BY DEF Locking, Collecting
<1>9. LockMatches'
  BY <1>3, <1>4, <1>5, <1>8, ProcsAre DEF LockMatches
<1>10. QED BY <1>6, <1>7, <1>9

LEMMA RequestKeepsLock ==
    ASSUME LockInv, NEW p \in Procs, NEW op \in {"audio", "finish", "disconnect"},
           Request(p, op)
    PROVE  OneStart' /\ AsksForCurrent' /\ LockMatches'
<1> USE DEF LockInv, LocalInv, TypeInv
<1>1. proc[p].step = "idle" /\ p # Listener /\ UNCHANGED <<registry, lock, state>>
  BY DEF Request, At, sessionVars
<1>2. \/ /\ registry # None
         /\ proc' = [proc EXCEPT ![p].step = Entry(registry), ![p].op = op,
                       ![p].key = registry]
      \/ proc' = [proc EXCEPT ![p].step = "emit", ![p].op = op]
  BY DEF Request
<1>3. /\ \/ /\ proc'[p].step = Entry(registry) /\ proc'[p].key = registry
            /\ registry \in Meetings
         \/ proc'[p].step = "emit"
      /\ proc'[p].op = op
      /\ \A q \in Procs \ {p} : proc'[q] = proc[q]
  BY <1>2 DEF Locals, StoreType
<1>4. proc'[p].step \in {"enter", "wait", "emit"}
  BY <1>3 DEF Entry
<1>5. ASSUME NEW q \in Procs \ {p}, proc[q].step = "member"
      PROVE  proc'[p].step \in {"enter", "emit"}
  <2>1. \A n \in Procs, m \in Meetings : ~Waiting(n, m)
    BY <1>1, <1>5 DEF OneStart, Waiting
  <2>2. registry \in Meetings => Entry(registry) = "enter"
    BY <1>5, <2>1 DEF OneStart, Entry
  <2>3. QED BY <1>3, <2>2
<1>6. OneStart'
  <2>1. InUse' = InUse
    BY <1>1 DEF InUse, Active
  <2>2. {"enter", "wait", "emit"} \cap Opening = {}
    BY DEF Opening
  <2>3. \A q \in Procs : proc'[q].step \in Opening => q # p /\ proc'[q] = proc[q]
    BY <1>3, <1>4, <2>2
  <2>4. \A q, r \in Procs :
            proc'[q].step \in Opening /\ proc'[r].step \in Opening => q = r
    BY <2>3 DEF OneStart
  <2>5. \A q \in Procs : proc'[q].step = "member" => q # p /\ proc[q].step = "member"
    BY <1>3, <1>4
  <2>6. \A q \in Procs : proc'[q].step = "member" =>
            q # Listener /\ ~InUse' /\ \A m \in Meetings : lock'[m] = None
    BY <1>1, <2>1, <2>5 DEF OneStart
  <2>7. ASSUME NEW q \in Procs, NEW r \in Procs, r # q, proc'[q].step = "member"
        PROVE  \/ proc'[r].step = "idle"
               \/ /\ proc'[r].step \in {"enter", "emit"}
                  /\ proc'[r].op \notin {"start", "listen"}
                  /\ r # Listener
    <3>1. CASE r = p
      BY <1>1, <1>3, <1>5, <2>5, <2>7, <3>1
    <3>2. CASE r # p
      BY <1>3, <2>5, <2>7, <3>2 DEF OneStart
    <3>3. QED BY <3>1, <3>2
  <2>8. QED BY <2>4, <2>6, <2>7 DEF OneStart
<1>7. AsksForCurrent'
  BY <1>1, <1>3 DEF AsksForCurrent
<1>8. {"enter", "wait", "emit", "idle"} \cap (Locking \cup Failing) = {}
  BY DEF Locking, Collecting, Failing
<1>9. \A m \in Meetings : lock[m] # p
  BY <1>1, <1>8, HoldsNone
<1>10. LockMatches'
  BY <1>1, <1>3, <1>4, <1>8, <1>9 DEF LockMatches
<1>11. QED BY <1>6, <1>7, <1>10

LEMMA RefuseKeepsLock ==
    ASSUME LockInv, NEW p \in Procs, Refuse(p)
    PROVE  OneStart' /\ AsksForCurrent' /\ LockMatches'
<1> USE DEF LockInv, LocalInv, TypeInv
<1>1. /\ proc[p].step \in {"enter", "wait"} /\ UNCHANGED <<lock, state>>
      /\ registry' \in {registry, None}
      /\ Goto(p, "emit") \/ Stop(p)
  BY DEF Refuse, Turn, At, sessionVars
<1>2. /\ \/ proc'[p].step = "emit" /\ proc'[p].op = proc[p].op
         \/ proc'[p].step = "idle"
      /\ \A q \in Procs \ {p} : proc'[q] = proc[q]
  BY <1>1, GotoBecomes, StopEffect, IdleFields, OthersKeep DEF Same, Becomes, OwnStep
<1>3. InUse' => InUse
  BY <1>1, SessionAssumption DEF InUse, Active
<1>4. OneStart'
  BY <1>1, <1>2, <1>3 DEF OneStart, Opening
<1>5. AsksForCurrent'
  BY <1>1, <1>2 DEF AsksForCurrent
<1>6. {"enter", "wait", "emit", "idle"} \cap (Locking \cup Failing) = {}
  BY DEF Locking, Collecting, Failing
<1>7. \A m \in Meetings : lock[m] # p
  BY <1>1, <1>6, HoldsNone
<1>8. LockMatches'
  BY <1>1, <1>2, <1>6, <1>7 DEF LockMatches
<1>9. QED BY <1>4, <1>5, <1>8

\* A lock is taken for the session the socket has, when nobody holds it.
LEMMA AcquireEffect ==
    ASSUME LockInv, NEW p \in Procs, Acquire(p)
    PROVE  /\ registry \in Meetings /\ proc[p].key = registry /\ lock[registry] = None
           /\ proc[p].step \in {"enter", "wait"}
           /\ lock' = [lock EXCEPT ![registry] = p]
           /\ proc'[p].sess = registry /\ proc'[p].op = proc[p].op
           /\ proc'[p].out = proc[p].out /\ proc'[p].closing = proc[p].closing
           /\ proc'[p].todo = proc[p].todo
           /\ \/ /\ proc'[p].step \in {"send", "collect"} /\ UNCHANGED <<state, goal>>
                 /\ proc[p].op \in {"audio", "listen"}
                 /\ proc'[p].step = "collect" => proc[p].op = "listen"
              \/ /\ proc'[p].step \in {"finalize", "write_finalizing"}
                 /\ proc[p].op \in {"finish", "disconnect"}
                 /\ state' = [state EXCEPT ![registry] = "finalizing"]
                 /\ proc'[p].step = "finalize" => durable[registry] = "none"
                 /\ InUse
           /\ \A q \in Procs \ {p} : proc'[q] = proc[q] /\ proc[q].step # "member"
<1> USE DEF LockInv, LocalInv, TypeInv
<1>1. /\ proc[p].step \in {"enter", "wait"} /\ ~Refused(p) /\ registry # None
      /\ lock[proc[p].key] = None /\ lock' = [lock EXCEPT ![proc[p].key] = p]
  BY DEF Acquire, Turn, At, Refused
<1>2. registry \in Meetings /\ proc[p].key = registry
  BY <1>1 DEF AsksForCurrent, StoreType
<1>3. \A q \in Procs \ {p} : proc'[q] = proc[q]
  BY OthersKeep DEF OwnStep
<1>4. ASSUME NEW q \in Procs, q # p, proc[q].step = "member" PROVE FALSE
  <2>1. ~InUse /\ proc[p].op \notin {"start", "listen"}
    BY <1>1, <1>4 DEF OneStart
  <2>2. proc[p].op \in {"audio", "listen", "finish", "disconnect"}
    BY DEF Acquire
  <2>3. QED BY <1>1, <2>1, <2>2 DEF Refused
<1>5. /\ proc'[p].sess = registry /\ proc'[p].op = proc[p].op
      /\ proc'[p].out = proc[p].out /\ proc'[p].closing = proc[p].closing
      /\ proc'[p].todo = proc[p].todo
  BY DEF Acquire, Locals
<1>6. CASE /\ proc[p].op \in {"audio", "listen"}
           /\ proc' = [proc EXCEPT ![p].sess = registry,
                         ![p].step = IF proc[p].op = "audio" THEN "send" ELSE "collect"]
           /\ UNCHANGED <<state, goal>>
  <2>1. /\ proc'[p].step \in {"send", "collect"}
        /\ proc'[p].step = "collect" => proc[p].op = "listen"
    BY <1>6 DEF Locals
  <2>2. QED BY <1>1, <1>2, <1>3, <1>4, <1>5, <1>6, <2>1
<1>7. CASE /\ proc[p].op \in {"finish", "disconnect"}
           /\ state' = [state EXCEPT ![registry] = "finalizing"]
           /\ proc' = [proc EXCEPT ![p].sess = registry,
                         ![p].step = IF durable[registry] = "none" THEN "finalize"
                                                            ELSE "write_finalizing"]
  <2>1. /\ proc'[p].step \in {"finalize", "write_finalizing"}
        /\ proc'[p].step = "finalize" => durable[registry] = "none"
    BY <1>7 DEF Locals
  <2>2. InUse
    BY <1>1, <1>7 DEF Refused
  <2>3. QED BY <1>1, <1>2, <1>3, <1>4, <1>5, <1>7, <2>1, <2>2
<1>8. QED BY <1>6, <1>7 DEF Acquire

LEMMA AcquireKeepsLock ==
    ASSUME LockInv, NEW p \in Procs, Acquire(p)
    PROVE  OneStart' /\ AsksForCurrent' /\ LockMatches'
<1> USE DEF LockInv, LocalInv, TypeInv
<1> DEFINE first == {"send", "collect", "finalize", "write_finalizing"}
<1>1. /\ proc'[p].step \in first /\ proc'[p].sess = registry /\ registry \in Meetings
      /\ lock' = [lock EXCEPT ![registry] = p] /\ lock[registry] = None
      /\ proc[p].step \in {"enter", "wait"}
      /\ \A q \in Procs \ {p} : proc'[q] = proc[q] /\ proc[q].step # "member"
  BY AcquireEffect
<1>2. registry' = registry
  BY DEF Acquire
<1>3. OneStart'
  BY <1>1 DEF OneStart, Opening
<1>4. AsksForCurrent'
  BY <1>1, <1>2 DEF AsksForCurrent
<1>5. first \subseteq Locking /\ {"enter", "wait"} \cap (Locking \cup Failing) = {}
  BY DEF Locking, Collecting, Failing
<1> HIDE DEF first
<1>6. \A m \in Meetings : lock[m] # p
  BY <1>1, <1>5, HoldsNone
<1>7. \A m \in Meetings : lock'[m] = IF m = registry THEN p ELSE lock[m]
  BY <1>1 DEF StoreType
<1>8. ASSUME NEW q \in Procs, proc'[q].step \in Locking PROVE lock'[proc'[q].sess] = q
  <2>1. CASE q = p
    BY <1>1, <1>7, <2>1
  <2>2. CASE q # p
    <3>1. proc[q].step \in Locking /\ proc'[q] = proc[q] /\ proc[q].sess \in Meetings
      BY <1>1, <1>8, <2>2 DEF UsesSession, Using
    <3>2. lock[proc[q].sess] = q /\ q # None
      BY <3>1, ProcsAre DEF LockMatches
    <3>3. QED BY <1>1, <1>7, <3>1, <3>2
  <2>3. QED BY <2>1, <2>2
<1>9. ASSUME NEW q \in Procs, NEW m \in Meetings, lock'[m] = q
      PROVE  proc'[q].sess = m /\ proc'[q].step \in Locking \cup Failing
  <2>1. CASE q = p
    BY <1>1, <1>5, <1>6, <1>7, <1>9, <2>1
  <2>2. CASE q # p
    BY <1>1, <1>7, <1>9, <2>2 DEF LockMatches
  <2>3. QED BY <2>1, <2>2
<1>10. LockMatches'
  <2>1. (\A q \in Procs : proc[q].step \in Locking => lock[proc[q].sess] = q)'
    BY <1>8
  <2>2. (\A q \in Procs, m \in Meetings : lock[m] = q =>
            proc[q].sess = m /\ proc[q].step \in Locking \cup Failing)'
    BY <1>9
  <2>3. QED BY <2>1, <2>2 DEF LockMatches
<1>11. QED BY <1>3, <1>4, <1>10

LEMMA EmittedKeepsLock ==
    ASSUME LockInv, NEW p \in Procs, Emitted(p)
    PROVE  OneStart' /\ AsksForCurrent' /\ LockMatches'
<1> USE ProcsAre DEF LockInv, LocalInv, TypeInv
<1> DEFINE start == [Idle EXCEPT !.step = "emit", !.op = "listen"]
<1>1. proc[p].step = "emit" /\ p # Listener /\ UNCHANGED <<registry, state>>
  BY DEF Emitted, At, sessionVars
<1>2. Idle.step = "idle" /\ start.step = "emit"
  BY DEF Idle
<1>3. \/ /\ proc[p].op = "start" /\ lock' = lock
         /\ proc' = [proc EXCEPT ![p] = Idle,
                        ![Listener] = IF Listening THEN @ ELSE start]
      \/ /\ lock' = lock /\ proc' = [proc EXCEPT ![p] = Idle]
      \/ /\ proc' = [proc EXCEPT ![p] = Idle, ![Listener] = Idle]
         /\ Release(Listener)
  BY DEF Emitted, Stop
<1> HIDE DEF start
<1>4. /\ proc'[p].step = "idle" /\ \A q \in Procs \ {p, Listener} : proc'[q] = proc[q]
      /\ \/ lock' = lock /\ proc'[Listener] = proc[Listener]
         \/ /\ lock' = lock /\ proc[Listener].step = "idle" /\ proc'[Listener].step = "emit"
            /\ proc[p].op = "start"
         \/ Release(Listener) /\ proc'[Listener].step = "idle"
  BY <1>1, <1>2, <1>3 DEF Listening
<1>5. InUse' = InUse
  BY <1>1 DEF InUse, Active
<1>6. \A q \in Procs : \/ proc'[q] = proc[q]
                       \/ proc'[q].step = "idle"
                       \/ /\ q = Listener /\ proc'[q].step = "emit" /\ proc[p].op = "start"
  BY <1>4
<1>7. OneStart'
  <2>1. \A q \in Procs : proc'[q].step \in Opening => proc'[q] = proc[q]
    BY <1>6 DEF Opening
  <2>2. \A q, r \in Procs :
            proc'[q].step \in Opening /\ proc'[r].step \in Opening => q = r
    BY <2>1 DEF OneStart
  <2>3. \A q \in Procs : proc'[q].step = "member" => proc[q].step = "member" /\ q # p
    BY <1>1, <1>6
  <2>4. ASSUME NEW q \in Procs, proc'[q].step = "member"
        PROVE  /\ q # Listener /\ ~InUse' /\ proc[p].op # "start"
               /\ \A m \in Meetings : lock'[m] = None
    BY <1>1, <1>4, <1>5, <2>3, <2>4 DEF OneStart, Release
  <2>5. ASSUME NEW q \in Procs, NEW r \in Procs, r # q, proc'[q].step = "member"
        PROVE  \/ proc'[r].step = "idle"
               \/ /\ proc'[r].step \in {"enter", "emit"}
                  /\ proc'[r].op \notin {"start", "listen"}
                  /\ r # Listener
    BY <1>6, <2>3, <2>4, <2>5 DEF OneStart
  <2>6. QED BY <2>2, <2>4, <2>5 DEF OneStart
<1>8. AsksForCurrent'
  BY <1>1, <1>6 DEF AsksForCurrent
<1>9. {"emit", "idle"} \cap (Locking \cup Failing) = {}
  BY DEF Locking, Collecting, Failing
<1>10. \A q \in Procs, m \in Meetings :
          lock[m] = q => proc'[q] = proc[q] \/ (Release(Listener) /\ q = Listener)
  BY <1>1, <1>4, <1>9, HoldsNone
<1>11. \A q \in Procs : proc'[q].step \in Locking => proc'[q] = proc[q]
  BY <1>6, <1>9
<1>12. ASSUME NEW q \in Procs, proc'[q].step \in Locking
       PROVE  lock'[proc'[q].sess] = q
  <2>1. lock[proc[q].sess] = q /\ proc[q].sess \in Meetings
    BY <1>11, <1>12 DEF LockMatches, UsesSession, Using
  <2>2. CASE lock' = lock
    BY <1>11, <1>12, <2>1, <2>2
  <2>3. CASE Release(Listener) /\ proc'[Listener].step = "idle"
    <3>1. q # Listener
      BY <1>9, <1>12, <2>3
    <3>2. QED BY <1>11, <1>12, <2>1, <2>3, <3>1 DEF Release
  <2>4. QED BY <1>4, <2>2, <2>3
<1>13. ASSUME NEW q \in Procs, NEW m \in Meetings, lock'[m] = q
       PROVE  proc'[q].sess = m /\ proc'[q].step \in Locking \cup Failing
  <2>1. lock[m] = q /\ (Release(Listener) => q # Listener)
    BY <1>4, <1>13 DEF Release
  <2>2. QED BY <1>10, <2>1 DEF LockMatches
<1>14. LockMatches'
  <2>1. (\A q \in Procs : proc[q].step \in Locking => lock[proc[q].sess] = q)'
    BY <1>12
  <2>2. (\A q \in Procs, m \in Meetings : lock[m] = q =>
            proc[q].sess = m /\ proc[q].step \in Locking \cup Failing)'
    BY <1>13
  <2>3. QED BY <2>1, <2>2 DEF LockMatches
<1>15. QED BY <1>7, <1>8, <1>14

LEMMA ListenKeepsLock ==
    ASSUME LockInv, Listen
    PROVE  OneStart' /\ AsksForCurrent' /\ LockMatches'
<1> USE ProcsAre DEF LockInv, LocalInv, TypeInv
<1> DEFINE turn == [Idle EXCEPT !.step = Entry(registry), !.op = "listen", !.key = registry]
<1>1. proc[Listener].step = "emit" /\ UNCHANGED <<registry, lock>>
  BY DEF Listen, At
<1>2. \/ proc' = [proc EXCEPT ![Listener] = Idle]
      \/ proc' = [proc EXCEPT ![Listener] = turn] /\ registry \in Meetings
  BY DEF Listen, Stop, StoreType
<1>3. /\ Idle.step = "idle" /\ turn.step \in {"enter", "wait"} /\ turn.key = registry
  BY DEF Idle, Entry
<1> HIDE DEF turn
<1>4. /\ \A q \in Procs \ {Listener} : proc'[q] = proc[q]
      /\ \/ proc'[Listener].step = "idle"
         \/ /\ proc'[Listener].step \in {"enter", "wait"} /\ proc'[Listener].key = registry
            /\ registry \in Meetings
  BY <1>2, <1>3
<1>5. \A q \in Procs : proc[q].step # "member"
  BY <1>1, NotMember
<1>6. OneStart'
  BY <1>4, <1>5 DEF OneStart, Opening
<1>7. AsksForCurrent'
  BY <1>1, <1>4 DEF AsksForCurrent
<1>8. {"emit", "idle", "enter", "wait"} \cap (Locking \cup Failing) = {}
  BY DEF Locking, Collecting, Failing
<1>9. \A m \in Meetings : lock[m] # Listener
  BY <1>1, <1>8, HoldsNone
<1>10. LockMatches'
  BY <1>1, <1>4, <1>8, <1>9 DEF LockMatches
<1>11. QED BY <1>6, <1>7, <1>10

LEMMA InitLockInv == Init => LockInv
<1> SUFFICES ASSUME Init PROVE LockInv
  OBVIOUS
<1>1. LocalInv
  BY InitLocal
<1>2. \A p \in Procs : proc[p].step = "idle"
  BY DEF Init, Idle
<1>3. \A m \in Meetings : lock[m] = None
  BY DEF Init
<1>4. "idle" \notin Locking
  BY DEF Locking, Collecting
<1>5. QED BY <1>1, <1>2, <1>3, <1>4, ProcsAre
          DEF LockInv, OneStart, AsksForCurrent, LockMatches, Opening

LEMMA StepLockInv ==
    ASSUME "start" \notin Overlapping PROVE LockInv /\ [Next]_vars => LockInv'
<1> SUFFICES ASSUME LockInv, [Next]_vars PROVE LockInv'
  OBVIOUS
<1> DEFINE Keeps == OneStart' /\ AsksForCurrent' /\ LockMatches'
<1>1. LocalInv'
  BY StepLocal DEF LockInv
<1>2. ASSUME NEW p \in Procs, UsingStep(p) PROVE Keeps
  BY <1>1, <1>2, UsingMoves, UsingKeepsLock, OthersKeep
     DEF LockInv, LocalInv, UsingStep, OwnStep
<1>3. ASSUME NEW m \in Meetings, NEW e \in ProviderEvents, Provider(m, e) PROVE Keeps
  BY <1>3 DEF Provider, sessionVars, LockInv, OneStart, AsksForCurrent, LockMatches,
              InUse, Active
<1>4. ASSUME UNCHANGED vars PROVE Keeps
  BY <1>4 DEF vars, sessionVars, LockInv, OneStart, AsksForCurrent, LockMatches,
              InUse, Active
<1>5. ASSUME Next PROVE Keeps
  <2>1. \A h \in Handlers : h \in Procs
    BY ProcsAre
  <2>2. CASE \E h \in Handlers : StartRequest(h)
    BY <2>1, <2>2, StartKeepsLock
  <2>3. CASE \E h \in Handlers, op \in {"audio", "finish", "disconnect"} : Request(h, op)
    BY <2>1, <2>3, RequestKeepsLock
  <2>4. CASE \E p \in Procs : Refuse(p) \/ Acquire(p) \/ SessionStep(p)
    BY <1>2, <2>4, RefuseKeepsLock, AcquireKeepsLock, MemberKeepsLock, EmittedKeepsLock
       DEF UsingStep
  <2>5. CASE Listen
    BY <2>5, ListenKeepsLock
  <2>6. CASE \E m \in Meetings, e \in ProviderEvents : Provider(m, e)
    BY <1>3, <2>6
  <2>7. QED BY <1>5, <2>2, <2>3, <2>4, <2>5, <2>6 DEF Next
<1>6. Keeps
  BY <1>4, <1>5
<1>7. QED BY <1>1, <1>6 DEF LockInv

\* Two coroutines never collect events of one session at a time, as long as a start
\* waits for what the socket did before: who collects holds the session's lock.
THEOREM ExclusiveCollectionCorrect ==
    ASSUME "start" \notin Overlapping PROVE Spec => []ExclusiveCollection
<1>1. LockInv => ExclusiveCollection
  <2> SUFFICES ASSUME LockInv, NEW p \in Procs, NEW q \in Procs, p # q,
                      {proc[p].step, proc[q].step} \subseteq Collecting
               PROVE  proc[p].sess # proc[q].sess
    BY DEF ExclusiveCollection, Collecting
  <2>1. proc[p].step \in Locking /\ proc[q].step \in Locking
    BY DEF Locking
  <2>2. lock[proc[p].sess] = p /\ lock[proc[q].sess] = q
    BY <2>1 DEF LockInv, LockMatches
  <2>3. QED BY <2>2
<1>2. QED BY <1>1, InitLockInv, StepLockInv, PTL DEF Spec
-----------------------------------------------------------------------------
(* The end of a session comes last.                                         *)

\* A new session has no connection before its start opens one, and nobody
\* collects before that.
BeforeOpen ==
    /\ \A m \in Meetings : state[m] = "none" => conn[m] = "none" /\ registry # m
    /\ \A p \in Procs : proc[p].step \in Using => state[proc[p].sess] # "none"
    /\ \A p \in Procs : proc[p].step \in {"create", "open"} => conn[proc[p].sess] = "none"
    /\ \A m \in Meetings : registry = m /\ conn[m] = "none" =>
          \E p \in Procs : proc[p].step \in Opening \ {"member"} /\ proc[p].sess = m
    /\ \A p \in Procs : proc[p].step \in Collecting \cup {"keepalive"} =>
          conn[proc[p].sess] # "none"

\* While a start opens a session the listener does not run.
OpensAlone ==
    \A p, q \in Procs : proc[p].step \in Opening /\ q # p =>
        /\ p # Listener
        /\ \/ proc[q].step = "idle"
           \/ q # Listener /\ proc[q].op \in {"audio", "finish", "disconnect"}

\* The provider sends nothing any more and what it sent is collected.
Quiet(m) == conn[m] \in {"gone", "closed"} /\ events[m] = <<>>
Over(m)  == Quiet(m) /\ ~words[m] /\ ~Active(m)

CloseLast(s) == \A i \in DOMAIN s : s[i] = "close" => i = Len(s)
HasClose(s)  == \E i \in DOMAIN s : s[i] = "close"

CloseIsLast ==
    /\ \A m \in Meetings :
          CloseLast(events[m]) /\ (HasClose(events[m]) => conn[m] \in {"gone", "closed"})
    /\ \A p \in Procs : CloseLast(proc[p].todo)
    /\ \A p \in Procs : HasClose(proc[p].todo) => Quiet(proc[p].sess)
    /\ \A p \in Procs : proc[p].step = "write_terminal" =>
          Over(proc[p].sess) /\ proc[p].todo = <<>>

\* What a coroutine collected is with it until it is consumed and pushed.
Emptying(l) ==
    /\ l.step \notin {"consume", "write_terminal", "write_failed", "close_failed"}
          => l.todo = <<>>
    /\ l.step \notin {"consume", "write_terminal", "write_failed", "close_failed",
                      "close", "push"} => l.out = <<>>
    /\ l.step # "write_terminal" => l.closing = <<>>
Emptied == \A p \in Procs : Emptying(proc[p])

\* Tasks in the order of their sequences, the end of the session last, none
\* above b.
IsEnd(t) == t.kind # "utterance"
Ordered(s, b) ==
    /\ \A i \in DOMAIN s : s[i].n <= b /\ (IsEnd(s[i]) => s[i].n = b)
    /\ \A i, j \in DOMAIN s : i < j =>
          ~IsEnd(s[i]) /\ (~IsEnd(s[j]) => s[i].n < s[j].n)
HasEnd(s) == \E i \in DOMAIN s : IsEnd(s[i])

\* The tasks of p's session: those in the queue and those p has for it.
TasksOf(p) == pushed[proc[p].sess] \o (proc[p].out \o proc[p].closing)

InOrder ==
    /\ \A m \in Meetings : Ordered(pushed[m], seq[m])
    /\ \A p \in Procs : proc[p].step \in Locking => Ordered(TasksOf(p), seq[proc[p].sess])

EndIsLast ==
    /\ \A m \in Meetings : HasEnd(pushed[m]) => Over(m)
    /\ \A p \in Procs : proc[p].step \in Locking /\ HasEnd(TasksOf(p)) =>
          /\ Over(proc[p].sess) /\ proc[p].todo = <<>>
          /\ proc[p].step \notin {"close", "write_terminal"}

OrderInv == LockInv /\ BeforeOpen /\ OpensAlone /\ CloseIsLast /\ Emptied
                    /\ InOrder /\ EndIsLast

\* Sequences of tasks: what keeps them in order.
LEMMA OrderedConcatEnd ==
    ASSUME NEW s \in Seq(Tasks), NEW b \in Nat, Ordered(s, b), ~HasEnd(s)
    PROVE  /\ Ordered(s \o <<Utterance(b + 1)>>, b + 1) /\ ~HasEnd(s \o <<Utterance(b + 1)>>)
           /\ \A k \in {"completed", "interrupted"} : Ordered(s \o <<[kind |-> k, n |-> b]>>, b)
<1> DEFINE u == Utterance(b + 1)
<1>1. u \in Tasks /\ ~IsEnd(u) /\ u.n = b + 1
  BY DEF Tasks, Utterance, IsEnd
<1>2. \A i \in 1 .. Len(s) : ~IsEnd(s[i]) /\ s[i] \in Tasks /\ s[i].n \in Nat /\ s[i].n <= b
  <2>1. DOMAIN s = 1 .. Len(s) /\ \A i \in 1 .. Len(s) : s[i] \in Tasks
    BY ElementOfSeq, LenProperties
  <2>2. \A t \in Tasks : t.n \in Nat
    BY DEF Tasks
  <2>3. \A i \in DOMAIN s : ~IsEnd(s[i]) /\ s[i].n <= b
    BY DEF Ordered, HasEnd
  <2>4. QED BY <2>1, <2>2, <2>3
<1>3. ASSUME NEW e \in Tasks
      PROVE  /\ DOMAIN (s \o <<e>>) = 1 .. Len(s) + 1
             /\ \A i \in 1 .. Len(s) : (s \o <<e>>)[i] = s[i]
             /\ (s \o <<e>>)[Len(s) + 1] = e
  OBVIOUS
<1>4. Len(s) \in Nat /\ DOMAIN s = 1 .. Len(s)
  BY LenProperties
<1>5. \A i, j \in 1 .. Len(s) : i < j => s[i].n < s[j].n
  BY <1>2, <1>4 DEF Ordered
<1>6. ASSUME NEW k \in {"completed", "interrupted"}
      PROVE  Ordered(s \o <<[kind |-> k, n |-> b]>>, b)
  <2> DEFINE e == [kind |-> k, n |-> b]
             t == s \o <<e>>
  <2>1. e \in Tasks /\ e.n = b
    BY DEF Tasks
  <2>2. /\ DOMAIN t = 1 .. Len(s) + 1 /\ \A i \in 1 .. Len(s) : t[i] = s[i]
        /\ t[Len(s) + 1] = e
    BY <1>3, <2>1
  <2>3. IsEnd(e)
    BY DEF IsEnd
  <2> HIDE DEF t, e
  <2>4. \A i \in DOMAIN t : t[i].n <= b /\ (IsEnd(t[i]) => t[i].n = b)
    BY <1>2, <1>4, <2>1, <2>2
  <2>5. \A i, j \in DOMAIN t : i < j => ~IsEnd(t[i]) /\ (~IsEnd(t[j]) => t[i].n < t[j].n)
    BY <1>2, <1>4, <1>5, <2>1, <2>2, <2>3
  <2>6. QED BY <2>4, <2>5 DEF Ordered, t, e
<1>7. Ordered(s \o <<u>>, b + 1) /\ ~HasEnd(s \o <<u>>)
  <2> DEFINE t == s \o <<u>>
  <2>2. /\ DOMAIN t = 1 .. Len(s) + 1 /\ \A i \in 1 .. Len(s) : t[i] = s[i]
        /\ t[Len(s) + 1] = u
    BY <1>1, <1>3
  <2> HIDE DEF t, u
  <2>3. \A i \in DOMAIN t : ~IsEnd(t[i]) /\ t[i].n <= b + 1
    BY <1>1, <1>2, <1>4, <2>2
  <2>4. \A i, j \in DOMAIN t : i < j => t[i].n < t[j].n
    BY <1>1, <1>2, <1>4, <1>5, <2>2
  <2>5. QED BY <2>3, <2>4 DEF Ordered, HasEnd, t
<1>8. QED BY <1>6, <1>7

LEMMA OrderedPrefix ==
    ASSUME NEW s \in Seq(Tasks), NEW t \in Seq(Tasks), NEW b \in Nat, Ordered(s \o t, b)
    PROVE  Ordered(s, b) /\ (HasEnd(s) => HasEnd(s \o t))
<1>1. /\ Len(s) \in Nat /\ Len(t) \in Nat /\ DOMAIN s = 1 .. Len(s)
      /\ DOMAIN (s \o t) = 1 .. Len(s) + Len(t)
      /\ \A i \in 1 .. Len(s) : (s \o t)[i] = s[i]
  BY LenProperties, ConcatProperties
<1> DEFINE c == s \o t
<1> HIDE DEF c
<1>2. QED BY <1>1 DEF Ordered, HasEnd, c

\* Dropping one task.
LEMMA OrderedDrop ==
    ASSUME NEW s \in Seq(Tasks), NEW x \in Tasks, NEW t \in Seq(Tasks), NEW b \in Nat,
           Ordered(s \o (<<x>> \o t), b)
    PROVE  Ordered(s \o t, b) /\ (HasEnd(s \o t) => HasEnd(s \o (<<x>> \o t)))
<1> DEFINE c == s \o (<<x>> \o t)
           d == s \o t
           f(i) == IF i <= Len(s) THEN i ELSE i + 1
<1>1. /\ Len(s) \in Nat /\ Len(t) \in Nat
      /\ DOMAIN c = 1 .. Len(s) + Len(t) + 1 /\ DOMAIN d = 1 .. Len(s) + Len(t)
      /\ \A i \in 1 .. Len(s) + Len(t) : d[i] = c[f(i)]
  <2>1. <<x>> \o t \in Seq(Tasks) /\ Len(<<x>> \o t) = Len(t) + 1
    OBVIOUS
  <2>2. Len(s) \in Nat /\ Len(t) \in Nat
    BY LenProperties
  <2>3. \A i \in 1 .. Len(t) : (<<x>> \o t)[i + 1] = t[i]
    OBVIOUS
  <2> DEFINE y == <<x>> \o t
  <2> HIDE DEF y
  <2>4. /\ Len(s \o y) = Len(s) + Len(t) + 1
        /\ \A i \in 1 .. Len(s) : (s \o y)[i] = s[i]
        /\ \A i \in 1 .. Len(t) : (s \o y)[i + Len(s) + 1] = y[i + 1]
        /\ DOMAIN (s \o y) = 1 .. Len(s) + Len(t) + 1
    BY <2>1, <2>2 DEF y
  <2>5. /\ Len(s \o t) = Len(s) + Len(t)
        /\ \A i \in 1 .. Len(s) : (s \o t)[i] = s[i]
        /\ \A i \in 1 .. Len(t) : (s \o t)[i + Len(s)] = t[i]
        /\ DOMAIN (s \o t) = 1 .. Len(s) + Len(t)
    BY <2>2
  <2>6. ASSUME NEW i \in 1 .. Len(s) + Len(t) PROVE d[i] = c[f(i)]
    <3>1. CASE i <= Len(s)
      BY <2>2, <2>4, <2>5, <3>1 DEF y
    <3>2. CASE i > Len(s)
      <4>1. i - Len(s) \in 1 .. Len(t)
        BY <2>2, <3>2
      <4>2. d[(i - Len(s)) + Len(s)] = t[i - Len(s)]
        BY <2>5, <4>1
      <4>3. c[(i - Len(s)) + Len(s) + 1] = t[i - Len(s)]
        BY <2>3, <2>4, <4>1 DEF y
      <4>4. (i - Len(s)) + Len(s) = i /\ (i - Len(s)) + Len(s) + 1 = f(i)
        BY <2>2, <3>2
      <4>5. QED BY <4>2, <4>3, <4>4
    <3>3. QED BY <2>2, <3>1, <3>2
  <2>7. QED BY <2>2, <2>4, <2>5, <2>6 DEF y
<1>2. \A i \in DOMAIN d : f(i) \in DOMAIN c /\ d[i] = c[f(i)]
  BY <1>1
<1>3. \A i, j \in DOMAIN d : i < j => f(i) < f(j)
  BY <1>1
<1>4. Ordered(c, b)
  OBVIOUS
<1> HIDE DEF c, d, f
<1>5. Ordered(d, b)
  <2>1. \A i \in DOMAIN d : d[i].n <= b /\ (IsEnd(d[i]) => d[i].n = b)
    BY <1>2, <1>4 DEF Ordered
  <2>2. \A i, j \in DOMAIN d : i < j => ~IsEnd(d[i]) /\ (~IsEnd(d[j]) => d[i].n < d[j].n)
    BY <1>2, <1>3, <1>4 DEF Ordered
  <2>3. QED BY <2>1, <2>2 DEF Ordered
<1>6. HasEnd(d) => HasEnd(c)
  BY <1>2 DEF HasEnd
<1>7. QED BY <1>5, <1>6 DEF c, d

\* The last sequence in an end is the bound.
LEMMA EndCounts ==
    ASSUME NEW s \in Seq(Tasks), NEW x \in Tasks, NEW t \in Seq(Tasks), NEW b \in Nat,
           Ordered(s \o (<<x>> \o t), b), IsEnd(x)
    PROVE  x.n = b /\ HasEnd(s \o (<<x>> \o t))
<1> DEFINE y == <<x>> \o t
<1>1. y \in Seq(Tasks) /\ y[1] = x /\ Len(y) >= 1
  OBVIOUS
<1> HIDE DEF y
<1>2. (s \o y)[Len(s) + 1] = x /\ Len(s) + 1 \in DOMAIN (s \o y)
  BY <1>1
<1>3. QED BY <1>2 DEF Ordered, HasEnd, y

LEMMA EmptyOrdered == \A b \in Nat : Ordered(<<>>, b) /\ ~HasEnd(<<>>)
BY DEF Ordered, HasEnd

LEMMA TasksAssoc ==
    \A a, b, c \in Seq(Tasks) : (a \o b) \o c = a \o (b \o c)
BY ConcatAssociative

LEMMA TasksConcat ==
    \A a, b \in Seq(Tasks) : a \o b \in Seq(Tasks) /\ a \o <<>> = a
BY ConcatProperties, ConcatEmptySeq

\* What a coroutine that has a session does to its store.
Opened(p)   == proc[p].step = "open" /\ conn' = [conn EXCEPT ![proc[p].sess] = "open"]
Ends(p)     == \E s \in Terminal : state' = [state EXCEPT ![proc[p].sess] = s]
Speaks(p)   == /\ proc[p].step = "consume" /\ proc[p].todo # <<>>
               /\ words' = [words EXCEPT ![proc[p].sess] = TRUE]
Serving(s)  == s \in Collecting \cup {"keepalive"}

UsingStore(p) ==
    /\ state' = state \/ Ends(p)
    /\ conn' = conn \/ Closed(proc[p].sess) \/ Opened(p)
    /\ events' = events \/ events' = [events EXCEPT ![proc[p].sess] = <<>>]
    /\ words' = words \/ words' = [words EXCEPT ![proc[p].sess] = FALSE] \/ Speaks(p)
    /\ Serving(proc'[p].step) => Serving(proc[p].step) \/ conn[proc[p].sess] = "open"
    /\ proc'[p].step = "create" => proc[p].step = "create"
    /\ proc'[p].step = "open" => proc[p].step = "create" /\ conn' = conn
    /\ proc'[p].step # "member"
    /\ proc[p].step \in Opening /\ proc'[p].step \notin Opening =>
          registry' = None \/ Opened(p)
    /\ proc'[p].step = "idle" \/ proc'[p].op = proc[p].op

LEMMA UsingStores ==
    ASSUME TypeInv, NEW p \in Procs, UsingStep(p) PROVE UsingStore(p)
<1> USE DEF Collecting, Serving, Opening
<1>1. ASSUME NEW s, Goto(p, s) PROVE proc'[p].step = s /\ proc'[p].op = proc[p].op
  BY <1>1, GotoBecomes DEF Same, Becomes
<1>2. Stop(p) => proc'[p].step = "idle"
  BY StopEffect, IdleFields
<1>3. {"failed", "completed", "interrupted"} \subseteq Terminal
  BY DEF Terminal
<1>4. CASE Create(p)
  BY <1>1, <1>2, <1>4 DEF Create, At, UsingStore, sessionVars
<1>5. CASE Open(p)
  BY <1>1, <1>3, <1>5 DEF Open, At, UsingStore, Ends, Opened
<1>6. CASE StartFailed(p)
  BY <1>2, <1>6 DEF StartFailed, At, UsingStore, sessionVars
<1>7. CASE WriteFinalizing(p)
  BY <1>1, <1>2, <1>7 DEF WriteFinalizing, At, UsingStore, sessionVars
<1>8. CASE Send(p)
  BY <1>1, <1>8 DEF Send, At, UsingStore, sessionVars, Reaches, Misses
<1>9. CASE Collect(p)
  BY <1>9, CollectEffect DEF Collect, At, UsingStore, sessionVars, Same, Becomes
<1>10. CASE Consume(p)
  <2>1. goal[proc[p].sess] \in Terminal
    BY <1>3, <1>10 DEF TypeInv, StoreType, UsesSession, Consume, At, Using, Locking
  <2>2. UNCHANGED <<conn, events, registry>> /\ proc[p].step = "consume"
    BY <1>10 DEF Consume, At
  <2>3. QED BY <1>3, <1>10, <2>1, <2>2, ConsumeEffect
            DEF UsingStore, Becomes, Ends, Flush, Speaks
<1>11. CASE WriteTerminal(p)
  BY <1>3, <1>11, WriteTerminalEffect DEF WriteTerminal, At, UsingStore, Becomes, Ends
<1>12. CASE WriteFailed(p)
  BY <1>12, WriteFailedEffect, IdleFields
     DEF WriteFailed, At, UsingStore, sessionVars, Same, Becomes
<1>13. CASE CloseFailed(p)
  BY <1>1, <1>13 DEF CloseFailed, At, UsingStore, sessionVars
<1>14. CASE Consumed(p)
  BY <1>14, ConsumedEffect DEF Consumed, UsingStore, Same, Becomes, Flush
<1>15. CASE Close(p)
  BY <1>15, CloseEffect DEF Close, At, UsingStore, sessionVars, Becomes
<1>16. CASE Push(p)
  <2> DEFINE s == IF Len(proc[p].out) = 1 THEN "collected" ELSE "push"
  <2>1. proc'[p].step = s /\ proc'[p].op = proc[p].op
    BY <1>16, PushEffect DEF Becomes
  <2>2. s \in {"collected", "push"}
    OBVIOUS
  <2> HIDE DEF s
  <2>3. QED BY <1>16, <2>1, <2>2 DEF Push, At, UsingStore, sessionVars
<1>17. CASE Drain(p) \/ Deadline(p)
  BY <1>17, DrainEffect
     DEF Drain, Deadline, UsingStore, sessionVars, Same, Becomes, Flush
<1>18. CASE Leave(p)
  BY <1>1, <1>18 DEF Leave, At, UsingStore, sessionVars
<1>19. CASE FailLive(p)
  <2>1. /\ proc[p].step = "fail" /\ proc'[p].step = "fail_write" /\ proc'[p].op = proc[p].op
        /\ Closed(proc[p].sess) /\ UNCHANGED events
        /\ state' = [state EXCEPT ![proc[p].sess] = "failed"]
        /\ words' = [words EXCEPT ![proc[p].sess] = FALSE]
    BY <1>1, <1>19 DEF FailLive, At
  <2>2. Ends(p)
    BY <1>3, <2>1 DEF Ends
  <2>3. QED BY <2>1, <2>2 DEF UsingStore
<1>20. CASE FailWrite(p)
  BY <1>1, <1>2, <1>20 DEF FailWrite, At, UsingStore, sessionVars
<1>21. CASE FailClose(p)
  BY <1>1, <1>21 DEF FailClose, At, UsingStore, sessionVars
<1>22. QED
  BY <1>4, <1>5, <1>6, <1>7, <1>8, <1>9, <1>10, <1>11, <1>12, <1>13, <1>14,
     <1>15, <1>16, <1>17, <1>18, <1>19, <1>20, <1>21 DEF UsingStep, SessionStep

LEMMA UsingKeepsOpening ==
    ASSUME LockInv, BeforeOpen, OpensAlone, LocalInv', NEW p \in Procs,
           UsingMove(p), UsingStore(p), \A q \in Procs : q # p => proc'[q] = proc[q]
    PROVE  BeforeOpen' /\ OpensAlone'
<1> DEFINE m == proc[p].sess
<1>0. /\ UsesSession /\ UsesSession' /\ OneStart
      /\ state \in [Meetings -> Status]
      /\ conn \in [Meetings -> {"none", "open", "gone", "closed"}]
  BY DEF LockInv, LocalInv, TypeInv, StoreType
<1>1. m \in Meetings /\ state[m] # "none"
  BY <1>0 DEF UsingMove, UsesSession, BeforeOpen
<1>2. "none" \notin Terminal
  BY DEF Terminal
<1>3. \A n \in Meetings : (state'[n] = "none" <=> state[n] = "none")
  <2>1. ASSUME NEW s \in Terminal, state' = [state EXCEPT ![m] = s], NEW n \in Meetings
        PROVE  (state'[n] = "none" <=> state[n] = "none")
    BY <1>0, <1>1, <1>2, <2>1
  <2>2. QED BY <2>1 DEF UsingStore, Ends
<1>4. \A n \in Meetings : conn[n] # "none" => conn'[n] # "none"
  <2>1. Closed(m) => \A n \in Meetings : conn[n] # "none" => conn'[n] # "none"
    BY <1>0, <1>1 DEF Closed
  <2>2. Opened(p) => \A n \in Meetings : conn[n] # "none" => conn'[n] # "none"
    BY <1>0, <1>1 DEF Opened
  <2>3. QED BY <2>1, <2>2 DEF UsingStore
<1>5. \A n \in Meetings : conn'[n] # "none" /\ conn[n] = "none" => n = m /\ proc[p].step = "open"
  <2>1. Closed(m) => \A n \in Meetings : conn[n] = "none" => conn'[n] = "none"
    BY <1>0, <1>1 DEF Closed
  <2>2. Opened(p) => proc[p].step = "open" /\
            \A n \in Meetings \ {m} : conn[n] = "none" => conn'[n] = "none"
    BY <1>0, <1>1 DEF Opened
  <2>3. QED BY <2>1, <2>2 DEF UsingStore
<1>6. {"create", "open"} \subseteq Opening /\ "idle" \notin Opening /\ "emit" \notin Opening
      /\ "idle" \notin Using /\ "emit" \notin Using /\ Opening \ {"member"} \subseteq Using
  BY DEF Opening, Using, Locking, Collecting, Failing
<1>7. registry' \in {registry, None} /\ None \notin Meetings
  BY SessionAssumption DEF UsingMove
<1>8. (\A n \in Meetings : state[n] = "none" => conn[n] = "none" /\ registry # n)'
  <2> SUFFICES ASSUME NEW n \in Meetings, state'[n] = "none"
               PROVE  conn'[n] = "none" /\ registry' # n
    OBVIOUS
  <2>1. state[n] = "none" /\ conn[n] = "none" /\ registry # n
    BY <1>3 DEF BeforeOpen
  <2>2. QED BY <1>1, <1>5, <1>7, <2>1
<1>9. (\A q \in Procs : proc[q].step \in Using => state[proc[q].sess] # "none")'
  <2> SUFFICES ASSUME NEW q \in Procs, proc'[q].step \in Using
               PROVE  state'[proc'[q].sess] # "none"
    OBVIOUS
  <2>1. CASE q = p
    BY <1>1, <1>3, <2>1 DEF UsingMove
  <2>2. CASE q # p
    BY <1>0, <1>3, <2>2 DEF BeforeOpen, UsesSession
  <2>3. QED BY <2>1, <2>2
<1>10. (\A q \in Procs : proc[q].step \in {"create", "open"} => conn[proc[q].sess] = "none")'
  <2>1. CASE proc[p].step = "open"
    <3>1. \A q \in Procs : q # p => proc'[q].step \notin {"create", "open"}
      BY <1>0, <1>6, <2>1 DEF OneStart
    <3>2. proc'[p].step \notin {"create", "open"}
      BY <2>1 DEF UsingStore
    <3>3. QED BY <3>1, <3>2
  <2>2. CASE proc[p].step # "open"
    <3>1. \A n \in Meetings : conn[n] = "none" => conn'[n] = "none"
      BY <1>5, <2>2
    <3>2. ASSUME NEW q \in Procs, proc'[q].step \in {"create", "open"}
          PROVE  proc[q].step \in {"create", "open"} /\ proc'[q].sess = proc[q].sess
      BY <1>6, <3>2 DEF UsingStore, UsingMove
    <3>3. ASSUME NEW q \in Procs, proc'[q].step \in {"create", "open"}
          PROVE  conn'[proc'[q].sess] = "none"
      <4>1. proc[q].step \in {"create", "open"} /\ proc[q].step \in Using
        BY <3>2, <3>3 DEF Using
      <4>2. proc[q].sess \in Meetings /\ conn[proc[q].sess] = "none"
        BY <1>0, <4>1 DEF BeforeOpen, UsesSession
      <4>3. QED BY <3>1, <3>2, <3>3, <4>2
    <3>4. QED BY <3>3
  <2>3. QED BY <2>1, <2>2
<1>11. (\A n \in Meetings : registry = n /\ conn[n] = "none" =>
          \E q \in Procs : proc[q].step \in Opening \ {"member"} /\ proc[q].sess = n)'
  <2> SUFFICES ASSUME NEW n \in Meetings, registry' = n, conn'[n] = "none"
               PROVE  \E q \in Procs : proc'[q].step \in Opening \ {"member"}
                                       /\ proc'[q].sess = n
    OBVIOUS
  <2>1. PICK q \in Procs : proc[q].step \in Opening \ {"member"} /\ proc[q].sess = n
    BY <1>4, <1>7 DEF BeforeOpen
  <2>2. CASE q = p
    <3>1. ~Opened(p)
      BY <1>0, <1>1, <2>1, <2>2 DEF Opened
    <3>2. proc'[p].step \in Opening \ {"member"}
      BY <1>7, <2>1, <2>2, <3>1 DEF UsingStore
    <3>3. QED BY <1>6, <2>1, <2>2, <3>2 DEF UsingMove
  <2>3. QED BY <2>1, <2>2
<1>12. (\A q \in Procs : proc[q].step \in Collecting \cup {"keepalive"} =>
          conn[proc[q].sess] # "none")'
  <2>1. Collecting \cup {"keepalive"} \subseteq Using
    BY DEF Using, Locking
  <2>2. ASSUME NEW q \in Procs, Serving(proc'[q].step) PROVE conn'[proc'[q].sess] # "none"
    <3>1. CASE q = p
      BY <1>0, <1>1, <1>4, <2>1, <2>2, <3>1 DEF UsingStore, UsingMove, BeforeOpen, Serving
    <3>2. CASE q # p
      BY <1>0, <1>4, <2>1, <2>2, <3>2 DEF BeforeOpen, Serving, UsesSession
    <3>3. QED BY <3>1, <3>2
  <2>3. QED BY <2>2 DEF Serving
<1>13. BeforeOpen'
  BY <1>8, <1>9, <1>10, <1>11, <1>12 DEF BeforeOpen
<1>14. OpensAlone'
  <2>1. \A q \in Procs : proc'[q].step \in Opening => proc[q].step \in Opening
    BY DEF UsingMove
  <2>2. proc[p].step # "idle"
    BY <1>6 DEF UsingMove
  <2>3. \A q \in Procs : \/ proc'[q].step = "idle"
                         \/ proc[q].step # "idle" /\ proc'[q].op = proc[q].op
                         \/ proc'[q] = proc[q]
    BY <2>2 DEF UsingStore
  <2>4. QED BY <2>1, <2>3 DEF OpensAlone
<1>15. QED BY <1>13, <1>14

\* Steps that neither work on a session nor give one to a coroutine.
Aside ==
    /\ UNCHANGED <<state, pushed, seq, words, conn, events>>
    /\ registry' \in {registry, None}
    /\ \A q \in Procs : \/ proc'[q] = proc[q]
                        \/ /\ proc'[q].step \notin Using
                           /\ proc'[q].todo = <<>> /\ proc'[q].out = <<>>
                           /\ proc'[q].closing = <<>>
    /\ \A q \in Procs : proc[q].step \in Opening \ {"member"} => proc'[q] = proc[q]

LEMMA AsideKeepsBefore ==
    ASSUME LockInv, BeforeOpen, Aside PROVE BeforeOpen'
<1>1. Opening \ {"member"} \subseteq Using /\ {"create", "open"} \subseteq Using
      /\ Collecting \cup {"keepalive"} \subseteq Using
  BY DEF Opening, Using, Locking
<1>2. /\ UNCHANGED <<state, conn>> /\ registry' \in {registry, None}
      /\ \A q \in Procs : proc'[q].step \in Using => proc'[q] = proc[q]
      /\ \A q \in Procs : proc[q].step \in Opening \ {"member"} => proc'[q] = proc[q]
  BY DEF Aside
<1>3. None \notin Meetings
  BY SessionAssumption
<1>4. (\A m \in Meetings : state[m] = "none" => conn[m] = "none" /\ registry # m)'
  BY <1>2, <1>3 DEF BeforeOpen
<1>5. (\A q \in Procs : proc[q].step \in Using => state[proc[q].sess] # "none")'
  BY <1>2 DEF BeforeOpen
<1>6. (\A q \in Procs : proc[q].step \in {"create", "open"} => conn[proc[q].sess] = "none")'
  BY <1>1, <1>2 DEF BeforeOpen
<1>7. (\A m \in Meetings : registry = m /\ conn[m] = "none" =>
          \E q \in Procs : proc[q].step \in Opening \ {"member"} /\ proc[q].sess = m)'
  BY <1>2, <1>3 DEF BeforeOpen
<1>8. (\A q \in Procs : proc[q].step \in Collecting \cup {"keepalive"} =>
          conn[proc[q].sess] # "none")'
  BY <1>1, <1>2 DEF BeforeOpen
<1>9. QED BY <1>4, <1>5, <1>6, <1>7, <1>8 DEF BeforeOpen

LEMMA StartAside ==
    ASSUME LockInv, Emptied, OpensAlone, "start" \notin Overlapping, NEW p \in Procs,
           StartRequest(p)
    PROVE  Aside /\ OpensAlone'
<1> USE DEF LockInv, LocalInv, TypeInv
<1>1. /\ p # Listener /\ \A q \in Procs : proc[q].step = "idle"
      /\ UNCHANGED <<registry, state, pushed, seq, words, conn, events>>
  BY DEF StartRequest, sessionVars
<1>2. proc' = [proc EXCEPT ![p].step = "member", ![p].op = "start"]
  BY DEF StartRequest
<1>3. /\ proc'[p].step = "member" /\ \A q \in Procs \ {p} : proc'[q] = proc[q]
      /\ proc'[p].todo = proc[p].todo /\ proc'[p].out = proc[p].out
      /\ proc'[p].closing = proc[p].closing
  BY <1>2 DEF Locals
<1>4. "member" \notin Using /\ "idle" \notin Opening
  BY DEF Using, Locking, Collecting, Failing, Opening
<1>5. Aside
  BY <1>1, <1>3, <1>4 DEF Aside, Emptied, Emptying
<1>6. OpensAlone'
  BY <1>1, <1>3, <1>4 DEF OpensAlone
<1>7. QED BY <1>5, <1>6

LEMMA RequestAside ==
    ASSUME LockInv, Emptied, OpensAlone, NEW p \in Procs,
           NEW op \in {"audio", "finish", "disconnect"}, Request(p, op)
    PROVE  Aside /\ OpensAlone'
<1> USE DEF LockInv, LocalInv, TypeInv
<1>1. /\ p # Listener /\ proc[p].step = "idle"
      /\ UNCHANGED <<registry, state, pushed, seq, words, conn, events>>
  BY DEF Request, At, sessionVars
<1>2. \/ proc' = [proc EXCEPT ![p].step = Entry(registry), ![p].op = op, ![p].key = registry]
      \/ proc' = [proc EXCEPT ![p].step = "emit", ![p].op = op]
  BY DEF Request
<1>3. Entry(registry) \in {"enter", "wait"}
  BY DEF Entry
<1>4. /\ proc'[p].step \in {"enter", "wait", "emit"} /\ proc'[p].op = op
      /\ \A q \in Procs \ {p} : proc'[q] = proc[q]
      /\ proc'[p].todo = proc[p].todo /\ proc'[p].out = proc[p].out
      /\ proc'[p].closing = proc[p].closing
  BY <1>2, <1>3 DEF Locals
<1>5. {"enter", "wait", "emit"} \cap (Using \cup Opening) = {} /\ "idle" \notin Opening
  BY DEF Using, Locking, Collecting, Failing, Opening
<1>6. Aside
  BY <1>1, <1>4, <1>5 DEF Aside, Emptied, Emptying
<1>7. OpensAlone'
  BY <1>1, <1>4, <1>5 DEF OpensAlone
<1>8. QED BY <1>6, <1>7

LEMMA RefuseAside ==
    ASSUME LockInv, Emptied, OpensAlone, NEW p \in Procs, Refuse(p)
    PROVE  Aside /\ OpensAlone'
<1> USE DEF LockInv, LocalInv, TypeInv
<1>1. /\ proc[p].step \in {"enter", "wait"}
      /\ UNCHANGED <<state, pushed, seq, words, conn, events>>
      /\ registry' \in {registry, None} /\ (Goto(p, "emit") \/ Stop(p))
  BY DEF Refuse, Turn, At, sessionVars
<1>2. /\ \/ /\ proc'[p].step = "emit" /\ proc'[p].op = proc[p].op
            /\ proc'[p].todo = proc[p].todo /\ proc'[p].out = proc[p].out
            /\ proc'[p].closing = proc[p].closing
         \/ proc'[p] = Idle
      /\ \A q \in Procs \ {p} : proc'[q] = proc[q]
  BY <1>1, GotoBecomes, StopEffect, OthersKeep DEF Same, Becomes, OwnStep
<1>3. {"enter", "wait", "emit", "idle"} \cap (Using \cup Opening) = {}
  BY DEF Using, Locking, Collecting, Failing, Opening
<1>4. Aside
  BY <1>1, <1>2, <1>3, IdleFields DEF Aside, Emptied, Emptying
<1>5. OpensAlone'
  BY <1>1, <1>2, <1>3, IdleFields DEF OpensAlone
<1>6. QED BY <1>4, <1>5

LEMMA EmittedAside ==
    ASSUME LockInv, Emptied, OpensAlone, NEW p \in Procs, Emitted(p) \/ (p = Listener /\ Listen)
    PROVE  Aside /\ OpensAlone'
<1> USE DEF LockInv, LocalInv, TypeInv
<1>1. /\ proc[p].step = "emit"
      /\ UNCHANGED <<registry, state, pushed, seq, words, conn, events>>
  BY DEF Emitted, Listen, At, sessionVars
<1>2. /\ \A q \in Procs \ {p, Listener} : proc'[q] = proc[q]
      /\ \A q \in Procs : \/ proc'[q] = proc[q] \/ proc'[q] = Idle
                          \/ q = Listener /\ Restarts
  BY EmittedEffect
<1>3. {"enter", "wait", "emit", "idle"} \cap (Using \cup Opening) = {}
  BY DEF Using, Locking, Collecting, Failing, Opening
<1>4. \A q \in Procs : proc[q].step \in Opening => q # p /\ q # Listener
  BY <1>1, <1>3 DEF OpensAlone
<1>5. Aside
  BY <1>1, <1>2, <1>3, <1>4, IdleFields DEF Aside, Restarts
<1>6. \A q \in Procs : proc'[q].step \in Opening => proc'[q] = proc[q] /\ q # p
  BY <1>2, <1>3, <1>4, IdleFields DEF Restarts
<1>7. ASSUME NEW q \in Procs, proc[q].step \in Opening
      PROVE  proc'[Listener] = proc[Listener] \/ proc'[Listener] = Idle
  <2>1. p # Listener /\ proc[p].op # "start"
    BY <1>1, <1>4, <1>7 DEF OpensAlone
  <2>2. Emitted(p)
    BY <2>1
  <2>3. proc' = [proc EXCEPT ![p] = Idle] \/ proc' = [proc EXCEPT ![p] = Idle, ![Listener] = Idle]
    BY <2>1, <2>2 DEF Emitted, Stop
  <2>4. QED BY <2>1, <2>3, ProcsAre
<1>8. OpensAlone'
  <2> SUFFICES ASSUME NEW q \in Procs, NEW r \in Procs, proc'[q].step \in Opening, r # q
               PROVE  /\ q # Listener
                      /\ \/ proc'[r].step = "idle"
                         \/ r # Listener /\ proc'[r].op \in {"audio", "finish", "disconnect"}
    BY DEF OpensAlone
  <2>1. proc[q].step \in Opening /\ q # Listener
    BY <1>4, <1>6
  <2>2. proc'[r] = proc[r] \/ proc'[r] = Idle
    BY <1>2, <1>7, <2>1
  <2>3. QED BY <2>1, <2>2, IdleFields DEF OpensAlone
<1>9. QED BY <1>5, <1>8

LEMMA MemberKeepsBefore ==
    ASSUME LockInv, BeforeOpen, OpensAlone, LockInv', NEW p \in Procs, Member(p)
    PROVE  BeforeOpen' /\ OpensAlone'
<1>1. /\ proc[p].step = "member" /\ ~InUse /\ p # Listener /\ conn' = conn
      /\ proc \in [Procs -> Locals] /\ state \in [Meetings -> Status]
      /\ UsesSession /\ UsesSession'
  BY DEF Member, At, LockInv, OneStart, LocalInv, TypeInv, StoreType
<1>2. PICK m \in Meetings : /\ registry' = m /\ state[m] = "none"
                            /\ state' = [state EXCEPT ![m] = "streaming"]
                            /\ proc' = [proc EXCEPT ![p].step = "create", ![p].sess = m]
  BY <1>1 DEF Member
<1>3. /\ proc'[p].step = "create" /\ proc'[p].sess = m
      /\ \A q \in Procs \ {p} : proc'[q] = proc[q]
  BY <1>1, <1>2 DEF Locals
<1>4. /\ {"create", "member"} \subseteq Opening /\ "create" \notin Collecting \cup {"keepalive"}
      /\ Collecting \cup {"keepalive"} \subseteq Using
      /\ {"create", "open"} \subseteq Using
  BY DEF Opening, Using, Locking, Collecting
<1>5. conn[m] = "none" /\ \A n \in Meetings : state'[n] = IF n = m THEN "streaming" ELSE state[n]
  BY <1>1, <1>2 DEF BeforeOpen
<1>6. (\A n \in Meetings : state[n] = "none" => conn[n] = "none" /\ registry # n)'
  BY <1>1, <1>2, <1>5 DEF BeforeOpen
<1>7. (\A q \in Procs : proc[q].step \in Using => state[proc[q].sess] # "none")'
  <2> SUFFICES ASSUME NEW q \in Procs, proc'[q].step \in Using
               PROVE  state'[proc'[q].sess] # "none"
    OBVIOUS
  <2>1. CASE q = p
    BY <1>3, <1>5, <2>1
  <2>2. CASE q # p
    BY <1>1, <1>3, <1>5, <2>2 DEF BeforeOpen, UsesSession
  <2>3. QED BY <2>1, <2>2
<1>8. (\A q \in Procs : proc[q].step \in {"create", "open"} => conn[proc[q].sess] = "none")'
  BY <1>1, <1>3, <1>5 DEF BeforeOpen
<1>9. (\A n \in Meetings : registry = n /\ conn[n] = "none" =>
          \E q \in Procs : proc[q].step \in Opening \ {"member"} /\ proc[q].sess = n)'
  BY <1>2, <1>3, <1>4
<1>10. (\A q \in Procs : proc[q].step \in Collecting \cup {"keepalive"} =>
          conn[proc[q].sess] # "none")'
  BY <1>1, <1>3, <1>4 DEF BeforeOpen
<1>11. OpensAlone'
  <2>1. \A q \in Procs : proc'[q].step \in Opening => proc[q].step \in Opening /\ q = p
    BY <1>1, <1>3, <1>4 DEF LockInv, OneStart
  <2>2. QED BY <1>1, <1>3, <2>1 DEF OpensAlone
<1>12. QED BY <1>6, <1>7, <1>8, <1>9, <1>10, <1>11 DEF BeforeOpen

LEMMA AcquireKeepsBefore ==
    ASSUME LockInv, BeforeOpen, OpensAlone, LockInv', NEW p \in Procs, Acquire(p)
    PROVE  BeforeOpen' /\ OpensAlone'
<1> DEFINE first == {"send", "collect", "finalize", "write_finalizing"}
<1>1. /\ registry \in Meetings /\ registry' = registry /\ conn' = conn
      /\ proc[p].step \in {"enter", "wait"}
      /\ proc'[p].step \in first /\ proc'[p].sess = registry /\ proc'[p].op = proc[p].op
      /\ proc'[p].step = "collect" => proc[p].op = "listen"
      /\ state' = state \/ state' = [state EXCEPT ![registry] = "finalizing"]
      /\ \A q \in Procs \ {p} : proc'[q] = proc[q]
  BY AcquireEffect DEF Acquire
<1>2. state \in [Meetings -> Status] /\ UsesSession /\ UsesSession'
  BY DEF LockInv, LocalInv, TypeInv, StoreType
<1>3. /\ first \cap (Opening \cup {"keepalive"}) = {} /\ first \cap Collecting = {"collect"}
      /\ {"enter", "wait"} \cap Opening = {}
      /\ Collecting \cup {"keepalive"} \subseteq Using
  BY DEF Opening, Collecting, Using, Locking
<1> HIDE DEF first
<1>4. state[registry] # "none" /\ \A m \in Meetings : (state'[m] = "none" <=> state[m] = "none")
  BY <1>1, <1>2 DEF BeforeOpen
<1>5. proc'[p].step = "collect" => conn[registry] # "none"
  <2> SUFFICES ASSUME proc'[p].step = "collect", conn[registry] = "none" PROVE FALSE
    OBVIOUS
  <2>1. PICK q \in Procs : proc[q].step \in Opening
    BY <1>1 DEF BeforeOpen
  <2>2. QED BY <1>1, <1>3, <2>1 DEF OpensAlone
<1>6. (\A n \in Meetings : state[n] = "none" => conn[n] = "none" /\ registry # n)'
  BY <1>1, <1>4 DEF BeforeOpen
<1>7. (\A q \in Procs : proc[q].step \in Using => state[proc[q].sess] # "none")'
  <2> SUFFICES ASSUME NEW q \in Procs, proc'[q].step \in Using
               PROVE  state'[proc'[q].sess] # "none"
    OBVIOUS
  <2>1. CASE q = p
    BY <1>1, <1>4, <2>1
  <2>2. CASE q # p
    BY <1>1, <1>2, <1>4, <2>2 DEF BeforeOpen, UsesSession
  <2>3. QED BY <2>1, <2>2
<1>8. (\A q \in Procs : proc[q].step \in {"create", "open"} => conn[proc[q].sess] = "none")'
  <2>1. {"create", "open"} \subseteq Opening
    BY DEF Opening
  <2>2. QED BY <1>1, <1>3, <2>1 DEF BeforeOpen
<1>9. (\A n \in Meetings : registry = n /\ conn[n] = "none" =>
          \E q \in Procs : proc[q].step \in Opening \ {"member"} /\ proc[q].sess = n)'
  <2> SUFFICES ASSUME NEW n \in Meetings, registry = n, conn[n] = "none"
               PROVE  \E q \in Procs : proc'[q].step \in Opening \ {"member"}
                                       /\ proc'[q].sess = n
    BY <1>1
  <2>1. PICK q \in Procs : proc[q].step \in Opening \ {"member"} /\ proc[q].sess = n
    BY DEF BeforeOpen
  <2>2. q # p
    BY <1>1, <1>3, <2>1
  <2>3. QED BY <1>1, <2>1, <2>2
<1>10. (\A q \in Procs : proc[q].step \in Collecting \cup {"keepalive"} =>
          conn[proc[q].sess] # "none")'
  <2> SUFFICES ASSUME NEW q \in Procs, proc'[q].step \in Collecting \cup {"keepalive"}
               PROVE  conn[proc'[q].sess] # "none"
    BY <1>1
  <2>1. CASE q = p
    BY <1>1, <1>3, <1>5, <2>1
  <2>2. CASE q # p
    BY <1>1, <2>2 DEF BeforeOpen
  <2>3. QED BY <2>1, <2>2
<1>11. OpensAlone'
  <2>1. proc[p].step # "idle" /\ proc'[p].step \notin Opening
    BY <1>1, <1>3
  <2>2. QED BY <1>1, <2>1 DEF OpensAlone
<1>12. QED BY <1>6, <1>7, <1>8, <1>9, <1>10, <1>11 DEF BeforeOpen

LEMMA ProviderKeepsBefore ==
    ASSUME BeforeOpen, OpensAlone, LockInv, NEW m \in Meetings, NEW e \in ProviderEvents,
           Provider(m, e)
    PROVE  BeforeOpen' /\ OpensAlone'
<1>1. /\ UNCHANGED <<state, registry, proc>> /\ conn[m] = "open"
      /\ conn' = conn \/ conn' = [conn EXCEPT ![m] = "gone"]
      /\ conn \in [Meetings -> {"none", "open", "gone", "closed"}]
  BY DEF Provider, sessionVars, LockInv, LocalInv, TypeInv, StoreType
<1>2. \A n \in Meetings : (conn'[n] = "none" <=> conn[n] = "none")
  BY <1>1
<1>3. \A q \in Procs : proc[q].step \in Collecting \cup {"keepalive", "create", "open"}
          => proc[q].sess \in Meetings
  BY DEF LockInv, LocalInv, TypeInv, UsesSession, Using, Locking
<1>4. (\A n \in Meetings : state[n] = "none" => conn[n] = "none" /\ registry # n)'
  BY <1>1, <1>2 DEF BeforeOpen
<1>5. (\A q \in Procs : proc[q].step \in Using => state[proc[q].sess] # "none")'
  BY <1>1 DEF BeforeOpen
<1>6. (\A q \in Procs : proc[q].step \in {"create", "open"} => conn[proc[q].sess] = "none")'
  BY <1>1, <1>2, <1>3 DEF BeforeOpen
<1>7. (\A n \in Meetings : registry = n /\ conn[n] = "none" =>
          \E q \in Procs : proc[q].step \in Opening \ {"member"} /\ proc[q].sess = n)'
  BY <1>1, <1>2 DEF BeforeOpen
<1>8. (\A q \in Procs : proc[q].step \in Collecting \cup {"keepalive"} =>
          conn[proc[q].sess] # "none")'
  BY <1>1, <1>2, <1>3 DEF BeforeOpen
<1>9. QED BY <1>1, <1>4, <1>5, <1>6, <1>7, <1>8 DEF BeforeOpen, OpensAlone

\* A session that is quiet or over stays so.
LEMMA UsingStable ==
    ASSUME LockInv, BeforeOpen, NEW p \in Procs, UsingMove(p), UsingStore(p),
           NEW m \in Meetings
    PROVE  /\ conn[m] \in {"gone", "closed"} => conn'[m] \in {"gone", "closed"}
           /\ Quiet(m) => Quiet(m)'
           /\ Over(m) /\ ~(Speaks(p) /\ m = proc[p].sess) => Over(m)'
<1> DEFINE n == proc[p].sess
<1>1. /\ n \in Meetings /\ proc[p].step = "open" => conn[n] = "none"
      /\ state \in [Meetings -> Status] /\ words \in [Meetings -> BOOLEAN]
      /\ conn \in [Meetings -> {"none", "open", "gone", "closed"}]
      /\ events \in [Meetings -> Seq(ProviderEvents)]
  BY DEF LockInv, LocalInv, TypeInv, StoreType, UsingMove, UsesSession, BeforeOpen
<1>2. ASSUME conn[m] \in {"gone", "closed"} PROVE conn'[m] \in {"gone", "closed"}
  <2>1. Closed(n) => conn'[m] \in {"gone", "closed"}
    BY <1>1, <1>2 DEF Closed
  <2>2. Opened(p) => conn'[m] \in {"gone", "closed"}
    BY <1>1, <1>2 DEF Opened
  <2>3. QED BY <1>2, <2>1, <2>2 DEF UsingStore
<1>3. events[m] = <<>> => events'[m] = <<>>
  BY <1>1 DEF UsingStore
<1>4. ~Active(m) => ~Active(m)'
  <2>1. ASSUME NEW s \in Terminal, state' = [state EXCEPT ![n] = s], ~Active(m)
        PROVE  ~Active(m)'
    <3>1. state'[m] \in {state[m], s} /\ s \notin {"streaming", "finalizing"}
      BY <1>1, <2>1 DEF Terminal
    <3>2. QED BY <2>1, <3>1 DEF Active
  <2>2. QED BY <2>1 DEF UsingStore, Ends, Active
<1>5. ~words[m] /\ ~(Speaks(p) /\ m = n) => ~words'[m]
  <2>1. words' = [words EXCEPT ![n] = FALSE] => (~words[m] => ~words'[m])
    BY <1>1
  <2>2. Speaks(p) /\ m # n => words'[m] = words[m]
    BY <1>1 DEF Speaks
  <2>3. QED BY <2>1, <2>2 DEF UsingStore
<1>6. QED BY <1>2, <1>3, <1>4, <1>5 DEF Quiet, Over

\* A coroutine's step that neither moves tasks nor gives up a session's order.
LEMMA OutsideOrder ==
    ASSUME LockInv, InOrder, EndIsLast, UNCHANGED <<pushed, seq>>,
           \A m \in Meetings : Over(m) => Over(m)',
           \A q \in Procs : proc'[q].step \in Locking => proc'[q] = proc[q]
    PROVE  InOrder' /\ EndIsLast'
<1>1. \A q \in Procs : proc'[q].step \in Locking =>
          /\ proc[q].step \in Locking /\ proc'[q] = proc[q]
          /\ TasksOf(q)' = TasksOf(q) /\ proc[q].sess \in Meetings
  BY DEF TasksOf, LockInv, LocalInv, TypeInv, UsesSession, Using
<1>2. (\A m \in Meetings : Ordered(pushed[m], seq[m]))'
  BY DEF InOrder, Ordered
<1>3. (\A q \in Procs : proc[q].step \in Locking => Ordered(TasksOf(q), seq[proc[q].sess]))'
  <2> SUFFICES ASSUME NEW q \in Procs, proc'[q].step \in Locking
               PROVE  Ordered(TasksOf(q), seq[proc[q].sess])'
    OBVIOUS
  <2>1. Ordered(TasksOf(q), seq[proc[q].sess])
    BY <1>1 DEF InOrder
  <2>2. QED BY <1>1, <2>1 DEF Ordered
<1>4. (\A m \in Meetings : HasEnd(pushed[m]) => Over(m))'
  BY DEF EndIsLast, HasEnd
<1>5. ASSUME NEW q \in Procs, proc'[q].step \in Locking, HasEnd(TasksOf(q))'
      PROVE  /\ Over(proc[q].sess)' /\ proc'[q].todo = <<>>
             /\ proc'[q].step \notin {"close", "write_terminal"}
  <2>1. HasEnd(TasksOf(q))
    BY <1>1, <1>5 DEF HasEnd
  <2>2. /\ Over(proc[q].sess) /\ proc[q].todo = <<>>
        /\ proc[q].step \notin {"close", "write_terminal"}
    BY <1>1, <1>5, <2>1 DEF EndIsLast
  <2>3. Over(proc[q].sess)'
    <3> DEFINE m == proc[q].sess
    <3>1. m \in Meetings /\ Over(m) /\ proc'[q].sess = m
      BY <1>1, <1>5, <2>2
    <3>2. conn'[m] \in {"gone", "closed"} /\ events'[m] = <<>> /\ ~words'[m]
          /\ state'[m] \notin {"streaming", "finalizing"}
      BY <3>1 DEF Over, Quiet, Active
    <3>3. QED BY <3>1, <3>2 DEF Over, Quiet, Active
  <2>4. QED BY <1>1, <1>5, <2>2, <2>3
<1>6. InOrder'
  BY <1>2, <1>3 DEF InOrder
<1>7. EndIsLast'
  BY <1>4, <1>5 DEF EndIsLast
<1>8. QED BY <1>6, <1>7

\* A step under the lock moves tasks of its own session.
LEMMA LockingOrder ==
    ASSUME LockInv, InOrder, EndIsLast, LocalInv', NEW p \in Procs,
           \A q \in Procs : q # p => proc'[q] = proc[q],
           proc[p].step \in Locking, proc'[p].step \in Locking,
           proc'[p].sess = proc[p].sess,
           \A n \in Meetings \ {proc[p].sess} :
              pushed'[n] = pushed[n] /\ seq'[n] = seq[n] /\ (Over(n) => Over(n)'),
           Ordered(TasksOf(p), seq[proc[p].sess])',
           HasEnd(TasksOf(p))' =>
              /\ Over(proc[p].sess)' /\ proc'[p].todo = <<>>
              /\ proc'[p].step \notin {"close", "write_terminal"}
    PROVE  InOrder' /\ EndIsLast'
<1> DEFINE m == proc[p].sess
<1>1. m \in Meetings /\ proc'[p].sess = m
  BY DEF LockInv, LocalInv, TypeInv, UsesSession, Using
<1>2. \A q \in Procs : q # p /\ proc'[q].step \in Locking =>
          /\ proc[q].step \in Locking /\ proc'[q] = proc[q]
          /\ proc[q].sess \in Meetings \ {m}
  BY DEF LockInv, LockMatches, LocalInv, TypeInv, UsesSession, Using
<1>3. ASSUME NEW q \in Procs, q # p, proc'[q].step \in Locking
      PROVE  TasksOf(q)' = TasksOf(q) /\ seq'[proc'[q].sess] = seq[proc[q].sess]
  BY <1>2, <1>3 DEF TasksOf
<1>4. /\ pushed'[m] \in Seq(Tasks) /\ seq'[m] \in Nat
      /\ proc'[p].out \o proc'[p].closing \in Seq(Tasks)
  BY <1>1, ConcatProperties DEF LocalInv, TypeInv, StoreType, Locals
<1>5. Ordered(pushed'[m], seq'[m]) /\ (HasEnd(pushed'[m]) => HasEnd(TasksOf(p))')
  <2>1. TasksOf(p)' = pushed'[m] \o (proc'[p].out \o proc'[p].closing)
    BY <1>1 DEF TasksOf
  <2>2. Ordered(pushed'[m] \o (proc'[p].out \o proc'[p].closing), seq'[m])
    BY <1>1, <2>1 DEF Ordered
  <2>3. Ordered(pushed'[m], seq'[m])
        /\ (HasEnd(pushed'[m]) => HasEnd(pushed'[m] \o (proc'[p].out \o proc'[p].closing)))
    BY <1>4, <2>2, OrderedPrefix
  <2>4. QED BY <2>1, <2>3 DEF HasEnd
<1>6. (\A n \in Meetings : Ordered(pushed[n], seq[n]))'
  <2> SUFFICES ASSUME NEW n \in Meetings PROVE Ordered(pushed'[n], seq'[n])
    BY DEF Ordered
  <2>1. CASE n = m
    BY <1>5, <2>1
  <2>2. CASE n # m
    BY <2>2 DEF InOrder
  <2>3. QED BY <2>1, <2>2
<1>7. (\A q \in Procs : proc[q].step \in Locking => Ordered(TasksOf(q), seq[proc[q].sess]))'
  <2> SUFFICES ASSUME NEW q \in Procs, proc'[q].step \in Locking, q # p
               PROVE  Ordered(TasksOf(q), seq[proc[q].sess])'
    OBVIOUS
  <2>1. Ordered(TasksOf(q), seq[proc[q].sess])
    BY <1>2 DEF InOrder
  <2>2. QED BY <1>3, <2>1 DEF Ordered
<1>8. (\A n \in Meetings : HasEnd(pushed[n]) => Over(n))'
  <2> SUFFICES ASSUME NEW n \in Meetings, HasEnd(pushed[n])' PROVE Over(n)'
    OBVIOUS
  <2>1. CASE n = m
    <3>1. HasEnd(TasksOf(p))'
      BY <1>5, <2>1 DEF HasEnd
    <3>2. Over(proc[p].sess)'
      BY <3>1
    <3>3. QED BY <1>1, <2>1, <3>2 DEF Over, Quiet, Active
  <2>2. CASE n # m
    BY <2>2 DEF EndIsLast, HasEnd
  <2>3. QED BY <2>1, <2>2
<1>9. ASSUME NEW q \in Procs, proc'[q].step \in Locking, HasEnd(TasksOf(q))', q # p
      PROVE  /\ Over(proc[q].sess)' /\ proc'[q].todo = <<>>
             /\ proc'[q].step \notin {"close", "write_terminal"}
  <2> DEFINE n == proc[q].sess
  <2>1. HasEnd(TasksOf(q))
    BY <1>3, <1>9 DEF HasEnd
  <2>2. /\ Over(n) /\ proc[q].todo = <<>>
        /\ proc[q].step \notin {"close", "write_terminal"}
    BY <1>2, <1>9, <2>1 DEF EndIsLast
  <2>3. n \in Meetings \ {m} /\ proc'[q].sess = n /\ proc'[q] = proc[q]
    BY <1>2, <1>9
  <2>4. conn'[n] \in {"gone", "closed"} /\ events'[n] = <<>> /\ ~words'[n]
          /\ state'[n] \notin {"streaming", "finalizing"}
    BY <2>2, <2>3 DEF Over, Quiet, Active
  <2>5. Over(proc[q].sess)'
    BY <2>3, <2>4 DEF Over, Quiet, Active
  <2>6. QED BY <2>2, <2>3, <2>5
<1>10. InOrder'
  BY <1>6, <1>7 DEF InOrder
<1>11. EndIsLast'
  BY <1>8, <1>9 DEF EndIsLast
<1>12. QED BY <1>10, <1>11

LEMMA CloseTail ==
    ASSUME NEW t \in Seq(ProviderEvents), t # <<>>, CloseLast(t)
    PROVE  /\ CloseLast(Tail(t)) /\ (HasClose(Tail(t)) => HasClose(t))
           /\ Head(t) = "close" => Tail(t) = <<>> /\ HasClose(t)
<1>1. /\ Len(t) \in Nat \ {0} /\ DOMAIN t = 1 .. Len(t)
      /\ Tail(t) \in Seq(ProviderEvents) /\ Len(Tail(t)) = Len(t) - 1
      /\ DOMAIN Tail(t) = 1 .. Len(t) - 1
      /\ \A i \in 1 .. Len(t) - 1 : Tail(t)[i] = t[i + 1]
      /\ Head(t) = t[1]
  <2>1. Len(t) \in Nat \ {0}
    BY EmptySeq
  <2>2. QED BY <2>1, HeadTailProperties, LenProperties
<1>2. Head(t) = "close" => Tail(t) = <<>> /\ HasClose(t)
  <2> SUFFICES ASSUME Head(t) = "close" PROVE Tail(t) = <<>> /\ HasClose(t)
    OBVIOUS
  <2>1. Len(t) = 1 /\ HasClose(t)
    BY <1>1 DEF CloseLast, HasClose
  <2>2. Len(Tail(t)) = 0
    BY <1>1, <2>1
  <2>3. QED BY <1>1, <2>1, <2>2, EmptySeq
<1>3. CloseLast(Tail(t))
  BY <1>1 DEF CloseLast
<1>4. HasClose(Tail(t)) => HasClose(t)
  BY <1>1 DEF HasClose
<1>5. QED BY <1>2, <1>3, <1>4

LEMMA CloseAppend ==
    ASSUME NEW t \in Seq(ProviderEvents), NEW e \in ProviderEvents, ~HasClose(t)
    PROVE  CloseLast(Append(t, e)) /\ (e # "close" => ~HasClose(Append(t, e)))
<1>1. /\ Len(t) \in Nat /\ DOMAIN t = 1 .. Len(t)
      /\ Len(Append(t, e)) = Len(t) + 1 /\ DOMAIN Append(t, e) = 1 .. Len(t) + 1
      /\ \A i \in 1 .. Len(t) : Append(t, e)[i] = t[i]
      /\ Append(t, e)[Len(t) + 1] = e
  BY AppendProperties, LenProperties
<1> DEFINE u == Append(t, e)
<1> HIDE DEF u
<1>2. QED BY <1>1 DEF CloseLast, HasClose, u

LEMMA NoClose == CloseLast(<<>>) /\ ~HasClose(<<>>)
BY DEF CloseLast, HasClose

\* A step of a coroutine that has a session: what is left to show of its events.
LEMMA CloseKept ==
    ASSUME LockInv, BeforeOpen, CloseIsLast, Emptied, NEW p \in Procs,
           UsingMove(p), UsingStore(p), \A q \in Procs : q # p => proc'[q] = proc[q],
           Emptying(proc[p])', CloseLast(proc'[p].todo),
           HasClose(proc'[p].todo) => proc'[p].sess = proc[p].sess /\ Quiet(proc[p].sess)',
           proc'[p].step = "write_terminal" =>
              proc[p].step \in Locking /\ Over(proc[p].sess)' /\ proc'[p].todo = <<>>
    PROVE  CloseIsLast' /\ Emptied'
<1>1. Emptied'
  BY DEF Emptied, Emptying
<1>2. \A m \in Meetings : CloseLast(events'[m])
          /\ (HasClose(events'[m]) => HasClose(events[m]))
  <2>1. proc[p].sess \in Meetings /\ events \in [Meetings -> Seq(ProviderEvents)]
    BY DEF LockInv, LocalInv, TypeInv, StoreType, UsesSession, UsingMove
  <2>2. \A m \in Meetings : events'[m] = events[m] \/ events'[m] = <<>>
    BY <2>1 DEF UsingStore
  <2>3. QED BY <2>2, NoClose DEF CloseIsLast
<1>3. (\A m \in Meetings :
          CloseLast(events[m]) /\ (HasClose(events[m]) => conn[m] \in {"gone", "closed"}))'
  <2> SUFFICES ASSUME NEW m \in Meetings
               PROVE  /\ CloseLast(events'[m])
                      /\ HasClose(events'[m]) => conn'[m] \in {"gone", "closed"}
    BY DEF CloseLast, HasClose
  <2>1. QED BY <1>2, UsingStable DEF CloseIsLast
<1>4. (\A q \in Procs : CloseLast(proc[q].todo))'
  BY DEF CloseIsLast, CloseLast
<1>5. ASSUME NEW q \in Procs, HasClose(proc'[q].todo) PROVE Quiet(proc[q].sess)'
  <2>1. CASE q = p
    BY <1>5, <2>1 DEF Quiet
  <2>2. CASE q # p
    <3> DEFINE m == proc[q].sess
    <3>1. proc'[q] = proc[q] /\ HasClose(proc[q].todo) /\ Quiet(m)
      BY <1>5, <2>2 DEF CloseIsLast
    <3>2. proc[q].todo # <<>>
      BY <3>1, NoClose
    <3>3. m \in Meetings
      BY <3>2 DEF Emptied, Emptying, LockInv, LocalInv, TypeInv, UsesSession, Using,
                  Locking, Collecting
    <3>4. Quiet(m)'
      BY <3>1, <3>3, UsingStable
    <3>5. QED BY <3>1, <3>4 DEF Quiet
  <2>3. QED BY <2>1, <2>2
<1>6. ASSUME NEW q \in Procs, proc'[q].step = "write_terminal"
      PROVE  Over(proc[q].sess)' /\ proc'[q].todo = <<>>
  <2>1. CASE q = p
    <3>1. proc'[p].sess = proc[p].sess
      BY <1>6, <2>1 DEF UsingMove, Using, Locking, Collecting
    <3>2. QED BY <1>6, <2>1, <3>1 DEF Over, Quiet, Active
  <2>2. CASE q # p
    <3> DEFINE m == proc[q].sess
    <3>1. proc'[q] = proc[q] /\ Over(m) /\ proc[q].todo = <<>>
      BY <1>6, <2>2 DEF CloseIsLast
    <3>2. m \in Meetings /\ proc[q].step \in Locking
      BY <1>6, <3>1 DEF LockInv, LocalInv, TypeInv, UsesSession, Using, Locking, Collecting
    <3>3. ~(Speaks(p) /\ m = proc[p].sess)
      <4>1. Speaks(p) => proc[p].step \in Locking
        BY DEF Speaks, Locking, Collecting
      <4>2. QED BY <2>2, <3>2, <4>1 DEF LockInv, LockMatches
    <3>4. Over(m)'
      BY <3>1, <3>2, <3>3, UsingStable
    <3>5. QED BY <3>1, <3>4 DEF Over, Quiet, Active
  <2>3. QED BY <2>1, <2>2
<1>7. CloseIsLast'
  BY <1>3, <1>4, <1>5, <1>6 DEF CloseIsLast, HasClose
<1>8. QED BY <1>1, <1>7

\* A step that moves no task.
KeepsTasks(p) ==
    /\ UNCHANGED <<pushed, seq>> /\ ~Speaks(p)
    /\ \/ proc'[p] = Idle
       \/ /\ proc'[p].todo \in {proc[p].todo, <<>>}
          /\ proc'[p].out = proc[p].out /\ proc'[p].closing = proc[p].closing
          /\ proc'[p].sess = proc[p].sess
    /\ proc'[p].step \notin {"write_terminal", "close"}
    /\ proc'[p].step \in Locking => proc[p].step \in Locking
    /\ Emptying(proc[p])'

LEMMA KeepsTasksOrder ==
    ASSUME OrderInv, LocalInv', NEW p \in Procs, UsingMove(p), UsingStore(p),
           \A q \in Procs : q # p => proc'[q] = proc[q], KeepsTasks(p)
    PROVE  CloseIsLast' /\ Emptied' /\ InOrder' /\ EndIsLast'
<1> USE DEF OrderInv
<1>1. \A m \in Meetings : (Quiet(m) => Quiet(m)') /\ (Over(m) => Over(m)')
  BY UsingStable DEF KeepsTasks
<1>2. proc[p].sess \in Meetings
  BY DEF LockInv, LocalInv, TypeInv, UsesSession, UsingMove
<1>3. CloseIsLast' /\ Emptied'
  <2>1. CloseLast(proc'[p].todo)
    BY NoClose, IdleFields DEF KeepsTasks, CloseIsLast
  <2>2. HasClose(proc'[p].todo) => proc'[p].sess = proc[p].sess /\ Quiet(proc[p].sess)
    BY NoClose, IdleFields DEF KeepsTasks, CloseIsLast
  <2>3. HasClose(proc'[p].todo) => Quiet(proc[p].sess)'
    <3> DEFINE m == proc[p].sess
    <3>1. HasClose(proc'[p].todo) => Quiet(m)' /\ proc'[p].sess = m
      BY <1>1, <1>2, <2>2
    <3>2. QED BY <3>1 DEF Quiet
  <2>4. proc'[p].step # "write_terminal"
    BY DEF KeepsTasks
  <2>5. QED BY <2>1, <2>2, <2>3, <2>4, CloseKept DEF KeepsTasks
<1>4. CASE proc'[p].step \notin Locking
  <2>1. \A q \in Procs : proc'[q].step \in Locking => proc'[q] = proc[q]
    BY <1>4
  <2>2. InOrder' /\ EndIsLast'
    BY <1>1, <2>1, OutsideOrder DEF KeepsTasks
  <2>3. QED BY <1>3, <2>2
<1>5. CASE proc'[p].step \in Locking
  <2>1. /\ proc[p].step \in Locking /\ proc'[p].out = proc[p].out
        /\ proc'[p].closing = proc[p].closing /\ proc'[p].sess = proc[p].sess
        /\ proc'[p].todo \in {proc[p].todo, <<>>}
        /\ pushed' = pushed /\ seq' = seq
    <3>1. proc'[p] # Idle
      BY <1>5, IdleFields DEF Locking, Collecting
    <3>2. QED BY <1>5, <3>1 DEF KeepsTasks
  <2>2. TasksOf(p)' = TasksOf(p)
    BY <2>1 DEF TasksOf
  <2>3. Ordered(TasksOf(p), seq[proc[p].sess])'
    BY <2>1, <2>2 DEF InOrder, Ordered
  <2>4. ASSUME HasEnd(TasksOf(p))'
        PROVE  /\ Over(proc[p].sess)' /\ proc'[p].todo = <<>>
               /\ proc'[p].step \notin {"close", "write_terminal"}
    <3>1. HasEnd(TasksOf(p))
      BY <2>2, <2>4 DEF HasEnd
    <3>2. Over(proc[p].sess) /\ proc[p].todo = <<>>
      BY <2>1, <3>1 DEF EndIsLast
    <3>3. Over(proc[p].sess)'
      <4> DEFINE m == proc[p].sess
      <4>1. Over(m)' /\ proc'[p].sess = m
        BY <1>1, <1>2, <2>1, <3>2
      <4>2. QED BY <4>1 DEF Over, Quiet, Active
    <3>4. QED BY <2>1, <3>2, <3>3 DEF KeepsTasks
  <2>5. InOrder' /\ EndIsLast'
    BY <1>1, <1>5, <2>1, <2>3, <2>4, LockingOrder
  <2>6. QED BY <1>3, <2>5
<1>6. QED BY <1>4, <1>5

LEMMA IdleKeeps ==
    ASSUME NEW p \in Procs, proc'[p] = Idle, UNCHANGED <<pushed, seq>>, ~Speaks(p)
    PROVE  KeepsTasks(p)
<1>1. /\ proc'[p].step = "idle" /\ proc'[p].todo = <<>> /\ proc'[p].out = <<>>
      /\ proc'[p].closing = <<>>
  BY IdleFields
<1>2. "idle" \notin Locking
  BY DEF Locking, Collecting
<1>3. QED BY <1>1, <1>2 DEF KeepsTasks, Emptying

LEMMA SameKeeps ==
    ASSUME Emptied, NEW p \in Procs, NEW s, Same(p, s), UNCHANGED <<pushed, seq>>,
           proc[p].step \notin {"consume", "write_terminal", "close", "push"},
           proc[p].step \in {"write_failed", "close_failed"} => s \in {"close_failed", "consume"},
           s \notin {"write_terminal", "close"}, s \in Locking => proc[p].step \in Locking
    PROVE  KeepsTasks(p)
<1>1. Emptying(proc[p])
  BY DEF Emptied
<1>2. Emptying(proc[p])'
  BY <1>1 DEF Emptying, Same, Becomes
<1>3. ~Speaks(p)
  BY DEF Speaks
<1>4. QED BY <1>2, <1>3 DEF KeepsTasks, Same, Becomes

LEMMA QuietStepsKeep ==
    ASSUME OrderInv, NEW p \in Procs,
           \/ Create(p) \/ Open(p) \/ StartFailed(p) \/ WriteFinalizing(p) \/ Send(p)
           \/ WriteFailed(p) \/ CloseFailed(p) \/ Leave(p) \/ Drain(p)
           \/ FailLive(p) \/ FailWrite(p) \/ FailClose(p)
    PROVE  KeepsTasks(p)
<1> USE DEF OrderInv, LockInv, LocalInv
<1>1. ASSUME NEW s, Goto(p, s) PROVE Same(p, s)
  BY <1>1, GotoBecomes
<1>2. ASSUME Stop(p), UNCHANGED <<pushed, seq>>, proc[p].step # "consume" PROVE KeepsTasks(p)
  BY <1>2, StopEffect, IdleKeeps DEF Speaks
<1>3. ASSUME NEW s \in Steps, Goto(p, s), UNCHANGED <<pushed, seq>>,
             proc[p].step \notin {"consume", "write_terminal", "close", "push"},
             proc[p].step \in {"write_failed", "close_failed"} => s \in {"close_failed", "consume"},
             s \notin {"write_terminal", "close"}, s \in Locking => proc[p].step \in Locking
      PROVE  KeepsTasks(p)
  BY <1>1, <1>3, SameKeeps
<1>4. /\ {"open", "emit", "start_failed", "fail", "fail_write", "fail_close"} \cap Locking = {}
      /\ {"finalize", "collect", "collected", "consume", "close_failed", "write_failed",
          "send", "keepalive", "write_finalizing"} \subseteq Locking
  BY DEF Locking, Collecting
<1>5. {"open", "emit", "start_failed", "fail", "fail_write", "fail_close", "finalize",
       "collect", "collected", "consume", "close_failed"} \subseteq Steps
  BY DEF Steps, Running, Awaits
<1>6. CASE Create(p) \/ Open(p) \/ StartFailed(p)
  <2>1. /\ proc[p].step \in {"create", "open", "start_failed"} /\ UNCHANGED <<pushed, seq>>
        /\ Stop(p) \/ \E s \in {"open", "emit", "start_failed"} : Goto(p, s)
    BY <1>6 DEF Create, Open, StartFailed, At, sessionVars
  <2>2. QED BY <1>2, <1>3, <1>4, <1>5, <2>1
<1>7. CASE WriteFinalizing(p) \/ Send(p)
  <2>1. /\ proc[p].step \in {"write_finalizing", "send", "finalize", "keepalive"}
        /\ UNCHANGED <<pushed, seq>>
        /\ Stop(p) \/ \E s \in {"finalize", "collect", "collected", "fail"} : Goto(p, s)
    BY <1>7 DEF WriteFinalizing, Send, At, sessionVars
  <2>2. QED BY <1>2, <1>3, <1>4, <1>5, <2>1
<1>8. CASE WriteFailed(p)
  <2>1. proc[p].step = "write_failed" /\ UNCHANGED <<pushed, seq>>
    BY <1>8 DEF WriteFailed, At, sessionVars
  <2>2. CASE Same(p, "close_failed")
    BY <1>4, <2>1, <2>2, SameKeeps
  <2>3. CASE Becomes(p, "write_failed", <<>>, proc[p].out, proc[p].closing)
    <3>1. Emptying(proc[p])'
      BY <2>1, <2>3 DEF Emptied, Emptying, Becomes
    <3>2. QED BY <1>4, <2>1, <2>3, <3>1 DEF KeepsTasks, Becomes, Speaks
  <2>4. CASE proc'[p] = Idle
    BY <2>1, <2>4, IdleKeeps DEF Speaks
  <2>5. QED BY <1>8, <2>2, <2>3, <2>4, WriteFailedEffect
<1>9. CASE CloseFailed(p) \/ Leave(p) \/ Drain(p)
  <2>1. /\ \/ proc[p].step = "close_failed" /\ Same(p, "consume")
           \/ proc[p].step = "collected" /\ (Same(p, "emit") \/ Same(p, "collect"))
        /\ UNCHANGED <<pushed, seq>>
    <3>1. Drain(p) => proc[p].step = "collected" /\ Same(p, "collect")
      BY DrainEffect, DrainSame
    <3>2. QED BY <1>1, <1>9, <3>1 DEF CloseFailed, Leave, Drain, At, sessionVars
  <2>2. QED BY <1>4, <1>5, <2>1, SameKeeps
<1>10. CASE FailLive(p) \/ FailWrite(p) \/ FailClose(p)
  <2>1. /\ proc[p].step \in {"fail", "fail_write", "fail_close"} /\ UNCHANGED <<pushed, seq>>
        /\ Stop(p) \/ \E s \in {"fail_write", "fail_close", "emit"} : Goto(p, s)
    BY <1>10 DEF FailLive, FailWrite, FailClose, At, sessionVars
  <2>2. QED BY <1>2, <1>3, <1>4, <1>5, <2>1
<1>11. QED BY <1>6, <1>7, <1>8, <1>9, <1>10

LEMMA FlushedTasks ==
    ASSUME NEW m \in Meetings, seq[m] \in Nat
    PROVE  Flushed(m) \in Seq(Tasks)
<1>1. Utterance(seq[m] + 1) \in Tasks
  BY DEF Utterance, Tasks
<1>2. QED BY <1>1 DEF Flushed

LEMMA FlushOrdered ==
    ASSUME NEW m \in Meetings, seq \in [Meetings -> Nat], NEW s \in Seq(Tasks),
           Ordered(s, seq[m]), ~HasEnd(s), Flush(m)
    PROVE  /\ Ordered(s \o Flushed(m), seq'[m]) /\ ~HasEnd(s \o Flushed(m))
           /\ \A n \in Meetings \ {m} : seq'[n] = seq[n]
<1>1. /\ seq' = [seq EXCEPT ![m] = @ + Len(Flushed(m))] /\ seq[m] \in Nat
  BY DEF Flush
<1>2. CASE words[m]
  <2>1. Flushed(m) = <<Utterance(seq[m] + 1)>> /\ Len(Flushed(m)) = 1
    BY <1>2 DEF Flushed
  <2>2. seq'[m] = seq[m] + 1 /\ \A n \in Meetings \ {m} : seq'[n] = seq[n]
    BY <1>1, <2>1
  <2>3. QED BY <1>1, <2>1, <2>2, OrderedConcatEnd
<1>3. CASE ~words[m]
  <2>1. Flushed(m) = <<>> /\ Len(Flushed(m)) = 0
    BY <1>3 DEF Flushed
  <2>2. seq'[m] = seq[m] /\ \A n \in Meetings \ {m} : seq'[n] = seq[n]
    BY <1>1, <2>1
  <2>3. s \o Flushed(m) = s
    BY <2>1, ConcatEmptySeq
  <2>4. QED BY <2>2, <2>3
<1>4. QED BY <1>2, <1>3

\* While no end is there, tasks may follow.
LEMMA EndlessOrder ==
    ASSUME OrderInv, LocalInv', NEW p \in Procs, UsingMove(p), UsingStore(p),
           \A q \in Procs : q # p => proc'[q] = proc[q],
           proc[p].step \in Locking, proc'[p].step \in Locking, pushed' = pushed,
           ~HasEnd(TasksOf(p)),
           \/ TasksOf(p)' = TasksOf(p) /\ seq' = seq
           \/ TasksOf(p)' = TasksOf(p) \o Flushed(proc[p].sess) /\ Flush(proc[p].sess)
    PROVE  InOrder' /\ EndIsLast' /\ ~HasEnd(TasksOf(p))'
<1> DEFINE m == proc[p].sess
<1>1. /\ m \in Meetings /\ proc'[p].sess = m /\ TasksOf(p) \in Seq(Tasks)
      /\ seq \in [Meetings -> Nat] /\ Ordered(TasksOf(p), seq[m])
  <2>1. m \in Meetings /\ proc'[p].sess = m /\ seq \in [Meetings -> Nat]
    BY DEF OrderInv, LockInv, LocalInv, TypeInv, StoreType, UsesSession, UsingMove, Using
  <2>2. /\ pushed[m] \in Seq(Tasks) /\ proc[p].out \in Seq(Tasks)
        /\ proc[p].closing \in Seq(Tasks)
    BY <2>1 DEF OrderInv, LockInv, LocalInv, TypeInv, StoreType, Locals
  <2>3. TasksOf(p) \in Seq(Tasks)
    BY <2>2, ConcatProperties DEF TasksOf
  <2>4. QED BY <2>1, <2>3 DEF OrderInv, InOrder
<1>2. /\ \A n \in Meetings \ {m} : seq'[n] = seq[n]
      /\ Ordered(TasksOf(p)', seq'[m]) /\ ~HasEnd(TasksOf(p)')
  BY <1>1, FlushOrdered
<1>3. Ordered(TasksOf(p), seq[proc[p].sess])' /\ ~HasEnd(TasksOf(p))'
  BY <1>1, <1>2 DEF Ordered, HasEnd
<1>4. \A n \in Meetings \ {m} : Over(n) => Over(n)'
  BY UsingStable DEF OrderInv
<1>5. QED BY <1>1, <1>2, <1>3, <1>4, LockingOrder DEF OrderInv

OrderKept == CloseIsLast' /\ Emptied' /\ InOrder' /\ EndIsLast'

\* What is known of a coroutine that has tasks and of its session.
LEMMA TasksTyped ==
    ASSUME OrderInv, NEW p \in Procs, proc[p].step \in Locking
    PROVE  LET m == proc[p].sess
           IN  /\ m \in Meetings /\ pushed[m] \in Seq(Tasks)
               /\ proc[p].out \in Seq(Tasks) /\ proc[p].closing \in Seq(Tasks)
               /\ proc[p].todo \in Seq(ProviderEvents) /\ events[m] \in Seq(ProviderEvents)
               /\ seq \in [Meetings -> Nat] /\ state \in [Meetings -> Status]
               /\ words \in [Meetings -> BOOLEAN]
               /\ events \in [Meetings -> Seq(ProviderEvents)]
               /\ pushed \in [Meetings -> Seq(Tasks)]
               /\ conn \in [Meetings -> {"none", "open", "gone", "closed"}]
               /\ goal[m] \in {"completed", "interrupted"}
               /\ Ordered(TasksOf(p), seq[m])
               /\ HasEnd(TasksOf(p)) => /\ Over(m) /\ proc[p].todo = <<>>
                                        /\ proc[p].step \notin {"close", "write_terminal"}
<1>1. proc[p].sess \in Meetings
  BY DEF OrderInv, LockInv, LocalInv, TypeInv, UsesSession, Using
<1>2. /\ proc[p].out \in Seq(Tasks) /\ proc[p].closing \in Seq(Tasks)
      /\ proc[p].todo \in Seq(ProviderEvents)
  BY DEF OrderInv, LockInv, LocalInv, TypeInv, Locals
<1>3. QED BY <1>1, <1>2 DEF OrderInv, LockInv, LocalInv, TypeInv, StoreType,
             InOrder, EndIsLast

LEMMA CollectOrder ==
    ASSUME OrderInv, LocalInv', NEW p \in Procs, UsingMove(p), UsingStore(p),
           \A q \in Procs : q # p => proc'[q] = proc[q], Collect(p)
    PROVE  OrderKept
<1> DEFINE m == proc[p].sess
<1>1. /\ proc[p].step \in {"collect", "next_event"} /\ proc[p].step \in Locking
      /\ UNCHANGED <<pushed, seq, conn>>
  BY DEF Collect, At, sessionVars, Locking, Collecting
<1>2. proc[p].out = <<>> /\ proc[p].closing = <<>>
  BY <1>1 DEF OrderInv, Emptied, Emptying
<1>3. {"next_event", "collected", "keepalive", "consume"} \subseteq Locking
  BY DEF Locking, Collecting
<1>4. ASSUME NEW s \in {"next_event", "collected", "keepalive"}, Same(p, s) PROVE OrderKept
  BY <1>1, <1>3, <1>4, SameKeeps, KeepsTasksOrder DEF OrderInv, OrderKept
<1>5. CASE /\ Becomes(p, "consume", events[m], proc[p].out, proc[p].closing)
           /\ events' = [events EXCEPT ![m] = <<>>]
  <2>1. /\ proc'[p].step = "consume" /\ proc'[p].todo = events[m] /\ proc'[p].sess = m
        /\ proc'[p].out = <<>> /\ proc'[p].closing = <<>>
    BY <1>2, <1>5 DEF Becomes
  <2>2. m \in Meetings /\ events'[m] = <<>>
    BY <1>1, <1>5, TasksTyped
  <2>3. HasClose(events[m]) => conn'[m] \in {"gone", "closed"}
    BY <1>1, <2>2 DEF OrderInv, CloseIsLast
  <2>4. HasClose(events[m]) => Quiet(proc[p].sess)'
    BY <2>1, <2>2, <2>3 DEF Quiet
  <2>5. CloseIsLast' /\ Emptied'
    <3>1. CloseLast(events[m])
      BY <2>2 DEF OrderInv, CloseIsLast
    <3>2. Emptying(proc[p])'
      BY <2>1 DEF Emptying
    <3>3. QED BY <2>1, <2>4, <3>1, <3>2, CloseKept DEF OrderInv
  <2>6. TasksOf(p)' = TasksOf(p)
    BY <1>1, <1>2, <2>1 DEF TasksOf
  <2>7. CASE ~HasEnd(TasksOf(p))
    BY <1>1, <1>3, <2>1, <2>5, <2>6, <2>7, EndlessOrder DEF OrderKept
  <2>8. CASE HasEnd(TasksOf(p))
    <3>1. Over(m) /\ events[m] = <<>>
      BY <1>1, <2>8, TasksTyped DEF Over, Quiet
    <3>2. ~Speaks(p)
      BY <1>1 DEF Speaks
    <3>3. \A n \in Meetings : Over(n) => Over(n)'
      BY <3>2, UsingStable DEF OrderInv
    <3>4. Over(proc[p].sess)'
      BY <2>1, <2>2, <3>1, <3>3 DEF Over, Quiet, Active
    <3>5. Ordered(TasksOf(p), seq[proc[p].sess])'
      <4>1. Ordered(TasksOf(p), seq[m])
        BY <1>1, TasksTyped
      <4>2. QED BY <1>1, <2>1, <2>6, <4>1 DEF Ordered
    <3>6. InOrder' /\ EndIsLast'
      BY <1>1, <1>3, <2>1, <3>1, <3>3, <3>4, <3>5, LockingOrder DEF OrderInv
    <3>7. QED BY <2>5, <3>6 DEF OrderKept
  <2>9. QED BY <2>7, <2>8
<1>6. QED
  <2>1. TypeInv
    BY DEF OrderInv, LockInv, LocalInv
  <2>2. QED BY <1>4, <1>5, <2>1, CollectEffect

\* Closing the open utterance adds it to the tasks of its session.
LEMMA FlushedMoves ==
    ASSUME OrderInv, NEW p \in Procs, proc[p].step \in Locking, proc[p].closing = <<>>,
           pushed' = pushed, proc'[p].sess = proc[p].sess, NEW f \in Seq(Tasks),
           \/ proc'[p].out = proc[p].out \o f /\ proc'[p].closing = <<>>
           \/ proc'[p].out = proc[p].out /\ proc'[p].closing = f
    PROVE  TasksOf(p)' = TasksOf(p) \o f
<1> DEFINE s == pushed[proc[p].sess]
           o == proc[p].out
<1>1. s \in Seq(Tasks) /\ o \in Seq(Tasks)
  BY TasksTyped
<1>2. TasksOf(p) = s \o (o \o <<>>)
  BY DEF TasksOf
<1>3. TasksOf(p)' = s \o ((o \o f) \o <<>>) \/ TasksOf(p)' = s \o (o \o f)
  BY DEF TasksOf
<1> HIDE DEF s, o
<1>4. (o \o f) \o <<>> = o \o f /\ o \o <<>> = o
  BY <1>1, TasksConcat
<1>5. s \o (o \o f) = (s \o o) \o f
  BY <1>1, TasksAssoc
<1>6. QED BY <1>2, <1>3, <1>4, <1>5

\* The end of the session comes after what closing it added.
LEMMA EndMoves ==
    ASSUME OrderInv, NEW p \in Procs, proc[p].step \in Locking, pushed' = pushed,
           proc'[p].sess = proc[p].sess, NEW e \in Tasks,
           proc'[p].out = (proc[p].out \o proc[p].closing) \o <<e>>,
           proc'[p].closing = <<>>
    PROVE  TasksOf(p)' = TasksOf(p) \o <<e>>
<1> DEFINE s == pushed[proc[p].sess]
           y == proc[p].out \o proc[p].closing
           z == <<e>>
<1>1. s \in Seq(Tasks) /\ proc[p].out \in Seq(Tasks) /\ proc[p].closing \in Seq(Tasks)
  BY TasksTyped
<1>2. y \in Seq(Tasks) /\ z \in Seq(Tasks)
  BY <1>1, TasksConcat
<1>3. TasksOf(p) = s \o y /\ TasksOf(p)' = s \o ((y \o z) \o <<>>)
  BY DEF TasksOf
<1> HIDE DEF s, y, z
<1>4. (y \o z) \o <<>> = y \o z
  BY <1>2, TasksConcat
<1>5. s \o (y \o z) = (s \o y) \o z
  BY <1>1, <1>2, TasksAssoc DEF s
<1>6. TasksOf(p)' = TasksOf(p) \o z
  BY <1>3, <1>4, <1>5
<1>7. QED BY <1>6 DEF z

\* A push takes the first task to the queue as it is, or loses it.
LEMMA PushMoves ==
    ASSUME OrderInv, NEW p \in Procs, Push(p)
    PROVE  LET m == proc[p].sess
               x == Head(proc[p].out)
               t == Tail(proc[p].out)
           IN  /\ x \in Tasks /\ t \in Seq(Tasks)
               /\ TasksOf(p) = pushed[m] \o (<<x>> \o t)
               /\ \/ TasksOf(p)' = TasksOf(p) /\ UNCHANGED lost
                  \/ TasksOf(p)' = pushed[m] \o t /\ lost' = lost \cup {m}
<1> DEFINE m == proc[p].sess
           s == pushed[m]
           x == Head(proc[p].out)
           t == Tail(proc[p].out)
           k == IF Len(proc[p].out) = 1 THEN "collected" ELSE "push"
           y == IF x.kind = "utterance" THEN x ELSE [x EXCEPT !.n = seq[m]]
           z == <<x>>
<1>1. /\ proc[p].step = "push" /\ proc[p].step \in Locking /\ TypeInv
      /\ proc[p].out # <<>> /\ proc[p].closing = <<>>
  BY DEF Push, At, Locking, Collecting, OrderInv, LockInv, LocalInv,
         PushHasOutput, Emptied, Emptying
<1>2. /\ m \in Meetings /\ s \in Seq(Tasks) /\ proc[p].out \in Seq(Tasks)
      /\ pushed \in [Meetings -> Seq(Tasks)]
      /\ seq[m] \in Nat /\ Ordered(TasksOf(p), seq[m])
  BY <1>1, TasksTyped
<1>3. x \in Tasks /\ t \in Seq(Tasks) /\ proc[p].out = <<x>> \o t
  BY <1>1, <1>2, HeadTailProperties
<1>4. /\ Becomes(p, k, proc[p].todo, t, proc[p].closing)
      /\ \/ pushed' = [pushed EXCEPT ![m] = Append(@, y)] /\ UNCHANGED lost
         \/ lost' = lost \cup {m} /\ UNCHANGED pushed
  BY <1>1, PushEffect
<1> HIDE DEF t, x, y, k
<1>5. proc'[p].sess = m /\ proc'[p].out = t /\ proc'[p].closing = <<>>
  BY <1>1, <1>4 DEF Becomes
<1>6. z \in Seq(Tasks) /\ z \o t \in Seq(Tasks)
  BY <1>3, TasksConcat
<1>7. TasksOf(p) = s \o (z \o t)
  <2>1. TasksOf(p) = s \o ((z \o t) \o <<>>)
    BY <1>1, <1>3 DEF TasksOf
  <2> HIDE DEF z
  <2>2. (z \o t) \o <<>> = z \o t
    BY <1>6, TasksConcat
  <2>3. QED BY <2>1, <2>2
<1>8. t \o <<>> = t
  BY <1>3, TasksConcat
<1>9. ASSUME pushed' = pushed PROVE TasksOf(p)' = s \o t
  <2>1. TasksOf(p)' = s \o (t \o <<>>)
    BY <1>5, <1>9 DEF TasksOf
  <2>2. QED BY <1>8, <2>1
<1>10. ASSUME pushed' = [pushed EXCEPT ![m] = Append(@, y)] PROVE TasksOf(p)' = TasksOf(p)
  <2>1. y = x
    <3>1. CASE x.kind = "utterance"
      BY <3>1 DEF y
    <3>2. CASE x.kind # "utterance"
      <4>1. x.n = seq[m]
        BY <1>2, <1>3, <1>7, <3>2, EndCounts DEF IsEnd
      <4>2. [x EXCEPT !.n = seq[m]] = x
        BY <1>3, <4>1 DEF Tasks
      <4>3. QED BY <3>2, <4>2 DEF y
    <3>3. QED BY <3>1, <3>2
  <2>2. pushed'[m] = s \o z
    BY <1>2, <1>3, <1>10, <2>1, AppendIsConcat
  <2>3. TasksOf(p)' = (s \o z) \o (t \o <<>>)
    BY <1>5, <2>2 DEF TasksOf
  <2> HIDE DEF z, s
  <2>4. (s \o z) \o t = s \o (z \o t)
    BY <1>2, <1>3, <1>6, TasksAssoc
  <2>5. QED BY <1>7, <1>8, <2>3, <2>4 DEF s
<1>11. QED BY <1>3, <1>4, <1>7, <1>9, <1>10 DEF x, t

LEMMA ConsumeOrder ==
    ASSUME OrderInv, LocalInv', NEW p \in Procs, UsingMove(p), UsingStore(p),
           \A q \in Procs : q # p => proc'[q] = proc[q], Consume(p)
    PROVE  OrderKept
<1> DEFINE m    == proc[p].sess
           e    == Head(proc[p].todo)
           rest == Tail(proc[p].todo)
           out  == proc[p].out
           cl   == proc[p].closing
<1>1. /\ proc[p].step = "consume" /\ proc[p].step \in Locking
      /\ UNCHANGED <<pushed, conn, events, goal>> /\ proc[p].todo # <<>>
  BY DEF Consume, At, Locking, Collecting
<1>2. {"consume", "write_terminal", "write_failed"} \subseteq Locking
  BY DEF Locking, Collecting
<1>3. m \in Meetings /\ ~HasEnd(TasksOf(p)) /\ proc[p].todo \in Seq(ProviderEvents)
  BY <1>1, TasksTyped
<1>4. cl = <<>>
  BY <1>1 DEF OrderInv, Emptied, Emptying
<1>5. /\ CloseLast(rest) /\ (HasClose(rest) => Quiet(m))
      /\ e = "close" => rest = <<>> /\ Quiet(m)
  BY <1>1, <1>3, CloseTail DEF OrderInv, CloseIsLast
<1>6. Quiet(m) => conn'[m] \in {"gone", "closed"} /\ events'[m] = <<>>
  BY <1>1 DEF Quiet
<1> HIDE DEF e, rest
<1>7. ASSUME NEW s \in {"consume", "write_failed"}, NEW t \in {rest, <<>>},
             NEW o, NEW c, c = <<>>, Becomes(p, s, t, o, c)
      PROVE  CloseIsLast' /\ Emptied'
  <2>1. /\ proc'[p].step = s /\ proc'[p].todo = t /\ proc'[p].sess = m
        /\ proc'[p].closing = <<>>
    BY <1>7 DEF Becomes
  <2>2. Emptying(proc[p])'
    BY <2>1 DEF Emptying
  <2>3. CloseLast(t) /\ (HasClose(t) => Quiet(m))
    BY <1>5, NoClose
  <2>4. HasClose(proc'[p].todo) => Quiet(proc[p].sess)'
    BY <1>6, <2>1, <2>3 DEF Quiet
  <2>5. proc'[p].step # "write_terminal" /\ CloseLast(proc'[p].todo)
    BY <2>1, <2>3
  <2>6. QED BY <2>1, <2>2, <2>4, <2>5, CloseKept DEF OrderInv
<1>8. out \in Seq(Tasks) /\ pushed[m] \in Seq(Tasks) /\ Flushed(m) \in Seq(Tasks)
  BY <1>1, TasksTyped, FlushedTasks
\* The output is as it was.
<1>10. ASSUME NEW s \in {"consume", "write_failed"}, NEW t \in {rest, <<>>},
              NEW c, c = <<>>, Becomes(p, s, t, out, c), seq' = seq
       PROVE  OrderKept
  <2>1. TasksOf(p)' = TasksOf(p)
    BY <1>1, <1>4, <1>10 DEF TasksOf, Becomes
  <2>2. proc'[p].step \in Locking
    BY <1>2, <1>10 DEF Becomes
  <2>3. InOrder' /\ EndIsLast'
    BY <1>1, <1>3, <1>10, <2>1, <2>2, EndlessOrder
  <2>4. QED BY <1>7, <1>10, <2>3 DEF OrderKept
<1>11. CASE Flush(m) /\ Becomes(p, "consume", rest, out \o Flushed(m), cl)
  <2>1. /\ proc'[p].out = out \o Flushed(m) /\ proc'[p].closing = <<>>
        /\ proc'[p].sess = m /\ proc'[p].step = "consume"
    BY <1>4, <1>11 DEF Becomes
  <2>2. TasksOf(p)' = TasksOf(p) \o Flushed(m)
    BY <1>1, <1>4, <1>8, <2>1, FlushedMoves
  <2>3. InOrder' /\ EndIsLast'
    BY <1>1, <1>2, <1>3, <1>11, <2>1, <2>2, EndlessOrder
  <2>4. QED BY <1>4, <1>7, <1>11, <2>3 DEF OrderKept
<1>12. CASE /\ Flush(m) /\ state' = [state EXCEPT ![m] = goal[m]]
            /\ e = "close"
            /\ Becomes(p, "write_terminal", rest, out, Flushed(m))
  <2>1. /\ proc'[p].out = out /\ proc'[p].closing = Flushed(m)
        /\ proc'[p].sess = m /\ proc'[p].step = "write_terminal" /\ proc'[p].todo = <<>>
    BY <1>5, <1>12 DEF Becomes
  <2>2. TasksOf(p)' = TasksOf(p) \o Flushed(m)
    BY <1>1, <1>4, <1>8, <2>1, FlushedMoves
  <2>3. InOrder' /\ EndIsLast'
    BY <1>1, <1>2, <1>3, <1>12, <2>1, <2>2, EndlessOrder
  <2>4. Over(proc[p].sess)'
    <3>1. ~words'[m]
      BY <1>1, <1>12, TasksTyped DEF Flush
    <3>2. state'[m] = goal[m] /\ goal[m] \in {"completed", "interrupted"}
      BY <1>1, <1>12, TasksTyped
    <3>3. QED BY <1>5, <1>6, <1>12, <2>1, <3>1, <3>2 DEF Over, Quiet, Active
  <2>5. Emptying(proc[p])'
    BY <2>1 DEF Emptying
  <2>6. CloseIsLast' /\ Emptied'
    BY <1>1, <2>1, <2>4, <2>5, NoClose, CloseKept DEF OrderInv
  <2>7. QED BY <2>3, <2>6 DEF OrderKept
<1>13. QED
  <2>1. TypeInv
    BY DEF OrderInv, LockInv, LocalInv
  <2>2. Becomes(p, "consume", rest, out, cl) /\ seq' = seq => OrderKept
    BY <1>4, <1>10
  <2>3. Becomes(p, "write_failed", rest, out, <<>>) /\ seq' = seq => OrderKept
    BY <1>10
  <2>4. Becomes(p, "write_failed", <<>>, out, <<>>) /\ seq' = seq => OrderKept
    BY <1>10
  <2>5. QED BY <1>11, <1>12, <2>1, <2>2, <2>3, <2>4, ConsumeEffect DEF e, rest

LEMMA WriteTerminalOrder ==
    ASSUME OrderInv, LocalInv', NEW p \in Procs, UsingMove(p), UsingStore(p),
           \A q \in Procs : q # p => proc'[q] = proc[q], WriteTerminal(p)
    PROVE  OrderKept
<1> DEFINE m   == proc[p].sess
           out == proc[p].out
           cl  == proc[p].closing
           end == [kind |-> goal[m], n |-> seq[m]]
<1>1. /\ proc[p].step = "write_terminal" /\ proc[p].step \in Locking
      /\ UNCHANGED <<pushed, conn, events, goal, seq>>
  BY DEF WriteTerminal, At, Locking, Collecting
<1>2. {"consume", "write_failed"} \subseteq Locking
  BY DEF Locking, Collecting
<1>3. m \in Meetings /\ ~HasEnd(TasksOf(p)) /\ Ordered(TasksOf(p), seq[m])
  BY <1>1, TasksTyped
<1>4. Over(m) /\ proc[p].todo = <<>>
  BY <1>1 DEF OrderInv, CloseIsLast
<1>5. \A n \in Meetings : Over(n) => Over(n)'
  BY <1>1, UsingStable DEF OrderInv, Speaks
<1>6. /\ out \in Seq(Tasks) /\ cl \in Seq(Tasks) /\ pushed[m] \in Seq(Tasks)
      /\ seq[m] \in Nat /\ end \in Tasks
  BY <1>1, TasksTyped DEF Tasks
<1>7. TasksOf(p) \in Seq(Tasks) /\ TasksOf(p) = pushed[m] \o (out \o cl)
  BY <1>6, ConcatProperties DEF TasksOf
<1>8. ASSUME NEW s \in {"consume", "write_failed"}, NEW o, Becomes(p, s, <<>>, o, <<>>)
      PROVE  CloseIsLast' /\ Emptied'
  <2>1. /\ proc'[p].step = s /\ proc'[p].todo = <<>> /\ proc'[p].closing = <<>>
    BY <1>8 DEF Becomes
  <2>2. Emptying(proc[p])'
    BY <2>1 DEF Emptying
  <2>3. QED BY <2>1, <2>2, NoClose, CloseKept DEF OrderInv
<1>9. CASE Becomes(p, "consume", proc[p].todo, out \o cl \o <<end>>, <<>>)
  <2>1. /\ proc'[p].out = out \o cl \o <<end>> /\ proc'[p].closing = <<>>
        /\ proc'[p].sess = m /\ proc'[p].step = "consume" /\ proc'[p].todo = <<>>
    BY <1>4, <1>9 DEF Becomes
  <2>2. TasksOf(p)' = TasksOf(p) \o <<end>>
    BY <1>1, <1>6, <2>1, EndMoves
  <2>3. Ordered(TasksOf(p), seq[proc[p].sess])'
    <3>1. goal[m] \in {"completed", "interrupted"}
      BY <1>1, TasksTyped
    <3>2. Ordered(TasksOf(p) \o <<end>>, seq[m])
      BY <1>3, <1>6, <1>7, <3>1, OrderedConcatEnd
    <3>3. QED BY <1>1, <2>1, <2>2, <3>2 DEF Ordered
  <2>4. Over(proc[p].sess)'
    BY <1>3, <1>4, <1>5, <2>1 DEF Over, Quiet, Active
  <2>5. InOrder' /\ EndIsLast'
    BY <1>1, <1>2, <1>5, <2>1, <2>3, <2>4, LockingOrder DEF OrderInv
  <2>6. CloseIsLast' /\ Emptied'
    <3> DEFINE o == out \o cl \o <<end>>
    <3>1. Becomes(p, "consume", <<>>, o, <<>>)
      BY <1>4, <1>9
    <3> HIDE DEF o
    <3>2. QED BY <1>8, <3>1
  <2>7. QED BY <2>5, <2>6 DEF OrderKept
<1>10. CASE Becomes(p, "write_failed", <<>>, out, <<>>)
  <2>1. /\ proc'[p].out = out /\ proc'[p].closing = <<>>
        /\ proc'[p].sess = m /\ proc'[p].step = "write_failed" /\ proc'[p].todo = <<>>
    BY <1>10 DEF Becomes
  <2>2. TasksOf(p)' = pushed[m] \o out
    <3>1. TasksOf(p)' = pushed[m] \o (out \o <<>>)
      BY <1>1, <2>1 DEF TasksOf
    <3>2. QED BY <1>6, <3>1, ConcatEmptySeq
  <2>3. /\ Ordered(pushed[m] \o out, seq[m])
        /\ HasEnd(pushed[m] \o out) => HasEnd(TasksOf(p))
    <3>1. pushed[m] \o out \in Seq(Tasks) /\ TasksOf(p) = (pushed[m] \o out) \o cl
      <4>1. (pushed[m] \o out) \o cl = pushed[m] \o (out \o cl)
        BY <1>6, TasksAssoc
      <4>2. QED BY <1>6, <1>7, <4>1, TasksConcat
    <3>2. QED BY <1>3, <1>6, <3>1, OrderedPrefix
  <2>4. Ordered(TasksOf(p), seq[proc[p].sess])' /\ ~HasEnd(TasksOf(p))'
    BY <1>1, <1>3, <2>1, <2>2, <2>3 DEF Ordered, HasEnd
  <2>5. InOrder' /\ EndIsLast'
    BY <1>1, <1>2, <1>5, <2>1, <2>4, LockingOrder DEF OrderInv
  <2>6. QED BY <1>8, <1>10, <2>5 DEF OrderKept
<1>11. QED
  <2>1. TypeInv
    BY DEF OrderInv, LockInv, LocalInv
  <2>2. QED BY <1>9, <1>10, <2>1, WriteTerminalEffect

\* A coroutine closes the open utterance and goes on to close the provider.
LEMMA FlushToClose ==
    ASSUME OrderInv, LocalInv', NEW p \in Procs, UsingMove(p), UsingStore(p),
           \A q \in Procs : q # p => proc'[q] = proc[q],
           proc[p].step \in Locking, proc[p].step # "write_terminal",
           Active(proc[p].sess), proc[p].todo = <<>>, pushed' = pushed,
           Flush(proc[p].sess),
           Becomes(p, "close", proc[p].todo, proc[p].out \o Flushed(proc[p].sess),
                   proc[p].closing)
    PROVE  OrderKept
<1> DEFINE m == proc[p].sess
           f == Flushed(m)
<1>1. /\ proc'[p].step = "close" /\ proc'[p].sess = m /\ proc'[p].todo = <<>>
      /\ proc'[p].out = proc[p].out \o f /\ proc'[p].closing = <<>>
      /\ proc[p].closing = <<>>
  BY DEF Becomes, OrderInv, Emptied, Emptying
<1>2. ~HasEnd(TasksOf(p)) /\ "close" \in Locking
  BY TasksTyped DEF Over, Locking, Collecting
<1>3. /\ pushed[m] \in Seq(Tasks) /\ proc[p].out \in Seq(Tasks) /\ f \in Seq(Tasks)
  BY TasksTyped, FlushedTasks
<1>4. TasksOf(p)' = TasksOf(p) \o f
  BY <1>1, <1>3, FlushedMoves
<1>5. InOrder' /\ EndIsLast'
  BY <1>1, <1>2, <1>4, EndlessOrder
<1>6. Emptying(proc[p])'
  BY <1>1 DEF Emptying
<1>7. CloseIsLast' /\ Emptied'
  BY <1>1, <1>6, NoClose, CloseKept DEF OrderInv
<1>8. QED BY <1>5, <1>7 DEF OrderKept

LEMMA ConsumedOrder ==
    ASSUME OrderInv, LocalInv', NEW p \in Procs, UsingMove(p), UsingStore(p),
           \A q \in Procs : q # p => proc'[q] = proc[q],
           Consumed(p) \/ Deadline(p)
    PROVE  OrderKept
<1> DEFINE m == proc[p].sess
<1>1. /\ TypeInv /\ pushed' = pushed /\ proc[p].step \in {"consume", "collected"}
      /\ proc[p].step \in Locking
  BY DEF OrderInv, LockInv, LocalInv, Consumed, Deadline, Draining, At, Locking, Collecting
<1>2. CASE Deadline(p)
  <2>1. /\ proc[p].step = "collected" /\ state[m] = "finalizing" /\ Flush(m)
        /\ Becomes(p, "close", proc[p].todo, Flushed(m), proc[p].closing)
    BY <1>1, <1>2, DeadlineEffect
  <2>2. proc[p].out = <<>> /\ proc[p].todo = <<>>
    BY <2>1 DEF OrderInv, Emptied, Emptying
  <2>3. proc[p].out \o Flushed(m) = Flushed(m)
    <3>1. Flushed(m) \in Seq(Tasks)
      BY <1>1, TasksTyped, FlushedTasks
    <3>2. QED BY <2>2, <3>1, ConcatEmptySeq
  <2>4. QED BY <1>1, <2>1, <2>2, <2>3, FlushToClose DEF Active
<1>3. CASE Consumed(p)
  <2>1. proc[p].step = "consume" /\ proc[p].todo = <<>>
    BY <1>3 DEF Consumed, At
  <2>2. CASE /\ Active(m) /\ Flush(m)
             /\ Becomes(p, "close", proc[p].todo, proc[p].out \o Flushed(m), proc[p].closing)
    BY <1>1, <2>1, <2>2, FlushToClose
  <2>3. CASE /\ UNCHANGED <<seq, words>>
             /\ \/ proc[p].out = <<>> /\ Same(p, "collected")
                \/ proc[p].out # <<>> /\ Same(p, "push")
    <3>1. Emptying(proc[p])'
      BY <2>1, <2>3 DEF Same, Becomes, OrderInv, Emptied, Emptying
    <3>2. ~Speaks(p)
      BY <2>1 DEF Speaks
    <3>3. KeepsTasks(p)
      BY <1>1, <2>3, <3>1, <3>2 DEF KeepsTasks, Same, Becomes
    <3>4. QED BY <3>3, KeepsTasksOrder DEF OrderKept
  <2>4. QED BY <1>1, <1>3, <2>2, <2>3, ConsumedEffect
<1>4. QED BY <1>2, <1>3

LEMMA CloseOrder ==
    ASSUME OrderInv, LocalInv', NEW p \in Procs, UsingMove(p), UsingStore(p),
           \A q \in Procs : q # p => proc'[q] = proc[q], Close(p)
    PROVE  OrderKept
<1> DEFINE m == proc[p].sess
           t == IF \A i \in DOMAIN events[m] : events[m][i] # "close"
                THEN Append(events[m], "close") ELSE events[m]
<1>1. /\ proc[p].step = "close" /\ proc[p].step \in Locking /\ "consume" \in Locking
      /\ UNCHANGED <<pushed, seq>> /\ TypeInv
  BY DEF Close, At, sessionVars, Locking, Collecting, OrderInv, LockInv, LocalInv
<1>2. /\ Becomes(p, "consume", t, proc[p].out, proc[p].closing)
      /\ events' = [events EXCEPT ![m] = <<>>] /\ Closed(m)
  BY <1>1, CloseEffect
<1>3. /\ m \in Meetings /\ ~HasEnd(TasksOf(p)) /\ events[m] \in Seq(ProviderEvents)
      /\ events \in [Meetings -> Seq(ProviderEvents)]
      /\ conn \in [Meetings -> {"none", "open", "gone", "closed"}]
  BY <1>1, TasksTyped
<1>4. CloseLast(t)
  <2>1. CASE HasClose(events[m])
    BY <1>3, <2>1 DEF HasClose, OrderInv, CloseIsLast
  <2>2. CASE ~HasClose(events[m])
    <3>1. t = Append(events[m], "close")
      BY <2>2 DEF HasClose
    <3>2. "close" \in ProviderEvents
      BY DEF ProviderEvents
    <3>3. QED BY <1>3, <2>2, <3>1, <3>2, CloseAppend
  <2>3. QED BY <2>1, <2>2
<1> HIDE DEF t
<1>5. /\ proc'[p].step = "consume" /\ proc'[p].sess = m /\ proc'[p].todo = t
      /\ proc'[p].out = proc[p].out /\ proc'[p].closing = proc[p].closing
      /\ proc[p].closing = <<>>
  BY <1>1, <1>2 DEF Becomes, OrderInv, Emptied, Emptying
<1>6. Quiet(proc[p].sess)'
  <2>1. conn[m] # "none"
    BY <1>1 DEF OrderInv, BeforeOpen, Collecting
  <2>2. conn'[m] = "closed" /\ events'[m] = <<>>
    BY <1>2, <1>3, <2>1 DEF Closed
  <2>3. QED BY <1>5, <2>2 DEF Quiet
<1>7. Emptying(proc[p])'
  BY <1>5 DEF Emptying
<1>8. CloseIsLast' /\ Emptied'
  BY <1>4, <1>5, <1>6, <1>7, CloseKept DEF OrderInv
<1>9. TasksOf(p)' = TasksOf(p)
  BY <1>1, <1>5 DEF TasksOf
<1>10. InOrder' /\ EndIsLast'
  BY <1>1, <1>3, <1>5, <1>9, EndlessOrder
<1>11. QED BY <1>8, <1>10 DEF OrderKept

LEMMA PushOrder ==
    ASSUME OrderInv, LocalInv', NEW p \in Procs, UsingMove(p), UsingStore(p),
           \A q \in Procs : q # p => proc'[q] = proc[q], Push(p)
    PROVE  OrderKept
<1> DEFINE m == proc[p].sess
           s == pushed[m]
           x == Head(proc[p].out)
           t == Tail(proc[p].out)
           k == IF Len(proc[p].out) = 1 THEN "collected" ELSE "push"
<1>1. /\ proc[p].step = "push" /\ proc[p].step \in Locking
      /\ {"collected", "push"} \subseteq Locking
      /\ UNCHANGED <<seq, words, state, conn, events>> /\ TypeInv
      /\ proc[p].out # <<>> /\ proc[p].todo = <<>> /\ proc[p].closing = <<>>
  BY DEF Push, At, sessionVars, Locking, Collecting, OrderInv, LockInv, LocalInv,
         PushHasOutput, Emptied, Emptying
<1>2. /\ m \in Meetings /\ s \in Seq(Tasks) /\ proc[p].out \in Seq(Tasks)
      /\ pushed \in [Meetings -> Seq(Tasks)]
      /\ seq[m] \in Nat /\ Ordered(TasksOf(p), seq[m])
  BY <1>1, TasksTyped
<1>3. Len(proc[p].out) = 1 => t = <<>>
  <2>1. t \in Seq(Tasks) /\ Len(t) = Len(proc[p].out) - 1 /\ Len(proc[p].out) \in Nat
    BY <1>1, <1>2, HeadTailProperties, LenProperties
  <2>2. Len(t) = 0 => t = <<>>
    BY <2>1, EmptySeq
  <2>3. QED BY <2>1, <2>2
<1>4. /\ Becomes(p, k, proc[p].todo, t, proc[p].closing)
      /\ \A n \in Meetings \ {m} : pushed'[n] = pushed[n]
  BY <1>1, <1>2, PushEffect
<1>5. /\ x \in Tasks /\ t \in Seq(Tasks) /\ TasksOf(p) = s \o (<<x>> \o t)
      /\ TasksOf(p)' = TasksOf(p) \/ TasksOf(p)' = s \o t
  BY PushMoves
<1> HIDE DEF t, x
<1>6. k \in {"collected", "push"} /\ (k = "collected" => t = <<>>)
  BY <1>3
<1> HIDE DEF k
<1>7. /\ proc'[p].step = k /\ proc'[p].sess = m /\ proc'[p].todo = <<>>
      /\ proc'[p].out = t /\ proc'[p].closing = <<>>
  BY <1>1, <1>4 DEF Becomes
<1>8. CloseIsLast' /\ Emptied'
  <2>1. Emptying(proc[p])'
    BY <1>6, <1>7 DEF Emptying
  <2>2. QED BY <1>6, <1>7, <2>1, NoClose, CloseKept DEF OrderInv
<1>9. Ordered(TasksOf(p)', seq[m]) /\ (HasEnd(TasksOf(p)') => HasEnd(TasksOf(p)))
  <2>1. Ordered(s \o (<<x>> \o t), seq[m]) /\ s \in Seq(Tasks) /\ seq[m] \in Nat
    BY <1>2, <1>5
  <2>2. Ordered(s \o t, seq[m]) /\ (HasEnd(s \o t) => HasEnd(s \o (<<x>> \o t)))
    BY <1>5, <2>1, OrderedDrop
  <2>3. QED BY <1>2, <1>5, <2>2
<1>10. Ordered(TasksOf(p), seq[proc[p].sess])'
  BY <1>1, <1>7, <1>9 DEF Ordered
<1>11. HasEnd(TasksOf(p))' => Over(proc[p].sess)'
  <2>1. HasEnd(TasksOf(p)) => Over(m)
    BY <1>1, TasksTyped
  <2>2. Over(m) => Over(proc[p].sess)'
    BY <1>1, <1>7 DEF Over, Quiet, Active
  <2>3. QED BY <1>9, <2>1, <2>2 DEF HasEnd
<1>12. \A n \in Meetings : seq'[n] = seq[n] /\ (Over(n) => Over(n)')
  BY <1>1 DEF Over, Quiet, Active
<1>13. InOrder' /\ EndIsLast'
  BY <1>1, <1>4, <1>6, <1>7, <1>10, <1>11, <1>12, LockingOrder DEF OrderInv
<1>14. QED BY <1>8, <1>13 DEF OrderKept

LEMMA UsingOrder ==
    ASSUME OrderInv, LocalInv', NEW p \in Procs, UsingStep(p),
           \A q \in Procs : q # p => proc'[q] = proc[q]
    PROVE  BeforeOpen' /\ OpensAlone' /\ OrderKept
<1>1. TypeInv /\ LockInv /\ BeforeOpen /\ OpensAlone
  BY DEF OrderInv, LockInv, LocalInv
<1>2. UsingMove(p) /\ UsingStore(p)
  BY <1>1, UsingMoves, UsingStores
<1>3. BeforeOpen' /\ OpensAlone'
  BY <1>1, <1>2, UsingKeepsOpening
<1>4. \/ Create(p) \/ Open(p) \/ StartFailed(p) \/ WriteFinalizing(p) \/ Send(p)
      \/ WriteFailed(p) \/ CloseFailed(p) \/ Leave(p) \/ Drain(p)
      \/ FailLive(p) \/ FailWrite(p) \/ FailClose(p)
      => OrderKept
  BY <1>2, QuietStepsKeep, KeepsTasksOrder DEF OrderKept
<1>5. Collect(p) \/ Consume(p) \/ WriteTerminal(p) => OrderKept
  BY <1>2, CollectOrder, ConsumeOrder, WriteTerminalOrder
<1>6. Consumed(p) \/ Deadline(p) \/ Close(p) \/ Push(p) => OrderKept
  BY <1>2, ConsumedOrder, CloseOrder, PushOrder
<1>7. OrderKept
  BY <1>4, <1>5, <1>6 DEF UsingStep, SessionStep
<1>8. QED BY <1>3, <1>7

LEMMA AsideOrder ==
    ASSUME OrderInv, Aside PROVE OrderKept
<1> USE DEF OrderInv
<1>1. Locking \subseteq Using /\ "write_terminal" \in Using
      /\ {"consume", "write_terminal", "write_failed", "close_failed", "close", "push"}
            \subseteq Using
  BY DEF Using, Locking, Collecting
<1>2. UNCHANGED <<state, pushed, seq, words, conn, events>>
  BY DEF Aside
<1>3. \A q \in Procs : \/ proc'[q] = proc[q]
                       \/ /\ proc'[q].step \notin Using
                          /\ proc'[q].todo = <<>> /\ proc'[q].out = <<>>
                          /\ proc'[q].closing = <<>>
  BY DEF Aside
<1>4. \A m \in Meetings : Over(m) => Over(m)'
  BY <1>2 DEF Over, Quiet, Active
<1>5. InOrder' /\ EndIsLast'
  BY <1>1, <1>2, <1>3, <1>4, OutsideOrder
<1>6. Emptied'
  BY <1>1, <1>3 DEF Emptied, Emptying
<1>7. (\A m \in Meetings :
          CloseLast(events[m]) /\ (HasClose(events[m]) => conn[m] \in {"gone", "closed"}))'
  BY <1>2 DEF CloseIsLast, CloseLast, HasClose
<1>8. (\A q \in Procs : CloseLast(proc[q].todo))'
  BY <1>3, NoClose DEF CloseIsLast, CloseLast
<1>9. ASSUME NEW q \in Procs, HasClose(proc'[q].todo) PROVE Quiet(proc[q].sess)'
  <2>1. proc'[q] = proc[q]
    BY <1>3, <1>9, NoClose
  <2>2. QED BY <1>2, <1>9, <2>1 DEF CloseIsLast, Quiet
<1>10. ASSUME NEW q \in Procs, proc'[q].step = "write_terminal"
       PROVE  Over(proc[q].sess)' /\ proc'[q].todo = <<>>
  <2>1. proc'[q] = proc[q]
    BY <1>1, <1>3, <1>10
  <2>2. Over(proc[q].sess) /\ proc'[q].todo = <<>>
    BY <1>10, <2>1 DEF CloseIsLast
  <2>3. QED BY <1>2, <2>1, <2>2 DEF Over, Quiet, Active
<1>11. CloseIsLast'
  BY <1>7, <1>8, <1>9, <1>10 DEF CloseIsLast, HasClose
<1>12. QED BY <1>5, <1>6, <1>11 DEF OrderKept

\* A coroutine takes up a session with nothing in its hands; what is over stays over.
LEMMA TakeUpOrder ==
    ASSUME OrderInv, LocalInv', NEW p \in Procs,
           \A q \in Procs : q # p => proc'[q] = proc[q],
           UNCHANGED <<pushed, seq, conn, events, words>>,
           proc'[p].todo = <<>>, proc'[p].out = <<>>, proc'[p].closing = <<>>,
           proc'[p].step \notin {"close", "write_terminal"},
           \A m \in Meetings : Over(m) => Over(m)'
    PROVE  OrderKept
<1> USE DEF OrderInv
<1>1. ASSUME NEW q \in Procs \ {p}, proc'[q].step \in Locking
      PROVE  /\ proc[q].step \in Locking /\ proc'[q] = proc[q] /\ proc[q].sess \in Meetings
             /\ TasksOf(q)' = TasksOf(q)
  BY <1>1 DEF TasksOf, LockInv, LocalInv, TypeInv, UsesSession, Using
<1>2. ASSUME proc'[p].step \in Locking
      PROVE  proc'[p].sess \in Meetings /\ TasksOf(p)' = pushed[proc'[p].sess]
  <2>1. proc'[p].sess \in Meetings
    BY <1>2 DEF LocalInv, TypeInv, UsesSession, Using
  <2>2. pushed[proc'[p].sess] \in Seq(Tasks)
    BY <2>1 DEF LockInv, LocalInv, TypeInv, StoreType
  <2>3. TasksOf(p)' = pushed[proc'[p].sess] \o (<<>> \o <<>>) /\ <<>> \o <<>> = <<>>
    <3>1. <<>> \in Seq(Tasks)
      OBVIOUS
    <3>2. <<>> \o <<>> = <<>>
      BY <3>1, TasksConcat
    <3>3. QED BY <3>2 DEF TasksOf
  <2>4. QED BY <2>1, <2>2, <2>3, TasksConcat
<1>3. Emptied'
  BY DEF Emptied, Emptying
<1>4. CloseIsLast'
  <2>1. (\A m \in Meetings :
          CloseLast(events[m]) /\ (HasClose(events[m]) => conn[m] \in {"gone", "closed"}))'
    BY DEF CloseIsLast, CloseLast, HasClose
  <2>2. (\A q \in Procs : CloseLast(proc[q].todo))'
    BY NoClose DEF CloseIsLast, CloseLast
  <2>3. ASSUME NEW q \in Procs, HasClose(proc'[q].todo) PROVE Quiet(proc[q].sess)'
    BY <2>3, NoClose DEF CloseIsLast, Quiet
  <2>4. ASSUME NEW q \in Procs, proc'[q].step = "write_terminal"
        PROVE  Over(proc[q].sess)' /\ proc'[q].todo = <<>>
    <3> DEFINE m == proc[q].sess
    <3>1. proc'[q] = proc[q] /\ q # p
      BY <2>4
    <3>2. Over(m) /\ proc'[q].todo = <<>> /\ m \in Meetings
      BY <2>4, <3>1 DEF CloseIsLast, LockInv, LocalInv, TypeInv, UsesSession, Using,
                        Locking, Collecting
    <3>3. /\ conn'[m] \in {"gone", "closed"} /\ events'[m] = <<>> /\ ~words'[m]
          /\ state'[m] \notin {"streaming", "finalizing"}
      BY <3>2 DEF Over, Quiet, Active
    <3>4. QED BY <3>1, <3>2, <3>3 DEF Over, Quiet, Active
  <2>5. QED BY <2>1, <2>2, <2>3, <2>4 DEF CloseIsLast, HasClose
<1>5. (\A m \in Meetings : Ordered(pushed[m], seq[m]))'
  BY DEF InOrder, Ordered
<1>6. ASSUME NEW q \in Procs, proc'[q].step \in Locking
      PROVE  Ordered(TasksOf(q), seq[proc[q].sess])'
  <2>1. CASE q = p
    <3>1. Ordered(TasksOf(p)', seq[proc'[p].sess])
      BY <1>2, <1>6, <2>1 DEF InOrder
    <3>2. QED BY <2>1, <3>1 DEF Ordered
  <2>2. CASE q # p
    <3>1. Ordered(TasksOf(q)', seq[proc'[q].sess])
      BY <1>1, <1>6, <2>2 DEF InOrder
    <3>2. QED BY <3>1 DEF Ordered
  <2>3. QED BY <2>1, <2>2
<1>7. (\A m \in Meetings : HasEnd(pushed[m]) => Over(m))'
  BY DEF EndIsLast, HasEnd
<1>8. ASSUME NEW q \in Procs, proc'[q].step \in Locking, HasEnd(TasksOf(q))'
      PROVE  /\ Over(proc[q].sess)' /\ proc'[q].todo = <<>>
             /\ proc'[q].step \notin {"close", "write_terminal"}
  <2> DEFINE m == proc'[q].sess
  <2>1. m \in Meetings /\ Over(m)
        /\ proc'[q].todo = <<>> /\ proc'[q].step \notin {"close", "write_terminal"}
    <3>1. CASE q = p
      BY <1>2, <1>8, <3>1 DEF EndIsLast, HasEnd
    <3>2. CASE q # p
      BY <1>1, <1>8, <3>2 DEF EndIsLast, HasEnd
    <3>3. QED BY <3>1, <3>2
  <2>2. /\ conn'[m] \in {"gone", "closed"} /\ events'[m] = <<>> /\ ~words'[m]
        /\ state'[m] \notin {"streaming", "finalizing"}
    BY <2>1 DEF Over, Quiet, Active
  <2>3. QED BY <2>1, <2>2 DEF Over, Quiet, Active
<1>9. InOrder'
  BY <1>5, <1>6 DEF InOrder
<1>10. EndIsLast'
  BY <1>7, <1>8 DEF EndIsLast
<1>11. QED BY <1>3, <1>4, <1>9, <1>10 DEF OrderKept

LEMMA MemberOrder ==
    ASSUME OrderInv, LockInv', NEW p \in Procs, Member(p)
    PROVE  BeforeOpen' /\ OpensAlone' /\ OrderKept
<1>1. /\ proc[p].step = "member" /\ ~InUse
      /\ UNCHANGED <<pushed, seq, conn, events, words>>
      /\ proc \in [Procs -> Locals] /\ state \in [Meetings -> Status]
  BY DEF Member, At, OrderInv, LockInv, OneStart, LocalInv, TypeInv, StoreType
<1>2. PICK m \in Meetings : /\ state[m] = "none"
                            /\ state' = [state EXCEPT ![m] = "streaming"]
                            /\ proc' = [proc EXCEPT ![p].step = "create", ![p].sess = m]
  BY <1>1 DEF Member
<1>3. /\ proc'[p].step = "create" /\ \A q \in Procs : q # p => proc'[q] = proc[q]
      /\ proc'[p].todo = <<>> /\ proc'[p].out = <<>> /\ proc'[p].closing = <<>>
  BY <1>1, <1>2 DEF Locals, OrderInv, Emptied, Emptying
<1>4. conn[m] = "none"
  BY <1>2 DEF OrderInv, BeforeOpen
<1>5. ASSUME NEW n \in Meetings, Over(n) PROVE Over(n)'
  <2>1. n # m
    BY <1>4, <1>5 DEF Over, Quiet
  <2>2. state'[n] = state[n]
    BY <1>1, <1>2, <2>1
  <2>3. QED BY <1>1, <1>5, <2>2 DEF Over, Quiet, Active
<1>6. OrderKept
  BY <1>1, <1>3, <1>5, TakeUpOrder DEF LockInv
<1>7. BeforeOpen' /\ OpensAlone'
  BY MemberKeepsBefore DEF OrderInv
<1>8. QED BY <1>6, <1>7

LEMMA AcquireOrder ==
    ASSUME OrderInv, LockInv', NEW p \in Procs, Acquire(p)
    PROVE  BeforeOpen' /\ OpensAlone' /\ OrderKept
<1>1. /\ UNCHANGED <<pushed, seq, conn, events, words>>
      /\ state \in [Meetings -> Status]
  BY DEF Acquire, OrderInv, LockInv, LocalInv, TypeInv, StoreType
<1>2. /\ proc[p].step \in {"enter", "wait"}
      /\ proc'[p].out = proc[p].out /\ proc'[p].closing = proc[p].closing
      /\ proc'[p].todo = proc[p].todo
      /\ proc'[p].step \in {"send", "collect", "finalize", "write_finalizing"}
      /\ \/ state' = state
         \/ InUse /\ state' = [state EXCEPT ![registry] = "finalizing"]
      /\ \A q \in Procs : q # p => proc'[q] = proc[q]
      /\ registry \in Meetings
  BY AcquireEffect DEF OrderInv
<1>3. proc[p].todo = <<>> /\ proc[p].out = <<>> /\ proc[p].closing = <<>>
  BY <1>2 DEF OrderInv, Emptied, Emptying
<1>4. ASSUME NEW n \in Meetings, Over(n) PROVE Over(n)'
  <2>1. state'[n] = state[n]
    BY <1>1, <1>2, <1>4 DEF InUse, Over
  <2>2. QED BY <1>1, <1>4, <2>1 DEF Over, Quiet, Active
<1>5. OrderKept
  BY <1>1, <1>2, <1>3, <1>4, TakeUpOrder DEF LockInv
<1>6. BeforeOpen' /\ OpensAlone'
  BY AcquireKeepsBefore DEF OrderInv
<1>7. QED BY <1>5, <1>6

LEMMA ProviderOrder ==
    ASSUME OrderInv, NEW m \in Meetings, NEW e \in ProviderEvents, Provider(m, e)
    PROVE  BeforeOpen' /\ OpensAlone' /\ OrderKept
<1> USE DEF OrderInv
<1>1. /\ UNCHANGED <<pushed, seq, words, state, proc>> /\ conn[m] = "open"
      /\ events' = [events EXCEPT ![m] = Append(@, e)]
      /\ IF e = "close" THEN conn' = [conn EXCEPT ![m] = "gone"] ELSE conn' = conn
      /\ conn \in [Meetings -> {"none", "open", "gone", "closed"}]
      /\ events \in [Meetings -> Seq(ProviderEvents)]
  BY DEF Provider, sessionVars, LockInv, LocalInv, TypeInv, StoreType
<1>2. \A n \in Meetings : n # m => conn'[n] = conn[n] /\ events'[n] = events[n]
  BY <1>1
<1>3. \A n \in Meetings : Quiet(n) => n # m /\ Quiet(n)'
  BY <1>1, <1>2 DEF Quiet
<1>4. \A n \in Meetings : Over(n) => Over(n)'
  BY <1>1, <1>3 DEF Over, Active
<1>5. InOrder' /\ EndIsLast'
  BY <1>1, <1>4, OutsideOrder
<1>6. Emptied'
  BY <1>1 DEF Emptied, Emptying
<1>7. ASSUME NEW n \in Meetings
      PROVE  CloseLast(events'[n]) /\ (HasClose(events'[n]) => conn'[n] \in {"gone", "closed"})
  <2>1. CASE n = m
    <3>1. ~HasClose(events[m]) /\ events[m] \in Seq(ProviderEvents)
      BY <1>1 DEF CloseIsLast
    <3>2. events'[m] = Append(events[m], e)
      BY <1>1
    <3>3. CloseLast(events'[m]) /\ (e # "close" => ~HasClose(events'[m]))
      BY <3>1, <3>2, CloseAppend
    <3>4. e = "close" => conn'[m] = "gone"
      BY <1>1
    <3>5. QED BY <2>1, <3>3, <3>4
  <2>2. CASE n # m
    BY <1>2, <2>2 DEF CloseIsLast
  <2>3. QED BY <2>1, <2>2
<1>8. ASSUME NEW q \in Procs, HasClose(proc[q].todo) PROVE Quiet(proc[q].sess)'
  <2>1. Quiet(proc[q].sess) /\ proc[q].todo # <<>>
    BY <1>8, NoClose DEF CloseIsLast
  <2>2. proc[q].sess \in Meetings
    BY <2>1 DEF Emptied, Emptying, LockInv, LocalInv, TypeInv, UsesSession, Using,
                Locking, Collecting
  <2>3. PICK n \in Meetings : n = proc[q].sess
    BY <2>2
  <2>4. Quiet(n)'
    BY <1>3, <2>1, <2>3
  <2>5. QED BY <1>1, <2>3, <2>4 DEF Quiet
<1>9. ASSUME NEW q \in Procs, proc[q].step = "write_terminal" PROVE Over(proc[q].sess)'
  <2>1. Over(proc[q].sess) /\ proc[q].sess \in Meetings
    BY <1>9 DEF CloseIsLast, LockInv, LocalInv, TypeInv, UsesSession, Using,
                Locking, Collecting
  <2>2. PICK n \in Meetings : n = proc[q].sess
    BY <2>1
  <2>3. Over(n)'
    BY <1>4, <2>1, <2>2
  <2>4. QED BY <1>1, <2>2, <2>3 DEF Over, Quiet, Active
<1>10. CloseIsLast'
  <2>1. (\A n \in Meetings :
          CloseLast(events[n]) /\ (HasClose(events[n]) => conn[n] \in {"gone", "closed"}))'
    BY <1>7 DEF CloseLast, HasClose
  <2>2. QED BY <1>1, <1>8, <1>9, <2>1 DEF CloseIsLast, CloseLast, HasClose
<1>11. BeforeOpen' /\ OpensAlone'
  BY ProviderKeepsBefore
<1>12. QED BY <1>5, <1>6, <1>10, <1>11 DEF OrderKept

LEMMA InitOrderInv == Init => OrderInv
<1> SUFFICES ASSUME Init PROVE OrderInv
  OBVIOUS
<1>1. LockInv
  BY InitLockInv
<1>2. \A p \in Procs : /\ proc[p].step = "idle" /\ proc[p].todo = <<>>
                       /\ proc[p].out = <<>> /\ proc[p].closing = <<>>
  BY IdleFields DEF Init
<1>3. "idle" \notin Using /\ "idle" \notin Opening /\ Locking \subseteq Using
      /\ Collecting \cup {"keepalive"} \subseteq Using /\ {"create", "open"} \subseteq Using
  BY DEF Using, Locking, Collecting, Failing, Opening
<1>4. BeforeOpen /\ OpensAlone
  BY <1>2, <1>3, SessionAssumption DEF Init, BeforeOpen, OpensAlone
<1>5. CloseIsLast
  BY <1>2, NoClose DEF Init, CloseIsLast
<1>6. Emptied
  BY <1>2 DEF Emptied, Emptying
<1>7. InOrder /\ EndIsLast
  BY <1>2, <1>3, EmptyOrdered DEF Init, InOrder, EndIsLast
<1>8. QED BY <1>1, <1>4, <1>5, <1>6, <1>7 DEF OrderInv

LEMMA StepOrderInv ==
    ASSUME "start" \notin Overlapping PROVE OrderInv /\ [Next]_vars => OrderInv'
<1> SUFFICES ASSUME OrderInv, [Next]_vars PROVE OrderInv'
  OBVIOUS
<1> DEFINE Keeps == BeforeOpen' /\ OpensAlone' /\ OrderKept
<1>1. LockInv' /\ LocalInv' /\ TypeInv
  BY StepLockInv DEF OrderInv, LockInv, LocalInv
<1>2. ASSUME NEW p \in Procs, UsingStep(p) PROVE Keeps
  BY <1>1, <1>2, UsingOrder, OthersKeep DEF UsingStep, OwnStep
<1>3. ASSUME Aside, OpensAlone' PROVE Keeps
  BY <1>3, AsideOrder, AsideKeepsBefore DEF OrderInv
<1>4. ASSUME UNCHANGED vars PROVE Keeps
  <2>1. Aside
    BY <1>4 DEF vars, sessionVars, Aside
  <2>2. OpensAlone'
    BY <1>4 DEF vars, OrderInv, OpensAlone
  <2>3. QED BY <1>3, <2>1, <2>2
<1>5. ASSUME Next PROVE Keeps
  <2>1. \A h \in Handlers : h \in Procs
    BY ProcsAre
  <2>2. CASE \E h \in Handlers : StartRequest(h)
    BY <1>3, <2>1, <2>2, StartAside DEF OrderInv
  <2>3. CASE \E h \in Handlers, op \in {"audio", "finish", "disconnect"} : Request(h, op)
    BY <1>3, <2>1, <2>3, RequestAside DEF OrderInv
  <2>4. CASE \E p \in Procs : Refuse(p) \/ Acquire(p) \/ SessionStep(p)
    <3>1. PICK p \in Procs : Refuse(p) \/ Acquire(p) \/ SessionStep(p)
      BY <2>4
    <3>2. CASE Refuse(p)
      BY <1>3, <3>2, RefuseAside DEF OrderInv
    <3>3. CASE Acquire(p)
      BY <1>1, <3>3, AcquireOrder
    <3>4. CASE Member(p)
      BY <1>1, <3>4, MemberOrder
    <3>5. CASE Emitted(p)
      BY <1>3, <3>5, EmittedAside DEF OrderInv
    <3>6. QED BY <1>2, <3>1, <3>2, <3>3, <3>4, <3>5 DEF UsingStep
  <2>5. CASE Listen
    BY <1>3, <2>5, EmittedAside, ProcsAre DEF OrderInv
  <2>6. CASE \E m \in Meetings, e \in ProviderEvents : Provider(m, e)
    BY <2>6, ProviderOrder
  <2>7. QED BY <1>5, <2>2, <2>3, <2>4, <2>5, <2>6 DEF Next
<1>6. Keeps
  BY <1>4, <1>5
<1>7. QED BY <1>1, <1>6 DEF OrderInv, OrderKept

\* The queue gets the note tasks of a session in the order of their sequences and the
\* end of the session after all of them, however many events, failures and requests
\* there are, as long as a start waits for what the socket did before.
THEOREM TasksInOrderCorrect ==
    ASSUME "start" \notin Overlapping PROVE Spec => []TasksInOrder
<1>1. OrderInv => TasksInOrder
  <2> SUFFICES ASSUME OrderInv, NEW m \in Meetings,
                      NEW i \in DOMAIN pushed[m], NEW j \in DOMAIN pushed[m], i < j
               PROVE  /\ pushed[m][i].kind = "utterance"
                      /\ \/ pushed[m][i].n < pushed[m][j].n
                         \/ /\ pushed[m][j].kind # "utterance"
                            /\ pushed[m][i].n <= pushed[m][j].n
    BY DEF TasksInOrder
  <2>1. Ordered(pushed[m], seq[m])
    BY DEF OrderInv, InOrder
  <2>2. QED BY <2>1 DEF Ordered, IsEnd
<1>2. QED BY <1>1, InitOrderInv, StepOrderInv, PTL DEF Spec
-----------------------------------------------------------------------------
(* The end of a session counts all its utterances.                          *)

\* Who ends a session and is about to cancel the listener left no session behind;
\* nobody is about to while a start waits for its membership check.
EndsLeaveNone ==
    /\ \A p \in Procs : proc[p].step = "emit" /\ proc[p].op \in {"finish", "disconnect"}
          => registry = None
    /\ \A p \in Procs : proc[p].step \in Locking /\ proc[p].op \in {"finish", "disconnect"}
          => state[proc[p].sess] # "streaming"
    /\ \A p, q \in Procs : proc[p].step = "member" /\ q # p =>
          /\ proc[q].step # "idle" => proc[q].op # "disconnect"
          /\ proc[q].step = "emit" => proc[q].op # "finish"
    /\ \A p \in Procs : proc[p].step \in Opening => proc[p].op = "start"

\* As many tasks as the last sequence says, and the end.
Counted(s, b) == Len(s) = IF HasEnd(s) THEN b + 1 ELSE b
Unserved(m)   == \A p \in Procs : proc[p].step \in Locking => proc[p].sess # m

AllCounted ==
    /\ \A m \in Meetings : state[m] = "none" => pushed[m] = <<>> /\ seq[m] = 0
    /\ \A p \in Procs : proc[p].step \in Locking /\ proc[p].sess \notin lost =>
          Counted(TasksOf(p), seq[proc[p].sess])
    /\ \A m \in Meetings \ lost : Unserved(m) /\ registry = m => Counted(pushed[m], seq[m])
    /\ \A m \in Meetings \ lost : HasEnd(pushed[m]) => Counted(pushed[m], seq[m])

CountInv == OrderInv /\ EndsLeaveNone /\ AllCounted


\* Who emits after it worked on a session started it, left its lock or failed.
LEMMA EmitsFrom ==
    ASSUME TypeInv, NEW p \in Procs, UsingStep(p), proc'[p].step = "emit",
           proc[p].step \notin Opening
    PROVE  Leave(p) \/ FailClose(p)
<1>1. ASSUME NEW s, Goto(p, s) PROVE proc'[p].step = s
  BY <1>1, GotoBecomes DEF Same, Becomes
<1>2. Stop(p) => proc'[p].step = "idle"
  BY StopEffect, IdleFields
<1>3. ~Create(p) /\ ~Open(p) /\ ~StartFailed(p)
  BY DEF Create, Open, StartFailed, At, Opening
<1>4. ~WriteFinalizing(p) /\ ~Send(p) /\ ~CloseFailed(p) /\ ~FailLive(p) /\ ~FailWrite(p)
  BY <1>1, <1>2 DEF WriteFinalizing, Send, CloseFailed, FailLive, FailWrite
<1>5. ~Collect(p)
  BY CollectEffect DEF Same, Becomes
<1>6. ~Consume(p)
  BY ConsumeEffect DEF Becomes
<1>7. ~WriteTerminal(p)
  BY WriteTerminalEffect DEF Becomes
<1>8. ~WriteFailed(p)
  BY WriteFailedEffect, IdleFields DEF Same, Becomes
<1>9. ~Consumed(p)
  BY ConsumedEffect DEF Same, Becomes
<1>10. ~Close(p)
  BY CloseEffect DEF Becomes
<1>11. ~Push(p)
  <2> DEFINE s == IF Len(proc[p].out) = 1 THEN "collected" ELSE "push"
  <2>1. Push(p) => proc'[p].step = s
    BY PushEffect DEF Becomes
  <2>2. s # "emit"
    OBVIOUS
  <2> HIDE DEF s
  <2>3. QED BY <2>1, <2>2
<1>12. ~Drain(p) /\ ~Deadline(p)
  BY DrainEffect DEF Same, Becomes
<1>13. QED BY <1>3, <1>4, <1>5, <1>6, <1>7, <1>8, <1>9, <1>10, <1>11, <1>12
          DEF UsingStep, SessionStep

\* What a step that works on a session does to the requests that end one.
LEMMA UsingKeepsEnds ==
    ASSUME CountInv, NEW p \in Procs, UsingStep(p),
           \A q \in Procs : q # p => proc'[q] = proc[q]
    PROVE  EndsLeaveNone'
<1>1. /\ TypeInv /\ LockInv /\ EndsLeaveNone /\ BeforeOpen /\ OneStart
      /\ state \in [Meetings -> Status]
  BY DEF CountInv, OrderInv, LockInv, LocalInv, TypeInv, StoreType
<1>2. UsingMove(p) /\ UsingStore(p)
  BY <1>1, UsingMoves, UsingStores
<1>3. \A s \in Using : s \notin {"member", "idle", "enter", "wait", "emit"}
  BY DEF Using, Locking, Failing, Collecting
<1>4. (\A q \in Procs : proc'[q].step # "member") /\ proc[p].step # "member"
  <2>1. proc[p].step \notin {"idle", "enter", "emit", "member"}
    BY <1>2, <1>3 DEF UsingMove
  <2>2. \A q \in Procs : proc[q].step # "member"
    BY <1>1, <2>1 DEF OneStart
  <2>3. QED BY <1>2, <2>1, <2>2 DEF UsingStore
<1>5. proc'[p].step = "emit" /\ proc'[p].op \in {"finish", "disconnect"} => registry' = None
  <2> SUFFICES ASSUME proc'[p].step = "emit", proc'[p].op \in {"finish", "disconnect"}
               PROVE  registry' = None
    OBVIOUS
  <2>1. proc[p].op = proc'[p].op /\ proc[p].step \notin Opening
    <3>1. proc[p].op = proc'[p].op
      BY <1>2 DEF UsingStore
    <3>2. QED BY <1>1, <3>1 DEF EndsLeaveNone
  <2>2. Leave(p) \/ FailClose(p)
    BY <1>1, <2>1, EmitsFrom
  <2>3. CASE FailClose(p)
    BY <2>3 DEF FailClose
  <2>4. CASE Leave(p)
    <3>1. proc[p].step = "collected" /\ "collected" \in Locking /\ proc[p].sess \in Meetings
      BY <1>1, <2>4 DEF Leave, At, Locking, Collecting, TypeInv, UsesSession, Using
    <3>2. ~Active(proc[p].sess)
      BY <1>1, <2>1, <2>4, <3>1 DEF Leave, Draining, EndsLeaveNone, Active
    <3>3. QED BY <2>4, <3>2 DEF Leave, DiscardIfOver
  <2>5. QED BY <2>2, <2>3, <2>4
<1>6. \A q \in Procs : proc[q].step = "emit" /\ proc[q].op \in {"finish", "disconnect"} =>
          registry' = None
  BY <1>1, <1>2 DEF EndsLeaveNone, UsingMove
<1>7. \A q \in Procs : proc'[q].step \in Locking =>
          proc[q].step \in Locking /\ proc'[q].sess = proc[q].sess
          /\ proc'[q].op = proc[q].op /\ proc[q].sess \in Meetings
  <2>1. proc'[p].step \in Locking =>
          proc[p].step \in Locking /\ proc'[p].sess = proc[p].sess /\ proc'[p].op = proc[p].op
    BY <1>2, <1>3 DEF UsingMove, UsingStore, Using
  <2>2. QED BY <1>1, <2>1 DEF TypeInv, UsesSession, Using
<1>8. \A m \in Meetings : state[m] # "streaming" => state'[m] # "streaming"
  BY <1>1, <1>2 DEF UsingStore, Ends, Terminal
<1>9. \A q \in Procs : proc'[q].step \in Opening => proc[q].step \in Opening
          /\ proc'[q].op = proc[q].op
  BY <1>2 DEF UsingMove, UsingStore, Opening
<1>10. (\A q \in Procs : proc[q].step = "emit" /\ proc[q].op \in {"finish", "disconnect"}
          => registry = None)'
  BY <1>5, <1>6
<1>11. (\A q \in Procs : proc[q].step \in Locking /\ proc[q].op \in {"finish", "disconnect"} =>
          state[proc[q].sess] # "streaming")'
  BY <1>1, <1>7, <1>8 DEF EndsLeaveNone
<1>12. (\A q \in Procs : proc[q].step \in Opening => proc[q].op = "start")'
  BY <1>1, <1>9 DEF EndsLeaveNone
<1>13. QED BY <1>4, <1>10, <1>11, <1>12 DEF EndsLeaveNone

\* The other steps and the requests that end a session.
LEMMA AsideKeepsEnds ==
    ASSUME CountInv, {"start", "disconnect"} \cap Overlapping = {}, NEW p \in Procs,
           \/ StartRequest(p)
           \/ \E op \in {"audio", "finish", "disconnect"} : Request(p, op)
           \/ Refuse(p) \/ Emitted(p) \/ (p = Listener /\ Listen)
    PROVE  EndsLeaveNone'
<1>1. /\ TypeInv /\ LockInv /\ EndsLeaveNone /\ OneStart /\ Emptied /\ OpensAlone
      /\ proc \in [Procs -> Locals]
  BY DEF CountInv, OrderInv, LockInv, LocalInv, TypeInv
<1>2. Aside
  BY <1>1, StartAside, RequestAside, RefuseAside, EmittedAside
<1>3. Locking \subseteq Using /\ Opening \ {"member"} \subseteq Using
      /\ "idle" \notin Opening
  BY DEF Using, Opening
<1>4. (\A q \in Procs : proc[q].step \in Locking /\ proc[q].op \in {"finish", "disconnect"} =>
          state[proc[q].sess] # "streaming")'
  BY <1>1, <1>2, <1>3 DEF Aside, EndsLeaveNone
\* What each of them leaves.
<1>5. CASE StartRequest(p)
  <2>1. /\ p # Listener /\ \A q \in Procs : proc[q].step = "idle"
        /\ proc' = [proc EXCEPT ![p].step = "member", ![p].op = "start"]
    BY <1>5 DEF StartRequest
  <2>2. /\ proc'[p].step = "member" /\ proc'[p].op = "start"
        /\ \A q \in Procs \ {p} : proc'[q] = proc[q] /\ proc[q].step = "idle"
    BY <1>1, <2>1 DEF Locals
  <2>3. QED BY <1>3, <1>4, <2>1, <2>2 DEF EndsLeaveNone
<1>6. ASSUME NEW op \in {"audio", "finish", "disconnect"}, Request(p, op)
      PROVE  EndsLeaveNone'
  <2>1. /\ proc[p].step = "idle" /\ p # Listener /\ registry' = registry
        /\ op = "disconnect" => \A h \in Handlers : proc[h].step \notin Opening
    BY <1>6 DEF Request, At
  <2>2. \/ proc' = [proc EXCEPT ![p].step = Entry(registry), ![p].op = op, ![p].key = registry]
        \/ /\ proc' = [proc EXCEPT ![p].step = "emit", ![p].op = op]
           /\ registry = None /\ op = "disconnect"
    BY <1>6 DEF Request
  <2>3. Entry(registry) \in {"enter", "wait"}
    BY DEF Entry
  <2>4. /\ proc'[p].op = op
        /\ \/ proc'[p].step \in {"enter", "wait"}
           \/ proc'[p].step = "emit" /\ registry = None /\ op = "disconnect"
        /\ \A q \in Procs \ {p} : proc'[q] = proc[q]
    BY <1>1, <2>2, <2>3 DEF Locals
  <2>5. proc'[p].step \notin Opening
    BY <2>4 DEF Opening
  <2>6. op = "disconnect" => \A q \in Procs : proc[q].step \notin Opening
    BY <1>1, <2>1 DEF OpensAlone, Procs, OneStart
  <2>7. "member" \in Opening
    BY DEF Opening
  <2>8. QED BY <1>1, <1>4, <2>1, <2>4, <2>5, <2>6, <2>7 DEF EndsLeaveNone
<1>7. CASE Refuse(p)
  <2>1. /\ proc[p].step \in {"enter", "wait"}
        /\ \/ proc[p].op = "disconnect" /\ registry' = None /\ Goto(p, "emit")
           \/ registry' = registry /\ Stop(p)
    BY <1>7 DEF Refuse, Turn, At
  <2>2. \A q \in Procs \ {p} : proc'[q] = proc[q]
    BY <1>1, <1>7, OthersKeep DEF OwnStep
  <2>3. \/ proc[p].op = "disconnect" /\ registry' = None /\ proc'[p].step = "emit"
           /\ proc'[p].op = proc[p].op
        \/ registry' = registry /\ proc'[p].step = "idle" /\ proc'[p].op = "none"
    BY <1>1, <2>1, GotoBecomes, StopEffect, IdleFields DEF Same, Becomes
  <2>4. proc'[p].step \notin Opening /\ "member" \in Opening
    BY <2>3 DEF Opening
  <2>5. QED BY <1>1, <1>4, <2>1, <2>2, <2>3, <2>4 DEF EndsLeaveNone
<1>8. CASE Emitted(p) \/ (p = Listener /\ Listen)
  <2>1. registry' = registry
    BY <1>8 DEF Emitted, Listen
  <2>2. \A q \in Procs : \/ proc'[q] = proc[q] \/ proc'[q] = Idle
                         \/ proc'[q].op = "listen" /\ proc'[q].step \in {"emit", "enter", "wait"}
    BY <1>1, <1>8, EmittedEffect DEF Restarts
  <2>3. \A q \in Procs : \/ proc'[q] = proc[q]
                         \/ /\ proc'[q].op \in {"none", "listen"}
                            /\ proc'[q].step \notin Opening \cup {"member"}
    BY <2>2, IdleFields DEF Opening
  <2>4. QED BY <1>1, <1>4, <2>1, <2>3 DEF EndsLeaveNone, Opening
<1>9. QED BY <1>5, <1>6, <1>7, <1>8

LEMMA TakingKeepsEnds ==
    ASSUME CountInv, "start" \notin Overlapping, NEW p \in Procs, Member(p) \/ Acquire(p)
    PROVE  EndsLeaveNone'
<1>1. /\ TypeInv /\ LockInv /\ EndsLeaveNone /\ OneStart
      /\ proc \in [Procs -> Locals] /\ state \in [Meetings -> Status]
      /\ UsesSession
  BY DEF CountInv, OrderInv, LockInv, LocalInv, TypeInv, StoreType
<1>2. CASE Member(p)
  <2>1. proc[p].step = "member" /\ ~InUse
    BY <1>1, <1>2 DEF Member, At, OneStart
  <2>2. PICK m \in Meetings : /\ state[m] = "none" /\ registry' = m
                              /\ state' = [state EXCEPT ![m] = "streaming"]
                              /\ proc' = [proc EXCEPT ![p].step = "create", ![p].sess = m]
    BY <1>2, <2>1 DEF Member
  <2>3. /\ proc'[p].step = "create" /\ proc'[p].op = proc[p].op /\ proc[p].op = "start"
        /\ \A q \in Procs \ {p} : proc'[q] = proc[q]
    BY <1>1, <2>1, <2>2 DEF Locals, EndsLeaveNone, Opening
  <2>4. \A q \in Procs \ {p} : /\ proc[q].step \notin Locking \cup Opening
                               /\ proc[q].step \in {"idle", "enter", "emit"}
    BY <1>1, <2>1 DEF OneStart, Locking, Collecting, Opening
  <2>5. "create" \notin Locking /\ "idle" # "emit"
    BY DEF Locking, Collecting
  <2>6. QED BY <1>1, <2>1, <2>3, <2>4, <2>5 DEF EndsLeaveNone, Opening
<1>3. CASE Acquire(p)
  <2>1. /\ proc'[p].op = proc[p].op /\ proc[p].op # "start"
        /\ proc'[p].step \in {"send", "collect", "finalize", "write_finalizing"}
        /\ proc[p].op \in {"finish", "disconnect"} =>
              state' = [state EXCEPT ![registry] = "finalizing"]
        /\ state' = state \/ state' = [state EXCEPT ![registry] = "finalizing"]
        /\ registry \in Meetings /\ proc'[p].sess = registry /\ registry' = registry
        /\ \A q \in Procs \ {p} : proc'[q] = proc[q] /\ proc[q].step # "member"
    BY <1>1, <1>3, AcquireEffect DEF Acquire
  <2>2. \A q \in Procs : proc'[q].step # "member"
    BY <2>1
  <2>3. (\A q \in Procs : proc[q].step \in Opening => proc[q].op = "start")'
    BY <1>1, <2>1 DEF EndsLeaveNone, Opening
  <2>4. (\A q \in Procs : proc[q].step \in Locking /\ proc[q].op \in {"finish", "disconnect"} =>
          state[proc[q].sess] # "streaming")'
    <3>1. ASSUME NEW q \in Procs \ {p}, proc[q].step \in Locking,
                 state[proc[q].sess] # "streaming"
          PROVE  state'[proc[q].sess] # "streaming"
      <4>1. proc[q].sess \in Meetings
        BY <1>1, <3>1 DEF UsesSession, Using
      <4>2. QED BY <1>1, <2>1, <3>1, <4>1
    <3>2. proc[p].op \in {"finish", "disconnect"} => state'[registry] # "streaming"
      BY <1>1, <2>1
    <3>3. QED BY <1>1, <2>1, <3>1, <3>2 DEF EndsLeaveNone
  <2>5. (\A q \in Procs : proc[q].step = "emit" /\ proc[q].op \in {"finish", "disconnect"}
          => registry = None)'
    BY <1>1, <2>1 DEF EndsLeaveNone
  <2>6. QED BY <2>2, <2>3, <2>4, <2>5 DEF EndsLeaveNone
<1>4. QED BY <1>2, <1>3

\* Steps that neither push tasks nor close an utterance: who goes on working keeps
\* its tasks, who begins has none and finds the session unserved, who stops has none
\* left, has lost them or leaves no session behind.
LEMMA FrameCount ==
    ASSUME CountInv, UNCHANGED <<pushed, seq>>, lost \subseteq lost',
           \A m \in Meetings : state'[m] = "none" => state[m] = "none",
           \A m \in Meetings : registry' = m => registry = m \/ state[m] = "none",
           \A q \in Procs : proc'[q].step \in Locking =>
              \/ /\ proc[q].step \in Locking /\ proc'[q].sess = proc[q].sess
                 /\ proc'[q].out = proc[q].out /\ proc'[q].closing = proc[q].closing
              \/ /\ proc'[q].out = <<>> /\ proc'[q].closing = <<>>
                 /\ proc'[q].sess \in Meetings /\ registry = proc'[q].sess
                 /\ Unserved(registry),
           \A q \in Procs : proc[q].step \in Locking /\ proc'[q].step \notin Locking =>
              \/ proc[q].out = <<>> /\ proc[q].closing = <<>>
              \/ proc[q].sess \in lost' \/ registry' = None
    PROVE  AllCounted'
<1>1. /\ AllCounted /\ pushed \in [Meetings -> Seq(Tasks)] /\ UsesSession
      /\ None \notin Meetings
  BY SessionAssumption DEF CountInv, OrderInv, LockInv, LocalInv, TypeInv, StoreType
<1>2. (\A m \in Meetings : state[m] = "none" => pushed[m] = <<>> /\ seq[m] = 0)'
  BY <1>1 DEF AllCounted
<1>3. ASSUME NEW q \in Procs, proc'[q].step \in Locking, proc'[q].sess \notin lost'
      PROVE  Counted(TasksOf(q), seq[proc[q].sess])'
  <2>1. CASE /\ proc[q].step \in Locking /\ proc'[q].sess = proc[q].sess
             /\ proc'[q].out = proc[q].out /\ proc'[q].closing = proc[q].closing
    <3>1. TasksOf(q)' = TasksOf(q)
      BY <2>1 DEF TasksOf
    <3>2. Counted(TasksOf(q), seq[proc[q].sess])
      BY <1>1, <1>3, <2>1 DEF AllCounted
    <3>3. QED BY <2>1, <3>1, <3>2 DEF Counted, HasEnd
  <2>2. CASE /\ proc'[q].out = <<>> /\ proc'[q].closing = <<>>
             /\ proc'[q].sess \in Meetings /\ registry = proc'[q].sess /\ Unserved(registry)
    <3> DEFINE m == proc'[q].sess
    <3>1. Counted(pushed[m], seq[m])
      BY <1>1, <1>3, <2>2 DEF AllCounted
    <3>2. TasksOf(q)' = pushed[m] \o (<<>> \o <<>>)
      BY <2>2 DEF TasksOf
    <3>3. pushed[m] \in Seq(Tasks) /\ <<>> \in Seq(Tasks)
      BY <1>1, <2>2
    <3>4. TasksOf(q)' = pushed[m]
      BY <3>2, <3>3, TasksConcat
    <3>5. QED BY <3>1, <3>4 DEF Counted, HasEnd
  <2>3. QED BY <1>3, <2>1, <2>2
<1>4. ASSUME NEW m \in Meetings \ lost', Unserved(m)', registry' = m
      PROVE  Counted(pushed[m], seq[m])
  <2>1. CASE state[m] = "none"
    <3>1. pushed[m] = <<>> /\ seq[m] = 0
      BY <1>1, <2>1 DEF AllCounted
    <3>2. Len(pushed[m]) = 0 /\ ~HasEnd(pushed[m])
      BY <3>1 DEF HasEnd
    <3>3. QED BY <3>1, <3>2 DEF Counted
  <2>2. CASE registry = m /\ Unserved(m)
    BY <1>1, <1>4, <2>2 DEF AllCounted
  <2>3. CASE registry = m /\ ~Unserved(m)
    <3>1. PICK q \in Procs : proc[q].step \in Locking /\ proc[q].sess = m
      BY <2>3 DEF Unserved
    <3>2. proc'[q].step \notin Locking
      <4>1. ASSUME proc'[q].step \in Locking PROVE proc'[q].sess = m
        BY <2>3, <3>1, <4>1
      <4>2. QED BY <1>4, <4>1 DEF Unserved
    <3>3. proc[q].out = <<>> /\ proc[q].closing = <<>>
      BY <1>1, <1>4, <3>1, <3>2
    <3>4. TasksOf(q) = pushed[m] \o (<<>> \o <<>>)
      BY <3>1, <3>3 DEF TasksOf
    <3>5. pushed[m] \in Seq(Tasks) /\ <<>> \in Seq(Tasks)
      BY <1>1
    <3>6. TasksOf(q) = pushed[m]
      BY <3>4, <3>5, TasksConcat
    <3>7. Counted(TasksOf(q), seq[m])
      BY <1>1, <1>4, <3>1 DEF AllCounted
    <3>8. QED BY <3>6, <3>7
  <2>4. QED BY <1>4, <2>1, <2>2, <2>3
<1>5. (\A m \in Meetings \ lost : Unserved(m) /\ registry = m => Counted(pushed[m], seq[m]))'
  BY <1>4 DEF Counted, HasEnd
<1>6. (\A m \in Meetings \ lost : HasEnd(pushed[m]) => Counted(pushed[m], seq[m]))'
  BY <1>1 DEF AllCounted, Counted, HasEnd
<1>7. QED BY <1>2, <1>3, <1>5, <1>6 DEF AllCounted

\* After an end there are no tasks.
LEMMA EndIsAll ==
    ASSUME NEW s \in Seq(Tasks), NEW t \in Seq(Tasks), NEW b \in Nat, Ordered(s \o t, b),
           HasEnd(s)
    PROVE  s \o t = s
<1> DEFINE c == s \o t
<1>1. /\ Len(s) \in Nat /\ Len(t) \in Nat /\ DOMAIN s = 1 .. Len(s)
      /\ DOMAIN c = 1 .. Len(s) + Len(t)
      /\ \A i \in 1 .. Len(s) : c[i] = s[i]
  BY LenProperties, ConcatProperties
<1>2. PICK i \in 1 .. Len(s) : IsEnd(s[i])
  BY <1>1 DEF HasEnd
<1> HIDE DEF c
<1>3. \A j \in DOMAIN c : ~(i < j)
  BY <1>1, <1>2 DEF Ordered, c
<1>4. Len(t) = 0
  BY <1>1, <1>2, <1>3
<1>5. t = <<>>
  BY <1>4, EmptySeq
<1>6. QED BY <1>5, ConcatEmptySeq

\* Steps under the lock count the tasks of their session.
LEMMA LockingCount ==
    ASSUME CountInv, OrderInv', NEW p \in Procs,
           \A q \in Procs : q # p => proc'[q] = proc[q],
           proc[p].step \in Locking, proc'[p].step \in Locking,
           proc'[p].sess = proc[p].sess, lost \subseteq lost',
           registry' \in {registry, None},
           \A m \in Meetings : state'[m] = "none" => state[m] = "none",
           \A n \in Meetings \ {proc[p].sess} : pushed'[n] = pushed[n] /\ seq'[n] = seq[n],
           proc[p].sess \notin lost' => Counted(TasksOf(p), seq[proc[p].sess])'
    PROVE  AllCounted'
<1> DEFINE m == proc[p].sess
<1>1. /\ AllCounted /\ BeforeOpen /\ UsesSession /\ LockMatches /\ None \notin Meetings
      /\ m \in Meetings /\ Locking \subseteq Using
  BY SessionAssumption
     DEF CountInv, OrderInv, LockInv, LocalInv, TypeInv, StoreType, UsesSession, Using
<1>2. (\A n \in Meetings : state[n] = "none" => pushed[n] = <<>> /\ seq[n] = 0)'
  BY <1>1 DEF AllCounted, BeforeOpen
<1>3. ASSUME NEW q \in Procs, proc'[q].step \in Locking, proc'[q].sess \notin lost'
      PROVE  Counted(TasksOf(q), seq[proc[q].sess])'
  <2>1. CASE q = p
    BY <1>3, <2>1
  <2>2. CASE q # p
    <3>1. /\ proc[q].step \in Locking /\ proc'[q] = proc[q]
          /\ proc[q].sess \in Meetings \ {m}
      BY <1>1, <1>3, <2>2 DEF LockMatches, UsesSession
    <3>2. TasksOf(q)' = TasksOf(q) /\ seq'[proc'[q].sess] = seq[proc[q].sess]
      BY <3>1 DEF TasksOf
    <3>3. Counted(TasksOf(q), seq[proc[q].sess])
      BY <1>1, <1>3, <3>1 DEF AllCounted
    <3>4. QED BY <3>2, <3>3 DEF Counted, HasEnd
  <2>3. QED BY <2>1, <2>2
<1>4. ASSUME NEW n \in Meetings \ lost', Unserved(n)', registry' = n
      PROVE  Counted(pushed'[n], seq'[n])
  <2>1. n # m
    BY <1>4 DEF Unserved
  <2>2. registry = n
    BY <1>1, <1>4
  <2>3. ASSUME NEW q \in Procs, proc[q].step \in Locking PROVE proc[q].sess # n
    BY <1>4, <2>1, <2>3 DEF Unserved
  <2>4. Counted(pushed[n], seq[n])
    BY <1>1, <1>4, <2>2, <2>3 DEF AllCounted, Unserved
  <2>5. QED BY <2>1, <2>4
<1>5. ASSUME NEW n \in Meetings \ lost', HasEnd(pushed'[n])
      PROVE  Counted(pushed'[n], seq'[n])
  <2>1. CASE n # m
    BY <1>1, <1>5, <2>1 DEF AllCounted
  <2>2. CASE n = m
    <3> DEFINE s == pushed'[m]
               t == proc'[p].out \o proc'[p].closing
    <3>1. /\ s \in Seq(Tasks) /\ proc'[p].out \in Seq(Tasks)
          /\ proc'[p].closing \in Seq(Tasks) /\ seq'[m] \in Nat
      BY <1>1 DEF OrderInv, LockInv, LocalInv, TypeInv, StoreType, Locals
    <3>2. t \in Seq(Tasks)
      BY <3>1, TasksConcat
    <3>3. TasksOf(p)' = s \o t
      BY DEF TasksOf
    <3>4. Ordered(s \o t, seq'[m])
      <4>1. Ordered(TasksOf(p), seq[proc[p].sess])'
        BY DEF OrderInv, InOrder
      <4>2. QED BY <3>3, <4>1 DEF Ordered
    <3> HIDE DEF s, t
    <3>5. HasEnd(s)
      BY <1>5, <2>2 DEF s
    <3>6. s \o t = s
      BY <3>1, <3>2, <3>4, <3>5, EndIsAll DEF s
    <3>7. Counted(TasksOf(p)', seq'[m])
      BY <1>5, <2>2 DEF Counted, HasEnd
    <3>8. QED BY <2>2, <3>3, <3>6, <3>7 DEF s
  <2>3. QED BY <2>1, <2>2
<1>6. (\A n \in Meetings \ lost : Unserved(n) /\ registry = n => Counted(pushed[n], seq[n]))'
  BY <1>4 DEF Counted, HasEnd
<1>7. (\A n \in Meetings \ lost : HasEnd(pushed[n]) => Counted(pushed[n], seq[n]))'
  BY <1>5 DEF Counted, HasEnd
<1>8. QED BY <1>2, <1>3, <1>6, <1>7 DEF AllCounted

\* What follows the tasks of a session is counted.
LEMMA CountedMore ==
    ASSUME NEW m \in Meetings, seq \in [Meetings -> Nat], NEW s \in Seq(Tasks),
           Ordered(s, seq[m]), ~HasEnd(s), Counted(s, seq[m])
    PROVE  /\ Flush(m) => Counted(s \o Flushed(m), seq'[m])
           /\ \A e \in Tasks : IsEnd(e) => Counted(s \o <<e>>, seq[m])
<1>1. Len(s) = seq[m] /\ seq[m] \in Nat
  BY DEF Counted
<1>2. ASSUME Flush(m) PROVE Counted(s \o Flushed(m), seq'[m])
  <2>1. ~HasEnd(s \o Flushed(m))
    BY <1>2, FlushOrdered
  <2>2. Flushed(m) \in Seq(Tasks)
    BY <1>1, FlushedTasks
  <2>3. seq'[m] = seq[m] + Len(Flushed(m))
    BY <1>2 DEF Flush
  <2> DEFINE f == Flushed(m)
  <2> HIDE DEF f
  <2>4. Len(s \o f) = Len(s) + Len(f)
    BY <2>2, ConcatProperties DEF f
  <2>5. QED BY <1>1, <2>1, <2>3, <2>4 DEF Counted, f
<1>3. ASSUME NEW e \in Tasks, IsEnd(e) PROVE Counted(s \o <<e>>, seq[m])
  <2>1. Len(s \o <<e>>) = Len(s) + 1 /\ (s \o <<e>>)[Len(s) + 1] = e
    OBVIOUS
  <2>2. HasEnd(s \o <<e>>)
    <3>1. Len(s) + 1 \in DOMAIN (s \o <<e>>)
      OBVIOUS
    <3>2. QED BY <1>3, <2>1, <3>1 DEF HasEnd
  <2>3. QED BY <1>1, <2>1, <2>2 DEF Counted
<1>4. QED BY <1>2, <1>3

\* A step that works on a session loses no more than it says.
LEMMA LostGrows ==
    ASSUME TypeInv, NEW p \in Procs, UsingStep(p) PROVE lost \subseteq lost'
<1>1. Create(p) \/ Open(p) \/ WriteFinalizing(p) \/ Send(p) \/ Collect(p) \/ Consume(p)
         => lost \subseteq lost'
  BY DEF Create, Open, WriteFinalizing, Send, Collect, Consume
<1>2. StartFailed(p) \/ WriteTerminal(p) \/ WriteFailed(p) \/ Push(p) \/ FailWrite(p)
         => lost \subseteq lost'
  BY DEF StartFailed, WriteTerminal, WriteFailed, Push, FailWrite
<1>3. CloseFailed(p) \/ Consumed(p) \/ Close(p) \/ Drain(p) \/ Deadline(p) \/ Leave(p)
         \/ FailLive(p) \/ FailClose(p)
         => lost \subseteq lost'
  BY DEF CloseFailed, Consumed, Close, Drain, Deadline, Leave, FailLive, FailClose
<1>4. QED BY <1>1, <1>2, <1>3 DEF UsingStep, SessionStep

\* A step under the lock that leaves the tasks, adds to them or loses some.
LEMMA GrowCount ==
    ASSUME CountInv, OrderInv', NEW p \in Procs, UsingStep(p),
           \A q \in Procs : q # p => proc'[q] = proc[q],
           proc[p].step \in Locking, proc'[p].step \in Locking,
           \A n \in Meetings \ {proc[p].sess} : pushed'[n] = pushed[n],
           \/ TasksOf(p)' = TasksOf(p) /\ seq' = seq
           \/ /\ ~HasEnd(TasksOf(p)) /\ Flush(proc[p].sess)
              /\ TasksOf(p)' = TasksOf(p) \o Flushed(proc[p].sess)
           \/ /\ ~HasEnd(TasksOf(p)) /\ seq' = seq
              /\ \E e \in Tasks : IsEnd(e) /\ TasksOf(p)' = TasksOf(p) \o <<e>>
           \/ proc[p].sess \in lost' /\ seq' = seq
    PROVE  AllCounted'
<1> DEFINE m == proc[p].sess
<1>1. /\ TypeInv /\ OrderInv /\ LockInv /\ BeforeOpen /\ AllCounted
      /\ state \in [Meetings -> Status]
  BY DEF CountInv, OrderInv, LockInv, LocalInv, TypeInv, StoreType
<1>2. UsingMove(p) /\ UsingStore(p) /\ lost \subseteq lost'
  BY <1>1, UsingMoves, UsingStores, LostGrows
<1>3. m \in Meetings /\ proc'[p].sess = m /\ registry' \in {registry, None}
  BY <1>1, <1>2 DEF UsingMove, TypeInv, UsesSession, Using
<1>4. \A n \in Meetings : state'[n] = "none" => state[n] = "none"
  BY <1>1, <1>2 DEF UsingStore, Ends, Terminal
<1>5. /\ TasksOf(p) \in Seq(Tasks) /\ seq \in [Meetings -> Nat] /\ Ordered(TasksOf(p), seq[m])
  <2>1. /\ pushed[m] \in Seq(Tasks) /\ proc[p].out \in Seq(Tasks)
        /\ proc[p].closing \in Seq(Tasks) /\ seq \in [Meetings -> Nat]
        /\ Ordered(TasksOf(p), seq[m])
    BY <1>1, TasksTyped
  <2>2. QED BY <2>1, TasksConcat DEF TasksOf
<1>6. m \notin lost' => Counted(TasksOf(p), seq[m])
  BY <1>1, <1>2 DEF AllCounted
<1>7. m \notin lost' => Counted(TasksOf(p)', seq'[m])
  BY <1>3, <1>5, <1>6, CountedMore
<1>8. m \notin lost' => Counted(TasksOf(p), seq[proc[p].sess])'
  BY <1>3, <1>7 DEF Counted, HasEnd
<1>9. \A n \in Meetings \ {m} : seq'[n] = seq[n]
  BY <1>3, <1>5 DEF Flush
<1>10. QED BY <1>2, <1>3, <1>4, <1>8, <1>9, LockingCount

\* A step that does not touch what its coroutine has.
LEMMA KeepsCount ==
    ASSUME CountInv, NEW p \in Procs, UsingStep(p), KeepsTasks(p),
           \A q \in Procs : q # p => proc'[q] = proc[q],
           proc[p].step \in Locking /\ proc'[p].step \notin Locking =>
              \/ proc[p].out = <<>> /\ proc[p].closing = <<>>
              \/ proc[p].sess \in lost'
    PROVE  AllCounted'
<1>1. /\ TypeInv /\ UsingMove(p) /\ UsingStore(p) /\ lost \subseteq lost'
      /\ state \in [Meetings -> Status] /\ None \notin Meetings
  BY UsingMoves, UsingStores, LostGrows, SessionAssumption
     DEF CountInv, OrderInv, LockInv, LocalInv, TypeInv, StoreType
<1>2. \A n \in Meetings : state'[n] = "none" => state[n] = "none"
  BY <1>1 DEF UsingStore, Ends, Terminal
<1>3. \A n \in Meetings : registry' = n => registry = n
  BY <1>1 DEF UsingMove
<1>4. proc'[p].step \in Locking =>
          /\ proc[p].step \in Locking /\ proc'[p].sess = proc[p].sess
          /\ proc'[p].out = proc[p].out /\ proc'[p].closing = proc[p].closing
  <2>1. "idle" \notin Locking
    BY DEF Locking, Collecting
  <2>2. QED BY <2>1, IdleFields DEF KeepsTasks
<1>5. \A q \in Procs : proc'[q].step \in Locking =>
          /\ proc[q].step \in Locking /\ proc'[q].sess = proc[q].sess
          /\ proc'[q].out = proc[q].out /\ proc'[q].closing = proc[q].closing
  BY <1>4
<1>6. \A q \in Procs : proc[q].step \in Locking /\ proc'[q].step \notin Locking =>
          \/ proc[q].out = <<>> /\ proc[q].closing = <<>>
          \/ proc[q].sess \in lost'
  OBVIOUS
<1>7. UNCHANGED <<pushed, seq>>
  BY DEF KeepsTasks
<1>8. QED BY <1>1, <1>2, <1>3, <1>5, <1>6, <1>7, FrameCount

LEMMA QuietCount ==
    ASSUME CountInv, NEW p \in Procs, UsingStep(p),
           \A q \in Procs : q # p => proc'[q] = proc[q],
           \/ Create(p) \/ Open(p) \/ StartFailed(p) \/ WriteFinalizing(p) \/ Send(p)
           \/ WriteFailed(p) \/ CloseFailed(p) \/ Leave(p) \/ Drain(p)
           \/ FailLive(p) \/ FailWrite(p) \/ FailClose(p)
    PROVE  AllCounted'
<1>1. OrderInv /\ TypeInv /\ KeepsTasks(p) /\ Emptied
  BY QuietStepsKeep DEF CountInv, OrderInv, LockInv, LocalInv
<1>2. proc[p].step \notin {"consume", "write_terminal", "write_failed", "close_failed",
                           "close", "push"}
         => proc[p].out = <<>> /\ proc[p].closing = <<>>
  BY <1>1 DEF Emptied, Emptying
<1>3. CASE WriteFailed(p)
  <2>1. \/ Same(p, "close_failed")
        \/ Becomes(p, "write_failed", <<>>, proc[p].out, proc[p].closing)
        \/ lost' = lost \cup {proc[p].sess}
    BY <1>1, <1>3, WriteFailedEffect
  <2>2. proc'[p].step \in Locking \/ proc[p].sess \in lost'
    BY <2>1 DEF Same, Becomes, Locking, Collecting
  <2>3. QED BY <1>1, <2>2, KeepsCount
<1>4. CASE CloseFailed(p)
  <2>1. Same(p, "consume")
    BY <1>1, <1>4, GotoBecomes DEF CloseFailed
  <2>2. proc'[p].step \in Locking
    BY <2>1 DEF Same, Becomes, Locking, Collecting
  <2>3. QED BY <1>1, <2>2, KeepsCount
<1>5. CASE ~WriteFailed(p) /\ ~CloseFailed(p)
  <2>1. proc[p].step \notin {"consume", "write_terminal", "write_failed", "close_failed",
                             "close", "push"}
    BY <1>5 DEF Create, Open, StartFailed, WriteFinalizing, Send, Leave, Drain, Draining,
                FailLive, FailWrite, FailClose, At
  <2>2. QED BY <1>1, <1>2, <2>1, KeepsCount
<1>6. QED BY <1>3, <1>4, <1>5

LEMMA ConsumeCount ==
    ASSUME CountInv, OrderInv', NEW p \in Procs, UsingStep(p),
           \A q \in Procs : q # p => proc'[q] = proc[q], Collect(p) \/ Consume(p) \/ Close(p)
    PROVE  AllCounted'
<1> DEFINE m == proc[p].sess
<1>1. OrderInv /\ TypeInv /\ pushed' = pushed /\ proc[p].step \in Locking
      /\ proc[p].step \in {"collect", "next_event", "consume", "close"}
  BY DEF CountInv, OrderInv, LockInv, LocalInv, Collect, Consume, Close, At, Locking,
         Collecting
<1>2. proc[p].closing = <<>>
  BY <1>1 DEF OrderInv, Emptied, Emptying
<1>3. {"consume", "write_terminal", "write_failed", "next_event", "collected", "keepalive"}
         \subseteq Locking
  BY DEF Locking, Collecting
<1>4. ASSUME NEW s \in {"consume", "write_failed", "next_event", "collected", "keepalive"},
             NEW t, NEW c, c = <<>>, Becomes(p, s, t, proc[p].out, c), seq' = seq
      PROVE  AllCounted'
  <2>1. /\ proc'[p].out = proc[p].out /\ proc'[p].closing = proc[p].closing
        /\ proc'[p].sess = m /\ proc'[p].step \in Locking
    BY <1>2, <1>3, <1>4 DEF Becomes
  <2>2. TasksOf(p)' = TasksOf(p)
    BY <1>1, <2>1 DEF TasksOf
  <2>3. QED BY <1>1, <1>4, <2>1, <2>2, GrowCount
<1>5. CASE Collect(p)
  <2>1. \/ \E t : Becomes(p, "consume", t, proc[p].out, proc[p].closing)
        \/ Same(p, "next_event") \/ Same(p, "collected") \/ Same(p, "keepalive")
    BY <1>1, <1>5, CollectEffect
  <2>2. seq' = seq
    BY <1>5 DEF Collect, sessionVars
  <2>3. QED BY <1>2, <1>4, <2>1, <2>2 DEF Same
<1>6. CASE Close(p)
  <2>1. \E t : Becomes(p, "consume", t, proc[p].out, proc[p].closing)
    BY <1>1, <1>6, CloseEffect
  <2>2. seq' = seq
    BY <1>6 DEF Close, sessionVars
  <2>3. QED BY <1>2, <1>4, <2>1, <2>2
<1>7. CASE Consume(p)
  <2> DEFINE f == Flushed(m)
  <2>1. proc[p].step = "consume" /\ proc[p].todo # <<>>
    BY <1>7 DEF Consume, At
  <2>2. ~HasEnd(TasksOf(p)) /\ f \in Seq(Tasks)
    BY <1>1, <2>1, TasksTyped, FlushedTasks
  <2>3. \/ /\ seq' = seq
           /\ \E t : \/ Becomes(p, "consume", t, proc[p].out, proc[p].closing)
                     \/ Becomes(p, "write_failed", t, proc[p].out, <<>>)
        \/ /\ Flush(m)
           /\ \E t : \/ Becomes(p, "consume", t, proc[p].out \o f, proc[p].closing)
                     \/ Becomes(p, "write_terminal", t, proc[p].out, f)
    BY <1>1, <1>7, ConsumeEffect
  <2> HIDE DEF f
  <2>4. CASE /\ Flush(m)
             /\ \E t : \/ Becomes(p, "consume", t, proc[p].out \o f, proc[p].closing)
                       \/ Becomes(p, "write_terminal", t, proc[p].out, f)
    <3>1. /\ proc'[p].step \in Locking /\ proc'[p].sess = m
          /\ \/ proc'[p].out = proc[p].out \o f /\ proc'[p].closing = <<>>
             \/ proc'[p].out = proc[p].out /\ proc'[p].closing = f
      BY <1>2, <1>3, <2>4 DEF Becomes
    <3>2. TasksOf(p)' = TasksOf(p) \o f
      BY <1>1, <1>2, <2>2, <3>1, FlushedMoves
    <3>3. QED BY <1>1, <2>2, <2>4, <3>1, <3>2, GrowCount DEF f
  <2>5. QED BY <1>2, <1>4, <2>3, <2>4
<1>8. QED BY <1>5, <1>6, <1>7

LEMMA WriteTerminalCount ==
    ASSUME CountInv, OrderInv', NEW p \in Procs, UsingStep(p),
           \A q \in Procs : q # p => proc'[q] = proc[q], WriteTerminal(p)
    PROVE  AllCounted'
<1> DEFINE m   == proc[p].sess
           end == [kind |-> goal[m], n |-> seq[m]]
<1>1. /\ OrderInv /\ TypeInv /\ UNCHANGED <<pushed, seq>> /\ proc[p].step \in Locking
      /\ proc[p].step = "write_terminal" /\ {"consume", "write_failed"} \subseteq Locking
  BY DEF CountInv, OrderInv, LockInv, LocalInv, WriteTerminal, At, Locking, Collecting
<1>2. ~HasEnd(TasksOf(p)) /\ end \in Tasks /\ IsEnd(end)
  BY <1>1, TasksTyped DEF Tasks, IsEnd
<1>3. \/ Becomes(p, "consume", proc[p].todo, (proc[p].out \o proc[p].closing) \o <<end>>, <<>>)
      \/ /\ Becomes(p, "write_failed", <<>>, proc[p].out, <<>>)
         /\ lost' = lost \cup {m}
  BY <1>1, WriteTerminalEffect
<1> HIDE DEF end
<1>4. CASE Becomes(p, "consume", proc[p].todo, (proc[p].out \o proc[p].closing) \o <<end>>, <<>>)
  <2>1. TasksOf(p)' = TasksOf(p) \o <<end>>
    BY <1>1, <1>2, <1>4, EndMoves DEF Becomes
  <2>2. proc'[p].step \in Locking
    BY <1>1, <1>4 DEF Becomes
  <2>3. QED BY <1>1, <1>2, <2>1, <2>2, GrowCount
<1>5. CASE /\ Becomes(p, "write_failed", <<>>, proc[p].out, <<>>)
           /\ lost' = lost \cup {m}
  <2>1. m \in lost' /\ proc'[p].step \in Locking
    BY <1>1, <1>5 DEF Becomes
  <2>2. QED BY <1>1, <2>1, GrowCount
<1>6. QED BY <1>3, <1>4, <1>5

LEMMA ConsumedCount ==
    ASSUME CountInv, OrderInv', NEW p \in Procs, UsingStep(p),
           \A q \in Procs : q # p => proc'[q] = proc[q], Consumed(p) \/ Deadline(p)
    PROVE  AllCounted'
<1> DEFINE m == proc[p].sess
           f == Flushed(m)
<1>1. /\ OrderInv /\ TypeInv /\ pushed' = pushed /\ proc[p].step \in Locking
      /\ proc[p].step \in {"consume", "collected"}
      /\ {"close", "push", "collected"} \subseteq Locking
  BY DEF CountInv, OrderInv, LockInv, LocalInv, Consumed, Deadline, Draining, At, Locking,
         Collecting
<1>2. proc[p].closing = <<>> /\ f \in Seq(Tasks)
      /\ (proc[p].step = "collected" => proc[p].out = <<>>)
  BY <1>1, TasksTyped, FlushedTasks DEF OrderInv, Emptied, Emptying
<1>3. <<>> \o f = f
  BY <1>2, ConcatEmptySeq
<1>4. \/ /\ Active(m) /\ Flush(m)
         /\ Becomes(p, "close", proc[p].todo, proc[p].out \o f, proc[p].closing)
      \/ seq' = seq /\ (Same(p, "collected") \/ Same(p, "push"))
  <2>1. Deadline(p) => /\ Active(m) /\ Flush(m)
                       /\ Becomes(p, "close", proc[p].todo, proc[p].out \o f, proc[p].closing)
    <3>1. Deadline(p) => /\ proc[p].step = "collected" /\ state[m] = "finalizing" /\ Flush(m)
                         /\ Becomes(p, "close", proc[p].todo, f, proc[p].closing)
      BY <1>1, DeadlineEffect
    <3> HIDE DEF f
    <3>2. QED BY <1>2, <1>3, <3>1 DEF Active
  <2>2. QED BY <1>1, <2>1, ConsumedEffect
<1> HIDE DEF f
<1>5. CASE /\ Active(m) /\ Flush(m)
           /\ Becomes(p, "close", proc[p].todo, proc[p].out \o f, proc[p].closing)
  <2>1. ~HasEnd(TasksOf(p))
    BY <1>1, <1>5, TasksTyped DEF Over
  <2>2. TasksOf(p)' = TasksOf(p) \o f
    BY <1>1, <1>2, <1>5, FlushedMoves DEF Becomes
  <2>3. proc'[p].step \in Locking
    BY <1>1, <1>5 DEF Becomes
  <2>4. QED BY <1>1, <1>5, <2>1, <2>2, <2>3, GrowCount DEF f
<1>6. CASE seq' = seq /\ (Same(p, "collected") \/ Same(p, "push"))
  <2>1. TasksOf(p)' = TasksOf(p) /\ proc'[p].step \in Locking
    BY <1>1, <1>6 DEF Same, Becomes, TasksOf
  <2>2. QED BY <1>1, <1>6, <2>1, GrowCount
<1>7. QED BY <1>4, <1>5, <1>6

LEMMA PushCount ==
    ASSUME CountInv, OrderInv', NEW p \in Procs, UsingStep(p),
           \A q \in Procs : q # p => proc'[q] = proc[q], Push(p)
    PROVE  AllCounted'
<1> DEFINE m == proc[p].sess
           k == IF Len(proc[p].out) = 1 THEN "collected" ELSE "push"
<1>1. /\ OrderInv /\ TypeInv /\ seq' = seq /\ proc[p].step \in Locking
      /\ pushed \in [Meetings -> Seq(Tasks)]
  BY DEF CountInv, OrderInv, LockInv, LocalInv, TypeInv, StoreType, Push, At, sessionVars,
         Locking, Collecting
<1>2. proc'[p].step = k /\ \A n \in Meetings \ {m} : pushed'[n] = pushed[n]
  BY <1>1, PushEffect DEF Becomes
<1>3. k \in Locking
  BY DEF Locking, Collecting
<1> HIDE DEF k
<1>4. TasksOf(p)' = TasksOf(p) \/ m \in lost'
  BY <1>1, PushMoves
<1>5. QED BY <1>1, <1>2, <1>3, <1>4, GrowCount

\* A coroutine takes up a session nobody serves.
LEMMA TakingCount ==
    ASSUME CountInv, LockInv', NEW p \in Procs, Member(p) \/ Acquire(p)
    PROVE  AllCounted'
<1>1. /\ TypeInv /\ LockInv /\ OneStart /\ LockMatches /\ Emptied
      /\ proc \in [Procs -> Locals] /\ state \in [Meetings -> Status]
      /\ lock \in [Meetings -> Procs \cup {None}] /\ p # None /\ None \notin Meetings
  BY SessionAssumption
     DEF CountInv, OrderInv, LockInv, LocalInv, TypeInv, StoreType
<1>2. CASE Member(p)
  <2>1. proc[p].step = "member" /\ ~InUse /\ UNCHANGED <<pushed, seq, lost>>
    BY <1>1, <1>2 DEF Member, At, OneStart
  <2>2. PICK m \in Meetings : /\ state[m] = "none" /\ registry' = m
                              /\ state' = [state EXCEPT ![m] = "streaming"]
                              /\ proc' = [proc EXCEPT ![p].step = "create", ![p].sess = m]
    BY <1>2, <2>1 DEF Member
  <2>3. /\ proc'[p].step = "create" /\ \A q \in Procs \ {p} : proc'[q] = proc[q]
        /\ "create" \notin Locking /\ "member" \notin Locking
    BY <1>1, <2>2 DEF Locals, Locking, Collecting
  <2>4. \A n \in Meetings : state'[n] = "none" => state[n] = "none"
    BY <1>1, <2>2
  <2>5. \A q \in Procs : proc'[q].step \in Locking => q # p /\ proc'[q] = proc[q]
    BY <2>3
  <2>6. \A q \in Procs : proc[q].step \in Locking => q # p /\ proc'[q] = proc[q]
    BY <2>1, <2>3
  <2>7. \A n \in Meetings : registry' = n => registry = n \/ state[n] = "none"
    BY <2>2
  <2>8. QED BY <2>1, <2>4, <2>5, <2>6, <2>7, FrameCount
<1>3. CASE Acquire(p)
  <2>1. /\ proc[p].step \in {"enter", "wait"} /\ registry' = registry
        /\ UNCHANGED <<pushed, seq, lost>>
        /\ registry \in Meetings /\ lock[registry] = None
        /\ proc'[p].sess = registry /\ proc'[p].out = proc[p].out
        /\ proc'[p].closing = proc[p].closing
        /\ proc'[p].step \in {"send", "collect", "finalize", "write_finalizing"}
        /\ state' = state \/ state' = [state EXCEPT ![registry] = "finalizing"]
        /\ \A q \in Procs \ {p} : proc'[q] = proc[q]
    BY <1>1, <1>3, AcquireEffect DEF Acquire
  <2>2. {"enter", "wait"} \cap Locking = {}
        /\ {"send", "collect", "finalize", "write_finalizing"} \subseteq Locking
    BY DEF Locking, Collecting
  <2>3. proc[p].out = <<>> /\ proc[p].closing = <<>>
    BY <1>1, <2>1 DEF Emptied, Emptying
  <2>4. Unserved(registry)
    BY <1>1, <2>1, ProcsAre, SessionAssumption DEF Unserved, LockMatches, Procs
  <2>5. \A n \in Meetings : state'[n] = "none" => state[n] = "none"
    BY <1>1, <2>1
  <2>6. \A q \in Procs : proc'[q].step \in Locking =>
              \/ /\ proc[q].step \in Locking /\ proc'[q].sess = proc[q].sess
                 /\ proc'[q].out = proc[q].out /\ proc'[q].closing = proc[q].closing
              \/ /\ proc'[q].out = <<>> /\ proc'[q].closing = <<>>
                 /\ proc'[q].sess \in Meetings /\ registry = proc'[q].sess
                 /\ Unserved(registry)
    BY <2>1, <2>3, <2>4
  <2>7. \A q \in Procs : proc[q].step \in Locking => q # p /\ proc'[q] = proc[q]
    BY <2>1, <2>2
  <2>8. QED BY <2>1, <2>5, <2>6, <2>7, FrameCount
<1>4. QED BY <1>2, <1>3

\* The listener is cancelled only when no session is left.
LEMMA AsideCount ==
    ASSUME CountInv, Aside, UNCHANGED lost, NEW p \in Procs,
           \/ StartRequest(p)
           \/ \E op \in {"audio", "finish", "disconnect"} : Request(p, op)
           \/ Refuse(p) \/ Emitted(p) \/ (p = Listener /\ Listen)
    PROVE  AllCounted'
<1>1. /\ TypeInv /\ EndsLeaveNone /\ OneStart /\ Locking \subseteq Using
      /\ None \notin Meetings /\ proc \in [Procs -> Locals]
  BY SessionAssumption
     DEF CountInv, OrderInv, LockInv, LocalInv, TypeInv, StoreType, Using
<1>2. UNCHANGED <<pushed, seq, state>> /\ registry' \in {registry, None}
      /\ \A q \in Procs : proc'[q].step \in Locking => proc'[q] = proc[q]
  BY <1>1 DEF Aside
<1>3. {"idle", "enter", "wait", "emit", "member"} \cap Locking = {}
  BY DEF Locking, Collecting
<1>4. ASSUME NEW q \in Procs, proc[q].step \in Locking, proc'[q].step \notin Locking
      PROVE  registry' = None
  <2>1. CASE \/ StartRequest(p) \/ Refuse(p)
             \/ \E op \in {"audio", "finish", "disconnect"} : Request(p, op)
    <3>1. proc[p].step \in {"idle", "enter", "wait"}
      BY <2>1 DEF StartRequest, Request, Refuse, Turn, At
    <3>2. q # p
      BY <1>3, <1>4, <3>1
    <3>3. proc'[q] = proc[q]
      BY <1>1, <2>1, <3>2, OthersKeep DEF OwnStep
    <3>4. QED BY <1>4, <3>3
  <2>2. CASE p = Listener /\ Listen
    <3>1. proc[p].step = "emit"
      BY <2>2 DEF Listen, At
    <3>2. q # p
      BY <1>3, <1>4, <3>1
    <3>3. proc'[q] = proc[q]
      BY <1>1, <2>2, <3>2, EmittedEffect
    <3>4. QED BY <1>4, <3>3
  <2>3. CASE Emitted(p)
    <3>1. proc[p].step = "emit" /\ registry' = registry /\ p # Listener
      BY <2>3 DEF Emitted, At
    <3>2. q # p
      BY <1>3, <1>4, <3>1
    <3>3. q = Listener
      BY <1>1, <1>4, <2>3, <3>2, EmittedEffect
    <3>4. proc[p].op \in {"finish", "disconnect"}
      <4>1. proc[p].op \in {"start", "audio"} => proc'[q] = proc[q]
        <5>1. Listening
          BY <1>3, <1>4, <3>3 DEF Listening
        <5>2. proc[p].op \in {"start", "audio"} =>
                 \/ proc' = [proc EXCEPT ![p] = Idle, ![Listener] = proc[Listener]]
                 \/ proc' = [proc EXCEPT ![p] = Idle]
          BY <1>1, <2>3, <3>1, <5>1, ProcsAre DEF Emitted, Stop
        <5>3. QED BY <1>1, <3>2, <5>2, ProcsAre
      <4>2. QED BY <1>4, <2>3, <4>1 DEF Emitted
    <3>5. QED BY <1>1, <3>1, <3>4 DEF EndsLeaveNone
  <2>4. QED BY <2>1, <2>2, <2>3
<1>5. QED BY <1>1, <1>2, <1>4, FrameCount

LEMMA UsingCount ==
    ASSUME CountInv, OrderInv', NEW p \in Procs, UsingStep(p),
           \A q \in Procs : q # p => proc'[q] = proc[q]
    PROVE  AllCounted'
BY QuietCount, ConsumeCount, WriteTerminalCount, ConsumedCount, PushCount
   DEF UsingStep, SessionStep

LEMMA ProviderCount ==
    ASSUME CountInv, NEW m \in Meetings, NEW e \in ProviderEvents, Provider(m, e)
    PROVE  EndsLeaveNone' /\ AllCounted'
<1>1. UNCHANGED <<registry, state, pushed, seq, proc, lost>>
  BY DEF Provider, sessionVars
<1>2. EndsLeaveNone'
  BY <1>1 DEF CountInv, EndsLeaveNone
<1>3. AllCounted'
  BY <1>1, FrameCount
<1>4. QED BY <1>2, <1>3

LEMMA InitCountInv == Init => CountInv
<1> SUFFICES ASSUME Init PROVE CountInv
  OBVIOUS
<1>1. OrderInv
  BY InitOrderInv
<1>2. \A p \in Procs : proc[p].step = "idle"
  BY IdleFields DEF Init
<1>3. "idle" \notin Locking \cup Opening
  BY DEF Locking, Collecting, Opening
<1>4. EndsLeaveNone
  BY <1>2, <1>3 DEF EndsLeaveNone
<1>5. AllCounted
  BY <1>2, <1>3, SessionAssumption DEF Init, AllCounted, HasEnd
<1>6. QED BY <1>1, <1>4, <1>5 DEF CountInv

LEMMA StepCountInv ==
    ASSUME {"start", "disconnect"} \cap Overlapping = {}
    PROVE  CountInv /\ [Next]_vars => CountInv'
<1> SUFFICES ASSUME CountInv, [Next]_vars PROVE CountInv'
  OBVIOUS
<1> DEFINE Keeps == EndsLeaveNone' /\ AllCounted'
<1>1. /\ "start" \notin Overlapping /\ OrderInv /\ LockInv /\ TypeInv
      /\ Emptied /\ OpensAlone
  BY DEF CountInv, OrderInv, LockInv, LocalInv
<1>2. OrderInv' /\ LockInv'
  BY <1>1, StepOrderInv DEF OrderInv
<1>3. ASSUME UNCHANGED vars PROVE Keeps
  BY <1>3 DEF vars, sessionVars, CountInv, EndsLeaveNone, AllCounted, Counted, HasEnd,
              Unserved, TasksOf
<1>4. ASSUME NEW p \in Procs, UsingStep(p) PROVE Keeps
  <2>1. \A q \in Procs : q # p => proc'[q] = proc[q]
    BY <1>1, <1>4, OthersKeep DEF UsingStep, OwnStep
  <2>2. QED BY <1>2, <1>4, <2>1, UsingKeepsEnds, UsingCount
<1>5. ASSUME NEW p \in Procs,
             \/ StartRequest(p)
             \/ \E op \in {"audio", "finish", "disconnect"} : Request(p, op)
             \/ Refuse(p) \/ Emitted(p) \/ (p = Listener /\ Listen)
      PROVE  Keeps
  <2>1. UNCHANGED lost
    BY <1>5 DEF StartRequest, Request, Refuse, Emitted, Listen
  <2>2. Aside
    BY <1>1, <1>5, StartAside, RequestAside, RefuseAside, EmittedAside
  <2>3. QED BY <1>5, <2>1, <2>2, AsideKeepsEnds, AsideCount
<1>6. ASSUME NEW p \in Procs, Member(p) \/ Acquire(p) PROVE Keeps
  BY <1>1, <1>2, <1>6, TakingKeepsEnds, TakingCount
<1>7. ASSUME Next PROVE Keeps
  <2>1. \A h \in Handlers : h \in Procs
    BY ProcsAre
  <2>2. CASE \E h \in Handlers : StartRequest(h)
    BY <1>5, <2>1, <2>2
  <2>3. CASE \E h \in Handlers, op \in {"audio", "finish", "disconnect"} : Request(h, op)
    BY <1>5, <2>1, <2>3
  <2>4. CASE \E p \in Procs : Refuse(p) \/ Acquire(p) \/ SessionStep(p)
    BY <1>4, <1>5, <1>6, <2>4 DEF UsingStep
  <2>5. CASE Listen
    BY <1>5, <2>5, ProcsAre
  <2>6. CASE \E m \in Meetings, e \in ProviderEvents : Provider(m, e)
    BY <2>6, ProviderCount
  <2>7. QED BY <1>7, <2>2, <2>3, <2>4, <2>5, <2>6 DEF Next
<1>8. QED BY <1>2, <1>3, <1>7 DEF CountInv

\* The end of a meeting in the queue carries the number of the tasks before it, unless
\* one of them was lost, as long as a start overlaps neither another nor a disconnect.
THEOREM TerminalCountsAllCorrect ==
    ASSUME {"start", "disconnect"} \cap Overlapping = {}
    PROVE  Spec => []TerminalCountsAll
<1>1. CountInv => TerminalCountsAll
  <2> SUFFICES ASSUME CountInv, NEW m \in Meetings \ lost, NEW j \in DOMAIN pushed[m],
                      pushed[m][j].kind # "utterance"
               PROVE  pushed[m][j].n = j - 1
    BY DEF TerminalCountsAll
  <2>1. /\ pushed[m] \in Seq(Tasks) /\ seq[m] \in Nat
        /\ Ordered(pushed[m], seq[m])
    BY DEF CountInv, OrderInv, LockInv, LocalInv, TypeInv, StoreType, InOrder
  <2>2. HasEnd(pushed[m])
    BY DEF HasEnd, IsEnd
  <2>3. Len(pushed[m]) = seq[m] + 1
    BY <2>2 DEF CountInv, AllCounted, Counted
  <2>4. pushed[m][j].n = seq[m]
    BY <2>1 DEF Ordered, IsEnd
  <2>5. DOMAIN pushed[m] = 1 .. Len(pushed[m])
    BY <2>1, LenProperties
  <2>6. ASSUME j < Len(pushed[m]) PROVE FALSE
    <3>1. Len(pushed[m]) \in DOMAIN pushed[m]
      BY <2>1, <2>3, <2>5
    <3>2. QED BY <2>1, <2>6, <3>1 DEF Ordered, IsEnd
  <2>7. QED BY <2>1, <2>3, <2>4, <2>5, <2>6
<1>2. QED BY <1>1, InitCountInv, StepCountInv, PTL DEF Spec
-----------------------------------------------------------------------------
(* No meeting and no provider connection is left behind.                    *)

\* While a start opens a session nobody else does anything; the session is the one
\* of the socket until the start fails.
Starts ==
    \A p \in Procs : proc[p].step \in Opening =>
        /\ \A q \in Procs : q # p => proc[q].step = "idle"
        /\ proc[p].step \in {"create", "open"} =>
              registry = proc[p].sess /\ state[proc[p].sess] = "streaming"
        /\ proc[p].step = "create" => durable[proc[p].sess] = "none"
        /\ proc[p].step = "start_failed" => ~Active(proc[p].sess)

\* Who has a session has the one of the socket; the listener has it under its lock.
OneSession ==
    /\ \A p \in Procs : proc[p].step \in Using => registry \in {proc[p].sess, None}
    /\ proc[Listener].step \in Using => lock[proc[Listener].sess] = Listener
    /\ proc[Listener].step # "idle" => proc[Listener].op = "listen"
    /\ proc[Listener].step \notin {"send", "write_finalizing", "finalize"}
    /\ \A m \in Meetings : state[m] = "none" => durable[m] = "none"
    /\ \A m \in Meetings : Active(m) /\ durable[m] # "none" => registry = m

\* A session that failed under the hands of who ends it has no connection.
Stages ==
    /\ \A p \in Procs : proc[p].step = "write_finalizing" => durable[proc[p].sess] # "none"
    /\ \A p \in Procs : proc[p].step \in {"write_finalizing", "finalize"} =>
          Active(proc[p].sess) \/ conn[proc[p].sess] # "open"
    /\ \A p \in Procs : proc[p].step \in {"fail_write", "fail_close"} => ~Active(proc[p].sess)

\* Who is about to write the record of m's end, or to find that m has no connection.
Settling == {"write_terminal", "write_failed", "fail", "fail_write", "start_failed"}
Settles(p, m) ==
    /\ proc[p].sess = m
    /\ proc[p].step \in Settling \/ (proc[p].step = "finalize" /\ conn[m] # "open")

Settled(m) == m \in lost \/ durable[m] \notin {"streaming", "finalizing"}

\* The listener is not cancelled as long as the session is the one of the socket.
Clear(m) == registry = m /\ \A q \in Procs : proc[q].step = "fail_close" => proc[q].sess # m

RecordServed(m) ==
    \/ Settled(m)
    \/ Active(m) /\ registry = m
    \/ Clear(m) /\ Settles(Listener, m)
    \/ ~Active(m) /\ \E p \in Procs \ {Listener} : Settles(p, m)

ConnectionServed(m) ==
    m \notin lost /\ conn[m] = "open" =>
        /\ registry = m
        /\ \/ Active(m)
           \/ \E p \in Procs : proc[p].sess = m /\ proc[p].step \in {"write_failed", "close_failed"}

RecordsServed     == \A m \in Meetings : RecordServed(m)
ConnectionsServed == \A m \in Meetings : ConnectionServed(m)

ServeInv == CountInv /\ Starts /\ OneSession /\ Stages /\ RecordsServed /\ ConnectionsServed

\* What a step that works on a session leaves of the other sessions.
LEMMA UsingElsewhere ==
    ASSUME TypeInv, NEW p \in Procs, UsingStep(p)
    PROVE  /\ \A n \in Meetings : n # proc[p].sess =>
                 durable'[n] = durable[n] /\ state'[n] = state[n] /\ conn'[n] = conn[n]
           /\ \A n \in Meetings : durable[n] # "none" => durable'[n] # "none"
           /\ \A n \in Meetings : state'[n] = "none" => state[n] = "none"
           /\ \A n \in Meetings : Active(n)' => Active(n)
           /\ \A n \in Meetings : conn'[n] = "open" => conn[n] = "open" \/ proc[p].step = "open"
<1>1. UsingStore(p)
  BY UsingStores
<1>2. /\ durable \in [Meetings -> Status] /\ state \in [Meetings -> Status]
      /\ conn \in [Meetings -> {"none", "open", "gone", "closed"}]
      /\ goal \in [Meetings -> {"completed", "interrupted"}] /\ proc[p].sess \in Meetings
  BY UsingMoves DEF TypeInv, StoreType, UsingMove, UsesSession
<1>3. durable' = durable \/ \E s \in Status \ {"none"} :
         durable' = [durable EXCEPT ![proc[p].sess] = s]
  <2> DEFINE Wrote(s) == durable' = [durable EXCEPT ![proc[p].sess] = s]
  <2>1. {"streaming", "finalizing", "completed", "interrupted", "failed"}
           \subseteq Status \ {"none"}
    BY DEF Status, Terminal
  <2>2. goal[proc[p].sess] \in Status \ {"none"}
    BY <1>2, <2>1
  <2>3. ASSUME durable' = [durable EXCEPT ![proc[p].sess] = IF @ = "none" THEN @ ELSE "failed"]
        PROVE  durable' = durable \/ Wrote("failed")
    BY <1>2, <2>3
  <2>4. CASE Create(p) \/ StartFailed(p) \/ WriteFinalizing(p)
    BY <2>1, <2>4 DEF Create, StartFailed, WriteFinalizing
  <2>5. CASE WriteTerminal(p)
    BY <2>2, <2>5 DEF WriteTerminal
  <2>6. CASE WriteFailed(p) \/ FailWrite(p)
    BY <2>1, <2>3, <2>6 DEF WriteFailed, FailWrite
  <2>7. CASE \/ Open(p) \/ Send(p) \/ Collect(p) \/ Consume(p) \/ CloseFailed(p)
             \/ Consumed(p) \/ Close(p)
    BY <2>7 DEF Open, Send, Collect, Consume, CloseFailed, Consumed, Close
  <2>8. CASE Push(p) \/ Drain(p) \/ Deadline(p) \/ Leave(p) \/ FailLive(p) \/ FailClose(p)
    BY <2>8 DEF Push, Drain, Deadline, Leave, FailLive, FailClose
  <2>9. QED BY <2>4, <2>5, <2>6, <2>7, <2>8 DEF UsingStep, SessionStep
<1>4. \A n \in Meetings :
          /\ n # proc[p].sess => durable'[n] = durable[n]
          /\ durable[n] # "none" => durable'[n] # "none"
  BY <1>2, <1>3
<1>5. \A n \in Meetings :
          /\ n # proc[p].sess => state'[n] = state[n]
          /\ state'[n] = state[n] \/ state'[n] \in Terminal
  BY <1>1, <1>2 DEF UsingStore, Ends
<1>6. \A n \in Meetings :
          /\ n # proc[p].sess => conn'[n] = conn[n]
          /\ conn'[n] = "open" => conn[n] = "open" \/ proc[p].step = "open"
  BY <1>1, <1>2 DEF UsingStore, Closed, Opened
<1>7. Terminal \cap {"none", "streaming", "finalizing"} = {}
  BY DEF Terminal
<1>8. QED BY <1>4, <1>5, <1>6, <1>7 DEF Active

\* Which step comes before another.
LEMMA UsingNext ==
    ASSUME TypeInv, NEW p \in Procs, UsingStep(p)
    PROVE  LET s == proc'[p].step
           IN  /\ s \notin {"send", "write_finalizing", "create", "member"}
               /\ s = "finalize" => WriteFinalizing(p)
               /\ s = "fail_write" => FailLive(p)
               /\ s = "fail_close" => FailWrite(p)
               /\ s = "start_failed" => Open(p)
               /\ s = "open" => Create(p)
<1> DEFINE s == proc'[p].step
           Rare == {"send", "write_finalizing", "create", "member", "finalize", "fail_write",
                    "fail_close", "start_failed", "open"}
<1>1. ASSUME NEW t, Goto(p, t) PROVE s = t
  BY <1>1, GotoBecomes DEF Same, Becomes
<1>2. Stop(p) => s = "idle"
  BY StopEffect, IdleFields
<1>3. CASE Create(p) \/ Open(p)
  BY <1>1, <1>2, <1>3 DEF Create, Open
<1>4. CASE StartFailed(p) \/ Leave(p) \/ Send(p) \/ CloseFailed(p)
  <2>1. s \in {"idle", "emit", "collect", "collected", "fail", "consume"}
    BY <1>1, <1>2, <1>4 DEF StartFailed, Leave, Send, CloseFailed
  <2>2. QED BY <2>1
<1>5. CASE WriteFinalizing(p) \/ FailLive(p) \/ FailWrite(p) \/ FailClose(p)
  BY <1>1, <1>2, <1>5 DEF WriteFinalizing, FailLive, FailWrite, FailClose
<1>6. CASE Collect(p) \/ Consume(p) \/ Consumed(p)
  <2>1. s \notin Rare
    BY <1>6, CollectEffect, ConsumeEffect, ConsumedEffect DEF Same, Becomes
  <2>2. QED BY <2>1
<1>7. CASE WriteTerminal(p) \/ WriteFailed(p) \/ Close(p) \/ Drain(p) \/ Deadline(p)
  <2>1. s \notin Rare
    BY <1>7, WriteTerminalEffect, WriteFailedEffect, CloseEffect, DrainEffect, IdleFields
       DEF Same, Becomes
  <2>2. QED BY <2>1
<1>8. CASE Push(p)
  <2> DEFINE k == IF Len(proc[p].out) = 1 THEN "collected" ELSE "push"
  <2>1. s = k
    BY <1>8, PushEffect DEF Becomes
  <2>2. QED BY <2>1
<1>9. QED BY <1>3, <1>4, <1>5, <1>6, <1>7, <1>8 DEF UsingStep, SessionStep

LEMMA UsingKeepsStarts ==
    ASSUME ServeInv, NEW p \in Procs, UsingStep(p),
           \A q \in Procs : q # p => proc'[q] = proc[q]
    PROVE  Starts'
<1>1. /\ TypeInv /\ Starts /\ UsingMove(p) /\ proc[p].step \in Using
      /\ state \in [Meetings -> Status] /\ proc[p].sess \in Meetings
  BY UsingMoves
     DEF ServeInv, CountInv, OrderInv, LockInv, LocalInv, TypeInv, StoreType, UsingMove,
         UsesSession
<1>2. "idle" \notin Using /\ "idle" \notin Opening
  BY DEF Using, Locking, Collecting, Failing, Opening
<1>3. CASE proc[p].step \notin Opening
  <2>1. \A q \in Procs : proc[q].step \notin Opening
    BY <1>1, <1>2, <1>3 DEF Starts
  <2>2. \A q \in Procs : proc'[q].step \notin Opening
    BY <1>1, <1>3, <2>1 DEF UsingMove
  <2>3. QED BY <2>2 DEF Starts
<1>4. CASE proc[p].step \in Opening
  <2>1. \A q \in Procs : q # p => proc'[q].step = "idle"
    BY <1>1, <1>4 DEF Starts
  <2>2. proc'[p].step \in Opening => proc'[p].sess = proc[p].sess
    <3>1. proc'[p].step # "member"
      BY <1>1, UsingNext
    <3>2. proc'[p].step \in Opening => proc'[p].step \in Using
      BY <3>1 DEF Opening, Using
    <3>3. QED BY <1>1, <3>2 DEF UsingMove
  <2>3. proc'[p].step \in Opening => proc'[p].step \in {"open", "start_failed"}
    BY <1>1, UsingNext DEF Opening
  <2>4. ASSUME proc'[p].step = "open"
        PROVE  registry' = proc[p].sess /\ state'[proc[p].sess] = "streaming"
    <3>1. Create(p) /\ ~Stop(p)
      BY <1>1, <2>4, UsingNext, StopEffect, IdleFields
    <3>2. proc[p].step = "create" /\ UNCHANGED <<registry, state>>
      BY <3>1 DEF Create, At, sessionVars
    <3>3. QED BY <1>1, <3>2 DEF Starts, Opening
  <2>5. ASSUME proc'[p].step = "start_failed" PROVE state'[proc[p].sess] = "failed"
    <3>1. Open(p) /\ ~Goto(p, "emit")
      BY <1>1, <2>5, UsingNext, GotoBecomes DEF Same, Becomes
    <3>2. QED BY <1>1, <3>1 DEF Open
  <2>6. QED BY <1>2, <2>1, <2>2, <2>3, <2>4, <2>5 DEF Starts, Active
<1>5. QED BY <1>3, <1>4

LEMMA UsingKeepsStages ==
    ASSUME ServeInv, NEW p \in Procs, UsingStep(p),
           \A q \in Procs : q # p => proc'[q] = proc[q]
    PROVE  Stages'
<1>1. /\ TypeInv /\ Starts /\ Stages /\ LockMatches /\ UsingMove(p) /\ UsingStore(p)
      /\ state \in [Meetings -> Status] /\ proc[p].sess \in Meetings /\ UsesSession
      /\ conn \in [Meetings -> {"none", "open", "gone", "closed"}]
  BY UsingMoves, UsingStores
     DEF ServeInv, CountInv, OrderInv, LockInv, LocalInv, TypeInv, StoreType, UsingMove,
         UsesSession
<1>2. {"write_finalizing", "finalize"} \subseteq Locking /\ Locking \subseteq Using
      /\ {"fail_write", "fail_close"} \subseteq Using
      /\ {"write_finalizing", "finalize"} \cap Opening = {} /\ "open" \in Opening
  BY DEF Using, Locking, Failing, Opening
\* Who has the lock of another session is not disturbed.
<1>3. ASSUME NEW q \in Procs, q # p, proc[q].step \in {"write_finalizing", "finalize"}
      PROVE  Active(proc[q].sess)' \/ conn'[proc[q].sess] # "open"
  <2>1. proc[q].sess \in Meetings /\ proc[q].step \in Locking /\ proc[p].step # "open"
        /\ proc'[q] = proc[q]
    BY <1>1, <1>2, <1>3 DEF UsesSession, Starts
  <2>2. CASE proc[q].sess # proc[p].sess
    BY <1>1, <1>3, <2>1, <2>2, UsingElsewhere DEF Stages, Active
  <2>3. CASE proc[q].sess = proc[p].sess
    <3>1. proc[p].step \notin Locking
      BY <1>1, <1>3, <2>1, <2>3 DEF LockMatches
    <3>2. proc[p].step \notin Opening
      BY <1>1, <1>2, <1>3 DEF Starts, Opening
    <3>3. FailLive(p) \/ FailWrite(p) \/ FailClose(p)
      <4>1. proc[p].step \in Failing
        BY <1>1, <3>1, <3>2 DEF UsingMove, Using, Opening
      <4>2. ~(WriteFinalizing(p) \/ Send(p) \/ Collect(p) \/ Consume(p) \/ WriteTerminal(p))
        BY <4>1 DEF WriteFinalizing, Send, Collect, Consume, WriteTerminal, At, Failing
      <4>3. ~(WriteFailed(p) \/ CloseFailed(p) \/ Consumed(p) \/ Close(p) \/ Push(p))
        BY <4>1 DEF WriteFailed, CloseFailed, Consumed, Close, Push, At, Failing
      <4>4. ~(Drain(p) \/ Deadline(p) \/ Leave(p) \/ Create(p) \/ Open(p) \/ StartFailed(p))
        BY <4>1 DEF Drain, Deadline, Draining, Leave, Create, Open, StartFailed, At, Failing
      <4>5. QED BY <4>2, <4>3, <4>4 DEF UsingStep, SessionStep
    <3>4. CASE FailLive(p)
      BY <1>1, <2>1, <2>3, <3>4 DEF FailLive, Closed
    <3>5. CASE FailWrite(p) \/ FailClose(p)
      <4>1. state' = state
        BY <3>5 DEF FailWrite, FailClose, sessionVars
      <4>2. conn'[proc[q].sess] = "open" => conn[proc[q].sess] = "open"
        BY <1>1, <2>1, UsingElsewhere
      <4>3. QED BY <1>1, <1>3, <4>1, <4>2 DEF Stages, Active
    <3>6. QED BY <2>3, <3>3, <3>4, <3>5
  <2>4. QED BY <2>2, <2>3
<1>4. ASSUME proc'[p].step = "finalize"
      PROVE  state'[proc'[p].sess] \in {"streaming", "finalizing"} \/ conn'[proc'[p].sess] # "open"
  <2>1. WriteFinalizing(p)
    BY <1>1, <1>4, UsingNext
  <2>2. proc[p].step = "write_finalizing" /\ UNCHANGED <<state, conn>>
    BY <2>1 DEF WriteFinalizing, At, sessionVars
  <2>3. proc'[p].sess = proc[p].sess
    BY <1>1, <1>2, <1>4 DEF UsingMove
  <2>4. QED BY <1>1, <2>2, <2>3 DEF Stages, Active
<1>5. proc'[p].step # "write_finalizing"
  BY <1>1, UsingNext
<1>6. (\A q \in Procs : proc[q].step = "write_finalizing" => durable[proc[q].sess] # "none")'
  <2>1. ASSUME NEW q \in Procs, q # p, proc[q].step = "write_finalizing"
        PROVE  durable'[proc[q].sess] # "none"
    BY <1>1, <1>2, <2>1, UsingElsewhere DEF Stages, UsesSession
  <2>2. QED BY <1>5, <2>1
<1>7. (\A q \in Procs : proc[q].step \in {"write_finalizing", "finalize"} =>
          Active(proc[q].sess) \/ conn[proc[q].sess] # "open")'
  <2>1. ASSUME NEW q \in Procs, proc'[q].step \in {"write_finalizing", "finalize"}
        PROVE  state'[proc'[q].sess] \in {"streaming", "finalizing"} \/ conn'[proc'[q].sess] # "open"
    BY <1>3, <1>4, <1>5, <2>1 DEF Active
  <2>2. QED BY <2>1 DEF Active
<1>8. ASSUME NEW q \in Procs, proc'[q].step \in {"fail_write", "fail_close"}
      PROVE  state'[proc'[q].sess] \notin {"streaming", "finalizing"}
  <2>1. CASE q = p
    <3>1. FailLive(p) \/ FailWrite(p)
      BY <1>1, <1>8, <2>1, UsingNext
    <3>2. proc'[p].sess = proc[p].sess
      BY <1>1, <1>2, <1>8, <2>1 DEF UsingMove
    <3>3. CASE FailLive(p)
      BY <1>1, <2>1, <3>2, <3>3 DEF FailLive
    <3>4. CASE FailWrite(p)
      <4>1. state' = state /\ proc[p].step = "fail_write"
        BY <3>4 DEF FailWrite, At, sessionVars
      <4>2. QED BY <1>1, <2>1, <3>2, <4>1 DEF Stages, Active
    <3>5. QED BY <3>1, <3>3, <3>4
  <2>2. CASE q # p
    <3>1. proc[q].sess \in Meetings /\ ~Active(proc[q].sess) /\ proc'[q] = proc[q]
      BY <1>1, <1>2, <1>8, <2>2 DEF Stages, UsesSession
    <3>2. ~(state'[proc[q].sess] \in {"streaming", "finalizing"})
      BY <1>1, <3>1, UsingElsewhere DEF Active
    <3>3. QED BY <3>1, <3>2
  <2>3. QED BY <2>1, <2>2
<1>9. (\A q \in Procs : proc[q].step \in {"fail_write", "fail_close"} => ~Active(proc[q].sess))'
  BY <1>8 DEF Active
<1>10. QED BY <1>6, <1>7, <1>9 DEF Stages

\* When the registry, the lock and the record change.
LEMMA UsingRegistry ==
    ASSUME ServeInv, NEW p \in Procs, UsingStep(p)
    PROVE  \/ registry' = registry
           \/ ~Active(proc[p].sess) /\ proc[p].step \in {"start_failed", "collected", "fail_close"}
           \/ /\ proc[p].step = "create" /\ UNCHANGED <<durable, conn, lost>>
              /\ conn[proc[p].sess] # "open"
<1> USE DEF ServeInv, sessionVars
<1>1. CASE Create(p)
  <2>1. conn[proc[p].sess] # "open"
    BY <1>1 DEF Create, At, CountInv, OrderInv, BeforeOpen
  <2>2. QED BY <1>1, <2>1 DEF Create, At
<1>2. CASE Open(p)
  <2>1. Active(proc[p].sess)
    BY <1>2 DEF Open, At, Starts, Opening, Active
  <2>2. QED BY <1>2, <2>1 DEF Open, DiscardIfOver
<1>3. CASE StartFailed(p)
  BY <1>3 DEF StartFailed, At, Starts, Opening
<1>4. CASE Leave(p)
  BY <1>4 DEF Leave, At, DiscardIfOver
<1>5. CASE FailClose(p)
  BY <1>5 DEF FailClose, At, Stages
<1>6. CASE \/ WriteFinalizing(p) \/ Send(p) \/ Collect(p) \/ Consume(p) \/ WriteTerminal(p)
           \/ WriteFailed(p) \/ CloseFailed(p)
  BY <1>6 DEF WriteFinalizing, Send, Collect, Consume, WriteTerminal, WriteFailed, CloseFailed
<1>7. CASE \/ Consumed(p) \/ Close(p) \/ Push(p) \/ Drain(p) \/ Deadline(p) \/ FailLive(p)
           \/ FailWrite(p)
  BY <1>7 DEF Consumed, Close, Push, Drain, Deadline, FailLive, FailWrite
<1>8. QED BY <1>1, <1>2, <1>3, <1>4, <1>5, <1>6, <1>7 DEF UsingStep, SessionStep

LEMMA UsingReleases ==
    ASSUME TypeInv, NEW p \in Procs, UsingStep(p), proc'[p].step \in Using, proc[p].step # "send"
    PROVE  lock' = lock
<1>1. ~Stop(p)
  BY StopEffect, IdleFields DEF Using, Locking, Collecting, Failing
<1>2. ~Goto(p, "emit")
  BY GotoBecomes DEF Same, Becomes, Using, Locking, Collecting, Failing
<1>3. CASE Create(p) \/ Open(p) \/ StartFailed(p) \/ WriteFinalizing(p) \/ Send(p)
  BY <1>1, <1>3 DEF Create, Open, StartFailed, WriteFinalizing, Send, At
<1>4. CASE \/ Collect(p) \/ Consume(p) \/ WriteTerminal(p) \/ WriteFailed(p)
           \/ CloseFailed(p) \/ Consumed(p)
  BY <1>1, <1>4 DEF Collect, Consume, WriteTerminal, WriteFailed, CloseFailed, Consumed
<1>5. CASE Close(p) \/ Push(p) \/ Drain(p) \/ Deadline(p) \/ Leave(p)
  BY <1>2, <1>5 DEF Close, Push, Drain, Deadline, Leave
<1>6. CASE FailLive(p) \/ FailWrite(p) \/ FailClose(p)
  BY <1>1, <1>2, <1>6 DEF FailLive, FailWrite, FailClose
<1>7. QED BY <1>3, <1>4, <1>5, <1>6 DEF UsingStep, SessionStep

LEMMA UsingRecords ==
    ASSUME ServeInv, NEW p \in Procs, UsingStep(p), Active(proc[p].sess)
    PROVE  \/ durable'[proc[p].sess] = durable[proc[p].sess]
           \/ durable[proc[p].sess] # "none"
           \/ proc[p].step = "create" /\ registry' = registry
<1> USE DEF ServeInv
<1>1. durable \in [Meetings -> Status] /\ proc[p].sess \in Meetings /\ OrderInv
  BY UsingMoves DEF CountInv, OrderInv, LockInv, LocalInv, TypeInv, StoreType, UsingMove, UsesSession
<1>2. CASE Create(p)
  BY <1>2 DEF Create, At
<1>3. CASE StartFailed(p)
  BY <1>3 DEF StartFailed, At, Starts, Opening
<1>4. CASE WriteFinalizing(p)
  BY <1>4 DEF WriteFinalizing, At, Stages
<1>5. CASE WriteTerminal(p)
  BY <1>1, <1>5 DEF WriteTerminal, At, OrderInv, CloseIsLast, Over
<1>6. CASE WriteFailed(p) \/ FailWrite(p)
  BY <1>1, <1>6 DEF WriteFailed, FailWrite
<1>7. CASE \/ Open(p) \/ Send(p) \/ Collect(p) \/ Consume(p) \/ CloseFailed(p)
           \/ Consumed(p) \/ Close(p)
  BY <1>7 DEF Open, Send, Collect, Consume, CloseFailed, Consumed, Close
<1>8. CASE Push(p) \/ Drain(p) \/ Deadline(p) \/ Leave(p) \/ FailLive(p) \/ FailClose(p)
  BY <1>8 DEF Push, Drain, Deadline, Leave, FailLive, FailClose
<1>9. QED BY <1>2, <1>3, <1>4, <1>5, <1>6, <1>7, <1>8 DEF UsingStep, SessionStep

LEMMA UsingKeepsSession ==
    ASSUME ServeInv, NEW p \in Procs, UsingStep(p),
           \A q \in Procs : q # p => proc'[q] = proc[q]
    PROVE  OneSession'
<1> DEFINE m == proc[p].sess
<1>1. /\ TypeInv /\ Starts /\ OneSession /\ Stages /\ BeforeOpen /\ UsingMove(p)
      /\ UsingStore(p) /\ m \in Meetings /\ UsesSession /\ Listener \in Procs
      /\ lock \in [Meetings -> Procs \cup {None}] /\ None \notin Procs \cup Meetings
  BY UsingMoves, UsingStores, ProcsAre
     DEF ServeInv, CountInv, OrderInv, LockInv, LocalInv, TypeInv, StoreType, UsingMove,
         UsesSession
<1>2. registry \in {m, None} /\ registry' \in {registry, None}
  BY <1>1 DEF OneSession, UsingMove
<1>3. (\A q \in Procs : proc[q].step \in Using => registry \in {proc[q].sess, None})'
  <2>1. \A q \in Procs : proc'[q].step \in Using =>
          proc[q].step \in Using /\ proc'[q].sess = proc[q].sess
    BY <1>1 DEF UsingMove
  <2>2. QED BY <1>1, <1>2, <2>1 DEF OneSession
<1>4. (proc[Listener].step \in Using => lock[proc[Listener].sess] = Listener)'
  <2> SUFFICES ASSUME proc'[Listener].step \in Using
               PROVE  lock'[proc'[Listener].sess] = Listener
    OBVIOUS
  <2>1. CASE p = Listener
    <3>1. proc[p].step # "send" /\ lock[m] = Listener
      BY <1>1, <2>1 DEF OneSession, UsingMove
    <3>2. lock' = lock
      BY <1>1, <2>1, <3>1, UsingReleases
    <3>3. proc'[p].sess = m
      BY <1>1, <2>1 DEF UsingMove
    <3>4. QED BY <2>1, <3>1, <3>2, <3>3
  <2>2. CASE p # Listener
    <3>1. proc'[Listener] = proc[Listener] /\ lock[proc[Listener].sess] = Listener
          /\ proc[Listener].sess \in Meetings
      BY <1>1, <2>2 DEF OneSession, UsesSession
    <3>2. lock' = lock \/ Release(p)
      BY <1>1 DEF UsingMove
    <3>3. QED BY <2>2, <3>1, <3>2 DEF Release
  <2>3. QED BY <2>1, <2>2
<1>5. (proc[Listener].step # "idle" => proc[Listener].op = "listen")'
  BY <1>1 DEF OneSession, UsingStore, UsingMove, Using, Locking, Collecting, Failing
<1>6. (proc[Listener].step \notin {"send", "write_finalizing", "finalize"})'
  <2>1. CASE p = Listener
    <3>1. ~WriteFinalizing(p)
      BY <1>1, <2>1 DEF OneSession, WriteFinalizing, At
    <3>2. QED BY <1>1, <2>1, <3>1, UsingNext
  <2>2. QED BY <1>1, <2>1 DEF OneSession
<1>7. (\A n \in Meetings : state[n] = "none" => durable[n] = "none")'
  BY <1>1, UsingElsewhere DEF OneSession, BeforeOpen, UsingMove
<1>8. ASSUME NEW n \in Meetings, Active(n)', durable'[n] # "none" PROVE registry' = n
  <2>1. Active(n)
    BY <1>1, <1>8, UsingElsewhere
  <2>2. n = m
    <3>1. ASSUME n # m PROVE FALSE
      <4>1. durable[n] # "none"
        BY <1>1, <1>8, <3>1, UsingElsewhere
      <4>2. QED BY <1>1, <1>2, <2>1, <3>1, <4>1 DEF OneSession
    <3>2. QED BY <3>1
  <2>3. CASE durable[m] # "none"
    <3>1. registry = m
      BY <1>1, <2>1, <2>2, <2>3 DEF OneSession
    <3>2. proc[p].step # "create"
      BY <1>1, <2>3 DEF Starts, Opening
    <3>3. QED BY <2>1, <2>2, <3>1, <3>2, UsingRegistry
  <2>4. CASE durable[m] = "none"
    <3>1. proc[p].step = "create" /\ registry' = registry
      BY <1>8, <2>1, <2>2, <2>4, UsingRecords
    <3>2. QED BY <1>1, <2>2, <3>1 DEF Starts, Opening
  <2>5. QED BY <2>3, <2>4
<1>9. (\A n \in Meetings : Active(n) /\ durable[n] # "none" => registry = n)'
  BY <1>8 DEF Active
<1>10. QED BY <1>3, <1>4, <1>5, <1>6, <1>7, <1>9 DEF OneSession

\* The other sessions are served as before.
LEMMA UsingServesOthers ==
    ASSUME ServeInv, NEW p \in Procs, UsingStep(p),
           \A q \in Procs : q # p => proc'[q] = proc[q],
           NEW n \in Meetings, n # proc[p].sess
    PROVE  RecordServed(n)' /\ ConnectionServed(n)'
<1>1. /\ TypeInv /\ OneSession /\ RecordServed(n) /\ ConnectionServed(n)
      /\ proc[p].step \in Using /\ lost \subseteq lost' /\ None \notin Meetings
  BY UsingMoves, LostGrows, SessionAssumption
     DEF ServeInv, CountInv, OrderInv, LockInv, LocalInv, UsingMove, RecordsServed,
         ConnectionsServed
<1>2. durable'[n] = durable[n] /\ state'[n] = state[n] /\ conn'[n] = conn[n]
  BY <1>1, UsingElsewhere
<1>3. registry # n
  BY <1>1 DEF OneSession
<1>4. \A q \in Procs : Settles(q, n) => Settles(q, n)'
  BY <1>2 DEF Settles
<1>5. Settled(n) => Settled(n)'
  BY <1>1, <1>2 DEF Settled
<1>6. RecordServed(n)'
  BY <1>1, <1>2, <1>3, <1>4, <1>5 DEF RecordServed, Clear, Active
<1>7. ConnectionServed(n)'
  BY <1>1, <1>2, <1>3 DEF ConnectionServed
<1>8. QED BY <1>6, <1>7

\* A step that neither writes the record nor ends the session.
LEMMA PlainServed ==
    ASSUME ServeInv, NEW p \in Procs, UsingStep(p),
           \A q \in Procs : q # p => proc'[q] = proc[q],
           NEW m \in Meetings, proc[p].sess = m,
           UNCHANGED <<durable, state, registry>>,
           proc[p].step \notin Settling \cup Opening \cup {"finalize"},
           proc'[p].step # "fail_close"
    PROVE  RecordServed(m)'
<1>1. TypeInv /\ RecordServed(m) /\ lost \subseteq lost' /\ "open" \in Opening
  BY LostGrows DEF ServeInv, CountInv, OrderInv, LockInv, LocalInv, RecordsServed, Opening
<1>2. conn'[m] = "open" => conn[m] = "open"
  BY <1>1, UsingElsewhere
<1>3. \A q \in Procs : Settles(q, m) => Settles(q, m)'
  BY <1>2 DEF Settles
<1>4. Clear(m) => Clear(m)'
  BY DEF Clear
<1>5. QED BY <1>1, <1>3, <1>4, ProcsAre DEF RecordServed, Settled, Active

\* A step that ends the session and is to write it down.
LEMMA EndingServed ==
    ASSUME ServeInv, NEW p \in Procs, UsingStep(p),
           \A q \in Procs : q # p => proc'[q] = proc[q],
           NEW m \in Meetings, proc[p].sess = m, proc'[p].sess = m,
           UNCHANGED <<durable, registry>>, ~Active(m)',
           proc'[p].step \in Settling, conn'[m] = "open" => conn[m] = "open"
    PROVE  RecordServed(m)'
<1>1. TypeInv /\ RecordServed(m) /\ lost \subseteq lost' /\ Stages
  BY LostGrows DEF ServeInv, CountInv, OrderInv, LockInv, LocalInv, RecordsServed
<1>2. Settles(p, m)' /\ proc'[p].step # "fail_close"
  BY DEF Settles, Settling
<1>3. CASE p # Listener
  BY <1>2, <1>3 DEF RecordServed
<1>4. CASE p = Listener
  <2>1. CASE Settled(m)
    BY <1>1, <2>1 DEF RecordServed, Settled
  <2>2. CASE (Active(m) /\ registry = m) \/ Clear(m)
    <3>1. Clear(m)'
      BY <1>1, <1>2, <2>2 DEF Clear, Stages
    <3>2. QED BY <1>2, <1>4, <3>1 DEF RecordServed
  <2>3. CASE \E q \in Procs \ {Listener} : Settles(q, m)
    <3>1. PICK q \in Procs \ {Listener} : Settles(q, m)
      BY <2>3
    <3>2. Settles(q, m)'
      BY <1>4, <3>1 DEF Settles
    <3>3. QED BY <3>1, <3>2 DEF RecordServed
  <2>4. QED BY <1>1, <2>1, <2>2, <2>3 DEF RecordServed
<1>5. QED BY <1>3, <1>4

\* A step that leaves the session of the socket with a record to be written by others.
LEMMA LeavingServed ==
    ASSUME ServeInv, NEW p \in Procs, UsingStep(p),
           \A q \in Procs : q # p => proc'[q] = proc[q],
           NEW m \in Meetings, proc[p].sess = m,
           UNCHANGED <<durable, state, lost>>, ~Active(m),
           proc[p].step \in {"collected", "fail_close"}
    PROVE  RecordServed(m)'
<1>1. /\ TypeInv /\ RecordServed(m) /\ OneSession /\ LockMatches
      /\ "collected" \in Locking /\ p # None /\ Settling \subseteq Using
  BY SessionAssumption
     DEF ServeInv, CountInv, OrderInv, LockInv, LocalInv, RecordsServed, Locking, Collecting,
         Procs, Settling, Using, Failing
<1>2. conn'[m] = "open" => conn[m] = "open"
  BY <1>1, UsingElsewhere
<1>3. ~(Clear(m) /\ Settles(Listener, m))
  <2> SUFFICES ASSUME Clear(m), Settles(Listener, m) PROVE FALSE
    OBVIOUS
  <2>1. proc[Listener].step \in Settling /\ proc[Listener].sess = m
    BY <1>1 DEF Settles, OneSession
  <2>2. lock[m] = Listener
    BY <1>1, <2>1 DEF OneSession
  <2>3. CASE proc[p].step = "collected"
    <3>1. lock[m] = p
      BY <1>1, <2>3 DEF LockMatches
    <3>2. QED BY <2>1, <2>2, <2>3, <3>1 DEF Settling
  <2>4. CASE proc[p].step = "fail_close"
    BY <2>4 DEF Clear
  <2>5. QED BY <2>3, <2>4
<1>4. \A q \in Procs : Settles(q, m) => Settles(q, m)'
  BY <1>2 DEF Settles, Settling
<1>5. QED BY <1>1, <1>3, <1>4 DEF RecordServed, Settled, Active

LEMMA ConnectionKept ==
    ASSUME ServeInv, NEW p \in Procs, UsingStep(p),
           \A q \in Procs : q # p => proc'[q] = proc[q],
           NEW m \in Meetings, proc[p].sess = m,
           UNCHANGED <<state, registry>>,
           proc[p].step \notin Opening \cup {"write_failed", "close_failed"}
    PROVE  ConnectionServed(m)'
<1>1. TypeInv /\ ConnectionServed(m) /\ lost \subseteq lost' /\ "open" \in Opening
  BY LostGrows DEF ServeInv, CountInv, OrderInv, LockInv, LocalInv, ConnectionsServed, Opening
<1>2. conn'[m] = "open" => conn[m] = "open"
  BY <1>1, UsingElsewhere
<1>3. QED BY <1>1, <1>2 DEF ConnectionServed, Active

\* The start of a session.
LEMMA OpeningServes ==
    ASSUME ServeInv, NEW p \in Procs, UsingStep(p),
           \A q \in Procs : q # p => proc'[q] = proc[q],
           NEW m \in Meetings, proc[p].sess = m,
           Create(p) \/ Open(p) \/ StartFailed(p)
    PROVE  RecordServed(m)' /\ ConnectionServed(m)'
<1>1. /\ TypeInv /\ BeforeOpen /\ Starts /\ ConnectionServed(m) /\ lost \subseteq lost'
      /\ durable \in [Meetings -> Status] /\ state \in [Meetings -> Status]
      /\ conn \in [Meetings -> {"none", "open", "gone", "closed"}] /\ lost \subseteq Meetings
  BY LostGrows DEF ServeInv, CountInv, OrderInv, LockInv, LocalInv, TypeInv, StoreType,
     ConnectionsServed
<1>2. {"create", "open", "start_failed"} \subseteq Opening
  BY DEF Opening
<1>3. CASE Create(p)
  <2>1. /\ conn' = conn /\ conn[m] # "open" /\ registry = m /\ Active(m) /\ state' = state
        /\ durable[m] = "none"
    BY <1>1, <1>2, <1>3 DEF Create, At, BeforeOpen, Starts, Active, sessionVars
  <2>2. ConnectionServed(m)'
    BY <2>1 DEF ConnectionServed
  <2>3. CASE registry' = registry
    BY <2>1, <2>2, <2>3 DEF RecordServed, Active
  <2>4. CASE registry' # registry
    <3>1. durable'[m] = "none"
      BY <1>3, <2>1, <2>4 DEF Create
    <3>2. QED BY <2>2, <3>1 DEF RecordServed, Settled
  <2>5. QED BY <2>2, <2>3, <2>4
<1>4. CASE Open(p)
  <2>1. /\ registry = m /\ Active(m) /\ proc[p].step = "open" /\ conn[m] = "none"
        /\ durable' = durable
    BY <1>1, <1>2, <1>4 DEF Open, At, BeforeOpen, Starts, Active
  <2>2. registry' = registry
    BY <1>4, <2>1 DEF Open, DiscardIfOver
  <2>3. CASE state' = state
    BY <2>1, <2>2, <2>3 DEF RecordServed, ConnectionServed, Active
  <2>4. CASE state' # state
    <3>1. /\ state' = [state EXCEPT ![m] = "failed"] /\ Goto(p, "start_failed")
          /\ conn' = conn
      BY <1>4, <2>4 DEF Open
    <3>2. proc'[p].step = "start_failed" /\ proc'[p].sess = m
      BY <1>1, <3>1, GotoBecomes DEF Same, Becomes
    <3>3. ~Active(m)' /\ conn'[m] # "open"
      BY <1>1, <2>1, <3>1 DEF Active
    <3>4. RecordServed(m)'
      BY <2>1, <2>2, <3>2, <3>3, EndingServed DEF Settling
    <3>5. QED BY <3>3, <3>4 DEF ConnectionServed
  <2>5. QED BY <2>3, <2>4
<1>5. CASE StartFailed(p)
  <2>1. m \in lost' \/ durable'[m] = "failed"
    BY <1>1, <1>5 DEF StartFailed
  <2>2. RecordServed(m)'
    BY <2>1 DEF RecordServed, Settled
  <2>3. conn' = conn /\ proc[p].step = "start_failed"
    BY <1>5 DEF StartFailed, At
  <2>4. ~Active(m) /\ \A q \in Procs : proc[q].step \notin {"write_failed", "close_failed"}
    BY <1>1, <1>2, <2>3 DEF Starts
  <2>5. ConnectionServed(m)'
    BY <1>1, <2>3, <2>4 DEF ConnectionServed
  <2>6. QED BY <2>2, <2>5
<1>6. QED BY <1>3, <1>4, <1>5

\* The flush of the provider before the end.
LEMMA FinalizingServes ==
    ASSUME ServeInv, NEW p \in Procs, UsingStep(p),
           \A q \in Procs : q # p => proc'[q] = proc[q],
           NEW m \in Meetings, proc[p].sess = m,
           WriteFinalizing(p) \/ Send(p)
    PROVE  RecordServed(m)' /\ ConnectionServed(m)'
<1>1. /\ TypeInv /\ Stages /\ OneSession /\ RecordServed(m) /\ lost \subseteq lost'
      /\ durable \in [Meetings -> Status]
      /\ conn \in [Meetings -> {"none", "open", "gone", "closed"}]
  BY LostGrows DEF ServeInv, CountInv, OrderInv, LockInv, LocalInv, TypeInv, StoreType,
     RecordsServed
<1>2. /\ UNCHANGED <<state, registry, conn>>
      /\ proc[p].step \in {"write_finalizing", "send", "finalize", "keepalive"}
  BY DEF WriteFinalizing, Send, At, sessionVars
<1>3. {"write_finalizing", "send", "finalize", "keepalive"} \cap
         (Opening \cup Settling \cup {"write_failed", "close_failed"}) = {}
  BY DEF Opening, Settling
<1>4. ConnectionServed(m)'
  BY <1>2, <1>3, ConnectionKept
<1>5. CASE WriteFinalizing(p)
  <2>1. \/ Goto(p, "finalize")
        \/ Stop(p) /\ durable' = durable
    BY <1>5 DEF WriteFinalizing
  <2>2. CASE Goto(p, "finalize")
    <3>1. /\ proc'[p].step = "finalize" /\ proc'[p].sess = m
          /\ proc[p].step = "write_finalizing"
      BY <1>1, <1>5, <2>2, GotoBecomes DEF Same, Becomes, WriteFinalizing, At
    <3>2. CASE Active(m)
      BY <1>1, <1>2, <1>4, <3>1, <3>2 DEF Stages, OneSession, RecordServed, Active
    <3>3. CASE ~Active(m)
      <4>1. conn'[m] # "open" /\ p # Listener
        BY <1>1, <1>2, <3>1, <3>3 DEF Stages, OneSession
      <4>2. Settles(p, m)'
        BY <3>1, <4>1 DEF Settles
      <4>3. QED BY <1>2, <1>4, <3>3, <4>1, <4>2 DEF RecordServed, Active
    <3>4. QED BY <1>4, <3>2, <3>3
  <2>3. CASE Stop(p) /\ durable' = durable
    <3>1. proc'[p].step # "fail_close" /\ proc[p].step = "write_finalizing"
      BY <1>1, <1>5, <2>3, StopEffect, IdleFields DEF WriteFinalizing, At
    <3>2. QED BY <1>2, <1>3, <1>4, <2>3, <3>1, PlainServed
  <2>4. QED BY <1>4, <2>1, <2>2, <2>3
<1>6. CASE Send(p)
  <2>1. durable' = durable /\ lost' = lost
    BY <1>6 DEF Send
  <2>2. proc'[p].step \in {"collect", "collected", "fail"} /\ proc'[p].sess = m
    <3>1. Goto(p, "collect") \/ Goto(p, "collected") \/ Goto(p, "fail")
      BY <1>6 DEF Send
    <3>2. QED BY <1>1, <3>1, GotoBecomes DEF Same, Becomes
  <2>3. CASE proc[p].step # "finalize"
    BY <1>2, <1>3, <1>4, <2>1, <2>2, <2>3, PlainServed
  <2>4. CASE proc[p].step = "finalize"
    <3>1. conn[m] = "open" \/ proc'[p].step = "fail"
      <4>1. Reaches(p) \/ Goto(p, "fail")
        BY <1>6, <2>4 DEF Send, At
      <4>2. QED BY <1>1, <4>1, GotoBecomes DEF Reaches, Same, Becomes
    <3>2. \A q \in Procs : Settles(q, m) => Settles(q, m)'
      BY <1>2, <2>2, <2>4, <3>1 DEF Settles, Settling
    <3>3. Clear(m) => Clear(m)'
      BY <1>2, <2>2 DEF Clear
    <3>4. RecordServed(m)'
      BY <1>1, <1>2, <2>1, <3>2, <3>3, ProcsAre DEF RecordServed, Settled, Active
    <3>5. QED BY <1>4, <3>4
  <2>5. QED BY <1>4, <2>3, <2>4
<1>7. QED BY <1>5, <1>6

\* The collection of events.
LEMMA CollectingServes ==
    ASSUME ServeInv, NEW p \in Procs, UsingStep(p),
           \A q \in Procs : q # p => proc'[q] = proc[q],
           NEW m \in Meetings, proc[p].sess = m,
           \/ Collect(p) \/ CloseFailed(p) \/ Consumed(p) \/ Close(p) \/ Push(p)
           \/ Drain(p) \/ Deadline(p)
    PROVE  RecordServed(m)' /\ ConnectionServed(m)'
<1>1. TypeInv /\ conn \in [Meetings -> {"none", "open", "gone", "closed"}]
  BY DEF ServeInv, CountInv, OrderInv, LockInv, LocalInv, TypeInv, StoreType
<1>2. UNCHANGED <<durable, state, registry>>
  BY DEF Collect, CloseFailed, Consumed, Close, Push, Drain, Deadline, sessionVars
<1>3. proc[p].step \in {"collect", "next_event", "close_failed", "consume", "close", "push",
                        "collected"}
  BY DEF Collect, CloseFailed, Consumed, Close, Push, Drain, Deadline, Draining, At
<1>4. proc[p].step \notin Settling \cup Opening \cup {"finalize", "write_failed"}
  BY <1>3 DEF Settling, Opening
<1>5. proc'[p].step # "fail_close"
  <2>1. ~FailWrite(p)
    BY <1>3 DEF FailWrite, At
  <2>2. QED BY <1>1, <2>1, UsingNext
<1>6. RecordServed(m)'
  BY <1>2, <1>4, <1>5, PlainServed
<1>7. CASE proc[p].step = "close_failed"
  <2>1. CloseFailed(p)
    BY <1>7 DEF Collect, CloseFailed, Consumed, Close, Push, Drain, Deadline, Draining, At
  <2>2. conn'[m] # "open"
    BY <1>1, <2>1 DEF CloseFailed, Closed
  <2>3. QED BY <1>6, <2>2 DEF ConnectionServed
<1>8. CASE proc[p].step # "close_failed"
  BY <1>2, <1>4, <1>6, <1>8, ConnectionKept
<1>9. QED BY <1>7, <1>8

LEMMA ConsumingServes ==
    ASSUME ServeInv, OrderInv', NEW p \in Procs, UsingStep(p),
           \A q \in Procs : q # p => proc'[q] = proc[q],
           NEW m \in Meetings, proc[p].sess = m, Consume(p)
    PROVE  RecordServed(m)' /\ ConnectionServed(m)'
<1>1. /\ TypeInv /\ ConnectionServed(m) /\ OneSession /\ lost \subseteq lost'
      /\ state \in [Meetings -> Status] /\ goal[m] \in {"completed", "interrupted"}
  BY LostGrows DEF ServeInv, CountInv, OrderInv, LockInv, LocalInv, TypeInv, StoreType,
     ConnectionsServed
<1>2. UNCHANGED <<durable, registry, conn, lost>> /\ proc[p].step = "consume"
  BY DEF Consume, At
<1>3. "consume" \notin Settling \cup Opening \cup {"finalize", "write_failed", "close_failed"}
  BY DEF Settling, Opening
<1>4. /\ proc'[p].sess = m
      /\ \/ proc'[p].step = "consume" /\ state' = state
         \/ /\ proc'[p].step = "write_terminal" /\ state' = [state EXCEPT ![m] = goal[m]]
         \/ /\ proc'[p].step = "write_failed" /\ state' = [state EXCEPT ![m] = "failed"]
  BY <1>1, ConsumeEffect DEF Becomes
<1>5. CASE proc'[p].step = "consume" /\ state' = state
  BY <1>2, <1>3, <1>5, PlainServed, ConnectionKept
<1>6. CASE proc'[p].step \in {"write_terminal", "write_failed"}
  <2>1. ~Active(m)'
    BY <1>1, <1>4, <1>6 DEF Active
  <2>2. RecordServed(m)'
    BY <1>2, <1>4, <1>6, <2>1, EndingServed DEF Settling
  <2>3. CASE proc'[p].step = "write_terminal"
    <3>1. Over(proc[p].sess)'
      BY <2>3 DEF OrderInv, CloseIsLast
    <3>2. conn'[m] # "open"
      BY <1>4, <3>1 DEF Over, Quiet
    <3>3. QED BY <2>2, <3>2 DEF ConnectionServed
  <2>4. CASE proc'[p].step = "write_failed"
    <3>1. m \notin lost' /\ conn'[m] = "open" => registry' = m
      BY <1>1, <1>2 DEF ConnectionServed
    <3>2. QED BY <1>4, <2>2, <2>4, <3>1 DEF ConnectionServed
  <2>5. QED BY <1>6, <2>3, <2>4
<1>7. QED BY <1>4, <1>5, <1>6

\* The write of the end of a session.
LEMMA WritingServes ==
    ASSUME ServeInv, NEW p \in Procs, UsingStep(p),
           \A q \in Procs : q # p => proc'[q] = proc[q],
           NEW m \in Meetings, proc[p].sess = m,
           WriteTerminal(p) \/ WriteFailed(p) \/ FailWrite(p)
    PROVE  RecordServed(m)' /\ ConnectionServed(m)'
<1>1. /\ TypeInv /\ ConnectionServed(m) /\ lost \subseteq lost' /\ CloseIsLast
      /\ durable \in [Meetings -> Status] /\ goal[m] \in {"completed", "interrupted"}
  BY LostGrows DEF ServeInv, CountInv, OrderInv, LockInv, LocalInv, TypeInv, StoreType,
     ConnectionsServed
<1>2. conn' = conn /\ registry' = registry
  BY DEF WriteTerminal, WriteFailed, FailWrite
<1>3. m \in lost' \/ durable'[m] \notin {"streaming", "finalizing"}
  <2>1. CASE WriteTerminal(p)
    BY <1>1, <2>1, WriteTerminalEffect
  <2>2. CASE WriteFailed(p) \/ FailWrite(p)
    BY <1>1, <2>2 DEF WriteFailed, FailWrite
  <2>3. QED BY <2>1, <2>2
<1>4. RecordServed(m)'
  BY <1>3 DEF RecordServed, Settled
<1>5. CASE WriteTerminal(p)
  <2>1. conn[m] # "open"
    BY <1>1, <1>5 DEF WriteTerminal, At, CloseIsLast, Over, Quiet
  <2>2. QED BY <1>2, <1>4, <2>1 DEF ConnectionServed
<1>6. CASE WriteFailed(p)
  <2>1. m \in lost' \/ Same(p, "close_failed")
    BY <1>1, <1>6, WriteFailedEffect
  <2>2. m \notin lost' => proc'[p].step = "close_failed" /\ proc'[p].sess = m
    BY <2>1 DEF Same, Becomes
  <2>3. m \notin lost' /\ conn'[m] = "open" => registry' = m
    BY <1>1, <1>2 DEF ConnectionServed
  <2>4. QED BY <1>4, <2>2, <2>3 DEF ConnectionServed
<1>7. CASE FailWrite(p)
  <2>1. state' = state /\ proc[p].step = "fail_write"
    BY <1>7 DEF FailWrite, At, sessionVars
  <2>2. QED BY <1>2, <1>4, <2>1, ConnectionKept DEF Opening
<1>8. QED BY <1>5, <1>6, <1>7

\* Who leaves the session and who takes it down.
LEMMA DoneServes ==
    ASSUME ServeInv, NEW p \in Procs, UsingStep(p),
           \A q \in Procs : q # p => proc'[q] = proc[q],
           NEW m \in Meetings, proc[p].sess = m,
           Leave(p) \/ FailLive(p) \/ FailClose(p)
    PROVE  RecordServed(m)' /\ ConnectionServed(m)'
<1>1. /\ TypeInv /\ ConnectionServed(m) /\ Stages /\ LockMatches /\ lost \subseteq lost'
      /\ state \in [Meetings -> Status]
      /\ conn \in [Meetings -> {"none", "open", "gone", "closed"}]
  BY LostGrows DEF ServeInv, CountInv, OrderInv, LockInv, LocalInv, TypeInv, StoreType,
     ConnectionsServed
<1>2. FailLive(p) \/ FailClose(p) => conn'[m] # "open"
  BY <1>1 DEF FailLive, FailClose, Closed
<1>3. CASE Leave(p)
  <2>1. /\ UNCHANGED <<durable, state, lost, conn>> /\ proc[p].step = "collected"
        /\ Goto(p, "emit")
    BY <1>3 DEF Leave, At, sessionVars
  <2>2. proc'[p].step = "emit"
    BY <1>1, <2>1, GotoBecomes DEF Same, Becomes
  <2>3. "collected" \notin Settling \cup Opening \cup {"finalize", "write_failed", "close_failed"}
    BY DEF Settling, Opening
  <2>4. CASE Active(m)
    <3>1. registry' = registry
      BY <1>3, <2>4 DEF Leave, DiscardIfOver
    <3>2. QED BY <2>1, <2>2, <2>3, <3>1, PlainServed, ConnectionKept
  <2>5. CASE ~Active(m)
    <3>1. RecordServed(m)'
      BY <2>1, <2>5, LeavingServed
    <3>2. {"write_failed", "close_failed", "collected"} \subseteq Locking
      BY DEF Locking, Collecting
    <3>3. \A q \in Procs : proc[q].step \in {"write_failed", "close_failed"} => proc[q].sess # m
      BY <1>1, <2>1, <3>2 DEF LockMatches
    <3>4. conn[m] # "open" \/ m \in lost
      BY <1>1, <2>5, <3>3 DEF ConnectionServed
    <3>5. QED BY <2>1, <3>1, <3>4 DEF ConnectionServed
  <2>6. QED BY <2>4, <2>5
<1>4. CASE FailLive(p)
  <2>1. /\ UNCHANGED <<durable, registry>> /\ state' = [state EXCEPT ![m] = "failed"]
        /\ Goto(p, "fail_write")
    BY <1>4 DEF FailLive
  <2>2. proc'[p].step = "fail_write" /\ proc'[p].sess = m /\ ~Active(m)'
    BY <1>1, <2>1, GotoBecomes DEF Same, Becomes, Active
  <2>3. RecordServed(m)'
    BY <1>2, <1>4, <2>1, <2>2, EndingServed DEF Settling
  <2>4. QED BY <1>2, <1>4, <2>3 DEF ConnectionServed
<1>5. CASE FailClose(p)
  <2>1. UNCHANGED <<durable, state, lost>> /\ proc[p].step = "fail_close"
    BY <1>5 DEF FailClose, At, sessionVars
  <2>2. ~Active(m)
    BY <1>1, <2>1 DEF Stages
  <2>3. RecordServed(m)'
    BY <2>1, <2>2, LeavingServed
  <2>4. QED BY <1>2, <1>5, <2>3 DEF ConnectionServed
<1>6. QED BY <1>3, <1>4, <1>5

LEMMA UsingServes ==
    ASSUME ServeInv, OrderInv', NEW p \in Procs, UsingStep(p),
           \A q \in Procs : q # p => proc'[q] = proc[q]
    PROVE  RecordsServed' /\ ConnectionsServed'
<1>1. PICK m \in Meetings : proc[p].sess = m
  BY UsingMoves DEF ServeInv, CountInv, OrderInv, LockInv, LocalInv, TypeInv, UsingMove,
     UsesSession
<1>2. RecordServed(m)' /\ ConnectionServed(m)'
  BY <1>1, OpeningServes, FinalizingServes, CollectingServes, ConsumingServes, WritingServes,
     DoneServes
     DEF UsingStep, SessionStep
<1>3. \A n \in Meetings : RecordServed(n)' /\ ConnectionServed(n)'
  BY <1>1, <1>2, UsingServesOthers
<1>4. QED BY <1>3 DEF RecordsServed, ConnectionsServed

\* What the other steps leave alone: the records, who works on a session unless it is the
\* listener and no session is left, and the registry unless the session is over and
\* nobody has its lock.
LEMMA AsideLeaves ==
    ASSUME ServeInv, Overlapping = {}, NEW p \in Procs,
           \/ StartRequest(p)
           \/ \E op \in {"audio", "finish", "disconnect"} : Request(p, op)
           \/ Refuse(p) \/ Emitted(p) \/ (p = Listener /\ Listen)
    PROVE  /\ Aside /\ UNCHANGED <<durable, lost>>
           /\ \A q \in Procs : proc[q].step \in Using /\ proc'[q] # proc[q] =>
                 q = Listener /\ registry = None
           /\ registry' # registry => registry' = None /\ ~InUse /\ lock[registry] = None
           /\ lock' = lock \/ (Release(Listener) /\ proc'[Listener] = Idle)
           /\ \/ proc'[Listener] = proc[Listener] \/ proc'[Listener].step = "idle"
              \/ proc'[Listener].op = "listen" /\ proc'[Listener].step \in {"emit", "enter", "wait"}
<1>1. /\ TypeInv /\ LockInv /\ Emptied /\ OpensAlone /\ EndsLeaveNone /\ OneSession
      /\ proc \in [Procs -> Locals] /\ Listener \in Procs
  BY ProcsAre DEF ServeInv, CountInv, OrderInv, LockInv, LocalInv, TypeInv
<1>2. Aside
  BY <1>1, StartAside, RequestAside, RefuseAside, EmittedAside
<1>3. UNCHANGED <<durable, lost>>
  BY DEF StartRequest, Request, Refuse, Emitted, Listen
<1>4. {"idle", "enter", "wait", "emit", "member"} \cap Using = {}
  BY DEF Using, Locking, Collecting, Failing
<1>5. CASE StartRequest(p) \/ \E op \in {"audio", "finish", "disconnect"} : Request(p, op)
  <2>1. /\ proc[p].step = "idle" /\ p # Listener /\ lock' = lock /\ registry' = registry
    BY <1>5 DEF StartRequest, Request, At
  <2>2. \A q \in Procs : q # p => proc'[q] = proc[q]
    BY <1>1, <1>5, OthersKeep DEF OwnStep
  <2>3. QED BY <1>1, <1>2, <1>3, <1>4, <2>1, <2>2
<1>6. CASE Refuse(p)
  <2>1. /\ proc[p].step \in {"enter", "wait"} /\ lock' = lock /\ Refused(p)
        /\ lock[proc[p].key] = None
        /\ \/ proc[p].op = "disconnect" /\ registry' = None
           \/ registry' = registry /\ Stop(p)
    BY <1>6 DEF Refuse, Turn, At
  <2>2. \A q \in Procs : q # p => proc'[q] = proc[q]
    BY <1>1, <1>6, OthersKeep DEF OwnStep
  <2>3. p = Listener => proc'[p].step = "idle"
    <3>1. p = Listener => proc[p].op = "listen"
      BY <1>1, <2>1 DEF OneSession
    <3>2. QED BY <1>1, <1>6, <3>1, StopEffect, IdleFields DEF Refuse
  <2>4. registry' # registry => registry' = None /\ ~InUse /\ lock[registry] = None
    BY <1>1, <2>1 DEF Refused, InUse, LockInv, AsksForCurrent
  <2>5. QED BY <1>1, <1>2, <1>3, <1>4, <2>1, <2>2, <2>3, <2>4
<1>7. CASE Emitted(p) \/ (p = Listener /\ Listen)
  <2>1. proc[p].step = "emit" /\ registry' = registry
    BY <1>7 DEF Emitted, Listen, At
  <2>2. /\ \A q \in Procs \ {p, Listener} : proc'[q] = proc[q]
        /\ proc'[Listener] = proc[Listener] \/ proc'[Listener] = Idle \/ Restarts
    BY <1>1, <1>7, EmittedEffect
  <2>3. ASSUME proc[Listener].step \in Using, proc'[Listener] # proc[Listener]
        PROVE  registry = None
    <3>1. p # Listener /\ Emitted(p)
      BY <1>4, <1>7, <2>1, <2>3
    <3>2. proc[p].op \in {"finish", "disconnect"}
      <4>1. Listening
        BY <1>4, <2>3 DEF Listening
      <4>2. proc[p].op \in {"start", "audio"} =>
               \/ proc' = [proc EXCEPT ![p] = Idle, ![Listener] = proc[Listener]]
               \/ proc' = [proc EXCEPT ![p] = Idle]
        BY <1>1, <3>1, <4>1 DEF Emitted, Stop
      <4>3. proc[p].op \in {"start", "audio"} => proc'[Listener] = proc[Listener]
        BY <1>1, <3>1, <4>2
      <4>4. QED BY <2>3, <3>1, <4>3 DEF Emitted
    <3>3. QED BY <1>1, <2>1, <3>2 DEF EndsLeaveNone
  <2>4. lock' = lock \/ (Release(Listener) /\ proc'[Listener] = Idle)
    <3>1. Listen => lock' = lock
      BY DEF Listen
    <3>2. ASSUME Emitted(p), lock' # lock PROVE Release(Listener) /\ proc'[Listener] = Idle
      <4>1. p # Listener /\ proc' = [proc EXCEPT ![p] = Idle, ![Listener] = Idle]
            /\ Release(Listener)
        BY <3>2 DEF Emitted
      <4>2. QED BY <1>1, <4>1
    <3>3. QED BY <1>7, <3>1, <3>2
  <2>5. \/ proc'[Listener] = proc[Listener] \/ proc'[Listener].step = "idle"
        \/ proc'[Listener].op = "listen" /\ proc'[Listener].step \in {"emit", "enter", "wait"}
    BY <2>2, IdleFields DEF Restarts
  <2>6. \A q \in Procs : proc[q].step \in Using /\ proc'[q] # proc[q] =>
                 q = Listener /\ registry = None
    BY <1>4, <2>1, <2>2, <2>3
  <2>7. QED BY <1>2, <1>3, <2>1, <2>4, <2>5, <2>6
<1>8. QED BY <1>5, <1>6, <1>7

LEMMA AsideStarts ==
    ASSUME ServeInv, Overlapping = {}, NEW p \in Procs,
           \/ StartRequest(p)
           \/ \E op \in {"audio", "finish", "disconnect"} : Request(p, op)
           \/ Refuse(p) \/ Emitted(p) \/ (p = Listener /\ Listen)
    PROVE  Starts'
<1>1. /\ TypeInv /\ LockInv /\ OneSession /\ Starts /\ EndsLeaveNone
      /\ proc \in [Procs -> Locals] /\ Listener \in Procs
  BY ProcsAre DEF ServeInv, CountInv, OrderInv, LockInv, LocalInv, TypeInv
<1>2. {"idle", "enter", "wait", "emit"} \cap Opening = {} /\ "member" \in Opening
  BY DEF Opening
<1>3. CASE StartRequest(p)
  <2>1. /\ \A q \in Procs : proc[q].step = "idle"
        /\ proc' = [proc EXCEPT ![p].step = "member", ![p].op = "start"]
    BY <1>3 DEF StartRequest
  <2>2. proc'[p].step = "member" /\ \A q \in Procs : q # p => proc'[q].step = "idle"
    BY <1>1, <2>1 DEF Locals
  <2>3. QED BY <1>2, <2>2 DEF Starts
<1>4. ASSUME NEW op \in {"audio", "finish", "disconnect"}, Request(p, op) PROVE Starts'
  <2>1. \A h \in Handlers : proc[h].step \notin Opening
    BY <1>4 DEF Request
  <2>2. \A q \in Procs : proc[q].step \notin Opening
    <3>1. proc[Listener].step \notin Opening
      BY <1>1, <1>2 DEF OneSession, EndsLeaveNone
    <3>2. QED BY <2>1, <3>1 DEF Procs
  <2>3. \/ proc' = [proc EXCEPT ![p].step = Entry(registry), ![p].op = op, ![p].key = registry]
        \/ proc' = [proc EXCEPT ![p].step = "emit", ![p].op = op]
    BY <1>4 DEF Request
  <2>4. Entry(registry) \in {"enter", "wait"}
    BY DEF Entry
  <2>5. proc'[p].step \in {"enter", "wait", "emit"} /\ \A q \in Procs : q # p => proc'[q] = proc[q]
    BY <1>1, <2>3, <2>4 DEF Locals
  <2>6. QED BY <1>2, <2>2, <2>5 DEF Starts
<1>5. CASE Refuse(p) \/ Emitted(p) \/ (p = Listener /\ Listen)
  <2>1. proc[p].step \in {"enter", "wait", "emit"}
    BY <1>5 DEF Refuse, Turn, Emitted, Listen, At
  <2>2. \A q \in Procs : proc[q].step \notin Opening
    BY <1>1, <1>2, <2>1 DEF Starts
  <2>3. \A q \in Procs : proc'[q].step \notin Opening
    <3>1. CASE Refuse(p)
      <4>1. Goto(p, "emit") \/ Stop(p)
        BY <3>1 DEF Refuse
      <4>2. proc'[p].step \in {"emit", "idle"}
        BY <1>1, <4>1, GotoBecomes, StopEffect, IdleFields DEF Same, Becomes
      <4>3. \A q \in Procs : q # p => proc'[q] = proc[q]
        BY <1>1, <3>1, OthersKeep DEF OwnStep
      <4>4. QED BY <1>2, <2>2, <4>2, <4>3
    <3>2. CASE Emitted(p) \/ (p = Listener /\ Listen)
      BY <1>1, <1>2, <2>2, <3>2, EmittedEffect, IdleFields DEF Restarts
    <3>3. QED BY <1>5, <3>1, <3>2
  <2>4. QED BY <2>3 DEF Starts
<1>6. QED BY <1>3, <1>4, <1>5

LEMMA AsideServes ==
    ASSUME ServeInv, Overlapping = {}, NEW p \in Procs,
           \/ StartRequest(p)
           \/ \E op \in {"audio", "finish", "disconnect"} : Request(p, op)
           \/ Refuse(p) \/ Emitted(p) \/ (p = Listener /\ Listen)
    PROVE  OneSession' /\ Stages' /\ RecordsServed' /\ ConnectionsServed'
<1>1. /\ TypeInv /\ LockInv /\ LockMatches /\ OneSession /\ Stages /\ RecordsServed
      /\ ConnectionsServed /\ UsesSession /\ Listener \in Procs
      /\ None \notin Meetings \cup Procs
  BY ProcsAre
     DEF ServeInv, CountInv, OrderInv, LockInv, LocalInv, TypeInv
<1>2. /\ UNCHANGED <<durable, state, conn, lost>> /\ registry' \in {registry, None}
      /\ \A q \in Procs : proc'[q] = proc[q] \/ proc'[q].step \notin Using
      /\ \A q \in Procs : proc[q].step \in Using /\ proc'[q] # proc[q] =>
            q = Listener /\ registry = None
      /\ registry' # registry => registry' = None /\ ~InUse /\ lock[registry] = None
      /\ lock' = lock \/ (Release(Listener) /\ proc'[Listener] = Idle)
      /\ \/ proc'[Listener] = proc[Listener] \/ proc'[Listener].step = "idle"
         \/ proc'[Listener].op = "listen" /\ proc'[Listener].step \in {"emit", "enter", "wait"}
  BY AsideLeaves DEF Aside
<1>3. /\ {"write_finalizing", "finalize", "fail_write", "fail_close", "write_failed",
          "close_failed"} \cup Settling \subseteq Using
      /\ "idle" \notin Using /\ {"write_failed", "close_failed"} \subseteq Locking
  BY DEF Using, Locking, Collecting, Failing, Settling
<1>4. \A m \in Meetings : Active(m)' <=> Active(m)
  BY <1>2 DEF Active
<1>5. OneSession'
  <2>1. (\A q \in Procs : proc[q].step \in Using => registry \in {proc[q].sess, None})'
    BY <1>1, <1>2 DEF OneSession
  <2>2. (proc[Listener].step \in Using => lock[proc[Listener].sess] = Listener)'
    BY <1>1, <1>2, <1>3, IdleFields DEF OneSession
  <2>3. (/\ proc[Listener].step # "idle" => proc[Listener].op = "listen"
         /\ proc[Listener].step \notin {"send", "write_finalizing", "finalize"})'
    BY <1>1, <1>2 DEF OneSession
  <2>4. (\A m \in Meetings : state[m] = "none" => durable[m] = "none")'
    BY <1>1, <1>2 DEF OneSession
  <2>5. ASSUME NEW m \in Meetings, Active(m), durable[m] # "none" PROVE registry' = m
    BY <1>1, <1>2, <2>5 DEF OneSession, InUse
  <2>6. (\A m \in Meetings : Active(m) /\ durable[m] # "none" => registry = m)'
    BY <1>2, <1>4, <2>5 DEF Active
  <2>7. QED BY <2>1, <2>2, <2>3, <2>4, <2>6 DEF OneSession
<1>6. Stages'
  BY <1>1, <1>2, <1>3 DEF Stages, Active
<1>7. ASSUME NEW m \in Meetings PROVE RecordServed(m)' /\ ConnectionServed(m)'
  <2>1. RecordServed(m) /\ ConnectionServed(m)
    BY <1>1 DEF RecordsServed, ConnectionsServed
  <2>2. \A q \in Procs : proc[q].step \in Using /\ (q # Listener \/ registry = m) =>
            proc'[q] = proc[q]
    BY <1>1, <1>2
  <2>3. \A q \in Procs : Settles(q, m) /\ (q # Listener \/ registry = m) => Settles(q, m)'
    BY <1>2, <1>3, <2>2 DEF Settles
  <2>4. registry = m /\ registry' # m => ~Active(m) /\ lock[m] = None
    BY <1>1, <1>2 DEF InUse
  <2>5. \A q \in Procs : proc[q].step = "fail_close" /\ proc[q].sess # m =>
            (proc'[q].step = "fail_close" => proc'[q].sess # m)
    BY <1>2, <1>3
  <2>6. \A q \in Procs : proc'[q].step = "fail_close" => proc[q].step = "fail_close"
    BY <1>2, <1>3
  <2>7. Clear(m) /\ registry' = m => Clear(m)'
    BY <2>5, <2>6 DEF Clear
  <2>8. Clear(m) /\ Settles(Listener, m) => registry' = m
    <3> SUFFICES ASSUME Clear(m), Settles(Listener, m), registry' # m PROVE FALSE
      OBVIOUS
    <3>1. proc[Listener].step \in Using /\ proc[Listener].sess = m /\ registry = m
      BY <1>3 DEF Settles, Clear
    <3>2. lock[m] = Listener /\ lock[m] = None
      BY <1>1, <2>4, <3>1 DEF OneSession
    <3>3. QED BY <1>1, <3>2
  <2>9. RecordServed(m)'
    <3>1. CASE Settled(m)
      BY <1>2, <3>1 DEF RecordServed, Settled
    <3>2. CASE Active(m) /\ registry = m
      BY <1>4, <2>4, <3>2 DEF RecordServed
    <3>3. CASE Clear(m) /\ Settles(Listener, m)
      BY <1>1, <2>3, <2>7, <2>8, <3>3 DEF RecordServed, Clear
    <3>4. CASE ~Active(m) /\ \E q \in Procs \ {Listener} : Settles(q, m)
      BY <1>4, <2>3, <3>4 DEF RecordServed
    <3>5. QED BY <2>1, <3>1, <3>2, <3>3, <3>4 DEF RecordServed
  <2>10. ConnectionServed(m)'
    <3> SUFFICES ASSUME m \notin lost, conn[m] = "open"
                 PROVE  ConnectionServed(m)'
      BY <1>2 DEF ConnectionServed
    <3>1. registry = m
      BY <2>1 DEF ConnectionServed
    <3>2. CASE Active(m)
      BY <1>4, <2>4, <3>1, <3>2 DEF ConnectionServed
    <3>3. CASE ~Active(m)
      <4>1. PICK q \in Procs : proc[q].sess = m /\ proc[q].step \in {"write_failed", "close_failed"}
        BY <2>1, <3>3 DEF ConnectionServed
      <4>2. proc'[q] = proc[q] /\ lock[m] = q
        BY <1>1, <1>3, <2>2, <3>1, <4>1 DEF LockMatches
      <4>3. registry' = m
        BY <1>1, <2>4, <3>1, <4>2
      <4>4. QED BY <4>1, <4>2, <4>3 DEF ConnectionServed
    <3>4. QED BY <3>2, <3>3
  <2>11. QED BY <2>9, <2>10
<1>8. QED BY <1>5, <1>6, <1>7 DEF RecordsServed, ConnectionsServed

\* A start finds no session that is not over; who takes a lock finds one.
LEMMA TakingServes ==
    ASSUME ServeInv, LockInv', NEW p \in Procs, Member(p) \/ Acquire(p)
    PROVE  Starts' /\ OneSession' /\ Stages' /\ RecordsServed' /\ ConnectionsServed'
<1>1. /\ TypeInv /\ LockInv /\ LockMatches /\ BeforeOpen /\ Starts /\ OneSession /\ Stages
      /\ RecordsServed /\ ConnectionsServed /\ UsesSession /\ Listener \in Procs
      /\ OneStart /\ EndsLeaveNone
      /\ proc \in [Procs -> Locals] /\ state \in [Meetings -> Status]
      /\ lock \in [Meetings -> Procs \cup {None}] /\ None \notin Meetings \cup Procs
  BY ProcsAre
     DEF ServeInv, CountInv, OrderInv, LockInv, LocalInv, TypeInv, StoreType
<1>2. /\ {"write_finalizing", "finalize", "fail_write", "fail_close", "write_failed",
          "close_failed"} \cup Settling \subseteq Using
      /\ "idle" \notin Using /\ "idle" \notin Opening /\ "member" \in Opening
      /\ "create" \in Opening /\ "create" \notin Settling
  BY DEF Using, Locking, Collecting, Failing, Settling, Opening
<1>3. CASE Member(p)
  <2>1. /\ proc[p].step = "member" /\ ~InUse /\ p # Listener
        /\ UNCHANGED <<lock, durable, conn, lost>>
    BY <1>1, <1>3 DEF Member, At, OneStart
  <2>2. PICK m \in Meetings : /\ state[m] = "none" /\ registry' = m
                              /\ state' = [state EXCEPT ![m] = "streaming"]
                              /\ proc' = [proc EXCEPT ![p].step = "create", ![p].sess = m]
    BY <1>3, <2>1 DEF Member
  <2>3. /\ proc'[p].step = "create" /\ proc'[p].sess = m
        /\ \A q \in Procs : q # p => proc[q].step = "idle" /\ proc'[q].step = "idle"
        /\ proc'[Listener] = proc[Listener]
    BY <1>1, <1>2, <2>1, <2>2 DEF Locals, Starts
  <2>4. conn[m] = "none" /\ durable[m] = "none" /\ state'[m] = "streaming"
        /\ \A n \in Meetings \ {m} : state'[n] = state[n]
    BY <1>1, <2>2 DEF BeforeOpen, OneSession
  <2>5. \A q \in Procs : proc[q].step \in {"idle", "member"}
    BY <2>1, <2>3
  <2>6. Starts'
    BY <2>1, <2>2, <2>3, <2>4, <1>2 DEF Starts
  <2>7. \A n \in Meetings : Active(n) => registry # n
    BY <2>1, <1>1 DEF InUse
  <2>8. OneSession'
    <3>1. \A q \in Procs : proc'[q].step \in Using => q = p
      BY <1>2, <2>3
    <3>2. (\A n \in Meetings : state[n] = "none" => durable[n] = "none")'
      BY <1>1, <2>1, <2>4 DEF OneSession
    <3>3. ASSUME NEW n \in Meetings, Active(n)', durable'[n] # "none" PROVE registry' = n
      <4>1. n # m
        BY <2>1, <2>4, <3>3
      <4>2. Active(n) /\ durable[n] # "none"
        BY <2>1, <2>4, <3>3, <4>1 DEF Active
      <4>3. QED BY <1>1, <2>7, <4>2 DEF OneSession
    <3>4. (\A n \in Meetings : Active(n) /\ durable[n] # "none" => registry = n)'
      BY <3>3 DEF Active
    <3>5. QED BY <1>1, <2>1, <2>2, <2>3, <3>1, <3>2, <3>4 DEF OneSession
  <2>9. Stages'
    BY <1>2, <2>3 DEF Stages
  <2>10. ASSUME NEW n \in Meetings PROVE RecordServed(n)' /\ ConnectionServed(n)'
    <3>1. CASE n = m
      BY <2>1, <2>4, <3>1 DEF RecordServed, Settled, ConnectionServed
    <3>2. CASE n # m
      <4>1. RecordServed(n) /\ ConnectionServed(n)
        BY <1>1 DEF RecordsServed, ConnectionsServed
      <4>2. \A q \in Procs : ~Settles(q, n)
        BY <2>5 DEF Settles, Settling
      <4>3. Settled(n)
        BY <1>1, <2>7, <4>1, <4>2 DEF RecordServed
      <4>4. RecordServed(n)'
        BY <2>1, <4>3 DEF RecordServed, Settled
      <4>5. ConnectionServed(n)'
        BY <2>1, <2>5, <2>7, <4>1 DEF ConnectionServed
      <4>6. QED BY <4>4, <4>5
    <3>3. QED BY <3>1, <3>2
  <2>11. QED BY <2>6, <2>8, <2>9, <2>10 DEF RecordsServed, ConnectionsServed
<1>4. CASE Acquire(p)
  <2>1. /\ proc[p].step \in {"enter", "wait"} /\ UNCHANGED <<registry, durable, conn, lost>>
        /\ registry \in Meetings /\ lock[registry] = None
        /\ lock' = [lock EXCEPT ![registry] = p]
        /\ proc'[p].sess = registry /\ proc'[p].op = proc[p].op
        /\ \/ /\ proc'[p].step \in {"send", "collect"} /\ state' = state
              /\ proc[p].op \in {"audio", "listen"}
              /\ proc'[p].step = "collect" => proc[p].op = "listen"
           \/ /\ proc'[p].step \in {"finalize", "write_finalizing"}
              /\ proc[p].op \in {"finish", "disconnect"}
              /\ state' = [state EXCEPT ![registry] = "finalizing"] /\ InUse
        /\ \A q \in Procs \ {p} : proc'[q] = proc[q]
    BY <1>1, <1>4, AcquireEffect DEF Acquire
  <2>2. proc[p].step \notin Using \cup Opening
        /\ {"send", "collect", "finalize", "write_finalizing"} \cap
              (Opening \cup {"fail_write", "fail_close"} \cup Settling) = {}
    BY <2>1 DEF Using, Locking, Collecting, Failing, Opening, Settling
  <2>3. \A n \in Meetings : (Active(n)' <=> Active(n)) /\ (state'[n] = "none" => state[n] = "none")
    BY <1>1, <2>1 DEF Active, InUse
  <2>4. \A q \in Procs : proc[q].step \notin Opening /\ proc'[q].step \notin Opening
    <3>1. \A q \in Procs : proc[q].step \notin Opening
      BY <1>1, <2>1, <2>2 DEF Starts
    <3>2. QED BY <2>1, <2>2, <3>1
  <2>5. Starts'
    BY <2>4 DEF Starts
  <2>6. OneSession'
    <3>1. (\A q \in Procs : proc[q].step \in Using => registry \in {proc[q].sess, None})'
      BY <1>1, <2>1 DEF OneSession
    <3>2. (proc[Listener].step \in Using => lock[proc[Listener].sess] = Listener)'
      <4>1. CASE p = Listener
        BY <1>1, <2>1, <4>1
      <4>2. CASE p # Listener
        BY <1>1, <2>1, <4>2 DEF OneSession, UsesSession
      <4>3. QED BY <4>1, <4>2
    <3>3. p = Listener => proc[p].op = "listen"
      BY <1>1, <2>1 DEF OneSession
    <3>4. (/\ proc[Listener].step # "idle" => proc[Listener].op = "listen"
           /\ proc[Listener].step \notin {"send", "write_finalizing", "finalize"})'
      <4>1. CASE p = Listener
        <5>1. proc'[p].step = "collect" /\ proc'[p].op = "listen"
          <6>1. proc[p].op = "listen"
            BY <3>3, <4>1
          <6>2. state' = state \/ proc[p].op \in {"finish", "disconnect"}
            BY <2>1
          <6>3. proc'[p].step \in {"send", "collect"}
            BY <2>1, <6>1
          <6>4. proc'[p].step # "send"
            BY <1>4, <6>1, <1>1 DEF Acquire, Locals
          <6>5. QED BY <2>1, <6>1, <6>3, <6>4
        <5>2. QED BY <4>1, <5>1
      <4>2. CASE p # Listener
        BY <1>1, <2>1, <4>2 DEF OneSession
      <4>3. QED BY <4>1, <4>2
    <3>5. (\A n \in Meetings : state[n] = "none" => durable[n] = "none")'
      BY <1>1, <2>1, <2>3 DEF OneSession
    <3>6. (\A n \in Meetings : Active(n) /\ durable[n] # "none" => registry = n)'
      BY <1>1, <2>1, <2>3 DEF OneSession, Active
    <3>7. QED BY <3>1, <3>2, <3>4, <3>5, <3>6 DEF OneSession
  <2>7. Stages'
    <3>1. ASSUME NEW q \in Procs, q # p
          PROVE  /\ proc'[q].step = "write_finalizing" => durable'[proc'[q].sess] # "none"
                 /\ proc'[q].step \in {"write_finalizing", "finalize"} =>
                       \/ state'[proc'[q].sess] \in {"streaming", "finalizing"}
                       \/ conn'[proc'[q].sess] # "open"
                 /\ proc'[q].step \in {"fail_write", "fail_close"} =>
                       state'[proc'[q].sess] \notin {"streaming", "finalizing"}
      <4>1. proc'[q] = proc[q] /\ (proc[q].step \in Using => proc[q].sess \in Meetings)
        BY <1>1, <2>1, <3>1 DEF UsesSession
      <4>2. QED BY <1>1, <1>2, <2>1, <2>3, <4>1 DEF Stages, Active
    <3>2. /\ proc'[p].step = "write_finalizing" => durable'[proc'[p].sess] # "none"
          /\ proc'[p].step \in {"write_finalizing", "finalize"} =>
                       state'[proc'[p].sess] = "finalizing"
          /\ proc'[p].step \notin {"fail_write", "fail_close"}
      <4>1. proc'[p].step = "write_finalizing" => durable[registry] # "none"
        BY <1>1, <1>4 DEF Acquire, Locals
      <4>2. QED BY <1>1, <2>1, <4>1
    <3>3. QED BY <3>1, <3>2 DEF Stages, Active
  <2>8. ASSUME NEW n \in Meetings PROVE RecordServed(n)' /\ ConnectionServed(n)'
    <3>1. RecordServed(n) /\ ConnectionServed(n)
      BY <1>1 DEF RecordsServed, ConnectionsServed
    <3>2. \A q \in Procs : Settles(q, n) => Settles(q, n)'
      BY <1>2, <2>1, <2>2 DEF Settles
    <3>3. Clear(n) => Clear(n)'
      BY <2>1, <2>2 DEF Clear
    <3>4. RecordServed(n)'
      BY <1>1, <2>1, <2>3, <3>1, <3>2, <3>3 DEF RecordServed, Settled
    <3>5. ConnectionServed(n)'
      BY <1>2, <2>1, <2>2, <2>3, <3>1 DEF ConnectionServed
    <3>6. QED BY <3>4, <3>5
  <2>9. QED BY <2>5, <2>6, <2>7, <2>8 DEF RecordsServed, ConnectionsServed
<1>5. QED BY <1>3, <1>4

LEMMA ProviderServes ==
    ASSUME ServeInv, NEW m \in Meetings, NEW e \in ProviderEvents, Provider(m, e)
    PROVE  Starts' /\ OneSession' /\ Stages' /\ RecordsServed' /\ ConnectionsServed'
<1>1. /\ UNCHANGED <<registry, lock, state, durable, proc, lost>>
      /\ conn \in [Meetings -> {"none", "open", "gone", "closed"}]
      /\ conn' = conn \/ conn' = [conn EXCEPT ![m] = "gone"]
      /\ UsesSession
  BY DEF Provider, sessionVars, ServeInv, CountInv, OrderInv, LockInv, LocalInv, TypeInv,
     StoreType
<1>2. \A n \in Meetings : conn'[n] = "open" => conn[n] = "open"
  BY <1>1
<1>3. \A n \in Meetings : Active(n)' <=> Active(n)
  BY <1>1 DEF Active
<1>4. Starts' /\ OneSession'
  BY <1>1, <1>3 DEF ServeInv, Starts, OneSession, Active
<1>5. Stages'
  <2>1. {"write_finalizing", "finalize"} \subseteq Using
    BY DEF Using, Locking
  <2>2. QED BY <1>1, <1>2, <2>1 DEF ServeInv, Stages, Active, UsesSession
<1>6. ASSUME NEW n \in Meetings PROVE RecordServed(n)' /\ ConnectionServed(n)'
  <2>1. RecordServed(n) /\ ConnectionServed(n)
    BY DEF ServeInv, RecordsServed, ConnectionsServed
  <2>2. \A q \in Procs : Settles(q, n) => Settles(q, n)'
    BY <1>1, <1>2 DEF Settles
  <2>3. RecordServed(n)'
    BY <1>1, <1>3, <2>1, <2>2, ProcsAre DEF RecordServed, Settled, Clear
  <2>4. ConnectionServed(n)'
    BY <1>1, <1>2, <1>3, <2>1 DEF ConnectionServed
  <2>5. QED BY <2>3, <2>4
<1>7. QED BY <1>4, <1>5, <1>6 DEF RecordsServed, ConnectionsServed

LEMMA InitServeInv == Init => ServeInv
<1> SUFFICES ASSUME Init PROVE ServeInv
  OBVIOUS
<1>1. CountInv
  BY InitCountInv
<1>2. \A p \in Procs : proc[p].step = "idle"
  BY IdleFields DEF Init
<1>3. "idle" \notin Opening \cup Using /\ Listener \in Procs
  BY ProcsAre DEF Opening, Using, Locking, Collecting, Failing
<1>4. Starts /\ OneSession /\ Stages
  BY <1>2, <1>3 DEF Init, Starts, OneSession, Stages, Active
<1>5. RecordsServed /\ ConnectionsServed
  BY DEF Init, RecordsServed, RecordServed, Settled, ConnectionsServed, ConnectionServed
<1>6. QED BY <1>1, <1>4, <1>5 DEF ServeInv

LEMMA StepServeInv ==
    ASSUME Overlapping = {} PROVE ServeInv /\ [Next]_vars => ServeInv'
<1> SUFFICES ASSUME ServeInv, [Next]_vars PROVE ServeInv'
  OBVIOUS
<1> DEFINE Keeps == Starts' /\ OneSession' /\ Stages' /\ RecordsServed' /\ ConnectionsServed'
<1>1. CountInv /\ TypeInv
  BY DEF ServeInv, CountInv, OrderInv, LockInv, LocalInv
<1>2. CountInv'
  BY <1>1, StepCountInv
<1>3. OrderInv' /\ LockInv'
  BY <1>2 DEF CountInv, OrderInv
<1>4. ASSUME UNCHANGED vars PROVE Keeps
  BY <1>4 DEF vars, sessionVars, ServeInv, Starts, OneSession, Stages, RecordsServed,
     RecordServed, Settled, Clear, Settles, ConnectionsServed, ConnectionServed, Active
<1>5. ASSUME NEW p \in Procs, UsingStep(p) PROVE Keeps
  <2>1. \A q \in Procs : q # p => proc'[q] = proc[q]
    BY <1>1, <1>5, OthersKeep DEF UsingStep, OwnStep
  <2>2. QED BY <1>3, <1>5, <2>1, UsingKeepsStarts, UsingKeepsSession, UsingKeepsStages,
               UsingServes
<1>6. ASSUME NEW p \in Procs,
             \/ StartRequest(p)
             \/ \E op \in {"audio", "finish", "disconnect"} : Request(p, op)
             \/ Refuse(p) \/ Emitted(p) \/ (p = Listener /\ Listen)
      PROVE  Keeps
  BY <1>6, AsideStarts, AsideServes
<1>7. ASSUME NEW p \in Procs, Member(p) \/ Acquire(p) PROVE Keeps
  BY <1>3, <1>7, TakingServes
<1>8. ASSUME Next PROVE Keeps
  <2>1. \A h \in Handlers : h \in Procs
    BY ProcsAre
  <2>2. CASE \E h \in Handlers : StartRequest(h)
    BY <1>6, <2>1, <2>2
  <2>3. CASE \E h \in Handlers, op \in {"audio", "finish", "disconnect"} : Request(h, op)
    BY <1>6, <2>1, <2>3
  <2>4. CASE \E p \in Procs : Refuse(p) \/ Acquire(p) \/ SessionStep(p)
    BY <1>5, <1>6, <1>7, <2>4 DEF UsingStep
  <2>5. CASE Listen
    BY <1>6, <2>5, ProcsAre
  <2>6. CASE \E m \in Meetings, e \in ProviderEvents : Provider(m, e)
    BY <2>6, ProviderServes
  <2>7. QED BY <1>8, <2>2, <2>3, <2>4, <2>5, <2>6 DEF Next
<1>9. QED BY <1>2, <1>4, <1>8 DEF ServeInv

\* A meeting with a record that is not terminal is the one of the socket or in the hands
\* of a coroutine, whatever fails and whenever the client finishes or goes, as long as no
\* request overlaps a start.
THEOREM NoMeetingAbandonedCorrect ==
    ASSUME Overlapping = {} PROVE Spec => []NoMeetingAbandoned
<1>1. ServeInv => NoMeetingAbandoned
  <2> SUFFICES ASSUME ServeInv, NEW m \in Meetings \ lost,
                      durable[m] \in {"streaming", "finalizing"}
               PROVE  registry = m \/ \E p \in Procs : proc[p].sess = m
    BY DEF NoMeetingAbandoned
  <2>1. RecordServed(m)
    BY DEF ServeInv, RecordsServed
  <2>2. QED BY <2>1 DEF RecordServed, Settled, Clear, Settles
<1>2. QED BY <1>1, InitServeInv, StepServeInv, PTL DEF Spec

\* An open provider connection belongs to the session of the socket or to one a coroutine
\* works on, unless a write of the session's record failed.
THEOREM NoConnectionLeaksCorrect ==
    ASSUME Overlapping = {} PROVE Spec => []NoConnectionLeaks
<1>1. ServeInv => NoConnectionLeaks
  <2> SUFFICES ASSUME ServeInv, NEW m \in Meetings \ lost, conn[m] = "open"
               PROVE  registry = m \/ \E p \in Procs : proc[p].sess = m
    BY DEF NoConnectionLeaks
  <2>1. ConnectionServed(m)
    BY DEF ServeInv, ConnectionsServed
  <2>2. QED BY <2>1 DEF ConnectionServed
<1>2. QED BY <1>1, InitServeInv, StepServeInv, PTL DEF Spec
=============================================================================
