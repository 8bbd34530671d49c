-------------------------- MODULE AgentConversations --------------------------
(****************************************************************************)
(* One conversation with an assistant, from the request that stores a user  *)
(* turn to the background task that answers it (send_message and            *)
(* process_agent_response).  Nothing serializes the turns of a              *)
(* conversation: a user may send the next message while an answer is still  *)
(* being produced.                                                          *)
(*                                                                          *)
(* Two runtimes share this shape.  The stock agent and the lead agent keep  *)
(* the dialogue in a LangGraph thread: a run starts from the thread's       *)
(* latest checkpoint, writes a checkpoint after every step, and the last    *)
(* one written is the latest.  The chat workflow has no thread: it is given *)
(* the stored messages, oldest first, up to a limit.                        *)
(*                                                                          *)
(* A text is the turn whose request it answers.                             *)
(****************************************************************************)
EXTENDS Naturals, Sequences, FiniteSets, SequencesExt

CONSTANTS
    Runtime,        \* "agent" or "chat"
    Turns,
    None,
    HistoryLimit,   \* messages the chat workflow is given (100 in the code)
    MaxCalls,       \* bound on the tool calls of a run
    MaxFaults       \* bound on failed calls and crashes

VARIABLES
    conversation,   \* its document: exists or not, message_count
    messages,       \* stored messages, in the order of created_at
    checkpoint,     \* latest checkpoint of the thread
    turn,           \* per turn: next step, the messages of its run, its answer
    shown,          \* per turn: kinds of socket events sent
    faults,         \* failures so far
    uncounted,      \* history: stored messages whose count update was lost
    overlapped,     \* history: turns that ran while another turn did
    excused         \* history: turns whose run gave no text or saw no request

conversationVars == <<conversation, messages, checkpoint, turn, shown, faults,
                      uncounted, overlapped, excused>>

Tools == {"lookup", "write_todos", "delegate_tasks"}
Kinds == {"user", "text", "empty", "call", "result"}
Steps == {"absent", "insert", "count", "queued", "load", "run", "tool", "final",
          "store", "count_answer", "emit_completed", "emit_failed", "ended"}
Running == {"run", "tool", "final"}
Serving == {"queued", "load", "store", "count_answer", "emit_completed", "emit_failed"}
               \cup Running

IsAgent == Runtime = "agent"
EmptyThread == [messages |-> <<>>, todos |-> None]
Said(t, kind) == [turn |-> t, kind |-> kind]
NewTurn == [pc |-> "absent", run |-> EmptyThread, tool |-> None, of |-> None]

At(t, step) == turn[t].pc = step
Goto(t, step) == turn' = [turn EXCEPT ![t].pc = step]
Show(t, kinds) == shown' = [shown EXCEPT ![t] = @ \cup kinds]
Fault == faults < MaxFaults /\ faults' = faults + 1
Calls(t) == Cardinality({i \in DOMAIN turn[t].run.messages :
                            turn[t].run.messages[i] = Said(t, "call")})

Init ==
    /\ conversation = [exists |-> FALSE, count |-> 0]
    /\ messages = <<>>
    /\ checkpoint = EmptyThread
    /\ turn = [t \in Turns |-> NewTurn]
    /\ shown = [t \in Turns |-> {}]
    /\ faults = 0
    /\ uncounted = 0
    /\ overlapped = {}
    /\ excused = {}

-----------------------------------------------------------------------------
(* The request: send_message.                                               *)

\* The first message seeds the thread, asks for a title (falling back to the
\* text) and creates the conversation; a later one finds and checks them.
Send(t) ==
    /\ At(t, "absent")
    /\ conversation' = [conversation EXCEPT !.exists = TRUE]
    /\ Goto(t, "insert")
    /\ UNCHANGED <<messages, checkpoint, shown, faults, uncounted, overlapped, excused>>

\* In the chat runtime a request stored now is the newest one for every turn
\* that has yet to load the history.
InsertUserMessage(t) ==
    /\ At(t, "insert")
    /\ messages' = Append(messages, [turn |-> t, role |-> "user", of |-> t])
    /\ overlapped' = IF IsAgent THEN overlapped
                     ELSE overlapped \cup {u \in Turns : turn[u].pc \in {"count", "queued", "load"}}
    /\ Goto(t, "count")
    /\ UNCHANGED <<conversation, checkpoint, shown, faults, uncounted, excused>>

\* increment_message_count is a second update; the response is sent and the
\* background task starts only after it.
CountUserMessage(t) ==
    /\ At(t, "count")
    /\ conversation' = [conversation EXCEPT !.count = @ + 1]
    /\ Goto(t, "queued")
    /\ UNCHANGED <<messages, checkpoint, shown, faults, uncounted, overlapped, excused>>

\* A failing request leaves what it stored: a message nobody will answer.
RequestFails(t) ==
    /\ turn[t].pc \in {"insert", "count"}
    /\ Fault
    /\ uncounted' = IF At(t, "count") THEN uncounted + 1 ELSE uncounted
    /\ Goto(t, "ended")
    /\ UNCHANGED <<conversation, messages, checkpoint, shown, overlapped, excused>>

-----------------------------------------------------------------------------
(* The background task: process_agent_response.                             *)

EmitStarted(t) ==
    /\ At(t, "queued")
    /\ Show(t, {"started"})
    /\ Goto(t, "load")
    /\ UNCHANGED <<conversation, messages, checkpoint, faults, uncounted, overlapped,
                   excused>>

Request(t) == [turn |-> t, role |-> "user", of |-> t]

\* The caller's thread and the accepted message are looked up again, the turn's
\* payload resets the skills, and the run starts: the latest checkpoint and
\* the request.  Its first checkpoint holds the request.
BeginRun(t) ==
    /\ IsAgent
    /\ At(t, "load")
    /\ Contains(messages, Request(t))
    /\ LET run == [checkpoint EXCEPT !.messages = Append(@, Said(t, "user"))] IN
        /\ turn' = [turn EXCEPT ![t] = [@ EXCEPT !.pc = "run", !.run = run]]
        /\ checkpoint' = run
    /\ overlapped' = LET others == {u \in Turns \ {t} : turn[u].pc \in Running} IN
                     IF others = {} THEN overlapped ELSE overlapped \cup others \cup {t}
    /\ UNCHANGED <<conversation, messages, shown, faults, uncounted, excused>>

\* A step of the run: the next message goes to the run's own state, and that
\* state becomes the latest checkpoint.
RunStep(t, message, step, tool) ==
    LET run == [turn[t].run EXCEPT !.messages = Append(@, message)] IN
    /\ turn' = [turn EXCEPT ![t] = [@ EXCEPT !.pc = step, !.run = run, !.tool = tool]]
    /\ checkpoint' = run

\* The model answers and the run is over, perhaps without any text.
ModelAnswers(t) ==
    /\ IsAgent
    /\ At(t, "run")
    /\ \/ RunStep(t, Said(t, "text"), "final", None) /\ Show(t, {"token"})
          /\ UNCHANGED excused
       \/ RunStep(t, Said(t, "empty"), "final", None) /\ UNCHANGED shown
          /\ excused' = excused \cup {t}
    /\ UNCHANGED <<conversation, messages, faults, uncounted, overlapped>>

\* A call of write_todos is not announced; it is announced as a plan when done.
ModelCallsTool(t) ==
    /\ IsAgent
    /\ At(t, "run")
    /\ Calls(t) < MaxCalls
    /\ \E tool \in Tools :
        /\ RunStep(t, Said(t, "call"), "tool", tool)
        /\ Show(t, IF tool = "write_todos" THEN {} ELSE {"tool_start"})
    /\ UNCHANGED <<conversation, messages, faults, uncounted, overlapped, excused>>

\* The subagents of delegate_tasks run inside this step: their events carry the
\* call among their parents and are not forwarded.
ToolEnds(t) ==
    /\ At(t, "tool")
    /\ LET planned == turn[t].tool = "write_todos"
           run == [messages |-> Append(turn[t].run.messages, Said(t, "result")),
                   todos |-> IF planned THEN t ELSE turn[t].run.todos]
       IN  /\ turn' = [turn EXCEPT ![t] = [@ EXCEPT !.pc = "run", !.run = run, !.tool = None]]
           /\ checkpoint' = run
           /\ Show(t, IF planned THEN {"plan_updated"} ELSE {"tool_end"})
    /\ UNCHANGED <<conversation, messages, faults, uncounted, overlapped, excused>>

\* Variant: the first assistant text of the thread.
FirstResponse(thread) ==
    LET texts == SelectSeq(thread, LAMBDA m : m.kind = "text")
    IN  IF texts # <<>> THEN Head(texts).turn ELSE None

\* _extract_final_response: the newest assistant message with a text, or else
\* the newest message if it has one; None is the error of a run without answer.
FinalResponse(thread) ==
    LET texts == SelectSeq(thread, LAMBDA m : m.kind = "text")
    IN  IF texts # <<>> THEN Last(texts).turn
        ELSE IF thread # <<>> /\ Last(thread).kind \in {"user", "result"}
             THEN Last(thread).turn ELSE None

\* The answer is read back from the thread's latest checkpoint, which need not
\* be this run's.
ReadFinalState(t) ==
    /\ At(t, "final")
    /\ LET of == FinalResponse(checkpoint.messages) IN
       turn' = [turn EXCEPT ![t] = [@ EXCEPT
                    !.pc = IF of = None THEN "emit_failed" ELSE "store",
                    !.run = EmptyThread, !.of = of]]
    /\ UNCHANGED <<conversation, messages, checkpoint, shown, faults, uncounted,
                   overlapped, excused>>

\* get_langchain_messages with its defaults: the first HistoryLimit messages.
History == SubSeq(messages, 1, IF Len(messages) < HistoryLimit THEN Len(messages)
                                                               ELSE HistoryLimit)

\* The workflow answers the newest request it was given; its nodes turn their
\* own errors into an apology.
RunChatWorkflow(t) ==
    /\ ~IsAgent
    /\ At(t, "load")
    /\ LET requests == SelectSeq(History, LAMBDA m : m.role = "user")
           of == IF requests = <<>> THEN None ELSE Last(requests).turn
       IN  turn' = [turn EXCEPT ![t] = [@ EXCEPT !.pc = "store", !.of = of]]
    /\ excused' = IF Contains(History, Request(t)) THEN excused ELSE excused \cup {t}
    /\ Show(t, {"token"})
    /\ UNCHANGED <<conversation, messages, checkpoint, faults, uncounted, overlapped>>

StoreAnswer(t) ==
    /\ At(t, "store")
    /\ messages' = Append(messages, [turn |-> t, role |-> "assistant", of |-> turn[t].of])
    /\ Goto(t, "count_answer")
    /\ UNCHANGED <<conversation, checkpoint, shown, faults, uncounted, overlapped, excused>>

\* Variant: the answer is stored without updating the conversation.
CountNothing(t) ==
    /\ At(t, "count_answer")
    /\ Goto(t, "emit_completed")
    /\ UNCHANGED <<conversation, messages, checkpoint, shown, faults, uncounted,
                   overlapped, excused>>

CountAnswer(t) ==
    /\ At(t, "count_answer")
    /\ conversation' = [conversation EXCEPT !.count = @ + 1]
    /\ Goto(t, "emit_completed")
    /\ UNCHANGED <<messages, checkpoint, shown, faults, uncounted, overlapped, excused>>

EmitCompleted(t) ==
    /\ At(t, "emit_completed")
    /\ Show(t, {"completed"})
    /\ Goto(t, "ended")
    /\ UNCHANGED <<conversation, messages, checkpoint, faults, uncounted, overlapped,
                   excused>>

\* Any exception, one the run raises or the failed emission of "completed"
\* included, is announced as a failed turn, whatever was stored before; the
\* checkpoints a failed run wrote stay.
ProcessingFails(t) ==
    /\ turn[t].pc \in Serving \ {"emit_failed"}
    /\ Fault
    /\ uncounted' = IF At(t, "count_answer") THEN uncounted + 1 ELSE uncounted
    /\ turn' = [turn EXCEPT ![t] = [@ EXCEPT !.pc = "emit_failed", !.run = EmptyThread,
                                             !.tool = None]]
    /\ UNCHANGED <<conversation, messages, checkpoint, shown, overlapped, excused>>

EmitFailed(t) ==
    /\ At(t, "emit_failed")
    /\ Show(t, {"failed"})
    /\ Goto(t, "ended")
    /\ UNCHANGED <<conversation, messages, checkpoint, faults, uncounted, overlapped,
                   excused>>

\* Background tasks live in the server process and nothing resumes them.
ServerCrash ==
    /\ \E t \in Turns : turn[t].pc \notin {"absent", "ended"}
    /\ Fault
    /\ uncounted' = uncounted + Cardinality({t \in Turns : turn[t].pc \in {"count", "count_answer"}})
    /\ turn' = [t \in Turns |-> IF At(t, "absent") THEN NewTurn
                                ELSE [NewTurn EXCEPT !.pc = "ended", !.of = turn[t].of]]
    /\ UNCHANGED <<conversation, messages, checkpoint, shown, overlapped, excused>>

-----------------------------------------------------------------------------
TurnStep(t) ==
    \/ Send(t) \/ InsertUserMessage(t) \/ CountUserMessage(t) \/ RequestFails(t)
    \/ EmitStarted(t) \/ BeginRun(t) \/ ModelAnswers(t) \/ ModelCallsTool(t)
    \/ ToolEnds(t) \/ ReadFinalState(t) \/ RunChatWorkflow(t) \/ StoreAnswer(t)
    \/ CountAnswer(t) \/ EmitCompleted(t) \/ ProcessingFails(t) \/ EmitFailed(t)

Next == (\E t \in Turns : TurnStep(t)) \/ ServerCrash

Spec == Init /\ [][Next]_conversationVars

-----------------------------------------------------------------------------
TypeOK ==
    /\ conversation.exists \in BOOLEAN /\ conversation.count \in Nat
    /\ \A i \in DOMAIN messages :
        /\ messages[i].turn \in Turns /\ messages[i].role \in {"user", "assistant"}
        /\ messages[i].of \in Turns \cup {None}
    /\ checkpoint.todos \in Turns \cup {None}
    /\ \A i \in DOMAIN checkpoint.messages :
        checkpoint.messages[i].turn \in Turns /\ checkpoint.messages[i].kind \in Kinds
    /\ \A t \in Turns : turn[t].pc \in Steps /\ turn[t].tool \in Tools \cup {None}
    /\ faults \in 0 .. MaxFaults

\* The answer stored for a turn answers that turn's request.  Known exceptions:
\* turns that ran at the same time (the latest checkpoint, or the newest stored
\* request, is the other's), an agent run that ended without a text (an older
\* answer is repeated), and a chat history that no longer reaches the request.
AnswersTheRequest ==
    \A i \in DOMAIN messages :
        LET m == messages[i] IN
        m.role = "assistant" => m.of = m.turn \/ m.turn \in overlapped \cup excused

\* message_count is the number of stored messages, but for those stored and not
\* yet counted and those whose count update failed.
CountFollowsMessages ==
    Len(messages) = conversation.count + uncounted
        + Cardinality({t \in Turns : turn[t].pc \in {"count", "count_answer"}})

\* A turn is announced as completed only with its answer stored once, never as
\* both completed and failed, and a plan or a tool result only after its start.
OutcomeIsTrue ==
    \A t \in Turns :
        LET answers == {i \in DOMAIN messages : messages[i].turn = t
                                                /\ messages[i].role = "assistant"} IN
        /\ Cardinality(answers) <= 1
        /\ "completed" \in shown[t] => answers # {} /\ "failed" \notin shown[t]
        /\ "tool_end" \in shown[t] => "tool_start" \in shown[t]
=============================================================================
