------------------------- MODULE ChatConversations -------------------------
(****************************************************************************)
(* A conversation with the chat workflow (chat_service.py): the turn life   *)
(* cycle of AgentConversations without a thread.  The workflow is given the *)
(* stored messages, and its answer is the text its nodes return.            *)
(****************************************************************************)
EXTENDS Naturals, Sequences, FiniteSets

CONSTANTS Turns, None, HistoryLimit, MaxFaults

VARIABLES conversation, messages, checkpoint, turn, shown, faults,
          uncounted, overlapped, excused

Agent == INSTANCE AgentConversations WITH Runtime <- "chat", MaxCalls <- 0

Start == Agent!Init

\* The request.
SendMessage(t) == Agent!Send(t)
AddUserMessage(t) == Agent!InsertUserMessage(t)
IncrementMessageCount(t) == Agent!CountUserMessage(t)
SendMessageFails(t) == Agent!RequestFails(t)

\* The background task.
ResponseStarted(t) == Agent!EmitStarted(t)
LangchainMessages == Agent!History
RunWorkflow(t) == Agent!RunChatWorkflow(t)
AddAssistantMessage(t) == Agent!StoreAnswer(t)
IncrementAnswerCount(t) == Agent!CountAnswer(t)
ResponseCompleted(t) == Agent!EmitCompleted(t)
ProcessingFailed(t) == Agent!ProcessingFails(t)
ResponseFailed(t) == Agent!EmitFailed(t)
ServerStops == Agent!ServerCrash

TurnStep(t) ==
    \/ SendMessage(t) \/ AddUserMessage(t) \/ IncrementMessageCount(t) \/ SendMessageFails(t)
    \/ ResponseStarted(t) \/ RunWorkflow(t) \/ AddAssistantMessage(t)
    \/ IncrementAnswerCount(t) \/ ResponseCompleted(t) \/ ProcessingFailed(t) \/ ResponseFailed(t)

Next == (\E t \in Turns : TurnStep(t)) \/ ServerStops
Spec == Start /\ [][Next]_<<conversation, messages, checkpoint, turn, shown, faults,
                           uncounted, overlapped, excused>>

-----------------------------------------------------------------------------
\* The properties of AgentConversations, for this runtime.
TypeOK == Agent!TypeOK
AnswersTheRequest == Agent!AnswersTheRequest
CountFollowsMessages == Agent!CountFollowsMessages
OutcomeIsTrue == Agent!OutcomeIsTrue
=============================================================================
