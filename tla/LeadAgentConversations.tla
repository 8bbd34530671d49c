----------------------- MODULE LeadAgentConversations -----------------------
(****************************************************************************)
(* A conversation with the lead agent (lead_agent_service.py): the stock    *)
(* agent's turn life cycle, statement by statement, over the conversations  *)
(* and messages that the chat workflow uses too.  Each step below is the    *)
(* one of AgentConversations for this service's code.                       *)
(****************************************************************************)
EXTENDS Naturals, Sequences, FiniteSets

CONSTANTS Turns, None, MaxCalls, MaxFaults

VARIABLES conversation, messages, checkpoint, turn, shown, faults,
          uncounted, overlapped, excused

Agent == INSTANCE AgentConversations WITH Runtime <- "agent", HistoryLimit <- 0

Start == Agent!Init

\* The request.
SendMessage(t) == Agent!Send(t)
AddUserMessage(t) == Agent!InsertUserMessage(t)
IncrementMessageCount(t) == Agent!CountUserMessage(t)
SendMessageFails(t) == Agent!RequestFails(t)

\* The background task.
ResponseStarted(t) == Agent!EmitStarted(t)
StreamThread(t) == Agent!BeginRun(t)
TokenStreamed(t) == Agent!ModelAnswers(t)
ToolStarted(t) == Agent!ModelCallsTool(t)
ToolEnded(t) == Agent!ToolEnds(t)
GetThreadState(t) == Agent!ReadFinalState(t)
FinalResponse(thread) == Agent!FinalResponse(thread)
AddAssistantMessage(t) == Agent!StoreAnswer(t)
IncrementAnswerCount(t) == Agent!CountAnswer(t)
ResponseCompleted(t) == Agent!EmitCompleted(t)
ProcessingFailed(t) == Agent!ProcessingFails(t)
ResponseFailed(t) == Agent!EmitFailed(t)
ServerStops == Agent!ServerCrash

TurnStep(t) ==
    \/ SendMessage(t) \/ AddUserMessage(t) \/ IncrementMessageCount(t) \/ SendMessageFails(t)
    \/ ResponseStarted(t) \/ StreamThread(t) \/ TokenStreamed(t) \/ ToolStarted(t)
    \/ ToolEnded(t) \/ GetThreadState(t) \/ AddAssistantMessage(t) \/ IncrementAnswerCount(t)
    \/ ResponseCompleted(t) \/ ProcessingFailed(t) \/ ResponseFailed(t)

Next == (\E t \in Turns : TurnStep(t)) \/ ServerStops
Spec == Start /\ [][Next]_<<conversation, messages, checkpoint, turn, shown, faults,
                           uncounted, overlapped, excused>>

-----------------------------------------------------------------------------
\* The properties of AgentConversations, for this runtime.
TypeOK == Agent!TypeOK
AnswersTheRequest == Agent!AnswersTheRequest
CountFollowsMessages == Agent!CountFollowsMessages
OutcomeIsTrue == Agent!OutcomeIsTrue
=============================================================================
