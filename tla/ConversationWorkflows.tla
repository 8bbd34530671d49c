------------------------ MODULE ConversationWorkflows ------------------------
(****************************************************************************)
(* The pure parts of a turn: the routing graphs of the chat                 *)
(* (graphs/workflows), the conversion of model messages to text, and the    *)
(* payloads of the agents' socket events and stored messages                *)
(* (stock_agent_service.py, conversation_service.py).                       *)
(*                                                                          *)
(* Texts are abstract: "" is an empty text, " " a blank one, any other      *)
(* string a text with something in it.                                      *)
(****************************************************************************)
EXTENDS Integers, Sequences, FiniteSets, SequencesExt

CONSTANT None

Blank(text) == text \in {"", " "}

-----------------------------------------------------------------------------
(* Contents: a text, None, a dict [text |-> ...] or [content |-> ...], or a  *)
(* list of contents.  A text extracted from one is the sequence of its       *)
(* pieces.                                                                   *)

Text(t) == [kind |-> "text", text |-> t]
NoContent == [kind |-> "none"]
TextBlock(t) == [kind |-> "block", text |-> t]
Nested(c) == [kind |-> "nested", content |-> c]
List(cs) == [kind |-> "list", items |-> cs]
OtherBlock == [kind |-> "other"]

RECURSIVE StreamText(_)
\* _stream_content_to_text: every piece, whitespace included.
StreamText(c) ==
    CASE c.kind \in {"text", "block"} -> IF c.text = "" THEN <<>> ELSE <<c.text>>
      [] c.kind = "nested" -> StreamText(c.content)
      [] c.kind = "list" -> FlattenSeq([i \in DOMAIN c.items |-> StreamText(c.items[i])])
      [] OTHER -> <<>>

RECURSIVE ContentText(_)
\* _content_to_text, stripped: the pieces of a list that are not blank.
ContentText(c) ==
    CASE c.kind \in {"text", "block"} -> IF Blank(c.text) THEN <<>> ELSE <<c.text>>
      [] c.kind = "nested" -> ContentText(c.content)
      [] c.kind = "list" -> FlattenSeq([i \in DOMAIN c.items |-> ContentText(c.items[i])])
      [] OTHER -> <<>>

-----------------------------------------------------------------------------
(* The history given to a workflow. *)

\* build_agent_messages: only human and AI messages that have a content.
AgentMessages(history) ==
    SelectSeq(history, LAMBDA m : m.type \in {"human", "ai"} /\ m.content # None)

\* _extract_last_user_message.
LastUserMessage(history) ==
    LET asked == SelectSeq(history, LAMBDA m : m.type = "human")
    IN  IF asked = <<>> THEN None ELSE Last(asked).content

TopLevelIntents == {"normal_chat", "strategic_planning", "unclear"}

\* The orchestrator's classifier: whatever goes wrong is unclear.
TopLevelIntent(history, answer) ==
    IF LastUserMessage(history) \in {None, ""} \/ AgentMessages(history) = <<>>
          \/ answer \notin TopLevelIntents
    THEN "unclear" ELSE answer

RouteByTopLevelIntent(intent) ==
    CASE intent = "normal_chat" -> "chat_node"
      [] intent = "strategic_planning" -> "strategic_branch"
      [] OTHER -> "clarify_node"

\* route_by_intent of the chat workflow, and its classifier.
ChatIntent(history, answer) ==
    IF LastUserMessage(history) \in {None, ""} THEN "unclear" ELSE answer
RouteByIntent(intent) ==
    CASE intent = "data_query" -> "data_agent_node"
      [] intent = "chat" -> "chat_node"
      [] OTHER -> "clarify_node"

\* The branches.  A run of an agent or a model gives a text, nothing or an
\* error, and each branch makes an answer of it.
ChatNode(outcome) ==
    [response |-> IF outcome \in {None, "", "error"} THEN "trouble" ELSE outcome,
     error |-> IF outcome = "error" THEN "orchestrator_chat_node_failed" ELSE None]

ClarifyNode(outcome) ==
    [response |-> IF outcome = "error" THEN "not understood"
                  ELSE IF outcome = None THEN "" ELSE outcome,
     error |-> IF outcome = "error" THEN "orchestrator_clarify_node_failed" ELSE None]

\* The graph registry holds the two chat workflows and no strategic one.
RegisteredGraphs == {"chat_workflow", "conversation_orchestrator_workflow"}
StrategicBranch(outcome) ==
    IF "strategic_planning_workflow" \notin RegisteredGraphs
    THEN [response |-> "not available", type |-> "clarification_request",
          error |-> "strategic_planning_workflow_not_registered"]
    ELSE IF outcome = "error" THEN [response |-> "", type |-> "strategic_package", error |-> "error"]
    ELSE [response |-> outcome, type |-> "strategic_package", error |-> None]

ResponseTypes == {"chat_message", "clarification_request", "strategic_package"}

\* normalize_output_node: the envelope every route returns.
Envelope(intent, type, response, error) ==
    LET known == IF intent \in TopLevelIntents THEN intent ELSE "unclear"
        default == CASE intent = "normal_chat" -> "chat_message"
                     [] intent = "strategic_planning" -> "strategic_package"
                     [] OTHER -> "clarification_request"
    IN  [intent |-> known, type |-> IF type \in ResponseTypes THEN type ELSE default,
         response |-> IF response = None THEN "" ELSE response, error |-> error]

\* One turn of the orchestrator: classify, branch, normalize.
Orchestrate(history, answer, outcome) ==
    LET intent == TopLevelIntent(history, answer) IN
    CASE RouteByTopLevelIntent(intent) = "chat_node" ->
            Envelope(intent, None, ChatNode(outcome).response, ChatNode(outcome).error)
      [] RouteByTopLevelIntent(intent) = "strategic_branch" ->
            LET r == StrategicBranch(outcome) IN Envelope(intent, r.type, r.response, r.error)
      [] OTHER ->
            Envelope(intent, None, ClarifyNode(outcome).response, ClarifyNode(outcome).error)

\* data_agent_node: up to MAX_RETRIES runs, until one gives a text; the tokens
\* of every run have been streamed by then.
MaxRetries == 3
DataAgentNode(connections, attempts) ==
    LET tried == SubSeq(attempts, 1, MaxRetries)
        good == {i \in DOMAIN tried : tried[i] \notin {None, "error"}}
        n == IF good = {} THEN Len(tried) ELSE CHOOSE i \in good : \A j \in good : i <= j
    IN  IF connections = {} THEN [response |-> "no data", runs |-> 0]
        ELSE [response |-> IF good = {} THEN "trouble" ELSE tried[n], runs |-> n]

-----------------------------------------------------------------------------
(* Titles: a text is the sequence of the lengths of its words. *)

TextLength(words) == FoldSeq(LAMBDA w, n : n + w, 0, words)
                     + (IF words = <<>> THEN 0 ELSE Len(words) - 1)

\* title[:limit].rsplit(" ", 1)[0]: what follows the last blank of the cut text
\* goes, even a word that fits whole; a first word that is too long is cut.
CutAtWord(words, limit) ==
    IF TextLength(words) <= limit THEN words
    ELSE LET starting == {n \in DOMAIN words : TextLength(SubSeq(words, 1, n - 1)) < limit}
             n == Cardinality(starting)
         IN  IF n <= 1 THEN <<IF words[1] < limit THEN words[1] ELSE limit>>
             ELSE SubSeq(words, 1, n - 1)

\* generate_initial_title: the model's title if it leaves one, else the text's.
InitialTitle(content, generated, limit) ==
    IF content = <<>> THEN <<>>
    ELSE IF generated # <<>> THEN CutAtWord(generated, limit)
    ELSE CutAtWord(content, limit)

-----------------------------------------------------------------------------
(* Events and payloads of the agents. *)

\* _is_nested_delegation_event.
IsNestedEvent(parents, open) == parents \cap open # {}

\* _finalize_tool_call: the first tracked call of that id.
FinalizeToolCall(calls, id, result) ==
    LET same == {i \in DOMAIN calls : calls[i].id = id}
        i == CHOOSE k \in same : \A j \in same : k <= j
    IN  IF same = {} THEN calls ELSE [calls EXCEPT ![i].result = result]

\* The socket events of one runtime event, by the tool it is about.
ToolStartEvents(tool) == IF tool = "write_todos" THEN {} ELSE {"tool_start"}
ToolEndEvents(tool) == IF tool = "write_todos" THEN {"plan_updated"} ELSE {"tool_end"}
ToolErrorEvents(tool) == IF tool = "write_todos" THEN {} ELSE {"tool_end"}

\* _normalize_string_list: no blanks, no repetitions, the order kept.
NormalizeList(values) ==
    SelectSeq([i \in DOMAIN values |->
                IF \E j \in 1 .. (i - 1) : values[j] = values[i] THEN "" ELSE values[i]],
              LAMBDA v : ~Blank(v))

\* _extract_todo_snapshot, statuses only.
TodoStatus(status) == IF Blank(status) \/ status = None THEN "pending" ELSE status

\* _build_plan_update_payload: statuses are counted under their own name if the
\* summary has it, "total" included.
PlanSummary(todos) ==
    LET count(s) == Cardinality({i \in DOMAIN todos : TodoStatus(todos[i]) = s})
    IN  [total |-> Len(todos) + count("total"), completed |-> count("completed"),
         in_progress |-> count("in_progress"), pending |-> count("pending")]

\* _extract_int_value: the first of two fields that is a number; -1 stands for
\* a missing field.
FirstNumber(a, b) == IF a >= 0 THEN a ELSE IF b >= 0 THEN b ELSE 0

\* _extract_token_usage: usage_metadata first, then response_metadata.
TokenUsage(usage, response) ==
    LET prompt == IF FirstNumber(usage.input, usage.prompt) # 0
                  THEN FirstNumber(usage.input, usage.prompt)
                  ELSE FirstNumber(response.prompt, response.input)
        completion == IF FirstNumber(usage.output, usage.completion) # 0
                      THEN FirstNumber(usage.output, usage.completion)
                      ELSE FirstNumber(response.completion, response.output)
        stated == IF FirstNumber(usage.total, -1) # 0 THEN usage.total
                  ELSE FirstNumber(response.total, -1)
    IN  [prompt |-> prompt, completion |-> completion,
         total |-> IF stated = 0 THEN prompt + completion ELSE stated]

\* The tokens of a turn: the sum over the outputs that have any.
AddTokens(a, b) == [prompt |-> a.prompt + b.prompt, completion |-> a.completion + b.completion,
                    total |-> a.total + b.total]

OrchestrationMode(subagents) == IF subagents THEN "subagent" ELSE "direct"

\* _extract_subagent_enabled_from_message.
SubagentsRequested(metadata) ==
    IF metadata = None THEN FALSE
    ELSE IF metadata.enabled \in BOOLEAN THEN metadata.enabled
    ELSE metadata.mode = "subagent"

\* The metadata stored with a user message.
UserMetadata(subagents) == [enabled |-> subagents, mode |-> OrchestrationMode(subagents)]

\* _build_runtime_payload: what a turn resets in the thread's state; the todos
\* stay, their revision starts again.
RuntimePayload(state, enabled, subagents) ==
    [state EXCEPT !.enabled = NormalizeList(enabled), !.subagents = subagents,
                  !.mode = OrchestrationMode(subagents), !.active = None, !.loaded = <<>>,
                  !.allowed = {}, !.revision = 0]

\* _validate_thread_scope: a thread answers to the caller who created it.
ThreadScope(state, user, organization) ==
    state # None /\ state.user = user /\ state.organization = organization
=============================================================================
