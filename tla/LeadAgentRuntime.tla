-------------------------- MODULE LeadAgentRuntime --------------------------
(****************************************************************************)
(* The lead agent's runtime: lead_agent/ repeats the stock agent's          *)
(* middleware and tool catalogue under its own names, so those decisions    *)
(* are the ones of AgentRuntime; its delegation differs, having a single    *)
(* kind of worker.                                                          *)
(****************************************************************************)
EXTENDS Integers, Sequences, FiniteSets, SequencesExt

CONSTANTS None, Error

Stock == INSTANCE AgentRuntime

-----------------------------------------------------------------------------
(* The same as the stock agent's. *)

LeadAgentModels == Stock!StockAgentModels
DefaultConfig(catalog) == Stock!DefaultConfig(catalog)
ResolveConfig(catalog, asked) == Stock!ResolveConfig(catalog, asked)
SelectableTools(mcp) == Stock!SelectableTools(mcp)
RuntimeTools(mcp) == Stock!RuntimeTools(mcp)
VisibleTools(state, registered) == Stock!VisibleTools(state, registered)
SystemPrompt(state) == Stock!SystemPrompt(state)
SkillSections(state, stored) == Stock!SkillSections(state, stored)
NormalizeTodos(todos) == Stock!NormalizeTodos(todos)
TodoPrompt(state) == Stock!TodoPrompt(state)
WriteTodos(state, todos) == Stock!WriteTodos(state, todos)
SummarizationTriggers(window) == Stock!SummarizationTriggers(window)
DelegationErrors(calls, limit) == Stock!DelegationErrors(calls, limit)
ToolResult(outcome) == Stock!ToolResult(outcome)
Unique(values) == Stock!Unique(values)
TruncatedLength(length, max, blanks) == Stock!TruncatedLength(length, max, blanks)

-----------------------------------------------------------------------------
(* Delegation: one worker, a lead agent without subagents. *)

WorkerConfig(state, default) == Stock!WorkerConfig(state, default)
WorkerState(state, call) == Stock!WorkerState(state, call)

\* _extract_final_response: no structured answers here.
WorkerAnswer(result) ==
    LET texts == SelectSeq(result.messages,
                           LAMBDA m : m.role = "assistant" /\ Stock!Optional(m.text) # None)
    IN  IF texts # <<>> THEN Last(texts).text
        ELSE IF result.messages # <<>> THEN Stock!Optional(Last(result.messages).text) ELSE None

RunWorker(run) ==
    CASE run.outcome = "timeout" -> [status |-> "timeout", summary |-> None]
      [] run.outcome = "raises"  -> [status |-> "failed", summary |-> None]
      [] OTHER -> IF WorkerAnswer(run) = None THEN [status |-> "failed", summary |-> None]
                  ELSE [status |-> "completed", summary |-> WorkerAnswer(run)]

\* An invalid task, or a worker that cannot be built, raises out of the tool.
DelegateTask(state, task, built, run) ==
    IF Stock!NonNegative(state.depth) > 0 THEN [status |-> "rejected", result |-> None]
    ELSE IF ~task.valid \/ ~built THEN Error
    ELSE [status |-> IF RunWorker(run).status = "completed" THEN "completed" ELSE "failed",
          result |-> RunWorker(run)]
=============================================================================
