---------------------------- MODULE AgentRuntime ----------------------------
(****************************************************************************)
(* What surrounds each model call of the lead and the stock agent: the      *)
(* catalog of providers and the runtime a request may ask for, the tools    *)
(* the model is shown, the skill and todo sections of its prompt, the       *)
(* execution of a delegated task and the cap on a tool's output.  All are   *)
(* functions of the thread's state and of the configuration.                *)
(*                                                                          *)
(* A text is a string that stands for itself; blank ones become None.       *)
(****************************************************************************)
EXTENDS Naturals, Sequences, FiniteSets, SequencesExt

CONSTANTS None, Error

Blank == {"", " "}

Optional(text) == IF text \in Blank THEN None ELSE text

\* normalize_unique_strings: first occurrences of the non-blank values.
Unique(values) ==
    LET first == SelectSeq([i \in DOMAIN values |-> <<i, values[i]>>],
            LAMBDA v : v[2] \notin Blank /\ \A j \in 1 .. v[1] - 1 : values[j] # v[2])
    IN  [i \in DOMAIN first |-> first[i][2]]

NonNegative(value) == IF value \in Int /\ value > 0 THEN value ELSE 0

-----------------------------------------------------------------------------
(* agents/runtime.py: providers, models and the requested runtime.          *)

Providers == <<"zai", "minimax", "azura", "openai">>
Reasoning == <<"low", "medium", "high">>
Plain(model, default) ==
    [model |-> model, options |-> <<>>, reasoning |-> None, default |-> default]
Thinking(model, default) ==
    [model |-> model, options |-> Reasoning, reasoning |-> "medium", default |-> default]

\* get_stock_agent_runtime_catalog: the models of each provider.
StockAgentModels ==
    [zai     |-> <<Plain("glm-5.1", FALSE)>>,
     minimax |-> <<Plain("MiniMax-M2.7-highspeed", TRUE), Plain("MiniMax-M2.7", FALSE)>>,
     azura   |-> <<Plain("legacy", TRUE)>>,
     openai  |-> <<Thinking("gpt-5.5", TRUE), Thinking("gpt-5.5-fast", FALSE),
                   Thinking("gpt-5.2", FALSE), Thinking("gpt-5.1", FALSE),
                   Thinking("gpt-5.4", FALSE), Thinking("gpt-5.4-mini", FALSE),
                   Plain("gpt-4.1", FALSE)>>]

\* A provider is listed when its key is configured and it has models; the first
\* one listed is the default unless the requested default is listed.
BuildCatalog(configured, models, default) ==
    LET listed == SelectSeq(Providers, LAMBDA p : p \in configured /\ models[p] # <<>>)
    IN  [i \in DOMAIN listed |->
            [provider |-> listed[i], models |-> models[listed[i]],
             default  |-> IF Contains(listed, default) THEN listed[i] = default ELSE i = 1]]

\* The first entry marked default, or the first one.
DefaultEntry(entries) ==
    LET marked == SelectSeq(entries, LAMBDA x : x.default)
    IN  IF marked # <<>> THEN Head(marked) ELSE Head(entries)

DefaultConfig(catalog) ==
    IF catalog = <<>> THEN Error
    ELSE LET provider == DefaultEntry(catalog)
             model == DefaultEntry(provider.models)
         IN  [provider |-> provider.provider, model |-> model.model,
              reasoning |-> model.reasoning]

\* _resolve_reasoning: required where it is offered, refused where it is not.
ReasoningOk(model, reasoning) ==
    IF model.options = <<>> THEN reasoning = None ELSE Contains(model.options, reasoning)

ResolveConfig(catalog, asked) ==
    LET providers == SelectSeq(catalog, LAMBDA x : x.provider = Optional(asked.provider))
        models == IF providers = <<>> THEN <<>>
                  ELSE SelectSeq(Head(providers).models,
                                 LAMBDA x : x.model = Optional(asked.model))
    IN  IF models = <<>> \/ ~ReasoningOk(Head(models), Optional(asked.reasoning)) THEN Error
        ELSE [provider |-> Head(providers).provider, model |-> Head(models).model,
              reasoning |-> Optional(asked.reasoning)]

\* build_chat_model: the factory called, and whether it passes the reasoning.
ChatModel(config) ==
    CASE config.provider = "azura"   -> [client |-> "azure", effort |-> None]
      [] config.provider = "minimax" -> [client |-> "minimax", effort |-> None]
      [] config.provider = "zai"     -> [client |-> "zai", effort |-> None]
      [] config.provider = "openai"  -> IF config.reasoning # None
                                        THEN [client |-> "openai", effort |-> config.reasoning]
                                        ELSE [client |-> "openai_legacy", effort |-> None]
      [] OTHER -> Error

-----------------------------------------------------------------------------
(* The tools and the prompt of one model call.                              *)

ResearchTools == {"search", "fetch_content"}
BaseTools == {"load_skill", "write_todos"} \cup ResearchTools

\* Only the research tools the MCP server offers can be selected for a skill.
SelectableTools(mcp) == ResearchTools \cap mcp
RuntimeTools(mcp) == {"load_skill", "delegate_tasks"} \cup SelectableTools(mcp)

VisibleTools(state, registered) ==
    LET granted == IF Optional(state.active) = None THEN {} ELSE ToSet(Unique(state.allowed))
        delegate == IF state.subagents /\ NonNegative(state.depth) = 0
                    THEN {"delegate_tasks"} ELSE {}
    IN  registered \cap (BaseTools \cup granted \cup delegate)

\* _resolve_orchestration_prompt_update.
SystemPrompt(state) ==
    IF NonNegative(state.depth) > 0 THEN "worker"
    ELSE IF state.subagents THEN "orchestration" ELSE "unchanged"

\* The enabled skills that still exist, in order, and the active one if it is
\* among them.
SkillSections(state, stored) ==
    LET offered == SelectSeq(Unique(state.enabled), LAMBDA id : id \in stored)
        active == Optional(state.active)
    IN  IF offered = <<>> THEN <<>>
        ELSE <<offered>> \o (IF Contains(offered, active) THEN << <<active>> >> ELSE <<>>)

TodoStatuses == {"pending", "in_progress", "completed"}
MaxTodosShown == 20

WriteTodos(state, todos) ==
    LET revision == NonNegative(state.revision) + 1
    IN  [state EXCEPT !.todos = todos, !.revision = revision,
                      !.messages = Append(@, [kind |-> "todos", revision |-> revision])]

\* Entries without content or with another status are dropped.
NormalizeTodos(todos) ==
    SelectSeq(todos, LAMBDA t : Optional(t.content) # None /\ t.status \in TodoStatuses)

\* The newest echo of the current revision, or any echo before the first write
\* of a turn.
TodosVisible(messages, revision) ==
    \E i \in DOMAIN messages :
        messages[i].kind = "todos" /\ (revision = 0 \/ messages[i].revision = revision)

\* The todo section: counts over all todos, the first ones in full.
TodoPrompt(state) ==
    LET todos == NormalizeTodos(state.todos)
        shown == IF Len(todos) < MaxTodosShown THEN Len(todos) ELSE MaxTodosShown
    IN  IF todos = <<>> \/ TodosVisible(state.messages, NonNegative(state.revision)) THEN None
        ELSE [total  |-> Len(todos),
              counts |-> [s \in TodoStatuses |-> Len(SelectSeq(todos, LAMBDA t : t.status = s))],
              todos  |-> SubSeq(todos, 1, shown),
              more   |-> Len(todos) - shown]

\* Summarization triggers: by fraction only if the model declares its window.
SummarizationTriggers(window) ==
    (IF window \in Nat THEN <<"fraction">> ELSE <<>>) \o <<"messages", "tokens">>

\* Over-limit batches of delegate_tasks get one error each.
DelegationErrors(calls, limit) ==
    LET batch == SelectSeq(calls, LAMBDA c : c.name = "delegate_tasks")
    IN  IF Len(batch) <= limit THEN <<>> ELSE [i \in DOMAIN batch |-> batch[i].id]

\* A ToolException becomes an error message of that call; others end the run.
ToolResult(outcome) ==
    CASE outcome = "value"          -> [status |-> "success", raised |-> FALSE]
      [] outcome = "tool_exception" -> [status |-> "error", raised |-> FALSE]
      [] OTHER                      -> [status |-> "error", raised |-> TRUE]

\* The output of a limited tool is cut to a number of tokens, marker included.
LimitedTokens(tool, limited, status, tokens, marker, max) ==
    IF tool \notin limited \/ status = "error" \/ tokens <= max THEN tokens
    ELSE IF marker >= max THEN max ELSE (max - marker) + marker

-----------------------------------------------------------------------------
(* delegation.py: one task in a worker of its own.                          *)

Specialists == {"event_analyst", "technical_analyst", "fundamental_analyst"}
Subagents == {"general_worker"} \cup Specialists

\* The runtime of the parent, or the default when it names none.
WorkerConfig(state, default) ==
    IF Optional(state.provider) = None \/ Optional(state.model) = None THEN default
    ELSE [provider |-> state.provider, model |-> state.model,
          reasoning |-> Optional(state.reasoning)]

WorkerState(state, call) ==
    [messages |-> <<[kind |-> "user", revision |-> 0]>>, subagents |-> FALSE,
     depth |-> 1, parent |-> call, enabled |-> Unique(state.enabled), active |-> None,
     loaded |-> <<>>, allowed |-> <<>>, revision |-> 0, todos |-> <<>>]

SpecialistState(call) == [messages |-> <<[kind |-> "user", revision |-> 0]>>, depth |-> 1,
                          parent |-> call]

\* The structured answer, else the newest assistant text, else the text of the
\* last message; none of them is an error.
WorkerAnswer(result) ==
    LET texts == SelectSeq(result.messages,
                           LAMBDA m : m.role = "assistant" /\ Optional(m.text) # None)
    IN  IF result.structured # None THEN result.structured
        ELSE IF texts # <<>> THEN Last(texts).text
        ELSE IF result.messages # <<>> THEN Optional(Last(result.messages).text) ELSE None

\* _execute_one_task: the run ends, times out or raises.
RunWorker(run) ==
    CASE run.outcome = "timeout" -> [status |-> "timeout", summary |-> None]
      [] run.outcome = "raises"  -> [status |-> "failed", summary |-> None]
      [] OTHER -> IF WorkerAnswer(run) = None THEN [status |-> "failed", summary |-> None]
                  ELSE [status |-> "completed", summary |-> WorkerAnswer(run)]

Rejected == [status |-> "rejected", result |-> None]
Outcome(worker) ==
    [status |-> IF worker.status = "completed" THEN "completed" ELSE "failed",
     result |-> worker]

\* A specialist that cannot be built fails its task; the general worker's
\* error leaves the tool.
DelegateTask(state, task, built, run) ==
    IF NonNegative(state.depth) > 0 \/ ~task.valid \/ task.agent \notin Subagents
    THEN Rejected
    ELSE IF ~built
    THEN IF task.agent \in Specialists THEN Outcome([status |-> "failed", summary |-> None])
                                       ELSE Error
    ELSE Outcome(RunWorker(run))

\* _truncate_text, by the length of the trimmed text; trailing blanks before the
\* dots are dropped.
TruncatedLength(length, max, blanks) ==
    IF length <= max THEN length ELSE (max - 3 - blanks) + 3
=============================================================================
