----------------------------- MODULE MCOperators -----------------------------
(****************************************************************************)
(* The algorithms that are operators, each checked over bounded inputs      *)
(* against what it promises to its callers.  TLC evaluates the assumptions  *)
(* once, before it explores the platform (MCPlatform extends this module).  *)
(****************************************************************************)
EXTENDS Integers

CONSTANTS Nothing, NaN, Failed

LOCAL INSTANCE Sequences
LOCAL INSTANCE FiniteSets
LOCAL INSTANCE SequencesExt

Sections == INSTANCE StockSections WITH None <- Nothing
Analytics == INSTANCE SheetAnalytics WITH None <- Nothing
StockRuntime == INSTANCE AgentRuntime WITH None <- Nothing, Error <- Failed
LeadRuntime == INSTANCE LeadAgentRuntime WITH None <- Nothing, Error <- Failed
Flows == INSTANCE ConversationWorkflows WITH None <- Nothing
Outputs == INSTANCE AnalystOutputs WITH None <- Nothing
Indicators == INSTANCE TechnicalIndicators WITH None <- Nothing

-----------------------------------------------------------------------------
(* StockSections.                                                           *)

Symbols == {"A", "B"}
Texts == {Nothing, "", "x"}
Payloads == {Nothing, <<"bars">>}
Provider == [failure : {Nothing} \cup Sections!Failures, payload : {<<>>, <<"bars">>}]
HistoryQueries == [source : {Nothing, "KBS", "VCI", "?"}, interval : {Nothing, "1D", "2D"},
                   start : Texts, end : Texts, length : {Nothing, 0, 5}]
IntradayQueries == [source : {Nothing, "KBS", "VCI"}, pageSize : {0, 1, 30000, 30001},
                    lastTime : Texts, format : Texts]

\* Two history requests share a key only if they ask the provider for the same
\* bars.
HistoryCall(q) == <<Sections!Source(q.source, "KBS"), Sections!Interval(q.interval),
                    Sections!Text(q.start), Sections!Text(q.end), q.length>>
ASSUME HistoryKeysAreFaithful ==
    LET asked == {q \in HistoryQueries : Sections!HistoryOk(q)}
    IN  /\ asked # {}
        /\ \A s, t \in Symbols, q, r \in asked :
            (Sections!HistoryKey(s, q) = Sections!HistoryKey(t, r))
                = (s = t /\ HistoryCall(q) = HistoryCall(r))
\* Histories and intraday prices of one stock never share a key.
ASSUME KeysAreDisjoint ==
    \A q \in {q \in HistoryQueries : Sections!HistoryOk(q)},
       r \in {r \in IntradayQueries : Sections!IntradayOk(r)} :
        Sections!HistoryKey("A", q) # Sections!IntradayKey("A", r)
\* KBS is never asked to continue at a time.
ASSUME KbsHasNoCursor ==
    \A r \in {r \in IntradayQueries : Sections!IntradayOk(r)} :
        r.source = "KBS" => Sections!Text(r.lastTime) = Nothing

\* Nothing is stored that was not fetched just now, an unlisted stock never has
\* an answer, and a cached answer spares the provider.
ASSUME RepliesAreCached ==
    \A valid, listed \in BOOLEAN, lookup, again \in Payloads, fetched \in Provider :
        \A reply \in {Sections!PriceReply(valid, listed, lookup, fetched, again),
                      Sections!ReportReply(valid, listed, lookup, fetched, again),
                      IF valid THEN Sections!CompanyReply(listed, lookup, fetched, again)
                               ELSE Sections!Error(422)} :
            /\ reply.status = 200 => valid /\ listed /\ reply.stored = ~reply.hit
            /\ reply.status = 200 /\ reply.stored => reply.payload = fetched.payload /\ lookup = Nothing
            /\ reply.status \in {422, 404} /\ valid /\ listed =>
                    lookup = Nothing /\ (fetched.failure # Nothing \/ fetched.payload = <<>>)

\* An empty report is the only empty payload that is refused.
ASSUME EmptyReports ==
    LET empty == [failure |-> Nothing, payload |-> <<>>]
    IN  /\ Sections!ReportReply(TRUE, TRUE, Nothing, empty, Nothing).status = 404
        /\ Sections!PriceReply(TRUE, TRUE, Nothing, empty, Nothing).stored

\* Every item of a payload has a time (and an identifier), and never a NaN or
\* a field the API does not know.
Bars == {[time |-> "t", close |-> NaN], [close |-> 1, extra |-> 2], [time |-> NaN, id |-> ""]}
ASSUME ItemsAreClean ==
    \A a, b \in Bars :
        /\ \A i \in {1, 2} :
            LET item == Sections!HistoryItems(<<a, b>>)[i]
            IN  "time" \in DOMAIN item /\ DOMAIN item \subseteq Sections!HistoryFields
                /\ \A k \in DOMAIN item : item[k] # NaN
        /\ \A i \in {1, 2} :
            LET item == Sections!IntradayItems(<<a, b>>)[i]
            IN  {"time", "id"} \subseteq DOMAIN item /\ item["id"] = Nothing
\* A section of one record falls back to the symbol alone.
ASSUME SingleRecords ==
    /\ Sections!SingleRecord(Nothing, {"symbol"}, "A") = [symbol |-> "A"]
    /\ \A a \in Bars : DOMAIN Sections!SingleRecord(<<a>>, {"close"}, "A") \subseteq {"close"}

\* However the periods are found, each item has exactly one value per period.
ReportRows == <<[item |-> "Revenue", item_id |-> "r", y1 |-> 1, y2 |-> NaN],
                [item |-> " ", y1 |-> 3], [item |-> "Profit", item_id |-> NaN, y2 |-> 4]>>
ReportPayloads == {[periods |-> p, columns |-> c, rows |-> ReportRows] :
    p \in {Nothing, <<"y1", Nothing>>}, c \in {<<>>, <<"item", "y2">>}}
ASSUME ReportsAreRectangular ==
    \A p \in ReportPayloads :
        LET items == Sections!ReportItems(p)
        IN  /\ Len(items) = 2 /\ Sections!Periods(p) # <<>>
            /\ IsInjective(Sections!Periods(p))
            /\ \A i \in DOMAIN items : DOMAIN items[i].values = ToSet(Sections!Periods(p))
            /\ items[2].itemId = Nothing

\* A merged stock keeps every value that was not replaced; a group brings its
\* symbols along.
Listings == {[symbol |-> "A", organ_name |-> "a"], [symbol |-> "A", exchange |-> "X"],
             [symbol |-> "A", organ_name |-> " "], [symbol |-> " ", exchange |-> "Y"],
             [symbol |-> "B", organ_name |-> "b"]}
ASSUME SnapshotMerges ==
    \A a, b, c \in Listings :
        LET snapshot == Sections!StockSnapshot(<<a>>, <<b>>, <<c>>, [VN30 |-> {"A", " "}])
            said == {r.organ_name : r \in {r \in {a, b, c} : "organ_name" \in DOMAIN r}} \ {" "}
        IN  /\ DOMAIN snapshot = ({a.symbol, b.symbol, c.symbol} \ {" "}) \cup {"A"}
            /\ snapshot["A"].groups = {"VN30"}
            /\ (snapshot["A"].fields["organ_name"] = "a") = ("a" \in said)
            /\ "B" \in DOMAIN snapshot => snapshot["B"].groups = {}

-----------------------------------------------------------------------------
(* SheetAnalytics.                                                          *)

\* The pages of a listing show every row once.
ASSUME PagesPartitionTheRows ==
    \A n \in 0 .. 7, size \in 1 .. 3 :
        LET rows == [i \in 1 .. n |-> i]
            pages == Analytics!DataPage(rows, 1, size).pages
        IN  FlattenSeq([p \in 1 .. pages |-> Analytics!DataPage(rows, p, size).rows]) = rows

\* Counts of a distribution add up to the rows, those of a time series to the
\* rows of the range, whatever the granularity.
Orders == {[date |-> d, platform |-> p, total_amount |-> 10 * d] : d \in 1 .. 3, p \in {"x", "y"}}
Calendar == [d \in 1 .. 3 |-> [year |-> IF d = 1 THEN 1 ELSE 2, week |-> 1, month |-> d]]
CountOf(groups) == FoldLeft(LAMBDA n, k : n + groups[k].count, 0, SetToSeq(DOMAIN groups))
ASSUME GroupsAddUp ==
    \A a, b, c \in Orders, from \in {Nothing, 2} :
        LET rows == <<a, b, c>>
            inRange == Analytics!OrdersSummary(rows, from, Nothing)
            series(g) == Analytics!TimeSeries(rows, from, Nothing, g, "both", Calendar)
        IN  /\ CountOf(Analytics!Distribution(rows, "platform", from, Nothing)) = inRange.count
            /\ \A g \in {"day", "week", "month", "year"} :
                /\ CountOf(series(g)) = inRange.count
                /\ FoldLeft(LAMBDA n, k : n + series(g)[k].amount, 0,
                            SetToSeq(DOMAIN series(g))) = inRange.amount
            /\ Len(Analytics!OrdersTop(rows, "platform", 1, "amount", from, Nothing)) <= 1

\* The buckets over a hundred seconds: never more requests than a full bucket
\* and its refill.  80 are granted at once, then 8 in every ten seconds: up to
\* 160 requests, not the 100 of the comment.
AtOnce(k) == [minute |-> [tokens |-> Analytics!MinuteBucket.capacity - 10 * k, last |-> 0],
              hundred |-> [tokens |-> Analytics!HundredSecondBucket.capacity - 10 * k,
                           last |-> 0], at |-> 0]
TenSeconds(state) ==
    FoldLeft(LAMBDA last, i : Analytics!AcquireBoth(last.minute, last.hundred, 0, 1), state,
             [i \in 1 .. 8 |-> i])
Spent(k) == [minute |-> [tokens |-> AtOnce(80 + 8 * k).minute.tokens, last |-> 0],
             hundred |-> [tokens |-> 0, last |-> 10 * k], at |-> 10 * k]
ASSUME HundredSeconds ==
    /\ AtOnce(0).minute = Analytics!Full(Analytics!MinuteBucket)
    /\ AtOnce(0).hundred = Analytics!Full(Analytics!HundredSecondBucket)
    /\ \A k \in 0 .. 79 : Analytics!AcquireBoth(AtOnce(k).minute, AtOnce(k).hundred, 0, 1)
                            = AtOnce(k + 1)
    /\ Spent(0) = AtOnce(80)
    /\ \A k \in 0 .. 9 : TenSeconds(Spent(k)) = Spent(k + 1)

\* Column letters number the columns without a gap.
ASSUME ColumnLetters ==
    /\ \A d \in 1 .. 26 : Analytics!ColumnLetterToIndex(<<d>>) = d - 1
    /\ \A d, e \in 1 .. 26 : Analytics!ColumnLetterToIndex(<<d, e>>) = 26 * d + e - 1

-----------------------------------------------------------------------------
(* AgentRuntime and LeadAgentRuntime.                                       *)

\* Whatever providers are configured: one default provider, the first of its
\* kind if the wished one is missing, and a default runtime that resolves to
\* itself.
ASSUME DefaultsResolve ==
    \A configured \in SUBSET ToSet(StockRuntime!Providers) \ {{}},
       wished \in ToSet(StockRuntime!Providers) :
        LET catalog == StockRuntime!BuildCatalog(configured, StockRuntime!StockAgentModels, wished)
            default == StockRuntime!DefaultConfig(catalog)
        IN  /\ {catalog[i].provider : i \in DOMAIN catalog} = configured
            /\ Cardinality({i \in DOMAIN catalog : catalog[i].default}) = 1
            /\ wished \in configured => default.provider = wished
            /\ StockRuntime!ResolveConfig(catalog, default) = default

\* A model that does not reason is never asked to, a model that does is never
\* run without an effort.
Wishes == [provider : {"openai", "zai", " "}, model : {"gpt-5.5", "gpt-4.1", "glm-5.1"},
           reasoning : {Nothing, "", "low", "extreme"}]
ASSUME ReasoningFits ==
    LET catalog == StockRuntime!BuildCatalog({"openai", "zai"}, StockRuntime!StockAgentModels, "openai")
        granted == {w \in Wishes : StockRuntime!ResolveConfig(catalog, w) # Failed}
    IN  {<<w.model, StockRuntime!Optional(w.reasoning)>> : w \in granted}
            = {<<"gpt-5.5", "low">>, <<"gpt-4.1", Nothing>>, <<"glm-5.1", Nothing>>}

\* A delegated worker cannot delegate, is shown no skill's tools before it loads
\* one, and starts without its parent's todos.
Threads == [depth : {-1, 0, 1}, subagents : BOOLEAN, active : {Nothing, "", "skill"},
            allowed : {<<>>, <<"fetch", " ", "fetch">>}, enabled : {<<"skill">>},
            provider : {Nothing, "zai"}, model : {"glm-5.1"}, reasoning : {Nothing}]
Registered == StockRuntime!BaseTools \cup {"delegate_tasks", "fetch", "trade"}
ASSUME WorkersDoNotDelegate ==
    \A state \in Threads :
        LET worker == StockRuntime!WorkerState(state, "call") IN
        /\ StockRuntime!VisibleTools(worker, Registered) = StockRuntime!BaseTools
        /\ StockRuntime!SystemPrompt(worker) = "worker" /\ worker.todos = <<>>
        /\ "trade" \notin StockRuntime!VisibleTools(state, Registered)
        /\ state.depth = 1 => \A outcome \in {"timeout", "raises", "ends"} :
            StockRuntime!DelegateTask(state, [valid |-> TRUE, agent |-> "general_worker"], TRUE,
                                 [outcome |-> outcome]) = StockRuntime!Rejected

\* A delegated task is completed exactly when its worker left an answer; where
\* the stock agent reports a worker that could not be built as failed, the lead
\* agent's tool raises.
Messages == [role : {"user", "assistant"}, text : {"", "m"}]
ASSUME DelegationReports ==
    LET parent == CHOOSE s \in Threads : s.depth = 0
        task(agent) == [valid |-> TRUE, agent |-> agent]
    IN  /\ \A a, b \in Messages, structured \in {Nothing, "report"},
              outcome \in {"timeout", "raises", "ends"} :
            LET run == [outcome |-> outcome, messages |-> <<a, b>>, structured |-> structured]
                answered == outcome = "ends" /\ (\/ structured # Nothing \/ b.text # ""
                                                 \/ a = [role |-> "assistant", text |-> "m"])
                stock == StockRuntime!DelegateTask(parent, task("event_analyst"), TRUE, run)
            IN  /\ (stock.status = "completed") = answered
                /\ structured = Nothing =>
                    LeadRuntime!DelegateTask(parent, task("lead"), TRUE, run) = stock
        /\ StockRuntime!DelegateTask(parent, task("event_analyst"), FALSE, Nothing).status = "failed"
        /\ LeadRuntime!DelegateTask(parent, task("lead"), FALSE, Nothing) = Failed

\* Batches over the limit are refused whole; output limits are kept.
ASSUME LimitsHold ==
    /\ \A n \in 0 .. 4, limit \in 1 .. 3 :
        LET calls == [i \in 1 .. n |-> [name |-> "delegate_tasks", id |-> i]]
        IN  Len(StockRuntime!DelegationErrors(calls, limit)) \in {0, n}
            /\ (StockRuntime!DelegationErrors(calls, limit) = <<>>) = (n <= limit)
    /\ \A tokens \in 0 .. 12, marker \in 0 .. 9, max \in 1 .. 6 :
        StockRuntime!LimitedTokens("search", {"search"}, "success", tokens, marker, max) <= max
    /\ \A length \in 0 .. 9, blanks \in 0 .. 2 : StockRuntime!TruncatedLength(length, 5, blanks) <= 5

\* The todo prompt shows the first todos of each plan and counts all of them.
ASSUME TodosAreCounted ==
    \A n \in {1, 20, 21}, s \in StockRuntime!TodoStatuses :
        LET prompt == StockRuntime!TodoPrompt([revision |-> 1, messages |-> <<>>,
                todos |-> [i \in 1 .. n |-> [content |-> "t", status |-> s]]])
        IN  prompt.counts[s] = n /\ Len(prompt.todos) + prompt.more = n /\ Len(prompt.todos) <= 20

-----------------------------------------------------------------------------
(* ConversationWorkflows.                                                   *)

Leaves == {Flows!Text(""), Flows!Text(" "), Flows!Text("a"), Flows!TextBlock("b"),
           Flows!NoContent, Flows!OtherBlock}
Contents == Leaves \cup {Flows!Nested(c) : c \in Leaves}
                   \cup {Flows!List(<<c, Flows!Nested(d)>>) : c, d \in Leaves}

\* What is streamed is what is stored, and blanks.
ASSUME StoredTextWasStreamed ==
    \A c \in Contents :
        SelectSeq(Flows!StreamText(c), LAMBDA t : ~Flows!Blank(t)) = Flows!ContentText(c)

\* Titles keep within the limit and are a prefix of the words, or a cut word.
Titles == UNION {[1 .. n -> 1 .. 4] : n \in 0 .. 3}
ASSUME TitlesAreShort ==
    \A words \in Titles, limit \in 2 .. 8 :
        LET title == Flows!CutAtWord(words, limit)
        IN  /\ Flows!TextLength(title) <= limit
            /\ IsPrefix(title, words) \/ (Len(title) = 1 /\ title[1] < words[1])
            /\ words # <<>> => title # <<>>

\* Every turn of the orchestrator answers with a known envelope; an unregistered
\* planner and a failing node answer too.
Histories == {<<>>, <<[type |-> "human", content |-> "q"]>>,
              <<[type |-> "human", content |-> "q"], [type |-> "ai", content |-> "a"]>>,
              <<[type |-> "ai", content |-> "a"]>>, <<[type |-> "human", content |-> ""]>>}
ASSUME EveryTurnIsAnswered ==
    \A history \in Histories, answer \in Flows!TopLevelIntents \cup {"other"},
       outcome \in {Nothing, "", "text", "error"} :
        LET envelope == Flows!Orchestrate(history, answer, outcome)
        IN  /\ envelope.type \in Flows!ResponseTypes /\ envelope.intent \in Flows!TopLevelIntents
            /\ envelope.response = "" => envelope.intent = "unclear" /\ outcome \in {Nothing, ""}
            /\ Flows!LastUserMessage(history) \in {Nothing, ""} => envelope.intent = "unclear"

\* The data agent stops at the first text and after three runs.
ASSUME DataAgentStops ==
    \A attempts \in [1 .. 5 -> {Nothing, "error", "text"}] :
        LET ran == Flows!DataAgentNode({"sheet"}, attempts)
        IN  /\ ran.runs <= 3
            /\ (ran.response = "text") = (\E i \in 1 .. 3 : attempts[i] = "text")
            /\ \A i \in 1 .. ran.runs - 1 : attempts[i] # "text"

\* A tool's result goes to one call of its id.
ASSUME ToolCallsFinalized ==
    \A ids \in [1 .. 3 -> {1, 2}], id \in {1, 2, 3} :
        LET calls == [i \in 1 .. 3 |-> [id |-> ids[i], result |-> Nothing]]
            done == {i \in 1 .. 3 : Flows!FinalizeToolCall(calls, id, "r")[i].result = "r"}
        IN  Cardinality(done) = IF \E i \in 1 .. 3 : ids[i] = id THEN 1 ELSE 0
\* Lists of skills and tools are sets in the order of their mention, in both
\* places that normalize them.
ASSUME ListsAreNormalized ==
    \A values \in [1 .. 4 -> {"", " ", "a", "b"}] :
        LET list == Flows!NormalizeList(values)
        IN  IsInjective(list) /\ ToSet(list) = ToSet(values) \ {"", " "}
            /\ StockRuntime!Unique(values) = list

-----------------------------------------------------------------------------
(* AnalystOutputs and TechnicalIndicators.                                  *)

\* Each reading that is asked for is shown or reported unavailable, never both.
Calculations == {Failed, <<>>, <<1, Nothing>>, <<2, 3>>}
ASSUME ReadingsAreComplete ==
    \A set \in DOMAIN Indicators!Presets, one, other \in Calculations :
        LET asked == Indicators!Asked(Indicators!IndicatorConfig(set, Nothing))
            names == asked.trend \o asked.momentum \o asked.volatility \o asked.volume
            series == [n \in ToSet(names) |-> IF n[1] = names[1][1] THEN one ELSE other]
            bar == [time |-> "t", close |-> 2, volume |-> 5, low |-> 1, high |-> 3]
            snapshot == Indicators!Snapshot(set, Nothing, [i \in 1 .. 6 |-> bar], series)
            shown == snapshot.trend \o snapshot.momentum \o snapshot.volatility \o snapshot.volume
        IN  /\ {shown[i].name : i \in DOMAIN shown} \cup ToSet(snapshot.unavailable) = ToSet(names)
            /\ {shown[i].name : i \in DOMAIN shown} \cap ToSet(snapshot.unavailable) = {}
            /\ IsInjective(snapshot.unavailable)

\* Support never exceeds resistance where lows do not exceed highs.
ASSUME SupportBelowResistance ==
    \A lows \in [1 .. 5 -> {Nothing, 1, 2}] :
        LET highs == [i \in 1 .. 5 |-> IF lows[i] = Nothing THEN 2 ELSE lows[i] + (i % 2)]
            levels == Indicators!SupportResistance(lows, highs)
        IN  \A i \in DOMAIN levels.support :
                levels.support[i].price <= levels.resistance[i].price

\* Every citation of an accepted document is listed, and Markdown that lists
\* what it cites is accepted.
Sources == {[id |-> i, isId |-> TRUE, url |-> "u", title |-> "t"] : i \in {1, 2}}
Lines == {[kind |-> "heading", cites |-> {}, source |-> Nothing],
          [kind |-> "think", cites |-> {1}, source |-> Nothing],
          [kind |-> "text", cites |-> {2}, source |-> Nothing],
          [kind |-> "sources", cites |-> {}, source |-> Nothing]}
         \cup {[kind |-> "item", cites |-> {s.id}, source |-> s] : s \in Sources}
ASSUME CitationsAreListed ==
    \A document \in [1 .. 4 -> Lines] :
        LET output == Outputs!MarkdownOutput(document)
        IN  Outputs!ResearchOutputOk(output) =>
                /\ output.content.cites \subseteq {s.id : s \in ToSet(output.sources)}
                /\ IsInjective([i \in DOMAIN output.sources |-> output.sources[i].id])
                /\ \E i \in 1 .. 4 : document[i].kind \notin {"think", "sources"}

\* The tools of the technical analyst and the prices' API agree on what a
\* history request is.
ASSUME HistoryContractsAgree ==
    \A q \in HistoryQueries :
        Outputs!HistoryInputOk([symbol |-> "A", interval |-> q.interval, length |-> q.length,
                start |-> Sections!Text(q.start), end |-> Sections!Text(q.end)])
            => Sections!HistoryOk([q EXCEPT !.source = Nothing])
=============================================================================
