--------------------------- MODULE AnalystOutputs ---------------------------
(****************************************************************************)
(* The contracts between the analyst agents and their callers: what         *)
(* validation accepts as an event, technical, fundamental or research       *)
(* output, and as the input of a technical tool (validation.py of each      *)
(* agent, domain/schemas/technical_analysis.py).                            *)
(*                                                                          *)
(* A text is [blank, cites]: whether it is empty once trimmed and the       *)
(* source ids its [S1]-style tokens name.  A name or a symbol is a string;  *)
(* a missing value is None.  Every predicate says "accepted"; a rejected    *)
(* payload raises in the code.                                              *)
(****************************************************************************)
EXTENDS Integers, Sequences, FiniteSets, SequencesExt

CONSTANT None

BlankText == [blank |-> TRUE, cites |-> {}]
Text(cites) == [blank |-> FALSE, cites |-> cites]
Cites(texts) == UNION {texts[i].cites : i \in DOMAIN texts}

\* Blank entries are dropped; the fundamental analyst drops repetitions as well.
TextList(texts) == SelectSeq(texts, LAMBDA t : ~t.blank)
DistinctTextList(texts) ==
    LET kept == SelectSeq([i \in DOMAIN texts |-> i],
            LAMBDA i : ~texts[i].blank /\ \A j \in 1 .. i - 1 : texts[j] # texts[i])
    IN  [k \in DOMAIN kept |-> texts[kept[k]]]

Named(name) == name \notin {"", " "}
SourceOk(s) == s.isId /\ Named(s.url) /\ Named(s.title)
UniqueSources(sources) == IsInjective([i \in DOMAIN sources |-> sources[i].id])
SourceIds(sources) == {sources[i].id : i \in DOMAIN sources}

-----------------------------------------------------------------------------
(* Reading a payload: a mapping is validated as it is, a text is unfenced   *)
(* and parsed as JSON.                                                      *)

\* A fence counts only if it opens and closes on lines of their own.
Unfenced(payload) == IF payload.fenced /\ payload.lines >= 3 /\ payload.closed
                     THEN [payload EXCEPT !.fenced = FALSE] ELSE payload

\* The analysts accept JSON only; the research agent takes other text as
\* Markdown.
JsonReadable(payload) ==
    \/ payload.kind = "mapping"
    \/ payload.kind = "text" /\ ~payload.blank /\ ~Unfenced(payload).fenced /\ payload.json
ReadAs(payload) ==
    IF payload.kind = "mapping" THEN "json"
    ELSE IF payload.kind # "text" \/ payload.blank THEN "rejected"
    ELSE IF ~Unfenced(payload).fenced /\ payload.json THEN "json" ELSE "markdown"

\* _parse_markdown_output: a document is a sequence of lines.  Lines before the
\* first Markdown construct are a preamble, those after the "Sources" heading
\* list the sources; a line there that is not "- [S1] title (url)" is skipped.
StripPreamble(lines) ==
    LET starts == {i \in DOMAIN lines : lines[i].kind \in {"heading", "bold", "item", "sources"}}
    IN  IF starts = {} THEN lines
        ELSE SubSeq(lines, CHOOSE i \in starts : \A j \in starts : i <= j, Len(lines))

SplitSources(lines) ==
    LET headings == {i \in DOMAIN lines : lines[i].kind = "sources"}
        h == CHOOSE i \in headings : \A j \in headings : i <= j
    IN  IF headings = {} THEN <<lines, <<>> >>
        ELSE <<SubSeq(lines, 1, h - 1), SubSeq(lines, h + 1, Len(lines))>>

MarkdownOutput(document) ==
    LET parts == SplitSources(StripPreamble(SelectSeq(document, LAMBDA l : l.kind # "think")))
        listed == SelectSeq(parts[2], LAMBDA l : l.kind = "item" /\ l.source # None)
    IN  [content |-> IF parts[1] = <<>> THEN BlankText
                     ELSE Text(UNION {parts[1][i].cites : i \in DOMAIN parts[1]}),
         sources |-> [i \in DOMAIN listed |-> listed[i].source]]

-----------------------------------------------------------------------------
(* Research and event outputs: every citation names a listed source.        *)

ResearchOutputOk(o) ==
    /\ ~o.content.blank
    /\ \A i \in DOMAIN o.sources : SourceOk(o.sources[i])
    /\ UniqueSources(o.sources)
    /\ o.content.cites \subseteq SourceIds(o.sources)

Directions == {"bullish", "bearish", "mixed", "neutral", "unclear"}
Horizons == {"immediate", "short_term", "medium_term", "long_term", "unclear"}
Confidences == {"low", "medium", "high"}

EventOk(e) ==
    /\ ~e.title.blank /\ ~e.description.blank /\ Named(e.type)
    /\ e.direction \in Directions /\ e.horizon \in Horizons
    /\ e.idsOk

\* _referenced_source_ids: not the event types and dates, nor the sources.
EventCitations(o) ==
    o.summary.cites
    \cup UNION {o.events[i].ids \cup o.events[i].title.cites \cup o.events[i].description.cites :
                    i \in DOMAIN o.events}
    \cup Cites(TextList(o.bullish) \o TextList(o.bearish) \o TextList(o.uncertainties))

EventOutputOk(o) ==
    /\ ~o.summary.blank /\ o.direction \in Directions /\ o.confidence \in Confidences
    /\ \A i \in DOMAIN o.events : EventOk(o.events[i])
    /\ \A i \in DOMAIN o.sources : SourceOk(o.sources[i])
    /\ UniqueSources(o.sources)
    /\ EventCitations(o) \subseteq SourceIds(o.sources)

-----------------------------------------------------------------------------
(* Fundamental outputs: a section shows evidence or says what is missing.   *)

EvidenceRowOk(row) == ~row.item.blank
SectionOk(s) ==
    /\ ~s.assessment.blank /\ ~s.interpretation.blank
    /\ \A i \in DOMAIN s.rows : EvidenceRowOk(s.rows[i])
    /\ s.rows # <<>> \/ DistinctTextList(s.gaps) # <<>>

Sections == {"business_profile", "growth", "profitability", "financial_health",
             "cash_flow_quality", "valuation_ratios"}
Period(p) == IF p = None \/ ~Named(p) THEN "quarter" ELSE p

FundamentalOutputOk(o) ==
    /\ Named(o.symbol) /\ ~o.summary.blank
    /\ Period(o.period) \in {"quarter", "year"}
    /\ o.confidence \in Confidences
    /\ \A s \in Sections : SectionOk(o.section[s])

-----------------------------------------------------------------------------
(* Technical tool inputs.                                                   *)

Interval(i) == IF i = None \/ ~Named(i) THEN "1D" ELSE i
Source(s) == IF s = None \/ ~Named(s) THEN "KBS" ELSE s

\* Either a number of bars, or a start and perhaps an end.
HistoryInputOk(q) ==
    /\ Named(q.symbol) /\ Interval(q.interval) = "1D"
    /\ q.length = None \/ q.length > 0
    /\ (q.start # None) # (q.length # None)
    /\ q.end # None => q.start # None

\* A list of windows: positive, repetitions dropped.
WindowsOk(windows) == \A i \in DOMAIN windows : windows[i] > 0

MacdOk(m) == m.fast >= 1 /\ m.slow >= 1 /\ m.signal >= 1 /\ m.fast < m.slow
BollingerOk(b) == b.window >= 1 /\ b.dev > 0

IndicatorConfigOk(c) ==
    /\ WindowsOk(c.sma) /\ WindowsOk(c.ema) /\ WindowsOk(c.rsi) /\ WindowsOk(c.volume)
    /\ c.macd # None => MacdOk(c.macd)
    /\ c.bollinger # None => BollingerOk(c.bollinger)
    /\ c.atr # None => c.atr >= 1
    /\ c.adx # None => c.adx >= 1
    /\ \/ \E l \in {c.sma, c.ema, c.rsi, c.volume} : l # <<>>
       \/ \E x \in {c.atr, c.adx} : x # None
       \/ c.macd # None \/ c.bollinger # None
       \/ c.obv \/ c.levels

IndicatorSets == {"core", "trend", "momentum", "volatility", "volume", "custom"}
IndicatorSet(s) == IF s = None \/ ~Named(s) THEN "core" ELSE s
IndicatorInputOk(q) ==
    /\ HistoryInputOk(q) /\ IndicatorSet(q.set) \in IndicatorSets
    /\ IndicatorSet(q.set) = "custom" => q.config # None
    /\ q.config # None => IndicatorConfigOk(q.config)

-----------------------------------------------------------------------------
(* Technical outputs.                                                       *)

PriceLevelOk(l) == Named(l.label) /\ l.price >= 0
PriceZoneOk(z) == Named(z.label) /\ z.lower >= 0 /\ z.lower <= z.upper
RiskRewardOk(r) == \A p \in {r.entry, r.stop, r.target, r.ratio} : p >= 0

\* Nothing relates the stop and the targets to the entry zone.
TradingPlanOk(p) ==
    /\ PriceZoneOk(p.entry) /\ PriceLevelOk(p.stop) /\ PriceLevelOk(p.target1)
    /\ p.target2 # None => PriceLevelOk(p.target2)
    /\ p.rewards # <<>> /\ \A i \in DOMAIN p.rewards : RiskRewardOk(p.rewards[i])
    /\ Named(p.invalidated) /\ Named(p.rationale)

\* validate_mode_contract: a plan exactly when one was asked for.
TechnicalOutputOk(o) ==
    /\ o.mode \in {"technical_read", "trading_plan"}
    /\ ~o.summary.blank /\ Interval(o.interval) = "1D"
    /\ o.confidence \in Confidences
    /\ o.plan # None => TradingPlanOk(o.plan)
    /\ (o.mode = "trading_plan") = (o.plan # None)

\* A failing tool: research and event agents turn a ToolException into an error
\* message, the technical and fundamental agents any exception.
ToolErrorIsMessage(agent, exception) ==
    exception = "tool" \/ agent \in {"technical_analyst", "fundamental_analyst"}

\* The triggers of a specialist's summarization.
SpecialistTriggers(window) == (IF window \in Nat THEN <<"fraction">> ELSE <<>>) \o <<"tokens">>
=============================================================================
