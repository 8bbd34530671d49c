---------------------------- MODULE StockSections ----------------------------
(****************************************************************************)
(* Prices, company sections and financial reports of one stock: what a      *)
(* request is answered with, given what the catalogue, the two lookups in   *)
(* the cache and the provider return; under which key an answer is cached;  *)
(* and how the provider's payloads become items.  Also the merge of the     *)
(* listing payloads into a snapshot of the catalogue.                       *)
(*                                                                          *)
(* A record is a function from field names.  None is Python's None, NaN a   *)
(* float that is not a number; a text is a string, blank or not.            *)
(****************************************************************************)
EXTENDS Naturals, Sequences, SequencesExt, Functions, FiniteSetsExt

CONSTANTS None, NaN

Blank == {"", " "}
Field(record, key) == IF key \in DOMAIN record THEN record[key] ELSE None

-----------------------------------------------------------------------------
(* Requests.                                                                *)

Sources == {"VCI", "KBS"}
Source(text, default) == IF text = None \/ text \in Blank THEN default ELSE text
Text(text) == IF text = None \/ text \in Blank THEN None ELSE text

\* A history is asked by its start or by its length; an end needs a start.
Interval(text) == IF text = None \/ text \in Blank THEN "1D" ELSE text
HistoryOk(q) ==
    /\ Source(q.source, "KBS") \in Sources
    /\ Interval(q.interval) \in {"1m", "5m", "15m", "30m", "1H", "1D", "1W", "1M"}
    /\ q.length # 0
    /\ (Text(q.start) = None) # (q.length = None)
    /\ Text(q.end) # None => Text(q.start) # None

MaxPageSize == 30000
IntradayOk(q) ==
    /\ Source(q.source, "VCI") \in Sources
    /\ q.pageSize \in 1 .. MaxPageSize
    /\ Source(q.source, "VCI") = "KBS" => Text(q.lastTime) = None /\ Text(q.format) = None

ReportTypes == {"income-statement", "balance-sheet", "cash-flow", "ratio"}
ReportPeriods == {"quarter", "year"}
Period(text) == IF text = None \/ text \in Blank THEN "quarter" ELSE text
ReportOk(q) == q.type \in ReportTypes /\ Period(q.period) \in ReportPeriods

Officers(text) == IF text = None \/ text \in Blank THEN "working" ELSE text
OfficersOk(text) == Officers(text) \in {"working", "resigned", "all"}
Subsidiaries(text) == IF text = None \/ text \in Blank THEN "all" ELSE text
SubsidiariesOk(text) == Subsidiaries(text) \in {"all", "subsidiary"}

\* A page of the catalogue; blank filters are none.
ListOk(q) == q.page >= 1 /\ q.pageSize \in 1 .. 100
ListFilters(q) == [exchange |-> Text(q.exchange), group |-> Text(q.group),
                   industry |-> Text(q.industry), text |-> Text(q.text)]

-----------------------------------------------------------------------------
(* Keys of the cache, and how long an answer lives there.                   *)

HistoryKey(symbol, q) ==
    <<"stocks:prices", symbol, "history", Source(q.source, "KBS"), Interval(q.interval),
      Text(q.start), Text(q.end), q.length>>
IntradayKey(symbol, q) ==
    <<"stocks:prices", symbol, "intraday", Source(q.source, "VCI"), q.pageSize,
      Text(q.lastTime), Text(q.format)>>
CompanyKey(symbol, section, filter) ==
    <<"stocks:company", symbol, section>> \o IF filter = None THEN <<>> ELSE <<filter>>
ReportKey(symbol, q) == <<"stocks:financial-reports", symbol, q.type, Period(q.period)>>
TimeToLive(section) == IF section = "intraday" THEN 120 ELSE 86400

\* invalidate_symbol.
KeysOf(keys, prefix, symbol) == {k \in keys : k[1] = prefix /\ k[2] = symbol}

-----------------------------------------------------------------------------
(* Answers.  lookup is the cached payload or None (missing, unreadable, or  *)
(* the cache failed); fetched is what the provider returns, [failure,       *)
(* payload]; again is the second lookup, after a failure.                   *)

Error(status) == [status |-> status]
Hit(payload) == [status |-> 200, hit |-> TRUE, payload |-> payload, stored |-> FALSE]
Fresh(payload) == [status |-> 200, hit |-> FALSE, payload |-> payload, stored |-> TRUE]

Failures == {"user_input", "no_data", "other"}

PriceReply(valid, listed, lookup, fetched, again) ==
    CASE ~valid -> Error(422)
      [] valid /\ ~listed -> Error(404)
      [] valid /\ listed /\ lookup # None -> Hit(lookup)
      [] OTHER -> IF fetched.failure = None THEN Fresh(fetched.payload)
                  ELSE IF again # None THEN Hit(again)
                  ELSE IF fetched.failure = "user_input" THEN Error(422) ELSE Error(502)

\* A failure of the company provider reaches the caller as it is.
CompanyReply(listed, lookup, fetched, again) ==
    CASE ~listed -> Error(404)
      [] listed /\ lookup # None -> Hit(lookup)
      [] OTHER -> IF fetched.failure = None THEN Fresh(fetched.payload)
                  ELSE IF again # None THEN Hit(again) ELSE Error(500)

\* A report the provider does not have is 404, even when a copy is cached by
\* now; an empty one is 404 and not stored.
ReportReply(valid, listed, lookup, fetched, again) ==
    CASE ~valid -> Error(422)
      [] valid /\ ~listed -> Error(404)
      [] valid /\ listed /\ lookup # None -> Hit(lookup)
      [] OTHER -> CASE fetched.failure = "no_data" -> Error(404)
                    [] fetched.failure = "user_input" -> Error(422)
                    [] fetched.failure = "other" -> IF again # None THEN Hit(again) ELSE Error(502)
                    [] OTHER -> IF fetched.payload = <<>> THEN Error(404)
                                ELSE Fresh(fetched.payload)

-----------------------------------------------------------------------------
(* Payloads.                                                                *)

Missing(value) == IF value = NaN THEN None ELSE value

\* Allowed fields that the record has, with missing values as None.
Pick(record, fields) == [k \in fields \cap DOMAIN record |-> Missing(record[k])]
Records(payload, fields) ==
    IF payload = None THEN <<>>
    ELSE [i \in DOMAIN payload |-> Pick(payload[i], fields)]

\* overview, ratio_summary and trading_stats: the first record, or a record of
\* the symbol alone.
SingleRecord(payload, fields, symbol) ==
    LET records == Records(payload, fields)
    IN  IF records = <<>> THEN [symbol |-> symbol] ELSE records[1]

\* Times and identifiers, which every price record has afterwards.
WithTime(record) == [k \in DOMAIN record \cup {"time"} |-> Field(record, k)]
Identifier(value) == IF Missing(value) = None \/ value \in Blank THEN None ELSE value
WithIdentifier(record) ==
    [k \in DOMAIN record \cup {"id"} |->
        IF k = "id" THEN Identifier(Field(record, "id")) ELSE record[k]]
HistoryFields == {"time", "open", "high", "low", "close", "volume"}
IntradayFields == {"time", "price", "volume", "match_type", "id"}
HistoryItems(payload) ==
    LET records == Records(payload, HistoryFields)
    IN  [i \in DOMAIN records |-> WithTime(records[i])]
IntradayItems(payload) ==
    LET records == Records(payload, IntradayFields)
    IN  [i \in DOMAIN records |-> WithIdentifier(WithTime(records[i]))]

\* The periods of a report: those the payload names, else its columns, else
\* the keys of its records in the order they appear.
NonPeriodFields == {"item", "item_id", "item_en", "unit", "levels", "row_number"}
NamedPeriods(payload) ==
    IF payload.periods # None THEN SelectSeq(payload.periods, LAMBDA p : p # None)
    ELSE SelectSeq(payload.columns, LAMBDA c : c \notin NonPeriodFields)
InferredPeriods(rows) ==
    LET new(periods, key) == IF key \in NonPeriodFields \cup ToSet(periods) THEN periods
                             ELSE Append(periods, key)
    IN  FoldLeft(new, <<>>, FlattenSeq([i \in DOMAIN rows |-> SetToSeq(DOMAIN rows[i])]))
Periods(payload) ==
    IF NamedPeriods(payload) = <<>> THEN InferredPeriods(payload.rows)
    ELSE NamedPeriods(payload)

\* One item per record that names it, with a value for every period.
ItemId(value) == Identifier(value)
ReportItems(payload) ==
    IF payload = None THEN <<>>
    ELSE LET named == SelectSeq(payload.rows,
                                LAMBDA r : Text(Missing(Field(r, "item"))) # None)
         IN  [i \in DOMAIN named |->
                [item |-> named[i].item, itemId |-> ItemId(Field(named[i], "item_id")),
                 values |-> [p \in ToSet(Periods(payload)) |->
                                Missing(Field(named[i], p))]]]

-----------------------------------------------------------------------------
(* The snapshot of the catalogue.                                           *)

\* Groups of every symbol a group lists.
Memberships(groups) ==
    [s \in UNION {groups[g] : g \in DOMAIN groups} \ Blank |->
        {g \in DOMAIN groups : s \in groups[g]}]

\* A later record replaces a field only with a value that is not blank.
StockFields == {"organ_name", "exchange", "icb_code2", "icb_name2"}
NonBlank(record, key) == Text(Field(record, key))
Merge(merged, record) ==
    LET symbol == NonBlank(record, "symbol")
        entry == IF symbol \in DOMAIN merged THEN merged[symbol]
                 ELSE [k \in StockFields |-> None]
        fields == [k \in StockFields |->
                    IF NonBlank(record, k) = None THEN entry[k] ELSE NonBlank(record, k)]
    IN  IF symbol = None THEN merged
        ELSE [s \in DOMAIN merged \cup {symbol} |-> IF s = symbol THEN fields ELSE merged[s]]

\* Names, then exchanges, then industries, then groups.
StockSnapshot(names, exchanges, industries, groups) ==
    LET merged == FoldLeft(Merge, <<>>, names \o exchanges \o industries)
        members == Memberships(groups)
    IN  [s \in DOMAIN merged \cup DOMAIN members |->
            [fields |-> IF s \in DOMAIN merged THEN merged[s] ELSE [k \in StockFields |-> None],
             groups |-> IF s \in DOMAIN members THEN members[s] ELSE {}]]
===============================================================================
