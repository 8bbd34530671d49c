--------------------------- MODULE SheetAnalytics ---------------------------
(****************************************************************************)
(* What the sheet crawler and the analytics service compute: rows mapped to *)
(* the fields of a connection (column_mapper.py), the rate limiter and the  *)
(* errors of the Google client, and the queries of a synced sheet           *)
(* (analytics_service.py, strategies.py).  SheetSync models how the rows    *)
(* get stored.                                                              *)
(*                                                                          *)
(* A cell is [kind, value]; its kind says which conversions succeed.  A row *)
(* of data is [date, and its fields].  Days and amounts are integers.       *)
(****************************************************************************)
EXTENDS Integers, Sequences, FiniteSets, SequencesExt

CONSTANT None

Empty == [kind |-> "empty", value |-> None]
TextOf(cell) == [kind |-> "text", value |-> cell.value]

-----------------------------------------------------------------------------
(* column_mapper.py *)

\* The first column of that name.
ColumnIndex(name, headers) ==
    LET at == {i \in DOMAIN headers : headers[i] = name}
    IN  IF at = {} THEN 0 ELSE CHOOSE i \in at : \A j \in at : i <= j

\* A letter counts as a digit of base 26 from 1; the result counts from 0.
ColumnLetterToIndex(letters) == FoldLeft(LAMBDA n, d : 26 * n + d, 0, letters) - 1

\* A conversion that fails keeps the text.  "huge" is a number too large for a
\* float: as an integer it raises OverflowError, which is not caught.
ConvertType(cell, type) ==
    CASE cell.kind = "empty" \/ type = "string" -> cell
      [] type = "number"  -> IF cell.kind \in {"number", "huge"} THEN cell ELSE TextOf(cell)
      [] type = "integer" -> IF cell.kind = "huge" THEN [kind |-> "raises", value |-> None]
                             ELSE IF cell.kind = "number"
                             THEN [kind |-> "number", value |-> (cell.value \div 10) * 10]
                             ELSE TextOf(cell)
      [] type = "date"    -> IF cell.kind = "date" THEN cell ELSE TextOf(cell)
      [] OTHER            -> TextOf(cell)

CellAt(row, i) == IF i > Len(row) THEN Empty ELSE row[i]

\* Required columns of the sheet that are missing stop the sync.
MissingRequired(headers, mappings) ==
    {i \in DOMAIN mappings : mappings[i].required /\ ColumnIndex(mappings[i].column, headers) = 0}

MapRow(row, headers, mappings) ==
    LET found == SelectSeq(mappings, LAMBDA m : ColumnIndex(m.column, headers) # 0)
    IN  [f \in {found[i].field : i \in DOMAIN found} |->
            LET m == CHOOSE m \in ToSet(found) :
                        m.field = f /\ \A i \in DOMAIN found : found[i].field = f =>
                            \E j \in i .. Len(found) : found[j] = m
            IN  ConvertType(CellAt(row, ColumnIndex(m.column, headers)), m.type)]

\* Two columns of one name share a key: the later one stays.
RawData(row, headers) ==
    [h \in ToSet(headers) |->
        CellAt(row, CHOOSE i \in DOMAIN headers :
            headers[i] = h /\ \A j \in DOMAIN headers : headers[j] = h => j <= i)]

-----------------------------------------------------------------------------
(* rate_limiter.py: two token buckets, one after the other; tokens in       *)
(* tenths, time in seconds.  A caller that must wait holds the bucket's     *)
(* lock, so the next one queues behind it.                                  *)

MinuteBucket == [capacity |-> 2400, rate |-> 40]
HundredSecondBucket == [capacity |-> 800, rate |-> 8]
Full(limits) == [tokens |-> limits.capacity, last |-> 0]

Refill(limits, bucket, now) ==
    LET tokens == bucket.tokens + (now - bucket.last) * limits.rate
    IN  [tokens |-> IF tokens > limits.capacity THEN limits.capacity ELSE tokens, last |-> now]

TryAcquire(limits, bucket, now, n) ==
    LET filled == Refill(limits, bucket, now)
    IN  IF filled.tokens >= 10 * n
        THEN [ok |-> TRUE, bucket |-> [filled EXCEPT !.tokens = @ - 10 * n]]
        ELSE [ok |-> FALSE, bucket |-> filled]

\* acquire at `now' behind the callers before it: [at, bucket], or None for more
\* tokens than the bucket holds.
Acquire(limits, bucket, now, n) ==
    LET start == IF now < bucket.last THEN bucket.last ELSE now
        filled == Refill(limits, bucket, start)
        lacking == 10 * n - filled.tokens
        wait == IF lacking <= 0 THEN 0 ELSE (lacking + limits.rate - 1) \div limits.rate
    IN  IF 10 * n > limits.capacity THEN None
        ELSE [at |-> start + wait,
              bucket |-> TryAcquire(limits, filled, start + wait, n).bucket]

AcquireBoth(minute, hundred, now, n) ==
    LET first == Acquire(MinuteBucket, minute, now, n)
        second == Acquire(HundredSecondBucket, hundred, first.at, n)
    IN  IF first = None THEN None
        ELSE [minute |-> first.bucket,
              at |-> IF second = None THEN None ELSE second.at,
              hundred |-> IF second = None THEN hundred ELSE second.bucket]

-----------------------------------------------------------------------------
(* client.py: what an outcome of the Sheets API is reported as. *)

ClientError(outcome) ==
    CASE outcome = "ok"           -> None
      [] outcome = "forbidden"       -> "not_accessible"
      [] outcome \in {"missing", "no_worksheet"} -> "not_found"
      [] OTHER                    -> "client_error"

CheckAccess(outcome) ==
    CASE outcome = "ok" -> "yes"
      [] outcome \in {"forbidden", "missing"} -> "no"
      [] OTHER -> "client_error"

SheetMetadata(outcome, book) == IF ClientError(outcome) # None THEN ClientError(outcome) ELSE book

SheetValues(rows, start) == IF start > Len(rows) THEN <<>> ELSE SubSeq(rows, start, Len(rows))
Headers(rows, header) == IF header > Len(rows) THEN <<>> ELSE rows[header]

\* At most 50 rows; the total is the size of the grid, blank rows included.
Preview(rows, grid, header, first, asked) ==
    LET headers == Headers(rows, header)
        wanted == first + (IF asked < 50 THEN asked ELSE 50) - 1
        last == IF wanted < grid THEN wanted ELSE grid
        shown == IF first <= grid THEN SubSeq(rows, first, IF last < Len(rows) THEN last ELSE Len(rows))
                 ELSE <<>>
    IN  IF headers = <<>> THEN [headers |-> <<>>, rows |-> <<>>, total |-> 0]
        ELSE [headers |-> headers,
              rows |-> [i \in DOMAIN shown |->
                          RawData(shown[i], [k \in DOMAIN headers |-> headers[k].value])],
              total |-> IF grid < first THEN 0 ELSE grid - first + 1]

-----------------------------------------------------------------------------
(* strategies.py: what each type of sheet supports. *)

SheetType(name) ==
    IF name \in {"orders", "order_items", "customers", "products"} THEN name ELSE "orders"

OrdersStrategy ==
    [series |-> TRUE, distribution |-> {"platform", "order_status"}, top |-> {"platform"},
     search |-> {"order_id", "platform", "order_status", "customer_id"},
     sort |-> {"order_id", "platform", "order_status", "order_date", "subtotal", "total_amount"},
     date |-> "order_date"]
OrderItemsStrategy ==
    [series |-> FALSE, distribution |-> {}, top |-> {"product_name"},
     search |-> {"order_item_id", "order_id", "product_id", "product_name"},
     sort |-> {"order_item_id", "order_id", "product_id", "product_name", "quantity",
               "unit_price", "final_price", "line_total"},
     date |-> None]
CustomersStrategy ==
    [series |-> FALSE, distribution |-> {}, top |-> {}, date |-> None,
     search |-> {"customer_id", "customer_name", "phone"},
     sort |-> {"customer_id", "customer_name", "phone"}]
ProductsStrategy ==
    [series |-> FALSE, distribution |-> {}, top |-> {}, date |-> None,
     search |-> {"product_id", "product_name"}, sort |-> {"product_id", "product_name"}]

Strategy(type) ==
    CASE type = "orders" -> OrdersStrategy [] type = "order_items" -> OrderItemsStrategy
      [] type = "customers" -> CustomersStrategy [] type = "products" -> ProductsStrategy

-----------------------------------------------------------------------------
(* The queries.  `rows' are the stored rows of the connection.              *)

Total(rows, field) == FoldLeft(LAMBDA sum, r : sum + r[field], 0, rows)
InRange(row, from, to) == /\ from # None => row.date # None /\ from <= row.date
                          /\ to # None => row.date # None /\ row.date <= to
Selected(rows, from, to) == SelectSeq(rows, LAMBDA r : InRange(r, from, to))
RangeOk(from, to) == from = None \/ to = None \/ from <= to

\* Another user's connection is as good as none.
Accessible(connection, user) == connection # None /\ connection.user = user

\* The dates of a request restrict the orders only.
OrdersSummary(rows, from, to) ==
    LET of == Selected(rows, from, to)
        amount == Total(of, "total_amount")
    IN  [count |-> Len(of), amount |-> amount,
         average |-> IF of = <<>> THEN <<0, 1>> ELSE <<amount, Len(of)>>]
OrderItemsSummary(rows) ==
    [quantity |-> Total(rows, "quantity"), lineTotal |-> Total(rows, "line_total"),
     products |-> Cardinality({rows[i].product_name : i \in DOMAIN rows})]
Summary(type, rows, from, to) ==
    CASE type = "orders" -> OrdersSummary(rows, from, to)
      [] type = "order_items" -> OrderItemsSummary(rows)
      [] OTHER -> [count |-> Len(rows)]

\* A week is named by the calendar year and the ISO week: the days of a week
\* that spans New Year fall into two buckets.
Bucket(day, granularity, calendar) ==
    CASE granularity = "week" -> <<calendar[day].year, calendar[day].week>>
      [] granularity = "month" -> <<calendar[day].year, calendar[day].month>>
      [] granularity = "year" -> <<calendar[day].year>>
      [] OTHER -> <<day>>

GroupBy(rows, Key(_)) ==
    [k \in {Key(rows[i]) : i \in DOMAIN rows} |-> SelectSeq(rows, LAMBDA r : Key(r) = k)]

TimeSeries(rows, from, to, granularity, metrics, calendar) ==
    LET groups == GroupBy(Selected(rows, from, to),
                          LAMBDA r : Bucket(r.date, granularity, calendar))
    IN  [b \in DOMAIN groups |->
            [count |-> IF metrics = "amount" THEN None ELSE Len(groups[b]),
             amount |-> IF metrics = "count" THEN None ELSE Total(groups[b], "total_amount")]]

\* Each value with its count and its share of all, in hundredths.
Distribution(rows, field, from, to) ==
    LET of == Selected(rows, from, to)
        groups == GroupBy(of, LAMBDA r : r[field])
    IN  [v \in DOMAIN groups |->
            [count |-> Len(groups[v]), share |-> <<100 * Len(groups[v]), Len(of)>>]]

Top(rows, field, limit, measure) ==
    LET groups == GroupBy(rows, LAMBDA r : r[field])
        Rank(v) == IF measure = None THEN Len(groups[v]) ELSE Total(groups[v], measure)
        ranked == SetToSortSeq(DOMAIN groups, LAMBDA v, w : Rank(v) > Rank(w))
    IN  SubSeq(ranked, 1, IF limit < Len(ranked) THEN limit ELSE Len(ranked))
OrdersTop(rows, field, limit, metric, from, to) ==
    Top(Selected(rows, from, to), field, limit, IF metric = "amount" THEN "total_amount" ELSE None)
OrderItemsTop(rows, field, limit, metric) ==
    Top(rows, field, limit, IF metric = "quantity" THEN "quantity" ELSE None)

\* get_data: one page, with the number of pages there are.
Pages(total, size) == (total + size - 1) \div size
DataPage(rows, page, size) ==
    LET first == (page - 1) * size + 1
        last == IF first + size - 1 < Len(rows) THEN first + size - 1 ELSE Len(rows)
    IN  [rows |-> SubSeq(rows, first, last), total |-> Len(rows), pages |-> Pages(Len(rows), size)]

\* The status of a request, in the order of the checks.
RequestStatus(kind, connection, user, field, from, to) ==
    LET strategy == Strategy(SheetType(connection.sheet))
    IN  CASE ~RangeOk(from, to) -> 400
          [] ~Accessible(connection, user) -> 404
          [] kind = "series" /\ ~strategy.series -> 400
          [] kind = "distribution" /\ field \notin strategy.distribution -> 400
          [] kind = "top" /\ field \notin strategy.top -> 400
          [] kind = "data" /\ field # None /\ field \notin strategy.sort -> 400
          [] OTHER -> 200

\* A result is cached under everything it depends on; a page of data never is.
CacheKey(connection, kind, params) == IF kind = "data" THEN None ELSE <<connection, kind, params>>
Cached(cache, key, computed) ==
    IF key # None /\ key \in DOMAIN cache THEN cache[key] ELSE computed
=============================================================================
