------------------------------ MODULE Backtests ------------------------------
(****************************************************************************)
(* Deterministic backtests of one stock (services/backtest): the bars of a  *)
(* requested window, the three signal templates, the execution engine and   *)
(* the metrics of its result.                                               *)
(*                                                                          *)
(* Prices and money are integers, a derived value is a fraction <<n, d>>    *)
(* with d > 0 (floats in the code, which rounding would blur).  Bars and    *)
(* signals count from 1; the code counts from 0.  `history' is what the     *)
(* market has produced so far and grows by one trading day at a time, so    *)
(* that a property can compare the backtest of today with the one of        *)
(* yesterday.                                                               *)
(****************************************************************************)
EXTENDS Integers, Sequences, FiniteSets, SequencesExt

CONSTANTS Shapes,       \* the [open, close] a day may have
          Strategies,   \* the template parameters that may be asked for
          Capital,      \* initial_capital
          MaxDays,      \* bound: trading days
          Slack,        \* bound: days by which date_from may be later than needed
          None

VARIABLES history,      \* daily bars, as the price service returns them
          strategy,     \* [template, and its parameters]
          from,         \* date_from
          run           \* the latest result of the tool, or None

backtestVars == <<history, strategy, from, run>>

Least(S) == CHOOSE x \in S : \A y \in S : x <= y
Greatest(S) == CHOOSE x \in S : \A y \in S : x >= y
Whole(n) == <<n, 1>>
Below(p, q) == p[1] * q[2] < q[1] * p[2]
AtMost(p, q) == ~Below(q, p)

-----------------------------------------------------------------------------
(* The bars of a request. *)

\* Bars before the window warm the indicators up, later ones are dropped.
\* As many calendar days as twice the warmup bars are asked for.
FirstDay(start, warmup) == IF warmup <= 0 THEN start ELSE start - 2 * warmup
Within(bars, lo, hi) == SelectSeq(bars, LAMBDA b : lo <= b.day /\ b.day <= hi)
SplitWindow(bars, start, end) ==
    [warmup |-> Within(bars, 0, start - 1), tradable |-> Within(bars, start, end)]

\* load_bars with minimum_tradable_bars = 1; None stands for its ValueErrors.
LoadBars(bars, start, end, required) ==
    LET window == SplitWindow(Within(bars, FirstDay(start, required - 1), end), start, end)
    IN  IF window.tradable = <<>> \/ Len(window.warmup) + 1 < required THEN None ELSE window

-----------------------------------------------------------------------------
(* Series over all bars; None until a window is full. *)

Rolling(bars, window, Value(_)) ==
    [i \in DOMAIN bars |-> IF i < window THEN None ELSE Value(SubSeq(bars, i - window + 1, i))]

RollingSma(bars, window) ==
    Rolling(bars, window, LAMBDA seg : <<FoldLeft(LAMBDA sum, b : sum + b.close, 0, seg), window>>)
RollingMidpoint(bars, window) ==
    Rolling(bars, window, LAMBDA seg : <<Greatest({seg[i].high : i \in DOMAIN seg})
                                         + Least({seg[i].low : i \in DOMAIN seg}), 2>>)

\* Variant: the spans are shifted the wrong way.
AlignAhead(values, displacement) ==
    [i \in DOMAIN values |->
        IF i + displacement \in DOMAIN values THEN values[i + displacement] ELSE None]

AlignShifted(values, displacement) ==
    [i \in DOMAIN values |-> IF i > displacement THEN values[i - displacement] ELSE None]

\* Both series known on the day and the day before.
Known(fast, slow, i) ==
    i > 1 /\ None \notin {fast[i - 1], slow[i - 1], fast[i], slow[i]}
CrossesAbove(fast, slow, i) ==
    Known(fast, slow, i) /\ AtMost(fast[i - 1], slow[i - 1]) /\ Below(slow[i], fast[i])
CrossesBelow(fast, slow, i) ==
    Known(fast, slow, i) /\ AtMost(slow[i - 1], fast[i - 1]) /\ Below(fast[i], slow[i])

-----------------------------------------------------------------------------
(* Templates: bars, the index of the first tradable bar, and a sequence of  *)
(* signals whose positions count from that bar.                             *)

\* validate_window_order, validate_ichimoku_contract
StrategyOk(s) ==
    CASE s.template = "buy_and_hold" -> TRUE
      [] s.template = "sma_crossover" -> 1 <= s.fast /\ s.fast < s.slow
      [] s.template = "ichimoku_cloud" ->
            /\ 1 <= s.tenkan /\ s.tenkan < s.kijun /\ s.kijun < s.senkou
            /\ 1 <= s.displacement /\ s.senkou + s.displacement <= s.warmup

RequiredBars(s) ==
    CASE s.template = "buy_and_hold" -> 1
      [] s.template = "sma_crossover" -> s.slow + 1
      [] s.template = "ichimoku_cloud" -> s.warmup + 1

Signal(first, i, action, reason) == [bar |-> i - first + 1, action |-> action, reason |-> reason]
SignalsAt(bars, first, At(_)) ==
    FlattenSeq([k \in 1 .. (Len(bars) - first + 1) |-> At(first + k - 1)])

BuyAndHold(bars, first) ==
    IF first > Len(bars) THEN <<>> ELSE <<Signal(first, first, "buy", "entry")>>

SmaCrossover(bars, first, s) ==
    LET fast == RollingSma(bars, s.fast)
        slow == RollingSma(bars, s.slow)
        At(i) == IF CrossesAbove(fast, slow, i) THEN <<Signal(first, i, "buy", "fast_above_slow")>>
                 ELSE IF CrossesBelow(fast, slow, i) THEN <<Signal(first, i, "sell", "fast_below_slow")>>
                 ELSE <<>>
    IN  IF Len(bars) < RequiredBars(s) THEN <<>> ELSE SignalsAt(bars, first, At)

IchimokuSeries(bars, s) ==
    LET tenkan == RollingMidpoint(bars, s.tenkan)
        kijun == RollingMidpoint(bars, s.kijun)
        spanA == [i \in DOMAIN bars |-> IF None \in {tenkan[i], kijun[i]} THEN None
                                        ELSE <<tenkan[i][1] + kijun[i][1], 4>>]
    IN  [tenkan |-> tenkan, kijun |-> kijun, a |-> AlignShifted(spanA, s.displacement),
         b |-> AlignShifted(RollingMidpoint(bars, s.senkou), s.displacement)]

CloudKnown(series, i) == None \notin {series.a[i], series.b[i]}
CloudTop(series, i) == IF Below(series.a[i], series.b[i]) THEN series.b[i] ELSE series.a[i]
CloudBottom(series, i) == IF Below(series.a[i], series.b[i]) THEN series.a[i] ELSE series.b[i]
Close(bars, i) == Whole(bars[i].close)

ChikouConfirmed(bars, s, i) ==
    i > s.displacement /\ bars[i].close > bars[i - s.displacement].high
CloudBreakdown(bars, series, i) ==
    CloudKnown(series, i) /\ Below(Close(bars, i), CloudBottom(series, i))
BelowKijun(bars, series, i) ==
    series.kijun[i] # None /\ Below(Close(bars, i), series.kijun[i])
KijunLoss(bars, series, i) ==
    CrossesBelow(series.tenkan, series.kijun, i) /\ BelowKijun(bars, series, i)

IsSell(bars, series, i) == CloudBreakdown(bars, series, i) \/ KijunLoss(bars, series, i)
SellReason(bars, series, i) ==
    IF CloudBreakdown(bars, series, i) THEN "close_below_cloud" ELSE "kijun_loss"
IsBuy(bars, series, s, i) ==
    /\ CloudKnown(series, i) /\ Below(series.b[i], series.a[i])
    /\ Below(CloudTop(series, i), Close(bars, i))
    /\ CrossesAbove(series.tenkan, series.kijun, i)
    /\ ChikouConfirmed(bars, s, i)

WarningReasons(bars, series, s, i) ==
    {r \in {"close_below_kijun", "bearish_cross", "chikou_lost", "cloud_turns_bearish"} :
        CASE r = "close_below_kijun" -> BelowKijun(bars, series, i)
          [] r = "bearish_cross" -> CrossesBelow(series.tenkan, series.kijun, i)
          [] r = "chikou_lost" -> ~ChikouConfirmed(bars, s, i)
          [] r = "cloud_turns_bearish" ->
                /\ CloudKnown(series, i) /\ AtMost(series.a[i], series.b[i])
                /\ Below(CloudTop(series, i), Close(bars, i))}

\* A day that sells neither warns nor buys.
EvaluateBars(bars, first, s) ==
    LET series == IchimokuSeries(bars, s)
        At(i) == IF IsSell(bars, series, i)
                 THEN <<Signal(first, i, "sell", SellReason(bars, series, i))>>
                 ELSE IF IsBuy(bars, series, s, i)
                 THEN <<Signal(first, i, "buy", "bullish_cross_above_cloud")>> ELSE <<>>
        warned == SelectSeq([k \in 1 .. (Len(bars) - first + 1) |-> first + k - 1],
                    LAMBDA i : ~IsSell(bars, series, i) /\ WarningReasons(bars, series, s, i) # {})
    IN  IF first > Len(bars) \/ Len(bars) < RequiredBars(s) THEN [signals |-> <<>>, warnings |-> <<>>]
        ELSE [signals |-> SignalsAt(bars, first, At),
              warnings |-> [k \in DOMAIN warned |->
                  [bar |-> warned[k] - first + 1,
                   reasons |-> WarningReasons(bars, series, s, warned[k])]]]

GenerateSignals(bars, first, s) ==
    CASE s.template = "buy_and_hold" -> BuyAndHold(bars, first)
      [] s.template = "sma_crossover" -> SmaCrossover(bars, first, s)
      [] s.template = "ichimoku_cloud" -> EvaluateBars(bars, first, s).signals

-----------------------------------------------------------------------------
(* The engine: one signal fills at the open of the next bar; none fills     *)
(* after the window.                                                        *)

Fills(bars, signals, i) == SelectSeq(signals, LAMBDA s : s.bar + 1 = i /\ i <= Len(bars))

Trade(position, bar, price) ==
    [entry |-> position.price, exit |-> price, opened |-> position.day, closed |-> bar.day,
     shares |-> position.shares, pnl |-> position.shares * (price - position.price)]

\* Variant: the proceeds of a sell are computed from the close of the bar.
FillAtClose(account, signal, bar) ==
    IF signal.action = "sell" /\ account.position # None
    THEN [account EXCEPT !.cash = @ + account.position.shares * bar.close,
                         !.position = None,
                         !.trades = Append(@, Trade(account.position, bar, bar.open))]
    ELSE IF signal.action = "buy" /\ account.position = None /\ account.cash \div bar.open > 0
    THEN [account EXCEPT !.cash = @ - (account.cash \div bar.open) * bar.open,
                         !.position = [price |-> bar.open, shares |-> account.cash \div bar.open,
                                       day |-> bar.day]]
    ELSE account

\* All the cash goes into whole shares; a second buy, or a sell without a
\* position, does nothing.
Fill(account, signal, bar) ==
    IF signal.action = "buy"
    THEN LET shares == account.cash \div bar.open
         IN  IF account.position # None \/ shares <= 0 THEN account
             ELSE [account EXCEPT !.cash = @ - shares * bar.open,
                                  !.position = [price |-> bar.open, shares |-> shares, day |-> bar.day]]
    ELSE IF account.position = None THEN account
         ELSE [account EXCEPT !.cash = @ + account.position.shares * bar.open,
                              !.position = None,
                              !.trades = Append(@, Trade(account.position, bar, bar.open))]

Drawdown(equity, peak) == IF peak <= 0 THEN Whole(0) ELSE <<(peak - equity) * 100, peak>>

Point(bar, account, peak) ==
    LET value == IF account.position = None THEN 0 ELSE account.position.shares * bar.close
        equity == account.cash + value
        top == Greatest({peak, equity})
    IN  [day |-> bar.day, cash |-> account.cash, value |-> value, equity |-> equity,
         drawdown |-> Drawdown(equity, top), peak |-> top,
         shares |-> IF account.position = None THEN 0 ELSE account.position.shares]

EngineStart(capital) ==
    [cash |-> capital, position |-> None, trades |-> <<>>, curve |-> <<>>, peak |-> capital]

\* A template gives a bar at most one signal.
EngineBar(sim, bars, signals, i) ==
    LET fills == Fills(bars, signals, i)
        filled == IF fills = <<>> THEN sim ELSE Fill(sim, fills[1], bars[i])
        point == Point(bars[i], filled, sim.peak)
    IN  [filled EXCEPT !.curve = Append(@, point), !.peak = point.peak]

\* A position left at the end is closed at the last close.
CloseAtEnd(sim, last) ==
    IF sim.position = None THEN sim
    ELSE LET equity == sim.curve[Len(sim.curve)].equity
         IN  [sim EXCEPT !.trades = Append(@, Trade(sim.position, last, last.close)),
                         !.curve[Len(sim.curve)] = [@ EXCEPT !.cash = equity, !.value = 0,
                                                             !.shares = 0]]

EngineRun(bars, signals, capital) ==
    IF bars = <<>> THEN [trades |-> <<>>, curve |-> <<>>]
    ELSE LET after[i \in 0 .. Len(bars)] ==
                 IF i = 0 THEN EngineStart(capital) ELSE EngineBar(after[i - 1], bars, signals, i)
             sim == CloseAtEnd(after[Len(bars)], bars[Len(bars)])
         IN  [trades |-> sim.trades, curve |-> sim.curve]

-----------------------------------------------------------------------------
(* Metrics. *)

Sum(seq) == FoldLeft(LAMBDA a, b : a + b, 0, seq)
Pnls(trades, Keep(_)) == SelectSeq([i \in DOMAIN trades |-> trades[i].pnl], Keep)
EndingEquity(result, capital) ==
    IF result.curve = <<>> THEN capital ELSE result.curve[Len(result.curve)].equity

TotalReturn(ending, capital) ==
    IF capital <= 0 THEN Whole(0) ELSE <<(ending - capital) * 100, capital>>
\* (growth ^ (365 / days) - 1) * 100
AnnualizedReturn(ending, capital, start, end) ==
    [growth |-> <<ending, capital>>, days |-> Greatest({end - start, 1})]

WinRate(trades) ==
    IF trades = <<>> THEN Whole(0)
    ELSE <<100 * Len(Pnls(trades, LAMBDA p : p > 0)), Len(trades)>>

\* With no loss the factor is the profit itself.
ProfitFactor(trades) ==
    LET profit == Sum(Pnls(trades, LAMBDA p : p > 0))
        loss == -Sum(Pnls(trades, LAMBDA p : p < 0))
    IN  IF loss = 0 THEN Whole(profit) ELSE <<profit, loss>>

Metrics(result, capital, start, end) ==
    LET ending == EndingEquity(result, capital)
    IN  [ending |-> ending, return |-> TotalReturn(ending, capital),
         annualized |-> AnnualizedReturn(ending, capital, start, end),
         drawdowns |-> {result.curve[i].drawdown : i \in DOMAIN result.curve},
         winRate |-> WinRate(result.trades), profitFactor |-> ProfitFactor(result.trades),
         total |-> Len(result.trades)]

-----------------------------------------------------------------------------
(* run_backtest over [from, today]. *)

Today == Len(history)
Backtest ==
    LET window == LoadBars(history, from, Today, RequiredBars(strategy))
        all == window.warmup \o window.tradable
        signals == GenerateSignals(all, Len(window.warmup) + 1, strategy)
        result == EngineRun(window.tradable, signals, Capital)
    IN  IF window = None THEN None
        ELSE [bars |-> window.tradable, signals |-> signals, trades |-> result.trades,
              curve |-> result.curve, metrics |-> Metrics(result, Capital, from, Today)]

\* A trading day ends.  A bar whose open is 0, which the schema admits, makes the
\* engine divide by zero; the shapes have positive prices.
DayEnds ==
    /\ Today < MaxDays
    /\ \E s \in Shapes :
          history' = Append(history, [day |-> Today + 1, open |-> s.open, close |-> s.close,
                                      high |-> Greatest({s.open, s.close}),
                                      low |-> Least({s.open, s.close})])
    /\ UNCHANGED <<strategy, from, run>>

RunBacktest ==
    /\ run' = Backtest
    /\ UNCHANGED <<history, strategy, from>>

Init ==
    /\ history = <<>>
    /\ strategy \in {s \in Strategies : StrategyOk(s)}
    /\ from \in RequiredBars(strategy) .. RequiredBars(strategy) + Slack
    /\ run = None
Next == DayEnds \/ RunBacktest
Spec == Init /\ [][Next]_backtestVars

-----------------------------------------------------------------------------
\* A result covers the tradable days there were.
TypeOK ==
    /\ \A i \in DOMAIN history : history[i].day = i /\ history[i].low <= history[i].high
    /\ strategy \in Strategies /\ from \in Nat
    /\ run # None => /\ run.bars # <<>> /\ Len(run.bars) <= Today
                      /\ Len(run.curve) = Len(run.bars)

\* Money is conserved by every fill (engine.py:113-182): the profit and loss of
\* the trades add up to what the account gained, the cash is never negative, and
\* nothing is held after the end, whichever of the two ways (a signal, the end of
\* the window) closed the positions.
EquityConserved ==
    run # None =>
        /\ \A i \in DOMAIN run.curve : run.curve[i].cash >= 0
        /\ run.curve[Len(run.curve)].shares = 0
        /\ run.metrics.ending - Capital = Sum([i \in DOMAIN run.trades |-> run.trades[i].pnl])

\* No template looks ahead: a rerun after further days changes no signal of the
\* days before (templates.py, the displaced Ichimoku spans included) and no point
\* of the equity curve; only the last point may have been the end of the window,
\* and its equity stays.
NoLookAhead ==
    [][run # None =>
            /\ IsPrefix(run.signals, run'.signals)
            /\ \A i \in 1 .. Len(run.curve) - 1 : run'.curve[i] = run.curve[i]
            /\ run'.curve[Len(run.curve)].equity = run.curve[Len(run.curve)].equity
      ]_backtestVars
=============================================================================
