------------------------- MODULE TechnicalIndicators -------------------------
(****************************************************************************)
(* The technical analyst's indicator snapshot                               *)
(* (technical_analyst/tools/compute_indicators.py): which readings a set of *)
(* indicators asks for, which of them are unavailable, the signal of each,  *)
(* and the support and resistance levels.                                   *)
(*                                                                          *)
(* The series themselves come from the `ta' library: a calculation is a     *)
(* sequence of numbers and None (not a number), or Failed when it raised.   *)
(* Names are tuples <<kind, window>>.                                       *)
(****************************************************************************)
EXTENDS Integers, Sequences, FiniteSets, SequencesExt

CONSTANTS None, Failed

NoConfig == [sma |-> <<>>, ema |-> <<>>, rsi |-> <<>>, volume |-> <<>>, macd |-> None,
             bollinger |-> None, atr |-> None, adx |-> None, obv |-> FALSE, levels |-> FALSE]
Macd == [fast |-> 12, slow |-> 26, signal |-> 9]
Bollinger == [window |-> 20, dev |-> 2]

Presets ==
    [core |-> [sma |-> <<20, 50, 200>>, ema |-> <<20>>, rsi |-> <<14>>, volume |-> <<20>>,
               macd |-> Macd, bollinger |-> Bollinger, atr |-> 14, adx |-> 14, obv |-> TRUE,
               levels |-> TRUE],
     trend |-> [NoConfig EXCEPT !.sma = <<20, 50, 200>>, !.ema = <<20>>, !.adx = 14, !.levels = TRUE],
     momentum |-> [NoConfig EXCEPT !.rsi = <<14>>, !.macd = Macd],
     volatility |-> [NoConfig EXCEPT !.bollinger = Bollinger, !.atr = 14, !.levels = TRUE],
     volume |-> [NoConfig EXCEPT !.volume = <<20>>, !.obv = TRUE]]

IndicatorConfig(set, config) ==
    IF set = "custom" THEN config ELSE IF set \in DOMAIN Presets THEN Presets[set] ELSE Presets.core

-----------------------------------------------------------------------------
(* Signals. *)

LatestFinite(series) ==
    IF series \in {None, Failed, <<>>} THEN None ELSE series[Len(series)]
PreviousFinite(series) ==
    IF series \in {None, Failed} \/ Len(series) < 2 THEN None ELSE series[Len(series) - 1]

\* bullish above, bearish below, unclear when either is missing
Compare(value, reference) ==
    IF None \in {value, reference} THEN "unclear"
    ELSE IF value > reference THEN "bullish"
    ELSE IF value < reference THEN "bearish" ELSE "neutral"

PricePosition(close, value) == Compare(LatestFinite(close), value)
VolumeAverage(volume, average) == Compare(LatestFinite(volume), average)
MacdSignal(histogram) == Compare(LatestFinite(histogram), 0)
AdxSignal(plus, minus) == Compare(LatestFinite(plus), LatestFinite(minus))
ObvSignal(obv) == Compare(LatestFinite(obv), PreviousFinite(obv))

\* An oversold market is bullish, an overbought one bearish: the extremes point
\* the other way from the range between them.
RsiSignal(value) ==
    IF value >= 70 THEN "bearish" ELSE IF value <= 30 THEN "bullish" ELSE Compare(value, 50)

BandSignal(close, value, band) ==
    LET price == LatestFinite(close)
    IN  IF price = None THEN "unclear"
        ELSE IF band = "upper" /\ price >= value THEN "bearish"
        ELSE IF band = "lower" /\ price <= value THEN "bullish" ELSE "neutral"

-----------------------------------------------------------------------------
(* Readings: a reading is available when its latest value is; a calculation *)
(* that raised is reported twice and deduplicated at the end.               *)

Asked(config) ==
    LET Each(kind, windows) == [i \in DOMAIN windows |-> <<kind, windows[i]>>]
        If(flag, names) == IF flag THEN names ELSE <<>>
    IN  [trend |-> Each("sma", config.sma) \o Each("ema", config.ema)
                   \o If(config.adx # None, <<<<"adx", config.adx>>, <<"plus_di", config.adx>>,
                                             <<"minus_di", config.adx>>>>),
         momentum |-> Each("rsi", config.rsi)
                   \o If(config.macd # None, <<<<"macd", config.macd>>, <<"macd_signal", None>>,
                                              <<"macd_histogram", None>>>>),
         volatility |-> If(config.bollinger # None,
                           [i \in 1 .. 4 |-> <<<<"bollinger_upper", "bollinger_middle",
                               "bollinger_lower", "bollinger_width">>[i], config.bollinger.window>>])
                   \o If(config.atr # None, << <<"atr", config.atr>> >>),
         volume |-> If(config.obv, << <<"obv", None>> >>) \o Each("volume_avg", config.volume)]

\* series: the calculation of each name; data: the close and volume columns.
ReadingSignal(name, series, data) ==
    LET value == LatestFinite(series[name])
        kind == name[1]
    IN  CASE kind \in {"sma", "ema"} -> PricePosition(data.close, value)
          [] kind = "adx" -> AdxSignal(series[<<"plus_di", name[2]>>], series[<<"minus_di", name[2]>>])
          [] kind = "rsi" -> RsiSignal(value)
          [] kind = "macd" -> MacdSignal(series[<<"macd_histogram", None>>])
          [] kind = "macd_histogram" -> MacdSignal(series[name])
          [] kind = "bollinger_upper" -> BandSignal(data.close, value, "upper")
          [] kind = "bollinger_lower" -> BandSignal(data.close, value, "lower")
          [] kind = "bollinger_middle" -> PricePosition(data.close, value)
          [] kind = "obv" -> ObvSignal(series[name])
          [] kind = "volume_avg" -> VolumeAverage(data.volume, value)
          [] OTHER -> None

Available(series, name) == LatestFinite(series[name]) # None
Readings(names, series, data) ==
    LET found == SelectSeq(names, LAMBDA n : Available(series, n))
    IN  [i \in DOMAIN found |-> [name |-> found[i], value |-> LatestFinite(series[found[i]]),
                                 signal |-> ReadingSignal(found[i], series, data)]]
Unavailable(names, series) ==
    FlattenSeq([i \in DOMAIN names |->
        (IF series[names[i]] = Failed THEN <<names[i]>> ELSE <<>>)
        \o (IF Available(series, names[i]) THEN <<>> ELSE <<names[i]>>)])

Dedupe(names) ==
    LET first == SelectSeq([i \in DOMAIN names |-> i],
                           LAMBDA i : \A j \in 1 .. i - 1 : names[j] # names[i])
    IN  [k \in DOMAIN first |-> names[first[k]]]

-----------------------------------------------------------------------------
(* Support and resistance: the extremes of the last 20 bars (or fewer) and, *)
(* with 60 bars, of the last 60.                                            *)

LevelWindows(n) == << IF n < 20 THEN n ELSE 20 >> \o (IF n >= 60 THEN <<60>> ELSE <<>>)
Tail20or60(column, window) ==
    LET n == Len(column)
        width == IF window = 60 THEN 60 ELSE 20
    IN  {column[i] : i \in {i \in 1 .. n : i > n - width}} \ {None}

SupportResistance(lows, highs) ==
    LET n == Len(lows)
        usable == SelectSeq(LevelWindows(n), LAMBDA w :
                    Tail20or60(lows, w) # {} /\ Tail20or60(highs, w) # {})
    IN  IF n < 5 THEN [support |-> <<>>, resistance |-> <<>>, unavailable |-> TRUE]
        ELSE [support |-> [i \in DOMAIN usable |->
                  [window |-> usable[i],
                   price |-> CHOOSE p \in Tail20or60(lows, usable[i]) :
                                 \A q \in Tail20or60(lows, usable[i]) : p <= q]],
              resistance |-> [i \in DOMAIN usable |->
                  [window |-> usable[i],
                   price |-> CHOOSE p \in Tail20or60(highs, usable[i]) :
                                 \A q \in Tail20or60(highs, usable[i]) : p >= q]],
              unavailable |-> usable = <<>>]

-----------------------------------------------------------------------------
\* The time of the latest bar that has one.
LatestTime(times) ==
    LET dated == SelectSeq(times, LAMBDA t : t # None)
    IN  IF dated = <<>> THEN None ELSE dated[Len(dated)]

\* A column the history lacks is all None.
Column(items, field) ==
    [i \in DOMAIN items |-> IF field \in DOMAIN items[i] THEN items[i][field] ELSE None]

Snapshot(set, config, items, series) ==
    LET resolved == IndicatorConfig(set, config)
        names == Asked(resolved)
        data == [close |-> Column(items, "close"), volume |-> Column(items, "volume")]
        levels == IF resolved.levels
                  THEN SupportResistance(Column(items, "low"), Column(items, "high"))
                  ELSE [support |-> <<>>, resistance |-> <<>>, unavailable |-> FALSE]
        all == names.trend \o names.momentum \o names.volatility \o names.volume
    IN  [bars |-> Len(items), asOf |-> LatestTime(Column(items, "time")),
         trend |-> Readings(names.trend, series, data),
         momentum |-> Readings(names.momentum, series, data),
         volatility |-> Readings(names.volatility, series, data),
         volume |-> Readings(names.volume, series, data),
         support |-> levels.support, resistance |-> levels.resistance,
         unavailable |-> Dedupe(Unavailable(all, series)
             \o (IF levels.unavailable THEN << <<"support_resistance", None>> >> ELSE <<>>))]
=============================================================================
