----------------------- MODULE MCStockResearchDispatch -----------------------
(* Small instances of the dispatcher for TLC: one clock unit is five        *)
(* minutes, so the every_15_minutes cadence is three units and the lock of  *)
(* 600 seconds is two.                                                      *)
EXTENDS StockResearchDispatch, ScheduleCalculator, TLC

MCUnit        == 5 * Minute
MCPeriod      == Quarter \div MCUnit
MCOccurrences == {t \in 1 .. MaxClock + MCPeriod : t % MCPeriod = 0}
MCNextRun     == [t \in Times |-> NextQuarterHour(MCUnit * t) \div MCUnit]

\* References at, just before and just after an occurrence, across midnight UTC,
\* local midnight and the end of the week.
MCReferences ==
    {at + delta : at \in {0, Quarter, At(1, 0), At(1, 9), At(6, 23), Week}, delta \in {-1, 0, 1}}
MCDefinitions ==
    {[type |-> "every_15_minutes", hour |-> NoHour, weekdays |-> {}]}
        \cup [type : {"daily"}, hour : {0, 9, 23}, weekdays : {{}}]
        \cup [type : {"weekly"}, hour : {9}, weekdays : {{0, 2, 4, 6}}]

\* The calculator against its reference definition.
ASSUME NextRunSamples ==
    /\ MCDefinitions \subseteq Definitions
    /\ \A def \in MCDefinitions, after \in MCReferences : IsNext(def, after, NextRunAt(def, after))

\* Everywhere but between creating a report and attaching it, and between
\* marking a run queued and advancing its schedule.
MCSafeCrashPoints    == Steps \ {"idle", "attach", "advance"}
MCAllCrashPoints     == Steps \ {"idle"}
MCNoCrashPoints      == {}
MCAdvanceCrashPoint  == {"advance"}

Symmetry ==
    Permutations(Dispatchers) \cup Permutations(Clients) \cup Permutations(Reports)
==============================================================================
