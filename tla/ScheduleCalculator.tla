-------------------------- MODULE ScheduleCalculator --------------------------
(****************************************************************************)
(* When a stock research schedule runs next.  Instants are seconds, UTC,    *)
(* counted from a Monday at midnight; fractions of a second are rounded the *)
(* way seconds are.  The local zone, Asia/Ho_Chi_Minh, is seven hours ahead *)
(* the whole year.                                                          *)
(****************************************************************************)
EXTENDS Integers

Minute  == 60
Quarter == 15 * Minute
Hour    == 60 * Minute
Day     == 24 * Hour
Week    == 7 * Day
Offset  == 7 * Hour

Hours    == 0 .. 23
Weekdays == 0 .. 6
NoHour   == 24

\* The definitions that pass _validate_interval_schedule and
\* _validate_calendar_schedule.
Definitions ==
    [type : {"every_15_minutes"}, hour : {NoHour}, weekdays : {{}}]
        \cup [type : {"daily"}, hour : Hours, weekdays : {{}}]
        \cup [type : {"weekly"}, hour : Hours, weekdays : (SUBSET Weekdays) \ {{}}]

\* The seconds are dropped, then the minutes up to the next quarter added.
NextQuarterHour(after) ==
    LET base == after - (after % Minute)
    IN  base + Minute * (15 - ((base \div Minute) % 15))

\* Days are counted in the local zone, from a Monday.
LocalDate(t) == (t + Offset) \div Day
Weekday(d)   == d % 7
At(d, hour)  == Day * d + Hour * hour - Offset

NextDaily(after, hour) ==
    LET candidate == At(LocalDate(after), hour)
    IN  IF candidate <= after THEN candidate + Day ELSE candidate

\* The next occurrence on one day of the week.
NextOn(after, hour, weekday) ==
    LET date      == LocalDate(after)
        candidate == At(date + ((weekday - Weekday(date)) % 7), hour)
    IN  IF candidate <= after THEN candidate + Week ELSE candidate

NextWeekly(after, hour, weekdays) ==
    LET candidates == {NextOn(after, hour, weekday) : weekday \in weekdays}
    IN  CHOOSE first \in candidates : \A other \in candidates : first <= other

\* calculate_next_stock_research_run_at
NextRunAt(def, after) ==
    CASE def.type = "every_15_minutes" -> NextQuarterHour(after)
      [] def.type = "daily"            -> NextDaily(after, def.hour)
      [] def.type = "weekly"           -> NextWeekly(after, def.hour, def.weekdays)

-----------------------------------------------------------------------------
(* What a definition means, without reference to how it is computed.        *)

Occurs(def, t) ==
    CASE def.type = "every_15_minutes" -> t % Quarter = 0
      [] def.type = "daily"            -> t = At(LocalDate(t), def.hour)
      [] def.type = "weekly"           -> /\ t = At(LocalDate(t), def.hour)
                                          /\ Weekday(LocalDate(t)) \in def.weekdays

\* t is the first occurrence after the given instant.
IsNext(def, after, t) ==
    /\ t > after
    /\ Occurs(def, t)
    /\ \A u \in after + 1 .. t - 1 : ~Occurs(def, u)
===============================================================================
