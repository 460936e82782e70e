--------------------------- MODULE MCZoneCalendar ---------------------------
(* The algorithms of ZoneCalendar at every instant up to a last one. *)
EXTENDS ZoneCalendar

CONSTANT LastInstant

ASSUME LastAssumption == LastInstant \in Nat

VARIABLES now, rule, range

vars == <<now, rule, range>>

TimesOfDay == 0 .. DayLength - 1

\* One day, two days in a row, two days apart, every day.
WeekdaySets == {{1}, {2}, {1, 2}, {7, 1}, 1 .. 7}

Init ==
    /\ now = DayLength
    /\ rule \in [time : TimesOfDay, weekdays : WeekdaySets]
    /\ range \in [start : TimesOfDay, end : TimesOfDay, weekdays : {{1}, {2, 7}}]

Next == now < LastInstant /\ now' = now + 1 /\ UNCHANGED <<rule, range>>

Spec == Init /\ [][Next]_vars

-----------------------------------------------------------------------------
\* The next slot is the first instant at which the rule comes round: what the clocks skip
\* is left out, what they repeat comes once.  Only a rule of one weekday may find none.
NextIsTheFirst ==
    LET next == NextSchedule(rule, now)
    IN  IF next = NoTime
        THEN Cardinality(rule.weekdays) = 1
        ELSE next > now /\ \A t \in now + 1 .. next : ComesRound(rule, t) <=> t = next

\* Away from a change of the clocks, the condition holds in the intervals that begin on
\* its weekdays, and only there.
RangeIsIntervals == Steady(now) => (TimeRangeHolds(range, now) <=> InIntervalOf(range, now))

\* Finding: "An overnight interval belongs to the weekday on which it starts", also on the
\* day after the clocks change.
RangeIsIntervalsAlways == TimeRangeHolds(range, now) <=> InIntervalOf(range, now)
=============================================================================
