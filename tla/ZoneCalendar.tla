---------------------------- MODULE ZoneCalendar ----------------------------
(***************************************************************************)
(* Local time in a zone with daylight saving, and the two algorithms of    *)
(* validation.rs that depend on it: the next slot of a schedule            *)
(* (next_schedule) and the time-range condition (condition_failure).       *)
(* Instants are counted in units of UTC time, DayLength units to a day of  *)
(* the calendar; between SpringAt and FallAt the clocks are Shift ahead.   *)
(***************************************************************************)
EXTENDS Integers, FiniteSetsExt

CONSTANTS
    DayLength,   \* units in a day
    Shift,       \* by how much the clocks are put forward
    SpringAt,    \* the instant they are put forward
    FallAt,      \* the instant they are put back
    NoTime

ASSUME ZoneAssumption ==
    /\ DayLength \in Nat \ {0}
    /\ Shift \in 0 .. DayLength - 1
    /\ SpringAt \in Nat /\ FallAt \in Nat /\ SpringAt + Shift < FallAt
    /\ NoTime \notin Int

-----------------------------------------------------------------------------
(* chrono and chrono-tz.                                                   *)

Local(t) == IF SpringAt <= t /\ t < FallAt THEN t + Shift ELSE t

Date(t) == Local(t) \div DayLength
TimeOfDay(t) == Local(t) % DayLength

\* number_from_monday: day 0 is a Monday.
Weekday(date) == (date % 7) + 1

\* from_local_datetime: no instant in the gap of spring, two in the overlap of fall.
AtLocal(date, time) ==
    LET l == date * DayLength + time IN {t \in {l, l - Shift} : Local(t) = l}

\* earliest
Earliest(date, time) == IF AtLocal(date, time) = {} THEN NoTime ELSE Min(AtLocal(date, time))

-----------------------------------------------------------------------------
(* next_schedule: a rule is a time of day and a set of weekdays.           *)

Candidates(rule, after, offsets) ==
    {t \in {Earliest(d, rule.time) : d \in {Date(after) + o : o \in offsets}} \ {NoTime} :
        Weekday(Date(t)) \in rule.weekdays /\ t > after}

\* Mutant: the slot that is due is found again.
NextNotBefore(rule, after) ==
    LET found == Candidates(rule, after - 1, 0 .. 8)
    IN  IF found = {} THEN NoTime ELSE Min(found)

\* The code tries today and the eight days that follow, and stops at the first candidate.
NextSchedule(rule, after) ==
    LET found == Candidates(rule, after, 0 .. 8)
    IN  IF found = {} THEN NoTime ELSE Min(found)

-----------------------------------------------------------------------------
(* AutomationCondition::TimeRange: start, end and a set of weekdays.       *)

InRange(range, time) ==
    IF range.start < range.end THEN range.start <= time /\ time < range.end
    ELSE IF range.start > range.end THEN range.start <= time \/ time < range.end
    ELSE TRUE

\* Mutant: the morning belongs to the day it is on.
RangeDateOfTheMoment(range, t) == Date(t)

\* The day an interval over midnight belongs to is looked up a day earlier.
RangeDate(range, t) ==
    IF range.start > range.end /\ TimeOfDay(t) < range.end THEN Date(t - DayLength) ELSE Date(t)

TimeRangeHolds(range, t) ==
    Weekday(RangeDate(range, t)) \in range.weekdays /\ InRange(range, TimeOfDay(t))

-----------------------------------------------------------------------------
(* What the two are meant to compute.                                      *)

\* The rule comes round at t: its time on one of its weekdays, the first time that this
\* local time is read off the clock.
ComesRound(rule, t) ==
    /\ TimeOfDay(t) = rule.time
    /\ Weekday(Date(t)) \in rule.weekdays
    /\ \A s \in t - Shift .. t - 1 : Local(s) # Local(t)

\* t lies in an interval that began at its start on one of the weekdays.
InIntervalOf(range, t) ==
    LET begun == IF TimeOfDay(t) >= range.start \/ range.start <= range.end
                 THEN Date(t) ELSE Date(t) - 1
    IN  InRange(range, TimeOfDay(t)) /\ Weekday(begun) \in range.weekdays

\* The clocks were not changed within the last day.
Steady(t) == \A s \in {SpringAt, FallAt} : ~(t - DayLength < s /\ s <= t)
=============================================================================
