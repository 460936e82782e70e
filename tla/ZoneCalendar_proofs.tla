------------------------- MODULE ZoneCalendar_proofs -------------------------
(***************************************************************************)
(* Theorems about ZoneCalendar, for every zone, rule and instant: a slot   *)
(* that next_schedule finds is the first instant after the one it is asked *)
(* about at which the rule comes round, and away from a change of the      *)
(* clocks a time range holds in the intervals that begin on its weekdays.  *)
(***************************************************************************)
EXTENDS ZoneCalendar, FiniteSetTheorems, WellFoundedInduction, TLAPS

\* What validate lets pass: a time of day, and weekdays, at least one.
IsRule(rule) ==
    /\ rule.time \in 0 .. DayLength - 1
    /\ rule.weekdays \subseteq 1 .. 7 /\ rule.weekdays # {}

\* The clock shows the time of t for the first time.
FirstReading(t) == \A s \in t - Shift .. t - 1 : Local(s) # Local(t)

-----------------------------------------------------------------------------
(* Numbers.                                                                *)

LEMMA Division ==
    ASSUME NEW n \in Int, NEW d \in Nat \ {0}
    PROVE  /\ n \div d \in Int
           /\ n % d \in 0 .. d - 1
           /\ n = ((n \div d) * d) + (n % d)
OBVIOUS

LEMMA DivisionOf ==
    ASSUME NEW q \in Int, NEW d \in Nat \ {0}, NEW r \in 0 .. d - 1
    PROVE  ((q * d) + r) \div d = q /\ ((q * d) + r) % d = r
OBVIOUS

LEMMA DivisionIsMonotone ==
    ASSUME NEW n \in Int, NEW m \in Int, NEW d \in Nat \ {0}, n <= m
    PROVE  (n \div d) <= (m \div d)
OBVIOUS

LEMMA ProductIsMonotone ==
    ASSUME NEW q \in Int, NEW k \in Int, NEW d \in Nat \ {0}, q < k
    PROVE  /\ q * d \in Int /\ k * d \in Int
           /\ (q * d) + d <= k * d
OBVIOUS

\* The numbers of a set that has a lower bound have a least one.
LEMMA MinIsLeast ==
    ASSUME NEW S \in SUBSET Int, S # {}, NEW b \in Int, \A x \in S : b <= x
    PROVE  Min(S) \in S /\ \A y \in S : Min(S) <= y
<1> DEFINE N == {n \in Nat : n + b \in S}
<1>1. PICK s \in S : TRUE
  OBVIOUS
<1>2. N \subseteq Nat /\ s - b \in N
  BY <1>1
<1>3. PICK m \in N : \A k \in N : <<k, m>> \notin OpToRel(<, Nat)
  BY <1>2, WFMin, NatLessThanWellFounded, Zenon
<1>4. \A k \in N : ~(k < m)
  BY <1>2, <1>3, Zenon DEF OpToRel
<1>5. ASSUME NEW y \in S PROVE m + b <= y
  <2>1. y - b \in N
    BY <1>1
  <2> QED BY <2>1, <1>4
<1>6. \E x \in S : \A y \in S : x <= y
  BY <1>5
<1> QED BY <1>6 DEF Min

\* Seven days in a row are a week: each weekday comes once.
LEMMA WeekdayComes ==
    ASSUME NEW date \in Int, NEW w \in 1 .. 7
    PROVE  /\ \E o \in 1 .. 7 : Weekday(date + o) = w
           /\ \E o \in 2 .. 8 : Weekday(date + o) = w
<1> DEFINE k == (w - 2 - date) % 7
           m == (w - 3 - date) % 7
<1>1. k \in 0 .. 6 /\ ((date + (1 + k)) % 7) + 1 = w
  OBVIOUS
<1>2. m \in 0 .. 6 /\ ((date + (2 + m)) % 7) + 1 = w
  OBVIOUS
<1> HIDE DEF k, m
<1>3. 1 + k \in 1 .. 7 /\ 2 + m \in 2 .. 8
  BY <1>1, <1>2
<1> QED BY <1>1, <1>2, <1>3 DEF Weekday

-----------------------------------------------------------------------------
(* The clocks.                                                             *)

LEMMA LocalType ==
    ASSUME NEW t \in Int
    PROVE  /\ Local(t) \in Int /\ Date(t) \in Int
           /\ TimeOfDay(t) \in 0 .. DayLength - 1
           /\ Local(t) = (Date(t) * DayLength) + TimeOfDay(t)
<1>1. Local(t) \in Int
  BY ZoneAssumption DEF Local
<1> QED BY <1>1, Division, ZoneAssumption DEF Date, TimeOfDay

LEMMA LocalOf ==
    ASSUME NEW t \in Int, NEW date \in Int, NEW time \in 0 .. DayLength - 1,
           Local(t) = (date * DayLength) + time
    PROVE  Date(t) = date /\ TimeOfDay(t) = time
BY DivisionOf, ZoneAssumption DEF Date, TimeOfDay

\* The clocks are put back over times that they show a second time, so that a first
\* reading is never behind what they showed before.
LEMMA FirstReadingsAdvance ==
    ASSUME NEW t \in Int, NEW after \in Int, after < t, FirstReading(t)
    PROVE  Local(after) <= Local(t) /\ Date(after) <= Date(t)
<1>1. Local(after) <= Local(t)
  <2> SUFFICES ASSUME Local(t) < Local(after) PROVE FALSE
    BY LocalType
  <2>1. Shift \in Int /\ SpringAt \in Int /\ FallAt \in Int /\ SpringAt + Shift < FallAt /\ Shift >= 0
    BY ZoneAssumption
  <2>2. after < FallAt /\ FallAt <= t /\ SpringAt <= after /\ t < after + Shift
    BY <2>1 DEF Local
  <2>3. t - Shift \in t - Shift .. t - 1 /\ Local(t - Shift) = Local(t)
    BY <2>1, <2>2 DEF Local
  <2> QED BY <2>3 DEF FirstReading
<1> QED BY <1>1, LocalType, DivisionIsMonotone, ZoneAssumption DEF Date

\* Each local time is read at most twice, and earliest is the first reading.
LEMMA EarliestIsFirst ==
    ASSUME NEW date \in Int, NEW time \in 0 .. DayLength - 1,
           Earliest(date, time) # NoTime
    PROVE  /\ Earliest(date, time) \in Int
           /\ Local(Earliest(date, time)) = (date * DayLength) + time
           /\ FirstReading(Earliest(date, time))
<1> DEFINE l == (date * DayLength) + time
           e == Earliest(date, time)
<1>1. l \in Int /\ Shift \in Nat /\ SpringAt \in Int /\ FallAt \in Int /\ SpringAt + Shift < FallAt
  BY ZoneAssumption
<1>2. /\ AtLocal(date, time) = {t \in {l, l - Shift} : Local(t) = l}
      /\ AtLocal(date, time) # {} /\ e = Min(AtLocal(date, time))
  BY DEF AtLocal, Earliest
<1> HIDE DEF l
<1>3. AtLocal(date, time) \in SUBSET Int /\ \A t \in AtLocal(date, time) : l - Shift <= t
  BY <1>1, <1>2
<1>4. e \in AtLocal(date, time) /\ \A t \in AtLocal(date, time) : e <= t
  BY <1>1, <1>2, <1>3, MinIsLeast
<1>5. e \in Int /\ Local(e) = l /\ e \in {l, l - Shift}
  BY <1>1, <1>2, <1>4
<1> HIDE DEF e
<1>6. ASSUME NEW s \in e - Shift .. e - 1, Local(s) = l PROVE FALSE
  <2>1. s \in Int /\ s < e /\ s \in {l, l - Shift}
    BY <1>1, <1>5, <1>6 DEF Local
  <2> QED BY <2>1, <1>2, <1>4, <1>6, <1>5
<1> QED BY <1>5, <1>6 DEF FirstReading, e, l

LEMMA FirstIsEarliest ==
    ASSUME NEW t \in Int, FirstReading(t)
    PROVE  t = Earliest(Date(t), TimeOfDay(t))
<1> DEFINE l == Local(t)
           A == AtLocal(Date(t), TimeOfDay(t))
<1>1. l \in Int /\ Shift \in Nat /\ SpringAt \in Int /\ FallAt \in Int /\ SpringAt + Shift < FallAt
  BY ZoneAssumption, LocalType
<1>2. A = {s \in {l, l - Shift} : Local(s) = l}
  BY LocalType DEF AtLocal
<1>3. t \in A
  BY <1>1, <1>2 DEF Local
<1>4. ASSUME NEW s \in A PROVE t <= s
  <2>1. s \in Int /\ s >= t - Shift /\ Local(s) = Local(t)
    BY <1>1, <1>2 DEF Local
  <2> QED BY <2>1, <1>1 DEF FirstReading
<1>5. A \in SUBSET Int
  BY <1>1, <1>2
<1>6. Min(A) = t
  <2>1. Min(A) \in A /\ \A y \in A : Min(A) <= y
    BY <1>3, <1>4, <1>5, MinIsLeast
  <2> QED BY <2>1, <1>3, <1>4, <1>5
<1> QED BY <1>3, <1>6 DEF Earliest

-----------------------------------------------------------------------------
(* next_schedule.                                                          *)

\* A candidate is a later instant at which the rule comes round.
LEMMA CandidateComesRound ==
    ASSUME NEW rule, IsRule(rule), NEW after \in Int, NEW t \in Candidates(rule, after, 0 .. 8)
    PROVE  /\ t \in Int /\ after < t
           /\ ComesRound(rule, t)
           /\ Date(t) - Date(after) \in 0 .. 8
<1>1. PICK o \in 0 .. 8 : t = Earliest(Date(after) + o, rule.time)
  BY DEF Candidates
<1>2. t # NoTime /\ Weekday(Date(t)) \in rule.weekdays /\ t > after
  BY DEF Candidates
<1>3. Date(after) + o \in Int /\ rule.time \in 0 .. DayLength - 1 /\ Date(after) \in Int
  BY LocalType DEF IsRule
<1>4. /\ t \in Int /\ FirstReading(t)
      /\ Local(t) = ((Date(after) + o) * DayLength) + rule.time
  BY <1>1, <1>2, <1>3, EarliestIsFirst
<1>5. Date(t) = Date(after) + o /\ TimeOfDay(t) = rule.time
  BY <1>3, <1>4, LocalOf
<1> QED BY <1>2, <1>3, <1>4, <1>5 DEF ComesRound, FirstReading

\* An instant at which the rule comes round is a candidate when its date is tried.
LEMMA ComesRoundIsCandidate ==
    ASSUME NEW rule, IsRule(rule), NEW after \in Int, NEW t \in Int, after < t,
           ComesRound(rule, t), Date(t) - Date(after) <= 8
    PROVE  t \in Candidates(rule, after, 0 .. 8)
<1>1. FirstReading(t) /\ TimeOfDay(t) = rule.time /\ Weekday(Date(t)) \in rule.weekdays
  BY DEF ComesRound, FirstReading
<1>2. t = Earliest(Date(t), rule.time) /\ t # NoTime
  BY <1>1, FirstIsEarliest, ZoneAssumption
<1>3. Date(after) \in Int /\ Date(t) \in Int /\ Date(after) <= Date(t)
  BY <1>1, LocalType, FirstReadingsAdvance
<1> DEFINE o == Date(t) - Date(after)
<1>4. o \in 0 .. 8 /\ Date(t) = Date(after) + o
  BY <1>3
<1> QED BY <1>1, <1>2, <1>4 DEF Candidates

\* What next_schedule finds is the first of its candidates.
LEMMA NextIsFirstCandidate ==
    ASSUME NEW rule, IsRule(rule), NEW after \in Int, NextSchedule(rule, after) # NoTime
    PROVE  /\ NextSchedule(rule, after) \in Candidates(rule, after, 0 .. 8)
           /\ \A t \in Candidates(rule, after, 0 .. 8) : NextSchedule(rule, after) <= t
<1> DEFINE C == Candidates(rule, after, 0 .. 8)
<1>1. \A t \in C : t \in Int /\ after <= t
  BY CandidateComesRound
<1>2. C # {} /\ NextSchedule(rule, after) = Min(C)
  BY DEF NextSchedule
<1> HIDE DEF C
<1>3. Min(C) \in C /\ \A t \in C : Min(C) <= t
  BY <1>1, <1>2, MinIsLeast
<1> QED BY <1>2, <1>3 DEF C

\* A slot that next_schedule finds comes after the instant it is asked about, is one of the
\* rule's times, and is the first: what the clocks skip is left out, what they repeat comes
\* once (validation.rs next_schedule).
THEOREM NextScheduleIsFirst ==
    ASSUME NEW rule, IsRule(rule), NEW after \in Int, NextSchedule(rule, after) # NoTime
    PROVE  LET next == NextSchedule(rule, after)
           IN  /\ next \in Int /\ next > after
               /\ ComesRound(rule, next)
               /\ \A t \in after + 1 .. next : ComesRound(rule, t) <=> t = next
<1> DEFINE next == NextSchedule(rule, after)
<1>1. /\ next \in Candidates(rule, after, 0 .. 8)
      /\ \A t \in Candidates(rule, after, 0 .. 8) : next <= t
  BY NextIsFirstCandidate
<1> HIDE DEF next
<1>2. next \in Int /\ next > after /\ ComesRound(rule, next) /\ Date(next) - Date(after) \in 0 .. 8
  BY <1>1, CandidateComesRound
<1>3. ASSUME NEW t \in after + 1 .. next, ComesRound(rule, t) PROVE t = next
  <2>1. t \in Int /\ after < t /\ t <= next /\ FirstReading(next)
    BY <1>2 DEF ComesRound, FirstReading
  <2>2. Date(t) <= Date(next)
    <3>1. CASE t = next
      BY <3>1, <2>1, LocalType
    <3>2. CASE t < next
      BY <3>2, <1>2, <2>1, FirstReadingsAdvance
    <3> QED BY <1>2, <2>1, <3>1, <3>2
  <2>3. Date(t) - Date(after) <= 8
    BY <1>2, <2>1, <2>2, LocalType
  <2>4. next <= t
    BY <1>1, <1>3, <2>1, <2>3, ComesRoundIsCandidate
  <2> QED BY <1>2, <2>1, <2>4
<1> QED BY <1>2, <1>3 DEF next

\* A local time of a day outside the gap of spring is read off the clock.
LEMMA OutsideTheGap ==
    ASSUME NEW date \in Int, NEW time \in 0 .. DayLength - 1,
           ~(/\ SpringAt <= (date * DayLength) + time
             /\ (date * DayLength) + time < SpringAt + Shift)
    PROVE  Earliest(date, time) # NoTime
<1> DEFINE l == (date * DayLength) + time
<1>1. l \in Int /\ Shift \in Nat /\ SpringAt \in Int /\ FallAt \in Int /\ SpringAt + Shift < FallAt
      /\ l - Shift \in Int
  BY ZoneAssumption
<1>2. AtLocal(date, time) = {t \in {l, l - Shift} : Local(t) = l}
  BY DEF AtLocal
<1>3. ~(SpringAt <= l /\ l < SpringAt + Shift)
  OBVIOUS
<1> HIDE DEF l
<1>4. Local(l) = l \/ Local(l - Shift) = l
  BY <1>1, <1>3 DEF Local
<1>5. AtLocal(date, time) # {} /\ AtLocal(date, time) \in SUBSET Int
  BY <1>1, <1>2, <1>4
<1>6. \A t \in AtLocal(date, time) : l - Shift <= t
  BY <1>1, <1>2
<1>7. /\ Min(AtLocal(date, time)) \in AtLocal(date, time)
      /\ \A t \in AtLocal(date, time) : Min(AtLocal(date, time)) <= t
  BY <1>1, <1>5, <1>6, MinIsLeast
<1> QED BY <1>5, <1>7, ZoneAssumption DEF Earliest

\* A day that is tried, is one of the rule's weekdays, lies ahead of what the clock shows
\* and has the rule's time gives a candidate.
LEMMA DayIsCandidate ==
    ASSUME NEW rule, IsRule(rule), NEW after \in Int, NEW o \in 1 .. 8,
           Weekday(Date(after) + o) \in rule.weekdays,
           after < FallAt \/ o >= 2,
           Earliest(Date(after) + o, rule.time) # NoTime
    PROVE  Earliest(Date(after) + o, rule.time) \in Candidates(rule, after, 0 .. 8)
<1> DEFINE date == Date(after) + o
           t == Earliest(date, rule.time)
<1>1. /\ date \in Int /\ Date(after) \in Int /\ rule.time \in 0 .. DayLength - 1 /\ DayLength \in Nat \ {0}
      /\ Local(after) \in Int /\ TimeOfDay(after) \in 0 .. DayLength - 1
      /\ Local(after) = (Date(after) * DayLength) + TimeOfDay(after)
  BY LocalType, ZoneAssumption DEF IsRule
<1>2. t \in Int /\ Local(t) = (date * DayLength) + rule.time
  BY <1>1, EarliestIsFirst
<1>3. Date(t) = date
  BY <1>1, <1>2, LocalOf
<1> HIDE DEF t
<1>4. t > after
  <2>1. date * DayLength \in Int /\ (Date(after) * DayLength) + DayLength <= date * DayLength
    BY <1>1, ProductIsMonotone
  <2>2. Local(after) < Local(t)
    BY <1>1, <1>2, <2>1
  <2>3. Shift \in Int /\ SpringAt \in Int /\ FallAt \in Int /\ SpringAt + Shift < FallAt /\ Shift >= 0 /\ Shift < DayLength
    BY ZoneAssumption
  <2>4. CASE after < FallAt
    BY <1>2, <2>2, <2>3, <2>4 DEF Local
  <2>5. CASE o >= 2 /\ ~(after < FallAt)
    <3>1. /\ (Date(after) + 1) * DayLength \in Int
          /\ (Date(after) * DayLength) + DayLength <= (Date(after) + 1) * DayLength
          /\ ((Date(after) + 1) * DayLength) + DayLength <= date * DayLength
      <4>1. Date(after) + 1 \in Int /\ Date(after) < Date(after) + 1 /\ Date(after) + 1 < date
        BY <1>1, <2>5
      <4> QED BY <1>1, <4>1, ProductIsMonotone
    <3>2. Local(after) + DayLength < Local(t)
      BY <1>1, <1>2, <2>1, <3>1
    <3> QED BY <1>1, <1>2, <2>3, <2>5, <3>2 DEF Local
  <2> QED BY <2>4, <2>5
<1>5. t \in {Earliest(d, rule.time) : d \in {Date(after) + p : p \in 0 .. 8}} \ {NoTime}
  BY DEF t
<1> QED BY <1>3, <1>4, <1>5 DEF Candidates, t

\* Only a rule of a single weekday may find no slot: the clocks can skip its time of one
\* day, and the eight days that are tried hold that weekday once more at most.
THEOREM OnlyOneWeekdayFindsNone ==
    ASSUME NEW rule, IsRule(rule), NEW after \in Int, NextSchedule(rule, after) = NoTime
    PROVE  Cardinality(rule.weekdays) = 1
<1>1. Candidates(rule, after, 0 .. 8) = {}
  <2> SUFFICES ASSUME Candidates(rule, after, 0 .. 8) # {} PROVE FALSE
    OBVIOUS
  <2>1. Candidates(rule, after, 0 .. 8) \in SUBSET Int /\ \A t \in Candidates(rule, after, 0 .. 8) : after <= t
    BY CandidateComesRound
  <2>2. Min(Candidates(rule, after, 0 .. 8)) \in Int
    BY <2>1, MinIsLeast
  <2> QED BY <2>2, ZoneAssumption DEF NextSchedule
<1>2. /\ Date(after) \in Int /\ DayLength \in Nat \ {0} /\ Shift \in 0 .. DayLength - 1
      /\ SpringAt \in Int /\ FallAt \in Int /\ SpringAt + Shift < FallAt
      /\ rule.time \in 0 .. DayLength - 1 /\ rule.weekdays \in SUBSET (1 .. 7) /\ rule.weekdays # {}
  BY LocalType, ZoneAssumption DEF IsRule
<1> DEFINE At(o) == ((Date(after) + o) * DayLength) + rule.time
<1>3. ASSUME NEW o \in 1 .. 8, Weekday(Date(after) + o) \in rule.weekdays, after < FallAt \/ o >= 2
      PROVE  SpringAt <= At(o) /\ At(o) < SpringAt + Shift
  <2>1. Earliest(Date(after) + o, rule.time) = NoTime
    BY <1>1, <1>3, DayIsCandidate
  <2> QED BY <1>2, <2>1, OutsideTheGap
<1>4. ASSUME NEW w \in rule.weekdays
      PROVE  /\ \E o \in 1 .. 7 : Weekday(Date(after) + o) = w
             /\ \E o \in 2 .. 8 : Weekday(Date(after) + o) = w
  <2>1. w \in 1 .. 7 /\ Date(after) \in Int
    BY <1>2
  <2> QED BY <2>1, WeekdayComes
<1>5. ASSUME NEW v \in rule.weekdays, NEW w \in rule.weekdays PROVE v = w
  <2>1. CASE after < FallAt
    <3>1. PICK o \in 1 .. 7 : Weekday(Date(after) + o) = v
      BY <1>4
    <3>2. PICK p \in 1 .. 7 : Weekday(Date(after) + p) = w
      BY <1>4
    <3>3. /\ SpringAt <= At(o) /\ At(o) < SpringAt + Shift
          /\ SpringAt <= At(p) /\ At(p) < SpringAt + Shift
      BY <1>3, <2>1, <3>1, <3>2
    <3>4. ~(o < p) /\ ~(p < o)
      <4>1. ASSUME NEW m \in 1 .. 7, NEW n \in 1 .. 7, m < n PROVE At(m) + DayLength <= At(n) /\ At(m) \in Int /\ At(n) \in Int
        BY <1>2, <4>1, ProductIsMonotone
      <4> HIDE DEF At
      <4> QED BY <1>2, <3>3, <4>1
    <3> QED BY <3>1, <3>2, <3>4
  <2>2. CASE ~(after < FallAt)
    <3>1. PICK o \in 2 .. 8 : Weekday(Date(after) + o) = v
      BY <1>4
    <3>2. At(o) < SpringAt + Shift
      BY <1>3, <3>1
    <3>3. Local(after) = after /\ Local(after) = (Date(after) * DayLength) + TimeOfDay(after)
          /\ TimeOfDay(after) \in 0 .. DayLength - 1 /\ Date(after) * DayLength \in Int
      BY <1>2, <2>2, LocalType DEF Local
    <3>4. (Date(after) * DayLength) + DayLength <= (Date(after) + o) * DayLength
          /\ (Date(after) + o) * DayLength \in Int
      BY <1>2, ProductIsMonotone
    <3> QED BY <1>2, <2>2, <3>2, <3>3, <3>4
  <2> QED BY <2>1, <2>2
<1>6. PICK w \in rule.weekdays : rule.weekdays = {w}
  BY <1>2, <1>5
<1> QED BY <1>6, FS_Singleton

-----------------------------------------------------------------------------
(* The time range of condition_failure.                                    *)

\* A day without a change of the clocks is as long as a day of the calendar.
LEMMA SteadyDay ==
    ASSUME NEW t \in Int, Steady(t)
    PROVE  Date(t - DayLength) = Date(t) - 1
<1>1. /\ DayLength \in Nat \ {0} /\ Shift \in Int /\ SpringAt \in Int /\ FallAt \in Int
      /\ Date(t) \in Int /\ TimeOfDay(t) \in 0 .. DayLength - 1
      /\ Local(t) = (Date(t) * DayLength) + TimeOfDay(t) /\ Local(t) \in Int
  BY LocalType, ZoneAssumption
<1>2. Local(t - DayLength) = Local(t) - DayLength
  BY <1>1 DEF Local, Steady
<1>3. Local(t - DayLength) = ((Date(t) - 1) * DayLength) + TimeOfDay(t)
  BY <1>1, <1>2
<1> QED BY <1>1, <1>3, LocalOf

\* Away from a change of the clocks the condition holds in the intervals that begin on its
\* weekdays, over midnight too, and only there (validation.rs condition_failure).
THEOREM RangeHoldsInIntervals ==
    ASSUME NEW range, range.start \in Int, range.end \in Int, NEW t \in Int, Steady(t)
    PROVE  TimeRangeHolds(range, t) <=> InIntervalOf(range, t)
<1>1. Date(t - DayLength) = Date(t) - 1 /\ TimeOfDay(t) \in Int
  BY SteadyDay, LocalType
<1> QED BY <1>1 DEF TimeRangeHolds, InIntervalOf, RangeDate, InRange
=============================================================================
