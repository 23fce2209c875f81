------------------------ MODULE MeetingScheduleProofs ------------------------
(***************************************************************************)
(* The search for the next session (nextMeetingTimestamp) and what the     *)
(* status of a meeting owes to it, for every calendar, rule and time.      *)
(*                                                                         *)
(* The search is a recursive function.  What it computes is proved by the  *)
(* least number principle: of the days at which it would go wrong, the     *)
(* last one before the clock cannot be one, as its successor is not.       *)
(***************************************************************************)
EXTENDS MeetingSchedule, WellFoundedInduction, TLAPS

-----------------------------------------------------------------------------
(* Arithmetic. *)

LEMMA Least ==
  ASSUME NEW T \in SUBSET Nat, T # {}
  PROVE  \E n \in T : \A k \in T : n <= k
<1> DEFINE below == {p \in Nat \X Nat : p[1] < p[2]}
<1>1. OpToRel(<, Nat) = below
  BY Zenon DEF OpToRel
<1>2. IsWellFoundedOn(below, Nat)
  BY <1>1, NatLessThanWellFounded, Zenon
<1>3. \A k, j \in Nat : k < j => <<k, j>> \in below
  OBVIOUS
<1> HIDE DEF below
<1>4. PICK n \in T : \A k \in T : ~ (<<k, n>> \in below)
  BY <1>2, WFMin
<1>5. \A k \in T : k \in Nat
  OBVIOUS
<1>6. \A k \in T : ~ (k < n)
  BY <1>3, <1>4, <1>5
<1> QED
  BY <1>5, <1>6

LEMMA LeastOf ==
  ASSUME NEW T \in SUBSET Nat, T # {}
  PROVE  Min(T) \in T /\ \A k \in T : Min(T) <= k
BY Least DEF Min

LEMMA LeastAbove ==
  ASSUME NEW low \in Int, NEW T \in SUBSET Int, T # {}, \A k \in T : low <= k
  PROVE  Min(T) \in T /\ \A k \in T : Min(T) <= k
<1> DEFINE U == {n \in Nat : low + n \in T}
<1>1. \A k \in T : k - low \in U /\ low + (k - low) = k
  OBVIOUS
<1>2. U \in SUBSET Nat /\ U # {}
  BY <1>1
<1>3. PICK n \in U : \A k \in U : n <= k
  BY <1>2, Least
<1>4. low + n \in T /\ \A k \in T : low + n <= k
  BY <1>1, <1>3
<1> QED
  BY <1>4 DEF Min

\* Days do not overlap.
LEMMA DaysApart ==
  ASSUME NEW d \in Nat, NEW e \in Nat, NEW n \in Nat, d < e
  PROVE  d * n + n <= e * n
<1>1. PICK k \in Nat : e = d + 1 + k
  <2>1. e - d - 1 \in Nat /\ e = d + 1 + (e - d - 1)
    OBVIOUS
  <2> QED
    BY <2>1
<1>2. e * n = d * n + n + k * n /\ k * n \in Nat
  BY <1>1
<1> QED
  BY <1>2

\* A time is on the day it is on.
LEMMA DayAndSlot ==
  ASSUME NEW t \in Nat
  PROVE  /\ Day(t) \in Nat /\ Slot(t) \in 0..(Slots - 1)
         /\ t = Day(t) * Slots + Slot(t)
<1>1. Slots \in Nat /\ Slots > 0
  BY TimeAssumption
<1> QED
  BY <1>1 DEF Day, Slot

\* Every zone that loads is ahead by some number of ticks.
LEMMA LocalTimes ==
  ASSUME NEW zone, Loads(zone), NEW t \in Nat
  PROVE  /\ Offset[zone] \in Nat /\ Offset[zone] <= 2 * Slots
         /\ Slots \in Nat /\ Slots > 0
         /\ Local(zone, t) \in Nat /\ Local(zone, t) = t + Offset[zone]
         /\ DayIn(zone, t) \in Nat /\ DayIn(zone, t) = Day(Local(zone, t))
<1>1. Slots \in Nat /\ Slots > 0
  BY TimeAssumption
<1>2. Offset[zone] \in 0..(2 * Slots)
  BY ZoneAssumption DEF Loads
<1>3. Local(zone, t) \in Nat
  BY <1>1, <1>2 DEF Local
<1>4. Day(Local(zone, t)) \in Nat
  BY <1>3, DayAndSlot
<1> QED
  BY <1>1, <1>2, <1>3, <1>4 DEF Local, DayIn

\* A meeting whose days can be told.
Placed(m) == m.scheduled \in Nat /\ Loads(m.zone)

\* A day starts at its time of day, on the clock of the zone.
LEMMA StartIs ==
  ASSUME NEW m, Placed(m), NEW d \in Nat
  PROVE  /\ Slot(Local(m.zone, m.scheduled)) \in 0..(Slots - 1)
         /\ StartOn(m, d) \in Int
         /\ StartOn(m, d) + Offset[m.zone] = d * Slots + Slot(Local(m.zone, m.scheduled))
         /\ d * Slots \in Nat
<1>1. /\ Slots \in Nat /\ Slots > 0 /\ Offset[m.zone] \in Nat
      /\ Local(m.zone, m.scheduled) \in Nat
  BY LocalTimes DEF Placed
<1>2. Slot(Local(m.zone, m.scheduled)) \in 0..(Slots - 1)
  BY <1>1, DayAndSlot
<1>3. d * Slots \in Nat
  BY <1>1
<1> QED
  BY <1>1, <1>2, <1>3 DEF StartOn

LEMMA StartsApart ==
  ASSUME NEW m, Placed(m), NEW d \in Nat, NEW e \in Nat
  PROVE  /\ StartOn(m, d) \in Int
         /\ d < e => StartOn(m, d) < StartOn(m, e)
         /\ d * Slots \in Nat /\ d * Slots <= StartOn(m, d) + Offset[m.zone]
<1>1. Slots \in Nat /\ Slots > 0 /\ Offset[m.zone] \in Nat
  BY LocalTimes DEF Placed
<1>2. PICK k \in 0..(Slots - 1) : k = Slot(Local(m.zone, m.scheduled))
  BY StartIs
<1>3. /\ StartOn(m, d) \in Int /\ StartOn(m, d) + Offset[m.zone] = d * Slots + k
      /\ StartOn(m, e) \in Int /\ StartOn(m, e) + Offset[m.zone] = e * Slots + k
      /\ d * Slots \in Nat /\ e * Slots \in Nat
  BY <1>2, StartIs
<1>4. d < e => d * Slots + Slots <= e * Slots
  BY <1>1, DaysApart
<1> QED
  BY <1>1, <1>2, <1>3, <1>4

\* The first session starts at the time it is scheduled for.
LEMMA FirstStart ==
  ASSUME NEW m, Placed(m)
  PROVE  First(m) \in Nat /\ StartOn(m, First(m)) = m.scheduled
<1>1. /\ Offset[m.zone] \in Nat /\ m.scheduled \in Nat
      /\ Local(m.zone, m.scheduled) \in Nat
      /\ Local(m.zone, m.scheduled) = m.scheduled + Offset[m.zone]
      /\ First(m) = Day(Local(m.zone, m.scheduled))
  BY LocalTimes DEF Placed, First
<1>2. /\ First(m) \in Nat
      /\ m.scheduled + Offset[m.zone] =
           First(m) * Slots + Slot(Local(m.zone, m.scheduled))
  <2>1. /\ Day(Local(m.zone, m.scheduled)) \in Nat
        /\ Local(m.zone, m.scheduled) =
             Day(Local(m.zone, m.scheduled)) * Slots + Slot(Local(m.zone, m.scheduled))
    BY <1>1, DayAndSlot
  <2> QED
    BY <1>1, <2>1
<1>3. /\ StartOn(m, First(m)) \in Int
      /\ StartOn(m, First(m)) + Offset[m.zone] =
           First(m) * Slots + Slot(Local(m.zone, m.scheduled))
  BY <1>2, StartIs
<1>4. StartOn(m, First(m)) + Offset[m.zone] = m.scheduled + Offset[m.zone]
  BY <1>2, <1>3
<1>5. StartOn(m, First(m)) = m.scheduled
  <2>1. PICK a \in Int, b \in Int, c \in Int :
          a = StartOn(m, First(m)) /\ b = Offset[m.zone] /\ c = m.scheduled
    BY <1>1, <1>3
  <2>2. a + b = c + b
    BY <1>4, <2>1
  <2>3. a = c
    BY <2>2
  <2> QED
    BY <2>1, <2>3, Zenon
<1> QED
  BY <1>2, <1>5

\* A day that starts by a time is not after the day of that time.
LEMMA StartedByDay ==
  ASSUME NEW d \in Nat, NEW t \in Nat, d * Slots <= t
  PROVE  d <= Day(t)
<1>1. Slots \in Nat /\ Slots > 0
  BY TimeAssumption
<1>2. /\ Day(t) \in Nat /\ Slot(t) \in 0..(Slots - 1)
      /\ t = Day(t) * Slots + Slot(t)
  BY DayAndSlot
<1>3. ASSUME Day(t) < d PROVE FALSE
  <2>1. Day(t) * Slots + Slots <= d * Slots
    BY <1>1, <1>2, <1>3, DaysApart
  <2>2. d * Slots \in Nat /\ Day(t) * Slots \in Nat
    BY <1>1, <1>2
  <2> QED
    BY <1>1, <1>2, <2>1, <2>2
<1> QED
  BY <1>2, <1>3

-----------------------------------------------------------------------------
(* The calendar. *)

Last == Len(MonthStarts)

LEMMA Calendar ==
  /\ Last \in Nat \ {0} /\ DOMAIN MonthStarts = 1..Last
  /\ MonthStarts[1] = 0
  /\ \A i \in 1..Last : MonthStarts[i] \in Nat
  /\ \A i, j \in 1..Last : i < j => MonthStarts[i] < MonthStarts[j]
<1>1. Last \in Nat \ {0} /\ DOMAIN MonthStarts = 1..Last
  BY TimeAssumption DEF Last
<1>2. \A i \in 1..Last : MonthStarts[i] \in Nat
  BY <1>1, TimeAssumption
<1>3. ASSUME NEW i \in 1..Last, NEW j \in 1..Last, i < j
      PROVE  MonthStarts[i] < MonthStarts[j]
  <2>1. MonthStarts[i] + 7 * (j - i) <= MonthStarts[j]
    BY <1>1, <1>3, TimeAssumption
  <2> QED
    BY <1>2, <1>3, <2>1
<1> QED
  BY <1>1, <1>2, <1>3, TimeAssumption

LEMMA StartsOrdered ==
  ASSUME NEW i \in 1..Last, NEW j \in 1..Last, i <= j
  PROVE  MonthStarts[i] <= MonthStarts[j]
<1>1. MonthStarts[i] \in Nat /\ MonthStarts[j] \in Nat
  BY Calendar
<1>2. i < j => MonthStarts[i] < MonthStarts[j]
  BY Calendar
<1>3. i = j \/ i < j
  BY Calendar
<1> QED
  BY <1>1, <1>2, <1>3

\* A day of the calendar is in one month, no later than any that starts after it.
LEMMA MonthOfDay ==
  ASSUME NEW d \in Nat, NEW i \in 1..Last, d < MonthStarts[i]
  PROVE  /\ Month(d) \in 1..(i - 1) /\ Month(d) < Last
         /\ MonthStarts[Month(d)] <= d /\ d < MonthStarts[Month(d) + 1]
<1> DEFINE T == {j \in 1..Last : d < MonthStarts[j]}
<1>1. T \in SUBSET Nat /\ T # {}
  OBVIOUS
<1>2. PICK j \in T : \A k \in T : j <= k
  BY <1>1, Least
<1>3. j \in 1..Last /\ d < MonthStarts[j]
  OBVIOUS
<1>4. j # 1
  BY <1>3, Calendar
<1>5. j - 1 \in 1..Last /\ ~ (d < MonthStarts[j - 1])
  BY <1>2, <1>3, <1>4, Calendar
<1>6. MonthStarts[j - 1] \in Nat
  BY <1>5, Calendar
<1>7. j - 1 \in DOMAIN MonthStarts /\ MonthStarts[j - 1] <= d /\ d < MonthStarts[j - 1 + 1]
  BY <1>3, <1>5, <1>6, Calendar
<1>8. /\ Month(d) \in DOMAIN MonthStarts
      /\ MonthStarts[Month(d)] <= d /\ d < MonthStarts[Month(d) + 1]
  BY <1>7 DEF Month
<1>9. Month(d) \in 1..Last
  BY <1>8, Calendar
<1>10. ASSUME i <= Month(d) PROVE FALSE
  <2>1. MonthStarts[i] <= MonthStarts[Month(d)]
    BY <1>9, <1>10, StartsOrdered
  <2> QED
    BY <1>8, <1>9, <2>1, Calendar
<1> QED
  BY <1>8, <1>9, <1>10, Calendar

LEMMA MonthIs ==
  ASSUME NEW d \in Nat, NEW i \in 1..(Last - 1),
         MonthStarts[i] <= d, d < MonthStarts[i + 1]
  PROVE  Month(d) = i
<1>1. i + 1 \in 1..Last /\ i \in 1..Last
  BY Calendar
<1>2. /\ Month(d) \in 1..i /\ Month(d) < Last
      /\ d < MonthStarts[Month(d) + 1]
  <2>1. PICK k \in 1..Last : k = i + 1
    BY <1>1
  <2>2. /\ Month(d) \in 1..(k - 1) /\ Month(d) < Last
        /\ d < MonthStarts[Month(d) + 1]
    BY <2>1, MonthOfDay
  <2>3. k - 1 = i
    BY <2>1
  <2> QED
    BY <2>2, <2>3
<1>3. ASSUME Month(d) < i PROVE FALSE
  <2>1. Month(d) + 1 \in 1..Last /\ Month(d) + 1 <= i
    BY <1>1, <1>2, <1>3, Calendar
  <2>2. MonthStarts[Month(d) + 1] <= MonthStarts[i]
    BY <1>1, <2>1, Calendar
  <2> QED
    BY <1>1, <1>2, <2>1, <2>2, Calendar
<1> QED
  BY <1>2, <1>3

LEMMA MonthsForward ==
  ASSUME NEW d \in Nat, NEW last \in 1..Last, d < MonthStarts[last],
         NEW k \in Int, last + k <= Last
  PROVE  /\ AddMonths(d, k) \in Int
         /\ DayOfMonth(d) \in Nat
         /\ k >= 0 => /\ Month(d) + k \in 1..(Last - 1)
                      /\ AddMonths(d, k) = MonthStarts[Month(d) + k] + DayOfMonth(d)
         /\ k > 0 => AddMonths(d, k) > d
<1>1. /\ Month(d) \in 1..(last - 1) /\ Month(d) < Last
      /\ MonthStarts[Month(d)] <= d /\ d < MonthStarts[Month(d) + 1]
  BY MonthOfDay
<1>2. PICK i \in 1..(last - 1) : i = Month(d)
  BY <1>1
<1>3. /\ i \in 1..Last /\ i + k \in Int /\ i + k <= Last - 1
      /\ k >= 0 => i + k \in 1..(Last - 1)
      /\ i + k > 0 => i + k \in 1..Last
  BY Calendar
<1>4. MonthStarts[i] \in Nat
  BY <1>3, Calendar
<1>5. DayOfMonth(d) = d - MonthStarts[i] /\ DayOfMonth(d) \in Nat
  BY <1>1, <1>2, <1>4 DEF DayOfMonth
<1>6. AddMonths(d, k) = StartOfMonth(i + k) + DayOfMonth(d)
  BY <1>2 DEF AddMonths
<1>7. CASE i + k > 0
  <2>1. PICK j \in 1..Last : j = i + k
    BY <1>3, <1>7
  <2>2. StartOfMonth(j) = MonthStarts[j] /\ MonthStarts[j] \in Nat
    BY <2>1, Calendar DEF StartOfMonth
  <2>3. k > 0 => MonthStarts[i] < MonthStarts[j]
    BY <1>3, <2>1, Calendar
  <2> QED
    BY <1>2, <1>3, <1>4, <1>5, <1>6, <2>1, <2>2, <2>3
<1>8. CASE ~ (i + k > 0)
  <2>1. StartOfMonth(i + k) = 31 * ((i + k) - 1)
    BY <1>8 DEF StartOfMonth
  <2> QED
    BY <1>3, <1>5, <1>6, <1>8, <2>1
<1> QED
  BY <1>7, <1>8

-----------------------------------------------------------------------------
(* Rules. *)

\* No clock is later.
Farthest == Horizon + 2 * Slots

LEMMA WithinFarthest ==
  ASSUME NEW zone, Loads(zone), NEW t \in 0..Horizon
  PROVE  /\ t \in Nat /\ Farthest \in Nat
         /\ Offset[zone] \in Nat
         /\ t + Offset[zone] \in Nat /\ t + Offset[zone] <= Farthest
         /\ DayIn(zone, t) \in Nat
<1>1. Horizon \in Nat /\ Slots \in Nat /\ t \in Nat
  BY TimeAssumption
<1>2. /\ Offset[zone] \in Nat /\ Offset[zone] <= 2 * Slots
      /\ DayIn(zone, t) \in Nat
  BY <1>1, LocalTimes
<1> QED
  BY <1>1, <1>2 DEF Farthest

\* No step of the rule from a day of the clock leaves the calendar at its end.
Reaches(rule) ==
  \E last \in 1..Last :
    Farthest < MonthStarts[last] * Slots /\ last < Last /\ last + rule.interval < Last

\* A rule a document may carry.
InUse(rule) ==
  /\ rule \in Rule /\ Reaches(rule)
  /\ rule.repeat # "Custom" => rule.unit = "" /\ rule.interval = 0 /\ rule.days = {}

LEMMA NoRuleShape ==
  NoRule \in Rule /\ NoRule.repeat = "" /\ NoRule.unit = "" /\ NoRule.interval = 0
  /\ NoRule.days = {}
BY DEF NoRule, None, Rule

LEMMA AskedReach ==
  ASSUME NEW rule \in Rules \cup {NoRule}
  PROVE  rule \in Rule /\ Reaches(rule)
<1>1. rule \in Rule
  BY RuleAssumption, NoRuleShape
<1>2. PICK last \in DOMAIN MonthStarts :
        /\ Horizon + 2 * Slots < MonthStarts[last] * Slots
        /\ \A k \in {0, rule.interval} : last + k < Last
  BY CalendarAssumption DEF Last
<1>3. last \in 1..Last
  BY Calendar
<1>4. last < Last /\ last + rule.interval < Last
  BY <1>2, <1>3
<1> QED
  BY <1>1, <1>2, <1>3, <1>4 DEF Reaches, Farthest

LEMMA RepeatInfoInUse ==
  /\ InUse(NoRule)
  /\ \A rule \in Rules : InUse(RepeatInfo(rule))
  /\ \A rule : InUse(rule) => InUse(RepeatInfo(rule))
<1>1. InUse(NoRule)
  BY AskedReach, NoRuleShape DEF InUse
<1>2. ASSUME NEW rule \in Rules PROVE InUse(RepeatInfo(rule))
  <2>1. rule \in Rule /\ RepeatInfo(rule) \in Rule
    <3>1. rule \in Rule
      BY RuleAssumption
    <3>2. /\ "" \in {"", "Day", "Week", "Month"}
          /\ 0 \in Int /\ {} \in SUBSET Int
      OBVIOUS
    <3>3. [rule EXCEPT !.unit = "", !.interval = 0, !.days = {}] \in Rule
      BY <3>1, <3>2, Zenon DEF Rule
    <3> QED
      BY <3>1, <3>3, Zenon DEF RepeatInfo
  <2>2. RepeatInfo(rule).interval \in {0, rule.interval} /\ rule.interval \in Int
    BY <2>1 DEF RepeatInfo, Rule
  <2>3. PICK last \in 1..Last :
          Farthest < MonthStarts[last] * Slots /\ last < Last /\ last + rule.interval < Last
    BY AskedReach DEF Reaches
  <2>4. last + RepeatInfo(rule).interval < Last
    BY <2>2, <2>3
  <2>5. Reaches(RepeatInfo(rule))
    BY <2>3, <2>4 DEF Reaches
  <2> QED
    BY <2>1, <2>5 DEF InUse, RepeatInfo, Rule
<1>3. ASSUME NEW rule, InUse(rule) PROVE RepeatInfo(rule) = rule
  <2>1. CASE rule.repeat = "Custom"
    BY <2>1 DEF RepeatInfo
  <2>2. CASE rule.repeat # "Custom"
    <3>1. rule \in Rule /\ rule.unit = "" /\ rule.interval = 0 /\ rule.days = {}
      BY <1>3, <2>2 DEF InUse
    <3>2. RepeatInfo(rule) = [rule EXCEPT !.unit = "", !.interval = 0, !.days = {}]
      BY <2>2 DEF RepeatInfo
    <3>3. [rule EXCEPT !.unit = "", !.interval = 0, !.days = {}] = rule
      BY <3>1 DEF Rule
    <3> QED
      BY <3>2, <3>3
  <2> QED
    BY <2>1, <2>2
<1> QED
  BY <1>1, <1>2, <1>3

\* A rule the loops of nextMeetingTimestamp are for.
Searchable(rule) == InUse(rule) /\ rule.repeat \notin {"", "None", "Other"}

LEMMA SearchableShape ==
  ASSUME NEW rule, Searchable(rule)
  PROVE  /\ rule \in Rule /\ Reaches(rule)
         /\ rule.repeat \in {"Daily", "Weekly", "WeekDay", "Monthly", "Custom"}
         /\ rule.interval \in Int /\ rule.days \in SUBSET Int
         /\ rule.endDate \in Nat
         /\ rule.repeat # "Custom" => rule.days = {} /\ rule.interval = 0
<1>1. rule \in Rule /\ Reaches(rule)
      /\ (rule.repeat # "Custom" => rule.days = {} /\ rule.interval = 0)
  BY DEF Searchable, InUse
<1>2. rule.repeat \in {"Daily", "Weekly", "WeekDay", "Monthly", "Custom"}
  BY <1>1 DEF Searchable, Rule
<1> QED
  BY <1>1, <1>2 DEF Rule

\* No unit to count in.  (A definition, for the provers: they take no empty
\* string next to a number.)
NoUnit(rule) == rule.unit = ""

\* No day of the week to go on to.
NoWeekday(rule) == rule.days # {} /\ rule.days \cap (0..6) = {}

\* A custom rule that does not get on.
Stalls(rule) == rule.repeat = "Custom" /\ (rule.interval <= 0 \/ NoUnit(rule) \/ NoWeekday(rule))

LEMMA UnitKinds ==
  ASSUME NEW rule, Searchable(rule)
  PROVE  \/ NoUnit(rule) /\ rule.unit \notin {"Day", "Week", "Month"}
         \/ ~ NoUnit(rule) /\ rule.unit \in {"Day", "Week", "Month"}
<1>1. rule.unit \in {"", "Day", "Week", "Month"}
  <2>1. rule \in Rule
    BY SearchableShape
  <2> QED
    BY <2>1 DEF Rule
<1> QED
  BY <1>1 DEF NoUnit

\* Some day of any week is on the list, if a weekday is.
LEMMA ValidDayForward ==
  ASSUME NEW rule, rule.days \in SUBSET Int, NEW d \in Int
  PROVE  /\ ValidDay(rule, d) \in Int
         /\ rule.days = {} => ValidDay(rule, d) = d
         /\ ~ NoWeekday(rule) => ValidDay(rule, d) \in d..(d + 6)
         /\ rule.days # {} /\ ~ NoWeekday(rule) =>
              /\ Weekday(ValidDay(rule, d)) \in rule.days
              /\ \A e \in Int : d <= e /\ Weekday(e) \in rule.days => ValidDay(rule, d) <= e
<1>1. CASE rule.days = {}
  BY <1>1 DEF ValidDay
<1>2. CASE NoWeekday(rule)
  BY <1>2 DEF ValidDay, NoWeekday, Never
<1>3. CASE rule.days # {} /\ ~ NoWeekday(rule)
  <2> DEFINE T == {e \in d..(d + 6) : Weekday(e) \in rule.days}
  <2>1. PICK k \in rule.days : k \in 0..6
    BY <1>3 DEF NoWeekday
  <2>2. d + ((k - d) % 7) \in d..(d + 6) /\ (d + ((k - d) % 7)) % 7 = k
    BY <2>1
  <2>3. T \in SUBSET Int /\ T # {} /\ \A e \in T : d <= e
    BY <2>2 DEF Weekday
  <2>4. ValidDay(rule, d) = Min(T)
    BY <1>3 DEF ValidDay, NoWeekday
  <2>5. Min(T) \in T /\ \A e \in T : Min(T) <= e
    BY <2>3, LeastAbove
  <2>6. ASSUME NEW e \in Int, d <= e, Weekday(e) \in rule.days
        PROVE  Min(T) <= e
    <3>1. CASE e <= d + 6
      BY <2>5, <2>6, <3>1
    <3>2. CASE ~ (e <= d + 6)
      <4>1. Min(T) \in d..(d + 6)
        BY <2>5
      <4> QED
        BY <3>2, <4>1
    <3> QED
      BY <3>1, <3>2
  <2>7. Min(T) \in d..(d + 6) /\ Weekday(Min(T)) \in rule.days
    BY <2>5
  <2> QED
    BY <1>3, <2>4, <2>6, <2>7
<1> QED
  BY <1>1, <1>2, <1>3

-----------------------------------------------------------------------------
(* One turn of the loop. *)

\* The clock is within the calendar, with room for a step of the rule.
LEMMA RoomToStep ==
  ASSUME NEW rule, Searchable(rule), NEW d \in Nat, d * Slots <= Farthest
  PROVE  \E last \in 1..Last :
           /\ d < MonthStarts[last]
           /\ last + 1 <= Last /\ last + rule.interval <= Last
<1>1. PICK last \in 1..Last :
        Farthest < MonthStarts[last] * Slots /\ last < Last /\ last + rule.interval < Last
  BY SearchableShape DEF Reaches
<1>2. Slots \in Nat /\ Slots > 0 /\ Farthest \in Nat
  BY TimeAssumption DEF Farthest
<1>3. MonthStarts[last] \in Nat
  BY Calendar
<1>4. ASSUME MonthStarts[last] <= d PROVE FALSE
  <2>1. CASE MonthStarts[last] = d
    BY <1>1, <1>2, <2>1
  <2>2. CASE MonthStarts[last] < d
    <3>1. MonthStarts[last] * Slots + Slots <= d * Slots
      BY <1>2, <1>3, <2>2, DaysApart
    <3>2. MonthStarts[last] * Slots \in Nat /\ d * Slots \in Nat
      BY <1>2, <1>3
    <3> QED
      BY <1>1, <1>2, <3>1, <3>2
  <2> QED
    BY <1>3, <1>4, <2>1, <2>2
<1>5. rule.interval \in Int /\ Last \in Nat
  BY SearchableShape, Calendar
<1>6. d < MonthStarts[last] /\ last + 1 <= Last /\ last + rule.interval <= Last
  BY <1>1, <1>3, <1>4, <1>5
<1> QED
  BY <1>6

\* A meeting the loops can be asked about.
Searched(m) == Placed(m) /\ Searchable(m.rule)

LEMMA TooEarlyBy ==
  ASSUME NEW m, Searched(m), NEW d \in Nat, NEW t \in Nat
  PROVE  TooEarly(m, d, t) <=>
           \/ StartOn(m, d) <= t
           \/ m.rule.repeat = "WeekDay" /\ IsWeekend(d)
<1>1. StartOn(m, d) \in Int
  BY StartsApart DEF Searched
<1> QED
  BY <1>1 DEF TooEarly

LEMMA UnitsForward ==
  ASSUME NEW rule, Searchable(rule), NEW d \in Nat, d * Slots <= Farthest
  PROVE  /\ AddUnits(rule, d) \in Int
         /\ rule.interval > 0 /\ ~ NoUnit(rule) => d < AddUnits(rule, d)
<1>1. rule.interval \in Int
  BY SearchableShape
<1>2. PICK last \in 1..Last :
        /\ d < MonthStarts[last]
        /\ last + 1 <= Last /\ last + rule.interval <= Last
  BY RoomToStep
<1>3. /\ AddMonths(d, rule.interval) \in Int
      /\ rule.interval > 0 => AddMonths(d, rule.interval) > d
  BY <1>1, <1>2, MonthsForward
<1>4. CASE rule.unit = "Day"
  BY <1>1, <1>4 DEF AddUnits
<1>5. CASE rule.unit = "Week"
  BY <1>1, <1>5 DEF AddUnits
<1>6. CASE rule.unit = "Month"
  BY <1>1, <1>3, <1>6 DEF AddUnits
<1>7. CASE NoUnit(rule)
  <2>1. AddUnits(rule, d) = d
    BY <1>7, UnitKinds DEF AddUnits
  <2> QED
    BY <1>7, <2>1
<1> QED
  BY <1>4, <1>5, <1>6, <1>7, UnitKinds

LEMMA DayForward ==
  ASSUME NEW rule, Searchable(rule), NEW d \in Nat,
         rule.repeat = "WeekDay" \/ d * Slots <= Farthest
  PROVE  /\ NextDay(rule, d) \in Int
         /\ ~ Stalls(rule) => d < NextDay(rule, d)
<1>1. CASE rule.repeat \in {"Daily", "WeekDay", "Weekly"}
  BY <1>1 DEF NextDay
<1>2. CASE rule.repeat = "Monthly"
  <2>1. PICK last \in 1..Last : d < MonthStarts[last] /\ last + 1 <= Last
    BY <1>2, RoomToStep
  <2>2. AddMonths(d, 1) \in Int /\ AddMonths(d, 1) > d
    BY <2>1, MonthsForward
  <2>3. NextDay(rule, d) = AddMonths(d, 1)
    BY <1>2 DEF NextDay
  <2> QED
    BY <2>2, <2>3
<1>3. CASE rule.repeat = "Custom"
  <2>1. PICK e : e = AddUnits(rule, d)
    OBVIOUS
  <2>2. /\ e \in Int
        /\ rule.interval > 0 /\ ~ NoUnit(rule) => d < e
    BY <1>3, <2>1, UnitsForward
  <2>3. /\ ValidDay(rule, e) \in Int
        /\ ~ NoWeekday(rule) => ValidDay(rule, e) \in e..(e + 6)
    BY <2>2, SearchableShape, ValidDayForward
  <2>4. NextDay(rule, d) = ValidDay(rule, e)
    BY <1>3, <2>1 DEF NextDay
  <2>5. rule.interval \in Int
    BY SearchableShape
  <2>6. ~ Stalls(rule) => rule.interval > 0 /\ ~ NoUnit(rule) /\ ~ NoWeekday(rule)
    BY <1>3, <2>5 DEF Stalls
  <2> QED
    BY <2>2, <2>3, <2>4, <2>6
<1> QED
  BY <1>1, <1>2, <1>3, SearchableShape

LEMMA NextDayForward ==
  ASSUME NEW m, Searched(m), NEW d \in Nat, NEW t \in 0..Horizon, TooEarly(m, d, t)
  PROVE  /\ NextDay(m.rule, d) \in Int
         /\ ~ Stalls(m.rule) => d < NextDay(m.rule, d)
<1>1. Searchable(m.rule) /\ Placed(m) /\ Loads(m.zone)
  BY DEF Searched, Placed
<1>2. /\ t \in Nat /\ Farthest \in Nat /\ Offset[m.zone] \in Nat
      /\ t + Offset[m.zone] <= Farthest
  BY <1>1, WithinFarthest
<1>3. ASSUME m.rule.repeat # "WeekDay" PROVE d * Slots <= Farthest
  <2>1. StartOn(m, d) <= t
    BY <1>2, <1>3, TooEarlyBy
  <2>2. /\ StartOn(m, d) \in Int
        /\ d * Slots \in Nat /\ d * Slots <= StartOn(m, d) + Offset[m.zone]
    BY <1>1, StartsApart
  <2> QED
    BY <1>2, <2>1, <2>2
<1> QED
  BY <1>1, <1>3, DayForward

-----------------------------------------------------------------------------
(* The loop.                                                               *)

\* After the day of the clock only a weekend keeps the loop going.
LEMMA AfterToday ==
  ASSUME NEW m, Searched(m), NEW t \in 0..Horizon, NEW d \in Nat, DayIn(m.zone, t) < d,
         TooEarly(m, d, t)
  PROVE  IsWeekend(d) /\ NextDay(m.rule, d) = d + 1
<1>1. Placed(m) /\ Loads(m.zone)
  BY DEF Searched, Placed
<1>2. t \in Nat /\ Offset[m.zone] \in Nat
  BY <1>1, WithinFarthest
<1>3. PICK here \in Nat : /\ here = Local(m.zone, t) /\ here = t + Offset[m.zone]
                          /\ DayIn(m.zone, t) = Day(here) /\ Day(here) \in Nat
  BY <1>1, <1>2, LocalTimes
<1>4. ~ (d * Slots <= here)
  BY <1>3, StartedByDay
<1>5. /\ d * Slots <= StartOn(m, d) + Offset[m.zone]
      /\ StartOn(m, d) \in Int /\ d * Slots \in Nat
  BY <1>1, StartsApart
<1>6. ~ (StartOn(m, d) <= t)
  BY <1>2, <1>3, <1>4, <1>5
<1>7. m.rule.repeat = "WeekDay" /\ IsWeekend(d)
  BY <1>2, <1>6, TooEarlyBy
<1> QED
  BY <1>7 DEF NextDay

\* What holds of the days the loop stops at, and of a day if of the next, holds
\* of every day.
LEMMA LoopInduction ==
  ASSUME NEW m, Searched(m), NEW t \in 0..Horizon, NEW S,
         \A d \in Nat : ~ TooEarly(m, d, t) => d \in S,
         \A d \in Nat : TooEarly(m, d, t) /\ NextDay(m.rule, d) <= d => d \in S,
         \A d \in Nat : /\ TooEarly(m, d, t)
                        /\ NextDay(m.rule, d) \in Nat /\ NextDay(m.rule, d) > d
                        /\ NextDay(m.rule, d) \in S
                        => d \in S
  PROVE  \A d \in Nat : d \in S
<1>1. DayIn(m.zone, t) \in Nat /\ t \in Nat
  BY WithinFarthest DEF Searched, Placed
<1>2. ASSUME NEW d \in Nat, DayIn(m.zone, t) < d, Weekday(d) # 6 PROVE d \in S
  <2>1. CASE TooEarly(m, d, t)
    <3>1. IsWeekend(d) /\ NextDay(m.rule, d) = d + 1
      BY <1>2, <2>1, AfterToday
    <3>2. ~ IsWeekend(d + 1) /\ DayIn(m.zone, t) < d + 1 /\ d + 1 \in Nat
      BY <1>1, <1>2, <3>1 DEF IsWeekend, Weekday
    <3>3. d + 1 \in S
      BY <3>2, AfterToday
    <3> QED
      BY <2>1, <3>1, <3>2, <3>3
  <2> QED
    BY <2>1
<1>3. ASSUME NEW d \in Nat, DayIn(m.zone, t) < d PROVE d \in S
  <2>1. CASE Weekday(d) = 6 /\ TooEarly(m, d, t)
    <3>1. NextDay(m.rule, d) = d + 1
      BY <1>3, <2>1, AfterToday
    <3>2. Weekday(d + 1) # 6 /\ DayIn(m.zone, t) < d + 1 /\ d + 1 \in Nat
      BY <1>1, <1>3, <2>1 DEF Weekday
    <3>3. d + 1 \in S
      BY <1>2, <3>2
    <3> QED
      BY <2>1, <3>1, <3>2, <3>3
  <2> QED
    BY <1>2, <1>3, <2>1
<1> DEFINE T == {k \in 0..DayIn(m.zone, t) : DayIn(m.zone, t) - k \notin S}
<1>4. ASSUME T # {} PROVE FALSE
  <2>1. T \in SUBSET Nat
    BY <1>1
  <2>2. PICK k \in T : \A j \in T : k <= j
    BY <1>4, <2>1, Least
  <2>3. PICK d \in Nat : d = DayIn(m.zone, t) - k /\ d \notin S /\ d <= DayIn(m.zone, t)
    BY <1>1
  <2>4. TooEarly(m, d, t) /\ ~ (NextDay(m.rule, d) <= d)
    BY <2>3
  <2>5. PICK e \in Nat : e = NextDay(m.rule, d) /\ d < e /\ e \notin S
    <3>1. NextDay(m.rule, d) \in Int
      BY <2>4, NextDayForward
    <3>2. NextDay(m.rule, d) \in Nat /\ NextDay(m.rule, d) > d
      BY <2>4, <3>1
    <3> QED
      BY <2>3, <2>4, <3>2
  <2>6. e <= DayIn(m.zone, t)
    BY <1>1, <1>3, <2>5
  <2>7. DayIn(m.zone, t) - e \in 0..DayIn(m.zone, t) /\ DayIn(m.zone, t) - (DayIn(m.zone, t) - e) = e
    BY <1>1, <2>6
  <2>8. DayIn(m.zone, t) - e \in T
    BY <2>5, <2>7
  <2> QED
    BY <1>1, <2>2, <2>3, <2>5, <2>6, <2>8
<1> QED
  <2>1. ASSUME NEW d \in Nat, d \notin S PROVE FALSE
    <3>1. d <= DayIn(m.zone, t)
      BY <1>1, <1>3, <2>1
    <3>2. DayIn(m.zone, t) - d \in 0..DayIn(m.zone, t) /\ DayIn(m.zone, t) - (DayIn(m.zone, t) - d) = d
      BY <1>1, <3>1
    <3>3. DayIn(m.zone, t) - d \in T
      BY <2>1, <3>2
    <3> QED
      BY <1>4, <3>3
  <2> QED
    BY <2>1

\* What the loop says of a day, in terms of what it says of the next.
Follows(f, m, t, d) ==
  /\ ~ TooEarly(m, d, t) => f[d] = StartOn(m, d)
  /\ TooEarly(m, d, t) /\ NextDay(m.rule, d) <= d => f[d] = Never
  /\ TooEarly(m, d, t) /\ ~ (NextDay(m.rule, d) <= d) => f[d] = f[NextDay(m.rule, d)]

Solves(f, m, t) == \A d \in Nat : Follows(f, m, t, d)

\* It can be said of the days from k before today on.
SolvableFrom(m, t, k) ==
  \E f \in [Nat -> Int] : \A d \in Nat : DayIn(m.zone, t) < d + k => Follows(f, m, t, d)

LEMMA SolvableLater ==
  ASSUME NEW m, Searched(m), NEW t \in 0..Horizon
  PROVE  SolvableFrom(m, t, 0)
<1>1. t \in Nat /\ DayIn(m.zone, t) \in Nat /\ Placed(m)
  BY WithinFarthest DEF Searched, Placed
<1>2. \A d \in Nat : StartOn(m, d) \in Int
  BY <1>1, StartsApart
<1> DEFINE g == [d \in Nat |->
                   IF ~ TooEarly(m, d, t) THEN StartOn(m, d)
                   ELSE IF ~ TooEarly(m, d + 1, t) THEN StartOn(m, d + 1)
                   ELSE StartOn(m, d + 2)]
<1>3. \A d \in Nat : d + 1 \in Nat /\ d + 2 \in Nat
  OBVIOUS
<1>4. g \in [Nat -> Int]
  BY <1>2, <1>3
<1>5. ASSUME NEW d \in Nat, DayIn(m.zone, t) < d PROVE Follows(g, m, t, d)
  <2>1. CASE ~ TooEarly(m, d, t)
    BY <2>1 DEF Follows
  <2>2. CASE TooEarly(m, d, t)
    <3>1. IsWeekend(d) /\ NextDay(m.rule, d) = d + 1 /\ ~ (d + 1 <= d)
      BY <1>1, <1>5, <2>2, AfterToday
    <3>2. PICK e \in Nat : e = d + 1
      OBVIOUS
    <3>3. ~ TooEarly(m, e, t) => g[d] = g[e]
      BY <2>2, <3>2
    <3>4. ASSUME TooEarly(m, e, t) PROVE g[d] = g[e]
      <4>1. DayIn(m.zone, t) < e /\ DayIn(m.zone, t) < e + 1 /\ e + 1 \in Nat
        BY <1>1, <1>5, <3>2
      <4>2. IsWeekend(e)
        BY <3>4, <4>1, AfterToday
      <4>3. ~ IsWeekend(e + 1)
        BY <3>1, <3>2, <4>2 DEF IsWeekend, Weekday
      <4>4. ~ TooEarly(m, e + 1, t)
        BY <4>1, <4>3, AfterToday
      <4>5. g[e] = StartOn(m, e + 1)
        BY <3>4, <4>4
      <4>6. d + 2 = e + 1
        BY <3>2
      <4>7. g[d] = StartOn(m, d + 2)
        BY <2>2, <3>2, <3>4
      <4> QED
        BY <4>5, <4>6, <4>7
    <3> HIDE DEF g
    <3>5. g[d] = g[NextDay(m.rule, d)]
      BY <3>1, <3>2, <3>3, <3>4
    <3> QED
      BY <2>2, <3>1, <3>5 DEF Follows
  <2> QED
    BY <2>1, <2>2
<1> HIDE DEF g
<1>6. \A d \in Nat : DayIn(m.zone, t) < d + 0 => Follows(g, m, t, d)
  BY <1>5
<1> QED
  BY <1>4, <1>6 DEF SolvableFrom

LEMMA SolvableEarlier ==
  ASSUME NEW m, Searched(m), NEW t \in 0..Horizon,
         NEW k \in Nat, k <= DayIn(m.zone, t), SolvableFrom(m, t, k)
  PROVE  SolvableFrom(m, t, k + 1)
<1>1. t \in Nat /\ DayIn(m.zone, t) \in Nat /\ Placed(m)
  BY WithinFarthest DEF Searched, Placed
<1>2. PICK g \in [Nat -> Int] :
        \A d \in Nat : DayIn(m.zone, t) < d + k => Follows(g, m, t, d)
  BY DEF SolvableFrom
<1>3. PICK e \in Nat : e = DayIn(m.zone, t) - k
  BY <1>1
<1>4. StartOn(m, e) \in Int /\ Never \in Int
  BY <1>1, StartsApart DEF Never
<1>5. \A d \in Nat : TooEarly(m, d, t) /\ ~ (NextDay(m.rule, d) <= d)
                       => NextDay(m.rule, d) \in Nat /\ d < NextDay(m.rule, d)
  <2>1. ASSUME NEW d \in Nat, TooEarly(m, d, t), ~ (NextDay(m.rule, d) <= d)
        PROVE  NextDay(m.rule, d) \in Nat /\ d < NextDay(m.rule, d)
    <3>1. NextDay(m.rule, d) \in Int
      BY <2>1, NextDayForward
    <3> QED
      BY <2>1, <3>1
  <2> QED
    BY <2>1
<1>6. PICK v \in Int :
        /\ ~ TooEarly(m, e, t) => v = StartOn(m, e)
        /\ TooEarly(m, e, t) /\ NextDay(m.rule, e) <= e => v = Never
        /\ TooEarly(m, e, t) /\ ~ (NextDay(m.rule, e) <= e) => v = g[NextDay(m.rule, e)]
  <2>1. CASE ~ TooEarly(m, e, t)
    BY <1>4, <2>1
  <2>2. CASE TooEarly(m, e, t) /\ NextDay(m.rule, e) <= e
    BY <1>4, <2>2
  <2>3. CASE TooEarly(m, e, t) /\ ~ (NextDay(m.rule, e) <= e)
    <3>1. g[NextDay(m.rule, e)] \in Int
      BY <1>5, <2>3
    <3> QED
      BY <2>3, <3>1
  <2> QED
    BY <2>1, <2>2, <2>3
<1>7. PICK h \in [Nat -> Int] : h[e] = v /\ \A d \in Nat : d # e => h[d] = g[d]
  <2>1. [g EXCEPT ![e] = v] \in [Nat -> Int]
    OBVIOUS
  <2> QED
    BY <2>1
<1>8. Follows(h, m, t, e)
  BY <1>5, <1>6, <1>7 DEF Follows
<1>9. ASSUME NEW d \in Nat, DayIn(m.zone, t) < d + (k + 1) PROVE Follows(h, m, t, d)
  <2>1. CASE d = e
    BY <1>8, <2>1
  <2>2. CASE d # e
    <3>1. e < d /\ DayIn(m.zone, t) < d + k
      BY <1>1, <1>3, <1>9, <2>2
    <3>2. Follows(g, m, t, d)
      BY <1>2, <3>1
    <3>3. TooEarly(m, d, t) /\ ~ (NextDay(m.rule, d) <= d)
            => NextDay(m.rule, d) \in Nat /\ NextDay(m.rule, d) # e
      BY <1>5, <3>1
    <3> QED
      BY <1>7, <2>2, <3>2, <3>3 DEF Follows
  <2> QED
    BY <2>1, <2>2
<1> QED
  BY <1>9 DEF SolvableFrom

LEMMA Solvable ==
  ASSUME NEW m, Searched(m), NEW t \in 0..Horizon
  PROVE  \E f \in [Nat -> Int] : Solves(f, m, t)
<1>1. t \in Nat /\ DayIn(m.zone, t) \in Nat
  BY WithinFarthest DEF Searched, Placed
<1> DEFINE T == {k \in 0..(DayIn(m.zone, t) + 1) : ~ SolvableFrom(m, t, k)}
<1>2. ASSUME T # {} PROVE FALSE
  <2>1. T \in SUBSET Nat
    BY <1>1
  <2>2. PICK k \in T : \A j \in T : k <= j
    BY <1>2, <2>1, Least
  <2>3. k \in 0..(DayIn(m.zone, t) + 1) /\ ~ SolvableFrom(m, t, k)
    OBVIOUS
  <2>4. k # 0
    BY <2>3, SolvableLater
  <2>5. PICK j \in Nat : k = j + 1 /\ j <= DayIn(m.zone, t)
    <3>1. k - 1 \in Nat /\ k = (k - 1) + 1 /\ k - 1 <= DayIn(m.zone, t)
      BY <1>1, <2>3, <2>4
    <3> QED
      BY <3>1
  <2>6. SolvableFrom(m, t, j)
    BY <1>1, <2>2, <2>5
  <2> QED
    BY <2>3, <2>5, <2>6, SolvableEarlier
<1>3. DayIn(m.zone, t) + 1 \in 0..(DayIn(m.zone, t) + 1)
  BY <1>1
<1>4. SolvableFrom(m, t, DayIn(m.zone, t) + 1)
  BY <1>2, <1>3
<1>5. PICK f \in [Nat -> Int] : \A d \in Nat : DayIn(m.zone, t) < d + (DayIn(m.zone, t) + 1) => Follows(f, m, t, d)
  BY <1>4 DEF SolvableFrom
<1>6. \A d \in Nat : DayIn(m.zone, t) < d + (DayIn(m.zone, t) + 1)
  BY <1>1
<1> QED
  BY <1>5, <1>6 DEF Solves

\* The loop of the code, started on the day of the first session.
LEMMA LoopSolves ==
  ASSUME NEW m, Searched(m), NEW t \in 0..Horizon
  PROVE  \E f : Solves(f, m, t) /\ LoopResult(m, t) = f[First(m)]
<1> DEFINE from[d \in Nat] ==
             IF ~ TooEarly(m, d, t) THEN StartOn(m, d)
             ELSE IF NextDay(m.rule, d) <= d THEN Never
             ELSE from[NextDay(m.rule, d)]
<1>1. PICK g \in [Nat -> Int] : Solves(g, m, t)
  BY Solvable
<1>2. g = [d \in Nat |->
             IF ~ TooEarly(m, d, t) THEN StartOn(m, d)
             ELSE IF NextDay(m.rule, d) <= d THEN Never
             ELSE g[NextDay(m.rule, d)]]
  <2>1. g \in [Nat -> Int] /\ \A d \in Nat : Follows(g, m, t, d)
    BY <1>1 DEF Solves
  <2>2. ASSUME NEW d \in Nat
        PROVE  g[d] = IF ~ TooEarly(m, d, t) THEN StartOn(m, d)
                     ELSE IF NextDay(m.rule, d) <= d THEN Never
                     ELSE g[NextDay(m.rule, d)]
    <3>1. Follows(g, m, t, d)
      BY <2>1
    <3>2. CASE ~ TooEarly(m, d, t)
      BY <3>1, <3>2 DEF Follows
    <3>3. CASE TooEarly(m, d, t) /\ NextDay(m.rule, d) <= d
      BY <3>1, <3>3 DEF Follows
    <3>4. CASE TooEarly(m, d, t) /\ ~ (NextDay(m.rule, d) <= d)
      BY <3>1, <3>4 DEF Follows
    <3> QED
      BY <3>2, <3>3, <3>4
  <2> QED
    BY <2>1, <2>2
<1>3. LoopResult(m, t) = from[First(m)]
  BY DEF LoopResult
<1>4. from = [d \in Nat |->
                IF ~ TooEarly(m, d, t) THEN StartOn(m, d)
                ELSE IF NextDay(m.rule, d) <= d THEN Never
                ELSE from[NextDay(m.rule, d)]]
  BY <1>2
<1> HIDE DEF from
<1>5. ASSUME NEW d \in Nat PROVE Follows(from, m, t, d)
  <2>1. from[d] = IF ~ TooEarly(m, d, t) THEN StartOn(m, d)
                  ELSE IF NextDay(m.rule, d) <= d THEN Never
                  ELSE from[NextDay(m.rule, d)]
    BY <1>4
  <2>2. CASE ~ TooEarly(m, d, t)
    BY <2>1, <2>2 DEF Follows
  <2>3. CASE TooEarly(m, d, t) /\ NextDay(m.rule, d) <= d
    BY <2>1, <2>3 DEF Follows
  <2>4. CASE TooEarly(m, d, t) /\ ~ (NextDay(m.rule, d) <= d)
    BY <2>1, <2>4 DEF Follows
  <2> QED
    BY <2>2, <2>3, <2>4
<1> QED
  BY <1>3, <1>5 DEF Solves

-----------------------------------------------------------------------------
(* What the loop returns. *)

\* A time after t, or no answer; and an answer whenever the rule can count.
LoopSays(f, m, t, d) ==
  \/ f[d] = Never /\ Stalls(m.rule)
  \/ f[d] \in Nat /\ t < f[d] /\ StartOn(m, d) <= f[d]

LEMMA LoopBounds ==
  ASSUME NEW m, Searched(m), NEW t \in 0..Horizon, NEW f, Solves(f, m, t)
  PROVE  \A d \in Nat : LoopSays(f, m, t, d)
<1>1. Placed(m) /\ t \in Nat
  BY TimeAssumption DEF Searched
<1> DEFINE S == {d \in Nat : LoopSays(f, m, t, d)}
<1>2. ASSUME NEW d \in Nat, ~ TooEarly(m, d, t) PROVE d \in S
  <2>1. f[d] = StartOn(m, d) /\ StartOn(m, d) \in Int
    BY <1>1, <1>2, StartsApart DEF Solves, Follows
  <2>2. ~ (StartOn(m, d) <= t)
    BY <1>1, <1>2, TooEarlyBy
  <2> QED
    BY <1>1, <2>1, <2>2 DEF LoopSays
<1>3. ASSUME NEW d \in Nat, TooEarly(m, d, t), NextDay(m.rule, d) <= d PROVE d \in S
  <2>1. f[d] = Never
    BY <1>3 DEF Solves, Follows
  <2>2. Stalls(m.rule)
    <3>1. /\ NextDay(m.rule, d) \in Int
          /\ ~ Stalls(m.rule) => d < NextDay(m.rule, d)
      BY <1>3, NextDayForward
    <3> QED
      BY <1>3, <3>1
  <2> QED
    BY <2>1, <2>2 DEF LoopSays
<1>4. ASSUME NEW d \in Nat, TooEarly(m, d, t),
             NextDay(m.rule, d) \in Nat, NextDay(m.rule, d) > d, NextDay(m.rule, d) \in S
      PROVE  d \in S
  <2>1. PICK e \in Nat : e = NextDay(m.rule, d) /\ d < e /\ LoopSays(f, m, t, e)
    BY <1>4
  <2>2. f[d] = f[e]
    <3>1. ~ (NextDay(m.rule, d) <= d)
      BY <2>1
    <3> QED
      BY <1>4, <2>1, <3>1 DEF Solves, Follows
  <2>3. StartOn(m, d) < StartOn(m, e) /\ StartOn(m, d) \in Int /\ StartOn(m, e) \in Int
    BY <1>1, <2>1, StartsApart
  <2>4. CASE f[e] = Never /\ Stalls(m.rule)
    BY <2>2, <2>4 DEF LoopSays
  <2>5. CASE f[e] \in Nat /\ t < f[e] /\ StartOn(m, e) <= f[e]
    BY <2>2, <2>3, <2>5 DEF LoopSays
  <2> QED
    BY <2>1, <2>4, <2>5 DEF LoopSays
<1> HIDE DEF S
<1>5. \A d \in Nat : d \in S
  BY <1>2, <1>3, <1>4, LoopInduction
<1> QED
  BY <1>5 DEF S

\* The later it is asked, the later the answer.
LEMMA LoopMonotone ==
  ASSUME NEW m, Searched(m), NEW t \in 0..Horizon, NEW u \in 0..Horizon, t <= u,
         NEW f, Solves(f, m, t), NEW g, Solves(g, m, u)
  PROVE  \A d \in Nat : g[d] = Never \/ (f[d] # Never /\ f[d] <= g[d])
<1>1. Placed(m) /\ t \in Nat /\ u \in Nat
  BY TimeAssumption DEF Searched
<1>2. \A d \in Nat : StartOn(m, d) \in Int
  BY <1>1, StartsApart
<1>3. \A n \in Nat : n # Never
  BY DEF Never
<1>4. ASSUME NEW d \in Nat, TooEarly(m, d, t) PROVE TooEarly(m, d, u)
  BY <1>1, <1>2, <1>4, TooEarlyBy
<1> DEFINE S == {d \in Nat : g[d] = Never \/ (f[d] # Never /\ f[d] <= g[d])}
<1>5. ASSUME NEW d \in Nat, ~ TooEarly(m, d, t) PROVE d \in S
  <2>1. f[d] = StartOn(m, d) /\ f[d] # Never
    <3>1. f[d] = StartOn(m, d)
      BY <1>5 DEF Solves, Follows
    <3>2. ~ (StartOn(m, d) <= t) /\ StartOn(m, d) \in Nat
      BY <1>1, <1>2, <1>5, TooEarlyBy
    <3> QED
      BY <1>3, <3>1, <3>2
  <2>2. g[d] = Never \/ StartOn(m, d) <= g[d]
    BY LoopBounds DEF LoopSays
  <2> QED
    BY <2>1, <2>2
<1>6. ASSUME NEW d \in Nat, TooEarly(m, d, t), NextDay(m.rule, d) <= d PROVE d \in S
  BY <1>4, <1>6 DEF Solves, Follows
<1>7. ASSUME NEW d \in Nat, TooEarly(m, d, t),
             NextDay(m.rule, d) \in Nat, NextDay(m.rule, d) > d, NextDay(m.rule, d) \in S
      PROVE  d \in S
  <2>1. PICK e \in Nat : e = NextDay(m.rule, d) /\ d < e /\ e \in S
    BY <1>7
  <2>2. f[d] = f[e] /\ g[d] = g[e]
    <3>1. ~ (NextDay(m.rule, d) <= d)
      BY <2>1
    <3> QED
      BY <1>4, <1>7, <2>1, <3>1 DEF Solves, Follows
  <2> QED
    BY <2>1, <2>2
<1> HIDE DEF S
<1>8. \A d \in Nat : d \in S
  BY <1>5, <1>6, <1>7, LoopInduction
<1> QED
  BY <1>8 DEF S

-----------------------------------------------------------------------------
(* nextMeetingTimestamp. *)

\* A meeting document of the model.
Timed(m) == m.scheduled \in Nat /\ InUse(m.rule)

\* (Definitions, as NoUnit.)  No loop is for it.
NoWord(m) == m.rule.repeat \in {"", "Other"}
Known(m) == m.rule.repeat \notin {"", "None", "Other"}
Repeats(m) == m.rule.repeat \notin {"", "None"}

LEMMA TimedKinds ==
  ASSUME NEW m, Timed(m)
  PROVE  /\ m.scheduled \in Nat /\ m.rule.endDate \in Nat
         /\ NoWord(m) \/ m.rule.repeat = "None" \/ Known(m)
         /\ NoWord(m) => m.rule.repeat # "None" /\ ~ Known(m)
         /\ Known(m) => /\ m.rule.repeat # "None" /\ ~ NoWord(m) /\ Repeats(m)
                        /\ Searchable(m.rule)
                        /\ Loads(m.zone) => Searched(m)
<1>1. NoWord(m) \/ m.rule.repeat = "None" \/ Known(m)
  BY DEF NoWord, Known
<1>2. NoWord(m) => m.rule.repeat # "None" /\ ~ Known(m)
  BY DEF NoWord, Known
<1>3. Known(m) => m.rule.repeat # "None" /\ ~ NoWord(m) /\ Repeats(m)
  BY DEF NoWord, Known, Repeats
<1>4. Known(m) => Searchable(m.rule)
  BY DEF Known, Timed, Searchable
<1>5. Known(m) /\ Loads(m.zone) => Searched(m)
  BY <1>4 DEF Timed, Searched, Placed
<1>6. m.scheduled \in Nat /\ m.rule.endDate \in Nat
  BY DEF Timed, InUse, Rule
<1> QED
  BY <1>1, <1>2, <1>3, <1>4, <1>5, <1>6

LEMMA FollowingIs ==
  ASSUME NEW m, NEW t
  PROVE  /\ t < m.scheduled => Following(m, t) = m.scheduled
         /\ ~ (t < m.scheduled) /\ NoWord(m) => Following(m, t) = ZeroTime
         /\ ~ (t < m.scheduled) /\ ~ NoWord(m) => Following(m, t) = LoopResult(m, t)
BY Zenon DEF Following, NoWord

\* The end date keeps the answer back.
Ended(m, t) ==
  /\ m.rule.endDate # None
  /\ t >= m.rule.endDate \/ Following(m, t) > m.rule.endDate

LEMMA NextIs ==
  ASSUME NEW m, NEW t
  PROVE  /\ ~ Loads(m.zone) => NextMeetingTimestamp(m, t) = None
         /\ Loads(m.zone) /\ m.rule.repeat = "None" =>
              NextMeetingTimestamp(m, t) = IF t < m.scheduled THEN m.scheduled ELSE None
         /\ Loads(m.zone) /\ m.rule.repeat # "None" =>
              NextMeetingTimestamp(m, t) = IF Ended(m, t) THEN None ELSE Following(m, t)
BY Zenon DEF NextMeetingTimestamp, Ended

\* The answer, if there is one, is after t; only a rule that stalls has none.
LEMMA FollowingBounds ==
  ASSUME NEW m, Timed(m), Loads(m.zone), m.rule.repeat # "None", NEW t \in 0..Horizon
  PROVE  \/ Following(m, t) \in Nat /\ t < Following(m, t)
         \/ Following(m, t) = ZeroTime /\ NoWord(m)
         \/ Following(m, t) = Never /\ Known(m) /\ Stalls(m.rule)
<1>1. t \in Nat /\ m.scheduled \in Nat /\ (NoWord(m) \/ Known(m))
  BY TimeAssumption, TimedKinds
<1>2. CASE t < m.scheduled
  BY <1>1, <1>2, FollowingIs
<1>3. CASE ~ (t < m.scheduled) /\ NoWord(m)
  BY <1>3, FollowingIs
<1>4. CASE ~ (t < m.scheduled) /\ Known(m)
  <2>1. Searched(m) /\ Placed(m)
    BY <1>4, TimedKinds DEF Searched
  <2>2. PICK f : Solves(f, m, t) /\ LoopResult(m, t) = f[First(m)]
    BY <2>1, LoopSolves
  <2>3. LoopSays(f, m, t, First(m))
    BY <2>1, <2>2, LoopBounds, FirstStart
  <2>4. Following(m, t) = LoopResult(m, t)
    BY <1>4, TimedKinds, FollowingIs
  <2> QED
    BY <1>4, <2>2, <2>3, <2>4 DEF LoopSays
<1> QED
  BY <1>1, <1>2, <1>3, <1>4

LEMMA FollowingMonotone ==
  ASSUME NEW m, Timed(m), Known(m), Loads(m.zone),
         NEW t \in 0..Horizon, NEW u \in 0..Horizon, t <= u
  PROVE  \/ Following(m, u) = Never
         \/ Following(m, t) # Never /\ Following(m, t) <= Following(m, u)
<1>1. Searched(m) /\ Placed(m)
  BY TimedKinds DEF Searched
<1>2. t \in Nat /\ u \in Nat /\ m.scheduled \in Nat /\ First(m) \in Nat
  BY <1>1, TimeAssumption, FirstStart DEF Placed
<1>3. m.scheduled # Never
  BY <1>2 DEF Never
<1>4. PICK f : Solves(f, m, t) /\ LoopResult(m, t) = f[First(m)]
  BY <1>1, LoopSolves
<1>5. PICK g : Solves(g, m, u) /\ LoopResult(m, u) = g[First(m)]
  BY <1>1, LoopSolves
<1>6. \/ g[First(m)] = Never
      \/ f[First(m)] # Never /\ f[First(m)] <= g[First(m)]
  BY <1>1, <1>2, <1>4, <1>5, LoopMonotone
<1>7. CASE t < m.scheduled /\ u < m.scheduled
  BY <1>2, <1>3, <1>7, FollowingIs
<1>8. CASE t < m.scheduled /\ ~ (u < m.scheduled)
  <2>1. Following(m, t) = m.scheduled
    BY <1>8, FollowingIs
  <2>2. \/ Following(m, u) \in Nat /\ u < Following(m, u)
        \/ Following(m, u) = Never
    BY TimedKinds, FollowingBounds
  <2> QED
    BY <1>2, <1>3, <1>8, <2>1, <2>2
<1>9. CASE ~ (t < m.scheduled)
  <2>1. Following(m, t) = LoopResult(m, t)
    BY <1>9, TimedKinds, FollowingIs
  <2>2. ~ (u < m.scheduled)
    BY <1>2, <1>9
  <2>3. Following(m, u) = LoopResult(m, u)
    BY <2>2, TimedKinds, FollowingIs
  <2> QED
    BY <1>4, <1>5, <1>6, <2>1, <2>3
<1> QED
  BY <1>7, <1>8, <1>9

\* What the search returns, the end date included.
LEMMA NextBounds ==
  ASSUME NEW m, Timed(m), NEW t \in 0..Horizon
  PROVE  /\ NextMeetingTimestamp(m, t) \in Int
         /\ NextMeetingTimestamp(m, t) = Never => Known(m) /\ Stalls(m.rule)
<1>1. m.scheduled \in Nat /\ t \in Nat
  BY TimeAssumption, TimedKinds
<1>2. None \in Int /\ ZeroTime \in Int /\ Never \in Int /\ None # Never /\ ZeroTime # Never
      /\ \A n \in Nat : n # Never
  BY DEF None, ZeroTime, Never
<1>3. CASE ~ Loads(m.zone)
  BY <1>2, <1>3, NextIs
<1>4. CASE Loads(m.zone) /\ m.rule.repeat = "None"
  BY <1>1, <1>2, <1>4, NextIs
<1>5. CASE Loads(m.zone) /\ m.rule.repeat # "None"
  <2>1. \/ Following(m, t) \in Nat
        \/ Following(m, t) = ZeroTime /\ NoWord(m)
        \/ Following(m, t) = Never /\ Known(m) /\ Stalls(m.rule)
    BY <1>5, FollowingBounds
  <2>2. NextMeetingTimestamp(m, t) \in {None, Following(m, t)}
    BY <1>5, NextIs
  <2> QED
    BY <1>2, <2>1, <2>2
<1> QED
  BY <1>3, <1>4, <1>5

\* No session is to come.
Gone(m, t) == ~ (NextMeetingTimestamp(m, t) > 0)

LEMMA GoneIs ==
  ASSUME NEW m, NEW t
  PROVE  /\ NextMeetingTimestamp(m, t) \in {None, ZeroTime, Never} => Gone(m, t)
         /\ ~ Loads(m.zone) => Gone(m, t)
         /\ m.rule.repeat # "None" /\ Ended(m, t) => Gone(m, t)
<1>1. ~ (None > 0) /\ ~ (ZeroTime > 0) /\ ~ (Never > 0)
  BY DEF None, ZeroTime, Never
<1> QED
  BY <1>1, NextIs DEF Gone

\* The search never finds a session again once it found none.
LEMMA GoneStays ==
  ASSUME NEW m, Timed(m), NEW t \in 0..Horizon, NEW u \in 0..Horizon, t <= u,
         Gone(m, t)
  PROVE  Gone(m, u)
<1>1. m.scheduled \in Nat /\ t \in Nat /\ u \in Nat /\ m.rule.endDate \in Nat
  BY TimeAssumption, TimedKinds
<1>2. CASE ~ Loads(m.zone)
  BY <1>2, GoneIs
<1>3. CASE Loads(m.zone) /\ m.rule.repeat = "None"
  <2>1. ~ (t < m.scheduled)
    BY <1>1, <1>3, NextIs DEF Gone
  <2>2. ~ (u < m.scheduled)
    BY <1>1, <2>1
  <2>3. NextMeetingTimestamp(m, u) = None
    BY <1>3, <2>2, NextIs
  <2> QED
    BY <2>3, GoneIs
<1>4. CASE Loads(m.zone) /\ NoWord(m)
  <2>1. m.rule.repeat # "None"
    BY <1>4, TimedKinds
  <2>2. CASE u < m.scheduled
    <3>1. t < m.scheduled
      BY <1>1, <2>2
    <3>2. Following(m, t) = m.scheduled /\ Following(m, u) = m.scheduled
      BY <2>2, <3>1, FollowingIs
    <3>3. Ended(m, t)
      BY <1>1, <1>4, <2>1, <3>1, <3>2, NextIs DEF Gone
    <3>4. Ended(m, u)
      BY <1>1, <3>2, <3>3 DEF Ended
    <3> QED
      BY <2>1, <3>4, GoneIs
  <2>3. CASE ~ (u < m.scheduled)
    <3>1. Following(m, u) = ZeroTime
      BY <1>4, <2>3, FollowingIs
    <3>2. NextMeetingTimestamp(m, u) \in {None, ZeroTime}
      BY <1>4, <2>1, <3>1, NextIs
    <3> QED
      BY <3>2, GoneIs
  <2> QED
    BY <2>2, <2>3
<1>5. CASE Loads(m.zone) /\ Known(m)
  <2>1. m.rule.repeat # "None" /\ ~ NoWord(m)
    BY <1>5, TimedKinds
  <2>2. \/ Following(m, t) \in Nat /\ Following(m, t) > 0
        \/ Following(m, t) = Never
    BY <1>1, <1>5, <2>1, FollowingBounds
  <2>3. \/ Following(m, u) = Never
        \/ Following(m, t) # Never /\ Following(m, t) <= Following(m, u)
    BY <1>5, FollowingMonotone
  <2>4. CASE Following(m, u) = Never
    <3>1. NextMeetingTimestamp(m, u) \in {None, Never}
      BY <1>5, <2>1, <2>4, NextIs
    <3> QED
      BY <3>1, GoneIs
  <2>5. CASE Following(m, u) # Never
    <3>1. Following(m, t) \in Nat /\ Following(m, t) > 0
      BY <2>2, <2>3, <2>5
    <3>2. Following(m, u) \in Nat
      BY <1>5, <2>1, <2>5, FollowingBounds
    <3>3. Ended(m, t)
      BY <1>5, <2>1, <3>1, NextIs DEF Gone
    <3>4. Ended(m, u)
      BY <1>1, <2>3, <2>5, <3>1, <3>2, <3>3 DEF Ended
    <3> QED
      BY <2>1, <3>4, GoneIs
  <2> QED
    BY <2>4, <2>5
<1> QED
  BY <1>2, <1>3, <1>4, <1>5, TimedKinds

-----------------------------------------------------------------------------
(* The refresh. *)

LEMMA RefreshCompletes ==
  ASSUME NEW m, NEW t, Refreshed(m, t) = "Completed"
  PROVE  /\ ~ Repeats(m) => Loads(m.zone) /\ m.start + Duration < t
         /\ Repeats(m) =>
              \/ m.rule.endDate # None /\ m.rule.endDate < t
              \/ ~ IsTodayNeedMeeting(m, t) /\ NextMeetingTimestamp(m, t) = None
<1>1. "Completed" # "" /\ "Completed" # "Scheduled" /\ "Scheduled" # ""
  OBVIOUS
<1>2. ASSUME ~ Repeats(m) PROVE Loads(m.zone) /\ m.start + Duration < t
  BY <1>1, <1>2, Zenon DEF Refreshed, Repeats, RefreshNonRepeatMeeting
<1>3. ASSUME Repeats(m)
      PROVE  \/ m.rule.endDate # None /\ m.rule.endDate < t
             \/ ~ IsTodayNeedMeeting(m, t) /\ NextMeetingTimestamp(m, t) = None
  <2>1. Refreshed(m, t) = RefreshRepeatMeeting(m, t)
    BY <1>3, Zenon DEF Refreshed, Repeats
  <2> QED
    BY <1>1, <2>1, Zenon DEF RefreshRepeatMeeting, RefreshRepeatNoEnd
<1> QED
  BY <1>2, <1>3

LEMMA RefreshedTo ==
  ASSUME NEW m, NEW t
  PROVE  Refreshed(m, t) \in {"", "Scheduled", "Completed"}
BY Zenon
   DEF Refreshed, RefreshNonRepeatMeeting, RefreshRepeatMeeting, RefreshRepeatNoEnd

\* A refresh completes a meeting that was not moved only when its search finds no
\* session to come.
LEMMA CompletesWhenGone ==
  ASSUME NEW m, Timed(m), m.start \in Nat, NEW t \in 0..Horizon,
         Refreshed(m, t) = "Completed", Repeats(m) \/ m.start = m.scheduled
  PROVE  Gone(m, t)
<1>1. t \in Nat /\ m.scheduled \in Nat /\ m.rule.endDate \in Nat
  BY TimeAssumption, TimedKinds
<1>2. CASE ~ Repeats(m)
  <2>1. m.scheduled + Duration < t /\ Duration \in Nat
    BY <1>2, TimeAssumption, RefreshCompletes
  <2>2. ~ (t < m.scheduled)
    BY <1>1, <2>1
  <2>3. NoWord(m) \/ m.rule.repeat = "None"
    BY <1>2 DEF Repeats, NoWord
  <2>4. CASE NoWord(m)
    <3>1. Following(m, t) = ZeroTime /\ m.rule.repeat # "None"
      BY <2>2, <2>4, FollowingIs, TimedKinds
    <3>2. NextMeetingTimestamp(m, t) \in {None, ZeroTime}
      BY <3>1, NextIs
    <3> QED
      BY <3>2, GoneIs
  <2>5. CASE m.rule.repeat = "None"
    <3>1. NextMeetingTimestamp(m, t) = None
      BY <2>2, <2>5, NextIs
    <3> QED
      BY <3>1, GoneIs
  <2> QED
    BY <2>3, <2>4, <2>5
<1>3. CASE Repeats(m)
  <2>1. CASE NextMeetingTimestamp(m, t) = None
    BY <2>1, GoneIs
  <2>2. CASE m.rule.endDate # None /\ m.rule.endDate < t
    <3>1. m.rule.repeat # "None"
      BY <1>3 DEF Repeats
    <3>2. Ended(m, t)
      BY <1>1, <2>2 DEF Ended
    <3> QED
      BY <3>1, <3>2, GoneIs
  <2> QED
    BY <1>3, <2>1, <2>2, RefreshCompletes
<1> QED
  BY <1>2, <1>3

-----------------------------------------------------------------------------
(* The invariant. *)

Typed ==
  /\ now \in 1..Horizon
  /\ doc \in [scheduled : Nat, start : Nat, zone : Zones \cup {""}, rule : Rule]
  /\ InUse(doc.rule)
  /\ status \in Statuses
  /\ room \in BOOLEAN

\* A completed meeting that was not moved waits for no session: its search found
\* none, or would have.
CompletedGone == status = "Completed" /\ ~ Moved => Gone(doc, now)

Inv == Typed /\ CompletedGone

LEMMA TypedTimes ==
  ASSUME Typed
  PROVE  /\ Timed(doc) /\ doc.start \in Nat
         /\ now \in 0..Horizon /\ now \in Nat /\ Horizon \in Nat
         /\ ~ Moved => Repeats(doc) \/ doc.start = doc.scheduled
<1>1. now \in 0..Horizon /\ now \in Nat /\ Horizon \in Nat
  <2>1. now \in 1..Horizon
    BY DEF Typed
  <2> QED
    BY <2>1, TimeAssumption
<1>2. Timed(doc) /\ doc.start \in Nat
  BY DEF Typed, Timed
<1>3. ~ Moved => Repeats(doc) \/ doc.start = doc.scheduled
  BY DEF Moved, Repeating, Repeats
<1> QED
  BY <1>1, <1>2, <1>3

LEMMA InitInv == Init => Inv
<1> SUFFICES ASSUME Init PROVE Inv
  OBVIOUS
<1>1. Times \subseteq Nat /\ 1 \in 1..Horizon /\ 1 \in Nat
  BY TimeAssumption
<1>2. CASE \E time \in Times, zone \in Zones, rule \in Rules :
             doc = Booked(time, zone, rule) /\ status = "Scheduled" /\ room = FALSE
  <2>1. PICK time \in Times, zone \in Zones, rule \in Rules :
          doc = Booked(time, zone, rule) /\ status = "Scheduled" /\ room = FALSE
    BY <1>2
  <2>2. PICK asked : asked = RepeatInfo(rule)
    OBVIOUS
  <2>3. InUse(asked)
    BY <2>2, RepeatInfoInUse
  <2>4. asked \in Rule
    BY <2>3 DEF InUse
  <2>5. doc = [scheduled |-> time, start |-> time, zone |-> zone, rule |-> asked]
    BY <2>1, <2>2 DEF Booked
  <2>6. /\ doc.rule = asked
        /\ doc \in [scheduled : Nat, start : Nat, zone : Zones \cup {""}, rule : Rule]
    BY <1>1, <2>4, <2>5
  <2>7. Typed
    BY <1>1, <2>1, <2>3, <2>6 DEF Init, Typed, Statuses
  <2> QED
    BY <2>1, <2>7 DEF Inv, CompletedGone
<1>3. CASE \E time \in Times : doc = Created(time) /\ status = "In-Progress" /\ room = TRUE
  <2>1. PICK time \in Times : doc = Created(time)
    BY <1>3
  <2>2. doc = [scheduled |-> time, start |-> now, zone |-> "", rule |-> NoRule]
    BY <2>1 DEF Created
  <2>3. InUse(NoRule) /\ NoRule \in Rule
    BY RepeatInfoInUse, NoRuleShape
  <2> QED
    BY <1>1, <1>3, <2>2, <2>3 DEF Init, Inv, Typed, CompletedGone, Statuses
<1> QED
  BY <1>2, <1>3 DEF Init

LEMMA NextInv == Inv /\ [Next]_vars => Inv'
<1> SUFFICES ASSUME Inv, [Next]_vars PROVE Inv'
  OBVIOUS
<1>1. Typed /\ CompletedGone
  BY DEF Inv
<1>2. /\ Timed(doc) /\ doc.start \in Nat
      /\ now \in 0..Horizon /\ now \in Nat /\ Horizon \in Nat
      /\ ~ Moved => Repeats(doc) \/ doc.start = doc.scheduled
  BY <1>1, TypedTimes
<1>3. CASE Tick
  <2>1. now' = now + 1 /\ now < Horizon /\ UNCHANGED <<doc, status, room>>
    BY <1>3 DEF Tick
  <2>2. now' \in 1..Horizon /\ now' \in 0..Horizon /\ now <= now'
    BY <1>2, <2>1
  <2>3. Typed'
    BY <1>1, <2>1, <2>2 DEF Typed
  <2>4. Gone(doc, now) => Gone(doc, now')
    BY <1>2, <2>2, GoneStays
  <2>5. CompletedGone'
    BY <1>1, <2>1, <2>4 DEF CompletedGone, Moved, Repeating, Gone
  <2> QED
    BY <2>3, <2>5 DEF Inv
<1>4. CASE GetMeetings
  <2>1. UNCHANGED <<now, doc>> /\ Live
    BY <1>4 DEF GetMeetings
  <2>2. CASE UNCHANGED <<status, room>>
    BY <1>1, <2>1, <2>2 DEF Inv, Typed, CompletedGone, Moved, Repeating, Gone
  <2>3. CASE /\ status' = IF Refreshed(doc, now) = "" THEN status ELSE Refreshed(doc, now)
             /\ room' = (room /\ Refreshed(doc, now) # "Completed")
    <3>1. status' \in {status, "Scheduled", "Completed"} /\ room' \in BOOLEAN
      BY <1>1, <2>3, RefreshedTo DEF Typed
    <3>2. Typed'
      BY <1>1, <2>1, <2>3, <3>1 DEF Typed, Statuses
    <3>3. status' = "Completed" => Refreshed(doc, now) = "Completed"
      BY <2>1, <2>3 DEF Live
    <3>4. status' = "Completed" /\ ~ Moved => Gone(doc, now)
      BY <1>2, <3>3, CompletesWhenGone
    <3> QED
      BY <2>1, <3>2, <3>4 DEF Inv, CompletedGone, Moved, Repeating, Gone
  <2> QED
    BY <1>4, <2>2, <2>3 DEF GetMeetings
<1>5. CASE JoinMeeting
  BY <1>1, <1>5 DEF JoinMeeting, Inv, Typed, CompletedGone, Moved, Repeating, Gone
<1>6. CASE RoomEmpties
  BY <1>1, <1>6 DEF RoomEmpties, Inv, Typed, CompletedGone, Moved, Repeating, Gone
<1>7. CASE EndMeeting
  <2>1. UNCHANGED <<now, doc>>
    BY <1>7 DEF EndMeeting
  <2>2. CASE UNCHANGED <<status, room>>
    BY <1>1, <2>1, <2>2 DEF Inv, Typed, CompletedGone, Moved, Repeating, Gone
  <2>3. CASE /\ \/ status' = IF NextMeetingTimestamp(doc, now) > 0
                             THEN "Scheduled" ELSE "Completed"
                \/ status' = "Cancelled"
                \/ UNCHANGED status
             /\ room' = FALSE
    <3>1. status' \in {status, "Scheduled", "Completed", "Cancelled"}
      BY <2>3
    <3>2. Typed'
      BY <1>1, <2>1, <2>3, <3>1 DEF Typed, Statuses
    <3>3. status' = "Completed" => status = "Completed" \/ Gone(doc, now)
      BY <2>3 DEF Gone
    <3> QED
      BY <1>1, <2>1, <3>2, <3>3 DEF Inv, CompletedGone, Moved, Repeating, Gone
  <2> QED
    BY <1>7, <2>2, <2>3 DEF EndMeeting
<1>8. CASE UpdateMeeting
  <2>1. UNCHANGED <<now, status, room>> /\ Live
    BY <1>8 DEF UpdateMeeting
  <2>2. PICK time \in Times \cup {doc.scheduled}, zone \in Zones \cup {doc.zone},
             rule \in Rules \cup {doc.rule} :
          doc' = [doc EXCEPT !.scheduled = time, !.zone = zone, !.rule = RepeatInfo(rule)]
    BY <1>8 DEF UpdateMeeting
  <2>3. PICK asked : asked = RepeatInfo(rule)
    OBVIOUS
  <2>4. InUse(asked)
    BY <1>1, <2>2, <2>3, RepeatInfoInUse DEF Typed
  <2>5. asked \in Rule
    BY <2>4 DEF InUse
  <2>6. time \in Nat /\ zone \in Zones \cup {""}
    <3>1. time \in Nat
      BY <1>2, <2>2, TimeAssumption DEF Timed
    <3>2. doc.zone \in Zones \cup {""}
      BY <1>1 DEF Typed
    <3> QED
      BY <2>2, <3>1, <3>2
  <2>7. /\ doc' \in [scheduled : Nat, start : Nat, zone : Zones \cup {""}, rule : Rule]
        /\ doc'.rule = asked
    BY <1>1, <2>2, <2>3, <2>5, <2>6 DEF Typed
  <2>8. InUse(doc'.rule)
    BY <2>4, <2>7
  <2>9. Typed'
    BY <1>1, <2>1, <2>7, <2>8 DEF Typed
  <2>10. status' # "Completed"
    BY <2>1 DEF Live
  <2> QED
    BY <2>9, <2>10 DEF Inv, CompletedGone
<1>9. CASE UNCHANGED vars
  BY <1>1, <1>9 DEF vars, Inv, Typed, CompletedGone, Moved, Repeating, Gone
<1> QED
  BY <1>3, <1>4, <1>5, <1>6, <1>7, <1>8, <1>9 DEF Next

LEMMA AlwaysInv == Spec => []Inv
<1> QED
  BY InitInv, NextInv, PTL DEF Spec

\* Every variable holds a value of its kind, and a rule that is not "Custom"
\* carries no unit, interval or days (updateRepeatInfo).
THEOREM TypeCorrect == Spec => []TypeOK
<1>1. Typed => TypeOK
  <2> SUFFICES ASSUME Typed PROVE TypeOK
    OBVIOUS
  <2>1. CustomFieldsOnly
    BY DEF Typed, InUse, CustomFieldsOnly
  <2> QED
    BY <2>1 DEF Typed, TypeOK
<1>2. Inv => TypeOK
  BY <1>1 DEF Inv
<1> QED
  BY <1>2, AlwaysInv, PTL

\* nextMeetingTimestamp returns for every rule but a custom one whose steps do not
\* get on: with an interval of zero or less, an unknown unit, or days that are no
\* weekdays.  The loop stops, whatever the calendar, the zone and the time.
THEOREM SearchEnds == Spec => []HangsOnlyIfStuck
<1>1. Inv => HangsOnlyIfStuck
  <2> SUFFICES ASSUME Typed PROVE HangsOnlyIfStuck
    BY DEF Inv
  <2>1. Hangs(doc, now) => Stalls(doc.rule)
    BY TypedTimes, NextBounds DEF Hangs
  <2> QED
    BY <2>1 DEF HangsOnlyIfStuck, Stuck, Stalls, NoUnit, NoWeekday
<1> QED
  BY <1>1, AlwaysInv, PTL

\* EndMeeting and the refresh never take a completed meeting back to wait for a
\* session, unless it does not repeat and was moved.
THEOREM CompletedForGood == Spec => CompletedStays
<1>1. Inv /\ [Next]_vars
      => [status = "Completed" /\ ~ Moved => status' \in {"Completed", "Cancelled"}]_vars
  <2> SUFFICES ASSUME Inv, [Next]_vars, status = "Completed", ~ Moved
               PROVE  status' \in {"Completed", "Cancelled"}
    OBVIOUS
  <2>1. Gone(doc, now)
    BY DEF Inv, CompletedGone
  <2>2. ~ Live
    BY DEF Live
  <2>3. CASE Tick
    BY <2>3 DEF Tick
  <2>4. CASE JoinMeeting
    BY <2>4 DEF JoinMeeting
  <2>5. CASE RoomEmpties
    BY <2>5 DEF RoomEmpties
  <2>6. CASE EndMeeting
    BY <2>1, <2>6 DEF EndMeeting, Gone
  <2> QED
    BY <2>2, <2>3, <2>4, <2>5, <2>6 DEF Next, GetMeetings, UpdateMeeting, vars
<1> QED
  BY <1>1, AlwaysInv, PTL DEF Spec, CompletedStays

-----------------------------------------------------------------------------
(* The days of a rule. *)

Multiple(a, n) == \E k \in Nat : a = k * n

LEMMA MultipleMod ==
  ASSUME NEW a \in Nat, NEW n \in Nat \ {0}
  PROVE  Multiple(a, n) <=> a % n = 0
<1>1. /\ a \div n \in Nat /\ a % n \in 0..(n - 1)
      /\ a = (a \div n) * n + (a % n)
  OBVIOUS
<1>2. ASSUME a % n = 0 PROVE Multiple(a, n)
  <2>1. a = (a \div n) * n
    BY <1>1, <1>2
  <2> QED
    BY <1>1, <2>1 DEF Multiple
<1>3. ASSUME Multiple(a, n) PROVE a % n = 0
  <2>1. PICK k \in Nat : a = k * n
    BY <1>3 DEF Multiple
  <2>2. PICK q \in Nat, r \in 0..(n - 1) : q = a \div n /\ r = a % n /\ a = q * n + r
    BY <1>1
  <2>3. k * n \in Nat /\ q * n \in Nat
    OBVIOUS
  <2>4. k < q => k * n + n <= q * n
    BY DaysApart
  <2>5. q < k => q * n + n <= k * n
    BY DaysApart
  <2>6. k = q
    BY <2>1, <2>2, <2>3, <2>4, <2>5
  <2>7. k * n = q * n
    BY <2>6
  <2> QED
    BY <2>1, <2>2, <2>3, <2>7
<1> QED
  BY <1>2, <1>3

LEMMA MultipleStep ==
  ASSUME NEW a \in Nat, NEW b \in Nat, NEW n \in Nat \ {0}, Multiple(a, n)
  PROVE  /\ Multiple(a + n, n)
         /\ Multiple(b, n) /\ a < b => a + n <= b
<1>1. PICK k \in Nat : a = k * n
  BY DEF Multiple
<1>2. Multiple(a + n, n)
  <2>1. k + 1 \in Nat /\ a + n = (k + 1) * n
    BY <1>1
  <2> QED
    BY <2>1 DEF Multiple
<1>3. ASSUME Multiple(b, n), a < b PROVE a + n <= b
  <2>1. PICK j \in Nat : b = j * n
    BY <1>3 DEF Multiple
  <2>2. k < j => k * n + n <= j * n
    BY DaysApart
  <2>3. j < k => j * n + n <= k * n
    BY DaysApart
  <2>4. k # j
    BY <1>1, <1>3, <2>1
  <2>5. k * n \in Nat /\ j * n \in Nat
    OBVIOUS
  <2> QED
    BY <1>1, <1>3, <2>1, <2>2, <2>3, <2>4, <2>5
<1> QED
  BY <1>2, <1>3

InCalendar(d) == d < MonthStarts[Last]

LEMMA MonthOf ==
  ASSUME NEW d \in Nat, InCalendar(d)
  PROVE  /\ Month(d) \in 1..(Last - 1) /\ Month(d) \in 1..Last /\ Month(d) + 1 \in 1..Last
         /\ MonthStarts[Month(d)] \in Nat
         /\ DayOfMonth(d) \in Nat /\ d = MonthStarts[Month(d)] + DayOfMonth(d)
         /\ d < MonthStarts[Month(d) + 1]
<1>1. Last \in 1..Last
  BY Calendar
<1>2. /\ Month(d) \in 1..(Last - 1)
      /\ MonthStarts[Month(d)] <= d /\ d < MonthStarts[Month(d) + 1]
  BY <1>1, MonthOfDay DEF InCalendar
<1>3. Month(d) \in 1..Last /\ Month(d) + 1 \in 1..Last
  BY <1>2, Calendar
<1>4. MonthStarts[Month(d)] \in Nat
  BY <1>3, Calendar
<1> QED
  BY <1>2, <1>3, <1>4 DEF DayOfMonth

LEMMA MonthsOrdered ==
  ASSUME NEW d \in Nat, NEW e \in Nat, InCalendar(e), d <= e
  PROVE  InCalendar(d) /\ Month(d) <= Month(e)
<1>1. InCalendar(d)
  <2>1. MonthStarts[Last] \in Nat
    BY Calendar
  <2> QED
    BY <2>1 DEF InCalendar
<1>2. ASSUME Month(e) < Month(d) PROVE FALSE
  <2>1. PICK i, j : i = Month(d) /\ j = Month(e)
    OBVIOUS
  <2>2. i \in 1..Last /\ j \in 1..Last /\ j + 1 \in 1..Last
    BY <1>1, <2>1, MonthOf
  <2>3. MonthStarts[i] \in Nat /\ MonthStarts[j + 1] \in Nat
    BY <2>2, Calendar
  <2>4. MonthStarts[j + 1] <= MonthStarts[i]
    BY <1>2, <2>1, <2>2, Calendar
  <2>5. MonthStarts[i] <= d /\ e < MonthStarts[j + 1]
    BY <1>1, <2>1, MonthOf
  <2> QED
    BY <2>3, <2>4, <2>5
<1>3. Month(d) \in 1..Last /\ Month(e) \in 1..Last
  BY <1>1, MonthOf
<1> QED
  BY <1>1, <1>2, <1>3, Calendar

\* A week for each month that is left.
LEMMA RoomForWeeks ==
  ASSUME NEW d \in Nat, NEW last \in 1..Last, d < MonthStarts[last],
         NEW n \in Nat, last + n <= Last
  PROVE  d + 7 * n < MonthStarts[Last]
<1>1. Last \in 1..Last /\ Last \in Nat /\ last \in Nat
  BY Calendar
<1>2. MonthStarts[last] \in Nat /\ MonthStarts[Last] \in Nat
  BY <1>1, Calendar
<1>3. last < Last => MonthStarts[last] + 7 * (Last - last) <= MonthStarts[Last]
  BY <1>1, TimeAssumption, Calendar
<1>4. 7 * n <= 7 * (Last - last)
  BY <1>1
<1> QED
  BY <1>1, <1>2, <1>3, <1>4

\* Every n-th month from the one of the first day, on the same day of it.
OnMonths(first, d, n) ==
  /\ DayOfMonth(d) = DayOfMonth(first)
  /\ Month(first) <= Month(d) /\ Multiple(Month(d) - Month(first), n)

LEMMA MonthsStep ==
  ASSUME NEW first \in Nat, NEW d \in Nat, InCalendar(first),
         \A i \in 1..(Last - 1) : MonthStarts[i] + DayOfMonth(first) < MonthStarts[i + 1],
         NEW n \in Nat \ {0}, OnMonths(first, d, n),
         NEW last \in 1..Last, d < MonthStarts[last], last + n <= Last
  PROVE  /\ AddMonths(d, n) \in Nat /\ InCalendar(AddMonths(d, n))
         /\ OnMonths(first, AddMonths(d, n), n)
         /\ \A e \in Nat : d < e /\ InCalendar(e) /\ OnMonths(first, e, n)
                             => AddMonths(d, n) <= e
<1>1. /\ Month(d) + n \in 1..(Last - 1)
      /\ AddMonths(d, n) = MonthStarts[Month(d) + n] + DayOfMonth(d)
      /\ AddMonths(d, n) \in Nat /\ AddMonths(d, n) > d
  <2>1. n \in Int /\ n > 0 /\ n >= 0
    OBVIOUS
  <2>2. AddMonths(d, n) \in Int /\ AddMonths(d, n) > d
    BY <2>1, MonthsForward
  <2> QED
    BY <2>1, <2>2, MonthsForward
<1>2. PICK i \in 1..(Last - 1) : i = Month(d) + n
  BY <1>1
<1>3. PICK s \in Nat : s = AddMonths(d, n) /\ d < s
  BY <1>1
<1>4. i \in 1..Last /\ i + 1 \in 1..Last /\ Last \in 1..Last /\ Last \in Nat
  BY Calendar
<1>5. /\ MonthStarts[i] \in Nat /\ MonthStarts[i + 1] \in Nat /\ MonthStarts[Last] \in Nat
      /\ MonthStarts[i + 1] <= MonthStarts[Last]
  <2>1. PICK j \in 1..Last : j = i + 1
    BY <1>4
  <2>2. MonthStarts[j] \in Nat /\ MonthStarts[i] \in Nat /\ MonthStarts[Last] \in Nat
    BY <1>4, Calendar
  <2>3. j < Last => MonthStarts[j] < MonthStarts[Last]
    BY <1>4, Calendar
  <2>4. j = Last \/ j < Last
    BY <1>4
  <2> QED
    BY <2>1, <2>2, <2>3, <2>4
<1>6. DayOfMonth(first) \in Nat /\ Month(first) \in Nat
  BY MonthOf
<1>7. s = MonthStarts[i] + DayOfMonth(first)
  BY <1>1, <1>2, <1>3 DEF OnMonths
<1>8. MonthStarts[i] <= s /\ s < MonthStarts[i + 1]
  BY <1>5, <1>6, <1>7
<1>9. InCalendar(s) /\ InCalendar(d)
  BY <1>3, <1>5, <1>8 DEF InCalendar
<1>10. Month(s) = i
  BY <1>8, MonthIs
<1>11. DayOfMonth(s) = DayOfMonth(first)
  BY <1>5, <1>6, <1>7, <1>10 DEF DayOfMonth
<1>12. Month(d) \in Nat /\ Month(first) <= Month(d)
       /\ Multiple(Month(d) - Month(first), n)
  BY <1>9, MonthOf DEF OnMonths
<1>13. PICK a \in Nat : a = Month(d) - Month(first)
  BY <1>6, <1>12
<1>14. Multiple(a, n)
  BY <1>12, <1>13
<1>15. Month(s) - Month(first) = a + n /\ Month(first) <= Month(s)
  BY <1>2, <1>6, <1>10, <1>12, <1>13
<1>16. OnMonths(first, s, n)
  BY <1>11, <1>14, <1>15, MultipleStep DEF OnMonths
<1>17. ASSUME NEW e \in Nat, d < e, InCalendar(e), OnMonths(first, e, n)
       PROVE  s <= e
  <2>1. /\ Month(d) <= Month(e) /\ Month(e) \in 1..Last /\ Month(e) \in Nat
        /\ MonthStarts[Month(e)] \in Nat
        /\ e = MonthStarts[Month(e)] + DayOfMonth(e)
        /\ d = MonthStarts[Month(d)] + DayOfMonth(d)
    BY <1>9, <1>17, MonthsOrdered, MonthOf
  <2>2. DayOfMonth(e) = DayOfMonth(first) /\ DayOfMonth(d) = DayOfMonth(first)
        /\ Multiple(Month(e) - Month(first), n)
    BY <1>17 DEF OnMonths
  <2>3. Month(d) # Month(e)
    BY <1>17, <2>1, <2>2
  <2>4. PICK b \in Nat : b = Month(e) - Month(first) /\ a < b
    BY <1>6, <1>12, <1>13, <2>1, <2>3
  <2>5. a + n <= b
    BY <1>14, <2>2, <2>4, MultipleStep
  <2>6. i <= Month(e)
    BY <1>2, <1>6, <1>12, <1>13, <2>1, <2>4, <2>5
  <2>7. MonthStarts[i] <= MonthStarts[Month(e)]
    BY <1>4, <2>1, <2>6, StartsOrdered
  <2> QED
    BY <1>5, <1>6, <1>7, <2>1, <2>2, <2>7
<1> QED
  BY <1>3, <1>9, <1>16, <1>17

-----------------------------------------------------------------------------
(* The path of the loop: the days of the rule. *)

LEMMA RegularShape ==
  ASSUME NEW m, Searched(m), Regular(m)
  PROVE  /\ m.rule.days # {} => /\ m.rule.repeat = "Custom"
                                /\ m.rule.unit = "Day" /\ m.rule.interval = 1
         /\ ~ NoWeekday(m.rule)
         /\ m.rule.interval \in Nat
         /\ m.rule.repeat = "Custom" => /\ m.rule.interval \in Nat \ {0}
                                        /\ m.rule.unit \in {"Day", "Week", "Month"}
         /\ ~ Stalls(m.rule)
         /\ m.rule.repeat = "Monthly" \/ m.rule.unit = "Month" =>
              \A i \in 1..(Last - 1) :
                MonthStarts[i] + DayOfMonth(First(m)) < MonthStarts[i + 1]
<1>1. Searchable(m.rule)
  BY DEF Searched
<1>2. m.rule.repeat = "Custom" => m.rule.interval > 0
  BY Zenon DEF Regular
<1>3. m.rule.repeat = "Custom" => ~ NoUnit(m.rule)
  BY Zenon DEF Regular, NoUnit
<1>4. m.rule.days # {} =>
        m.rule.unit = "Day" /\ m.rule.interval = 1 /\ m.rule.days \subseteq 0..6
  BY Zenon DEF Regular
<1>5. m.rule.repeat = "Monthly" \/ m.rule.unit = "Month" =>
        \A i \in 1..(Last - 1) :
          MonthStarts[i] + DayOfMonth(First(m)) < MonthStarts[i + 1]
  BY Zenon DEF Regular, Last
<1>6. /\ m.rule.interval \in Int /\ m.rule.days \in SUBSET Int
      /\ m.rule.repeat # "Custom" => m.rule.days = {} /\ m.rule.interval = 0
  BY <1>1, SearchableShape
<1>7. ~ NoUnit(m.rule) => m.rule.unit \in {"Day", "Week", "Month"}
  BY <1>1, UnitKinds
<1>8. /\ m.rule.interval \in Nat
      /\ m.rule.repeat = "Custom" => ~ (m.rule.interval <= 0) /\ m.rule.interval # 0
  BY <1>2, <1>6
<1>9. ~ NoWeekday(m.rule)
  <2>1. CASE m.rule.days = {}
    BY <2>1 DEF NoWeekday
  <2>2. CASE m.rule.days # {}
    <3>1. PICK k \in m.rule.days : TRUE
      BY <2>2
    <3>2. k \in m.rule.days \cap (0..6)
      BY <1>4, <3>1
    <3> QED
      BY <3>2 DEF NoWeekday
  <2> QED
    BY <2>1, <2>2
<1>10. ~ Stalls(m.rule)
  BY <1>3, <1>8, <1>9 DEF Stalls
<1>11. m.rule.days # {} => m.rule.repeat = "Custom"
  BY <1>6
<1>12. m.rule.repeat = "Custom" => m.rule.interval \in Nat \ {0}
  BY <1>8
<1>13. m.rule.repeat = "Custom" => m.rule.unit \in {"Day", "Week", "Month"}
  BY <1>3, <1>7
<1> QED
  BY <1>4, <1>5, <1>8, <1>9, <1>10, <1>11, <1>12, <1>13

OnPath(m, d) ==
  LET first == First(m)
  IN  /\ first <= d
      /\ m.rule.repeat = "Weekly" => Weekday(d) = Weekday(first)
      /\ m.rule.repeat = "Monthly" => OnMonths(first, d, 1)
      /\ m.rule.days # {} => d = first \/ Weekday(d) \in m.rule.days
      /\ m.rule.repeat = "Custom" /\ m.rule.days = {} =>
           /\ m.rule.unit = "Day" => Multiple(d - first, m.rule.interval)
           /\ m.rule.unit = "Week" => Multiple(d - first, 7 * m.rule.interval)
           /\ m.rule.unit = "Month" => OnMonths(first, d, m.rule.interval)

\* The day after d on the path is the first one, and the calendar has it.
IsNextOnPath(m, d, s) ==
  /\ s \in Nat /\ OnPath(m, s)
  /\ m.rule.repeat # "WeekDay" => InCalendar(s)
  /\ \A e \in Nat : d < e /\ InCalendar(e) /\ OnPath(m, e) => s <= e

\* Room for a week, and for as many weeks as the interval.
LEMMA WeeksLeft ==
  ASSUME NEW rule, Searchable(rule), NEW d \in Nat, d * Slots <= Farthest
  PROVE  /\ InCalendar(d)
         /\ d + 7 < MonthStarts[Last]
         /\ rule.interval \in Nat => d + 7 * rule.interval < MonthStarts[Last]
         /\ MonthStarts[Last] \in Nat
<1>1. PICK last \in 1..Last :
        d < MonthStarts[last] /\ last + 1 <= Last /\ last + rule.interval <= Last
  BY RoomToStep
<1>2. d + 7 * 1 < MonthStarts[Last]
  BY <1>1, RoomForWeeks
<1>3. rule.interval \in Nat => d + 7 * rule.interval < MonthStarts[Last]
  BY <1>1, RoomForWeeks
<1>4. MonthStarts[Last] \in Nat
  BY Calendar
<1> QED
  BY <1>2, <1>3, <1>4 DEF InCalendar

\* A step of n days from a multiple of n.
LEMMA DaysStep ==
  ASSUME NEW first \in Nat, NEW d \in Nat, first <= d, NEW n \in Nat \ {0},
         Multiple(d - first, n)
  PROVE  /\ Multiple((d + n) - first, n)
         /\ \A e \in Nat : d < e /\ Multiple(e - first, n) => d + n <= e
<1>1. PICK a \in Nat : a = d - first
  OBVIOUS
<1>2. Multiple(a, n)
  BY <1>1
<1>3. (d + n) - first = a + n
  BY <1>1
<1>4. Multiple(a + n, n)
  BY <1>2, MultipleStep
<1>5. ASSUME NEW e \in Nat, d < e, Multiple(e - first, n) PROVE d + n <= e
  <2>1. PICK b \in Nat : b = e - first
    BY <1>5
  <2>2. Multiple(b, n) /\ a < b
    BY <1>1, <1>5, <2>1
  <2>3. a + n <= b
    BY <1>2, <2>2, MultipleStep
  <2> QED
    BY <1>1, <2>1, <2>3
<1> QED
  BY <1>3, <1>4, <1>5

LEMMA MonthsOnward ==
  ASSUME NEW m, Searched(m), Regular(m), NEW d \in Nat, d * Slots <= Farthest,
         First(m) <= d, NEW n \in {1, m.rule.interval}, n > 0,
         m.rule.repeat = "Monthly" \/ m.rule.unit = "Month",
         OnMonths(First(m), d, n)
  PROVE  /\ AddMonths(d, n) \in Nat /\ InCalendar(AddMonths(d, n)) /\ AddMonths(d, n) > d
         /\ OnMonths(First(m), AddMonths(d, n), n)
         /\ \A e \in Nat : d < e /\ InCalendar(e) /\ OnMonths(First(m), e, n)
                             => AddMonths(d, n) <= e
<1>1. Placed(m) /\ Searchable(m.rule)
  BY DEF Searched
<1>2. First(m) \in Nat
  BY <1>1, FirstStart
<1>3. n \in Nat \ {0}
  BY <1>1, SearchableShape
<1>4. PICK last \in 1..Last :
        d < MonthStarts[last] /\ last + 1 <= Last /\ last + m.rule.interval <= Last
  BY <1>1, RoomToStep
<1>5. last + n <= Last
  BY <1>4
<1>6. InCalendar(First(m))
  BY <1>1, <1>2, WeeksLeft, MonthsOrdered
<1>7. \A i \in 1..(Last - 1) :
        MonthStarts[i] + DayOfMonth(First(m)) < MonthStarts[i + 1]
  BY RegularShape
<1>8. AddMonths(d, n) > d
  <2>1. n \in Int /\ n > 0
    BY <1>3
  <2> QED
    BY <1>4, <1>5, <2>1, MonthsForward
<1> QED
  BY <1>2, <1>3, <1>4, <1>5, <1>6, <1>7, <1>8, MonthsStep

LEMMA PathStep ==
  ASSUME NEW m, Searched(m), Regular(m), NEW d \in Nat, OnPath(m, d),
         m.rule.repeat = "WeekDay" \/ d * Slots <= Farthest
  PROVE  IsNextOnPath(m, d, NextDay(m.rule, d))
<1>1. Placed(m) /\ Searchable(m.rule)
  BY DEF Searched
<1>2. PICK first \in Nat : first = First(m)
  BY <1>1, FirstStart
<1>3. first <= d
  BY <1>2 DEF OnPath
<1>4. d * Slots <= Farthest =>
        /\ InCalendar(d)
        /\ d + 7 < MonthStarts[Last] /\ d + 7 * m.rule.interval < MonthStarts[Last]
        /\ MonthStarts[Last] \in Nat
  BY <1>1, RegularShape, WeeksLeft
<1>5. /\ m.rule.interval \in Nat /\ m.rule.days \in SUBSET Int /\ ~ NoWeekday(m.rule)
      /\ m.rule.repeat # "Custom" => m.rule.days = {}
  BY <1>1, RegularShape, SearchableShape
<1>6. CASE m.rule.repeat \in {"Daily", "WeekDay"}
  <2>1. NextDay(m.rule, d) = d + 1
    BY <1>6 DEF NextDay
  <2>2. OnPath(m, d + 1)
    BY <1>2, <1>3, <1>5, <1>6 DEF OnPath
  <2>3. d * Slots <= Farthest => InCalendar(d + 1)
    BY <1>4 DEF InCalendar
  <2> QED
    BY <1>6, <2>1, <2>2, <2>3 DEF IsNextOnPath
<1>7. CASE m.rule.repeat = "Weekly"
  <2>1. NextDay(m.rule, d) = d + 7
    BY <1>7 DEF NextDay
  <2>2. Weekday(d) = Weekday(first)
    BY <1>2, <1>7 DEF OnPath
  <2>3. Weekday(d + 7) = Weekday(first)
    BY <2>2 DEF Weekday
  <2>4. OnPath(m, d + 7)
    BY <1>2, <1>3, <1>5, <1>7, <2>3 DEF OnPath
  <2>5. InCalendar(d + 7)
    BY <1>4, <1>7 DEF InCalendar
  <2>6. ASSUME NEW e \in Nat, d < e, OnPath(m, e) PROVE d + 7 <= e
    <3>1. Weekday(e) = Weekday(d)
      BY <1>2, <1>7, <2>2, <2>6 DEF OnPath
    <3> QED
      BY <2>6, <3>1 DEF Weekday
  <2> QED
    BY <2>1, <2>4, <2>5, <2>6 DEF IsNextOnPath
<1>8. CASE m.rule.repeat = "Monthly"
  <2>1. NextDay(m.rule, d) = AddMonths(d, 1)
    BY <1>8 DEF NextDay
  <2>2. OnMonths(first, d, 1)
    BY <1>2, <1>8 DEF OnPath
  <2>3. PICK s : s = AddMonths(d, 1)
    OBVIOUS
  <2>4. /\ s \in Nat /\ InCalendar(s) /\ s > d /\ OnMonths(first, s, 1)
        /\ \A e \in Nat : d < e /\ InCalendar(e) /\ OnMonths(first, e, 1) => s <= e
    BY <1>2, <1>3, <1>8, <2>2, <2>3, MonthsOnward
  <2>5. OnPath(m, s)
    BY <1>2, <1>3, <1>5, <1>8, <2>4 DEF OnPath
  <2>6. \A e \in Nat : OnPath(m, e) => OnMonths(first, e, 1)
    BY <1>2, <1>8 DEF OnPath
  <2> QED
    BY <2>1, <2>3, <2>4, <2>5, <2>6 DEF IsNextOnPath
<1>9. CASE m.rule.repeat = "Custom"
  <2>1. PICK n \in Nat \ {0} : n = m.rule.interval
    BY <1>9, RegularShape
  <2>2. PICK u : u = AddUnits(m.rule, d)
    OBVIOUS
  <2>3. NextDay(m.rule, d) = ValidDay(m.rule, u)
    BY <1>9, <2>2 DEF NextDay
  <2>4. CASE m.rule.days # {}
    <3>1. u = d + 1
      BY <2>2, <2>4, RegularShape DEF AddUnits
    <3>2. PICK s : s = ValidDay(m.rule, u)
      OBVIOUS
    <3>3. /\ s \in u..(u + 6) /\ s \in Nat /\ Weekday(s) \in m.rule.days
          /\ \A e \in Nat : u <= e /\ Weekday(e) \in m.rule.days => s <= e
      <4>1. m.rule.days \in SUBSET Int /\ ~ NoWeekday(m.rule)
        BY <1>5
      <4>2. u \in Int /\ u >= 0
        BY <3>1
      <4>3. /\ s \in u..(u + 6) /\ Weekday(s) \in m.rule.days
            /\ \A e \in Int : u <= e /\ Weekday(e) \in m.rule.days => s <= e
        BY <2>4, <3>2, <4>1, <4>2, ValidDayForward
      <4> QED
        BY <4>2, <4>3
    <3>4. d < s /\ s <= d + 7
      BY <3>1, <3>3
    <3>5. OnPath(m, s)
      BY <1>2, <1>3, <1>9, <2>4, <3>3, <3>4 DEF OnPath
    <3>6. InCalendar(s)
      BY <1>4, <1>9, <3>3, <3>4 DEF InCalendar
    <3>7. ASSUME NEW e \in Nat, d < e, OnPath(m, e) PROVE s <= e
      <4>1. Weekday(e) \in m.rule.days
        BY <1>2, <1>3, <2>4, <3>7 DEF OnPath
      <4>2. u <= e
        BY <3>1, <3>7
      <4> QED
        BY <3>3, <4>1, <4>2
    <3> QED
      BY <2>3, <3>2, <3>3, <3>5, <3>6, <3>7 DEF IsNextOnPath
  <2>5. CASE m.rule.days = {} /\ m.rule.unit = "Day"
    <3>1. u = d + n
      BY <2>1, <2>2, <2>5 DEF AddUnits
    <3>2. NextDay(m.rule, d) = d + n
      BY <1>5, <2>3, <2>5, <3>1, ValidDayForward
    <3>3. Multiple(d - first, n)
      BY <1>2, <1>9, <2>1, <2>5 DEF OnPath
    <3>4. /\ Multiple((d + n) - first, n)
          /\ \A e \in Nat : d < e /\ Multiple(e - first, n) => d + n <= e
      BY <1>3, <3>3, DaysStep
    <3>5. OnPath(m, d + n)
      BY <1>2, <1>3, <1>9, <2>1, <2>5, <3>4 DEF OnPath
    <3>6. InCalendar(d + n)
      BY <1>4, <1>9, <2>1 DEF InCalendar
    <3>7. \A e \in Nat : OnPath(m, e) => Multiple(e - first, n)
      BY <1>2, <1>9, <2>1, <2>5 DEF OnPath
    <3> QED
      BY <3>2, <3>4, <3>5, <3>6, <3>7 DEF IsNextOnPath
  <2>6. CASE m.rule.days = {} /\ m.rule.unit = "Week"
    <3>1. PICK w \in Nat \ {0} : w = 7 * n
      OBVIOUS
    <3>2. u = d + w
      BY <2>1, <2>2, <2>6, <3>1 DEF AddUnits
    <3>3. NextDay(m.rule, d) = d + w
      BY <1>5, <2>3, <2>6, <3>2, ValidDayForward
    <3>4. Multiple(d - first, w)
      BY <1>2, <1>9, <2>1, <2>6, <3>1 DEF OnPath
    <3>5. /\ Multiple((d + w) - first, w)
          /\ \A e \in Nat : d < e /\ Multiple(e - first, w) => d + w <= e
      BY <1>3, <3>4, DaysStep
    <3>6. OnPath(m, d + w)
      BY <1>2, <1>3, <1>9, <2>1, <2>6, <3>1, <3>5 DEF OnPath
    <3>7. InCalendar(d + w)
      BY <1>4, <1>9, <2>1, <3>1 DEF InCalendar
    <3>8. \A e \in Nat : OnPath(m, e) => Multiple(e - first, w)
      BY <1>2, <1>9, <2>1, <2>6, <3>1 DEF OnPath
    <3> QED
      BY <3>3, <3>5, <3>6, <3>7, <3>8 DEF IsNextOnPath
  <2>7. CASE m.rule.days = {} /\ m.rule.unit = "Month"
    <3>1. PICK s : s = AddMonths(d, n)
      OBVIOUS
    <3>2. u = s
      BY <2>1, <2>2, <2>7, <3>1 DEF AddUnits
    <3>3. OnMonths(first, d, n)
      BY <1>2, <1>9, <2>1, <2>7 DEF OnPath
    <3>4. /\ s \in Nat /\ InCalendar(s) /\ s > d /\ OnMonths(first, s, n)
          /\ \A e \in Nat : d < e /\ InCalendar(e) /\ OnMonths(first, e, n) => s <= e
      BY <1>2, <1>3, <1>9, <2>1, <2>7, <3>1, <3>3, MonthsOnward
    <3>5. NextDay(m.rule, d) = s
      BY <1>5, <2>3, <2>7, <3>2, <3>4, ValidDayForward
    <3>6. OnPath(m, s)
      BY <1>2, <1>3, <1>9, <2>1, <2>7, <3>4 DEF OnPath
    <3>7. \A e \in Nat : OnPath(m, e) => OnMonths(first, e, n)
      BY <1>2, <1>9, <2>1, <2>7 DEF OnPath
    <3> QED
      BY <3>4, <3>5, <3>6, <3>7 DEF IsNextOnPath
  <2> QED
    BY <1>9, <2>4, <2>5, <2>6, <2>7, RegularShape
<1> QED
  BY <1>1, <1>6, <1>7, <1>8, <1>9, SearchableShape

\* What keeps the loop in the calendar: a weekend adds at most two days.
Near(m, t, d) ==
  /\ InCalendar(d)
  /\ m.rule.repeat = "WeekDay" =>
       \/ d <= DayIn(m.zone, t) + 1
       \/ d = DayIn(m.zone, t) + 2 /\ IsWeekend(DayIn(m.zone, t) + 1)
       \/ d = DayIn(m.zone, t) + 3 /\ ~ IsWeekend(d)

LEMMA NearStep ==
  ASSUME NEW m, Searched(m), Regular(m), NEW t \in 0..Horizon, NEW d \in Nat,
         OnPath(m, d), Near(m, t, d), TooEarly(m, d, t)
  PROVE  IsNextOnPath(m, d, NextDay(m.rule, d)) /\ Near(m, t, NextDay(m.rule, d))
<1>1. /\ Placed(m) /\ Loads(m.zone) /\ Searchable(m.rule)
      /\ t \in Nat /\ Farthest \in Nat /\ Offset[m.zone] \in Nat
      /\ t + Offset[m.zone] <= Farthest
  BY WithinFarthest DEF Searched, Placed
<1>2. CASE m.rule.repeat # "WeekDay"
  <2>1. StartOn(m, d) <= t
    BY <1>1, <1>2, TooEarlyBy
  <2>2. /\ d * Slots <= StartOn(m, d) + Offset[m.zone]
        /\ StartOn(m, d) \in Int /\ d * Slots \in Nat
    BY <1>1, StartsApart
  <2>3. d * Slots <= Farthest
    BY <1>1, <2>1, <2>2
  <2>4. IsNextOnPath(m, d, NextDay(m.rule, d))
    BY <2>3, PathStep
  <2> QED
    BY <1>2, <2>4 DEF IsNextOnPath, Near
<1>3. CASE m.rule.repeat = "WeekDay"
  <2>1. IsNextOnPath(m, d, NextDay(m.rule, d)) /\ NextDay(m.rule, d) = d + 1
    BY <1>3, PathStep DEF NextDay
  <2>2. PICK n \in Nat : n = DayIn(m.zone, t)
    BY <1>1, WithinFarthest
  <2>3. n * Slots <= Farthest
    <3>1. PICK here \in Nat : here = t + Offset[m.zone] /\ n = Day(here)
      BY <1>1, <2>2, LocalTimes
    <3>2. Slot(here) \in 0..(Slots - 1) /\ here = n * Slots + Slot(here)
      BY <3>1, DayAndSlot
    <3>3. n * Slots \in Nat
      BY <2>2, TimeAssumption
    <3> QED
      BY <1>1, <3>1, <3>2, <3>3
  <2>4. n + 7 < MonthStarts[Last] /\ MonthStarts[Last] \in Nat
    BY <1>1, <2>3, WeeksLeft
  <2>5. n < d => IsWeekend(d)
    BY <2>2, AfterToday
  <2>6. \/ d <= n + 1
        \/ d = n + 2 /\ IsWeekend(n + 1)
        \/ d = n + 3 /\ ~ IsWeekend(d)
    BY <1>3, <2>2 DEF Near
  <2>7. \/ d + 1 <= n + 1
        \/ d + 1 = n + 2 /\ IsWeekend(n + 1)
        \/ d + 1 = n + 3 /\ ~ IsWeekend(d + 1)
    <3>1. CASE d <= n
      BY <3>1
    <3>2. CASE d = n + 1
      BY <2>5, <3>2
    <3>3. CASE d = n + 2 /\ IsWeekend(n + 1)
      BY <2>5, <3>3 DEF IsWeekend, Weekday
    <3> QED
      BY <2>5, <2>6, <3>1, <3>2, <3>3
  <2>8. InCalendar(d + 1)
    BY <2>4, <2>7 DEF InCalendar
  <2> QED
    BY <2>1, <2>2, <2>7, <2>8 DEF Near
<1> QED
  BY <1>2, <1>3

\* From d on, the loop lands on the first day of the rule that is not too early.
LandsOn(f, m, t, d, s) ==
  /\ s \in Nat /\ f[d] = StartOn(m, s) /\ d <= s
  /\ InCalendar(s) /\ OnPath(m, s) /\ ~ TooEarly(m, s, t)
  /\ \A e \in Nat : d <= e /\ InCalendar(e) /\ OnPath(m, e) /\ ~ TooEarly(m, e, t)
                      => s <= e

LEMMA LoopLands ==
  ASSUME NEW m, Searched(m), Regular(m), NEW t \in 0..Horizon, NEW f, Solves(f, m, t)
  PROVE  \A d \in Nat : OnPath(m, d) /\ Near(m, t, d) => \E s : LandsOn(f, m, t, d, s)
<1> DEFINE S == {d \in Nat : OnPath(m, d) /\ Near(m, t, d)
                               => \E s : LandsOn(f, m, t, d, s)}
<1>1. ASSUME NEW d \in Nat, ~ TooEarly(m, d, t) PROVE d \in S
  <2>1. ASSUME OnPath(m, d), Near(m, t, d) PROVE LandsOn(f, m, t, d, d)
    <3>1. f[d] = StartOn(m, d)
      BY <1>1 DEF Solves, Follows
    <3> QED
      BY <1>1, <2>1, <3>1 DEF LandsOn, Near
  <2> QED
    BY <2>1
<1>2. ASSUME NEW d \in Nat, TooEarly(m, d, t), NextDay(m.rule, d) <= d PROVE d \in S
  <2>1. d < NextDay(m.rule, d) /\ NextDay(m.rule, d) \in Int
    BY <1>2, RegularShape, NextDayForward
  <2> QED
    BY <1>2, <2>1
<1>3. ASSUME NEW d \in Nat, TooEarly(m, d, t),
             NextDay(m.rule, d) \in Nat, NextDay(m.rule, d) > d, NextDay(m.rule, d) \in S
      PROVE  d \in S
  <2>1. SUFFICES ASSUME OnPath(m, d), Near(m, t, d)
                 PROVE  \E s : LandsOn(f, m, t, d, s)
    OBVIOUS
  <2>2. PICK n \in Nat : n = NextDay(m.rule, d) /\ d < n /\ n \in S
    BY <1>3
  <2>3. IsNextOnPath(m, d, n) /\ Near(m, t, n)
    BY <1>3, <2>1, <2>2, NearStep
  <2>4. PICK s : LandsOn(f, m, t, n, s)
    BY <2>2, <2>3 DEF IsNextOnPath
  <2>5. f[d] = f[n]
    <3>1. ~ (NextDay(m.rule, d) <= d)
      BY <2>2
    <3> QED
      BY <1>3, <2>2, <3>1 DEF Solves, Follows
  <2>6. s \in Nat /\ f[d] = StartOn(m, s) /\ d <= s
    BY <2>2, <2>4, <2>5 DEF LandsOn
  <2>7. ASSUME NEW e \in Nat, d <= e, InCalendar(e), OnPath(m, e), ~ TooEarly(m, e, t)
        PROVE  s <= e
    <3>1. d < e
      BY <1>3, <2>7
    <3>2. n <= e
      BY <2>3, <2>7, <3>1 DEF IsNextOnPath
    <3> QED
      BY <2>4, <2>7, <3>2 DEF LandsOn
  <2>8. LandsOn(f, m, t, d, s)
    BY <2>4, <2>6, <2>7 DEF LandsOn
  <2> QED
    BY <2>8
<1> HIDE DEF S
<1>4. \A d \in Nat : d \in S
  BY <1>1, <1>2, <1>3, LoopInduction
<1> QED
  BY <1>4 DEF S

-----------------------------------------------------------------------------
(* Sessions are the days of the rule, up to its end date. *)

LEMMA EveryMonth ==
  ASSUME NEW first \in Nat, NEW d \in Nat, NEW n \in Nat \ {0}, first <= d, InCalendar(d)
  PROVE  OnMonths(first, d, n)
           <=> DayOfMonth(d) = DayOfMonth(first) /\ (Month(d) - Month(first)) % n = 0
<1>1. Month(first) <= Month(d) /\ Month(d) \in Nat /\ Month(first) \in Nat
  BY MonthsOrdered, MonthOf
<1>2. PICK a \in Nat : a = Month(d) - Month(first)
  BY <1>1
<1> QED
  BY <1>1, <1>2, MultipleMod DEF OnMonths

LEMMA SessionsOnPath ==
  ASSUME NEW m, Searched(m), Regular(m), NEW d \in Nat, InCalendar(d)
  PROVE  IsSession(m, d) <=>
           /\ OnPath(m, d)
           /\ ~ (m.rule.repeat = "WeekDay" /\ IsWeekend(d))
           /\ m.rule.endDate # None => StartOn(m, d) <= m.rule.endDate
<1>1. Placed(m) /\ Searchable(m.rule)
  BY DEF Searched
<1>2. PICK first \in Nat : first = First(m)
  BY <1>1, FirstStart
<1>3. m.rule.repeat \in {"Daily", "Weekly", "WeekDay", "Monthly", "Custom"}
      /\ (m.rule.repeat # "Custom" => m.rule.days = {})
  BY <1>1, SearchableShape
<1> DEFINE Here == IF m.rule.days # {} THEN d = first \/ Weekday(d) \in m.rule.days
                                       ELSE NeedMeeting(m, d, d)
<1>4. IsSession(m, d) <=>
        /\ first <= d /\ Here
        /\ m.rule.endDate # None => StartOn(m, d) <= m.rule.endDate
  <2>1. m.rule.repeat \notin {"", "None"} /\ m.rule.repeat # "None"
    BY <1>1 DEF Searchable
  <2>2. d >= first <=> first <= d
    OBVIOUS
  <2> QED
    BY <1>2, <2>1, <2>2, Zenon DEF IsSession
<1>5. ASSUME first <= d
      PROVE  Here <=> OnPath(m, d) /\ ~ (m.rule.repeat = "WeekDay" /\ IsWeekend(d))
  <2>1. CASE m.rule.repeat \in {"Daily", "WeekDay"}
    BY <1>2, <1>3, <1>5, <2>1 DEF OnPath, NeedMeeting
  <2>2. CASE m.rule.repeat = "Weekly"
    BY <1>2, <1>3, <1>5, <2>2 DEF OnPath, NeedMeeting
  <2>3. CASE m.rule.repeat = "Monthly"
    <3>1. (Month(d) - Month(first)) % 1 = 0
      BY <1>5, MonthsOrdered, MonthOf
    <3>2. OnMonths(first, d, 1) <=> DayOfMonth(d) = DayOfMonth(first)
      BY <1>5, <3>1, EveryMonth
    <3> QED
      BY <1>2, <1>3, <1>5, <2>3, <3>2 DEF OnPath, NeedMeeting
  <2>4. CASE m.rule.days # {}
    BY <1>2, <1>3, <1>5, <2>4 DEF OnPath
  <2>5. CASE m.rule.repeat = "Custom" /\ m.rule.days = {}
    <3>1. PICK n \in Nat \ {0} : n = m.rule.interval
      BY <2>5, RegularShape
    <3>2. PICK a \in Nat : a = d - first
      BY <1>5
    <3>3. Here <=> ProcessIntervalType(m.rule, first, d)
      BY <1>2, <2>5 DEF NeedMeeting
    <3>4. CASE m.rule.unit = "Day"
      <4>1. OnPath(m, d) <=> Multiple(a, n)
        BY <1>2, <1>5, <2>5, <3>1, <3>2, <3>4 DEF OnPath
      <4>2. ProcessIntervalType(m.rule, first, d) <=> a % n = 0
        BY <3>1, <3>2, <3>4 DEF ProcessIntervalType, DayCycle
      <4> QED
        BY <2>5, <3>3, <4>1, <4>2, MultipleMod
    <3>5. CASE m.rule.unit = "Week"
      <4>1. PICK w \in Nat \ {0} : w = 7 * n
        OBVIOUS
      <4>2. OnPath(m, d) <=> Multiple(a, w)
        BY <1>2, <1>5, <2>5, <3>1, <3>2, <3>5, <4>1 DEF OnPath
      <4>3. ProcessIntervalType(m.rule, first, d) <=> a % w = 0
        BY <3>1, <3>2, <3>5, <4>1 DEF ProcessIntervalType, WeekCycle
      <4> QED
        BY <2>5, <3>3, <4>2, <4>3, MultipleMod
    <3>6. CASE m.rule.unit = "Month"
      <4>1. OnPath(m, d) <=> OnMonths(first, d, n)
        BY <1>2, <1>5, <2>5, <3>1, <3>6 DEF OnPath
      <4>2. ProcessIntervalType(m.rule, first, d) <=>
              DayOfMonth(d) = DayOfMonth(first) /\ (Month(d) - Month(first)) % n = 0
        BY <3>1, <3>6 DEF ProcessIntervalType, MonthCycle
      <4> QED
        BY <1>5, <2>5, <3>3, <4>1, <4>2, EveryMonth
    <3> QED
      BY <2>5, <3>4, <3>5, <3>6, RegularShape
  <2> QED
    BY <1>3, <2>1, <2>2, <2>3, <2>4, <2>5
<1>6. OnPath(m, d) => first <= d
  BY <1>2 DEF OnPath
<1> QED
  BY <1>4, <1>5, <1>6

LEMMA FirstOnPath ==
  ASSUME NEW m, Searched(m), Regular(m), InCalendar(First(m))
  PROVE  OnPath(m, First(m))
<1>1. PICK first \in Nat : first = First(m)
  BY FirstStart DEF Searched
<1>2. /\ m.rule.repeat # "Custom" => m.rule.days = {}
      /\ m.rule.interval \in Nat
  BY RegularShape, SearchableShape DEF Searched
<1>3. Month(first) \in Nat
  BY <1>1, MonthOf
<1>4. ASSUME NEW n \in Nat, NEW a \in Nat PROVE Multiple(a - a, n)
  <2>1. 0 \in Nat /\ a - a = 0 * n
    OBVIOUS
  <2> QED
    BY <2>1 DEF Multiple
<1>5. ASSUME NEW n \in Nat PROVE OnMonths(first, first, n)
  BY <1>3, <1>4 DEF OnMonths
<1>6. 1 \in Nat /\ 7 * m.rule.interval \in Nat
  BY <1>2
<1>7. /\ Multiple(first - first, m.rule.interval)
      /\ Multiple(first - first, 7 * m.rule.interval)
  BY <1>2, <1>4, <1>6
<1>8. OnMonths(first, first, 1) /\ OnMonths(first, first, m.rule.interval)
  BY <1>2, <1>5, <1>6
<1> QED
  BY <1>1, <1>2, <1>7, <1>8 DEF OnPath

\* Today and the days after it that the calendar has.
LEMMA LaterIs ==
  ASSUME NEW m, Placed(m), NEW t \in Nat, NEW d
  PROVE  d \in Later(m, t)
           <=> d \in Nat /\ InCalendar(d) /\ IsSession(m, d) /\ StartOn(m, d) > t
<1>1. PICK here \in Nat : /\ here = t + Offset[m.zone] /\ DayIn(m.zone, t) = Day(here)
                          /\ Day(here) \in Nat /\ Offset[m.zone] \in Nat
  BY LocalTimes, DayAndSlot DEF Placed
<1>2. MonthStarts[Last] \in Nat /\ Slots \in Nat
  <2>1. Last \in 1..Last
    BY Calendar
  <2> QED
    BY <2>1, Calendar, TimeAssumption
<1>3. d \in DaysFrom(Day(here)) <=> d \in Nat /\ Day(here) <= d /\ InCalendar(d)
  BY <1>1, <1>2 DEF DaysFrom, InCalendar, Last
<1>4. ASSUME d \in Nat, StartOn(m, d) > t PROVE Day(here) <= d
  <2>1. PICK k \in 0..(Slots - 1) : k = Slot(Local(m.zone, m.scheduled))
    BY <1>4, StartIs
  <2>2. /\ StartOn(m, d) \in Int /\ StartOn(m, d) + Offset[m.zone] = d * Slots + k
        /\ d * Slots \in Nat
    BY <1>4, <2>1, StartIs
  <2>3. Slot(here) \in 0..(Slots - 1) /\ here = Day(here) * Slots + Slot(here)
    BY DayAndSlot
  <2>4. d < Day(here) => d * Slots + Slots <= Day(here) * Slots
    BY <1>1, <1>2, <1>4, DaysApart
  <2>5. Day(here) * Slots \in Nat
    BY <1>1, <1>2
  <2> QED
    BY <1>1, <1>2, <1>4, <2>1, <2>2, <2>3, <2>4, <2>5
<1> QED
  BY <1>1, <1>3, <1>4 DEF Later

\* The loop of nextMeetingTimestamp, once the first session has started, stops
\* at the first day of the rule that starts after t.
LEMMA SearchLands ==
  ASSUME NEW m, Timed(m), Known(m), Regular(m), NEW t \in 0..Horizon,
         ~ (t < m.scheduled)
  PROVE  \E s \in Nat :
           /\ Following(m, t) = StartOn(m, s) /\ StartOn(m, s) \in Nat /\ StartOn(m, s) > t
           /\ InCalendar(s) /\ OnPath(m, s)
           /\ ~ (m.rule.repeat = "WeekDay" /\ IsWeekend(s))
           /\ \A e \in Later(m, t) : s <= e
<1>1. /\ Searched(m) /\ Searchable(m.rule) /\ Placed(m) /\ Loads(m.zone)
      /\ m.scheduled \in Nat
  BY TimedKinds DEF Searched, Regular, Placed
<1>2. /\ t \in Nat /\ Farthest \in Nat /\ Offset[m.zone] \in Nat
      /\ t + Offset[m.zone] <= Farthest /\ DayIn(m.zone, t) \in Nat
  BY <1>1, WithinFarthest
<1>3. PICK first \in Nat : first = First(m)
  BY <1>1, FirstStart
<1>4. /\ StartOn(m, first) = m.scheduled
      /\ first * Slots <= StartOn(m, first) + Offset[m.zone] /\ first * Slots \in Nat
  BY <1>1, <1>3, FirstStart, StartsApart
<1>5. first * Slots <= t + Offset[m.zone] /\ first * Slots <= Farthest
  BY <1>1, <1>2, <1>4
<1>6. first <= DayIn(m.zone, t) /\ DayIn(m.zone, t) \in Nat
  <2>1. PICK here \in Nat : here = t + Offset[m.zone] /\ DayIn(m.zone, t) = Day(here)
    BY <1>1, <1>2, LocalTimes
  <2>2. first <= Day(here)
    BY <1>5, <2>1, StartedByDay
  <2> QED
    BY <1>2, <2>1, <2>2
<1>7. InCalendar(first)
  BY <1>1, <1>5, WeeksLeft
<1>8. OnPath(m, first)
  BY <1>1, <1>3, <1>7, FirstOnPath
<1>9. Near(m, t, first)
  BY <1>6, <1>7 DEF Near
<1>10. PICK f : Solves(f, m, t) /\ LoopResult(m, t) = f[first]
  BY <1>1, <1>3, LoopSolves
<1>11. PICK s : LandsOn(f, m, t, first, s)
  BY <1>1, <1>8, <1>9, <1>10, LoopLands
<1>12. Following(m, t) = StartOn(m, s)
  BY <1>3, <1>10, <1>11, TimedKinds, FollowingIs DEF LandsOn
<1>13. s \in Nat /\ InCalendar(s) /\ OnPath(m, s) /\ ~ TooEarly(m, s, t)
  BY <1>11 DEF LandsOn
<1>14. StartOn(m, s) \in Int
  BY <1>1, <1>13, StartsApart
<1>15. /\ StartOn(m, s) > t /\ StartOn(m, s) \in Nat
       /\ ~ (m.rule.repeat = "WeekDay" /\ IsWeekend(s))
  BY <1>1, <1>2, <1>13, <1>14, TooEarlyBy
<1>16. ASSUME NEW e \in Later(m, t) PROVE s <= e
  <2>1. e \in Nat /\ InCalendar(e) /\ IsSession(m, e) /\ StartOn(m, e) > t
    BY <1>1, <1>2, LaterIs
  <2>2. OnPath(m, e) /\ ~ (m.rule.repeat = "WeekDay" /\ IsWeekend(e))
    BY <1>1, <2>1, SessionsOnPath
  <2>3. StartOn(m, e) \in Int
    BY <1>1, <2>1, StartsApart
  <2>4. ~ TooEarly(m, e, t)
    BY <1>1, <1>2, <2>1, <2>2, <2>3, TooEarlyBy
  <2>5. first <= e
    BY <1>3, <2>2 DEF OnPath
  <2> QED
    BY <1>11, <2>1, <2>2, <2>4, <2>5 DEF LandsOn
<1> QED
  BY <1>12, <1>13, <1>14, <1>15, <1>16

\* The two readings of a rule agree.
LEMMA SearchIsLeast ==
  ASSUME NEW m, Timed(m), Known(m), Regular(m), NEW t \in 0..Horizon,
         ~ (t < m.scheduled)
  PROVE  NextMeetingTimestamp(m, t) =
           IF Later(m, t) = {} THEN None ELSE StartOn(m, Min(Later(m, t)))
<1>1. /\ Searched(m) /\ Placed(m) /\ Loads(m.zone)
      /\ m.scheduled \in Nat /\ m.rule.endDate \in Nat /\ m.rule.repeat # "None"
  BY TimedKinds DEF Searched, Regular
<1>2. t \in Nat
  BY TimeAssumption
<1>3. PICK s \in Nat :
        /\ Following(m, t) = StartOn(m, s) /\ StartOn(m, s) \in Nat /\ StartOn(m, s) > t
        /\ InCalendar(s) /\ OnPath(m, s)
        /\ ~ (m.rule.repeat = "WeekDay" /\ IsWeekend(s))
        /\ \A e \in Later(m, t) : s <= e
  BY SearchLands
<1>4. NextMeetingTimestamp(m, t) = IF Ended(m, t) THEN None ELSE Following(m, t)
  BY <1>1, NextIs
<1>5. CASE Ended(m, t)
  <2>1. ASSUME NEW e \in Later(m, t) PROVE FALSE
    <3>1. e \in Nat /\ InCalendar(e) /\ IsSession(m, e) /\ StartOn(m, e) > t /\ s <= e
      BY <1>1, <1>2, <1>3, LaterIs
    <3>2. StartOn(m, e) <= m.rule.endDate
      <4>1. m.rule.endDate # None => StartOn(m, e) <= m.rule.endDate
        BY <1>1, <3>1, SessionsOnPath
      <4> QED
        BY <1>5, <4>1 DEF Ended
    <3>3. StartOn(m, s) <= StartOn(m, e) /\ StartOn(m, e) \in Int
      BY <1>1, <1>3, <3>1, StartsApart
    <3>4. t >= m.rule.endDate \/ StartOn(m, s) > m.rule.endDate
      BY <1>3, <1>5 DEF Ended
    <3>5. m.rule.endDate # None
      BY <1>5 DEF Ended
    <3> QED
      BY <1>1, <1>2, <1>3, <3>1, <3>2, <3>3, <3>4, <3>5
  <2> QED
    BY <1>4, <1>5, <2>1
<1>6. CASE ~ Ended(m, t)
  <2>1. m.rule.endDate # None => StartOn(m, s) <= m.rule.endDate
    BY <1>1, <1>3, <1>6 DEF Ended
  <2>2. s \in Later(m, t)
    BY <1>1, <1>2, <1>3, <2>1, SessionsOnPath, LaterIs
  <2>3. Later(m, t) \in SUBSET Nat
    BY <1>1, <1>2, LaterIs
  <2>4. Min(Later(m, t)) \in Later(m, t) /\ Min(Later(m, t)) <= s
    BY <2>2, <2>3, LeastOf
  <2>5. Min(Later(m, t)) = s
    BY <1>3, <2>3, <2>4
  <2> QED
    BY <1>3, <1>4, <1>6, <2>2, <2>5
<1> QED
  BY <1>5, <1>6

\* A meeting whose search finds nothing has no session to come.
LEMMA GoneIsOver ==
  ASSUME NEW m, Timed(m), Regular(m), NEW t \in 0..Horizon, Gone(m, t)
  PROVE  Later(m, t) = {}
<1>1. /\ Placed(m) /\ Loads(m.zone) /\ m.rule.repeat # "Other"
      /\ m.scheduled \in Nat /\ m.rule.endDate \in Nat
  BY TimedKinds, Zenon DEF Regular, Timed, Placed
<1>2. t \in Nat
  BY TimeAssumption
<1>3. ASSUME NEW e \in Later(m, t) PROVE FALSE
  <2>1. e \in Nat /\ InCalendar(e) /\ IsSession(m, e) /\ StartOn(m, e) > t
    BY <1>1, <1>2, LaterIs
  <2>2. PICK first \in Nat : first = First(m) /\ StartOn(m, first) = m.scheduled
    BY <1>1, FirstStart
  <2>3. m.rule.repeat = "" \/ m.rule.repeat = "None" => e = first
    BY <2>1, <2>2, Zenon DEF IsSession
  <2>4. m.rule.repeat # "None" /\ m.rule.repeat # "" => m.rule.repeat \notin {"", "None"}
    OBVIOUS
  <2>5. m.rule.repeat # "None" /\ m.rule.endDate # None => StartOn(m, e) <= m.rule.endDate
    BY <2>1, Zenon DEF IsSession
  <2>6. CASE m.rule.repeat = "None"
    <3>1. t < m.scheduled
      BY <2>1, <2>2, <2>3, <2>6
    <3>2. NextMeetingTimestamp(m, t) = m.scheduled
      BY <1>1, <2>6, <3>1, NextIs
    <3> QED
      BY <1>1, <1>2, <3>1, <3>2 DEF Gone
  <2>7. CASE NoWord(m)
    <3>1. m.rule.repeat # "None" /\ m.rule.repeat = ""
      BY <1>1, <2>7, TimedKinds DEF NoWord
    <3>2. t < m.scheduled /\ (m.rule.endDate # None => m.scheduled <= m.rule.endDate)
      BY <2>1, <2>2, <2>3, <2>5, <3>1
    <3>3. Following(m, t) = m.scheduled
      BY <3>2, FollowingIs
    <3>4. ~ Ended(m, t)
      BY <1>1, <1>2, <3>2, <3>3 DEF Ended
    <3>5. NextMeetingTimestamp(m, t) = m.scheduled
      BY <1>1, <3>1, <3>3, <3>4, NextIs
    <3> QED
      BY <1>1, <1>2, <3>2, <3>5 DEF Gone
  <2>8. CASE Known(m) /\ ~ (t < m.scheduled)
    <3>1. NextMeetingTimestamp(m, t) = StartOn(m, Min(Later(m, t)))
      BY <2>8, SearchIsLeast
    <3>2. Later(m, t) \in SUBSET Nat
      BY <1>1, <1>2, LaterIs
    <3>3. Min(Later(m, t)) \in Later(m, t)
      BY <3>2, LeastOf
    <3>4. StartOn(m, Min(Later(m, t))) > t /\ StartOn(m, Min(Later(m, t))) \in Int
      BY <1>1, <1>2, <3>2, <3>3, LaterIs, StartsApart
    <3> QED
      BY <1>2, <3>1, <3>4 DEF Gone
  <2>9. CASE Known(m) /\ t < m.scheduled
    <3>1. Searched(m) /\ m.rule.repeat # "None" /\ Following(m, t) = m.scheduled
      BY <1>1, <2>9, TimedKinds, FollowingIs
    <3>2. OnPath(m, e) /\ (m.rule.endDate # None => StartOn(m, e) <= m.rule.endDate)
      BY <2>1, <3>1, SessionsOnPath
    <3>3. first <= e
      BY <2>2, <3>2 DEF OnPath
    <3>4. m.scheduled <= StartOn(m, e) /\ StartOn(m, e) \in Int
      BY <1>1, <2>1, <2>2, <3>3, StartsApart
    <3>5. ~ Ended(m, t)
      BY <1>1, <1>2, <2>1, <3>1, <3>2, <3>4 DEF Ended
    <3>6. NextMeetingTimestamp(m, t) = m.scheduled
      BY <1>1, <3>1, <3>5, NextIs
    <3> QED
      BY <1>1, <1>2, <2>9, <3>6 DEF Gone
  <2> QED
    BY <2>6, <2>7, <2>8, <2>9, TimedKinds
<1> QED
  BY <1>3

-----------------------------------------------------------------------------
(* The two halves of the code agree on the sessions. *)

\* Once the first session has started, what nextMeetingTimestamp finds by
\* stepping is the first of the days to come that the rule is read to name, and
\* nothing only if there is none: for every regular rule, calendar and time.
THEOREM SearchFindsNext == Spec => []NextIsLeast
<1>1. Inv => NextIsLeast
  <2> SUFFICES ASSUME Inv, Repeating, Regular(doc), now >= doc.scheduled
               PROVE  NextMeetingTimestamp(doc, now) =
                        IF Later(doc, now) = {} THEN None
                        ELSE StartOn(doc, Min(Later(doc, now)))
    BY DEF NextIsLeast
  <2>1. Timed(doc) /\ now \in 0..Horizon /\ now \in Nat
    BY TypedTimes DEF Inv
  <2>2. Known(doc)
    BY Zenon DEF Repeating, Regular, Known
  <2>3. ~ (now < doc.scheduled)
    BY <2>1 DEF Timed
  <2> QED
    BY <2>1, <2>2, <2>3, SearchIsLeast
<1> QED
  BY <1>1, AlwaysInv, PTL

\* No session is lost: neither the refresh nor EndMeeting completes a meeting with
\* a session to come, and no session comes up for one that is completed.
THEOREM NoSessionLost == Spec => []CompletedHasNoSession
<1>1. Inv => CompletedHasNoSession
  <2> SUFFICES ASSUME Inv, status = "Completed", Regular(doc), ~ Moved
               PROVE  Later(doc, now) = {}
    BY DEF CompletedHasNoSession
  <2>1. Timed(doc) /\ now \in 0..Horizon
    BY TypedTimes DEF Inv
  <2>2. Gone(doc, now)
    BY DEF Inv, CompletedGone
  <2> QED
    BY <2>1, <2>2, GoneIsOver
<1> QED
  BY <1>1, AlwaysInv, PTL

\* Looking at the list of meetings closes no room of a session that is running,
\* unless the meeting was moved, ended by its rule or has no zone; and where the
\* refresh does not see the session, the room it closes is that of the last one.
THEOREM RefreshSparesSessions == Spec => RefreshLeavesSessions
<1>1. Inv /\ [Next]_vars
      => [room /\ ~ room' /\ Loads(doc.zone) /\ Running(doc, now) # {} /\ GetMeetings
          => \/ Moved
             \/ doc.rule.endDate # None /\ doc.rule.endDate < now
             \/ ~ SeesSession(doc, now) /\ (Regular(doc) => Later(doc, now) = {})]_vars
  <2> SUFFICES ASSUME Inv, room, ~ room', GetMeetings, ~ Moved, Loads(doc.zone),
                      NEW d \in Running(doc, now),
                      ~ (doc.rule.endDate # None /\ doc.rule.endDate < now)
               PROVE  ~ SeesSession(doc, now) /\ (Regular(doc) => Later(doc, now) = {})
    OBVIOUS
  <2>1. /\ Timed(doc) /\ doc.start \in Nat /\ now \in 0..Horizon /\ now \in Nat
        /\ Repeats(doc) \/ doc.start = doc.scheduled
    BY TypedTimes DEF Inv
  <2>2. Refreshed(doc, now) = "Completed"
    BY DEF GetMeetings
  <2>3. ASSUME ~ Repeats(doc) PROVE FALSE
    <3>1. doc.start + Duration < now /\ doc.start = doc.scheduled
      BY <2>1, <2>2, <2>3, RefreshCompletes
    <3>2. IsSession(doc, d) /\ now <= StartOn(doc, d) + Duration
      BY DEF Running
    <3>3. d = First(doc)
      BY <2>3, <3>2, Zenon DEF IsSession, Repeats
    <3>4. StartOn(doc, d) = doc.scheduled
      BY <2>1, <3>3, FirstStart DEF Timed, Placed
    <3>5. Duration \in Nat
      BY TimeAssumption
    <3> QED
      BY <2>1, <3>1, <3>2, <3>4, <3>5
  <2>4. ~ IsTodayNeedMeeting(doc, now) /\ NextMeetingTimestamp(doc, now) = None
    BY <2>2, <2>3, RefreshCompletes
  <2>5. ASSUME SeesSession(doc, now) PROVE FALSE
    <3>1. PICK today, at : today = DayIn(doc.zone, now) /\ at = DayIn(ServerZone, now)
      OBVIOUS
    <3>2. /\ IsSession(doc, today) /\ doc.rule.days = {}
          /\ doc.rule.repeat = "WeekDay" => ~ IsWeekend(at)
      BY <2>5, <3>1, Zenon DEF SeesSession, Running
    <3>3. NeedMeeting(doc, today, today)
      BY <2>3, <3>2, Zenon DEF IsSession, Repeats
    <3>4. NeedMeeting(doc, today, at)
      <4>1. CASE doc.rule.repeat = "WeekDay"
        BY <3>2, <4>1 DEF NeedMeeting
      <4>2. CASE doc.rule.repeat # "WeekDay"
        BY <3>2, <3>3, <4>2 DEF NeedMeeting
      <4> QED
        BY <4>1, <4>2
    <3> QED
      BY <2>4, <3>1, <3>4 DEF IsTodayNeedMeeting
  <2>6. Gone(doc, now)
    BY <2>4, GoneIs
  <2>7. Regular(doc) => Later(doc, now) = {}
    BY <2>1, <2>6, GoneIsOver
  <2> QED
    BY <2>5, <2>7
<1> QED
  BY <1>1, AlwaysInv, PTL DEF Spec, RefreshLeavesSessions
=============================================================================
