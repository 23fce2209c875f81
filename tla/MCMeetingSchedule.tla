-------------------------- MODULE MCMeetingSchedule --------------------------
(* Short months, so that weeks, weekends and months of unequal length all *)
(* meet within five weeks.                                                *)
EXTENDS MeetingSchedule

Simple(type, end) ==
  [repeat |-> type, endDate |-> end, unit |-> "", interval |-> 0, days |-> {}]
Custom(unit, n, days, end) ==
  [repeat |-> "Custom", endDate |-> end, unit |-> unit, interval |-> n, days |-> days]

Months == <<0, 10, 18, 27, 38, 46, 56, 65, 75>>

\* Saturday, day 6; and day 8, a Monday, which the next month does not have, so
\* late that the session ends on the day after.
Booking == {12, 17}

Asked ==
       {Simple(type, None) : type \in {"None", "Daily", "Weekly", "WeekDay", "Monthly"}}
  \cup {Simple("Daily", 31), Simple("WeekDay", 31), Custom("Day", 3, {}, None),
        Custom("Week", 2, {}, None), Custom("Month", 2, {}, 53), Custom("Day", 1, {1, 4}, 31)}
  \* What no client should ask for: no step, no weekday, steps back, unknown words,
  \* fields that are not for the rule.
  \cup {Custom("Day", 0, {}, 31), Custom("Day", 1, {8}, None), Custom("Day", -1, {4}, 53),
        Simple("Other", 53), Simple("", 31),
        [Simple("Daily", None) EXCEPT !.unit = "Week", !.interval = 2]}

\* The server is at "", one tick ahead of "West": in the last tick of a day there
\* it has the next day already.  "Mars" does not load.
Named == {"West", "Mars"}
Offsets == [zone \in {"", "West"} |-> IF zone = "" THEN 1 ELSE 0]
=============================================================================
