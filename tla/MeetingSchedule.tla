--------------------------- MODULE MeetingSchedule ---------------------------
(***************************************************************************)
(* The time of one meeting: when its sessions are, when GetMeetings takes  *)
(* it for over, and what EndMeeting leaves behind.  The clock counts       *)
(* Slots ticks a day.  A reading of the clock is a moment after the tick   *)
(* it names, as time.Now has a fraction of a second; times that are stored *)
(* are whole ticks.  A time is a moment, the same in every time zone; a    *)
(* day is a day of some zone.  One call at a time: who may call, and what  *)
(* happens between the steps of a call, is in MeetingServer.               *)
(***************************************************************************)
EXTENDS Integers, Sequences, FiniteSets, FiniteSetsExt

CONSTANTS
  Slots,         \* clock ticks in a day
  MonthStarts,   \* the first day of each month of the calendar
  Horizon,       \* bound: the last tick of the clock
  Times,         \* the times a client may schedule a meeting for
  Rules,         \* the repeat rules a client may ask for
  Zones,         \* the names of time zones a client may send
  Offset,        \* how far each zone that loads is ahead of the last one
  ServerZone,    \* the zone the server runs in
  Duration       \* the length of a session, in ticks

VARIABLES
  now,     \* the clock
  doc,     \* the meeting document, as far as time goes
  status,
  room     \* whether LiveKit has a room for the meeting

vars == <<now, doc, status, room>>

-----------------------------------------------------------------------------
(* The calendar.  Day 0 is a Sunday and the first of month 1. *)

Day(t) == t \div Slots
Slot(t) == t % Slots
Weekday(d) == d % 7
IsWeekend(d) == Weekday(d) \in {0, 6}

Month(d) ==
  CHOOSE i \in DOMAIN MonthStarts : MonthStarts[i] <= d /\ d < MonthStarts[i + 1]
DayOfMonth(d) == d - MonthStarts[Month(d)]

\* Months before the calendar: all that matters is that they are earlier.
StartOfMonth(i) == IF i > 0 THEN MonthStarts[i] ELSE 31 * (i - 1)

\* time.AddDate: a day the month does not have runs over into the next month.
AddMonths(d, k) == StartOfMonth(Month(d) + k) + DayOfMonth(d)

\* time.LoadLocation: a name that is no zone does not load.  "" is UTC.
Loads(zone) == zone \in DOMAIN Offset

\* time.Time.In: the clock on the wall.  (No zone changes its clocks.)
Local(zone, t) == t + Offset[zone]
DayIn(zone, t) == Day(Local(zone, t))

-----------------------------------------------------------------------------
(* Data. *)

Statuses == {"Scheduled", "In-Progress", "Completed", "Cancelled"}

\* Stored as it is sent: "Other" and the unit "" stand for all words the server
\* does not know, an interval may be negative, and a day need be no day of the week.
Rule == [repeat : {"", "None", "Daily", "Weekly", "WeekDay", "Monthly", "Custom", "Other"},
         endDate : Nat, unit : {"", "Day", "Week", "Month"},
         interval : Int, days : SUBSET Int]

None == 0       \* no end date (nor is a negative one), no next session
ZeroTime == -1  \* Go's time.Time{}: as a number, far below 0
Never == -2     \* the search for the next session does not stop

NoRule == [repeat |-> "", endDate |-> None, unit |-> "", interval |-> 0, days |-> {}]

\* A month has a week or more.
ASSUME TimeAssumption ==
  /\ {Slots, Horizon, Duration} \subseteq Nat \ {0}
  /\ MonthStarts \in Seq(Nat) /\ MonthStarts # <<>> /\ MonthStarts[1] = 0
  /\ \A i, j \in DOMAIN MonthStarts :
       i < j => MonthStarts[i] + 7 * (j - i) <= MonthStarts[j]
  /\ Times \subseteq 1..Horizon

\* The server's zone loads, and no two zones are more than two days apart.
ASSUME ZoneAssumption ==
  /\ {"", ServerZone} \subseteq DOMAIN Offset
  /\ Offset \in [DOMAIN Offset -> 0..(2 * Slots)]

ASSUME RuleAssumption == Rules \subseteq Rule

\* Bound: the calendar ends after the clock of every zone, and no rule steps over
\* the months in between (time.Time has no last month).
ASSUME CalendarAssumption ==
  \A rule \in Rules \cup {NoRule} : \E last \in DOMAIN MonthStarts :
    /\ Horizon + 2 * Slots < MonthStarts[last] * Slots
    /\ \A k \in {0, rule.interval} : last + k < Len(MonthStarts)

\* Mutant: a change of the rule leaves the fields of the old rule behind.
RepeatInfoAsSent(rule) == rule

\* What a rule carries for "Custom" only is dropped from all other rules.
RepeatInfo(rule) ==
  IF rule.repeat = "Custom"
  THEN rule
  ELSE [rule EXCEPT !.unit = "", !.interval = 0, !.days = {}]

\* generateMeetingDBData4Booking: the booked time is taken for the start.
Booked(time, zone, rule) ==
  [scheduled |-> time, start |-> time, zone |-> zone, rule |-> RepeatInfo(rule)]

\* generateMeetingDBData4Create: it starts now, whatever time the client sent, and
\* has no zone, whichever it sent.
Created(time) == [scheduled |-> time, start |-> now, zone |-> "", rule |-> NoRule]

Repeating == doc.rule.repeat \notin {"", "None"}
Live == status \in {"Scheduled", "In-Progress"}

-----------------------------------------------------------------------------
(* IsTodayNeedMeeting: is there a session today? *)

\* The day of the first session.
First(m) == DayIn(m.zone, m.scheduled)

\* The cycles of timeutil: whole days, weeks or months since the first session.
\* Without a number of them there are none.
DayCycle(first, d, n)   == n > 0 /\ (d - first) % n = 0
WeekCycle(first, d, n)  == n > 0 /\ (d - first) % (7 * n) = 0
MonthCycle(first, d, n) == n > 0 /\ (Month(d) - Month(first)) % n = 0

ProcessIntervalType(rule, first, d) ==
  CASE rule.unit = "Month" ->
         /\ MonthCycle(first, d, rule.interval)
         /\ DayOfMonth(d) = DayOfMonth(first)
    [] rule.unit = "Week"  -> WeekCycle(first, d, rule.interval)
    [] rule.unit = "Day"   -> DayCycle(first, d, rule.interval)
    [] OTHER               -> FALSE

\* A session on day d of the meeting, which is day at of the server: weekends are
\* the server's, and so is the day of the month that the days of a custom rule,
\* which are weekdays, are compared with.
NeedMeeting(m, d, at) ==
  CASE m.rule.repeat = "Daily"   -> TRUE
    [] m.rule.repeat = "Weekly"  -> Weekday(d) = Weekday(First(m))
    [] m.rule.repeat = "Monthly" -> DayOfMonth(d) = DayOfMonth(First(m))
    [] m.rule.repeat = "WeekDay" -> ~ IsWeekend(at)
    [] m.rule.repeat = "Custom"  ->
         IF m.rule.days # {}
         THEN DayOfMonth(at) + 1 \in m.rule.days
         ELSE ProcessIntervalType(m.rule, First(m), d)
    [] OTHER                     -> FALSE

\* None without a zone.
IsTodayNeedMeeting(m, t) ==
  /\ Loads(m.zone)
  /\ NeedMeeting(m, DayIn(m.zone, t), DayIn(ServerZone, t))

-----------------------------------------------------------------------------
(* nextMeetingTimestamp *)

\* Mutant: months are forgotten.
AddUnitsNoMonths(rule, d) ==
  CASE rule.unit = "Day"   -> d + rule.interval
    [] rule.unit = "Week"  -> d + rule.interval * 7
    [] OTHER               -> d

AddUnits(rule, d) ==
  CASE rule.unit = "Day"   -> d + rule.interval
    [] rule.unit = "Week"  -> d + rule.interval * 7
    [] rule.unit = "Month" -> AddMonths(d, rule.interval)
    [] OTHER               -> d

\* On to the first day the rule allows; any day if it names none.  If it names no
\* day of the week there is no such day.
ValidDay(rule, d) ==
  IF rule.days = {} THEN d
  ELSE IF rule.days \cap (0..6) = {} THEN Never
  ELSE Min({e \in d..(d + 6) : Weekday(e) \in rule.days})

\* One turn of the loop.
NextDay(rule, d) ==
  CASE rule.repeat \in {"Daily", "WeekDay"} -> d + 1
    [] rule.repeat = "Weekly"  -> d + 7
    [] rule.repeat = "Monthly" -> AddMonths(d, 1)
    [] rule.repeat = "Custom"  -> ValidDay(rule, AddUnits(rule, d))

\* Day d of the meeting's zone, at the same time of the day.
StartOn(m, d) == d * Slots + Slot(Local(m.zone, m.scheduled)) - Offset[m.zone]

\* Mutant: on weekends too.
TooEarlyAnyDay(m, d, t) == t >= StartOn(m, d)

\* The condition the loop goes on under.
TooEarly(m, d, t) ==
  \/ t >= StartOn(m, d)
  \/ m.rule.repeat = "WeekDay" /\ IsWeekend(d)

\* The day the loop stops at.  From a day whose next is not later it never gets
\* on: days, weeks and valid days keep the order of days, and a step of months back
\* is longer than the one on to a valid day.
LoopResult(m, t) ==
  LET from[d \in Nat] ==
        IF ~ TooEarly(m, d, t) THEN StartOn(m, d)
        ELSE IF NextDay(m.rule, d) <= d THEN Never
        ELSE from[NextDay(m.rule, d)]
  IN  from[First(m)]

Following(m, t) ==
  IF t < m.scheduled THEN m.scheduled
  ELSE IF m.rule.repeat \in {"", "Other"} THEN ZeroTime
  ELSE LoopResult(m, t)

\* Mutant: the end date is not looked at.
NextMeetingNoEnd(m, t) ==
  IF ~ Loads(m.zone) THEN None
  ELSE IF m.rule.repeat = "None"
  THEN IF t < m.scheduled THEN m.scheduled ELSE None
  ELSE Following(m, t)

NextMeetingTimestamp(m, t) ==
  IF ~ Loads(m.zone) THEN None
  ELSE IF m.rule.repeat = "None"
  THEN IF t < m.scheduled THEN m.scheduled ELSE None
  ELSE IF m.rule.endDate # None
          /\ (t >= m.rule.endDate \/ Following(m, t) > m.rule.endDate)
       THEN None
       ELSE Following(m, t)

-----------------------------------------------------------------------------
(* refreshMeetingStatus, for this meeting.  "" is no change. *)

\* Mutant: the length of the session is forgotten.
RefreshAtStart(m, t) == IF Loads(m.zone) /\ m.start < t THEN "Completed" ELSE ""

\* Without a zone the meeting is left as it is.
RefreshNonRepeatMeeting(m, t) ==
  IF Loads(m.zone) /\ m.start + Duration < t THEN "Completed" ELSE ""

\* Mutant: a session that is over ends the meeting.
RefreshRepeatOnce(m, t) ==
  IF \/ m.rule.endDate # None /\ m.rule.endDate < t
     \/ m.scheduled + Duration < t
  THEN "Completed" ELSE ""

\* What the refresh asks while the rule goes on.  (By itself also a mutant: the
\* end date is left to the search for the next session.)
RefreshRepeatNoEnd(m, t) ==
  IF ~ IsTodayNeedMeeting(m, t)
  THEN IF NextMeetingTimestamp(m, t) = None THEN "Completed" ELSE "Scheduled"
  ELSE IF m.scheduled + Duration < t THEN "Scheduled" ELSE ""

RefreshRepeatMeeting(m, t) ==
  IF m.rule.endDate # None /\ m.rule.endDate < t THEN "Completed"
  ELSE RefreshRepeatNoEnd(m, t)

RefreshSearches(m, t) ==
  /\ m.rule.repeat \notin {"", "None"}
  /\ m.rule.endDate = None \/ m.rule.endDate >= t
  /\ ~ IsTodayNeedMeeting(m, t)

Refreshed(m, t) ==
  IF m.rule.repeat \in {"", "None"}
  THEN RefreshNonRepeatMeeting(m, t)
  ELSE RefreshRepeatMeeting(m, t)

Hangs(m, t) == NextMeetingTimestamp(m, t) = Never

-----------------------------------------------------------------------------
(* Actions. *)

Init ==
  /\ now = 1
  /\ \/ /\ \E time \in Times, zone \in Zones, rule \in Rules :
             doc = Booked(time, zone, rule)
        /\ status = "Scheduled"
        /\ room = FALSE
     \/ /\ \E time \in Times : doc = Created(time)
        /\ status = "In-Progress"
        /\ room = TRUE

Tick ==
  /\ now < Horizon
  /\ now' = now + 1
  /\ UNCHANGED <<doc, status, room>>

\* refreshMeetingStatus asks for live meetings only.  A call whose search does not
\* end does nothing more.
GetMeetings ==
  /\ Live
  /\ IF RefreshSearches(doc, now) /\ Hangs(doc, now)
     THEN UNCHANGED <<status, room>>
     ELSE /\ status' = IF Refreshed(doc, now) = "" THEN status ELSE Refreshed(doc, now)
          /\ room' = (room /\ Refreshed(doc, now) # "Completed")
  /\ UNCHANGED <<now, doc>>

\* checkCanStartMeeting: only a meeting without any word on repetition is late.
CanStart == doc.rule.repeat = "" => doc.scheduled + Duration >= now

JoinMeeting ==
  /\ status # "Cancelled"
  /\ ~ room
  /\ CanStart
  /\ room' = TRUE
  /\ UNCHANGED <<now, doc, status>>

\* LiveKit drops a room that has been empty for a while.
RoomEmpties ==
  /\ room
  /\ room' = FALSE
  /\ UNCHANGED <<now, doc, status>>

EndMeeting ==
  /\ status # "Cancelled"
  /\ IF Hangs(doc, now)
     THEN UNCHANGED <<status, room>>
     ELSE /\ \/ status' = IF NextMeetingTimestamp(doc, now) > 0
                          THEN "Scheduled" ELSE "Completed"
             \/ status' = "Cancelled"
             \/ UNCHANGED status     \* an unknown way to end
          /\ room' = FALSE
  /\ UNCHANGED <<now, doc>>

\* A new time, zone or rule, or several.  The time it was to start at is kept.
UpdateMeeting ==
  /\ Live
  /\ \E time \in Times \cup {doc.scheduled}, zone \in Zones \cup {doc.zone},
        rule \in Rules \cup {doc.rule} :
       doc' = [doc EXCEPT !.scheduled = time, !.zone = zone, !.rule = RepeatInfo(rule)]
  /\ UNCHANGED <<now, status, room>>

Next ==
  \/ Tick
  \/ GetMeetings
  \/ JoinMeeting
  \/ RoomEmpties
  \/ EndMeeting
  \/ UpdateMeeting

\* Time passes, and somebody looks at the list of meetings again and again.
Fairness == WF_vars(Tick) /\ WF_vars(GetMeetings)

Spec == Init /\ [][Next]_vars /\ Fairness

-----------------------------------------------------------------------------
(* Properties. *)

\* Of a rule that is not "Custom" no unit, interval or days are kept, neither
\* from the request nor from the rule it replaces (updateRepeatInfo).
CustomFieldsOnly ==
  doc.rule.repeat # "Custom" =>
    doc.rule.unit = "" /\ doc.rule.interval = 0 /\ doc.rule.days = {}

TypeOK ==
  /\ now \in 1..Horizon
  /\ doc \in [scheduled : Nat, start : Nat, zone : Zones \cup {""}, rule : Rule]
  /\ status \in Statuses
  /\ room \in BOOLEAN
  /\ CustomFieldsOnly

\* The meetings with one reading: a zone that loads, a kind of rule the server
\* knows, weekdays only where days are counted one by one, a unit to count in, and
\* a day of the month that every month has.
Regular(m) ==
  /\ Loads(m.zone)
  /\ m.rule.repeat # "Other"
  /\ m.rule.days # {} =>
       m.rule.unit = "Day" /\ m.rule.interval = 1 /\ m.rule.days \subseteq 0..6
  /\ m.rule.repeat = "Custom" => m.rule.interval > 0 /\ m.rule.unit # ""
  /\ m.rule.repeat = "Monthly" \/ m.rule.unit = "Month" =>
       \A i \in 1..(Len(MonthStarts) - 1) :
         MonthStarts[i] + DayOfMonth(First(m)) < MonthStarts[i + 1]

\* All the days the calendar has left.
DaysFrom(d) == d..(MonthStarts[Len(MonthStarts)] - 1)

\* The sessions of a meeting: the day it is scheduled for, and later days of the
\* week it names or, if it names none, the days of its zone that
\* IsTodayNeedMeeting says yes to on a server in that zone.
IsSession(m, d) ==
  /\ d >= First(m)
  /\ m.rule.repeat \in {"", "None"} => d = First(m)
  /\ m.rule.repeat \notin {"", "None"} =>
       IF m.rule.days # {} THEN d = First(m) \/ Weekday(d) \in m.rule.days
                           ELSE NeedMeeting(m, d, d)
  /\ m.rule.endDate # None /\ m.rule.repeat # "None" =>
       StartOn(m, d) <= m.rule.endDate

Later(m, t) ==
  {d \in DaysFrom(DayIn(m.zone, t)) : IsSession(m, d) /\ StartOn(m, d) > t}

\* Once the first session has started, the next session nextMeetingTimestamp finds
\* by stepping is on the first of the later days the rule names, and there is none
\* only if there is no such day.  (Whether IsTodayNeedMeeting, asked on that day,
\* says so too depends on where the server is and, for a list of days, on luck.)
NextIsLeast ==
  Repeating /\ Regular(doc) /\ now >= doc.scheduled =>
    LET later == Later(doc, now)
    IN  NextMeetingTimestamp(doc, now) =
          IF later = {} THEN None ELSE StartOn(doc, Min(later))

\* A meeting that does not repeat and was moved after it was booked: its start,
\* which the refresh goes by, is no longer its scheduled time.
Moved == ~ Repeating /\ doc.start # doc.scheduled

\* No session is lost: neither GetMeetings nor EndMeeting completes a regular
\* meeting that has a session to come, not even where IsTodayNeedMeeting takes a
\* day of the week for one of the month, or the server's weekend for that of the
\* meeting.  (A moved meeting is completed by its old time, and one whose zone does
\* not load, which is not regular, with all its sessions to come.)
CompletedHasNoSession ==
  status = "Completed" /\ Regular(doc) /\ ~ Moved => Later(doc, now) = {}

\* A completed meeting does not go back to wait for a session, whatever is
\* called on it and however late.  (A moved one can: see Moved.)
CompletedStays ==
  [][status = "Completed" /\ ~ Moved => status' \in {"Completed", "Cancelled"}]_vars

\* No step of the rule gets on: it goes nowhere or back, its unit is unknown, or
\* none of the days it names is a day of the week.
Stuck(rule) ==
  \/ rule.interval <= 0
  \/ rule.unit = ""
  \/ rule.days # {} /\ rule.days \cap (0..6) = {}

\* The search for the next session only ever fails to end for a custom rule whose
\* steps do not get on: any other ends, in any zone and at any time.
HangsOnlyIfStuck == Hangs(doc, now) => doc.rule.repeat = "Custom" /\ Stuck(doc.rule)

\* The days whose session is running.
Running(m, t) ==
  {d \in 0..DayIn(m.zone, t) :
     /\ IsSession(m, d)
     /\ StartOn(m, d) <= t /\ t <= StartOn(m, d) + Duration}

\* The refresh sees a session of today, unless the rule names weekdays, which
\* IsTodayNeedMeeting misreads, or is for weekdays and the server has weekend.  One
\* of yesterday, which goes on after midnight, it does not see.
SeesSession(m, t) ==
  /\ DayIn(m.zone, t) \in Running(m, t)
  /\ m.rule.days = {}
  /\ m.rule.repeat = "WeekDay" => ~ IsWeekend(DayIn(ServerZone, t))

\* Looking at the list of meetings does not close the room of a session that is
\* running, unless the meeting was moved, its end date is over or its zone does not
\* load.  Where the refresh does not see the session, it closes no room but that of
\* the last one.
RefreshLeavesSessions ==
  [][room /\ ~ room' /\ Loads(doc.zone) /\ Running(doc, now) # {} /\ GetMeetings
       => \/ Moved
          \/ doc.rule.endDate # None /\ doc.rule.endDate < now
          \/ ~ SeesSession(doc, now) /\ (Regular(doc) => Later(doc, now) = {})]_vars

\* A meeting that does not repeat and whose zone loads, or that repeats and has an
\* end date, does not stay on the list for ever.  (This is of a meeting by itself:
\* another one, whose search hangs, keeps the refresh from getting to it.  One that
\* does not repeat and whose zone does not load stays until somebody ends it.)
Ending == IF Repeating THEN doc.rule.endDate # None ELSE Loads(doc.zone)

EveryMeetingEnds == []<> ~ (Live /\ Ending)
=============================================================================
