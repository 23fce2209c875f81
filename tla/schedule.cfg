SPECIFICATION Spec
CONSTANTS
  Slots = 2
  Horizon = 56
  Duration = 1
  MonthStarts <- Months
  Times <- Booking
  Rules <- Asked
  Zones <- Named
  Offset <- Offsets
  ServerZone = ""
INVARIANTS
  TypeOK
  NextIsLeast
  CompletedHasNoSession
  HangsOnlyIfStuck
PROPERTIES
  CompletedStays
  RefreshLeavesSessions
  EveryMeetingEnds
CHECK_DEADLOCK FALSE
