SPECIFICATION Spec
CONSTANTS
  ann = ann
  ben = ben
  cat = cat
  once = once
  weekly = weekly
  endless = endless
  None = None
  Blank = Blank
  Cancelled = Cancelled
  Users = {ann, ben}
  Workers = {w1}
  Infos = {once, weekly}
  Repeats = {weekly}
  Endless = {}
  MaxMeetings = 1
  Failures = FALSE
  Calls <- AloneCalls
INVARIANTS RoomShowsDocument
PROPERTIES OnlySelfOrHost
VIEW ProgramState
