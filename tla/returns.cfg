SPECIFICATION FairSpec
CONSTANTS
  ann = ann
  ben = ben
  cat = cat
  once = once
  weekly = weekly
  endless = endless
  None = None
  Blank = Blank
  Cancelled = Cancelled
  Users = {ann}
  Workers = {w1, w2}
  Infos = {once, endless}
  Repeats = {endless}
  Endless = {endless}
  MaxMeetings = 2
  Failures = TRUE
  Calls <- LoopCalls
PROPERTIES EveryCallReturns
