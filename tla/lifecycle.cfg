SPECIFICATION Spec
CONSTANTS
  ann = ann
  ben = ben
  cat = cat
  once = once
  weekly = weekly
  endless = endless
  None = None
  Blank = Blank
  Cancelled = Cancelled
  Users = {ann, ben}
  Workers = {w1, w2}
  Infos = {once, weekly}
  Repeats = {weekly}
  Endless = {}
  MaxMeetings = 2
  Failures = TRUE
  Calls <- LifeCalls
SYMMETRY WorkersAlike
INVARIANTS TypeOK CreatorsAgree NumbersAreFresh
PROPERTIES LifecycleSpec
