SPECIFICATION Spec
CONSTANTS
  ann = ann
  ben = ben
  cat = cat
  once = once
  weekly = weekly
  endless = endless
  None = None
  Blank = Blank
  Cancelled = Cancelled
  Users = {ann, ben, cat}
  Workers = {w1, w2}
  Infos = {once, weekly}
  Repeats = {weekly}
  Endless = {}
  MaxMeetings = 1
  Failures = TRUE
  Calls <- AuthorityCalls
SYMMETRY WorkersAlike
INVARIANTS SettingsHaveAuthors
PROPERTIES AuthorityChain
