SPECIFICATION Spec
CONSTANTS
  None = None
  KickOff = KickOff
  Users = {ann}
  Devices = {a,b}
  MaxTime = 2
  EntryLife = 2
  TokenLife = 3
  SameSecond = TRUE
  Failures = FALSE
SYMMETRY Alike
INVARIANTS OneSession
