SPECIFICATION Spec
CONSTANTS
  None = None
  KickOff = KickOff
  Users = {ann}
  Devices = {a,b,c}
  MaxTime = 3
  EntryLife = 2
  TokenLife = 3
  SameSecond = FALSE
  Failures = TRUE
SYMMETRY Alike
INVARIANTS TypeOK OneSession LoginAgain
