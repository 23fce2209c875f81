SPECIFICATION Spec
CONSTANTS
  None = None
  Workers = {w1, w2}
  Numbered <- TwoNumbers
  Chosen <- TwoChosen
  Accounts <- OneAccount
  Lookups <- TwoAtOnce
  MaxRows = 2
  MaxRequests = 2
SYMMETRY WorkersAlike
INVARIANTS
  TypeOK
  CreatedWhole
  RefusedForChosen
  
  RightUser
PROPERTIES
  UsersStay
