SPECIFICATION Spec
CONSTANTS
  None = None
  Workers = {w1, w2}
  Records <- SameName
  MaxWrites = 1
SYMMETRY WorkersAlike
INVARIANTS OwnData
