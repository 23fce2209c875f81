SPECIFICATION Spec
CONSTANTS
  None = None
  Workers = {w1, w2, w3}
  Records <- OneMeeting
  MaxWrites = 3
SYMMETRY WorkersAlike
INVARIANTS
  TypeOK
  CopiesAreCurrent
  OnlyCommitted
  

  
