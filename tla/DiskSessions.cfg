CONSTANTS
  Name = {a, b}
  Process = {p1, p2}
  MaxId = 2
  MaxDeaths = 1

SPECIFICATION Spec
SYMMETRY Interchangeable
CHECK_DEADLOCK FALSE

INVARIANTS
  TypeOK
  OneOwner
  
  NewestOrNone
  
  
