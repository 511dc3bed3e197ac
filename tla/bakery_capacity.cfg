SPECIFICATION Spec
CONSTANTS
  Arrivals = 3
  Chefs = {k1}
  Main = main
  None = none
  MAX_CAPACITY = 2
  SOFA_SEATS = 1
  MaxSpurious = 0
INVARIANTS CapacityKept
CHECK_DEADLOCK FALSE
