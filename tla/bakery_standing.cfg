SPECIFICATION Spec
CONSTANTS
  Arrivals = 2
  Chefs = {k1, k2}
  Main = main
  None = none
  MAX_CAPACITY = 2
  SOFA_SEATS = 1
  MaxSpurious = 1
SYMMETRY ChefSymmetry
INVARIANTS TypeOK PaymentSerialized CakeBakedOnce LockExclusion SeatsCounted
CHECK_DEADLOCK FALSE
