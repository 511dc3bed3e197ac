SPECIFICATION LiveSpec
CONSTANTS
  Arrivals = 2
  Chefs = {k1, k2}
  Main = main
  None = none
  MAX_CAPACITY = 2
  SOFA_SEATS = 2
  MaxSpurious = 0
INVARIANTS SafeUntilShutdown
PROPERTIES ImplementsService ShopCloses
