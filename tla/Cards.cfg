CONSTANTS
  Reservations = {"r1", "r2"}
  Customers = {"ann", "bob"}
  ListingOf <- MCListingOf
  CustomerOf <- MCCustomerOf
  Window = 1
  MaxTime = 2
  Declines = {"r1"}
  Workers = {"w1", "w2"}
  NoTask = NoTask
SPECIFICATION Spec
INVARIANTS
  CardInvariant
PROPERTIES
  ClosedStaysClosed
  ChargeIsAnswered
CHECK_DEADLOCK FALSE
