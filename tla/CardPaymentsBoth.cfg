CONSTANTS
  Reservations = {"r1"}
  Customers = {"ann"}
  ListingOf <- MCListingOf
  CustomerOf <- MCCustomerOf
  Window = 1
  MaxTime = 1
  Declines = {}
  Workers = {w1, w2}
  NoTask = NoTask
SPECIFICATION CardSpec
INVARIANTS
  NotBothTransferredAndRefunded
CHECK_DEADLOCK FALSE
