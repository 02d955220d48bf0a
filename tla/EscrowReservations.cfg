CONSTANTS
  Reservations = {"r1", "r2"}
  Listings = {"loft"}
  Customers = {"ann", "bob"}
  Agencies = {"agency"}
  Amounts = {0, 1}
  Deadlines = {0, 1, 2}
  MaxNonce = 1
  MaxBlockTime = 2
  InitialBalance = 1
  NoTerms = NoTerms
  ListingOf <- MCListingOf
  CustomerOf <- MCCustomerOf
  AgencyOf <- MCAgencyOf
  DepositOf <- MCDeposit
  Asked <- PermitRequests
  Window = 1
  TicksPerSecond = 2
  MaxTime = 2
SPECIFICATION Spec
CONSTRAINT Narrow
INVARIANTS
  StatusIsProved
  MoneyFollowsRow
  NothingMinedIsLost
  OneActive
  AgencyPaidOnlyIfBooked
PROPERTIES
  ImplementsLifecycle
CHECK_DEADLOCK FALSE
