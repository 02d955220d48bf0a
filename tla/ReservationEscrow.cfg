CONSTANTS
  Reservations = {r1, r2}
  Listings = {l1}
  Customers = {c1}
  Agencies = {a1}
  Amounts = {0, 1, 2}
  Deadlines = {1, 2}
  MaxNonce = 2
  MaxBlockTime = 2
  InitialBalance = 3
  NoTerms = NoTerms
SPECIFICATION EscrowFairSpec
INVARIANTS
  EscrowTypeOK
  EscrowSolvent
  PendingMeansFunded
  NoncesNumberReceipts
  PayoutIsTheDeposit
  DeadlineSplitsOutcomes
PROPERTIES
  TermsFrozenAndSettledFinal
  DepositEventuallyLeaves
CHECK_DEADLOCK FALSE
