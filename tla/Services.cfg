CONSTANTS
  Timeout = 9
  MaxRetryAfter = 3
  RateDelay = 2
  RetryDelay = 1
  Reasons = {"invalid_contour", "contract_failure"}
  Processes = {p1}
  ManualRates <- MCManualRates
  CoinbaseRates = {3}
  BcbRates = {6, 8}
  Static = 9
  Amounts = {1, 2, 5, 16, 17}
  Prec = 4
  MaxManual = 1
  MaxMoves = 2
  RateTime = 1
  Contours <- MCContours
  Places <- MCPlaces
  None = None
ACTION_CONSTRAINT Early
SPECIFICATION ServicesSpec
INVARIANTS
  RatesInvariant
  InterpretationInvariant
  GeometryInvariant
CHECK_DEADLOCK FALSE
