CONSTANTS
  Extras = {x1, x2}
  Prices = {5, 6}
  Operations = {"sale"}
  Deposits = {1}
  ExtraValues <- MCExtraValues
  Quotes = {q1}
  MaxVersion = 3
  Editors = {e1, e2}
  Requests = {r1, r2}
  Calls = {1, 2, 3, 4}
  Detections = {d1}
  Volumes = {v1}
  MaxRevision = 3
  Photos = {x1, x2}
  Good = {"front", "back"}
  Bad = {"text"}
  UploadWindow = 2
  Grace = 2
  Retry = 1
  PhotoLimit = 2
  PhotoTime = 6
  RateWindow = 6
  RateLimit = 2
  Second = 2
  RateLag = 1
  RateTime = 8
  Listings = {1, 2, 3, 4}
  PageSize = 2
  SearchTime = 1
  None = None
SYMMETRY Alike
CONSTRAINT Brief
SPECIFICATION CatalogSpec
INVARIANTS
  OffersInvariant
  FurnitureInvariant
  PhotosInvariant
  QuoteRateInvariant
  SearchInvariant
PROPERTIES
  RecordsStand
CHECK_DEADLOCK FALSE
