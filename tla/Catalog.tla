------------------------------- MODULE Catalog -------------------------------
(***************************************************************************)
(* The catalog: the offer of a listing up to its reservation, and for the  *)
(* behaviours that leave it as it begins the furniture of a listing, its   *)
(* photos, the limit on quote requests, or the public search.  Each part   *)
(* keeps the state its rules are about: now, approvalP and the like serve  *)
(* the one that moves, and the variables of the others are None.           *)
(***************************************************************************)
EXTENDS ListingOffers

CONSTANTS
  \* furniture, of the Extras
  Editors, Requests, Detections, Volumes, MaxRevision,
  \* photos
  Photos, Good, Bad, UploadWindow, Grace, Retry, PhotoLimit, PhotoTime,
  \* quote requests
  Calls, RateWindow, RateLimit, Second, RateLag, RateTime,
  \* search
  Listings, PageSize, SearchTime

VARIABLES
  part, now,
  items, itemIds, itemVersion,
  scene, revision, current, reviews, sceneScreen, offerScreen, lastSave,
  approvalP, publishedP, trailP, submittedP, row, link, object, intent, journalled,
  read, answer, retry, events, oldest, before,
  created, public, cursor, shown, done, throughout

furnitureVars ==
  <<items, itemIds, itemVersion, scene, revision, current, reviews, sceneScreen,
    offerScreen, lastSave>>
photoVars ==
  <<approvalP, publishedP, trailP, submittedP, row, link, object, intent, journalled>>
rateVars == <<read, answer, retry, events, oldest, before>>
searchVars == <<created, public, cursor, shown, done, throughout>>
otherVars == <<now, furnitureVars, photoVars, rateVars, searchVars>>

F ==
  INSTANCE FurnitureReview WITH
    extras <- items, inserted <- itemIds, version <- itemVersion

P ==
  INSTANCE ListingPhotos WITH
    Window <- UploadWindow, Limit <- PhotoLimit, MaxTime <- PhotoTime,
    approval <- approvalP, published <- publishedP, trail <- trailP, submitted <- submittedP

L ==
  INSTANCE QuoteRateLimit WITH
    Requests <- Calls, Window <- RateWindow, Limit <- RateLimit, MaxTime <- RateTime,
    MaxLag <- RateLag

S == INSTANCE CatalogSearch WITH MaxTime <- SearchTime

\* Assumed of the constants by the theorems and by every instance.
CatalogAssumption ==
  /\ OffersAssumption
  /\ F!FurnitureAssumption
  /\ P!PhotosAssumption
  /\ L!RateAssumption
  /\ S!SearchAssumption

NoFurniture ==
  /\ items = None /\ itemIds = None /\ itemVersion = None
  /\ scene = None /\ revision = None /\ current = None /\ reviews = None
  /\ sceneScreen = None /\ offerScreen = None /\ lastSave = None
NoPhotos ==
  /\ approvalP = None /\ publishedP = None /\ trailP = None /\ submittedP = None
  /\ row = None /\ link = None /\ object = None /\ intent = None /\ journalled = None
NoCalls ==
  /\ read = None /\ answer = None /\ retry = None /\ events = None /\ oldest = None
  /\ before = None
NoSearch ==
  /\ created = None /\ public = None /\ cursor = None /\ shown = None /\ done = None
  /\ throughout = None

CatalogInit ==
  /\ Init
  /\ \/ /\ part = "offers" /\ now = None
        /\ NoFurniture /\ NoPhotos /\ NoCalls /\ NoSearch
     \/ /\ part = "furniture" /\ now = None /\ F!Init
        /\ NoPhotos /\ NoCalls /\ NoSearch
     \/ part = "photos" /\ P!Init /\ NoFurniture /\ NoCalls /\ NoSearch
     \/ part = "limit" /\ L!Init /\ NoFurniture /\ NoPhotos /\ NoSearch
     \/ part = "search" /\ S!Init /\ NoFurniture /\ NoPhotos /\ NoCalls

CatalogNext ==
  /\ UNCHANGED part
  /\ \/ part = "offers" /\ Next /\ UNCHANGED otherVars
     \/ /\ part = "furniture" /\ F!Next
        /\ UNCHANGED <<vars, now, photoVars, rateVars, searchVars>>
     \/ part = "photos" /\ P!Next /\ UNCHANGED <<vars, furnitureVars, rateVars, searchVars>>
     \/ part = "limit" /\ L!Next /\ UNCHANGED <<vars, furnitureVars, photoVars, searchVars>>
     \/ part = "search" /\ S!Next /\ UNCHANGED <<vars, furnitureVars, photoVars, rateVars>>

CatalogSpec == CatalogInit /\ [][CatalogNext]_<<part, vars, otherVars>>

-----------------------------------------------------------------------------

\* No scene save is lost, a detection or a retransmission adds furniture once, and a
\* review is decided over the inventory its editor saw (detection/furniture_review.py,
\* catalog/service.py: the scene's ETag).
FurnitureInvariant == part = "furniture" => F!FurnitureInvariant

\* A confirmed photo is stored, nothing in the storage is untracked, what the
\* journal has let go of is gone, and what is under review or published keeps the
\* photos it was submitted with (catalog/photos.py).
PhotosInvariant == part = "photos" => P!PhotosInvariant

\* However long requests wait for the lock, one that comes after others have been
\* answered finds the limit kept over them, and Retry-After is the wait it takes, to
\* the second (catalog/service.py, consume_quote_rate_limit).
QuoteRateInvariant == part = "limit" => L!QuoteRateInvariant

\* However the catalog changes between its pages, a reader sees no listing twice
\* and misses none that stayed (catalog/service.py, search_catalog_listings).
SearchInvariant == part = "search" => S!SearchInvariant

\* Every operation that moves the listing records the state it moved it from, an
\* original is never replaced, a decided suggestion stays decided, and confirmed
\* furniture is in the scene (catalog/service.py, catalog/photos.py,
\* detection/furniture_review.py).
RecordsStand ==
  [][/\ HistoryKept
     /\ part = "photos" => P!OriginalsKept
     /\ part = "furniture" => F!DecisionsKept /\ F!PlacedWhenConfirmed]_<<part, vars, otherVars>>
=============================================================================
