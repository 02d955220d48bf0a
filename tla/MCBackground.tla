----------------------------- MODULE MCBackground -----------------------------
(***************************************************************************)
(* What must eventually happen, for TLC: the loops the API starts with     *)
(* itself (main.py: the detection and reconstruction sweeps, the deletion  *)
(* of photo objects, the refresh of the rates) and the one request with a  *)
(* deadline, the interpretation of a floor plan.  They share nothing, so a *)
(* behaviour is of one of them: the variables that have the same name      *)
(* serve the one that moves, and the others are None.                      *)
(***************************************************************************)
EXTENDS Integers

CONSTANTS
  Items,             \* one photo, one capture
  Workers, Editors, Copies,
  Good, Bad,         \* photo contents
  Processes,
  None

VARIABLES
  part,
  status, attempts, claimToken, lease, marker, claims, sent, carries, worker,
  result, pub, swept,
  draft, due, framesDeleted, stored, uploadUrl, publishing, doomed,
  now,
  approval, published, trail, row, link, object, intent, journalled, submitted,
  market, moves, rates, issued, clock, entry, refresh, quote,
  step, attempt, correction, repeated, wake, limit, asked, answer

jobVars == <<status, attempts, claimToken, lease, marker, claims, sent, carries, worker>>
detectionOnly == <<result, pub, swept>>
captureOnly == <<draft, due, framesDeleted, stored, uploadUrl, publishing, doomed>>
photoOnly ==
  <<approval, published, trail, row, link, object, intent, journalled, submitted>>
rateVars == <<market, moves, rates, issued, clock, entry, refresh, quote>>
planOnly == <<step, attempt, correction, repeated, wake, limit, asked, answer>>
vars == <<part, jobVars, detectionOnly, captureOnly, now, photoOnly, rateVars, planOnly>>

Detection ==
  INSTANCE DetectionJobs WITH
    Jobs <- Items, MaxAttempts <- 2, NoJob <- None, NoTask <- None
Reconstruction ==
  INSTANCE ReconstructionJobs WITH
    Captures <- Items, MaxAttempts <- 2, Workers <- {"worker"}, Copies <- {"copy"},
    NoCapture <- None
Photos ==
  INSTANCE ListingPhotos WITH
    Photos <- Items, Window <- 1, Grace <- 1, Retry <- 1, Limit <- 1, MaxTime <- 4
Rates ==
  INSTANCE ExchangeRates WITH
    ManualRates <- {[currency |-> "BOB", units |-> 7], [currency |-> "USD", units |-> 2]},
    CoinbaseRates <- {3}, BcbRates <- {6}, Static <- 9, Amounts <- {}, Prec <- 4,
    MaxManual <- 1, MaxMoves <- 1, MaxTime <- 1
Plan ==
  INSTANCE FloorplanInterpretation WITH
    Timeout <- 9, MaxRetryAfter <- 3, RateDelay <- 2, RetryDelay <- 1,
    Reasons <- {"invalid_contour", "contract_failure"}

ASSUME
  /\ Detection!DetectionAssumption
  /\ Reconstruction!ReconstructionAssumption
  /\ Photos!PhotosAssumption
  /\ Plan!FloorplanTimes
  /\ Rates!RatesAssumption

NoJobs ==
  /\ status = None /\ attempts = None /\ claimToken = None /\ lease = None
  /\ marker = None /\ claims = None /\ sent = None /\ carries = None /\ worker = None
NoDetection == result = None /\ pub = None /\ swept = None
NoCapture ==
  /\ draft = None /\ due = None /\ framesDeleted = None /\ stored = None
  /\ uploadUrl = None /\ publishing = None /\ doomed = None
NoPhotos ==
  /\ approval = None /\ published = None /\ trail = None /\ row = None /\ link = None
  /\ object = None /\ intent = None /\ journalled = None /\ submitted = None
NoRates ==
  /\ market = None /\ moves = None /\ rates = None /\ issued = None /\ clock = None
  /\ entry = None /\ refresh = None /\ quote = None
NoPlan ==
  /\ step = None /\ attempt = None /\ correction = None /\ repeated = None
  /\ wake = None /\ limit = None /\ asked = None /\ answer = None

Init ==
  \/ /\ part = "detection" /\ Detection!Init
     /\ NoCapture /\ now = None /\ NoPhotos /\ NoRates /\ NoPlan
  \/ /\ part = "reconstruction" /\ Reconstruction!Init
     /\ NoDetection /\ now = None /\ NoPhotos /\ NoRates /\ NoPlan
  \/ /\ part = "photos" /\ Photos!Init
     /\ NoJobs /\ NoDetection /\ NoCapture /\ NoRates /\ NoPlan
  \/ /\ part = "rates" /\ Rates!Init
     /\ NoJobs /\ NoDetection /\ NoCapture /\ now = None /\ NoPhotos /\ NoPlan
  \/ /\ part = "plan" /\ Plan!Init
     /\ NoJobs /\ NoDetection /\ NoCapture /\ NoPhotos /\ NoRates

Next ==
  /\ UNCHANGED part
  /\ \/ /\ part = "detection" /\ Detection!Next
        /\ UNCHANGED <<captureOnly, now, photoOnly, rateVars, planOnly>>
     \/ /\ part = "reconstruction" /\ Reconstruction!Next
        /\ UNCHANGED <<detectionOnly, now, photoOnly, rateVars, planOnly>>
     \/ /\ part = "photos" /\ Photos!Next
        /\ UNCHANGED <<jobVars, detectionOnly, captureOnly, rateVars, planOnly>>
     \/ /\ part = "rates" /\ Rates!Next
        /\ UNCHANGED <<jobVars, detectionOnly, captureOnly, now, photoOnly, planOnly>>
     \/ /\ part = "plan" /\ Plan!Next
        /\ UNCHANGED <<jobVars, detectionOnly, captureOnly, photoOnly, rateVars>>

\* The fairness each part has in its own module; a part that does not move is
\* owed nothing.
detectionVars == <<jobVars, detectionOnly>>
captureVars == <<jobVars, captureOnly>>
photoVars == <<photoOnly, now>>
planVars == <<planOnly, now>>

Fairness ==
  /\ \A i \in Items :
       /\ WF_detectionVars(part = "detection" /\ Detection!LeaseExpires(i))
       /\ WF_detectionVars(part = "detection" /\ Detection!MarkerAges(i))
       /\ WF_captureVars(part = "reconstruction" /\ Reconstruction!LeaseExpires(i))
       /\ WF_captureVars(part = "reconstruction" /\ Reconstruction!MarkerAges(i))
       /\ SF_captureVars(part = "reconstruction" /\ Reconstruction!DeleteFrames(i))
       /\ SF_photoVars(part = "photos" /\ Photos!SweepDone(i))
  /\ WF_detectionVars(part = "detection" /\ Detection!Sweep)
  /\ WF_detectionVars(part = "detection" /\ Detection!SweepStep)
  /\ WF_captureVars(part = "reconstruction" /\ Reconstruction!RecoverySweep)
  /\ WF_captureVars(part = "reconstruction" /\ Reconstruction!ReadDue)
  /\ WF_photoVars(part = "photos" /\ Photos!Tick)
  /\ \A p \in Processes :
       /\ WF_rateVars(part = "rates" /\ Rates!Fetch(p))
       /\ WF_rateVars(part = "rates" /\ Rates!Append(p))
       /\ WF_rateVars(part = "rates" /\ Rates!Commit(p))
  /\ WF_rateVars(part = "rates" /\ Rates!CommitRate)
  /\ WF_planVars(part = "plan" /\ Plan!Tick)
  /\ WF_planVars(part = "plan" /\ Plan!Proceeds)

Spec == Init /\ [][Next]_vars /\ Fairness

-----------------------------------------------------------------------------

DetectionIn(i, statuses) == part = "detection" /\ status[i] \in statuses
CaptureIn(i, statuses) == part = "reconstruction" /\ status[i] \in statuses
CaptureEnds == {"completed", "accepted", "failed"}

\* Whatever dies or is lost, a detection that was asked for and a capture that was
\* queued end completed or failed, and the package of a finished capture is
\* recorded as deleted when its retention is over (detection/service.py,
\* reconstruction/service.py, the two workers).
WorkEventuallyFinished ==
  \A i \in Items :
    /\ DetectionIn(i, {"pending"}) ~> DetectionIn(i, {"completed", "failed"})
    /\ CaptureIn(i, {"queued"}) ~> CaptureIn(i, CaptureEnds)
    /\ CaptureIn(i, CaptureEnds) /\ due[i] ~> part = "reconstruction" /\ framesDeleted[i]

\* Every deletion in the journal of photo objects is eventually carried out, also
\* after failures (catalog/photos.py, run_deletion_sweep).
DeletedEventuallyGone ==
  \A i \in Items :
    part = "photos" /\ intent[i] # None ~>
      part = "photos" /\ intent[i] = None /\ \A k \in {"original", "public"} : object[i][k] = None

\* Once the sources settle and answer, the current rate of every ingested currency
\* becomes what its source says, over administered rates and rows of overlapping
\* runs (exchange_rates/service.py, refresh_official_rates).
OfficialIsFollowed ==
  <>[](part = "rates" /\ Rates!Answers(market) => Rates!FollowsOfficial)

\* Every interpretation is answered, whatever the provider does
\* (floorplan_interpretation/service.py, interpret).
EventuallyAnswered == part = "plan" /\ step = "asking" ~> step = "answered"
=============================================================================
