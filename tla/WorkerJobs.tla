------------------------------ MODULE WorkerJobs ------------------------------
(***************************************************************************)
(* Detection jobs and captures together.  They have tables, queues and     *)
(* workers of their own and share nothing, so a behaviour is of one of     *)
(* them and the other stays as it was at first.                            *)
(***************************************************************************)
EXTENDS DetectionJobs

CONSTANTS Captures, CaptureAttempts, CaptureCopies

VARIABLES
  part,
  capture, tries, capToken, draft, capLease, capMarker, due, framesDeleted, capClaims,
  stored, uploadUrl, capSent, capCarries, publishing, doomed, capWorker

captureVars ==
  <<capture, tries, capToken, draft, capLease, capMarker, due, framesDeleted, capClaims,
    stored, uploadUrl, capSent, capCarries, publishing, doomed, capWorker>>

C ==
  INSTANCE ReconstructionJobs WITH
    MaxAttempts <- CaptureAttempts, Copies <- CaptureCopies, NoCapture <- NoJob,
    status <- capture, attempts <- tries, claimToken <- capToken, lease <- capLease,
    marker <- capMarker, claims <- capClaims, sent <- capSent, carries <- capCarries,
    worker <- capWorker

JobsInit == Init /\ C!Init /\ part \in {"detection", "reconstruction"}

JobsNext ==
  \/ part = "detection" /\ Next /\ UNCHANGED <<part, captureVars>>
  \/ part = "reconstruction" /\ C!Next /\ UNCHANGED <<part, vars>>

JobsSpec == JobsInit /\ [][JobsNext]_<<part, vars, captureVars>>

-----------------------------------------------------------------------------

\* Captures: a marker means that a message for this very attempt was sent, a draft
\* is of the last claim, and a package is claimed no more often than its budget of
\* attempts allows (reconstruction/service.py, reconstruction/router.py).
CaptureInvariant == C!CaptureInvariant

\* A capture's job, too, moves as JobLifecycle allows: one attempt at a time and
\* never past the budget (reconstruction/service.py).
CapturesImplementJobs == C!ImplementsJobs
=============================================================================
