-------------------------- MODULE ReconstructionJobs --------------------------
(***************************************************************************)
(* Capture packages and their reconstruction: backend/app/modules/         *)
(* reconstruction and worker3d/reconstruction_worker.py.  The app uploads  *)
(* a package to the object store and confirms it; the capture's job goes   *)
(* through a queue like a detection job; two sweeps of the API recover     *)
(* lost jobs and delete packages whose retention is over.                  *)
(*                                                                         *)
(* Leases, markers and retention are kept by what they decide, as in       *)
(* DetectionJobs.  A publication is a member of a set from the transaction *)
(* that makes it necessary until it is marked or has died.                 *)
(***************************************************************************)
EXTENDS Integers

CONSTANTS
  Captures,       \* capture identifiers, chosen by the app
  MaxAttempts,    \* settings.reconstruction_max_attempts
  Workers,
  Copies,         \* deliveries the queue may hold at a time
  NoCapture

\* Assumed of the constants by the theorems and by every instance.
ReconstructionAssumption ==
  /\ MaxAttempts \in Nat \ {0}
  /\ NoCapture \notin Captures

VARIABLES
  status, attempts, claimToken, draft,    \* columns of listing_capture
  lease, marker,  \* lease_expires_at and enqueued_at, by what the sweep sees
  due,            \* frames_delete_after has passed
  framesDeleted,  \* frames_deleted_at is set
  claims,         \* claims granted so far, which number the tokens
  stored,         \* the object store holds the package
  uploadUrl,      \* an upload URL is valid
  sent,           \* the attempt counts a message has been accepted for
  carries,        \* the queue: the capture each delivery is about
  publishing,     \* publications under way, of requests and of the sweep
  doomed,         \* captures the retention sweep has read as due
  worker          \* what each worker is doing

jobVars == <<status, attempts, claimToken, draft, lease, marker, claims>>
frameVars == <<due, framesDeleted, stored, uploadUrl, doomed>>
queueVars == <<sent, carries>>
vars == <<jobVars, frameVars, queueVars, publishing, worker>>

Statuses ==
  {"none", "awaiting_upload", "queued", "processing", "completed", "failed", "accepted"}
Publications == [capture : Captures, gen : 0 .. MaxAttempts, at : {"asked", "read", "published"}]
Idle == [at |-> "idle"]
Tasks ==
  {Idle} \union [at : {"received"}, capture : Captures, copy : Copies]
  \union [at : {"claimed", "working", "failing", "rejecting"}, capture : Captures, copy : Copies, token : Nat]

\* Every variable keeps its type.
CaptureTypeOK ==
  /\ status \in [Captures -> Statuses]
  /\ attempts \in [Captures -> 0 .. MaxAttempts]
  /\ claimToken \in [Captures -> Nat]
  /\ draft \in [Captures -> Nat]
  /\ lease \in [Captures -> {"none", "live", "expired"}]
  /\ marker \in [Captures -> {"none", "fresh", "stale"}]
  /\ due \in [Captures -> BOOLEAN]
  /\ framesDeleted \in [Captures -> BOOLEAN]
  /\ claims \in [Captures -> Nat]
  /\ stored \in [Captures -> BOOLEAN]
  /\ uploadUrl \in [Captures -> BOOLEAN]
  /\ sent \in [Captures -> SUBSET (0 .. MaxAttempts)]
  /\ carries \in [Copies -> Captures \union {NoCapture}]
  /\ publishing \in SUBSET Publications
  /\ doomed \in SUBSET Captures
  /\ worker \in [Workers -> Tasks]

Init ==
  /\ status = [c \in Captures |-> "none"]
  /\ attempts = [c \in Captures |-> 0]
  /\ claimToken = [c \in Captures |-> 0]
  /\ draft = [c \in Captures |-> 0]
  /\ lease = [c \in Captures |-> "none"]
  /\ marker = [c \in Captures |-> "none"]
  /\ due = [c \in Captures |-> FALSE]
  /\ framesDeleted = [c \in Captures |-> FALSE]
  /\ claims = [c \in Captures |-> 0]
  /\ stored = [c \in Captures |-> FALSE]
  /\ uploadUrl = [c \in Captures |-> FALSE]
  /\ sent = [c \in Captures |-> {}]
  /\ carries = [d \in Copies |-> NoCapture]
  /\ publishing = {}
  /\ doomed = {}
  /\ worker = [w \in Workers |-> Idle]

-----------------------------------------------------------------------------
\* The app.

\* register_capture, idempotent by captureId: a first or repeated registration of
\* a capture that awaits its upload signs an upload URL.
Register(c) ==
  /\ status[c] \in {"none", "awaiting_upload"}
  /\ status' = [status EXCEPT ![c] = "awaiting_upload"]
  /\ uploadUrl' = [uploadUrl EXCEPT ![c] = TRUE]
  /\ UNCHANGED <<attempts, claimToken, draft, lease, marker, claims, due,
                 framesDeleted, stored, doomed, queueVars, publishing, worker>>

\* The app uploads the package, or uploads it again, as long as the URL is valid.
Upload(c) ==
  /\ uploadUrl[c]
  /\ stored' = [stored EXCEPT ![c] = TRUE]
  /\ UNCHANGED <<jobVars, due, framesDeleted, uploadUrl, doomed, queueVars,
                 publishing, worker>>

Unenqueued(c) == status[c] = "queued" /\ marker[c] = "none"
Asked(c) == [capture |-> c, gen |-> 0, at |-> "asked"]

\* complete_capture_upload: the first call queues the capture and restarts its
\* retention; while it is not marked, a repetition publishes it again.  Nobody
\* looks whether the package is in the store.
ConfirmUpload(c) ==
  /\ status[c] = "awaiting_upload" \/ Unenqueued(c)
  /\ status' = [status EXCEPT ![c] = "queued"]
  /\ marker' = [marker EXCEPT ![c] = "none"]
  /\ due' = [due EXCEPT ![c] = IF status[c] = "awaiting_upload" THEN FALSE ELSE @]
  /\ publishing' = publishing \union {Asked(c)}
  /\ UNCHANGED <<attempts, claimToken, draft, lease, claims, framesDeleted,
                 stored, uploadUrl, doomed, queueVars, worker>>

\* accept_capture: the agency keeps the draft, the package is due.
Accept(c) ==
  /\ status[c] = "completed"
  /\ status' = [status EXCEPT ![c] = "accepted"]
  /\ due' = [due EXCEPT ![c] = TRUE]
  /\ UNCHANGED <<attempts, claimToken, draft, lease, marker, claims,
                 framesDeleted, stored, uploadUrl, doomed, queueVars, publishing, worker>>

-----------------------------------------------------------------------------
\* Publication.

\* Faulty variant: without the attempt count in the condition.
MarkAnyAttempt(c, gen) ==
  marker' = [marker EXCEPT ![c] = IF Unenqueued(c) THEN "fresh" ELSE @]

\* _mark_enqueued, a conditional update.
Mark(c, gen) ==
  marker' = [marker EXCEPT ![c] =
    IF Unenqueued(c) /\ attempts[c] = gen THEN "fresh" ELSE @]

\* publish_queued_capture reads the row after the transaction that asked for it.
ReadRow(p) ==
  /\ p.at = "asked"
  /\ publishing' = (publishing \ {p}) \union
       {[capture |-> p.capture, gen |-> attempts[p.capture], at |-> "read"] :
          c \in {p.capture} \intersect {q \in Captures : Unenqueued(q)}}
  /\ UNCHANGED <<jobVars, frameVars, queueVars, worker>>

InHand(d) == \E w \in Workers : worker[w] # Idle /\ worker[w].copy = d

\* The queue accepts the message.
Publish(p) ==
  /\ p.at = "read"
  /\ \E d \in Copies :
       /\ carries[d] = NoCapture
       /\ ~InHand(d)
       /\ carries' = [carries EXCEPT ![d] = p.capture]
  /\ sent' = [sent EXCEPT ![p.capture] = @ \union {p.gen}]
  /\ publishing' = (publishing \ {p}) \union {[p EXCEPT !.at = "published"]}
  /\ UNCHANGED <<jobVars, frameVars, worker>>

MarkRow(p) ==
  /\ p.at = "published"
  /\ Mark(p.capture, p.gen)
  /\ publishing' = publishing \ {p}
  /\ UNCHANGED <<status, attempts, claimToken, draft, lease, claims, frameVars,
                 queueVars, worker>>

\* The queue refuses, or the process dies.
PublicationDies(p) ==
  /\ publishing' = publishing \ {p}
  /\ UNCHANGED <<jobVars, frameVars, queueVars, worker>>

PublicationStep ==
  \E p \in publishing : ReadRow(p) \/ Publish(p) \/ MarkRow(p) \/ PublicationDies(p)

-----------------------------------------------------------------------------
\* The sweeps.

\* Faulty variant: the sweep trusts every marker.
RecoverableUnmarked(c) ==
  \/ status[c] = "processing" /\ lease[c] = "expired"
  \/ Unenqueued(c)

Recoverable(c) ==
  \/ status[c] = "processing" /\ lease[c] = "expired"
  \/ status[c] = "queued" /\ marker[c] # "fresh"

\* Faulty variant: one attempt too many.
SpentLate(n) == n > MaxAttempts

Spent(n) == n >= MaxAttempts

\* run_reconstruction_recovery_sweep, its transaction.
RecoverySweep ==
  /\ \E c \in Captures : Recoverable(c)
  /\ attempts' = [c \in Captures |-> IF Recoverable(c) THEN attempts[c] + 1 ELSE attempts[c]]
  /\ status' = [c \in Captures |->
       IF ~Recoverable(c) THEN status[c]
       ELSE IF Spent(attempts'[c]) THEN "failed" ELSE "queued"]
  /\ lease' = [c \in Captures |-> IF Recoverable(c) THEN "none" ELSE lease[c]]
  /\ claimToken' = [c \in Captures |-> IF Recoverable(c) THEN 0 ELSE claimToken[c]]
  /\ marker' = [c \in Captures |-> IF Recoverable(c) THEN "none" ELSE marker[c]]
  /\ publishing' = publishing \union
       {[capture |-> c, gen |-> attempts'[c], at |-> "read"] :
          c \in {q \in Captures : Recoverable(q) /\ ~Spent(attempts'[q])}}
  /\ UNCHANGED <<draft, claims, frameVars, queueVars, worker>>

\* Faulty variant: only accepted captures are ever due.
FramesDueAccepted(c) == status[c] = "accepted" /\ ~framesDeleted[c]

FramesDue(c) ==
  /\ status[c] \notin {"none", "processing"}
  /\ due[c]
  /\ ~framesDeleted[c]

\* run_capture_retention_sweep first reads the captures that are due, without a
\* lock, and then takes them one by one.
ReadDue ==
  /\ doomed = {}
  /\ doomed' = {c \in Captures : FramesDue(c)}
  /\ doomed' # {}
  /\ UNCHANGED <<jobVars, due, framesDeleted, stored, uploadUrl, queueVars,
                 publishing, worker>>

DeleteFrames(c) ==
  /\ c \in doomed
  /\ doomed' = doomed \ {c}
  /\ IF framesDeleted[c]
     THEN UNCHANGED <<stored, framesDeleted>>
     ELSE /\ stored' = [stored EXCEPT ![c] = FALSE]
          /\ framesDeleted' = [framesDeleted EXCEPT ![c] = TRUE]
  /\ UNCHANGED <<jobVars, due, uploadUrl, queueVars, publishing, worker>>

\* The object store fails, or the process dies before or after the deletion and
\* without its record: a later sweep tries again.
DeletionFails(c) ==
  /\ c \in doomed
  /\ doomed' = doomed \ {c}
  /\ \/ UNCHANGED stored
     \/ ~framesDeleted[c] /\ stored' = [stored EXCEPT ![c] = FALSE]
  /\ UNCHANGED <<jobVars, due, framesDeleted, uploadUrl, queueVars, publishing, worker>>

-----------------------------------------------------------------------------
\* The worker.

Receive(w, d) ==
  /\ worker[w] = Idle
  /\ carries[d] # NoCapture
  /\ worker' = [worker EXCEPT ![w] =
       [at |-> "received", capture |-> carries[d], copy |-> d]]
  /\ UNCHANGED <<jobVars, frameVars, queueVars, publishing>>

\* The worker is done with its delivery, and deletes it when it got its answer.
Settle(w, answered) ==
  /\ worker' = [worker EXCEPT ![w] = Idle]
  /\ carries' = IF answered THEN [carries EXCEPT ![worker[w].copy] = NoCapture]
                ELSE carries

Claim(w) ==
  LET c == worker[w].capture IN
  /\ worker[w].at = "received"
  /\ status[c] = "queued"
  /\ status' = [status EXCEPT ![c] = "processing"]
  /\ lease' = [lease EXCEPT ![c] = "live"]
  /\ claims' = [claims EXCEPT ![c] = @ + 1]
  /\ claimToken' = [claimToken EXCEPT ![c] = claims[c] + 1]
  /\ \/ \E at \in {"claimed", "failing"} :
          worker' = [worker EXCEPT ![w] =
            [at |-> at, capture |-> c, copy |-> @.copy, token |-> claims[c] + 1]]
     \/ worker' = [worker EXCEPT ![w] = Idle]
  /\ UNCHANGED <<attempts, draft, marker, frameVars, queueVars, publishing>>

\* The claim is not granted, or fails too often: the delivery is dropped.
DropDelivery(w) ==
  /\ worker[w].at = "received"
  /\ Settle(w, TRUE)
  /\ UNCHANGED <<jobVars, frameVars, sent, publishing>>

LoseTrack(w) ==
  /\ worker[w] # Idle
  /\ Settle(w, FALSE)
  /\ UNCHANGED <<jobVars, frameVars, sent, publishing>>

\* The signed URL yields the package if the store holds it; the download may fail.
Download(w) ==
  /\ worker[w].at = "claimed"
  /\ \E at \in {"failing"} \union (IF stored[worker[w].capture] THEN {"working"} ELSE {}) :
       worker' = [worker EXCEPT ![w].at = at]
  /\ UNCHANGED <<jobVars, frameVars, queueVars, publishing>>

\* The package cannot be reconstructed, or is invalid for good.
WorkFails(w) ==
  /\ worker[w].at = "working"
  /\ \E at \in {"failing", "rejecting"} : worker' = [worker EXCEPT ![w].at = at]
  /\ UNCHANGED <<jobVars, frameVars, queueVars, publishing>>

\* Faulty variant: a report is accepted from whoever has ever claimed the job.
TokenIssued(w) == worker[w].token # 0

TokenMatches(w) == worker[w].token = claimToken[worker[w].capture]

\* complete_reconstruction_job with a draft that passed validation.
Complete(w) ==
  LET c == worker[w].capture IN
  /\ worker[w].at = "working"
  /\ TokenMatches(w)
  /\ status[c] = "processing"
  /\ status' = [status EXCEPT ![c] = "completed"]
  /\ draft' = [draft EXCEPT ![c] = worker[w].token]
  /\ lease' = [lease EXCEPT ![c] = "none"]
  /\ \/ Settle(w, TRUE)
     \/ UNCHANGED <<worker, carries>>
  /\ UNCHANGED <<attempts, claimToken, marker, claims, frameVars, sent, publishing>>

\* fail_reconstruction_job, with and without a retry.
Fail(w) ==
  LET c == worker[w].capture IN
  /\ worker[w].at \in {"failing", "rejecting"}
  /\ TokenMatches(w)
  /\ status[c] = "processing"
  /\ attempts' = [attempts EXCEPT ![c] = @ + 1]
  /\ lease' = [lease EXCEPT ![c] = "none"]
  /\ IF worker[w].at = "rejecting" \/ Spent(attempts'[c])
     THEN /\ status' = [status EXCEPT ![c] = "failed"]
          /\ UNCHANGED <<marker, claimToken, publishing>>
     ELSE /\ status' = [status EXCEPT ![c] = "queued"]
          /\ marker' = [marker EXCEPT ![c] = "none"]
          /\ claimToken' = [claimToken EXCEPT ![c] = 0]
          /\ publishing' = publishing \union {Asked(c)}
  /\ \/ \E answered \in BOOLEAN : Settle(w, answered)
     \/ UNCHANGED <<worker, carries>>
  /\ UNCHANGED <<draft, claims, frameVars, sent>>

\* A report that arrives again is answered and changes nothing.
ReportAgain(w) ==
  /\ worker[w].at \in {"working", "failing", "rejecting"}
  /\ TokenMatches(w)
  /\ \/ status[worker[w].capture] \in {"completed", "accepted"}
     \/ worker[w].at # "working" /\ status[worker[w].capture] = "failed"
  /\ Settle(w, TRUE)
  /\ UNCHANGED <<jobVars, frameVars, sent, publishing>>

WorkerStep(w) ==
  \/ \E d \in Copies : Receive(w, d)
  \/ Claim(w)
  \/ DropDelivery(w)
  \/ LoseTrack(w)
  \/ Download(w)
  \/ WorkFails(w)
  \/ Complete(w)
  \/ Fail(w)
  \/ ReportAgain(w)

-----------------------------------------------------------------------------

LeaseExpires(c) ==
  /\ lease[c] = "live"
  /\ lease' = [lease EXCEPT ![c] = "expired"]
  /\ UNCHANGED <<status, attempts, claimToken, draft, marker, claims, frameVars,
                 queueVars, publishing, worker>>

MarkerAges(c) ==
  /\ marker[c] = "fresh"
  /\ marker' = [marker EXCEPT ![c] = "stale"]
  /\ UNCHANGED <<status, attempts, claimToken, draft, lease, claims, frameVars,
                 queueVars, publishing, worker>>

RetentionEnds(c) ==
  /\ status[c] # "none"
  /\ ~due[c]
  /\ due' = [due EXCEPT ![c] = TRUE]
  /\ UNCHANGED <<jobVars, framesDeleted, stored, uploadUrl, doomed, queueVars,
                 publishing, worker>>

UrlExpires(c) ==
  /\ uploadUrl[c]
  /\ uploadUrl' = [uploadUrl EXCEPT ![c] = FALSE]
  /\ UNCHANGED <<jobVars, due, framesDeleted, stored, doomed, queueVars,
                 publishing, worker>>

Next ==
  \/ \E c \in Captures : Register(c) \/ Upload(c) \/ ConfirmUpload(c) \/ Accept(c)
  \/ PublicationStep
  \/ RecoverySweep
  \/ ReadDue
  \/ \E c \in Captures : DeleteFrames(c) \/ DeletionFails(c)
  \/ \E w \in Workers : WorkerStep(w)
  \/ \E c \in Captures :
       LeaseExpires(c) \/ MarkerAges(c) \/ RetentionEnds(c) \/ UrlExpires(c)

\* Time passes and both sweeps keep running; the object store deletes a package
\* when it is asked often enough.
Fairness ==
  /\ \A c \in Captures :
       WF_vars(LeaseExpires(c)) /\ WF_vars(MarkerAges(c)) /\ SF_vars(DeleteFrames(c))
  /\ WF_vars(RecoverySweep)
  /\ WF_vars(ReadDue)

Spec == Init /\ [][Next]_vars /\ Fairness

-----------------------------------------------------------------------------

\* The marker of a queued capture is true of the very attempt it waits for.
MarkedMeansSent ==
  \A c \in Captures : status[c] = "queued" /\ marker[c] # "none" => attempts[c] \in sent[c]

\* The draft the agency sees, accepts or is to be deleted with the package of is
\* the one of the last claim.
DraftOfLastClaim ==
  \A c \in Captures :
    status[c] \in {"completed", "accepted"} => draft[c] = claims[c] /\ draft[c] > 0

\* However deliveries are duplicated and reports are lost, a package is handed to a
\* worker at most MaxAttempts times, and no spent capture waits or is worked on.
ClaimsWithinBudget ==
  \A c \in Captures :
    /\ claims[c] <= MaxAttempts
    /\ status[c] \in {"queued", "processing"} => attempts[c] < MaxAttempts

\* A finished capture whose retention is over is eventually recorded as deleted,
\* whatever fails in between.
DueEventuallySwept ==
  \A c \in Captures :
    status[c] \in {"completed", "accepted", "failed"} /\ due[c] ~> framesDeleted[c]

\* The job a capture's status stands for.
JobOf(c) ==
  CASE status[c] \in {"none", "awaiting_upload"} -> "none"
    [] status[c] = "queued" -> "pending"
    [] status[c] = "processing" -> "running"
    [] status[c] \in {"completed", "accepted"} -> "completed"
    [] status[c] = "failed" -> "failed"

\* The life of the job, whatever the app and retention do around it.
J == INSTANCE JobLifecycle WITH
       Jobs <- Captures, state <- [c \in Captures |-> JobOf(c)]
ImplementsJobs == J!JobsSpec

\* Whatever dies or is lost, a queued capture ends completed or failed.
QueuedEventuallyFinished ==
  \A c \in Captures : status[c] = "queued" ~> status[c] \in {"completed", "accepted", "failed"}

\* run_capture_retention_sweep: "A capture being processed is skipped."
ProcessingKeepsPackage ==
  [][\A c \in Captures : status[c] = "processing" /\ stored[c] => stored'[c]]_vars

\* run_capture_retention_sweep: "Delete the stored package of every capture whose
\* frames are due."
DueFramesEventuallyDeleted ==
  \A c \in Captures : stored[c] /\ status[c] = "accepted" ~> ~stored[c]

\* Markers, drafts and claims are right at every moment.
CaptureInvariant ==
  /\ CaptureTypeOK
  /\ MarkedMeansSent
  /\ DraftOfLastClaim
  /\ ClaimsWithinBudget
=============================================================================
