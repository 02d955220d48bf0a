---------------------------- MODULE DetectionJobs ----------------------------
(***************************************************************************)
(* Detection jobs: backend/app/modules/detection over an at-least-once     *)
(* queue, and worker3d/job_worker.py.  A row is committed, then published, *)
(* then marked as enqueued, in three steps of a request, of a reported     *)
(* failure or of the recovery sweep, which may die at each of them.        *)
(*                                                                         *)
(* Times are kept by what they decide: a lease is live until it expires,   *)
(* the marker enqueued_at is fresh until it is a lease interval old.  A    *)
(* delivery stays in the queue until it is deleted and may be received     *)
(* again by anyone.  The attempt a message carries is never read.          *)
(***************************************************************************)
EXTENDS Integers

CONSTANTS
  Jobs,           \* dedupe keys: one photo and one model each
  MaxAttempts,    \* settings.detection_max_attempts
  Workers, Editors,
  Copies,         \* deliveries the queue may hold at a time
  NoJob, NoTask

\* Assumed of the constants by the theorems and by every instance.
DetectionAssumption ==
  /\ MaxAttempts \in Nat \ {0}
  /\ NoJob \notin Jobs
  /\ Workers \intersect Editors = {}

VARIABLES
  status, attempts, claimToken, result,   \* columns of detection_job
  lease,      \* lease_expires_at, by what the sweep sees of it
  marker,     \* enqueued_at, by what the sweep sees of it
  claims,     \* claims granted so far, which number the tokens
  sent,       \* the attempt counts a message has been accepted for
  carries,    \* the queue: the job each delivery is about
  pub,        \* the publication each client's request is performing
  swept,      \* the publications the recovery sweep has left to perform
  worker      \* what each worker is doing

rowVars == <<status, attempts, claimToken, result, lease, marker, claims>>
queueVars == <<sent, carries>>
vars == <<rowVars, queueVars, pub, swept, worker>>

Clients == Workers \union Editors
Publications ==
  [job : Jobs, gen : 0 .. MaxAttempts, at : {"asked", "read", "published"}]
Idle == [at |-> "idle"]
Deliveries == [at : {"received"}, job : Jobs, copy : Copies]
Claimed == [at : {"working", "failing", "reported"}, job : Jobs, copy : Copies,
            token : Nat]

\* A delivered job, its lease and marker are each in one of a few conditions.
DetectionTypeOK ==
  /\ status \in [Jobs -> {"none", "pending", "running", "completed", "failed"}]
  /\ attempts \in [Jobs -> 0 .. MaxAttempts]
  /\ claimToken \in [Jobs -> Nat]
  /\ result \in [Jobs -> Nat]
  /\ lease \in [Jobs -> {"none", "live", "expired"}]
  /\ marker \in [Jobs -> {"none", "fresh", "stale"}]
  /\ claims \in [Jobs -> Nat]
  /\ sent \in [Jobs -> SUBSET (0 .. MaxAttempts)]
  /\ carries \in [Copies -> Jobs \union {NoJob}]
  /\ pub \in [Clients -> Publications \union {NoTask}]
  /\ swept \in SUBSET Publications
  /\ worker \in [Workers -> {Idle} \union Deliveries \union Claimed]

Init ==
  /\ status = [j \in Jobs |-> "none"]
  /\ attempts = [j \in Jobs |-> 0]
  /\ claimToken = [j \in Jobs |-> 0]
  /\ result = [j \in Jobs |-> 0]
  /\ lease = [j \in Jobs |-> "none"]
  /\ marker = [j \in Jobs |-> "none"]
  /\ claims = [j \in Jobs |-> 0]
  /\ sent = [j \in Jobs |-> {}]
  /\ carries = [c \in Copies |-> NoJob]
  /\ pub = [c \in Clients |-> NoTask]
  /\ swept = {}
  /\ worker = [w \in Workers |-> Idle]

-----------------------------------------------------------------------------
\* Publication.

\* Faulty variant: one attempt too many.
SpentLate(n) == n > MaxAttempts

Spent(n) == n >= MaxAttempts

Asked(j) == [job |-> j, gen |-> 0, at |-> "asked"]
Unenqueued(j) == status[j] = "pending" /\ marker[j] = "none"

Progressed(j, gen) ==
  /\ attempts[j] >= gen
  /\ status[j] = "pending" => attempts[j] > gen \/ marker[j] # "none"

\* Faulty variant: without the attempt count in the condition.
MarkAnyAttempt(j, gen) ==
  marker' = [marker EXCEPT ![j] = IF Unenqueued(j) THEN "fresh" ELSE @]

\* The conditional update that records a publication.
Mark(j, gen) ==
  marker' = [marker EXCEPT ![j] =
    IF Unenqueued(j) /\ attempts[j] = gen THEN "fresh" ELSE @]

InHand(c) == \E w \in Workers : worker[w] # Idle /\ worker[w].copy = c

\* The queue accepts a message for job j.
Send(j, gen) ==
  /\ \E c \in Copies :
       /\ carries[c] = NoJob
       /\ ~InHand(c)
       /\ carries' = [carries EXCEPT ![c] = j]
  /\ sent' = [sent EXCEPT ![j] = @ \union {gen}]

Delete(c) == carries' = [carries EXCEPT ![c] = NoJob]

\* The request of client c is answered.  A worker deletes its delivery when it
\* receives a success, and keeps it otherwise.
Answer(c, ok) ==
  /\ pub' = [pub EXCEPT ![c] = NoTask]
  /\ IF c \in Workers
     THEN /\ worker' = [worker EXCEPT ![c] = Idle]
          /\ \/ ok /\ Delete(worker[c].copy)
             \/ UNCHANGED carries
     ELSE UNCHANGED <<worker, carries>>

\* publish_pending_detection_job: read the row, publish, mark it.
ReadRow(c) ==
  /\ pub[c] # NoTask
  /\ pub[c].at = "asked"
  /\ LET j == pub[c].job IN
     IF Unenqueued(j)
     THEN /\ pub' = [pub EXCEPT ![c] = [job |-> j, gen |-> attempts[j], at |-> "read"]]
          /\ UNCHANGED <<worker, carries>>
     ELSE Answer(c, TRUE)
  /\ UNCHANGED <<rowVars, sent, swept>>

Publish(c) ==
  /\ pub[c] # NoTask
  /\ pub[c].at = "read"
  /\ Send(pub[c].job, pub[c].gen)
  /\ pub' = [pub EXCEPT ![c].at = "published"]
  /\ UNCHANGED <<rowVars, swept, worker>>

QueueRefuses(c) ==
  /\ pub[c] # NoTask
  /\ pub[c].at = "read"
  /\ Answer(c, FALSE)
  /\ UNCHANGED <<rowVars, sent, swept>>

MarkRow(c) ==
  /\ pub[c] # NoTask
  /\ pub[c].at = "published"
  /\ LET j == pub[c].job
         gen == pub[c].gen
     IN  /\ Mark(j, gen)
         /\ Answer(c, marker'[j] # marker[j] \/ Progressed(j, gen))
  /\ UNCHANGED <<status, attempts, claimToken, result, lease, claims, sent, swept>>

\* request_detection: create the job of a photo or replay the existing one, under
\* the lock of the listing.
Request(e, j) ==
  /\ pub[e] = NoTask
  /\ status[j] = "none" \/ Unenqueued(j)
  /\ status' = [status EXCEPT ![j] = "pending"]
  /\ pub' = [pub EXCEPT ![e] = Asked(j)]
  /\ UNCHANGED <<attempts, claimToken, result, lease, marker, claims,
                 queueVars, swept, worker>>

-----------------------------------------------------------------------------
\* The recovery sweep.

Expired(j) == status[j] = "running" /\ lease[j] = "expired"
Unclaimed(j) == status[j] = "pending" /\ marker[j] # "fresh"
Counted(j) == IF Spent(attempts[j]) THEN attempts[j] ELSE attempts[j] + 1

\* Faulty variant: a sweep that trusts every marker.
RecoverableUnmarked(j) == Expired(j) \/ Unenqueued(j)

Recoverable(j) == Expired(j) \/ Unclaimed(j)

\* One transaction over all recoverable jobs; the messages follow it.
Sweep ==
  /\ swept = {}
  /\ \E j \in Jobs : Recoverable(j)
  /\ attempts' = [j \in Jobs |-> IF Recoverable(j) THEN Counted(j) ELSE attempts[j]]
  /\ status' = [j \in Jobs |->
       IF ~Recoverable(j) THEN status[j]
       ELSE IF Spent(attempts'[j]) THEN "failed" ELSE "pending"]
  /\ claimToken' = [j \in Jobs |-> IF Recoverable(j) THEN 0 ELSE claimToken[j]]
  /\ lease' = [j \in Jobs |-> IF Recoverable(j) THEN "none" ELSE lease[j]]
  /\ marker' = [j \in Jobs |-> IF Recoverable(j) THEN "none" ELSE marker[j]]
  /\ swept' = {[job |-> j, gen |-> attempts'[j], at |-> "read"] :
                 j \in {i \in Jobs : Recoverable(i) /\ status'[i] = "pending"}}
  /\ UNCHANGED <<result, claims, queueVars, pub, worker>>

Marking == {m \in swept : m.at = "published"}

SweptPublish(m) ==
  /\ Marking = {}
  /\ Send(m.job, m.gen)
  /\ swept' = (swept \ {m}) \union {[m EXCEPT !.at = "published"]}
  /\ UNCHANGED <<rowVars, pub, worker>>

SweptRefused(m) ==
  /\ Marking = {}
  /\ swept' = swept \ {m}
  /\ UNCHANGED <<rowVars, queueVars, pub, worker>>

SweptMark(m) ==
  /\ m \in Marking
  /\ Mark(m.job, m.gen)
  /\ swept' = swept \ {m}
  /\ UNCHANGED <<status, attempts, claimToken, result, lease, claims,
                 queueVars, pub, worker>>

SweepStep ==
  \E m \in swept : SweptPublish(m) \/ SweptRefused(m) \/ SweptMark(m)

-----------------------------------------------------------------------------
\* The worker.

Receive(w, c) ==
  /\ worker[w] = Idle
  /\ carries[c] # NoJob
  /\ worker' = [worker EXCEPT ![w] = [at |-> "received", job |-> carries[c], copy |-> c]]
  /\ UNCHANGED <<rowVars, queueVars, pub, swept>>

\* The worker deletes its delivery and waits for the next one.
Settle(w) ==
  /\ worker' = [worker EXCEPT ![w] = Idle]
  /\ Delete(worker[w].copy)

Claimable(j) == status[j] = "pending"

\* The API grants the claim.  The answer may carry the URL of the photo, or a
\* token only (the URL could not be signed), or be lost.
Claim(w) ==
  LET j == worker[w].job IN
  /\ worker[w].at = "received"
  /\ Claimable(j)
  /\ status' = [status EXCEPT ![j] = "running"]
  /\ lease' = [lease EXCEPT ![j] = "live"]
  /\ claims' = [claims EXCEPT ![j] = @ + 1]
  /\ claimToken' = [claimToken EXCEPT ![j] = claims[j] + 1]
  /\ \/ \E at \in {"working", "failing"} :
          worker' = [worker EXCEPT ![w] =
            [at |-> at, job |-> j, copy |-> @.copy, token |-> claims[j] + 1]]
     \/ worker' = [worker EXCEPT ![w] = Idle]
  /\ UNCHANGED <<attempts, result, marker, queueVars, pub, swept>>

\* Nothing to do: the job is finished or another worker's.
ClaimNothing(w) ==
  /\ worker[w].at = "received"
  /\ ~Claimable(worker[w].job)
  /\ Settle(w)
  /\ UNCHANGED <<rowVars, sent, pub, swept>>

\* The API keeps failing and the delivery has been received too often.
Drop(w) ==
  /\ worker[w].at = "received"
  /\ Settle(w)
  /\ UNCHANGED <<rowVars, sent, pub, swept>>

\* The process dies, or an error leaves the delivery in the queue.
LoseTrack(w) ==
  /\ worker[w].at \in {"received", "working", "failing"}
  /\ worker' = [worker EXCEPT ![w] = Idle]
  /\ UNCHANGED <<rowVars, queueVars, pub, swept>>

\* The photo could not be downloaded or the detector failed.
InferenceFails(w) ==
  /\ worker[w].at = "working"
  /\ worker' = [worker EXCEPT ![w].at = "failing"]
  /\ UNCHANGED <<rowVars, queueVars, pub, swept>>

\* Faulty variant: a report is accepted from whoever has ever claimed the job.
TokenIssued(w) == worker[w].token # 0

TokenMatches(w) == worker[w].token = claimToken[worker[w].job]

\* complete_detection_job; a repeated completion is answered with the first.  A
\* report whose answer is lost may arrive again.
Complete(w) ==
  LET j == worker[w].job IN
  /\ worker[w].at = "working"
  /\ TokenMatches(w)
  /\ status[j] \in {"running", "completed"}
  /\ status' = [status EXCEPT ![j] = "completed"]
  /\ result' = [result EXCEPT ![j] = IF status[j] = "running" THEN worker[w].token ELSE @]
  /\ lease' = [lease EXCEPT ![j] = "none"]
  /\ \/ Settle(w)
     \/ UNCHANGED <<worker, carries>>
  /\ UNCHANGED <<attempts, claimToken, marker, claims, sent, pub, swept>>

\* fail_detection_job, first transaction.
Fail(w) ==
  LET j == worker[w].job IN
  /\ worker[w].at = "failing"
  /\ TokenMatches(w)
  /\ status[j] = "running"
  /\ attempts' = [attempts EXCEPT ![j] = @ + 1]
  /\ lease' = [lease EXCEPT ![j] = "none"]
  /\ IF Spent(attempts'[j])
     THEN /\ status' = [status EXCEPT ![j] = "failed"]
          /\ \/ Settle(w)
             \/ UNCHANGED <<worker, carries>>
          /\ UNCHANGED <<marker, claimToken, pub>>
     ELSE /\ status' = [status EXCEPT ![j] = "pending"]
          /\ marker' = [marker EXCEPT ![j] = "none"]
          /\ claimToken' = [claimToken EXCEPT ![j] = 0]
          /\ pub' = [pub EXCEPT ![w] = Asked(j)]
          /\ worker' = [worker EXCEPT ![w].at = "reported"]
          /\ UNCHANGED carries
  /\ UNCHANGED <<result, claims, sent, swept>>

\* A repeated report of a finished job.
FailAgain(w) ==
  /\ worker[w].at = "failing"
  /\ TokenMatches(w)
  /\ status[worker[w].job] \in {"completed", "failed"}
  /\ Settle(w)
  /\ UNCHANGED <<rowVars, sent, pub, swept>>

WorkerStep(w) ==
  \/ \E c \in Copies : Receive(w, c)
  \/ Claim(w)
  \/ ClaimNothing(w)
  \/ Drop(w)
  \/ LoseTrack(w)
  \/ InferenceFails(w)
  \/ Complete(w)
  \/ Fail(w)
  \/ FailAgain(w)

-----------------------------------------------------------------------------

LeaseExpires(j) ==
  /\ lease[j] = "live"
  /\ lease' = [lease EXCEPT ![j] = "expired"]
  /\ UNCHANGED <<status, attempts, claimToken, result, marker, claims,
                 queueVars, pub, swept, worker>>

MarkerAges(j) ==
  /\ marker[j] = "fresh"
  /\ marker' = [marker EXCEPT ![j] = "stale"]
  /\ UNCHANGED <<status, attempts, claimToken, result, lease, claims,
                 queueVars, pub, swept, worker>>

\* The API process dies with the requests it serves and its sweep.
Restart ==
  /\ pub' = [c \in Clients |-> NoTask]
  /\ swept' = {}
  /\ worker' = [w \in Workers |-> IF worker[w].at = "reported" THEN Idle ELSE worker[w]]
  /\ UNCHANGED <<rowVars, queueVars>>

Next ==
  \/ \E c \in Clients : ReadRow(c) \/ Publish(c) \/ QueueRefuses(c) \/ MarkRow(c)
  \/ \E e \in Editors, j \in Jobs : Request(e, j)
  \/ Sweep
  \/ SweepStep
  \/ \E w \in Workers : WorkerStep(w)
  \/ \E j \in Jobs : LeaseExpires(j) \/ MarkerAges(j)
  \/ Restart

\* Time passes and the scheduler keeps sweeping; nothing is assumed of workers,
\* editors or the queue.
Fairness ==
  /\ \A j \in Jobs : WF_vars(LeaseExpires(j)) /\ WF_vars(MarkerAges(j))
  /\ WF_vars(Sweep)
  /\ WF_vars(SweepStep)

Spec == Init /\ [][Next]_vars /\ Fairness

-----------------------------------------------------------------------------

\* The marker of a waiting job is true: the queue accepted a message for this very
\* attempt, so a publication of an older attempt that is recorded late cannot make
\* a job look enqueued that is not.
MarkedMeansSent ==
  \A j \in Jobs : status[j] = "pending" /\ marker[j] # "none" => attempts[j] \in sent[j]

\* The result kept is the one of the last claim: a worker whose lease ran out
\* cannot report over the worker that took the job after it.
ResultOfLastClaim ==
  \A j \in Jobs : status[j] = "completed" => result[j] = claims[j] /\ result[j] > 0

\* However deliveries are duplicated, a photo is processed at most MaxAttempts
\* times, and a job fails only when its budget is spent.
ClaimsWithinBudget ==
  \A j \in Jobs :
    /\ claims[j] <= MaxAttempts
    /\ status[j] = "failed" => attempts[j] = MaxAttempts
    /\ status[j] \in {"pending", "running"} => attempts[j] < MaxAttempts

\* The rows move as JobLifecycle allows: a finished job stays finished.
J == INSTANCE JobLifecycle WITH state <- status
ImplementsJobs == J!JobsSpec

\* Whatever dies or is lost, a job that was asked for ends.
AskedEventuallyFinished ==
  \A j \in Jobs : status[j] = "pending" ~> status[j] \in {"completed", "failed"}

\* Markers, results and claims are right at every moment.
DetectionInvariant ==
  /\ DetectionTypeOK
  /\ MarkedMeansSent
  /\ ResultOfLastClaim
  /\ ClaimsWithinBudget
=============================================================================
