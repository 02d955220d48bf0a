--------------------------- MODULE WorkerJobs_proofs ---------------------------
(***************************************************************************)
(* Proofs about both worker queues, for any number of detection jobs,      *)
(* captures, workers and deliveries and any budget of attempts: markers,   *)
(* results and drafts are right at every moment, and both tables move as   *)
(* JobLifecycle allows.  Detection first, then the captures.               *)
(***************************************************************************)
EXTENDS WorkerJobs, TLAPS

\* What a row says of its own history, condition by condition.
RowRight(j) ==
  /\ status[j] = "none" => attempts[j] = 0 /\ claims[j] = 0 /\ marker[j] = "none"
  /\ status[j] = "pending" =>
       /\ claims[j] <= attempts[j] /\ attempts[j] < MaxAttempts
       /\ marker[j] # "none" => attempts[j] \in sent[j]
  /\ status[j] = "running" =>
       /\ 0 < claims[j] /\ claims[j] <= attempts[j] + 1 /\ attempts[j] < MaxAttempts
       /\ claimToken[j] = claims[j]
  /\ status[j] = "completed" =>
       0 < claims[j] /\ claims[j] <= MaxAttempts /\ result[j] = claims[j]
  /\ status[j] = "failed" => claims[j] <= MaxAttempts /\ attempts[j] = MaxAttempts
RowsRight == \A j \in Jobs : RowRight(j)

\* A publication that is about to be recorded has been accepted by the queue.
PublishedIsSent ==
  /\ \A c \in Clients :
       pub[c] # NoTask /\ pub[c].at = "published" => pub[c].gen \in sent[pub[c].job]
  /\ \A m \in Marking : m.gen \in sent[m.job]

DetectionIInv == DetectionTypeOK /\ RowsRight /\ PublishedIsSent

\* The rows of every job but j stay as they are.
OthersKept(j) ==
  \A i \in Jobs \ {j} :
    /\ status'[i] = status[i] /\ attempts'[i] = attempts[i] /\ claims'[i] = claims[i]
    /\ claimToken'[i] = claimToken[i] /\ result'[i] = result[i]
    /\ marker'[i] = marker[i] /\ sent[i] \subseteq sent'[i]

-----------------------------------------------------------------------------

LEMMA DetectionInitIInv == ASSUME DetectionAssumption, Init PROVE DetectionIInv
<1> USE DEF DetectionAssumption, Init
<1>1. DetectionTypeOK
  BY DEF DetectionTypeOK, Idle
<1>2. RowsRight
  BY DEF RowsRight, RowRight
<1>3. PublishedIsSent
  BY DEF PublishedIsSent, Marking
<1> QED BY <1>1, <1>2, <1>3 DEF DetectionIInv

-----------------------------------------------------------------------------
(* Types. *)

LEMMA AnswerTypes ==
  ASSUME DetectionTypeOK, NEW c \in Clients, NEW ok \in BOOLEAN, Answer(c, ok)
  PROVE  /\ pub' \in [Clients -> Publications \union {NoTask}]
         /\ worker' \in [Workers -> {Idle} \union Deliveries \union Claimed]
         /\ carries' \in [Copies -> Jobs \union {NoJob}]
<1> USE DEF DetectionTypeOK, Answer
<1>1. pub' \in [Clients -> Publications \union {NoTask}]
  OBVIOUS
<1>2. worker' \in [Workers -> {Idle} \union Deliveries \union Claimed]
  OBVIOUS
<1>3. carries' \in [Copies -> Jobs \union {NoJob}]
  BY DEF Delete
<1> QED BY <1>1, <1>2, <1>3

LEMMA SendTypes ==
  ASSUME DetectionTypeOK, NEW j \in Jobs, NEW gen \in 0 .. MaxAttempts, Send(j, gen)
  PROVE  /\ sent' \in [Jobs -> SUBSET (0 .. MaxAttempts)]
         /\ carries' \in [Copies -> Jobs \union {NoJob}]
BY DEF DetectionTypeOK, Send

LEMMA MarkTypes ==
  ASSUME DetectionTypeOK, NEW j \in Jobs, NEW gen, Mark(j, gen)
  PROVE  marker' \in [Jobs -> {"none", "fresh", "stale"}]
BY DEF DetectionTypeOK, Mark

LEMMA PublicationTypes ==
  ASSUME DetectionTypeOK, NEW c \in Clients,
         ReadRow(c) \/ Publish(c) \/ QueueRefuses(c) \/ MarkRow(c)
  PROVE  DetectionTypeOK'
<1>1. pub[c] \in Publications
  BY DEF ReadRow, Publish, QueueRefuses, MarkRow, DetectionTypeOK
<1>2. pub[c].job \in Jobs /\ pub[c].gen \in 0 .. MaxAttempts
  BY <1>1 DEF Publications
<1>3. CASE ReadRow(c)
  <2>1. CASE Unenqueued(pub[c].job)
    <3>1. [job |-> pub[c].job, gen |-> attempts[pub[c].job], at |-> "read"] \in Publications
      BY <1>2 DEF DetectionTypeOK, Publications
    <3> QED BY <1>3, <2>1, <3>1 DEF ReadRow, DetectionTypeOK, rowVars
  <2>2. CASE Answer(c, TRUE)
    BY <1>3, <2>2, AnswerTypes DEF ReadRow, DetectionTypeOK, rowVars
  <2> QED BY <1>3, <2>1, <2>2 DEF ReadRow
<1>4. CASE Publish(c)
  <2>1. [pub[c] EXCEPT !.at = "published"] \in Publications
    BY <1>1 DEF Publications
  <2> QED BY <1>2, <1>4, <2>1, SendTypes DEF Publish, DetectionTypeOK, rowVars
<1>5. CASE QueueRefuses(c)
  BY <1>5, AnswerTypes DEF QueueRefuses, DetectionTypeOK, rowVars
<1>6. CASE MarkRow(c)
  <2>1. PICK ok \in BOOLEAN : Answer(c, ok)
    BY <1>6 DEF MarkRow, Answer
  <2>2. marker' \in [Jobs -> {"none", "fresh", "stale"}]
    BY <1>2, <1>6, MarkTypes DEF MarkRow
  <2> QED BY <1>6, <2>1, <2>2, AnswerTypes DEF MarkRow, DetectionTypeOK
<1> QED BY <1>3, <1>4, <1>5, <1>6

LEMMA SweepTypes ==
  ASSUME DetectionAssumption, DetectionTypeOK, RowsRight, Sweep \/ SweepStep
  PROVE  DetectionTypeOK'
<1>1. CASE Sweep
  <2>1. attempts' \in [Jobs -> 0 .. MaxAttempts]
    BY <1>1 DEF Sweep, Counted, Spent, DetectionTypeOK, DetectionAssumption
  <2>2. swept' \subseteq Publications
    BY <1>1, <2>1 DEF Sweep, Publications
  <2> QED BY <1>1, <2>1, <2>2 DEF Sweep, DetectionTypeOK, queueVars
<1>2. ASSUME NEW m \in swept, SweptPublish(m) \/ SweptRefused(m) \/ SweptMark(m)
      PROVE  DetectionTypeOK'
  <2>1. m \in Publications /\ m.job \in Jobs /\ m.gen \in 0 .. MaxAttempts
    BY DEF DetectionTypeOK, Publications
  <2>2. CASE SweptPublish(m)
    <3>1. [m EXCEPT !.at = "published"] \in Publications
      BY <2>1 DEF Publications
    <3> QED BY <2>1, <2>2, <3>1, SendTypes DEF SweptPublish, DetectionTypeOK, rowVars
  <2>3. CASE SweptRefused(m)
    BY <2>3 DEF SweptRefused, DetectionTypeOK, rowVars, queueVars
  <2>4. CASE SweptMark(m)
    BY <2>1, <2>4, MarkTypes DEF SweptMark, DetectionTypeOK, queueVars
  <2> QED BY <1>2, <2>2, <2>3, <2>4
<1> QED BY <1>1, <1>2 DEF SweepStep

LEMMA WorkerTypes ==
  ASSUME DetectionAssumption, DetectionTypeOK, RowsRight, NEW w \in Workers, WorkerStep(w)
  PROVE  DetectionTypeOK'
<1>1. worker[w] \in {Idle} \union Deliveries \union Claimed /\ w \in Clients
  BY DEF DetectionTypeOK, Clients
<1>2. ASSUME worker[w] # Idle
      PROVE  worker[w] \in Deliveries \union Claimed /\ worker[w].job \in Jobs /\ worker[w].copy \in Copies
  BY <1>1, <1>2 DEF Deliveries, Claimed
<1>3. ASSUME worker[w].at # "idle" PROVE worker[w] # Idle
  BY <1>3 DEF Idle
<1>4. ASSUME worker[w].at \in {"working", "failing", "reported"}
      PROVE  worker[w] \in Claimed
  BY <1>1, <1>4 DEF Idle, Deliveries
<1>5. ASSUME Settle(w)
      PROVE  /\ worker' \in [Workers -> {Idle} \union Deliveries \union Claimed]
             /\ carries' \in [Copies -> Jobs \union {NoJob}]
  BY <1>5 DEF Settle, Delete, DetectionTypeOK
<1>6. ASSUME NEW at \in {"working", "failing", "reported"}, worker[w] \in Claimed
      PROVE  [worker[w] EXCEPT !.at = at] \in Claimed
  BY <1>6 DEF Claimed
<1>7. ASSUME NEW c \in Copies, Receive(w, c) PROVE DetectionTypeOK'
  <2>1. carries[c] \in Jobs
    BY <1>7 DEF Receive, DetectionTypeOK
  <2>2. [at |-> "received", job |-> carries[c], copy |-> c] \in Deliveries
    BY <2>1 DEF Deliveries
  <2> QED BY <1>7, <2>2 DEF Receive, DetectionTypeOK, rowVars, queueVars
<1>8. CASE Claim(w)
  <2> DEFINE j == worker[w].job
  <2>1. j \in Jobs /\ worker[w].copy \in Copies
    BY <1>8, <1>2, <1>3 DEF Claim
  <2>2. claims[j] + 1 \in Nat
    BY <2>1 DEF DetectionTypeOK
  <2>3. \A at \in {"working", "failing"} :
          [at |-> at, job |-> j, copy |-> worker[w].copy, token |-> claims[j] + 1] \in Claimed
    BY <2>1, <2>2 DEF Claimed
  <2>4. worker' \in [Workers -> {Idle} \union Deliveries \union Claimed]
    BY <1>8, <2>3 DEF Claim, DetectionTypeOK
  <2> QED BY <1>8, <2>1, <2>2, <2>4 DEF Claim, DetectionTypeOK, queueVars
<1>9. CASE ClaimNothing(w) \/ Drop(w)
  BY <1>5, <1>9 DEF ClaimNothing, Drop, DetectionTypeOK, rowVars
<1>10. CASE LoseTrack(w)
  BY <1>10 DEF LoseTrack, DetectionTypeOK, rowVars, queueVars
<1>11. CASE InferenceFails(w)
  <2>1. [worker[w] EXCEPT !.at = "failing"] \in Claimed
    BY <1>4, <1>6, <1>11 DEF InferenceFails
  <2> QED BY <1>11, <2>1 DEF InferenceFails, DetectionTypeOK, rowVars, queueVars
<1>12. CASE Complete(w)
  <2>1. worker[w].job \in Jobs /\ worker[w].token \in Nat
    BY <1>4, <1>12 DEF Complete, Claimed
  <2>2. /\ worker' \in [Workers -> {Idle} \union Deliveries \union Claimed]
        /\ carries' \in [Copies -> Jobs \union {NoJob}]
    BY <1>5, <1>12 DEF Complete, DetectionTypeOK
  <2> QED BY <1>12, <2>1, <2>2 DEF Complete, DetectionTypeOK
<1>13. CASE Fail(w)
  <2> DEFINE j == worker[w].job
  <2>1. j \in Jobs /\ status[j] = "running"
    BY <1>4, <1>13 DEF Fail, Claimed
  <2>2. attempts[j] + 1 \in 0 .. MaxAttempts
    BY <2>1 DEF RowsRight, RowRight, DetectionTypeOK, DetectionAssumption
  <2>3. attempts' \in [Jobs -> 0 .. MaxAttempts]
    BY <1>13, <2>1, <2>2 DEF Fail, DetectionTypeOK
  <2>4. Asked(j) \in Publications /\ [worker[w] EXCEPT !.at = "reported"] \in Claimed
    BY <1>4, <1>6, <1>13, <2>1 DEF Fail, Asked, Publications, DetectionAssumption
  <2>5. /\ worker' \in [Workers -> {Idle} \union Deliveries \union Claimed]
        /\ carries' \in [Copies -> Jobs \union {NoJob}]
    BY <1>5, <1>13, <2>4 DEF Fail, DetectionTypeOK
  <2>6. pub' \in [Clients -> Publications \union {NoTask}]
    BY <1>13, <2>4 DEF Fail, DetectionTypeOK
  <2>7. /\ status' \in [Jobs -> {"none", "pending", "running", "completed", "failed"}]
        /\ claimToken' \in [Jobs -> Nat]
        /\ lease' \in [Jobs -> {"none", "live", "expired"}]
        /\ marker' \in [Jobs -> {"none", "fresh", "stale"}]
    <3>1. CASE Spent(attempts'[j])
      BY <1>13, <2>1, <3>1 DEF Fail, DetectionTypeOK
    <3>2. CASE ~Spent(attempts'[j])
      BY <1>13, <2>1, <3>2 DEF Fail, DetectionTypeOK
    <3> QED BY <3>1, <3>2
  <2>8. UNCHANGED <<result, claims, sent, swept>>
    BY <1>13 DEF Fail
  <2> HIDE DEF j
  <2> QED BY <2>3, <2>5, <2>6, <2>7, <2>8 DEF DetectionTypeOK
<1>14. CASE FailAgain(w)
  BY <1>5, <1>14 DEF FailAgain, DetectionTypeOK, rowVars
<1> QED
  BY <1>7, <1>8, <1>9, <1>10, <1>11, <1>12, <1>13, <1>14 DEF WorkerStep

LEMMA DetectionTypes ==
  ASSUME DetectionAssumption, DetectionTypeOK, RowsRight, Next
  PROVE  DetectionTypeOK'
<1>1. ASSUME NEW e \in Editors, NEW j \in Jobs, Request(e, j) PROVE DetectionTypeOK'
  <2>1. Asked(j) \in Publications
    BY DEF Asked, Publications, DetectionAssumption
  <2> QED BY <1>1, <2>1 DEF Request, DetectionTypeOK, queueVars
<1>2. ASSUME NEW j \in Jobs, LeaseExpires(j) \/ MarkerAges(j) PROVE DetectionTypeOK'
  BY <1>2 DEF LeaseExpires, MarkerAges, DetectionTypeOK, queueVars
<1>3. CASE Restart
  <2>1. worker' \in [Workers -> {Idle} \union Deliveries \union Claimed]
    BY <1>3 DEF Restart, DetectionTypeOK
  <2> QED BY <1>3, <2>1 DEF Restart, DetectionTypeOK, rowVars, queueVars
<1> QED BY <1>1, <1>2, <1>3, PublicationTypes, SweepTypes, WorkerTypes DEF Next

-----------------------------------------------------------------------------
(* Rows. *)

\* A publication, by whoever performs it, touches no column but the marker, which
\* it sets for the attempt the queue has accepted.
LEMMA MarkRows ==
  ASSUME DetectionTypeOK, RowsRight, NEW j \in Jobs, NEW gen,
         Mark(j, gen), gen \in sent[j],
         UNCHANGED <<status, attempts, claimToken, result, claims, sent>>
  PROVE  RowsRight'
BY DEF DetectionTypeOK, RowsRight, RowRight, Mark, Unenqueued

\* The queue has accepted more and no row is touched.
LEMMA SentRows ==
  ASSUME RowsRight, UNCHANGED rowVars, \A j \in Jobs : sent[j] \subseteq sent'[j]
  PROVE  RowsRight'
BY DEF RowsRight, RowRight, rowVars

\* A step about one job.
LEMMA OneRow ==
  ASSUME RowsRight, NEW j \in Jobs, OthersKept(j), RowRight(j)'
  PROVE  RowsRight'
<1> SUFFICES ASSUME NEW i \in Jobs PROVE RowRight(i)'
  BY DEF RowsRight
<1>1. CASE i = j
  BY <1>1
<1>2. CASE i # j
  BY <1>2 DEF OthersKept, RowsRight, RowRight
<1> QED BY <1>1, <1>2

LEMMA PublicationRows ==
  ASSUME DetectionIInv, NEW c \in Clients,
         ReadRow(c) \/ Publish(c) \/ QueueRefuses(c) \/ MarkRow(c)
  PROVE  RowsRight'
<1> USE DEF DetectionIInv
<1>1. CASE ReadRow(c) \/ QueueRefuses(c)
  BY <1>1, SentRows DEF ReadRow, QueueRefuses
<1>2. CASE Publish(c)
  <2>1. \A j \in Jobs : sent[j] \subseteq sent'[j]
    BY <1>2 DEF Publish, Send, DetectionTypeOK
  <2> QED BY <1>2, <2>1, SentRows DEF Publish
<1>3. CASE MarkRow(c)
  <2>1. pub[c].job \in Jobs /\ pub[c].gen \in sent[pub[c].job]
    BY <1>3 DEF MarkRow, DetectionTypeOK, Publications, PublishedIsSent
  <2> QED BY <1>3, <2>1, MarkRows DEF MarkRow
<1> QED BY <1>1, <1>2, <1>3

LEMMA SweepRows ==
  ASSUME DetectionAssumption, DetectionIInv, Sweep \/ SweepStep
  PROVE  RowsRight'
<1> USE DEF DetectionIInv
<1>1. CASE Sweep
  <2> SUFFICES ASSUME NEW j \in Jobs PROVE RowRight(j)'
    BY DEF RowsRight
  <2>1. CASE Recoverable(j)
    <3>1. status[j] \in {"pending", "running"} /\ attempts[j] < MaxAttempts
      BY <2>1 DEF Recoverable, Expired, Unclaimed, RowsRight, RowRight
    <3>2. attempts'[j] = attempts[j] + 1 /\ claims'[j] = claims[j] /\ marker'[j] = "none"
      BY <1>1, <2>1, <3>1 DEF Sweep, Counted, Spent, DetectionTypeOK, DetectionAssumption
    <3>3. status'[j] = IF attempts[j] + 1 >= MaxAttempts THEN "failed" ELSE "pending"
      BY <1>1, <2>1, <3>2 DEF Sweep, Spent
    <3>4. claims[j] <= attempts[j] + 1
      BY <3>1 DEF RowsRight, RowRight, DetectionTypeOK
    <3> QED BY <3>1, <3>2, <3>3, <3>4 DEF RowRight, DetectionTypeOK, DetectionAssumption
  <2>2. CASE ~Recoverable(j)
    BY <1>1, <2>2 DEF Sweep, RowsRight, RowRight, queueVars
  <2> QED BY <2>1, <2>2
<1>2. ASSUME NEW m \in swept, SweptPublish(m) \/ SweptRefused(m) \/ SweptMark(m)
      PROVE  RowsRight'
  <2>1. m.job \in Jobs
    BY DEF DetectionTypeOK, Publications
  <2>2. CASE SweptPublish(m)
    <3>1. \A j \in Jobs : sent[j] \subseteq sent'[j]
      BY <2>2 DEF SweptPublish, Send, DetectionTypeOK
    <3> QED BY <2>2, <3>1, SentRows DEF SweptPublish
  <2>3. CASE SweptRefused(m)
    BY <2>3, SentRows DEF SweptRefused, queueVars
  <2>4. CASE SweptMark(m)
    BY <2>1, <2>4, MarkRows DEF SweptMark, PublishedIsSent, queueVars
  <2> QED BY <1>2, <2>2, <2>3, <2>4
<1> QED BY <1>1, <1>2 DEF SweepStep

LEMMA WorkerRows ==
  ASSUME DetectionAssumption, DetectionIInv, NEW w \in Workers, WorkerStep(w)
  PROVE  RowsRight'
<1> USE DEF DetectionIInv
<1>1. CASE UNCHANGED <<rowVars, sent>>
  BY <1>1, SentRows
<1>2. ASSUME worker[w].at # "idle" PROVE worker[w].job \in Jobs
  BY <1>2 DEF DetectionTypeOK, Idle, Deliveries, Claimed
<1>3. CASE Claim(w)
  <2> PICK j \in Jobs : j = worker[w].job
    BY <1>2, <1>3 DEF Claim
  <2>1. OthersKept(j)
    BY <1>3 DEF Claim, OthersKept, DetectionTypeOK, queueVars
  <2>2. status[j] = "pending" /\ claims[j] <= attempts[j] /\ attempts[j] < MaxAttempts
    BY <1>3, <2>1 DEF Claim, Claimable, RowsRight, RowRight
  <2>3. /\ status'[j] = "running" /\ attempts'[j] = attempts[j]
        /\ claims'[j] = claims[j] + 1 /\ claimToken'[j] = claims[j] + 1
    BY <1>3, <2>1 DEF Claim, DetectionTypeOK
  <2>4. RowRight(j)'
    BY <2>1, <2>2, <2>3 DEF RowRight, DetectionTypeOK, DetectionAssumption
  <2> QED BY <2>1, <2>4, OneRow
<1>4. CASE Complete(w)
  <2> PICK j \in Jobs : j = worker[w].job
    BY <1>2, <1>4 DEF Complete
  <2>1. OthersKept(j)
    BY <1>4 DEF Complete, OthersKept, DetectionTypeOK
  <2>2. status'[j] = "completed" /\ claims'[j] = claims[j]
    BY <1>4, <2>1 DEF Complete, DetectionTypeOK
  <2>3. 0 < claims[j] /\ claims[j] <= MaxAttempts
    BY <1>4, <2>1
    DEF Complete, RowsRight, RowRight, DetectionTypeOK, DetectionAssumption
  <2>4. result'[j] = claims[j]
    BY <1>4, <2>1 DEF Complete, TokenMatches, RowsRight, RowRight, DetectionTypeOK
  <2>5. RowRight(j)'
    BY <2>2, <2>3, <2>4 DEF RowRight
  <2> QED BY <2>1, <2>5, OneRow
<1>5. CASE Fail(w)
  <2> PICK j \in Jobs : j = worker[w].job
    BY <1>2, <1>5 DEF Fail
  <2>1. OthersKept(j)
    BY <1>5 DEF Fail, OthersKept, DetectionTypeOK
  <2>2. status[j] = "running" /\ claims[j] <= attempts[j] + 1 /\ attempts[j] < MaxAttempts
    BY <1>5, <2>1 DEF Fail, RowsRight, RowRight
  <2>3. attempts'[j] = attempts[j] + 1 /\ claims'[j] = claims[j]
    BY <1>5, <2>1 DEF Fail, DetectionTypeOK
  <2>4. \/ status'[j] = "failed" /\ attempts'[j] >= MaxAttempts
        \/ status'[j] = "pending" /\ attempts'[j] < MaxAttempts /\ marker'[j] = "none"
    BY <1>5, <2>1, <2>3 DEF Fail, Spent, DetectionTypeOK, DetectionAssumption
  <2>5. RowRight(j)'
    BY <2>1, <2>2, <2>3, <2>4 DEF RowRight, DetectionTypeOK, DetectionAssumption
  <2> QED BY <2>1, <2>5, OneRow
<1> QED
  BY <1>1, <1>3, <1>4, <1>5
  DEF WorkerStep, Receive, ClaimNothing, Drop, LoseTrack, InferenceFails, FailAgain, queueVars

LEMMA DetectionRows ==
  ASSUME DetectionAssumption, DetectionIInv, Next
  PROVE  RowsRight'
<1> USE DEF DetectionIInv
<1>1. ASSUME NEW e \in Editors, NEW j \in Jobs, Request(e, j) PROVE RowsRight'
  <2>1. OthersKept(j)
    BY <1>1 DEF Request, OthersKept, DetectionTypeOK, queueVars
  <2>2. RowRight(j)'
    BY <1>1
    DEF Request, Unenqueued, RowsRight, RowRight, DetectionTypeOK, DetectionAssumption, queueVars
  <2> QED BY <2>1, <2>2, OneRow
<1>2. ASSUME NEW j \in Jobs, LeaseExpires(j) \/ MarkerAges(j) PROVE RowsRight'
  BY <1>2
  DEF LeaseExpires, MarkerAges, RowsRight, RowRight, DetectionTypeOK, queueVars
<1>3. CASE Restart
  BY <1>3, SentRows DEF Restart, queueVars
<1> QED BY <1>1, <1>2, <1>3, PublicationRows, SweepRows, WorkerRows DEF Next

-----------------------------------------------------------------------------
(* Publications. *)

\* Nobody begins to record a publication unless the queue accepted it.
LEMMA DetectionPublished ==
  ASSUME DetectionAssumption, DetectionIInv, Next
  PROVE  PublishedIsSent'
<1> USE DEF DetectionIInv
<1>1. \A j \in Jobs : sent[j] \subseteq sent'[j]
  <2>1. ASSUME NEW j \in Jobs, NEW gen, Send(j, gen)
        PROVE  \A i \in Jobs : sent[i] \subseteq sent'[i]
    BY <2>1 DEF Send, DetectionTypeOK
  <2>2. CASE \E c \in Clients : Publish(c)
    BY <2>1, <2>2 DEF Publish, DetectionTypeOK, Publications
  <2>3. CASE \E m \in swept : SweptPublish(m)
    BY <2>1, <2>3 DEF SweptPublish, DetectionTypeOK, Publications
  <2>4. CASE sent' = sent
    BY <2>4
  <2> QED
    BY <2>2, <2>3, <2>4
    DEF Next, SweepStep, WorkerStep, ReadRow, QueueRefuses, MarkRow, Request, Sweep,
        SweptRefused, SweptMark, Receive, Claim, ClaimNothing, Drop, LoseTrack,
        InferenceFails, Complete, Fail, FailAgain, LeaseExpires, MarkerAges, Restart,
        queueVars
<1>2. ASSUME NEW c \in Clients, pub'[c] # NoTask, pub'[c].at = "published"
      PROVE  pub'[c].gen \in sent'[pub'[c].job]
  <2>1. CASE pub'[c] = pub[c]
    BY <1>1, <1>2, <2>1 DEF PublishedIsSent, DetectionTypeOK, Publications
  <2>2. CASE Publish(c)
    BY <2>2 DEF Publish, Send, DetectionTypeOK, Publications
  <2>3. ASSUME NEW d \in Clients, ReadRow(d) \/ Publish(d) \/ QueueRefuses(d) \/ MarkRow(d)
        PROVE  pub'[c] = pub[c] \/ Publish(c)
    BY <1>2, <2>3 DEF ReadRow, Publish, QueueRefuses, MarkRow, Answer, DetectionTypeOK
  <2>4. ASSUME NEW e \in Editors, NEW j \in Jobs, Request(e, j)
        PROVE  pub'[c] = pub[c]
    BY <1>2, <2>4 DEF Request, Asked, DetectionTypeOK
  <2>5. ASSUME NEW w \in Workers, WorkerStep(w)
        PROVE  pub'[c] = pub[c]
    BY <1>2, <2>5
    DEF WorkerStep, Receive, Claim, ClaimNothing, Drop, LoseTrack, InferenceFails,
        Complete, Fail, FailAgain, Asked, DetectionTypeOK
  <2>6. CASE Restart
    BY <1>2, <2>6 DEF Restart
  <2> QED
    BY <2>1, <2>2, <2>3, <2>4, <2>5, <2>6
    DEF Next, Sweep, SweepStep, SweptPublish, SweptRefused, SweptMark, LeaseExpires, MarkerAges
<1>3. ASSUME NEW m \in Marking' PROVE m.gen \in sent'[m.job]
  <2>1. m \in swept' /\ m.at = "published"
    BY DEF Marking
  <2>2. CASE m \in swept
    BY <1>1, <2>1, <2>2 DEF Marking, PublishedIsSent, DetectionTypeOK, Publications
  <2>3. ASSUME NEW n \in swept, SweptPublish(n), m \notin swept
        PROVE  m.gen \in sent'[m.job]
    <3>1. m = [n EXCEPT !.at = "published"] /\ n \in Publications
      BY <2>1, <2>3 DEF SweptPublish, DetectionTypeOK
    <3>2. m.gen = n.gen /\ m.job = n.job /\ n.job \in Jobs
      BY <3>1 DEF Publications
    <3> QED BY <2>3, <3>2 DEF SweptPublish, Send, DetectionTypeOK
  <2>4. CASE Sweep
    BY <2>1, <2>4 DEF Sweep
  <2> QED
    BY <2>1, <2>2, <2>3, <2>4
    DEF Next, SweepStep, WorkerStep, ReadRow, Publish, QueueRefuses, MarkRow, Request,
        SweptRefused, SweptMark, Receive, Claim, ClaimNothing, Drop, LoseTrack,
        InferenceFails, Complete, Fail, FailAgain, LeaseExpires, MarkerAges, Restart
<1> QED BY <1>2, <1>3 DEF PublishedIsSent

-----------------------------------------------------------------------------
(* The theorems. *)

LEMMA DetectionInductive ==
  ASSUME DetectionAssumption, DetectionIInv, [Next]_vars
  PROVE  DetectionIInv'
<1>1. CASE Next
  BY <1>1, DetectionTypes, DetectionRows, DetectionPublished DEF DetectionIInv
<1>2. CASE UNCHANGED vars
  BY <1>2
  DEF vars, rowVars, queueVars, DetectionIInv, DetectionTypeOK, RowsRight, RowRight,
      PublishedIsSent, Marking
<1> QED BY <1>1, <1>2

LEMMA DetectionInductiveInvariant ==
  ASSUME DetectionAssumption PROVE Spec => []DetectionIInv
<1>1. Init => DetectionIInv
  BY DetectionInitIInv
<1>2. DetectionIInv /\ [Next]_vars => DetectionIInv'
  BY DetectionInductive
<1> QED BY <1>1, <1>2, PTL DEF Spec

\* However messages are lost, delayed and duplicated and whoever dies: a marker
\* means that a message for this attempt was sent, a result is of the last claim,
\* and neither attempts nor claims exceed the budget.
THEOREM DetectionSafe == ASSUME DetectionAssumption PROVE Spec => []DetectionInvariant
<1>1. DetectionAssumption /\ DetectionIInv => DetectionInvariant
  BY DEF DetectionIInv, RowsRight, RowRight, DetectionInvariant, MarkedMeansSent,
         ResultOfLastClaim, ClaimsWithinBudget, DetectionTypeOK, DetectionAssumption
<1> QED BY <1>1, DetectionInductiveInvariant, PTL

\* What a step does to a row, JobLifecycle allows.
LEMMA DetectionMoves ==
  ASSUME DetectionAssumption, DetectionIInv, Next, NEW j \in Jobs
  PROVE  J!Moves(j) \/ UNCHANGED <<status[j], attempts[j]>>
<1> USE DEF DetectionIInv, J!Moves
<1>1. ASSUME NEW e \in Editors, NEW i \in Jobs, Request(e, i)
      PROVE  J!Moves(j) \/ UNCHANGED <<status[j], attempts[j]>>
  BY <1>1 DEF Request, Unenqueued, DetectionTypeOK
<1>2. CASE Sweep
  <2>1. CASE Recoverable(j)
    <3>1. status[j] \in {"pending", "running"} /\ attempts[j] < MaxAttempts
      BY <2>1 DEF Recoverable, Expired, Unclaimed, RowsRight, RowRight
    <3>2. attempts'[j] = attempts[j] + 1
      BY <1>2, <2>1, <3>1 DEF Sweep, Counted, Spent, DetectionTypeOK, DetectionAssumption
    <3>3. status'[j] = IF attempts'[j] >= MaxAttempts THEN "failed" ELSE "pending"
      BY <1>2, <2>1 DEF Sweep, Spent
    <3> QED BY <3>1, <3>2, <3>3 DEF J!Tried, DetectionTypeOK, DetectionAssumption
  <2>2. CASE ~Recoverable(j)
    BY <1>2, <2>2 DEF Sweep
  <2> QED BY <2>1, <2>2
<1>3. ASSUME NEW w \in Workers, WorkerStep(w)
      PROVE  J!Moves(j) \/ UNCHANGED <<status[j], attempts[j]>>
  <2>1. CASE Claim(w) \/ Complete(w)
    BY <2>1 DEF Claim, Claimable, Complete, DetectionTypeOK
  <2>2. CASE Fail(w)
    <3> DEFINE i == worker[w].job
    <3>1. CASE i # j
      BY <2>2, <3>1 DEF Fail, DetectionTypeOK
    <3>2. CASE i = j
      <4>1. status[j] = "running" /\ attempts'[j] = attempts[j] + 1
        BY <2>2, <3>2 DEF Fail, DetectionTypeOK
      <4>2. \/ status'[j] = "failed"
            \/ status'[j] = "pending" /\ attempts'[j] < MaxAttempts
        BY <2>2, <3>2, <4>1 DEF Fail, Spent, DetectionTypeOK, DetectionAssumption
      <4> QED BY <4>1, <4>2 DEF J!Tried
    <3> QED BY <3>1, <3>2
  <2> QED
    BY <1>3, <2>1, <2>2
    DEF WorkerStep, Receive, ClaimNothing, Drop, LoseTrack, InferenceFails, FailAgain, rowVars
<1> QED
  BY <1>1, <1>2, <1>3
  DEF Next, SweepStep, ReadRow, Publish, QueueRefuses, MarkRow, SweptPublish, SweptRefused,
      SweptMark, LeaseExpires, MarkerAges, Restart, rowVars

\* The table of detection jobs implements JobLifecycle: its columns status and
\* attempts move as that specification allows.
THEOREM DetectionImplementsJobs == ASSUME DetectionAssumption PROVE Spec => ImplementsJobs
<1>1. DetectionAssumption /\ Init => J!JobsInit
  BY DEF Init, J!JobsInit
<1>2. DetectionAssumption /\ DetectionIInv /\ DetectionIInv' /\ [Next]_vars
        => [J!JobsNext]_J!jobVars
  <2> SUFFICES ASSUME DetectionAssumption, DetectionIInv, DetectionIInv', Next
               PROVE  J!JobsNext
    BY DEF vars, rowVars, J!jobVars
  <2>1. status' \in [Jobs -> J!States] /\ attempts' \in [Jobs -> 0 .. MaxAttempts + 1]
    BY DEF DetectionIInv, DetectionTypeOK, J!States, J!Finished, DetectionAssumption
  <2> QED BY <2>1, DetectionMoves DEF J!JobsNext
<1> QED
  BY <1>1, <1>2, DetectionInductiveInvariant, PTL DEF Spec, ImplementsJobs, J!JobsSpec

-----------------------------------------------------------------------------
(* Captures.  The lines below are about the instance C of ReconstructionJobs. *)


\* What a capture's row says of its own history, condition by condition.
CaptureRight(c) ==
  /\ capture[c] \in {"none", "awaiting_upload"} =>
       tries[c] = 0 /\ capClaims[c] = 0 /\ capMarker[c] = "none"
  /\ capture[c] = "queued" =>
       /\ tries[c] < CaptureAttempts /\ capClaims[c] <= tries[c]
       /\ capMarker[c] # "none" => tries[c] \in capSent[c]
  /\ capture[c] = "processing" =>
       /\ tries[c] < CaptureAttempts /\ capToken[c] = capClaims[c]
       /\ capClaims[c] > 0 /\ capClaims[c] <= tries[c] + 1
  /\ capture[c] \in {"completed", "accepted"} => draft[c] = capClaims[c] /\ capClaims[c] > 0
  /\ capture[c] \in {"completed", "accepted", "failed"} => capClaims[c] <= CaptureAttempts
CapturesRight == \A c \in Captures : CaptureRight(c)

\* A publication that is about to be recorded has been accepted by the queue.
MessagesAreSent ==
  \A p \in publishing : p.at = "published" => p.gen \in capSent[p.capture]

\* The inductive invariant.
CaptureIInv == C!CaptureTypeOK /\ CapturesRight /\ MessagesAreSent

\* The rows of every capture but c stay as they are.
OtherCapturesKept(c) ==
  \A b \in Captures \ {c} :
    /\ capture'[b] = capture[b] /\ tries'[b] = tries[b] /\ capClaims'[b] = capClaims[b]
    /\ capToken'[b] = capToken[b] /\ draft'[b] = draft[b]
    /\ capMarker'[b] = capMarker[b]

-----------------------------------------------------------------------------

\* The initial state satisfies the inductive invariant.
LEMMA CaptureInitIInv == ASSUME C!ReconstructionAssumption, C!Init PROVE CaptureIInv
<1> USE DEF C!ReconstructionAssumption, C!Init
<1>1. C!CaptureTypeOK
  BY DEF C!CaptureTypeOK, C!Idle, C!Tasks, C!Statuses
<1>2. CapturesRight
  BY DEF CapturesRight, CaptureRight
<1>3. MessagesAreSent
  BY DEF MessagesAreSent
<1> QED BY <1>1, <1>2, <1>3 DEF CaptureIInv

-----------------------------------------------------------------------------
(* Types. *)

\* The steps of the app and of time keep the types.
LEMMA CaptureAppTypes ==
  ASSUME C!ReconstructionAssumption, C!CaptureTypeOK, NEW c \in Captures,
         \/ C!Register(c) \/ C!Upload(c) \/ C!ConfirmUpload(c) \/ C!Accept(c)
         \/ C!DeleteFrames(c) \/ C!DeletionFails(c)
         \/ C!LeaseExpires(c) \/ C!MarkerAges(c) \/ C!RetentionEnds(c) \/ C!UrlExpires(c)
  PROVE  C!CaptureTypeOK'
<1> USE DEF C!CaptureTypeOK, C!jobVars, C!frameVars, C!queueVars
<1>1. CASE C!Register(c)
  BY <1>1 DEF C!Register, C!Statuses
<1>2. CASE C!Upload(c)
  BY <1>2 DEF C!Upload
<1>3. CASE C!ConfirmUpload(c)
  <2>1. C!Asked(c) \in C!Publications
    BY DEF C!Asked, C!Publications, C!ReconstructionAssumption
  <2>2. due' \in [Captures -> BOOLEAN]
    BY <1>3 DEF C!ConfirmUpload
  <2> QED BY <1>3, <2>1, <2>2 DEF C!ConfirmUpload, C!Statuses
<1>4. CASE C!Accept(c)
  BY <1>4 DEF C!Accept, C!Statuses
<1>5. CASE C!DeleteFrames(c)
  BY <1>5 DEF C!DeleteFrames
<1>6. CASE C!DeletionFails(c)
  BY <1>6 DEF C!DeletionFails
<1>7. CASE C!LeaseExpires(c) \/ C!MarkerAges(c)
  BY <1>7 DEF C!LeaseExpires, C!MarkerAges
<1>8. CASE C!RetentionEnds(c) \/ C!UrlExpires(c)
  BY <1>8 DEF C!RetentionEnds, C!UrlExpires
<1> QED BY <1>1, <1>2, <1>3, <1>4, <1>5, <1>6, <1>7, <1>8

\* The steps of a publication and of the sweeps keep the types.
LEMMA CapturePublicationTypes ==
  ASSUME C!ReconstructionAssumption, C!CaptureTypeOK, CapturesRight,
         C!PublicationStep \/ C!RecoverySweep \/ C!ReadDue
  PROVE  C!CaptureTypeOK'
<1> USE DEF C!CaptureTypeOK, C!jobVars, C!frameVars, C!queueVars
<1>1. ASSUME NEW p \in publishing,
             C!ReadRow(p) \/ C!Publish(p) \/ C!MarkRow(p) \/ C!PublicationDies(p)
      PROVE  C!CaptureTypeOK'
  <2>1. p \in C!Publications /\ p.capture \in Captures /\ p.gen \in 0 .. CaptureAttempts
    BY DEF C!Publications
  <2>2. CASE C!ReadRow(p)
    <3>1. [capture |-> p.capture, gen |-> tries[p.capture], at |-> "read"] \in C!Publications
      BY <2>1 DEF C!Publications
    <3> QED BY <2>2, <3>1 DEF C!ReadRow
  <2>3. CASE C!Publish(p)
    <3>1. [p EXCEPT !.at = "published"] \in C!Publications
      BY <2>1 DEF C!Publications
    <3>2. capCarries' \in [CaptureCopies -> Captures \union {NoJob}]
      BY <2>1, <2>3 DEF C!Publish
    <3>3. capSent' \in [Captures -> SUBSET (0 .. CaptureAttempts)]
      BY <2>1, <2>3 DEF C!Publish
    <3> QED BY <2>3, <3>1, <3>2, <3>3 DEF C!Publish
  <2>4. CASE C!MarkRow(p)
    BY <2>4 DEF C!MarkRow, C!Mark
  <2>5. CASE C!PublicationDies(p)
    BY <2>5 DEF C!PublicationDies
  <2> QED BY <1>1, <2>2, <2>3, <2>4, <2>5
<1>2. CASE C!RecoverySweep
  <2>1. \A c \in Captures : C!Recoverable(c) => tries[c] + 1 \in 0 .. CaptureAttempts
    BY DEF C!Recoverable, CapturesRight, CaptureRight, C!ReconstructionAssumption
  <2>2. tries' \in [Captures -> 0 .. CaptureAttempts]
    BY <1>2, <2>1 DEF C!RecoverySweep
  <2>3. publishing' \subseteq C!Publications
    BY <1>2, <2>2 DEF C!RecoverySweep, C!Publications
  <2>4. capture' \in [Captures -> C!Statuses]
    BY <1>2 DEF C!RecoverySweep, C!Statuses
  <2> QED BY <1>2, <2>2, <2>3, <2>4 DEF C!RecoverySweep
<1>3. CASE C!ReadDue
  BY <1>3 DEF C!ReadDue
<1> QED BY <1>1, <1>2, <1>3 DEF C!PublicationStep

\* The worker's steps keep the types.
LEMMA CaptureWorkerTypes ==
  ASSUME C!ReconstructionAssumption, C!CaptureTypeOK, CapturesRight, NEW w \in Workers, C!WorkerStep(w)
  PROVE  C!CaptureTypeOK'
<1> USE DEF C!jobVars, C!frameVars, C!queueVars
<1> DEFINE Received == [at : {"received"}, capture : Captures, copy : CaptureCopies]
           Working == [at : {"claimed", "working", "failing", "rejecting"}, capture : Captures,
                       copy : CaptureCopies, token : Nat]
<1>1. C!Tasks = {C!Idle} \union Received \union Working
  BY DEF C!Tasks
<1>2. capWorker[w] \in {C!Idle} \union Received \union Working
  BY <1>1 DEF C!CaptureTypeOK
<1>3. ASSUME capWorker[w].at # "idle"
      PROVE  capWorker[w].capture \in Captures /\ capWorker[w].copy \in CaptureCopies
  BY <1>2, <1>3 DEF C!Idle
<1>4. ASSUME capWorker[w].at \in {"claimed", "working", "failing", "rejecting"}
      PROVE  capWorker[w] \in Working
  BY <1>2, <1>4 DEF C!Idle
<1>5. ASSUME NEW b \in BOOLEAN, C!Settle(w, b), capWorker[w] # C!Idle
      PROVE  /\ capWorker' \in [Workers -> C!Tasks]
             /\ capCarries' \in [CaptureCopies -> Captures \union {NoJob}]
  BY <1>1, <1>5 DEF C!Settle, C!CaptureTypeOK
<1> HIDE DEF Received, Working
<1>6. ASSUME NEW d \in CaptureCopies, C!Receive(w, d) PROVE C!CaptureTypeOK'
  <2>1. [at |-> "received", capture |-> capCarries[d], copy |-> d] \in C!Tasks
    BY <1>6, <1>1 DEF C!Receive, C!CaptureTypeOK, Received
  <2> QED BY <1>6, <2>1 DEF C!Receive, C!CaptureTypeOK
<1>7. CASE C!Claim(w)
  <2> DEFINE c == capWorker[w].capture
  <2>1. c \in Captures /\ capWorker[w].copy \in CaptureCopies
    BY <1>3, <1>7 DEF C!Claim
  <2>2. capClaims[c] + 1 \in Nat
    BY <2>1 DEF C!CaptureTypeOK
  <2>3. \A at \in {"claimed", "failing"} :
          [at |-> at, capture |-> c, copy |-> capWorker[w].copy, token |-> capClaims[c] + 1] \in C!Tasks
    BY <2>1, <2>2, <1>1 DEF Working
  <2>4. capWorker' \in [Workers -> C!Tasks]
    BY <1>1, <1>7, <2>3 DEF C!Claim, C!CaptureTypeOK
  <2> QED BY <1>7, <2>1, <2>2, <2>4 DEF C!Claim, C!CaptureTypeOK, C!Statuses
<1>8. CASE C!DropDelivery(w) \/ C!LoseTrack(w) \/ C!ReportAgain(w)
  <2>1. PICK b \in BOOLEAN : C!Settle(w, b)
    BY <1>8 DEF C!DropDelivery, C!LoseTrack, C!ReportAgain
  <2>2. capWorker[w] # C!Idle
    <3>1. capWorker[w].at \in {"received", "claimed", "working", "failing", "rejecting"}
            => capWorker[w] # C!Idle
      BY DEF C!Idle
    <3> QED BY <1>8, <3>1 DEF C!DropDelivery, C!LoseTrack, C!ReportAgain
  <2>3. UNCHANGED <<C!jobVars, C!frameVars, capSent, publishing>>
    BY <1>8 DEF C!DropDelivery, C!LoseTrack, C!ReportAgain
  <2> QED BY <1>5, <2>1, <2>2, <2>3 DEF C!CaptureTypeOK
<1>9. CASE C!Download(w) \/ C!WorkFails(w)
  <2>1. \A at \in {"working", "failing", "rejecting"} :
          [capWorker[w] EXCEPT !.at = at] \in C!Tasks
    BY <1>1, <1>4, <1>9 DEF C!Download, C!WorkFails, Working
  <2>2. PICK at \in {"working", "failing", "rejecting"} :
          capWorker' = [capWorker EXCEPT ![w].at = at]
    BY <1>9 DEF C!Download, C!WorkFails
  <2>3. capWorker' \in [Workers -> C!Tasks]
    BY <2>1, <2>2 DEF C!CaptureTypeOK
  <2> QED BY <1>9, <2>3 DEF C!Download, C!WorkFails, C!CaptureTypeOK
<1>10. CASE C!Complete(w)
  <2>1. capWorker[w].capture \in Captures /\ capWorker[w].token \in Nat /\ capWorker[w] # C!Idle
    BY <1>4, <1>10 DEF C!Complete, Working, C!Idle
  <2>2. /\ capWorker' \in [Workers -> C!Tasks]
        /\ capCarries' \in [CaptureCopies -> Captures \union {NoJob}]
    BY <1>5, <1>10, <2>1 DEF C!Complete, C!CaptureTypeOK
  <2> QED BY <1>10, <2>1, <2>2 DEF C!Complete, C!CaptureTypeOK, C!Statuses
<1>11. CASE C!Fail(w)
  <2> DEFINE c == capWorker[w].capture
  <2>1. c \in Captures /\ capWorker[w] # C!Idle /\ capture[c] = "processing"
    BY <1>4, <1>11 DEF C!Fail, Working, C!Idle
  <2>2. tries[c] + 1 \in 0 .. CaptureAttempts
    BY <2>1 DEF CapturesRight, CaptureRight, C!CaptureTypeOK, C!ReconstructionAssumption
  <2>3. tries' \in [Captures -> 0 .. CaptureAttempts]
    BY <1>11, <2>1, <2>2 DEF C!Fail, C!CaptureTypeOK
  <2>4. C!Asked(c) \in C!Publications
    BY <2>1 DEF C!Asked, C!Publications, C!ReconstructionAssumption
  <2>5. /\ capWorker' \in [Workers -> C!Tasks]
        /\ capCarries' \in [CaptureCopies -> Captures \union {NoJob}]
    BY <1>5, <1>11, <2>1 DEF C!Fail, C!CaptureTypeOK
  <2>6. /\ capture' \in [Captures -> C!Statuses]
        /\ capMarker' \in [Captures -> {"none", "fresh", "stale"}]
        /\ capToken' \in [Captures -> Nat]
        /\ publishing' \in SUBSET C!Publications
    <3>1. CASE capWorker[w].at = "rejecting" \/ C!Spent(tries'[c])
      BY <1>11, <3>1, <2>1 DEF C!Fail, C!CaptureTypeOK, C!Statuses
    <3>2. CASE ~(capWorker[w].at = "rejecting" \/ C!Spent(tries'[c]))
      BY <1>11, <3>2, <2>1, <2>4 DEF C!Fail, C!CaptureTypeOK, C!Statuses
    <3> QED BY <3>1, <3>2
  <2>7. /\ capLease' \in [Captures -> {"none", "live", "expired"}]
        /\ UNCHANGED <<draft, capClaims, due, framesDeleted, stored, uploadUrl, doomed, capSent>>
    BY <1>11 DEF C!Fail, C!CaptureTypeOK
  <2> HIDE DEF c
  <2> QED BY <2>3, <2>5, <2>6, <2>7 DEF C!CaptureTypeOK
<1> QED BY <1>6, <1>7, <1>8, <1>9, <1>10, <1>11 DEF C!WorkerStep

\* Every step keeps the types.
LEMMA CaptureTypes ==
  ASSUME C!ReconstructionAssumption, C!CaptureTypeOK, CapturesRight, C!Next
  PROVE  C!CaptureTypeOK'
BY CaptureAppTypes, CapturePublicationTypes, CaptureWorkerTypes DEF C!Next

-----------------------------------------------------------------------------
(* Rows. *)

\* The queue has accepted more and no row is touched.
LEMMA CaptureSentRows ==
  ASSUME CapturesRight, UNCHANGED <<capture, tries, capToken, draft, capMarker, capClaims>>,
         \A c \in Captures : capSent[c] \subseteq capSent'[c]
  PROVE  CapturesRight'
BY DEF CapturesRight, CaptureRight

\* A step about one capture.
LEMMA OneCaptureRow ==
  ASSUME CapturesRight, NEW c \in Captures, OtherCapturesKept(c), UNCHANGED capSent, CaptureRight(c)'
  PROVE  CapturesRight'
<1> SUFFICES ASSUME NEW b \in Captures PROVE CaptureRight(b)'
  BY DEF CapturesRight
<1>1. CASE b = c
  BY <1>1
<1>2. CASE b # c
  BY <1>2 DEF OtherCapturesKept, CapturesRight, CaptureRight
<1> QED BY <1>1, <1>2

\* The steps of the app and of time keep the rows right.
LEMMA CaptureAppRows ==
  ASSUME C!ReconstructionAssumption, CaptureIInv, NEW c \in Captures,
         \/ C!Register(c) \/ C!Upload(c) \/ C!ConfirmUpload(c) \/ C!Accept(c)
         \/ C!DeleteFrames(c) \/ C!DeletionFails(c)
         \/ C!LeaseExpires(c) \/ C!MarkerAges(c) \/ C!RetentionEnds(c) \/ C!UrlExpires(c)
  PROVE  CapturesRight'
<1> USE DEF CaptureIInv
<1>1. CASE UNCHANGED <<capture, tries, capToken, draft, capMarker, capClaims, capSent>>
  BY <1>1, CaptureSentRows
<1>2. CASE C!Register(c) \/ C!Accept(c) \/ C!MarkerAges(c)
  <2>1. OtherCapturesKept(c) /\ UNCHANGED capSent
    BY <1>2 DEF C!Register, C!Accept, C!MarkerAges, OtherCapturesKept, C!CaptureTypeOK, C!queueVars
  <2>2. CaptureRight(c) /\ CaptureRight(c)'
    <3>1. CaptureRight(c)
      BY DEF CapturesRight
    <3>2. CASE C!Register(c)
      BY <3>1, <3>2 DEF C!Register, CaptureRight, C!CaptureTypeOK, C!queueVars
    <3>3. CASE C!Accept(c)
      BY <3>1, <3>3 DEF C!Accept, CaptureRight, C!CaptureTypeOK, C!queueVars
    <3>4. CASE C!MarkerAges(c)
      BY <3>1, <3>4 DEF C!MarkerAges, CaptureRight, C!CaptureTypeOK, C!queueVars
    <3> QED BY <1>2, <3>1, <3>2, <3>3, <3>4
  <2> QED BY <2>1, <2>2, OneCaptureRow
<1>3. CASE C!ConfirmUpload(c)
  <2>1. OtherCapturesKept(c) /\ UNCHANGED capSent
    BY <1>3 DEF C!ConfirmUpload, OtherCapturesKept, C!CaptureTypeOK, C!queueVars
  <2>2. tries[c] < CaptureAttempts /\ capClaims[c] <= tries[c]
    <3>1. CaptureRight(c) /\ tries[c] \in Nat
      BY DEF CapturesRight, C!CaptureTypeOK
    <3>2. CASE capture[c] = "awaiting_upload"
      BY <3>1, <3>2 DEF CaptureRight, C!ReconstructionAssumption
    <3>3. CASE capture[c] = "queued"
      BY <3>1, <3>3 DEF CaptureRight
    <3> QED BY <1>3, <3>2, <3>3 DEF C!ConfirmUpload, C!Unenqueued
  <2>3. CaptureRight(c)'
    <3>1. /\ capture'[c] = "queued"
          /\ capMarker'[c] = "none"
          /\ UNCHANGED <<tries, capClaims, capSent>>
      BY <1>3 DEF C!ConfirmUpload, C!CaptureTypeOK, C!queueVars
    <3> QED BY <2>2, <3>1 DEF CaptureRight
  <2> QED BY <2>1, <2>3, OneCaptureRow
<1> QED
  BY <1>1, <1>2, <1>3
  DEF C!Upload, C!DeleteFrames, C!DeletionFails, C!LeaseExpires, C!RetentionEnds, C!UrlExpires,
      C!jobVars, C!queueVars

\* Publications and sweeps keep the rows right: a row is marked for the attempt
\* the queue has accepted, and what is recovered has an attempt left or fails.
LEMMA CapturePublicationRows ==
  ASSUME C!ReconstructionAssumption, CaptureIInv, C!PublicationStep \/ C!RecoverySweep \/ C!ReadDue
  PROVE  CapturesRight'
<1> USE DEF CaptureIInv
<1>1. ASSUME NEW p \in publishing,
             C!ReadRow(p) \/ C!Publish(p) \/ C!MarkRow(p) \/ C!PublicationDies(p)
      PROVE  CapturesRight'
  <2>1. p.capture \in Captures
    BY DEF C!CaptureTypeOK, C!Publications
  <2>2. CASE C!ReadRow(p) \/ C!PublicationDies(p)
    BY <2>2, CaptureSentRows DEF C!ReadRow, C!PublicationDies, C!jobVars, C!queueVars
  <2>3. CASE C!Publish(p)
    <3>1. \A c \in Captures : capSent[c] \subseteq capSent'[c]
      BY <2>3 DEF C!Publish, C!CaptureTypeOK
    <3> QED BY <2>3, <3>1, CaptureSentRows DEF C!Publish, C!jobVars
  <2>4. CASE C!MarkRow(p)
    <3>1. p.gen \in capSent[p.capture]
      BY <2>4 DEF C!MarkRow, MessagesAreSent
    <3>2. OtherCapturesKept(p.capture) /\ UNCHANGED capSent
      BY <2>4 DEF C!MarkRow, C!Mark, OtherCapturesKept, C!CaptureTypeOK, C!queueVars
    <3>3. CaptureRight(p.capture)'
      BY <2>1, <2>4, <3>1
      DEF C!MarkRow, C!Mark, C!Unenqueued, CapturesRight, CaptureRight, C!CaptureTypeOK, C!queueVars
    <3> QED BY <2>1, <3>2, <3>3, OneCaptureRow
  <2> QED BY <1>1, <2>2, <2>3, <2>4
<1>2. CASE C!RecoverySweep
  <2> SUFFICES ASSUME NEW c \in Captures PROVE CaptureRight(c)'
    BY DEF CapturesRight
  <2>1. CASE C!Recoverable(c)
    <3>1. capture[c] \in {"queued", "processing"} /\ tries[c] < CaptureAttempts
      BY <2>1 DEF C!Recoverable, CapturesRight, CaptureRight
    <3>2. tries'[c] = tries[c] + 1 /\ capMarker'[c] = "none" /\ capClaims'[c] = capClaims[c]
      BY <1>2, <2>1 DEF C!RecoverySweep
    <3>4. capClaims[c] <= tries[c] + 1
      BY <2>1 DEF C!Recoverable, CapturesRight, CaptureRight, C!CaptureTypeOK
    <3>3. capture'[c] = IF tries'[c] >= CaptureAttempts THEN "failed" ELSE "queued"
      BY <1>2, <2>1 DEF C!RecoverySweep, C!Spent
    <3> QED BY <3>1, <3>2, <3>3, <3>4
            DEF CaptureRight, C!CaptureTypeOK, C!ReconstructionAssumption
  <2>2. CASE ~C!Recoverable(c)
    BY <1>2, <2>2 DEF C!RecoverySweep, CapturesRight, CaptureRight, C!queueVars
  <2> QED BY <2>1, <2>2
<1>3. CASE C!ReadDue
  BY <1>3, CaptureSentRows DEF C!ReadDue, C!jobVars, C!queueVars
<1> QED BY <1>1, <1>2, <1>3 DEF C!PublicationStep

\* The worker's steps keep the rows right.
LEMMA CaptureWorkerRows ==
  ASSUME C!ReconstructionAssumption, CaptureIInv, NEW w \in Workers, C!WorkerStep(w)
  PROVE  CapturesRight'
<1> USE DEF CaptureIInv
<1>1. CASE UNCHANGED <<C!jobVars, capSent>>
  BY <1>1, CaptureSentRows DEF C!jobVars
<1>2. ASSUME capWorker[w].at # "idle" PROVE capWorker[w].capture \in Captures
  BY <1>2 DEF C!CaptureTypeOK, C!Idle, C!Tasks
<1>3. CASE C!Claim(w)
  <2> PICK c \in Captures : c = capWorker[w].capture
    BY <1>2, <1>3 DEF C!Claim
  <2>1. OtherCapturesKept(c) /\ UNCHANGED capSent
    BY <1>3 DEF C!Claim, OtherCapturesKept, C!CaptureTypeOK, C!queueVars
  <2>2. capture[c] = "queued" /\ tries[c] < CaptureAttempts /\ capClaims[c] <= tries[c]
    BY <1>3 DEF C!Claim, CapturesRight, CaptureRight
  <2>3. /\ capture'[c] = "processing" /\ tries'[c] = tries[c]
        /\ capClaims'[c] = capClaims[c] + 1 /\ capToken'[c] = capClaims[c] + 1
    BY <1>3 DEF C!Claim, C!CaptureTypeOK
  <2>4. CaptureRight(c)'
    BY <2>2, <2>3 DEF CaptureRight, C!CaptureTypeOK
  <2> QED BY <2>1, <2>4, OneCaptureRow
<1>4. CASE C!Complete(w)
  <2> PICK c \in Captures : c = capWorker[w].capture
    BY <1>2, <1>4 DEF C!Complete
  <2>1. OtherCapturesKept(c) /\ UNCHANGED capSent
    BY <1>4 DEF C!Complete, OtherCapturesKept, C!CaptureTypeOK
  <2>2. capture'[c] = "completed" /\ capClaims'[c] = capClaims[c] /\ draft'[c] = capToken[c]
    BY <1>4 DEF C!Complete, C!TokenMatches, C!CaptureTypeOK
  <2>3. capToken[c] = capClaims[c] /\ capClaims[c] > 0 /\ capClaims[c] <= CaptureAttempts
    BY <1>4 DEF C!Complete, CapturesRight, CaptureRight, C!CaptureTypeOK,
                C!ReconstructionAssumption
  <2>4. CaptureRight(c)'
    BY <2>2, <2>3 DEF CaptureRight
  <2> QED BY <2>1, <2>4, OneCaptureRow
<1>5. CASE C!Fail(w)
  <2> PICK c \in Captures : c = capWorker[w].capture
    BY <1>2, <1>5 DEF C!Fail
  <2>1. OtherCapturesKept(c) /\ UNCHANGED capSent
    BY <1>5 DEF C!Fail, OtherCapturesKept, C!CaptureTypeOK
  <2>2. \/ capture'[c] = "failed"
        \/ capture'[c] = "queued" /\ tries'[c] < CaptureAttempts /\ capMarker'[c] = "none"
    <3>1. tries'[c] \in Nat
      BY <1>5 DEF C!Fail, C!CaptureTypeOK
    <3> QED BY <1>5, <3>1 DEF C!Fail, C!Spent, C!CaptureTypeOK, C!ReconstructionAssumption
  <2>4. /\ tries[c] < CaptureAttempts /\ capClaims[c] <= tries[c] + 1
        /\ tries'[c] = tries[c] + 1 /\ capClaims'[c] = capClaims[c]
    BY <1>5 DEF C!Fail, CapturesRight, CaptureRight, C!CaptureTypeOK
  <2>5. capClaims[c] <= CaptureAttempts
    BY <2>4 DEF C!CaptureTypeOK, C!ReconstructionAssumption
  <2>3. CaptureRight(c)'
    BY <2>2, <2>4, <2>5 DEF CaptureRight
  <2> QED BY <2>1, <2>3, OneCaptureRow
<1> QED
  BY <1>1, <1>3, <1>4, <1>5
  DEF C!WorkerStep, C!Receive, C!DropDelivery, C!LoseTrack, C!Download, C!WorkFails, C!ReportAgain, C!queueVars

\* Every step keeps the rows right.
LEMMA CaptureRows ==
  ASSUME C!ReconstructionAssumption, CaptureIInv, C!Next
  PROVE  CapturesRight'
BY CaptureAppRows, CapturePublicationRows, CaptureWorkerRows DEF C!Next

-----------------------------------------------------------------------------
(* Publications. *)

\* Nobody begins to record a publication unless the queue accepted it.
LEMMA CapturePublished ==
  ASSUME C!ReconstructionAssumption, CaptureIInv, C!Next
  PROVE  MessagesAreSent'
<1> USE DEF CaptureIInv
<1>1. ASSUME NEW p \in publishing, C!Publish(p)
      PROVE  MessagesAreSent'
  <2>1. p \in C!Publications /\ p.capture \in Captures
    BY DEF C!CaptureTypeOK, C!Publications
  <2>2. /\ capSent' = [capSent EXCEPT ![p.capture] = @ \union {p.gen}]
        /\ publishing' = (publishing \ {p}) \union {[p EXCEPT !.at = "published"]}
    BY <1>1 DEF C!Publish
  <2>3. [p EXCEPT !.at = "published"].capture = p.capture
        /\ [p EXCEPT !.at = "published"].gen = p.gen
    BY <2>1 DEF C!Publications
  <2>4. \A c \in Captures : capSent[c] \subseteq capSent'[c]
    BY <2>2 DEF C!CaptureTypeOK
  <2>5. p.gen \in capSent'[p.capture]
    BY <2>1, <2>2 DEF C!CaptureTypeOK
  <2>6. \A q \in publishing : q.capture \in Captures
    BY DEF C!CaptureTypeOK, C!Publications
  <2> QED BY <2>2, <2>3, <2>4, <2>5, <2>6 DEF MessagesAreSent
<1>2. ASSUME \A q \in publishing' : q \in publishing \/ q.at # "published",
             capSent' = capSent
      PROVE  MessagesAreSent'
  BY <1>2 DEF MessagesAreSent
<1>3. ASSUME NEW p \in publishing, C!ReadRow(p) PROVE MessagesAreSent'
  <2>1. \A q \in publishing' : q \in publishing \/ q.at # "published"
    BY <1>3 DEF C!ReadRow
  <2> QED BY <1>2, <1>3, <2>1 DEF C!ReadRow, C!queueVars
<1>4. ASSUME NEW p \in publishing, C!MarkRow(p) \/ C!PublicationDies(p) PROVE MessagesAreSent'
  BY <1>4 DEF C!MarkRow, C!PublicationDies, C!queueVars, MessagesAreSent
<1>5. ASSUME NEW c \in Captures, C!ConfirmUpload(c) PROVE MessagesAreSent'
  BY <1>5 DEF C!ConfirmUpload, C!Asked, C!queueVars, MessagesAreSent
<1>6. CASE C!RecoverySweep
  <2>1. \A q \in publishing' : q \in publishing \/ q.at # "published"
    BY <1>6 DEF C!RecoverySweep
  <2> QED BY <1>2, <1>6, <2>1 DEF C!RecoverySweep, C!queueVars
<1>7. ASSUME NEW w \in Workers, C!WorkerStep(w) PROVE MessagesAreSent'
  <2>1. CASE C!Fail(w)
    BY <2>1 DEF C!Fail, C!Asked, MessagesAreSent
  <2>2. CASE ~C!Fail(w)
    BY <1>7, <2>2
    DEF C!WorkerStep, C!Receive, C!Claim, C!DropDelivery, C!LoseTrack, C!Download, C!WorkFails, C!Complete,
        C!ReportAgain, C!queueVars, MessagesAreSent
  <2> QED BY <2>1, <2>2
<1>8. CASE UNCHANGED <<publishing, capSent>>
  BY <1>8 DEF MessagesAreSent
<1> QED
  BY <1>1, <1>3, <1>4, <1>5, <1>6, <1>7, <1>8
  DEF C!Next, C!PublicationStep, C!Register, C!Upload, C!Accept, C!ReadDue, C!DeleteFrames, C!DeletionFails,
      C!LeaseExpires, C!MarkerAges, C!RetentionEnds, C!UrlExpires, C!queueVars

\* The invariant is inductive.
LEMMA CaptureInductive ==
  ASSUME C!ReconstructionAssumption, CaptureIInv, [C!Next]_(C!vars)
  PROVE  CaptureIInv'
<1>1. CASE C!Next
  BY <1>1, CaptureTypes, CaptureRows, CapturePublished DEF CaptureIInv
<1>2. CASE UNCHANGED C!vars
  BY <1>2
  DEF C!vars, C!jobVars, C!frameVars, C!queueVars, CaptureIInv, C!CaptureTypeOK, CapturesRight,
      CaptureRight, MessagesAreSent
<1> QED BY <1>1, <1>2

\* It implies what the run checks.
LEMMA CaptureImplies ==
  ASSUME C!ReconstructionAssumption, CaptureIInv
  PROVE  C!CaptureInvariant
<1>1. \A c \in Captures : capClaims[c] <= CaptureAttempts
  BY DEF CaptureIInv, CapturesRight, CaptureRight, C!CaptureTypeOK, C!Statuses,
         C!ReconstructionAssumption
<1> QED
  BY <1>1
  DEF CaptureIInv, CapturesRight, CaptureRight, C!CaptureInvariant, C!MarkedMeansSent,
      C!DraftOfLastClaim, C!ClaimsWithinBudget, C!CaptureTypeOK

\* What a step does to a capture's job, JobLifecycle allows.
LEMMA CaptureMoves ==
  ASSUME C!ReconstructionAssumption, CaptureIInv, C!Next, NEW c \in Captures
  PROVE  C!J!Moves(c) \/ (C!JobOf(c)' = C!JobOf(c) /\ tries'[c] = tries[c])
<1> USE DEF CaptureIInv
<1>1. CASE capture'[c] = capture[c] /\ tries'[c] = tries[c]
  BY <1>1 DEF C!JobOf
<1>2. ASSUME NEW b \in Captures, C!Register(b) \/ C!ConfirmUpload(b) \/ C!Accept(b)
      PROVE  C!J!Moves(c) \/ (C!JobOf(c)' = C!JobOf(c) /\ tries'[c] = tries[c])
  BY <1>2 DEF C!Register, C!ConfirmUpload, C!Accept, C!Unenqueued, C!JobOf,
       C!CaptureTypeOK, C!J!Moves
<1>3. CASE C!RecoverySweep
  <2>1. CASE C!Recoverable(c)
    <3>1. capture[c] \in {"queued", "processing"} /\ tries[c] < CaptureAttempts
      BY <2>1 DEF C!Recoverable, CapturesRight, CaptureRight
    <3>2. tries'[c] = tries[c] + 1
      BY <1>3, <2>1 DEF C!RecoverySweep
    <3>3. capture'[c] = IF tries'[c] >= CaptureAttempts THEN "failed" ELSE "queued"
      BY <1>3, <2>1 DEF C!RecoverySweep, C!Spent
    <3> QED BY <3>1, <3>2, <3>3
            DEF C!J!Moves, C!J!Tried, C!JobOf, C!CaptureTypeOK, C!ReconstructionAssumption
  <2>2. CASE ~C!Recoverable(c)
    BY <1>1, <1>3, <2>2 DEF C!RecoverySweep
  <2> QED BY <2>1, <2>2
<1>4. ASSUME NEW w \in Workers, C!WorkerStep(w)
      PROVE  C!J!Moves(c) \/ (C!JobOf(c)' = C!JobOf(c) /\ tries'[c] = tries[c])
  <2>1. CASE C!Claim(w) \/ C!Complete(w)
    BY <2>1 DEF C!Claim, C!Complete, C!CaptureTypeOK, C!JobOf, C!J!Moves
  <2>2. CASE C!Fail(w)
    <3> DEFINE b == capWorker[w].capture
    <3>1. CASE b # c
      BY <1>1, <2>2, <3>1 DEF C!Fail, C!CaptureTypeOK
    <3>2. CASE b = c
      <4>1. capture[c] = "processing" /\ tries'[c] = tries[c] + 1
        BY <2>2, <3>2 DEF C!Fail, C!CaptureTypeOK
      <4>2. \/ capture'[c] = "failed"
            \/ capture'[c] = "queued" /\ tries'[c] < CaptureAttempts
        BY <2>2, <3>2, <4>1 DEF C!Fail, C!Spent, C!CaptureTypeOK, C!ReconstructionAssumption
      <4> QED BY <4>1, <4>2 DEF C!J!Moves, C!J!Tried, C!JobOf
    <3> QED BY <3>1, <3>2
  <2> QED
    BY <1>1, <1>4, <2>1, <2>2
    DEF C!WorkerStep, C!Receive, C!DropDelivery, C!LoseTrack, C!Download, C!WorkFails, C!ReportAgain, C!jobVars
<1> QED
  BY <1>1, <1>2, <1>3, <1>4
  DEF C!Next, C!PublicationStep, C!ReadRow, C!Publish, C!MarkRow, C!PublicationDies, C!Upload, C!ReadDue,
      C!DeleteFrames, C!DeletionFails, C!LeaseExpires, C!MarkerAges, C!RetentionEnds, C!UrlExpires, C!jobVars

\* A step of the captures is a step of JobLifecycle or changes no job.
LEMMA CaptureImplementsStep ==
  ASSUME C!ReconstructionAssumption, CaptureIInv, CaptureIInv', [C!Next]_(C!vars)
  PROVE  [C!J!JobsNext]_(C!J!jobVars)
<1> DEFINE state == [c \in Captures |-> C!JobOf(c)]
<1>1. CASE UNCHANGED C!vars
  BY <1>1 DEF C!vars, C!jobVars, C!J!jobVars, C!JobOf
<1>2. CASE C!Next
  <2>1. state' \in [Captures -> C!J!States] /\ tries' \in [Captures -> 0 .. CaptureAttempts + 1]
    BY DEF CaptureIInv, C!CaptureTypeOK, C!Statuses, C!JobOf, C!J!States, C!J!Finished,
         C!ReconstructionAssumption
  <2>2. \A c \in Captures : state[c] = C!JobOf(c) /\ state'[c] = C!JobOf(c)'
    OBVIOUS
  <2> QED BY <1>2, <2>1, <2>2, CaptureMoves DEF C!J!JobsNext
<1> QED BY <1>1, <1>2

-----------------------------------------------------------------------------
(* The theorems. *)

\* A step of the composition is a step of the captures or leaves them alone.
LEMMA JobsStep == [JobsNext]_<<part, vars, captureVars>> => [C!Next]_(C!vars)
BY DEF JobsNext, captureVars, C!vars, C!jobVars, C!frameVars, C!queueVars

\* The capture's inductive invariant holds in every reachable state.
LEMMA CaptureInductiveInvariant ==
  ASSUME C!ReconstructionAssumption PROVE JobsSpec => []CaptureIInv
<1>1. JobsInit => CaptureIInv
  BY CaptureInitIInv DEF JobsInit
<1>2. CaptureIInv /\ [JobsNext]_<<part, vars, captureVars>> => CaptureIInv'
  BY JobsStep, CaptureInductive
<1> QED BY <1>1, <1>2, PTL DEF JobsSpec

\* However messages are lost, delayed and repeated and whoever dies: a marker
\* means that a message for this attempt was sent, a draft the agency can see is
\* the one of the last claim, and a capture is claimed at most CaptureAttempts times.
THEOREM CaptureSafe ==
  ASSUME C!ReconstructionAssumption PROVE JobsSpec => []CaptureInvariant
<1>1. CaptureIInv => CaptureInvariant
  BY CaptureImplies DEF CaptureInvariant
<1> QED BY <1>1, CaptureInductiveInvariant, PTL

\* The captures implement JobLifecycle: the job a capture's status stands for is
\* claimed, retried and finished as that specification allows.
THEOREM CaptureImplementsJobs ==
  ASSUME C!ReconstructionAssumption PROVE JobsSpec => CapturesImplementJobs
<1>1. JobsInit => C!J!JobsInit
  BY DEF JobsInit, C!Init, C!J!JobsInit, C!JobOf
<1>2. CaptureIInv /\ CaptureIInv' /\ [JobsNext]_<<part, vars, captureVars>>
        => [C!J!JobsNext]_(C!J!jobVars)
  BY JobsStep, CaptureImplementsStep
<1> QED
  BY <1>1, <1>2, CaptureInductiveInvariant, PTL
  DEF JobsSpec, CapturesImplementJobs, C!ImplementsJobs, C!J!JobsSpec
=============================================================================
