# Formal models of RoomForge

RoomForge lets real-estate agencies capture a home with a phone, publish it
with photos, furniture and a 3D scene, and lets customers quote and reserve it
with a deposit. The deposit is either a token amount held by a Solidity escrow
or a card payment held by Stripe.

This directory holds TLA+ modules of the parts of that system whose correctness
depends on the order in which several actors act, TLC configurations that check
them on small instances, and theorems that the TLA+ proof system proves for
every instance. All paths below are relative to the repository.

## 1. Inventory

| Component | Code | State it keeps | Operations |
|---|---|---|---|
| Reservation escrow | `contracts/contracts/ReservationEscrow.sol` | per reservation: frozen terms, status, deposited amount, nonce; the token balance | `deposit`, `accept`, `reject`, `cancel`, `expire` |
| Reservations (wallet) | `backend/app/modules/reservations` | `reservation`, `reservation_chain_transaction` | create, list and get (which expire lazily), issue permit, reconcile transaction |
| Card payments | `backend/app/modules/stripe_payments` | `reservation_card_payment`, `stripe_webhook_event`, `stripe_connect_account`; the intents, refunds and transfers at Stripe | create intent, webhook, onboarding, Connect status, card decision, card cancel, card expire |
| Catalog | `backend/app/modules/catalog/service.py` | listings, extras, transitions, scene revision, offer version | create, edit, review workflow, scene with ETag, deposit, public search |
| Quotes | `backend/app/modules/catalog/service.py`, `alembic/versions` | quote snapshots, rate-limit events, the triggers on `offer_version` | create quote, validate quote |
| Listing photos | `backend/app/modules/catalog/photos.py` | photo rows, deletion intents, objects in storage | request upload, confirm, delete, clean up |
| Detection jobs | `backend/app/modules/detection`, `worker3d/job_worker.py` | `detection_job`, the SQS queue, the worker's claim | request, publish, sweep, claim, complete, fail |
| Furniture review | `backend/app/modules/detection/furniture_review.py` | append-only decisions | review a detection or a volume |
| Reconstruction jobs | `backend/app/modules/reconstruction`, `worker3d/reconstruction_worker.py` | `listing_capture`, queue, packages in storage | register, complete upload, publish, sweep, claim, complete, fail, accept, retention |
| Staff identity | `backend/app/modules/identity`, agents in `agencies/router.py` | invitations, accounts, TOTP, login challenges, refresh sessions | invite, bootstrap, enrol, log in, answer challenge, refresh, log out, deactivate |
| Customer identity | `backend/app/modules/customer_identity` | accounts, sessions, wallet challenges, wallets | register, log in, refresh, log out, challenge, link |
| Agency wallets | `backend/app/modules/agencies/service.py` | wallet challenges, the agency's wallet | challenge, link |
| Exchange rates | `backend/app/modules/exchange_rates`, `core/rate_source.py` | append-only rates | create, refresh official ones, convert |
| Floor plan interpretation | `backend/app/modules/floorplan_interpretation` | none (a call to a language model) | interpret, retry, correct, normalise |
| Algorithms | `worker3d/reconstruct.py`, `worker3d/detect.py` | none | reconstruct, detect |
| Capture app | `apps/captura_mobile` | drafts, capture packages, upload queue | capture, draft, upload |
| Customer app | `apps/cliente_mobile` | session, pending chain transaction | browse, quote, reserve, sign, report hash |
| Staff panel | `panel/staff-shell` | session | review, decide, sign |

How they interact: the apps and the panel call the API over HTTP; the API and
its periodic sweeps share one database; the API signs permits which a wallet
carries to the chain on its own, so the API learns of a transaction only when a
client reports its hash; Stripe reports payments by webhook, repeatedly and in
any order; workers receive jobs from a queue that delivers at least once and
answer over HTTP under a claim token; photos and capture packages live in an
object store that no database transaction covers.

What makes each component correct, and what is hard about it:

- **Escrow.** A deposit goes to exactly one of agency and customer, once, before
  or after the deadline but never both; the shared token balance always covers
  every deposit. Hard: permits for one reservation arrive in any order, the
  first call may be any of four, `expire` is open to everyone.
- **Wallet reservations.** The row follows what was mined and nothing else; at
  most one active reservation per listing; no customer pays for a listing the
  database has given to another. Hard: the database and the chain are never
  locked together, the permit's nonce and the receipt are read outside any
  transaction, two clocks decide about one deadline, hashes are reported late,
  twice or never.
- **Card payments.** The rows are true at Stripe; a charge becomes a confirmed
  deposit or comes back; accepting transfers, everything else refunds. Hard:
  every decision is split in up to four steps with a remote call in the middle
  whose answer may be lost; webhooks read without a lock and overtake requests.
- **Detection and reconstruction.** A committed job is eventually tried and ends
  completed or failed within its attempts; a stale claim changes nothing; a
  package is deleted once its retention is over and not under a worker. Hard:
  commit, publish and mark are three steps; duplicate deliveries, expired
  leases, sweeps.
- **Catalog, quotes, furniture, photos.** What is published is what was
  reviewed; a customer is quoted and reserves what the page showed; the last
  editor does not overwrite an unseen edit; objects and rows agree in the end.
  Hard: pages are read in two queries, versions are kept by triggers, deletions
  happen in two systems.
- **Identity and wallets.** One-use tokens, codes and challenges are used once;
  a login is one session; a wallet has one holder; what has ended stays ended.
  Hard: requests wait for each other's rows with clocks read before, mails are
  sent between transactions, two tables hold wallets.
- **Rates and floor plans.** A stored rate is its source's and totals are within
  half a cent; an interpretation is answered in time whatever the provider
  does, and its normalisation does not move a wall. Hard: rounding, renumbered
  edges, a budget shared by retries of three kinds.

`PROJECT.json` lists under `hazards` each place where one of these bites and
which property would notice.

## 2. Modules

```
ReservationLifecycle        abstract: what happens to reservation.status
ReservationEscrow           the contract
ReservationBook             reservation table operations of both payments
EscrowReservations          wallet reservations over the contract
                            (extends ReservationEscrow, instances ReservationBook)
CardPayments                card reservations over Stripe
                            (instances ReservationBook)

JobLifecycle                abstract: what a worker job promises
DetectionJobs               detection jobs, their queue and workers
ReconstructionJobs          captures, their jobs, packages and retention

ListingReview               the review workflow of a listing and its history
ListingOffers               offers, versions, pages, quotes, bookings
                            (extends ListingReview)
ListingPhotos               photos, objects, deletion journal
                            (instances ListingReview)
FurnitureReview             scenes, extras and decisions on detected furniture
QuoteRateLimit              the window of quote requests
CatalogSearch               keyset paging of the public catalog

StaffInvitations            invitations, enrolment, bootstrap
StaffSessions               login challenges, sessions, deactivation of agents
CustomerSessions            accounts and sessions of customers
WalletLinks                 wallet challenges and links of customers and agencies

ExchangeRates               rate history and conversion
FloorplanInterpretation     the attempts of one interpretation under its deadline
FloorplanGeometry           the normalisation of a proposed room

WorkerJobs                  both kinds of jobs        (extends DetectionJobs)
Catalog                     all of the catalog        (extends ListingOffers)
People                      everybody who logs in     (extends CustomerSessions)
Services                    rates and floor plans     (extends FloorplanInterpretation
                                                       and FloorplanGeometry)
```

`X_proofs` extends `X` with its theorems. The last four modules put modules
that share no state side by side: a behaviour is of one `part`, chosen by the
initial state and never changed; only the chosen part moves, and the variables
of the others are `None` or stay as their specification begins. Each behaviour
is therefore a behaviour of one component, and each invariant is claimed for its
own part. They take every bound as a constant, so that the runs check and the
theorems state the same definitions. The modules named `MC...` give the
constants their values for TLC. Each module starts with its constants and state,
then the operations under the names of the code, then the specification, then
the properties. Operators commented as faulty variants stand before the
operators they vary: no specification uses them; each is a plausible slip that
some property must notice, so they show that the property can fail.

### ReservationEscrow

One action per external function; a reverting call is no step. `Authorized`,
`Prepare` and `DepositMadeIfConfigured` are `_authorize`, `_prepare` and
`_requireDepositIfConfigured`, `Close` the tail the four closing functions
share. The signer is given no judgement: any permit of the set `Permits` may
exist, so the properties are the contract's own. `receipts` records each mined
call with its event, sender and block time; it is the history that the backend
later verifies. Signature recovery is a membership in `Permits`; token
callbacks are excluded by `nonReentrant`; the token moves exact amounts because
`_transferExactIn` and `_transferExactOut` revert otherwise.

### ReservationLifecycle, ReservationBook, EscrowReservations

`ReservationLifecycle` is the abstract specification: reserve a free listing,
lapse overdue reservations, decide one; the status only leaves `pending`, and no
listing has two active rows. `ReservationBook` holds the table operations both
kinds of payment use: `CreateReservation` (with the expiry of the listing's
overdue rows in the same transaction), `ReadOwn` (the reads of a customer expire
what is due) and the clock. In `EscrowReservations` the requests are cut where
the code holds no lock:

- `CheckPermit` is `issue_reservation_permit` up to the end of its session,
  `SignPermit` is `chain.issue_permit`, which reads the nonce afterwards.
- `VerifyReceipt` is `reconcile_chain_transaction` up to the verified receipt,
  `RecordProof` its locked transaction, which checks the row again.

`eligible` and `verified` hold the requests that passed their first part. A
member may go on at any later moment, several times or never, which stands for
slow threads, retries and crashes. `ChainStep` lets any wallet submit any
signed permit at any time. API clock and block timestamp advance
independently; `ContractDeadline` rounds the former up to the latter.

Two properties relate the tables to the contract's money.
`MoneyFollowsRow`: what a row says of a deposit is true of the money, and no
decision is recorded over a deposit the backend had not confirmed.
`NothingMinedIsLost`: whatever the wallets did before the backend looked can
still be recorded, one call after the other and however late, while the row is
pending, and a row with a confirmed deposit always has a way out. That somebody
takes it is not claimed (section 3, fairness).

### CardPayments

Requests run on `Workers` (the thread pool) and keep their step in `task`:
`CheckDecision`, `MarkDecision`, `CallDecision` (or `CallDecisionFails` and
`ResetDecision`), `FinishDecision` for the agency; `CheckClosing`,
`CallClosing`, `FinishClosing` for the customer. `Abandon` ends a request
anywhere: an error answer, or a process that died. The webhook is an `async`
handler with synchronous code in a single process, so one runs at a time; its
payment event is cut after the reads (`HookReads`), because the reservation is
read without a lock, and ends in `HookConfirms`, `HookRefunds` or `HookFails`.

Stripe is external: an open intent is paid, declined or cancelled; a paid one is
refunded or transferred, each at most once because the code passes fixed
idempotency keys; a refunded charge cannot be transferred, while a transferred
one can still be refunded (the platform then bears the loss); cancelling an
intent that was paid is refused. Every call may fail without effect or after it
took effect. Events are delivered in any order and again until answered.

### JobLifecycle, DetectionJobs, ReconstructionJobs

`JobLifecycle` is the promise: a job is asked for once, claimed, retried within
`MaxAttempts` and ends completed or failed for good. Both job modules implement
it; a capture's status is mapped by `JobOf`.

A publication is three steps (`ReadRow`, `Publish` or `QueueRefuses`, `MarkRow`)
of an editor's request or of the sweep, any of which may be the last: `Restart`
is a crash of the API at any moment. The row's `marker` is `enqueued_at` seen as
none, fresh or stale, and a lease is live or expired: time is abstracted to the
two boundaries the code compares with, which `MarkerAges` and `LeaseExpires`
cross. `sent` is a history of the attempts for which the queue accepted a
message. `Copies` are the deliveries in flight: a message may be delivered
several times, to several workers, or lost, and a worker may act on a delivery
of an older attempt. `claims` counts the claims and stands for the claim token:
a token matches exactly when it is of the last claim. `WorkerStep` is one step
of the Python worker: receive, claim, work or fail, report, retry the report,
delete the delivery.

`ReconstructionJobs` adds the upload before and the retention after: `Register`,
`Upload` while the signed URL lives, whatever has become of the capture,
`ConfirmUpload`, which does not look for the package, `Accept`. The worker
downloads the package after it has claimed the job (`Download`), and fails the
attempt where there is none. The retention
sweep reads the due captures (`ReadDue`, into `doomed`) and then deletes each
package (`DeleteFrames`) in a transaction of its own.

### ListingReview, ListingOffers

`ListingReview` is the workflow of `transition_staff_listing` (submit, approve,
reject, publish, unpublish), who may take which transition, the reopening of an
edited listing, and the history of transitions. `ListingOffers` adds what is
offered: an edit, a deposit or an extra changes `offer` and `extras`, and the
database triggers of the migrations advance `version` when a column they watch
differs (`OfferChanged`, `ExtraChanged`). A customer's page is two reads
(`OpenPage`, `FinishPage`) with any number of edits in between; `CreateQuote`
takes the version the page showed; a quote that lapsed (`ExpireQuote`) or whose
version has passed cannot be reserved (`QuoteUsable`, `Reserve`).

### ListingPhotos

A row, its objects (staging, original, public) and the deletion journal are
changed by requests and by two sweeps. `Confirm` cleans and stores the photo and
commits in that order, `Remove` journals the deletion in the transaction that
removes the row, `SweepDone` deletes from the store until nothing is left, and
any of them may stop in the middle. A client may `Put` an object as long as the
signed upload URL lives, also after the row is gone: that is why the journal
keeps an entry for a grace period (`Retained`).

### FurnitureReview, QuoteRateLimit, CatalogSearch

`FurnitureReview` has editors with screens of different ages: `sceneScreen` and
`offerScreen` hold what each loaded, `Precondition` is the `If-Match` check of
`upsert_listing_scene`, and `Review` the decision on a detection with its
idempotency key (`Previous`), its expected offer version and the placement of
the confirmed item in the scene. Detections arrive and captures are replaced
(`LoseSource`) at any time. `QuoteRateLimit` separates the reading of the clock
(`Arrive`) from the transaction under the advisory lock (`Consume`): requests
wait up to `MaxLag`, overtake each other, and those of other addresses delete
old events by the clock they have read (`OtherAddress`). `before` remembers
which requests were answered when one arrived. A request counts every one of
these that its window reaches, however long it then waits; of those that are
still waiting it may miss some. `PacedBound` says so.
`CatalogSearch` is keyset paging: a reader turns pages while listings are
created, published and withdrawn.

### StaffInvitations, StaffSessions, CustomerSessions, WalletLinks

Every request reads its clock before it waits for a lock, so actions take a
clock from `Clocks`, at most `MaxLag` old. Invitations are issued in one
transaction and marked as delivered in another after the mail was sent. The
bootstrap command runs three transactions; each locks the address it is for, but
reads the role's pending invitation, which may be of any other address, without
a lock, and later expires it by its key. So each is a read (`BootRead`, after
which the address is `Held`) and a write (`BootLapse`, or `BootIssue` with the
new invitation), and whatever is committed to the other row in between is
overwritten: an invitation that has just been accepted can become expired under
its challenge, which then makes no account. The index on pending platform
invitations (`SolePending`) is what refuses a second one in that race.
`StaffSessions` keeps the row locks: a request that has locked its first row and
waits for the second is in `tx`, deactivation locks the account and then its
sessions while requests lock the session and then the account, and `Abort` is
the database breaking the deadlock. In `CustomerSessions` each operation locks
the session it is about and is one step; a refresh ends a session and opens its
successor, and `login` remembers the login a session goes back to. `WalletLinks`
cuts a verification after the transaction that uses the challenge up; customers
and agencies share the addresses but have one table each.

### ExchangeRates, FloorplanInterpretation, FloorplanGeometry

The refresh of a process is fetch, append, commit; ids and times are given when
a row is inserted, so runs of two processes may commit out of order. `Convert`
is the Decimal arithmetic of `convert`: a quotient rounded half-even to `Prec`
significant digits, then a product rounded half-up to cents. The interpretation
counts time in ticks; the provider's answers are choices (a proposal, a rejected
proposal, a rate limit with or without a usable header, a failure, a refusal).
`FloorplanGeometry` computes with integers on a grid what `service.py` computes
with floats: the simplification of the contour, the mapping of edges to walls,
the openings that move with their walls, and the dimensions, which are renamed to
the wall their edge became part of (`DimensionStaysOnItsWall`) and keep the
length they had. An edge that matches
two walls of the simplified contour has none, and the provider's contour stands
with its flat corners (`AmbiguousEdge`): a corridor 64 long and 1 wide is narrow
enough for its long walls to be taken for each other.

### MC modules

`MCJobs`, `MCCatalog`, `MCPeople` and `MCServices` extend the compositions with
values, a symmetry of interchangeable values and, where two long histories would
multiply, a named restriction of the behaviours explored: `Short` and `Brief`
are state constraints (the invitations or the photos have either many instants
or many actors), `Early` is an action constraint (a quote, on which nothing
depends, is asked for before the sources move or not at all). `MCCards` checks
card reservations in two scopes in the same way, and `MCBackground` puts the
parts with liveness properties side by side with the fairness of each.
`MCEscrowReservations` has two customers of one listing; its state constraint
`Narrow` follows one reservation with every permit and every block time, and two
with the permits of a race before the first deadline.

## 3. Runs

| Run | Instance | What it shows |
|---|---|---|
| `mc_escrow` | 2 reservations, 1 customer, 1 agency, amounts 0..2, 2 deadlines, nonces 0..2; `ReservationEscrow` itself | the contract alone, against a signer that signs everything; every deposit leaves, and the balance covers the rest |
| `wallets` | 2 customers, 1 listing, deposits of 1, API time 0..2 in half seconds, block time 0..2, cut as `Narrow` says | the row follows the proofs and the money the row; what was mined can be recorded; only the holder of the listing pays the agency; refinement of the life cycle |
| `cards` | scope "money": 1 reservation whose card may be declined, 2 threads; scope "listing": 2 reservations of a listing, 1 thread, one more instant | the tables are true at Stripe, one active reservation per listing, what is closed stays so, every charge is answered |
| `jobs` | 1 detection job, 3 attempts, 2 workers, 1 editor, 2 deliveries; 1 capture, 2 attempts, 2 workers, 1 delivery | markers, results, claims and drafts; refinement of the job life cycle by both |
| `background` | 1 item and 1 worker per part, 2 attempts, 1 photo, 2 processes that refresh the rates | liveness: jobs end, packages and photos go away, official rates are followed, an interpretation is answered |
| `catalog` | 2 extras, 2 prices, 1 quote, 4 versions; 2 editors with 2 requests and 1 detection; 2 photos, one for 7 instants or both up to instant 2 (`Brief`); 4 quote requests in windows of 6 that wait for 1 tick at most; 4 listings on pages of 2 | offers, scenes, photos, the quote limit, the public search |
| `people` | 2 invitations and 2 bootstrap runs in one instance that `Short` cuts; 1 agent with 2 challenges, sessions and requests; 2 customers with 3 sessions over 6 instants; 2 customers and 1 agency with 2 addresses and 3 challenges | one claim, one session, one holder; what has ended stays ended |
| `services` | 1 process, 3 manual rates of which one is refused, source values {3} and {6, 8}, amounts {1, 2, 5, 16, 17}, quotes as `Early` says; a timeout of 9 ticks; every contour of 3 or 4 corners, and of 5 that start along the lower side, on a 3 by 3 grid, and a narrow corridor | rates and conversion, the attempts of an interpretation, the normalisation of a room |
| `card_both`, `card_refund`, `reconstruction_retention`, `quote_limit` | 1 reservation; 1 capture; 3 requests where a window admits 2 | four disagreements with the documents, section 5 |

Why the bounds are enough. A window of one API tick gives a time before and a
time after every deadline; two ticks per second make the API deadline fall
inside a second as well as on its edge, which is where the rounding matters.
Block times reach past the deadline. The nonces reach one more than the longest
history of a reservation where the backend signs permits, and three where the
signer is unrestricted. Two reservations of one listing are the smallest race;
the properties about listings quantify over pairs. Two threads, workers or
editors are the smallest number in which requests overlap, and a request knows
of no more than one other. Jobs, captures and photos of different identity share
no state, so one of each suffices for what a run says of one, and two photos
where they share the limit of a listing. Two attempts show a retry and the end
of the budget, three a retry after a retry. The version of an offer is bounded
by 3: a quote of an old version, one of the current one and one that is
overtaken again. The requests of a quote wait for their lock long enough to be
overtaken (`RateLag`), which is enough to break the documented limit, section 5.
The two refresh processes commit in either order, which is all that an overlap
of two runs can do. The clocks of the identity modules reach the end of every
term and lag by `MaxLag`. The amounts, with four significant digits, reach
totals on both sides of a half cent, also where the rounding of the quotient
changes the total. Contours of five corners are the smallest with two flat
corners besides a triangle's three; the corridor is the smallest with walls that
count as one. The names of the bounds are the constants `MaxNonce`,
`MaxBlockTime`, `MaxTime`, `InvitationTime`, `StaffTime`, `WalletTime`,
`PhotoTime`, `RateTime`, `SearchTime`, `MaxVersion`, `MaxRevision`, `MaxLag`,
`RateLag`, `MaxRefresh`, `MaxMoves`, `MaxManual` and `InitialBalance` and the
constraints `Narrow`, `Short`, `Brief` and `Early`; none of them occurs in the
code. What the constraints cut off from the runs, the theorems of section 4
still cover. Deadlock is not checked: the bounded clocks stop, and a finished
reservation, job or answer legitimately has no further step.

Fairness. `EscrowFairness`: blocks keep being mined, and someone calls `expire`
on an overdue deposit (it is permissionless, and the customer gains the
deposit). That is an assumption about the chain's users, not about this
repository: `docs/api/catalog-reservations-v1.md:359` and `:371` exclude a
scheduler, an indexer and a relayer, the customer app calls `expire` only when
its user asks for it and never for a lapsed reservation
(`hardhat_reservation_executor.dart:240`), and nothing makes staff report a
hash. So no liveness is claimed of the wallet reservations: that a deposit
returns is a property of the contract alone (`DepositEventuallyLeaves`), that a
report is always possible the invariant `NothingMinedIsLost`. In `MCCards`
Stripe redelivers until success, and a handler that is reached again and again
does not fail for ever. The background run assumes that time passes and that the
loops `main.py` starts keep running; nothing is assumed of workers, editors, the
queue or deliveries, and of the object store only that a deletion asked for
again and again succeeds at some time (strong fairness of `DeleteFrames` and
`SweepDone`). A part that is not the one that moves is owed nothing.

## 4. Proofs

Eight modules hold theorems. Each theorem names what it assumes of the
constants; no bound of an instance is among the assumptions, except that a bound
is a natural number.

**`ReservationEscrow_proofs`** proves, for any sets of reservations, wallets,
amounts and deadlines (`EscrowAssumption`: amounts, deadlines and bounds are
naturals, no wallet is both customer and agency), that no balance is ever
negative, a Pending reservation holds its whole deposit, a nonce identifies one
mined call, a reservation pays out once and exactly its deposit, the deadline
separates decisions from expiries, only the frozen parties act, and frozen
terms and settled statuses never change. A payout is the deposit only because
the receipt of the deposit is still there with the frozen amount, and the fate
of a reservation must be readable off its receipts: `EscrowIInv` therefore adds
`StatusMatchesReceipts` and `ReceiptsMatchTerms`. The step proof handles
`deposit` on its own and the four closing calls through one lemma about the
shape they share (`Closing`). The balance equation `EscrowSolvent`, a sum over
all reservations and accounts, is proved for finite sets of both
(`EscrowFinite`). The library's sum is a fold, and what a fold computes needs an
induction over the set; `Minimal` stands in for it: a nonempty family of
subsets of a finite set has a smallest member, so a fold that went wrong for
some set goes wrong for a least one. From there any element may be taken out of
a sum (`SumTake`), changing one summand changes the sum by as much
(`SumChange`), and each call moves one amount between a reservation, an account
and the contract (`MoveSolvent`).

**`EscrowReservations_proofs`** proves, for any number of reservations,
customers and permits and for clocks that are not related to each other, the
safety properties the wallet run checks, and two refinements: the composition
implements `EscrowSpec` (so the contract's theorems hold of it) and
`reservation.status` implements `ReservationLifecycle`, with and without a
deposit. Beside `EscrowAssumption` it uses `ReservationsAssumption`: the
persisted snapshot of a row is one the contract can be shown. The inductive
invariant `IInv` is the contract's, the types, the safety properties, and three
facts about what outlives a released lock: `EligibleStands` and `PermitsStand`
(a request found eligible, and a permit that was signed, belong to an existing
row and, for a decision on a deposit, to a confirmed one; both are permanent,
which is why it does no harm that they were read before the lock was released),
and `TermsMatchRows` (the contract knows only rows of the database). The central
argument is `ConfirmedWhileHeld`: while the contract still holds a deposit there
is no closing receipt, so no closing proof, so a confirmed row can only be
pending. When the agency is paid through a permit of any age, the row is
confirmed and the deposit was held a moment ago, so the row holds its listing;
two paid reservations of one listing would both be active
(`NoListingPaidTwice`). `MoneyFollowsRow` and `NothingMinedIsLost` follow from
the same invariant and need no further induction: a recorded proof is a receipt,
the contract's invariant says what its receipts did to the deposit, and the
nonces say which call came before which. The module ends with the two properties
of the abstract life cycle itself: a listing has one active reservation, and a
closed one stays closed.

**`CardPayments_proofs`** proves `CardInvariant` and `ClosedStaysClosed` for
any number of reservations and threads. The strengthening says what a request
that was interrupted knows: `TasksKnow` (a decision under way saw a confirmed
deposit, and a call that was answered moved the money), `HookKnows` (the
webhook in progress is about a charge no other one has confirmed),
`ConfirmedIsProcessed`. All of it is about facts that never become false
(`Forward`: at Stripe money only moves forward and a confirmation is never
withdrawn), so the steps of all other requests preserve it by one lemma.

**`WorkerJobs_proofs`** proves `DetectionInvariant` and `CaptureInvariant`, and
that detection and captures implement `JobLifecycle`, for any number of jobs,
captures, workers, editors and deliveries and any budget. `RowsRight` and
`CapturesRight` say for each status how many claims a row has had, that a
running row's token is its last claim's and that its budget is not spent, so that
claims never exceed it (`ClaimsWithinBudget`);
`PublishedIsSent` and `MessagesAreSent` say that a publication about to be
recorded was accepted by the queue for the attempt it carries, which makes a
late marker harmless.

**`Catalog_proofs`** proves the invariants of the five parts of the catalog, and
that its records stand, for any constants with `CatalogAssumption` (sets are
finite where the model counts them, times and limits are naturals).

- Offers: the core is `Versioned`, a step that keeps the version keeps
  everything a quote is made of. Then `PageRight` and `QuotesRight` (a page or a
  quote of the current version agrees with the offer) are inductive, and what a
  customer reserves is what the page showed. `TrailEnds`: the trail of
  transitions ends at the status the listing has.
- Furniture: `ScreensRight` says what an editor's screen of the current revision
  or version shows; a save with a matching `If-Match` therefore replaces what
  its editor has seen.
- Photos: `PhotoRight` says for each object that a row or a deletion intent
  names it, that a signed upload link ends before its row or intent does, and
  that a photo forgotten by both has no object and no link left.
- Quote limit, for requests that wait for any time: `CallsRight` says that an
  admitted request stays stored until a whole window has passed, by whatever
  clock others delete, so what a request counts includes everything that was
  admitted before it came, short of the longest wait (`PacedBound`);
  `RefusedRight` ties `Retry-After` to the oldest request of a full window. The
  documented bound on every window is no theorem: it is false (section 5).
- Search: every listing has a rank among the keys (`RanksAreTaken`) and a page
  is the first ranks after its cursor (`FirstRowsAre`), so what was shown is an
  initial segment of what stayed public.

**`People_proofs`** proves the invariants of the four identity modules, and that
what has ended stays ended, for any people, addresses, clocks, lags and terms
with `PeopleAssumption`.

- Customers: every session goes back to a login that exists (`SessionsShape`)
  and ends when that login does (`SessionsRight`).
- Wallets: `UsedUp` says that a request between its two transactions has used up
  a challenge nobody else has.
- Staff sessions: `TouchRight` says what a request that holds one row lock and
  waits for the other may rely on; `LocksExclusive` that no second one holds it.
- Invitations: `OneStands` says that one invitation, enrolment or account at
  most stands for an address. It survives old clocks because a row that one
  transaction judges with a clock of the past and finds lapsed is lapsed now
  (`FreeIsFree`). `HeldRight` says what a bootstrap run knows between its read and
  its write: nothing stands for the address it holds, no other run holds it, and a
  row it has seen exists, so that expiring that row, whatever it has become, takes
  a claim away and gives none. `OnePlatformPending` and `OnePlatformAccount` give
  the single platform administrator.

**`Services_proofs`** proves what the services promise for any constants with
`ServicesAssumption`.

- Interpretation: at most three requests, one correction, one repeat, none
  before the provider allows it and none at or after the deadline. `AskedSoFar`
  relates the requests sent to the attempt the handler is at, `StepRight` says
  what each step may rely on.
- Rates: `RowsRight` says that a stored rate is one its source published under
  that name. That the history of a single process grows no faster than its
  sources change is an argument about a potential (`HistoryRight`): every value
  a source takes, every failure and every administered rate pays for one row,
  and a run in progress has its row paid for. That a converted total is within
  half a cent of the exact one (`RoundingsAddUp`) holds where the decimal
  context has room for the amount and the rates (`ContextHasRoom`, which is what
  `_precision_for` provides) and uses of powers only that they are positive and
  grow (`PowersOfTen`).
- Geometry: `RoomIInv` says no more than that a room is what `Normalize` made of
  the contour and the evidence; that this room is right is an argument about
  the operators, in a module of its own.

**`FloorplanGeometry_proofs`** proves that argument for every contour with
integer coordinates, however many corners it has (`GeometryAssumption`;
`RoomSafe` states the result for the component alone).

- Removing one flat corner (`RemovalClashes`, `RemovalArea`) changes neither the
  area nor which walls cross or overlap, and every edge still lies on a wall
  (`FollowsOnce`). So a simple contour stays simple, and every flat corner of one
  is redundant (`FlatIsRedundant`).
- `Reduced` repeats this. That the recursion ends without a redundant corner
  and keeps what each removal keeps (`ReducedIs`) needs an induction over its
  steps; a least counterexample stands in for it (`UpTo`, from the
  well-foundedness of the numbers).
- An edge matches the wall it lies on, whatever its direction and the size of
  the plan (`WallFound`): it is parallel, covered and at no distance. So an edge
  with one match is mapped to its wall, and an edge without one does not occur
  in a simple contour; where it has two, the provider's contour stands
  (`SimplifiedIs`).
- A fraction of an edge, moved to the wall the edge lies on, is the same point
  (`MovedIs`), and that wall is the one a dimension of the edge names.

Only model-checked: all liveness properties (the prover does not handle
fairness). Proved and not run, because a
run would only repeat the theorem: `OnlyPartiesDecide`
(`EscrowDeadlineAndParties`), `RequestsTypeOK` (`ReservationsTypeCorrect`),
`NoListingPaidTwice` (`ReservationsListingPaidOnce`), the two properties of the
abstract life cycle, and the listings without a deposit
(`ReservationsImplementLifecycle`).

## 5. Disagreements found

Checked by a run that must find the violation:

- `card_both`: `docs/plan-maestro-roomforge.md:888` promises that accepting does
  not refund and rejecting does not transfer. A customer's `card-cancel` that
  read the payment as `succeeded` just before the agency's decision marked it
  refunds the charge while the decision transfers it. One of the two closing
  transactions is refused, but the money has moved twice.
- `card_refund`: `:885` promises that an expiry refunds. The webhook judges the
  reservation by a read without a lock; if a customer's read expires it in
  between, the payment is recorded on an expired reservation, never refunded.
- `reconstruction_retention`: `reconstruction/service.py:200` says that a capture
  being processed is skipped. The sweep selects due captures first and deletes
  each package later without looking at the status again, so one that was
  claimed in between loses its package under the worker.
- `quote_limit`: `docs/api/catalog-reservations-v1.md:54` and `:293` promise at
  most ten requests in any 60 seconds. The clock of a request is read before it
  waits for the lock of its address (`catalog/router.py:331`); a request that is
  overtaken while it waits does not count those that overtook it, so a window
  may admit more. `Retry-After` is then computed from the oldest of too many
  requests and may be too short, which is why `RetryIsEnough` is stated for
  windows that are not overfilled.

Stated as a property of a module and left without a run of their own; each fails
for the instance named here:

- `CardPayments!OverdueEventuallyCloses` (`CardFairSpec`, one reservation, one
  worker, `Declines` empty): `docs/api/catalog-reservations-v1.md:121` promises
  that `card-expire` closes an overdue reservation. If its refund succeeded but
  the answer was lost, the refund webhook sets the payment to `refunded`, and
  every later `card-expire` tries to cancel the paid intent, which Stripe
  refuses.
- `ReconstructionJobs!DueFramesEventuallyDeleted` (the constants of
  `reconstruction_retention`): a capture that waits for its upload past its
  retention is recorded as deleted; the app may still upload, with the URL a
  repeated registration hands out, and the confirmation renews
  `frames_delete_after` but not `frames_deleted_at`
  (`reconstruction/router.py:222`), so no sweep looks at the package again,
  whatever `reconstruction/service.py:197` says of due frames.
- `StaffSessions!ReactivationNeedsLogin` and `DeactivationTakesEffect` (the
  constants of `MCPeople`): a login challenge of before a deactivation opens a
  session after the reactivation (`agencies/router.py:282` ends sessions, not
  challenges), and a deactivation may be the victim of a deadlock with a request
  of the same agent (`:285`).
- `ExchangeRates!RoundsOnceHalfUp` (the constants of `MCServices`):
  `docs/api/f02-api-contract.md:80` says that a conversion rounds once;
  `exchange_rates/service.py:300` rounds the quotient first. The total stays
  within half a cent of the exact one (`ConvertedToNearest`, checked).
- `FloorplanGeometry!DimensionMeasuresItsWall` (`Places` = `{<<1, 2>>}`): a
  dimension of one edge stays proposed on the longer wall its edge was merged
  into (`floorplan_interpretation/service.py:476`).

A deposit mined in time but reported after its reservation lapsed stays with a
lapsed reservation by design (`catalog-reservations-v1.md:369`: an expired
reservation is not reopened). `MoneyFollowsRow` checks and proves that it is whole
in the escrow or back with the customer; that somebody calls `expire` for it, as
anybody may, is not claimed.

## 6. Not modelled, and limits

- The reconstruction and detection algorithms (`reconstruct.py`, `detect.py`):
  floating-point geometry and a neural detector, pure functions of their input.
  The models choose their outcome.
- The Flutter apps and the React panel: presentation, AR capture and drawing. In
  the models they are the environment that uploads, submits permits, reports
  hashes, retries and gives up at any moment. The store that lets the customer
  app report a transaction after a restart is represented by reports that may come
  at any later moment, or never.
- The filters and serialisation of the catalog, the media links of a listing,
  the raw-payload coercions and messages of the floor-plan quality gate, the
  texts of mails, the creation of an agency (a row with its id).
- Stripe onboarding beyond its outcome; a paid intent without `latest_charge`,
  which leaves a decision at `transfer_pending`; a declined event whose
  `amount_received` does not match the payment, which the webhook refuses and
  Stripe repeats.
- Chain reorganisations: the backend talks to one local development chain.
- The idempotency key of a creation: a reservation of the models is one key.
- Row locks, except in `StaffSessions`. Elsewhere a deadlock is resolved by the
  database aborting one transaction, which the models contain as a failed or
  abandoned request. Database transactions are serial within one row.
- Composition across components. Reservations take their quote in
  `ListingOffers`, and their deposit in `EscrowReservations` and `CardPayments`;
  what joins them is that a booking freezes the terms of its quote
  (`BookedAsQuoted`) and that the contract is shown the frozen terms
  (`TermsMatchRows`). No module holds all of them together.
- `api` assembly, settings, migrations other than the triggers of the offer
  version, and deployment.

## 7. Plan

What would add most, in this order:

1. The customer app's store of pending transactions and its restart, from which a
   liveness property of its own reports would follow; the upload queue of the
   capture app.
2. A booking module that joins the idempotency key and the quote of a creation
   with both kinds of payment.
