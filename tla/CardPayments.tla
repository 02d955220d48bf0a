---------------------------- MODULE CardPayments ----------------------------
(***************************************************************************)
(* Card reservations: backend/app/modules/stripe_payments/router.py over   *)
(* Stripe.  Request handlers run in a pool of threads; each does           *)
(*                                                                         *)
(*   intent     check the row | create the PaymentIntent, insert the row   *)
(*   decision   check the rows | mark the payment | call Stripe |          *)
(*              lock, check again, close                                   *)
(*   closing    check the rows | call Stripe | lock, check again, close    *)
(*                                                                         *)
(* and may die at every bar.  Webhooks run one at a time (an async handler *)
(* with synchronous code holds the event loop) in one transaction that     *)
(* locks the payment row but reads the reservation without a lock.         *)
(* Stripe is external: an intent is paid by the customer, cancelled, and   *)
(* once paid refunded or transferred, each at most once under its          *)
(* Idempotency-Key; a charge that was refunded cannot be transferred.      *)
(***************************************************************************)
EXTENDS Integers

CONSTANTS
  Reservations, Customers, ListingOf, CustomerOf, Window, MaxTime,
  Declines,     \* reservations whose card may first be declined
  Workers,      \* threads serving requests
  NoTask        \* an idle worker

\* Assumed of the constants by the theorems and by every instance.
CardAssumption ==
  /\ Window \in Nat \ {0}
  /\ MaxTime \in Nat
  /\ CustomerOf \in [Reservations -> Customers]

VARIABLES
  status, deadline, confirmed, now,   \* the reservation table and the clock
  pay,        \* reservation_card_payment.status, "none" before the row exists
  processed,  \* rows of stripe_webhook_event, per reservation
  payouts,    \* stripe_connect_account.payouts_enabled, as last reported
  intent,     \* Stripe: the PaymentIntent
  declined,   \* Stripe: the card was declined once
  refunded,   \* Stripe: the charge was refunded
  transferred,\* Stripe: the charge was transferred to the agency
  task,       \* the request each worker is serving
  hook        \* the webhook being served

bookVars == <<status, deadline, confirmed, now>>
stripeVars == <<intent, declined, refunded, transferred>>
cardVars == <<bookVars, pay, processed, payouts, stripeVars, task, hook>>

B == INSTANCE ReservationBook
L == INSTANCE ReservationLifecycle

PayStatuses ==
  {"none", "requires_payment_method", "failed", "succeeded",
   "transfer_pending", "refund_pending", "transferred", "refunded", "cancelled"}
Events == {"succeeded", "payment_failed", "refunded"}
Decisions == {"accept", "reject"}
Closings == {"cancel", "expire"}

\* row and paid remember what the first step of a request saw of the payment.
Tasks == [op: {"intent"} \union Decisions \union Closings, rid: Reservations,
          at: {"checked", "marked", "called", "failed"},
          row: BOOLEAN, paid: BOOLEAN]

\* pending and live remember what a payment event saw of the reservation.
Hooks == [rid: Reservations, pending: BOOLEAN, live: BOOLEAN]

CardTypeOK ==
  /\ B!BookTypeOK
  /\ pay \in [Reservations -> PayStatuses]
  /\ processed \in [Reservations -> SUBSET Events]
  /\ payouts \in BOOLEAN
  /\ intent \in [Reservations -> {"none", "open", "succeeded", "canceled"}]
  /\ declined \in [Reservations -> BOOLEAN]
  /\ refunded \in [Reservations -> BOOLEAN]
  /\ transferred \in [Reservations -> BOOLEAN]
  /\ task \in [Workers -> Tasks \union {NoTask}]
  /\ hook \in Hooks \union {NoTask}

CardInit ==
  /\ B!BookInit
  /\ pay = [r \in Reservations |-> "none"]
  /\ processed = [r \in Reservations |-> {}]
  /\ payouts = FALSE
  /\ intent = [r \in Reservations |-> "none"]
  /\ declined = [r \in Reservations |-> FALSE]
  /\ refunded = [r \in Reservations |-> FALSE]
  /\ transferred = [r \in Reservations |-> FALSE]
  /\ task = [w \in Workers |-> NoTask]
  /\ hook = NoTask

-----------------------------------------------------------------------------

BookStep ==
  /\ B!BookNext
  /\ UNCHANGED <<pay, processed, payouts, stripeVars, task, hook>>

\* A request ends with an error or its process dies: no further step, nothing
\* undone.
Abandon(w) ==
  /\ task[w] # NoTask
  /\ task' = [task EXCEPT ![w] = NoTask]
  /\ UNCHANGED <<bookVars, pay, processed, payouts, stripeVars, hook>>

Begin(w, op, r, row, paid) ==
  /\ task[w] = NoTask
  /\ task' = [task EXCEPT ![w] =
       [op |-> op, rid |-> r, at |-> "checked", row |-> row, paid |-> paid]]
  /\ UNCHANGED <<bookVars, pay, processed, payouts, stripeVars, hook>>

At(w, ops, step) ==
  /\ task[w] # NoTask
  /\ task[w].op \in ops
  /\ task[w].at = step

MoveTo(w, step) == task' = [task EXCEPT ![w].at = step]
Done(w) == task' = [task EXCEPT ![w] = NoTask]

\* The webhook in progress holds the lock of its payment row.
PaymentUnlocked(r) == IF hook = NoTask THEN TRUE ELSE hook.rid # r

\* create_card_payment_intent, first session.
CheckIntent(w, r) ==
  /\ status[r] = "pending"
  /\ ~confirmed[r]
  /\ now < deadline[r]
  /\ payouts
  /\ Begin(w, "intent", r, FALSE, FALSE)

\* The rest of it.  Nobody can pay before the response carries the client secret,
\* so the intent counts as open once its row is committed; a repeated call gets
\* the first intent back and leaves the row alone.
OpenIntent(w) ==
  LET r == task[w].rid IN
  /\ At(w, {"intent"}, "checked")
  /\ pay' = [pay EXCEPT ![r] = IF @ = "none" THEN "requires_payment_method" ELSE @]
  /\ intent' = [intent EXCEPT ![r] = IF @ = "none" THEN "open" ELSE @]
  /\ Done(w)
  /\ UNCHANGED <<bookVars, processed, payouts, declined, refunded, transferred, hook>>

-----------------------------------------------------------------------------

\* What Stripe answers to; a call repeated under its key repeats its effect.
TransferAllowed(r) == intent[r] = "succeeded" /\ (transferred[r] \/ ~refunded[r])
RefundAllowed(r) == intent[r] = "succeeded"
CancelAllowed(r) == intent[r] \in {"open", "canceled"}

Transfer(r) ==
  /\ TransferAllowed(r)
  /\ transferred' = [transferred EXCEPT ![r] = TRUE]
  /\ UNCHANGED <<intent, declined, refunded>>
Refund(r) ==
  /\ RefundAllowed(r)
  /\ refunded' = [refunded EXCEPT ![r] = TRUE]
  /\ UNCHANGED <<intent, declined, transferred>>
CancelIntent(r) ==
  /\ CancelAllowed(r)
  /\ intent' = [intent EXCEPT ![r] = "canceled"]
  /\ UNCHANGED <<declined, refunded, transferred>>

Pay(r) ==
  /\ intent[r] = "open"
  /\ intent' = [intent EXCEPT ![r] = "succeeded"]
  /\ UNCHANGED <<declined, refunded, transferred>>
Decline(r) ==
  /\ intent[r] = "open" /\ r \in Declines
  /\ declined' = [declined EXCEPT ![r] = TRUE]
  /\ UNCHANGED <<intent, refunded, transferred>>

\* The customer submits the card form.
CustomerPays(r) ==
  /\ Pay(r) \/ Decline(r)
  /\ UNCHANGED <<bookVars, pay, processed, payouts, task, hook>>

\* account.updated, or the agency looks at its Connect status.
AccountUpdated(enabled) ==
  /\ hook = NoTask
  /\ payouts' = enabled
  /\ UNCHANGED <<bookVars, pay, processed, stripeVars, task, hook>>

-----------------------------------------------------------------------------

PendingOf(action) == IF action = "accept" THEN "transfer_pending" ELSE "refund_pending"

\* decide_card_reservation, the reads of its first transaction: none takes a lock.
CheckDecision(w, r, action) ==
  /\ status[r] = "pending"
  /\ now < deadline[r]
  /\ pay[r] \in {"succeeded", PendingOf(action)}
  /\ confirmed[r]
  /\ action = "accept" => payouts
  /\ Begin(w, action, r, TRUE, pay[r] = "succeeded")

\* Its write.  The column is written only if the value read differs, whatever the
\* row holds by now.
MarkDecision(w) ==
  LET r == task[w].rid IN
  /\ At(w, Decisions, "checked")
  /\ PaymentUnlocked(r)
  /\ pay' = IF task[w].paid THEN [pay EXCEPT ![r] = PendingOf(task[w].op)] ELSE pay
  /\ MoveTo(w, "marked")
  /\ UNCHANGED <<bookVars, processed, payouts, stripeVars, hook>>

DecisionMoves(w) ==
  IF task[w].op = "accept" THEN Transfer(task[w].rid) ELSE Refund(task[w].rid)

CallDecision(w) ==
  /\ At(w, Decisions, "marked")
  /\ DecisionMoves(w)
  /\ MoveTo(w, "called")
  /\ UNCHANGED <<bookVars, pay, processed, payouts, hook>>

\* Faulty variant: the error is swallowed.
CallDecisionFailsSilently(w) ==
  /\ At(w, Decisions, "marked")
  /\ MoveTo(w, "called")
  /\ UNCHANGED <<bookVars, pay, processed, payouts, stripeVars, hook>>

\* A StripeGatewayError: refused or unreachable, or the answer was lost.
CallDecisionFails(w) ==
  /\ At(w, Decisions, "marked")
  /\ DecisionMoves(w) \/ UNCHANGED stripeVars
  /\ MoveTo(w, "failed")
  /\ UNCHANGED <<bookVars, pay, processed, payouts, hook>>

\* The handler of that error lets the agency try again.
ResetDecision(w) ==
  LET r == task[w].rid IN
  /\ At(w, Decisions, "failed")
  /\ PaymentUnlocked(r)
  /\ pay' = [pay EXCEPT ![r] = IF @ = PendingOf(task[w].op) THEN "succeeded" ELSE @]
  /\ Done(w)
  /\ UNCHANGED <<bookVars, processed, payouts, stripeVars, hook>>

\* The last transaction: 409 unless still pending and still this operation's.
DecisionStands(r, action) == status[r] = "pending" /\ pay[r] = PendingOf(action)

PaidOut(action) ==
  IF action = "accept" THEN {"transferred"} ELSE {"refunded", "refund_pending"}

FinishDecision(w) ==
  LET r == task[w].rid IN
  /\ At(w, Decisions, "called")
  /\ PaymentUnlocked(r)
  /\ DecisionStands(r, task[w].op)
  /\ status' = [status EXCEPT ![r] =
                  IF task[w].op = "accept" THEN "accepted" ELSE "rejected"]
  /\ \E result \in PaidOut(task[w].op) : pay' = [pay EXCEPT ![r] = result]
  /\ Done(w)
  /\ UNCHANGED <<deadline, confirmed, now, processed, payouts, stripeVars, hook>>

-----------------------------------------------------------------------------

InTime(r, op) == IF op = "expire" THEN now >= deadline[r] ELSE now < deadline[r]

\* _close_customer_card_reservation, its first session.
CheckClosing(w, r, op) ==
  /\ status[r] = "pending"
  /\ InTime(r, op)
  /\ Begin(w, op, r, pay[r] # "none", pay[r] = "succeeded")

ClosingMoves(w) ==
  IF task[w].paid THEN Refund(task[w].rid) ELSE CancelIntent(task[w].rid)

\* Faulty variant: the error is swallowed.
CallClosingSilently(w) ==
  /\ At(w, Closings, "checked")
  /\ task[w].row
  /\ MoveTo(w, "called")
  /\ UNCHANGED <<bookVars, pay, processed, payouts, stripeVars, hook>>

CallClosing(w) ==
  /\ At(w, Closings, "checked")
  /\ task[w].row
  /\ ClosingMoves(w)
  /\ MoveTo(w, "called")
  /\ UNCHANGED <<bookVars, pay, processed, payouts, hook>>

\* The call took effect and its answer was lost.
CallClosingLost(w) ==
  /\ At(w, Closings, "checked")
  /\ task[w].row
  /\ ClosingMoves(w)
  /\ Done(w)
  /\ UNCHANGED <<bookVars, pay, processed, payouts, hook>>

\* Faulty variant: no second check.
ClosingStandsUnchecked(r) == TRUE

ClosedAs(op) == IF op = "expire" THEN "expired" ELSE "cancelled"

\* The last transaction locks the reservation, and the payment if it was seen.
ClosingStands(r) == status[r] = "pending"

FinishClosing(w) ==
  LET r == task[w].rid IN
  /\ At(w, Closings, IF task[w].row THEN "called" ELSE "checked")
  /\ task[w].row => PaymentUnlocked(r)
  /\ ClosingStands(r)
  /\ status' = [status EXCEPT ![r] = ClosedAs(task[w].op)]
  /\ IF task[w].row
       THEN \E result \in IF task[w].paid THEN PaidOut("reject") ELSE {"cancelled"} :
              pay' = [pay EXCEPT ![r] = result]
       ELSE UNCHANGED pay
  /\ Done(w)
  /\ UNCHANGED <<deadline, confirmed, now, processed, payouts, stripeVars, hook>>

-----------------------------------------------------------------------------

\* An event Stripe has sent, and sends again until it is answered with success.
Deliverable(r, event) ==
  /\ event \notin processed[r]
  /\ pay[r] # "none"
  /\ hook = NoTask
  /\ CASE event = "succeeded" -> intent[r] = "succeeded"
       [] event = "payment_failed" -> declined[r]
       [] event = "refunded" -> refunded[r]

\* stripe_webhook, payment_intent.succeeded: dedupe, lock the payment, read the
\* reservation.
HookReads(r) ==
  /\ Deliverable(r, "succeeded")
  /\ hook' = [rid |-> r, pending |-> status[r] = "pending",
              live |-> status[r] = "pending" /\ now < deadline[r]]
  /\ UNCHANGED <<bookVars, pay, processed, payouts, stripeVars, task>>

Processed(r, event) == processed' = [processed EXCEPT ![r] = @ \union {event}]

\* Faulty variants: a confirmation revives the reservation, a failed delivery is
\* remembered as processed, any payment event confirms.
HookConfirmsReviving ==
  /\ hook # NoTask /\ hook.live
  /\ confirmed' = [confirmed EXCEPT ![hook.rid] = TRUE]
  /\ status' = [status EXCEPT ![hook.rid] = "pending"]
  /\ pay' = [pay EXCEPT ![hook.rid] = "succeeded"]
  /\ Processed(hook.rid, "succeeded")
  /\ hook' = NoTask
  /\ UNCHANGED <<deadline, now, payouts, stripeVars, task>>
HookFailsProcessed ==
  /\ hook # NoTask
  /\ Processed(hook.rid, "succeeded")
  /\ hook' = NoTask
  /\ UNCHANGED <<bookVars, pay, payouts, stripeVars, task>>
HookDeclinedConfirms(r) ==
  /\ Deliverable(r, "payment_failed")
  /\ confirmed' = [confirmed EXCEPT ![r] = TRUE]
  /\ Processed(r, "payment_failed")
  /\ UNCHANGED <<status, deadline, now, pay, payouts, stripeVars, task, hook>>

\* In time: the deposit is confirmed.
HookConfirms ==
  /\ hook # NoTask /\ hook.live
  /\ confirmed' = [confirmed EXCEPT ![hook.rid] = TRUE]
  /\ pay' = [pay EXCEPT ![hook.rid] = "succeeded"]
  /\ Processed(hook.rid, "succeeded")
  /\ hook' = NoTask
  /\ UNCHANGED <<status, deadline, now, payouts, stripeVars, task>>

\* Too late: the charge is refunded and a pending reservation expires.
HookRefunds ==
  /\ hook # NoTask /\ ~hook.live
  /\ Refund(hook.rid)
  /\ pay' = [pay EXCEPT ![hook.rid] = "refunded"]
  /\ status' = IF hook.pending THEN [status EXCEPT ![hook.rid] = "expired"] ELSE status
  /\ Processed(hook.rid, "succeeded")
  /\ hook' = NoTask
  /\ UNCHANGED <<deadline, confirmed, now, payouts, task>>

\* The transaction rolls back: Stripe failed (503), or the process died, perhaps
\* after the refund was made.
HookFails ==
  /\ hook # NoTask
  /\ UNCHANGED stripeVars \/ (~hook.live /\ Refund(hook.rid))
  /\ hook' = NoTask
  /\ UNCHANGED <<bookVars, pay, processed, payouts, task>>

\* payment_intent.payment_failed.
HookDeclined(r) ==
  /\ Deliverable(r, "payment_failed")
  /\ pay' = [pay EXCEPT ![r] = "failed"]
  /\ Processed(r, "payment_failed")
  /\ UNCHANGED <<bookVars, payouts, stripeVars, task, hook>>

\* charge.refunded or refund.updated.
HookRefunded(r) ==
  /\ Deliverable(r, "refunded")
  /\ \E result \in PaidOut("reject") : pay' = [pay EXCEPT ![r] = result]
  /\ Processed(r, "refunded")
  /\ UNCHANGED <<bookVars, payouts, stripeVars, task, hook>>

-----------------------------------------------------------------------------

Serve(w) ==
  \/ \E r \in Reservations : CheckIntent(w, r)
  \/ OpenIntent(w)
  \/ \E r \in Reservations, action \in Decisions : CheckDecision(w, r, action)
  \/ MarkDecision(w)
  \/ CallDecision(w)
  \/ CallDecisionFails(w)
  \/ ResetDecision(w)
  \/ FinishDecision(w)
  \/ \E r \in Reservations, op \in Closings : CheckClosing(w, r, op)
  \/ CallClosing(w)
  \/ CallClosingLost(w)
  \/ FinishClosing(w)
  \/ Abandon(w)

Hook ==
  \/ \E r \in Reservations : HookReads(r) \/ HookDeclined(r) \/ HookRefunded(r)
  \/ HookConfirms
  \/ HookRefunds
  \/ HookFails

CardNext ==
  \/ BookStep
  \/ \E w \in Workers : Serve(w)
  \/ \E r \in Reservations : CustomerPays(r)
  \/ \E enabled \in BOOLEAN : AccountUpdated(enabled)
  \/ Hook

CardSpec == CardInit /\ [][CardNext]_cardVars

\* Stripe redelivers an event until the webhook answers with success, which its
\* calls and the process allow at some point.
HookFairness ==
  \A r \in Reservations :
    /\ SF_cardVars(HookReads(r))
    /\ SF_cardVars((HookConfirms \/ HookRefunds) /\ hook.rid = r)

\* Time passes, customers keep looking at their reservations and keep asking to
\* expire the overdue ones, every request ends or dies, and not every attempt of
\* theirs fails.
CustomerFairness ==
  /\ WF_cardVars(B!Tick /\ BookStep)
  /\ \A c \in Customers : WF_cardVars(B!ReadOwn(c) /\ BookStep)
  /\ \A w \in Workers, r \in Reservations :
       SF_cardVars(CheckClosing(w, r, "expire"))
  /\ \A w \in Workers :
       /\ WF_cardVars(Abandon(w))
       /\ SF_cardVars(CallClosing(w))
       /\ SF_cardVars(FinishClosing(w))

CardHookSpec == CardSpec /\ HookFairness
CardFairSpec == CardSpec /\ HookFairness /\ CustomerFairness

-----------------------------------------------------------------------------

\* docs/plan-maestro-roomforge.md F09.8: no reservation shows as confirmed without
\* a payment that succeeded at Stripe.
ConfirmedMeansCharged ==
  \A r \in Reservations : confirmed[r] => intent[r] = "succeeded"

\* An agency decision is final only after the money has moved its way, although
\* Stripe's answer may be lost, late or an error.
DecidedMeansMoved ==
  \A r \in Reservations :
    /\ status[r] = "accepted" => confirmed[r] /\ transferred[r]
    /\ status[r] = "rejected" => confirmed[r] /\ refunded[r]

\* The final values of the payment row are true at Stripe, although requests,
\* retries and webhooks overwrite it in any order.
PaymentRowIsTrue ==
  \A r \in Reservations :
    /\ pay[r] = "transferred" => transferred[r]
    /\ pay[r] = "refunded" => refunded[r]
    /\ pay[r] = "cancelled" => intent[r] = "canceled"
    /\ pay[r] = "succeeded" => intent[r] = "succeeded"

\* Never two pending or accepted reservations for one listing, late payments,
\* decisions and closings included.
OneActive == L!OneActivePerListing

\* No late payment or closing reopens a reservation or undoes an acceptance.
KeptClosed ==
  \A r \in Reservations :
    /\ status[r] = "accepted" => status'[r] = "accepted"
    /\ status[r] \in L!Closed => status'[r] \in L!Closed
ClosedStaysClosed == [][KeptClosed]_cardVars

\* The database, Stripe and the listing agree.
CardInvariant ==
  /\ CardTypeOK
  /\ ConfirmedMeansCharged
  /\ DecidedMeansMoved
  /\ PaymentRowIsTrue
  /\ OneActive

\* docs/plan-maestro-roomforge.md F09.8: accepting does not refund and rejecting
\* does not transfer.
NotBothTransferredAndRefunded ==
  \A r \in Reservations : ~(transferred[r] /\ refunded[r])

\* docs/plan-maestro-roomforge.md F09.8: an expiry refunds.  Once the webhook has
\* dealt with the payment, nothing else would refund an expired reservation.
ExpiredMeansRefunded ==
  \A r \in Reservations :
    status[r] = "expired" /\ "succeeded" \in processed[r] => refunded[r]

\* docs/api/catalog-reservations-v1.md, card-expire: a card reservation past its
\* deadline can be closed as expired, refunding what was paid.
OverdueEventuallyCloses ==
  \A r \in Reservations :
    status[r] = "pending" /\ deadline[r] <= now ~> status[r] # "pending"
=============================================================================
