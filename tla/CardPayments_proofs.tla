------------------------- MODULE CardPayments_proofs -------------------------
(***************************************************************************)
(* Proofs about card reservations, for any number of reservations and of   *)
(* threads that serve requests: whatever fails, dies or arrives late, the  *)
(* database, Stripe and the listing agree, and what is closed stays so.    *)
(***************************************************************************)
EXTENDS CardPayments, TLAPS

\* What a request in progress has seen or done is permanent: a decision saw a
\* confirmed deposit, and a call that was answered moved the money.
Knows(w) ==
  task[w] # NoTask =>
    /\ task[w].op \in Decisions => confirmed[task[w].rid]
    /\ task[w].at = "called" =>
         /\ task[w].op = "accept" => transferred[task[w].rid]
         /\ task[w].op = "reject" => refunded[task[w].rid]
         /\ task[w].op \in Closings /\ task[w].paid => refunded[task[w].rid]
         /\ task[w].op \in Closings /\ ~task[w].paid => intent[task[w].rid] = "canceled"
TasksKnow == \A w \in Workers : Knows(w)

\* The webhook in progress is about a charge that no other one has confirmed.
HookKnows ==
  hook # NoTask =>
    /\ intent[hook.rid] = "succeeded"
    /\ "succeeded" \notin processed[hook.rid]
    /\ hook.pending => status[hook.rid] # "none"

ConfirmedIsProcessed ==
  \A r \in Reservations : confirmed[r] => "succeeded" \in processed[r]

CardIInv ==
  /\ CardInvariant
  /\ TasksKnow
  /\ HookKnows
  /\ ConfirmedIsProcessed

\* At Stripe money only moves forward, and a confirmation is never withdrawn.
Forward ==
  \A r \in Reservations :
    /\ intent[r] = "succeeded" => intent'[r] = "succeeded"
    /\ intent[r] = "canceled" => intent'[r] = "canceled"
    /\ refunded[r] => refunded'[r]
    /\ transferred[r] => transferred'[r]
    /\ confirmed[r] => confirmed'[r]

-----------------------------------------------------------------------------

LEMMA CardInitIInv == ASSUME CardAssumption, CardInit PROVE CardIInv
<1> USE DEF CardInit, B!BookInit
<1>1. CardTypeOK
  <2>1. B!BookTypeOK
    BY DEF CardAssumption, B!BookTypeOK, B!L!Statuses, B!L!Active, B!L!Closed
  <2>2. hook \in Hooks \union {NoTask} /\ task \in [Workers -> Tasks \union {NoTask}]
    OBVIOUS
  <2> QED BY <2>1, <2>2 DEF CardTypeOK, PayStatuses
<1>2. ConfirmedMeansCharged /\ DecidedMeansMoved /\ PaymentRowIsTrue
  BY DEF ConfirmedMeansCharged, DecidedMeansMoved, PaymentRowIsTrue
<1>3. OneActive
  BY DEF OneActive, L!OneActivePerListing, L!Active
<1>4. TasksKnow /\ HookKnows /\ ConfirmedIsProcessed
  BY DEF TasksKnow, Knows, HookKnows, ConfirmedIsProcessed
<1> QED BY <1>1, <1>2, <1>3, <1>4 DEF CardIInv, CardInvariant

-----------------------------------------------------------------------------
(* Forward. *)

\* The calls at Stripe.
LEMMA StripeForward ==
  ASSUME CardTypeOK, NEW r \in Reservations, confirmed' = confirmed,
         Transfer(r) \/ Refund(r) \/ CancelIntent(r) \/ Pay(r) \/ Decline(r)
  PROVE  Forward
BY DEF CardTypeOK, Forward, Transfer, Refund, CancelIntent, Pay, Decline, CancelAllowed

LEMMA ServeForward ==
  ASSUME CardTypeOK, NEW w \in Workers, Serve(w)
  PROVE  Forward
<1> USE DEF CardTypeOK, At, Tasks
<1> SUFFICES ASSUME ~(UNCHANGED <<confirmed, intent, refunded, transferred>>)
             PROVE  Forward
  BY DEF Forward
<1>1. CASE OpenIntent(w)
  <2>1. UNCHANGED <<confirmed, refunded, transferred>>
    BY <1>1 DEF OpenIntent, bookVars
  <2>2. intent' = [intent EXCEPT ![task[w].rid] = IF @ = "none" THEN "open" ELSE @]
    BY <1>1 DEF OpenIntent
  <2> QED BY <2>1, <2>2 DEF Forward
<1>2. CASE CallDecision(w) \/ CallDecisionFails(w)
  BY <1>2, StripeForward
  DEF CallDecision, CallDecisionFails, DecisionMoves, stripeVars, bookVars
<1>3. CASE CallClosing(w) \/ CallClosingLost(w)
  BY <1>3, StripeForward DEF CallClosing, CallClosingLost, ClosingMoves, bookVars
<1> QED
  BY <1>1, <1>2, <1>3
  DEF Serve, CheckIntent, CheckDecision, MarkDecision, ResetDecision, FinishDecision,
      CheckClosing, FinishClosing, Abandon, Begin, bookVars, stripeVars

LEMMA HookForward ==
  ASSUME CardTypeOK, Hook
  PROVE  Forward
<1> USE DEF CardTypeOK, Hooks, bookVars, stripeVars
<1>1. CASE HookConfirms
  BY <1>1 DEF HookConfirms, Forward
<1>2. CASE HookRefunds \/ HookFails
  <2>1. CASE UNCHANGED <<confirmed, intent, refunded, transferred>>
    BY <2>1 DEF Forward
  <2>2. CASE hook # NoTask /\ Refund(hook.rid) /\ confirmed' = confirmed
    BY <2>2, StripeForward
  <2> QED BY <1>2, <2>1, <2>2 DEF HookRefunds, HookFails
<1>3. ASSUME NEW r \in Reservations, HookReads(r) \/ HookDeclined(r) \/ HookRefunded(r)
      PROVE  Forward
  BY <1>3 DEF HookReads, HookDeclined, HookRefunded, Forward
<1> QED BY <1>1, <1>2, <1>3 DEF Hook

LEMMA CardForward ==
  ASSUME CardTypeOK, CardNext
  PROVE  Forward
<1>1. CASE BookStep
  BY <1>1
  DEF BookStep, B!BookNext, B!CreateReservation, B!ReadOwn, B!Tick, Forward, stripeVars
<1>2. ASSUME NEW r \in Reservations, CustomerPays(r)
      PROVE  Forward
  BY <1>2, StripeForward DEF CustomerPays, bookVars
<1>3. ASSUME NEW enabled \in BOOLEAN, AccountUpdated(enabled)
      PROVE  Forward
  BY <1>3 DEF AccountUpdated, Forward, bookVars, stripeVars
<1> QED BY <1>1, <1>2, <1>3, ServeForward, HookForward DEF CardNext

-----------------------------------------------------------------------------
(* Types. *)

LEMMA BookTypes ==
  ASSUME CardAssumption, CardTypeOK, BookStep
  PROVE  CardTypeOK'
<1> USE DEF B!L!Statuses, B!L!Active, B!L!Closed
<1>1. B!BookTypeOK'
  <2> USE DEF CardTypeOK, B!BookTypeOK, CardAssumption
  <2>1. ASSUME NEW r \in Reservations, B!CreateReservation(r)
        PROVE  B!BookTypeOK'
    BY <2>1 DEF B!CreateReservation
  <2>2. ASSUME NEW c \in Customers, B!ReadOwn(c)
        PROVE  B!BookTypeOK'
    BY <2>2 DEF B!ReadOwn
  <2>3. CASE B!Tick
    BY <2>3 DEF B!Tick
  <2> QED BY <2>1, <2>2, <2>3 DEF BookStep, B!BookNext
<1> QED BY <1>1 DEF BookStep, CardTypeOK, stripeVars

LEMMA ServeTypes ==
  ASSUME CardAssumption, CardTypeOK, NEW w \in Workers, Serve(w)
  PROVE  CardTypeOK'
<1> USE DEF CardTypeOK, bookVars, stripeVars
<1> DEFINE TaskStep == task' \in [Workers -> Tasks \union {NoTask}]
<1>1. ASSUME NEW op \in {"intent"} \union Decisions \union Closings, NEW r \in Reservations,
             NEW row \in BOOLEAN, NEW paid \in BOOLEAN, Begin(w, op, r, row, paid)
      PROVE  CardTypeOK'
  <2>1. TaskStep
    BY <1>1 DEF Begin, Tasks
  <2> QED BY <1>1, <2>1 DEF Begin, B!BookTypeOK
<1>2. ASSUME NEW r \in Reservations, CheckIntent(w, r) PROVE CardTypeOK'
  BY <1>1, <1>2 DEF CheckIntent
<1>3. ASSUME NEW r \in Reservations, NEW action \in Decisions, CheckDecision(w, r, action)
      PROVE  CardTypeOK'
  BY <1>1, <1>3 DEF CheckDecision
<1>4. ASSUME NEW r \in Reservations, NEW op \in Closings, CheckClosing(w, r, op)
      PROVE  CardTypeOK'
  BY <1>1, <1>4 DEF CheckClosing
<1>5. CASE Abandon(w)
  BY <1>5 DEF Abandon, B!BookTypeOK
<1>6. ASSUME task[w] # NoTask, NEW step \in {"marked", "called", "failed"},
             MoveTo(w, step) \/ Done(w)
      PROVE  TaskStep
  <2>1. task[w] \in Tasks
    BY <1>6
  <2>2. [task[w] EXCEPT !.at = step] \in Tasks
    BY <2>1 DEF Tasks
  <2>3. task' = [task EXCEPT ![w] = [task[w] EXCEPT !.at = step]]
          \/ task' = [task EXCEPT ![w] = NoTask]
    BY <1>6 DEF MoveTo, Done
  <2> QED BY <2>2, <2>3
<1>7. CASE OpenIntent(w)
  <2>1. task[w] # NoTask /\ Done(w)
    BY <1>7 DEF OpenIntent, At
  <2>2. TaskStep
    BY <1>6, <2>1
  <2> QED BY <1>7, <2>2 DEF OpenIntent, B!BookTypeOK, PayStatuses
<1>8. CASE MarkDecision(w)
  <2>1. task[w] # NoTask /\ MoveTo(w, "marked")
    BY <1>8 DEF MarkDecision, At
  <2>2. TaskStep
    BY <1>6, <2>1
  <2>3. pay' \in [Reservations -> PayStatuses]
    BY <1>8 DEF MarkDecision, PendingOf, PayStatuses
  <2> QED BY <1>8, <2>2, <2>3 DEF MarkDecision, B!BookTypeOK
<1>9. CASE CallDecision(w) \/ CallDecisionFails(w)
  <2>1. task[w] # NoTask /\ (MoveTo(w, "called") \/ MoveTo(w, "failed"))
    BY <1>9 DEF CallDecision, CallDecisionFails, At
  <2>2. TaskStep
    BY <1>6, <2>1
  <2> QED
    BY <1>9, <2>2
    DEF CallDecision, CallDecisionFails, DecisionMoves, Transfer, Refund, B!BookTypeOK
<1>10. CASE CallClosing(w) \/ CallClosingLost(w)
  <2>1. task[w] # NoTask /\ (MoveTo(w, "called") \/ Done(w))
    BY <1>10 DEF CallClosing, CallClosingLost, At
  <2>2. TaskStep
    BY <1>6, <2>1
  <2> QED
    BY <1>10, <2>2
    DEF CallClosing, CallClosingLost, ClosingMoves, CancelIntent, Refund, B!BookTypeOK
<1>11. CASE ResetDecision(w)
  <2>1. task[w] # NoTask /\ Done(w)
    BY <1>11 DEF ResetDecision, At
  <2>2. TaskStep
    BY <1>6, <2>1
  <2> QED BY <1>11, <2>2 DEF ResetDecision, B!BookTypeOK, PayStatuses
<1>12. CASE FinishDecision(w)
  <2>1. task[w] # NoTask /\ Done(w)
    BY <1>12 DEF FinishDecision, At
  <2>2. TaskStep
    BY <1>6, <2>1
  <2>3. pay' \in [Reservations -> PayStatuses]
    BY <1>12 DEF FinishDecision, PaidOut, PayStatuses
  <2> QED
    BY <1>12, <2>2, <2>3
    DEF FinishDecision, B!BookTypeOK, B!L!Statuses, B!L!Active, B!L!Closed
<1>13. CASE FinishClosing(w)
  <2>1. task[w] # NoTask /\ Done(w)
    BY <1>13 DEF FinishClosing, At
  <2>2. TaskStep
    BY <1>6, <2>1
  <2>3. pay' \in [Reservations -> PayStatuses]
    BY <1>13 DEF FinishClosing, PaidOut, PayStatuses
  <2> QED
    BY <1>13, <2>2, <2>3
    DEF FinishClosing, ClosedAs, B!BookTypeOK, B!L!Statuses, B!L!Active, B!L!Closed
<1> QED
  BY <1>2, <1>3, <1>4, <1>5, <1>7, <1>8, <1>9, <1>10, <1>11, <1>12, <1>13 DEF Serve

LEMMA HookTypes ==
  ASSUME CardTypeOK, Hook
  PROVE  CardTypeOK'
<1> USE DEF CardTypeOK, B!BookTypeOK, bookVars, stripeVars, PayStatuses
<1>1. hook # NoTask => hook.rid \in Reservations
  BY DEF Hooks
<1>2. ASSUME NEW r \in Reservations, HookReads(r)
      PROVE  CardTypeOK'
  BY <1>2 DEF HookReads, Hooks
<1>3. ASSUME NEW r \in Reservations, HookDeclined(r) \/ HookRefunded(r)
      PROVE  CardTypeOK'
  BY <1>3 DEF HookDeclined, HookRefunded, Processed, PaidOut, Events
<1>4. CASE HookConfirms
  BY <1>1, <1>4 DEF HookConfirms, Processed, Events
<1>5. CASE HookRefunds
  BY <1>1, <1>5 DEF HookRefunds, Processed, Events, Refund, B!L!Statuses, B!L!Active, B!L!Closed
<1>6. CASE HookFails
  BY <1>1, <1>6 DEF HookFails, Refund
<1> QED BY <1>2, <1>3, <1>4, <1>5, <1>6 DEF Hook

LEMMA CardTypes ==
  ASSUME CardAssumption, CardTypeOK, CardNext
  PROVE  CardTypeOK'
<1>1. ASSUME NEW r \in Reservations, CustomerPays(r)
      PROVE  CardTypeOK'
  BY <1>1 DEF CustomerPays, Pay, Decline, CardTypeOK, B!BookTypeOK, bookVars
<1>2. ASSUME NEW enabled \in BOOLEAN, AccountUpdated(enabled)
      PROVE  CardTypeOK'
  BY <1>2 DEF AccountUpdated, CardTypeOK, B!BookTypeOK, bookVars, stripeVars
<1> QED BY <1>1, <1>2, BookTypes, ServeTypes, HookTypes DEF CardNext

-----------------------------------------------------------------------------
(* What requests and webhooks know. *)

LEMMA TaskIsTyped ==
  ASSUME CardTypeOK, NEW w \in Workers, task[w] # NoTask
  PROVE  task[w] \in Tasks
BY DEF CardTypeOK

\* A request that stands still still knows it: nothing at Stripe is undone.
LEMMA KnowsStill ==
  ASSUME CardTypeOK, Forward, NEW w \in Workers, Knows(w), task'[w] = task[w]
  PROVE  Knows(w)'
<1> SUFFICES ASSUME task[w] # NoTask PROVE Knows(w)'
  BY DEF Knows
<1>1. task[w].rid \in Reservations
  BY TaskIsTyped DEF Tasks
<1> QED BY <1>1 DEF Knows, Forward

LEMMA ServeKnows ==
  ASSUME CardIInv, Forward, NEW w \in Workers, Serve(w)
  PROVE  Knows(w)'
<1> USE DEF CardIInv, CardInvariant, CardTypeOK, TasksKnow
<1>1. ASSUME NEW op, NEW r \in Reservations, NEW row, NEW paid, Begin(w, op, r, row, paid),
             op \in Decisions => confirmed[r]
      PROVE  Knows(w)'
  <2>1. task'[w] = [op |-> op, rid |-> r, at |-> "checked", row |-> row, paid |-> paid]
    BY <1>1 DEF Begin
  <2> QED BY <1>1, <2>1 DEF Knows, Forward
<1>2. ASSUME NEW r \in Reservations, CheckIntent(w, r) PROVE Knows(w)'
  BY <1>1, <1>2 DEF CheckIntent, Decisions
<1>3. ASSUME NEW r \in Reservations, NEW action \in Decisions, CheckDecision(w, r, action)
      PROVE  Knows(w)'
  BY <1>1, <1>3 DEF CheckDecision
<1>4. ASSUME NEW r \in Reservations, NEW op \in Closings, CheckClosing(w, r, op)
      PROVE  Knows(w)'
  BY <1>1, <1>4 DEF CheckClosing, Closings, Decisions
<1>5. ASSUME Done(w) PROVE Knows(w)'
  BY <1>5 DEF Done, Knows
<1>6. ASSUME task[w] # NoTask, NEW step, MoveTo(w, step),
             step = "called" =>
               /\ task[w].op = "accept" => transferred'[task[w].rid]
               /\ task[w].op = "reject" => refunded'[task[w].rid]
               /\ task[w].op \in Closings /\ task[w].paid => refunded'[task[w].rid]
               /\ task[w].op \in Closings /\ ~task[w].paid => intent'[task[w].rid] = "canceled"
      PROVE  Knows(w)'
  <2>1. task[w] \in Tasks
    BY <1>6
  <2>2. task'[w] = [task[w] EXCEPT !.at = step]
    BY <1>6 DEF MoveTo
  <2>3. /\ task'[w].op = task[w].op /\ task'[w].rid = task[w].rid
        /\ task'[w].paid = task[w].paid /\ task'[w].at = step
    BY <2>1, <2>2 DEF Tasks
  <2>4. task[w].rid \in Reservations
    BY <2>1 DEF Tasks
  <2> QED BY <1>6, <2>3, <2>4 DEF Knows, Forward
<1>7. CASE MarkDecision(w)
  BY <1>6, <1>7 DEF MarkDecision, At
<1>8. CASE CallDecision(w)
  <2>1. task[w] \in Tasks /\ task[w].op \in Decisions /\ MoveTo(w, "called")
    BY <1>8 DEF CallDecision, At
  <2>2. task[w].op = "accept" => transferred'[task[w].rid]
    BY <1>8, <2>1 DEF CallDecision, DecisionMoves, Transfer, Tasks
  <2>3. task[w].op = "reject" => refunded'[task[w].rid]
    BY <1>8, <2>1 DEF CallDecision, DecisionMoves, Refund, Tasks
  <2> QED BY <1>6, <1>8, <2>1, <2>2, <2>3 DEF CallDecision, At, Decisions, Closings
<1>9. CASE CallDecisionFails(w)
  BY <1>6, <1>9 DEF CallDecisionFails, At
<1>10. CASE CallClosing(w)
  <2>1. task[w] \in Tasks /\ task[w].op \in Closings /\ MoveTo(w, "called")
    BY <1>10 DEF CallClosing, At
  <2>2. task[w].paid => refunded'[task[w].rid]
    BY <1>10, <2>1 DEF CallClosing, ClosingMoves, Refund, Tasks
  <2>3. ~task[w].paid => intent'[task[w].rid] = "canceled"
    BY <1>10, <2>1 DEF CallClosing, ClosingMoves, CancelIntent, Tasks
  <2> QED BY <1>6, <1>10, <2>1, <2>2, <2>3 DEF CallClosing, At, Decisions, Closings
<1>11. CASE \/ OpenIntent(w) \/ ResetDecision(w) \/ FinishDecision(w)
            \/ CallClosingLost(w) \/ FinishClosing(w)
  BY <1>5, <1>11 DEF OpenIntent, ResetDecision, FinishDecision, CallClosingLost, FinishClosing
<1>12. CASE Abandon(w)
  BY <1>5, <1>12 DEF Abandon, Done
<1> QED
  BY <1>2, <1>3, <1>4, <1>7, <1>8, <1>9, <1>10, <1>11, <1>12 DEF Serve

\* A step of a thread moves no other one.
LEMMA ServeAlone ==
  ASSUME CardTypeOK, NEW w \in Workers, Serve(w), NEW v \in Workers, v # w
  PROVE  task'[v] = task[v]
BY DEF CardTypeOK, Serve, CheckIntent, OpenIntent, CheckDecision, MarkDecision, CallDecision,
       CallDecisionFails, ResetDecision, FinishDecision, CheckClosing, CallClosing,
       CallClosingLost, FinishClosing, Abandon, Begin, MoveTo, Done

LEMMA CardTasksKnow ==
  ASSUME CardIInv, CardNext
  PROVE  TasksKnow'
<1>1. Forward
  BY CardForward DEF CardIInv, CardInvariant
<1>2. ASSUME UNCHANGED task PROVE TasksKnow'
  BY <1>1, <1>2, KnowsStill DEF CardIInv, CardInvariant, TasksKnow
<1>3. ASSUME NEW w \in Workers, Serve(w) PROVE TasksKnow'
  BY <1>1, <1>3, KnowsStill, ServeKnows, ServeAlone DEF CardIInv, CardInvariant, TasksKnow
<1>4. CASE BookStep \/ Hook
  BY <1>2, <1>4
  DEF BookStep, Hook, HookReads, HookDeclined, HookRefunded, HookConfirms, HookRefunds, HookFails
<1> QED BY <1>2, <1>3, <1>4 DEF CardNext, CustomerPays, AccountUpdated

-----------------------------------------------------------------------------
(* The rows and the money. *)

\* What a step other than a creation does to the status of a reservation: an
\* expiry that is due, a decision or closing that stands, the webhook's late expiry.
StatusMoves(r) ==
  \/ status'[r] = status[r]
  \/ status[r] = "pending" /\ status'[r] \in {"cancelled", "expired"}
  \/ status[r] = "pending" /\ status'[r] = "accepted" /\ confirmed[r] /\ transferred[r]
  \/ status[r] = "pending" /\ status'[r] = "rejected" /\ confirmed[r] /\ refunded[r]
  \/ ~confirmed[r] /\ status[r] # "none" /\ status'[r] = "expired"

LEMMA ServeStatus ==
  ASSUME CardIInv, NEW w \in Workers, Serve(w), NEW r \in Reservations
  PROVE  StatusMoves(r)
<1> USE DEF CardIInv, CardInvariant, CardTypeOK, B!BookTypeOK
<1>1. CASE FinishDecision(w)
  <2>1. /\ task[w] \in Tasks /\ task[w].op \in Decisions /\ task[w].at = "called"
        /\ status[task[w].rid] = "pending"
        /\ status' = [status EXCEPT ![task[w].rid] =
                        IF task[w].op = "accept" THEN "accepted" ELSE "rejected"]
    BY <1>1 DEF FinishDecision, At, DecisionStands
  <2>2. /\ confirmed[task[w].rid]
        /\ IF task[w].op = "accept" THEN transferred[task[w].rid] ELSE refunded[task[w].rid]
    BY <1>1, <2>1 DEF TasksKnow, Knows, Decisions, FinishDecision, At
  <2> QED BY <2>1, <2>2 DEF StatusMoves
<1>2. CASE FinishClosing(w)
  <2>1. /\ status[task[w].rid] = "pending"
        /\ status' = [status EXCEPT ![task[w].rid] = ClosedAs(task[w].op)]
    BY <1>2 DEF FinishClosing, ClosingStands
  <2> QED BY <2>1 DEF StatusMoves, ClosedAs
<1>3. CASE UNCHANGED status
  BY <1>3 DEF StatusMoves
<1> QED
  BY <1>1, <1>2, <1>3
  DEF Serve, CheckIntent, OpenIntent, CheckDecision, MarkDecision, CallDecision,
      CallDecisionFails, ResetDecision, CheckClosing, CallClosing, CallClosingLost,
      Abandon, Begin, bookVars

LEMMA CreateStatus ==
  ASSUME CardTypeOK, NEW q \in Reservations, B!CreateReservation(q), NEW r \in Reservations
  PROVE  \/ r = q /\ status[r] = "none" /\ status'[r] = "pending"
         \/ /\ StatusMoves(r)
            /\ status'[r] \in L!Active => ListingOf[r] # ListingOf[q] /\ status[r] \in L!Active
BY DEF CardTypeOK, B!BookTypeOK, StatusMoves, B!CreateReservation, B!ListingFree, B!DueBeside,
       B!Due, L!Active, B!L!Active

LEMMA CardStatus ==
  ASSUME CardIInv, CardNext
  PROVE  \/ \E q \in Reservations : B!CreateReservation(q)
         \/ \A r \in Reservations : StatusMoves(r)
<1> USE DEF CardIInv, CardInvariant, CardTypeOK, B!BookTypeOK
<1>1. ASSUME UNCHANGED status PROVE \A r \in Reservations : StatusMoves(r)
  BY <1>1 DEF StatusMoves
<1>2. CASE HookRefunds
  <2>1. /\ hook.rid \in Reservations /\ ~confirmed[hook.rid]
        /\ hook.pending => status[hook.rid] # "none"
    BY <1>2 DEF HookRefunds, Hooks, HookKnows, ConfirmedIsProcessed
  <2> QED BY <1>2, <2>1 DEF HookRefunds, StatusMoves
<1>3. CASE Hook
  BY <1>1, <1>2, <1>3
  DEF Hook, HookReads, HookDeclined, HookRefunded, HookConfirms, HookFails, bookVars
<1>4. CASE BookStep
  <2>1. ASSUME NEW c \in Customers, B!ReadOwn(c) PROVE \A r \in Reservations : StatusMoves(r)
    BY <2>1 DEF B!ReadOwn, B!DueOf, B!Due, StatusMoves
  <2> QED BY <1>1, <1>4, <2>1 DEF BookStep, B!BookNext, B!Tick
<1> QED
  BY <1>1, <1>3, <1>4, ServeStatus DEF CardNext, CustomerPays, AccountUpdated, bookVars

LEMMA CardHookKnows ==
  ASSUME CardIInv, CardNext
  PROVE  HookKnows' /\ ConfirmedIsProcessed'
<1> USE DEF CardIInv, CardInvariant, CardTypeOK, HookKnows, ConfirmedIsProcessed
<1>1. Forward
  BY CardForward
<1>2. hook # NoTask => hook.rid \in Reservations
  BY DEF Hooks
<1>0. \A r \in Reservations : status[r] # "none" => status'[r] # "none"
  BY CardStatus, CreateStatus DEF StatusMoves
<1>3. ASSUME UNCHANGED <<hook, processed, confirmed>>
      PROVE  HookKnows' /\ ConfirmedIsProcessed'
  BY <1>0, <1>1, <1>2, <1>3 DEF Forward
<1>4. ASSUME NEW w \in Workers, Serve(w) PROVE UNCHANGED <<hook, processed, confirmed>>
  BY <1>4
  DEF Serve, CheckIntent, OpenIntent, CheckDecision, MarkDecision, CallDecision,
      CallDecisionFails, ResetDecision, FinishDecision, CheckClosing, CallClosing,
      CallClosingLost, FinishClosing, Abandon, Begin, bookVars
<1>5. ASSUME NEW r \in Reservations, HookReads(r)
      PROVE  HookKnows' /\ ConfirmedIsProcessed'
  BY <1>5 DEF HookReads, Deliverable, bookVars, stripeVars
<1>6. ASSUME NEW r \in Reservations, HookDeclined(r) \/ HookRefunded(r)
      PROVE  HookKnows' /\ ConfirmedIsProcessed'
  BY <1>6 DEF HookDeclined, HookRefunded, Deliverable, Processed, bookVars
<1>7. CASE HookConfirms \/ HookRefunds \/ HookFails
  BY <1>2, <1>7
  DEF HookConfirms, HookRefunds, HookFails, Processed, bookVars, B!BookTypeOK
<1>8. CASE BookStep
  BY <1>3, <1>8 DEF BookStep, B!BookNext, B!CreateReservation, B!ReadOwn, B!Tick
<1>9. ASSUME NEW enabled \in BOOLEAN, AccountUpdated(enabled)
      PROVE  HookKnows' /\ ConfirmedIsProcessed'
  BY <1>3, <1>9 DEF AccountUpdated, bookVars
<1> QED
  BY <1>3, <1>4, <1>5, <1>6, <1>7, <1>8, <1>9 DEF CardNext, Hook, CustomerPays, bookVars

LEMMA CardOneActive ==
  ASSUME CardIInv, CardNext
  PROVE  OneActive'
<1> USE DEF OneActive, L!OneActivePerListing, CardIInv, CardInvariant
<1>1. ASSUME NEW q \in Reservations, B!CreateReservation(q) PROVE OneActive'
  BY <1>1, CreateStatus
<1>2. ASSUME \A r \in Reservations : StatusMoves(r) PROVE OneActive'
  BY <1>2 DEF StatusMoves, L!Active
<1> QED BY <1>1, <1>2, CardStatus

LEMMA CardMoney ==
  ASSUME CardIInv, CardNext
  PROVE  ConfirmedMeansCharged' /\ DecidedMeansMoved'
<1> USE DEF CardIInv, CardInvariant
<1>1. Forward
  BY CardForward
<1>2. \A r \in Reservations : StatusMoves(r) \/ status'[r] = "pending"
  BY CardStatus, CreateStatus
<1>3. DecidedMeansMoved'
  BY <1>1, <1>2 DEF DecidedMeansMoved, StatusMoves, Forward
<1>4. \A r \in Reservations : confirmed'[r] => confirmed[r] \/ intent[r] = "succeeded"
  <2>1. ASSUME UNCHANGED confirmed
        PROVE  \A r \in Reservations : confirmed'[r] => confirmed[r] \/ intent[r] = "succeeded"
    BY <2>1
  <2>2. CASE HookConfirms
    BY <2>2 DEF HookConfirms, HookKnows, Hooks, CardTypeOK, B!BookTypeOK
  <2>3. CASE Hook
    BY <2>1, <2>2, <2>3
    DEF Hook, HookReads, HookDeclined, HookRefunded, HookRefunds, HookFails, bookVars
  <2>4. ASSUME NEW w \in Workers, Serve(w) PROVE UNCHANGED confirmed
    BY <2>4
    DEF Serve, CheckIntent, OpenIntent, CheckDecision, MarkDecision, CallDecision,
        CallDecisionFails, ResetDecision, FinishDecision, CheckClosing, CallClosing,
        CallClosingLost, FinishClosing, Abandon, Begin, bookVars
  <2>5. CASE BookStep
    BY <2>1, <2>5 DEF BookStep, B!BookNext, B!CreateReservation, B!ReadOwn, B!Tick
  <2> QED BY <2>1, <2>3, <2>4, <2>5 DEF CardNext, CustomerPays, AccountUpdated, bookVars
<1>5. ConfirmedMeansCharged'
  BY <1>1, <1>4 DEF ConfirmedMeansCharged, Forward
<1> QED BY <1>3, <1>5

\* The row of one payment says something true.
RowIsTrue(r, value) ==
  /\ value = "transferred" => transferred[r]
  /\ value = "refunded" => refunded[r]
  /\ value = "cancelled" => intent[r] = "canceled"
  /\ value = "succeeded" => intent[r] = "succeeded"

LEMMA ServeRow ==
  ASSUME CardIInv, Forward, NEW w \in Workers, Serve(w), NEW r \in Reservations
  PROVE  pay'[r] = pay[r] \/ RowIsTrue(r, pay'[r])
<1> USE DEF CardIInv, CardInvariant, CardTypeOK
<1>1. CASE OpenIntent(w)
  BY <1>1 DEF OpenIntent, RowIsTrue
<1>2. CASE MarkDecision(w)
  BY <1>2 DEF MarkDecision, PendingOf, RowIsTrue
<1>3. CASE ResetDecision(w)
  <2>1. task[w] # NoTask /\ task[w].op \in Decisions /\ task[w] \in Tasks
    BY <1>3 DEF ResetDecision, At
  <2>2. intent[task[w].rid] = "succeeded"
    BY <2>1 DEF TasksKnow, Knows, ConfirmedMeansCharged, Tasks
  <2> QED BY <1>3, <2>2 DEF ResetDecision, RowIsTrue
<1>4. CASE FinishDecision(w)
  <2>1. task[w] # NoTask /\ task[w].op \in Decisions /\ task[w].at = "called"
    BY <1>4 DEF FinishDecision, At
  <2>2. IF task[w].op = "accept" THEN transferred[task[w].rid] ELSE refunded[task[w].rid]
    BY <2>1 DEF TasksKnow, Knows, Decisions
  <2> QED BY <1>4, <2>2 DEF FinishDecision, PaidOut, RowIsTrue
<1>5. CASE FinishClosing(w)
  <2>1. task[w] # NoTask /\ task[w].op \in Closings /\ (task[w].row => task[w].at = "called")
    BY <1>5 DEF FinishClosing, At
  <2>2. task[w].row => IF task[w].paid THEN refunded[task[w].rid]
                       ELSE intent[task[w].rid] = "canceled"
    BY <2>1 DEF TasksKnow, Knows
  <2> QED BY <1>5, <2>2 DEF FinishClosing, PaidOut, RowIsTrue
<1> QED
  BY <1>1, <1>2, <1>3, <1>4, <1>5
  DEF Serve, CheckIntent, CheckDecision, CallDecision, CallDecisionFails, CheckClosing,
      CallClosing, CallClosingLost, Abandon, Begin

LEMMA CardRow ==
  ASSUME CardIInv, CardNext
  PROVE  PaymentRowIsTrue'
<1> USE DEF CardIInv, CardInvariant, CardTypeOK
<1>1. Forward
  BY CardForward
<1>2. ASSUME NEW r \in Reservations,
             \/ pay'[r] = pay[r] \/ RowIsTrue(r, pay'[r])
             \/ pay'[r] = "refunded" /\ refunded'[r]
             \/ pay'[r] \in {"refund_pending", "failed"}
      PROVE  RowIsTrue(r, pay[r])'
  BY <1>1, <1>2 DEF PaymentRowIsTrue, RowIsTrue, Forward
<1>3. ASSUME NEW q \in Reservations, HookReads(q) \/ HookDeclined(q) \/ HookRefunded(q)
      PROVE  PaymentRowIsTrue'
  BY <1>2, <1>3
  DEF HookReads, HookDeclined, HookRefunded, Deliverable, PaidOut, PaymentRowIsTrue, stripeVars
<1>4. CASE HookConfirms \/ HookRefunds \/ HookFails
  <2>1. hook.rid \in Reservations /\ intent[hook.rid] = "succeeded"
    BY <1>4 DEF HookConfirms, HookRefunds, HookFails, Hooks, HookKnows
  <2> QED
    BY <1>2, <1>4, <2>1
    DEF HookConfirms, HookRefunds, HookFails, Refund, RowIsTrue, PaymentRowIsTrue
<1>5. ASSUME NEW w \in Workers, Serve(w) PROVE PaymentRowIsTrue'
  BY <1>1, <1>2, <1>5, ServeRow DEF PaymentRowIsTrue, RowIsTrue
<1>6. ASSUME UNCHANGED pay PROVE PaymentRowIsTrue'
  BY <1>2, <1>6 DEF PaymentRowIsTrue, RowIsTrue
<1> QED
  BY <1>3, <1>4, <1>5, <1>6 DEF CardNext, Hook, BookStep, CustomerPays, AccountUpdated

-----------------------------------------------------------------------------
(* The theorems. *)

LEMMA CardInductive ==
  ASSUME CardAssumption, CardIInv, [CardNext]_cardVars
  PROVE  CardIInv'
<1>1. CASE CardNext
  BY <1>1, CardTypes, CardMoney, CardRow, CardOneActive, CardTasksKnow, CardHookKnows
  DEF CardIInv, CardInvariant
<1>2. CASE UNCHANGED cardVars
  BY <1>2
  DEF cardVars, bookVars, stripeVars, CardIInv, CardInvariant, CardTypeOK, B!BookTypeOK,
      ConfirmedMeansCharged, DecidedMeansMoved, PaymentRowIsTrue, OneActive,
      L!OneActivePerListing, TasksKnow, Knows, HookKnows, ConfirmedIsProcessed
<1> QED BY <1>1, <1>2

LEMMA CardInductiveInvariant ==
  ASSUME CardAssumption PROVE CardSpec => []CardIInv
<1>1. CardInit => CardIInv
  BY CardInitIInv
<1>2. CardIInv /\ [CardNext]_cardVars => CardIInv'
  BY CardInductive
<1> QED BY <1>1, <1>2, PTL DEF CardSpec

\* Whatever fails, dies or is delivered late or twice: nothing is confirmed without
\* a charge or decided before the money moved, the payment row's final values are
\* true at Stripe, and a listing has one active reservation.
THEOREM CardSafe == ASSUME CardAssumption PROVE CardSpec => []CardInvariant
<1>1. CardIInv => CardInvariant
  BY DEF CardIInv
<1> QED BY <1>1, CardInductiveInvariant, PTL

\* No late payment or closing reopens a reservation or undoes an acceptance.
THEOREM CardClosedStays == ASSUME CardAssumption PROVE CardSpec => ClosedStaysClosed
<1>1. CardIInv /\ [CardNext]_cardVars => [KeptClosed]_cardVars
  <2> SUFFICES ASSUME CardIInv, CardNext PROVE KeptClosed
    OBVIOUS
  <2>1. \A r \in Reservations :
          StatusMoves(r) \/ (status[r] = "none" /\ status'[r] = "pending")
    BY CardStatus, CreateStatus DEF CardIInv, CardInvariant
  <2>2. \A r \in Reservations : status[r] = "accepted" => confirmed[r]
    BY DEF CardIInv, CardInvariant, DecidedMeansMoved
  <2> QED BY <2>1, <2>2 DEF KeptClosed, StatusMoves, L!Closed
<1> QED BY <1>1, CardInductiveInvariant, PTL DEF CardSpec, ClosedStaysClosed
=============================================================================
