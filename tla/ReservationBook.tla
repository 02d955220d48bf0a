-------------------------- MODULE ReservationBook --------------------------
(***************************************************************************)
(* The reservation table and the operations on it that do not depend on    *)
(* how the deposit is paid: backend/app/modules/reservations/service.py up *)
(* to the reads.  Each operation is one database transaction; creations    *)
(* for one listing are serialised by the lock on its row.                  *)
(***************************************************************************)
EXTENDS Integers

CONSTANTS
  Reservations,     \* reservations the customers may ask for
  Customers,        \* the customers
  ListingOf,        \* listing of each reservation
  CustomerOf,       \* customer of each reservation
  Window,           \* _DECISION_WINDOW, in API ticks
  MaxTime           \* bound of the API clock

VARIABLES
  status,      \* reservation.status, "none" before the row exists
  deadline,    \* reservation.decision_deadline_at
  confirmed,   \* reservation.deposit_confirmed_at IS NOT NULL
  now          \* the API server's clock

L == INSTANCE ReservationLifecycle

BookTypeOK ==
  /\ status \in [Reservations -> L!Statuses]
  /\ deadline \in [Reservations -> 0..(MaxTime + Window)]
  /\ confirmed \in [Reservations -> BOOLEAN]
  /\ now \in 0..MaxTime

BookInit ==
  /\ status = [r \in Reservations |-> "none"]
  /\ deadline = [r \in Reservations |-> 0]
  /\ confirmed = [r \in Reservations |-> FALSE]
  /\ now = 0

-----------------------------------------------------------------------------

\* Faulty variants, used by no specification.
DueEvenConfirmed(r) == status[r] = "pending" /\ deadline[r] <= now
ListingFreeUnlessPending(r) ==
  \A q \in Reservations :
    ListingOf[q] = ListingOf[r] => status[q] # "pending"

-----------------------------------------------------------------------------

\* _expire_due_reservations selects the overdue pending rows without a
\* confirmed deposit, of one listing or of one customer.
Due(r) == status[r] = "pending" /\ deadline[r] <= now /\ ~confirmed[r]
DueBeside(r) == {q \in Reservations : Due(q) /\ ListingOf[q] = ListingOf[r]}
DueOf(c) == {q \in Reservations : Due(q) /\ CustomerOf[q] = c}

\* No active row of the listing remains once the overdue ones have expired.
ListingFree(r) ==
  \A q \in Reservations \ DueBeside(r) :
    ListingOf[q] = ListingOf[r] => status[q] \notin L!Active

\* create_reservation.  A reservation stands for one Idempotency-Key of one
\* customer: a retransmission is answered with the row that exists.  The checks
\* on publication, quote and wallets only refuse, from tables not modelled here;
\* a refusal rolls the expiry of the overdue rows back with the transaction.
CreateReservation(r) ==
  /\ status[r] = "none"
  /\ ListingFree(r)
  /\ status' = [q \in Reservations |->
                  IF q = r THEN "pending"
                  ELSE IF q \in DueBeside(r) THEN "expired" ELSE status[q]]
  /\ deadline' = [deadline EXCEPT ![r] = now + Window]
  /\ UNCHANGED <<confirmed, now>>

\* list_customer_reservations and get_customer_reservation expire what is due
\* among the customer's own rows before they read.
ReadOwn(c) ==
  /\ status' = [q \in Reservations |->
                  IF q \in DueOf(c) THEN "expired" ELSE status[q]]
  /\ UNCHANGED <<deadline, confirmed, now>>

Tick ==
  /\ now < MaxTime
  /\ now' = now + 1
  /\ UNCHANGED <<status, deadline, confirmed>>

BookNext ==
  \/ \E r \in Reservations : CreateReservation(r)
  \/ \E c \in Customers : ReadOwn(c)
  \/ Tick
=============================================================================
