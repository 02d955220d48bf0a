------------------------ MODULE ReservationLifecycle ------------------------
(***************************************************************************)
(* What the reservations component promises, whatever pays the deposit: a  *)
(* listing is taken by at most one active reservation, a reservation only  *)
(* leaves "pending", and a lapse takes effect no later than the moment     *)
(* another customer takes the listing.  The detailed specifications        *)
(* implement this one with the column reservation.status as its variable.  *)
(***************************************************************************)
CONSTANTS
  Reservations,   \* the identifiers uuid4 may yield
  ListingOf       \* the listing each identifier is for

VARIABLE status   \* reservation.status, "none" before the row exists

Active == {"pending", "accepted"}                          \* _ACTIVE_STATUSES
Closed == {"rejected", "cancelled", "expired"}
Statuses == {"none"} \union Active \union Closed

LifecycleTypeOK == status \in [Reservations -> Statuses]

LifecycleInit == status = [r \in Reservations |-> "none"]

\* status after every reservation of the set lapsed has expired.
Lapsed(lapsed) ==
  [r \in Reservations |-> IF r \in lapsed THEN "expired" ELSE status[r]]

PendingOnly(lapsed) == \A r \in lapsed : status[r] = "pending"

\* A customer takes a listing, overdue pending reservations of which lapse in
\* the same transaction; no active one may remain.
Reserve(r, lapsed) ==
  /\ status[r] = "none"
  /\ PendingOnly(lapsed)
  /\ \A q \in Reservations :
       ListingOf[q] = ListingOf[r] => Lapsed(lapsed)[q] \notin Active
  /\ status' = [Lapsed(lapsed) EXCEPT ![r] = "pending"]

\* Overdue pending reservations lapse when they are read.
Lapse(lapsed) ==
  /\ PendingOnly(lapsed)
  /\ status' = Lapsed(lapsed)

\* A decision, a cancellation or a verified expiry closes one reservation.
Decide(r, outcome) ==
  /\ status[r] = "pending"
  /\ status' = [status EXCEPT ![r] = outcome]

LifecycleNext ==
  \/ \E r \in Reservations, lapsed \in SUBSET Reservations : Reserve(r, lapsed)
  \/ \E lapsed \in SUBSET Reservations : Lapse(lapsed)
  \/ \E r \in Reservations, outcome \in {"accepted"} \union Closed :
       Decide(r, outcome)

LifecycleSpec == LifecycleInit /\ [][LifecycleNext]_status

-----------------------------------------------------------------------------

\* The partial unique index uq_reservation_active_listing: never two pending or
\* accepted reservations for one listing.
OneActivePerListing ==
  \A r, q \in Reservations :
    /\ ListingOf[r] = ListingOf[q]
    /\ status[r] \in Active
    /\ status[q] \in Active
    => r = q

\* A reservation that has left "pending" never changes again; an accepted one
\* keeps its listing for good.
ClosedIsFinal ==
  [][\A r \in Reservations :
       status[r] \in Closed \union {"accepted"} => status'[r] = status[r]]_status
=============================================================================
