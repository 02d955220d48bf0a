------------------------ MODULE MCEscrowReservations ------------------------
(***************************************************************************)
(* A small instance of wallet reservations for TLC: two customers who want *)
(* the one listing of an agency.                                           *)
(***************************************************************************)
EXTENDS EscrowReservations

MCListingOf == [r \in Reservations |-> "loft"]
MCCustomerOf == [r \in Reservations |-> IF r = "r1" THEN "ann" ELSE "bob"]
MCAgencyOf == [l \in Listings |-> "agency"]
MCDeposit == [r \in Reservations |-> 1]

\* The permits of a race for one listing.
MCRace == {<<"deposit", "customer">>, <<"accept", "staff">>, <<"cancel", "customer">>}

\* The run follows one reservation with every permit and block times on both
\* sides of its deadline, and two reservations with the permits of the race and
\* block times before their first deadline.
Narrow ==
  \/ status["r2"] = "none"
  \/ blockTime <= 1 /\ \A e \in eligible : e[2] \in MCRace
=============================================================================
