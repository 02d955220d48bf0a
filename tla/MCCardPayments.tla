--------------------------- MODULE MCCardPayments ---------------------------
(***************************************************************************)
(* Small instances of card reservations for TLC.                           *)
(***************************************************************************)
EXTENDS CardPayments

MCListingOf == [r \in Reservations |-> "loft"]
MCCustomerOf == [r \in Reservations |-> IF r = "r1" THEN "ann" ELSE "bob"]
=============================================================================
