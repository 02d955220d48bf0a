------------------------------- MODULE MCCards -------------------------------
(***************************************************************************)
(* Card reservations for TLC, in two scopes: "money", one reservation whose *)
(* card may be declined and two threads that serve it, and "listing", two  *)
(* reservations of one listing, one thread and one more instant.           *)
(***************************************************************************)
EXTENDS CardPayments

VARIABLE scope

MCListingOf == [r \in Reservations |-> "loft"]
MCCustomerOf == [r \in Reservations |-> IF r = "r1" THEN "ann" ELSE "bob"]

\* What a state of each scope leaves out.
WithinScope ==
  CASE scope = "money" -> status["r2"] = "none" /\ now < MaxTime
    [] scope = "listing" -> task["w2"] = NoTask /\ \A r \in Reservations : ~declined[r]

Init == CardInit /\ scope \in {"money", "listing"}
Next == CardNext /\ UNCHANGED scope /\ WithinScope'

\* HookFairness, for the scope that is checked for liveness.
Fairness ==
  /\ SF_cardVars(scope = "money" /\ HookReads("r1"))
  /\ SF_cardVars(scope = "money" /\ (HookConfirms \/ HookRefunds) /\ hook.rid = "r1")

Spec == Init /\ [][Next]_<<scope, cardVars>> /\ Fairness

-----------------------------------------------------------------------------

\* A customer's charge is never forgotten: it confirms the deposit or comes back
\* (stripe_webhook).
ChargeIsAnswered ==
  (scope = "money" /\ intent["r1"] = "succeeded") ~> (confirmed["r1"] \/ refunded["r1"])
=============================================================================
