------------------------- MODULE EscrowReservations -------------------------
(***************************************************************************)
(* Wallet reservations: backend/app/modules/reservations over the escrow   *)
(* contract.  The backend writes its database and signs permits, wallets   *)
(* send transactions on their own, and the two are joined only when a      *)
(* client reports a transaction hash.  A request runs in the steps between *)
(* which the code holds no lock:                                           *)
(*                                                                         *)
(*   permit       read and check the row | read the nonce from the chain   *)
(*                                         and sign                        *)
(*   reconcile    read the row, verify the receipt | lock, check again,    *)
(*                                         record the proof and the status *)
(*                                                                         *)
(* A request that passed its first step stays in the set of those that     *)
(* did: it may go on at any later moment, more than once (the client       *)
(* retried) or never (the process died).                                   *)
(***************************************************************************)
EXTENDS ReservationEscrow

CONSTANTS
  ListingOf,        \* listing of each reservation
  CustomerOf,       \* customer (and linked wallet) of each reservation
  AgencyOf,         \* agency wallet of each listing
  DepositOf,        \* deposit snapshot in token units, 0 for no deposit
  Asked,            \* the <<action, role>> pairs clients request permits for
  Window,           \* _DECISION_WINDOW, in API ticks
  TicksPerSecond,   \* API clock ticks per second of block timestamp
  MaxTime           \* bound of the API clock

Roles == {"customer", "staff"}

\* Who may ask for a permit of each action.
PermitRequests ==
  {<<"deposit", "customer">>, <<"cancel", "customer">>, <<"accept", "staff">>,
   <<"reject", "staff">>, <<"cancel", "staff">>}

\* contract_deadline_seconds: the first whole second not before the deadline.
ContractDeadline(d) == (d + TicksPerSecond - 1) \div TicksPerSecond

ASSUME ReservationsAssumption ==
  /\ ListingOf \in [Reservations -> Listings]
  /\ CustomerOf \in [Reservations -> Customers]
  /\ AgencyOf \in [Listings -> Agencies]
  /\ DepositOf \in [Reservations -> Amounts]
  /\ Asked \subseteq PermitRequests
  /\ Window \in Nat \ {0}
  /\ TicksPerSecond \in Nat \ {0}
  /\ MaxTime \in Nat
  /\ \A d \in 0..(MaxTime + Window) : ContractDeadline(d) \in Deadlines

VARIABLES
  status,      \* reservation.status, "none" before the row exists
  deadline,    \* reservation.decision_deadline_at
  confirmed,   \* reservation.deposit_confirmed_at IS NOT NULL
  audits,      \* rows of reservation_chain_transaction
  now,         \* the API server's clock
  eligible,    \* permit requests that passed the eligibility check
  permits,     \* signed permits, the latest of each action
  verified     \* reconcile requests that verified their receipt

bookVars == <<status, deadline, confirmed, audits>>
requestVars == <<eligible, permits, verified>>
vars == <<escrowVars, bookVars, now, requestVars>>

B == INSTANCE ReservationBook
L == INSTANCE ReservationLifecycle

\* The persisted snapshot a permit is signed over.
Snapshot(r) ==
  [listing |-> ListingOf[r], customer |-> CustomerOf[r],
   agency |-> AgencyOf[ListingOf[r]], amount |-> DepositOf[r],
   deadline |-> ContractDeadline(deadline[r])]

Wallet(r, role) ==
  IF role = "staff" THEN AgencyOf[ListingOf[r]] ELSE CustomerOf[r]

RequestsTypeOK ==
  /\ B!BookTypeOK
  /\ audits \subseteq receipts
  /\ eligible \subseteq Reservations \X PermitRequests
  /\ \A p \in permits :
       /\ p.rid \in Reservations
       /\ p.terms = Snapshot(p.rid)
       /\ p.actor \in Accounts
       /\ p.action \in Actions
       /\ p.nonce \in 0..MaxNonce
  /\ verified \subseteq receipts \X Roles

Init ==
  /\ EscrowInit
  /\ B!BookInit
  /\ audits = {}
  /\ eligible = {}
  /\ permits = {}
  /\ verified = {}

-----------------------------------------------------------------------------

\* Faulty variants, used by no specification.
DecisionReadyAlways(r, action) == TRUE
ReconcilableBeforeDeadline(r, action, role) ==
  status[r] = "pending" /\ now < deadline[r]
ExpectedAmountConfigured(r, action) == DepositOf[r]

-----------------------------------------------------------------------------

\* A creation, a read of one's own reservations, or the passing of time.
BookStep ==
  /\ B!BookNext
  /\ UNCHANGED <<escrowVars, audits, requestVars>>

\* A positive deposit must be confirmed before the agency decides.
DecisionReady(r, action) ==
  action \in {"accept", "reject"} /\ DepositOf[r] # 0 => confirmed[r]

\* A deposit is asked for only if one is configured and not yet confirmed.
DepositWanted(r, action) ==
  action = "deposit" => DepositOf[r] # 0 /\ ~confirmed[r]

\* issue_reservation_permit up to the end of its database session.
CheckPermit(r, request) ==
  LET action == request[1] IN
  /\ status[r] = "pending"
  /\ now < deadline[r]
  /\ DecisionReady(r, action)
  /\ DepositWanted(r, action)
  /\ eligible' = eligible \union {<<r, request>>}
  /\ UNCHANGED <<escrowVars, bookVars, now, permits, verified>>

\* issue_permit: the nonce comes from the chain, after the row was read.  Only
\* the latest permit of an action and actor is kept: an earlier one carries a
\* smaller nonce, which the contract has left behind for good.
SignPermit(r, request) ==
  LET p == [rid |-> r, terms |-> Snapshot(r), actor |-> Wallet(r, request[2]),
            action |-> request[1], nonce |-> nonces[r]]
  IN
  /\ <<r, request>> \in eligible
  /\ nonces[r] <= MaxNonce
  /\ permits' = {p} \union
       {q \in permits : <<q.rid, q.action, q.actor>> # <<p.rid, p.action, p.actor>>}
  /\ UNCHANGED <<escrowVars, bookVars, now, eligible, verified>>

\* Any wallet submits any permit it has got hold of, or expires a reservation.
ChainStep ==
  /\ \/ \E p \in permits, sender \in Accounts : SignedCall(p, sender)
     \/ \E r \in Reservations, sender \in Accounts : expire(r, sender)
     \/ MineLater
  /\ UNCHANGED <<bookVars, now, requestVars>>

\* _load_chain_context without allow_replay: may this actor record this event now?
Reconcilable(r, action, role) ==
  /\ status[r] = "pending"
  /\ action \in {"accept", "reject"} => role = "staff"
  /\ action = "deposit" => role = "customer"
  /\ action = "expire" => confirmed[r]
  /\ DecisionReady(r, action)
  /\ DepositWanted(r, action)

\* A cancellation before any confirmed deposit must have moved nothing.
ExpectedAmount(r, action) ==
  IF action = "cancel" /\ ~confirmed[r] THEN 0 ELSE DepositOf[r]

\* verify_action_receipt: sender, event, amount and, by its own block timestamp,
\* the deadline of the action.
ReceiptProves(t, role) ==
  /\ t.action # "expire" => t.sender = Wallet(t.rid, role)
  /\ t.amount = ExpectedAmount(t.rid, t.action)
  /\ IF t.action = "expire"
       THEN t.time >= ContractDeadline(deadline[t.rid])
       ELSE t.time < ContractDeadline(deadline[t.rid])

\* reconcile_chain_transaction up to the verified receipt.
VerifyReceipt(t, role) ==
  /\ t \notin audits
  /\ Reconcilable(t.rid, t.action, role)
  /\ ReceiptProves(t, role)
  /\ verified' = verified \union {<<t, role>>}
  /\ UNCHANGED <<escrowVars, bookVars, now, eligible, permits>>

StatusAfter(action) ==
  CASE action = "accept" -> "accepted"
    [] action = "reject" -> "rejected"
    [] action = "cancel" -> "cancelled"
    [] action = "expire" -> "expired"

\* Faulty variant: trusts the check made before the receipt was fetched.
RecordProofUnchecked(t, role) ==
  /\ <<t, role>> \in verified
  /\ t \notin audits
  /\ audits' = audits \union {t}
  /\ IF t.action = "deposit"
       THEN /\ confirmed' = [confirmed EXCEPT ![t.rid] = TRUE]
            /\ UNCHANGED status
       ELSE /\ status' = [status EXCEPT ![t.rid] = StatusAfter(t.action)]
            /\ UNCHANGED confirmed
  /\ UNCHANGED <<escrowVars, deadline, now, requestVars>>

\* The locked transaction of reconcile_chain_transaction.  A hash recorded in the
\* meantime is answered as a replay and changes nothing.
RecordProof(t, role) ==
  /\ <<t, role>> \in verified
  /\ t \notin audits
  /\ Reconcilable(t.rid, t.action, role)
  /\ audits' = audits \union {t}
  /\ IF t.action = "deposit"
       THEN /\ confirmed' = [confirmed EXCEPT ![t.rid] = TRUE]
            /\ UNCHANGED status
       ELSE /\ status' = [status EXCEPT ![t.rid] = StatusAfter(t.action)]
            /\ UNCHANGED confirmed
  /\ UNCHANGED <<escrowVars, deadline, now, requestVars>>

Next ==
  \/ BookStep
  \/ \E r \in Reservations, request \in Asked : CheckPermit(r, request)
  \/ \E r \in Reservations, request \in Asked : SignPermit(r, request)
  \/ ChainStep
  \/ \E t \in receipts, role \in Roles : VerifyReceipt(t, role)
  \/ \E t \in receipts, role \in Roles : RecordProof(t, role)

Spec == Init /\ [][Next]_vars

-----------------------------------------------------------------------------

\* The database transitions are those of the abstract life cycle, although the
\* guard of a recorded proof was read before another request changed the row.
ImplementsLifecycle == L!LifecycleSpec

\* Never two pending or accepted reservations for one listing, whatever the
\* order of creations, lazy expiries and late proofs.
OneActive == L!OneActivePerListing

\* The row says nothing the chain has not proved.  It is accepted, rejected or
\* cancelled exactly when it has the closing call's proof, its deposit is
\* confirmed exactly when it has the deposit's, and once that is so it expires
\* only by proof: the lazy expiry never drops a deposit the backend knows of.
StatusIsProved ==
  \A r \in Reservations :
    LET proved(action) == \E t \in audits : t.rid = r /\ t.action = action IN
    /\ status[r] = "accepted" <=> proved("accept")
    /\ status[r] = "rejected" <=> proved("reject")
    /\ status[r] = "cancelled" <=> proved("cancel")
    /\ confirmed[r] <=> proved("deposit")
    /\ status[r] = "expired" /\ confirmed[r] <=> proved("expire")

\* Money reaches the agency only while its reservation still holds the listing:
\* a permit to accept, however late its wallet uses it, never pays the agency
\* for a reservation the database has given up.
AgencyPaidOnlyIfBooked ==
  \A t \in receipts : t.action = "accept" /\ t.amount # 0 =>
    confirmed[t.rid] /\ status[t.rid] \in L!Active

\* Two customers never both pay for one listing.
NoListingPaidTwice ==
  \A t, u \in receipts :
    /\ t.action = "accept" /\ t.amount # 0
    /\ u.action = "accept" /\ u.amount # 0
    /\ ListingOf[t.rid] = ListingOf[u.rid]
    => t.rid = u.rid

\* Whatever the row says of a deposit, the money is there, and the row knows of
\* it.  An accepted reservation's deposit has reached the agency, that of a
\* rejected or cancelled one has gone back, and none of the three was recorded
\* over a deposit the backend had not confirmed.  A lapsed one may have a deposit
\* mined in time and reported too late: it is whole in the escrow or back with
\* the customer, never with the agency.
MoneyFollowsRow ==
  \A r \in Reservations :
    LET mined(action) == \E t \in receipts :
          t.rid = r /\ t.action = action /\ t.amount = DepositOf[r]
        returned == mined("reject") \/ mined("cancel") \/ mined("expire")
    IN
    /\ status[r] = "accepted" => mined("accept")
    /\ status[r] = "rejected" => mined("reject")
    /\ mined("deposit") =>
         /\ status[r] = "cancelled" => mined("cancel")
         /\ status[r] = "expired" => depositedAmount[r] = DepositOf[r] \/ returned
         /\ status[r] \in {"accepted", "rejected", "cancelled"} => confirmed[r]

\* What the wallets did before the backend looked can still be brought into the
\* table, one proof after the other and however late it is, as long as the row is
\* pending: some role may report the first mined call not yet recorded.  A row
\* with a confirmed deposit is therefore never stuck: the escrow still holds the
\* deposit, so that it can be expired, or there is a call left to report.
NothingMinedIsLost ==
  /\ \A t \in receipts \ audits :
       /\ status[t.rid] = "pending"
       /\ \A u \in receipts \ audits : u.rid = t.rid => t.nonce <= u.nonce
       => \E role \in Roles :
            Reconcilable(t.rid, t.action, role) /\ ReceiptProves(t, role)
  /\ \A r \in Reservations : status[r] = "pending" /\ confirmed[r] =>
       \/ depositedAmount[r] = DepositOf[r]
       \/ \E t \in receipts \ audits : t.rid = r
=============================================================================
