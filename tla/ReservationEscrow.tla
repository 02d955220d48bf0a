------------------------- MODULE ReservationEscrow -------------------------
(***************************************************************************)
(* The Solidity escrow contracts/contracts/ReservationEscrow.sol.          *)
(*                                                                         *)
(* Every external function is one atomic action: the EVM runs transactions *)
(* one at a time, a revert leaves no trace, and nonReentrant keeps a token *)
(* callback from re-entering.  A reverting call is therefore not a step.   *)
(* The signer is trusted with nothing here: the specification lets it have *)
(* signed every permit of the set Permits, so what is checked is what the  *)
(* contract guarantees on its own.                                         *)
(***************************************************************************)
EXTENDS Integers, FiniteSets, Functions

CONSTANTS
  Reservations,     \* keccak-hashed API reservation identifiers
  Listings,         \* listing identifiers
  Customers,        \* customer wallet addresses
  Agencies,         \* agency wallet addresses
  Amounts,          \* deposit amounts a permit may carry, in token units
  Deadlines,        \* deadlines a permit may carry, in block timestamps
  MaxNonce,         \* bound of the nonces a permit may carry
  MaxBlockTime,     \* bound of the block timestamp
  InitialBalance,   \* token units each customer wallet starts with
  NoTerms           \* the terms of a reservation the contract has not seen

Accounts == Customers \union Agencies
Actions == {"deposit", "accept", "reject", "cancel"}
EscrowStatuses ==
  {"None", "Pending", "Accepted", "Rejected", "Cancelled", "Expired"}
Settled == {"Accepted", "Rejected", "Cancelled", "Expired"}

\* The terms the contract freezes on first sight of a reservation.
Terms == [listing: Listings, customer: Customers, agency: Agencies,
          amount: Amounts, deadline: Deadlines]

\* The signed struct ReservationAction.
Permits == [rid: Reservations, terms: Terms, actor: Accounts,
            action: Actions, nonce: 0..MaxNonce]

ASSUME EscrowAssumption ==
  /\ Amounts \subseteq Nat
  /\ Deadlines \subseteq Nat
  /\ MaxNonce \in Nat
  /\ MaxBlockTime \in Nat
  /\ InitialBalance \in Nat
  /\ Customers \intersect Agencies = {}
  /\ NoTerms \notin Terms

\* Reservation identifiers are 256-bit hashes and addresses 160 bits: there are
\* finitely many of each, so deposits and balances can be added up.
ASSUME EscrowFinite == IsFiniteSet(Reservations) /\ IsFiniteSet(Accounts)

VARIABLES
  terms,            \* listingId, customer, agency, amount, deadline
  escrowStatus,     \* Reservation.status
  depositedAmount,  \* Reservation.depositedAmount
  nonces,           \* mapping nonces
  token,            \* token balance of each wallet
  held,             \* token balance of the contract itself
  blockTime,        \* block.timestamp
  receipts          \* the mined, successful calls with the event each emitted

escrowVars == <<terms, escrowStatus, depositedAmount, nonces, token, held,
                blockTime, receipts>>

\* A mined call.  The nonce makes it unique per reservation, so a receipt
\* stands for its own transaction hash.
Receipts == [rid: Reservations, action: Actions \union {"expire"},
             sender: Accounts, participant: Accounts, amount: Nat,
             nonce: Nat, time: Nat]

EscrowTypeOK ==
  /\ terms \in [Reservations -> Terms \union {NoTerms}]
  /\ escrowStatus \in [Reservations -> EscrowStatuses]
  /\ depositedAmount \in [Reservations -> Nat]
  /\ nonces \in [Reservations -> Nat]
  /\ token \in [Accounts -> Nat]
  /\ held \in Int
  /\ blockTime \in Nat
  /\ receipts \subseteq Receipts

EscrowInit ==
  /\ terms = [r \in Reservations |-> NoTerms]
  /\ escrowStatus = [r \in Reservations |-> "None"]
  /\ depositedAmount = [r \in Reservations |-> 0]
  /\ nonces = [r \in Reservations |-> 0]
  /\ token = [a \in Accounts |-> IF a \in Customers THEN InitialBalance ELSE 0]
  /\ held = 0
  /\ blockTime = 0
  /\ receipts = {}

-----------------------------------------------------------------------------

\* Faulty variants, each a plausible slip in one clause of the contract.  The
\* specification uses none of them; they show that the properties can fail.
AuthorizedAtDeadline(p, sender, action) ==
  /\ p.action = action
  /\ sender = p.actor
  /\ p.nonce = nonces[p.rid]
  /\ blockTime <= p.terms.deadline
PrepareUnchecked(p) == terms' = [terms EXCEPT ![p.rid] = p.terms]
PendingUnchecked(r) == TRUE
AffordableUnchecked(p) == TRUE
ExpirableBeforeDeadline(r) ==
  /\ escrowStatus[r] = "Pending"
  /\ blockTime < terms[r].deadline
  /\ depositedAmount[r] # 0
CloseKeepingStatus(r, newStatus, payee) ==
  /\ nonces' = [nonces EXCEPT ![r] = @ + 1]
  /\ depositedAmount' = [depositedAmount EXCEPT ![r] = 0]
  /\ token' = [token EXCEPT ![payee] = @ + depositedAmount[r]]
  /\ held' = held - depositedAmount[r]
  /\ UNCHANGED escrowStatus
CloseKeepingNonce(r, newStatus, payee) ==
  /\ escrowStatus' = [escrowStatus EXCEPT ![r] = newStatus]
  /\ depositedAmount' = [depositedAmount EXCEPT ![r] = 0]
  /\ token' = [token EXCEPT ![payee] = @ + depositedAmount[r]]
  /\ held' = held - depositedAmount[r]
  /\ UNCHANGED nonces
ClosePayingTerms(r, newStatus, payee) ==
  /\ escrowStatus' = [escrowStatus EXCEPT ![r] = newStatus]
  /\ depositedAmount' = [depositedAmount EXCEPT ![r] = 0]
  /\ nonces' = [nonces EXCEPT ![r] = @ + 1]
  /\ token' = [token EXCEPT ![payee] = @ + terms'[r].amount]
  /\ held' = held - depositedAmount[r]

-----------------------------------------------------------------------------

\* Who may be the signed actor of each action.
MayAct(p) ==
  \/ p.action = "deposit" /\ p.actor = p.terms.customer
  \/ p.action \in {"accept", "reject"} /\ p.actor = p.terms.agency
  \/ p.action = "cancel" /\ p.actor \in {p.terms.customer, p.terms.agency}

\* _authorize: the right function, the signed actor itself calling, the
\* current nonce, strictly before the deadline.
Authorized(p, sender, action) ==
  /\ p.action = action
  /\ sender = p.actor
  /\ MayAct(p)
  /\ p.nonce = nonces[p.rid]
  /\ blockTime < p.terms.deadline

\* _prepare: freeze the terms of a new reservation, or insist that the permit
\* repeats the frozen ones.
Prepare(p) ==
  /\ escrowStatus[p.rid] # "None" => terms[p.rid] = p.terms
  /\ terms' = [terms EXCEPT ![p.rid] = p.terms]

\* After _prepare a new reservation is Pending; only a Pending one continues.
PendingOncePrepared(r) == escrowStatus[r] \in {"None", "Pending"}

\* safeTransferFrom reverts when the customer cannot pay.
Affordable(p) == token[p.terms.customer] >= p.terms.amount

\* _requireDepositIfConfigured
DepositMadeIfConfigured(p) ==
  p.terms.amount # 0 => depositedAmount[p.rid] = p.terms.amount

Receipt(r, action, sender, participant, amount) ==
  [rid |-> r, action |-> action, sender |-> sender,
   participant |-> participant, amount |-> amount, nonce |-> nonces[r],
   time |-> blockTime]

\* The common tail of the four closing functions: empty the deposit, consume
\* the nonce, pay what was held to the payee.
Close(r, newStatus, payee) ==
  /\ escrowStatus' = [escrowStatus EXCEPT ![r] = newStatus]
  /\ depositedAmount' = [depositedAmount EXCEPT ![r] = 0]
  /\ nonces' = [nonces EXCEPT ![r] = @ + 1]
  /\ token' = [token EXCEPT ![payee] = @ + depositedAmount[r]]
  /\ held' = held - depositedAmount[r]

deposit(p, sender) ==
  LET r == p.rid IN
  /\ Authorized(p, sender, "deposit")
  /\ p.terms.amount # 0
  /\ Prepare(p)
  /\ PendingOncePrepared(r)
  /\ depositedAmount[r] = 0
  /\ Affordable(p)
  /\ escrowStatus' = [escrowStatus EXCEPT ![r] = "Pending"]
  /\ depositedAmount' = [depositedAmount EXCEPT ![r] = p.terms.amount]
  /\ nonces' = [nonces EXCEPT ![r] = @ + 1]
  /\ token' = [token EXCEPT ![p.terms.customer] = @ - p.terms.amount]
  /\ held' = held + p.terms.amount
  /\ receipts' = receipts \union
       {Receipt(r, "deposit", sender, p.terms.customer, p.terms.amount)}
  /\ UNCHANGED blockTime

accept(p, sender) ==
  LET r == p.rid IN
  /\ Authorized(p, sender, "accept")
  /\ Prepare(p)
  /\ PendingOncePrepared(r)
  /\ DepositMadeIfConfigured(p)
  /\ Close(r, "Accepted", p.terms.agency)
  /\ receipts' = receipts \union
       {Receipt(r, "accept", sender, p.terms.agency, depositedAmount[r])}
  /\ UNCHANGED blockTime

reject(p, sender) ==
  LET r == p.rid IN
  /\ Authorized(p, sender, "reject")
  /\ Prepare(p)
  /\ PendingOncePrepared(r)
  /\ DepositMadeIfConfigured(p)
  /\ Close(r, "Rejected", p.terms.customer)
  /\ receipts' = receipts \union
       {Receipt(r, "reject", sender, p.terms.customer, depositedAmount[r])}
  /\ UNCHANGED blockTime

cancel(p, sender) ==
  LET r == p.rid IN
  /\ Authorized(p, sender, "cancel")
  /\ Prepare(p)
  /\ PendingOncePrepared(r)
  /\ depositedAmount[r] \in {0, p.terms.amount}
  /\ Close(r, "Cancelled", p.terms.customer)
  /\ receipts' = receipts \union
       {Receipt(r, "cancel", sender, sender, depositedAmount[r])}
  /\ UNCHANGED blockTime

\* The two checks of expire: still Pending, and overdue with a deposit.
Expirable(r) ==
  /\ escrowStatus[r] = "Pending"
  /\ blockTime >= terms[r].deadline
  /\ depositedAmount[r] # 0

\* Permissionless: anyone may refund a deposited reservation at its deadline.
expire(r, sender) ==
  /\ Expirable(r)
  /\ Close(r, "Expired", terms[r].customer)
  /\ receipts' = receipts \union
       {Receipt(r, "expire", sender, terms[r].customer, depositedAmount[r])}
  /\ UNCHANGED <<terms, blockTime>>

\* The next block carries a later timestamp.
MineLater ==
  /\ blockTime < MaxBlockTime
  /\ blockTime' = blockTime + 1
  /\ UNCHANGED <<terms, escrowStatus, depositedAmount, nonces, token, held,
                 receipts>>

SignedCall(p, sender) ==
  \/ deposit(p, sender)
  \/ accept(p, sender)
  \/ reject(p, sender)
  \/ cancel(p, sender)

EscrowNext ==
  \/ \E p \in Permits, sender \in Accounts : SignedCall(p, sender)
  \/ \E r \in Reservations, sender \in Accounts : expire(r, sender)
  \/ MineLater

EscrowSpec == EscrowInit /\ [][EscrowNext]_escrowVars

\* Block timestamps keep growing, and some wallet interested in an overdue
\* deposit (expire is open to all) eventually gets its call mined.
EscrowFairness ==
  /\ WF_escrowVars(MineLater)
  /\ \A r \in Reservations :
       WF_escrowVars(\E sender \in Accounts : expire(r, sender))

EscrowFairSpec == EscrowSpec /\ EscrowFairness

-----------------------------------------------------------------------------

\* The terms-creating first call always ends in a funded or a settled
\* reservation: nothing stays Pending on chain without the whole positive
\* deposit, and nothing that is not Pending holds any.  expire relies on it
\* (an unfunded Pending reservation could never be closed after its deadline).
PendingMeansFunded ==
  \A r \in Reservations :
    /\ escrowStatus[r] = "None" <=> terms[r] = NoTerms
    /\ escrowStatus[r] = "Pending" =>
         /\ depositedAmount[r] = terms[r].amount
         /\ depositedAmount[r] # 0
    /\ escrowStatus[r] # "Pending" => depositedAmount[r] = 0

\* The contract's own token balance is at every moment the sum of the deposits
\* it records, and no token is created or lost: what a terminal call pays out
\* for one reservation can never come from the deposit of another.
EscrowSolvent ==
  /\ held = SumFunctionOnSet(depositedAmount, Reservations)
  /\ held + SumFunctionOnSet(token, Accounts)
       = InitialBalance * Cardinality(Customers)

\* A receipt is identified by its reservation and nonce, and no nonce is
\* skipped: reconciliation may take (reservation, nonce) for the transaction.
NoncesNumberReceipts ==
  /\ \A t \in receipts : t.nonce < nonces[t.rid]
  /\ \A t, u \in receipts : t.rid = u.rid /\ t.nonce = u.nonce => t = u
  /\ \A r \in Reservations : \A n \in 0..(nonces[r] - 1) :
       \E t \in receipts : t.rid = r /\ t.nonce = n

\* A reservation is closed at most once, its closing call comes last, and what
\* that call pays out is exactly what was deposited before it.
PayoutIsTheDeposit ==
  \A t \in receipts : t.action # "deposit" =>
    /\ escrowStatus[t.rid] \in Settled
    /\ \A u \in receipts \ {t} : u.rid = t.rid =>
         u.action = "deposit" /\ u.nonce < t.nonce /\ u.amount = t.amount
    /\ t.amount # 0 => \E u \in receipts : u.rid = t.rid /\ u.action = "deposit"

\* The deadline splits the outcomes: every signed action is mined strictly
\* before it and every expiry at or after it, so a deposit can never be both
\* decided and expired whatever the order of the transactions in the pool.
DeadlineSplitsOutcomes ==
  \A t \in receipts :
    /\ t.action # "expire" => t.time < terms[t.rid].deadline
    /\ t.action = "expire" => t.time >= terms[t.rid].deadline

\* Only the parties frozen in the terms move a deposit before its deadline, and
\* the event names the party the backend will look for.
OnlyPartiesDecide ==
  \A t \in receipts : LET d == terms[t.rid] IN
    /\ t.action = "deposit" => t.sender = d.customer /\ t.participant = d.customer
    /\ t.action = "accept" => t.sender = d.agency /\ t.participant = d.agency
    /\ t.action = "reject" => t.sender = d.agency /\ t.participant = d.customer
    /\ t.action = "cancel" => t.sender \in {d.customer, d.agency}
                              /\ t.participant = t.sender
    /\ t.action = "expire" => t.participant = d.customer

\* Terms never change once frozen, and a settled status is final, whatever else
\* the signer has signed for the same reservation.
TermsFrozenAndSettledFinal ==
  [][\A r \in Reservations :
       /\ terms[r] # NoTerms => terms'[r] = terms[r]
       /\ escrowStatus[r] \in Settled => escrowStatus'[r] = escrowStatus[r]
    ]_escrowVars

\* No deposit is locked for ever: once one is in the escrow, some call empties it.
DepositEventuallyLeaves ==
  \A r \in Reservations : depositedAmount[r] > 0 ~> depositedAmount[r] = 0
=============================================================================
