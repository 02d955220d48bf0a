---------------------- MODULE ReservationEscrow_proofs ----------------------
(***************************************************************************)
(* Proofs about the escrow contract, for any sets of reservations, wallets *)
(* and permits and without the bounds TLC needs.  Everything a run checks  *)
(* of the contract's safety is proved: the state predicates from one       *)
(* inductive invariant, the solvency from it and from lemmas about sums    *)
(* over finite sets, which are proved by taking a least counterexample.    *)
(***************************************************************************)
EXTENDS ReservationEscrow, FiniteSetTheorems, TLAPS

\* What the receipts of a reservation say about its status.  An unseen one has
\* none, a Pending one has its deposit and nothing else, and a settled one, and no
\* other, has a closing receipt.
StatusMatchesReceipts ==
  \A r \in Reservations :
    /\ escrowStatus[r] = "None" => \A t \in receipts : t.rid # r
    /\ escrowStatus[r] = "Pending" =>
         \E t \in receipts : t.rid = r /\ t.action = "deposit"
    /\ escrowStatus[r] \notin Settled =>
         \A t \in receipts : t.rid = r => t.action = "deposit"
    /\ escrowStatus[r] \in Settled =>
         \E t \in receipts : t.rid = r /\ t.action # "deposit"

\* Deposits are whole and positive, only a deposit expires, and every receipt
\* belongs to frozen terms.
ReceiptsMatchTerms ==
  \A t \in receipts :
    /\ terms[t.rid] \in Terms
    /\ t.action = "deposit" => t.amount = terms[t.rid].amount /\ t.amount # 0
    /\ t.action = "expire" => t.amount # 0

\* A reservation has at most one deposit.
OneDeposit ==
  \A t, u \in receipts :
    t.rid = u.rid /\ t.action = "deposit" /\ u.action = "deposit" => t = u

EscrowIInv ==
  /\ EscrowTypeOK
  /\ PendingMeansFunded
  /\ NoncesNumberReceipts
  /\ PayoutIsTheDeposit
  /\ DeadlineSplitsOutcomes
  /\ OnlyPartiesDecide
  /\ StatusMatchesReceipts
  /\ ReceiptsMatchTerms
  /\ OneDeposit

\* The shape shared by accept, reject, cancel and expire.
Closing(r, d, action, sender, participant, newStatus, payee) ==
  /\ escrowStatus[r] \in {"None", "Pending"}
  /\ escrowStatus[r] # "None" => terms[r] = d
  /\ terms' = [terms EXCEPT ![r] = d]
  /\ Close(r, newStatus, payee)
  /\ receipts' = receipts \union
       {Receipt(r, action, sender, participant, depositedAmount[r])}
  /\ UNCHANGED blockTime
  /\ \/ action = "accept" /\ sender = d.agency /\ participant = d.agency
        /\ newStatus = "Accepted" /\ blockTime < d.deadline
     \/ action = "reject" /\ sender = d.agency /\ participant = d.customer
        /\ newStatus = "Rejected" /\ blockTime < d.deadline
     \/ action = "cancel" /\ sender \in {d.customer, d.agency}
        /\ participant = sender
        /\ newStatus = "Cancelled" /\ blockTime < d.deadline
     \/ action = "expire" /\ participant = d.customer
        /\ newStatus = "Expired" /\ blockTime >= d.deadline
        /\ escrowStatus[r] = "Pending"

-----------------------------------------------------------------------------

\* Types of the parts of a permit.
LEMMA TermsType ==
  ASSUME NEW d \in Terms
  PROVE  /\ d.customer \in Customers /\ d.agency \in Agencies
         /\ d.customer \in Accounts /\ d.agency \in Accounts
         /\ d.amount \in Nat /\ d.deadline \in Nat
         /\ d # NoTerms
BY EscrowAssumption DEF Terms, Accounts

\* The initial state satisfies the inductive invariant.
LEMMA EscrowInitIInv == EscrowInit => EscrowIInv
<1> SUFFICES ASSUME EscrowInit PROVE EscrowIInv
  OBVIOUS
<1>1. EscrowTypeOK
  BY EscrowAssumption DEF EscrowInit, EscrowTypeOK, EscrowStatuses
<1>2. PendingMeansFunded
  BY DEF EscrowInit, PendingMeansFunded
<1>3. /\ NoncesNumberReceipts /\ PayoutIsTheDeposit
      /\ DeadlineSplitsOutcomes /\ OnlyPartiesDecide
      /\ StatusMatchesReceipts /\ ReceiptsMatchTerms /\ OneDeposit
  BY DEF EscrowInit, NoncesNumberReceipts, PayoutIsTheDeposit,
         DeadlineSplitsOutcomes, OnlyPartiesDecide, StatusMatchesReceipts,
         ReceiptsMatchTerms, OneDeposit, Settled
<1> QED BY <1>1, <1>2, <1>3 DEF EscrowIInv

\* A deposit preserves the inductive invariant.
LEMMA DepositIInv ==
  ASSUME EscrowIInv, NEW p \in Permits, NEW sender \in Accounts,
         deposit(p, sender)
  PROVE  EscrowIInv'
<1> DEFINE r == p.rid
           d == p.terms
           n == Receipt(r, "deposit", sender, d.customer, d.amount)
<1>1. /\ r \in Reservations /\ d \in Terms /\ p.action \in Actions
      /\ p.nonce \in Nat
  BY EscrowAssumption DEF Permits
<1>2. /\ d.customer \in Customers /\ d.agency \in Agencies
      /\ d.customer \in Accounts /\ d.agency \in Accounts
      /\ d.amount \in Nat /\ d.deadline \in Nat /\ d # NoTerms
  BY <1>1, TermsType
<1>3. /\ p.action = "deposit" /\ sender = p.actor /\ sender = d.customer
      /\ blockTime < d.deadline
  BY DEF deposit, Authorized, MayAct
<1>4. /\ d.amount # 0
      /\ escrowStatus[r] # "None" => terms[r] = d
      /\ terms' = [terms EXCEPT ![r] = d]
      /\ escrowStatus[r] \in {"None", "Pending"}
      /\ depositedAmount[r] = 0
      /\ token[d.customer] >= d.amount
      /\ escrowStatus' = [escrowStatus EXCEPT ![r] = "Pending"]
      /\ depositedAmount' = [depositedAmount EXCEPT ![r] = d.amount]
      /\ nonces' = [nonces EXCEPT ![r] = @ + 1]
      /\ token' = [token EXCEPT ![d.customer] = @ - d.amount]
      /\ held' = held + d.amount
      /\ receipts' = receipts \union {n}
      /\ blockTime' = blockTime
  BY DEF deposit, Prepare, PendingOncePrepared, Affordable
<1>5. escrowStatus[r] = "None" /\ terms[r] = NoTerms
  BY <1>1, <1>4 DEF EscrowIInv, PendingMeansFunded
<1>6. \A t \in receipts : t.rid # r
  BY <1>1, <1>5 DEF EscrowIInv, StatusMatchesReceipts
<1>7. n = [rid |-> r, action |-> "deposit", sender |-> sender,
           participant |-> d.customer, amount |-> d.amount,
           nonce |-> nonces[r], time |-> blockTime]
  BY DEF Receipt
<1>8. EscrowTypeOK
  BY DEF EscrowIInv
<1>9. nonces[r] = 0
  BY <1>1, <1>6, <1>8 DEF EscrowIInv, NoncesNumberReceipts, EscrowTypeOK
<1> HIDE DEF r, d, n
<1>10. EscrowTypeOK'
  <2>1. n \in Receipts
    BY <1>1, <1>2, <1>7, <1>8 DEF Receipts, EscrowTypeOK, Actions
  <2> QED BY <1>1, <1>2, <1>4, <1>8, <2>1 DEF EscrowTypeOK, EscrowStatuses
<1>11. PendingMeansFunded'
  BY <1>1, <1>2, <1>4, <1>8 DEF EscrowIInv, PendingMeansFunded, EscrowTypeOK
<1>12. NoncesNumberReceipts'
  <2> SUFFICES ASSUME TRUE PROVE
        /\ \A t \in receipts' : t.nonce < nonces'[t.rid]
        /\ \A t, u \in receipts' : t.rid = u.rid /\ t.nonce = u.nonce => t = u
        /\ \A q \in Reservations : \A k \in 0..(nonces'[q] - 1) :
             \E t \in receipts' : t.rid = q /\ t.nonce = k
    BY DEF NoncesNumberReceipts
  <2>1. \A t \in receipts' : t.nonce < nonces'[t.rid]
    BY <1>1, <1>4, <1>6, <1>7, <1>8, <1>9
    DEF EscrowIInv, NoncesNumberReceipts, EscrowTypeOK, Receipts
  <2>2. \A t, u \in receipts' : t.rid = u.rid /\ t.nonce = u.nonce => t = u
    BY <1>4, <1>6, <1>7 DEF EscrowIInv, NoncesNumberReceipts
  <2>3. \A q \in Reservations : \A k \in 0..(nonces'[q] - 1) :
             \E t \in receipts' : t.rid = q /\ t.nonce = k
    <3> SUFFICES ASSUME NEW q \in Reservations, NEW k \in 0..(nonces'[q] - 1)
                 PROVE  \E t \in receipts' : t.rid = q /\ t.nonce = k
      OBVIOUS
    <3>1. CASE q = r
      BY <3>1, <1>1, <1>4, <1>7, <1>8, <1>9 DEF EscrowTypeOK
    <3>2. CASE q # r
      BY <3>2, <1>1, <1>4, <1>8 DEF EscrowIInv, NoncesNumberReceipts, EscrowTypeOK
    <3> QED BY <3>1, <3>2
  <2> QED BY <2>1, <2>2, <2>3
<1>13. PayoutIsTheDeposit'
  <2> SUFFICES ASSUME NEW t \in receipts', t.action # "deposit"
               PROVE  /\ escrowStatus'[t.rid] \in Settled
                      /\ \A u \in receipts' \ {t} : u.rid = t.rid =>
                           u.action = "deposit" /\ u.nonce < t.nonce
                           /\ u.amount = t.amount
                      /\ t.amount # 0 => \E u \in receipts' :
                           u.rid = t.rid /\ u.action = "deposit"
    BY DEF PayoutIsTheDeposit
  <2>1. t \in receipts /\ t.rid # r /\ t.rid \in Reservations
    BY <1>4, <1>6, <1>7, <1>8 DEF EscrowTypeOK, Receipts
  <2> QED BY <2>1, <1>1, <1>4, <1>7, <1>8
          DEF EscrowIInv, PayoutIsTheDeposit, EscrowTypeOK
<1>14. DeadlineSplitsOutcomes'
  BY <1>1, <1>2, <1>3, <1>4, <1>6, <1>7, <1>8
  DEF EscrowIInv, DeadlineSplitsOutcomes, EscrowTypeOK, Receipts
<1>15. OnlyPartiesDecide'
  BY <1>1, <1>2, <1>3, <1>4, <1>6, <1>7, <1>8
  DEF EscrowIInv, OnlyPartiesDecide, EscrowTypeOK, Receipts
<1>16. StatusMatchesReceipts'
  BY <1>1, <1>4, <1>6, <1>7, <1>8
  DEF EscrowIInv, StatusMatchesReceipts, EscrowTypeOK, Receipts, Settled
<1>17. ReceiptsMatchTerms'
  BY <1>1, <1>2, <1>4, <1>6, <1>7, <1>8
  DEF EscrowIInv, ReceiptsMatchTerms, EscrowTypeOK, Receipts
<1>18. OneDeposit'
  BY <1>4, <1>6, <1>7, <1>8 DEF EscrowIInv, OneDeposit
<1> QED BY <1>10, <1>11, <1>12, <1>13, <1>14, <1>15, <1>16, <1>17, <1>18
        DEF EscrowIInv

\* A closing call, whichever it is, preserves the inductive invariant.
LEMMA ClosingIInv ==
  ASSUME EscrowIInv, NEW r \in Reservations, NEW d \in Terms,
         NEW action, NEW sender \in Accounts, NEW participant,
         NEW newStatus, NEW payee \in {d.customer, d.agency},
         Closing(r, d, action, sender, participant, newStatus, payee)
  PROVE  EscrowIInv'
<1> DEFINE x == depositedAmount[r]
           n == Receipt(r, action, sender, participant, x)
<1>1. /\ d.customer \in Customers /\ d.agency \in Agencies
      /\ d.customer \in Accounts /\ d.agency \in Accounts
      /\ d.amount \in Nat /\ d.deadline \in Nat /\ d # NoTerms
  BY TermsType
<1>2. /\ escrowStatus[r] \in {"None", "Pending"}
      /\ escrowStatus[r] # "None" => terms[r] = d
      /\ terms' = [terms EXCEPT ![r] = d]
      /\ escrowStatus' = [escrowStatus EXCEPT ![r] = newStatus]
      /\ depositedAmount' = [depositedAmount EXCEPT ![r] = 0]
      /\ nonces' = [nonces EXCEPT ![r] = @ + 1]
      /\ token' = [token EXCEPT ![payee] = @ + x]
      /\ held' = held - x
      /\ receipts' = receipts \union {n}
      /\ blockTime' = blockTime
  BY DEF Closing, Close
<1>3. \/ action = "accept" /\ sender = d.agency /\ participant = d.agency
         /\ newStatus = "Accepted" /\ blockTime < d.deadline
      \/ action = "reject" /\ sender = d.agency /\ participant = d.customer
         /\ newStatus = "Rejected" /\ blockTime < d.deadline
      \/ action = "cancel" /\ sender \in {d.customer, d.agency}
         /\ participant = sender
         /\ newStatus = "Cancelled" /\ blockTime < d.deadline
      \/ action = "expire" /\ participant = d.customer
         /\ newStatus = "Expired" /\ blockTime >= d.deadline
         /\ escrowStatus[r] = "Pending"
  BY DEF Closing
<1>4. /\ action \in {"accept", "reject", "cancel", "expire"}
      /\ action # "deposit"
      /\ newStatus \in Settled
      /\ participant \in Accounts
  BY <1>1, <1>3 DEF Settled
<1>5. EscrowTypeOK
  BY DEF EscrowIInv
<1>6. /\ x \in Nat /\ nonces[r] \in Nat /\ blockTime \in Nat
      /\ payee \in Accounts
  BY <1>1, <1>5 DEF EscrowTypeOK
<1>7. n = [rid |-> r, action |-> action, sender |-> sender,
           participant |-> participant, amount |-> x,
           nonce |-> nonces[r], time |-> blockTime]
  BY DEF Receipt
<1>8. \A t \in receipts : t.rid = r =>
        t.action = "deposit" /\ t.amount = x /\ terms[r] = d
  <2> SUFFICES ASSUME NEW t \in receipts, t.rid = r
               PROVE  t.action = "deposit" /\ t.amount = x /\ terms[r] = d
    OBVIOUS
  <2>1. escrowStatus[r] = "Pending"
    BY <1>2 DEF EscrowIInv, StatusMatchesReceipts
  <2>2. t.action = "deposit"
    BY <2>1 DEF EscrowIInv, StatusMatchesReceipts, Settled
  <2>3. t.amount = terms[r].amount /\ x = terms[r].amount
    BY <2>1, <2>2 DEF EscrowIInv, ReceiptsMatchTerms, PendingMeansFunded
  <2> QED BY <2>1, <2>2, <2>3, <1>2
<1>9. x # 0 => \E t \in receipts : t.rid = r /\ t.action = "deposit"
  BY <1>2 DEF EscrowIInv, PendingMeansFunded, StatusMatchesReceipts
<1> HIDE DEF x, n
<1>10. EscrowTypeOK'
  <2>1. n \in Receipts
    BY <1>4, <1>6, <1>7 DEF Receipts, Actions
  <2>2. newStatus \in EscrowStatuses
    BY <1>4 DEF Settled, EscrowStatuses
  <2> QED BY <1>2, <1>5, <1>6, <2>1, <2>2 DEF EscrowTypeOK
<1>11. PendingMeansFunded'
  BY <1>1, <1>2, <1>4, <1>5
  DEF EscrowIInv, PendingMeansFunded, EscrowTypeOK, Settled
<1>12. NoncesNumberReceipts'
  <2>1. \A t \in receipts' : t.nonce < nonces'[t.rid]
    BY <1>2, <1>5, <1>6, <1>7
    DEF EscrowIInv, NoncesNumberReceipts, EscrowTypeOK, Receipts
  <2>2. \A t, u \in receipts' : t.rid = u.rid /\ t.nonce = u.nonce => t = u
    BY <1>2, <1>5, <1>6, <1>7
    DEF EscrowIInv, NoncesNumberReceipts, EscrowTypeOK, Receipts
  <2>3. \A q \in Reservations : \A k \in 0..(nonces'[q] - 1) :
             \E t \in receipts' : t.rid = q /\ t.nonce = k
    <3> SUFFICES ASSUME NEW q \in Reservations, NEW k \in 0..(nonces'[q] - 1)
                 PROVE  \E t \in receipts' : t.rid = q /\ t.nonce = k
      OBVIOUS
    <3>1. CASE q = r /\ k = nonces[r]
      BY <3>1, <1>2, <1>7
    <3>2. CASE q # r \/ k # nonces[r]
      <4>1. k \in 0..(nonces[q] - 1)
        BY <3>2, <1>2, <1>5, <1>6 DEF EscrowTypeOK
      <4> QED BY <4>1, <1>2 DEF EscrowIInv, NoncesNumberReceipts
    <3> QED BY <3>1, <3>2
  <2> QED BY <2>1, <2>2, <2>3 DEF NoncesNumberReceipts
<1>13. PayoutIsTheDeposit'
  <2> SUFFICES ASSUME NEW t \in receipts', t.action # "deposit"
               PROVE  /\ escrowStatus'[t.rid] \in Settled
                      /\ \A u \in receipts' \ {t} : u.rid = t.rid =>
                           u.action = "deposit" /\ u.nonce < t.nonce
                           /\ u.amount = t.amount
                      /\ t.amount # 0 => \E u \in receipts' :
                           u.rid = t.rid /\ u.action = "deposit"
    BY DEF PayoutIsTheDeposit
  <2>1. CASE t = n
    BY <2>1, <1>2, <1>4, <1>5, <1>7, <1>8, <1>9
    DEF EscrowIInv, NoncesNumberReceipts, EscrowTypeOK
  <2>2. CASE t # n
    <3>1. t \in receipts /\ t.rid \in Reservations
      BY <2>2, <1>2, <1>5 DEF EscrowTypeOK, Receipts
    <3>2. t.rid # r
      BY <3>1, <1>8
    <3> QED BY <3>1, <3>2, <1>2, <1>5, <1>7
            DEF EscrowIInv, PayoutIsTheDeposit, EscrowTypeOK
  <2> QED BY <2>1, <2>2
<1>14. DeadlineSplitsOutcomes'
  BY <1>1, <1>2, <1>3, <1>5, <1>7, <1>8
  DEF EscrowIInv, DeadlineSplitsOutcomes, EscrowTypeOK, Receipts
<1>15. OnlyPartiesDecide'
  BY <1>1, <1>2, <1>3, <1>5, <1>7, <1>8
  DEF EscrowIInv, OnlyPartiesDecide, EscrowTypeOK, Receipts
<1>16. StatusMatchesReceipts'
  BY <1>2, <1>4, <1>5, <1>7
  DEF EscrowIInv, StatusMatchesReceipts, EscrowTypeOK, Receipts, Settled
<1>17. ReceiptsMatchTerms'
  <2>1. action = "expire" => n.amount # 0
    BY <1>3, <1>4, <1>7 DEF EscrowIInv, PendingMeansFunded, x
  <2>2. n.rid = r /\ n.action = action
    BY <1>7
  <2> QED BY <1>2, <1>4, <1>5, <1>8, <2>1, <2>2
          DEF EscrowIInv, ReceiptsMatchTerms, EscrowTypeOK, Receipts
<1>18. OneDeposit'
  BY <1>2, <1>4, <1>7 DEF EscrowIInv, OneDeposit
<1> QED BY <1>10, <1>11, <1>12, <1>13, <1>14, <1>15, <1>16, <1>17, <1>18
        DEF EscrowIInv

\* Each of the four closing functions has the shape of Closing.
LEMMA ClosingCalls ==
  ASSUME EscrowIInv, NEW sender \in Accounts
  PROVE  /\ \A p \in Permits :
              accept(p, sender) \/ reject(p, sender) \/ cancel(p, sender)
                => EscrowIInv'
         /\ \A r \in Reservations : expire(r, sender) => EscrowIInv'
<1>1. ASSUME NEW p \in Permits
      PROVE  p.rid \in Reservations /\ p.terms \in Terms
  BY DEF Permits
<1>2. ASSUME NEW p \in Permits, accept(p, sender) PROVE EscrowIInv'
  <2>1. Closing(p.rid, p.terms, "accept", sender, p.terms.agency, "Accepted",
                p.terms.agency)
    BY <1>2 DEF accept, Closing, Authorized, MayAct, Prepare, PendingOncePrepared
  <2> QED BY <2>1, <1>1, ClosingIInv
<1>3. ASSUME NEW p \in Permits, reject(p, sender) PROVE EscrowIInv'
  <2>1. Closing(p.rid, p.terms, "reject", sender, p.terms.customer, "Rejected",
                p.terms.customer)
    BY <1>3 DEF reject, Closing, Authorized, MayAct, Prepare, PendingOncePrepared
  <2> QED BY <2>1, <1>1, ClosingIInv
<1>4. ASSUME NEW p \in Permits, cancel(p, sender) PROVE EscrowIInv'
  <2>1. Closing(p.rid, p.terms, "cancel", sender, sender, "Cancelled",
                p.terms.customer)
    BY <1>4 DEF cancel, Closing, Authorized, MayAct, Prepare, PendingOncePrepared
  <2> QED BY <2>1, <1>1, ClosingIInv
<1>5. ASSUME NEW r \in Reservations, expire(r, sender) PROVE EscrowIInv'
  <2>1. escrowStatus[r] = "Pending"
    BY <1>5 DEF expire, Expirable
  <2>2. terms[r] \in Terms /\ terms' = [terms EXCEPT ![r] = terms[r]]
    BY <1>5, <2>1 DEF expire, EscrowIInv, PendingMeansFunded, EscrowTypeOK
  <2>3. Closing(r, terms[r], "expire", sender, terms[r].customer, "Expired",
                terms[r].customer)
    BY <1>5, <2>1, <2>2 DEF expire, Expirable, Closing
  <2> QED BY <2>2, <2>3, ClosingIInv
<1> QED BY <1>2, <1>3, <1>4, <1>5

\* Every step of the contract preserves the inductive invariant.
LEMMA EscrowStepIInv == EscrowIInv /\ [EscrowNext]_escrowVars => EscrowIInv'
<1> SUFFICES ASSUME EscrowIInv, [EscrowNext]_escrowVars PROVE EscrowIInv'
  OBVIOUS
<1>1. ASSUME NEW p \in Permits, NEW sender \in Accounts, SignedCall(p, sender)
      PROVE  EscrowIInv'
  BY <1>1, DepositIInv, ClosingCalls DEF SignedCall
<1>2. ASSUME NEW r \in Reservations, NEW sender \in Accounts, expire(r, sender)
      PROVE  EscrowIInv'
  BY <1>2, ClosingCalls
<1>3. CASE MineLater \/ UNCHANGED escrowVars
  <2>1. /\ UNCHANGED <<terms, escrowStatus, depositedAmount, nonces, token,
                       held, receipts>>
        /\ blockTime' = blockTime \/ blockTime' = blockTime + 1
    BY <1>3 DEF MineLater, escrowVars
  <2>2. EscrowTypeOK'
    BY <2>1 DEF EscrowIInv, EscrowTypeOK
  <2>3. PendingMeansFunded' /\ NoncesNumberReceipts' /\ PayoutIsTheDeposit'
    BY <2>1 DEF EscrowIInv, PendingMeansFunded, NoncesNumberReceipts,
                PayoutIsTheDeposit
  <2>4. DeadlineSplitsOutcomes' /\ OnlyPartiesDecide'
    BY <2>1 DEF EscrowIInv, DeadlineSplitsOutcomes, OnlyPartiesDecide
  <2>5. StatusMatchesReceipts' /\ ReceiptsMatchTerms' /\ OneDeposit'
    BY <2>1 DEF EscrowIInv, StatusMatchesReceipts, ReceiptsMatchTerms, OneDeposit
  <2> QED BY <2>2, <2>3, <2>4, <2>5 DEF EscrowIInv
<1> QED BY <1>1, <1>2, <1>3 DEF EscrowNext

\* The inductive invariant holds in every reachable state.
THEOREM EscrowInvariant == EscrowSpec => []EscrowIInv
BY EscrowInitIInv, EscrowStepIInv, PTL DEF EscrowSpec

-----------------------------------------------------------------------------

\* The variables of the contract keep their types; in particular no wallet's
\* balance ever goes below zero.
THEOREM EscrowTypeCorrect == EscrowSpec => []EscrowTypeOK
BY EscrowInvariant, PTL DEF EscrowIInv

\* A Pending reservation holds its whole positive deposit and any other none:
\* what expire needs to be able to close everything that is overdue.
THEOREM EscrowPendingFunded == EscrowSpec => []PendingMeansFunded
BY EscrowInvariant, PTL DEF EscrowIInv

\* A reservation and a nonce identify one mined call.
THEOREM EscrowNonces == EscrowSpec => []NoncesNumberReceipts
BY EscrowInvariant, PTL DEF EscrowIInv

\* A reservation pays out at most once, and exactly what was deposited.
THEOREM EscrowPaysOnce == EscrowSpec => []PayoutIsTheDeposit
BY EscrowInvariant, PTL DEF EscrowIInv

\* No signed action is mined at or after the deadline, no expiry before it, and
\* only the frozen parties act.
THEOREM EscrowDeadlineAndParties ==
  EscrowSpec => [](DeadlineSplitsOutcomes /\ OnlyPartiesDecide)
BY EscrowInvariant, PTL DEF EscrowIInv

\* Frozen terms never change and a settled status is final.
THEOREM EscrowTermsFrozen == EscrowSpec => TermsFrozenAndSettledFinal
<1> DEFINE Frozen ==
      \A r \in Reservations :
        /\ terms[r] # NoTerms => terms'[r] = terms[r]
        /\ escrowStatus[r] \in Settled => escrowStatus'[r] = escrowStatus[r]
<1>1. EscrowIInv /\ [EscrowNext]_escrowVars => [Frozen]_escrowVars
  <2> SUFFICES ASSUME EscrowIInv, EscrowNext, NEW r \in Reservations
               PROVE  /\ terms[r] # NoTerms => terms'[r] = terms[r]
                      /\ escrowStatus[r] \in Settled =>
                           escrowStatus'[r] = escrowStatus[r]
    OBVIOUS
  <2>1. EscrowTypeOK /\ (escrowStatus[r] = "None" <=> terms[r] = NoTerms)
    BY DEF EscrowIInv, PendingMeansFunded
  <2>2. ASSUME NEW p \in Permits, NEW sender \in Accounts, SignedCall(p, sender)
        PROVE  /\ terms' = [terms EXCEPT ![p.rid] = p.terms]
               /\ escrowStatus[p.rid] # "None" => terms[p.rid] = p.terms
               /\ escrowStatus[p.rid] \in {"None", "Pending"}
               /\ \E s : escrowStatus' = [escrowStatus EXCEPT ![p.rid] = s]
    <3>1. CASE deposit(p, sender)
      BY <3>1 DEF deposit, Prepare, PendingOncePrepared
    <3>2. CASE accept(p, sender)
      BY <3>2 DEF accept, Prepare, PendingOncePrepared, Close
    <3>3. CASE reject(p, sender)
      BY <3>3 DEF reject, Prepare, PendingOncePrepared, Close
    <3>4. CASE cancel(p, sender)
      BY <3>4 DEF cancel, Prepare, PendingOncePrepared, Close
    <3> QED BY <2>2, <3>1, <3>2, <3>3, <3>4 DEF SignedCall
  <2>3. CASE \E p \in Permits, sender \in Accounts : SignedCall(p, sender)
    BY <2>1, <2>2, <2>3 DEF EscrowTypeOK, Settled
  <2>4. CASE \E q \in Reservations, sender \in Accounts : expire(q, sender)
    BY <2>1, <2>4 DEF expire, Expirable, Close, EscrowTypeOK, Settled
  <2>5. CASE MineLater
    BY <2>5 DEF MineLater
  <2> QED BY <2>3, <2>4, <2>5 DEF EscrowNext
<1> QED BY <1>1, EscrowInvariant, PTL DEF EscrowSpec, TermsFrozenAndSettledFinal

-----------------------------------------------------------------------------

(* Sums over finite sets.                                                  *)

\* The element of a set that a fold takes first.
First(s) == CHOOSE x \in s : TRUE

\* g adds up f over every subset of S, in the order of the fold.
Adds(g, f, S) ==
  g = [s \in SUBSET S |->
         IF s = {} THEN 0 ELSE f[First(s)] + g[s \ {First(s)}]]

\* The library's sum is that fold.
LEMMA SumIsFold ==
  ASSUME NEW f, NEW S
  PROVE  SumFunctionOnSet(f, S) = (CHOOSE g : Adds(g, f, S))[S]
BY DEF SumFunctionOnSet, FoldFunctionOnSet, MapThenFoldSet, Adds, First

\* A nonempty family of subsets of a finite set has a minimal member.  This is
\* induction over finite sets: a family of counterexamples has a least one.
LEMMA Minimal ==
  ASSUME NEW S, IsFiniteSet(S), NEW B, B \subseteq SUBSET S, B # {}
  PROVE  \E m \in B : \A t \in B : t \subseteq m => t = m
<1>1. B \subseteq FiniteSubsetsOf(S)
  BY FS_Subset DEF FiniteSubsetsOf
<1>2. PICK m \in B : \A t \in B : <<t, m>> \notin StrictSubsetOrdering(S)
  BY <1>1, FS_StrictSubsetOrderingWellFounded, WFMin
<1>3. ASSUME NEW t \in B, t \subseteq m PROVE t = m
  BY <1>2, <1>3 DEF StrictSubsetOrdering
<1> QED BY <1>2, <1>3

\* A fold takes an element of the set.
LEMMA FirstIn == \A s : s # {} => First(s) \in s
BY DEF First

\* Two folds agree wherever both are defined.
LEMMA AddsUnique ==
  ASSUME NEW f, NEW S, IsFiniteSet(S), NEW U \in SUBSET S, NEW V \in SUBSET S,
         NEW g, NEW h, Adds(g, f, U), Adds(h, f, V)
  PROVE  \A w \in SUBSET (U \intersect V) : g[w] = h[w]
<1> DEFINE W == U \intersect V
           B == {w \in SUBSET W : g[w] # h[w]}
<1>1. \A w \in SUBSET W :
        /\ g[w] = IF w = {} THEN 0 ELSE f[First(w)] + g[w \ {First(w)}]
        /\ h[w] = IF w = {} THEN 0 ELSE f[First(w)] + h[w \ {First(w)}]
  BY DEF Adds
<1>2. ASSUME B # {} PROVE FALSE
  <2>1. IsFiniteSet(W) /\ B \subseteq SUBSET W
    BY FS_Subset
  <2>2. PICK m \in B : \A t \in B : t \subseteq m => t = m
    <3> HIDE DEF W, B
    <3> QED BY <1>2, <2>1, Minimal
  <2>3. m # {} /\ First(m) \in m
    BY <1>1, FirstIn
  <2>4. m \ {First(m)} \notin B
    BY <2>2, <2>3
  <2> QED BY <2>2, <2>3, <2>4, <1>1
<1> QED BY <1>2

\* A fold over a finite set exists.
LEMMA AddsExist ==
  ASSUME NEW f, NEW S, IsFiniteSet(S)
  PROVE  \E g : Adds(g, f, S)
<1> DEFINE B == {u \in SUBSET S : ~ \E g : Adds(g, f, u)}
           G(u) == CHOOSE g : Adds(g, f, u)
<1>1. ASSUME B # {} PROVE FALSE
  <2>1. PICK m \in B : \A t \in B : t \subseteq m => t = m
    <3>1. B \subseteq SUBSET S
      OBVIOUS
    <3> HIDE DEF B
    <3> QED BY <1>1, <3>1, Minimal
  <2>2. \A t \in SUBSET m : t # m => Adds(G(t), f, t)
    BY <2>1
  <2> DEFINE c(t) == t \ {First(t)}
             g == [t \in SUBSET m |->
                     IF t = {} THEN 0 ELSE f[First(t)] + G(c(t))[c(t)]]
  <2>3. \A t \in SUBSET m : t # {} =>
          c(t) \in SUBSET m /\ c(t) # m /\ c(t) \in SUBSET t
    BY FirstIn
  <2>4. ASSUME NEW t \in SUBSET m, t # {} PROVE g[c(t)] = G(c(t))[c(t)]
    <3> DEFINE u == c(t)
    <3>1. u \in SUBSET m /\ Adds(G(u), f, u)
      BY <2>2, <2>3, <2>4
    <3>2. G(u)[u] = IF u = {} THEN 0 ELSE f[First(u)] + G(u)[c(u)]
      BY <3>1 DEF Adds
    <3>3. CASE u = {}
      BY <3>1, <3>2, <3>3
    <3>4. CASE u # {}
      <4>1. c(u) \in SUBSET m /\ c(u) # m /\ c(u) \in SUBSET u
        BY <2>3, <3>1, <3>4
      <4>3. Adds(G(c(u)), f, c(u))
        <5> HIDE DEF c, G
        <5> QED BY <2>2, <4>1
      <4>2. u \in SUBSET S /\ c(u) \in SUBSET S
             /\ c(u) \in SUBSET (u \intersect c(u))
        BY <3>1, <4>1, <2>1
      <4>4. G(u)[c(u)] = G(c(u))[c(u)]
        <5> HIDE DEF u, c, G
        <5>1. \A w \in SUBSET (u \intersect c(u)) : G(u)[w] = G(c(u))[w]
          BY <3>1, <4>2, <4>3, AddsUnique
        <5> QED BY <4>2, <5>1
      <4> QED BY <3>1, <3>2, <3>4, <4>4
    <3> QED BY <3>3, <3>4
  <2>5. Adds(g, f, m)
    <3>1. g = [t \in SUBSET m |->
                 IF t = {} THEN 0 ELSE f[First(t)] + g[c(t)]]
      <4>1. \A t \in SUBSET m :
              (IF t = {} THEN 0 ELSE f[First(t)] + G(c(t))[c(t)])
              = (IF t = {} THEN 0 ELSE f[First(t)] + g[c(t)])
        <5> HIDE DEF g, c, G
        <5> TAKE t \in SUBSET m
        <5>1. CASE t = {}
          BY <5>1, Zenon
        <5>2. CASE t # {}
          BY <2>4, <5>2, Zenon
        <5> QED BY <5>1, <5>2
      <4> HIDE DEF c, G
      <4> QED BY <4>1, Zenon
    <3> QED BY <3>1 DEF Adds
  <2> QED BY <2>1, <2>5
<1> QED BY <1>1

\* The equation of the fold.
LEMMA SumStep ==
  ASSUME NEW f, NEW S, IsFiniteSet(S)
  PROVE  /\ SumFunctionOnSet(f, {}) = 0
         /\ S # {} => SumFunctionOnSet(f, S) = f[First(S)] + SumFunctionOnSet(f, S \ {First(S)})
<1> DEFINE G(u) == CHOOSE g : Adds(g, f, u)
<1>1. \A u \in SUBSET S : Adds(G(u), f, u) /\ SumFunctionOnSet(f, u) = G(u)[u]
  <2> TAKE u \in SUBSET S
  <2>1. IsFiniteSet(u)
    BY FS_Subset
  <2>2. \E g : Adds(g, f, u)
    BY <2>1, AddsExist
  <2> QED BY <2>2, SumIsFold
<1>2. SumFunctionOnSet(f, {}) = 0
  <2>1. {} \in SUBSET S
    OBVIOUS
  <2>2. Adds(G({}), f, {})  /\ SumFunctionOnSet(f, {}) = G({})[{}]
    BY <1>1, <2>1
  <2> HIDE DEF G
  <2> QED BY <2>2 DEF Adds
<1>3. ASSUME S # {}
      PROVE  SumFunctionOnSet(f, S) = f[First(S)] + SumFunctionOnSet(f, S \ {First(S)})
  <2> DEFINE t == S \ {First(S)}
  <2>1. Adds(G(S), f, S) /\ SumFunctionOnSet(f, S) = G(S)[S]
        /\ Adds(G(t), f, t) /\ SumFunctionOnSet(f, t) = G(t)[t]
    BY <1>1
  <2>2. G(S)[t] = G(t)[t]
    <3>1. S \in SUBSET S /\ t \in SUBSET S /\ t \in SUBSET (S \intersect t)
      OBVIOUS
    <3> HIDE DEF G, t
    <3>2. \A w \in SUBSET (S \intersect t) : G(S)[w] = G(t)[w]
      BY <2>1, <3>1, AddsUnique
    <3> QED BY <3>1, <3>2
  <2>3. G(S)[S] = f[First(S)] + G(S)[t]
    <3> HIDE DEF G
    <3> QED BY <1>3, <2>1 DEF Adds
  <2> QED BY <2>1, <2>2, <2>3
<1> QED BY <1>2, <1>3

\* A sum of integers is an integer.
LEMMA SumType ==
  ASSUME NEW f, NEW S, IsFiniteSet(S), \A x \in S : f[x] \in Int
  PROVE  SumFunctionOnSet(f, S) \in Int
<1> DEFINE B == {u \in SUBSET S : SumFunctionOnSet(f, u) \notin Int}
<1>1. ASSUME B # {} PROVE FALSE
  <2>1. PICK m \in B : \A t \in B : t \subseteq m => t = m
    <3>1. B \subseteq SUBSET S
      OBVIOUS
    <3> HIDE DEF B
    <3> QED BY <1>1, <3>1, Minimal
  <2>2. IsFiniteSet(m)
    BY <2>1, FS_Subset
  <2>3. m # {} /\ First(m) \in m
    <3>1. SumFunctionOnSet(f, {}) = 0
      BY SumStep
    <3>2. SumFunctionOnSet(f, m) \notin Int /\ 0 \in Int
      BY <2>1
    <3>3. m # {}
      <4> HIDE DEF B
      <4> QED BY <3>1, <3>2, Zenon
    <3> QED BY <3>3, FirstIn
  <2>4. m \ {First(m)} \notin B /\ m \ {First(m)} \in SUBSET S
    BY <2>1, <2>3
  <2> QED BY <2>1, <2>2, <2>3, <2>4, SumStep
<1> QED BY <1>1

\* Any element may be taken out of a sum.
LEMMA SumTake ==
  ASSUME NEW f, NEW S, IsFiniteSet(S), \A x \in S : f[x] \in Int
  PROVE  \A a \in S : SumFunctionOnSet(f, S) = f[a] + SumFunctionOnSet(f, S \ {a})
<1> DEFINE P(u) == \A a \in u : SumFunctionOnSet(f, u) = f[a] + SumFunctionOnSet(f, u \ {a})
           B == {u \in SUBSET S : ~ P(u)}
<1>1. ASSUME B # {} PROVE FALSE
  <2>1. PICK m \in B : \A t \in B : t \subseteq m => t = m
    <3>1. B \subseteq SUBSET S
      OBVIOUS
    <3> HIDE DEF B
    <3> QED BY <1>1, <3>1, Minimal
  <2>2. PICK a \in m : SumFunctionOnSet(f, m) # f[a] + SumFunctionOnSet(f, m \ {a})
    BY <2>1
  <2> DEFINE c == First(m)
             t == m \ {c}
             u == m \ {a}
             v == m \ {a, c}
  <2>3. IsFiniteSet(m) /\ c \in m
    BY <2>1, <2>2, FS_Subset, FirstIn
  <2>4. SumFunctionOnSet(f, m) = f[c] + SumFunctionOnSet(f, t)
    BY <2>2, <2>3, SumStep
  <2>5. c # a
    BY <2>2, <2>4
  <2>6. t \in SUBSET S /\ u \in SUBSET S /\ v \in SUBSET S
        /\ t \notin B /\ u \notin B
    BY <2>1, <2>2, <2>3
  <2>7. t \ {a} = v /\ u \ {c} = v /\ a \in t /\ c \in u
    BY <2>2, <2>3, <2>5
  <2>8. SumFunctionOnSet(f, t) = f[a] + SumFunctionOnSet(f, v)
    BY <2>6, <2>7
  <2>9. SumFunctionOnSet(f, u) = f[c] + SumFunctionOnSet(f, v)
    BY <2>6, <2>7
  <2>10. f[a] \in Int /\ f[c] \in Int /\ SumFunctionOnSet(f, v) \in Int
    <3>1. IsFiniteSet(v) /\ \A x \in v : f[x] \in Int
      BY <2>6, FS_Subset
    <3>2. SumFunctionOnSet(f, v) \in Int
      BY <3>1, SumType
    <3> QED BY <2>1, <2>2, <2>3, <3>2
  <2> HIDE DEF c, t, u, v
  <2>11. SumFunctionOnSet(f, m) = f[a] + SumFunctionOnSet(f, u)
    BY <2>4, <2>8, <2>9, <2>10
  <2> QED BY <2>2, <2>11 DEF u
<1> QED BY <1>1

\* Functions that agree on a set have the same sum over it.
LEMMA SumAgree ==
  ASSUME NEW f, NEW g, NEW S, IsFiniteSet(S), \A x \in S : f[x] = g[x]
  PROVE  SumFunctionOnSet(f, S) = SumFunctionOnSet(g, S)
<1> DEFINE B == {u \in SUBSET S : SumFunctionOnSet(f, u) # SumFunctionOnSet(g, u)}
<1>1. ASSUME B # {} PROVE FALSE
  <2>1. PICK m \in B : \A t \in B : t \subseteq m => t = m
    <3>1. B \subseteq SUBSET S
      OBVIOUS
    <3> HIDE DEF B
    <3> QED BY <1>1, <3>1, Minimal
  <2>2. IsFiniteSet(m)
    BY <2>1, FS_Subset
  <2>3. m # {} /\ First(m) \in m
    BY <2>1, <2>2, SumStep, FirstIn
  <2>4. m \ {First(m)} \notin B /\ m \ {First(m)} \in SUBSET S
    BY <2>1, <2>3
  <2> QED BY <2>1, <2>2, <2>3, <2>4, SumStep
<1> QED BY <1>1

\* Changing one summand changes the sum by as much.
LEMMA SumChange ==
  ASSUME NEW f, NEW g, NEW S, IsFiniteSet(S), NEW a \in S,
         \A x \in S : f[x] \in Int /\ g[x] \in Int,
         \A x \in S \ {a} : f[x] = g[x]
  PROVE  SumFunctionOnSet(g, S) = SumFunctionOnSet(f, S) + (g[a] - f[a])
<1> DEFINE T == S \ {a}
<1>1. IsFiniteSet(T) /\ \A x \in T : f[x] \in Int /\ g[x] \in Int
  BY FS_RemoveElement
<1>2. SumFunctionOnSet(f, T) = SumFunctionOnSet(g, T) /\ SumFunctionOnSet(f, T) \in Int
  BY <1>1, SumAgree, SumType
<1>3. SumFunctionOnSet(f, S) = f[a] + SumFunctionOnSet(f, T) /\ SumFunctionOnSet(g, S) = g[a] + SumFunctionOnSet(g, T)
  BY SumTake
<1> QED BY <1>2, <1>3

\* The sum of a constant over the members of C.
LEMMA SumConstant ==
  ASSUME NEW f, NEW S, IsFiniteSet(S), NEW C, NEW k \in Int,
         \A x \in S : f[x] = IF x \in C THEN k ELSE 0
  PROVE  SumFunctionOnSet(f, S) = k * Cardinality(S \intersect C)
<1> DEFINE B == {u \in SUBSET S : SumFunctionOnSet(f, u) # k * Cardinality(u \intersect C)}
<1>1. ASSUME B # {} PROVE FALSE
  <2>1. PICK m \in B : \A t \in B : t \subseteq m => t = m
    <3>1. B \subseteq SUBSET S
      OBVIOUS
    <3> HIDE DEF B
    <3> QED BY <1>1, <3>1, Minimal
  <2> DEFINE c == First(m)
             t == m \ {c}
  <2>2. IsFiniteSet(m)
    BY <2>1, FS_Subset
  <2>3. SumFunctionOnSet(f, {}) = 0 /\ {} \intersect C = {} /\ Cardinality({}) = 0
        /\ k * 0 = 0
    <3>1. SumFunctionOnSet(f, {}) = 0
      BY SumStep
    <3> QED BY <3>1, FS_EmptySet
  <2>4. m # {} /\ c \in m
    BY <2>1, <2>3, FirstIn
  <2>5. SumFunctionOnSet(f, m) = f[c] + SumFunctionOnSet(f, t)
    BY <2>2, <2>4, SumStep
  <2>6. SumFunctionOnSet(f, t) = k * Cardinality(t \intersect C)
    BY <2>1, <2>4
  <2>7. IsFiniteSet(t \intersect C) /\ Cardinality(t \intersect C) \in Nat
    BY <2>2, FS_RemoveElement, FS_Intersection, FS_CardinalityType
  <2>8. CASE c \in C
    <3>1. m \intersect C = (t \intersect C) \union {c} /\ c \notin t \intersect C
      BY <2>4, <2>8
    <3>2. Cardinality(m \intersect C) = Cardinality(t \intersect C) + 1
      BY <2>7, <3>1, FS_AddElement
    <3>3. f[c] = k
      BY <2>1, <2>4, <2>8
    <3>4. \A n \in Nat : k * (n + 1) = k + k * n
      OBVIOUS
    <3>5. SumFunctionOnSet(f, m) = k * Cardinality(m \intersect C)
      <4> HIDE DEF c, t
      <4> QED BY <2>5, <2>6, <2>7, <3>2, <3>3, <3>4
    <3>6. SumFunctionOnSet(f, m) # k * Cardinality(m \intersect C)
      BY <2>1
    <3> QED BY <3>5, <3>6
  <2>9. CASE c \notin C
    <3>1. m \intersect C = t \intersect C
      BY <2>4, <2>9
    <3>2. f[c] = 0
      BY <2>1, <2>4, <2>9
    <3>3. k * Cardinality(t \intersect C) \in Int
      BY <2>7
    <3>4. SumFunctionOnSet(f, m) = k * Cardinality(m \intersect C)
      <4> HIDE DEF c, t
      <4>1. Cardinality(m \intersect C) = Cardinality(t \intersect C)
        BY <3>1, Zenon
      <4> QED BY <2>5, <2>6, <4>1, <3>2, <3>3
    <3>5. SumFunctionOnSet(f, m) # k * Cardinality(m \intersect C)
      BY <2>1
    <3> QED BY <3>4, <3>5
  <2> QED BY <2>8, <2>9
<1> QED BY <1>1

-----------------------------------------------------------------------------

\* The contract starts with no deposits and every customer's initial balance.
LEMMA EscrowInitSolvent == EscrowInit => EscrowSolvent
<1> SUFFICES ASSUME EscrowInit PROVE EscrowSolvent
  OBVIOUS
<1>1. SumFunctionOnSet(depositedAmount, Reservations) = 0
  <2>1. \A r \in Reservations :
          depositedAmount[r] = IF r \in Customers THEN 0 ELSE 0
    BY DEF EscrowInit
  <2>2. SumFunctionOnSet(depositedAmount, Reservations)
          = 0 * Cardinality(Reservations \intersect Customers)
    BY <2>1, SumConstant, EscrowFinite
  <2>3. Cardinality(Reservations \intersect Customers) \in Nat
    BY EscrowFinite, FS_Intersection, FS_CardinalityType
  <2> QED BY <2>2, <2>3
<1>2. SumFunctionOnSet(token, Accounts) = InitialBalance * Cardinality(Customers)
  <2>1. \A a \in Accounts :
          token[a] = IF a \in Customers THEN InitialBalance ELSE 0
    BY DEF EscrowInit
  <2>2. SumFunctionOnSet(token, Accounts)
          = InitialBalance * Cardinality(Accounts \intersect Customers)
    <3>1. InitialBalance \in Int /\ IsFiniteSet(Accounts)
      BY EscrowFinite, EscrowAssumption
    <3> QED BY <2>1, <3>1, SumConstant
  <2>3. Accounts \intersect Customers = Customers
    BY DEF Accounts
  <2> QED BY <2>2, <2>3, Zenon
<1>3. InitialBalance * Cardinality(Customers) \in Int
  <2>1. IsFiniteSet(Customers)
    BY EscrowFinite, FS_Subset DEF Accounts
  <2> QED BY <2>1, FS_CardinalityType, EscrowAssumption
<1>4. held = 0
  BY DEF EscrowInit
<1> QED BY <1>1, <1>2, <1>3, <1>4 DEF EscrowSolvent

\* Moving x units between the deposit of one reservation, the balance of one
\* account and the contract's own balance keeps the contract solvent.
LEMMA MoveSolvent ==
  ASSUME EscrowTypeOK, EscrowTypeOK', EscrowSolvent,
         NEW r \in Reservations, NEW a \in Accounts, NEW x \in Int,
         depositedAmount'[r] = depositedAmount[r] + x,
         token'[a] = token[a] - x,
         held' = held + x,
         \A q \in Reservations \ {r} : depositedAmount'[q] = depositedAmount[q],
         \A b \in Accounts \ {a} : token'[b] = token[b]
  PROVE  EscrowSolvent'
<1>1. \A q \in Reservations :
        depositedAmount[q] \in Int /\ depositedAmount'[q] \in Int
  BY DEF EscrowTypeOK
<1>2. \A b \in Accounts : token[b] \in Int /\ token'[b] \in Int
  BY DEF EscrowTypeOK
<1>3. SumFunctionOnSet(depositedAmount', Reservations)
        = SumFunctionOnSet(depositedAmount, Reservations)
          + (depositedAmount'[r] - depositedAmount[r])
  BY <1>1, SumChange, EscrowFinite
<1>4. SumFunctionOnSet(token', Accounts)
        = SumFunctionOnSet(token, Accounts) + (token'[a] - token[a])
  BY <1>2, SumChange, EscrowFinite
<1>5. /\ SumFunctionOnSet(depositedAmount, Reservations) \in Int
      /\ SumFunctionOnSet(token, Accounts) \in Int
  BY <1>1, <1>2, SumType, EscrowFinite
<1>6. /\ held' = SumFunctionOnSet(depositedAmount', Reservations)
      /\ held' + SumFunctionOnSet(token', Accounts)
           = held + SumFunctionOnSet(token, Accounts)
  BY <1>1, <1>2, <1>3, <1>4, <1>5 DEF EscrowSolvent
<1> QED BY <1>6 DEF EscrowSolvent

\* Every step keeps the contract solvent.
LEMMA EscrowStepSolvent ==
  EscrowIInv /\ EscrowIInv' /\ EscrowSolvent /\ [EscrowNext]_escrowVars
    => EscrowSolvent'
<1> SUFFICES ASSUME EscrowIInv, EscrowIInv', EscrowSolvent,
                    [EscrowNext]_escrowVars
             PROVE  EscrowSolvent'
  OBVIOUS
<1>1. EscrowTypeOK /\ EscrowTypeOK'
  BY DEF EscrowIInv
<1>2. ASSUME NEW r \in Reservations, NEW a \in Accounts,
             \E s : Close(r, s, a)
      PROVE  EscrowSolvent'
  <2> DEFINE x == 0 - depositedAmount[r]
  <2>1. /\ depositedAmount' = [depositedAmount EXCEPT ![r] = 0]
        /\ token' = [token EXCEPT ![a] = @ + depositedAmount[r]]
        /\ held' = held - depositedAmount[r]
    BY <1>2 DEF Close
  <2>2. x \in Int /\ depositedAmount[r] \in Nat /\ token[a] \in Nat /\ held \in Int
    BY <1>1 DEF EscrowTypeOK
  <2>3. /\ depositedAmount'[r] = depositedAmount[r] + x
        /\ token'[a] = token[a] - x
        /\ held' = held + x
    BY <1>1, <2>1, <2>2 DEF EscrowTypeOK
  <2>4. /\ \A q \in Reservations \ {r} : depositedAmount'[q] = depositedAmount[q]
        /\ \A b \in Accounts \ {a} : token'[b] = token[b]
    BY <1>1, <2>1 DEF EscrowTypeOK
  <2> HIDE DEF x
  <2> QED BY <1>1, <2>2, <2>3, <2>4, MoveSolvent
<1>3. ASSUME NEW p \in Permits, NEW sender \in Accounts, SignedCall(p, sender)
      PROVE  EscrowSolvent'
  <2> DEFINE r == p.rid
             d == p.terms
  <2>1. /\ r \in Reservations /\ d \in Terms
        /\ d.customer \in Accounts /\ d.agency \in Accounts /\ d.amount \in Nat
    BY TermsType DEF Permits
  <2>2. CASE deposit(p, sender)
    <3>1. /\ depositedAmount[r] = 0
          /\ depositedAmount' = [depositedAmount EXCEPT ![r] = d.amount]
          /\ token' = [token EXCEPT ![d.customer] = @ - d.amount]
          /\ held' = held + d.amount
      BY <2>2 DEF deposit
    <3>2. d.amount \in Int /\ token[d.customer] \in Nat
      BY <1>1, <2>1 DEF EscrowTypeOK
    <3>3. /\ depositedAmount'[r] = depositedAmount[r] + d.amount
          /\ token'[d.customer] = token[d.customer] - d.amount
          /\ \A q \in Reservations \ {r} : depositedAmount'[q] = depositedAmount[q]
          /\ \A b \in Accounts \ {d.customer} : token'[b] = token[b]
      BY <1>1, <2>1, <3>1, <3>2 DEF EscrowTypeOK
    <3> HIDE DEF r, d
    <3> QED BY <1>1, <2>1, <3>1, <3>2, <3>3, MoveSolvent
  <2>3. CASE accept(p, sender) \/ reject(p, sender) \/ cancel(p, sender)
    <3>1. \/ Close(r, "Accepted", d.agency)
          \/ Close(r, "Rejected", d.customer)
          \/ Close(r, "Cancelled", d.customer)
      BY <2>3 DEF accept, reject, cancel
    <3> QED BY <1>2, <2>1, <3>1
  <2> QED BY <1>3, <2>2, <2>3 DEF SignedCall
<1>4. ASSUME NEW r \in Reservations, NEW sender \in Accounts, expire(r, sender)
      PROVE  EscrowSolvent'
  <2>1. escrowStatus[r] = "Pending" /\ Close(r, "Expired", terms[r].customer)
    BY <1>4 DEF expire, Expirable
  <2>2. terms[r] \in Terms
    BY <2>1 DEF EscrowIInv, PendingMeansFunded, EscrowTypeOK
  <2>3. terms[r].customer \in Accounts
    BY <2>2, TermsType
  <2> QED BY <1>2, <2>1, <2>3
<1>5. CASE MineLater \/ UNCHANGED escrowVars
  <2>1. held' = held /\ depositedAmount' = depositedAmount /\ token' = token
    BY <1>5 DEF MineLater, escrowVars
  <2> QED BY <2>1, Zenon DEF EscrowSolvent
<1> QED BY <1>3, <1>4, <1>5 DEF EscrowNext

\* The contract always holds exactly the deposits it records, and no token is
\* created or lost, however many reservations and wallets there are.
THEOREM EscrowStaysSolvent == EscrowSpec => []EscrowSolvent
BY EscrowInitSolvent, EscrowStepSolvent, EscrowInvariant, PTL DEF EscrowSpec
=============================================================================
