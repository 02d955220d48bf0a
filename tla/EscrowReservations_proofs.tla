---------------------- MODULE EscrowReservations_proofs ----------------------
(***************************************************************************)
(* Proofs about wallet reservations, for any number of reservations and    *)
(* customers and any clocks: the contract keeps its invariant although     *)
(* only the backend signs, the row follows the proofs, the life cycle is   *)
(* implemented, and no listing is paid twice.  What the abstract life      *)
(* cycle promises by itself is proved at the end.                          *)
(***************************************************************************)
EXTENDS EscrowReservations, ReservationEscrow_proofs

Decisions == {"accept", "reject"}

\* A request that passed the eligibility check had a row, and if it was for a
\* decision on a deposit, a confirmed one.  Both facts are permanent.
EligibleStands ==
  \A e \in eligible :
    /\ status[e[1]] # "none"
    /\ e[2][1] \in Decisions /\ DepositOf[e[1]] # 0 => confirmed[e[1]]

\* The same for signed permits, which carry the row's own terms.
PermitsStand ==
  /\ permits \subseteq Permits
  /\ \A p \in permits :
       /\ p.terms = Snapshot(p.rid)
       /\ status[p.rid] # "none"
       /\ p.action \in Decisions /\ DepositOf[p.rid] # 0 => confirmed[p.rid]

\* A decision was mined, if a deposit is configured, only once it was confirmed.
DecidedStands ==
  \A t \in receipts :
    t.action \in Decisions /\ DepositOf[t.rid] # 0 => confirmed[t.rid]

\* A cancellation was accepted as proof only over a confirmed deposit, or if it
\* moved nothing.
CancellationsStand ==
  \A t \in receipts :
    t.action = "cancel" /\ (t \in audits \/ \E role \in Roles : <<t, role>> \in verified)
      => confirmed[t.rid] \/ t.amount = 0

\* The contract knows only reservations the database has, with the row's terms.
TermsMatchRows ==
  \A r \in Reservations :
    terms[r] # NoTerms => status[r] # "none" /\ terms[r] = Snapshot(r)

IInv ==
  /\ EscrowIInv
  /\ RequestsTypeOK
  /\ EligibleStands
  /\ PermitsStand
  /\ DecidedStands
  /\ TermsMatchRows
  /\ StatusIsProved
  /\ CancellationsStand
  /\ OneActive
  /\ AgencyPaidOnlyIfBooked

-----------------------------------------------------------------------------

\* The persisted snapshot of a row is a legal set of terms.
LEMMA SnapshotTerms ==
  ASSUME RequestsTypeOK, NEW r \in Reservations
  PROVE  Snapshot(r) \in Terms
BY ReservationsAssumption DEF RequestsTypeOK, B!BookTypeOK, Snapshot, Terms

\* Rows are the only thing the snapshot of a reservation depends on.
LEMMA SnapshotStable ==
  ASSUME NEW r \in Reservations, deadline'[r] = deadline[r]
  PROVE  Snapshot(r)' = Snapshot(r)
BY DEF Snapshot

\* A row whose deposit is confirmed is still pending as long as the contract
\* holds the deposit: whatever closed it would have left a closing receipt.
LEMMA ConfirmedWhileHeld ==
  ASSUME IInv, NEW r \in Reservations, confirmed[r], escrowStatus[r] = "Pending"
  PROVE  status[r] = "pending"
<1>1. \A t \in audits : t.rid = r => t.action = "deposit"
  BY DEF IInv, EscrowIInv, StatusMatchesReceipts, RequestsTypeOK, Settled
<1>2. status[r] # "none"
  BY DEF IInv, EscrowIInv, TermsMatchRows, PendingMeansFunded
<1>3. status[r] \notin {"accepted", "rejected", "cancelled", "expired"}
  BY <1>1 DEF IInv, StatusIsProved
<1>4. status[r] \in {"none", "pending", "accepted", "rejected", "cancelled", "expired"}
  BY DEF IInv, RequestsTypeOK, B!BookTypeOK, B!L!Statuses, B!L!Active, B!L!Closed
<1> QED BY <1>2, <1>3, <1>4

LEMMA InitIInv == Init => IInv
<1> SUFFICES ASSUME Init PROVE IInv
  OBVIOUS
<1>1. EscrowIInv
  BY EscrowInitIInv DEF Init
<1>2. RequestsTypeOK
  BY ReservationsAssumption
  DEF Init, RequestsTypeOK, B!BookInit, B!BookTypeOK, B!L!Statuses, B!L!Active, B!L!Closed
<1>3. EligibleStands /\ PermitsStand /\ TermsMatchRows
  BY DEF Init, EscrowInit, EligibleStands, PermitsStand, TermsMatchRows
<1>7. DecidedStands /\ CancellationsStand
  BY DEF Init, EscrowInit, DecidedStands, CancellationsStand
<1>4. StatusIsProved
  BY DEF Init, B!BookInit, StatusIsProved
<1>5. OneActive
  BY DEF Init, B!BookInit, OneActive, L!OneActivePerListing, L!Active
<1>6. AgencyPaidOnlyIfBooked
  BY DEF Init, EscrowInit, AgencyPaidOnlyIfBooked
<1> QED BY <1>1, <1>2, <1>3, <1>4, <1>5, <1>6, <1>7 DEF IInv

-----------------------------------------------------------------------------

\* The status of a row: what the four closed ones are, and what is left.
LEMMA StatusCases ==
  ASSUME RequestsTypeOK, NEW r \in Reservations
  PROVE  status[r] \in {"none", "pending", "accepted", "rejected", "cancelled", "expired"}
BY DEF RequestsTypeOK, B!BookTypeOK, B!L!Statuses, B!L!Active, B!L!Closed

\* Steps that touch no table and no chain, only the requests in progress.
LEMMA QuietStep ==
  ASSUME IInv, UNCHANGED <<escrowVars, bookVars, now>>,
         RequestsTypeOK', EligibleStands', PermitsStand', CancellationsStand'
  PROVE  IInv'
<1>1. EscrowIInv'
  BY EscrowStepIInv DEF IInv
<1>2. TermsMatchRows'
  BY DEF IInv, TermsMatchRows, Snapshot, escrowVars, bookVars
<1>3. StatusIsProved'
  BY DEF IInv, StatusIsProved, bookVars
<1>4. OneActive'
  BY DEF IInv, OneActive, L!OneActivePerListing, bookVars
<1>5. AgencyPaidOnlyIfBooked' /\ DecidedStands'
  BY DEF IInv, AgencyPaidOnlyIfBooked, DecidedStands, escrowVars, bookVars
<1> QED BY <1>1, <1>2, <1>3, <1>4, <1>5 DEF IInv

LEMMA CheckPermitIInv ==
  ASSUME IInv, NEW r \in Reservations, NEW request \in Asked, CheckPermit(r, request)
  PROVE  IInv'
<1>1. eligible' = eligible \union {<<r, request>>} /\ UNCHANGED <<permits, verified>>
  BY DEF CheckPermit
<1>2. UNCHANGED <<escrowVars, bookVars, now>>
  BY DEF CheckPermit
<1>3. RequestsTypeOK'
  BY <1>1, <1>2, ReservationsAssumption
  DEF IInv, RequestsTypeOK, B!BookTypeOK, Snapshot, escrowVars, bookVars
<1>4. EligibleStands'
  <2>1. status[r] # "none" /\ (request[1] \in Decisions /\ DepositOf[r] # 0 => confirmed[r])
    BY DEF CheckPermit, DecisionReady, Decisions
  <2> QED BY <1>1, <1>2, <2>1 DEF IInv, EligibleStands, bookVars
<1>5. PermitsStand' /\ CancellationsStand'
  BY <1>1, <1>2 DEF IInv, PermitsStand, CancellationsStand, Snapshot, escrowVars, bookVars
<1> QED BY <1>2, <1>3, <1>4, <1>5, QuietStep

LEMMA SignPermitIInv ==
  ASSUME IInv, NEW r \in Reservations, NEW request \in Asked, SignPermit(r, request)
  PROVE  IInv'
<1> DEFINE p == [rid |-> r, terms |-> Snapshot(r), actor |-> Wallet(r, request[2]),
                 action |-> request[1], nonce |-> nonces[r]]
<1>1. /\ <<r, request>> \in eligible
      /\ nonces[r] <= MaxNonce
      /\ permits' \subseteq permits \union {p}
      /\ UNCHANGED <<eligible, verified>>
  BY DEF SignPermit
<1>2. UNCHANGED <<escrowVars, bookVars, now>>
  BY DEF SignPermit
<1>3. p \in Permits
  <2>1. Snapshot(r) \in Terms
    BY SnapshotTerms DEF IInv
  <2>2. Wallet(r, request[2]) \in Accounts
    BY ReservationsAssumption DEF Wallet, Accounts
  <2>3. request[1] \in Actions
    BY ReservationsAssumption DEF PermitRequests, Actions
  <2>4. nonces[r] \in 0..MaxNonce
    BY <1>1, EscrowAssumption DEF IInv, EscrowIInv, EscrowTypeOK
  <2> QED BY <2>1, <2>2, <2>3, <2>4 DEF Permits
<1>4. /\ status[r] # "none"
      /\ request[1] \in Decisions /\ DepositOf[r] # 0 => confirmed[r]
  BY <1>1 DEF IInv, EligibleStands
<1>5. PermitsStand'
  BY <1>1, <1>2, <1>3, <1>4 DEF IInv, PermitsStand, Snapshot, bookVars
<1>6. EligibleStands' /\ CancellationsStand'
  BY <1>1, <1>2 DEF IInv, EligibleStands, CancellationsStand, escrowVars, bookVars
<1>7. RequestsTypeOK'
  BY <1>1, <1>2, <1>5 DEF IInv, RequestsTypeOK, B!BookTypeOK, PermitsStand, Permits,
       escrowVars, bookVars
<1> QED BY <1>2, <1>5, <1>6, <1>7, QuietStep

LEMMA VerifyReceiptIInv ==
  ASSUME IInv, NEW t \in receipts, NEW role \in Roles, VerifyReceipt(t, role)
  PROVE  IInv'
<1>1. verified' = verified \union {<<t, role>>} /\ UNCHANGED <<eligible, permits>>
  BY DEF VerifyReceipt
<1>2. UNCHANGED <<escrowVars, bookVars, now>>
  BY DEF VerifyReceipt
<1>3. RequestsTypeOK'
  BY <1>1, <1>2 DEF IInv, RequestsTypeOK, B!BookTypeOK, Snapshot, escrowVars, bookVars
<1>4. EligibleStands' /\ PermitsStand'
  BY <1>1, <1>2 DEF IInv, EligibleStands, PermitsStand, Snapshot, bookVars
<1>5. CancellationsStand'
  <2>1. t.action = "cancel" => confirmed[t.rid] \/ t.amount = 0
    BY DEF VerifyReceipt, ReceiptProves, ExpectedAmount
  <2> QED BY <1>1, <1>2, <2>1 DEF IInv, CancellationsStand, escrowVars, bookVars
<1> QED BY <1>2, <1>3, <1>4, <1>5, QuietStep

\* Whatever the operation on the table: a new row appears pending, an overdue
\* unconfirmed one expires, and a row once created keeps its deadline.
LEMMA BookShape ==
  ASSUME RequestsTypeOK, BookStep
  PROVE  /\ UNCHANGED <<escrowVars, audits, requestVars, confirmed>>
         /\ B!BookTypeOK'
         /\ \A q \in Reservations :
              /\ status[q] # "none" => deadline'[q] = deadline[q]
              /\ \/ status'[q] = status[q]
                 \/ status[q] = "none" /\ status'[q] = "pending"
                 \/ status[q] = "pending" /\ ~confirmed[q] /\ status'[q] = "expired"
<1> USE DEF B!BookTypeOK, B!L!Statuses, B!L!Active, B!L!Closed
<1>1. B!BookTypeOK /\ MaxTime \in Nat /\ Window \in Nat
  BY ReservationsAssumption DEF RequestsTypeOK
<1>2. UNCHANGED <<escrowVars, audits, requestVars>>
  BY DEF BookStep
<1>3. CASE \E r \in Reservations : B!CreateReservation(r)
  BY <1>1, <1>2, <1>3 DEF B!CreateReservation, B!DueBeside, B!Due
<1>4. CASE \E c \in Customers : B!ReadOwn(c)
  BY <1>1, <1>2, <1>4 DEF B!ReadOwn, B!DueOf, B!Due
<1>5. CASE B!Tick
  BY <1>1, <1>2, <1>5 DEF B!Tick
<1> QED BY <1>3, <1>4, <1>5 DEF BookStep, B!BookNext

\* A reservation is created only once its listing has no other active one.
LEMMA BookOneActive ==
  ASSUME RequestsTypeOK, OneActive, BookStep
  PROVE  OneActive'
<1> SUFFICES ASSUME NEW a \in Reservations, NEW b \in Reservations,
                    ListingOf[a] = ListingOf[b],
                    status'[a] \in L!Active, status'[b] \in L!Active
             PROVE  a = b
  BY DEF OneActive, L!OneActivePerListing
<1> USE DEF L!Active, B!L!Active
<1>1. CASE status[a] \in L!Active /\ status[b] \in L!Active
  BY <1>1 DEF OneActive, L!OneActivePerListing
<1>2. ASSUME NEW c \in Reservations, NEW d \in Reservations, c # d,
             ListingOf[c] = ListingOf[d], status[c] \notin L!Active,
             status'[c] \in L!Active, status'[d] \in L!Active
      PROVE  FALSE
  <2>1. PICK r \in Reservations : B!CreateReservation(r)
    BY <1>2 DEF BookStep, B!BookNext, B!ReadOwn, B!Tick, RequestsTypeOK, B!BookTypeOK
  <2>2. r = c
    BY <1>2, <2>1 DEF B!CreateReservation
  <2>3. d \in Reservations \ B!DueBeside(r) /\ status[d] \in L!Active
    BY <1>2, <2>1, <2>2 DEF B!CreateReservation
  <2> QED BY <1>2, <2>1, <2>2, <2>3 DEF B!CreateReservation, B!ListingFree
<1> QED BY <1>1, <1>2

LEMMA BookStepIInv == ASSUME IInv, BookStep PROVE IInv'
<1>1. /\ UNCHANGED <<escrowVars, audits, requestVars, confirmed>>
      /\ B!BookTypeOK'
      /\ \A q \in Reservations :
           /\ status[q] # "none" => deadline'[q] = deadline[q]
           /\ \/ status'[q] = status[q]
              \/ status[q] = "none" /\ status'[q] = "pending"
              \/ status[q] = "pending" /\ ~confirmed[q] /\ status'[q] = "expired"
  BY BookShape DEF IInv
<1>2. EscrowIInv'
  BY <1>1, EscrowStepIInv DEF IInv
<1>3. \A p \in permits : Snapshot(p.rid)' = Snapshot(p.rid)
  BY <1>1 DEF IInv, PermitsStand, Permits, Snapshot
<1>4. RequestsTypeOK'
  BY <1>1, <1>3 DEF IInv, RequestsTypeOK, escrowVars, requestVars
<1>5. EligibleStands'
  BY <1>1 DEF IInv, EligibleStands, RequestsTypeOK, requestVars
<1>6. PermitsStand'
  BY <1>1, <1>3 DEF IInv, PermitsStand, Permits, requestVars
<1>7. TermsMatchRows'
  BY <1>1 DEF IInv, TermsMatchRows, Snapshot, escrowVars
<1>8. StatusIsProved'
  BY <1>1 DEF IInv, StatusIsProved
<1>9. OneActive'
  BY BookOneActive DEF IInv
<1>10. AgencyPaidOnlyIfBooked'
  <2>1. \A t \in receipts : t.rid \in Reservations
    BY DEF IInv, EscrowIInv, EscrowTypeOK, Receipts
  <2> QED BY <1>1, <2>1 DEF IInv, AgencyPaidOnlyIfBooked, L!Active, escrowVars
<1>11. DecidedStands' /\ CancellationsStand'
  BY <1>1 DEF IInv, DecidedStands, CancellationsStand, escrowVars, requestVars
<1> QED BY <1>2, <1>4, <1>5, <1>6, <1>7, <1>8, <1>9, <1>10, <1>11 DEF IInv

-----------------------------------------------------------------------------

\* A mined call adds one receipt and freezes the permit's terms; if it pays the
\* agency, the contract was holding the deposit the permit's row asks for.
LEMMA SignedCallEffect ==
  ASSUME EscrowIInv, NEW p \in Permits, NEW sender \in Accounts, SignedCall(p, sender)
  PROVE  /\ terms' = [terms EXCEPT ![p.rid] = p.terms]
         /\ \E t : /\ receipts' = receipts \union {t}
                   /\ t.rid = p.rid /\ t.action = p.action
                   /\ t.action = "accept" /\ t.amount # 0 =>
                        /\ p.action = "accept"
                        /\ p.terms.amount # 0
                        /\ escrowStatus[p.rid] = "Pending"
<1>1. p.rid \in Reservations
  BY DEF Permits
<1>2. CASE accept(p, sender)
  <2>1. /\ p.action = "accept"
        /\ escrowStatus[p.rid] # "None" => terms[p.rid] = p.terms
        /\ terms' = [terms EXCEPT ![p.rid] = p.terms]
    BY <1>2 DEF accept, Authorized, Prepare
  <2>2. depositedAmount[p.rid] # 0 =>
          escrowStatus[p.rid] = "Pending" /\ p.terms.amount # 0
    BY <1>1, <2>1 DEF EscrowIInv, PendingMeansFunded
  <2> DEFINE t == Receipt(p.rid, "accept", sender, p.terms.agency, depositedAmount[p.rid])
  <2>3. receipts' = receipts \union {t}
    BY <1>2 DEF accept
  <2>4. t.rid = p.rid /\ t.action = "accept" /\ t.amount = depositedAmount[p.rid]
    BY DEF Receipt
  <2> HIDE DEF t
  <2> QED BY <2>1, <2>2, <2>3, <2>4
<1>3. ASSUME NEW action \in {"deposit", "reject", "cancel"}, NEW party, NEW amount,
             receipts' = receipts \union {Receipt(p.rid, action, sender, party, amount)}
      PROVE  \E t : /\ receipts' = receipts \union {t}
                    /\ t.rid = p.rid
                    /\ t.action = action /\ t.action # "accept"
  <2> DEFINE t == Receipt(p.rid, action, sender, party, amount)
  <2>1. t.rid = p.rid /\ t.action = action
    BY DEF Receipt
  <2>2. receipts' = receipts \union {t}
    BY <1>3
  <2> HIDE DEF t
  <2> QED BY <2>1, <2>2
<1>4. CASE deposit(p, sender)
  BY <1>3, <1>4 DEF deposit, Authorized, Prepare
<1>5. CASE reject(p, sender)
  BY <1>3, <1>5 DEF reject, Authorized, Prepare
<1>6. CASE cancel(p, sender)
  BY <1>3, <1>6 DEF cancel, Authorized, Prepare
<1> QED BY <1>2, <1>4, <1>5, <1>6 DEF SignedCall

\* What any step of the chain does, given that only the backend signs.
LEMMA ChainShape ==
  ASSUME IInv, ChainStep
  PROVE  /\ UNCHANGED <<bookVars, now, requestVars>>
         /\ EscrowNext
         /\ receipts \subseteq receipts'
         /\ \A t \in receipts' \ receipts :
              /\ t.action = "accept" /\ t.amount # 0 =>
                   confirmed[t.rid] /\ status[t.rid] = "pending"
              /\ t.action \in Decisions /\ DepositOf[t.rid] # 0 => confirmed[t.rid]
         /\ \A r \in Reservations :
              \/ terms'[r] = terms[r]
              \/ status[r] # "none" /\ terms'[r] = Snapshot(r)
<1>1. UNCHANGED <<bookVars, now, requestVars>>
  BY DEF ChainStep
<1>2. CASE \E p \in permits, sender \in Accounts : SignedCall(p, sender)
  <2>1. PICK p \in permits, sender \in Accounts : SignedCall(p, sender)
    BY <1>2
  <2>2. /\ p \in Permits /\ p.rid \in Reservations
        /\ p.terms = Snapshot(p.rid) /\ status[p.rid] # "none"
        /\ p.action \in Decisions /\ DepositOf[p.rid] # 0 => confirmed[p.rid]
    BY DEF IInv, PermitsStand, Permits
  <2>3. PICK t : /\ receipts' = receipts \union {t}
                 /\ t.rid = p.rid /\ t.action = p.action
                 /\ t.action = "accept" /\ t.amount # 0 =>
                      /\ p.action = "accept"
                      /\ p.terms.amount # 0
                      /\ escrowStatus[p.rid] = "Pending"
    BY <2>1, <2>2, SignedCallEffect DEF IInv
  <2>4. p.terms.amount = DepositOf[p.rid]
    BY <2>2 DEF Snapshot
  <2>5. t.action = "accept" /\ t.amount # 0 =>
          confirmed[t.rid] /\ status[t.rid] = "pending"
    BY <2>2, <2>3, <2>4, ConfirmedWhileHeld DEF Decisions
  <2>6. terms' = [terms EXCEPT ![p.rid] = p.terms]
    BY <2>1, <2>2, SignedCallEffect DEF IInv
  <2>7. EscrowNext
    BY <2>1, <2>2 DEF EscrowNext
  <2> QED BY <1>1, <2>2, <2>3, <2>5, <2>6, <2>7 DEF IInv, EscrowIInv, EscrowTypeOK
<1>3. CASE \E r \in Reservations, sender \in Accounts : expire(r, sender)
  BY <1>1, <1>3 DEF EscrowNext, expire, Receipt, Decisions
<1>4. CASE MineLater
  BY <1>1, <1>4 DEF EscrowNext, MineLater
<1> QED BY <1>2, <1>3, <1>4 DEF ChainStep

LEMMA ChainStepIInv == ASSUME IInv, ChainStep PROVE IInv'
<1>1. /\ UNCHANGED <<bookVars, now, requestVars>>
      /\ EscrowNext
      /\ receipts \subseteq receipts'
      /\ \A t \in receipts' \ receipts :
           /\ t.action = "accept" /\ t.amount # 0 =>
                confirmed[t.rid] /\ status[t.rid] = "pending"
           /\ t.action \in Decisions /\ DepositOf[t.rid] # 0 => confirmed[t.rid]
      /\ \A r \in Reservations :
           \/ terms'[r] = terms[r]
           \/ status[r] # "none" /\ terms'[r] = Snapshot(r)
  BY ChainShape
<1>2. EscrowIInv'
  BY <1>1, EscrowStepIInv DEF IInv
<1>3. RequestsTypeOK'
  BY <1>1 DEF IInv, RequestsTypeOK, B!BookTypeOK, Snapshot, bookVars, requestVars
<1>4. EligibleStands' /\ PermitsStand'
  BY <1>1 DEF IInv, EligibleStands, PermitsStand, Snapshot, bookVars, requestVars
<1>5. TermsMatchRows'
  BY <1>1 DEF IInv, TermsMatchRows, Snapshot, bookVars
<1>6. StatusIsProved' /\ OneActive'
  BY <1>1 DEF IInv, StatusIsProved, OneActive, L!OneActivePerListing, bookVars
<1>7. AgencyPaidOnlyIfBooked'
  BY <1>1 DEF IInv, AgencyPaidOnlyIfBooked, L!Active, bookVars
<1>8. DecidedStands'
  BY <1>1 DEF IInv, DecidedStands, bookVars
<1>9. CancellationsStand'
  <2>1. audits \subseteq receipts /\ verified \subseteq receipts \X Roles
    BY DEF IInv, RequestsTypeOK
  <2> QED BY <1>1, <2>1 DEF IInv, CancellationsStand, bookVars, requestVars
<1> QED BY <1>2, <1>3, <1>4, <1>5, <1>6, <1>7, <1>8, <1>9 DEF IInv

-----------------------------------------------------------------------------

\* Recording a proof closes a pending row or confirms its deposit, and only the
\* row the proof is about.
LEMMA RecordShape ==
  ASSUME IInv, NEW t \in receipts, NEW role \in Roles, RecordProof(t, role)
  PROVE  /\ UNCHANGED <<escrowVars, deadline, now, requestVars>>
         /\ t.rid \in Reservations /\ status[t.rid] = "pending"
         /\ audits' = audits \union {t}
         /\ \/ /\ t.action = "deposit"
               /\ status' = status
               /\ confirmed' = [confirmed EXCEPT ![t.rid] = TRUE]
            \/ /\ \/ t.action = "accept" /\ StatusAfter(t.action) = "accepted"
                  \/ t.action = "reject" /\ StatusAfter(t.action) = "rejected"
                  \/ t.action = "cancel" /\ StatusAfter(t.action) = "cancelled"
                  \/ t.action = "expire" /\ StatusAfter(t.action) = "expired"
                       /\ confirmed[t.rid]
               /\ status' = [status EXCEPT ![t.rid] = StatusAfter(t.action)]
               /\ confirmed' = confirmed
<1>1. t.rid \in Reservations /\ t.action \in Actions \union {"expire"}
  BY DEF IInv, EscrowIInv, EscrowTypeOK, Receipts
<1>2. status[t.rid] = "pending" /\ (t.action = "expire" => confirmed[t.rid])
  BY DEF RecordProof, Reconcilable
<1>3. CASE t.action = "deposit"
  BY <1>1, <1>2, <1>3 DEF RecordProof
<1>4. CASE t.action # "deposit"
  <2>1. \/ t.action = "accept" /\ StatusAfter(t.action) = "accepted"
        \/ t.action = "reject" /\ StatusAfter(t.action) = "rejected"
        \/ t.action = "cancel" /\ StatusAfter(t.action) = "cancelled"
        \/ t.action = "expire" /\ StatusAfter(t.action) = "expired"
    BY <1>1, <1>4 DEF Actions, StatusAfter
  <2> QED BY <1>1, <1>2, <1>4, <2>1 DEF RecordProof
<1> QED BY <1>3, <1>4

LEMMA RecordProofIInv ==
  ASSUME IInv, NEW t \in receipts, NEW role \in Roles, RecordProof(t, role)
  PROVE  IInv'
<1> DEFINE r == t.rid
           s == StatusAfter(t.action)
<1>1. /\ UNCHANGED <<escrowVars, deadline, now, requestVars>>
      /\ r \in Reservations /\ status[r] = "pending"
      /\ audits' = audits \union {t}
      /\ \/ /\ t.action = "deposit"
            /\ status' = status
            /\ confirmed' = [confirmed EXCEPT ![r] = TRUE]
         \/ /\ \/ t.action = "accept" /\ s = "accepted"
               \/ t.action = "reject" /\ s = "rejected"
               \/ t.action = "cancel" /\ s = "cancelled"
               \/ t.action = "expire" /\ s = "expired" /\ confirmed[r]
            /\ status' = [status EXCEPT ![r] = s]
            /\ confirmed' = confirmed
  BY RecordShape
<1> HIDE DEF r, s
<1>2. EscrowIInv' /\ UNCHANGED <<terms, receipts>>
  BY <1>1, EscrowStepIInv DEF IInv, escrowVars
<1>3. /\ status \in [Reservations -> B!L!Statuses]
      /\ confirmed \in [Reservations -> BOOLEAN]
      /\ audits \subseteq receipts
      /\ \A u \in receipts : u.rid \in Reservations
  BY DEF IInv, RequestsTypeOK, B!BookTypeOK, EscrowIInv, EscrowTypeOK, Receipts
<1>4. B!BookTypeOK'
  BY <1>1, <1>3 DEF IInv, RequestsTypeOK, B!BookTypeOK, B!L!Statuses, B!L!Active, B!L!Closed
<1>5. RequestsTypeOK'
  BY <1>1, <1>2, <1>3, <1>4 DEF IInv, RequestsTypeOK, Snapshot, requestVars
<1>6. \A q \in Reservations :
        /\ status[q] # "none" => status'[q] # "none"
        /\ confirmed[q] => confirmed'[q]
  BY <1>1, <1>3
<1>7. EligibleStands'
  BY <1>1, <1>6 DEF IInv, EligibleStands, RequestsTypeOK, requestVars
<1>8. PermitsStand' /\ TermsMatchRows'
  BY <1>1, <1>2, <1>6 DEF IInv, PermitsStand, TermsMatchRows, Permits, Snapshot, requestVars
<1>9. StatusIsProved'
  <2>1. ASSUME NEW q \in Reservations, NEW a
        PROVE  (\E u \in audits' : u.rid = q /\ u.action = a) <=>
                 \/ \E u \in audits : u.rid = q /\ u.action = a
                 \/ q = r /\ a = t.action
    BY <1>1 DEF r
  <2>2. ASSUME NEW q \in Reservations, q # r
        PROVE  status'[q] = status[q] /\ confirmed'[q] = confirmed[q]
    BY <1>1, <1>3, <2>2
  <2>3. CASE t.action = "deposit"
    <3>1. status' = status /\ confirmed'[r] = TRUE
      BY <1>1, <1>3, <2>3
    <3> QED BY <1>1, <2>1, <2>2, <2>3, <3>1 DEF IInv, StatusIsProved
  <2>4. CASE t.action # "deposit"
    <3>1. /\ \/ t.action = "accept" /\ s = "accepted"
             \/ t.action = "reject" /\ s = "rejected"
             \/ t.action = "cancel" /\ s = "cancelled"
             \/ t.action = "expire" /\ s = "expired" /\ confirmed[r]
          /\ status'[r] = s
          /\ confirmed' = confirmed
      BY <1>1, <1>3, <2>4
    <3>2. status[r] = "pending" /\ StatusIsProved
      BY <1>1 DEF IInv
    <3>3. ASSUME NEW q \in Reservations
          PROVE  LET proved(action) == \E u \in audits' : u.rid = q /\ u.action = action IN
                 /\ status'[q] = "accepted" <=> proved("accept")
                 /\ status'[q] = "rejected" <=> proved("reject")
                 /\ status'[q] = "cancelled" <=> proved("cancel")
                 /\ confirmed'[q] <=> proved("deposit")
                 /\ status'[q] = "expired" /\ confirmed'[q] <=> proved("expire")
      <4>1. CASE q = r
        BY <1>1, <2>1, <3>1, <3>2, <4>1 DEF StatusIsProved
      <4>2. CASE q # r
        BY <2>1, <2>2, <3>2, <4>2 DEF StatusIsProved
      <4> QED BY <4>1, <4>2
    <3> QED BY <3>3 DEF StatusIsProved
  <2> QED BY <2>3, <2>4
<1>10. OneActive'
  BY <1>1, <1>3 DEF IInv, OneActive, L!OneActivePerListing, L!Active
<1>11. AgencyPaidOnlyIfBooked'
  <2> SUFFICES ASSUME NEW u \in receipts, u.action = "accept", u.amount # 0
               PROVE  confirmed'[u.rid] /\ status'[u.rid] \in L!Active
    BY <1>2 DEF AgencyPaidOnlyIfBooked
  <2>1. confirmed[u.rid] /\ status[u.rid] \in L!Active
    BY DEF IInv, AgencyPaidOnlyIfBooked
  <2>2. u.rid = r /\ t.action # "deposit" => t.action = "accept"
    BY DEF IInv, EscrowIInv, PayoutIsTheDeposit, r
  <2> QED BY <1>1, <1>3, <2>1, <2>2 DEF L!Active
<1>12. DecidedStands'
  BY <1>2, <1>3, <1>6 DEF IInv, DecidedStands
<1>13. CancellationsStand'
  <2>1. <<t, role>> \in verified /\ verified' = verified
    BY <1>1 DEF RecordProof, requestVars
  <2> QED BY <1>1, <1>2, <1>3, <1>6, <2>1 DEF IInv, CancellationsStand
<1> QED BY <1>2, <1>5, <1>7, <1>8, <1>9, <1>10, <1>11, <1>12, <1>13 DEF IInv

\* Every step of the system preserves the inductive invariant.
LEMMA StepIInv == IInv /\ [Next]_vars => IInv'
<1> SUFFICES ASSUME IInv, [Next]_vars PROVE IInv'
  OBVIOUS
<1>1. CASE BookStep
  BY <1>1, BookStepIInv
<1>2. CASE ChainStep
  BY <1>2, ChainStepIInv
<1>3. CASE \E r \in Reservations, request \in Asked : CheckPermit(r, request)
  BY <1>3, CheckPermitIInv
<1>4. CASE \E r \in Reservations, request \in Asked : SignPermit(r, request)
  BY <1>4, SignPermitIInv
<1>5. CASE \E t \in receipts, role \in Roles : VerifyReceipt(t, role)
  BY <1>5, VerifyReceiptIInv
<1>6. CASE \E t \in receipts, role \in Roles : RecordProof(t, role)
  BY <1>6, RecordProofIInv
<1>7. CASE UNCHANGED vars
  <2>1. UNCHANGED <<escrowVars, bookVars, now, requestVars>>
    BY <1>7 DEF vars
  <2>2. RequestsTypeOK' /\ EligibleStands' /\ PermitsStand' /\ CancellationsStand'
    BY <2>1 DEF IInv, RequestsTypeOK, B!BookTypeOK, EligibleStands, PermitsStand, Snapshot,
                CancellationsStand, escrowVars, bookVars, requestVars
  <2> QED BY <2>1, <2>2, QuietStep
<1> QED BY <1>1, <1>2, <1>3, <1>4, <1>5, <1>6, <1>7 DEF Next

\* The inductive invariant holds in every reachable state.
THEOREM ReservationsInvariant == Spec => []IInv
BY InitIInv, StepIInv, PTL DEF Spec

-----------------------------------------------------------------------------

\* The tables, the permits and the requests in progress keep their types; in
\* particular every signed permit carries its row's terms, unchanged since.
THEOREM ReservationsTypeCorrect == Spec => []RequestsTypeOK
BY ReservationsInvariant, PTL DEF IInv

\* The backend restricts what is signed and adds nothing: as a contract whose
\* permits come from this backend, the system is still the contract, and has
\* every property proved of it.
THEOREM ReservationsImplementEscrow == Spec => EscrowSpec /\ []EscrowIInv
<1>1. Init => EscrowInit
  BY DEF Init
<1>2. IInv /\ [Next]_vars => [EscrowNext]_escrowVars
  <2> SUFFICES ASSUME IInv, [Next]_vars PROVE [EscrowNext]_escrowVars
    OBVIOUS
  <2>1. CASE ChainStep
    BY <2>1, ChainShape
  <2>2. CASE ~ChainStep
    BY <2>2 DEF Next, vars, BookStep, CheckPermit, SignPermit, VerifyReceipt, RecordProof
  <2> QED BY <2>1, <2>2
<1>3. IInv => EscrowIInv
  BY DEF IInv
<1> QED BY <1>1, <1>2, <1>3, ReservationsInvariant, PTL DEF Spec, EscrowSpec

\* The row says nothing the chain has not proved, and the lazy expiry never
\* drops a deposit the backend knows of.
THEOREM ReservationsStatusProved == Spec => []StatusIsProved
BY ReservationsInvariant, PTL DEF IInv

\* A listing never has two pending or accepted reservations.
THEOREM ReservationsOneActive == Spec => []OneActive
BY ReservationsInvariant, PTL DEF IInv

\* The agency is paid only for a reservation that holds its listing.
THEOREM ReservationsAgencyPaid == Spec => []AgencyPaidOnlyIfBooked
BY ReservationsInvariant, PTL DEF IInv

\* Two customers never both pay for one listing: both reservations would hold it.
THEOREM ReservationsListingPaidOnce == Spec => []NoListingPaidTwice
<1>1. IInv => NoListingPaidTwice
  <2> SUFFICES ASSUME IInv, NEW t \in receipts, NEW u \in receipts,
                      t.action = "accept", t.amount # 0,
                      u.action = "accept", u.amount # 0,
                      ListingOf[t.rid] = ListingOf[u.rid]
               PROVE  t.rid = u.rid
    BY DEF NoListingPaidTwice
  <2>1. t.rid \in Reservations /\ u.rid \in Reservations
    BY DEF IInv, EscrowIInv, EscrowTypeOK, Receipts
  <2>2. status[t.rid] \in L!Active /\ status[u.rid] \in L!Active
    BY DEF IInv, AgencyPaidOnlyIfBooked
  <2> QED BY <2>1, <2>2 DEF IInv, OneActive, L!OneActivePerListing
<1> QED BY <1>1, ReservationsInvariant, PTL

\* What a mined deposit and a closing call after it are worth, in terms of the row:
\* a deposit is the configured amount, a closing call moves it if there is one.
LEMMA AmountsOfReceipts ==
  ASSUME IInv
  PROVE  \A t \in receipts :
           /\ t.rid \in Reservations
           /\ t.action \in Actions \union {"expire"}
           /\ t.amount \in Nat
           /\ terms[t.rid] = Snapshot(t.rid)
           /\ t.action = "deposit" => t.amount = DepositOf[t.rid] /\ DepositOf[t.rid] # 0
           /\ t.action # "deposit" /\ t.amount # 0 => t.amount = DepositOf[t.rid]
           /\ \A u \in receipts :
                u.rid = t.rid /\ u.action = "deposit" /\ t.action # "deposit" =>
                  t.amount = DepositOf[t.rid] /\ u.nonce < t.nonce
<1> SUFFICES ASSUME NEW t \in receipts
             PROVE  /\ t.rid \in Reservations
                    /\ t.action \in Actions \union {"expire"}
                    /\ t.amount \in Nat
                    /\ terms[t.rid] = Snapshot(t.rid)
                    /\ t.action = "deposit" =>
                         t.amount = DepositOf[t.rid] /\ DepositOf[t.rid] # 0
                    /\ t.action # "deposit" /\ t.amount # 0 => t.amount = DepositOf[t.rid]
                    /\ \A u \in receipts :
                         u.rid = t.rid /\ u.action = "deposit" /\ t.action # "deposit" =>
                           t.amount = DepositOf[t.rid] /\ u.nonce < t.nonce
  OBVIOUS
<1>1. t.rid \in Reservations /\ t.action \in Actions \union {"expire"} /\ t.amount \in Nat
  BY DEF IInv, EscrowIInv, EscrowTypeOK, Receipts
<1>2. \A u \in receipts : u.rid = t.rid =>
        /\ terms[u.rid] = Snapshot(t.rid)
        /\ u.action = "deposit" => u.amount = DepositOf[t.rid] /\ u.amount # 0
  <2>1. ASSUME NEW u \in receipts, u.rid = t.rid
        PROVE  terms[u.rid] \in Terms
    BY DEF IInv, EscrowIInv, ReceiptsMatchTerms
  <2>2. NoTerms \notin Terms
    BY EscrowAssumption
  <2> QED BY <1>1, <2>1, <2>2
          DEF IInv, EscrowIInv, ReceiptsMatchTerms, TermsMatchRows, Snapshot
<1>3. t.action # "deposit" =>
        /\ \A u \in receipts \ {t} : u.rid = t.rid =>
             u.action = "deposit" /\ u.nonce < t.nonce /\ u.amount = t.amount
        /\ t.amount # 0 => \E u \in receipts : u.rid = t.rid /\ u.action = "deposit"
  BY DEF IInv, EscrowIInv, PayoutIsTheDeposit
<1> QED BY <1>1, <1>2, <1>3

\* The row and the contract agree on where a deposit is.
THEOREM ReservationsMoneyFollowsRow == Spec => []MoneyFollowsRow
<1>1. ASSUME IInv PROVE MoneyFollowsRow
  <2> SUFFICES ASSUME NEW r \in Reservations
               PROVE  /\ status[r] = "accepted" => \E t \in receipts :
                           t.rid = r /\ t.action = "accept" /\ t.amount = DepositOf[r]
                      /\ status[r] = "rejected" => \E t \in receipts :
                           t.rid = r /\ t.action = "reject" /\ t.amount = DepositOf[r]
                      /\ \A d \in receipts : d.rid = r /\ d.action = "deposit" =>
                           /\ status[r] = "cancelled" => \E t \in receipts :
                                t.rid = r /\ t.action = "cancel" /\ t.amount = DepositOf[r]
                           /\ status[r] = "expired" =>
                                \/ depositedAmount[r] = DepositOf[r]
                                \/ \E t \in receipts :
                                     /\ t.rid = r
                                     /\ t.action \in {"reject", "cancel", "expire"}
                                     /\ t.amount = DepositOf[r]
                           /\ status[r] \in {"accepted", "rejected", "cancelled"} =>
                                confirmed[r]
    BY DEF MoneyFollowsRow
  <2>0. IInv /\ audits \subseteq receipts
    BY <1>1 DEF IInv, RequestsTypeOK
  <2>1. ASSUME NEW t \in receipts, t.rid = r, t.action \in Decisions
        PROVE  t.amount = DepositOf[r] /\ (DepositOf[r] # 0 => confirmed[r])
    <3>1. DepositOf[r] # 0 => confirmed[r]
      BY <2>0, <2>1 DEF IInv, DecidedStands
    <3>2. confirmed[r] => \E u \in receipts : u.rid = r /\ u.action = "deposit"
      BY <2>0 DEF IInv, StatusIsProved
    <3> QED BY <2>0, <2>1, <3>1, <3>2, AmountsOfReceipts DEF Decisions
  <2>2. /\ status[r] = "accepted" => \E t \in receipts : t.rid = r /\ t.action = "accept"
        /\ status[r] = "rejected" => \E t \in receipts : t.rid = r /\ t.action = "reject"
    BY <2>0 DEF IInv, StatusIsProved
  <2>3. ASSUME NEW d \in receipts, d.rid = r, d.action = "deposit"
        PROVE  /\ status[r] = "cancelled" =>
                    /\ confirmed[r]
                    /\ \E t \in receipts :
                         t.rid = r /\ t.action = "cancel" /\ t.amount = DepositOf[r]
               /\ status[r] = "expired" =>
                    \/ depositedAmount[r] = DepositOf[r]
                    \/ \E t \in receipts :
                         /\ t.rid = r
                         /\ t.action \in {"reject", "cancel", "expire"}
                         /\ t.amount = DepositOf[r]
               /\ DepositOf[r] # 0
    <3>1. DepositOf[r] # 0 /\ terms[r] = Snapshot(r)
      BY <2>0, <2>3, AmountsOfReceipts
    <3>2. \A t \in receipts : t.rid = r /\ t.action # "deposit" => t.amount = DepositOf[r]
      BY <2>0, <2>3, AmountsOfReceipts
    <3>3. ASSUME status[r] = "cancelled"
          PROVE  /\ confirmed[r]
                 /\ \E t \in receipts :
                      t.rid = r /\ t.action = "cancel" /\ t.amount = DepositOf[r]
      <4>1. PICK t \in audits : t.rid = r /\ t.action = "cancel"
        BY <2>0, <3>3 DEF IInv, StatusIsProved
      <4>2. t \in receipts /\ t.amount = DepositOf[r]
        BY <2>0, <3>2, <4>1
      <4> QED BY <2>0, <3>1, <4>1, <4>2 DEF IInv, CancellationsStand
    <3>4. ASSUME status[r] = "expired"
          PROVE  \/ depositedAmount[r] = DepositOf[r]
                 \/ \E t \in receipts :
                      /\ t.rid = r
                      /\ t.action \in {"reject", "cancel", "expire"}
                      /\ t.amount = DepositOf[r]
      <4>1. escrowStatus[r] \in {"Pending"} \union Settled
        BY <2>0, <2>3 DEF IInv, EscrowIInv, EscrowTypeOK, EscrowStatuses, Settled,
                         StatusMatchesReceipts
      <4>2. CASE escrowStatus[r] = "Pending"
        BY <2>0, <3>1, <4>2 DEF IInv, EscrowIInv, PendingMeansFunded, Snapshot
      <4>3. CASE escrowStatus[r] \in Settled
        <5>1. PICK t \in receipts : t.rid = r /\ t.action # "deposit"
          BY <2>0, <4>3 DEF IInv, EscrowIInv, StatusMatchesReceipts
        <5>2. t.amount = DepositOf[r] /\ t.action \in Actions \union {"expire"}
          BY <2>0, <3>2, <5>1, AmountsOfReceipts
        <5>3. t.action # "accept"
          BY <2>0, <3>1, <3>4, <5>1, <5>2 DEF IInv, AgencyPaidOnlyIfBooked, L!Active
        <5> QED BY <5>1, <5>2, <5>3 DEF Actions
      <4> QED BY <4>1, <4>2, <4>3
    <3> QED BY <3>1, <3>3, <3>4
  <2> QED BY <2>1, <2>2, <2>3 DEF Decisions
<1> QED BY <1>1, ReservationsInvariant, PTL

\* While a row is pending, whatever was mined for it can still be recorded, in
\* the order it was mined; a confirmed one always has a way to be closed.
THEOREM ReservationsNothingLost == Spec => []NothingMinedIsLost
<1>1. ASSUME IInv PROVE NothingMinedIsLost
  <2>0. IInv /\ audits \subseteq receipts
    BY <1>1 DEF IInv, RequestsTypeOK
  <2>1. ASSUME NEW t \in receipts \ audits, status[t.rid] = "pending",
               \A u \in receipts \ audits : u.rid = t.rid => t.nonce <= u.nonce
        PROVE  \E role \in Roles :
                 Reconcilable(t.rid, t.action, role) /\ ReceiptProves(t, role)
    <3> DEFINE r == t.rid
    <3>1. /\ r \in Reservations
          /\ t.action \in Actions \union {"expire"}
          /\ terms[r] = Snapshot(r)
          /\ t.action = "deposit" => t.amount = DepositOf[r] /\ DepositOf[r] # 0
          /\ t.action # "deposit" /\ t.amount # 0 => t.amount = DepositOf[r]
          /\ \A u \in receipts :
               u.rid = r /\ u.action = "deposit" /\ t.action # "deposit" =>
                 t.amount = DepositOf[r] /\ u.nonce < t.nonce
      BY <2>0, AmountsOfReceipts
    <3>2. /\ t.action # "expire" => t.time < ContractDeadline(deadline[r])
          /\ t.action = "expire" => t.time >= ContractDeadline(deadline[r])
      BY <2>0, <3>1 DEF IInv, EscrowIInv, DeadlineSplitsOutcomes, Snapshot
    <3>3. /\ t.action = "deposit" => t.sender = CustomerOf[r]
          /\ t.action \in Decisions => t.sender = AgencyOf[ListingOf[r]]
          /\ t.action = "cancel" => t.sender \in {CustomerOf[r], AgencyOf[ListingOf[r]]}
      BY <2>0, <3>1 DEF IInv, EscrowIInv, OnlyPartiesDecide, Snapshot, Decisions
    <3>4. confirmed[r] <=> \E u \in audits : u.rid = r /\ u.action = "deposit"
      BY <2>0, <3>1 DEF IInv, StatusIsProved
    <3>5. CASE t.action = "deposit"
      <4>1. ~confirmed[r]
        BY <2>0, <3>4, <3>5 DEF IInv, EscrowIInv, OneDeposit
      <4>2. Reconcilable(r, t.action, "customer") /\ ReceiptProves(t, "customer")
        BY <2>1, <3>1, <3>2, <3>3, <3>5, <4>1
        DEF Reconcilable, ReceiptProves, DecisionReady, DepositWanted, ExpectedAmount, Wallet
      <4> QED BY <4>2 DEF Roles
    <3>6. CASE t.action # "deposit"
      <4>1. ASSUME NEW u \in receipts, u.rid = r, u.action = "deposit"
            PROVE  confirmed[r] /\ t.amount = DepositOf[r]
        <5>1. u.nonce < t.nonce /\ t.amount = DepositOf[r]
          BY <3>1, <3>6, <4>1
        <5>2. u.nonce \in Nat /\ t.nonce \in Nat
          BY <2>0 DEF IInv, EscrowIInv, EscrowTypeOK, Receipts
        <5>3. u \in audits
          BY <2>1, <4>1, <5>1, <5>2
        <5> QED BY <3>4, <4>1, <5>1, <5>3
      <4>2. confirmed[r] => t.amount = DepositOf[r]
        BY <2>0, <3>4, <4>1
      <4>3. t.amount # 0 => confirmed[r]
        BY <2>0, <3>6, <4>1 DEF IInv, EscrowIInv, PayoutIsTheDeposit
      <4>4. t.action \in Decisions /\ DepositOf[r] # 0 => confirmed[r]
        BY <2>0 DEF IInv, DecidedStands
      <4>5. t.action = "expire" => confirmed[r]
        BY <2>0, <4>3 DEF IInv, EscrowIInv, ReceiptsMatchTerms
      <4>6. t.amount = ExpectedAmount(r, t.action)
        BY <3>1, <3>6, <4>2, <4>3, <4>4, <4>5 DEF ExpectedAmount, Actions, Decisions
      <4>7. \A role \in Roles : role = "staff" \/ t.action = "cancel" =>
              Reconcilable(r, t.action, role)
        BY <2>1, <3>6, <4>4, <4>5 DEF Reconcilable, DecisionReady, DepositWanted, Decisions
      <4>8. CASE t.action = "cancel" /\ t.sender = CustomerOf[r]
        <5>1. ReceiptProves(t, "customer")
          BY <3>2, <4>6, <4>8 DEF ReceiptProves, Wallet
        <5> QED BY <4>7, <4>8, <5>1 DEF Roles
      <4>9. CASE ~(t.action = "cancel" /\ t.sender = CustomerOf[r])
        <5>1. ReceiptProves(t, "staff")
          BY <3>1, <3>2, <3>3, <3>6, <4>6, <4>9
          DEF ReceiptProves, Wallet, Actions, Decisions
        <5> QED BY <4>7, <5>1 DEF Roles
      <4> QED BY <4>8, <4>9
    <3> QED BY <3>5, <3>6
  <2>2. ASSUME NEW r \in Reservations, status[r] = "pending", confirmed[r]
        PROVE  depositedAmount[r] = DepositOf[r] \/ \E t \in receipts \ audits : t.rid = r
    <3>1. PICK d \in receipts : d.rid = r /\ d.action = "deposit"
      BY <2>0, <2>2 DEF IInv, StatusIsProved
    <3>2. terms[r] = Snapshot(r)
      BY <2>0, <3>1, AmountsOfReceipts
    <3>3. escrowStatus[r] \in {"Pending"} \union Settled
      BY <2>0, <3>1 DEF IInv, EscrowIInv, EscrowTypeOK, EscrowStatuses, Settled,
                       StatusMatchesReceipts
    <3>4. CASE escrowStatus[r] = "Pending"
      BY <2>0, <3>2, <3>4 DEF IInv, EscrowIInv, PendingMeansFunded, Snapshot
    <3>5. CASE escrowStatus[r] \in Settled
      <4>1. PICK t \in receipts : t.rid = r /\ t.action # "deposit"
        BY <2>0, <3>5 DEF IInv, EscrowIInv, StatusMatchesReceipts
      <4>2. t.action \in {"accept", "reject", "cancel", "expire"}
        BY <2>0, <4>1, AmountsOfReceipts DEF Actions
      <4>3. t \notin audits
        BY <2>0, <2>2, <4>1, <4>2 DEF IInv, StatusIsProved
      <4> QED BY <4>1, <4>3
    <3> QED BY <3>3, <3>4, <3>5
  <2> QED BY <2>1, <2>2 DEF NothingMinedIsLost
<1> QED BY <1>1, ReservationsInvariant, PTL
\* The column reservation.status follows the abstract life cycle.
THEOREM ReservationsImplementLifecycle == Spec => ImplementsLifecycle
<1>1. Init => L!LifecycleInit
  BY DEF Init, B!BookInit, L!LifecycleInit
<1>2. IInv /\ [Next]_vars => [L!LifecycleNext]_status
  <2> SUFFICES ASSUME IInv, Next PROVE L!LifecycleNext \/ UNCHANGED status
    BY DEF vars, bookVars
  <2>0. status \in [Reservations -> L!Statuses]
    BY DEF IInv, RequestsTypeOK, B!BookTypeOK, B!L!Statuses, B!L!Active, B!L!Closed,
           L!Statuses, L!Active, L!Closed
  <2>1. ASSUME NEW r \in Reservations, B!CreateReservation(r)
        PROVE  L!LifecycleNext
    <3> DEFINE lapsed == B!DueBeside(r)
    <3>1. /\ lapsed \in SUBSET Reservations
          /\ status[r] = "none"
          /\ L!PendingOnly(lapsed)
      BY <2>1 DEF B!CreateReservation, B!DueBeside, B!Due, L!PendingOnly
    <3>2. \A q \in Reservations :
            ListingOf[q] = ListingOf[r] => L!Lapsed(lapsed)[q] \notin L!Active
      BY <2>1 DEF B!CreateReservation, B!ListingFree, B!L!Active, L!Active, L!Lapsed
    <3>3. status' = [L!Lapsed(lapsed) EXCEPT ![r] = "pending"]
      BY <2>1 DEF B!CreateReservation, L!Lapsed
    <3> QED BY <3>1, <3>2, <3>3 DEF L!LifecycleNext, L!Reserve
  <2>2. ASSUME NEW c \in Customers, B!ReadOwn(c) PROVE L!LifecycleNext
    <3> DEFINE lapsed == B!DueOf(c)
    <3>1. lapsed \in SUBSET Reservations /\ L!PendingOnly(lapsed)
      BY DEF B!DueOf, B!Due, L!PendingOnly
    <3>2. status' = L!Lapsed(lapsed)
      BY <2>2 DEF B!ReadOwn, L!Lapsed
    <3> QED BY <3>1, <3>2 DEF L!LifecycleNext, L!Lapse
  <2>3. ASSUME NEW t \in receipts, NEW role \in Roles, RecordProof(t, role)
        PROVE  L!LifecycleNext \/ UNCHANGED status
    <3>1. CASE t.action = "deposit"
      BY <2>3, <3>1 DEF RecordProof
    <3>2. CASE t.action # "deposit"
      <4>1. /\ t.rid \in Reservations /\ status[t.rid] = "pending"
            /\ StatusAfter(t.action) \in {"accepted"} \union L!Closed
            /\ status' = [status EXCEPT ![t.rid] = StatusAfter(t.action)]
        BY <2>3, <3>2, RecordShape DEF L!Closed
      <4> QED BY <4>1 DEF L!LifecycleNext, L!Decide
    <3> QED BY <3>1, <3>2
  <2>4. CASE BookStep
    BY <2>1, <2>2, <2>4 DEF BookStep, B!BookNext, B!Tick
  <2> QED BY <2>3, <2>4 DEF Next, CheckPermit, SignPermit, ChainStep, VerifyReceipt, bookVars
<1> QED BY <1>1, <1>2, ReservationsInvariant, PTL
        DEF Spec, ImplementsLifecycle, L!LifecycleSpec

-----------------------------------------------------------------------------
(* The abstract life cycle, for any set of reservations: the specifications that
   implement it inherit both theorems. *)

LifecycleIInv == L!LifecycleTypeOK /\ L!OneActivePerListing

\* The three kinds of step, each with what it does to one reservation.
LEMMA LifecycleStep ==
  ASSUME L!LifecycleTypeOK, L!LifecycleNext
  PROVE  /\ L!LifecycleTypeOK'
         /\ \A q \in Reservations :
              \/ status'[q] = status[q]
              \/ status[q] \in {"none", "pending"}
<1> USE DEF L!LifecycleTypeOK, L!Lapsed, L!PendingOnly, L!Statuses, L!Active, L!Closed
<1>1. CASE \E r \in Reservations, lapsed \in SUBSET Reservations : L!Reserve(r, lapsed)
  BY <1>1 DEF L!Reserve
<1>2. CASE \E lapsed \in SUBSET Reservations : L!Lapse(lapsed)
  BY <1>2 DEF L!Lapse
<1>3. CASE \E r \in Reservations, outcome \in {"accepted"} \union L!Closed :
             L!Decide(r, outcome)
  BY <1>3 DEF L!Decide
<1> QED BY <1>1, <1>2, <1>3 DEF L!LifecycleNext

\* Only Reserve makes a reservation active, and it leaves no other one active.
LEMMA LifecycleOneActive ==
  ASSUME LifecycleIInv, L!LifecycleNext
  PROVE  L!OneActivePerListing'
<1> USE DEF LifecycleIInv, L!LifecycleTypeOK, L!OneActivePerListing, L!Lapsed, L!PendingOnly,
           L!Active
<1>1. ASSUME NEW r \in Reservations, NEW lapsed \in SUBSET Reservations,
             L!Reserve(r, lapsed)
      PROVE  L!OneActivePerListing'
  <2>1. /\ status' = [L!Lapsed(lapsed) EXCEPT ![r] = "pending"]
        /\ \A q \in Reservations :
             ListingOf[q] = ListingOf[r] => L!Lapsed(lapsed)[q] \notin L!Active
    BY <1>1 DEF L!Reserve
  <2>2. \A q \in Reservations \ {r} : status'[q] \in L!Active =>
          status[q] \in L!Active /\ ListingOf[q] # ListingOf[r]
    BY <2>1
  <2> QED BY <2>2
<1>2. ASSUME NEW lapsed \in SUBSET Reservations, L!Lapse(lapsed)
      PROVE  L!OneActivePerListing'
  BY <1>2 DEF L!Lapse
<1>3. ASSUME NEW r \in Reservations, NEW outcome, L!Decide(r, outcome)
      PROVE  L!OneActivePerListing'
  <2>1. \A q \in Reservations : status'[q] \in L!Active => status[q] \in L!Active
    BY <1>3 DEF L!Decide
  <2> QED BY <2>1
<1> QED BY <1>1, <1>2, <1>3 DEF L!LifecycleNext

LEMMA LifecycleInvariant == L!LifecycleSpec => []LifecycleIInv
<1>1. L!LifecycleInit => LifecycleIInv
  BY DEF L!LifecycleInit, LifecycleIInv, L!LifecycleTypeOK, L!OneActivePerListing,
         L!Statuses, L!Active
<1>2. LifecycleIInv /\ [L!LifecycleNext]_status => LifecycleIInv'
  <2> SUFFICES ASSUME LifecycleIInv, [L!LifecycleNext]_status PROVE LifecycleIInv'
    OBVIOUS
  <2>1. CASE L!LifecycleNext
    BY <2>1, LifecycleStep, LifecycleOneActive DEF LifecycleIInv
  <2>2. CASE UNCHANGED status
    BY <2>2 DEF LifecycleIInv, L!LifecycleTypeOK, L!OneActivePerListing
  <2> QED BY <2>1, <2>2
<1> QED BY <1>1, <1>2, PTL DEF L!LifecycleSpec

-----------------------------------------------------------------------------

\* A listing never has two active reservations.
THEOREM LifecycleListingTakenOnce == L!LifecycleSpec => []L!OneActivePerListing
BY LifecycleInvariant, PTL DEF LifecycleIInv

\* A reservation that has left "pending" never changes again.
THEOREM LifecycleClosedFinal == L!LifecycleSpec => L!ClosedIsFinal
<1> DEFINE Final ==
      \A r \in Reservations :
        status[r] \in L!Closed \union {"accepted"} => status'[r] = status[r]
<1>1. LifecycleIInv /\ [L!LifecycleNext]_status => [Final]_status
  BY LifecycleStep DEF LifecycleIInv, L!Closed
<1> QED BY <1>1, LifecycleInvariant, PTL DEF L!LifecycleSpec, L!ClosedIsFinal
=============================================================================
