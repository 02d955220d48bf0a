-------------------------- MODULE StaffInvitations --------------------------
(***************************************************************************)
(* How a member of the staff gets an account: identity/invitations.py,     *)
(* identity/bootstrap.py and the two enrolment routes of                   *)
(* identity/router.py.                                                     *)
(*                                                                         *)
(* An invitation is committed, mailed, and then marked as sent or revoked  *)
(* in a transaction that looks at nothing else; its link may arrive before *)
(* the sender knows and also when the sender saw a failure.  Whoever opens *)
(* the link accepts, gets a challenge, and proves a TOTP code to have the  *)
(* account made.  A transaction locks the e-mail address it is about and   *)
(* then works with a clock it read before it waited for the lock.  An      *)
(* address is a member of Emails after normalisation.                      *)
(***************************************************************************)
EXTENDS Integers, FiniteSets

CONSTANTS
  Emails,
  AgencyRoles,    \* agency_admin and agent, which nothing here tells apart
  Invitations,    \* rows of staff_invitation, each used at most once
  Operators,      \* runs of the bootstrap command
  InvitationTTL, EnrollmentTTL,
  MaxAttempts,    \* _MAX_ENROLLMENT_ATTEMPTS
  MaxLag,         \* how much older than the time a transaction's clock may be
  MaxTime,
  None

AllRoles == AgencyRoles \union {"platform_admin"}

\* Rows of staff_invitation, staff_enrollment_challenge and staff_account.
InvitationRows ==
  [email : Emails, role : AllRoles, status : {"pending", "accepted", "expired", "revoked"},
   expires : Nat, delivery : {"pending", "sent", "failed"}]
EnrollmentRows == [expires : Nat, attempts : Nat, open : BOOLEAN]
AccountRows == [role : AllRoles, by : Invitations]

\* Assumed of the constants by the theorems and by every instance.
InvitationsAssumption ==
  /\ {InvitationTTL, EnrollmentTTL, MaxAttempts} \subseteq Nat \ {0}
  /\ {MaxLag, MaxTime} \subseteq Nat
  /\ "platform_admin" \notin AgencyRoles
  /\ None \notin InvitationRows /\ None \notin EnrollmentRows /\ None \notin AccountRows

VARIABLES
  inv,      \* staff_invitation, None before the row exists
  chal,     \* staff_enrollment_challenge of each invitation
  account,  \* staff_account of each address
  boot,     \* the runs of the bootstrap command
  now

vars == <<inv, chal, account, boot, now>>

Clocks == {t \in (now - MaxLag) .. now : t >= 0}

-----------------------------------------------------------------------------
\* Who claims an address at time t.  _is_pending_email_unique_conflict and the
\* partial indices have nothing to add to transactions that lock the address.

HasAccount(email) == account[email] # None
PendingOf(email) == {i \in Invitations : inv[i] # None /\ inv[i].email = email /\ inv[i].status = "pending"}
LiveAt(is, t) == {i \in is : inv[i].expires > t}

\* has_active_enrollment_claim: also of a challenge that has been used up.
EnrollingAt(email, t) ==
  {i \in Invitations : /\ inv[i] # None /\ inv[i].email = email /\ inv[i].status = "accepted"
                       /\ chal[i] # None /\ chal[i].expires > t}

\* The invitations in is that are over at time t lose their status.
Lapsed(is, t) ==
  [i \in Invitations |-> IF i \in is /\ inv[i].expires <= t
                         THEN [inv[i] EXCEPT !.status = "expired"] ELSE inv[i]]

\* Faulty variant: an invitation that is being enrolled does not count.
ClaimedPendingOnly(email, t, own) == LiveAt(PendingOf(email), t) \ own # {}

\* has_email_claim_conflict, of an address without an account.
Claimed(email, t, own) ==
  (LiveAt(PendingOf(email), t) \union EnrollingAt(email, t)) \ own # {}

Invitation(email, role, t) ==
  [email |-> email, role |-> role, status |-> "pending",
   expires |-> t + InvitationTTL, delivery |-> "pending"]

\* A run of the bootstrap command is in a transaction that locked the address.
Held(email) == \E o \in Operators : boot[o] # None /\ boot[o].holds /\ boot[o].email = email

\* _issue_agency_invitation up to its first commit.
Issue(i, email, role, t) ==
  /\ inv[i] = None /\ ~Held(email)
  /\ ~HasAccount(email)
  /\ inv' = IF Claimed(email, t, {}) THEN Lapsed(PendingOf(email), t)
            ELSE [Lapsed(PendingOf(email), t) EXCEPT ![i] = Invitation(email, role, t)]
  /\ UNCHANGED <<chal, account, boot, now>>

\* Faulty variant: the row is written back as it was issued.
MarkDeliveredWhole(i) ==
  inv' = [inv EXCEPT ![i].delivery = "sent", ![i].status = "pending"]

MarkDelivered(i) == inv' = [inv EXCEPT ![i].delivery = "sent"]

\* The sender returned, or raised; the process may also have died before this.
Delivered(i) ==
  /\ inv[i] # None /\ inv[i].delivery = "pending"
  /\ \/ MarkDelivered(i)
     \/ inv' = [inv EXCEPT ![i].delivery = "failed", ![i].status = "revoked"]
  /\ UNCHANGED <<chal, account, boot, now>>

-----------------------------------------------------------------------------
\* The bootstrap command.  Its three transactions lock the address they are for and
\* make the same checks.  The role's pending invitation may be of any other address
\* and is read without a lock: it expires by its key, whatever became of it since.

PlatformPending == {i \in Invitations :
  inv[i] # None /\ inv[i].role = "platform_admin" /\ inv[i].status = "pending"}

\* Faulty variant: an enrolment of the address does not count.
BootRefusesPending(email, t) ==
  HasAccount(email) \/ LiveAt(PendingOf(email) \union PlatformPending, t) # {}

\* _lock_and_check_platform_invitation_email and the look at the role's own
\* pending invitation.
BootRefuses(email, t) ==
  \/ HasAccount(email) \/ EnrollingAt(email, t) # {}
  \/ LiveAt(PendingOf(email) \union PlatformPending, t) # {}

Start(o, email, t) ==
  /\ boot[o] = None
  /\ boot' = [boot EXCEPT ![o] =
       [email |-> email, clock |-> t, step |-> 1, holds |-> FALSE, seen |-> {}]]
  /\ UNCHANGED <<inv, chal, account, now>>

\* A transaction ends: the run goes on to the given step, or is over at 0.
Release(o, step) ==
  boot' = [boot EXCEPT ![o] = [@ EXCEPT !.step = step, !.holds = FALSE, !.seen = {}]]

\* One of the transactions of issue_platform_admin_invitation up to what it read.
BootRead(o) ==
  /\ boot[o] # None /\ boot[o].step \in 1 .. 3 /\ ~Held(boot[o].email)
  /\ IF BootRefuses(boot[o].email, boot[o].clock) THEN Release(o, 0)
     ELSE boot' = [boot EXCEPT ![o] =
            [@ EXCEPT !.holds = TRUE, !.seen = PlatformPending \ PendingOf(boot[o].email)]]
  /\ UNCHANGED <<inv, chal, account, now>>

\* The rows as the transaction leaves them.
BootWritten(o) ==
  [i \in Invitations |->
     IF i \in boot[o].seen THEN [inv[i] EXCEPT !.status = "expired"]
     ELSE Lapsed(PendingOf(boot[o].email), boot[o].clock)[i]]

\* The first two end with that.
BootLapse(o) ==
  /\ boot[o] # None /\ boot[o].holds /\ boot[o].step < 3
  /\ inv' = BootWritten(o) /\ Release(o, boot[o].step + 1)
  /\ UNCHANGED <<chal, account, now>>

\* Faulty variant: what was read is relied on.
SolePendingAsRead(o) == boot[o].holds

\* uq_staff_invitation_pending_platform_admin.
SolePending(o) == \A i \in Invitations : BootWritten(o)[i] # None =>
  ~(BootWritten(o)[i].role = "platform_admin" /\ BootWritten(o)[i].status = "pending")

\* The third adds the invitation, unless another run committed one meanwhile: then
\* the index has it rolled back.
BootIssue(o, i) ==
  /\ boot[o] # None /\ boot[o].holds /\ boot[o].step = 3 /\ inv[i] = None
  /\ IF SolePending(o)
       THEN /\ inv' = [BootWritten(o) EXCEPT
                          ![i] = Invitation(boot[o].email, "platform_admin", boot[o].clock)]
            /\ Release(o, 4)
       ELSE UNCHANGED inv /\ Release(o, 0)
  /\ UNCHANGED <<chal, account, now>>

-----------------------------------------------------------------------------
\* Enrolment.

\* accept_invitation.
Accept(i, t) ==
  /\ inv[i] # None /\ inv[i].status = "pending" /\ ~Held(inv[i].email)
  /\ IF inv[i].expires <= t
       THEN inv' = [inv EXCEPT ![i].status = "expired"] /\ UNCHANGED chal
       ELSE /\ ~HasAccount(inv[i].email)
            /\ ~Claimed(inv[i].email, t, {i})
            /\ inv' = [inv EXCEPT ![i].status = "accepted"]
            /\ chal' = [chal EXCEPT ![i] = [expires |-> t + EnrollmentTTL, attempts |-> 0, open |-> TRUE]]
  /\ UNCHANGED <<account, boot, now>>

Close(i) == chal' = [chal EXCEPT ![i].open = FALSE]

\* uq_staff_account_single_platform_admin.
RoleTaken(role) ==
  role = "platform_admin" /\ \E e \in Emails : account[e] # None /\ account[e].role = role

\* What is looked at again when the code is checked.
Enrollable(i, t) ==
  /\ inv[i].status = "accepted"
  /\ ~HasAccount(inv[i].email)
  /\ ~Claimed(inv[i].email, t, {i})

\* Faulty variant: the challenge is left as it is.
CreateAccountOnly(i) ==
  /\ ~RoleTaken(inv[i].role)
  /\ account' = [account EXCEPT ![inv[i].email] = [role |-> inv[i].role, by |-> i]]
  /\ UNCHANGED chal

\* A second account of the platform administrator violates the index: the
\* transaction is rolled back.
CreateAccount(i) ==
  /\ ~RoleTaken(inv[i].role)
  /\ account' = [account EXCEPT ![inv[i].email] = [role |-> inv[i].role, by |-> i]]
  /\ Close(i)

\* Faulty variant: one more.
SpentLate(attempts) == attempts > MaxAttempts

Spent(attempts) == attempts >= MaxAttempts

\* verify_totp_enrollment, with a code that is right or not.
Verify(i, t, right) ==
  /\ chal[i] # None /\ chal[i].open /\ ~Held(inv[i].email)
  /\ IF Spent(chal[i].attempts) \/ chal[i].expires <= t
       THEN Close(i) /\ UNCHANGED <<inv, account>>
     ELSE IF ~Enrollable(i, t)
       THEN /\ Close(i)
            /\ inv' = IF inv[i].status = "accepted" /\ ~HasAccount(inv[i].email)
                      THEN Lapsed(PendingOf(inv[i].email), t) ELSE inv
            /\ UNCHANGED account
     ELSE IF right
       THEN CreateAccount(i) /\ inv' = Lapsed(PendingOf(inv[i].email), t)
     ELSE /\ chal' = [chal EXCEPT ![i].attempts = @ + 1, ![i].open = ~Spent(chal[i].attempts + 1)]
          /\ inv' = Lapsed(PendingOf(inv[i].email), t)
          /\ UNCHANGED account
  /\ UNCHANGED <<boot, now>>

Tick ==
  /\ now < MaxTime
  /\ now' = now + 1
  /\ UNCHANGED <<inv, chal, account, boot>>

Init ==
  /\ inv = [i \in Invitations |-> None]
  /\ chal = [i \in Invitations |-> None]
  /\ account = [e \in Emails |-> None]
  /\ boot = [o \in Operators |-> None]
  /\ now = 0

Next ==
  \/ Tick
  \/ \E t \in Clocks :
       \/ \E o \in Operators, e \in Emails : Start(o, e, t)
       \/ \E i \in Invitations :
            \/ \E e \in Emails, role \in AgencyRoles : Issue(i, e, role, t)
            \/ Accept(i, t)
            \/ \E right \in BOOLEAN : Verify(i, t, right)
  \/ \E i \in Invitations : Delivered(i)
  \/ \E o \in Operators : BootRead(o) \/ BootLapse(o) \/ \E i \in Invitations : BootIssue(o, i)

Spec == Init /\ [][Next]_vars

-----------------------------------------------------------------------------
\* An invitation that was accepted may have been set to expired or revoked since.
InvitationsTypeOK ==
  /\ \A i \in Invitations :
       /\ inv[i] # None => /\ inv[i].email \in Emails /\ inv[i].role \in AllRoles
                           /\ inv[i].status \in {"pending", "accepted", "expired", "revoked"}
                           /\ inv[i].delivery \in {"pending", "sent", "failed"}
                           /\ inv[i].status = "revoked" => inv[i].delivery = "failed"
                           /\ inv[i].delivery = "failed" => inv[i].status \in {"revoked", "expired"}
       /\ chal[i] # None => /\ inv[i].status # "pending"
                            /\ chal[i].attempts \in 0 .. MaxAttempts
                            /\ chal[i].attempts = MaxAttempts => ~chal[i].open
  /\ now \in 0 .. MaxTime

\* At any time one thing at most can still lead, or has led, to an account of an
\* address: an invitation, an enrolment or the account.
Claims(email) ==
  LiveAt(PendingOf(email), now)
    \union {i \in Invitations : /\ chal[i] # None /\ chal[i].open /\ chal[i].expires > now
                                /\ inv[i].status = "accepted" /\ inv[i].email = email}
    \union {account[e].by : e \in {e \in {email} : HasAccount(e)}}
OneClaim == \A email \in Emails : Cardinality(Claims(email)) <= 1

\* An account has the role and the address of an invitation that was accepted,
\* and whose challenge cannot make another one.
AccountIsInvited ==
  \A email \in Emails : HasAccount(email) =>
    LET i == account[email].by IN
    /\ inv[i].email = email /\ inv[i].role = account[email].role
    /\ chal[i] # None /\ ~chal[i].open

\* There is one platform administrator and one pending invitation to be it.
OnePlatformAdmin ==
  /\ Cardinality(PlatformPending) <= 1
  /\ Cardinality({e \in Emails : HasAccount(e) /\ account[e].role = "platform_admin"}) <= 1

\* No later write, of the sender, of a lapse or of a transaction with an old
\* clock, makes a link, a challenge or an address usable again.
NoneRevived ==
  /\ \A i \in Invitations :
       /\ inv[i] # None /\ inv[i].status # "pending" => inv'[i].status # "pending"
       /\ chal[i] # None /\ ~chal[i].open => chal'[i] = chal[i]
  /\ \A e \in Emails : HasAccount(e) => account'[e] = account[e]
NothingRevives == [][NoneRevived]_vars

\* Whoever has an account was invited to it, once.
InvitationsInvariant ==
  /\ InvitationsTypeOK
  /\ OneClaim
  /\ AccountIsInvited
  /\ OnePlatformAdmin
=============================================================================
