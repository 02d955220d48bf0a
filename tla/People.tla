-------------------------------- MODULE People --------------------------------
(***************************************************************************)
(* Everybody who logs in: the sessions of customers, and for the           *)
(* behaviours that leave those as they begin the accounts of the staff     *)
(* from invitation to enrolment, the sessions of its agents, or the        *)
(* linking of wallets.  They share no row, so a behaviour is of one of     *)
(* them: rows, chal, tx and clock serve the one that moves, and the others *)
(* are None.                                                               *)
(***************************************************************************)
EXTENDS CustomerSessions

CONSTANTS
  \* invitations, with the addresses in Emails
  AgencyRoles, Invitations, Operators, InvitationTTL, EnrollmentTTL, InvitationTime,
  \* sessions of agents
  Agents, StaffSessionIds, LoginChallenges, Codes,
  ChallengeTTL, StaffIdle, StaffLifetime, MaxRefresh, StaffTime,
  \* wallets, of Customers and of
  Agencies, Addresses, WalletChallenges, WalletTTL, WalletTime,
  \* of the second and the third
  MaxAttempts,
  Requests

VARIABLES
  part,
  clock, chal, rows, tx,
  inv, account, boot,
  active, codes, refused, stale,
  wallet, uses

invitationOnly == <<inv, account, boot>>
staffOnly == <<active, codes, refused, stale>>
walletOnly == <<wallet, uses>>
otherVars == <<clock, chal, rows, tx, invitationOnly, staffOnly, walletOnly>>

I == INSTANCE StaffInvitations WITH now <- clock, MaxTime <- InvitationTime

S ==
  INSTANCE StaffSessions WITH
    now <- clock, sess <- rows, Sessions <- StaffSessionIds, Challenges <- LoginChallenges,
    Idle <- StaffIdle, Lifetime <- StaffLifetime, MaxTime <- StaffTime

W ==
  INSTANCE WalletLinks WITH
    now <- clock, Challenges <- WalletChallenges, TTL <- WalletTTL, MaxTime <- WalletTime

\* Assumed of the constants by the theorems and by every instance.
PeopleAssumption ==
  /\ CustomersAssumption
  /\ I!InvitationsAssumption
  /\ S!SessionsAssumption
  /\ W!WalletsAssumption

NoInvitations == inv = None /\ account = None /\ boot = None
NoStaff == active = None /\ codes = None /\ refused = None /\ stale = None
NoWallets == wallet = None /\ uses = None

PeopleInit ==
  /\ Init
  /\ \/ /\ part = "invitations" /\ I!Init
        /\ rows = None /\ tx = None /\ NoStaff /\ NoWallets
     \/ part = "staff" /\ S!Init /\ NoInvitations /\ NoWallets
     \/ /\ part = "wallets" /\ W!Init
        /\ rows = None /\ NoInvitations /\ NoStaff
     \/ /\ part = "customers" /\ clock = None /\ chal = None /\ rows = None /\ tx = None
        /\ NoInvitations /\ NoStaff /\ NoWallets

PeopleNext ==
  /\ UNCHANGED part
  /\ \/ part = "customers" /\ Next /\ UNCHANGED otherVars
     \/ part = "invitations" /\ I!Next /\ UNCHANGED <<vars, rows, tx, staffOnly, walletOnly>>
     \/ part = "staff" /\ S!Next /\ UNCHANGED <<vars, invitationOnly, walletOnly>>
     \/ part = "wallets" /\ W!Next /\ UNCHANGED <<vars, rows, invitationOnly, staffOnly>>

PeopleSpec == PeopleInit /\ [][PeopleNext]_<<part, vars, otherVars>>

-----------------------------------------------------------------------------

\* One invitation, enrolment or account at most stands for an address, an account is
\* the one that was invited, and there is one platform administrator, although
\* mails are sent outside the transactions, the clocks of requests lag, and the
\* bootstrap command expires a row of another address that it read without a lock
\* and that may have been accepted since (identity/invitations.py, bootstrap.py).
InvitationsInvariant == part = "invitations" => I!InvitationsInvariant

\* An agent who is not active has no live session, a challenge and a recovery code
\* open one session each, and no refresh outlives its term, whatever transactions
\* wait for each other's rows (identity/router.py, agencies/router.py).
StaffSessionsInvariant == part = "staff" => S!StaffSessionsInvariant

\* An address is linked to one customer and one agency at most, and a challenge
\* serves one request (customer_identity/service.py, agencies/service.py).
WalletsInvariant == part = "wallets" => W!WalletsInvariant

\* What has ended does not come back: no link, challenge or session is usable again
\* after a late write, and a wallet is only linked by its own key over a challenge
\* for this holder (identity/, customer_identity/, agencies/).
EndedStaysEnded ==
  [][/\ part = "invitations" => I!NoneRevived
     /\ part = "staff" => S!RevokedKept
     /\ EndedKept
     /\ part = "wallets" => W!LinksProved]_<<part, vars, otherVars>>
=============================================================================
