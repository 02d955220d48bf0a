CONSTANTS
  Customers = {a1, a2}
  Emails = {b1, b2}
  Sessions = {t1, t2, t3}
  AccessTTL = 2
  Lifetime = 4
  Idle = 1
  MaxLag = 1
  MaxTime = 5
  AgencyRoles = {"agent"}
  Invitations = {a1, a2}
  Operators = {c1, c2}
  InvitationTTL = 2
  EnrollmentTTL = 1
  InvitationTime = 4
  Agents = {"agent"}
  StaffSessionIds = {b1, b2}
  LoginChallenges = {a1, a2}
  Codes = {"code"}
  ChallengeTTL = 1
  StaffIdle = 2
  StaffLifetime = 3
  MaxRefresh = 1
  StaffTime = 3
  Agencies = {"agency"}
  Addresses = {b1, b2}
  WalletChallenges = {t1, t2, t3}
  WalletTTL = 1
  WalletTime = 2
  MaxAttempts = 2
  Requests = {c1, c2}
  None = None
SYMMETRY Alike
CONSTRAINT Short
SPECIFICATION PeopleSpec
INVARIANTS
  StaffSessionsInvariant
  InvitationsInvariant
  CustomersInvariant
  WalletsInvariant
PROPERTIES
  EndedStaysEnded
CHECK_DEADLOCK FALSE
