----------------------------- MODULE People_proofs -----------------------------
(***************************************************************************)
(* Proofs about everybody who logs in, for any customers, staff, addresses *)
(* and requests, any terms and any clocks that lag: a login is one session *)
(* at a time, an address has one account or invitation, an agent who was   *)
(* deactivated has no session, a wallet has one holder, and what has ended *)
(* never comes back.  Customers first; then each of the instances W, S and *)
(* I of People; the theorems about all of them are at the end.             *)
(***************************************************************************)
EXTENDS People, FiniteSetTheorems, TLAPS

\* The modules of the instances count as this one does.
LEMMA SameCardinality ==
  ASSUME NEW set
  PROVE  I!Cardinality(set) = Cardinality(set) /\ W!Cardinality(set) = Cardinality(set)
BY DEF Cardinality, I!Cardinality, W!Cardinality

\* A set in which any two elements are equal has one element at most.
LEMMA AtMostOne ==
  ASSUME NEW set, \A x, y \in set : x = y
  PROVE  I!Cardinality(set) <= 1 /\ W!Cardinality(set) <= 1
<1>1. CASE set = {}
  BY <1>1, FS_EmptySet, SameCardinality
<1>2. ASSUME NEW x \in set PROVE Cardinality(set) = 1
  <2>1. set = {x}
    OBVIOUS
  <2> QED BY <2>1, FS_Singleton
<1> QED BY <1>1, <1>2, SameCardinality

-----------------------------------------------------------------------------
(* Customers. *)

\* Every open session goes back to an open one, the session of its login.
SessionsShape ==
  /\ now \in Nat
  /\ sess \in [Sessions -> SessionRows \union {None}]
  /\ used \in [Sessions -> Nat]
  /\ login \in [Sessions -> Sessions \union {None}]
  /\ \A s \in Open : login[s] \in Open
  /\ \A s \in Sessions \ Open : used[s] = 0

SessionRight(s) ==
  /\ sess[s].created <= sess[s].last
  /\ sess[s].last < sess[s].expires
  /\ sess[s].expires = sess[login[s]].created + Lifetime
  /\ used[s] < sess[s].created + AccessTTL
  /\ used[s] < sess[s].expires
SessionsRight == \A s \in Open : SessionRight(s)

EmailsRight ==
  /\ email \in [Customers -> Emails \union {None}]
  /\ \A c, d \in Customers : c # d /\ email[c] # None => email[c] # email[d]

CustomersIInv == SessionsShape /\ SessionsRight /\ OneSessionPerLogin /\ EmailsRight

-----------------------------------------------------------------------------

LEMMA CustomersInitIInv == ASSUME Init PROVE CustomersIInv
BY DEF Init, CustomersIInv, SessionsShape, SessionsRight, OneSessionPerLogin, LiveSession,
       EmailsRight, Open

LEMMA RegisterIInv ==
  ASSUME CustomersIInv, NEW c \in Customers, NEW e \in Emails, Register(c, e)
  PROVE  CustomersIInv'
<1>1. EmailsRight'
  BY DEF Register, CustomersIInv, EmailsRight
<1> QED
  BY <1>1
  DEF Register, CustomersIInv, SessionsShape, SessionsRight, SessionRight,
      OneSessionPerLogin, LiveSession, Open

LEMMA TickIInv ==
  ASSUME CustomersIInv, Tick PROVE CustomersIInv'
BY DEF Tick, CustomersIInv, SessionsShape, SessionsRight, SessionRight, OneSessionPerLogin,
       LiveSession, EmailsRight, Open

\* A session ends, and nothing else is touched.
LEMMA RevokeIInv ==
  ASSUME CustomersAssumption, CustomersIInv, NEW s \in Open,
         sess' = [sess EXCEPT ![s].revoked = TRUE], UNCHANGED <<email, login, used, now>>
  PROVE  CustomersIInv'
<1> USE DEF CustomersIInv
<1> DEFINE row == [sess[s] EXCEPT !.revoked = TRUE]
<1>1. sess[s] \in SessionRows /\ s \in Sessions
  BY DEF SessionsShape, Open
<1>2. /\ row \in SessionRows /\ row.revoked
      /\ row.created = sess[s].created /\ row.last = sess[s].last
      /\ row.expires = sess[s].expires
  BY <1>1 DEF SessionRows
<1>3. sess' = [sess EXCEPT ![s] = row]
  OBVIOUS
<1> HIDE DEF row
<1>4. row # None
  BY <1>2 DEF CustomersAssumption
<1>5. Open' = Open
  BY <1>1, <1>3, <1>4 DEF Open, SessionsShape
<1>6. SessionsShape'
  BY <1>2, <1>3, <1>5 DEF SessionsShape
<1>7. \A z \in Open : /\ sess'[z].created = sess[z].created
                      /\ sess'[z].last = sess[z].last
                      /\ sess'[z].expires = sess[z].expires
  BY <1>1, <1>2, <1>3 DEF SessionsShape, Open
<1>8. SessionsRight'
  BY <1>5, <1>7 DEF SessionsRight, SessionRight, SessionsShape
<1>9. OneSessionPerLogin'
  BY <1>2, <1>3, <1>5 DEF OneSessionPerLogin, LiveSession, SessionsShape
<1> QED BY <1>6, <1>8, <1>9 DEF EmailsRight

LEMMA NewRow ==
  ASSUME CustomersAssumption, NEW c \in Customers, NEW t \in Nat, NEW expires \in Nat
  PROVE  LET row == NewSession(c, t, expires) IN
         /\ row \in SessionRows /\ row # None
         /\ row.created = t /\ row.last = t /\ row.expires = expires /\ ~row.revoked
<1> DEFINE row == NewSession(c, t, expires)
<1>1. row \in SessionRows
  BY DEF NewSession, SessionRows
<1>2. row.created = t /\ row.last = t /\ row.expires = expires /\ ~row.revoked
  BY DEF NewSession
<1>3. row # None
  BY <1>1 DEF CustomersAssumption
<1> QED BY <1>1, <1>2, <1>3

LEMMA LoginIInv ==
  ASSUME CustomersAssumption, CustomersIInv, NEW t \in Nat, NEW s \in Sessions,
         NEW c \in Customers, Login(c, s, t)
  PROVE  CustomersIInv'
<1> USE DEF CustomersIInv
<1> DEFINE row == NewSession(c, t, t + Lifetime)
<1>1. /\ Lifetime \in Nat \ {0} /\ AccessTTL \in Nat \ {0}
      /\ t + Lifetime \in Nat
  BY DEF CustomersAssumption
<1>2. /\ row \in SessionRows /\ row # None
      /\ row.created = t /\ row.last = t /\ row.expires = t + Lifetime /\ ~row.revoked
  BY <1>1, NewRow
<1>3. /\ sess[s] = None
      /\ sess' = [sess EXCEPT ![s] = row] /\ login' = [login EXCEPT ![s] = s]
      /\ UNCHANGED <<email, used, now>>
  BY DEF Login
<1> HIDE DEF row
<1>4. s \notin Open /\ Open' = Open \union {s}
  BY <1>2, <1>3 DEF Open, SessionsShape
<1>5. \A z \in Open : sess'[z] = sess[z] /\ login'[z] = login[z] /\ login[z] # s
  BY <1>3, <1>4 DEF SessionsShape, Open
<1>6. sess'[s] = row /\ login'[s] = s /\ used[s] = 0
  BY <1>3, <1>4 DEF SessionsShape
<1>7. SessionsShape'
  BY <1>2, <1>3, <1>4, <1>5, <1>6 DEF SessionsShape
<1>8. SessionsRight'
  <2>1. SessionRight(s)'
    BY <1>1, <1>2, <1>3, <1>6 DEF SessionRight
  <2>2. ASSUME NEW z \in Open PROVE SessionRight(z)'
    <3>1. login[z] \in Open /\ sess'[login[z]] = sess[login[z]]
      BY <1>5 DEF SessionsShape
    <3> QED BY <1>3, <1>5, <3>1 DEF SessionsRight, SessionRight
  <2> QED BY <1>4, <2>1, <2>2 DEF SessionsRight
<1>9. OneSessionPerLogin'
  BY <1>4, <1>5, <1>6 DEF OneSessionPerLogin, LiveSession
<1> QED BY <1>3, <1>7, <1>8, <1>9 DEF EmailsRight

LEMMA RefreshIInv ==
  ASSUME CustomersAssumption, CustomersIInv, NEW t \in Nat, NEW s \in Sessions,
         NEW next \in Sessions, Refresh(s, next, t)
  PROVE  CustomersIInv'
<1> USE DEF CustomersIInv
<1>1. s \in Open /\ ~sess[s].revoked /\ sess[next] = None /\ next \notin Open /\ next # s
  BY DEF Refresh, LiveSession, Open
<1>2. CASE Over(s, t)
  BY <1>1, <1>2, RevokeIInv DEF Refresh
<1>3. CASE ~Over(s, t)
  <2> DEFINE old == [sess[s] EXCEPT !.revoked = TRUE]
             row == NewSession(sess[s].customer, t, sess[s].expires)
  <2>1. sess[s] \in SessionRows
    BY <1>1 DEF SessionsShape, Open
  <2>2. /\ old \in SessionRows /\ old # None /\ old.revoked
        /\ old.created = sess[s].created /\ old.last = sess[s].last
        /\ old.expires = sess[s].expires
    BY <2>1 DEF SessionRows, CustomersAssumption
  <2>3. /\ row \in SessionRows /\ row # None
        /\ row.created = t /\ row.last = t /\ row.expires = sess[s].expires /\ ~row.revoked
    BY <2>1, NewRow DEF SessionRows
  <2>4. /\ sess' = [sess EXCEPT ![s] = old, ![next] = row]
        /\ login' = [login EXCEPT ![next] = login[s]]
        /\ UNCHANGED <<email, used, now>>
    BY <1>3 DEF Refresh, Succeed
  <2>5. t < sess[s].expires
    BY <1>3, <2>1 DEF Over, SessionRows
  <2> HIDE DEF old, row
  <2>6. sess'[s] = old /\ sess'[next] = row /\ login'[next] = login[s] /\ used[next] = 0
    BY <1>1, <2>4 DEF SessionsShape
  <2>7. Open' = Open \union {next}
    BY <1>1, <2>2, <2>3, <2>4 DEF Open, SessionsShape
  <2>8. \A z \in Open \ {s} : sess'[z] = sess[z]
    BY <1>1, <2>4 DEF SessionsShape, Open
  <2>9. \A z \in Open : login'[z] = login[z]
    BY <1>1, <2>4 DEF SessionsShape, Open
  <2>10. SessionsShape'
    BY <1>1, <2>2, <2>3, <2>4, <2>6, <2>7, <2>9 DEF SessionsShape
  <2>11. \A z \in Open : /\ sess'[z].created = sess[z].created
                         /\ sess'[z].last = sess[z].last
                         /\ sess'[z].expires = sess[z].expires
    BY <2>2, <2>6, <2>8
  <2>12. SessionsRight'
    <3>1. ASSUME NEW z \in Open PROVE SessionRight(z)'
      <4>1. login[z] \in Open
        BY DEF SessionsShape
      <4>2. login'[z] = login[z] /\ used'[z] = used[z]
        BY <2>4, <2>9
      <4>3. sess'[login[z]].created = sess[login[z]].created
        BY <2>11, <4>1
      <4>4. SessionRight(z)
        BY DEF SessionsRight
      <4> QED BY <2>11, <4>2, <4>3, <4>4 DEF SessionRight
    <3>2. SessionRight(next)'
      <4>1. login[s] \in Open
        BY <1>1 DEF SessionsShape
      <4>2. row.expires = sess'[login[s]].created + Lifetime
        BY <1>1, <2>3, <2>11, <4>1 DEF SessionsRight, SessionRight
      <4>3. 0 < t + AccessTTL /\ 0 < sess[s].expires
        BY <2>5, <2>1 DEF CustomersAssumption, SessionRows
      <4>4. /\ sess'[next].created = t /\ sess'[next].last = t
            /\ sess'[next].expires = sess[s].expires
        BY <2>3, <2>6
      <4>5. used'[next] = 0
        BY <2>4, <2>6
      <4>6. sess'[next].expires = sess'[login'[next]].created + Lifetime
        BY <2>3, <2>6, <4>2
      <4>7. sess'[next].created <= sess'[next].last
        BY <4>4
      <4>8. sess'[next].last < sess'[next].expires
        BY <2>5, <4>4
      <4>9. used'[next] < sess'[next].created + AccessTTL
        BY <4>3, <4>4, <4>5
      <4>10. used'[next] < sess'[next].expires
        BY <4>3, <4>4, <4>5
      <4> QED BY <4>6, <4>7, <4>8, <4>9, <4>10 DEF SessionRight
    <3> QED BY <2>7, <3>1, <3>2 DEF SessionsRight
  <2>13. OneSessionPerLogin'
    BY <1>1, <2>2, <2>6, <2>7, <2>8, <2>9 DEF OneSessionPerLogin, LiveSession, Open
  <2> QED BY <2>4, <2>10, <2>12, <2>13 DEF EmailsRight
<1> QED BY <1>2, <1>3

LEMMA MeIInv ==
  ASSUME CustomersAssumption, CustomersIInv, NEW t \in Nat, NEW s \in Sessions, Me(s, t)
  PROVE  CustomersIInv'
<1> USE DEF CustomersIInv
<1>1. s \in Open /\ ~sess[s].revoked
  BY DEF Me, LiveSession
<1>2. CASE Over(s, t)
  BY <1>1, <1>2, RevokeIInv DEF Me
<1>3. CASE ~Over(s, t)
  <2> DEFINE row == [sess[s] EXCEPT !.last = t]
             seen == IF used[s] > t THEN used[s] ELSE t
  <2>1. sess[s] \in SessionRows
    BY <1>1 DEF SessionsShape, Open
  <2>2. /\ row \in SessionRows /\ row # None
        /\ row.created = sess[s].created /\ row.last = t /\ row.expires = sess[s].expires
        /\ row.revoked = sess[s].revoked
    BY <2>1 DEF SessionRows, CustomersAssumption
  <2>3. /\ sess' = [sess EXCEPT ![s] = row] /\ used' = [used EXCEPT ![s] = seen]
        /\ UNCHANGED <<email, login, now>>
    BY <1>3 DEF Me
  <2>4. /\ sess[s].created <= t /\ t < sess[s].created + AccessTTL /\ t < sess[s].expires
        /\ seen \in Nat /\ seen < sess[s].created + AccessTTL /\ seen < sess[s].expires
    BY <1>1, <1>3, <2>1
    DEF Me, TokenGood, Over, SessionRows, SessionsShape, SessionsRight, SessionRight
  <2> HIDE DEF row, seen
  <2>5. Open' = Open
    BY <1>1, <2>2, <2>3 DEF Open, SessionsShape
  <2>6. sess'[s] = row /\ used'[s] = seen
    BY <2>3 DEF SessionsShape
  <2>7. \A z \in Open \ {s} : sess'[z] = sess[z] /\ used'[z] = used[z]
    BY <2>3 DEF SessionsShape, Open
  <2>8. SessionsShape'
    BY <1>1, <2>2, <2>3, <2>4, <2>5 DEF SessionsShape
  <2>9. SessionsRight'
    <3>1. \A z \in Open : sess'[z].created = sess[z].created
      BY <2>2, <2>6, <2>7
    <3>2. ASSUME NEW z \in Open PROVE SessionRight(z)'
      <4>1. login[z] \in Open
        BY DEF SessionsShape
      <4>2. CASE z = s
        BY <2>2, <2>3, <2>4, <2>6, <3>1, <4>1, <4>2 DEF SessionsRight, SessionRight
      <4>3. CASE z # s
        BY <2>3, <2>7, <3>1, <4>1, <4>3 DEF SessionsRight, SessionRight
      <4> QED BY <4>2, <4>3
    <3> QED BY <2>5, <3>2 DEF SessionsRight
  <2>10. OneSessionPerLogin'
    BY <1>1, <2>2, <2>3, <2>5, <2>6, <2>7 DEF OneSessionPerLogin, LiveSession
  <2> QED BY <2>3, <2>8, <2>9, <2>10 DEF EmailsRight
<1> QED BY <1>2, <1>3

-----------------------------------------------------------------------------

LEMMA CustomersInductive ==
  ASSUME CustomersAssumption, CustomersIInv, [Next]_vars
  PROVE  CustomersIInv'
<1>1. CASE UNCHANGED vars
  BY <1>1
  DEF vars, CustomersIInv, SessionsShape, SessionsRight, SessionRight, OneSessionPerLogin,
      LiveSession, EmailsRight, Open
<1>2. ASSUME NEW s \in Sessions, Logout(s) PROVE CustomersIInv'
  BY <1>2, RevokeIInv DEF Logout, LiveSession
<1>3. Clocks \subseteq Nat
  BY DEF Clocks, CustomersIInv, SessionsShape, CustomersAssumption
<1> QED
  BY <1>1, <1>2, <1>3, TickIInv, RegisterIInv, LoginIInv, RefreshIInv, MeIInv DEF Next

LEMMA CustomersInductiveInvariant ==
  ASSUME CustomersAssumption PROVE Spec => []CustomersIInv
<1>1. Init => CustomersIInv
  BY CustomersInitIInv
<1>2. CustomersAssumption /\ CustomersIInv /\ [Next]_vars => CustomersIInv'
  BY CustomersInductive
<1> QED BY <1>1, <1>2, PTL DEF Spec

\* However often, late and by whomever refresh and access tokens are presented: a
\* login is one session at a time, ends with its lifetime, and no access token
\* outlives either.
THEOREM CustomersSafe == ASSUME CustomersAssumption PROVE Spec => []CustomersInvariant
<1>1. CustomersIInv => CustomersInvariant
  <2> SUFFICES ASSUME CustomersIInv PROVE CustomersInvariant
    OBVIOUS
  <2> USE DEF CustomersIInv
  <2>1. CustomersTypeOK
    BY DEF CustomersTypeOK, SessionsShape, SessionsRight, SessionRight, EmailsRight, Open,
           SessionRows
  <2>2. LoginLifetime /\ AccessIsBounded
    BY DEF LoginLifetime, AccessIsBounded, SessionsRight, SessionRight
  <2> QED BY <2>1, <2>2 DEF CustomersInvariant
<1> QED BY <1>1, CustomersInductiveInvariant, PTL

\* What has ended is not written again.
LEMMA CustomersKept ==
  ASSUME CustomersIInv, [Next]_vars
  PROVE  EndedKept
<1> SUFFICES ASSUME Next, NEW s \in Open, sess[s].revoked
             PROVE  sess'[s] = sess[s] /\ used'[s] = used[s]
  BY DEF EndedKept, vars
<1> USE DEF CustomersIInv, SessionsShape, Open, LiveSession
<1>1. ASSUME NEW z \in Sessions, z # s, sess' = [sess EXCEPT ![z].revoked = TRUE]
      PROVE  sess'[s] = sess[s]
  BY <1>1
<1>2. ASSUME NEW z \in Sessions, Logout(z) PROVE sess'[s] = sess[s] /\ used'[s] = used[s]
  BY <1>1, <1>2 DEF Logout
<1>3. ASSUME NEW t \in Clocks, NEW z \in Sessions, NEW c \in Customers, Login(c, z, t)
      PROVE  sess'[s] = sess[s] /\ used'[s] = used[s]
  BY <1>3 DEF Login
<1>4. ASSUME NEW t \in Clocks, NEW z \in Sessions, NEW next \in Sessions, Refresh(z, next, t)
      PROVE  sess'[s] = sess[s] /\ used'[s] = used[s]
  BY <1>1, <1>4 DEF Refresh, Succeed
<1>5. ASSUME NEW t \in Clocks, NEW z \in Sessions, Me(z, t)
      PROVE  sess'[s] = sess[s] /\ used'[s] = used[s]
  BY <1>1, <1>5 DEF Me
<1> QED BY <1>2, <1>3, <1>4, <1>5 DEF Next, Tick, Register

\* A session that was revoked, replaced or found to have run out is never in use
\* again, whichever of its tokens is presented.
THEOREM CustomersEndedStays == ASSUME CustomersAssumption PROVE Spec => EndedIsFinal
<1>1. CustomersIInv /\ [Next]_vars => [EndedKept]_vars
  BY CustomersKept
<1> QED BY <1>1, CustomersInductiveInvariant, PTL DEF Spec, EndedIsFinal

-----------------------------------------------------------------------------
(* Wallets: the instance W of WalletLinks. *)

\* Everything the tables and the requests in between say, row by row.
WalletRows ==
  /\ clock \in Nat
  /\ chal \in [WalletChallenges -> W!ChallengeRows \union {None}]
  /\ wallet \in [W!Holders -> Addresses \union {None}]
  /\ tx \in [Requests -> W!Verifications \union {None}]
  /\ uses \in [WalletChallenges -> SUBSET Requests]

\* A challenge that served a request is closed, and it served one request.
UsedUp ==
  /\ \A r \in Requests : tx[r] # None =>
       chal[tx[r].challenge] # None /\ ~chal[tx[r].challenge].open
  /\ \A c \in WalletChallenges : uses[c] # {} => chal[c] # None /\ ~chal[c].open
  /\ \A c \in WalletChallenges : \A r, q \in uses[c] : r = q

WalletIInv == WalletRows /\ UsedUp /\ W!OneHolderPerAddress

LEMMA WalletInit ==
  ASSUME W!WalletsAssumption, W!Init PROVE WalletIInv
BY DEF W!Init, WalletIInv, WalletRows, UsedUp, W!OneHolderPerAddress, W!WalletsAssumption

\* Each step, with what it does to rows of challenges, wallets and requests.
LEMMA WalletRowsStep ==
  ASSUME W!WalletsAssumption, WalletRows, UsedUp, W!Next
  PROVE  WalletRows'
<1> USE DEF W!WalletsAssumption, WalletRows
<1>1. CASE W!Tick
  BY <1>1 DEF W!Tick
<1>2. ASSUME NEW c \in WalletChallenges, NEW h \in W!Holders, NEW a \in Addresses, W!Challenge(h, c, a)
      PROVE  WalletRows'
  <2>1. [holder |-> h, address |-> a, expires |-> clock + WalletTTL, open |-> TRUE] \in W!ChallengeRows
    BY DEF W!ChallengeRows
  <2> QED BY <1>2, <2>1 DEF W!Challenge
<1>3. ASSUME NEW r \in Requests, NEW c \in WalletChallenges, NEW h \in W!Holders, NEW key \in Addresses,
             W!Claim(r, h, c, key)
      PROVE  WalletRows'
  <2>1. [chal[c] EXCEPT !.open = FALSE] \in W!ChallengeRows
    BY <1>3 DEF W!Claim, W!ChallengeRows
  <2>2. [challenge |-> c, key |-> key] \in W!Verifications
    BY DEF W!Verifications
  <2>3. chal' \in [WalletChallenges -> W!ChallengeRows \union {None}]
    BY <1>3, <2>1 DEF W!Claim, W!UseUp
  <2> QED BY <1>3, <2>2, <2>3 DEF W!Claim
<1>4. ASSUME NEW r \in Requests, W!Link(r) \/ W!Die(r)
      PROVE  WalletRows'
  <2>1. CASE W!Die(r)
    BY <2>1 DEF W!Die
  <2>2. CASE W!Link(r)
    <3> DEFINE c == tx[r].challenge
    <3>1. c \in WalletChallenges /\ chal[c] # None
      BY <2>2 DEF W!Link, UsedUp, W!Verifications
    <3>2. chal[c].address \in Addresses
      BY <3>1 DEF W!ChallengeRows
    <3> QED BY <2>2, <3>2 DEF W!Link
  <2> QED BY <1>4, <2>1, <2>2
<1> QED
  BY <1>1, <1>2, <1>3, <1>4
  DEF W!Next, W!ChallengeCustomer, W!ChallengeAgency, W!VerifyCustomer, W!VerifyAgency, W!Holders

LEMMA WalletUsedUp ==
  ASSUME W!WalletsAssumption, WalletRows, UsedUp, W!Next
  PROVE  UsedUp'
<1>1. CASE W!Tick
  BY <1>1 DEF W!Tick, UsedUp
<1>2. ASSUME NEW c \in WalletChallenges, NEW h \in W!Holders, NEW a \in Addresses, W!Challenge(h, c, a)
      PROVE  UsedUp'
  <2>1. \A d \in WalletChallenges : chal[d] # None => chal'[d] = chal[d]
    BY <1>2 DEF W!Challenge, WalletRows
  <2> QED BY <1>2, <2>1 DEF W!Challenge, UsedUp, WalletRows, W!Verifications
<1>3. ASSUME NEW r \in Requests, NEW c \in WalletChallenges, NEW h \in W!Holders, NEW key \in Addresses,
             W!Claim(r, h, c, key)
      PROVE  UsedUp'
  <2>1. /\ chal[c] # None /\ chal[c].open /\ uses[c] = {}
        /\ uses'[c] = {r}
        /\ \A d \in WalletChallenges \ {c} : uses'[d] = uses[d] /\ chal'[d] = chal[d]
        /\ chal'[c] = [chal[c] EXCEPT !.open = FALSE]
    BY <1>3 DEF W!Claim, W!UseUp, UsedUp, WalletRows
  <2>2. chal'[c] # None /\ ~chal'[c].open
    <3>1. chal[c] \in W!ChallengeRows
      BY <2>1 DEF WalletRows
    <3>2. chal'[c] \in W!ChallengeRows /\ chal'[c].open = FALSE
      BY <2>1, <3>1 DEF W!ChallengeRows
    <3> QED BY <3>2 DEF W!WalletsAssumption
  <2>3. \A d \in WalletChallenges :
          chal[d] # None /\ ~chal[d].open => chal'[d] # None /\ ~chal'[d].open
    BY <2>1, <2>2
  <2>4. ASSUME NEW q \in Requests, tx'[q] # None
        PROVE  chal'[tx'[q].challenge] # None /\ ~chal'[tx'[q].challenge].open
    <3>1. CASE q = r
      BY <1>3, <2>2, <3>1 DEF W!Claim, WalletRows
    <3>2. CASE q # r
      BY <1>3, <2>3, <2>4, <3>2 DEF W!Claim, WalletRows, UsedUp, W!Verifications
    <3> QED BY <3>1, <3>2
  <2>5. \A d \in WalletChallenges : uses'[d] # {} => chal'[d] # None /\ ~chal'[d].open
    BY <2>1, <2>2 DEF UsedUp
  <2>6. \A d \in WalletChallenges : \A z, q \in uses'[d] : z = q
    BY <2>1 DEF UsedUp
  <2> QED BY <2>4, <2>5, <2>6 DEF UsedUp
<1>4. ASSUME NEW r \in Requests, W!Link(r) \/ W!Die(r)
      PROVE  UsedUp'
  BY <1>4 DEF W!Link, W!Die, UsedUp, WalletRows
<1> QED
  BY <1>1, <1>2, <1>3, <1>4
  DEF W!Next, W!ChallengeCustomer, W!ChallengeAgency, W!VerifyCustomer, W!VerifyAgency, W!Holders

\* Only Link writes a wallet, and what it writes was proved and is free.
LEMMA WalletLinked ==
  ASSUME W!WalletsAssumption, WalletRows, UsedUp, W!Next
  PROVE  /\ W!LinksProved
         /\ \/ wallet' = wallet
            \/ \E h \in W!Holders, a \in Addresses :
                 W!Free(h, a) /\ wallet' = [wallet EXCEPT ![h] = a]
<1>1. ASSUME NEW r \in Requests, W!Link(r), wallet' # wallet
      PROVE  /\ W!LinksProved
             /\ \E h \in W!Holders, a \in Addresses :
                  W!Free(h, a) /\ wallet' = [wallet EXCEPT ![h] = a]
  <2> DEFINE c == tx[r].challenge
             h == chal[c].holder
             a == chal[c].address
  <2>1. c \in WalletChallenges /\ chal[c] \in W!ChallengeRows
    BY <1>1 DEF W!Link, UsedUp, W!Verifications, WalletRows
  <2>2. h \in W!Holders /\ a \in Addresses
    BY <2>1 DEF W!ChallengeRows
  <2>3. W!SignedBy(r) /\ W!Free(h, a) /\ wallet' = [wallet EXCEPT ![h] = a] /\ tx[r] # None
    BY <1>1 DEF W!Link
  <2> HIDE DEF h, a
  <2>4. \A g \in W!Holders : wallet'[g] # wallet[g] => g = h /\ wallet[g] = None /\ wallet'[g] = a
    BY <2>2, <2>3 DEF W!Free, WalletRows
  <2>5. tx[r].key = a /\ chal[tx[r].challenge].holder = h
    BY <2>3 DEF W!SignedBy, a, h
  <2> QED BY <2>2, <2>3, <2>4, <2>5 DEF W!LinksProved
<1>2. ASSUME wallet' = wallet
      PROVE  W!LinksProved
  BY <1>2 DEF W!LinksProved
<1> QED
  BY <1>1, <1>2
  DEF W!Next, W!Tick, W!ChallengeCustomer, W!ChallengeAgency, W!Challenge, W!VerifyCustomer, W!VerifyAgency,
      W!Claim, W!Die

LEMMA WalletInductive ==
  ASSUME W!WalletsAssumption, WalletIInv, [W!Next]_(W!vars)
  PROVE  WalletIInv'
<1>1. CASE W!Next
  <2>1. ASSUME NEW h \in W!Holders, NEW a \in Addresses, W!Free(h, a),
               wallet' = [wallet EXCEPT ![h] = a]
        PROVE  W!OneHolderPerAddress'
    BY <2>1 DEF W!Free, W!SameTable, W!OneHolderPerAddress, WalletIInv, WalletRows
  <2>2. ASSUME wallet' = wallet PROVE W!OneHolderPerAddress'
    BY <2>2 DEF W!OneHolderPerAddress, WalletIInv, W!SameTable
  <2> QED BY <1>1, <2>1, <2>2, WalletRowsStep, WalletUsedUp, WalletLinked DEF WalletIInv
<1>2. CASE UNCHANGED W!vars
  BY <1>2 DEF W!vars, WalletIInv, WalletRows, UsedUp, W!OneHolderPerAddress
<1> QED BY <1>1, <1>2

LEMMA WalletImplies ==
  ASSUME WalletIInv PROVE W!WalletsInvariant
BY AtMostOne DEF WalletIInv, WalletRows, UsedUp, W!WalletsInvariant, W!WalletsTypeOK,
   W!ChallengeServesOnce

-----------------------------------------------------------------------------
(* Sessions of agents: the instance S of StaffSessions. *)

\* Types of tables and of waiting transactions.
StaffRows ==
  /\ clock \in Nat
  /\ active \in [Agents -> BOOLEAN]
  /\ codes \in [Agents -> SUBSET Codes]
  /\ chal \in [LoginChallenges -> S!ChallengeRows \union {None}]
  /\ rows \in [StaffSessionIds -> S!SessionRows \union {None}]
  /\ tx \in [Requests -> S!Touches \union S!Deactivations \union {None}]

\* A challenge counts its attempts and is closed by the last one.
ChallengesCount ==
  \A c \in LoginChallenges : chal[c] # None =>
    chal[c].attempts <= MaxAttempts /\ (chal[c].attempts = MaxAttempts => ~chal[c].open)

\* What a session's row says of its times, of what opened it and of its agent.
StaffSessionRight(s) ==
  rows[s] # None =>
    /\ rows[s].generation <= MaxRefresh
    /\ rows[s].opened <= rows[s].last /\ rows[s].last <= clock
    /\ rows[s].expires = rows[s].opened + StaffLifetime
    /\ rows[s].last < rows[s].expires
    /\ chal[rows[s].challenge] # None /\ ~chal[rows[s].challenge].open
    /\ rows[s].code # None => rows[s].code \notin codes[rows[s].user]
    /\ rows[s].revoked \/ active[rows[s].user]

\* The lock a waiting transaction holds keeps its session live, and the clock it
\* goes on with is within the session's term.
TouchRight(r) ==
  tx[r] # None /\ tx[r].kind # "deactivate" =>
    /\ S!Live(tx[r].session)
    /\ rows[tx[r].session].opened <= tx[r].clock /\ tx[r].clock <= clock
    /\ tx[r].clock < rows[tx[r].session].expires
    /\ tx[r].kind = "refresh" => rows[tx[r].session].generation < MaxRefresh

\* A row is locked by one transaction.
LocksExclusive ==
  \A r, q \in Requests : r # q /\ tx[r] # None /\ tx[q] # None =>
    /\ tx[r].kind = "deactivate" /\ tx[q].kind = "deactivate" => tx[r].agent # tx[q].agent
    /\ tx[r].kind # "deactivate" /\ tx[q].kind # "deactivate" => tx[r].session # tx[q].session

StaffIInv ==
  /\ StaffRows
  /\ ChallengesCount
  /\ \A s \in StaffSessionIds : StaffSessionRight(s)
  /\ \A r \in Requests : TouchRight(r)
  /\ LocksExclusive
  /\ S!OpenedOnce

\* A waiting transaction is of one of the two kinds.
LEMMA TxKinds ==
  ASSUME S!SessionsAssumption, StaffRows, NEW r \in Requests, tx[r] # None
  PROVE  /\ tx[r].kind = "deactivate" => tx[r] \in S!Deactivations /\ tx[r].agent \in Agents
         /\ tx[r].kind # "deactivate" =>
              /\ tx[r] \in S!Touches /\ tx[r].kind \in {"me", "refresh"}
              /\ tx[r].session \in StaffSessionIds /\ tx[r].clock \in Nat
BY DEF StaffRows, S!Touches, S!Deactivations

\* Nothing in an open session's row is undefined.
LEMMA SessFields ==
  ASSUME StaffRows, NEW s \in StaffSessionIds, rows[s] # None
  PROVE  /\ rows[s] \in S!SessionRows
         /\ rows[s].user \in Agents /\ rows[s].generation \in Nat /\ rows[s].last \in Nat
         /\ rows[s].expires \in Nat /\ rows[s].revoked \in BOOLEAN /\ rows[s].opened \in Nat
         /\ rows[s].challenge \in LoginChallenges
BY DEF StaffRows, S!SessionRows

LEMMA ChalFields ==
  ASSUME StaffRows, NEW c \in LoginChallenges, chal[c] # None
  PROVE  /\ chal[c] \in S!ChallengeRows
         /\ chal[c].user \in Agents /\ chal[c].expires \in Nat
         /\ chal[c].attempts \in Nat /\ chal[c].open \in BOOLEAN
BY DEF StaffRows, S!ChallengeRows

LEMMA StaffInit == ASSUME S!SessionsAssumption, S!Init PROVE StaffIInv
BY DEF S!Init, StaffIInv, StaffRows, ChallengesCount, StaffSessionRight, TouchRight, LocksExclusive,
   S!OpenedOnce, S!Opened, S!Live, S!SessionsAssumption

-----------------------------------------------------------------------------
\* What a step does to a session's row: nothing, or it ends a live session that no
\* transaction has locked or that its own has, or opens one, or moves it on.
SessionKept(s) == rows'[s] = rows[s]
SessionEnds(s) == S!Live(s) /\ rows'[s] = [rows[s] EXCEPT !.revoked = TRUE]
SessionMoves(s) ==
  /\ S!Live(s)
  /\ \E t \in Nat, g \in Nat :
       /\ rows'[s] = [rows[s] EXCEPT !.generation = g, !.last = t]
       /\ g <= MaxRefresh
       /\ rows[s].opened <= t /\ t <= clock /\ t < rows[s].expires

\* The rows a step leaves in place.
LEMMA RevokeRows ==
  ASSUME S!SessionsAssumption, StaffRows, NEW ss \in SUBSET StaffSessionIds, \A s \in ss : S!Live(s), S!Revoke(ss)
  PROVE  /\ rows' \in [StaffSessionIds -> S!SessionRows \union {None}]
         /\ \A s \in ss : SessionEnds(s)
         /\ \A s \in StaffSessionIds \ ss : SessionKept(s)
<1>1. \A s \in ss : rows[s] \in S!SessionRows
  BY SessFields DEF S!Live
<1>2. \A s \in ss : [rows[s] EXCEPT !.revoked = TRUE] \in S!SessionRows
  BY <1>1 DEF S!SessionRows
<1> QED BY <1>2 DEF S!Revoke, SessionEnds, SessionKept, StaffRows

\* A record with one field written once more is what it was.
LEMMA EndedFields ==
  ASSUME S!SessionsAssumption, StaffRows, NEW s \in StaffSessionIds, SessionEnds(s)
  PROVE  /\ rows'[s] \in S!SessionRows /\ rows'[s] # None /\ rows'[s].revoked
         /\ rows'[s].user = rows[s].user /\ rows'[s].generation = rows[s].generation
         /\ rows'[s].last = rows[s].last /\ rows'[s].expires = rows[s].expires
         /\ rows'[s].opened = rows[s].opened /\ rows'[s].challenge = rows[s].challenge
         /\ rows'[s].code = rows[s].code
<1>1. rows[s] \in S!SessionRows
  BY SessFields DEF SessionEnds, S!Live
<1>2. rows'[s] = [rows[s] EXCEPT !.revoked = TRUE]
  BY DEF SessionEnds
<1>3. rows'[s] \in S!SessionRows
  BY <1>1, <1>2 DEF S!SessionRows
<1> QED BY <1>1, <1>2, <1>3 DEF S!SessionRows, S!SessionsAssumption

LEMMA MovedFields ==
  ASSUME S!SessionsAssumption, StaffRows, NEW s \in StaffSessionIds, SessionMoves(s)
  PROVE  /\ rows'[s] \in S!SessionRows /\ rows'[s] # None /\ ~rows'[s].revoked
         /\ rows'[s].user = rows[s].user /\ rows'[s].expires = rows[s].expires
         /\ rows'[s].opened = rows[s].opened /\ rows'[s].challenge = rows[s].challenge
         /\ rows'[s].code = rows[s].code /\ rows'[s].generation <= MaxRefresh
         /\ rows[s].opened <= rows'[s].last /\ rows'[s].last <= clock
         /\ rows'[s].last < rows[s].expires
<1>1. rows[s] \in S!SessionRows /\ ~rows[s].revoked
  BY SessFields DEF SessionMoves, S!Live
<1>2. PICK t \in Nat, g \in Nat :
        /\ rows'[s] = [rows[s] EXCEPT !.generation = g, !.last = t]
        /\ g <= MaxRefresh
        /\ rows[s].opened <= t /\ t <= clock /\ t < rows[s].expires
  BY DEF SessionMoves
<1>3. rows'[s] \in S!SessionRows
  BY <1>1, <1>2 DEF S!SessionRows
<1> QED BY <1>1, <1>2, <1>3 DEF S!SessionRows, S!SessionsAssumption

\* Every step but the opening of a session leaves each session, ends or moves it.
SessionStep == \A s \in StaffSessionIds : SessionKept(s) \/ SessionEnds(s) \/ SessionMoves(s)

\* Closed challenges stay closed and used codes used.
Spending ==
  /\ \A c \in LoginChallenges : chal[c] # None /\ ~chal[c].open => chal'[c] # None /\ ~chal'[c].open
  /\ \A a \in Agents : codes'[a] \subseteq codes[a]

\* No live session is left to an agent that is not active.
LiveIsActive ==
  \A s \in StaffSessionIds : rows'[s] # None /\ ~rows'[s].revoked => active'[rows'[s].user]

\* What the steps that open no session have in common.
LEMMA RowsStayRight ==
  ASSUME S!SessionsAssumption, StaffIInv, SessionStep, Spending, LiveIsActive,
         clock' \in Nat, clock <= clock'
  PROVE  (\A s \in StaffSessionIds : StaffSessionRight(s)') /\ S!OpenedOnce'
<1>1. ASSUME NEW s \in StaffSessionIds, rows'[s] # None
      PROVE  /\ StaffSessionRight(s)'
             /\ rows[s] # None
             /\ rows'[s].user = rows[s].user /\ rows'[s].challenge = rows[s].challenge
             /\ rows'[s].code = rows[s].code
  <2>1. StaffSessionRight(s) /\ StaffRows
    BY DEF StaffIInv
  <2>2. rows[s] # None
    BY <1>1 DEF SessionStep, SessionKept, SessionEnds, SessionMoves, S!Live
  <2>3. /\ rows'[s].user = rows[s].user /\ rows'[s].challenge = rows[s].challenge
        /\ rows'[s].code = rows[s].code /\ rows'[s].expires = rows[s].expires
        /\ rows'[s].opened = rows[s].opened
        /\ rows'[s].generation <= MaxRefresh
        /\ rows[s].opened <= rows'[s].last /\ rows'[s].last <= clock
        /\ rows'[s].last < rows[s].expires
        /\ rows'[s].last \in Nat
        /\ rows[s].expires = rows[s].opened + StaffLifetime
    <3>1. CASE SessionKept(s)
      BY <2>1, <2>2, <3>1, SessFields DEF SessionKept, StaffSessionRight
    <3>2. CASE SessionEnds(s)
      BY <2>1, <2>2, <3>2, EndedFields, SessFields DEF StaffSessionRight
    <3>3. CASE SessionMoves(s)
      BY <2>1, <2>2, <3>3, MovedFields DEF StaffSessionRight, S!SessionRows
    <3> QED BY <3>1, <3>2, <3>3 DEF SessionStep
  <2>4. chal'[rows[s].challenge] # None /\ ~chal'[rows[s].challenge].open
    BY <2>1, <2>2, SessFields DEF StaffSessionRight, Spending
  <2>5. rows[s].code # None => rows[s].code \notin codes'[rows[s].user]
    BY <2>1, <2>2, SessFields DEF StaffSessionRight, Spending
  <2>6. rows'[s].revoked \/ active'[rows[s].user]
    BY <1>1, <2>3 DEF LiveIsActive
  <2>7. rows'[s].last <= clock'
    BY <2>1, <2>3 DEF StaffRows
  <2> QED BY <2>2, <2>3, <2>4, <2>5, <2>6, <2>7 DEF StaffSessionRight
<1>2. S!OpenedOnce'
  BY <1>1 DEF StaffIInv, S!OpenedOnce, S!Opened
<1> QED BY <1>1, <1>2 DEF StaffSessionRight

\* A transaction that goes on waiting finds its session as it was.
LEMMA TouchStays ==
  ASSUME S!SessionsAssumption, StaffIInv, NEW r \in Requests, clock' \in Nat, clock <= clock',
         tx'[r] # None /\ tx'[r].kind # "deactivate"
           => tx'[r] = tx[r] /\ SessionKept(tx[r].session)
  PROVE  TouchRight(r)'
<1>1. CASE tx'[r] # None /\ tx'[r].kind # "deactivate"
  <2>1. tx'[r] = tx[r] /\ SessionKept(tx[r].session) /\ TouchRight(r) /\ StaffRows
    BY <1>1 DEF StaffIInv
  <2>2. tx[r].clock \in Nat
    BY <1>1, <2>1, TxKinds
  <2> QED BY <1>1, <2>1, <2>2 DEF TouchRight, SessionKept, S!Live, StaffRows
<1> QED BY <1>1 DEF TouchRight

\* Fewer transactions, fewer locks.
LEMMA LocksStay ==
  ASSUME LocksExclusive, \A r \in Requests : tx'[r] = tx[r] \/ tx'[r] = None
  PROVE  LocksExclusive'
BY DEF LocksExclusive

\* Live sessions have active agents as long as sessions are kept, ended or moved
\* and no agent is deactivated.
LEMMA LiveStaysActive ==
  ASSUME S!SessionsAssumption, StaffIInv, SessionStep,
         \A a \in Agents : active[a] => active'[a]
  PROVE  LiveIsActive
<1> SUFFICES ASSUME NEW s \in StaffSessionIds, rows'[s] # None, ~rows'[s].revoked
             PROVE  active'[rows'[s].user]
  BY DEF LiveIsActive
<1>1. StaffSessionRight(s) /\ StaffRows
  BY DEF StaffIInv
<1>2. CASE SessionKept(s)
  BY <1>1, <1>2, SessFields DEF SessionKept, StaffSessionRight
<1>3. CASE SessionEnds(s)
  BY <1>1, <1>3, EndedFields
<1>4. CASE SessionMoves(s)
  BY <1>1, <1>4, MovedFields, SessFields DEF StaffSessionRight, SessionMoves, S!Live
<1> QED BY <1>2, <1>3, <1>4 DEF SessionStep

\* The frame of all steps that open no session.
LEMMA StaffFrame ==
  ASSUME S!SessionsAssumption, StaffIInv, StaffRows', clock <= clock',
         SessionStep, Spending, LiveIsActive, ChallengesCount', LocksExclusive',
         \A r \in Requests : TouchRight(r)'
  PROVE  StaffIInv'
BY RowsStayRight DEF StaffIInv, StaffRows

-----------------------------------------------------------------------------
\* Steps that leave sessions and transactions alone.
LEMMA StaffElsewhere ==
  ASSUME S!SessionsAssumption, StaffIInv, StaffRows', clock <= clock', UNCHANGED <<rows, tx>>,
         \A a \in Agents : active[a] => active'[a], Spending, ChallengesCount'
  PROVE  StaffIInv'
<1>1. SessionStep
  BY DEF SessionStep, SessionKept
<1>2. LocksExclusive'
  BY LocksStay DEF StaffIInv
<1>3. \A r \in Requests : TouchRight(r)'
  BY TouchStays DEF StaffRows, SessionKept
<1> QED BY <1>1, <1>2, <1>3, LiveStaysActive, StaffFrame

LEMMA TickRight == ASSUME S!SessionsAssumption, StaffIInv, S!Tick PROVE StaffIInv'
<1>1. StaffRows' /\ clock <= clock'
  BY DEF S!Tick, StaffIInv, StaffRows
<1> QED BY <1>1, StaffElsewhere DEF S!Tick, StaffIInv, Spending, ChallengesCount

LEMMA ActivateRight ==
  ASSUME S!SessionsAssumption, StaffIInv, NEW a \in Agents, S!Activate(a) PROVE StaffIInv'
<1>1. StaffRows' /\ clock <= clock' /\ \A b \in Agents : active[b] => active'[b]
  BY DEF S!Activate, StaffIInv, StaffRows
<1> QED BY <1>1, StaffElsewhere DEF S!Activate, StaffIInv, Spending, ChallengesCount

LEMMA LoginRight ==
  ASSUME S!SessionsAssumption, StaffIInv, NEW a \in Agents, NEW c \in LoginChallenges, S!Login(a, c)
  PROVE  StaffIInv'
<1> DEFINE row == [user |-> a, expires |-> clock + ChallengeTTL, attempts |-> 0, open |-> TRUE]
<1>1. row \in S!ChallengeRows
  BY DEF S!ChallengeRows, StaffIInv, StaffRows, S!SessionsAssumption
<1>2. /\ row.attempts = 0 /\ row.attempts # MaxAttempts /\ 0 <= MaxAttempts
  BY DEF S!SessionsAssumption
<1> HIDE DEF row
<1>3. chal' = [chal EXCEPT ![c] = row] /\ UNCHANGED <<active, codes, rows, tx, clock>> /\ chal[c] = None
  BY DEF S!Login, row
<1>4. StaffRows' /\ clock <= clock'
  BY <1>1, <1>3 DEF StaffIInv, StaffRows
<1>5. Spending /\ ChallengesCount'
  BY <1>2, <1>3 DEF Spending, ChallengesCount, StaffIInv, StaffRows
<1> QED BY <1>3, <1>4, <1>5, StaffElsewhere

\* Closing a challenge.
LEMMA CloseRows ==
  ASSUME S!SessionsAssumption, StaffIInv, NEW c \in LoginChallenges, chal[c] # None, S!CloseChallenge(c)
  PROVE  /\ chal' \in [LoginChallenges -> S!ChallengeRows \union {None}]
         /\ chal'[c] # None /\ ~chal'[c].open
         /\ \A d \in LoginChallenges : chal[d] # None /\ ~chal[d].open => chal'[d] # None /\ ~chal'[d].open
         /\ ChallengesCount'
<1> DEFINE row == [chal[c] EXCEPT !.open = FALSE]
<1>1. chal[c] \in S!ChallengeRows /\ chal \in [LoginChallenges -> S!ChallengeRows \union {None}]
  BY ChalFields DEF StaffIInv, StaffRows
<1>2. row \in S!ChallengeRows /\ row.open = FALSE /\ row.attempts = chal[c].attempts
  BY <1>1 DEF S!ChallengeRows
<1>3. row # None
  BY <1>2 DEF S!SessionsAssumption
<1>4. chal' = [chal EXCEPT ![c] = row]
  BY DEF S!CloseChallenge
<1> HIDE DEF row
<1> QED BY <1>1, <1>2, <1>3, <1>4 DEF ChallengesCount, StaffIInv

LEMMA CountedRow ==
  ASSUME NEW row \in S!ChallengeRows, NEW more \in BOOLEAN
  PROVE  LET new == [row EXCEPT !.attempts = row.attempts + 1, !.open = more]
         IN new \in S!ChallengeRows /\ new.attempts = row.attempts + 1 /\ new.open = more
<1>1. row.attempts + 1 \in Nat
  BY DEF S!ChallengeRows
<1> QED BY <1>1 DEF S!ChallengeRows

LEMMA FailedRows ==
  ASSUME S!SessionsAssumption, StaffIInv, NEW c \in LoginChallenges, chal[c] # None, chal[c].open, S!Failed(c)
  PROVE  /\ chal' \in [LoginChallenges -> S!ChallengeRows \union {None}]
         /\ \A d \in LoginChallenges : chal[d] # None /\ ~chal[d].open => chal'[d] # None /\ ~chal'[d].open
         /\ ChallengesCount'
<1>1. chal[c] \in S!ChallengeRows /\ chal \in [LoginChallenges -> S!ChallengeRows \union {None}]
  BY ChalFields DEF StaffIInv, StaffRows
<1>2. chal[c].attempts < MaxAttempts /\ chal[c].attempts \in Nat /\ MaxAttempts \in Nat
  BY <1>1, ChalFields DEF StaffIInv, ChallengesCount, S!SessionsAssumption
<1>3. ASSUME NEW more \in BOOLEAN, more => chal[c].attempts + 1 < MaxAttempts,
             NEW row, row = [chal[c] EXCEPT !.attempts = chal[c].attempts + 1, !.open = more],
             chal' = [chal EXCEPT ![c] = row]
      PROVE  /\ chal' \in [LoginChallenges -> S!ChallengeRows \union {None}]
             /\ \A d \in LoginChallenges :
                  chal[d] # None /\ ~chal[d].open => chal'[d] # None /\ ~chal'[d].open
             /\ ChallengesCount'
  <2>1. row \in S!ChallengeRows /\ row.attempts = chal[c].attempts + 1 /\ row.open = more
    BY <1>1, <1>3, CountedRow
  <2>2. row.attempts <= MaxAttempts /\ (row.attempts = MaxAttempts => ~row.open)
    BY <1>2, <1>3, <2>1
  <2> QED BY <1>1, <1>3, <2>1, <2>2 DEF ChallengesCount, StaffIInv
<1>4. CASE chal[c].attempts + 1 < MaxAttempts
  <2>1. chal' = [chal EXCEPT ![c] = [chal[c] EXCEPT !.attempts = chal[c].attempts + 1, !.open = TRUE]]
    BY <1>1, <1>4 DEF S!Failed, S!ChallengeRows
  <2> QED BY <1>3, <1>4, <2>1
<1>5. CASE ~(chal[c].attempts + 1 < MaxAttempts)
  <2>1. chal' = [chal EXCEPT ![c] = [chal[c] EXCEPT !.attempts = chal[c].attempts + 1, !.open = FALSE]]
    BY <1>1, <1>5 DEF S!Failed, S!ChallengeRows
  <2> QED BY <1>3, <1>5, <2>1
<1> QED BY <1>4, <1>5

\* A challenge opens a session that is not there, closes, and takes its code along.
LEMMA OpenRight ==
  ASSUME S!SessionsAssumption, StaffIInv, NEW c \in LoginChallenges, NEW s \in StaffSessionIds,
         chal[c] # None, chal[c].open, rows[s] = None, active[chal[c].user],
         NEW code \in Codes \union {None},
         \/ code = None /\ UNCHANGED codes
         \/ S!UseCode(chal[c].user, code),
         S!OpenSession(c, s, code), UNCHANGED <<active, tx, clock>>
  PROVE  StaffIInv'
<1> DEFINE row == S!NewSession(c, code, clock)
           a == chal[c].user
<1>1. a \in Agents /\ clock \in Nat /\ StaffRows
  BY ChalFields DEF StaffIInv, StaffRows
<1>2. row \in S!SessionRows
  BY <1>1 DEF S!NewSession, S!SessionRows, S!SessionsAssumption
<1>3. /\ row.user = a /\ row.generation = 0 /\ row.last = clock /\ row.expires = clock + StaffLifetime
      /\ ~row.revoked /\ row.opened = clock /\ row.challenge = c /\ row.code = code
  BY DEF S!NewSession
<1>4. rows' = [rows EXCEPT ![s] = row] /\ S!CloseChallenge(c) /\ row # None
  BY <1>2 DEF S!OpenSession, S!SessionsAssumption
<1> HIDE DEF row
<1>5. /\ codes' \in [Agents -> SUBSET Codes]
      /\ \A b \in Agents : codes'[b] \subseteq codes[b]
      /\ code # None => code \in codes[a] /\ code \notin codes'[a]
  BY <1>1 DEF S!UseCode, StaffRows
<1>6. StaffRows'
  BY <1>1, <1>2, <1>4, <1>5, CloseRows DEF StaffRows
<1>7. /\ ChallengesCount'
      /\ \A d \in LoginChallenges : chal[d] # None /\ ~chal[d].open => chal'[d] # None /\ ~chal'[d].open
      /\ chal'[c] # None /\ ~chal'[c].open
  BY <1>4, CloseRows
<1>8. ASSUME NEW z \in StaffSessionIds PROVE StaffSessionRight(z)'
  <2>1. CASE z = s
    BY <1>1, <1>3, <1>4, <1>5, <1>7, <2>1
    DEF StaffSessionRight, StaffRows, S!SessionsAssumption
  <2>2. CASE z # s
    <3>1. rows'[z] = rows[z] /\ StaffSessionRight(z)
      BY <1>1, <1>4, <2>2 DEF StaffIInv, StaffRows
    <3> QED BY <1>1, <1>5, <1>7, <3>1, SessFields DEF StaffSessionRight
  <2> QED BY <2>1, <2>2
<1>9. ASSUME NEW r \in Requests PROVE TouchRight(r)'
  <2>1. TouchRight(r) /\ tx'[r] = tx[r]
    BY DEF StaffIInv
  <2>2. tx[r] # None /\ tx[r].kind # "deactivate" =>
          tx[r].session # s /\ rows'[tx[r].session] = rows[tx[r].session]
    BY <1>1, <1>4, <2>1 DEF TouchRight, S!Live, StaffRows
  <2> QED BY <2>1, <2>2 DEF TouchRight, S!Live
<1>10. S!OpenedOnce'
  <2>1. \A z \in StaffSessionIds \ {s} : rows'[z] = rows[z]
    BY <1>1, <1>4 DEF StaffRows
  <2>2. rows'[s] = row
    BY <1>1, <1>4 DEF StaffRows
  <2>3. \A z \in StaffSessionIds \ {s} : rows[z] # None =>
          /\ rows[z].challenge # c
          /\ rows[z].code # None /\ rows[z].user = a => rows[z].code # code
    BY <1>5 DEF StaffIInv, StaffSessionRight
  <2> QED BY <1>3, <2>1, <2>2, <2>3 DEF StaffIInv, S!OpenedOnce, S!Opened
<1>11. LocksExclusive'
  BY LocksStay DEF StaffIInv
<1> QED BY <1>6, <1>7, <1>8, <1>9, <1>10, <1>11 DEF StaffIInv

LEMMA CompleteLoginRight ==
  ASSUME S!SessionsAssumption, StaffIInv, NEW c \in LoginChallenges, NEW s \in StaffSessionIds, S!CompleteLogin(c, s)
  PROVE  StaffIInv'
<1>1. /\ chal[c] # None /\ chal[c].open /\ rows[s] = None
      /\ UNCHANGED <<active, tx, clock>>
      /\ StaffRows /\ clock <= clock'
  BY DEF S!CompleteLogin, StaffIInv, StaffRows
<1>2. CASE (S!CloseChallenge(c) \/ S!Failed(c)) /\ UNCHANGED <<codes, rows>>
  <2>1. /\ chal' \in [LoginChallenges -> S!ChallengeRows \union {None}]
        /\ \A d \in LoginChallenges : chal[d] # None /\ ~chal[d].open => chal'[d] # None /\ ~chal'[d].open
        /\ ChallengesCount'
    BY <1>1, <1>2, CloseRows, FailedRows
  <2> QED BY <1>1, <1>2, <2>1, StaffElsewhere DEF Spending, StaffRows
<1>3. CASE /\ active[chal[c].user]
           /\ \/ S!OpenSession(c, s, None) /\ UNCHANGED codes
              \/ \E code \in Codes : S!UseCode(chal[c].user, code) /\ S!OpenSession(c, s, code)
  BY <1>1, <1>3, OpenRight
<1> QED BY <1>2, <1>3 DEF S!CompleteLogin, S!Failed

-----------------------------------------------------------------------------
\* Steps that neither touch challenges, codes nor the clock.
LEMMA StaffQuiet ==
  ASSUME S!SessionsAssumption, StaffIInv, UNCHANGED <<codes, chal, clock>>,
         active' \in [Agents -> BOOLEAN],
         rows' \in [StaffSessionIds -> S!SessionRows \union {None}],
         tx' \in [Requests -> S!Touches \union S!Deactivations \union {None}],
         SessionStep, LiveIsActive, LocksExclusive',
         \A r \in Requests : TouchRight(r)'
  PROVE  StaffIInv'
<1>1. StaffRows' /\ clock <= clock'
  BY DEF StaffIInv, StaffRows
<1>2. Spending /\ ChallengesCount'
  BY DEF Spending, ChallengesCount, StaffIInv
<1> QED BY <1>1, <1>2, StaffFrame

\* Sessions that no waiting transaction has locked, or that end with the one
\* that has.
LEMMA TouchesStay ==
  ASSUME S!SessionsAssumption, StaffIInv, UNCHANGED clock,
         \A q \in Requests : tx'[q] # None /\ tx'[q].kind # "deactivate"
           => tx'[q] = tx[q] /\ SessionKept(tx[q].session)
  PROVE  \A q \in Requests : TouchRight(q)'
BY TouchStays DEF StaffIInv, StaffRows

LEMMA LockedBy ==
  ASSUME S!SessionsAssumption, StaffRows, NEW s \in StaffSessionIds, ~S!SessionLocked(s),
         NEW q \in Requests, tx[q] # None, tx[q].kind # "deactivate"
  PROVE  tx[q].session # s
BY TxKinds DEF S!SessionLocked

LEMMA LogoutRight ==
  ASSUME S!SessionsAssumption, StaffIInv, NEW s \in StaffSessionIds, S!Logout(s) PROVE StaffIInv'
<1>1. StaffRows /\ UNCHANGED <<active, codes, chal, tx, clock>> /\ S!Revoke({s}) /\ S!Live(s)
      /\ ~S!SessionLocked(s)
  BY DEF S!Logout, StaffIInv
<1>2. /\ rows' \in [StaffSessionIds -> S!SessionRows \union {None}]
      /\ SessionEnds(s) /\ \A z \in StaffSessionIds \ {s} : SessionKept(z)
  BY <1>1, RevokeRows
<1>3. SessionStep
  BY <1>2 DEF SessionStep
<1>4. LocksExclusive'
  BY <1>1, LocksStay DEF StaffIInv
<1>5. \A q \in Requests : tx'[q] # None /\ tx'[q].kind # "deactivate"
        => tx'[q] = tx[q] /\ SessionKept(tx[q].session)
  BY <1>1, <1>2, LockedBy, TxKinds
<1> QED
  BY <1>1, <1>2, <1>3, <1>4, <1>5, TouchesStay, LiveStaysActive, StaffQuiet
  DEF StaffRows

LEMMA TouchRuns ==
  ASSUME S!SessionsAssumption, StaffIInv, NEW r \in Requests, NEW kind \in {"me", "refresh"},
         NEW s \in StaffSessionIds, S!Touch(r, kind, s)
  PROVE  StaffIInv'
<1>1. /\ StaffRows /\ UNCHANGED <<active, codes, chal, clock>> /\ tx[r] = None /\ S!Live(s)
      /\ ~S!SessionLocked(s)
      /\ kind = "refresh" => rows[s].generation < MaxRefresh
  BY DEF S!Touch, StaffIInv
<1>2. CASE S!Revoke({s}) /\ UNCHANGED tx
  <2>1. /\ rows' \in [StaffSessionIds -> S!SessionRows \union {None}]
        /\ SessionEnds(s) /\ \A z \in StaffSessionIds \ {s} : SessionKept(z)
    BY <1>1, <1>2, RevokeRows
  <2>2. SessionStep
    BY <2>1 DEF SessionStep
  <2>3. LocksExclusive'
    BY <1>2, LocksStay DEF StaffIInv
  <2>4. \A q \in Requests : tx'[q] # None /\ tx'[q].kind # "deactivate"
          => tx'[q] = tx[q] /\ SessionKept(tx[q].session)
    BY <1>1, <1>2, <2>1, LockedBy, TxKinds
  <2> QED
    BY <1>1, <1>2, <2>1, <2>2, <2>3, <2>4, TouchesStay, LiveStaysActive, StaffQuiet
    DEF StaffRows
<1>3. ASSUME NEW t \in (clock - MaxLag) .. clock, t >= rows[s].opened, ~S!Over(s, t), UNCHANGED rows,
             tx' = [tx EXCEPT ![r] = [kind |-> kind, session |-> s, clock |-> t]]
      PROVE  StaffIInv'
  <2> DEFINE new == [kind |-> kind, session |-> s, clock |-> t]
  <2>1. rows[s] # None /\ rows[s].opened \in Nat /\ rows[s].expires \in Nat
    BY <1>1, SessFields DEF S!Live
  <2>2. t \in Nat /\ t <= clock /\ t < rows[s].expires
    BY <1>1, <1>3, <2>1 DEF StaffRows, S!SessionsAssumption, S!Over
  <2>3. new \in S!Touches /\ new # None /\ new.kind = kind /\ new.session = s /\ new.clock = t
    BY <2>2 DEF S!Touches, S!SessionsAssumption
  <2>4. tx' = [tx EXCEPT ![r] = new]
    BY <1>3
  <2> HIDE DEF new
  <2>5. SessionStep
    BY <1>3 DEF SessionStep, SessionKept
  <2>6. tx' \in [Requests -> S!Touches \union S!Deactivations \union {None}]
    BY <1>1, <2>3, <2>4 DEF StaffRows
  <2>7. LocksExclusive'
    BY <1>1, <2>3, <2>4, LockedBy DEF StaffIInv, LocksExclusive, StaffRows
  <2>8. ASSUME NEW q \in Requests PROVE TouchRight(q)'
    <3>1. CASE q = r
      <4>1. tx'[q] = new
        BY <1>1, <2>4, <3>1 DEF StaffRows
      <4> QED BY <1>1, <1>3, <2>1, <2>2, <2>3, <4>1 DEF TouchRight, S!Live
    <3>2. CASE q # r
      <4>1. tx'[q] = tx[q] /\ TouchRight(q)
        BY <1>1, <2>4, <3>2 DEF StaffRows, StaffIInv
      <4> QED BY <1>1, <1>3, <4>1 DEF TouchRight, S!Live
    <3> QED BY <3>1, <3>2
  <2> QED
    BY <1>1, <1>3, <2>5, <2>6, <2>7, <2>8, LiveStaysActive, StaffQuiet
    DEF StaffRows
<1> QED BY <1>2, <1>3 DEF S!Touch

\* The end of a transaction that had locked a session.
LEMMA TouchEnds ==
  ASSUME S!SessionsAssumption, StaffIInv, NEW r \in Requests, tx[r] # None, tx[r].kind # "deactivate",
         tx' = [tx EXCEPT ![r] = None], UNCHANGED <<active, codes, chal, clock>>,
         rows' \in [StaffSessionIds -> S!SessionRows \union {None}],
         \A s \in StaffSessionIds \ {tx[r].session} : SessionKept(s),
         LET s == tx[r].session IN SessionKept(s) \/ SessionEnds(s) \/ SessionMoves(s)
  PROVE  StaffIInv'
<1>1. StaffRows /\ tx[r].session \in StaffSessionIds
  BY TxKinds DEF StaffIInv
<1>2. SessionStep
  BY <1>1 DEF SessionStep
<1>3. \A q \in Requests : tx'[q] = tx[q] \/ tx'[q] = None
  BY <1>1 DEF StaffRows
<1>4. LocksExclusive'
  BY <1>3, LocksStay DEF StaffIInv
<1>5. \A q \in Requests : tx'[q] # None /\ tx'[q].kind # "deactivate"
        => tx'[q] = tx[q] /\ SessionKept(tx[q].session)
  <2> SUFFICES ASSUME NEW q \in Requests, tx'[q] # None, tx'[q].kind # "deactivate"
               PROVE  tx'[q] = tx[q] /\ SessionKept(tx[q].session)
    OBVIOUS
  <2>1. q # r /\ tx'[q] = tx[q]
    BY <1>1 DEF StaffRows
  <2>2. tx[q].session \in StaffSessionIds /\ tx[q].session # tx[r].session
    BY <1>1, <2>1, TxKinds DEF StaffIInv, LocksExclusive
  <2> QED BY <2>1, <2>2
<1>6. tx' \in [Requests -> S!Touches \union S!Deactivations \union {None}]
  BY <1>1 DEF StaffRows
<1> QED
  BY <1>1, <1>2, <1>4, <1>5, <1>6, TouchesStay, LiveStaysActive, StaffQuiet
  DEF StaffRows

LEMMA MeRefreshRight ==
  ASSUME S!SessionsAssumption, StaffIInv, NEW r \in Requests, S!Me(r) \/ S!Refresh(r)
  PROVE  StaffIInv'
<1> DEFINE s == tx[r].session
<1>1. /\ tx[r] # None /\ tx[r].kind \in {"me", "refresh"}
      /\ tx' = [tx EXCEPT ![r] = None] /\ UNCHANGED <<active, codes, chal, clock>>
  BY DEF S!Me, S!Refresh
<1>2. /\ StaffRows /\ s \in StaffSessionIds /\ tx[r].clock \in Nat /\ S!Live(s)
      /\ rows[s].opened <= tx[r].clock /\ tx[r].clock <= clock
      /\ tx[r].clock < rows[s].expires
      /\ tx[r].kind = "refresh" => rows[s].generation < MaxRefresh
      /\ rows[s].generation <= MaxRefresh
  BY <1>1, TxKinds DEF StaffIInv, TouchRight, StaffSessionRight, S!Live
<1>3. rows[s] \in S!SessionRows /\ rows[s].generation \in Nat
  BY <1>2, SessFields DEF S!Live
<1>4. \/ UNCHANGED rows
      \/ S!Revoke({s})
      \/ rows' = [rows EXCEPT ![s].last = tx[r].clock]
      \/ tx[r].kind = "refresh" /\ rows' = [rows EXCEPT ![s] = S!Rotated(s, tx[r].clock)]
  BY DEF S!Me, S!Refresh
<1>5. ASSUME NEW g \in Nat, g <= MaxRefresh,
             rows' = [rows EXCEPT ![s] = [rows[s] EXCEPT !.generation = g, !.last = tx[r].clock]]
      PROVE  StaffIInv'
  <2>1. [rows[s] EXCEPT !.generation = g, !.last = tx[r].clock] \in S!SessionRows
    BY <1>2, <1>3 DEF S!SessionRows
  <2>2. rows' \in [StaffSessionIds -> S!SessionRows \union {None}]
    BY <1>2, <1>5, <2>1 DEF StaffRows
  <2>3. \A z \in StaffSessionIds \ {s} : SessionKept(z)
    BY <1>2, <1>5 DEF SessionKept, StaffRows
  <2>4. SessionMoves(s)
    BY <1>2, <1>5 DEF SessionMoves, StaffRows
  <2> QED BY <1>1, <2>2, <2>3, <2>4, TouchEnds
<1>6. CASE UNCHANGED rows
  BY <1>1, <1>2, <1>6, TouchEnds DEF SessionKept, StaffRows
<1>7. CASE S!Revoke({s})
  BY <1>1, <1>2, <1>7, TouchEnds, RevokeRows
<1>8. CASE rows' = [rows EXCEPT ![s].last = tx[r].clock]
  <2>1. [rows[s] EXCEPT !.last = tx[r].clock]
          = [rows[s] EXCEPT !.generation = rows[s].generation, !.last = tx[r].clock]
    BY <1>3 DEF S!SessionRows
  <2> QED BY <1>2, <1>3, <1>5, <1>8, <2>1
<1>9. CASE tx[r].kind = "refresh" /\ rows' = [rows EXCEPT ![s] = S!Rotated(s, tx[r].clock)]
  <2>1. S!Rotated(s, tx[r].clock)
          = [rows[s] EXCEPT !.generation = rows[s].generation + 1, !.last = tx[r].clock]
    BY DEF S!Rotated
  <2>2. rows[s].generation + 1 \in Nat /\ rows[s].generation + 1 <= MaxRefresh
    BY <1>2, <1>3, <1>9 DEF S!SessionsAssumption
  <2> QED BY <1>5, <1>9, <2>1, <2>2
<1> QED BY <1>4, <1>6, <1>7, <1>8, <1>9

LEMMA BeginDeactivateRight ==
  ASSUME S!SessionsAssumption, StaffIInv, NEW r \in Requests, NEW a \in Agents, S!BeginDeactivate(r, a)
  PROVE  StaffIInv'
<1> DEFINE new == [kind |-> "deactivate", agent |-> a]
<1>1. /\ StaffRows /\ UNCHANGED <<active, codes, chal, rows, clock>> /\ tx[r] = None
      /\ ~S!AgentLocked(a) /\ tx' = [tx EXCEPT ![r] = new]
  BY DEF S!BeginDeactivate, StaffIInv
<1>2. new \in S!Deactivations /\ new # None /\ new.kind = "deactivate" /\ new.agent = a
  BY DEF S!Deactivations, S!SessionsAssumption
<1> HIDE DEF new
<1>3. tx' \in [Requests -> S!Touches \union S!Deactivations \union {None}]
  BY <1>1, <1>2 DEF StaffRows
<1>4. SessionStep
  BY <1>1 DEF SessionStep, SessionKept
<1>5. LocksExclusive'
  BY <1>1, <1>2 DEF StaffIInv, LocksExclusive, StaffRows, S!AgentLocked
<1>6. \A q \in Requests : tx'[q] # None /\ tx'[q].kind # "deactivate"
        => tx'[q] = tx[q] /\ SessionKept(tx[q].session)
  BY <1>1, <1>2 DEF StaffRows, SessionKept
<1> QED
  BY <1>1, <1>3, <1>4, <1>5, <1>6, TouchesStay, LiveStaysActive, StaffQuiet
  DEF StaffRows

LEMMA DeactivateRight ==
  ASSUME S!SessionsAssumption, StaffIInv, NEW r \in Requests, S!Deactivate(r)
  PROVE  StaffIInv'
<1> DEFINE a == tx[r].agent
           ended == {s \in S!SessionsOf(a) : S!Live(s)}
<1>1. /\ StaffRows /\ UNCHANGED <<codes, chal, clock>>
      /\ tx[r] # None /\ tx[r].kind = "deactivate"
      /\ \A s \in S!SessionsOf(a) : S!Live(s) => ~S!SessionLocked(s)
      /\ active' = [active EXCEPT ![a] = FALSE]
      /\ S!Revoke(ended) /\ tx' = [tx EXCEPT ![r] = None]
  BY DEF S!Deactivate, S!EndSessions, StaffIInv
<1>2. a \in Agents /\ ended \in SUBSET StaffSessionIds /\ \A s \in ended : S!Live(s) /\ ~S!SessionLocked(s)
  BY <1>1, TxKinds DEF S!SessionsOf
<1>3. /\ rows' \in [StaffSessionIds -> S!SessionRows \union {None}]
      /\ \A s \in ended : SessionEnds(s)
      /\ \A s \in StaffSessionIds \ ended : SessionKept(s)
  <2> HIDE DEF ended
  <2> QED BY <1>1, <1>2, RevokeRows
<1>4. SessionStep
  BY <1>2, <1>3 DEF SessionStep
<1>5. LiveIsActive
  <2> SUFFICES ASSUME NEW s \in StaffSessionIds, rows'[s] # None, ~rows'[s].revoked
               PROVE  active'[rows'[s].user]
    BY DEF LiveIsActive
  <2>1. s \notin ended
    BY <1>1, <1>3, EndedFields
  <2>2. rows'[s] = rows[s]
    BY <1>3, <2>1 DEF SessionKept
  <2>3. rows[s].user # a
    BY <2>1, <2>2 DEF S!SessionsOf, S!Live
  <2>4. active[rows[s].user] /\ rows[s].user \in Agents
    BY <1>1, <2>2, SessFields DEF StaffIInv, StaffSessionRight
  <2> QED BY <1>1, <2>2, <2>3, <2>4 DEF StaffRows
<1>6. LocksExclusive'
  <2>1. \A q \in Requests : tx'[q] = tx[q] \/ tx'[q] = None
    BY <1>1 DEF StaffRows
  <2> QED BY <2>1, LocksStay DEF StaffIInv
<1>7. \A q \in Requests : tx'[q] # None /\ tx'[q].kind # "deactivate"
        => tx'[q] = tx[q] /\ SessionKept(tx[q].session)
  <2> SUFFICES ASSUME NEW q \in Requests, tx'[q] # None, tx'[q].kind # "deactivate"
               PROVE  tx'[q] = tx[q] /\ SessionKept(tx[q].session)
    OBVIOUS
  <2>1. tx'[q] = tx[q]
    BY <1>1 DEF StaffRows
  <2>2. tx[q].session \in StaffSessionIds /\ tx[q].session \notin ended
    BY <1>1, <1>2, <2>1, TxKinds, LockedBy
  <2> QED BY <1>3, <2>1, <2>2
<1>8. /\ active' \in [Agents -> BOOLEAN]
      /\ tx' \in [Requests -> S!Touches \union S!Deactivations \union {None}]
  BY <1>1 DEF StaffRows
<1> QED BY <1>1, <1>3, <1>4, <1>5, <1>6, <1>7, <1>8, TouchesStay, StaffQuiet

LEMMA AbortRight ==
  ASSUME S!SessionsAssumption, StaffIInv, NEW r \in Requests, NEW q \in Requests, S!Abort(r, q)
  PROVE  StaffIInv'
<1>1. /\ StaffRows /\ UNCHANGED <<active, codes, chal, rows, clock>>
      /\ \A p \in Requests : tx'[p] = tx[p] \/ tx'[p] = None
      /\ tx' \in [Requests -> S!Touches \union S!Deactivations \union {None}]
  BY DEF S!Abort, StaffIInv, StaffRows
<1>2. SessionStep
  BY <1>1 DEF SessionStep, SessionKept
<1>3. LocksExclusive'
  BY <1>1, LocksStay DEF StaffIInv
<1>4. \A p \in Requests : tx'[p] # None /\ tx'[p].kind # "deactivate"
        => tx'[p] = tx[p] /\ SessionKept(tx[p].session)
  BY <1>1 DEF SessionKept
<1> QED
  BY <1>1, <1>2, <1>3, <1>4, TouchesStay, LiveStaysActive, StaffQuiet
  DEF StaffRows

LEMMA StaffInductive ==
  ASSUME S!SessionsAssumption, StaffIInv, [S!Next]_(S!vars)
  PROVE  StaffIInv'
<1>1. CASE S!Next
  BY <1>1, TickRight, ActivateRight, LoginRight, LogoutRight, CompleteLoginRight, TouchRuns,
     MeRefreshRight, BeginDeactivateRight, DeactivateRight, AbortRight
  DEF S!Next
<1>2. CASE UNCHANGED S!vars
  <2>1. StaffRows' /\ clock <= clock'
    BY <1>2 DEF S!vars, StaffIInv, StaffRows
  <2> QED BY <1>2, <2>1, StaffElsewhere DEF S!vars, StaffIInv, Spending, ChallengesCount
<1> QED BY <1>1, <1>2

LEMMA StaffImplies ==
  ASSUME S!SessionsAssumption, StaffIInv PROVE S!StaffSessionsInvariant
<1>1. StaffRows
  BY DEF StaffIInv
<1>2. S!SessionsTypeOK
  <2>1. \A c \in LoginChallenges : chal[c] # None =>
          chal[c].attempts \in 0 .. MaxAttempts /\ (chal[c].attempts = MaxAttempts => ~chal[c].open)
    BY <1>1, ChalFields DEF StaffIInv, ChallengesCount, S!SessionsAssumption
  <2>2. \A s \in S!Opened : rows[s].generation \in 0 .. MaxRefresh /\ rows[s].last \in rows[s].opened .. clock
    BY <1>1, SessFields DEF StaffIInv, StaffSessionRight, S!Opened, S!SessionsAssumption, StaffRows
  <2>3. \A r, q \in Requests : r # q /\ tx[r] # None /\ tx[q] # None =>
          tx[r] # tx[q] \/ tx[r].kind # "deactivate"
    BY DEF StaffIInv, LocksExclusive
  <2> QED BY <1>1, <2>1, <2>2, <2>3 DEF S!SessionsTypeOK, StaffRows
<1>3. S!InactiveHasNoSession
  BY DEF S!InactiveHasNoSession, StaffIInv, StaffSessionRight, S!SessionsOf, S!Live
<1>4. S!LifetimeIsAbsolute
  BY DEF S!LifetimeIsAbsolute, S!Opened, StaffIInv, StaffSessionRight
<1> QED BY <1>2, <1>3, <1>4 DEF StaffIInv, S!StaffSessionsInvariant

\* A session that has ended is never written again.
LEMMA StaffRevoked ==
  ASSUME S!SessionsAssumption, StaffIInv, S!Next
  PROVE  S!RevokedKept
<1>1. StaffRows
  BY DEF StaffIInv
<1>2. ASSUME NEW s \in StaffSessionIds, NEW row, rows' = [rows EXCEPT ![s] = row],
             rows[s] = None \/ S!Live(s)
      PROVE  S!RevokedKept
  BY <1>1, <1>2 DEF S!RevokedKept, S!Live, StaffRows
<1>3. ASSUME NEW ss \in SUBSET StaffSessionIds, \A s \in ss : S!Live(s), S!Revoke(ss)
      PROVE  S!RevokedKept
  BY <1>3 DEF S!RevokedKept, S!Live, S!Revoke
<1>4. CASE UNCHANGED rows
  BY <1>4 DEF S!RevokedKept
<1>5. ASSUME NEW r \in Requests, S!Me(r) \/ S!Refresh(r)
      PROVE  S!RevokedKept
  <2>1. tx[r].session \in StaffSessionIds /\ S!Live(tx[r].session)
    BY <1>1, <1>5, TxKinds DEF S!Me, S!Refresh, StaffIInv, TouchRight
  <2>2. \/ UNCHANGED rows
        \/ S!Revoke({tx[r].session})
        \/ rows' = [rows EXCEPT ![tx[r].session].last = tx[r].clock]
        \/ rows' = [rows EXCEPT ![tx[r].session] = S!Rotated(tx[r].session, tx[r].clock)]
    BY <1>5 DEF S!Me, S!Refresh
  <2> QED BY <1>2, <1>3, <1>4, <2>1, <2>2
<1>6. ASSUME NEW r \in Requests, S!Deactivate(r)
      PROVE  S!RevokedKept
  BY <1>3, <1>6 DEF S!Deactivate, S!EndSessions, S!SessionsOf
<1>7. ASSUME NEW c \in LoginChallenges, NEW s \in StaffSessionIds, S!CompleteLogin(c, s)
      PROVE  S!RevokedKept
  BY <1>2, <1>4, <1>7 DEF S!CompleteLogin, S!OpenSession, S!Failed
<1>8. ASSUME NEW s \in StaffSessionIds, S!Logout(s)
      PROVE  S!RevokedKept
  BY <1>3, <1>8 DEF S!Logout
<1>9. ASSUME NEW r \in Requests, NEW s \in StaffSessionIds, NEW kind, S!Touch(r, kind, s)
      PROVE  S!RevokedKept
  BY <1>3, <1>4, <1>9 DEF S!Touch
<1> QED
  BY <1>4, <1>5, <1>6, <1>7, <1>8, <1>9
  DEF S!Next, S!Tick, S!Activate, S!Login, S!BeginDeactivate, S!Abort

-----------------------------------------------------------------------------
(* Invitations and accounts of the staff: the instance I of StaffInvitations. *)

BootRuns ==
  [email : Emails, clock : Nat, step : 0 .. 4, holds : BOOLEAN, seen : SUBSET Invitations]

\* Types of the tables; a run of the bootstrap command has an old clock.
InvitedRows ==
  /\ clock \in 0 .. InvitationTime
  /\ inv \in [Invitations -> I!InvitationRows \union {None}]
  /\ chal \in [Invitations -> I!EnrollmentRows \union {None}]
  /\ account \in [Emails -> I!AccountRows \union {None}]
  /\ boot \in [Operators -> BootRuns \union {None}]
  /\ \A o \in Operators : boot[o] # None => boot[o].clock <= clock

\* What the row of an invitation and its challenge say of each other.
InvitationRight(i) ==
  /\ inv[i] # None =>
       /\ inv[i].status = "revoked" => inv[i].delivery = "failed"
       /\ inv[i].delivery = "failed" => inv[i].status \in {"revoked", "expired"}
  /\ chal[i] # None =>
       /\ inv[i] # None /\ inv[i].status # "pending"
       /\ chal[i].attempts <= MaxAttempts
       /\ chal[i].attempts = MaxAttempts => ~chal[i].open

\* An account is the one its invitation was for, and came of its challenge.
AccountRight(e) ==
  account[e] # None =>
    /\ inv[account[e].by] # None
    /\ inv[account[e].by].email = e /\ inv[account[e].by].role = account[e].role
    /\ chal[account[e].by] # None /\ ~chal[account[e].by].open

\* Invitation i stands for address e: as a link that can be opened, as an enrolment
\* that has not run out, even if it can no longer succeed, or as the account.
Stands(i, e) ==
  \/ inv[i] # None /\ inv[i].email = e /\ inv[i].status = "pending" /\ inv[i].expires > clock
  \/ /\ inv[i] # None /\ inv[i].email = e /\ inv[i].status = "accepted"
     /\ chal[i] # None /\ chal[i].expires > clock
  \/ account[e] # None /\ account[e].by = i
OneStands == \A e \in Emails : \A i, k \in Invitations : Stands(i, e) /\ Stands(k, e) => i = k

OnePlatformPending == \A i, k \in I!PlatformPending : i = k
PlatformAdmins == {e \in Emails : account[e] # None /\ account[e].role = "platform_admin"}
OnePlatformAccount == \A d, e \in PlatformAdmins : d = e

InvitedIInv ==
  /\ InvitedRows
  /\ \A i \in Invitations : InvitationRight(i)
  /\ \A e \in Emails : AccountRight(e)
  /\ OneStands
  /\ OnePlatformPending
  /\ OnePlatformAccount

\* Nobody stands for the address of a bootstrap run that is in a transaction, and no
\* other run is in one for it.
HeldRight ==
  \A o \in Operators : boot[o] # None /\ boot[o].holds =>
    /\ boot[o].step \in 1 .. 3
    /\ \A k \in boot[o].seen : inv[k] # None
    /\ \A k \in Invitations : ~Stands(k, boot[o].email)
    /\ \A p \in Operators :
         boot[p] # None /\ boot[p].holds /\ boot[p].email = boot[o].email => p = o

LEMMA InvFields ==
  ASSUME InvitedRows, NEW i \in Invitations, inv[i] # None
  PROVE  /\ inv[i] \in I!InvitationRows
         /\ inv[i].email \in Emails /\ inv[i].role \in I!AllRoles /\ inv[i].expires \in Nat
         /\ inv[i].status \in {"pending", "accepted", "expired", "revoked"}
         /\ inv[i].delivery \in {"pending", "sent", "failed"}
BY DEF InvitedRows, I!InvitationRows

LEMMA EnrolFields ==
  ASSUME InvitedRows, NEW i \in Invitations, chal[i] # None
  PROVE  /\ chal[i] \in I!EnrollmentRows
         /\ chal[i].expires \in Nat /\ chal[i].attempts \in Nat /\ chal[i].open \in BOOLEAN
BY DEF InvitedRows, I!EnrollmentRows

LEMMA AccountFields ==
  ASSUME InvitedRows, NEW e \in Emails, account[e] # None
  PROVE  account[e].by \in Invitations /\ account[e].role \in I!AllRoles
BY DEF InvitedRows, I!AccountRows

LEMMA InvitedInit == ASSUME I!InvitationsAssumption, I!Init PROVE InvitedIInv /\ HeldRight
BY DEF I!Init, HeldRight, InvitedIInv, InvitedRows, InvitationRight, AccountRight, OneStands, Stands,
   OnePlatformPending, I!PlatformPending, OnePlatformAccount, PlatformAdmins, I!InvitationsAssumption

-----------------------------------------------------------------------------
\* A row that is rewritten only loses: it is never pending or accepted anew.
Recedes(i, row) ==
  \/ row = inv[i]
  \/ /\ inv[i] # None /\ row # None
     /\ row.email = inv[i].email /\ row.role = inv[i].role /\ row.expires = inv[i].expires
     /\ row.status = "revoked" => row.delivery = "failed"
     /\ row.delivery = "failed" => row.status \in {"revoked", "expired"}
     /\ row.status \in {inv[i].status, "expired", "revoked"}

\* A challenge that is rewritten was open, keeps its term and counts.
Counts(i) ==
  \/ chal'[i] = chal[i]
  \/ /\ chal[i] # None /\ chal'[i] # None
     /\ chal[i].open /\ chal'[i].expires = chal[i].expires
     /\ chal'[i].attempts <= MaxAttempts
     /\ chal'[i].attempts = MaxAttempts => ~chal'[i].open

\* No row is deleted, and nobody comes to stand for an address but for those in es.
Anew(es) ==
  /\ \A k \in Invitations : inv[k] # None => inv'[k] # None
  /\ \A k \in Invitations, d \in Emails \ es : Stands(k, d)' => Stands(k, d)

\* What a run in a transaction relies on stays when it is not about its address.
LEMMA HeldKept ==
  ASSUME InvitedIInv, HeldRight, NEW es, Anew(es),
         \A o \in Operators :
           boot'[o] # None /\ boot'[o].holds => boot'[o] = boot[o] /\ boot[o].email \notin es
  PROVE  HeldRight'
<1> SUFFICES ASSUME NEW o \in Operators, boot'[o] # None, boot'[o].holds
             PROVE  /\ boot'[o].step \in 1 .. 3
                    /\ \A k \in boot'[o].seen : inv'[k] # None
                    /\ \A k \in Invitations : ~Stands(k, boot[o].email)'
                    /\ \A p \in Operators :
                         boot'[p] # None /\ boot'[p].holds /\ boot'[p].email = boot'[o].email => p = o
  BY DEF HeldRight
<1>1. boot'[o] = boot[o] /\ boot[o] # None /\ boot[o].holds /\ boot[o].email \notin es
  OBVIOUS
<1>2. /\ boot[o].step \in 1 .. 3
      /\ \A k \in boot[o].seen : inv[k] # None
      /\ \A k \in Invitations : ~Stands(k, boot[o].email)
  BY <1>1 DEF HeldRight
<1>3. PICK e \in Emails : e = boot[o].email
  BY <1>1 DEF InvitedIInv, InvitedRows, BootRuns
<1>4. \A k \in Invitations : ~Stands(k, boot[o].email)'
  <2>1. \A k \in Invitations : ~Stands(k, e)'
    BY <1>1, <1>2, <1>3 DEF Anew
  <2>2. boot'[o].email = e
    BY <1>1, <1>3
  <2> QED BY <2>1, <2>2 DEF Stands
<1>5. \A p \in Operators :
        boot'[p] # None /\ boot'[p].holds /\ boot'[p].email = boot'[o].email => p = o
  <2> SUFFICES ASSUME NEW p \in Operators, boot'[p] # None, boot'[p].holds,
                      boot'[p].email = boot'[o].email
               PROVE  p = o
    OBVIOUS
  <2>1. boot'[p] = boot[p]
    OBVIOUS
  <2> QED BY <1>1, <2>1 DEF HeldRight
<1>6. \A k \in boot[o].seen : inv'[k] # None
  <2>1. boot[o].seen \subseteq Invitations
    BY <1>1 DEF InvitedIInv, InvitedRows, BootRuns
  <2> QED BY <1>2, <2>1 DEF Anew
<1> QED BY <1>1, <1>2, <1>4, <1>5, <1>6

\* What holds of one row is kept by what recedes and counts.
LEMMA RecedesRight ==
  ASSUME I!InvitationsAssumption, InvitedIInv, NEW i \in Invitations, Recedes(i, inv'[i]), Counts(i)
  PROVE  InvitationRight(i)'
<1>1. InvitedRows /\ InvitationRight(i)
  BY DEF InvitedIInv
<1> QED BY <1>1, InvFields DEF InvitationRight, Recedes, Counts

LEMMA RecedesStands ==
  ASSUME I!InvitationsAssumption, InvitedIInv, NEW i \in Invitations, NEW e \in Emails,
         Recedes(i, inv'[i]), Counts(i), clock' \in Nat, clock <= clock', account'[e] = account[e], Stands(i, e)'
  PROVE  Stands(i, e)
<1>1. InvitedRows /\ InvitationRight(i) /\ clock \in Nat
  BY DEF InvitedIInv, InvitedRows
<1>2. CASE inv'[i] # None /\ inv'[i].email = e /\ inv'[i].status = "pending" /\ inv'[i].expires > clock'
  <2>1. inv[i] # None /\ inv[i].email = e /\ inv[i].status = "pending" /\ inv[i].expires = inv'[i].expires
    BY <1>2 DEF Recedes
  <2> QED BY <1>1, <1>2, <2>1, InvFields DEF Stands
<1>3. CASE /\ inv'[i] # None /\ inv'[i].email = e /\ inv'[i].status = "accepted"
           /\ chal'[i] # None /\ chal'[i].expires > clock'
  <2>1. inv[i] # None /\ inv[i].email = e /\ inv[i].status = "accepted"
    BY <1>3 DEF Recedes
  <2>2. chal[i] # None /\ chal[i].expires = chal'[i].expires
    BY <1>3 DEF Counts
  <2> QED BY <1>1, <1>3, <2>1, <2>2, EnrolFields DEF Stands
<1>4. CASE account'[e] # None /\ account'[e].by = i
  BY <1>4 DEF Stands
<1> QED BY <1>2, <1>3, <1>4 DEF Stands

\* An account's invitation and challenge are not rewritten in what matters.
LEMMA RecedesAccount ==
  ASSUME I!InvitationsAssumption, InvitedIInv, NEW e \in Emails, account'[e] = account[e],
         account[e] # None => Recedes(account[e].by, inv'[account[e].by]) /\ Counts(account[e].by)
  PROVE  AccountRight(e)'
<1>1. AccountRight(e)
  BY DEF InvitedIInv
<1> QED BY <1>1 DEF AccountRight, Recedes, Counts

LEMMA RecedesPlatform ==
  ASSUME InvitedIInv, \A i \in Invitations : Recedes(i, inv'[i])
  PROVE  OnePlatformPending'
<1>1. \A i \in Invitations : i \in I!PlatformPending' => i \in I!PlatformPending
  BY DEF I!PlatformPending, Recedes
<1> QED BY <1>1 DEF InvitedIInv, OnePlatformPending, I!PlatformPending

\* Steps that only rewrite rows.
LEMMA InvitedFrame ==
  ASSUME I!InvitationsAssumption, InvitedIInv, InvitedRows', clock <= clock', UNCHANGED account,
         \A i \in Invitations : Recedes(i, inv'[i]) /\ Counts(i)
  PROVE  InvitedIInv' /\ Anew({})
<1>1. clock' \in Nat
  BY DEF InvitedRows
<1>2. \A i \in Invitations : InvitationRight(i)'
  BY RecedesRight
<1>3. \A e \in Emails : AccountRight(e)'
  BY RecedesAccount, AccountFields DEF InvitedIInv
<1>4. \A k \in Invitations, d \in Emails : Stands(k, d)' => Stands(k, d)
  BY <1>1, RecedesStands
<1>5. OneStands'
  BY <1>4 DEF InvitedIInv, OneStands
<1>6. OnePlatformPending' /\ OnePlatformAccount'
  BY RecedesPlatform DEF InvitedIInv, OnePlatformAccount, PlatformAdmins
<1>7. Anew({})
  BY <1>4 DEF Anew, Recedes
<1> QED BY <1>2, <1>3, <1>5, <1>6, <1>7 DEF InvitedIInv

-----------------------------------------------------------------------------
\* An address that a transaction finds free with an old clock is free now: nobody
\* but own stands for it.
LEMMA FreeIsFree ==
  ASSUME I!InvitationsAssumption, InvitedIInv, NEW e \in Emails, NEW t \in Nat, t <= clock, NEW own,
         ~I!HasAccount(e),
         (I!LiveAt(I!PendingOf(e), t) \union I!EnrollingAt(e, t)) \ own = {},
         NEW i \in Invitations, Stands(i, e)
  PROVE  i \in own
<1>1. InvitedRows /\ clock \in Nat
  BY DEF InvitedIInv, InvitedRows
<1>2. CASE inv[i] # None /\ inv[i].email = e /\ inv[i].status = "pending" /\ inv[i].expires > clock
  <2>1. inv[i].expires > t
    BY <1>1, <1>2, InvFields
  <2> QED BY <1>2, <2>1 DEF I!LiveAt, I!PendingOf
<1>3. CASE /\ inv[i] # None /\ inv[i].email = e /\ inv[i].status = "accepted"
           /\ chal[i] # None /\ chal[i].expires > clock
  <2>1. chal[i].expires > t
    BY <1>1, <1>3, EnrolFields
  <2> QED BY <1>3, <2>1 DEF I!EnrollingAt
<1> QED BY <1>2, <1>3 DEF Stands, I!HasAccount

\* A row that is set to expired recedes, whatever it was.
LEMMA ExpiredRow ==
  ASSUME I!InvitationsAssumption, InvitedIInv, NEW i \in Invitations, inv[i] # None
  PROVE  /\ [inv[i] EXCEPT !.status = "expired"] \in I!InvitationRows
         /\ Recedes(i, [inv[i] EXCEPT !.status = "expired"])
<1> DEFINE row == [inv[i] EXCEPT !.status = "expired"]
<1>1. inv[i] \in I!InvitationRows
  BY InvFields DEF InvitedIInv
<1>2. row \in I!InvitationRows
  BY <1>1 DEF I!InvitationRows
<1>3. /\ row.status = "expired" /\ row.email = inv[i].email /\ row.role = inv[i].role
      /\ row.expires = inv[i].expires
  BY <1>1 DEF I!InvitationRows
<1>4. row # None
  BY <1>2 DEF I!InvitationsAssumption
<1> HIDE DEF row
<1>5. Recedes(i, row)
  BY <1>3, <1>4 DEF Recedes
<1> QED BY <1>2, <1>5 DEF row

\* Rows that lapse recede.
LEMMA LapsedRows ==
  ASSUME I!InvitationsAssumption, InvitedIInv, NEW is, NEW t,
         \A i \in is : inv[i] # None /\ inv[i].status = "pending"
  PROVE  /\ I!Lapsed(is, t) \in [Invitations -> I!InvitationRows \union {None}]
         /\ \A i \in Invitations : Recedes(i, I!Lapsed(is, t)[i])
         /\ \A i \in Invitations : i \notin is => I!Lapsed(is, t)[i] = inv[i]
<1>1. InvitedRows
  BY DEF InvitedIInv
<1> SUFFICES ASSUME NEW i \in Invitations
    PROVE  /\ I!Lapsed(is, t)[i] \in I!InvitationRows \union {None}
           /\ Recedes(i, I!Lapsed(is, t)[i])
           /\ i \notin is => I!Lapsed(is, t)[i] = inv[i]
  BY DEF I!Lapsed
<1>2. CASE i \in is /\ inv[i].expires <= t
  <2>1. inv[i] # None
    BY <1>2
  <2>2. I!Lapsed(is, t)[i] = [inv[i] EXCEPT !.status = "expired"]
    BY <1>2 DEF I!Lapsed
  <2> QED BY <1>1, <1>2, <2>1, <2>2, ExpiredRow
<1>3. CASE ~(i \in is /\ inv[i].expires <= t)
  BY <1>1, <1>3 DEF I!Lapsed, InvitedRows, Recedes
<1> QED BY <1>2, <1>3

BootRows ==
  /\ boot \in [Operators -> BootRuns \union {None}]
  /\ \A o \in Operators : boot[o] # None => boot[o].clock <= clock

\* A new invitation, with the other writes of the same transaction, for an address
\* that nobody stands for.
LEMMA IssuedRight ==
  ASSUME I!InvitationsAssumption, InvitedIInv, NEW i \in Invitations, inv[i] = None,
         NEW e \in Emails, NEW role \in I!AllRoles, NEW t \in Nat,
         NEW rest \in [Invitations -> I!InvitationRows \union {None}],
         \A k \in Invitations : Recedes(k, rest[k]),
         inv' = [rest EXCEPT ![i] = I!Invitation(e, role, t)],
         UNCHANGED <<chal, account, clock>>, BootRows',
         \A k \in Invitations : ~Stands(k, e),
         role = "platform_admin" =>
           \A k \in Invitations :
             ~(rest[k] # None /\ rest[k].role = "platform_admin" /\ rest[k].status = "pending")
  PROVE  InvitedIInv' /\ Anew({e})
<1> DEFINE row == I!Invitation(e, role, t)
<1>1. /\ row.email = e /\ row.role = role /\ row.status = "pending" /\ row.delivery = "pending"
      /\ row \in I!InvitationRows /\ row # None
  <2>1. row \in I!InvitationRows
    BY DEF I!Invitation, I!InvitationRows, I!InvitationsAssumption
  <2> QED BY <2>1 DEF I!Invitation, I!InvitationsAssumption
<1> HIDE DEF row
<1>2. inv' = [rest EXCEPT ![i] = row]
  BY DEF row
<1>3. /\ inv' \in [Invitations -> I!InvitationRows \union {None}]
      /\ inv'[i] = row
      /\ \A k \in Invitations \ {i} : inv'[k] = rest[k]
      /\ \A k \in Invitations \ {i} : Recedes(k, inv'[k])
  BY <1>1, <1>2
<1>4. InvitedRows /\ InvitedRows' /\ clock \in Nat
  BY <1>3 DEF InvitedIInv, InvitedRows, BootRows
<1>5. chal[i] = None /\ \A k \in Invitations : Counts(k)
  BY DEF InvitedIInv, InvitationRight, Counts
<1>6. ASSUME NEW k \in Invitations PROVE InvitationRight(k)'
  <2>1. CASE k = i
    BY <1>1, <1>3, <1>5, <2>1 DEF InvitationRight
  <2>2. CASE k # i
    BY <1>3, <1>5, <2>2, RecedesRight
  <2> QED BY <2>1, <2>2
<1>7. ASSUME NEW d \in Emails PROVE AccountRight(d)'
  <2>1. account[d] # None => account[d].by \in Invitations \ {i}
    BY <1>4, AccountFields DEF InvitedIInv, AccountRight
  <2> QED BY <1>3, <1>5, <2>1, RecedesAccount
<1>8. OneStands' /\ Anew({e})
  <2>1. \A k \in Invitations \ {i}, d \in Emails : Stands(k, d)' => Stands(k, d)
    BY <1>3, <1>4, <1>5, RecedesStands
  <2>2. \A d \in Emails : Stands(i, d)' => d = e
    <3>1. \A d \in Emails : account[d] # None => account[d].by # i
      BY DEF InvitedIInv, AccountRight
    <3> QED BY <1>1, <1>3, <1>5, <3>1 DEF Stands
  <2>3. OneStands'
    BY <2>1, <2>2 DEF InvitedIInv, OneStands
  <2>4. \A k \in Invitations : inv[k] # None => inv'[k] # None
    BY <1>1, <1>3 DEF Recedes
  <2> QED BY <2>1, <2>2, <2>3, <2>4 DEF Anew
<1>9. OnePlatformPending'
  <2>1. \A k \in Invitations \ {i} : k \in I!PlatformPending' => k \in I!PlatformPending
    BY <1>3 DEF I!PlatformPending, Recedes
  <2>2. CASE role = "platform_admin"
    <3>1. \A k \in Invitations \ {i} : k \notin I!PlatformPending'
      BY <1>3, <2>2 DEF I!PlatformPending
    <3> QED BY <3>1 DEF OnePlatformPending, I!PlatformPending
  <2>3. CASE role # "platform_admin"
    <3>1. i \notin I!PlatformPending'
      BY <1>1, <1>3, <2>3 DEF I!PlatformPending
    <3> QED BY <2>1, <3>1 DEF InvitedIInv, OnePlatformPending, I!PlatformPending
  <2> QED BY <2>2, <2>3
<1>10. OnePlatformAccount'
  BY DEF InvitedIInv, OnePlatformAccount, PlatformAdmins
<1> QED BY <1>4, <1>6, <1>7, <1>8, <1>9, <1>10 DEF InvitedIInv

\* Rows that only lapse.
LEMMA LapsedRight ==
  ASSUME I!InvitationsAssumption, InvitedIInv, NEW t, NEW is,
         \A k \in is : inv[k] # None /\ inv[k].status = "pending",
         inv' = I!Lapsed(is, t), UNCHANGED <<account, clock>>, BootRows',
         chal' \in [Invitations -> I!EnrollmentRows \union {None}],
         \A k \in Invitations : Counts(k)
  PROVE  InvitedIInv' /\ Anew({})
<1>1. InvitedRows' /\ clock <= clock'
  BY LapsedRows DEF InvitedIInv, InvitedRows, BootRows
<1>2. \A k \in Invitations : Recedes(k, inv'[k])
  BY LapsedRows
<1> QED BY <1>1, <1>2, InvitedFrame

\* One address more may be taken than is.
LEMMA AnewAny == ASSUME Anew({}), NEW es PROVE Anew(es)
BY DEF Anew

LEMMA BootKept ==
  ASSUME InvitedIInv, UNCHANGED <<boot, clock>> PROVE BootRows'
BY DEF InvitedIInv, InvitedRows, BootRows

LEMMA ClocksPast ==
  ASSUME I!InvitationsAssumption, InvitedIInv, NEW t \in I!Clocks PROVE t \in Nat /\ t <= clock
BY DEF I!Clocks, InvitedIInv, InvitedRows, I!InvitationsAssumption

LEMMA IssueRight ==
  ASSUME I!InvitationsAssumption, InvitedIInv, NEW t \in I!Clocks, NEW i \in Invitations,
         NEW e \in Emails, NEW role \in AgencyRoles, I!Issue(i, e, role, t)
  PROVE  InvitedIInv' /\ Anew({e})
<1>1. /\ inv[i] = None /\ ~I!HasAccount(e) /\ UNCHANGED <<chal, account, boot, clock>>
      /\ t \in Nat /\ t <= clock /\ BootRows'
      /\ role \in I!AllRoles /\ role # "platform_admin"
      /\ \A k \in I!PendingOf(e) : inv[k] # None /\ inv[k].status = "pending"
  BY ClocksPast, BootKept DEF I!Issue, I!AllRoles, I!InvitationsAssumption, I!PendingOf
<1>2. CASE I!Claimed(e, t, {})
  <2>1. \A k \in Invitations : Counts(k)
    BY <1>1 DEF Counts
  <2>2. inv' = I!Lapsed(I!PendingOf(e), t) /\ chal' \in [Invitations -> I!EnrollmentRows \union {None}]
    BY <1>1, <1>2 DEF I!Issue, InvitedIInv, InvitedRows
  <2> QED BY <1>1, <2>1, <2>2, LapsedRight, AnewAny
<1>3. CASE ~I!Claimed(e, t, {})
  <2>1. inv' = [I!Lapsed(I!PendingOf(e), t) EXCEPT ![i] = I!Invitation(e, role, t)]
    BY <1>3 DEF I!Issue
  <2>2. \A k \in Invitations : ~Stands(k, e)
    BY <1>1, <1>3, FreeIsFree DEF I!Claimed
  <2>3. /\ I!Lapsed(I!PendingOf(e), t) \in [Invitations -> I!InvitationRows \union {None}]
        /\ \A k \in Invitations : Recedes(k, I!Lapsed(I!PendingOf(e), t)[k])
    BY <1>1, LapsedRows
  <2> QED BY <1>1, <2>1, <2>2, <2>3, IssuedRight
<1> QED BY <1>2, <1>3

\* A run's record is replaced by one that differs in where it is.
LEMMA BootMoves ==
  ASSUME InvitedIInv, NEW o \in Operators, UNCHANGED clock, NEW run \in BootRuns,
         run.clock <= clock, boot' = [boot EXCEPT ![o] = run]
  PROVE  BootRows' /\ boot'[o] = run /\ \A p \in Operators \ {o} : boot'[p] = boot[p]
<1>1. InvitedRows
  BY DEF InvitedIInv
<1>2. boot'[o] = run /\ \A p \in Operators \ {o} : boot'[p] = boot[p]
  BY <1>1 DEF InvitedRows
<1>3. boot' \in [Operators -> BootRuns \union {None}]
  BY <1>1 DEF InvitedRows
<1>4. \A p \in Operators : boot'[p] # None => boot'[p].clock <= clock'
  BY <1>1, <1>2 DEF InvitedRows
<1> QED BY <1>2, <1>3, <1>4 DEF BootRows

LEMMA ReleaseRows ==
  ASSUME InvitedIInv, NEW o \in Operators, boot[o] # None, UNCHANGED clock,
         NEW step \in 0 .. 4, I!Release(o, step)
  PROVE  /\ BootRows'
         /\ ~boot'[o].holds
         /\ \A p \in Operators \ {o} : boot'[p] = boot[p]
<1> DEFINE run == [boot[o] EXCEPT !.step = step, !.holds = FALSE, !.seen = {}]
<1>1. boot' = [boot EXCEPT ![o] = run]
  BY DEF I!Release
<1>2. boot[o] \in BootRuns /\ boot[o].clock <= clock
  BY DEF InvitedIInv, InvitedRows
<1>3. run \in BootRuns /\ run.clock <= clock /\ run.holds = FALSE
  BY <1>2 DEF BootRuns
<1> HIDE DEF run
<1> QED BY <1>1, <1>3, BootMoves

\* A run that ends its transaction leaves the others what they rely on.
LEMMA ReleaseHeld ==
  ASSUME InvitedIInv, HeldRight, NEW o \in Operators, boot[o] # None, boot[o].holds,
         ~boot'[o].holds, \A p \in Operators \ {o} : boot'[p] = boot[p],
         Anew({boot[o].email})
  PROVE  HeldRight'
<1> DEFINE e == boot[o].email
<1>1. ASSUME NEW p \in Operators, boot'[p] # None, boot'[p].holds
      PROVE  boot'[p] = boot[p] /\ boot[p].email \notin {e}
  <2>1. p # o /\ boot'[p] = boot[p]
    BY <1>1
  <2> QED BY <1>1, <2>1 DEF HeldRight
<1>2. Anew({e})
  OBVIOUS
<1> HIDE DEF e
<1> QED BY <1>1, <1>2, HeldKept

LEMMA BootReadRight ==
  ASSUME I!InvitationsAssumption, InvitedIInv, HeldRight, NEW o \in Operators, I!BootRead(o)
  PROVE  InvitedIInv' /\ HeldRight'
<1> DEFINE e == boot[o].email
           t == boot[o].clock
           seen == I!PlatformPending \ I!PendingOf(e)
<1>1. /\ boot[o] # None /\ boot[o].step \in 1 .. 3 /\ UNCHANGED <<inv, chal, account, clock>>
      /\ e \in Emails /\ t \in Nat /\ t <= clock /\ boot[o].step \in 0 .. 4
      /\ boot[o] \in BootRuns
  BY DEF I!BootRead, InvitedIInv, InvitedRows, BootRuns
<1>2. ASSUME BootRows' PROVE InvitedIInv' /\ Anew({})
  <2>1. InvitedRows' /\ clock <= clock'
    BY <1>1, <1>2 DEF InvitedIInv, InvitedRows, BootRows
  <2>2. \A i \in Invitations : Recedes(i, inv'[i]) /\ Counts(i)
    BY <1>1 DEF Recedes, Counts
  <2> QED BY <1>1, <2>1, <2>2, InvitedFrame
<1>3. CASE I!BootRefuses(e, t)
  <2>1. I!Release(o, 0)
    BY <1>3 DEF I!BootRead
  <2>2. /\ BootRows' /\ ~boot'[o].holds
        /\ \A p \in Operators \ {o} : boot'[p] = boot[p]
    BY <1>1, <2>1, ReleaseRows
  <2>3. \A p \in Operators : boot'[p] # None /\ boot'[p].holds => boot'[p] = boot[p]
    BY <2>2
  <2> QED BY <1>2, <2>2, <2>3, HeldKept
<1>4. CASE ~I!BootRefuses(e, t)
  <2> DEFINE run == [boot[o] EXCEPT !.holds = TRUE, !.seen = seen]
  <2>1. boot' = [boot EXCEPT ![o] = run]
    BY <1>4 DEF I!BootRead
  <2>2. seen \in SUBSET Invitations
    BY DEF I!PlatformPending
  <2>3. /\ run \in BootRuns /\ run.clock <= clock
        /\ run.step = boot[o].step /\ run.seen = seen /\ run.email = boot[o].email
    BY <1>1, <2>2 DEF BootRuns
  <2>4. \A k \in seen : inv[k] # None
    BY DEF I!PlatformPending
  <2>5. \A k \in Invitations : ~Stands(k, e)
    <3>1. ~I!HasAccount(e) /\ (I!LiveAt(I!PendingOf(e), t) \union I!EnrollingAt(e, t)) \ {} = {}
      BY <1>4 DEF I!BootRefuses, I!LiveAt
    <3> HIDE DEF e, t
    <3> QED BY <1>1, <3>1, FreeIsFree
  <2>6. ~I!Held(e)
    BY DEF I!BootRead
  <2> HIDE DEF run, seen
  <2>7. /\ BootRows' /\ boot'[o].step = boot[o].step /\ boot'[o].seen = seen
        /\ boot'[o].email = boot[o].email /\ \A p \in Operators \ {o} : boot'[p] = boot[p]
    BY <1>1, <2>1, <2>3, BootMoves
  <2> SUFFICES ASSUME NEW p \in Operators, boot'[p] # None, boot'[p].holds
               PROVE  /\ boot'[p].step \in 1 .. 3
                      /\ \A k \in boot'[p].seen : inv'[k] # None
                      /\ \A k \in Invitations : ~Stands(k, boot[p].email)'
                      /\ \A q \in Operators :
                           boot'[q] # None /\ boot'[q].holds /\ boot'[q].email = boot'[p].email => q = p
    BY <1>2, <2>7 DEF HeldRight
  <2>8. CASE p = o
    <3>1. \A q \in Operators \ {o} :
            ~(boot'[q] # None /\ boot'[q].holds /\ boot'[q].email = e)
      BY <2>6, <2>7 DEF I!Held
    <3>2. \A k \in Invitations : ~Stands(k, boot[p].email)'
      BY <1>1, <2>5, <2>7, <2>8 DEF Stands
    <3>3. \A q \in Operators :
            boot'[q] # None /\ boot'[q].holds /\ boot'[q].email = boot'[p].email => q = p
      BY <2>7, <2>8, <3>1
    <3> QED BY <1>1, <2>4, <2>7, <2>8, <3>2, <3>3
  <2>9. CASE p # o
    <3>1. boot'[p] = boot[p] /\ boot[p].email # e
      BY <2>6, <2>7, <2>9 DEF I!Held
    <3>2. /\ boot[p].step \in 1 .. 3
          /\ \A k \in boot[p].seen : inv[k] # None
          /\ \A k \in Invitations : ~Stands(k, boot[p].email)
      BY <3>1 DEF HeldRight
    <3>3. \A k \in Invitations : ~Stands(k, boot[p].email)'
      BY <1>1, <3>1, <3>2 DEF Stands
    <3>4. ASSUME NEW q \in Operators, boot'[q] # None, boot'[q].holds, boot'[q].email = boot'[p].email
          PROVE  q = p
      <4>1. q # o
        BY <2>7, <3>1, <3>4
      <4> QED BY <2>7, <3>1, <3>4, <4>1 DEF HeldRight
    <3> QED BY <1>1, <3>1, <3>2, <3>3, <3>4
  <2> QED BY <2>8, <2>9
<1> QED BY <1>3, <1>4

\* What a run writes recedes, although it did not lock all of what it read.
LEMMA BootWrittenRows ==
  ASSUME I!InvitationsAssumption, InvitedIInv, HeldRight, NEW o \in Operators,
         boot[o] # None, boot[o].holds
  PROVE  /\ I!BootWritten(o) \in [Invitations -> I!InvitationRows \union {None}]
         /\ \A k \in Invitations : Recedes(k, I!BootWritten(o)[k])
<1> DEFINE is == I!PendingOf(boot[o].email)
           t == boot[o].clock
<1>1. \A k \in is : inv[k] # None /\ inv[k].status = "pending"
  BY DEF I!PendingOf
<1> SUFFICES ASSUME NEW k \in Invitations
             PROVE  /\ I!BootWritten(o)[k] \in I!InvitationRows \union {None}
                    /\ Recedes(k, I!BootWritten(o)[k])
  BY DEF I!BootWritten
<1>2. CASE k \in boot[o].seen
  <2>1. inv[k] # None
    BY <1>2 DEF HeldRight
  <2>2. I!BootWritten(o)[k] = [inv[k] EXCEPT !.status = "expired"]
    BY <1>2 DEF I!BootWritten
  <2> QED BY <2>1, <2>2, ExpiredRow
<1>3. CASE k \notin boot[o].seen
  <2>1. I!BootWritten(o)[k] = I!Lapsed(is, t)[k]
    BY <1>3 DEF I!BootWritten
  <2> HIDE DEF is, t
  <2>2. I!Lapsed(is, t)[k] \in I!InvitationRows \union {None} /\ Recedes(k, I!Lapsed(is, t)[k])
    BY <1>1, LapsedRows
  <2> QED BY <2>1, <2>2
<1> QED BY <1>2, <1>3

LEMMA BootLapseRight ==
  ASSUME I!InvitationsAssumption, InvitedIInv, HeldRight, NEW o \in Operators, I!BootLapse(o)
  PROVE  InvitedIInv' /\ HeldRight'
<1>1. /\ boot[o] # None /\ boot[o].holds /\ boot[o].step \in 1 .. 3 /\ boot[o].step < 3
      /\ inv' = I!BootWritten(o) /\ I!Release(o, boot[o].step + 1)
      /\ UNCHANGED <<chal, account, clock>>
  BY DEF I!BootLapse, HeldRight
<1>2. boot[o].step + 1 \in 0 .. 4
  BY <1>1
<1>3. BootRows' /\ ~boot'[o].holds /\ \A p \in Operators \ {o} : boot'[p] = boot[p]
  BY <1>1, <1>2, ReleaseRows
<1>4. /\ inv' \in [Invitations -> I!InvitationRows \union {None}]
      /\ \A k \in Invitations : Recedes(k, inv'[k]) /\ Counts(k)
  BY <1>1, BootWrittenRows DEF Counts
<1>5. InvitedRows' /\ clock <= clock'
  BY <1>1, <1>3, <1>4 DEF InvitedIInv, InvitedRows, BootRows
<1>6. InvitedIInv' /\ Anew({})
  BY <1>1, <1>4, <1>5, InvitedFrame
<1>7. Anew({boot[o].email})
  BY <1>6, AnewAny
<1> QED BY <1>1, <1>3, <1>6, <1>7, ReleaseHeld

LEMMA BootIssueRight ==
  ASSUME I!InvitationsAssumption, InvitedIInv, HeldRight, NEW o \in Operators,
         NEW i \in Invitations, I!BootIssue(o, i)
  PROVE  InvitedIInv' /\ HeldRight'
<1> DEFINE e == boot[o].email
           t == boot[o].clock
<1>1. /\ boot[o] # None /\ boot[o].holds /\ inv[i] = None /\ UNCHANGED <<chal, account, clock>>
      /\ e \in Emails /\ t \in Nat
      /\ \A k \in Invitations : ~Stands(k, e)
  BY DEF I!BootIssue, HeldRight, InvitedIInv, InvitedRows, BootRuns
<1>2. CASE ~I!SolePending(o)
  <2>1. UNCHANGED inv /\ I!Release(o, 0)
    BY <1>2 DEF I!BootIssue
  <2>2. BootRows' /\ ~boot'[o].holds /\ \A p \in Operators \ {o} : boot'[p] = boot[p]
    BY <1>1, <2>1, ReleaseRows
  <2>3. InvitedRows' /\ clock <= clock'
    BY <1>1, <2>1, <2>2 DEF InvitedIInv, InvitedRows, BootRows
  <2>4. \A k \in Invitations : Recedes(k, inv'[k]) /\ Counts(k)
    BY <1>1, <2>1 DEF Recedes, Counts
  <2>5. InvitedIInv' /\ Anew({})
    BY <1>1, <2>3, <2>4, InvitedFrame
  <2>6. Anew({boot[o].email})
    BY <2>5, AnewAny
  <2> QED BY <1>1, <2>2, <2>5, <2>6, ReleaseHeld
<1>3. CASE I!SolePending(o)
  <2> DEFINE rest == I!BootWritten(o)
  <2>1. inv' = [rest EXCEPT ![i] = I!Invitation(e, "platform_admin", t)] /\ I!Release(o, 4)
    BY <1>3 DEF I!BootIssue
  <2>2. BootRows' /\ ~boot'[o].holds /\ \A p \in Operators \ {o} : boot'[p] = boot[p]
    BY <1>1, <2>1, ReleaseRows
  <2>3. /\ rest \in [Invitations -> I!InvitationRows \union {None}]
        /\ \A k \in Invitations : Recedes(k, rest[k])
    BY <1>1, BootWrittenRows
  <2>4. \A k \in Invitations :
          ~(rest[k] # None /\ rest[k].role = "platform_admin" /\ rest[k].status = "pending")
    BY <1>3 DEF I!SolePending
  <2>5. "platform_admin" \in I!AllRoles
    BY DEF I!AllRoles
  <2> HIDE DEF rest, e, t
  <2>6. InvitedIInv' /\ Anew({e})
    BY <1>1, <2>1, <2>2, <2>3, <2>4, <2>5, IssuedRight
  <2> QED BY <1>1, <2>2, <2>6, ReleaseHeld DEF e
<1> QED BY <1>2, <1>3

-----------------------------------------------------------------------------
LEMMA TickStartRight ==
  ASSUME I!InvitationsAssumption, InvitedIInv,
         \/ I!Tick
         \/ \E t \in I!Clocks, o \in Operators, e \in Emails : I!Start(o, e, t)
  PROVE  InvitedIInv' /\ Anew({})
<1>1. UNCHANGED <<inv, chal, account>>
  BY DEF I!Tick, I!Start
<1>2. \A i \in Invitations : Recedes(i, inv'[i]) /\ Counts(i)
  BY <1>1 DEF Recedes, Counts
<1>3. InvitedRows' /\ clock <= clock'
  <2>1. CASE I!Tick
    BY <1>1, <2>1 DEF I!Tick, InvitedIInv, InvitedRows, BootRuns, I!InvitationsAssumption
  <2>2. ASSUME NEW t \in I!Clocks, NEW o \in Operators, NEW e \in Emails, I!Start(o, e, t)
        PROVE  InvitedRows' /\ clock <= clock'
    <3> DEFINE run == [email |-> e, clock |-> t, step |-> 1, holds |-> FALSE, seen |-> {}]
    <3>1. run \in BootRuns /\ run.clock = t /\ t <= clock
      BY ClocksPast DEF BootRuns
    <3>2. boot' = [boot EXCEPT ![o] = run] /\ clock' = clock
      BY <2>2 DEF I!Start
    <3> HIDE DEF run
    <3> QED BY <1>1, <3>1, <3>2 DEF InvitedIInv, InvitedRows
  <2> QED BY <2>1, <2>2
<1> QED BY <1>1, <1>2, <1>3, InvitedFrame

\* The sender's answer is written to the one row and moves it nowhere but away.
LEMMA DeliveredRow ==
  ASSUME I!InvitationsAssumption, InvitedIInv, NEW i \in Invitations, I!Delivered(i)
  PROVE  /\ inv' \in [Invitations -> I!InvitationRows \union {None}]
         /\ \A k \in Invitations : Recedes(k, inv'[k])
<1>1. InvitedRows /\ inv[i] \in I!InvitationRows /\ inv[i].status # "revoked"
  BY InvFields DEF I!Delivered, InvitedIInv, InvitationRight
<1>2. ASSUME NEW row, row \in I!InvitationRows, inv' = [inv EXCEPT ![i] = row],
             row.email = inv[i].email, row.role = inv[i].role, row.expires = inv[i].expires,
             row.status = "revoked" <=> row.delivery = "failed",
             row.status = inv[i].status \/ row.status = "revoked"
      PROVE  /\ inv' \in [Invitations -> I!InvitationRows \union {None}]
             /\ \A k \in Invitations : Recedes(k, inv'[k])
  <2>1. inv' \in [Invitations -> I!InvitationRows \union {None}]
    BY <1>1, <1>2 DEF InvitedRows
  <2>2. row # None /\ inv[i] # None /\ inv'[i] = row
    BY <1>1, <1>2 DEF I!InvitationsAssumption, InvitedRows
  <2>3. \A k \in Invitations \ {i} : inv'[k] = inv[k]
    BY <1>1, <1>2 DEF InvitedRows
  <2> QED BY <1>2, <2>1, <2>2, <2>3 DEF Recedes
<1>3. CASE I!MarkDelivered(i)
  <2> DEFINE row == [inv[i] EXCEPT !.delivery = "sent"]
  <2>1. row \in I!InvitationRows /\ row.delivery = "sent" /\ row.status = inv[i].status
        /\ row.email = inv[i].email /\ row.role = inv[i].role /\ row.expires = inv[i].expires
    BY <1>1 DEF I!InvitationRows
  <2>2. inv' = [inv EXCEPT ![i] = row]
    BY <1>3 DEF I!MarkDelivered
  <2> HIDE DEF row
  <2> QED BY <1>1, <1>2, <2>1, <2>2
<1>4. CASE inv' = [inv EXCEPT ![i].delivery = "failed", ![i].status = "revoked"]
  <2> DEFINE row == [inv[i] EXCEPT !.delivery = "failed", !.status = "revoked"]
  <2>1. row \in I!InvitationRows /\ row.delivery = "failed" /\ row.status = "revoked"
        /\ row.email = inv[i].email /\ row.role = inv[i].role /\ row.expires = inv[i].expires
    BY <1>1 DEF I!InvitationRows
  <2>2. inv' = [inv EXCEPT ![i] = row]
    BY <1>1, <1>4 DEF InvitedRows
  <2> HIDE DEF row
  <2> QED BY <1>1, <1>2, <2>1, <2>2
<1> QED BY <1>3, <1>4 DEF I!Delivered

LEMMA DeliveredRight ==
  ASSUME I!InvitationsAssumption, InvitedIInv, NEW i \in Invitations, I!Delivered(i)
  PROVE  InvitedIInv' /\ Anew({})
<1>1. UNCHANGED <<chal, account, boot, clock>>
  BY DEF I!Delivered
<1>2. InvitedRows' /\ clock <= clock'
  BY <1>1, DeliveredRow DEF InvitedIInv, InvitedRows
<1> QED BY <1>1, <1>2, DeliveredRow, InvitedFrame DEF Counts

-----------------------------------------------------------------------------
LEMMA AcceptRight ==
  ASSUME I!InvitationsAssumption, InvitedIInv, NEW t \in I!Clocks, NEW i \in Invitations, I!Accept(i, t)
  PROVE  InvitedIInv' /\ Anew({inv[i].email})
<1>1. /\ inv[i] # None /\ inv[i].status = "pending" /\ UNCHANGED <<account, boot, clock>>
      /\ InvitedRows /\ t \in Nat /\ t <= clock /\ BootRows' /\ clock \in Nat
      /\ inv[i] \in I!InvitationRows /\ inv[i].email \in Emails /\ inv[i].expires \in Nat
      /\ inv[i].delivery # "failed" /\ chal[i] = None
  BY ClocksPast, BootKept, InvFields DEF I!Accept, InvitedIInv, InvitationRight, InvitedRows
<1>2. CASE inv[i].expires <= t
  <2> DEFINE row == [inv[i] EXCEPT !.status = "expired"]
  <2>1. /\ row \in I!InvitationRows /\ row # None /\ row.status = "expired"
        /\ row.email = inv[i].email /\ row.role = inv[i].role /\ row.expires = inv[i].expires
        /\ row.delivery = inv[i].delivery
    <3>1. row \in I!InvitationRows
      BY <1>1 DEF I!InvitationRows
    <3> QED BY <1>1, <3>1 DEF I!InvitationsAssumption, I!InvitationRows
  <2>2. inv' = [inv EXCEPT ![i] = row] /\ UNCHANGED chal
    BY <1>1, <1>2 DEF I!Accept
  <2> HIDE DEF row
  <2>3. InvitedRows' /\ clock <= clock'
    BY <1>1, <2>1, <2>2 DEF InvitedRows
  <2>4. ASSUME NEW k \in Invitations PROVE Recedes(k, inv'[k]) /\ Counts(k)
    BY <1>1, <2>1, <2>2 DEF Recedes, Counts, InvitedRows
  <2> QED BY <1>1, <2>3, <2>4, InvitedFrame, AnewAny
<1>3. CASE ~(inv[i].expires <= t)
  <2> DEFINE row == [inv[i] EXCEPT !.status = "accepted"]
             new == [expires |-> t + EnrollmentTTL, attempts |-> 0, open |-> TRUE]
             e == inv[i].email
  <2>1. /\ row \in I!InvitationRows /\ row # None /\ row.status = "accepted"
        /\ row.email = e /\ row.role = inv[i].role /\ row.delivery = inv[i].delivery
    <3>1. row \in I!InvitationRows
      BY <1>1 DEF I!InvitationRows
    <3> QED BY <1>1, <3>1 DEF I!InvitationsAssumption, I!InvitationRows
  <2>2. /\ new \in I!EnrollmentRows /\ new # None /\ new.attempts = 0
    <3>1. new \in I!EnrollmentRows
      BY <1>1 DEF I!EnrollmentRows, I!InvitationsAssumption
    <3> QED BY <3>1 DEF I!InvitationsAssumption
  <2>3. /\ inv' = [inv EXCEPT ![i] = row] /\ chal' = [chal EXCEPT ![i] = new]
        /\ ~I!HasAccount(e) /\ ~I!Claimed(e, t, {i})
    BY <1>1, <1>3 DEF I!Accept
  <2> HIDE DEF row, new
  <2>4. InvitedRows' /\ inv'[i] = row /\ chal'[i] = new
    BY <1>1, <2>1, <2>2, <2>3 DEF InvitedRows
  <2>5. \A k \in Invitations \ {i} : Recedes(k, inv'[k]) /\ Counts(k)
    BY <1>1, <2>3 DEF InvitedRows, Recedes, Counts
  <2>6. ASSUME NEW k \in Invitations PROVE InvitationRight(k)'
    <3>1. CASE k = i
      BY <1>1, <2>1, <2>2, <2>4, <3>1 DEF InvitationRight, I!InvitationsAssumption
    <3>2. CASE k # i
      BY <2>5, <3>2, RecedesRight
    <3> QED BY <3>1, <3>2
  <2>7. \A d \in Emails : account[d] # None => account[d].by \in Invitations \ {i}
    BY <1>1, AccountFields DEF InvitedIInv, AccountRight
  <2>8. \A d \in Emails : AccountRight(d)'
    BY <1>1, <2>5, <2>7, RecedesAccount
  <2>9. OneStands' /\ Anew({e})
    <3>1. \A k \in Invitations \ {i}, d \in Emails : Stands(k, d)' => Stands(k, d)
      BY <1>1, <2>5, RecedesStands
    <3>2. \A d \in Emails : Stands(i, d)' => d = e
      BY <1>1, <2>1, <2>4, <2>7 DEF Stands
    <3>3. \A k \in Invitations : Stands(k, e) => k = i
      <4> HIDE DEF e
      <4> QED BY <1>1, <2>3, FreeIsFree DEF I!Claimed, e
    <3>4. OneStands'
      BY <3>1, <3>2, <3>3 DEF InvitedIInv, OneStands
    <3>5. \A k \in Invitations : inv[k] # None => inv'[k] # None
      BY <2>1, <2>4, <2>5 DEF Recedes
    <3> QED BY <3>1, <3>2, <3>4, <3>5 DEF Anew
  <2>10. OnePlatformPending'
    <3>1. \A k \in Invitations : k \in I!PlatformPending' => k \in I!PlatformPending
      BY <1>1, <2>1, <2>4, <2>5 DEF I!PlatformPending, Recedes
    <3> QED BY <3>1 DEF InvitedIInv, OnePlatformPending, I!PlatformPending
  <2>11. OnePlatformAccount'
    BY <1>1 DEF InvitedIInv, OnePlatformAccount, PlatformAdmins
  <2> QED BY <2>4, <2>6, <2>8, <2>9, <2>10, <2>11 DEF InvitedIInv
<1> QED BY <1>2, <1>3

\* Closing a challenge, and counting a failed attempt.
LEMMA CloseCounts ==
  ASSUME I!InvitationsAssumption, InvitedIInv, NEW i \in Invitations, chal[i] # None, chal[i].open,
         I!Close(i)
  PROVE  /\ chal' \in [Invitations -> I!EnrollmentRows \union {None}]
         /\ chal'[i] # None /\ ~chal'[i].open
         /\ \A k \in Invitations : Counts(k)
<1> DEFINE row == [chal[i] EXCEPT !.open = FALSE]
<1>1. chal[i] \in I!EnrollmentRows /\ InvitedRows /\ chal[i].attempts <= MaxAttempts
  BY EnrolFields DEF InvitedIInv, InvitationRight
<1>2. /\ row \in I!EnrollmentRows /\ row # None /\ row.open = FALSE
      /\ row.expires = chal[i].expires /\ row.attempts = chal[i].attempts
  <2>1. row \in I!EnrollmentRows
    BY <1>1 DEF I!EnrollmentRows
  <2> QED BY <1>1, <2>1 DEF I!InvitationsAssumption, I!EnrollmentRows
<1>3. chal' = [chal EXCEPT ![i] = row]
  BY DEF I!Close
<1> HIDE DEF row
<1>4. \A k \in Invitations \ {i} : chal'[k] = chal[k]
  BY <1>1, <1>3 DEF InvitedRows
<1>5. chal'[i] = row /\ chal' \in [Invitations -> I!EnrollmentRows \union {None}]
  BY <1>1, <1>2, <1>3 DEF InvitedRows
<1> QED BY <1>1, <1>2, <1>4, <1>5 DEF Counts

LEMMA AttemptCounts ==
  ASSUME I!InvitationsAssumption, InvitedIInv, NEW i \in Invitations, chal[i] # None, chal[i].open,
         ~I!Spent(chal[i].attempts),
         chal' = [chal EXCEPT ![i].attempts = @ + 1, ![i].open = ~I!Spent(chal[i].attempts + 1)]
  PROVE  /\ chal' \in [Invitations -> I!EnrollmentRows \union {None}]
         /\ \A k \in Invitations : Counts(k)
<1>1. /\ chal[i] \in I!EnrollmentRows /\ InvitedRows /\ chal[i].attempts \in Nat
      /\ chal[i].attempts < MaxAttempts /\ MaxAttempts \in Nat
  BY EnrolFields DEF InvitedIInv, I!Spent, I!InvitationsAssumption
<1>2. ASSUME NEW more \in BOOLEAN, more => chal[i].attempts + 1 < MaxAttempts, NEW row,
             row = [chal[i] EXCEPT !.attempts = chal[i].attempts + 1, !.open = more],
             chal' = [chal EXCEPT ![i] = row]
      PROVE  /\ chal' \in [Invitations -> I!EnrollmentRows \union {None}]
             /\ \A k \in Invitations : Counts(k)
  <2>1. /\ row \in I!EnrollmentRows /\ row.expires = chal[i].expires
        /\ row.attempts = chal[i].attempts + 1 /\ row.open = more
    <3>1. chal[i].attempts + 1 \in Nat
      BY <1>1
    <3> QED BY <1>1, <1>2, <3>1 DEF I!EnrollmentRows
  <2>2. row # None /\ row.attempts <= MaxAttempts /\ (row.attempts = MaxAttempts => ~row.open)
    BY <1>1, <1>2, <2>1 DEF I!InvitationsAssumption
  <2>3. \A k \in Invitations \ {i} : chal'[k] = chal[k]
    BY <1>1, <1>2 DEF InvitedRows
  <2>4. chal'[i] = row /\ chal' \in [Invitations -> I!EnrollmentRows \union {None}]
    BY <1>1, <1>2, <2>1 DEF InvitedRows
  <2> QED BY <2>1, <2>2, <2>3, <2>4 DEF Counts
<1>3. CASE chal[i].attempts + 1 < MaxAttempts
  <2>1. chal' = [chal EXCEPT ![i] = [chal[i] EXCEPT !.attempts = chal[i].attempts + 1, !.open = TRUE]]
    <3>1. I!Spent(chal[i].attempts + 1) = FALSE
      BY <1>1, <1>3 DEF I!Spent
    <3>2. (~I!Spent(chal[i].attempts + 1)) = TRUE
      BY <3>1
    <3> HIDE DEF I!Spent
    <3> QED BY <1>1, <3>2 DEF InvitedRows, I!EnrollmentRows
  <2> QED BY <1>2, <1>3, <2>1
<1>4. CASE ~(chal[i].attempts + 1 < MaxAttempts)
  <2>1. chal' = [chal EXCEPT ![i] = [chal[i] EXCEPT !.attempts = chal[i].attempts + 1, !.open = FALSE]]
    BY <1>1, <1>4 DEF I!Spent, InvitedRows, I!EnrollmentRows
  <2> QED BY <1>2, <1>4, <2>1
<1> QED BY <1>3, <1>4

\* The account is made by the one invitation that stands for the address, and is
\* the first of the platform administrator if it is one.
LEMMA CreateAccountRight ==
  ASSUME I!InvitationsAssumption, InvitedIInv, NEW t \in I!Clocks, NEW i \in Invitations,
         chal[i] # None, chal[i].open, I!Enrollable(i, t), I!CreateAccount(i),
         inv' = I!Lapsed(I!PendingOf(inv[i].email), t), UNCHANGED <<boot, clock>>
  PROVE  InvitedIInv' /\ Anew({inv[i].email})
<1> DEFINE new == [role |-> inv[i].role, by |-> i]
<1>0. PICK e \in Emails : e = inv[i].email
  <2>1. InvitedRows /\ inv[i] # None
    BY DEF InvitedIInv, InvitationRight
  <2> QED BY <2>1, InvFields
<1>1. /\ InvitedRows /\ t \in Nat /\ t <= clock /\ clock \in Nat
      /\ inv[i] # None /\ inv[i].role \in I!AllRoles
  <2>1. InvitedRows /\ InvitationRight(i) /\ clock \in Nat
    BY DEF InvitedIInv, InvitedRows
  <2>2. inv[i] # None
    BY <2>1 DEF InvitationRight
  <2> QED BY <2>1, <2>2, ClocksPast, InvFields
<1>2. /\ inv[i].status = "accepted" /\ account[e] = None /\ ~I!Claimed(e, t, {i})
  BY <1>0 DEF I!Enrollable, I!HasAccount
<1>3. /\ ~I!RoleTaken(inv[i].role) /\ account' = [account EXCEPT ![e] = new] /\ I!Close(i)
  BY <1>0 DEF I!CreateAccount
<1>4. /\ new \in I!AccountRows /\ new # None /\ new.role = inv[i].role /\ new.by = i
  <2>1. new \in I!AccountRows
    BY <1>1 DEF I!AccountRows
  <2> QED BY <2>1 DEF I!InvitationsAssumption
<1> HIDE DEF new
<1>5. /\ chal' \in [Invitations -> I!EnrollmentRows \union {None}]
      /\ chal'[i] # None /\ ~chal'[i].open
      /\ \A k \in Invitations : Counts(k)
  BY <1>3, CloseCounts
<1>6. /\ inv' \in [Invitations -> I!InvitationRows \union {None}]
      /\ \A k \in Invitations : Recedes(k, inv'[k])
      /\ inv'[i] = inv[i]
  <2>1. \A k \in I!PendingOf(e) : inv[k] # None /\ inv[k].status = "pending"
    BY DEF I!PendingOf
  <2>2. i \notin I!PendingOf(e)
    BY <1>2 DEF I!PendingOf
  <2>3. inv' = I!Lapsed(I!PendingOf(e), t)
    BY <1>0
  <2> QED BY <2>1, <2>2, <2>3, LapsedRows
<1>7. /\ InvitedRows'
      /\ account'[e] = new
      /\ \A d \in Emails \ {e} : account'[d] = account[d]
  BY <1>1, <1>3, <1>4, <1>5, <1>6 DEF InvitedRows
<1>8. \A k \in Invitations : InvitationRight(k)'
  BY <1>5, <1>6, RecedesRight
<1>9. ASSUME NEW d \in Emails PROVE AccountRight(d)'
  <2>1. CASE d = e
    BY <1>0, <1>1, <1>4, <1>5, <1>6, <1>7, <2>1 DEF AccountRight
  <2>2. CASE d # e
    BY <1>1, <1>5, <1>6, <1>7, <2>2, AccountFields, RecedesAccount
  <2> QED BY <2>1, <2>2
<1>10. OneStands' /\ Anew({e})
  <2>1. \A k \in Invitations, d \in Emails \ {e} : Stands(k, d)' => Stands(k, d)
    BY <1>1, <1>5, <1>6, <1>7, RecedesStands
  <2>2. \A k \in Invitations : Stands(k, e) => k = i
    BY <1>1, <1>2, FreeIsFree DEF I!Claimed, I!HasAccount
  <2>3. ASSUME NEW k \in Invitations, Stands(k, e)' PROVE k = i
    <3>1. CASE account'[e] # None /\ account'[e].by = k
      BY <1>4, <1>7, <3>1
    <3>2. CASE /\ inv'[k] # None /\ inv'[k].email = e /\ inv'[k].status = "pending"
               /\ inv'[k].expires > clock'
      <4>1. Stands(k, e)
        BY <1>6, <3>2 DEF Recedes, Stands
      <4> QED BY <2>2, <4>1
    <3>3. CASE /\ inv'[k] # None /\ inv'[k].email = e /\ inv'[k].status = "accepted"
               /\ chal'[k] # None /\ chal'[k].expires > clock'
      <4>1. Stands(k, e)
        BY <1>5, <1>6, <3>3 DEF Recedes, Counts, Stands
      <4> QED BY <2>2, <4>1
    <3> QED BY <2>3, <3>1, <3>2, <3>3 DEF Stands
  <2>4. OneStands'
    BY <2>1, <2>3 DEF InvitedIInv, OneStands
  <2> QED BY <1>6, <2>1, <2>4 DEF Anew, Recedes
<1>11. OnePlatformPending'
  BY <1>6, RecedesPlatform
<1>12. OnePlatformAccount'
  <2>1. CASE inv[i].role = "platform_admin"
    <3>1. \A d \in Emails : account[d] # None => account[d].role # "platform_admin"
      BY <1>3, <2>1 DEF I!RoleTaken
    <3> QED BY <1>7, <3>1 DEF OnePlatformAccount, PlatformAdmins
  <2>2. CASE inv[i].role # "platform_admin"
    <3>1. \A d \in Emails : d \in PlatformAdmins' => d \in PlatformAdmins
      BY <1>4, <1>7, <2>2 DEF PlatformAdmins
    <3> QED BY <3>1 DEF InvitedIInv, OnePlatformAccount, PlatformAdmins
  <2> QED BY <2>1, <2>2
<1> QED BY <1>0, <1>7, <1>8, <1>9, <1>10, <1>11, <1>12 DEF InvitedIInv

\* The four ends of verify_totp_enrollment.
LEMMA VerifyCases ==
  ASSUME NEW t, NEW i \in Invitations, NEW right \in BOOLEAN, I!Verify(i, t, right)
  PROVE  /\ chal[i] # None /\ chal[i].open /\ ~I!Held(inv[i].email) /\ UNCHANGED <<boot, clock>>
         /\ \/ /\ I!Close(i) /\ UNCHANGED account
               /\ inv' = inv \/ inv' = I!Lapsed(I!PendingOf(inv[i].email), t)
            \/ /\ I!Enrollable(i, t) /\ I!CreateAccount(i)
               /\ inv' = I!Lapsed(I!PendingOf(inv[i].email), t)
            \/ /\ ~I!Spent(chal[i].attempts) /\ UNCHANGED account
               /\ chal' = [chal EXCEPT ![i].attempts = @ + 1,
                                       ![i].open = ~I!Spent(chal[i].attempts + 1)]
               /\ inv' = I!Lapsed(I!PendingOf(inv[i].email), t)
BY DEF I!Verify

LEMMA VerifyRight ==
  ASSUME I!InvitationsAssumption, InvitedIInv, NEW t \in I!Clocks, NEW i \in Invitations,
         NEW right \in BOOLEAN, I!Verify(i, t, right)
  PROVE  InvitedIInv' /\ Anew({inv[i].email})
<1> DEFINE is == I!PendingOf(inv[i].email)
<1>1. /\ chal[i] # None /\ chal[i].open /\ UNCHANGED <<boot, clock>>
      /\ \A k \in is : inv[k] # None /\ inv[k].status = "pending"
      /\ BootRows' /\ InvitedRows
  BY VerifyCases, BootKept DEF I!PendingOf, InvitedIInv
<1>2. ASSUME UNCHANGED account, inv' = inv \/ inv' = I!Lapsed(is, t),
             chal' \in [Invitations -> I!EnrollmentRows \union {None}],
             \A k \in Invitations : Counts(k)
      PROVE  InvitedIInv' /\ Anew({inv[i].email})
  <2> HIDE DEF is
  <2>1. CASE inv' = inv
    <3>1. InvitedRows' /\ clock <= clock'
      BY <1>1, <1>2, <2>1 DEF InvitedRows
    <3> QED BY <1>2, <2>1, <3>1, InvitedFrame, AnewAny DEF Recedes
  <2>2. CASE inv' = I!Lapsed(is, t)
    BY <1>1, <1>2, <2>2, LapsedRight, AnewAny
  <2> QED BY <1>2, <2>1, <2>2
<1>3. CASE I!Close(i) /\ UNCHANGED account /\ (inv' = inv \/ inv' = I!Lapsed(is, t))
  BY <1>1, <1>2, <1>3, CloseCounts
<1>4. CASE I!Enrollable(i, t) /\ I!CreateAccount(i) /\ inv' = I!Lapsed(is, t)
  BY <1>1, <1>4, CreateAccountRight
<1>5. CASE /\ ~I!Spent(chal[i].attempts) /\ UNCHANGED account
           /\ chal' = [chal EXCEPT ![i].attempts = @ + 1, ![i].open = ~I!Spent(chal[i].attempts + 1)]
           /\ inv' = I!Lapsed(is, t)
  BY <1>1, <1>2, <1>5, AttemptCounts
<1> QED BY <1>3, <1>4, <1>5, VerifyCases

\* A request that waited for no transaction of a run disturbs none.
LEMMA RequestHeld ==
  ASSUME InvitedIInv, HeldRight, NEW e, ~I!Held(e), Anew({e}), UNCHANGED boot
  PROVE  HeldRight'
<1>1. \A o \in Operators :
        boot'[o] # None /\ boot'[o].holds => boot'[o] = boot[o] /\ boot[o].email \notin {e}
  BY DEF I!Held
<1> QED BY <1>1, HeldKept

LEMMA InvitedInductive ==
  ASSUME I!InvitationsAssumption, InvitedIInv, HeldRight, [I!Next]_(I!vars)
  PROVE  InvitedIInv' /\ HeldRight'
<1>1. ASSUME NEW t \in I!Clocks, NEW i \in Invitations, NEW e \in Emails, NEW role \in AgencyRoles,
             I!Issue(i, e, role, t)
      PROVE  InvitedIInv' /\ HeldRight'
  <2>1. ~I!Held(e) /\ UNCHANGED boot
    BY <1>1 DEF I!Issue
  <2> QED BY <1>1, <2>1, IssueRight, RequestHeld
<1>2. ASSUME NEW t \in I!Clocks, NEW i \in Invitations, I!Accept(i, t)
      PROVE  InvitedIInv' /\ HeldRight'
  <2>1. ~I!Held(inv[i].email) /\ UNCHANGED boot
    BY <1>2 DEF I!Accept
  <2> QED BY <1>2, <2>1, AcceptRight, RequestHeld
<1>3. ASSUME NEW t \in I!Clocks, NEW i \in Invitations, NEW right \in BOOLEAN, I!Verify(i, t, right)
      PROVE  InvitedIInv' /\ HeldRight'
  <2>1. ~I!Held(inv[i].email) /\ UNCHANGED boot
    BY <1>3, VerifyCases
  <2> QED BY <1>3, <2>1, VerifyRight, RequestHeld
<1>4. ASSUME NEW i \in Invitations, I!Delivered(i) PROVE InvitedIInv' /\ HeldRight'
  <2>1. InvitedIInv' /\ Anew({}) /\ UNCHANGED boot
    BY <1>4, DeliveredRight DEF I!Delivered
  <2> QED BY <2>1, HeldKept
<1>5. CASE I!Tick
  <2>1. InvitedIInv' /\ Anew({}) /\ UNCHANGED boot
    BY <1>5, TickStartRight DEF I!Tick
  <2> QED BY <2>1, HeldKept
<1>6. ASSUME NEW t \in I!Clocks, NEW o \in Operators, NEW e \in Emails, I!Start(o, e, t)
      PROVE  InvitedIInv' /\ HeldRight'
  <2>1. InvitedIInv' /\ Anew({})
    BY <1>6, TickStartRight
  <2>2. \A p \in Operators : boot'[p] # None /\ boot'[p].holds => boot'[p] = boot[p]
    BY <1>6 DEF I!Start, InvitedIInv, InvitedRows
  <2> QED BY <2>1, <2>2, HeldKept
<1>7. CASE UNCHANGED I!vars
  <2>1. InvitedRows' /\ clock <= clock'
    BY <1>7 DEF I!vars, InvitedIInv, InvitedRows
  <2>2. InvitedIInv' /\ Anew({}) /\ UNCHANGED boot
    BY <1>7, <2>1, InvitedFrame DEF I!vars, Recedes, Counts
  <2> QED BY <2>2, HeldKept
<1> QED
  BY <1>1, <1>2, <1>3, <1>4, <1>5, <1>6, <1>7, BootReadRight, BootLapseRight, BootIssueRight
  DEF I!Next

LEMMA InvitedImplies ==
  ASSUME I!InvitationsAssumption, InvitedIInv PROVE I!InvitationsInvariant
<1>1. InvitedRows
  BY DEF InvitedIInv
<1>2. I!InvitationsTypeOK
  <2>1. ASSUME NEW i \in Invitations, inv[i] # None
        PROVE  /\ inv[i].email \in Emails /\ inv[i].role \in I!AllRoles
               /\ inv[i].status \in {"pending", "accepted", "expired", "revoked"}
               /\ inv[i].delivery \in {"pending", "sent", "failed"}
               /\ inv[i].status = "revoked" => inv[i].delivery = "failed"
               /\ inv[i].delivery = "failed" => inv[i].status \in {"revoked", "expired"}
    BY <1>1, <2>1, InvFields DEF InvitedIInv, InvitationRight
  <2>2. ASSUME NEW i \in Invitations, chal[i] # None
        PROVE  /\ inv[i].status # "pending"
               /\ chal[i].attempts \in 0 .. MaxAttempts
               /\ chal[i].attempts = MaxAttempts => ~chal[i].open
    BY <1>1, <2>2, EnrolFields DEF InvitedIInv, InvitationRight, I!InvitationsAssumption
  <2> QED BY <1>1, <2>1, <2>2 DEF I!InvitationsTypeOK, InvitedRows
<1>3. I!OneClaim
  <2> SUFFICES ASSUME NEW e \in Emails PROVE I!Cardinality(I!Claims(e)) <= 1
    BY DEF I!OneClaim
  <2>1. \A i \in I!Claims(e) : i \in Invitations /\ Stands(i, e)
    <3> SUFFICES ASSUME NEW i \in I!Claims(e) PROVE i \in Invitations /\ Stands(i, e)
      OBVIOUS
    <3>1. CASE i \in I!LiveAt(I!PendingOf(e), clock)
      BY <3>1 DEF I!LiveAt, I!PendingOf, Stands
    <3>2. CASE i \in {k \in Invitations : /\ chal[k] # None /\ chal[k].open /\ chal[k].expires > clock
                                          /\ inv[k].status = "accepted" /\ inv[k].email = e}
      BY <3>2 DEF Stands, InvitedIInv, InvitationRight
    <3>3. CASE I!HasAccount(e) /\ i = account[e].by
      BY <1>1, <3>3, AccountFields DEF I!HasAccount, Stands
    <3> QED BY <3>1, <3>2, <3>3 DEF I!Claims
  <2>2. \A i, k \in I!Claims(e) : i = k
    BY <2>1 DEF InvitedIInv, OneStands
  <2> QED BY <2>2, AtMostOne
<1>4. I!AccountIsInvited
  BY DEF I!AccountIsInvited, I!HasAccount, InvitedIInv, AccountRight
<1>5. I!OnePlatformAdmin
  <2>1. I!Cardinality(I!PlatformPending) <= 1
    BY AtMostOne DEF InvitedIInv, OnePlatformPending
  <2>2. I!Cardinality(PlatformAdmins) <= 1
    BY AtMostOne DEF InvitedIInv, OnePlatformAccount
  <2> QED BY <2>1, <2>2 DEF I!OnePlatformAdmin, PlatformAdmins, I!HasAccount
<1> QED BY <1>2, <1>3, <1>4, <1>5 DEF I!InvitationsInvariant

-----------------------------------------------------------------------------
\* Rows that recede, with or without a new one beside them, revive nothing.
LEMMA RestRevives ==
  ASSUME NEW i \in Invitations, inv[i] = None, NEW row,
         NEW rest \in [Invitations -> I!InvitationRows \union {None}],
         \A k \in Invitations : Recedes(k, rest[k]),
         inv' = rest \/ inv' = [rest EXCEPT ![i] = row],
         NEW k \in Invitations
  PROVE  Recedes(k, inv'[k]) \/ inv[k] = None
<1>1. k # i => inv'[k] = rest[k]
  OBVIOUS
<1> QED BY <1>1

\* No step makes a link, a challenge or an address usable again.
LEMMA InvitedRevives ==
  ASSUME I!InvitationsAssumption, InvitedIInv, HeldRight, I!Next
  PROVE  I!NoneRevived
<1> DEFINE Rows == \A k \in Invitations : Recedes(k, inv'[k]) \/ inv[k] = None \/ inv[k].status = "pending"
           Chals == \A k \in Invitations : Counts(k) \/ chal[k] = None
           Accounts == \A e \in Emails : account[e] = None \/ account'[e] = account[e]
<1>1. ASSUME Rows, Chals, Accounts
      PROVE  I!NoneRevived
  BY <1>1 DEF Recedes, Counts, I!NoneRevived, I!HasAccount
<1>2. UNCHANGED inv => Rows
  BY DEF Recedes
<1>3. UNCHANGED chal => Chals
  BY DEF Counts
<1>4. UNCHANGED account => Accounts
  OBVIOUS
<1>5. ASSUME NEW t \in I!Clocks, NEW i \in Invitations, NEW e \in Emails, NEW role, I!Issue(i, e, role, t)
      PROVE  I!NoneRevived
  <2> DEFINE is == I!PendingOf(e)
             row == I!Invitation(e, role, t)
  <2>1. \A k \in is : inv[k] # None /\ inv[k].status = "pending"
    BY DEF I!PendingOf
  <2>2. /\ inv[i] = None /\ UNCHANGED <<chal, account>>
        /\ inv' = I!Lapsed(is, t) \/ inv' = [I!Lapsed(is, t) EXCEPT ![i] = row]
    BY <1>5 DEF I!Issue
  <2> HIDE DEF is, row
  <2>3. /\ I!Lapsed(is, t) \in [Invitations -> I!InvitationRows \union {None}]
        /\ \A k \in Invitations : Recedes(k, I!Lapsed(is, t)[k])
    BY <2>1, LapsedRows
  <2>4. \A k \in Invitations : Recedes(k, inv'[k]) \/ inv[k] = None
    BY <2>2, <2>3, RestRevives
  <2> QED BY <1>1, <1>3, <1>4, <2>2, <2>4
<1>6. ASSUME NEW o \in Operators,
             I!BootRead(o) \/ I!BootLapse(o) \/ \E i \in Invitations : I!BootIssue(o, i)
      PROVE  I!NoneRevived
  <2>1. /\ UNCHANGED <<chal, account>>
        /\ \/ UNCHANGED inv
           \/ /\ boot[o] # None /\ boot[o].holds
              /\ \/ inv' = I!BootWritten(o)
                 \/ \E i \in Invitations, row \in {I!Invitation(boot[o].email, "platform_admin", boot[o].clock)} :
                      inv[i] = None /\ inv' = [I!BootWritten(o) EXCEPT ![i] = row]
    BY <1>6 DEF I!BootRead, I!BootLapse, I!BootIssue
  <2>2. CASE UNCHANGED inv
    BY <1>1, <1>2, <1>3, <1>4, <2>1, <2>2
  <2>3. CASE boot[o] # None /\ boot[o].holds /\ inv' = I!BootWritten(o)
    <3>1. \A k \in Invitations : Recedes(k, inv'[k])
      BY <2>3, BootWrittenRows
    <3> QED BY <1>1, <1>3, <1>4, <2>1, <3>1
  <2>4. ASSUME boot[o] # None, boot[o].holds, NEW i \in Invitations, inv[i] = None, NEW row,
               inv' = [I!BootWritten(o) EXCEPT ![i] = row]
        PROVE  I!NoneRevived
    <3>1. Rows
      BY <2>4, BootWrittenRows, RestRevives
    <3> QED BY <1>1, <1>3, <1>4, <2>1, <3>1
  <2> QED BY <2>1, <2>2, <2>3, <2>4
<1>7. ASSUME NEW i \in Invitations, I!Delivered(i)
      PROVE  I!NoneRevived
  BY <1>1, <1>3, <1>4, <1>7, DeliveredRow DEF I!Delivered
<1>8. ASSUME NEW t, NEW i \in Invitations, I!Accept(i, t)
      PROVE  I!NoneRevived
  <2>1. /\ inv[i] # None /\ inv[i].status = "pending" /\ chal[i] = None /\ UNCHANGED account
        /\ InvitedRows
    BY <1>8 DEF I!Accept, InvitedIInv, InvitationRight
  <2>2. \A k \in Invitations \ {i} : inv'[k] = inv[k] /\ chal'[k] = chal[k]
    BY <1>8, <2>1 DEF I!Accept, InvitedRows
  <2> QED BY <1>1, <1>4, <2>1, <2>2 DEF Recedes, Counts
<1>9. ASSUME NEW t \in I!Clocks, NEW i \in Invitations, NEW right \in BOOLEAN, I!Verify(i, t, right)
      PROVE  I!NoneRevived
  <2> DEFINE is == I!PendingOf(inv[i].email)
  <2>1. \A k \in is : inv[k] # None /\ inv[k].status = "pending"
    BY DEF I!PendingOf
  <2>2. Rows
    <3>1. inv' = inv \/ inv' = I!Lapsed(is, t)
      BY <1>9, VerifyCases
    <3> HIDE DEF is
    <3> QED BY <1>2, <2>1, <3>1, LapsedRows
  <2>3. Chals
    BY <1>9, VerifyCases, CloseCounts, AttemptCounts DEF I!CreateAccount
  <2>4. Accounts
    <3>1. CASE UNCHANGED account
      BY <3>1
    <3>2. CASE I!Enrollable(i, t) /\ I!CreateAccount(i)
      BY <3>2 DEF I!Enrollable, I!HasAccount, I!CreateAccount, InvitedIInv, InvitedRows
    <3> QED BY <1>9, <3>1, <3>2, VerifyCases
  <2> HIDE DEF Rows, Chals, Accounts
  <2> QED BY <1>1, <2>2, <2>3, <2>4
<1>10. CASE I!Tick \/ \E t \in I!Clocks, o \in Operators, e \in Emails : I!Start(o, e, t)
  BY <1>1, <1>2, <1>3, <1>4, <1>10 DEF I!Tick, I!Start
<1> QED BY <1>5, <1>6, <1>7, <1>8, <1>9, <1>10 DEF I!Next

-----------------------------------------------------------------------------
(* The theorems. *)

peopleVars == <<part, vars, otherVars>>

\* A step of the composition is a step of the part the behaviour is of.
LEMMA PeopleStep ==
  ASSUME [PeopleNext]_peopleVars
  PROVE  /\ part' = part
         /\ [Next]_vars
         /\ part = "wallets" => [W!Next]_(W!vars)
         /\ part = "staff" => [S!Next]_(S!vars)
         /\ part = "invitations" => [I!Next]_(I!vars)
BY DEF PeopleNext, peopleVars, vars, otherVars, invitationOnly, staffOnly, walletOnly, W!vars,
       S!vars, I!vars

PeopleIInv ==
  /\ CustomersIInv
  /\ part = "wallets" => WalletIInv
  /\ part = "staff" => StaffIInv
  /\ part = "invitations" => InvitedIInv /\ HeldRight

\* The inductive invariants of the four parts hold in every reachable state.
LEMMA PeopleInductiveInvariant ==
  ASSUME PeopleAssumption PROVE PeopleSpec => []PeopleIInv
<1>1. PeopleAssumption /\ PeopleInit => PeopleIInv
  BY CustomersInitIInv, WalletInit, StaffInit, InvitedInit
  DEF PeopleAssumption, PeopleInit, PeopleIInv
<1>2. PeopleAssumption /\ PeopleIInv /\ [PeopleNext]_peopleVars => PeopleIInv'
  BY PeopleStep, CustomersInductive, WalletInductive, StaffInductive, InvitedInductive
  DEF PeopleAssumption, PeopleIInv
<1> QED BY <1>1, <1>2, PTL DEF PeopleSpec, peopleVars

\* An address is linked to one customer and one agency at most, and a challenge
\* serves one request, although a request uses its challenge up in one transaction
\* and inserts the wallet in another.
THEOREM WalletsSafe == ASSUME PeopleAssumption PROVE PeopleSpec => []WalletsInvariant
<1>1. PeopleIInv => WalletsInvariant
  BY WalletImplies DEF PeopleIInv, WalletsInvariant
<1> QED BY <1>1, PeopleInductiveInvariant, PTL

\* An agent who is not active has no live session, a challenge and a recovery code
\* open one session each, and no refresh outlives the term of its session, although
\* a transaction waits for one row with the lock on another.
THEOREM StaffSessionsSafe == ASSUME PeopleAssumption PROVE PeopleSpec => []StaffSessionsInvariant
<1>1. PeopleAssumption /\ PeopleIInv => StaffSessionsInvariant
  BY StaffImplies DEF PeopleAssumption, PeopleIInv, StaffSessionsInvariant
<1> QED BY <1>1, PeopleInductiveInvariant, PTL

\* An address has one invitation, enrolment or account at most, the account is the
\* one that was invited, and there is one platform administrator, however old the
\* clocks are that transactions judge the others with and whatever becomes of the
\* invitation that a bootstrap command read, without a lock, before it expires it.
THEOREM InvitationsSafe == ASSUME PeopleAssumption PROVE PeopleSpec => []InvitationsInvariant
<1>1. PeopleAssumption /\ PeopleIInv => InvitationsInvariant
  BY InvitedImplies DEF PeopleAssumption, PeopleIInv, InvitationsInvariant
<1> QED BY <1>1, PeopleInductiveInvariant, PTL

\* No late write makes a link, a challenge or a session usable again that has ended,
\* and a wallet is only linked by its own key over a challenge for its holder.
THEOREM EndedStays == ASSUME PeopleAssumption PROVE PeopleSpec => EndedStaysEnded
<1> DEFINE Ended ==
      /\ part = "invitations" => I!NoneRevived
      /\ part = "staff" => S!RevokedKept
      /\ EndedKept
      /\ part = "wallets" => W!LinksProved
<1>1. PeopleAssumption /\ PeopleIInv /\ [PeopleNext]_peopleVars => [Ended]_peopleVars
  <2> SUFFICES ASSUME PeopleAssumption, PeopleIInv, PeopleNext PROVE Ended
    OBVIOUS
  <2>1. part = "invitations" => I!Next
    BY DEF PeopleNext
  <2>2. part = "staff" => S!Next
    BY DEF PeopleNext
  <2>3. part = "wallets" => W!Next
    BY DEF PeopleNext
  <2>4. EndedKept
    BY PeopleStep, CustomersKept DEF PeopleAssumption, PeopleIInv
  <2> QED
    BY <2>1, <2>2, <2>3, <2>4, InvitedRevives, StaffRevoked, WalletLinked
    DEF PeopleAssumption, PeopleIInv, WalletIInv
<1> QED BY <1>1, PeopleInductiveInvariant, PTL DEF PeopleSpec, EndedStaysEnded, peopleVars
=============================================================================
