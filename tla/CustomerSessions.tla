-------------------------- MODULE CustomerSessions --------------------------
(***************************************************************************)
(* The accounts and sessions of customers: customer_identity/service.py    *)
(* and session.py.  A session is never changed into another one: a refresh *)
(* ends it and opens its successor, with a refresh token and an access     *)
(* token of its own.  Each operation locks the session it is about and is  *)
(* one step; the clock it uses was read before.                            *)
(***************************************************************************)
EXTENDS Integers, FiniteSets

CONSTANTS
  Customers,   \* requests to register, one account each
  Emails,      \* addresses after normalisation
  Sessions,
  AccessTTL,   \* ACCESS_TOKEN_MINUTES
  Lifetime,    \* REFRESH_TOKEN_DAYS
  Idle,        \* IDLE_WINDOW
  MaxLag, MaxTime,
  None

\* Rows of customer_session.
SessionRows ==
  [customer : Customers, created : Nat, last : Nat, expires : Nat, revoked : BOOLEAN]

\* Assumed of the constants by the theorems and by every instance.
CustomersAssumption ==
  /\ {AccessTTL, Lifetime, Idle} \subseteq Nat \ {0}
  /\ {MaxLag, MaxTime} \subseteq Nat
  /\ None \notin SessionRows

VARIABLES
  email,  \* customer_account.email, None before the account exists
  sess,   \* customer_session, None before the row exists
  login,  \* history: the session of the login each session goes back to
  used,   \* history: the latest time an access token was accepted, per session
  now

vars == <<email, sess, login, used, now>>

Open == {s \in Sessions : sess[s] # None}

\* Faulty variant: any session there is.
StoredSession(s) == s \in Open

LiveSession(s) == s \in Open /\ ~sess[s].revoked
Clocks == {t \in (now - MaxLag) .. now : t >= 0}

\* register_customer: the normalised address is unique, also when two requests
\* look for it before either inserts.
Register(c, e) ==
  /\ email[c] = None
  /\ \A d \in Customers : email[d] # e
  /\ email' = [email EXCEPT ![c] = e]
  /\ UNCHANGED <<sess, login, used, now>>

NewSession(c, t, expires) ==
  [customer |-> c, created |-> t, last |-> t, expires |-> expires, revoked |-> FALSE]

\* login_customer, with the right password.
Login(c, s, t) ==
  /\ email[c] # None
  /\ sess[s] = None
  /\ sess' = [sess EXCEPT ![s] = NewSession(c, t, t + Lifetime)]
  /\ login' = [login EXCEPT ![s] = s]
  /\ UNCHANGED <<email, used, now>>

\* Faulty variant: without the absolute end.
OverIdleOnly(s, t) == t > sess[s].last + Idle

\* The session has run out for a request with clock t.
Over(s, t) == sess[s].expires <= t \/ t > sess[s].last + Idle

\* Faulty variant: the old session is left to run out.
SucceedBeside(s, next, t) ==
  sess' = [sess EXCEPT ![next] = NewSession(sess[s].customer, t, sess[s].expires)]

\* The old session ends with the commit that opens the next one.
Succeed(s, next, t) ==
  sess' = [sess EXCEPT ![s].revoked = TRUE,
                       ![next] = NewSession(sess[s].customer, t, sess[s].expires)]

\* refresh_customer_session, with the refresh token of s.
Refresh(s, next, t) ==
  /\ LiveSession(s) /\ sess[s].created <= t
  /\ sess[next] = None
  /\ IF Over(s, t) THEN sess' = [sess EXCEPT ![s].revoked = TRUE] /\ UNCHANGED login
     ELSE Succeed(s, next, t) /\ login' = [login EXCEPT ![next] = login[s]]
  /\ UNCHANGED <<email, used, now>>

\* logout_customer_session: also of a session that has run out.
Logout(s) ==
  /\ LiveSession(s)
  /\ sess' = [sess EXCEPT ![s].revoked = TRUE]
  /\ UNCHANGED <<email, login, used, now>>

\* Faulty variant: the signature alone.
TokenGoodAlways(s, t) == TRUE

\* The claims iat and exp of the session's access token.
TokenGood(s, t) == sess[s].created <= t /\ t < sess[s].created + AccessTTL

\* get_active_customer, with the access token of s.
Me(s, t) ==
  /\ s \in Open
  /\ TokenGood(s, t)
  /\ LiveSession(s)
  /\ IF Over(s, t) THEN sess' = [sess EXCEPT ![s].revoked = TRUE] /\ UNCHANGED used
     ELSE /\ sess' = [sess EXCEPT ![s].last = t]
          /\ used' = [used EXCEPT ![s] = IF @ > t THEN @ ELSE t]
  /\ UNCHANGED <<email, login, now>>

Tick ==
  /\ now < MaxTime
  /\ now' = now + 1
  /\ UNCHANGED <<email, sess, login, used>>

Init ==
  /\ email = [c \in Customers |-> None]
  /\ sess = [s \in Sessions |-> None]
  /\ login = [s \in Sessions |-> None]
  /\ used = [s \in Sessions |-> 0]
  /\ now = 0

Next ==
  \/ Tick
  \/ \E c \in Customers, e \in Emails : Register(c, e)
  \/ \E s \in Sessions : Logout(s)
  \/ \E t \in Clocks, s \in Sessions :
       \/ \E c \in Customers : Login(c, s, t)
       \/ \E next \in Sessions : Refresh(s, next, t)
       \/ Me(s, t)

Spec == Init /\ [][Next]_vars

-----------------------------------------------------------------------------
CustomersTypeOK ==
  /\ email \in [Customers -> Emails \union {None}]
  /\ \A c, d \in Customers : c # d /\ email[c] # None => email[c] # email[d]
  /\ \A s \in Open : /\ sess[s].customer \in Customers
                     /\ sess[s].created <= sess[s].last
                     /\ sess[s].last < sess[s].expires

\* However often and by whomever its refresh tokens are presented, a login has
\* one session at a time.
OneSessionPerLogin ==
  \A s, z \in Sessions : LiveSession(s) /\ LiveSession(z) /\ login[s] = login[z] => s = z

\* No succession of refreshes outlives the login it began with.
LoginLifetime ==
  \A s \in Open : sess[s].expires = sess[login[s]].created + Lifetime

\* An access token is of no use after its time, nor once the login is over,
\* although it is never stored.
AccessIsBounded ==
  \A s \in Open : /\ used[s] < sess[s].created + AccessTTL
                  /\ used[s] < sess[login[s]].created + Lifetime

\* A session that has ended is never in use again.
EndedKept ==
  \A s \in Open : sess[s].revoked => sess'[s] = sess[s] /\ used'[s] = used[s]
EndedIsFinal == [][EndedKept]_vars

\* A customer's login has one session at a time for one lifetime, however often its
\* refresh token is presented, and an access token dies with it
\* (customer_identity/service.py).
CustomersInvariant ==
  /\ CustomersTypeOK
  /\ OneSessionPerLogin
  /\ LoginLifetime
  /\ AccessIsBounded
=============================================================================
