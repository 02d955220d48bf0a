---------------------------- MODULE StaffSessions ----------------------------
(***************************************************************************)
(* Logging in and staying in: the login, refresh and logout routes of      *)
(* identity/router.py, get_active_staff of identity/session.py, and the    *)
(* activation of agents of agencies/router.py.                             *)
(*                                                                         *)
(* A request reads the clock and then takes the row locks its transaction  *)
(* needs one by one; the second lock of a transaction may make it wait     *)
(* while it holds the first.  The database ends a circle of waiting        *)
(* transactions by aborting one.  A refresh token is a generation of its   *)
(* session: the row knows the last one, a client may hold an older one     *)
(* when an answer was lost.                                                *)
(***************************************************************************)
EXTENDS Integers, FiniteSets

CONSTANTS
  Agents, Challenges, Sessions, Requests,
  Codes,          \* recovery codes of an agent
  ChallengeTTL, Idle, Lifetime,
  MaxAttempts,    \* _MAX_ENROLLMENT_ATTEMPTS
  MaxLag,         \* how long a request waits for its first lock
  MaxRefresh,     \* bound of the refreshes of a session
  MaxTime,
  None

\* Rows of staff_login_challenge and staff_session, and what a transaction holds
\* while it waits.
ChallengeRows == [user : Agents, expires : Nat, attempts : Nat, open : BOOLEAN]
SessionRows ==
  [user : Agents, generation : Nat, last : Nat, expires : Nat, revoked : BOOLEAN,
   opened : Nat, challenge : Challenges, code : Codes \union {None}]
Touches == [kind : {"me", "refresh"}, session : Sessions, clock : Nat]
Deactivations == [kind : {"deactivate"}, agent : Agents]

\* Assumed of the constants by the theorems and by every instance.
SessionsAssumption ==
  /\ {ChallengeTTL, Idle, Lifetime, MaxAttempts} \subseteq Nat \ {0}
  /\ {MaxLag, MaxRefresh, MaxTime} \subseteq Nat
  /\ None \notin ChallengeRows /\ None \notin SessionRows
  /\ None \notin Touches /\ None \notin Deactivations

VARIABLES
  active,     \* staff_account.active
  codes,      \* the recovery codes an agent has not used
  chal,       \* staff_login_challenge, None before the row exists
  sess,       \* staff_session, None before the row exists
  tx,         \* the transaction of each request that waits for its second lock
  refused,    \* history: the agents whose deactivation the database aborted
  stale,      \* history: challenges older than a deactivation of their agent
  now

vars == <<active, codes, chal, sess, tx, refused, stale, now>>

\* Faulty variant: a refresh reads its session without a lock.
SessionLockedByMe(s) == \E r \in Requests : tx[r] # None /\ tx[r].kind = "me" /\ tx[r].session = s

SessionLocked(s) == \E r \in Requests : tx[r] # None /\ tx[r].kind \in {"me", "refresh"} /\ tx[r].session = s
AgentLocked(a) == \E r \in Requests : tx[r] # None /\ tx[r].kind = "deactivate" /\ tx[r].agent = a
Live(s) == sess[s] # None /\ ~sess[s].revoked
SessionsOf(a) == {s \in Sessions : sess[s] # None /\ sess[s].user = a}
Revoke(ss) == sess' = [s \in Sessions |-> IF s \in ss THEN [sess[s] EXCEPT !.revoked = TRUE] ELSE sess[s]]

-----------------------------------------------------------------------------
\* Logging in.

\* login, with the right password; another one changes nothing.
Login(a, c) ==
  /\ chal[c] = None
  /\ active[a] /\ ~AgentLocked(a)
  /\ chal' = [chal EXCEPT ![c] = [user |-> a, expires |-> now + ChallengeTTL, attempts |-> 0, open |-> TRUE]]
  /\ UNCHANGED <<active, codes, sess, tx, refused, stale, now>>

CloseChallenge(c) == chal' = [chal EXCEPT ![c].open = FALSE]

\* The recovery code is marked used where it is not yet, or the proof fails.
UseCode(a, code) == code \in codes[a] /\ codes' = [codes EXCEPT ![a] = @ \ {code}]

NewSession(c, code, t) ==
  [user |-> chal[c].user, generation |-> 0, last |-> t, expires |-> t + Lifetime,
   revoked |-> FALSE, opened |-> t, challenge |-> c, code |-> code]

\* Faulty variant: the challenge may be completed once more.
OpenSessionOnly(c, s, code) ==
  /\ sess' = [sess EXCEPT ![s] = NewSession(c, code, now)]
  /\ UNCHANGED chal

OpenSession(c, s, code) ==
  /\ sess' = [sess EXCEPT ![s] = NewSession(c, code, now)]
  /\ CloseChallenge(c)

Failed(c) ==
  /\ chal' = [chal EXCEPT ![c].attempts = @ + 1, ![c].open = chal[c].attempts + 1 < MaxAttempts]
  /\ UNCHANGED <<codes, sess>>

\* complete_login_challenge: an agent that is not active leaves everything as it
\* is; a TOTP code is right or not, a recovery code is unused or not.
CompleteLogin(c, s) ==
  /\ chal[c] # None /\ chal[c].open
  /\ sess[s] = None
  /\ LET a == chal[c].user IN
     IF chal[c].expires <= now THEN CloseChallenge(c) /\ UNCHANGED <<codes, sess>>
     ELSE /\ active[a] /\ ~AgentLocked(a)
          /\ \/ OpenSession(c, s, None) /\ UNCHANGED codes
             \/ \E code \in Codes : UseCode(a, code) /\ OpenSession(c, s, code)
             \/ Failed(c)
  /\ UNCHANGED <<active, tx, refused, stale, now>>

-----------------------------------------------------------------------------
\* Staying in.

\* Faulty variant: a session in use never ends.
OverIdleOnly(s, t) == t - sess[s].last >= Idle

\* What ends a session when a request with clock t finds it.
Over(s, t) == sess[s].expires <= t \/ t - sess[s].last >= Idle

\* get_active_staff and refresh_session lock the session by its identifier or by
\* the hash of its latest refresh token, and then ask for the account.
Touch(r, kind, s) ==
  /\ tx[r] = None
  /\ Live(s) /\ ~SessionLocked(s)
  /\ kind = "refresh" => sess[s].generation < MaxRefresh
  /\ \E t \in (now - MaxLag) .. now :
       /\ t >= sess[s].opened
       /\ IF Over(s, t) THEN Revoke({s}) /\ UNCHANGED tx
          ELSE /\ tx' = [tx EXCEPT ![r] = [kind |-> kind, session |-> s, clock |-> t]]
               /\ UNCHANGED sess
  /\ UNCHANGED <<active, codes, chal, refused, stale, now>>

\* The account is locked too: an agent that may not be here loses the session to
\* get_active_staff, and only the answer to refresh_session.
Me(r) ==
  /\ tx[r] # None /\ tx[r].kind = "me"
  /\ LET s == tx[r].session IN
     /\ ~AgentLocked(sess[s].user)
     /\ IF active[sess[s].user] THEN sess' = [sess EXCEPT ![s].last = tx[r].clock]
                                ELSE Revoke({s})
  /\ tx' = [tx EXCEPT ![r] = None]
  /\ UNCHANGED <<active, codes, chal, refused, stale, now>>

Rotated(s, t) == [sess[s] EXCEPT !.generation = @ + 1, !.last = t]

Refresh(r) ==
  /\ tx[r] # None /\ tx[r].kind = "refresh"
  /\ LET s == tx[r].session IN
     /\ ~AgentLocked(sess[s].user)
     /\ sess' = IF active[sess[s].user] THEN [sess EXCEPT ![s] = Rotated(s, tx[r].clock)] ELSE sess
  /\ tx' = [tx EXCEPT ![r] = None]
  /\ UNCHANGED <<active, codes, chal, refused, stale, now>>

\* logout, with the latest refresh token and its CSRF token.
Logout(s) ==
  /\ Live(s) /\ ~SessionLocked(s)
  /\ Revoke({s})
  /\ UNCHANGED <<active, codes, chal, tx, refused, stale, now>>

-----------------------------------------------------------------------------
\* _set_agent_active, by an administrator of the agent's agency.

Activate(a) ==
  /\ ~active[a] /\ ~AgentLocked(a)
  /\ active' = [active EXCEPT ![a] = TRUE]
  /\ UNCHANGED <<codes, chal, sess, tx, refused, stale, now>>

\* The agent is locked first, and then each session that is not revoked.
BeginDeactivate(r, a) ==
  /\ tx[r] = None /\ ~AgentLocked(a)
  /\ tx' = [tx EXCEPT ![r] = [kind |-> "deactivate", agent |-> a]]
  /\ UNCHANGED <<active, codes, chal, sess, refused, stale, now>>

\* Faulty variant: the sessions are left to find out.
EndSessionsLater(a) == UNCHANGED sess

EndSessions(a) == Revoke({s \in SessionsOf(a) : Live(s)})

Deactivate(r) ==
  /\ tx[r] # None /\ tx[r].kind = "deactivate"
  /\ LET a == tx[r].agent IN
     /\ \A s \in SessionsOf(a) : Live(s) => ~SessionLocked(s)
     /\ active' = [active EXCEPT ![a] = FALSE]
     /\ EndSessions(a)
     /\ stale' = stale \union {c \in Challenges : chal[c] # None /\ chal[c].user = a}
  /\ tx' = [tx EXCEPT ![r] = None]
  /\ UNCHANGED <<codes, chal, refused, now>>

\* A session's transaction waits for the agent and the agent's for the session:
\* the database aborts either of them.
Deadlocked(r, q) ==
  /\ tx[r] # None /\ tx[r].kind = "deactivate"
  /\ tx[q] # None /\ tx[q].kind \in {"me", "refresh"}
  /\ sess[tx[q].session].user = tx[r].agent /\ Live(tx[q].session)

Abort(r, q) ==
  /\ Deadlocked(r, q)
  /\ \/ tx' = [tx EXCEPT ![r] = None] /\ refused' = refused \union {tx[r].agent}
     \/ tx' = [tx EXCEPT ![q] = None] /\ UNCHANGED refused
  /\ UNCHANGED <<active, codes, chal, sess, stale, now>>

Tick ==
  /\ now < MaxTime
  /\ now' = now + 1
  /\ UNCHANGED <<active, codes, chal, sess, tx, refused, stale>>

Init ==
  /\ active = [a \in Agents |-> TRUE]
  /\ codes = [a \in Agents |-> Codes]
  /\ chal = [c \in Challenges |-> None]
  /\ sess = [s \in Sessions |-> None]
  /\ tx = [r \in Requests |-> None]
  /\ refused = {}
  /\ stale = {}
  /\ now = 0

Next ==
  \/ Tick
  \/ \E a \in Agents : Activate(a) \/ \E c \in Challenges : Login(a, c)
  \/ \E s \in Sessions : Logout(s) \/ \E c \in Challenges : CompleteLogin(c, s)
  \/ \E r \in Requests :
       \/ Me(r) \/ Refresh(r) \/ Deactivate(r)
       \/ \E a \in Agents : BeginDeactivate(r, a)
       \/ \E s \in Sessions, kind \in {"me", "refresh"} : Touch(r, kind, s)
       \/ \E q \in Requests : Abort(r, q)

Spec == Init /\ [][Next]_vars

-----------------------------------------------------------------------------
Opened == {s \in Sessions : sess[s] # None}

SessionsTypeOK ==
  /\ active \in [Agents -> BOOLEAN]
  /\ codes \in [Agents -> SUBSET Codes]
  /\ \A c \in Challenges : chal[c] # None =>
       chal[c].attempts \in 0 .. MaxAttempts /\ (chal[c].attempts = MaxAttempts => ~chal[c].open)
  /\ \A s \in Opened : sess[s].generation \in 0 .. MaxRefresh /\ sess[s].last \in sess[s].opened .. now
  /\ \A r, q \in Requests : r # q /\ tx[r] # None /\ tx[q] # None =>
       tx[r] # tx[q] \/ tx[r].kind # "deactivate"

\* An agent that is not active has no session left, also none that was opened or
\* refreshed while it was being deactivated.
InactiveHasNoSession ==
  \A a \in Agents : ~active[a] => \A s \in SessionsOf(a) : ~Live(s)

\* A challenge and a recovery code open one session each, whoever presents them
\* at the same time.
OpenedOnce ==
  \A s, z \in Opened : s # z =>
    /\ sess[s].challenge # sess[z].challenge
    /\ sess[s].code # None /\ sess[s].user = sess[z].user => sess[s].code # sess[z].code

\* No refresh carries a session past the life it was given when it was opened.
LifetimeIsAbsolute ==
  \A s \in Opened : sess[s].last < sess[s].opened + Lifetime

\* A session that has ended stays so, whatever transactions were under way.
RevokedKept ==
  \A s \in Sessions : sess[s] # None /\ sess[s].revoked => sess'[s] = sess[s]
RevokedIsFinal == [][RevokedKept]_vars

\* After a reactivation an agent gets in with a login of after the deactivation.
ReactivationNeedsLogin ==
  [][\A s \in Sessions : sess[s] = None /\ sess'[s] # None => sess'[s].challenge \notin stale]_vars

\* A deactivation that was asked for takes effect.
DeactivationTakesEffect == refused = {}

\* Sessions are opened once, do not outlive their term and end with the account.
StaffSessionsInvariant ==
  /\ SessionsTypeOK
  /\ InactiveHasNoSession
  /\ OpenedOnce
  /\ LifetimeIsAbsolute
=============================================================================
