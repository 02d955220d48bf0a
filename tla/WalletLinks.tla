----------------------------- MODULE WalletLinks -----------------------------
(***************************************************************************)
(* Linking a wallet to a customer or to an agency: the two services        *)
(* customer_identity/service.py and agencies/service.py, each with tables  *)
(* of its own and the same steps.  A challenge names its holder and an     *)
(* address; a request first uses it up and commits, then looks at the      *)
(* signature, and then inserts the wallet in a second transaction.         *)
(***************************************************************************)
EXTENDS Integers, FiniteSets

CONSTANTS
  Customers, Agencies,
  Addresses,   \* also the keys: each address has the key that signs for it
  Challenges, Requests,
  TTL,         \* WALLET_CHALLENGE_TTL and AGENCY_WALLET_CHALLENGE_TTL
  MaxTime,
  None

Holders == Customers \union Agencies

\* Rows of customer_wallet_challenge and agency_wallet_challenge, and what a request
\* keeps of the one it used up.
ChallengeRows == [holder : Holders, address : Addresses, expires : Nat, open : BOOLEAN]
Verifications == [challenge : Challenges, key : Addresses]

\* Assumed of the constants by the theorems and by every instance.
WalletsAssumption ==
  /\ TTL \in Nat \ {0} /\ MaxTime \in Nat
  /\ None \notin ChallengeRows /\ None \notin Verifications

VARIABLES
  chal,    \* the rows of both challenge tables, None before the row exists
  wallet,  \* the address of each holder in the wallet table of its kind
  tx,      \* what each request that used a challenge up carries on with
  uses,    \* history: the requests each challenge served
  now

vars == <<chal, wallet, tx, uses, now>>

SameTable(h, g) == {h, g} \subseteq Customers \/ {h, g} \subseteq Agencies

-----------------------------------------------------------------------------
Challenge(h, c, a) ==
  /\ chal[c] = None
  /\ wallet[h] = None
  /\ chal' = [chal EXCEPT ![c] = [holder |-> h, address |-> a, expires |-> now + TTL, open |-> TRUE]]
  /\ UNCHANGED <<wallet, tx, uses, now>>

\* create_customer_wallet_challenge.
ChallengeCustomer(c) == \E h \in Customers, a \in Addresses : Challenge(h, c, a)

\* create_agency_wallet_challenge, by an administrator of that agency.
ChallengeAgency(c) == \E h \in Agencies, a \in Addresses : Challenge(h, c, a)

\* Faulty variant: the challenge is used up with the link.
UseUpLater(c) == UNCHANGED chal

UseUp(c) == chal' = [chal EXCEPT ![c].open = FALSE]

\* The challenge is locked, and lost with the commit whatever the signature is.
Claim(r, h, c, key) ==
  /\ tx[r] = None
  /\ chal[c] # None /\ chal[c].holder = h /\ chal[c].open
  /\ now < chal[c].expires
  /\ UseUp(c)
  /\ uses' = [uses EXCEPT ![c] = @ \union {r}]
  /\ tx' = [tx EXCEPT ![r] = [challenge |-> c, key |-> key]]
  /\ UNCHANGED <<wallet, now>>

\* Faulty variant: any signature that can be read.
SignedByAny(r) == tx[r].key \in Addresses

\* The signature is the address's own.
SignedBy(r) == tx[r].key = chal[tx[r].challenge].address

\* Faulty variant: one wallet of each holder is all that is unique.
FreeForHolder(h, a) == wallet[h] = None

\* uq_*_wallet_*_id and uq_*_wallet_address, and the look that is taken first.
Free(h, a) == wallet[h] = None /\ \A g \in Holders : SameTable(h, g) => wallet[g] # a

\* The wallet is inserted, or the request is answered with what is in the way;
\* the process may die instead.
Link(r) ==
  /\ tx[r] # None
  /\ LET c == tx[r].challenge
         h == chal[c].holder
     IN wallet' = IF SignedBy(r) /\ Free(h, chal[c].address)
                  THEN [wallet EXCEPT ![h] = chal[c].address] ELSE wallet
  /\ tx' = [tx EXCEPT ![r] = None]
  /\ UNCHANGED <<chal, uses, now>>

Die(r) ==
  /\ tx[r] # None
  /\ tx' = [tx EXCEPT ![r] = None]
  /\ UNCHANGED <<chal, wallet, uses, now>>

\* verify_and_link_customer_wallet up to its first commit, with the signature of
\* some key.
VerifyCustomer(r, c) == \E h \in Customers, key \in Addresses : Claim(r, h, c, key)

\* verify_and_link_agency_wallet up to its first commit.
VerifyAgency(r, c) == \E h \in Agencies, key \in Addresses : Claim(r, h, c, key)

Tick ==
  /\ now < MaxTime
  /\ now' = now + 1
  /\ UNCHANGED <<chal, wallet, tx, uses>>

Init ==
  /\ chal = [c \in Challenges |-> None]
  /\ wallet = [h \in Holders |-> None]
  /\ tx = [r \in Requests |-> None]
  /\ uses = [c \in Challenges |-> {}]
  /\ now = 0

Next ==
  \/ Tick
  \/ \E c \in Challenges :
       \/ ChallengeCustomer(c) \/ ChallengeAgency(c)
       \/ \E r \in Requests : VerifyCustomer(r, c) \/ VerifyAgency(r, c)
  \/ \E r \in Requests : Link(r) \/ Die(r)

Spec == Init /\ [][Next]_vars

-----------------------------------------------------------------------------
WalletsTypeOK ==
  /\ wallet \in [Holders -> Addresses \union {None}]
  /\ \A r \in Requests : tx[r] # None => ~chal[tx[r].challenge].open
  /\ \A c \in Challenges : uses[c] # {} => chal[c] # None

\* An address stands for one customer, and for one agency, at most.
OneHolderPerAddress ==
  \A h, g \in Holders :
    h # g /\ SameTable(h, g) /\ wallet[h] # None => wallet[h] # wallet[g]

\* Two requests never get anything out of the same challenge.
ChallengeServesOnce == \A c \in Challenges : Cardinality(uses[c]) <= 1

\* A wallet is linked by its own key, over a challenge for this very holder.
LinksProved ==
  \A h \in Holders : wallet'[h] # wallet[h] =>
    /\ wallet[h] = None
    /\ \E r \in Requests : /\ tx[r] # None
                           /\ tx[r].key = wallet'[h]
                           /\ chal[tx[r].challenge].holder = h
LinkedIsProved == [][LinksProved]_vars

\* A wallet has one holder and a challenge one use.
WalletsInvariant ==
  /\ WalletsTypeOK
  /\ OneHolderPerAddress
  /\ ChallengeServesOnce
=============================================================================
