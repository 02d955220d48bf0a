------------------------------- MODULE MCPeople -------------------------------
(***************************************************************************)
(* A small instance of everybody who logs in for TLC.                      *)
(***************************************************************************)
EXTENDS People, TLC

ASSUME PeopleAssumption

\* Interchangeable values, which each part uses for its own.
Alike ==
  Permutations(Customers) \union Permutations(Emails) \union Permutations(Sessions)
    \union Permutations(Requests)

\* Long behaviours of one address without the bootstrap command, short ones of it
\* alone, and the shortest of both and two addresses.
Short ==
  part = "invitations" =>
    \/ /\ \A o \in Operators : boot[o] = None
       /\ \A i, k \in Invitations :
            inv[i] # None /\ inv[k] # None => inv[i].email = inv[k].email
    \/ /\ clock <= 2
       /\ \A i \in Invitations : inv[i] # None => inv[i].role = "platform_admin"
       /\ \A i \in Invitations : chal[i] # None => chal[i].attempts = 0
    \/ /\ clock <= 1
       /\ \A i \in Invitations : chal[i] # None => chal[i].attempts = 0
=============================================================================
