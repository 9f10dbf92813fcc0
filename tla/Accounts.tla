------------------------------ MODULE Accounts ------------------------------
(***************************************************************************)
(* What registration promises: a user is given at most one account, nobody *)
(* else's, and keeps it; and an address leads to the user it was given to. *)
(* Which of the two is recorded first is of no concern here.               *)
(***************************************************************************)
EXTENDS Naturals

CONSTANTS User, Nobody

VARIABLES
  account,  \* account[u]: the address of u, 0 when he has none
  owner     \* owner[a]: the user that address a leads to, or Nobody

\* Users who were given an account before have it, each his own.
Init ==
  /\ account \in [User -> {0} \cup DOMAIN owner]
  /\ \A u, w \in User : account[u] = account[w] /\ account[u] # 0 => u = w
  /\ owner \in [DOMAIN owner -> User \cup {Nobody}]
  /\ \A a \in DOMAIN owner, u \in User : owner[a] = u => account[u] = a

Open(u, a) ==
  /\ account[u] = 0 /\ \A w \in User : account[w] # a
  /\ account' = [account EXCEPT ![u] = a]
  /\ UNCHANGED owner

Register(u) ==
  /\ account[u] \in DOMAIN owner /\ owner[account[u]] = Nobody
  /\ owner' = [owner EXCEPT ![account[u]] = u]
  /\ UNCHANGED account

Next ==
  \E u \in User : Register(u) \/ \E a \in DOMAIN owner : Open(u, a)

Spec == Init /\ [][Next]_<<account, owner>>
=============================================================================
