-------------------------- MODULE StatementService --------------------------
(* What the statement menu promises: a user who looks at his statement sees  *)
(* his own transactions, all of them up to some moment, and never fewer than *)
(* he saw before.                                                            *)
EXTENDS Integers

CONSTANTS User, MaxTransfers

VARIABLES
  ledger,  \* ledger[u]: how many transactions of u there are
  seen     \* seen[u]: how many he saw when he last looked

vars == <<ledger, seen>>

Init ==
  /\ ledger = [u \in User |-> 0]
  /\ seen = [u \in User |-> 0]

Transact(u) ==
  /\ ledger[u] < MaxTransfers
  /\ ledger' = [ledger EXCEPT ![u] = @ + 1]
  /\ UNCHANGED seen

Look(u) ==
  /\ \E n \in seen[u] .. ledger[u] : seen' = [seen EXCEPT ![u] = n]
  /\ UNCHANGED ledger

Next == \E u \in User : Transact(u) \/ Look(u)

Spec == Init /\ [][Next]_vars
=============================================================================
