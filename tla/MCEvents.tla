------------------------------ MODULE MCEvents ------------------------------
(* Baraka has an account, Amina comes new; the service never runs out. *)
EXTENDS Events, TLC

CONSTANTS amina, baraka, chai

MCUser == {amina, baraka}
MCBefore == amina :> 0 @@ baraka :> 1
MCHeldBefore == [a \in Account |-> IF a = 1 THEN {chai} ELSE {}]

ASSUME EnoughAccounts == Cardinality(User) + MaxFaults <= MaxAccounts
=============================================================================
