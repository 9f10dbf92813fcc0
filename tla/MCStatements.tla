---------------------------- MODULE MCStatements ----------------------------
(* Two users, and three goroutines: two on one database object, one on       *)
(* another.                                                                  *)
EXTENDS Statements, TLC

CONSTANTS alice, bob, q1, q2, q3, d1, d2, senders, values

MCUser == {alice, bob}
MCRequest == {q1, q2, q3}
MCDb == {d1, d2}
MCDbOf == (q1 :> d1) @@ (q2 :> d1) @@ (q3 :> d2)
MCColumn == {senders, values}
=============================================================================
