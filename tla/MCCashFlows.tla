---------------------------- MODULE MCCashFlows ----------------------------
(* Values of the constants of CashFlows for TLC. *)
EXTENDS CashFlows

CONSTANTS a, b, p, q

MCUnit == [v \in Voucher |-> IF v = b THEN 10 ELSE 1]
MCHoldings == {{}, {[v |-> a, bal |-> 3], [v |-> b, bal |-> 5]}}
MCTopPools == {{}, {p}, {p, q}}
MCMpesaVouchers == {a, None}
=============================================================================
