---------------------------- MODULE MCTransfers ----------------------------
(* Two vouchers, one of them with a symbol that is sanitized, and one      *)
(* recipient.  0.01 is two units: an odd amount has a digit too many.  One *)
(* amount has an exponent behind more than any balance, another an         *)
(* exponent that the cut spoils.                                           *)
EXTENDS Transfers, TLC

CONSTANTS usdt, srf, dad, none

MCVoucher == {usdt, srf}
MCUnit == (usdt :> 1) @@ (srf :> 10)
MCHoldings == {<<>>, <<[v |-> usdt, bal |-> 5]>>,
               <<[v |-> srf, bal |-> 5], [v |-> usdt, bal |-> 3]>>}
MCLists == {{}, MCVoucher}
MCTyped == {Plain(5), [value |-> 3, digits |-> 7], [value |-> 3, digits |-> none]}
=============================================================================
