---------------------------- MODULE VoucherMenu ----------------------------
(* The vouchers menu: look at a voucher that is not the active one, and    *)
(* make it the active one with the PIN.                                    *)
EXTENDS Wallet

OpenVouchers == On("main") /\ Step(At(Fresh, "my_vouchers"))

SelectVoucher ==
  /\ On("my_vouchers")
  /\ Step(At(Fresh, IF row.noActive THEN "no_voucher" ELSE "select_voucher"))

LeaveVouchers(h) ==
  \/ On("my_vouchers") /\ Step(EnterMain(Fresh, h))
  \/ On("select_voucher") /\ Step(At(Fresh, "my_vouchers"))
  \/ On("view_voucher") /\ Step(At(Fresh, "select_voucher"))

\* The voucher looked at is kept where credit send keeps the voucher chosen
\* for one transaction.
ViewVoucher(hd) ==
  /\ On("select_voucher") /\ hd \in row.listed
  /\ Step([At(Fresh, "view_voucher") EXCEPT
             !.custom = hd,
             !.shown = [from |-> hd.v, v |-> hd.v, n |-> Plain(Truncate(hd.bal)),
                        to |-> None]])

\* A faulty variant, only there to see a property fail.
SetVoucherWithoutBalance ==
  /\ On("view_voucher")
  /\ Step([At(Fresh, "voucher_set") EXCEPT
             !.active = row.custom.v, !.raw = row.custom.v \notin Renamed])

\* With the right PIN.  The symbol comes from the stored list, sanitized.
SetVoucher ==
  /\ On("view_voucher")
  /\ Step([At(Fresh, "voucher_set") EXCEPT
             !.active = row.custom.v, !.bal = row.custom.bal,
             !.raw = row.custom.v \notin Renamed])
=============================================================================
