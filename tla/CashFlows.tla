----------------------------- MODULE CashFlows -----------------------------
(***************************************************************************)
(* The menus of Mpesa and PoolMenus over the entries that they share: what *)
(* is deposited, withdrawn, swapped or bought against what was shown, and  *)
(* against the limit that went with it.  The entries of one menu are the   *)
(* stale entries of the next.                                              *)
(***************************************************************************)
EXTENDS Mpesa, PoolMenus

Dialling == Dial \/ DialInVain

Elsewhere == UseCreditSend \/ UsePoolSwap \/ UseVouchers

Withdrawing ==
  \/ OpenGetMpesa
  \/ \E hd \in row.held : ChooseWithdrawalVoucher(hd)
  \/ MischooseWithdrawalVoucher
  \/ \E ksh \in Typed : AnswerWithdrawal(ksh)
  \/ \E swapped, sent \in BOOLEAN : InitiateGetMpesa(swapped, sent)
  \/ LeaveGetMpesa

Buying ==
  \/ OpenSendMpesa
  \/ \E ksh \in Typed : AnswerSendMpesa(ksh)
  \/ \E ok \in BOOLEAN : InitiateSendMpesa(ok)
  \/ LeaveSendMpesa

ChoosingPool ==
  \/ OpenSelectPool
  \/ \E p \in Pool : AnswerPool(p)
  \/ SetPool
  \/ LeavePool

Depositing ==
  \/ OpenPoolDeposit
  \/ \E hd \in row.held : ChooseDepositVoucher(hd)
  \/ MischooseDepositVoucher
  \/ \E x \in Typed : ConfirmPoolDeposit(x)
  \/ \E ok \in BOOLEAN : InitiatePoolDeposit(ok)
  \/ LeavePoolDeposit

PayingDebt ==
  \/ OpenPayDebt
  \/ \E v \in Voucher : ChooseDebtVoucher(v)
  \/ MischooseDebtVoucher
  \/ \E x \in Typed : AnswerDebtAmount(x)
  \/ \E ok \in BOOLEAN : InitiatePayDebt(ok)
  \/ LeavePayDebt

Next ==
  \/ Dialling \/ OpenMpesa \/ Elsewhere
  \/ Withdrawing \/ Buying \/ ChoosingPool \/ Depositing \/ PayingDebt

Spec == Init /\ [][Next]_vars

-----------------------------------------------------------------------------
(* Properties *)

Made(op) == {i \in DOMAIN row'.calls : row'.calls[i].op = op}

\* A deposit or a withdrawal moves what its confirmation showed: the same voucher,
\* amount and destination.  When it takes a swap and a transfer, the transfer comes
\* only after the swap of the amount shown, and is of the other amount of the same
\* quote; that this is what the shillings typed come to, the code does not check
\* (InitiatePoolDeposit and InitiateGetMpesa read their amounts and vouchers back
\* from entries that every other menu overwrites).
PaidAsShown ==
  [][\A i \in Made("transfer") :
       Len(row.shown) >= i /\ SubSeq(row'.calls, 1, i) = SubSeq(row.shown, 1, i)]_vars

\* The removal of a debt takes the voucher whose limit was asked for, and when its
\* quote was shown as much of it as that said but for less than 0.01, which who types
\* the displayed limit adds (ConfirmDebtRemoval and InitiatePayDebt, between which
\* the quote may fail and the PIN is asked).
DebtAsShown ==
  [][row.node = "confirm_debt_removal" =>
       \A i \in Made("swap") :
         LET made == row'.calls[i]
         IN  /\ made.from = row.swapFrom.v
             /\ \A j \in DOMAIN row.shown :
                  /\ [made EXCEPT !.n = 0] = [row.shown[j] EXCEPT !.n = 0]
                  /\ made.n - row.shown[j].n \in 0 .. (Scale(Cent, made.from) - 1)]_vars

\* A purchase whose preview was shown is of the amount that it showed.
PurchaseAsShown ==
  [][\A i \in Made("onramp") : row.shown # <<>> => row'.calls = row.shown]_vars

\* A deposit stays within the balance of its voucher, and the removal of a debt
\* within the limit for the voucher that it takes, whichever amount an earlier
\* menu left and whether or not the quote failed.
WithinLimit ==
  [][/\ row.node = "pool_deposit_confirmation" =>
          \A i \in Made("transfer") : row'.calls[i].n <= Scale(row.custom.bal, row.custom.v)
     /\ row.node = "confirm_debt_removal" =>
          \A i \in Made("swap") : row'.calls[i].n <= row.swapFrom.max]_vars

\* The pool changes to the one that was viewed last, in the list or found by name
\* (SetPool takes it from the temporary value, which other menus write too).
PoolAsViewed ==
  [][row'.pool # row.pool => row.node = "view_pool" /\ row.shown = <<ChoiceOf(row'.pool)>>]_vars

\* What is bought is an amount that was shown for confirmation: SendMpesaPreview
\* "displays the send mpesa preview and estimates" (mpesa.go:554) before the PIN.
BuysOnlyWhatWasShown ==
  [][\A i \in Made("onramp") : row'.calls = row.shown]_vars
=============================================================================
