----------------------------- MODULE Transfers -----------------------------
(***************************************************************************)
(* The menus that move vouchers, together: a user who goes from one to the *)
(* other, leaves and comes back at any point, while the active vouchers of *)
(* the recipients change and the services answer or fail.  The menus share *)
(* entries of the user's data, and what one left there another may find.   *)
(***************************************************************************)
EXTENDS VoucherMenu, CreditSend, PoolSwap

VoucherMenuNext ==
  \/ OpenVouchers \/ SelectVoucher \/ SetVoucher
  \/ \E h \in Holdings \cup {Down} : LeaveVouchers(h)
  \/ \E hd \in row.listed : ViewVoucher(hd)

CreditSendNext ==
  \/ OpenCreditSend \/ MistypeRecipient \/ RetryRecipient \/ Invite
  \/ LeaveCreditVouchers \/ LeaveCreditAmount
  \/ \E h \in Holdings \cup {Down} : LeaveCreditSend(h)
  \/ \E to \in To \ {Stranger} : AliasFails(to)
  \/ \E x \in Typed : AnswerAmount(x)
  \/ \E x \in Typed, quote \in Answers \cup {Down} : AnswerSwapAmount(x, quote)
  \/ \E ok \in BOOLEAN : InitiateNormalTransaction(ok)
  \/ \E swapped, sent \in BOOLEAN : TransactionInitiateSwap(swapped, sent)
  \/ \E pool \in Pool, limit \in Limit :
       \/ ReturnToAmount(pool, limit)
       \/ \E to \in To : AnswerRecipient(to, pool, limit)
       \/ \E hd \in row.held : ChooseCreditVoucher(hd, pool, limit)

PoolSwapNext ==
  \/ SwapMaxLimitWithoutList \/ LeaveSwapLimit \/ LeaveSwapPreview
  \/ \E pool \in Pool, list \in Lists \cup {Down} :
       OpenPoolSwap(pool, list) \/ ReloadSwapToList(pool, list)
  \/ \E h \in Holdings \cup {Down} : LeaveSwapToList(h)
  \/ \E v \in Voucher, limit \in Limit : SwapMaxLimit(v, limit)
  \/ \E x \in Typed, quote \in Limit : SwapPreview(x, quote)
  \/ \E ok \in BOOLEAN : InitiateSwap(ok)

Next ==
  \/ VoucherMenuNext \/ CreditSendNext \/ PoolSwapNext
  \/ \E h \in Holdings \cup {Down} : Dial(h)
  \/ DialInVain
  \/ \E r \in Recipient, v \in Voucher \cup {Empty} : TheyMove(r, v)

Spec == Init /\ [][Next]_vars

-----------------------------------------------------------------------------
(* Properties *)

Asked(op) == {i \in DOMAIN row.calls : row.calls[i].op = op}

\* What leaves the account is what the user confirmed: the voucher, the amount
\* cut to two decimals and scaled to base units exactly once, and the recipient
\* as typed, in a plain transfer and after a swap, whatever else was typed,
\* chosen, offered or abandoned before.  Of an amount typed with an exponent it is
\* the digits in front, which is what a plain confirmation shows as well.
TransferAsShown ==
  \A i \in Asked("transfer") :
    LET c == row.calls[i]
    IN  /\ row.shown # None
        /\ c.v = row.shown.v /\ c.to = row.shown.to
        /\ c.n = Scale(Cut(row.shown.n), c.v)

\* A confirmation stays within the offer on the screen before it: the same
\* recipient, the same voucher, and what is left of the amount after the cut no more
\* than the maximum shown.  Two cases are left open, since the code leaves them open:
\* an exponent is compared but then cut off, so the digits in front may be any number;
\* and a swap takes the voucher of an earlier transaction if none was chosen in this.
WithinOffer ==
  row.node \in {"transaction_pin", "transaction_swap"} =>
    /\ row.shown.v = row.offered.v /\ row.shown.to = row.offered.to
    /\ On("transaction_pin") \/ row.customState => row.shown.from = row.offered.from
    /\ HasExponent(row.shown.n) \/ Cut(row.shown.n) <= row.offered.n

\* What is offered for sending was among the holdings when they were last
\* fetched, and a plain transfer is offered up to that balance: a voucher
\* chosen for an earlier transaction, and gone since, is never offered again.
OffersHoldings ==
  row.node = "credit_amount" =>
    \E hd \in row.held :
      /\ hd.v = row.offered.from
      /\ ~row.swap => row.offered.n = Truncate(hd.bal) /\ row.offered.v = hd.v

\* A pool swap exchanges the vouchers named on its confirmation, and the amount
\* typed there unless that amount was refused.
SwapAsShown ==
  On("swap_initiated") =>
    \A i \in Asked("swap") :
      LET c == row.calls[i]
      IN  /\ c.from = row.shown.from /\ c.v = row.shown.v
          /\ row.invalid \/ c.n = Scale(Cut(row.shown.n), c.from)

\* The voucher set is the one that was viewed, with its balance, although the
\* entry that carries it from one node to the next belongs to credit send too.
SetAsViewed ==
  On("voucher_set") =>
    /\ row.active = row.shown.v /\ Plain(Truncate(row.bal)) = row.shown.n
    /\ \E hd \in row.held : hd.v = row.active /\ hd.bal = row.bal

\* Whoever is asked for the PIN confirms an operation that has all its data, and
\* the data is the one on the screen: the entries that the initiating handler
\* reads again are those the preview was made from.  Only a pool swap whose
\* amount was refused may find no amount, and a transfer one that is no number.
ConfirmationIsStaged ==
  LET c == row.shown
  IN  /\ On("transaction_pin") =>
           Source(row).v = c.v /\ row.amount = Cut(c.n) /\ row.recipient = c.to
      /\ On("transaction_swap") =>
           /\ row.custom # None /\ row.custom.v = c.from /\ row.swapTo = c.v
           /\ row.recipient = c.to /\ row.swapAmount # None
      /\ On("swap_preview") =>
           /\ row.active = c.from /\ row.swapTo = c.v
           /\ row.invalid \/ (row.swapAmount # None /\ row.temp = c.n)
      /\ On("view_voucher") => row.custom # None /\ row.custom.v = c.v

-----------------------------------------------------------------------------
(* What the comments and the flag descriptions say, and the code does not do *)

\* pp.csv:11, flag_invalid_amount "is set when the given transaction amount is
\* invalid": no swap is made on an amount that was found invalid.
InvalidAmountIsNotSwapped ==
  On("swap_initiated") /\ Asked("swap") # {} => ~row.invalid
=============================================================================
