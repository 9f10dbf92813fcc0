----------------------------- MODULE CreditSend -----------------------------
(***************************************************************************)
(* Sending credit: the recipient, the voucher to send (asked only of users *)
(* with several), the amount, and the confirmation with the PIN.  When the *)
(* recipient's active voucher is not the one sent, and the pool can swap   *)
(* between them, the amount is asked in the recipient's voucher and the    *)
(* confirmation makes a swap followed by a transfer.                       *)
(*                                                                         *)
(* pool and limit are the answers of CheckTokenInPool and of               *)
(* GetCreditSendMaxLimit; a limit whose sending side is below MinAmount    *)
(* counts as Down, the code treats both alike.                             *)
(***************************************************************************)
EXTENDS Wallet

Pool == {"in", "out", Down}
Limit == Answers \cup {Down}

\* Faulty variants (here and below) only serve to see the properties fail.
TransactionResetKeepsChoice(s) ==
  [s EXCEPT !.amount = None, !.recipient = None, !.phone = None]

\* The voucher chosen for the transaction (custom) stays where it is.
TransactionReset(s) ==
  [s EXCEPT !.amount = None, !.recipient = None, !.phone = None, !.customState = FALSE]

EnterCreditSend(s) ==
  LET r == [TransactionReset(s) EXCEPT !.offered = None, !.shown = None]
  IN  At(r, IF r.noActive THEN "no_voucher" ELSE "credit_send")

\* The voucher that is sent, with the balance it had when it was listed.
Source(s) == IF s.customState THEN s.custom ELSE [v |-> s.active, bal |-> s.bal]

\* What MaxAmount knows to be a plain transfer without asking anybody.
IsNormal(s) ==
  \/ s.recipient = Mpesa /\ Source(s).v \in Stable
  \/ s.swapTo \in {None, Source(s).v}

\* credit_amount.vis up to its HALT: ResetTransactionAmount, then MaxAmount.  The
\* recipient's voucher is read again here.  An empty one is no token to the
\* service, which has no limit for it.
EnterCreditAmount(s, pool, limit) ==
  LET r == [s EXCEPT !.amount = None, !.swap = FALSE, !.invalid = FALSE, !.shown = None]
      Offer(v, n) == [At(r, "credit_amount") EXCEPT
                        !.offered = [from |-> Source(r).v, v |-> v, n |-> Truncate(n),
                                     to |-> r.recipient]]
      Normal == Offer(Source(r).v, Source(r).bal)
  IN  IF IsNormal(r) THEN Normal
      ELSE IF pool = Down THEN At(r, "api_failure")
      ELSE IF pool = "out" \/ r.phone = None THEN Normal
      ELSE IF theirs[r.phone] = None THEN Failed(r)
      ELSE IF limit = Down \/ theirs[r.phone] = Empty THEN Normal
      ELSE [Offer(theirs[r.phone], limit) EXCEPT
              !.swap = TRUE, !.swapMax = Truncate(limit), !.swapTo = theirs[r.phone]]

-----------------------------------------------------------------------------
(* The recipient *)

OpenCreditSend == On("main") /\ Step(EnterCreditSend(Fresh))

ValidateRecipientKeepsRecipient(s, to) ==
  IF to = Stranger \/ to \notin Recipient THEN [s EXCEPT !.input = to]
  ELSE [s EXCEPT !.input = to, !.recipient = to, !.phone = to,
                 !.swapTo = IF theirs[to] = None THEN @ ELSE theirs[to]]

\* ValidateRecipient and determineAndSaveTransactionType: the swap-to entries are
\* written when the recipient has an active voucher, and kept otherwise.
ValidateRecipient(s, to) ==
  IF to = Stranger THEN [s EXCEPT !.input = to]
  ELSE IF to \notin Recipient THEN [s EXCEPT !.input = to, !.recipient = to]
  ELSE [s EXCEPT !.input = to, !.recipient = to, !.phone = to,
                 !.swapTo = IF theirs[to] = None THEN @ ELSE theirs[to]]

AnswerRecipient(to, pool, limit) ==
  LET s == ValidateRecipient(Fresh, to)
  IN  /\ On("credit_send")
      /\ \/ to = Stranger /\ Step(At(s, "invite_recipient"))
         \/ to # Stranger /\ s.multiple /\ Step(At(s, "credit_vouchers"))
         \/ /\ to # Stranger /\ ~s.multiple
            /\ Step(EnterCreditAmount([s EXCEPT !.behind = "credit_send"], pool, limit))

\* An alias that cannot be resolved; it has been noted as the input.  One with a
\* domain of its own counts as mistyped, the others as a failure of the service.
AliasFails(to) ==
  LET s == [Fresh EXCEPT !.input = to]
  IN  /\ On("credit_send")
      /\ \/ Step(At(s, "api_failure"))
         \/ Step(At(TransactionReset(s), "invalid_recipient"))

MistypeRecipient ==
  On("credit_send") /\ Step(At(TransactionReset(Fresh), "invalid_recipient"))

RetryRecipient ==
  /\ row.node \in {"invalid_recipient", "invite_recipient"}
  /\ Step(EnterCreditSend(Fresh))

\* InviteValidRecipient invites the number in the temporary value, if it is one.
Invite ==
  /\ On("invite_recipient")
  /\ Step([At(Fresh, "invite_result") EXCEPT
             !.calls = IF row.temp \notin Recipient \cup {Stranger} THEN <<>>
                       ELSE <<[op |-> "invite", from |-> None, v |-> None, n |-> 0,
                               to |-> row.temp]>>])

\* The key "0" forgets that there is a choice of vouchers (ClearTransactionTypeFlag).
ClearTransactionTypeFlag(s) == [s EXCEPT !.swap = FALSE, !.multiple = FALSE]

LeaveCreditSend(h) ==
  On("credit_send") /\ Step(EnterMain(ClearTransactionTypeFlag(Fresh), h))

-----------------------------------------------------------------------------
(* The voucher and the amount *)

ChooseCreditVoucher(hd, pool, limit) ==
  /\ On("credit_vouchers") /\ hd \in row.held
  /\ Step(EnterCreditAmount([Fresh EXCEPT !.custom = hd, !.customState = TRUE,
                                          !.behind = "credit_vouchers"], pool, limit))

LeaveCreditVouchers == On("credit_vouchers") /\ Step(EnterCreditSend(Fresh))

LeaveCreditAmount ==
  LET s == [ClearTransactionTypeFlag(Fresh) EXCEPT !.invalid = FALSE]
  IN  /\ On("credit_amount")
      /\ \/ row.behind = "credit_send" /\ Step(EnterCreditSend(s))
         \/ row.behind = "credit_vouchers" /\ Step(At(s, "credit_vouchers"))

AnswerAmountUpToActive(x) ==
  LET src == Source(row)
      valid == x.value <= row.bal /\ x.value >= MinAmount
  IN  /\ On("credit_amount") /\ ~row.swap
      /\ \/ ~valid /\ Step([At(Fresh, "invalid_amount") EXCEPT !.amount = None])
         \/ /\ valid
            /\ Step([At(Fresh, "transaction_pin") EXCEPT
                       !.amount = Cut(x),
                       !.shown = [from |-> src.v, v |-> src.v, n |-> x,
                                  to |-> row.input]])

\* ValidateAmount, then NormalTransactionPreview on the way to the PIN prompt, which
\* shows what is left after the cut.  invalid_amount.vis resets the amount and the
\* flag on its way in.
AnswerAmount(x) ==
  LET src == Source(row)
      valid == x.value <= src.bal /\ x.value >= MinAmount
  IN  /\ On("credit_amount") /\ ~row.swap
      /\ \/ ~valid /\ Step([At(Fresh, "invalid_amount") EXCEPT !.amount = None])
         \/ /\ valid
            /\ Step([At(Fresh, "transaction_pin") EXCEPT
                       !.amount = Cut(x),
                       !.shown = [from |-> src.v, v |-> src.v, n |-> x,
                                  to |-> row.input]])

AnswerSwapAmountUnquoted(x, quote) ==
  /\ On("credit_amount") /\ row.swap
  /\ row.custom # None /\ x.value <= row.swapMax /\ Cut(x) # None
  /\ Step([At(Fresh, "transaction_swap") EXCEPT
             !.amount = Scale(Cut(x), row.swapTo), !.temp = x, !.swapAmount = quote,
             !.shown = [from |-> row.custom.v, v |-> row.swapTo, n |-> x,
                        to |-> row.input]])

\* TransactionSwapPreview.  It takes the voucher from the entry of the chosen one,
\* chosen or not, and shows the amount as it was typed.  What is no number once it
\* is cut cannot be scaled, an error of the handler.
\* invalid_credit_send_amount.vis resets the amount and the flags on its way in.
AnswerSwapAmount(x, quote) ==
  /\ On("credit_amount") /\ row.swap
  /\ \/ row.custom = None /\ Step(Failed(Fresh))
     \/ /\ row.custom # None /\ x.value > row.swapMax
        /\ Step([At(Fresh, "invalid_credit_send_amount") EXCEPT
                   !.amount = None, !.swap = FALSE, !.invalid = FALSE])
     \/ row.custom # None /\ x.value <= row.swapMax /\ Cut(x) = None /\ Step(Failed(Fresh))
     \/ /\ row.custom # None /\ x.value <= row.swapMax /\ Cut(x) # None /\ quote = Down
        /\ Step(At(Fresh, "api_failure"))
     \/ /\ row.custom # None /\ x.value <= row.swapMax /\ Cut(x) # None /\ quote # Down
        /\ Step([At(Fresh, "transaction_swap") EXCEPT
                   !.amount = Scale(Cut(x), row.swapTo), !.temp = x,
                   !.swapAmount = quote,
                   !.shown = [from |-> row.custom.v, v |-> row.swapTo, n |-> x,
                              to |-> row.input]])

\* Back to the amount, from a refused one or from the confirmation.
ReturnToAmount(pool, limit) ==
  /\ row.node \in {"invalid_amount", "transaction_pin", "transaction_swap"}
  /\ Step(EnterCreditAmount(Fresh, pool, limit))

-----------------------------------------------------------------------------
(* The confirmation, with the right PIN *)

TransferCall(v, n, to) == [op |-> "transfer", from |-> None, v |-> v, n |-> n, to |-> to]
SwapCall(from, v, n) == [op |-> "swap", from |-> from, v |-> v, n |-> n, to |-> None]

InitiateNormalTransactionOfActive(ok) ==
  LET v == row.active
  IN  /\ On("transaction_pin") /\ row.amount # None
      /\ Step([At(Fresh, "transaction_initiated") EXCEPT
                 !.calls = IF ok THEN <<TransferCall(v, Scale(row.amount, v), row.recipient)>>
                           ELSE <<>>])

\* ok: the service accepts the transfer.  An amount that the cut left without a
\* number is met here, where it is scaled.
InitiateNormalTransaction(ok) ==
  LET v == Source(row).v
  IN  /\ On("transaction_pin")
      /\ \/ row.amount = None /\ Step(Failed(Fresh))
         \/ /\ row.amount # None
            /\ Step([At(Fresh, "transaction_initiated") EXCEPT
                       !.calls = IF ok THEN <<TransferCall(v, Scale(row.amount, v), row.recipient)>>
                                 ELSE <<>>])

\* Swap, wait a second, then transfer: either may be refused, and what was
\* swapped stays swapped.
TransactionInitiateSwap(swapped, sent) ==
  LET swapping == SwapCall(row.custom.v, row.swapTo, row.swapAmount)
      sending == TransferCall(row.swapTo, row.amount, row.recipient)
      s == At(Fresh, "transaction_swap_initiated")
  IN  /\ On("transaction_swap")
      /\ \/ ~swapped /\ Step(s)
         \/ swapped /\ ~sent /\ Step([s EXCEPT !.calls = <<swapping>>])
         \/ swapped /\ sent /\ Step([s EXCEPT !.calls = <<swapping, sending>>, !.swap = FALSE])
=============================================================================
