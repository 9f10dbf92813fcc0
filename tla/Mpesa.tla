------------------------------- MODULE Mpesa --------------------------------
(***************************************************************************)
(* Vouchers for shillings on the user's phone (get_mpesa), by a transfer   *)
(* to the M-Pesa account or by a swap followed by one, and the other way   *)
(* round (send_mpesa), by a purchase.                                      *)
(***************************************************************************)
EXTENDS Cash

Refusals == {"low_swap_amount", "api_call_error", "incorrect_voucher", "incorrect_pool"}

\* The rest of GetMpesaMaxLimit, when the active voucher of the M-Pesa account is
\* to: a transfer when the chosen voucher is that or stable, otherwise a swap,
\* if the pool takes the voucher and the limit is not too low.
WithdrawalLimit(s, to) ==
  IF s.custom.v \in Stable \cup {to}
  THEN LET t == [s EXCEPT !.type = "normal"]
       IN  {IF s.custom.bal * rate < MinWithdraw THEN Set(t, {"low_swap_amount"})
            ELSE Reset(t, Refusals) : rate \in Rates}
  ELSE {Set(s, {"api_call_error"}), Set(s, {"incorrect_pool"})}
         \cup {IF Truncate(limit) < MinAmount
               THEN Set(Reset(s, {"api_call_error"}), {"low_swap_amount"})
               ELSE Reset([s EXCEPT !.swapMax = Truncate(limit), !.type = "swap",
                                    !.swapTo = to], Refusals) : limit \in Answers}

\* GetMpesaMaxLimit, for a voucher of the list.  Without an active voucher the
\* M-Pesa account is of no use to it.
GetMpesaMaxLimit(s, hd) ==
  LET t == [s EXCEPT !.custom = hd]
  IN  IF ~HasSessionData(s) THEN {Failed(t)}
      ELSE {Set(t, {"api_call_error"})}
             \cup UNION {IF to = None THEN {Failed(t)} ELSE WithdrawalLimit(t, to)
                         : to \in MpesaVouchers}

\* get_mpesa.vis after its handler.
AfterWithdrawalLimit(s) ==
  IF s.error THEN s
  ELSE IF Has(s, "incorrect_voucher") THEN At(s, "get_mpesa")
  ELSE IF s.flags \cap Refusals # {} THEN At(s, "low_withdraw_mpesa_amount")
  ELSE At(ResetTransactionAmount(s), "mpesa_max_limit")

OpenGetMpesa == On("mpesa") /\ Step(EnterList(Fresh, "get_mpesa"))

ChooseWithdrawalVoucher(hd) ==
  /\ On("get_mpesa") /\ hd \in row.held
  /\ \E s \in Twice(LAMBDA t : GetMpesaMaxLimit(t, hd), Fresh) : Step(AfterWithdrawalLimit(s))

MischooseWithdrawalVoucher ==
  On("get_mpesa") /\ Step(Set(Fresh, {"incorrect_voucher"}))

\* GetMpesaPreview: ksh shillings, at a rate that may not be that of the limit.  It
\* is the voucher that is shown with its amount; the two decimals to which the
\* screen cuts it, and the M-Pesa account that it does not name, are left out.  Before
\* a swap the service is asked for a quote, and both of its amounts are taken as they
\* come: in is shown and swapped, out is transferred, whatever was asked for.
PreviewAtRate(s, ksh, rate) ==
  LET n == ksh \div rate
      c == s.custom
  IN  IF s.type = "normal"
      THEN IF n > c.bal THEN {Set(s, {"invalid_amount"})}
           ELSE {[s EXCEPT !.amount = [n |-> n, whole |-> FALSE],
                    !.shown = <<Transfer(c.v, Scale(n, c.v), "mpesa")>>]}
      ELSE IF s.swapTo = None THEN {Failed(s)}
      ELSE IF n > s.swapMax THEN {Set(s, {"invalid_amount"})}
      ELSE {Set(s, {"api_call_error"})}
             \cup UNION {{[s EXCEPT !.amount = [n |-> out, whole |-> TRUE], !.swapAmount = in,
                             !.shown = <<Swap(c.v, in, s.swapTo),
                                         Transfer(s.swapTo, out, "mpesa")>>]
                           : in \in Answers} : out \in Answers}

GetMpesaPreview(s, ksh) ==
  {Set(s, {"api_call_error"})}
    \cup (IF ksh < MinWithdraw THEN {Set(s, {"invalid_amount"})}
          ELSE UNION {PreviewAtRate(s, ksh, rate) : rate \in Rates})

\* mpesa_max_limit.vis after its handler, and invalid_get_mpesa_amount.vis.
AfterWithdrawalPreview(s) ==
  IF s.error THEN s
  ELSE IF Has(s, "api_call_error") THEN ApiFailure([s EXCEPT !.shown = <<>>])
  ELSE IF Has(s, "invalid_amount")
  THEN At(ResetTransactionAmount([s EXCEPT !.shown = <<>>]), "invalid_get_mpesa_amount")
  ELSE At(s, "get_mpesa_confirmation")

AnswerWithdrawal(ksh) ==
  /\ On("mpesa_max_limit")
  /\ \E s \in Twice(LAMBDA t : GetMpesaPreview(t, ksh), Fresh) : Step(AfterWithdrawalPreview(s))

\* InitiateGetMpesa, with the right PIN.  A plain transfer wants all the entries of
\* credit send to be there, also those that it has no use for.
InitiateGetMpesa(swapped, sent) ==
  LET s == At(Fresh, "initiate_get_mpesa")
      failed == Set(s, {"api_call_error"})
      swap == Swap(row.custom.v, row.swapAmount, row.swapTo)
  IN  /\ On("get_mpesa_confirmation")
      /\ IF row.type = "normal"
         THEN IF ~row.input THEN Step(Failed(Fresh))
              ELSE IF ~sent THEN Step(failed)
              ELSE Step([s EXCEPT !.calls =
                           <<Transfer(row.custom.v, Scale(row.amount.n, row.custom.v), "mpesa")>>])
         ELSE IF ~swapped THEN Step(failed)
              ELSE IF ~sent THEN Step([failed EXCEPT !.calls = <<swap>>])
              ELSE Step([s EXCEPT !.calls = <<swap, Transfer(row.swapTo, row.amount.n, "mpesa")>>])

LeaveGetMpesa ==
  \/ On("get_mpesa") /\ \E s \in EnterMpesa(Fresh) : Step(s)
  \/ /\ row.node \in {"low_withdraw_mpesa_amount", "mpesa_max_limit"}
     /\ Step(At(Fresh, "get_mpesa"))
  \/ /\ row.node \in {"invalid_get_mpesa_amount", "get_mpesa_confirmation"}
     /\ Step(At(ResetTransactionAmount([Fresh EXCEPT !.shown = <<>>]), "mpesa_max_limit"))

-----------------------------------------------------------------------------
(* Shillings for vouchers *)

OpenSendMpesa == On("mpesa") /\ Step(At(Fresh, "send_mpesa"))

\* A faulty variant, which only serves to see the properties fail.
SendMpesaPreviewUnstored(s, ksh) ==
  {Set(s, {"api_call_error"})}
    \cup (IF ksh > MaxSend \/ ksh < MinSend THEN {Set(s, {"invalid_amount"})}
          ELSE {Reset([s EXCEPT !.shown = <<Onramp(ksh)>>], {"invalid_amount"})})

\* SendMpesaPreview.  When the rates are not to be had nothing is stored.
SendMpesaPreview(s, ksh) ==
  {Set(s, {"api_call_error"})}
    \cup (IF ksh > MaxSend \/ ksh < MinSend THEN {Set(s, {"invalid_amount"})}
          ELSE {Reset([s EXCEPT !.amount = [n |-> ksh, whole |-> ksh \in Whole],
                         !.shown = <<Onramp(ksh)>>],
                      {"invalid_amount"})})

\* send_mpesa_confirmation.vis looks at flag_invalid_amount only.
AnswerSendMpesa(ksh) ==
  /\ On("send_mpesa")
  /\ \E s \in SendMpesaPreview(Fresh, ksh) :
       Step(At(s, IF Has(s, "invalid_amount") THEN "invalid_send_mpesa_amount"
                  ELSE "send_mpesa_confirmation"))

\* InitiateSendMpesa, with the right PIN.
InitiateSendMpesa(ok) ==
  LET s == At(Fresh, "initiate_send_mpesa")
  IN  /\ On("send_mpesa_confirmation")
      /\ IF row.amount = None THEN Step(Failed(Fresh))
         ELSE IF ~row.amount.whole THEN Step(Failed(Fresh))
         ELSE IF ~ok THEN Step(Set(s, {"api_call_error"}))
         ELSE Step([s EXCEPT !.calls = <<Onramp(row.amount.n)>>])

LeaveSendMpesa ==
  \/ On("send_mpesa") /\ \E s \in EnterMpesa(Fresh) : Step(s)
  \/ On("invalid_send_mpesa_amount") /\ ToMain(Fresh)
  \/ On("send_mpesa_confirmation") /\ Step(At([Fresh EXCEPT !.shown = <<>>], "send_mpesa"))
=============================================================================
