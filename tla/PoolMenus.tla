----------------------------- MODULE PoolMenus -----------------------------
(***************************************************************************)
(* The menus about the user's pool: choosing it (select_pool), depositing  *)
(* a voucher into it (pool_deposit) and swapping another voucher into it   *)
(* for the active one (pay_debt).                                          *)
(***************************************************************************)
EXTENDS Cash

(* The choice of a pool *)

\* GetPools: an empty answer keeps the list of an earlier visit.
GetPools(s) ==
  {Failed(s)} \cup {IF top = {} THEN s ELSE [s EXCEPT !.pools = top \ {s.pool}] : top \in TopPools}

\* select_pool.vis up to its HALT, entered or run once more; Loaded are the rows that
\* get_pools may leave.
EnterSelectPool(s, Loaded) ==
  IF Has(s, "no_active_voucher") THEN {At(s, "no_voucher")}
  ELSE {IF t.error THEN t ELSE At([t EXCEPT !.shown = <<>>], "select_pool") : t \in Loaded}

OpenSelectPool ==
  On("main") /\ \E s \in EnterSelectPool(Fresh, Twice(GetPools, Fresh)) : Step(s)

\* A faulty variant (here and below) only serves to see the properties fail.
ViewPoolOfListOnly(s, p) ==
  IF s.pools \in {None, {}} THEN {Failed(s)}
  ELSE LET t == Reset([s EXCEPT !.shown = <<ChoiceOf(p)>>], {"incorrect_pool"})
       IN  IF p \in s.pools THEN {[t EXCEPT !.temp = p]}
           ELSE {Set(s, {"api_call_error"}), Set(s, {"incorrect_pool"}), t}

\* ViewPool, for a pool of the list or another that its service may know by that
\* name.  A list that was never stored is an error, and MatchPool does not survive
\* one that was stored empty.
ViewPool(s, p) ==
  IF s.pools \in {None, {}} THEN {Failed(s)}
  ELSE LET found == Reset([s EXCEPT !.temp = p,
                             !.shown = <<ChoiceOf(p)>>], {"incorrect_pool"})
       IN  IF p \in s.pools THEN {found}
           ELSE {Set(s, {"api_call_error"}), Set(s, {"incorrect_pool"}), found}

AnswerPool(p) ==
  /\ On("select_pool")
  /\ \E s \in Twice(LAMBDA t : ViewPool(t, p), Fresh) :
       IF s.error THEN Step(s)
       ELSE IF Has(s, "api_call_error") THEN Step(ApiFailure([s EXCEPT !.shown = <<>>]))
       ELSE IF Has(s, "incorrect_pool") THEN \E t \in EnterSelectPool(s, GetPools(s)) : Step(t)
       ELSE Step(At(s, "view_pool"))

\* SetPool, with the right PIN.
SetPool ==
  /\ On("view_pool")
  /\ Step(IF row.temp \in Pool THEN At([Fresh EXCEPT !.pool = row.temp], "pool_set")
          ELSE Failed(Fresh))

LeavePool ==
  \/ row.node \in {"select_pool", "pool_set"} /\ ToMain(Fresh)
  \/ On("view_pool") /\ \E s \in EnterSelectPool(Fresh, GetPools(Fresh)) : Step(s)

-----------------------------------------------------------------------------
(* A deposit *)

OpenPoolDeposit == On("mpesa") /\ Step(EnterList(Fresh, "pool_deposit"))

\* PoolDepositMaxAmount.
ChooseDepositVoucher(hd) ==
  /\ On("pool_deposit") /\ hd \in row.held
  /\ LET s == Reset([Fresh EXCEPT !.custom = hd], {"incorrect_voucher"})
     IN  Step(At(ResetTransactionAmount(s), "pool_deposit_amount"))

MischooseDepositVoucher ==
  On("pool_deposit") /\ Step(Set(Fresh, {"incorrect_voucher"}))

ConfirmDepositOfAnyVoucher(x) ==
  LET s == Reset(Fresh, {"invalid_amount"})
  IN  /\ On("pool_deposit_amount")
      /\ Step(IF (\A h \in row.held : x > h.bal) \/ x < MinAmount
              THEN At(ResetTransactionAmount(s), "invalid_pool_deposit_amount")
              ELSE At([s EXCEPT !.amount = [n |-> x, whole |-> x \in Whole],
                         !.shown = <<Transfer(s.custom.v, Scale(x, s.custom.v), s.pool)>>],
                      "pool_deposit_confirmation"))

\* ConfirmPoolDeposit, and invalid_pool_deposit_amount.vis.
ConfirmPoolDeposit(x) ==
  LET s == Reset(Fresh, {"invalid_amount"})
  IN  /\ On("pool_deposit_amount")
      /\ Step(IF x > s.custom.bal \/ x < MinAmount
              THEN At(ResetTransactionAmount(s), "invalid_pool_deposit_amount")
              ELSE At([s EXCEPT !.amount = [n |-> x, whole |-> x \in Whole],
                         !.shown = <<Transfer(s.custom.v, Scale(x, s.custom.v), s.pool)>>],
                      "pool_deposit_confirmation"))

InitiatePoolDepositOfActive(ok) ==
  LET s == At(Fresh, "pool_deposit_initiated")
      v == row.active
  IN  /\ On("pool_deposit_confirmation")
      /\ Step(IF ok THEN [s EXCEPT !.calls = <<Transfer(v, Scale(row.amount.n, v), row.pool)>>]
              ELSE Set(s, {"api_call_error"}))

\* InitiatePoolDeposit, with the right PIN.
InitiatePoolDeposit(ok) ==
  LET s == At(Fresh, "pool_deposit_initiated")
      v == row.custom.v
  IN  /\ On("pool_deposit_confirmation")
      /\ Step(IF ok THEN [s EXCEPT !.calls = <<Transfer(v, Scale(row.amount.n, v), row.pool)>>]
              ELSE Set(s, {"api_call_error"}))

LeavePoolDeposit ==
  \/ On("pool_deposit") /\ \E s \in EnterMpesa(Fresh) : Step(s)
  \/ On("pool_deposit_amount") /\ Step(At(Fresh, "pool_deposit"))
  \/ /\ row.node \in {"invalid_pool_deposit_amount", "pool_deposit_confirmation"}
     /\ Step(At(ResetTransactionAmount([Fresh EXCEPT !.shown = <<>>]), "pool_deposit_amount"))

-----------------------------------------------------------------------------
(* The debt *)

OpenPayDebt == On("mpesa") /\ Step(EnterList(Fresh, "pay_debt"))

\* CalculateMaxPayDebt for voucher v: the limit and its quote.
CalculateMaxPayDebt(s, v) ==
  IF ~HasSessionData(s) THEN {s}
  ELSE {Set(s, {"api_call_error"})}
         \cup UNION {LET t == [s EXCEPT !.swapFrom = [v |-> v, max |-> Scale(limit, v)]]
                         u == [t EXCEPT !.swapMax = Truncate(limit)]
                     IN  IF limit < MinAmount THEN {Set(t, {"low_swap_amount"})}
                         ELSE {Set(u, {"api_call_error"}),
                               Reset(u, {"low_swap_amount", "api_call_error"})}
                     : limit \in Answers}

\* pay_debt.vis after its handler, which knows nothing of flag_incorrect_voucher:
\* other menus leave it set.
AfterDebtLimit(s) ==
  IF Has(s, "incorrect_voucher") THEN At(s, "pay_debt")
  ELSE IF s.flags \cap {"low_swap_amount", "api_call_error"} # {} THEN At(s, "low_pay_debt_amount")
  ELSE At(ResetTransactionAmount(s), "calculate_max_pay_debt")

\* The vouchers held, but for the active one.
ChooseDebtVoucher(v) ==
  /\ On("pay_debt") /\ v \in {h.v : h \in row.held} \ {row.active}
  /\ \E s \in Twice(LAMBDA t : CalculateMaxPayDebt(t, v), Fresh) : Step(AfterDebtLimit(s))

MischooseDebtVoucher ==
  /\ On("pay_debt")
  /\ Step(AfterDebtLimit(IF HasSessionData(row) THEN Set(Fresh, {"api_call_error"}) ELSE Fresh))

\* ConfirmDebtRemoval: who types the limit as it is shown gets all of it.  The amount
\* is stored before the quote that may fail.
ConfirmDebtRemoval(s, x) ==
  IF ~HasSessionData(s) THEN {s}
  ELSE IF s.swapFrom = None THEN {Failed(s)}
  ELSE IF x > s.swapMax \/ x < MinAmount THEN {Set(s, {"invalid_amount"})}
  ELSE LET v == s.swapFrom.v
       IN  UNION {LET t == [s EXCEPT !.swapAmount = n]
                  IN  {Set([t EXCEPT !.shown = <<>>], {"api_call_error"}),
                       [t EXCEPT !.temp = "text", !.shown = <<Swap(v, Scale(x, v), s.active)>>]}
                  : n \in {Scale(x, v)} \cup (IF x = s.swapMax THEN {s.swapFrom.max} ELSE {})}

AnswerDebtAmount(x) ==
  /\ On("calculate_max_pay_debt")
  /\ \E s \in Twice(LAMBDA t : ConfirmDebtRemoval(t, x), Fresh) :
       Step(IF s.error THEN s
            ELSE IF Has(s, "invalid_amount")
            THEN At(ResetTransactionAmount(s), "invalid_pay_debt_amount")
            ELSE At(s, "confirm_debt_removal"))

InitiatePayDebtOfCustom(ok) ==
  LET s == At(Fresh, "initiate_pay_debt")
      v == IF row.custom = None THEN row.swapFrom.v ELSE row.custom.v
  IN  /\ On("confirm_debt_removal")
      /\ Step(IF ~HasSessionData(row) THEN s
              ELSE IF None \in {row.swapFrom, row.swapAmount} THEN Failed(Fresh)
              ELSE IF ok THEN [s EXCEPT !.calls = <<Swap(v, row.swapAmount, row.active)>>]
              ELSE Set(s, {"api_call_error"}))

\* InitiatePayDebt, with the right PIN.
InitiatePayDebt(ok) ==
  LET s == At(Fresh, "initiate_pay_debt")
  IN  /\ On("confirm_debt_removal")
      /\ Step(IF ~HasSessionData(row) THEN s
              ELSE IF None \in {row.swapFrom, row.swapAmount} THEN Failed(Fresh)
              ELSE IF ok THEN [s EXCEPT !.calls =
                                 <<Swap(row.swapFrom.v, row.swapAmount, row.active)>>]
              ELSE Set(s, {"api_call_error"}))

LeavePayDebt ==
  \/ On("pay_debt") /\ \E s \in EnterMpesa(Fresh) : Step(s)
  \/ /\ row.node \in {"low_pay_debt_amount", "calculate_max_pay_debt"}
     /\ Step(EnterList(Fresh, "pay_debt"))
  \/ /\ row.node \in {"invalid_pay_debt_amount", "confirm_debt_removal"}
     /\ Step(At(ResetTransactionAmount([Fresh EXCEPT !.shown = <<>>]), "calculate_max_pay_debt"))
=============================================================================
