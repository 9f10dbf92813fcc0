-------------------------- MODULE CashFlows_proofs --------------------------
(***************************************************************************)
(* Proofs about CashFlows, for any vouchers, pools, amounts, rates and     *)
(* bounds: what a deposit, a withdrawal, a purchase and the removal of a   *)
(* debt ask the services for is what was shown, and within the limit that  *)
(* went with it.                                                           *)
(***************************************************************************)
EXTENDS CashFlows, TLAPS

\* The nodes on which a voucher has been chosen, those of the debt menu and, of
\* these, the ones behind its limit.
Chosen == {"mpesa_max_limit", "invalid_get_mpesa_amount", "get_mpesa_confirmation",
           "pool_deposit_amount", "invalid_pool_deposit_amount", "pool_deposit_confirmation"}
Limited == {"calculate_max_pay_debt", "invalid_pay_debt_amount", "confirm_debt_removal"}
Debt == Limited \cup {"pay_debt", "low_pay_debt_amount"}

\* What is lost of a limit when it is displayed.
Lost(x, max, v) == max - Scale(x, v) \in 0 .. (Scale(Cent, v) - 1)

\* An emptied active voucher goes with its flag, which bars the menu of the debt.
ActiveSound(r) ==
  /\ Has(r, "no_active_voucher") \/ r.active \in Voucher \cup {None}
  /\ r.node \in Debt => ~Has(r, "no_active_voucher")

ChosenSound(r) == r.node \in Chosen => r.custom \in Holding

\* DATA_ACTIVE_SWAP_FROM_*, written.
Taken == [v : Voucher, max : Nat]

LimitReady(r) ==
  HasSessionData(r) =>
    r.swapFrom \in Taken /\ Lost(r.swapMax, r.swapFrom.max, r.swapFrom.v)

LimitSound(r) == r.node \in Limited => LimitReady(r)

\* What the confirmation of a withdrawal shows are the entries it is made from; and
\* so on for each menu.
WithdrawalReady(r) ==
  /\ r.amount \in Amount
  /\ r.type = "normal" =>
       r.shown = <<Transfer(r.custom.v, Scale(r.amount.n, r.custom.v), "mpesa")>>
  /\ r.type # "normal" =>
       /\ r.swapTo \in Voucher /\ r.swapAmount \in Nat
       /\ r.shown = <<Swap(r.custom.v, r.swapAmount, r.swapTo),
                       Transfer(r.swapTo, r.amount.n, "mpesa")>>

WithdrawalSound(r) == r.node = "get_mpesa_confirmation" => WithdrawalReady(r)

PurchaseReady(r) ==
  r.shown = <<>> \/ (r.amount \in Amount /\ r.shown = <<Onramp(r.amount.n)>>)

PurchaseSound(r) ==
  /\ r.node \in {"mpesa", "send_mpesa"} => r.shown = <<>>
  /\ r.node = "send_mpesa_confirmation" => PurchaseReady(r)

DepositReady(r) ==
  /\ r.amount \in Amount /\ r.amount.n <= r.custom.bal
  /\ r.shown = <<Transfer(r.custom.v, Scale(r.amount.n, r.custom.v), r.pool)>>

DepositSound(r) == r.node = "pool_deposit_confirmation" => DepositReady(r)

DebtReady(r) ==
  HasSessionData(r) =>
    /\ r.swapAmount \in Nat /\ r.swapAmount <= r.swapFrom.max
    /\ \/ r.shown = <<>>
       \/ \E n \in Nat : /\ r.swapAmount - n \in 0 .. (Scale(Cent, r.swapFrom.v) - 1)
                         /\ r.shown = <<Swap(r.swapFrom.v, n, r.active)>>

DebtSound(r) == r.node = "confirm_debt_removal" => DebtReady(r)

PoolReady(r) == r.temp \in Pool /\ r.shown = <<ChoiceOf(r.temp)>>

PoolSound(r) == r.node = "view_pool" => PoolReady(r)

Sound(r) ==
  /\ r \in Row
  /\ ActiveSound(r) /\ ChosenSound(r) /\ LimitSound(r)
  /\ WithdrawalSound(r) /\ PurchaseSound(r) /\ DepositSound(r) /\ DebtSound(r) /\ PoolSound(r)

Inv == Sound(row) /\ visits \in 1 .. MaxVisits

\* A step that asks the services for nothing and leaves the pool.
Quiet == Inv' /\ row'.calls = <<>> /\ row'.pool = row.pool

\* What each property says of a step.
PaidStep ==
  \A i \in Made("transfer") :
    Len(row.shown) >= i /\ SubSeq(row'.calls, 1, i) = SubSeq(row.shown, 1, i)
DebtStep ==
  row.node = "confirm_debt_removal" =>
    \A i \in Made("swap") :
      LET made == row'.calls[i]
      IN  /\ made.from = row.swapFrom.v
          /\ \A j \in DOMAIN row.shown :
               /\ [made EXCEPT !.n = 0] = [row.shown[j] EXCEPT !.n = 0]
               /\ made.n - row.shown[j].n \in 0 .. (Scale(Cent, made.from) - 1)
PurchaseStep == \A i \in Made("onramp") : row.shown # <<>> => row'.calls = row.shown
LimitStep ==
  /\ row.node = "pool_deposit_confirmation" =>
       \A i \in Made("transfer") : row'.calls[i].n <= Scale(row.custom.bal, row.custom.v)
  /\ row.node = "confirm_debt_removal" =>
       \A i \in Made("swap") : row'.calls[i].n <= row.swapFrom.max
PoolStep ==
  row'.pool # row.pool => row.node = "view_pool" /\ row.shown = <<ChoiceOf(row'.pool)>>

StepSound == PaidStep /\ DebtStep /\ PurchaseStep /\ LimitStep /\ PoolStep

LEMMA QuietIsSound == Quiet => Inv' /\ StepSound
BY DEF Quiet, StepSound, PaidStep, DebtStep, PurchaseStep, LimitStep, PoolStep, Made

-----------------------------------------------------------------------------
(* Amounts *)

LEMMA ScaleIsNat ==
  ASSUME NEW x \in Nat, NEW v \in Voucher
  PROVE  Scale(x, v) \in Nat
BY CashVoucherAssumption DEF Scale

LEMMA ScaleIsMonotone ==
  ASSUME NEW x \in Nat, NEW y \in Nat, x <= y, NEW v \in Voucher
  PROVE  Scale(x, v) <= Scale(y, v)
<1> DEFINE k == Unit[v]
<1>1. k \in Nat
  BY CashVoucherAssumption
<1> HIDE DEF k
<1>2. x * k <= y * k
  BY <1>1
<1> QED BY <1>2 DEF Scale, k

LEMMA CentIsSomething ==
  ASSUME NEW v \in Voucher
  PROVE  Scale(Cent, v) \in Nat \ {0}
BY CashVoucherAssumption, CashAmountAssumption DEF Scale

LEMMA TruncateIsNat ==
  ASSUME NEW x \in Nat
  PROVE  Truncate(x) \in Nat /\ Truncate(x) <= x /\ x - Truncate(x) < Cent
<1>1. Cent \in Nat /\ Cent > 0
  BY CashAmountAssumption
<1>2. x % Cent \in Nat /\ x % Cent < Cent
  BY <1>1
<1>3. x % Cent <= x
  BY <1>1, <1>2
<1> QED BY <1>1, <1>2, <1>3 DEF Truncate

LEMMA TruncateLoses ==
  ASSUME NEW x \in Nat, NEW v \in Voucher
  PROVE  Lost(Truncate(x), Scale(x, v), v)
<1> DEFINE k == Unit[v]
           t == Truncate(x)
<1>1. k \in Nat \ {0} /\ t \in Nat /\ t <= x /\ x - t < Cent /\ Cent \in Nat
  BY CashVoucherAssumption, CashAmountAssumption, TruncateIsNat
<1> HIDE DEF k, t
<1>2. (x - t) * k \in Nat /\ x * k - t * k = (x - t) * k
  BY <1>1
<1>3. PICK d \in Nat : Cent = (x - t) + 1 + d
  BY <1>1
<1>4. Cent * k = (x - t) * k + k + d * k /\ d * k \in Nat
  BY <1>1, <1>3
<1>5. (x - t) * k <= Cent * k - 1
  BY <1>1, <1>2, <1>4
<1> QED BY <1>1, <1>2, <1>5 DEF Lost, Scale, k, t

-----------------------------------------------------------------------------
(* Rows on the way from one to the next *)

\* A row that a request may pass through.
Good(r) ==
  /\ r \in Row /\ r.calls = <<>> /\ r.pool = row.pool
  /\ Has(r, "no_active_voucher") \/ r.active \in Voucher \cup {None}

\* The nodes where nothing is relied on.
Resting ==
  Node \ (Chosen \cup Debt \cup {"mpesa", "send_mpesa", "send_mpesa_confirmation", "view_pool"})

LEMMA FieldsOfRow ==
  ASSUME NEW r \in Row
  PROVE  /\ DOMAIN r = {"node", "flags", "active", "held", "type", "input", "custom", "amount",
                        "temp", "swapFrom", "swapTo", "swapMax", "swapAmount", "pool", "pools",
                        "shown", "calls", "error"}
         /\ r.node \in Node /\ r.flags \in SUBSET Flag /\ r.active \in Voucher \cup {None, ""}
         /\ r.held \in SUBSET Holding /\ r.custom \in Holding \cup {None}
         /\ r.amount \in Amount \cup {None} /\ r.swapTo \in Voucher \cup {None}
         /\ r.swapFrom \in Taken \cup {None}
         /\ r.swapMax \in Nat /\ r.swapAmount \in Nat \cup {None} /\ r.pool \in Pool
         /\ r.pools \in (SUBSET Pool) \cup {None}
         /\ r.shown \in Seq(Call) /\ r.calls \in Seq(Call) /\ r.error \in BOOLEAN
BY DEF Row, Taken

LEMMA CallsAreCalls ==
  ASSUME NEW n \in Nat, NEW v \in Voucher
  PROVE  /\ \A to \in Pool \cup {"mpesa"} : <<Transfer(v, n, to)>> \in Seq(Call)
         /\ \A w \in Voucher \cup {None} : <<Swap(v, n, w)>> \in Seq(Call)
         /\ \A w \in Voucher, m \in Nat :
              <<Swap(v, n, w), Transfer(w, m, "mpesa")>> \in Seq(Call)
<1>1. \A to \in Pool \cup {"mpesa"} : Transfer(v, n, to) \in Call
  BY DEF Transfer, Call
<1>2. \A w \in Voucher \cup {None} : Swap(v, n, w) \in Call
  BY DEF Swap, Call
<1>3. \A w \in Voucher, m \in Nat : Transfer(w, m, "mpesa") \in Call
  BY DEF Transfer, Call
<1> QED BY <1>1, <1>2, <1>3

LEMMA OtherCallsAreCalls ==
  /\ \A n \in Nat : <<Onramp(n)>> \in Seq(Call)
  /\ \A p \in Pool : <<ChoiceOf(p)>> \in Seq(Call)
<1>1. \A n \in Nat : Onramp(n) \in Call
  BY DEF Onramp, Call
<1>2. \A p \in Pool : ChoiceOf(p) \in Call
  BY DEF ChoiceOf, Call
<1> QED BY <1>1, <1>2

\* What a handler may write into a row, entry by entry.
LEMMA RowTakes ==
  ASSUME NEW r \in Row
  PROVE  /\ \A n \in Node : [r EXCEPT !.node = n] \in Row
         /\ \A F \in SUBSET Flag : [r EXCEPT !.flags = F] \in Row
         /\ \A v \in Voucher \cup {None, ""} : [r EXCEPT !.active = v] \in Row
         /\ \A H \in SUBSET Holding : [r EXCEPT !.held = H] \in Row
         /\ \A t \in {None, "", "normal", "swap"} : [r EXCEPT !.type = t] \in Row
         /\ [r EXCEPT !.input = TRUE] \in Row
         /\ \A h \in Holding \cup {None} : [r EXCEPT !.custom = h] \in Row
         /\ \A a \in Amount \cup {None} : [r EXCEPT !.amount = a] \in Row
         /\ \A p \in Pool \cup {"text", None} : [r EXCEPT !.temp = p] \in Row
         /\ \A f \in Taken \cup {None} : [r EXCEPT !.swapFrom = f] \in Row
         /\ \A v \in Voucher \cup {None} : [r EXCEPT !.swapTo = v] \in Row
         /\ \A x \in Nat : [r EXCEPT !.swapMax = x] \in Row
         /\ \A x \in Nat \cup {None} : [r EXCEPT !.swapAmount = x] \in Row
         /\ \A p \in Pool : [r EXCEPT !.pool = p] \in Row
         /\ \A P \in (SUBSET Pool) \cup {None} : [r EXCEPT !.pools = P] \in Row
         /\ \A s \in Seq(Call) : [r EXCEPT !.shown = s] \in Row
         /\ \A s \in Seq(Call) : [r EXCEPT !.calls = s] \in Row
         /\ \A e \in BOOLEAN : [r EXCEPT !.error = e] \in Row
<1>1. \A n \in Node : [r EXCEPT !.node = n] \in Row
  BY DEF Row
<1>2. \A F \in SUBSET Flag : [r EXCEPT !.flags = F] \in Row
  BY DEF Row
<1>3. \A v \in Voucher \cup {None, ""} : [r EXCEPT !.active = v] \in Row
  BY DEF Row
<1>4. \A H \in SUBSET Holding : [r EXCEPT !.held = H] \in Row
  BY DEF Row
<1>5. \A t \in {None, "", "normal", "swap"} : [r EXCEPT !.type = t] \in Row
  BY DEF Row
<1>6. [r EXCEPT !.input = TRUE] \in Row
  BY DEF Row
<1>7. \A h \in Holding \cup {None} : [r EXCEPT !.custom = h] \in Row
  BY DEF Row
<1>8. \A a \in Amount \cup {None} : [r EXCEPT !.amount = a] \in Row
  BY DEF Row
<1>9. \A p \in Pool \cup {"text", None} : [r EXCEPT !.temp = p] \in Row
  BY DEF Row
<1>10. \A f \in Taken \cup {None} : [r EXCEPT !.swapFrom = f] \in Row
  BY DEF Row, Taken
<1>11. \A v \in Voucher \cup {None} : [r EXCEPT !.swapTo = v] \in Row
  BY DEF Row
<1>12. \A x \in Nat : [r EXCEPT !.swapMax = x] \in Row
  BY DEF Row
<1>13. \A x \in Nat \cup {None} : [r EXCEPT !.swapAmount = x] \in Row
  BY DEF Row
<1>14. \A p \in Pool : [r EXCEPT !.pool = p] \in Row
  BY DEF Row
<1>15. \A P \in (SUBSET Pool) \cup {None} : [r EXCEPT !.pools = P] \in Row
  BY DEF Row
<1>16. \A s \in Seq(Call) : [r EXCEPT !.shown = s] \in Row
  BY DEF Row
<1>17. \A s \in Seq(Call) : [r EXCEPT !.calls = s] \in Row
  BY DEF Row
<1>18. \A e \in BOOLEAN : [r EXCEPT !.error = e] \in Row
  BY DEF Row
<1> QED BY <1>1, <1>2, <1>3, <1>4, <1>5, <1>6, <1>7, <1>8, <1>9, <1>10, <1>11, <1>12,
           <1>13, <1>14, <1>15, <1>16, <1>17, <1>18

\* The same but for the node, the flags and the end of the session.
SameEntries(r, s) ==
  /\ s.active = r.active /\ s.type = r.type /\ s.custom = r.custom /\ s.amount = r.amount
  /\ s.temp = r.temp /\ s.swapFrom = r.swapFrom /\ s.swapTo = r.swapTo
  /\ s.swapMax = r.swapMax /\ s.swapAmount = r.swapAmount /\ s.pools = r.pools
  /\ s.held = r.held /\ s.input = r.input /\ s.shown = r.shown

\* Only flags may differ, and that there is no active voucher is still known.
Alike(r, s) ==
  /\ Good(s) /\ SameEntries(r, s) /\ s.node = r.node /\ s.error = r.error
  /\ Has(s, "no_active_voucher") <=> Has(r, "no_active_voucher")

LEMMA FlagsKeepGood ==
  ASSUME NEW r, Good(r), NEW F \in SUBSET Flag, "no_active_voucher" \notin F
  PROVE  /\ Alike(r, Set(r, F)) /\ Set(r, F).flags = r.flags \cup F
         /\ Alike(r, Reset(r, F)) /\ Reset(r, F).flags = r.flags \ F
<1>1. r \in Row /\ r.flags \in SUBSET Flag
  BY FieldsOfRow DEF Good
<1>2. [r EXCEPT !.flags = @ \cup F] \in Row
  BY <1>1, RowTakes
<1>3. [r EXCEPT !.flags = @ \ F] \in Row
  BY <1>1, RowTakes
<1>4. Good(Set(r, F)) /\ SameEntries(r, Set(r, F)) /\ Set(r, F).flags = r.flags \cup F
      /\ Set(r, F).node = r.node /\ Set(r, F).error = r.error
  BY <1>1, <1>2, FieldsOfRow DEF Good, Set, Has, SameEntries
<1>5. Good(Reset(r, F)) /\ SameEntries(r, Reset(r, F)) /\ Reset(r, F).flags = r.flags \ F
      /\ Reset(r, F).node = r.node /\ Reset(r, F).error = r.error
  BY <1>1, <1>3, FieldsOfRow DEF Good, Reset, Has, SameEntries
<1> QED BY <1>4, <1>5 DEF Alike, Has

LEMMA AtMoves ==
  ASSUME NEW r, Good(r), NEW n \in Node
  PROVE  /\ Good(At(r, n)) /\ SameEntries(r, At(r, n)) /\ At(r, n).node = n
         /\ At(r, n).error = r.error /\ At(r, n).flags = r.flags
         /\ Good(Failed(r)) /\ SameEntries(r, Failed(r)) /\ Failed(r).node = "off"
         /\ Failed(r).error
<1>1. r \in Row /\ "off" \in Node
  BY DEF Good, Node
<1>2. [r EXCEPT !.node = n] \in Row
  BY <1>1, RowTakes
<1>3. [r EXCEPT !.node = "off", !.error = TRUE] \in Row
  BY <1>1 DEF Row
<1>4. Good(At(r, n)) /\ SameEntries(r, At(r, n)) /\ At(r, n).node = n
      /\ At(r, n).error = r.error /\ At(r, n).flags = r.flags
  BY <1>1, <1>2, FieldsOfRow DEF Good, At, Has, SameEntries
<1>5. Good(Failed(r)) /\ SameEntries(r, Failed(r)) /\ Failed(r).node = "off" /\ Failed(r).error
  BY <1>1, <1>3, FieldsOfRow DEF Good, Failed, Has, SameEntries
<1> QED BY <1>4, <1>5

LEMMA FreshIsGood ==
  ASSUME Inv
  PROVE  /\ Good(Fresh) /\ SameEntries(row, Fresh) /\ Fresh.node = row.node
         /\ Fresh.flags = row.flags /\ Fresh.error = FALSE
<1>1. row \in Row /\ <<>> \in Seq(Call)
  BY DEF Inv, Sound
<1>2. [row EXCEPT !.calls = <<>>, !.error = FALSE] \in Row
  BY <1>1 DEF Row
<1> QED BY <1>1, <1>2, FieldsOfRow DEF Good, Inv, Sound, ActiveSound, Fresh, Has, SameEntries

LEMMA AmountKeepsGood ==
  ASSUME NEW r, Good(r)
  PROVE  /\ Good(ResetTransactionAmount(r)) /\ Good([r EXCEPT !.shown = <<>>])
         /\ SameEntries([r EXCEPT !.amount = None], ResetTransactionAmount(r))
         /\ Has(ResetTransactionAmount(r), "no_active_voucher") <=> Has(r, "no_active_voucher")
         /\ Good(ApiFailure(r)) /\ ApiFailure(r).node = "api_failure"
<1>1. r \in Row /\ <<>> \in Seq(Call)
  BY DEF Good
<1>2. [r EXCEPT !.amount = None] \in Row /\ [r EXCEPT !.shown = <<>>] \in Row
  BY <1>1, RowTakes
<1>3. Good([r EXCEPT !.amount = None]) /\ Good([r EXCEPT !.shown = <<>>])
  BY <1>1, <1>2, FieldsOfRow DEF Good, Has
<1>4. Alike([r EXCEPT !.amount = None], ResetTransactionAmount(r))
  BY <1>3, FlagsKeepGood DEF ResetTransactionAmount, Flag
<1>5. Has([r EXCEPT !.amount = None], "no_active_voucher") <=> Has(r, "no_active_voucher")
  BY <1>1, FieldsOfRow DEF Has
<1>6. Good(Reset(r, {"api_call_error"}))
  BY FlagsKeepGood DEF Flag, Alike
<1> QED BY <1>3, <1>4, <1>5, <1>6, AtMoves DEF ApiFailure, Node, Alike

LEMMA RestingIsSound ==
  ASSUME NEW r, Good(r), r.node \in Resting
  PROVE  Sound(r)
BY DEF Good, Sound, Resting, Chosen, Limited, Debt, ActiveSound, ChosenSound,
       LimitSound, WithdrawalSound, PurchaseSound, DepositSound, DebtSound, PoolSound, Has

LEMMA StepIsQuiet ==
  ASSUME Inv, NEW r, Good(r), r.node \in Resting \/ Sound(r), Step(r)
  PROVE  Quiet
BY RestingIsSound DEF Good, Step, Quiet, Inv

\* The main menu, whatever the voucher service answers.
LEMMA ManageVouchersIsGood ==
  ASSUME NEW r, Good(r), NEW H \in Holdings, NEW s \in ManageVouchers(r, H)
  PROVE  Good(s)
<1>1. /\ r \in Row /\ H \in SUBSET Holding /\ \A h \in H : h.v \in Voucher
      /\ "no_active_voucher" \in Flag
  BY CashVoucherAssumption DEF Good, Holding, Flag
<1>2. CASE H = {}
  <2> DEFINE x == IF r.active = None THEN None ELSE ""
             t == [r EXCEPT !.active = x]
  <2>1. s = Set(t, {"no_active_voucher"})
    BY <1>2 DEF ManageVouchers
  <2>2. t \in Row
    BY <1>1, RowTakes
  <2>3. t.calls = r.calls /\ t.pool = r.pool /\ t.flags \in SUBSET Flag
    BY <1>1, <2>2, FieldsOfRow
  <2> HIDE DEF t
  <2>4. s = [t EXCEPT !.flags = t.flags \cup {"no_active_voucher"}]
    BY <2>1 DEF Set
  <2>5. s \in Row
    BY <1>1, <2>2, <2>3, <2>4, RowTakes
  <2> QED BY <2>2, <2>3, <2>4, <2>5, FieldsOfRow DEF Good, Has
<1>3. CASE H # {}
  <2> DEFINE t == [r EXCEPT !.held = H]
             u == Reset(t, {"no_active_voucher"})
  <2>1. PICK v \in Voucher : s = [u EXCEPT !.active = v]
    BY <1>1, <1>3 DEF ManageVouchers
  <2>2. t \in Row
    BY <1>1, RowTakes
  <2>3. t.calls = r.calls /\ t.pool = r.pool /\ t.flags \in SUBSET Flag
    BY <1>1, <2>2, FieldsOfRow
  <2> HIDE DEF t
  <2>4. u \in Row
    BY <2>2, <2>3, RowTakes DEF Reset
  <2>5. u.calls = r.calls /\ u.pool = r.pool
    BY <2>2, <2>3, <2>4, FieldsOfRow DEF Reset
  <2> HIDE DEF u
  <2>6. s \in Row
    BY <2>1, <2>4, RowTakes
  <2>7. s.calls = r.calls /\ s.pool = r.pool /\ s.active = v
    BY <2>1, <2>4, <2>5, FieldsOfRow
  <2> QED BY <2>6, <2>7 DEF Good
<1> QED BY <1>2, <1>3

LEMMA ToMainIsQuiet ==
  ASSUME Inv, NEW r, Good(r), ToMain(r)
  PROVE  Quiet
<1>1. /\ r \in Row /\ <<>> \in Seq(Call) /\ None \in Pool \cup {"text", None}
      /\ {"api_call_error"} \in SUBSET Flag /\ "main" \in Node
  BY DEF Good, Flag, Node
<1> DEFINE t == [r EXCEPT !.temp = None, !.shown = <<>>]
           c == Reset(t, {"api_call_error"})
<1>2. t \in Row
  <2>1. [r EXCEPT !.temp = None] \in Row
    BY <1>1, RowTakes
  <2>2. [[r EXCEPT !.temp = None] EXCEPT !.shown = <<>>] \in Row
    BY <1>1, <2>1, RowTakes
  <2> QED BY <2>2
<1>3. Good(t)
  BY <1>1, <1>2, FieldsOfRow DEF Good, Has
<1> HIDE DEF t
<1>4. Good(c)
  BY <1>1, <1>3, FlagsKeepGood DEF Alike
<1> HIDE DEF c
<1>5. \A H \in Holdings : \A s \in ManageVouchers(c, H) :
        Good(At(s, "main")) /\ At(s, "main").node = "main"
  BY <1>1, <1>4, ManageVouchersIsGood, AtMoves
<1>6. Good(row') /\ row'.node \in {"main", "api_failure"}
  BY <1>4, <1>5, AmountKeepsGood DEF ToMain, EnterMain, c, t
<1>7. Sound(row')
  BY <1>6, RestingIsSound DEF Resting, Node, Chosen, Debt, Limited
<1> QED BY <1>6, <1>7, CashAmountAssumption DEF ToMain, Quiet, Inv, Good

LEMMA DiallingIsQuiet ==
  ASSUME Inv, Dialling
  PROVE  Quiet
<1>1. CASE Dial
  BY <1>1, FreshIsGood, ToMainIsQuiet DEF Dial
<1>2. CASE DialInVain
  <2>1. Good(ApiFailure([Fresh EXCEPT !.shown = <<>>]))
        /\ ApiFailure([Fresh EXCEPT !.shown = <<>>]).node = "api_failure"
    BY FreshIsGood, AmountKeepsGood
  <2> QED BY <1>2, <2>1, StepIsQuiet DEF DialInVain, Resting, Node, Chosen, Debt, Limited
<1> QED BY <1>1, <1>2 DEF Dialling

\* The M-Pesa menu, on which nothing is shown for confirmation.
LEMMA EnterMpesaIsQuiet ==
  ASSUME Inv, NEW s \in EnterMpesa(Fresh), Step(s)
  PROVE  Quiet
<1> DEFINE c == [Fresh EXCEPT !.shown = <<>>]
           after == IF HasSessionData(Fresh) THEN Reset(c, {"api_call_error"}) ELSE c
<1>1. Good(c) /\ c \in Row /\ c.shown = <<>>
  <2>1. Good(Fresh) /\ Fresh \in Row
    BY FreshIsGood DEF Good
  <2>2. Good(c)
    BY <2>1, AmountKeepsGood
  <2>3. c.shown = <<>>
    BY <2>1, FieldsOfRow
  <2> QED BY <2>2, <2>3 DEF Good
<1> HIDE DEF c
<1>2. Good(after) /\ after.shown = <<>>
  <2>1. Good(Reset(c, {"api_call_error"}))
    BY <1>1, FlagsKeepGood DEF Flag, Alike
  <2>2. Reset(c, {"api_call_error"}).shown = <<>>
    BY <1>1, FieldsOfRow DEF Reset
  <2> QED BY <1>1, <2>1, <2>2
<1> HIDE DEF after
<1>3. Good(At(after, "mpesa")) /\ At(after, "mpesa").node = "mpesa"
      /\ At(after, "mpesa").shown = <<>>
  BY <1>2, AtMoves DEF Node, SameEntries
<1>4. Sound(At(after, "mpesa"))
  BY <1>3 DEF Good, Sound, Chosen, Limited, Debt, ActiveSound, ChosenSound, LimitSound,
       WithdrawalSound, PurchaseSound, DepositSound, DebtSound, PoolSound
<1>5. Good(ApiFailure(after)) /\ ApiFailure(after).node \in Resting
  BY <1>2, AmountKeepsGood DEF Resting, Node, Chosen, Debt, Limited
<1>6. s \in {At(after, "mpesa"), ApiFailure(after)}
  BY DEF EnterMpesa, after, c
<1> QED BY <1>3, <1>4, <1>5, <1>6, StepIsQuiet

\* A visit to another menu: whatever it leaves, nothing relies on it.
LEMMA ElsewhereIsQuiet ==
  ASSUME Inv, Elsewhere
  PROVE  Quiet
<1>1. Good(Fresh) /\ Fresh \in Row /\ Fresh.held = row.held /\ Fresh.custom = row.custom
      /\ Fresh.swapTo = row.swapTo /\ Fresh.active = row.active
      /\ row \in Row
  BY FreshIsGood, FieldsOfRow DEF Fresh, Good, Inv, Sound
<1>2. CASE UseCreditSend
  <2> DEFINE s == [Fresh EXCEPT !.type = "", !.amount = None]
  <2>1. s \in Row
    BY <1>1 DEF Row
  <2>2. Good(s)
    BY <1>1, <2>1, FieldsOfRow DEF Good, Has
  <2>3. ASSUME NEW t \in {"normal", "swap"}, NEW c \in row.held \cup {row.custom},
               NEW x \in Earlier, NEW to \in Voucher \cup {row.swapTo},
               ToMain([s EXCEPT !.type = t, !.input = TRUE, !.custom = c, !.swapTo = to,
                                !.amount = [n |-> x, whole |-> t = "swap"]])
        PROVE  Quiet
    <3> DEFINE e == [n |-> x, whole |-> t = "swap"]
               w == [s EXCEPT !.type = t, !.input = TRUE, !.custom = c, !.swapTo = to,
                              !.amount = e]
    <3>1. e \in Amount
      BY CashAmountAssumption DEF Amount
    <3>2. c \in Holding \cup {None} /\ to \in Voucher \cup {None}
      BY <1>1, FieldsOfRow
    <3> HIDE DEF e, s
    <3>3. w \in Row
      BY <2>1, <3>1, <3>2 DEF Row
    <3>4. Good(w)
      BY <2>1, <2>2, <3>3, FieldsOfRow DEF Good, Has
    <3> QED BY <2>3, <3>4, ToMainIsQuiet DEF e
  <2> QED BY <1>2, <2>2, <2>3, ToMainIsQuiet DEF UseCreditSend
<1>3. CASE UsePoolSwap
  <2>1. ASSUME NEW to \in Voucher, NEW max \in Earlier, NEW x \in Earlier,
               ToMain([Fresh EXCEPT !.swapTo = to, !.swapMax = max, !.swapAmount = x])
        PROVE  Quiet
    <3> DEFINE w == [Fresh EXCEPT !.swapTo = to, !.swapMax = max, !.swapAmount = x]
    <3>1. max \in Nat /\ x \in Nat
      BY CashAmountAssumption
    <3>2. w \in Row
      BY <1>1, <3>1 DEF Row
    <3>3. Good(w)
      BY <1>1, <3>2, FieldsOfRow DEF Good, Has
    <3> QED BY <2>1, <3>3, ToMainIsQuiet
  <2> QED BY <1>3, <2>1 DEF UsePoolSwap
<1>4. CASE UseVouchers
  <2>1. ASSUME NEW h \in row.held, ToMain([Fresh EXCEPT !.active = h.v, !.custom = h])
        PROVE  Quiet
    <3> DEFINE w == [Fresh EXCEPT !.active = h.v, !.custom = h]
    <3>1. h \in Holding /\ h.v \in Voucher
      BY <1>1, FieldsOfRow DEF Holding
    <3>2. w \in Row
      BY <1>1, <3>1 DEF Row
    <3>3. Good(w)
      BY <1>1, <3>1, <3>2, FieldsOfRow DEF Good, Has
    <3> QED BY <2>1, <3>3, ToMainIsQuiet
  <2> QED BY <1>4, <2>1 DEF UseVouchers
<1> QED BY <1>2, <1>3, <1>4 DEF Elsewhere

-----------------------------------------------------------------------------
(* Withdrawal *)

\* A list of vouchers; the one of the debt is for who has an active voucher.
LEMMA EnterListIsQuiet ==
  ASSUME Inv, NEW n \in {"get_mpesa", "pool_deposit", "pay_debt"}, Step(EnterList(Fresh, n))
  PROVE  Quiet
<1> DEFINE m == IF Has(Fresh, "no_active_voucher") THEN "no_voucher" ELSE n
           s == At(Fresh, m)
<1>1. m \in Node /\ Good(Fresh)
  BY FreshIsGood DEF Node
<1>2. Good(s) /\ s.node = m /\ s.flags = Fresh.flags
  BY <1>1, AtMoves
<1>3. CASE m # "pay_debt"
  BY <1>2, <1>3, StepIsQuiet DEF Resting, Node, Chosen, Debt, Limited, EnterList
<1>4. CASE m = "pay_debt"
  <2>1. Sound(s)
    BY <1>2, <1>4 DEF Has, Good, Sound, Chosen, Limited, Debt, ActiveSound, ChosenSound, LimitSound,
         WithdrawalSound, PurchaseSound, DepositSound, DebtSound, PoolSound
  <2> QED BY <1>2, <2>1, StepIsQuiet DEF EnterList
<1> QED BY <1>3, <1>4

\* The prompts for an amount, with the voucher chosen before.
LEMMA AmountPromptIsSound ==
  ASSUME NEW r, Good(r), r.custom \in Holding,
         NEW n \in Chosen \ {"get_mpesa_confirmation", "pool_deposit_confirmation"}
  PROVE  /\ Good(At(ResetTransactionAmount(r), n)) /\ Sound(At(ResetTransactionAmount(r), n))
         /\ Good(At(ResetTransactionAmount([r EXCEPT !.shown = <<>>]), n))
         /\ Sound(At(ResetTransactionAmount([r EXCEPT !.shown = <<>>]), n))
<1>1. ASSUME NEW s, Good(s), s.custom \in Holding
      PROVE  Good(At(ResetTransactionAmount(s), n)) /\ Sound(At(ResetTransactionAmount(s), n))
  <2> DEFINE u == ResetTransactionAmount(s)
             w == At(u, n)
  <2>1. s \in Row /\ Good(u) /\ SameEntries([s EXCEPT !.amount = None], u)
    BY <1>1, AmountKeepsGood DEF Good
  <2>2. u.custom \in Holding
    BY <1>1, <2>1, FieldsOfRow DEF SameEntries
  <2> HIDE DEF u
  <2>3. Good(w) /\ w.node = n /\ w.custom \in Holding
    BY <2>1, <2>2, AtMoves DEF SameEntries, Node, Chosen
  <2>4. Sound(w)
    BY <2>3 DEF Has, Good, Sound, Chosen, Limited, Debt, ActiveSound, ChosenSound, LimitSound,
         WithdrawalSound, PurchaseSound, DepositSound, DebtSound, PoolSound
  <2> QED BY <2>3, <2>4 DEF u
<1>2. r \in Row /\ Good([r EXCEPT !.shown = <<>>])
  BY AmountKeepsGood DEF Good
<1>3. [r EXCEPT !.shown = <<>>].custom \in Holding
  BY <1>2, FieldsOfRow
<1> QED BY <1>1, <1>2, <1>3

\* On the way through the limit of a withdrawal: the voucher is the chosen one.
Choosing(r) ==
  /\ Good(r) /\ r.custom \in Holding
  /\ IF r.error THEN r.node = "off" ELSE r.node = "get_mpesa"

LEMMA AlikeChooses ==
  ASSUME NEW r, Choosing(r), NEW F \in SUBSET Flag, "no_active_voucher" \notin F
  PROVE  Choosing(Set(r, F)) /\ Choosing(Reset(r, F))
BY FlagsKeepGood DEF Choosing, Alike, SameEntries

LEMMA WithdrawalLimitChooses ==
  ASSUME NEW r, Choosing(r), NEW to \in Voucher, NEW t \in WithdrawalLimit(r, to)
  PROVE  Choosing(t)
<1>1. r \in Row /\ Refusals \in SUBSET Flag /\ "no_active_voucher" \notin Refusals
      /\ \A f \in Refusals : {f} \in SUBSET Flag /\ "no_active_voucher" \notin {f}
  BY DEF Choosing, Good, Refusals, Flag
<1>2. CASE r.custom.v \in Stable \cup {to}
  <2> DEFINE n == [r EXCEPT !.type = "normal"]
  <2>1. n \in Row
    BY <1>1, RowTakes
  <2>2. Choosing(n)
    BY <1>1, <2>1, FieldsOfRow DEF Choosing, Good, Has
  <2> HIDE DEF n
  <2>3. Choosing(Set(n, {"low_swap_amount"})) /\ Choosing(Reset(n, Refusals))
    BY <1>1, <2>2, AlikeChooses DEF Refusals
  <2> QED BY <1>2, <2>3 DEF WithdrawalLimit, n
<1>3. CASE r.custom.v \notin Stable \cup {to}
  <2>1. Choosing(Set(r, {"api_call_error"})) /\ Choosing(Set(r, {"incorrect_pool"}))
        /\ Choosing(Set(Reset(r, {"api_call_error"}), {"low_swap_amount"}))
    BY <1>1, AlikeChooses DEF Refusals
  <2>2. ASSUME NEW limit \in Answers
        PROVE  Choosing(Reset([r EXCEPT !.swapMax = Truncate(limit), !.type = "swap",
                                        !.swapTo = to], Refusals))
    <3> DEFINE x == Truncate(limit)
               n == [r EXCEPT !.swapMax = x, !.type = "swap", !.swapTo = to]
    <3>1. x \in Nat
      BY TruncateIsNat, CashAmountAssumption
    <3> HIDE DEF x
    <3>2. n \in Row
      BY <1>1, <3>1 DEF Row
    <3>3. Choosing(n)
      BY <1>1, <3>2, FieldsOfRow DEF Choosing, Good, Has
    <3> HIDE DEF n
    <3>4. Choosing(Reset(n, Refusals))
      BY <1>1, <3>3, AlikeChooses
    <3> QED BY <3>4 DEF n, x
  <2> QED BY <1>3, <2>1, <2>2 DEF WithdrawalLimit
<1> QED BY <1>2, <1>3

LEMMA MaxLimitChooses ==
  ASSUME NEW r, Good(r), r.node = "get_mpesa", r.error = FALSE, NEW hd \in Holding,
         NEW t \in GetMpesaMaxLimit(r, hd)
  PROVE  Choosing(t)
<1> DEFINE s == [r EXCEPT !.custom = hd]
<1>1. r \in Row
  BY DEF Good
<1>2. s \in Row
  BY <1>1, RowTakes
<1>3. Choosing(s)
  BY <1>1, <1>2, FieldsOfRow DEF Choosing, Good, Has
<1> HIDE DEF s
<1>4. Choosing(Failed(s)) /\ Choosing(Set(s, {"api_call_error"}))
  BY <1>3, AtMoves, AlikeChooses, "off" \in Node DEF Choosing, SameEntries, Flag, Node
<1>5. \A to \in MpesaVouchers : to # None => to \in Voucher
  BY CashVoucherAssumption
<1>6. \/ t \in {Failed(s), Set(s, {"api_call_error"})}
      \/ \E to \in MpesaVouchers : to # None /\ t \in WithdrawalLimit(s, to)
  BY DEF GetMpesaMaxLimit, s
<1> QED BY <1>3, <1>4, <1>5, <1>6, WithdrawalLimitChooses

LEMMA ChooseWithdrawalVoucherIsQuiet ==
  ASSUME Inv, NEW hd \in row.held, ChooseWithdrawalVoucher(hd)
  PROVE  Quiet
<1>1. /\ Good(Fresh) /\ Fresh.node = "get_mpesa" /\ Fresh.error = FALSE /\ row \in Row
  BY FreshIsGood DEF ChooseWithdrawalVoucher, On, Inv, Sound
<1>2. hd \in Holding
  BY <1>1, FieldsOfRow
<1>3. PICK s : /\ s \in Twice(LAMBDA t : GetMpesaMaxLimit(t, hd), Fresh)
               /\ Step(AfterWithdrawalLimit(s))
  BY DEF ChooseWithdrawalVoucher
<1>4. PICK t \in GetMpesaMaxLimit(Fresh, hd) :
        IF t.error THEN s = t ELSE s \in GetMpesaMaxLimit(t, hd)
  BY <1>3 DEF Twice
<1>5. Choosing(t)
  BY <1>1, <1>2, MaxLimitChooses
<1>6. Choosing(s)
  <2>1. t.error \in BOOLEAN
    BY <1>5, FieldsOfRow DEF Choosing, Good
  <2>2. CASE t.error
    BY <1>4, <1>5, <2>2
  <2>3. CASE t.error = FALSE
    BY <1>2, <1>4, <1>5, <2>3, MaxLimitChooses DEF Choosing
  <2> QED BY <2>1, <2>2, <2>3
<1>7. CASE s.error
  BY <1>3, <1>6, <1>7, StepIsQuiet
     DEF AfterWithdrawalLimit, Choosing, Resting, Node, Chosen, Debt, Limited
<1>8. ASSUME ~s.error, NEW n \in {"get_mpesa", "low_withdraw_mpesa_amount"}, Step(At(s, n))
      PROVE  Quiet
  <2>1. Good(At(s, n)) /\ At(s, n).node = n
    BY <1>6, AtMoves DEF Choosing, Node
  <2> QED BY <1>8, <2>1, StepIsQuiet DEF Resting, Node, Chosen, Debt, Limited
<1>9. CASE Step(At(ResetTransactionAmount(s), "mpesa_max_limit"))
  BY <1>6, <1>9, AmountPromptIsSound, StepIsQuiet DEF Choosing, Chosen
<1> QED BY <1>3, <1>7, <1>8, <1>9 DEF AfterWithdrawalLimit

\* On the way through the preview of a withdrawal.
Previewing(r) ==
  /\ Good(r) /\ r.custom \in Holding
  /\ IF r.error THEN r.node = "off"
     ELSE r.node = "mpesa_max_limit"

\* What a preview leaves: a refusal, or a confirmation that shows what is stored.
Previewed(r) ==
  /\ Previewing(r)
  /\ r.error \/ Has(r, "api_call_error") \/ Has(r, "invalid_amount") \/ WithdrawalReady(r)

LEMMA RefusalIsPreviewed ==
  ASSUME NEW r, Previewing(r)
  PROVE  /\ Previewed(Set(r, {"api_call_error"})) /\ Previewed(Set(r, {"invalid_amount"}))
         /\ Previewed(Failed(r))
<1>1. {"api_call_error"} \in SUBSET Flag /\ {"invalid_amount"} \in SUBSET Flag /\ "off" \in Node
  BY DEF Flag, Node
<1>2. Previewing(Set(r, {"api_call_error"})) /\ Has(Set(r, {"api_call_error"}), "api_call_error")
  BY <1>1, FlagsKeepGood DEF Previewing, Alike, SameEntries, Has
<1>3. Previewing(Set(r, {"invalid_amount"})) /\ Has(Set(r, {"invalid_amount"}), "invalid_amount")
  BY <1>1, FlagsKeepGood DEF Previewing, Alike, SameEntries, Has
<1>4. Previewing(Failed(r)) /\ Failed(r).error
  BY <1>1, AtMoves DEF Previewing, SameEntries
<1> QED BY <1>2, <1>3, <1>4 DEF Previewed

LEMMA PreviewAtRateIsPreviewed ==
  ASSUME NEW r, Previewing(r), r.error = FALSE, NEW ksh \in Nat, NEW rate \in Rates,
         NEW t \in PreviewAtRate(r, ksh, rate)
  PROVE  Previewed(t)
<1> DEFINE n == ksh \div rate
           c == r.custom
<1>1. n \in Nat /\ r \in Row /\ c \in Holding /\ c.v \in Voucher
  BY CashAmountAssumption DEF Previewing, Good, Holding
<1> HIDE DEF n, c
<1>2. Previewed(Set(r, {"invalid_amount"})) /\ Previewed(Set(r, {"api_call_error"}))
      /\ Previewed(Failed(r))
  BY RefusalIsPreviewed
<1>3. CASE r.type = "normal"
  <2> DEFINE a == [n |-> n, whole |-> FALSE]
             sh == <<Transfer(c.v, Scale(n, c.v), "mpesa")>>
             u == [r EXCEPT !.amount = a, !.shown = sh]
  <2>1. a \in Amount /\ a.n = n
    BY <1>1 DEF Amount
  <2>2. sh \in Seq(Call)
    BY <1>1, ScaleIsNat, CallsAreCalls
  <2>3. t \in {Set(r, {"invalid_amount"}), u}
    BY <1>3 DEF PreviewAtRate, n, c
  <2> HIDE DEF a, sh
  <2>4. u \in Row
    BY <1>1, <2>1, <2>2 DEF Row
  <2>5. /\ Previewing(u) /\ u.amount = a /\ u.shown = sh /\ u.type = "normal" /\ u.custom = c
    BY <1>1, <1>3, <2>4, FieldsOfRow DEF Previewing, Good, Has, c
  <2>6. WithdrawalReady(u)
    BY <2>1, <2>5 DEF WithdrawalReady, sh
  <2> QED BY <1>2, <2>3, <2>5, <2>6 DEF Previewed
<1>4. CASE r.type # "normal" /\ r.swapTo # None /\ ~(n > r.swapMax)
  <2>1. r.swapTo \in Voucher
    BY <1>1, <1>4, FieldsOfRow
  <2> DEFINE quoted(in, out) ==
               [r EXCEPT !.amount = [n |-> out, whole |-> TRUE], !.swapAmount = in,
                 !.shown = <<Swap(c.v, in, r.swapTo), Transfer(r.swapTo, out, "mpesa")>>]
  <2>2. t \in {Set(r, {"api_call_error"})}
                \cup UNION {{quoted(in, out) : in \in Answers} : out \in Answers}
    BY <1>4, Zenon DEF PreviewAtRate, n, c
  <2>3. ASSUME NEW in \in Answers, NEW out \in Answers, t = quoted(in, out)
        PROVE  Previewed(t)
    <3> DEFINE a == [n |-> out, whole |-> TRUE]
               sh == <<Swap(c.v, in, r.swapTo), Transfer(r.swapTo, out, "mpesa")>>
    <3>1. in \in Nat /\ out \in Nat /\ a \in Amount /\ a.n = out
      BY CashAmountAssumption DEF Amount
    <3>2. sh \in Seq(Call)
      BY <1>1, <2>1, <3>1, CallsAreCalls
    <3>3. t = [r EXCEPT !.amount = a, !.swapAmount = in, !.shown = sh]
      BY <2>3 DEF sh
    <3> HIDE DEF a
    <3>4. [r EXCEPT !.amount = a, !.swapAmount = in, !.shown = sh] \in Row
      BY <1>1, <3>1, <3>2 DEF Row
    <3>5. /\ Previewing(t) /\ t.amount = a /\ t.shown = sh /\ t.type # "normal" /\ t.custom = c
          /\ t.swapTo = r.swapTo /\ t.swapAmount = in
      BY <1>1, <1>4, <3>3, <3>4, FieldsOfRow DEF Previewing, Good, Has, c
    <3>6. WithdrawalReady(t)
      BY <1>4, <2>1, <3>1, <3>5 DEF WithdrawalReady, sh
    <3> QED BY <3>5, <3>6 DEF Previewed
  <2> HIDE DEF quoted
  <2> QED BY <1>2, <2>2, <2>3
<1>5. CASE r.type # "normal" /\ (r.swapTo = None \/ n > r.swapMax)
  <2>1. t \in {Failed(r), Set(r, {"invalid_amount"})}
    BY <1>5 DEF PreviewAtRate, n
  <2> QED BY <1>2, <2>1
<1> QED BY <1>3, <1>4, <1>5

LEMMA GetMpesaPreviewIsPreviewed ==
  ASSUME NEW r, Previewing(r), r.error = FALSE, NEW ksh \in Nat,
         NEW t \in GetMpesaPreview(r, ksh)
  PROVE  Previewed(t)
<1>1. \/ t \in {Set(r, {"api_call_error"}), Set(r, {"invalid_amount"})}
      \/ \E rate \in Rates : t \in PreviewAtRate(r, ksh, rate)
  BY DEF GetMpesaPreview
<1> QED BY <1>1, RefusalIsPreviewed, PreviewAtRateIsPreviewed

LEMMA AnswerWithdrawalIsQuiet ==
  ASSUME Inv, NEW ksh \in Typed, AnswerWithdrawal(ksh)
  PROVE  Quiet
<1>1. Previewing(Fresh) /\ Fresh.error = FALSE /\ ksh \in Nat
  BY FreshIsGood, CashAmountAssumption DEF AnswerWithdrawal, On, Inv, Sound, ChosenSound, Chosen,
     Previewing, SameEntries
<1>2. PICK s : /\ s \in Twice(LAMBDA t : GetMpesaPreview(t, ksh), Fresh)
               /\ Step(AfterWithdrawalPreview(s))
  BY DEF AnswerWithdrawal
<1>3. PICK t \in GetMpesaPreview(Fresh, ksh) :
        IF t.error THEN s = t ELSE s \in GetMpesaPreview(t, ksh)
  BY <1>2 DEF Twice
<1>4. Previewed(t)
  BY <1>1, GetMpesaPreviewIsPreviewed
<1>5. Previewed(s)
  <2>1. t.error \in BOOLEAN
    BY <1>4, FieldsOfRow DEF Previewed, Previewing, Good
  <2>2. CASE t.error
    BY <1>3, <1>4, <2>2
  <2>3. CASE t.error = FALSE
    BY <1>1, <1>3, <1>4, <2>3, GetMpesaPreviewIsPreviewed DEF Previewed
  <2> QED BY <2>1, <2>2, <2>3
<1>6. Good(s) /\ s.custom \in Holding
  BY <1>5 DEF Previewed, Previewing
<1>7. CASE s.error
  BY <1>2, <1>5, <1>7, StepIsQuiet DEF AfterWithdrawalPreview, Previewed, Previewing, Resting,
     Node, Chosen, Debt, Limited
<1>8. CASE Step(ApiFailure([s EXCEPT !.shown = <<>>]))
  <2>1. Good([s EXCEPT !.shown = <<>>])
    BY <1>6, AmountKeepsGood
  <2> QED BY <1>8, <2>1, AmountKeepsGood, StepIsQuiet DEF Resting, Node, Chosen, Debt, Limited
<1>9. CASE Step(At(ResetTransactionAmount([s EXCEPT !.shown = <<>>]), "invalid_get_mpesa_amount"))
  BY <1>6, <1>9, AmountPromptIsSound, StepIsQuiet DEF Chosen
<1>10. CASE WithdrawalReady(s) /\ Step(At(s, "get_mpesa_confirmation"))
  <2> DEFINE w == At(s, "get_mpesa_confirmation")
  <2>1. Good(w) /\ SameEntries(s, w) /\ w.node = "get_mpesa_confirmation"
    BY <1>6, AtMoves DEF Node
  <2> HIDE DEF w
  <2>2. WithdrawalReady(w) /\ w.custom \in Holding
    BY <1>6, <1>10, <2>1 DEF WithdrawalReady, SameEntries
  <2>3. Sound(w)
    BY <2>1, <2>2 DEF Has, Good, Sound, Chosen, Limited, Debt, ActiveSound, ChosenSound, LimitSound,
         WithdrawalSound, PurchaseSound, DepositSound, DebtSound, PoolSound
  <2> QED BY <1>10, <2>1, <2>3, StepIsQuiet DEF w
<1> QED BY <1>2, <1>5, <1>7, <1>8, <1>9, <1>10 DEF AfterWithdrawalPreview, Previewed

\* The services are asked for C on the way to a node where nothing is relied on.
LEMMA Asks ==
  ASSUME Inv, NEW r, Good(r), r.node \in Resting, NEW C \in Seq(Call),
         Step([r EXCEPT !.calls = C])
  PROVE  Inv' /\ row'.calls = C /\ row'.pool = row.pool
<1> DEFINE w == [r EXCEPT !.calls = C]
<1>1. r \in Row /\ w \in Row
  BY RowTakes DEF Good
<1>2. w.calls = C /\ w.pool = row.pool /\ w.node = r.node
      /\ (Has(w, "no_active_voucher") \/ w.active \in Voucher \cup {None})
  BY <1>1, FieldsOfRow DEF Good, Has
<1> HIDE DEF w
<1>3. Sound(w)
  BY <1>1, <1>2 DEF Resting, Sound, Chosen, Limited, Debt, ActiveSound, ChosenSound, LimitSound,
       WithdrawalSound, PurchaseSound, DepositSound, DebtSound, PoolSound
<1> QED BY <1>2, <1>3 DEF Step, Inv, w

LEMMA InitiateGetMpesaIsSound ==
  ASSUME Inv, NEW swapped \in BOOLEAN, NEW sent \in BOOLEAN, InitiateGetMpesa(swapped, sent)
  PROVE  Inv' /\ StepSound
<1> DEFINE s == At(Fresh, "initiate_get_mpesa")
           failed == Set(s, {"api_call_error"})
           swap == Swap(row.custom.v, row.swapAmount, row.swapTo)
<1>1. /\ row \in Row /\ row.node = "get_mpesa_confirmation" /\ WithdrawalReady(row)
      /\ row.custom \in Holding /\ row.custom.v \in Voucher
      /\ row.amount \in Amount /\ row.amount.n \in Nat
  BY DEF InitiateGetMpesa, On, Inv, Sound, WithdrawalSound, WithdrawalReady, ChosenSound, Chosen,
     Holding, Amount
<1>2. Good(s) /\ s.node = "initiate_get_mpesa" /\ Good(Failed(Fresh)) /\ Failed(Fresh).node = "off"
  BY FreshIsGood, AtMoves DEF Node
<1>3. Good(failed) /\ failed.node = "initiate_get_mpesa"
  BY <1>2, FlagsKeepGood DEF Flag, Alike
<1>4. {"off", "initiate_get_mpesa"} \subseteq Resting
  BY DEF Resting, Node, Chosen, Debt, Limited
<1> HIDE DEF s, failed
<1>5. CASE Step(failed) \/ Step(Failed(Fresh))
  BY <1>2, <1>3, <1>4, <1>5, StepIsQuiet, QuietIsSound
<1>6. ASSUME Step([s EXCEPT !.calls = row.shown])
      PROVE  Inv' /\ StepSound
  <2>1. Inv' /\ row'.calls = row.shown /\ row'.pool = row.pool /\ row.shown \in Seq(Call)
    BY <1>1, <1>2, <1>4, <1>6, Asks, FieldsOfRow
  <2> QED BY <1>1, <2>1
         DEF StepSound, PaidStep, DebtStep, PurchaseStep, LimitStep, PoolStep, Made
<1>7. CASE row.type = "normal"
  BY <1>1, <1>5, <1>6, <1>7 DEF InitiateGetMpesa, WithdrawalReady, s, failed
<1>8. CASE row.type # "normal"
  <2>1. row.swapTo \in Voucher /\ row.swapAmount \in Nat
    BY <1>1, <1>8 DEF WithdrawalReady
  <2>2. CASE Step([failed EXCEPT !.calls = <<swap>>])
    <3>1. <<swap>> \in Seq(Call) /\ swap.op = "swap"
      BY <1>1, <2>1, CallsAreCalls DEF Swap
    <3> HIDE DEF swap
    <3>2. Inv' /\ row'.calls = <<swap>> /\ row'.pool = row.pool
      BY <1>3, <1>4, <2>2, <3>1, Asks
    <3>3. Made("transfer") = {} /\ Made("onramp") = {}
      BY <3>1, <3>2 DEF Made
    <3> QED BY <1>1, <3>2, <3>3
           DEF StepSound, PaidStep, DebtStep, PurchaseStep, LimitStep, PoolStep
  <2> QED BY <1>1, <1>5, <1>6, <1>8, <2>2 DEF InitiateGetMpesa, WithdrawalReady, s, failed
<1> QED BY <1>7, <1>8

LEMMA LeaveGetMpesaIsQuiet ==
  ASSUME Inv, LeaveGetMpesa
  PROVE  Quiet
<1>1. Good(Fresh) /\ Fresh.custom = row.custom
  BY FreshIsGood DEF SameEntries
<1>2. CASE \E s \in EnterMpesa(Fresh) : Step(s)
  BY <1>2, EnterMpesaIsQuiet
<1>3. CASE Step(At(Fresh, "get_mpesa"))
  BY <1>1, <1>3, AtMoves, StepIsQuiet DEF Resting, Node, Chosen, Debt, Limited
<1>4. CASE /\ row.node \in {"invalid_get_mpesa_amount", "get_mpesa_confirmation"}
           /\ Step(At(ResetTransactionAmount([Fresh EXCEPT !.shown = <<>>]), "mpesa_max_limit"))
  <2>1. Fresh.custom \in Holding
    BY <1>1, <1>4 DEF Inv, Sound, ChosenSound, Chosen
  <2> QED BY <1>1, <1>4, <2>1, AmountPromptIsSound, StepIsQuiet DEF Chosen
<1> QED BY <1>2, <1>3, <1>4 DEF LeaveGetMpesa

-----------------------------------------------------------------------------
(* Purchase *)

LEMMA AnswerSendMpesaIsQuiet ==
  ASSUME Inv, NEW ksh \in Typed, AnswerSendMpesa(ksh)
  PROVE  Quiet
<1>1. /\ Good(Fresh) /\ Fresh \in Row /\ Fresh.shown = <<>> /\ ksh \in Nat
      /\ \A f \in {"api_call_error", "invalid_amount"} :
           {f} \in SUBSET Flag /\ "no_active_voucher" \notin {f}
  BY FreshIsGood, CashAmountAssumption DEF AnswerSendMpesa, On, Inv, Sound, PurchaseSound, Good,
     SameEntries, Flag
<1>2. PICK s \in SendMpesaPreview(Fresh, ksh) :
        Step(At(s, IF Has(s, "invalid_amount") THEN "invalid_send_mpesa_amount"
                   ELSE "send_mpesa_confirmation"))
  BY DEF AnswerSendMpesa
<1> DEFINE a == [n |-> ksh, whole |-> ksh \in Whole]
           sh == <<Onramp(ksh)>>
           u == [Fresh EXCEPT !.amount = a, !.shown = sh]
<1>3. s \in {Set(Fresh, {"api_call_error"}), Set(Fresh, {"invalid_amount"}),
             Reset(u, {"invalid_amount"})}
  BY <1>2 DEF SendMpesaPreview
<1>4. a \in Amount /\ a.n = ksh /\ sh \in Seq(Call)
  BY <1>1, OtherCallsAreCalls DEF Amount
<1> HIDE DEF a, sh
<1>5. u \in Row
  BY <1>1, <1>4 DEF Row
<1>6. Good(u) /\ u.amount = a /\ u.shown = <<Onramp(ksh)>>
  BY <1>1, <1>5, FieldsOfRow DEF Good, Has, sh
<1> HIDE DEF u
<1>7. Good(s) /\ (Has(s, "invalid_amount") \/ PurchaseReady(s))
  <2>1. Good(Set(Fresh, {"api_call_error"})) /\ PurchaseReady(Set(Fresh, {"api_call_error"}))
    BY <1>1, FlagsKeepGood DEF Alike, SameEntries, PurchaseReady
  <2>2. Good(Set(Fresh, {"invalid_amount"}))
        /\ Has(Set(Fresh, {"invalid_amount"}), "invalid_amount")
    BY <1>1, FlagsKeepGood DEF Alike, Has
  <2>3. Good(Reset(u, {"invalid_amount"})) /\ PurchaseReady(Reset(u, {"invalid_amount"}))
    BY <1>1, <1>4, <1>6, FlagsKeepGood DEF Alike, SameEntries, PurchaseReady
  <2> QED BY <1>3, <2>1, <2>2, <2>3
<1>8. CASE Step(At(s, "invalid_send_mpesa_amount"))
  BY <1>7, <1>8, AtMoves, StepIsQuiet DEF Resting, Node, Chosen, Debt, Limited
<1>9. CASE PurchaseReady(s) /\ Step(At(s, "send_mpesa_confirmation"))
  <2> DEFINE w == At(s, "send_mpesa_confirmation")
  <2>1. Good(w) /\ SameEntries(s, w) /\ w.node = "send_mpesa_confirmation"
    BY <1>7, AtMoves DEF Node
  <2> HIDE DEF w
  <2>2. PurchaseReady(w)
    BY <1>9, <2>1 DEF PurchaseReady, SameEntries
  <2>3. Sound(w)
    BY <2>1, <2>2 DEF Has, Good, Sound, Chosen, Limited, Debt, ActiveSound, ChosenSound, LimitSound,
         WithdrawalSound, PurchaseSound, DepositSound, DebtSound, PoolSound
  <2> QED BY <1>9, <2>1, <2>3, StepIsQuiet DEF w
<1> QED BY <1>2, <1>7, <1>8, <1>9

LEMMA InitiateSendMpesaIsSound ==
  ASSUME Inv, NEW ok \in BOOLEAN, InitiateSendMpesa(ok)
  PROVE  Inv' /\ StepSound
<1> DEFINE s == At(Fresh, "initiate_send_mpesa")
           failed == Set(s, {"api_call_error"})
<1>1. row \in Row /\ row.node = "send_mpesa_confirmation" /\ PurchaseReady(row)
  BY DEF InitiateSendMpesa, On, Inv, Sound, PurchaseSound
<1>2. Good(s) /\ s.node = "initiate_send_mpesa" /\ Good(Failed(Fresh)) /\ Failed(Fresh).node = "off"
  BY FreshIsGood, AtMoves DEF Node
<1>3. Good(failed) /\ failed.node = "initiate_send_mpesa"
  BY <1>2, FlagsKeepGood DEF Flag, Alike
<1>4. {"off", "initiate_send_mpesa"} \subseteq Resting
  BY DEF Resting, Node, Chosen, Debt, Limited
<1> HIDE DEF s, failed
<1>5. CASE Step(failed) \/ Step(Failed(Fresh))
  BY <1>2, <1>3, <1>4, <1>5, StepIsQuiet, QuietIsSound
<1>6. CASE row.amount # None /\ Step([s EXCEPT !.calls = <<Onramp(row.amount.n)>>])
  <2>1. row.amount \in Amount /\ row.amount.n \in Nat
    BY <1>1, <1>6, FieldsOfRow DEF Amount
  <2> DEFINE c == Onramp(row.amount.n)
  <2>2. <<c>> \in Seq(Call) /\ c.op = "onramp"
    BY <2>1, OtherCallsAreCalls DEF Onramp
  <2>3. row.shown # <<>> => row.shown = <<c>>
    BY <1>1 DEF PurchaseReady
  <2> HIDE DEF c
  <2>4. Inv' /\ row'.calls = <<c>> /\ row'.pool = row.pool
    BY <1>2, <1>4, <1>6, <2>2, Asks DEF c
  <2>5. Made("transfer") = {}
    BY <2>2, <2>4 DEF Made
  <2> QED BY <1>1, <2>3, <2>4, <2>5
         DEF StepSound, PaidStep, DebtStep, PurchaseStep, LimitStep, PoolStep
<1> QED BY <1>5, <1>6 DEF InitiateSendMpesa, s, failed

LEMMA OpenSendMpesaIsQuiet ==
  ASSUME Inv, Good(Fresh), NEW r, Good(r), r.shown = <<>>, Step(At(r, "send_mpesa"))
  PROVE  Quiet
<1> DEFINE w == At(r, "send_mpesa")
<1>1. Good(w) /\ w.node = "send_mpesa" /\ w.shown = <<>>
  BY AtMoves DEF SameEntries, Node
<1> HIDE DEF w
<1>2. Sound(w)
  BY <1>1 DEF Has, Good, Sound, Chosen, Limited, Debt, ActiveSound, ChosenSound, LimitSound,
       WithdrawalSound, PurchaseSound, DepositSound, DebtSound, PoolSound
<1> QED BY <1>1, <1>2, StepIsQuiet DEF w

LEMMA BuyingIsSound ==
  ASSUME Inv, Buying
  PROVE  Inv' /\ StepSound
<1>1. Good(Fresh) /\ Fresh \in Row /\ Fresh.shown = row.shown
  BY FreshIsGood DEF SameEntries, Good
<1>2. Good([Fresh EXCEPT !.shown = <<>>]) /\ [Fresh EXCEPT !.shown = <<>>].shown = <<>>
  BY <1>1, AmountKeepsGood, FieldsOfRow
<1>3. CASE OpenSendMpesa
  <2>1. Fresh.shown = <<>>
    BY <1>1, <1>3 DEF OpenSendMpesa, On, Inv, Sound, PurchaseSound
  <2> QED BY <1>1, <1>3, <2>1, OpenSendMpesaIsQuiet, QuietIsSound DEF OpenSendMpesa
<1>4. CASE LeaveSendMpesa
  <2>1. CASE \E s \in EnterMpesa(Fresh) : Step(s)
    BY <2>1, EnterMpesaIsQuiet, QuietIsSound
  <2>2. CASE ToMain(Fresh)
    BY <1>1, <2>2, ToMainIsQuiet, QuietIsSound
  <2>3. CASE Step(At([Fresh EXCEPT !.shown = <<>>], "send_mpesa"))
    BY <1>1, <1>2, <2>3, OpenSendMpesaIsQuiet, QuietIsSound
  <2> QED BY <1>4, <2>1, <2>2, <2>3 DEF LeaveSendMpesa
<1> QED BY <1>3, <1>4, AnswerSendMpesaIsQuiet, InitiateSendMpesaIsSound, QuietIsSound DEF Buying

LEMMA WithdrawingIsSound ==
  ASSUME Inv, Withdrawing
  PROVE  Inv' /\ StepSound
<1>1. CASE OpenGetMpesa
  BY <1>1, EnterListIsQuiet, QuietIsSound DEF OpenGetMpesa
<1>2. CASE MischooseWithdrawalVoucher
  <2>1. Good(Set(Fresh, {"incorrect_voucher"}))
        /\ Set(Fresh, {"incorrect_voucher"}).node = "get_mpesa"
    BY <1>2, FreshIsGood, FlagsKeepGood DEF MischooseWithdrawalVoucher, On, Alike, Flag
  <2> QED BY <1>2, <2>1, StepIsQuiet, QuietIsSound
          DEF MischooseWithdrawalVoucher, Resting, Node, Chosen, Debt, Limited
<1> QED BY <1>1, <1>2, ChooseWithdrawalVoucherIsQuiet, AnswerWithdrawalIsQuiet,
           InitiateGetMpesaIsSound, LeaveGetMpesaIsQuiet, QuietIsSound DEF Withdrawing

-----------------------------------------------------------------------------
(* The choice of a pool *)

\* A row with which a request may end, or go on.
Ends(r) == Good(r) /\ (r.error => r.node = "off")

LEMMA GetPoolsEnds ==
  ASSUME NEW r, Good(r), r.error = FALSE, NEW t \in GetPools(r)
  PROVE  Ends(t)
<1>1. r \in Row /\ r.pools \in (SUBSET Pool) \cup {None}
  BY FieldsOfRow DEF Good
<1>2. Ends(Failed(r))
  BY AtMoves, "off" \in Node DEF Ends, Node
<1>3. ASSUME NEW top \in TopPools, t = [r EXCEPT !.pools = top \ {r.pool}]
      PROVE  Ends(t)
  <2> DEFINE P == top \ {r.pool}
  <2>1. P \in SUBSET Pool
    BY PoolAssumption
  <2> HIDE DEF P
  <2>2. [r EXCEPT !.pools = P] \in Row
    BY <1>1, <2>1, RowTakes
  <2>3. t = [r EXCEPT !.pools = P]
    BY <1>3 DEF P
  <2> QED BY <1>1, <2>2, <2>3, FieldsOfRow DEF Ends, Good, Has
<1>4. t \in {Failed(r), r} \/ \E top \in TopPools : t = [r EXCEPT !.pools = top \ {r.pool}]
  BY DEF GetPools
<1> QED BY <1>2, <1>3, <1>4 DEF Ends

LEMMA SelectPoolRests ==
  ASSUME NEW r, Good(r), NEW Loaded, \A t \in Loaded : Ends(t),
         NEW s \in EnterSelectPool(r, Loaded)
  PROVE  Good(s) /\ s.node \in Resting
<1>1. {"off", "no_voucher", "select_pool"} \subseteq Resting \cap Node
  BY DEF Resting, Node, Chosen, Debt, Limited
<1>2. CASE s = At(r, "no_voucher")
  BY <1>1, <1>2, AtMoves
<1>3. ASSUME NEW t \in Loaded, s = IF t.error THEN t
                                   ELSE At([t EXCEPT !.shown = <<>>], "select_pool")
      PROVE  Good(s) /\ s.node \in Resting
  <2>1. Ends(t) /\ Good([t EXCEPT !.shown = <<>>])
    BY AmountKeepsGood DEF Ends
  <2> QED BY <1>1, <1>3, <2>1, AtMoves DEF Ends
<1> QED BY <1>2, <1>3 DEF EnterSelectPool

\* What the view of a pool leaves: a refusal, or the pool that is shown.
Viewed(r) ==
  /\ Good(r)
  /\ IF r.error THEN r.node = "off"
     ELSE Has(r, "api_call_error") \/ Has(r, "incorrect_pool") \/ PoolReady(r)

LEMMA ViewPoolIsViewed ==
  ASSUME NEW r, Good(r), r.error = FALSE, NEW p \in Pool, NEW t \in ViewPool(r, p)
  PROVE  Viewed(t)
<1>1. /\ r \in Row /\ "off" \in Node
      /\ \A f \in {"api_call_error", "incorrect_pool"} :
           {f} \in SUBSET Flag /\ "no_active_voucher" \notin {f}
  BY DEF Good, Node, Flag
<1> DEFINE u == [r EXCEPT !.temp = p, !.shown = <<ChoiceOf(p)>>]
<1>2. u \in Row
  BY <1>1, OtherCallsAreCalls DEF Row
<1>3. Good(u) /\ u.temp = p /\ u.shown = <<ChoiceOf(p)>> /\ u.error = FALSE
  BY <1>1, <1>2, FieldsOfRow DEF Good, Has
<1> HIDE DEF u
<1>4. Viewed(Reset(u, {"incorrect_pool"}))
  BY <1>1, <1>3, FlagsKeepGood DEF Viewed, Alike, SameEntries, PoolReady
<1>5. Viewed(Set(r, {"api_call_error"}))
  <2>1. LET s == Set(r, {"api_call_error"})
        IN  Good(s) /\ s.error = FALSE /\ Has(s, "api_call_error")
    BY <1>1, FlagsKeepGood DEF Alike, Has
  <2> QED BY <2>1 DEF Viewed
<1>6. Viewed(Set(r, {"incorrect_pool"}))
  <2>1. LET s == Set(r, {"incorrect_pool"})
        IN  Good(s) /\ s.error = FALSE /\ Has(s, "incorrect_pool")
    BY <1>1, FlagsKeepGood DEF Alike, Has
  <2> QED BY <2>1 DEF Viewed
<1>7. Viewed(Failed(r))
  BY <1>1, AtMoves DEF Viewed
<1>8. t \in {Failed(r), Reset(u, {"incorrect_pool"}), Set(r, {"api_call_error"}),
             Set(r, {"incorrect_pool"})}
  BY DEF ViewPool, u
<1> QED BY <1>4, <1>5, <1>6, <1>7, <1>8

LEMMA AnswerPoolIsQuiet ==
  ASSUME Inv, NEW p \in Pool, AnswerPool(p)
  PROVE  Quiet
<1>1. Good(Fresh) /\ Fresh.error = FALSE
  BY FreshIsGood
<1>2. PICK s : /\ s \in Twice(LAMBDA t : ViewPool(t, p), Fresh)
               /\ IF s.error THEN Step(s)
                  ELSE IF Has(s, "api_call_error")
                  THEN Step(ApiFailure([s EXCEPT !.shown = <<>>]))
                  ELSE IF Has(s, "incorrect_pool")
                  THEN \E t \in EnterSelectPool(s, GetPools(s)) : Step(t)
                  ELSE Step(At(s, "view_pool"))
  BY DEF AnswerPool
<1>3. PICK t \in ViewPool(Fresh, p) : IF t.error THEN s = t ELSE s \in ViewPool(t, p)
  BY <1>2 DEF Twice
<1>4. Viewed(t) /\ t.error \in BOOLEAN
  <2>1. Viewed(t)
    BY <1>1, ViewPoolIsViewed
  <2> QED BY <2>1, FieldsOfRow DEF Viewed, Good
<1>5. Viewed(s) /\ s.error \in BOOLEAN
  <2>1. CASE t.error
    BY <1>3, <1>4, <2>1
  <2>2. CASE t.error = FALSE
    <3>1. Good(t)
      BY <1>4 DEF Viewed
    <3>2. Viewed(s)
      BY <1>3, <2>2, <3>1, ViewPoolIsViewed
    <3> QED BY <3>2, FieldsOfRow DEF Viewed, Good
  <2> QED BY <1>4, <2>1, <2>2
<1>6. Good(s)
  BY <1>5 DEF Viewed
<1>7. CASE s.error
  BY <1>2, <1>5, <1>7, StepIsQuiet DEF Viewed, Resting, Node, Chosen, Debt, Limited
<1>8. CASE Step(ApiFailure([s EXCEPT !.shown = <<>>]))
  <2>1. Good([s EXCEPT !.shown = <<>>])
    BY <1>6, AmountKeepsGood
  <2> QED BY <1>8, <2>1, AmountKeepsGood, StepIsQuiet DEF Resting, Node, Chosen, Debt, Limited
<1>9. CASE s.error = FALSE /\ \E u \in EnterSelectPool(s, GetPools(s)) : Step(u)
  <2>1. \A u \in GetPools(s) : Ends(u)
    BY <1>6, <1>9, GetPoolsEnds
  <2>2. \A u \in EnterSelectPool(s, GetPools(s)) : Good(u) /\ u.node \in Resting
    BY <1>6, <2>1, SelectPoolRests
  <2> QED BY <1>9, <2>2, StepIsQuiet
<1>10. CASE PoolReady(s) /\ Step(At(s, "view_pool"))
  <2> DEFINE w == At(s, "view_pool")
  <2>1. Good(w) /\ SameEntries(s, w) /\ w.node = "view_pool"
    BY <1>6, AtMoves DEF Node
  <2> HIDE DEF w
  <2>2. PoolReady(w)
    BY <1>10, <2>1 DEF PoolReady, SameEntries
  <2>3. Sound(w)
    BY <2>1, <2>2 DEF Has, Good, Sound, Chosen, Limited, Debt, ActiveSound, ChosenSound, LimitSound,
         WithdrawalSound, PurchaseSound, DepositSound, DebtSound, PoolSound
  <2> QED BY <1>10, <2>1, <2>3, StepIsQuiet DEF w
<1> QED BY <1>2, <1>5, <1>7, <1>8, <1>9, <1>10 DEF Viewed

LEMMA SetPoolIsSound ==
  ASSUME Inv, SetPool
  PROVE  Inv' /\ StepSound
<1>1. Good(Fresh) /\ Fresh \in Row /\ Fresh.temp = row.temp /\ row.node = "view_pool"
      /\ PoolReady(row)
  BY FreshIsGood DEF SetPool, On, Inv, Sound, PoolSound, Good, SameEntries
<1> DEFINE u == [Fresh EXCEPT !.pool = row.temp]
           w == [u EXCEPT !.node = "pool_set"]
<1>2. row' = w /\ visits' = visits
  BY <1>1 DEF SetPool, Step, PoolReady, At
<1>3. u \in Row
  BY <1>1, RowTakes DEF PoolReady
<1>4. u.calls = <<>> /\ u.pool = row.temp
      /\ (Has(u, "no_active_voucher") \/ u.active \in Voucher \cup {None})
  BY <1>1, <1>3, FieldsOfRow DEF Good, Has
<1> HIDE DEF u
<1>5. w \in Row
  BY <1>3, "pool_set" \in Node, RowTakes DEF Node
<1>6. w.calls = <<>> /\ w.pool = row.temp /\ w.node = "pool_set"
      /\ (Has(w, "no_active_voucher") \/ w.active \in Voucher \cup {None})
  BY <1>3, <1>4, <1>5, FieldsOfRow DEF Has
<1> HIDE DEF w
<1>7. Sound(w)
  BY <1>5, <1>6 DEF Sound, Chosen, Limited, Debt, ActiveSound, ChosenSound, LimitSound,
       WithdrawalSound, PurchaseSound, DepositSound, DebtSound, PoolSound
<1> QED BY <1>1, <1>2, <1>6, <1>7
       DEF Inv, StepSound, PaidStep, DebtStep, PurchaseStep, LimitStep, PoolStep, Made, PoolReady

LEMMA ChoosingPoolIsSound ==
  ASSUME Inv, ChoosingPool
  PROVE  Inv' /\ StepSound
<1>1. Good(Fresh) /\ Fresh.error = FALSE
  BY FreshIsGood
<1>2. \A t \in GetPools(Fresh) : Ends(t) /\ t.error \in BOOLEAN
  BY <1>1, GetPoolsEnds, FieldsOfRow DEF Ends, Good
<1>3. CASE OpenSelectPool
  <2>1. ASSUME NEW t \in Twice(GetPools, Fresh)
        PROVE  Ends(t)
    <3>1. PICK u \in GetPools(Fresh) : IF u.error THEN t = u ELSE t \in GetPools(u)
      BY <2>1 DEF Twice
    <3>2. CASE u.error
      BY <1>2, <3>1, <3>2
    <3>3. CASE u.error = FALSE
      BY <1>2, <3>1, <3>3, GetPoolsEnds DEF Ends
    <3> QED BY <1>2, <3>2, <3>3
  <2>2. \A s \in EnterSelectPool(Fresh, Twice(GetPools, Fresh)) : Good(s) /\ s.node \in Resting
    BY <1>1, <2>1, SelectPoolRests
  <2> QED BY <1>3, <2>2, StepIsQuiet, QuietIsSound DEF OpenSelectPool
<1>4. CASE LeavePool
  <2>1. CASE ToMain(Fresh)
    BY <1>1, <2>1, ToMainIsQuiet, QuietIsSound
  <2>2. \A s \in EnterSelectPool(Fresh, GetPools(Fresh)) : Good(s) /\ s.node \in Resting
    BY <1>1, <1>2, SelectPoolRests
  <2> QED BY <1>4, <2>1, <2>2, StepIsQuiet, QuietIsSound DEF LeavePool
<1> QED BY <1>3, <1>4, AnswerPoolIsQuiet, SetPoolIsSound, QuietIsSound DEF ChoosingPool

-----------------------------------------------------------------------------
(* A deposit *)

LEMMA ConfirmPoolDepositIsQuiet ==
  ASSUME Inv, NEW x \in Typed, ConfirmPoolDeposit(x)
  PROVE  Quiet
<1> DEFINE s == Reset(Fresh, {"invalid_amount"})
           c == s.custom
           a == [n |-> x, whole |-> x \in Whole]
           sh == <<Transfer(c.v, Scale(x, c.v), s.pool)>>
           u == [s EXCEPT !.amount = a, !.shown = sh]
           w == At(u, "pool_deposit_confirmation")
<1>1. Good(s) /\ s \in Row /\ SameEntries(Fresh, s)
  BY FreshIsGood, FlagsKeepGood DEF Flag, Alike, Good
<1>2. c \in Holding /\ c.v \in Voucher /\ c.bal \in Nat /\ x \in Nat /\ s.pool \in Pool
  <2>1. Fresh.custom = row.custom
    BY FreshIsGood DEF SameEntries
  <2>2. row.custom \in Holding
    BY DEF ConfirmPoolDeposit, On, Inv, Sound, ChosenSound, Chosen
  <2> QED BY <1>1, <2>1, <2>2, CashAmountAssumption, FieldsOfRow DEF SameEntries, Holding
<1>3. \/ Step(At(ResetTransactionAmount(s), "invalid_pool_deposit_amount"))
      \/ ~(x > c.bal) /\ Step(w)
  BY DEF ConfirmPoolDeposit
<1> HIDE DEF s
<1>4. CASE Step(At(ResetTransactionAmount(s), "invalid_pool_deposit_amount"))
  BY <1>1, <1>2, <1>4, AmountPromptIsSound, StepIsQuiet DEF Chosen
<1>5. CASE ~(x > c.bal) /\ Step(w)
  <2>1. a \in Amount /\ a.n = x /\ x <= c.bal
    BY <1>2, <1>5 DEF Amount
  <2>2. sh \in Seq(Call)
    BY <1>2, ScaleIsNat, CallsAreCalls
  <2> HIDE DEF a, sh
  <2>3. u \in Row
    BY <1>1, <2>1, <2>2 DEF Row
  <2>4. Good(u) /\ u.amount = a /\ u.shown = sh /\ u.custom = c /\ u.pool = s.pool
    BY <1>1, <2>3, FieldsOfRow DEF Good, Has, c
  <2> HIDE DEF u, c
  <2>5. Good(w) /\ SameEntries(u, w) /\ w.node = "pool_deposit_confirmation"
    BY <2>4, AtMoves DEF Node
  <2>6. w.pool = s.pool
    BY <1>1, <2>5 DEF Good
  <2> HIDE DEF w
  <2>7. DepositReady(w) /\ w.custom \in Holding
    BY <1>2, <2>1, <2>4, <2>5, <2>6 DEF DepositReady, SameEntries, sh, c
  <2>8. Sound(w)
    BY <2>5, <2>7 DEF Has, Good, Sound, Chosen, Limited, Debt, ActiveSound, ChosenSound, LimitSound,
         WithdrawalSound, PurchaseSound, DepositSound, DebtSound, PoolSound
  <2> QED BY <1>5, <2>5, <2>8, StepIsQuiet
<1> QED BY <1>3, <1>4, <1>5

LEMMA InitiatePoolDepositIsSound ==
  ASSUME Inv, NEW ok \in BOOLEAN, InitiatePoolDeposit(ok)
  PROVE  Inv' /\ StepSound
<1> DEFINE s == At(Fresh, "pool_deposit_initiated")
           failed == Set(s, {"api_call_error"})
<1>1. /\ row \in Row /\ row.node = "pool_deposit_confirmation" /\ DepositReady(row)
      /\ row.custom \in Holding /\ row.custom.v \in Voucher /\ row.custom.bal \in Nat
      /\ row.amount.n \in Nat /\ row.amount.n <= row.custom.bal
  BY DEF InitiatePoolDeposit, On, Inv, Sound, DepositSound, DepositReady, ChosenSound, Chosen,
     Holding, Amount
<1>2. Good(s) /\ s.node = "pool_deposit_initiated"
  BY FreshIsGood, AtMoves DEF Node
<1>3. Good(failed) /\ failed.node = "pool_deposit_initiated"
  BY <1>2, FlagsKeepGood DEF Flag, Alike
<1>4. "pool_deposit_initiated" \in Resting
  BY DEF Resting, Node, Chosen, Debt, Limited
<1> HIDE DEF s, failed
<1>5. CASE Step(failed)
  BY <1>3, <1>4, <1>5, StepIsQuiet, QuietIsSound
<1>6. CASE Step([s EXCEPT !.calls = row.shown])
  <2>1. Inv' /\ row'.calls = row.shown /\ row'.pool = row.pool /\ row.shown \in Seq(Call)
    BY <1>1, <1>2, <1>4, <1>6, Asks, FieldsOfRow
  <2> DEFINE c == Transfer(row.custom.v, Scale(row.amount.n, row.custom.v), row.pool)
  <2>2. row.shown = <<c>> /\ c.op = "transfer" /\ c.n = Scale(row.amount.n, row.custom.v)
    BY <1>1 DEF DepositReady, Transfer
  <2>3. c.n <= Scale(row.custom.bal, row.custom.v)
    BY <1>1, <2>2, ScaleIsMonotone
  <2> HIDE DEF c
  <2> QED BY <1>1, <2>1, <2>2, <2>3
         DEF StepSound, PaidStep, DebtStep, PurchaseStep, LimitStep, PoolStep, Made
<1> QED BY <1>1, <1>5, <1>6 DEF InitiatePoolDeposit, DepositReady, s, failed

LEMMA DepositingIsSound ==
  ASSUME Inv, Depositing
  PROVE  Inv' /\ StepSound
<1>1. Good(Fresh) /\ Fresh \in Row /\ Fresh.custom = row.custom /\ Fresh.node = row.node
      /\ row \in Row
  BY FreshIsGood DEF SameEntries, Good, Inv, Sound
<1>2. CASE OpenPoolDeposit
  BY <1>2, EnterListIsQuiet, QuietIsSound DEF OpenPoolDeposit
<1>3. ASSUME NEW hd \in row.held, ChooseDepositVoucher(hd)
      PROVE  Inv' /\ StepSound
  <2> DEFINE u == [Fresh EXCEPT !.custom = hd]
             s == Reset(u, {"incorrect_voucher"})
  <2>1. hd \in Holding
    BY <1>1, FieldsOfRow
  <2>2. u \in Row
    BY <1>1, <2>1, RowTakes
  <2>3. Good(u) /\ u.custom \in Holding
    BY <1>1, <2>1, <2>2, FieldsOfRow DEF Good, Has
  <2> HIDE DEF u
  <2>4. Good(s) /\ s.custom \in Holding
    BY <2>3, FlagsKeepGood DEF Flag, Alike, SameEntries
  <2> HIDE DEF s
  <2>5. Step(At(ResetTransactionAmount(s), "pool_deposit_amount"))
    BY <1>3 DEF ChooseDepositVoucher, s, u
  <2> QED BY <2>4, <2>5, AmountPromptIsSound, StepIsQuiet, QuietIsSound DEF Chosen
<1>4. CASE MischooseDepositVoucher
  <2>1. Good(Set(Fresh, {"incorrect_voucher"}))
        /\ Set(Fresh, {"incorrect_voucher"}).node = "pool_deposit"
    BY <1>1, <1>4, FlagsKeepGood DEF MischooseDepositVoucher, On, Alike, Flag
  <2> QED BY <1>4, <2>1, StepIsQuiet, QuietIsSound
          DEF MischooseDepositVoucher, Resting, Node, Chosen, Debt, Limited
<1>5. CASE LeavePoolDeposit
  <2>1. CASE \E s \in EnterMpesa(Fresh) : Step(s)
    BY <2>1, EnterMpesaIsQuiet, QuietIsSound
  <2>2. CASE Step(At(Fresh, "pool_deposit"))
    BY <1>1, <2>2, AtMoves, StepIsQuiet, QuietIsSound DEF Resting, Node, Chosen, Debt, Limited
  <2>3. CASE /\ row.node \in {"invalid_pool_deposit_amount", "pool_deposit_confirmation"}
             /\ Step(At(ResetTransactionAmount([Fresh EXCEPT !.shown = <<>>]),
                        "pool_deposit_amount"))
    <3>1. Fresh.custom \in Holding
      BY <1>1, <2>3 DEF Inv, Sound, ChosenSound, Chosen
    <3> QED BY <1>1, <2>3, <3>1, AmountPromptIsSound, StepIsQuiet, QuietIsSound DEF Chosen
  <2> QED BY <1>5, <2>1, <2>2, <2>3 DEF LeavePoolDeposit
<1> QED BY <1>2, <1>3, <1>4, <1>5, ConfirmPoolDepositIsQuiet, InitiatePoolDepositIsSound,
           QuietIsSound DEF Depositing

-----------------------------------------------------------------------------
(* The debt *)

LEMMA DebtNodeIsSound ==
  ASSUME NEW r, Good(r), ~Has(r, "no_active_voucher"), r.node \in Debt,
         r.node \in Limited => LimitReady(r),
         r.node = "confirm_debt_removal" => DebtReady(r)
  PROVE  Sound(r)
BY DEF Good, Sound, Chosen, Limited, Debt, ActiveSound, ChosenSound, LimitSound,
     WithdrawalSound, PurchaseSound, DepositSound, DebtSound, PoolSound

\* The limit, on the way.
Limiting(r) == Good(r) /\ ~Has(r, "no_active_voucher") /\ r.node = "pay_debt"

LimitKnown(r) ==
  /\ Limiting(r) /\ r.error = FALSE
  /\ Has(r, "low_swap_amount") \/ Has(r, "api_call_error") \/ LimitReady(r)

LEMMA MaxPayDebtIsKnown ==
  ASSUME NEW r, Limiting(r), r.error = FALSE, NEW v \in Voucher,
         NEW s \in CalculateMaxPayDebt(r, v)
  PROVE  LimitKnown(s)
<1>1. /\ r \in Row
      /\ \A F \in {{"api_call_error"}, {"low_swap_amount"}, {"low_swap_amount", "api_call_error"}} :
           F \in SUBSET Flag /\ "no_active_voucher" \notin F
  BY DEF Limiting, Good, Flag
<1>2. ASSUME NEW u, Limiting(u), u.error = FALSE
      PROVE  LimitKnown(Set(u, {"api_call_error"})) /\ LimitKnown(Set(u, {"low_swap_amount"}))
  <2>1. Alike(u, Set(u, {"api_call_error"})) /\ Has(Set(u, {"api_call_error"}), "api_call_error")
    BY <1>1, <1>2, FlagsKeepGood DEF Limiting, Has
  <2>2. Alike(u, Set(u, {"low_swap_amount"})) /\ Has(Set(u, {"low_swap_amount"}), "low_swap_amount")
    BY <1>1, <1>2, FlagsKeepGood DEF Limiting, Has
  <2> QED BY <1>2, <2>1, <2>2 DEF LimitKnown, Limiting, Alike
<1>3. CASE ~HasSessionData(r)
  BY <1>3 DEF CalculateMaxPayDebt, LimitKnown, LimitReady
<1>4. CASE s = Set(r, {"api_call_error"})
  BY <1>2, <1>4
<1>5. ASSUME NEW limit \in Answers,
             s \in LET t == [r EXCEPT !.swapFrom = [v |-> v, max |-> Scale(limit, v)]]
                       u == [t EXCEPT !.swapMax = Truncate(limit)]
                   IN  IF limit < MinAmount THEN {Set(t, {"low_swap_amount"})}
                       ELSE {Set(u, {"api_call_error"}),
                             Reset(u, {"low_swap_amount", "api_call_error"})}
      PROVE  LimitKnown(s)
  <2> DEFINE f == [v |-> v, max |-> Scale(limit, v)]
             x == Truncate(limit)
             t == [r EXCEPT !.swapFrom = f]
             u == [t EXCEPT !.swapMax = x]
  <2>1. limit \in Nat /\ f \in Taken /\ f.v = v /\ f.max = Scale(limit, v) /\ x \in Nat
    BY CashAmountAssumption, ScaleIsNat, TruncateIsNat DEF Taken
  <2>2. Lost(x, f.max, f.v)
    BY <2>1, TruncateLoses
  <2>3. s \in {Set(t, {"low_swap_amount"}), Set(u, {"api_call_error"}),
               Reset(u, {"low_swap_amount", "api_call_error"})}
    BY <1>5
  <2> HIDE DEF f, x
  <2>4. t \in Row
    BY <1>1, <2>1, RowTakes
  <2>5. Limiting(t) /\ t.error = FALSE /\ t.swapFrom = f
    BY <1>1, <2>4, FieldsOfRow DEF Limiting, Good, Has
  <2> HIDE DEF t
  <2>6. u \in Row
    BY <2>1, <2>4, RowTakes
  <2>7. Limiting(u) /\ u.error = FALSE /\ u.swapFrom = f /\ u.swapMax = x
    BY <2>4, <2>5, <2>6, FieldsOfRow DEF Limiting, Good, Has
  <2> HIDE DEF u
  <2>8. Alike(u, Reset(u, {"low_swap_amount", "api_call_error"}))
    BY <1>1, <2>7, FlagsKeepGood DEF Limiting
  <2>9. LimitKnown(Reset(u, {"low_swap_amount", "api_call_error"}))
    BY <2>1, <2>2, <2>7, <2>8 DEF LimitKnown, Limiting, Alike, SameEntries, LimitReady
  <2> QED BY <1>2, <2>3, <2>5, <2>7, <2>9
<1> QED BY <1>3, <1>4, <1>5 DEF CalculateMaxPayDebt

\* With nothing shown or what was shown before, the prompt of the debt.
LEMMA DebtPromptIsSound ==
  ASSUME NEW r, Good(r), ~Has(r, "no_active_voucher"), LimitReady(r),
         NEW n \in {"calculate_max_pay_debt", "invalid_pay_debt_amount"}
  PROVE  /\ Good(At(ResetTransactionAmount(r), n)) /\ Sound(At(ResetTransactionAmount(r), n))
         /\ Good(At(ResetTransactionAmount([r EXCEPT !.shown = <<>>]), n))
         /\ Sound(At(ResetTransactionAmount([r EXCEPT !.shown = <<>>]), n))
<1>1. ASSUME NEW s, Good(s), ~Has(s, "no_active_voucher"), LimitReady(s)
      PROVE  Good(At(ResetTransactionAmount(s), n)) /\ Sound(At(ResetTransactionAmount(s), n))
  <2> DEFINE u == ResetTransactionAmount(s)
             w == At(u, n)
  <2>1. s \in Row /\ Good(u) /\ SameEntries([s EXCEPT !.amount = None], u)
        /\ ~Has(u, "no_active_voucher")
    BY <1>1, AmountKeepsGood DEF Good
  <2>2. LimitReady(u)
    BY <1>1, <2>1, FieldsOfRow DEF SameEntries, LimitReady, HasSessionData
  <2> HIDE DEF u
  <2>3. Good(w) /\ w.node = n /\ SameEntries(u, w) /\ ~Has(w, "no_active_voucher")
    BY <2>1, AtMoves DEF Node, Has
  <2> HIDE DEF w
  <2>4. LimitReady(w)
    BY <2>2, <2>3 DEF SameEntries, LimitReady, HasSessionData
  <2> QED BY <2>3, <2>4, DebtNodeIsSound DEF Debt, Limited, u, w
<1>2. r \in Row /\ Good([r EXCEPT !.shown = <<>>])
  BY AmountKeepsGood DEF Good
<1>3. ~Has([r EXCEPT !.shown = <<>>], "no_active_voucher") /\ LimitReady([r EXCEPT !.shown = <<>>])
  BY <1>2, FieldsOfRow DEF Has, LimitReady, HasSessionData
<1> QED BY <1>1, <1>2, <1>3

LEMMA AfterDebtLimitIsQuiet ==
  ASSUME Inv, NEW s, LimitKnown(s), Step(AfterDebtLimit(s))
  PROVE  Quiet
<1>1. Good(s) /\ ~Has(s, "no_active_voucher")
  BY DEF LimitKnown, Limiting
<1>2. ASSUME NEW n \in {"pay_debt", "low_pay_debt_amount"}, Step(At(s, n))
      PROVE  Quiet
  <2>1. Good(At(s, n)) /\ At(s, n).node = n /\ ~Has(At(s, n), "no_active_voucher")
    BY <1>1, AtMoves DEF Node, Has
  <2>2. Sound(At(s, n))
    BY <2>1, DebtNodeIsSound DEF Debt, Limited
  <2> QED BY <1>2, <2>1, <2>2, StepIsQuiet
<1>3. CASE LimitReady(s) /\ Step(At(ResetTransactionAmount(s), "calculate_max_pay_debt"))
  BY <1>1, <1>3, DebtPromptIsSound, StepIsQuiet
<1> QED BY <1>2, <1>3 DEF AfterDebtLimit, LimitKnown, Has

LEMMA ChoosingDebtIsQuiet ==
  ASSUME Inv, MischooseDebtVoucher \/ \E v \in Voucher : ChooseDebtVoucher(v)
  PROVE  Quiet
<1>1. Limiting(Fresh) /\ Fresh.error = FALSE
  BY FreshIsGood DEF MischooseDebtVoucher, ChooseDebtVoucher, On, Limiting, Inv, Sound, ActiveSound,
     Debt, Has
<1>2. CASE MischooseDebtVoucher
  <2>1. LimitKnown(Set(Fresh, {"api_call_error"}))
    <3>1. Alike(Fresh, Set(Fresh, {"api_call_error"}))
          /\ Has(Set(Fresh, {"api_call_error"}), "api_call_error")
      BY <1>1, FlagsKeepGood DEF Limiting, Has, Flag
    <3> QED BY <1>1, <3>1 DEF LimitKnown, Limiting, Alike
  <2>2. ~HasSessionData(row) => LimitKnown(Fresh)
    BY <1>1, FreshIsGood DEF LimitKnown, LimitReady, HasSessionData, SameEntries
  <2> QED BY <1>2, <2>1, <2>2, AfterDebtLimitIsQuiet DEF MischooseDebtVoucher
<1>3. ASSUME NEW v \in Voucher, ChooseDebtVoucher(v)
      PROVE  Quiet
  <2>1. PICK s : /\ s \in Twice(LAMBDA t : CalculateMaxPayDebt(t, v), Fresh)
                 /\ Step(AfterDebtLimit(s))
    BY <1>3 DEF ChooseDebtVoucher
  <2>2. PICK t \in CalculateMaxPayDebt(Fresh, v) :
          IF t.error THEN s = t ELSE s \in CalculateMaxPayDebt(t, v)
    BY <2>1 DEF Twice
  <2>3. LimitKnown(t)
    BY <1>1, MaxPayDebtIsKnown
  <2>4. LimitKnown(s)
    BY <2>2, <2>3, MaxPayDebtIsKnown DEF LimitKnown
  <2> QED BY <2>1, <2>4, AfterDebtLimitIsQuiet
<1> QED BY <1>2, <1>3

\* The amount, on the way.
Removing(r) ==
  /\ Good(r) /\ ~Has(r, "no_active_voucher") /\ LimitReady(r)
  /\ r.error = FALSE /\ r.node = "calculate_max_pay_debt"

Removed(r) ==
  \/ Good(r) /\ r.error /\ r.node = "off"
  \/ Removing(r) /\ (Has(r, "invalid_amount") \/ DebtReady(r))

LEMMA ConfirmDebtIsRemoved ==
  ASSUME NEW r, Removing(r), NEW x \in Nat, NEW s \in ConfirmDebtRemoval(r, x)
  PROVE  Removed(s)
<1>1. /\ r \in Row /\ Good(r) /\ "off" \in Node /\ <<>> \in Seq(Call)
      /\ r.active \in Voucher \cup {None}
      /\ \A f \in {"api_call_error", "invalid_amount"} :
           {f} \in SUBSET Flag /\ "no_active_voucher" \notin {f}
  BY DEF Removing, Good, Node, Flag
<1>2. CASE s = r /\ ~HasSessionData(r)
  BY <1>2 DEF Removed, DebtReady
<1>3. CASE s = Failed(r)
  BY <1>1, <1>3, AtMoves DEF Removed
<1>4. CASE s = Set(r, {"invalid_amount"})
  <2>1. Alike(r, s) /\ Has(s, "invalid_amount")
    BY <1>1, <1>4, FlagsKeepGood DEF Has
  <2> QED BY <2>1 DEF Removed, Removing, Alike, SameEntries, LimitReady, HasSessionData
<1>5. ASSUME HasSessionData(r), ~(x > r.swapMax),
             NEW n \in {Scale(x, r.swapFrom.v)}
                         \cup (IF x = r.swapMax THEN {r.swapFrom.max} ELSE {}),
             s \in LET t == [r EXCEPT !.swapAmount = n]
                       v == r.swapFrom.v
                   IN  {Set([t EXCEPT !.shown = <<>>], {"api_call_error"}),
                        [t EXCEPT !.temp = "text", !.shown = <<Swap(v, Scale(x, v), r.active)>>]}
      PROVE  Removed(s)
  <2> DEFINE v == r.swapFrom.v
             max == r.swapFrom.max
             m == Scale(x, v)
             sh == <<Swap(v, m, r.active)>>
             t == [r EXCEPT !.swapAmount = n]
             u == [t EXCEPT !.shown = <<>>]
             w == [t EXCEPT !.temp = "text", !.shown = sh]
  <2>1. /\ v \in Voucher /\ max \in Nat /\ r.swapMax \in Nat /\ x <= r.swapMax
        /\ Lost(r.swapMax, max, v)
    <3>1. r.swapFrom \in Taken /\ Lost(r.swapMax, max, v)
      BY <1>5 DEF Removing, LimitReady
    <3>2. r.swapMax \in Nat
      BY <1>1, FieldsOfRow
    <3> QED BY <1>5, <3>1, <3>2 DEF Taken
  <2>2. s \in {Set(u, {"api_call_error"}), w}
    BY <1>5
  <2> HIDE DEF v, max
  <2>3. m \in Nat /\ m <= Scale(r.swapMax, v) /\ Scale(r.swapMax, v) \in Nat
        /\ Scale(Cent, v) \in Nat \ {0}
    BY <2>1, ScaleIsNat, ScaleIsMonotone, CentIsSomething
  <2> HIDE DEF m
  <2>4. n = m \/ (x = r.swapMax /\ n = max /\ m = Scale(r.swapMax, v))
    BY <1>5 DEF m, v, max
  <2>5. n \in Nat /\ n <= max /\ n - m \in 0 .. (Scale(Cent, v) - 1)
    BY <2>1, <2>3, <2>4 DEF Lost
  <2>6. sh \in Seq(Call)
    BY <1>1, <2>1, <2>3, CallsAreCalls
  <2> HIDE DEF sh
  <2>7. t \in Row
    BY <1>1, <2>5, RowTakes
  <2>8. /\ Removing(t) /\ t.swapAmount = n /\ t.swapFrom = r.swapFrom /\ t.active = r.active
    BY <1>1, <2>7, FieldsOfRow DEF Removing, Good, Has, LimitReady, HasSessionData
  <2> HIDE DEF t
  <2>9. u \in Row
    BY <1>1, <2>7, RowTakes
  <2>10. w \in Row
    BY <2>6, <2>7 DEF Row
  <2>11. Removing(u) /\ u.swapAmount = n /\ u.swapFrom = r.swapFrom /\ u.shown = <<>>
    BY <2>7, <2>8, <2>9, FieldsOfRow DEF Removing, Good, Has, LimitReady, HasSessionData
  <2>12. Removing(w) /\ w.swapAmount = n /\ w.swapFrom = r.swapFrom /\ w.shown = sh
         /\ w.active = r.active
    BY <2>7, <2>8, <2>10, FieldsOfRow DEF Removing, Good, Has, LimitReady, HasSessionData
  <2> HIDE DEF u, w
  <2>13. Removed(w)
    BY <2>3, <2>5, <2>12 DEF Removed, DebtReady, sh, v, max
  <2>14. Alike(u, Set(u, {"api_call_error"}))
    BY <1>1, <2>11, FlagsKeepGood DEF Removing
  <2>15. Removing(Set(u, {"api_call_error"}))
    BY <2>11, <2>14 DEF Removing, Alike, SameEntries, LimitReady, HasSessionData
  <2>16. Removed(Set(u, {"api_call_error"}))
    BY <2>5, <2>11, <2>14, <2>15 DEF Removed, DebtReady, Alike, SameEntries, max
  <2> QED BY <2>2, <2>13, <2>16
<1> QED BY <1>2, <1>3, <1>4, <1>5 DEF ConfirmDebtRemoval

LEMMA AnswerDebtAmountIsQuiet ==
  ASSUME Inv, NEW x \in Typed, AnswerDebtAmount(x)
  PROVE  Quiet
<1>1. Removing(Fresh) /\ x \in Nat
  BY FreshIsGood, CashAmountAssumption DEF AnswerDebtAmount, On, Removing, Inv, Sound, ActiveSound,
     LimitSound, Limited, Debt, Has, LimitReady, HasSessionData, SameEntries
<1>2. PICK s : /\ s \in Twice(LAMBDA t : ConfirmDebtRemoval(t, x), Fresh)
               /\ Step(IF s.error THEN s
                       ELSE IF Has(s, "invalid_amount")
                       THEN At(ResetTransactionAmount(s), "invalid_pay_debt_amount")
                       ELSE At(s, "confirm_debt_removal"))
  BY DEF AnswerDebtAmount
<1>3. PICK t \in ConfirmDebtRemoval(Fresh, x) :
        IF t.error THEN s = t ELSE s \in ConfirmDebtRemoval(t, x)
  BY <1>2 DEF Twice
<1>4. Removed(t)
  BY <1>1, ConfirmDebtIsRemoved
<1>5. Removed(s)
  <2>1. CASE t.error
    BY <1>3, <1>4, <2>1
  <2>2. CASE Removing(t)
    BY <1>1, <1>3, <2>2, ConfirmDebtIsRemoved DEF Removing
  <2> QED BY <1>4, <2>1, <2>2 DEF Removed
<1>6. CASE Good(s) /\ s.error /\ s.node = "off"
  BY <1>2, <1>6, StepIsQuiet DEF Resting, Node, Chosen, Debt, Limited
<1>7. CASE Removing(s) /\ Step(At(ResetTransactionAmount(s), "invalid_pay_debt_amount"))
  BY <1>7, DebtPromptIsSound, StepIsQuiet DEF Removing
<1>8. CASE Removing(s) /\ DebtReady(s) /\ Step(At(s, "confirm_debt_removal"))
  <2> DEFINE w == At(s, "confirm_debt_removal")
  <2>1. Good(w) /\ SameEntries(s, w) /\ w.node = "confirm_debt_removal"
        /\ ~Has(w, "no_active_voucher")
    BY <1>8, AtMoves DEF Node, Removing, Has
  <2> HIDE DEF w
  <2>2. LimitReady(w) /\ DebtReady(w)
    BY <1>8, <2>1 DEF Removing, LimitReady, DebtReady, HasSessionData, SameEntries
  <2>3. Sound(w)
    BY <2>1, <2>2, DebtNodeIsSound DEF Debt, Limited
  <2> QED BY <1>8, <2>1, <2>3, StepIsQuiet DEF w
<1> QED BY <1>2, <1>5, <1>6, <1>7, <1>8 DEF Removed, Removing

LEMMA InitiatePayDebtIsSound ==
  ASSUME Inv, NEW ok \in BOOLEAN, InitiatePayDebt(ok)
  PROVE  Inv' /\ StepSound
<1> DEFINE s == At(Fresh, "initiate_pay_debt")
           failed == Set(s, {"api_call_error"})
           c == Swap(row.swapFrom.v, row.swapAmount, row.active)
<1>1. /\ row \in Row /\ row.node = "confirm_debt_removal" /\ DebtReady(row) /\ LimitReady(row)
      /\ row.active \in Voucher \cup {None}
  BY DEF InitiatePayDebt, On, Inv, Sound, DebtSound, LimitSound, ActiveSound, Limited, Debt
<1>2. Good(s) /\ s.node = "initiate_pay_debt" /\ Good(Failed(Fresh)) /\ Failed(Fresh).node = "off"
  BY FreshIsGood, AtMoves DEF Node
<1>3. Good(failed) /\ failed.node = "initiate_pay_debt"
  BY <1>2, FlagsKeepGood DEF Flag, Alike
<1>4. {"off", "initiate_pay_debt"} \subseteq Resting
  BY DEF Resting, Node, Chosen, Debt, Limited
<1> HIDE DEF s, failed
<1>5. CASE Step(failed) \/ Step(Failed(Fresh)) \/ Step(s)
  BY <1>2, <1>3, <1>4, <1>5, StepIsQuiet, QuietIsSound
<1>6. CASE HasSessionData(row) /\ Step([s EXCEPT !.calls = <<c>>])
  <2>1. /\ row.swapFrom \in Taken /\ row.swapFrom.v \in Voucher /\ row.swapAmount \in Nat
        /\ row.swapAmount <= row.swapFrom.max
    BY <1>1, <1>6 DEF DebtReady, LimitReady, Taken
  <2>2. <<c>> \in Seq(Call) /\ c.op = "swap" /\ c.from = row.swapFrom.v /\ c.n = row.swapAmount
    BY <1>1, <2>1, CallsAreCalls DEF Swap
  <2>3. \A j \in DOMAIN row.shown :
          /\ [c EXCEPT !.n = 0] = [row.shown[j] EXCEPT !.n = 0]
          /\ c.n - row.shown[j].n \in 0 .. (Scale(Cent, c.from) - 1)
    <3>1. CASE row.shown = <<>>
      BY <3>1
    <3>2. ASSUME NEW n \in Nat, row.swapAmount - n \in 0 .. (Scale(Cent, row.swapFrom.v) - 1),
                 row.shown = <<Swap(row.swapFrom.v, n, row.active)>>
          PROVE  \A j \in DOMAIN row.shown :
                   /\ [c EXCEPT !.n = 0] = [row.shown[j] EXCEPT !.n = 0]
                   /\ c.n - row.shown[j].n \in 0 .. (Scale(Cent, c.from) - 1)
      BY <3>2 DEF Swap
    <3> QED BY <1>1, <1>6, <3>1, <3>2 DEF DebtReady
  <2> HIDE DEF c
  <2>4. Inv' /\ row'.calls = <<c>> /\ row'.pool = row.pool
    BY <1>2, <1>4, <1>6, <2>2, Asks
  <2>5. Made("transfer") = {} /\ Made("onramp") = {} /\ \A i \in Made("swap") : row'.calls[i] = c
    BY <2>2, <2>4 DEF Made
  <2> QED BY <1>1, <2>1, <2>2, <2>3, <2>4, <2>5
         DEF StepSound, PaidStep, DebtStep, PurchaseStep, LimitStep, PoolStep
<1> QED BY <1>5, <1>6 DEF InitiatePayDebt, s, failed

LEMMA PayingDebtIsSound ==
  ASSUME Inv, PayingDebt
  PROVE  Inv' /\ StepSound
<1>1. CASE OpenPayDebt
  BY <1>1, EnterListIsQuiet, QuietIsSound DEF OpenPayDebt
<1>2. CASE LeavePayDebt
  <2>1. CASE \E s \in EnterMpesa(Fresh) : Step(s)
    BY <2>1, EnterMpesaIsQuiet, QuietIsSound
  <2>2. CASE Step(EnterList(Fresh, "pay_debt"))
    BY <2>2, EnterListIsQuiet, QuietIsSound
  <2>3. CASE /\ row.node \in {"invalid_pay_debt_amount", "confirm_debt_removal"}
             /\ Step(At(ResetTransactionAmount([Fresh EXCEPT !.shown = <<>>]),
                        "calculate_max_pay_debt"))
    <3>1. Good(Fresh) /\ ~Has(Fresh, "no_active_voucher") /\ LimitReady(Fresh)
      BY <2>3, FreshIsGood DEF Inv, Sound, ActiveSound, LimitSound, Limited, Debt, Has, LimitReady,
         HasSessionData, SameEntries
    <3> QED BY <2>3, <3>1, DebtPromptIsSound, StepIsQuiet, QuietIsSound
  <2> QED BY <1>2, <2>1, <2>2, <2>3 DEF LeavePayDebt
<1> QED BY <1>1, <1>2, ChoosingDebtIsQuiet, AnswerDebtAmountIsQuiet, InitiatePayDebtIsSound,
           QuietIsSound DEF PayingDebt

-----------------------------------------------------------------------------
(* Every step, and the theorems *)

LEMMA InitEstablishesInv == Init => Inv
<1> SUFFICES ASSUME Init PROVE Inv
  OBVIOUS
<1>1. row \in Row
  BY PoolAssumption DEF Init, Row, Node
<1>2. Sound(row)
  BY <1>1 DEF Init, Sound, Chosen, Limited, Debt, ActiveSound, ChosenSound, LimitSound,
     WithdrawalSound, PurchaseSound, DepositSound, DebtSound, PoolSound
<1> QED BY <1>2, CashAmountAssumption DEF Inv, Init

LEMMA NextIsSound ==
  ASSUME Inv, Next
  PROVE  Inv' /\ StepSound
<1>1. CASE OpenMpesa
  BY <1>1, EnterMpesaIsQuiet, QuietIsSound DEF OpenMpesa
<1> QED BY <1>1, DiallingIsQuiet, ElsewhereIsQuiet, WithdrawingIsSound, BuyingIsSound,
           ChoosingPoolIsSound, DepositingIsSound, PayingDebtIsSound, QuietIsSound DEF Next

\* The inductive invariant: whatever services answer, a confirmation shows what it is
\* made from.
THEOREM InvAlways == Spec => []Inv
<1>1. Init => Inv
  BY InitEstablishesInv
<1>2. Inv /\ [Next]_vars => Inv'
  <2>1. CASE UNCHANGED vars
    BY <2>1 DEF vars, Inv
  <2> QED BY <2>1, NextIsSound
<1> QED BY <1>1, <1>2, PTL DEF Spec

\* The entries keep their types, whatever the menus leave to each other.
THEOREM TypeCorrect == Spec => []TypeOK
<1>1. Inv => TypeOK
  BY DEF Inv, Sound, TypeOK
<1> QED BY <1>1, InvAlways, PTL

\* A deposit or a withdrawal is what was shown, for any vouchers, amounts and rates
\* (InitiatePoolDeposit, InitiateGetMpesa).
THEOREM PaidAlwaysAsShown == Spec => PaidAsShown
<1>1. Inv /\ [Next]_vars => [PaidStep]_vars
  BY NextIsSound DEF StepSound
<1> QED BY <1>1, InvAlways, PTL DEF Spec, PaidAsShown, PaidStep

\* The removal of a debt takes the voucher that was shown and, but for what a limit
\* loses on the screen, the amount that was shown (InitiatePayDebt).
THEOREM DebtAlwaysAsShown == Spec => DebtAsShown
<1>1. Inv /\ [Next]_vars => [DebtStep]_vars
  BY NextIsSound DEF StepSound
<1> QED BY <1>1, InvAlways, PTL DEF Spec, DebtAsShown, DebtStep

\* A purchase whose preview was shown is of the amount shown (InitiateSendMpesa).
THEOREM PurchaseAlwaysAsShown == Spec => PurchaseAsShown
<1>1. Inv /\ [Next]_vars => [PurchaseStep]_vars
  BY NextIsSound DEF StepSound
<1> QED BY <1>1, InvAlways, PTL DEF Spec, PurchaseAsShown, PurchaseStep

\* A deposit stays within the balance and the removal of a debt within its limit,
\* whatever an earlier menu left and whether or not the quote failed.
THEOREM AlwaysWithinLimit == Spec => WithinLimit
<1>1. Inv /\ [Next]_vars => [LimitStep]_vars
  BY NextIsSound DEF StepSound
<1> QED BY <1>1, InvAlways, PTL DEF Spec, WithinLimit, LimitStep

\* The pool changes to the one viewed last (SetPool, ViewPool).
THEOREM PoolAlwaysAsViewed == Spec => PoolAsViewed
<1>1. Inv /\ [Next]_vars => [PoolStep]_vars
  BY NextIsSound DEF StepSound
<1> QED BY <1>1, InvAlways, PTL DEF Spec, PoolAsViewed, PoolStep
=============================================================================
