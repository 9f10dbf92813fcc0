-------------------------- MODULE Transfers_proofs --------------------------
(***************************************************************************)
(* Proofs about Transfers, for any vouchers, holdings, recipients, amounts *)
(* and answers of the services: what is sent, swapped or made active is    *)
(* what was on the screen, within what was offered, and offered is only    *)
(* what the user holds.                                                    *)
(***************************************************************************)
EXTENDS Transfers, TLAPS

\* The active voucher was among the holdings, with its balance.
Active(r) == [v |-> r.active, bal |-> r.bal] \in r.held

\* The nodes behind a recipient, up to the confirmation.
Sending == {"credit_vouchers", "credit_amount", "invalid_amount",
            "transaction_pin", "transaction_swap"}
Swapping == {"swap_to_list", "swap_limit", "swap_preview"}

SourceSound(r) ==
  /\ r.node \notin {"off", "api_failure"} => r.noActive \/ Active(r)
  /\ r.node \in Sending \cup {"credit_send"} => Source(r) \in r.held
  /\ r.node \in Sending => r.recipient = r.input /\ r.recipient \in To

\* What is offered is the voucher that will be sent, up to its balance, or that
\* of the swap, up to its limit.
OfferSound(r) ==
  r.node = "credit_amount" =>
    \/ /\ ~r.swap
       /\ r.offered = [from |-> Source(r).v, v |-> Source(r).v,
                       n |-> Truncate(Source(r).bal), to |-> r.recipient]
    \/ /\ r.swap /\ r.swapTo \in Voucher
       /\ r.offered = [from |-> Source(r).v, v |-> r.swapTo, n |-> r.swapMax,
                       to |-> r.recipient]

\* The voucher and the recipient are those of the offer, and so is the amount when it
\* was typed without exponent.
Offered(r) ==
  /\ r.offered.v = r.shown.v /\ r.offered.to = r.shown.to
  /\ HasExponent(r.shown.n) \/ Cut(r.shown.n) <= r.offered.n

\* What the confirmation shows are the entries that the transfer is made from.
PlainReady(r) ==
  /\ r.shown \in Screen(Text) /\ r.shown.from = Source(r).v /\ r.shown.v = Source(r).v
  /\ r.shown.to = r.recipient /\ r.amount = Cut(r.shown.n)
  /\ r.offered.from = r.shown.from /\ Offered(r)
PlainSound(r) == r.node = "transaction_pin" => PlainReady(r)

SwapReady(r) ==
  /\ r.custom \in Holding /\ r.swapTo \in Voucher /\ r.swapAmount \in Nat
  /\ r.shown \in Screen(Text) /\ r.shown.from = r.custom.v /\ r.shown.v = r.swapTo
  /\ r.shown.to = r.recipient
  /\ Cut(r.shown.n) \in Nat /\ r.amount = Scale(Cut(r.shown.n), r.swapTo)
  /\ r.customState => r.offered.from = r.shown.from
  /\ Offered(r)
SwapSound(r) == r.node = "transaction_swap" => SwapReady(r)

ExchangeReady(r) ==
  /\ r.shown \in Screen(Text) /\ r.shown.from = r.active /\ r.shown.v = r.swapTo
  /\ r.invalid \/ ( /\ r.temp = r.shown.n /\ Cut(r.shown.n) \in Nat
                    /\ r.swapAmount = Scale(Cut(r.shown.n), r.active) )
ExchangeSound(r) ==
  /\ r.node \in Swapping => Active(r)
  /\ r.node \in {"swap_limit", "swap_preview"} => r.swapTo \in Voucher
  /\ r.node = "swap_preview" => ExchangeReady(r)

VoucherSound(r) ==
  /\ r.node = "view_voucher" =>
       /\ r.custom \in r.held
       /\ r.shown = [from |-> r.custom.v, v |-> r.custom.v,
                    n |-> Plain(Truncate(r.custom.bal)), to |-> None]
  /\ r.node = "voucher_set" =>
       /\ Active(r) /\ r.shown # None /\ r.active = r.shown.v
       /\ Plain(Truncate(r.bal)) = r.shown.n

Sound(r) ==
  /\ r \in Row /\ r.listed \subseteq r.held
  /\ SourceSound(r) /\ OfferSound(r) /\ PlainSound(r) /\ SwapSound(r)
  /\ ExchangeSound(r) /\ VoucherSound(r)

Inv ==
  /\ Sound(row) /\ theirs \in [Recipient -> Voucher \cup {None, Empty}]
  /\ TransferAsShown /\ SwapAsShown

\* A step that asks the services for nothing.
Quiet == Sound(row') /\ row'.calls = <<>> /\ UNCHANGED theirs

-----------------------------------------------------------------------------
(* Amounts *)

LEMMA CentIs == Cent \in Nat /\ Cent > 0
BY AmountAssumption

LEMMA TruncateIsNat ==
  ASSUME NEW x \in Nat
  PROVE  Truncate(x) \in Nat /\ Truncate(x) <= x
<1>1. x % Cent \in Nat /\ x % Cent <= x
  BY CentIs
<1> QED BY <1>1 DEF Truncate

\* Cutting keeps the order.
LEMMA TruncateIsMonotone ==
  ASSUME NEW x \in Nat, NEW y \in Nat, x <= y
  PROVE  Truncate(x) <= Truncate(y)
<1> DEFINE C == Cent
           j == x \div C
           k == y \div C
           m == x % C
           n == y % C
<1>1. C \in Nat /\ C > 0 /\ j \in Nat /\ k \in Nat /\ m \in 0 .. (C - 1) /\ n \in 0 .. (C - 1)
  BY CentIs
<1>2. x = (C * j) + m /\ y = (C * k) + n
  BY CentIs
<1>3. Truncate(x) = x - m /\ Truncate(y) = y - n
  BY DEF Truncate
<1> HIDE DEF C, j, k, m, n
<1>4. j <= k
  <2> SUFFICES ASSUME j >= k + 1 PROVE FALSE
    BY <1>1
  <2>1. C * j >= C * (k + 1)
    BY <1>1
  <2>2. C * (k + 1) = (C * k) + C
    BY <1>1
  <2> QED BY <1>1, <1>2, <2>1, <2>2
<1>5. C * j <= C * k
  BY <1>1, <1>4
<1>6. C * j \in Nat /\ C * k \in Nat
  BY <1>1
<1> QED BY <1>1, <1>2, <1>3, <1>5, <1>6

\* What is left of a typed amount; without exponent it is no more than its value.
LEMMA CutIsNat ==
  ASSUME NEW t \in Text
  PROVE  /\ t.value \in Nat /\ Cut(t) \in Nat \cup {None}
         /\ HasExponent(t) \/ (Cut(t) = Truncate(t.value) /\ Cut(t) \in Nat)
<1>1. t.value \in Nat /\ t.digits \in Nat \cup {None}
  BY DEF Text
<1>2. CASE t.digits = None
  <2>1. HasExponent(t)
    BY <1>1, <1>2, NoneAssumption DEF HasExponent
  <2> QED BY <1>1, <1>2, <2>1 DEF Cut
<1>3. CASE t.digits # None
  <2>1. Cut(t) = Truncate(t.digits) /\ t.digits \in Nat
    BY <1>1, <1>3 DEF Cut
  <2> QED BY <1>1, <2>1, TruncateIsNat DEF HasExponent
<1> QED BY <1>2, <1>3

LEMMA PlainIsText ==
  ASSUME NEW n \in Nat
  PROVE  Plain(n) \in Text
BY DEF Plain, Text

LEMMA ScaleIsNat ==
  ASSUME NEW x \in Nat, NEW v \in Voucher
  PROVE  Scale(x, v) \in Nat
BY VoucherAssumption DEF Scale

-----------------------------------------------------------------------------
(* Rows *)

LEMMA FieldsOfRow ==
  ASSUME NEW r \in Row
  PROVE  /\ DOMAIN r = {"active", "raw", "bal", "held", "listed", "custom", "customState",
                        "input", "recipient", "phone", "amount", "temp", "poolTo", "swapTo",
                        "swapMax", "swapAmount", "multiple", "noActive", "swap", "invalid",
                        "node", "behind", "offered", "shown", "calls", "error"}
         /\ r.active \in Voucher \cup {None, Empty} /\ r.raw \in BOOLEAN /\ r.bal \in Nat
         /\ r.held \in SUBSET Holding /\ r.listed \in SUBSET Holding
         /\ r.custom \in Holding \cup {None} /\ r.customState \in BOOLEAN
         /\ r.input \in To \cup {None} /\ r.recipient \in To \cup {None}
         /\ r.phone \in Recipient \cup {None} /\ r.amount \in Nat \cup {None}
         /\ r.temp \in Text \cup {None} /\ r.poolTo \in (SUBSET Voucher) \cup {None}
         /\ r.swapTo \in Voucher \cup {None, Empty} /\ r.swapMax \in Nat
         /\ r.swapAmount \in Nat \cup {None}
         /\ r.multiple \in BOOLEAN /\ r.noActive \in BOOLEAN /\ r.swap \in BOOLEAN
         /\ r.invalid \in BOOLEAN /\ r.node \in Node /\ r.behind \in Node
         /\ r.offered \in Screen(Nat) \cup {None} /\ r.shown \in Screen(Text) \cup {None}
         /\ r.calls \in Seq(Call) /\ r.error \in BOOLEAN
BY DEF Row

\* What a handler may write into a row, entry by entry.
LEMMA RowTakes ==
  ASSUME NEW r \in Row
  PROVE  /\ \A x \in Voucher \cup {None, Empty} : [r EXCEPT !.active = x] \in Row
         /\ \A x \in BOOLEAN : [r EXCEPT !.raw = x] \in Row
         /\ \A x \in Nat : [r EXCEPT !.bal = x] \in Row
         /\ \A x \in SUBSET Holding : [r EXCEPT !.held = x] \in Row
         /\ \A x \in SUBSET Holding : [r EXCEPT !.listed = x] \in Row
         /\ \A x \in Holding \cup {None} : [r EXCEPT !.custom = x] \in Row
         /\ \A x \in BOOLEAN : [r EXCEPT !.customState = x] \in Row
         /\ \A x \in To \cup {None} : [r EXCEPT !.input = x] \in Row
         /\ \A x \in To \cup {None} : [r EXCEPT !.recipient = x] \in Row
         /\ \A x \in Recipient \cup {None} : [r EXCEPT !.phone = x] \in Row
         /\ \A x \in Nat \cup {None} : [r EXCEPT !.amount = x] \in Row
         /\ \A x \in Text \cup {None} : [r EXCEPT !.temp = x] \in Row
         /\ \A x \in (SUBSET Voucher) \cup {None} : [r EXCEPT !.poolTo = x] \in Row
         /\ \A x \in Voucher \cup {None, Empty} : [r EXCEPT !.swapTo = x] \in Row
         /\ \A x \in Nat : [r EXCEPT !.swapMax = x] \in Row
         /\ \A x \in Nat \cup {None} : [r EXCEPT !.swapAmount = x] \in Row
         /\ \A x \in BOOLEAN : [r EXCEPT !.multiple = x] \in Row
         /\ \A x \in BOOLEAN : [r EXCEPT !.noActive = x] \in Row
         /\ \A x \in BOOLEAN : [r EXCEPT !.swap = x] \in Row
         /\ \A x \in BOOLEAN : [r EXCEPT !.invalid = x] \in Row
         /\ \A x \in Node : [r EXCEPT !.node = x] \in Row
         /\ \A x \in Node : [r EXCEPT !.behind = x] \in Row
         /\ \A x \in Screen(Nat) \cup {None} : [r EXCEPT !.offered = x] \in Row
         /\ \A x \in Screen(Text) \cup {None} : [r EXCEPT !.shown = x] \in Row
         /\ \A x \in Seq(Call) : [r EXCEPT !.calls = x] \in Row
         /\ \A x \in BOOLEAN : [r EXCEPT !.error = x] \in Row
<1>1. \A x \in Voucher \cup {None, Empty} : [r EXCEPT !.active = x] \in Row
  BY DEF Row
<1>2. \A x \in BOOLEAN : [r EXCEPT !.raw = x] \in Row
  BY DEF Row
<1>3. \A x \in Nat : [r EXCEPT !.bal = x] \in Row
  BY DEF Row
<1>4. \A x \in SUBSET Holding : [r EXCEPT !.held = x] \in Row
  BY DEF Row
<1>5. \A x \in SUBSET Holding : [r EXCEPT !.listed = x] \in Row
  BY DEF Row
<1>6. \A x \in Holding \cup {None} : [r EXCEPT !.custom = x] \in Row
  BY DEF Row
<1>7. \A x \in BOOLEAN : [r EXCEPT !.customState = x] \in Row
  BY DEF Row
<1>8. \A x \in To \cup {None} : [r EXCEPT !.input = x] \in Row
  BY DEF Row
<1>9. \A x \in To \cup {None} : [r EXCEPT !.recipient = x] \in Row
  BY DEF Row
<1>10. \A x \in Recipient \cup {None} : [r EXCEPT !.phone = x] \in Row
  BY DEF Row
<1>11. \A x \in Nat \cup {None} : [r EXCEPT !.amount = x] \in Row
  BY DEF Row
<1>12. \A x \in Text \cup {None} : [r EXCEPT !.temp = x] \in Row
  BY DEF Row
<1>13. \A x \in (SUBSET Voucher) \cup {None} : [r EXCEPT !.poolTo = x] \in Row
  BY DEF Row
<1>14. \A x \in Voucher \cup {None, Empty} : [r EXCEPT !.swapTo = x] \in Row
  BY DEF Row
<1>15. \A x \in Nat : [r EXCEPT !.swapMax = x] \in Row
  BY DEF Row
<1>16. \A x \in Nat \cup {None} : [r EXCEPT !.swapAmount = x] \in Row
  BY DEF Row
<1>17. \A x \in BOOLEAN : [r EXCEPT !.multiple = x] \in Row
  BY DEF Row
<1>18. \A x \in BOOLEAN : [r EXCEPT !.noActive = x] \in Row
  BY DEF Row
<1>19. \A x \in BOOLEAN : [r EXCEPT !.swap = x] \in Row
  BY DEF Row
<1>20. \A x \in BOOLEAN : [r EXCEPT !.invalid = x] \in Row
  BY DEF Row
<1>21. \A x \in Node : [r EXCEPT !.node = x] \in Row
  BY DEF Row
<1>22. \A x \in Node : [r EXCEPT !.behind = x] \in Row
  BY DEF Row
<1>23. \A x \in Screen(Nat) \cup {None} : [r EXCEPT !.offered = x] \in Row
  BY DEF Row
<1>24. \A x \in Screen(Text) \cup {None} : [r EXCEPT !.shown = x] \in Row
  BY DEF Row
<1>25. \A x \in Seq(Call) : [r EXCEPT !.calls = x] \in Row
  BY DEF Row
<1>26. \A x \in BOOLEAN : [r EXCEPT !.error = x] \in Row
  BY DEF Row
<1> QED BY <1>1, <1>2, <1>3, <1>4, <1>5, <1>6, <1>7, <1>8, <1>9, <1>10, <1>11, <1>12, <1>13, <1>14, <1>15, <1>16, <1>17, <1>18, <1>19, <1>20, <1>21, <1>22, <1>23, <1>24, <1>25, <1>26
-----------------------------------------------------------------------------
(* Rows on the way from one to the next *)

\* A row that a request may pass through, and one in which the active voucher is
\* known to be held, or that there is none.
Good(r) == r \in Row /\ r.calls = <<>> /\ r.listed \subseteq r.held
Based(r) == r.noActive \/ Active(r)

\* The nodes where nothing else is relied on.
Resting == Node \ (Sending \cup Swapping \cup {"credit_send", "view_voucher", "voucher_set"})

\* The same but for the node and what the request made of it.
Same(r, s) ==
  /\ s.active = r.active /\ s.raw = r.raw /\ s.bal = r.bal /\ s.held = r.held
  /\ s.listed = r.listed /\ s.custom = r.custom /\ s.customState = r.customState
  /\ s.input = r.input /\ s.recipient = r.recipient /\ s.phone = r.phone
  /\ s.amount = r.amount /\ s.temp = r.temp /\ s.poolTo = r.poolTo /\ s.swapTo = r.swapTo
  /\ s.swapMax = r.swapMax /\ s.swapAmount = r.swapAmount /\ s.multiple = r.multiple
  /\ s.noActive = r.noActive /\ s.swap = r.swap /\ s.invalid = r.invalid
  /\ s.behind = r.behind /\ s.offered = r.offered /\ s.shown = r.shown

\* The same voucher, recipient and holdings.
Alike(r, s) ==
  /\ s.active = r.active /\ s.bal = r.bal /\ s.held = r.held /\ s.noActive = r.noActive
  /\ s.custom = r.custom /\ s.customState = r.customState
  /\ s.input = r.input /\ s.recipient = r.recipient

LEMMA AlikeSources ==
  ASSUME NEW r, NEW s, Alike(r, s)
  PROVE  Source(s) = Source(r) /\ Active(s) = Active(r) /\ Based(s) = Based(r)
BY DEF Alike, Source, Active, Based

LEMMA SameIsAlike ==
  ASSUME NEW r, NEW s, Same(r, s)
  PROVE  Alike(r, s)
BY DEF Alike, Same

LEMMA AtMoves ==
  ASSUME NEW r, Good(r), NEW n \in Node
  PROVE  Good(At(r, n)) /\ Same(r, At(r, n)) /\ At(r, n).node = n
<1>1. r \in Row
  BY DEF Good
<1>2. [r EXCEPT !.node = n] \in Row
  BY <1>1, RowTakes
<1> QED BY <1>1, <1>2, FieldsOfRow DEF Good, At, Same

LEMMA FreshIsGood ==
  ASSUME Sound(row)
  PROVE  Good(Fresh) /\ Same(row, Fresh) /\ Fresh.node = row.node
<1>1. row \in Row /\ row.listed \subseteq row.held /\ <<>> \in Seq(Call)
  BY DEF Sound
<1>2. [row EXCEPT !.calls = <<>>] \in Row
  BY <1>1, RowTakes
<1>3. Fresh \in Row
  BY <1>2, RowTakes DEF Fresh
<1> QED BY <1>1, <1>3, FieldsOfRow DEF Good, Fresh, Same

LEMMA RestingIsSound ==
  ASSUME NEW r, Good(r), r.node \in Resting,
         r.node \in {"off", "api_failure"} \/ Based(r)
  PROVE  Sound(r)
BY DEF Good, Sound, Resting, Sending, Swapping, Based, SourceSound, OfferSound, PlainSound,
       SwapSound, ExchangeSound, VoucherSound

\* A move to a node where nothing is relied on.
LEMMA ToResting ==
  ASSUME NEW r, Good(r), NEW n \in Resting, n \in {"off", "api_failure"} \/ Based(r)
  PROVE  Sound(At(r, n)) /\ At(r, n).calls = <<>>
<1>1. n \in Node
  BY DEF Resting
<1>2. Good(At(r, n)) /\ Same(r, At(r, n)) /\ At(r, n).node = n
  BY <1>1, AtMoves
<1>3. Based(r) => Based(At(r, n))
  BY <1>2, SameIsAlike, AlikeSources
<1> QED BY <1>2, <1>3, RestingIsSound DEF Good

LEMMA FailedIsSound ==
  ASSUME NEW r, Good(r)
  PROVE  Sound(Failed(r)) /\ Failed(r).calls = <<>>
<1>1. r \in Row /\ "off" \in Node /\ TRUE \in BOOLEAN
  BY DEF Good, Node
<1>2. [r EXCEPT !.node = "off"] \in Row
  BY <1>1, RowTakes
<1>3. Failed(r) \in Row
  BY <1>1, <1>2, RowTakes DEF Failed
<1>4. Good(Failed(r)) /\ Failed(r).node = "off"
  BY <1>1, <1>3, FieldsOfRow DEF Failed, Good
<1> QED BY <1>4, RestingIsSound DEF Resting, Node, Sending, Swapping, Good

LEMMA StepIsQuiet ==
  ASSUME NEW r, Sound(r), r.calls = <<>>, Step(r)
  PROVE  Quiet
BY DEF Step, Quiet

\* In a menu, the active voucher is held or known not to be there.
LEMMA InMenus ==
  ASSUME Sound(row), row.node \notin {"off", "api_failure"}
  PROVE  Good(Fresh) /\ Same(row, Fresh) /\ Based(Fresh)
BY FreshIsGood, SameIsAlike, AlikeSources DEF Sound, SourceSound, Based

-----------------------------------------------------------------------------
(* The main menu *)

LEMMA HoldingsAre ==
  ASSUME NEW h \in Holdings
  PROVE  /\ h \in Seq(Holding) /\ Len(h) \in Nat
         /\ \A i \in DOMAIN h : h[i] \in Holding /\ h[i] \in Kept(h)
         /\ Kept(h) \in SUBSET Holding
         /\ h # <<>> => 1 \in DOMAIN h
<1>1. h \in Seq(Holding)
  BY HoldingsAssumption
<1>2. \A i \in DOMAIN h : h[i] \in Holding /\ h[i] \in Kept(h)
  BY <1>1 DEF Kept
<1>3. Kept(h) \in SUBSET Holding
  BY <1>2 DEF Kept
<1>4. h # <<>> => 1 \in DOMAIN h
  BY <1>1
<1> QED BY <1>1, <1>2, <1>3, <1>4

\* Whatever the service answers, the active voucher is one of the holdings, with
\* its balance, or the user is known to have none.
LEMMA ManageVouchersIsGood ==
  ASSUME NEW r, Good(r), NEW h \in Holdings
  PROVE  Good(ManageVouchers(r, h)) /\ Based(ManageVouchers(r, h))
<1> DEFINE s == ManageVouchers(r, h)
<1>1. r \in Row /\ r.calls = <<>> /\ r.listed \subseteq r.held
  BY DEF Good
<1>2. CASE h = <<>>
  <2> DEFINE x == IF r.active = None THEN None ELSE Empty
  <2>1. s = [r EXCEPT !.active = x, !.bal = 0, !.raw = TRUE, !.noActive = TRUE]
    BY <1>2 DEF ManageVouchers
  <2>2. x \in Voucher \cup {None, Empty}
    OBVIOUS
  <2> HIDE DEF x, s
  <2>3. s \in Row
    BY <1>1, <2>1, <2>2 DEF Row
  <2>4. s.calls = <<>> /\ s.listed = r.listed /\ s.held = r.held /\ s.noActive = TRUE
    BY <1>1, <2>1, FieldsOfRow
  <2> QED BY <1>1, <2>3, <2>4 DEF s, Good, Based
<1>3. CASE h # <<>>
  <2> DEFINE match == {i \in DOMAIN h : r.raw /\ h[i].v = r.active}
             a == IF match = {} THEN h[1] ELSE h[CHOOSE i \in match : TRUE]
             several == Len(h) > 1
  <2>1. PICK i \in DOMAIN h : a = h[i]
    BY <1>3, HoldingsAre
  <2>2. a \in Holding /\ a \in Kept(h) /\ Kept(h) \in SUBSET Holding
    BY <2>1, HoldingsAre
  <2>3. s = [r EXCEPT !.active = a.v, !.bal = a.bal, !.raw = TRUE,
                      !.noActive = FALSE, !.multiple = several,
                      !.held = Kept(h), !.listed = Kept(h) \ {a}]
    BY <1>3 DEF ManageVouchers
  <2>7. several \in BOOLEAN
    OBVIOUS
  <2> HIDE DEF a, s, several
  <2>4. /\ a.v \in Voucher /\ a.bal \in Nat /\ a = [v |-> a.v, bal |-> a.bal]
        /\ Kept(h) \ {a} \in SUBSET Holding
    BY <2>2 DEF Holding
  <2>5. s \in Row
    <3> DEFINE t == [r EXCEPT !.active = a.v, !.bal = a.bal, !.raw = TRUE, !.noActive = FALSE]
               u == [t EXCEPT !.multiple = several]
               w == [u EXCEPT !.held = Kept(h)]
    <3>1. t \in Row
      <4>1. [r EXCEPT !.active = a.v, !.bal = a.bal] \in Row
        <5>1. [r EXCEPT !.active = a.v] \in Row
          BY <1>1, <2>4, RowTakes
        <5> QED BY <2>4, <5>1, RowTakes
      <4>2. [[r EXCEPT !.active = a.v, !.bal = a.bal] EXCEPT !.raw = TRUE] \in Row
        BY <4>1, RowTakes
      <4> QED BY <4>2, RowTakes
    <3> HIDE DEF t
    <3>2. u \in Row
      BY <2>7, <3>1, RowTakes
    <3> HIDE DEF u
    <3>3. w \in Row
      BY <2>2, <3>2, RowTakes
    <3> HIDE DEF w
    <3>4. [w EXCEPT !.listed = Kept(h) \ {a}] \in Row
      BY <2>4, <3>3, RowTakes
    <3> QED BY <2>3, <3>4 DEF t, u, w
  <2>6. /\ s.active = a.v /\ s.bal = a.bal /\ s.held = Kept(h)
        /\ s.listed = Kept(h) \ {a} /\ s.calls = <<>>
    BY <1>1, <2>3, FieldsOfRow
  <2> QED BY <2>2, <2>4, <2>5, <2>6 DEF s, Good, Based, Active
<1> QED BY <1>2, <1>3

LEMMA RestartedIsGood ==
  ASSUME NEW r, Good(r)
  PROVE  Good(Restarted(r)) /\ Good([Restarted(r) EXCEPT !.temp = None])
<1>1. r \in Row /\ "off" \in Node
  BY DEF Good, Node
<1>2. Restarted(r) \in Row
  <2>1. [r EXCEPT !.behind = "off"] \in Row
    BY <1>1, RowTakes
  <2>2. [[r EXCEPT !.behind = "off"] EXCEPT !.offered = None] \in Row
    BY <2>1, RowTakes
  <2> QED BY <2>2, RowTakes DEF Restarted
<1>3. [Restarted(r) EXCEPT !.temp = None] \in Row
  BY <1>1, <1>2, RowTakes
<1>4. Good(Restarted(r))
  BY <1>1, <1>2, FieldsOfRow DEF Good, Restarted
<1>5. Good([Restarted(r) EXCEPT !.temp = None])
  BY <1>3, <1>4, FieldsOfRow DEF Good
<1> QED BY <1>4, <1>5

LEMMA EnterMainIsSound ==
  ASSUME NEW r, Good(r), NEW h \in Holdings \cup {Down}
  PROVE  Sound(EnterMain(r, h)) /\ EnterMain(r, h).calls = <<>>
<1> DEFINE c == [Restarted(r) EXCEPT !.temp = None]
<1>1. Good(c)
  BY RestartedIsGood
<1>2. {"api_failure", "main"} \subseteq Resting
  BY DEF Resting, Node, Sending, Swapping
<1> HIDE DEF c
<1>3. CASE h = Down
  <2>1. EnterMain(r, h) = At(c, "api_failure")
    BY <1>3 DEF EnterMain, c
  <2> QED BY <1>1, <1>2, <2>1, ToResting
<1>4. CASE h # Down
  <2>1. EnterMain(r, h) = At(ManageVouchers(c, h), "main")
    BY <1>4 DEF EnterMain, c
  <2>2. Good(ManageVouchers(c, h)) /\ Based(ManageVouchers(c, h))
    BY <1>1, <1>4, ManageVouchersIsGood
  <2> QED BY <1>2, <2>1, <2>2, ToResting
<1> QED BY <1>3, <1>4

LEMMA DialIsQuiet ==
  ASSUME Sound(row), NEW h \in Holdings \cup {Down}, Dial(h) \/ DialInVain
  PROVE  Quiet
<1>1. Good(Fresh)
  BY FreshIsGood
<1>2. CASE Dial(h)
  BY <1>1, <1>2, EnterMainIsSound, StepIsQuiet DEF Dial
<1>3. CASE DialInVain
  <2>1. Good(Restarted(Fresh)) /\ "off" \in Resting
    BY <1>1, RestartedIsGood DEF Resting, Node, Sending, Swapping
  <2> QED BY <1>3, <2>1, ToResting, StepIsQuiet DEF DialInVain
<1> QED BY <1>2, <1>3

-----------------------------------------------------------------------------
(* The ways into the menus *)

LEMMA TransactionResetIsGood ==
  ASSUME NEW r, Good(r)
  PROVE  /\ Good(TransactionReset(r)) /\ ~TransactionReset(r).customState
         /\ Based(TransactionReset(r)) = Based(r)
         /\ TransactionReset(r).noActive = r.noActive
<1>1. r \in Row /\ None \in Nat \cup {None} /\ None \in To \cup {None} /\ None \in Recipient \cup {None}
  BY DEF Good
<1> DEFINE t == [r EXCEPT !.amount = None, !.recipient = None, !.phone = None]
<1>2. t \in Row
  <2>1. [r EXCEPT !.amount = None] \in Row
    BY <1>1, RowTakes
  <2>2. [[r EXCEPT !.amount = None] EXCEPT !.recipient = None] \in Row
    BY <2>1, RowTakes
  <2> QED BY <2>2, RowTakes
<1>3. TransactionReset(r) = [t EXCEPT !.customState = FALSE]
  BY DEF TransactionReset
<1>4. t.active = r.active /\ t.bal = r.bal /\ t.held = r.held /\ t.noActive = r.noActive
      /\ t.listed = r.listed /\ t.calls = r.calls
  BY <1>1, FieldsOfRow
<1> HIDE DEF t
<1>5. TransactionReset(r) \in Row
  BY <1>2, <1>3, RowTakes
<1>6. /\ TransactionReset(r).active = r.active /\ TransactionReset(r).bal = r.bal
      /\ TransactionReset(r).held = r.held /\ TransactionReset(r).noActive = r.noActive
      /\ TransactionReset(r).listed = r.listed /\ TransactionReset(r).calls = r.calls
      /\ ~TransactionReset(r).customState
  BY <1>2, <1>3, <1>4, FieldsOfRow
<1> QED BY <1>5, <1>6 DEF Good, Based, Active

\* The offer and the confirmation of an earlier transaction are left behind.
LEMMA ForgetsIsGood ==
  ASSUME NEW r, Good(r)
  PROVE  /\ Good([r EXCEPT !.offered = None, !.shown = None])
         /\ Alike(r, [r EXCEPT !.offered = None, !.shown = None])
<1>1. r \in Row /\ None \in Screen(Nat) \cup {None} /\ None \in Screen(Text) \cup {None}
  BY DEF Good
<1>2. [r EXCEPT !.offered = None] \in Row
  BY <1>1, RowTakes
<1>3. [r EXCEPT !.offered = None, !.shown = None] \in Row
  BY <1>1, <1>2, RowTakes
<1> QED BY <1>1, <1>3, FieldsOfRow DEF Good, Alike

LEMMA EnterCreditSendIsSound ==
  ASSUME NEW r, Good(r), Based(r)
  PROVE  Sound(EnterCreditSend(r)) /\ EnterCreditSend(r).calls = <<>>
<1> DEFINE t == TransactionReset(r)
           s == [t EXCEPT !.offered = None, !.shown = None]
<1>1. Good(t) /\ ~t.customState /\ Based(t)
  BY TransactionResetIsGood
<1>2. EnterCreditSend(r) = At(s, IF s.noActive THEN "no_voucher" ELSE "credit_send")
  BY DEF EnterCreditSend
<1> HIDE DEF t
<1>3. Good(s) /\ Alike(t, s)
  BY <1>1, ForgetsIsGood
<1>4. Based(s) /\ ~s.customState
  BY <1>1, <1>3, AlikeSources DEF Alike
<1> HIDE DEF s
<1>5. CASE s.noActive
  <2>1. "no_voucher" \in Resting
    BY DEF Resting, Node, Sending, Swapping
  <2> QED BY <1>2, <1>3, <1>4, <1>5, <2>1, ToResting
<1>6. CASE ~s.noActive
  <2> DEFINE u == At(s, "credit_send")
  <2>1. Good(u) /\ Same(s, u) /\ u.node = "credit_send"
    BY <1>3, AtMoves DEF Node
  <2>2. Active(u) /\ ~u.customState
    BY <1>4, <1>6, <2>1, SameIsAlike, AlikeSources DEF Based, Same
  <2> HIDE DEF u
  <2>3. Source(u) \in u.held
    BY <2>2 DEF Source, Active
  <2>4. Sound(u)
    BY <2>1, <2>2, <2>3 DEF Good, Sound, Sending, Swapping, SourceSound, OfferSound,
       PlainSound, SwapSound, ExchangeSound, VoucherSound
  <2> QED BY <1>2, <1>6, <2>1, <2>4 DEF Good, u
<1> QED BY <1>5, <1>6

\* What a request knows behind the recipient.
Destined(r) ==
  /\ Good(r) /\ Based(r)
  /\ Source(r) \in r.held /\ r.recipient = r.input /\ r.recipient \in To

LEMMA DestinedStays ==
  ASSUME NEW r, NEW s, Destined(r), Good(s), Alike(r, s)
  PROVE  Destined(s) /\ Source(s) = Source(r)
BY AlikeSources DEF Destined, Alike

LEMMA OfferIsSound ==
  ASSUME NEW r, Destined(r), r.node = "credit_amount", OfferSound(r)
  PROVE  Sound(r)
BY DEF Destined, Good, Based, Sound, Sending, Swapping, SourceSound, PlainSound,
       SwapSound, ExchangeSound, VoucherSound

LEMMA SourceIs ==
  ASSUME NEW r, r \in Row, Source(r) \in r.held
  PROVE  Source(r) \in Holding /\ Source(r).v \in Voucher /\ Source(r).bal \in Nat
<1>1. Source(r) \in Holding
  BY FieldsOfRow
<1> QED BY <1>1 DEF Holding

\* The offer names a voucher that is held, whichever way the pool answers.
LEMMA EnterCreditAmountIsSound ==
  ASSUME NEW r, Destined(r), theirs \in [Recipient -> Voucher \cup {None, Empty}],
         NEW pool \in Pool, NEW limit \in Limit
  PROVE  /\ Sound(EnterCreditAmount(r, pool, limit))
         /\ EnterCreditAmount(r, pool, limit).calls = <<>>
<1> DEFINE t == [r EXCEPT !.amount = None, !.swap = FALSE, !.invalid = FALSE, !.shown = None]
           Offer(v, n) == [At(t, "credit_amount") EXCEPT
                             !.offered = [from |-> Source(t).v, v |-> v, n |-> Truncate(n),
                                          to |-> t.recipient]]
           Normal == Offer(Source(t).v, Source(t).bal)
           e == EnterCreditAmount(r, pool, limit)
<1>1. r \in Row
  BY DEF Destined, Good
<1>2. t \in Row
  <2>1. [r EXCEPT !.amount = None] \in Row
    BY <1>1, RowTakes
  <2>2. [[r EXCEPT !.amount = None] EXCEPT !.swap = FALSE] \in Row
    BY <2>1, RowTakes
  <2>3. [[[r EXCEPT !.amount = None] EXCEPT !.swap = FALSE] EXCEPT !.invalid = FALSE] \in Row
    BY <2>2, RowTakes
  <2> QED BY <2>3, RowTakes
<1>3. t.swap = FALSE /\ t.calls = <<>> /\ Good(t) /\ Alike(r, t)
  BY <1>1, <1>2, FieldsOfRow DEF Destined, Good, Alike
<1>4. \/ e = Normal
      \/ e = At(t, "api_failure")
      \/ e = Failed(t)
      \/ /\ t.phone \in Recipient /\ theirs[t.phone] \in Voucher /\ limit \in Nat
         /\ e = [Offer(theirs[t.phone], limit) EXCEPT
                   !.swap = TRUE, !.swapMax = Truncate(limit), !.swapTo = theirs[t.phone]]
  <2>1. t.phone \in Recipient \cup {None}
    BY <1>2, FieldsOfRow
  <2>2. limit # Down => limit \in Nat
    BY AmountAssumption DEF Limit
  <2>3. t.phone # None => theirs[t.phone] \in Voucher \cup {None, Empty}
    BY <2>1
  <2> HIDE DEF t
  <2> QED BY <2>1, <2>2, <2>3 DEF EnterCreditAmount, t
<1> HIDE DEF t, e
<1>5. Destined(t)
  BY <1>3, DestinedStays
<1>6. Source(t).v \in Voucher /\ Source(t).bal \in Nat /\ t.recipient \in To
  BY <1>2, <1>5, SourceIs DEF Destined
<1>7. ASSUME NEW v \in Voucher, NEW n \in Nat
      PROVE  /\ Good(Offer(v, n)) /\ Alike(t, Offer(v, n)) /\ Offer(v, n).swap = FALSE
             /\ Offer(v, n).node = "credit_amount"
             /\ Offer(v, n).offered = [from |-> Source(t).v, v |-> v, n |-> Truncate(n),
                                       to |-> t.recipient]
  <2> DEFINE s == At(t, "credit_amount")
             o == [from |-> Source(t).v, v |-> v, n |-> Truncate(n), to |-> t.recipient]
  <2>1. Good(s) /\ Same(t, s) /\ s.node = "credit_amount"
    BY <1>3, AtMoves DEF Node
  <2>2. o \in Screen(Nat)
    BY <1>6, TruncateIsNat DEF Screen
  <2> HIDE DEF s, o
  <2>3. s \in Row /\ [s EXCEPT !.offered = o] \in Row
    BY <2>1, <2>2, RowTakes DEF Good
  <2>4. /\ [s EXCEPT !.offered = o].offered = o /\ Good([s EXCEPT !.offered = o])
        /\ [s EXCEPT !.offered = o].node = s.node /\ [s EXCEPT !.offered = o].swap = s.swap
        /\ Alike(s, [s EXCEPT !.offered = o])
    BY <2>1, <2>3, FieldsOfRow DEF Good, Alike
  <2>5. Alike(t, s) /\ s.swap = FALSE
    BY <1>3, <2>1, SameIsAlike DEF Same
  <2>6. Alike(t, [s EXCEPT !.offered = o])
    BY <2>4, <2>5 DEF Alike
  <2> QED BY <2>1, <2>4, <2>5, <2>6 DEF s, o
<1>8. CASE e = Normal
  <2> DEFINE s == Offer(Source(t).v, Source(t).bal)
  <2>1. /\ Good(s) /\ Alike(t, s) /\ s.swap = FALSE /\ s.node = "credit_amount"
        /\ s.offered = [from |-> Source(t).v, v |-> Source(t).v,
                        n |-> Truncate(Source(t).bal), to |-> t.recipient]
    BY <1>6, <1>7
  <2>2. e = s
    BY <1>8
  <2> HIDE DEF s
  <2>3. Destined(s) /\ Source(s) = Source(t) /\ s.recipient = t.recipient
    BY <1>5, <2>1, DestinedStays DEF Alike
  <2>4. OfferSound(s)
    BY <2>1, <2>3 DEF OfferSound
  <2> QED BY <2>1, <2>2, <2>3, <2>4, OfferIsSound DEF Good, e
<1>9. CASE e = At(t, "api_failure")
  <2>1. "api_failure" \in Resting
    BY DEF Resting, Node, Sending, Swapping
  <2> QED BY <1>3, <1>9, <2>1, ToResting DEF e
<1>10. CASE e = Failed(t)
  BY <1>3, <1>10, FailedIsSound DEF e
<1>11. ASSUME t.phone \in Recipient, theirs[t.phone] \in Voucher, limit \in Nat,
              e = [Offer(theirs[t.phone], limit) EXCEPT
                     !.swap = TRUE, !.swapMax = Truncate(limit), !.swapTo = theirs[t.phone]]
       PROVE  Sound(e) /\ e.calls = <<>>
  <2> DEFINE w == theirs[t.phone]
             m == Truncate(limit)
             s == Offer(w, limit)
  <2>1. /\ Good(s) /\ Alike(t, s) /\ s.node = "credit_amount"
        /\ s.offered = [from |-> Source(t).v, v |-> w, n |-> m, to |-> t.recipient]
    BY <1>7, <1>11
  <2>2. m \in Nat /\ w \in Voucher /\ e = [s EXCEPT !.swap = TRUE, !.swapMax = m, !.swapTo = w]
    BY <1>11, TruncateIsNat
  <2> HIDE DEF s, m, w
  <2>3. s \in Row
    BY <2>1 DEF Good
  <2>4. e \in Row
    <3>1. [s EXCEPT !.swap = TRUE] \in Row
      BY <2>3, RowTakes
    <3>2. [[s EXCEPT !.swap = TRUE] EXCEPT !.swapMax = m] \in Row
      BY <2>2, <3>1, RowTakes
    <3>3. [[[s EXCEPT !.swap = TRUE] EXCEPT !.swapMax = m] EXCEPT !.swapTo = w] \in Row
      BY <2>2, <3>2, RowTakes
    <3> QED BY <2>2, <3>3
  <2>5. /\ Good(e) /\ Alike(s, e) /\ e.node = s.node /\ e.swap = TRUE /\ e.swapTo = w
        /\ e.swapMax = m /\ e.offered = s.offered
    BY <2>1, <2>2, <2>3, <2>4, FieldsOfRow DEF Good, Alike
  <2>6. Alike(t, e)
    BY <2>1, <2>5 DEF Alike
  <2>7. Destined(e) /\ Source(e) = Source(t) /\ e.recipient = t.recipient
    BY <1>5, <2>5, <2>6, DestinedStays DEF Alike
  <2>8. OfferSound(e)
    BY <2>1, <2>2, <2>5, <2>7 DEF OfferSound
  <2> QED BY <2>1, <2>5, <2>7, <2>8, OfferIsSound DEF Good
<1> QED BY <1>4, <1>8, <1>9, <1>10, <1>11 DEF e

LEMMA ListedIsSound ==
  ASSUME NEW r, Good(r), Active(r), r.node = "swap_to_list"
  PROVE  Sound(r)
BY DEF Good, Sound, Sending, Swapping, SourceSound, OfferSound, PlainSound, SwapSound,
       ExchangeSound, VoucherSound

LEMMA EnterSwapToListIsSound ==
  ASSUME NEW r, Good(r), Based(r), NEW pool \in Pool, NEW list \in Lists \cup {Down}
  PROVE  /\ Sound(EnterSwapToList(r, pool, list))
         /\ EnterSwapToList(r, pool, list).calls = <<>>
<1> DEFINE e == EnterSwapToList(r, pool, list)
           s == At(r, "swap_to_list")
           kept == IF s.raw THEN list \ {s.active} ELSE list
<1>1. \/ e = At(r, "no_voucher")
      \/ e = Failed(r)
      \/ e = At(r, "missing_voucher")
      \/ ~r.noActive /\ e = s
      \/ ~r.noActive /\ list \in Lists /\ \E k \in {list, list \ {r.active}} :
                                            e = [s EXCEPT !.poolTo = k]
  BY DEF EnterSwapToList
<1>2. Good(s) /\ Same(r, s) /\ s.node = "swap_to_list" /\ r \in Row
  BY AtMoves DEF Node, Good
<1>3. ~r.noActive => Active(s)
  BY <1>2, SameIsAlike, AlikeSources DEF Based
<1> HIDE DEF e, s
<1>4. CASE e = At(r, "no_voucher") \/ e = At(r, "missing_voucher")
  <2>1. {"no_voucher", "missing_voucher"} \subseteq Resting
    BY DEF Resting, Node, Sending, Swapping
  <2> QED BY <1>4, <2>1, ToResting DEF e
<1>5. CASE e = Failed(r)
  BY <1>5, FailedIsSound DEF e
<1>6. CASE ~r.noActive /\ e = s
  BY <1>2, <1>3, <1>6, ListedIsSound DEF e, Good
<1>7. ASSUME ~r.noActive, list \in Lists, NEW k \in {list, list \ {r.active}},
             e = [s EXCEPT !.poolTo = k]
      PROVE  Sound(e) /\ e.calls = <<>>
  <2>1. s \in Row /\ k \in SUBSET Voucher
    BY <1>2, <1>7, VoucherAssumption DEF Good
  <2>2. e \in Row
    BY <1>7, <2>1, RowTakes
  <2>3. Good(e) /\ e.node = "swap_to_list" /\ Alike(s, e)
    BY <1>2, <1>7, <2>1, <2>2, FieldsOfRow DEF Good, Alike
  <2> QED BY <1>3, <1>7, <2>3, AlikeSources, ListedIsSound DEF Good
<1> QED BY <1>1, <1>4, <1>5, <1>6, <1>7 DEF e

-----------------------------------------------------------------------------
(* The vouchers menu *)

LEMMA RestingNodes ==
  {"off", "main", "api_failure", "no_voucher", "invalid_recipient", "invite_recipient",
   "invite_result", "transaction_initiated", "transaction_swap_initiated",
   "invalid_credit_send_amount", "missing_voucher", "low_swap_amount", "swap_initiated",
   "my_vouchers", "select_voucher"} \subseteq Resting
BY DEF Resting, Node, Sending, Swapping

LEMMA WalkIsQuiet ==
  ASSUME Sound(row), OpenVouchers \/ SelectVoucher
  PROVE  Quiet
<1>1. row.node \notin {"off", "api_failure"}
  BY DEF OpenVouchers, SelectVoucher, On
<1>2. Good(Fresh) /\ Based(Fresh)
  BY <1>1, InMenus
<1> QED BY <1>2, RestingNodes, ToResting, StepIsQuiet DEF OpenVouchers, SelectVoucher

LEMMA LeaveVouchersIsQuiet ==
  ASSUME Sound(row), NEW h \in Holdings \cup {Down}, LeaveVouchers(h)
  PROVE  Quiet
<1>1. row.node \notin {"off", "api_failure"}
  BY DEF LeaveVouchers, On
<1>2. Good(Fresh) /\ Based(Fresh)
  BY <1>1, InMenus
<1>3. CASE Step(EnterMain(Fresh, h))
  BY <1>2, <1>3, EnterMainIsSound, StepIsQuiet
<1>4. CASE Step(At(Fresh, "my_vouchers")) \/ Step(At(Fresh, "select_voucher"))
  BY <1>2, <1>4, RestingNodes, ToResting, StepIsQuiet
<1> QED BY <1>3, <1>4 DEF LeaveVouchers

LEMMA ViewVoucherIsQuiet ==
  ASSUME Sound(row), NEW hd \in row.listed, ViewVoucher(hd)
  PROVE  Quiet
<1> DEFINE s == At(Fresh, "view_voucher")
           c == [from |-> hd.v, v |-> hd.v, n |-> Plain(Truncate(hd.bal)),
                 to |-> None]
           t == [s EXCEPT !.custom = hd, !.shown = c]
<1>1. row.node \notin {"off", "api_failure"}
  BY DEF ViewVoucher, On
<1>2. Good(Fresh) /\ Based(Fresh) /\ Same(row, Fresh)
  BY <1>1, InMenus
<1>3. Good(s) /\ Same(Fresh, s) /\ s.node = "view_voucher"
  BY <1>2, AtMoves DEF Node
<1>4. Based(s) /\ hd \in s.listed /\ s \in Row /\ s.listed \subseteq s.held
  BY <1>2, <1>3, SameIsAlike, AlikeSources DEF Same, Good
<1>5. Step(t)
  BY DEF ViewVoucher
<1> HIDE DEF s
<1>6. hd \in Holding /\ hd.v \in Voucher /\ hd.bal \in Nat
  BY <1>4, FieldsOfRow DEF Holding
<1>7. c \in Screen(Text)
  BY <1>6, TruncateIsNat, PlainIsText DEF Screen
<1> HIDE DEF c
<1>8. t \in Row
  <2>1. [s EXCEPT !.custom = hd] \in Row
    BY <1>4, <1>6, RowTakes
  <2> QED BY <1>7, <2>1, RowTakes
<1>9. /\ t.custom = hd /\ t.shown = c /\ t.node = "view_voucher" /\ t.calls = <<>>
      /\ t.held = s.held /\ t.listed = s.listed
      /\ t.active = s.active /\ t.bal = s.bal /\ t.noActive = s.noActive
  BY <1>3, <1>4, FieldsOfRow DEF Good
<1>10. Based(t)
  BY <1>4, <1>9 DEF Based, Active
<1>11. Sound(t)
  BY <1>4, <1>8, <1>9, <1>10 DEF Sound, Based, Sending, Swapping, SourceSound, OfferSound,
     PlainSound, SwapSound, ExchangeSound, VoucherSound, c
<1> QED BY <1>5, <1>9, <1>11, StepIsQuiet

LEMMA SetVoucherIsQuiet ==
  ASSUME Sound(row), SetVoucher
  PROVE  Quiet
<1> DEFINE s == At(Fresh, "voucher_set")
           raw == row.custom.v \notin Renamed
           t == [s EXCEPT !.active = row.custom.v, !.bal = row.custom.bal, !.raw = raw]
<1>1. row.node = "view_voucher"
  BY DEF SetVoucher, On
<1>2. Good(Fresh) /\ Same(row, Fresh)
  BY <1>1, InMenus
<1>3. Good(s) /\ Same(Fresh, s) /\ s.node = "voucher_set"
  BY <1>2, AtMoves DEF Node
<1>4. s.held = row.held /\ s.shown = row.shown /\ s \in Row /\ s.listed \subseteq s.held
  BY <1>2, <1>3 DEF Same, Good
<1>5. Step(t)
  BY DEF SetVoucher
<1> HIDE DEF s
<1>6. /\ row.custom \in row.held /\ row.custom \in Holding
      /\ row.shown = [from |-> row.custom.v, v |-> row.custom.v,
                      n |-> Plain(Truncate(row.custom.bal)), to |-> None]
  BY <1>1, FieldsOfRow DEF Sound, VoucherSound
<1>7. /\ row.custom.v \in Voucher /\ row.custom.bal \in Nat /\ raw \in BOOLEAN
      /\ row.custom = [v |-> row.custom.v, bal |-> row.custom.bal]
  BY <1>6 DEF Holding
<1>8. row.shown # None
  <2>1. row.shown \in Screen(Text)
    BY <1>6, <1>7, TruncateIsNat, PlainIsText DEF Screen
  <2> QED BY <2>1, NoneAssumption
<1> HIDE DEF raw
<1>9. t \in Row
  <2>1. [s EXCEPT !.active = row.custom.v] \in Row
    BY <1>4, <1>7, RowTakes
  <2>2. [[s EXCEPT !.active = row.custom.v] EXCEPT !.bal = row.custom.bal] \in Row
    BY <1>7, <2>1, RowTakes
  <2> QED BY <1>7, <2>2, RowTakes
<1>10. /\ t.active = row.custom.v /\ t.bal = row.custom.bal /\ t.held = row.held
       /\ t.listed = s.listed /\ t.shown = row.shown /\ t.node = "voucher_set" /\ t.calls = <<>>
  BY <1>3, <1>4, FieldsOfRow DEF Good
<1>11. Active(t)
  BY <1>6, <1>7, <1>10 DEF Active
<1>12. t.active = t.shown.v /\ Plain(Truncate(t.bal)) = t.shown.n
  BY <1>6, <1>10
<1>13. t.listed \subseteq t.held /\ t.shown # None
  BY <1>4, <1>8, <1>10
<1>14. t.node = "voucher_set"
  BY <1>10
<1> HIDE DEF t
<1>15. Sound(t)
  BY <1>9, <1>11, <1>12, <1>13, <1>14 DEF Sound, Sending, Swapping, SourceSound,
     OfferSound, PlainSound, SwapSound, ExchangeSound, VoucherSound
<1> QED BY <1>5, <1>10, <1>15, StepIsQuiet

-----------------------------------------------------------------------------
(* Sending: the recipient and the voucher *)

LEMMA ToCreditSendIsQuiet ==
  ASSUME Sound(row), OpenCreditSend \/ RetryRecipient \/ LeaveCreditVouchers
  PROVE  Quiet
<1>1. row.node \notin {"off", "api_failure"}
  BY DEF OpenCreditSend, RetryRecipient, LeaveCreditVouchers, On
<1> QED BY <1>1, InMenus, EnterCreditSendIsSound, StepIsQuiet
        DEF OpenCreditSend, RetryRecipient, LeaveCreditVouchers

LEMMA ClearedIsGood ==
  ASSUME NEW r, Good(r)
  PROVE  /\ Good(ClearTransactionTypeFlag(r)) /\ Alike(r, ClearTransactionTypeFlag(r))
         /\ Good([ClearTransactionTypeFlag(r) EXCEPT !.invalid = FALSE])
         /\ Alike(r, [ClearTransactionTypeFlag(r) EXCEPT !.invalid = FALSE])
<1> DEFINE t == ClearTransactionTypeFlag(r)
<1>1. r \in Row
  BY DEF Good
<1>2. t \in Row
  <2>1. [r EXCEPT !.swap = FALSE] \in Row
    BY <1>1, RowTakes
  <2> QED BY <2>1, RowTakes DEF ClearTransactionTypeFlag
<1>3. Good(t) /\ Alike(r, t)
  BY <1>1, <1>2, FieldsOfRow DEF Good, Alike, ClearTransactionTypeFlag
<1> HIDE DEF t
<1>4. [t EXCEPT !.invalid = FALSE] \in Row
  BY <1>2, RowTakes
<1>5. Good([t EXCEPT !.invalid = FALSE]) /\ Alike(t, [t EXCEPT !.invalid = FALSE])
  BY <1>2, <1>3, <1>4, FieldsOfRow DEF Good, Alike
<1>6. Alike(r, [t EXCEPT !.invalid = FALSE])
  BY <1>3, <1>5 DEF Alike
<1> QED BY <1>3, <1>5, <1>6 DEF t

LEMMA LeaveCreditSendIsQuiet ==
  ASSUME Sound(row), NEW h \in Holdings \cup {Down}, LeaveCreditSend(h)
  PROVE  Quiet
BY FreshIsGood, ClearedIsGood, EnterMainIsSound, StepIsQuiet DEF LeaveCreditSend

LEMMA InputIsGood ==
  ASSUME NEW r, Good(r), NEW to \in To
  PROVE  Good([r EXCEPT !.input = to]) /\ (Based(r) => Based([r EXCEPT !.input = to]))
<1>1. r \in Row
  BY DEF Good
<1>2. [r EXCEPT !.input = to] \in Row
  BY <1>1, RowTakes
<1> QED BY <1>1, <1>2, FieldsOfRow DEF Good, Based, Active

LEMMA MistypeIsQuiet ==
  ASSUME Sound(row), MistypeRecipient
  PROVE  Quiet
<1>1. Good(Fresh) /\ Based(Fresh)
  BY InMenus DEF MistypeRecipient, On
<1> QED BY <1>1, TransactionResetIsGood, RestingNodes, ToResting, StepIsQuiet
        DEF MistypeRecipient

LEMMA AliasFailsIsQuiet ==
  ASSUME Sound(row), NEW to \in To, AliasFails(to)
  PROVE  Quiet
<1> DEFINE s == [Fresh EXCEPT !.input = to]
<1>1. Good(Fresh) /\ Based(Fresh)
  BY InMenus DEF AliasFails, On
<1>2. Good(s) /\ Based(s)
  BY <1>1, InputIsGood
<1>3. Step(At(s, "api_failure")) \/ Step(At(TransactionReset(s), "invalid_recipient"))
  BY DEF AliasFails
<1> HIDE DEF s
<1>4. Good(TransactionReset(s)) /\ Based(TransactionReset(s))
  BY <1>2, TransactionResetIsGood
<1> QED BY <1>2, <1>3, <1>4, RestingNodes, ToResting, StepIsQuiet

\* The recipient that is kept is the one that was typed.
LEMMA RecipientIsGood ==
  ASSUME NEW r, Good(r), Based(r), Source(r) \in r.held, NEW to \in To \ {Stranger},
         theirs \in [Recipient -> Voucher \cup {None, Empty}]
  PROVE  Destined(ValidateRecipient(r, to))
<1> DEFINE e == ValidateRecipient(r, to)
           s == [r EXCEPT !.input = to, !.recipient = to]
<1>1. r \in Row
  BY DEF Good
<1>2. s \in Row
  <2>1. [r EXCEPT !.input = to] \in Row
    BY <1>1, RowTakes
  <2> QED BY <2>1, RowTakes
<1>3. /\ s.input = to /\ s.recipient = to /\ s.active = r.active /\ s.bal = r.bal
      /\ s.held = r.held /\ s.listed = r.listed /\ s.noActive = r.noActive
      /\ s.custom = r.custom /\ s.customState = r.customState /\ s.calls = <<>>
      /\ s.swapTo = r.swapTo
  BY <1>1, FieldsOfRow DEF Good
<1>4. Destined(s)
  <2>1. Source(s) = Source(r) /\ Based(s)
    BY <1>3 DEF Source, Based, Active
  <2> HIDE DEF s
  <2> QED BY <1>2, <1>3, <2>1 DEF Destined, Good
<1>5. CASE to \notin Recipient
  BY <1>4, <1>5 DEF ValidateRecipient
<1>6. CASE to \in Recipient
  <2> DEFINE w == IF theirs[to] = None THEN r.swapTo ELSE theirs[to]
             u == [s EXCEPT !.phone = to]
  <2>1. e = [u EXCEPT !.swapTo = w]
    BY <1>6 DEF ValidateRecipient
  <2>2. w \in Voucher \cup {None, Empty}
    BY <1>1, <1>6, FieldsOfRow
  <2> HIDE DEF s, w, e
  <2>3. u \in Row
    BY <1>2, <1>6, RowTakes
  <2>4. u.calls = s.calls /\ u.listed = s.listed /\ Alike(s, u)
    BY <1>2, FieldsOfRow DEF Alike
  <2> HIDE DEF u
  <2>5. e \in Row
    BY <2>1, <2>2, <2>3, RowTakes
  <2>6. e.calls = u.calls /\ e.listed = u.listed /\ Alike(u, e)
    BY <2>1, <2>3, FieldsOfRow DEF Alike
  <2>7. Good(e) /\ Alike(s, e)
    BY <1>4, <2>4, <2>5, <2>6 DEF Destined, Good, Alike
  <2> QED BY <1>4, <2>7, DestinedStays DEF e
<1> QED BY <1>5, <1>6

LEMMA BehindIsGood ==
  ASSUME NEW r, Destined(r), NEW n \in Node
  PROVE  Destined([r EXCEPT !.behind = n])
<1>1. r \in Row
  BY DEF Destined, Good
<1>2. [r EXCEPT !.behind = n] \in Row
  BY <1>1, RowTakes
<1>3. Good([r EXCEPT !.behind = n]) /\ Alike(r, [r EXCEPT !.behind = n])
  BY <1>1, <1>2, FieldsOfRow DEF Destined, Good, Alike
<1> QED BY <1>3, DestinedStays

LEMMA ToVouchersIsSound ==
  ASSUME NEW r, Destined(r)
  PROVE  Sound(At(r, "credit_vouchers")) /\ At(r, "credit_vouchers").calls = <<>>
<1> DEFINE s == At(r, "credit_vouchers")
<1>1. Good(s) /\ Same(r, s) /\ s.node = "credit_vouchers"
  BY AtMoves DEF Destined, Node
<1>2. Destined(s)
  BY <1>1, SameIsAlike, DestinedStays
<1> HIDE DEF s
<1>3. Sound(s)
  BY <1>1, <1>2 DEF Destined, Good, Based, Sound, Sending, Swapping, SourceSound,
     OfferSound, PlainSound, SwapSound, ExchangeSound, VoucherSound
<1> QED BY <1>1, <1>3 DEF Good, s

LEMMA AnswerRecipientIsQuiet ==
  ASSUME Sound(row), theirs \in [Recipient -> Voucher \cup {None, Empty}],
         NEW to \in To, NEW pool \in Pool, NEW limit \in Limit,
         AnswerRecipient(to, pool, limit)
  PROVE  Quiet
<1> DEFINE s == ValidateRecipient(Fresh, to)
<1>1. row.node = "credit_send"
  BY DEF AnswerRecipient, On
<1>2. Good(Fresh) /\ Based(Fresh) /\ Same(row, Fresh)
  BY <1>1, InMenus
<1>3. Source(Fresh) \in Fresh.held
  BY <1>1, <1>2, SameIsAlike, AlikeSources DEF Sound, SourceSound, Same
<1>4. CASE to = Stranger
  <2>1. s = [Fresh EXCEPT !.input = to] /\ Step(At(s, "invite_recipient"))
    BY <1>4 DEF AnswerRecipient, ValidateRecipient
  <2>2. Good(s) /\ Based(s)
    BY <1>2, <2>1, InputIsGood
  <2> HIDE DEF s
  <2> QED BY <2>1, <2>2, RestingNodes, ToResting, StepIsQuiet
<1>5. CASE to # Stranger
  <2>1. Destined(s)
    BY <1>2, <1>3, <1>5, RecipientIsGood
  <2>2. Destined([s EXCEPT !.behind = "credit_send"])
    BY <2>1, BehindIsGood DEF Node
  <2>3. \/ Step(At(s, "credit_vouchers"))
        \/ Step(EnterCreditAmount([s EXCEPT !.behind = "credit_send"], pool, limit))
    BY <1>5 DEF AnswerRecipient
  <2> HIDE DEF s
  <2> QED BY <2>1, <2>2, <2>3, ToVouchersIsSound, EnterCreditAmountIsSound, StepIsQuiet
<1> QED BY <1>4, <1>5

\* Behind the recipient, up to the confirmation.
LEMMA FreshIsDestined ==
  ASSUME Sound(row), row.node \in Sending
  PROVE  Destined(Fresh) /\ Same(row, Fresh) /\ Source(Fresh) = Source(row)
<1>1. Good(Fresh) /\ Based(Fresh) /\ Same(row, Fresh)
  BY InMenus DEF Sending
<1>2. Source(Fresh) = Source(row)
  BY <1>1, SameIsAlike, AlikeSources
<1> QED BY <1>1, <1>2 DEF Destined, Same, Sound, SourceSound

LEMMA ChooseCreditVoucherIsQuiet ==
  ASSUME Sound(row), theirs \in [Recipient -> Voucher \cup {None, Empty}],
         NEW hd \in row.held, NEW pool \in Pool, NEW limit \in Limit,
         ChooseCreditVoucher(hd, pool, limit)
  PROVE  Quiet
<1> DEFINE s == [Fresh EXCEPT !.custom = hd, !.customState = TRUE,
                              !.behind = "credit_vouchers"]
<1>1. row.node \in Sending
  BY DEF ChooseCreditVoucher, On, Sending
<1>2. Destined(Fresh) /\ Same(row, Fresh)
  BY <1>1, FreshIsDestined
<1> DEFINE f == Fresh
<1> HIDE DEF f
<1>3. Destined(f) /\ f \in Row /\ hd \in f.held /\ hd \in Holding /\ "credit_vouchers" \in Node
  BY <1>2, FieldsOfRow DEF Destined, Good, Same, Node, f
<1>4. s = [f EXCEPT !.custom = hd, !.customState = TRUE, !.behind = "credit_vouchers"]
  BY DEF f
<1> HIDE DEF s
<1>5. s \in Row
  <2>1. [f EXCEPT !.custom = hd] \in Row
    BY <1>3, RowTakes
  <2>2. [[f EXCEPT !.custom = hd] EXCEPT !.customState = TRUE] \in Row
    BY <2>1, RowTakes
  <2> QED BY <1>3, <1>4, <2>2, RowTakes
<1>6. /\ s.custom = hd /\ s.customState = TRUE /\ s.held = f.held /\ s.listed = f.listed
      /\ s.calls = f.calls /\ s.active = f.active /\ s.bal = f.bal /\ s.noActive = f.noActive
      /\ s.recipient = f.recipient /\ s.input = f.input
  BY <1>3, <1>4, FieldsOfRow
<1>7. Source(s) \in s.held /\ Based(s)
  BY <1>3, <1>6 DEF Source, Based, Active, Destined
<1>8. Destined(s)
  BY <1>3, <1>5, <1>6, <1>7 DEF Destined, Good
<1>9. Step(EnterCreditAmount(s, pool, limit))
  BY DEF ChooseCreditVoucher, s
<1> QED BY <1>8, <1>9, EnterCreditAmountIsSound, StepIsQuiet

LEMMA LeaveCreditAmountIsQuiet ==
  ASSUME Sound(row), LeaveCreditAmount
  PROVE  Quiet
<1> DEFINE s == [ClearTransactionTypeFlag(Fresh) EXCEPT !.invalid = FALSE]
<1>1. Destined(Fresh)
  BY FreshIsDestined DEF LeaveCreditAmount, On, Sending
<1>2. Good(s) /\ Alike(Fresh, s)
  BY <1>1, ClearedIsGood DEF Destined
<1>3. Destined(s)
  BY <1>1, <1>2, DestinedStays
<1>4. Step(EnterCreditSend(s)) \/ Step(At(s, "credit_vouchers"))
  BY DEF LeaveCreditAmount
<1> HIDE DEF s
<1>5. Good(s) /\ Based(s)
  BY <1>3 DEF Destined
<1> QED BY <1>3, <1>4, <1>5, EnterCreditSendIsSound, ToVouchersIsSound, StepIsQuiet

LEMMA ReturnToAmountIsQuiet ==
  ASSUME Sound(row), theirs \in [Recipient -> Voucher \cup {None, Empty}],
         NEW pool \in Pool, NEW limit \in Limit, ReturnToAmount(pool, limit)
  PROVE  Quiet
<1>1. Destined(Fresh)
  BY FreshIsDestined DEF ReturnToAmount, Sending
<1> QED BY <1>1, EnterCreditAmountIsSound, StepIsQuiet DEF ReturnToAmount

-----------------------------------------------------------------------------
(* Sending: the amount *)

\* The amount is cut once, and within the balance that was offered unless an exponent
\* was cut off.
LEMMA AnswerAmountIsQuiet ==
  ASSUME Sound(row), NEW x \in Typed, AnswerAmount(x)
  PROVE  Quiet
<1> DEFINE f == Fresh
           src == Source(row)
           n == Cut(x)
           c == [from |-> src.v, v |-> src.v, n |-> x, to |-> row.input]
           s == At(Fresh, "transaction_pin")
           e == [s EXCEPT !.amount = n, !.shown = c]
           t == At(Fresh, "invalid_amount")
<1>1. row.node = "credit_amount" /\ row.swap = FALSE
  <2>1. row.swap \in BOOLEAN
    BY FieldsOfRow DEF Sound
  <2> QED BY <2>1 DEF AnswerAmount, On
<1>2. Destined(f) /\ Same(row, f) /\ Source(f) = src
  BY <1>1, FreshIsDestined DEF Sending
<1>3. src.v \in Voucher /\ src.bal \in Nat /\ row.input \in To /\ row.recipient = row.input
  BY <1>2, SourceIs DEF Destined, Good, Same
<1>4. row.offered = [from |-> src.v, v |-> src.v, n |-> Truncate(src.bal), to |-> row.recipient]
  BY <1>1 DEF Sound, OfferSound
<1>5. x \in Text /\ x.value \in Nat /\ n \in Nat \cup {None}
  BY AmountAssumption, CutIsNat
<1>6. \/ Step([t EXCEPT !.amount = None])
      \/ x.value <= src.bal /\ Step(e)
  BY DEF AnswerAmount
<1>7. CASE Step([t EXCEPT !.amount = None])
  <2> DEFINE u == [t EXCEPT !.amount = None]
  <2>1. Good(t) /\ Same(f, t) /\ t.node = "invalid_amount"
    BY <1>2, AtMoves DEF Destined, Node
  <2> HIDE DEF t
  <2>2. Destined(t)
    BY <1>2, <2>1, SameIsAlike, DestinedStays
  <2>3. t \in Row /\ u \in Row
    BY <2>1, RowTakes DEF Good
  <2>4. Good(u) /\ Alike(t, u) /\ u.node = "invalid_amount"
    BY <2>1, <2>3, FieldsOfRow DEF Good, Alike
  <2> HIDE DEF u
  <2>5. Destined(u)
    BY <2>2, <2>4, DestinedStays
  <2>6. Sound(u)
    BY <2>4, <2>5 DEF Destined, Good, Based, Sound, Sending, Swapping, SourceSound,
       OfferSound, PlainSound, SwapSound, ExchangeSound, VoucherSound
  <2> QED BY <1>7, <2>4, <2>6, StepIsQuiet DEF Good, u
<1>8. CASE x.value <= src.bal /\ Step(e)
  <2>1. Good(s) /\ Same(f, s) /\ s.node = "transaction_pin"
    BY <1>2, AtMoves DEF Destined, Node
  <2> HIDE DEF s
  <2>2. Destined(s) /\ Source(s) = src
    BY <1>2, <2>1, SameIsAlike, DestinedStays
  <2>3. HasExponent(x) \/ n <= Truncate(src.bal)
    BY <1>3, <1>5, <1>8, CutIsNat, TruncateIsMonotone
  <2>4. c \in Screen(Text)
    BY <1>3, <1>5 DEF Screen
  <2>5. c.from = src.v /\ c.v = src.v /\ c.n = x /\ c.to = row.input
    OBVIOUS
  <2>6. s \in Row /\ s.offered = row.offered
    BY <1>2, <2>1 DEF Good, Same
  <2>7. e \in Row
    <3> HIDE DEF c, n
    <3>1. [s EXCEPT !.amount = n] \in Row
      BY <1>5, <2>6, RowTakes
    <3> QED BY <2>4, <3>1, RowTakes
  <2>8. /\ e.amount = n /\ e.shown = c /\ e.offered = row.offered /\ e.node = "transaction_pin"
        /\ Good(e) /\ Alike(s, e)
    BY <2>1, <2>6, <2>7, FieldsOfRow DEF Good, Alike
  <2> HIDE DEF e, c
  <2>9. Destined(e) /\ Source(e) = src /\ e.recipient = row.input
    <3>1. Destined(e) /\ Source(e) = src
      BY <2>2, <2>8, DestinedStays
    <3> QED BY <1>2, <1>3, <2>1, <2>8, <3>1 DEF Same, Alike
  <2>10. PlainReady(e)
    BY <1>3, <1>4, <2>3, <2>4, <2>5, <2>8, <2>9 DEF PlainReady, Offered
  <2>11. Sound(e)
    BY <2>8, <2>9, <2>10 DEF Destined, Good, Based, Sound, Sending, Swapping, SourceSound,
       OfferSound, PlainSound, SwapSound, ExchangeSound, VoucherSound
  <2> QED BY <1>8, <2>8, <2>11, StepIsQuiet DEF Good, e
<1> QED BY <1>6, <1>7, <1>8

\* The amount of a swap is shown as typed, and within the limit that was offered.
LEMMA AnswerSwapAmountIsQuiet ==
  ASSUME Sound(row), NEW x \in Typed, NEW quote \in Answers \cup {Down},
         AnswerSwapAmount(x, quote)
  PROVE  Quiet
<1> DEFINE f == Fresh
           k == Scale(Cut(x), row.swapTo)
           c == [from |-> row.custom.v, v |-> row.swapTo, n |-> x, to |-> row.input]
           s == At(Fresh, "transaction_swap")
           e == [s EXCEPT !.amount = k, !.temp = x, !.swapAmount = quote, !.shown = c]
           t == At(Fresh, "invalid_credit_send_amount")
           u == [t EXCEPT !.amount = None, !.swap = FALSE, !.invalid = FALSE]
<1>1. row.node = "credit_amount" /\ row.swap = TRUE
  <2>1. row.swap \in BOOLEAN
    BY FieldsOfRow DEF Sound
  <2> QED BY <2>1 DEF AnswerSwapAmount, On
<1>2. Destined(f) /\ Same(row, f)
  BY <1>1, FreshIsDestined DEF Sending
<1>3. /\ row \in Row /\ row.input \in To /\ row.recipient = row.input /\ row.swapMax \in Nat
      /\ Good(f) /\ Based(f)
  BY <1>2, FieldsOfRow DEF Destined, Same, Sound
<1>4. /\ row.swapTo \in Voucher /\ row.offered.v = row.swapTo
      /\ row.offered.n = row.swapMax
      /\ row.offered.to = row.recipient /\ row.offered.from = Source(row).v
  BY <1>1 DEF Sound, OfferSound
<1>5. x \in Text /\ x.value \in Nat
  BY AmountAssumption, CutIsNat
<1>6. \/ Step(Failed(f))
      \/ Step(u)
      \/ Step(At(f, "api_failure"))
      \/ /\ row.custom # None /\ x.value <= row.swapMax /\ Cut(x) # None /\ quote # Down
         /\ Step(e)
  BY DEF AnswerSwapAmount
<1>7. CASE Step(Failed(f))
  BY <1>3, <1>7, FailedIsSound, StepIsQuiet
<1>8. CASE Step(At(f, "api_failure"))
  BY <1>3, <1>8, RestingNodes, ToResting, StepIsQuiet
<1>9. CASE Step(u)
  <2>1. Good(t) /\ Same(f, t) /\ t.node = "invalid_credit_send_amount"
    BY <1>3, AtMoves DEF Node
  <2>2. Based(t)
    BY <1>3, <2>1, SameIsAlike, AlikeSources
  <2> HIDE DEF t
  <2>3. u \in Row
    <3>1. [t EXCEPT !.amount = None] \in Row
      BY <2>1, RowTakes DEF Good
    <3>2. [[t EXCEPT !.amount = None] EXCEPT !.swap = FALSE] \in Row
      BY <3>1, RowTakes
    <3> QED BY <3>2, RowTakes
  <2>4. Good(u) /\ Alike(t, u) /\ u.node = "invalid_credit_send_amount"
    BY <2>1, <2>3, FieldsOfRow DEF Good, Alike
  <2> HIDE DEF u
  <2>5. Sound(u)
    BY <2>2, <2>4, AlikeSources, RestingNodes, RestingIsSound
  <2> QED BY <1>9, <2>4, <2>5, StepIsQuiet DEF Good
<1>10. CASE /\ row.custom # None /\ x.value <= row.swapMax /\ Cut(x) # None /\ quote # Down
            /\ Step(e)
  <2>1. Good(s) /\ Same(f, s) /\ s.node = "transaction_swap"
    BY <1>3, AtMoves DEF Node
  <2> HIDE DEF s
  <2>2. Destined(s)
    BY <1>2, <2>1, SameIsAlike, DestinedStays
  <2>3. k \in Nat /\ quote \in Nat /\ Cut(x) \in Nat
    BY <1>4, <1>5, <1>10, CutIsNat, ScaleIsNat, AmountAssumption
  <2>4. row.custom \in Holding /\ row.custom.v \in Voucher
    BY <1>3, <1>10, FieldsOfRow DEF Holding
  <2>5. c \in Screen(Text) /\ c.from = row.custom.v /\ c.v = row.swapTo /\ c.n = x /\ c.to = row.input
    BY <1>3, <1>4, <1>5, <2>4 DEF Screen
  <2> HIDE DEF c, k
  <2>6. /\ s \in Row /\ s.offered = row.offered /\ s.custom = row.custom
        /\ s.swapTo = row.swapTo /\ s.recipient = row.recipient
    BY <1>2, <2>1 DEF Good, Same
  <2>7. e \in Row
    <3>1. [s EXCEPT !.amount = k] \in Row
      BY <2>3, <2>6, RowTakes
    <3>2. [[s EXCEPT !.amount = k] EXCEPT !.temp = x] \in Row
      BY <1>5, <3>1, RowTakes
    <3>3. [[[s EXCEPT !.amount = k] EXCEPT !.temp = x] EXCEPT !.swapAmount = quote] \in Row
      BY <2>3, <3>2, RowTakes
    <3> QED BY <2>5, <3>3, RowTakes
  <2>8. /\ e.amount = k /\ e.temp = x /\ e.swapAmount = quote /\ e.shown = c
        /\ e.offered = row.offered /\ e.swapTo = row.swapTo /\ e.node = "transaction_swap"
    BY <2>1, <2>6, <2>7, FieldsOfRow
  <2>9. Good(e) /\ Alike(s, e)
    BY <2>1, <2>6, <2>7, FieldsOfRow DEF Good, Alike
  <2> HIDE DEF e
  <2>10. /\ Destined(e) /\ e.recipient = row.recipient /\ e.custom = row.custom
         /\ Source(e) = Source(row)
    <3>1. Destined(e) /\ Source(e) = Source(s)
      BY <2>2, <2>9, DestinedStays
    <3>2. Source(s) = Source(row)
      BY <1>2, <2>1, SameIsAlike, AlikeSources
    <3> QED BY <2>6, <2>9, <3>1, <3>2 DEF Alike
  <2>11. e.shown.from = e.custom.v /\ e.shown.v = e.swapTo /\ e.shown.to = e.recipient
    BY <1>3, <2>5, <2>8, <2>10
  <2>12. e.amount = Scale(Cut(e.shown.n), e.swapTo)
    BY <2>5, <2>8 DEF k
  <2>13. HasExponent(x) \/ Cut(x) <= row.swapMax
    <3>1. HasExponent(x) \/ Cut(x) <= x.value
      BY <1>5, CutIsNat, TruncateIsNat
    <3> QED BY <1>3, <1>5, <1>10, <2>3, <3>1
  <2>14. Offered(e)
    BY <1>3, <1>4, <2>5, <2>8, <2>13 DEF Offered
  <2>15. e.customState => e.offered.from = e.shown.from
    <3>1. e.customState => Source(e) = e.custom
      BY DEF Source
    <3> QED BY <1>4, <2>8, <2>10, <2>11, <3>1
  <2>16. SwapReady(e)
    BY <1>4, <2>3, <2>4, <2>5, <2>8, <2>10, <2>11, <2>12, <2>14, <2>15 DEF SwapReady
  <2>17. Sound(e)
    BY <2>8, <2>9, <2>10, <2>16 DEF Destined, Good, Based, Sound, Sending, Swapping,
       SourceSound, OfferSound, PlainSound, SwapSound, ExchangeSound, VoucherSound
  <2> QED BY <1>10, <2>9, <2>17, StepIsQuiet DEF Good, e
<1> QED BY <1>6, <1>7, <1>8, <1>9, <1>10

-----------------------------------------------------------------------------
(* The pool swap *)

LEMMA ToSwapListIsQuiet ==
  ASSUME Sound(row), NEW pool \in Pool, NEW list \in Lists \cup {Down},
         OpenPoolSwap(pool, list) \/ ReloadSwapToList(pool, list)
  PROVE  Quiet
<1>1. Good(Fresh) /\ Based(Fresh)
  BY InMenus DEF OpenPoolSwap, ReloadSwapToList, On
<1> QED BY <1>1, EnterSwapToListIsSound, StepIsQuiet DEF OpenPoolSwap, ReloadSwapToList

LEMMA LeaveSwapToListIsQuiet ==
  ASSUME Sound(row), NEW h \in Holdings \cup {Down}, LeaveSwapToList(h)
  PROVE  Quiet
BY FreshIsGood, EnterMainIsSound, StepIsQuiet DEF LeaveSwapToList

LEMMA NoListIsQuiet ==
  ASSUME Sound(row), SwapMaxLimitWithoutList
  PROVE  Quiet
BY FreshIsGood, FailedIsSound, StepIsQuiet DEF SwapMaxLimitWithoutList

\* In the pool swap the active voucher is held.
LEMMA FreshIsActive ==
  ASSUME Sound(row), row.node \in Swapping
  PROVE  /\ Good(Fresh) /\ Same(row, Fresh) /\ Active(Fresh)
         /\ Fresh.active \in Voucher /\ Fresh.active = row.active
<1>1. Good(Fresh) /\ Same(row, Fresh)
  BY FreshIsGood
<1>2. Active(Fresh)
  BY <1>1, SameIsAlike, AlikeSources DEF Sound, ExchangeSound
<1>3. Fresh \in Row
  BY <1>1 DEF Good
<1>4. [v |-> Fresh.active, bal |-> Fresh.bal] \in Holding
  BY <1>2, <1>3, FieldsOfRow DEF Active
<1>5. Fresh.active \in Voucher
  BY <1>4 DEF Holding
<1> QED BY <1>1, <1>2, <1>5 DEF Same

LEMMA LeaveSwapLimitIsQuiet ==
  ASSUME Sound(row), LeaveSwapLimit
  PROVE  Quiet
<1> DEFINE s == At(Fresh, "swap_to_list")
<1>1. Good(Fresh) /\ Active(Fresh)
  BY FreshIsActive DEF LeaveSwapLimit, On, Swapping
<1>2. Good(s) /\ Same(Fresh, s) /\ s.node = "swap_to_list"
  BY <1>1, AtMoves DEF Node
<1>3. Active(s)
  BY <1>1, <1>2, SameIsAlike, AlikeSources
<1>4. Step(s)
  BY DEF LeaveSwapLimit
<1> HIDE DEF s
<1> QED BY <1>2, <1>3, <1>4, ListedIsSound, StepIsQuiet DEF Good

LEMMA LimitIsSound ==
  ASSUME NEW r, Good(r), Active(r), r.node = "swap_limit", r.swapTo \in Voucher
  PROVE  Sound(r)
BY DEF Good, Sound, Sending, Swapping, SourceSound, OfferSound, PlainSound, SwapSound,
       ExchangeSound, VoucherSound

LEMMA SwapMaxLimitIsQuiet ==
  ASSUME Sound(row), NEW v \in Voucher, NEW limit \in Limit, SwapMaxLimit(v, limit)
  PROVE  Quiet
<1> DEFINE f == Fresh
           s == [f EXCEPT !.swapTo = v]
           t == At(s, "swap_limit")
           c == [from |-> row.active, v |-> v, n |-> Truncate(limit), to |-> None]
           m == Truncate(limit)
           e == [t EXCEPT !.swapMax = m, !.offered = c]
<1>1. Good(f) /\ Active(f) /\ f.active \in Voucher /\ f.active = row.active
  BY FreshIsActive DEF SwapMaxLimit, On, Swapping
<1>2. \/ Step(At(s, "api_failure"))
      \/ Step(At(s, "low_swap_amount"))
      \/ limit # Down /\ Step(e)
  BY DEF SwapMaxLimit
<1> HIDE DEF f
<1>3. f \in Row /\ s \in Row
  BY <1>1, RowTakes DEF Good
<1>4. Good(s) /\ Alike(f, s) /\ s.swapTo = v
  BY <1>1, <1>3, FieldsOfRow DEF Good, Alike
<1> HIDE DEF s
<1>5. Based(s) /\ Active(s)
  BY <1>1, <1>4, AlikeSources DEF Based
<1>6. CASE Step(At(s, "api_failure")) \/ Step(At(s, "low_swap_amount"))
  BY <1>4, <1>5, <1>6, RestingNodes, ToResting, StepIsQuiet
<1>7. CASE limit # Down /\ Step(e)
  <2>1. Good(t) /\ Same(s, t) /\ t.node = "swap_limit"
    BY <1>4, AtMoves DEF Node
  <2> HIDE DEF t
  <2>2. Active(t) /\ t.swapTo = v /\ t \in Row
    BY <1>4, <1>5, <2>1, SameIsAlike, AlikeSources DEF Same, Good
  <2>3. m \in Nat
    BY <1>7, TruncateIsNat, AmountAssumption DEF Limit
  <2>4. c \in Screen(Nat)
    BY <1>1, <2>3 DEF Screen
  <2> HIDE DEF c, m
  <2>5. e \in Row
    <3>1. [t EXCEPT !.swapMax = m] \in Row
      BY <2>2, <2>3, RowTakes
    <3> QED BY <2>4, <3>1, RowTakes
  <2>6. Good(e) /\ Alike(t, e) /\ e.node = "swap_limit" /\ e.swapTo = v
    BY <2>1, <2>2, <2>5, FieldsOfRow DEF Good, Alike
  <2>7. Step(e)
    BY <1>7
  <2> HIDE DEF e
  <2> QED BY <2>2, <2>6, <2>7, AlikeSources, LimitIsSound, StepIsQuiet DEF Good
<1> QED BY <1>2, <1>6, <1>7

LEMMA LeaveSwapPreviewIsQuiet ==
  ASSUME Sound(row), LeaveSwapPreview
  PROVE  Quiet
<1> DEFINE t == At(Fresh, "swap_limit")
           e == [t EXCEPT !.shown = None]
<1>1. row.node = "swap_preview"
  BY DEF LeaveSwapPreview, On
<1>2. Good(Fresh) /\ Active(Fresh) /\ Same(row, Fresh) /\ row.swapTo \in Voucher
  BY <1>1, FreshIsActive DEF Swapping, Sound, ExchangeSound
<1>3. Good(t) /\ Same(Fresh, t) /\ t.node = "swap_limit"
  BY <1>2, AtMoves DEF Node
<1>4. Active(t) /\ t.swapTo = row.swapTo /\ t \in Row
  BY <1>2, <1>3, SameIsAlike, AlikeSources DEF Same, Good
<1>5. Step(e)
  BY DEF LeaveSwapPreview
<1> HIDE DEF t
<1>6. e \in Row
  BY <1>4, RowTakes
<1>7. Good(e) /\ Alike(t, e) /\ e.node = "swap_limit" /\ e.swapTo = row.swapTo
  BY <1>3, <1>4, <1>6, FieldsOfRow DEF Good, Alike
<1> HIDE DEF e
<1> QED BY <1>2, <1>4, <1>5, <1>7, AlikeSources, LimitIsSound, StepIsQuiet DEF Good

LEMMA PreviewIsSound ==
  ASSUME NEW r, Good(r), Active(r), r.node = "swap_preview", r.swapTo \in Voucher,
         ExchangeReady(r)
  PROVE  Sound(r)
BY DEF Good, Sound, Sending, Swapping, SourceSound, OfferSound, PlainSound, SwapSound,
       ExchangeSound, VoucherSound

\* The preview names the active voucher and the one that was chosen, and the
\* amount that is stored unless it was refused.
LEMMA SwapPreviewIsQuiet ==
  ASSUME Sound(row), NEW x \in Typed, NEW quote \in Limit, SwapPreview(x, quote)
  PROVE  Quiet
<1> DEFINE f == Fresh
           c == [from |-> row.active, v |-> row.swapTo, n |-> x, to |-> None]
           k == Scale(Cut(x), row.active)
           s == [f EXCEPT !.shown = c]
           a == [s EXCEPT !.swapAmount = k, !.temp = x]
           t == At(s, "swap_preview")
           e == [t EXCEPT !.invalid = TRUE]
<1>1. row.node = "swap_limit"
  BY DEF SwapPreview, On
<1>2. /\ Good(f) /\ Active(f) /\ Same(row, f) /\ row.swapTo \in Voucher
      /\ row.active \in Voucher /\ f.active = row.active
  BY <1>1, FreshIsActive DEF Swapping, Sound, ExchangeSound
<1>3. \/ Step(e) \/ Step(Failed(f))
      \/ Cut(x) # None /\ (Step(At(a, "api_failure")) \/ Step(At(a, "swap_preview")))
  BY DEF SwapPreview
<1>4. x \in Text /\ (Cut(x) # None => Cut(x) \in Nat /\ k \in Nat)
  BY <1>2, AmountAssumption, CutIsNat, ScaleIsNat
<1>5. c \in Screen(Text) /\ c.from = row.active /\ c.v = row.swapTo /\ c.n = x
  BY <1>2, <1>4 DEF Screen
<1> HIDE DEF f, c, k
<1>6. f \in Row /\ s \in Row /\ f.swapTo = row.swapTo
  BY <1>2, <1>5, RowTakes DEF Good, Same
<1>7. Good(s) /\ Alike(f, s) /\ s.shown = c /\ s.swapTo = row.swapTo /\ s.active = row.active
  BY <1>2, <1>6, FieldsOfRow DEF Good, Alike
<1> HIDE DEF s
<1>8. Active(s)
  BY <1>2, <1>7, AlikeSources
<1>9. CASE Step(Failed(f))
  BY <1>2, <1>9, FailedIsSound, StepIsQuiet
<1>10. ASSUME Cut(x) # None, Step(At(a, "api_failure")) \/ Step(At(a, "swap_preview"))
       PROVE  Quiet
  <2> DEFINE p == At(a, "swap_preview")
  <2>1. a \in Row
    <3>1. [s EXCEPT !.swapAmount = k] \in Row
      BY <1>4, <1>6, <1>10, RowTakes
    <3> QED BY <1>4, <3>1, RowTakes
  <2>2. /\ Good(a) /\ Alike(s, a) /\ a.shown = c /\ a.swapTo = row.swapTo
        /\ a.active = row.active /\ a.temp = x /\ a.swapAmount = k
    BY <1>6, <1>7, <2>1, FieldsOfRow DEF Good, Alike
  <2> HIDE DEF a
  <2>3. Active(a) /\ Based(a)
    BY <1>8, <2>2, AlikeSources DEF Based
  <2>4. Step(At(a, "api_failure")) => Quiet
    BY <2>2, <2>3, RestingNodes, ToResting, StepIsQuiet
  <2>5. Good(p) /\ Same(a, p) /\ p.node = "swap_preview"
    BY <2>2, AtMoves DEF Node
  <2>6. Active(p)
    BY <2>3, <2>5, SameIsAlike, AlikeSources
  <2>7. Step(p) \/ Quiet
    BY <1>10, <2>4
  <2> HIDE DEF p
  <2>8. /\ p.shown = c /\ p.swapTo = row.swapTo /\ p.active = row.active /\ p.temp = x
        /\ p.swapAmount = k
    BY <2>2, <2>5 DEF Same
  <2>9. ExchangeReady(p)
    BY <1>4, <1>5, <1>10, <2>8 DEF ExchangeReady, k
  <2> QED BY <1>2, <2>5, <2>6, <2>7, <2>8, <2>9, PreviewIsSound, StepIsQuiet DEF Good
<1>11. CASE Step(e)
  <2>1. Good(t) /\ Same(s, t) /\ t.node = "swap_preview"
    BY <1>7, AtMoves DEF Node
  <2> HIDE DEF t
  <2>2. Active(t) /\ t \in Row /\ t.shown = c /\ t.swapTo = row.swapTo /\ t.active = row.active
    BY <1>7, <1>8, <2>1, SameIsAlike, AlikeSources DEF Same, Good
  <2>3. e \in Row
    BY <2>2, RowTakes
  <2>4. /\ Good(e) /\ Alike(t, e) /\ e.node = "swap_preview" /\ e.shown = c
        /\ e.swapTo = row.swapTo /\ e.active = row.active /\ e.invalid = TRUE
    BY <2>1, <2>2, <2>3, FieldsOfRow DEF Good, Alike
  <2>5. Step(e)
    BY <1>11
  <2> HIDE DEF e
  <2>6. ExchangeReady(e)
    BY <1>5, <2>4 DEF ExchangeReady
  <2> QED BY <1>2, <2>2, <2>4, <2>5, <2>6, AlikeSources, PreviewIsSound, StepIsQuiet DEF Good
<1> QED BY <1>3, <1>9, <1>10, <1>11

-----------------------------------------------------------------------------
(* The services are asked *)

\* A request that asks for cs and ends on n, and one that is no swap any more.
Asking(n, cs) == [At(Fresh, n) EXCEPT !.calls = cs]
Done(n, cs) == [Asking(n, cs) EXCEPT !.swap = FALSE]

LEMMA AskingIsSound ==
  ASSUME Sound(row), row.node \notin {"off", "api_failure"}, NEW n \in Resting,
         NEW cs \in Seq(Call)
  PROVE  /\ Sound(Asking(n, cs)) /\ Asking(n, cs).calls = cs
         /\ Asking(n, cs).shown = row.shown /\ Asking(n, cs).invalid = row.invalid
         /\ Asking(n, cs).node = n
         /\ Sound(Done(n, cs)) /\ Done(n, cs).calls = cs
         /\ Done(n, cs).shown = row.shown /\ Done(n, cs).node = n
<1> DEFINE t == At(Fresh, n)
           e == Asking(n, cs)
           u == Done(n, cs)
<1>1. Good(Fresh) /\ Same(row, Fresh) /\ Based(Fresh)
  BY InMenus
<1>2. Good(t) /\ Same(Fresh, t) /\ t.node = n
  BY <1>1, AtMoves DEF Resting
<1>3. Based(t) /\ t \in Row /\ t.shown = row.shown /\ t.invalid = row.invalid
  BY <1>1, <1>2, SameIsAlike, AlikeSources DEF Same, Good
<1>4. e = [t EXCEPT !.calls = cs] /\ u = [e EXCEPT !.swap = FALSE]
  BY DEF Asking, Done
<1> HIDE DEF t, e, u
<1>5. e \in Row
  <2>1. [t EXCEPT !.calls = cs] \in Row
    BY <1>3, RowTakes
  <2> QED BY <1>4, <2>1
<1>6. e.calls = cs /\ e.listed = t.listed /\ Same(t, e) /\ e.node = n
  BY <1>2, <1>3, <1>4, FieldsOfRow DEF Same
<1>7. u \in Row
  <2>1. [e EXCEPT !.swap = FALSE] \in Row
    BY <1>5, RowTakes
  <2> QED BY <1>4, <2>1
<1>8. u.calls = cs /\ u.listed = e.listed /\ Alike(e, u) /\ u.node = n /\ u.shown = e.shown
  BY <1>4, <1>5, <1>6, FieldsOfRow DEF Alike
<1>9. Based(e) /\ Based(u)
  BY <1>3, <1>6, <1>8, SameIsAlike, AlikeSources
<1>10. e.listed \subseteq e.held /\ u.listed \subseteq u.held
  BY <1>2, <1>6, <1>8 DEF Good, Same, Alike
<1>11. n \notin Sending \cup Swapping \cup {"credit_send", "view_voucher", "voucher_set"}
  BY DEF Resting
<1>12. Sound(e)
  BY <1>5, <1>6, <1>9, <1>10, <1>11 DEF Sound, Sending, Swapping, Based, SourceSound,
     OfferSound, PlainSound, SwapSound, ExchangeSound, VoucherSound
<1>13. Sound(u)
  BY <1>7, <1>8, <1>9, <1>10, <1>11 DEF Sound, Sending, Swapping, Based, SourceSound,
     OfferSound, PlainSound, SwapSound, ExchangeSound, VoucherSound
<1> QED BY <1>3, <1>6, <1>8, <1>12, <1>13 DEF Same, e, u

LEMMA QuietKeepsInv ==
  ASSUME Inv, Quiet
  PROVE  Inv'
<1>1. DOMAIN row'.calls = {}
  BY DEF Quiet
<1> QED BY <1>1 DEF Inv, Quiet, TransferAsShown, SwapAsShown, Asked

LEMMA InviteKeepsInv ==
  ASSUME Inv, Invite
  PROVE  Inv'
<1> DEFINE c == [op |-> "invite", from |-> None, v |-> None, n |-> 0, to |-> row.temp]
           cs == IF row.temp \notin Recipient \cup {Stranger} THEN <<>> ELSE <<c>>
<1>1. Sound(row) /\ row.node = "invite_recipient" /\ "invite_result" \in Resting
  BY RestingNodes DEF Inv, Invite, On
<1>2. cs \in Seq(Call) /\ \A i \in DOMAIN cs : cs[i].op = "invite"
  <2>1. row.temp \in Recipient \cup {Stranger} => c \in Call
    BY DEF Call, To
  <2> HIDE DEF c
  <2>2. <<>> \in Seq(Call) /\ (c \in Call => <<c>> \in Seq(Call))
    OBVIOUS
  <2>3. c.op = "invite"
    BY DEF c
  <2> QED BY <2>1, <2>2, <2>3
<1>3. row' = Asking("invite_result", cs) /\ UNCHANGED theirs
  BY DEF Invite, Step, Asking
<1> HIDE DEF cs
<1>4. Sound(row') /\ row'.calls = cs /\ UNCHANGED theirs
  BY <1>1, <1>2, <1>3, AskingIsSound
<1>5. \A i \in DOMAIN row'.calls : row'.calls[i].op = "invite"
  BY <1>2, <1>4
<1> QED BY <1>4, <1>5 DEF Inv, TransferAsShown, SwapAsShown, Asked

\* What the plain transfer is made of are the entries the confirmation was made
\* from.
LEMMA TransferKeepsInv ==
  ASSUME Inv, NEW ok \in BOOLEAN, InitiateNormalTransaction(ok)
  PROVE  Inv'
<1> DEFINE v == Source(row).v
           c == TransferCall(v, Scale(row.amount, v), row.recipient)
           cs == IF ok THEN <<c>> ELSE <<>>
<1>1. /\ Sound(row) /\ row.node = "transaction_pin" /\ row \in Row
      /\ "transaction_initiated" \in Resting
  BY RestingNodes DEF Inv, InitiateNormalTransaction, On, Sound
<1>2. /\ Source(row) \in row.held /\ row.recipient \in To /\ PlainReady(row)
  BY <1>1 DEF Sound, SourceSound, Sending, PlainSound
<1>3. CASE row.amount = None
  <2>1. Step(Failed(Fresh)) /\ Good(Fresh)
    BY <1>1, <1>3, InMenus DEF InitiateNormalTransaction
  <2> QED BY <2>1, FailedIsSound, StepIsQuiet, QuietKeepsInv
<1>4. CASE row.amount # None
  <2>1. v \in Voucher /\ row.amount \in Nat
    BY <1>1, <1>2, <1>4, SourceIs, FieldsOfRow
  <2>2. c \in Call
    BY <1>2, <2>1, ScaleIsNat DEF Call, TransferCall
  <2>3. c.v = v /\ c.n = Scale(row.amount, v) /\ c.to = row.recipient /\ c.op = "transfer"
    BY DEF TransferCall
  <2>4. row' = Asking("transaction_initiated", cs) /\ UNCHANGED theirs
    BY <1>4 DEF InitiateNormalTransaction, Step, Asking
  <2> HIDE DEF c, v
  <2>5. cs \in Seq(Call) /\ \A i \in DOMAIN cs : cs[i] = c
    <3>1. <<>> \in Seq(Call) /\ <<c>> \in Seq(Call)
      BY <2>2
    <3> QED BY <3>1
  <2> HIDE DEF cs
  <2>6. /\ Sound(row') /\ row'.calls = cs /\ row'.shown = row.shown
        /\ row'.node = "transaction_initiated" /\ UNCHANGED theirs
    BY <1>1, <2>4, <2>5, AskingIsSound
  <2>7. /\ row.shown.v = v /\ row.shown.to = row.recipient
        /\ row.amount = Cut(row.shown.n) /\ row.shown # None
    BY <1>2, NoneAssumption DEF PlainReady, v
  <2>8. TransferAsShown'
    BY <2>3, <2>5, <2>6, <2>7 DEF TransferAsShown, Asked
  <2>9. SwapAsShown'
    BY <2>6 DEF SwapAsShown, On
  <2> QED BY <2>6, <2>8, <2>9 DEF Inv
<1> QED BY <1>3, <1>4

LEMMA SwapTransferKeepsInv ==
  ASSUME Inv, NEW swapped \in BOOLEAN, NEW sent \in BOOLEAN,
         TransactionInitiateSwap(swapped, sent)
  PROVE  Inv'
<1> DEFINE a == SwapCall(row.custom.v, row.swapTo, row.swapAmount)
           b == TransferCall(row.swapTo, row.amount, row.recipient)
           s == At(Fresh, "transaction_swap_initiated")
<1>1. /\ Sound(row) /\ row.node = "transaction_swap" /\ row \in Row
      /\ "transaction_swap_initiated" \in Resting
  BY RestingNodes DEF Inv, TransactionInitiateSwap, On, Sound
<1>2. row.recipient \in To /\ SwapReady(row)
  BY <1>1 DEF Sound, SourceSound, Sending, SwapSound
<1>3. /\ row.custom.v \in Voucher /\ row.swapTo \in Voucher /\ row.swapAmount \in Nat
      /\ row.shown.v = row.swapTo /\ row.shown.to = row.recipient
      /\ row.amount = Scale(Cut(row.shown.n), row.swapTo) /\ row.amount \in Nat
  BY <1>2, ScaleIsNat DEF SwapReady, Holding
<1>4. a \in Call /\ b \in Call
  BY <1>2, <1>3 DEF Call, SwapCall, TransferCall
<1>5. /\ a.op = "swap" /\ b.op = "transfer" /\ b.v = row.swapTo /\ b.n = row.amount
      /\ b.to = row.recipient
  BY DEF SwapCall, TransferCall
<1>6. row.shown # None
  BY <1>2, NoneAssumption DEF SwapReady
<1>7. \/ Step(s) \/ Step([s EXCEPT !.calls = <<a>>])
      \/ Step([s EXCEPT !.calls = <<a, b>>, !.swap = FALSE])
  BY DEF TransactionInitiateSwap
<1> HIDE DEF a, b
<1>8. CASE Step(s)
  <2>1. Good(Fresh) /\ Based(Fresh)
    BY <1>1, InMenus
  <2>2. Quiet
    BY <1>1, <1>8, <2>1, ToResting, StepIsQuiet
  <2> QED BY <2>2, QuietKeepsInv
<1>9. ASSUME NEW cs \in Seq(Call), \A i \in DOMAIN cs : cs[i] \in {a, b},
             Step([s EXCEPT !.calls = cs]) \/ Step([s EXCEPT !.calls = cs, !.swap = FALSE])
      PROVE  Inv'
  <2> DEFINE n == "transaction_swap_initiated"
  <2>1. (row' = Asking(n, cs) \/ row' = Done(n, cs)) /\ UNCHANGED theirs
    BY <1>9 DEF Step, Asking, Done
  <2>2. n \in Resting
    BY <1>1
  <2> HIDE DEF n
  <2>3. /\ Sound(row') /\ row'.calls = cs /\ row'.shown = row.shown /\ row'.node = n
        /\ UNCHANGED theirs
    BY <1>1, <2>1, <2>2, AskingIsSound
  <2>4. TransferAsShown'
    <3>1. \A i \in DOMAIN cs : cs[i].op = "transfer" => cs[i] = b
      BY <1>5, <1>9
    <3> QED BY <1>3, <1>5, <1>6, <2>3, <3>1 DEF TransferAsShown, Asked
  <2>5. SwapAsShown'
    BY <2>3 DEF SwapAsShown, On, n
  <2> QED BY <2>3, <2>4, <2>5 DEF Inv
<1>10. /\ <<a>> \in Seq(Call) /\ <<a, b>> \in Seq(Call)
       /\ \A i \in DOMAIN <<a>> : <<a>>[i] \in {a, b}
       /\ \A i \in DOMAIN <<a, b>> : <<a, b>>[i] \in {a, b}
  BY <1>4
<1>11. CASE Step([s EXCEPT !.calls = <<a>>])
  BY <1>9, <1>10, <1>11
<1>12. CASE Step([s EXCEPT !.calls = <<a, b>>, !.swap = FALSE])
  BY <1>9, <1>10, <1>12
<1> QED BY <1>7, <1>8, <1>11, <1>12

LEMMA InitiateSwapKeepsInv ==
  ASSUME Inv, NEW ok \in BOOLEAN, InitiateSwap(ok)
  PROVE  Inv'
<1> DEFINE c == [op |-> "swap", from |-> row.active, v |-> row.swapTo,
                 n |-> row.swapAmount, to |-> None]
           cs == IF ok THEN <<c>> ELSE <<>>
<1>1. /\ Sound(row) /\ row.node = "swap_preview" /\ row \in Row
      /\ "swap_initiated" \in Resting
  BY RestingNodes DEF Inv, InitiateSwap, On, Sound
<1>2. row.active \in Voucher /\ Good(Fresh)
  BY <1>1, FreshIsActive DEF Swapping
<1>3. row.swapTo \in Voucher /\ ExchangeReady(row)
  BY <1>1 DEF Sound, ExchangeSound
<1>4. CASE row.swapAmount = None
  <2>1. Step(Failed(Fresh))
    BY <1>4 DEF InitiateSwap
  <2> QED BY <1>2, <2>1, FailedIsSound, StepIsQuiet, QuietKeepsInv
<1>5. CASE row.swapAmount # None
  <2>1. row' = Asking("swap_initiated", cs) /\ UNCHANGED theirs
    BY <1>5 DEF InitiateSwap, Step, Asking
  <2>2. row.swapAmount \in Nat
    BY <1>1, <1>5, FieldsOfRow
  <2>3. c \in Call /\ c.from = row.active /\ c.v = row.swapTo /\ c.n = row.swapAmount
        /\ c.op = "swap"
    BY <1>2, <1>3, <2>2 DEF Call
  <2> HIDE DEF c
  <2>4. cs \in Seq(Call) /\ \A i \in DOMAIN cs : cs[i] = c
    <3>1. <<>> \in Seq(Call) /\ <<c>> \in Seq(Call)
      BY <2>3
    <3> QED BY <3>1
  <2> HIDE DEF cs
  <2>5. /\ Sound(row') /\ row'.calls = cs /\ row'.shown = row.shown
        /\ row'.invalid = row.invalid /\ UNCHANGED theirs
    BY <1>1, <2>1, <2>4, AskingIsSound
  <2>6. TransferAsShown'
    BY <2>3, <2>4, <2>5 DEF TransferAsShown, Asked
  <2>7. row.shown.from = c.from /\ row.shown.v = c.v
        /\ (row.invalid \/ c.n = Scale(Cut(row.shown.n), c.from))
    BY <1>3, <2>3 DEF ExchangeReady
  <2>8. SwapAsShown'
    BY <2>4, <2>5, <2>7 DEF SwapAsShown, Asked
  <2> QED BY <2>5, <2>6, <2>8 DEF Inv
<1> QED BY <1>4, <1>5

-----------------------------------------------------------------------------
LEMMA InitEstablishesInv == Init => Inv
<1> SUFFICES ASSUME Init PROVE Inv
  OBVIOUS
<1>1. row.node = "off" /\ row.calls = <<>> /\ row.listed = {} /\ row.held = {}
  BY DEF Init
<1>2. row \in Row
  <2>1. <<>> \in Seq(Call) /\ "off" \in Node
    BY DEF Node
  <2> QED BY <2>1 DEF Init, Row
<1>3. Sound(row)
  BY <1>1, <1>2, RestingNodes, RestingIsSound DEF Good
<1>4. TransferAsShown /\ SwapAsShown
  <2>1. DOMAIN row.calls = {}
    BY <1>1
  <2> QED BY <2>1 DEF TransferAsShown, SwapAsShown, Asked
<1>5. theirs \in [Recipient -> Voucher \cup {None, Empty}]
  BY DEF Init
<1> QED BY <1>3, <1>4, <1>5 DEF Inv

LEMMA UnchangedKeepsInv ==
  ASSUME Inv, row' = row, theirs' \in [Recipient -> Voucher \cup {None, Empty}]
  PROVE  Inv'
BY DEF Inv, TransferAsShown, SwapAsShown, Asked, On

LEMMA VoucherMenuKeepsInv ==
  ASSUME Inv, VoucherMenuNext
  PROVE  Inv'
<1>1. Quiet
  BY WalkIsQuiet, SetVoucherIsQuiet, LeaveVouchersIsQuiet, ViewVoucherIsQuiet
     DEF VoucherMenuNext, Inv
<1> QED BY <1>1, QuietKeepsInv

LEMMA CreditSendKeepsInv ==
  ASSUME Inv, CreditSendNext
  PROVE  Inv'
<1>1. CASE \/ OpenCreditSend \/ MistypeRecipient \/ RetryRecipient
           \/ LeaveCreditVouchers \/ LeaveCreditAmount
  <2>1. Quiet
    BY <1>1, ToCreditSendIsQuiet, MistypeIsQuiet, LeaveCreditAmountIsQuiet DEF Inv
  <2> QED BY <2>1, QuietKeepsInv
<1>2. CASE Invite
  BY <1>2, InviteKeepsInv
<1>3. ASSUME NEW h \in Holdings \cup {Down}, LeaveCreditSend(h)
      PROVE  Inv'
  BY <1>3, LeaveCreditSendIsQuiet, QuietKeepsInv DEF Inv
<1>4. ASSUME NEW to \in To, AliasFails(to)
      PROVE  Inv'
  BY <1>4, AliasFailsIsQuiet, QuietKeepsInv DEF Inv
<1>5. ASSUME NEW x \in Typed, NEW quote \in Answers \cup {Down},
             AnswerAmount(x) \/ AnswerSwapAmount(x, quote)
      PROVE  Inv'
  BY <1>5, AnswerAmountIsQuiet, AnswerSwapAmountIsQuiet, QuietKeepsInv DEF Inv
<1>6. ASSUME NEW ok \in BOOLEAN, InitiateNormalTransaction(ok)
      PROVE  Inv'
  BY <1>6, TransferKeepsInv
<1>7. ASSUME NEW swapped \in BOOLEAN, NEW sent \in BOOLEAN,
             TransactionInitiateSwap(swapped, sent)
      PROVE  Inv'
  BY <1>7, SwapTransferKeepsInv
<1>8. ASSUME NEW pool \in Pool, NEW limit \in Limit, ReturnToAmount(pool, limit)
      PROVE  Inv'
  BY <1>8, ReturnToAmountIsQuiet, QuietKeepsInv DEF Inv
<1>9. ASSUME NEW pool \in Pool, NEW limit \in Limit, NEW to \in To,
             AnswerRecipient(to, pool, limit)
      PROVE  Inv'
  BY <1>9, AnswerRecipientIsQuiet, QuietKeepsInv DEF Inv
<1>10. ASSUME NEW pool \in Pool, NEW limit \in Limit, NEW hd \in row.held,
              ChooseCreditVoucher(hd, pool, limit)
       PROVE  Inv'
  BY <1>10, ChooseCreditVoucherIsQuiet, QuietKeepsInv DEF Inv
<1>11. ASSUME NEW x \in Typed, AnswerAmount(x)
       PROVE  Inv'
  BY <1>11, AnswerAmountIsQuiet, QuietKeepsInv DEF Inv
<1> QED BY <1>1, <1>2, <1>3, <1>4, <1>5, <1>6, <1>7, <1>8, <1>9, <1>10, <1>11
        DEF CreditSendNext

LEMMA PoolSwapKeepsInv ==
  ASSUME Inv, PoolSwapNext
  PROVE  Inv'
<1>1. CASE SwapMaxLimitWithoutList \/ LeaveSwapLimit \/ LeaveSwapPreview
  BY <1>1, NoListIsQuiet, LeaveSwapLimitIsQuiet, LeaveSwapPreviewIsQuiet, QuietKeepsInv
     DEF Inv
<1>2. ASSUME NEW pool \in Pool, NEW list \in Lists \cup {Down},
             OpenPoolSwap(pool, list) \/ ReloadSwapToList(pool, list)
      PROVE  Inv'
  BY <1>2, ToSwapListIsQuiet, QuietKeepsInv DEF Inv
<1>3. ASSUME NEW h \in Holdings \cup {Down}, LeaveSwapToList(h)
      PROVE  Inv'
  BY <1>3, LeaveSwapToListIsQuiet, QuietKeepsInv DEF Inv
<1>4. ASSUME NEW v \in Voucher, NEW limit \in Limit, SwapMaxLimit(v, limit)
      PROVE  Inv'
  BY <1>4, SwapMaxLimitIsQuiet, QuietKeepsInv DEF Inv
<1>5. ASSUME NEW x \in Typed, NEW quote \in Limit, SwapPreview(x, quote)
      PROVE  Inv'
  BY <1>5, SwapPreviewIsQuiet, QuietKeepsInv DEF Inv
<1>6. ASSUME NEW ok \in BOOLEAN, InitiateSwap(ok)
      PROVE  Inv'
  BY <1>6, InitiateSwapKeepsInv
<1> QED BY <1>1, <1>2, <1>3, <1>4, <1>5, <1>6 DEF PoolSwapNext

LEMMA NextKeepsInv ==
  ASSUME Inv, [Next]_vars
  PROVE  Inv'
<1>1. ASSUME NEW h \in Holdings \cup {Down}, Dial(h) \/ DialInVain
      PROVE  Inv'
  BY <1>1, DialIsQuiet, QuietKeepsInv DEF Inv
<1>2. DialInVain => Inv'
  <2>1. Down \in Holdings \cup {Down}
    OBVIOUS
  <2> QED BY <1>1, <2>1
<1>3. ASSUME NEW r \in Recipient, NEW v \in Voucher \cup {Empty}, TheyMove(r, v)
      PROVE  Inv'
  BY <1>3, UnchangedKeepsInv DEF Inv, TheyMove
<1>4. CASE UNCHANGED vars
  BY <1>4, UnchangedKeepsInv DEF Inv, vars
<1> QED BY <1>1, <1>2, <1>3, <1>4, VoucherMenuKeepsInv, CreditSendKeepsInv, PoolSwapKeepsInv
        DEF Next

LEMMA InvAlways == Spec => []Inv
BY InitEstablishesInv, NextKeepsInv, PTL DEF Spec

-----------------------------------------------------------------------------
\* The entries that the menus leave to each other keep their types.
THEOREM TypeCorrect == Spec => []TypeOK
<1>1. Inv => TypeOK
  BY DEF Inv, Sound, TypeOK
<1> QED BY <1>1, InvAlways, PTL

\* What leaves the account is what was confirmed, whatever was typed, chosen,
\* offered or abandoned before: the initiating handlers read the entries that
\* the preview was made from, and no way leads round the preview.
THEOREM TransferAlwaysAsShown == Spec => []TransferAsShown
<1>1. Inv => TransferAsShown
  BY DEF Inv
<1> QED BY <1>1, InvAlways, PTL

\* A pool swap exchanges the vouchers and the amount that its preview showed.
THEOREM SwapAlwaysAsShown == Spec => []SwapAsShown
<1>1. Inv => SwapAsShown
  BY DEF Inv
<1> QED BY <1>1, InvAlways, PTL

\* Who is asked for the PIN confirms an operation that has all its entries, and
\* they are the ones shown.
THEOREM ConfirmationAlwaysStaged == Spec => []ConfirmationIsStaged
<1>1. Inv => ConfirmationIsStaged
  <2> SUFFICES ASSUME Inv PROVE ConfirmationIsStaged
    OBVIOUS
  <2>1. Sound(row) /\ row \in Row
    BY DEF Inv, Sound
  <2>2. On("transaction_pin") =>
          /\ Source(row).v = row.shown.v /\ row.amount = Cut(row.shown.n)
          /\ row.recipient = row.shown.to
    BY <2>1 DEF On, Sound, PlainSound, PlainReady
  <2>3. On("transaction_swap") =>
          /\ row.custom # None /\ row.custom.v = row.shown.from /\ row.swapTo = row.shown.v
          /\ row.recipient = row.shown.to /\ row.swapAmount # None
    BY <2>1, NoneAssumption DEF On, Sound, SwapSound, SwapReady
  <2>4. On("swap_preview") =>
          /\ row.active = row.shown.from /\ row.swapTo = row.shown.v
          /\ row.invalid \/ (row.swapAmount # None /\ row.temp = row.shown.n)
    <3> SUFFICES ASSUME row.node = "swap_preview"
                 PROVE  /\ row.active = row.shown.from /\ row.swapTo = row.shown.v
                        /\ row.invalid \/ (row.swapAmount # None /\ row.temp = row.shown.n)
      BY DEF On
    <3>1. ExchangeReady(row) /\ row.active \in Voucher
      BY <2>1, FreshIsActive DEF Sound, ExchangeSound, Swapping
    <3>2. row.invalid \/ row.swapAmount \in Nat
      BY <3>1, ScaleIsNat DEF ExchangeReady
    <3> QED BY <3>1, <3>2, NoneAssumption DEF ExchangeReady
  <2>5. On("view_voucher") => row.custom # None /\ row.custom.v = row.shown.v
    <3> SUFFICES ASSUME row.node = "view_voucher"
                 PROVE  row.custom # None /\ row.custom.v = row.shown.v
      BY DEF On
    <3>1. /\ row.custom \in row.held
          /\ row.shown = [from |-> row.custom.v, v |-> row.custom.v,
                          n |-> Plain(Truncate(row.custom.bal)), to |-> None]
      BY <2>1 DEF Sound, VoucherSound
    <3>2. row.custom \in Holding
      BY <2>1, <3>1, FieldsOfRow
    <3> QED BY <3>1, <3>2, NoneAssumption
  <2> QED BY <2>2, <2>3, <2>4, <2>5 DEF ConfirmationIsStaged
<1> QED BY <1>1, InvAlways, PTL

\* A confirmation has the recipient and the voucher of the offer before it, and so it
\* has the voucher that pays, where one was chosen or none is swapped.  Of an amount
\* typed without exponent no more is left than was offered: the value is compared
\* with the balance, or the limit, and the cut keeps the order.
THEOREM AlwaysWithinOffer == Spec => []WithinOffer
<1>1. Inv => WithinOffer
  <2> SUFFICES ASSUME Inv, row.node \in {"transaction_pin", "transaction_swap"}
               PROVE  /\ row.shown.v = row.offered.v /\ row.shown.to = row.offered.to
                      /\ On("transaction_pin") \/ row.customState
                           => row.shown.from = row.offered.from
                      /\ HasExponent(row.shown.n) \/ Cut(row.shown.n) <= row.offered.n
    BY DEF WithinOffer
  <2>1. Sound(row)
    BY DEF Inv
  <2>2. CASE row.node = "transaction_pin"
    BY <2>1, <2>2 DEF Sound, PlainSound, PlainReady, Offered
  <2>3. CASE row.node = "transaction_swap"
    BY <2>1, <2>3 DEF Sound, SwapSound, SwapReady, Offered, On
  <2> QED BY <2>2, <2>3
<1> QED BY <1>1, InvAlways, PTL

\* What is offered for sending is among the holdings, up to its balance: no way
\* leads from the choice of an earlier transaction to a new offer.
THEOREM AlwaysOffersHoldings == Spec => []OffersHoldings
<1>1. Inv => OffersHoldings
  <2> SUFFICES ASSUME Inv, row.node = "credit_amount" PROVE OffersHoldings
    BY DEF OffersHoldings
  <2>1. Source(row) \in row.held /\ row.swap \in BOOLEAN
    BY FieldsOfRow DEF Inv, Sound, SourceSound, Sending
  <2>2. \/ ~row.swap /\ row.offered = [from |-> Source(row).v, v |-> Source(row).v,
                                       n |-> Truncate(Source(row).bal), to |-> row.recipient]
        \/ row.swap /\ row.offered = [from |-> Source(row).v, v |-> row.swapTo,
                                      n |-> row.swapMax, to |-> row.recipient]
    BY DEF Inv, Sound, OfferSound
  <2> QED BY <2>1, <2>2 DEF OffersHoldings
<1> QED BY <1>1, InvAlways, PTL

\* The voucher that is set is the one that was viewed, with its balance.
THEOREM AlwaysSetAsViewed == Spec => []SetAsViewed
<1>1. Inv => SetAsViewed
  <2> SUFFICES ASSUME Inv, row.node = "voucher_set" PROVE SetAsViewed
    BY DEF SetAsViewed, On
  <2>1. Active(row) /\ row.active = row.shown.v /\ Plain(Truncate(row.bal)) = row.shown.n
    BY DEF Inv, Sound, VoucherSound
  <2> QED BY <2>1 DEF SetAsViewed, Active
<1> QED BY <1>1, InvAlways, PTL
=============================================================================
