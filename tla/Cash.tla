-------------------------------- MODULE Cash --------------------------------
(***************************************************************************)
(* What the menus that turn vouchers into cash and back keep in the user's *)
(* data: the entries and flags, the main menu and the M-Pesa menu from     *)
(* which they start.  The menus are in Mpesa and PoolMenus; CashFlows      *)
(* composes them.  Credit send and pool swap, which write the same         *)
(* entries, are modelled in full in Transfers; here one step stands for a  *)
(* visit to them.                                                          *)
(*                                                                         *)
(* A step is one request.  A handler is an operator from the row to the    *)
(* set of rows that it may leave, one for each answer of the services that *)
(* it calls.  Amounts are as in Wallet: displayed units, of which Cent     *)
(* make 0.01; the shilling is counted in the same units.                   *)
(***************************************************************************)
EXTENDS Integers, Sequences, FiniteSets

CONSTANTS
  Voucher,       \* token addresses
  Stable,        \* the stable vouchers of the configuration
  Unit,          \* Unit[v]: base units of v in one displayed unit
  Cent,          \* displayed units in 0.01
  MinAmount,     \* 0.1, in displayed units
  MinWithdraw,   \* the least and the greatest amounts of M-Pesa, in shillings
  MinSend, MaxSend,
  Rates,         \* shillings for a displayed unit, as the rate service may say
  MpesaVouchers, \* what the active voucher of the M-Pesa account may be, or None
  Holdings,      \* what FetchVouchers may answer: sets of [v, bal]
  Pool,          \* pool addresses
  DefaultPool,   \* the pool of the configuration
  TopPools,      \* what FetchTopPools may answer: sets of pools
  Typed,         \* the amounts a user types
  Whole,         \* those of them without decimals
  Answers,       \* the amounts a limit or a quote may be
  Earlier,       \* the amounts that credit send and pool swap leave behind
  None,          \* an entry that was never written, or holds the empty string
  MaxVisits      \* bound: how often the main menu is entered

Holding == [v : Voucher, bal : Nat]

ASSUME CashVoucherAssumption ==
  /\ Stable \subseteq Voucher /\ None \notin Voucher
  /\ Unit \in [Voucher -> Nat \ {0}]
  /\ MpesaVouchers \subseteq Voucher \cup {None}
  /\ \A H \in Holdings : H \subseteq Holding /\ \A h, k \in H : h.v = k.v => h = k
ASSUME CashAmountAssumption ==
  /\ {Cent, MinAmount, MinWithdraw, MinSend, MaxSend} \subseteq Nat \ {0}
  /\ Rates \subseteq Nat \ {0}
  /\ Whole \subseteq Typed /\ Typed \subseteq Nat /\ Answers \cup Earlier \subseteq Nat
  /\ MaxVisits \in Nat \ {0}
ASSUME PoolAssumption ==
  DefaultPool \in Pool /\ None \notin Pool /\ TopPools \subseteq SUBSET Pool

VARIABLES
  row,     \* the session of the user
  visits   \* how often he has been at the main menu

vars == <<row, visits>>

Flag == {"no_active_voucher", "low_swap_amount", "api_call_error",
         "incorrect_voucher", "incorrect_pool", "invalid_amount"}

Node == {"off", "main", "api_failure", "no_voucher", "mpesa",
         "get_mpesa", "low_withdraw_mpesa_amount", "mpesa_max_limit",
         "invalid_get_mpesa_amount", "get_mpesa_confirmation", "initiate_get_mpesa",
         "send_mpesa", "invalid_send_mpesa_amount", "send_mpesa_confirmation",
         "initiate_send_mpesa",
         "pool_deposit", "pool_deposit_amount", "invalid_pool_deposit_amount",
         "pool_deposit_confirmation", "pool_deposit_initiated",
         "pay_debt", "low_pay_debt_amount", "calculate_max_pay_debt",
         "invalid_pay_debt_amount", "confirm_debt_removal", "initiate_pay_debt",
         "select_pool", "view_pool", "pool_set"}

\* DATA_AMOUNT: a number, and whether it is spelt without decimals.
Amount == [n : Nat, whole : BOOLEAN]

\* What a confirmation shows or a service is asked for: n base units of voucher v, or
\* of voucher from to be swapped for v, to the M-Pesa account or a pool; n shillings
\* when it is a purchase; a pool and nothing else when it is the choice of one.
Call == [op : {"transfer", "swap", "onramp", "pool"}, from : Voucher \cup {None},
         v : Voucher \cup {None}, n : Nat, to : Pool \cup {"mpesa", None}]

Row == [node : Node, flags : SUBSET Flag,
        active : Voucher \cup {None, ""},        \* DATA_ACTIVE_ADDRESS
        held : SUBSET Holding,                   \* DATA_ORDERED_VOUCHER_*
        type : {None, "", "normal", "swap"},     \* DATA_SEND_TRANSACTION_TYPE
        input : BOOLEAN,                         \* DATA_RECIPIENT_INPUT was written
        custom : Holding \cup {None},            \* DATA_TRANSACTION_CUSTOM_VOUCHER
        amount : Amount \cup {None},             \* DATA_AMOUNT
        temp : Pool \cup {"text", None},         \* DATA_TEMPORARY_VALUE
        swapFrom : [v : Voucher, max : Nat] \cup {None}, \* DATA_ACTIVE_SWAP_FROM_*
        swapTo : Voucher \cup {None},            \* DATA_ACTIVE_SWAP_TO_*
        swapMax : Nat,                           \* DATA_ACTIVE_SWAP_MAX_AMOUNT
        swapAmount : Nat \cup {None},            \* DATA_ACTIVE_SWAP_AMOUNT
        pool : Pool,                             \* DATA_ACTIVE_POOL_*
        pools : (SUBSET Pool) \cup {None},         \* DATA_POOL_NAMES and the like
        shown : Seq(Call),   \* what a confirmation showed, and its quote was for
        calls : Seq(Call), error : BOOLEAN]

TypeOK == row \in Row /\ visits \in 1 .. MaxVisits

Init ==
  /\ row = [node |-> "off", flags |-> {}, active |-> None, held |-> {}, type |-> None,
            input |-> FALSE, custom |-> None, amount |-> None, temp |-> None,
            swapFrom |-> None, swapTo |-> None, swapMax |-> 0, swapAmount |-> None,
            pool |-> DefaultPool, pools |-> None,
            shown |-> <<>>, calls |-> <<>>, error |-> FALSE]
  /\ visits = 1

-----------------------------------------------------------------------------
(* Helpers *)

\* TruncateDecimalString(x, 2) and ParseAndScaleAmount, as in Wallet.
Truncate(x) == x - (x % Cent)
Scale(x, v) == x * Unit[v]

On(n) == row.node = n
At(s, n) == [s EXCEPT !.node = n]
Set(s, F) == [s EXCEPT !.flags = @ \cup F]
Reset(s, F) == [s EXCEPT !.flags = @ \ F]
Has(s, f) == f \in s.flags

\* A handler that returns an error, or does not return: the session ends.
Failed(s) == [s EXCEPT !.node = "off", !.error = TRUE]

\* The calls that a confirmation shows, and that are made.
Transfer(v, n, to) == [op |-> "transfer", from |-> None, v |-> v, n |-> n, to |-> to]
Swap(from, n, v) == [op |-> "swap", from |-> from, v |-> v, n |-> n, to |-> None]
ChoiceOf(p) == [op |-> "pool", from |-> None, v |-> None, n |-> 0, to |-> p]
Onramp(n) == [op |-> "onramp", from |-> None, v |-> None, n |-> n, to |-> None]

Fresh == [row EXCEPT !.calls = <<>>, !.error = FALSE]
Step(s) == row' = s /\ UNCHANGED visits

\* LOAD, then RELOAD of the handler F with one input: the services are asked
\* twice.  Later in the same frame only RELOAD runs, which is no new case: the
\* answers may be the same both times.
Twice(F(_), s) == UNION {IF t.error THEN {t} ELSE F(t) : t \in F(s)}

\* getSessionData fails for who has never been in the menu of credit send.
HasSessionData(s) == s.type # None /\ s.active # None

\* ResetTransactionAmount
ResetTransactionAmount(s) == Reset([s EXCEPT !.amount = None], {"invalid_amount"})

-----------------------------------------------------------------------------
(* The main menu, the M-Pesa menu, and the menus of Transfers *)

ApiFailure(s) == At(Reset(s, {"api_call_error"}), "api_failure")

ManageVouchers(s, H) ==
  IF H = {} THEN {Set([s EXCEPT !.active = IF @ = None THEN None ELSE ""],
                      {"no_active_voucher"})}
  ELSE LET t == Reset([s EXCEPT !.held = H], {"no_active_voucher"})
           Vs == {h.v : h \in H}
       IN  {[t EXCEPT !.active = v] : v \in IF s.active \in Vs THEN {s.active} ELSE Vs}

\* root.vis, whose CheckAccountStatus resets flag_api_call_error, and main.vis.
EnterMain(s) ==
  LET c == Reset([s EXCEPT !.temp = None, !.shown = <<>>], {"api_call_error"})
  IN  {ApiFailure(c)} \cup UNION {{At(t, "main") : t \in ManageVouchers(c, H)} : H \in Holdings}

ToMain(s) ==
  visits < MaxVisits /\ visits' = visits + 1 /\ row' \in EnterMain(s)

\* A new call, from wherever the last one ended.
Dial == ToMain(Fresh)

\* A call while the account service is down.
DialInVain == Step(ApiFailure([Fresh EXCEPT !.shown = <<>>]))

\* CalculateCreditAndDebt: what it shows is left out, the entries it needs are not.
EnterMpesa(s) ==
  LET c == [s EXCEPT !.shown = <<>>]
      after == IF HasSessionData(s) THEN Reset(c, {"api_call_error"}) ELSE c
  IN  (IF Has(after, "api_call_error") THEN {} ELSE {At(after, "mpesa")})
        \cup (IF HasSessionData(s) \/ Has(s, "api_call_error") THEN {ApiFailure(after)} ELSE {})

OpenMpesa == On("main") /\ \E s \in EnterMpesa(Fresh) : Step(s)

\* A faulty variant, which only serves to see the properties fail.
EnterListMisnamed(s, n) == At(s, IF Has(s, "no_active_voucher") THEN "missing_voucher" ELSE n)

\* A list of vouchers, or the page of somebody who has none.
EnterList(s, n) == At(s, IF Has(s, "no_active_voucher") THEN "no_voucher" ELSE n)

\* A visit to credit send and back: TransactionReset empties some entries; who goes
\* on and names a recipient leaves a transaction type and perhaps a voucher and
\* amounts.
UseCreditSend ==
  /\ On("main")
  /\ LET s == [Fresh EXCEPT !.type = "", !.amount = None]
     IN  \/ ToMain(s)
         \/ /\ ~Has(row, "no_active_voucher")
            /\ \E t \in {"normal", "swap"}, c \in row.held \cup {row.custom},
                  x \in Earlier, to \in Voucher \cup {row.swapTo} :
                 ToMain([s EXCEPT !.type = t, !.input = TRUE, !.custom = c, !.swapTo = to,
                                  !.amount = [n |-> x, whole |-> t = "swap"]])

\* A visit to pool swap leaves its own voucher, limit and amount.
UsePoolSwap ==
  /\ On("main") /\ ~Has(row, "no_active_voucher")
  /\ \E to \in Voucher, max, x \in Earlier :
       ToMain([Fresh EXCEPT !.swapTo = to, !.swapMax = max, !.swapAmount = x])

\* A visit to the vouchers changes the active one.
UseVouchers ==
  /\ On("main") /\ ~Has(row, "no_active_voucher")
  /\ \E h \in row.held : h.v # row.active /\ ToMain([Fresh EXCEPT !.active = h.v, !.custom = h])
=============================================================================
