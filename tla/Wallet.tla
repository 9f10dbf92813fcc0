------------------------------- MODULE Wallet -------------------------------
(***************************************************************************)
(* What a user's session keeps between the menus that move vouchers: the   *)
(* userdata entries that credit send, pool swap and voucher selection all  *)
(* write, the flags they steer by, and what the user was last shown.  The  *)
(* menus themselves are in CreditSend, PoolSwap and VoucherMenu; Transfers *)
(* composes them.                                                          *)
(*                                                                         *)
(* As in PinMenu a step is one request, and a handler is an operator from  *)
(* the row, and from the answers of the services it calls, to the row it   *)
(* leaves.  Amounts are typed, displayed and stored in displayed units of  *)
(* which Cent make 0.01, so that cutting to two decimals loses something.  *)
(* What a user types is a text, and may carry an exponent: the handlers    *)
(* compare its value, and cut its digits.                                  *)
(***************************************************************************)
EXTENDS Integers, Sequences

CONSTANTS
  Voucher,     \* token addresses
  Renamed,     \* the vouchers whose symbol sanitizeSymbol changes
  Stable,      \* the stable vouchers of the configuration
  Unit,        \* Unit[v]: base units of v in one displayed unit
  Cent,        \* displayed units in 0.01
  MinAmount,   \* 0.1, the least amount, in displayed units
  Recipient,   \* registered recipients, who have a phone number
  Mpesa,       \* an address without phone number: the M-Pesa alias, say
  Stranger,    \* a phone number that is not registered
  Holdings,    \* what FetchVouchers may answer: sequences of [v, bal]
  Lists,       \* what GetPoolSwappableVouchers may answer: sets of vouchers
  Typed,       \* the amounts a user types
  Answers,     \* the amounts a limit or a quote may be
  Down,        \* the answer of a service that fails
  None,        \* an entry that was never written, or holds no number
  Empty        \* an active voucher that was there and has been cleared

To == Recipient \cup {Mpesa, Stranger}
Holding == [v: Voucher, bal: Nat]

\* An amount as it was typed: the number that ParseFloat makes of it, and the
\* number in front of its exponent, in displayed units.  Without exponent both
\* are the same.  digits = None: TruncateDecimalString cuts into the exponent, or
\* pads it ("1.5e1", "1e1"), so that no number is left.
Text == [value: Nat, digits: Nat \cup {None}]
Plain(n) == [value |-> n, digits |-> n]
HasExponent(t) == t.digits # t.value

ASSUME VoucherAssumption ==
  /\ Renamed \subseteq Voucher /\ Stable \subseteq Voucher
  /\ Unit \in [Voucher -> Nat \ {0}]
  /\ {None, Empty} \cap Voucher = {}
  /\ Lists \subseteq SUBSET Voucher
  /\ Down \notin Holdings /\ Down \notin Lists
ASSUME AmountAssumption ==
  /\ Cent \in Nat \ {0} /\ MinAmount \in Nat \ {0}
  /\ Typed \subseteq Text /\ Answers \subseteq Nat /\ Down \notin Answers
ASSUME HoldingsAssumption ==
  \A h \in Holdings :
    /\ h \in Seq(Holding)
    /\ \A i, j \in DOMAIN h : h[i].v = h[j].v => i = j
ASSUME RecipientAssumption ==
  Mpesa \notin Recipient /\ Stranger \notin Recipient \cup {Mpesa} /\ None \notin To

Node == {"off", "main", "api_failure", "no_voucher",
         "credit_send", "invalid_recipient", "invite_recipient", "invite_result",
         "credit_vouchers", "credit_amount", "invalid_amount", "transaction_pin",
         "transaction_initiated", "transaction_swap", "invalid_credit_send_amount",
         "transaction_swap_initiated",
         "swap_to_list", "missing_voucher", "low_swap_amount", "swap_limit",
         "swap_preview", "swap_initiated",
         "my_vouchers", "select_voucher", "view_voucher", "voucher_set"}

\* What a prompt offers or a confirmation shows: n of voucher v, obtained by
\* swapping voucher from (v itself when there is no swap), going to a recipient.
\* An offer is up to a number, a confirmation is of what was typed.
Screen(N) == [from: Voucher, v: Voucher, n: N, to: To \cup {None}]

ASSUME NoneAssumption ==
  None \notin Nat \cup Text \cup Holding \cup Screen(Nat) \cup Screen(Text)

\* What a service is asked to do: swap or transfer n base units, or invite.
Call == [op: {"swap", "transfer", "invite"}, from: Voucher \cup {None},
         v: Voucher \cup {None}, n: Nat, to: To \cup {None}]

\* The userdata entries (active .. swapAmount), the flags (multiple .. invalid),
\* the node and the node behind it, and what the last requests put on the
\* screen, asked of the services, or failed with.
Row == [active: Voucher \cup {None, Empty},  \* DATA_ACTIVE_ADDRESS
        raw: BOOLEAN,                        \* DATA_ACTIVE_SYM is as the service spells it
        bal: Nat,                            \* DATA_ACTIVE_BAL
        held: SUBSET Holding,                \* DATA_ORDERED_VOUCHER_*
        listed: SUBSET Holding,              \* DATA_VOUCHER_*
        custom: Holding \cup {None},         \* DATA_TRANSACTION_CUSTOM_VOUCHER
        customState: BOOLEAN,                \* DATA_TRANSACTION_CUSTOM_VOUCHER_STATE
        input: To \cup {None},               \* DATA_RECIPIENT_INPUT
        recipient: To \cup {None},           \* DATA_RECIPIENT
        phone: Recipient \cup {None},        \* DATA_RECIPIENT_PHONE_NUMBER
        amount: Nat \cup {None},            \* DATA_AMOUNT
        temp: Text \cup {None},             \* DATA_TEMPORARY_VALUE
        poolTo: (SUBSET Voucher) \cup {None},  \* DATA_POOL_TO_*
        swapTo: Voucher \cup {None, Empty},  \* DATA_ACTIVE_SWAP_TO_*
        swapMax: Nat,                        \* DATA_ACTIVE_SWAP_MAX_AMOUNT
        swapAmount: Nat \cup {None},         \* DATA_ACTIVE_SWAP_AMOUNT
        multiple: BOOLEAN, noActive: BOOLEAN, swap: BOOLEAN, invalid: BOOLEAN,
        node: Node, behind: Node,
        offered: Screen(Nat) \cup {None}, shown: Screen(Text) \cup {None},
        calls: Seq(Call), error: BOOLEAN]

VARIABLES
  row,     \* the session of the user
  theirs   \* theirs[r]: the active voucher of recipient r

vars == <<row, theirs>>

TypeOK ==
  /\ row \in Row
  /\ theirs \in [Recipient -> Voucher \cup {None, Empty}]

Init ==
  /\ row = [active |-> None, raw |-> TRUE, bal |-> 0, held |-> {}, listed |-> {},
            custom |-> None, customState |-> FALSE, input |-> None,
            recipient |-> None, phone |-> None, amount |-> None, temp |-> None,
            poolTo |-> None, swapTo |-> None, swapMax |-> 0, swapAmount |-> None,
            multiple |-> FALSE, noActive |-> FALSE, swap |-> FALSE,
            invalid |-> FALSE, node |-> "off", behind |-> "off",
            offered |-> None, shown |-> None, calls |-> <<>>, error |-> FALSE]
  /\ theirs = [r \in Recipient |-> None]

-----------------------------------------------------------------------------
(* Helpers *)

\* TruncateDecimalString(x, 2): cut, not rounded.  What the program writes itself,
\* balances and limits, is in decimals.
Truncate(x) == x - (x % Cent)

\* The same of what was typed: two decimals are kept behind the point of the text,
\* and an exponent goes with the rest.
Cut(t) == IF t.digits = None THEN None ELSE Truncate(t.digits)

\* ParseAndScaleAmount: to base units of v.
Scale(x, v) == x * Unit[v]

On(n) == row.node = n
At(s, n) == [s EXCEPT !.node = n]

\* A handler that returns an error: the engine ends the session (_catch).
Failed(s) == [s EXCEPT !.node = "off", !.error = TRUE]

\* Every request starts with no call made, and no error, of its own.
Step(s) == row' = s /\ UNCHANGED theirs
Fresh == [row EXCEPT !.calls = <<>>, !.error = FALSE]

-----------------------------------------------------------------------------
(* The main menu *)

\* The holdings of h as the entries keep them; their order is presentation.
Kept(h) == {h[i] : i \in DOMAIN h}

\* h: the answer of FetchVouchers.  Without holdings nothing but the active
\* voucher changes: the lists and flag_multiple_voucher stay.
ManageVouchers(s, h) ==
  LET match == {i \in DOMAIN h : s.raw /\ h[i].v = s.active}
      a == IF match = {} THEN h[1] ELSE h[CHOOSE i \in match : TRUE]
  IN  IF h = <<>>
      THEN [s EXCEPT !.active = IF @ = None THEN None ELSE Empty,
                     !.bal = 0, !.raw = TRUE, !.noActive = TRUE]
      ELSE [s EXCEPT !.active = a.v, !.bal = a.bal, !.raw = TRUE,
                     !.noActive = FALSE, !.multiple = Len(h) > 1,
                     !.held = Kept(h), !.listed = Kept(h) \ {a}]

\* The stack of nodes is dropped; what was offered and shown is behind the user.
Restarted(s) == [s EXCEPT !.behind = "off", !.offered = None, !.shown = None]

\* main.vis.  Its handler clears the temporary value before it asks for the
\* vouchers.
EnterMain(s, h) ==
  LET c == [Restarted(s) EXCEPT !.temp = None]
  IN  IF h = Down THEN At(c, "api_failure") ELSE At(ManageVouchers(c, h), "main")

\* A request with an empty input, after the end of a session or the target "^":
\* the root script leads to the main menu, or nowhere while the account service
\* is down.  To quit leaves the same row as to dial in vain.
Dial(h) == Step(EnterMain(Fresh, h))
DialInVain == Step(At(Restarted(Fresh), "off"))

\* A recipient uses his own phone: the active voucher of theirs is set by his
\* main menu or by his choice, and cleared when he holds nothing any more.
TheyMove(r, v) ==
  /\ v # None /\ v # theirs[r]
  /\ theirs[r] = None => v # Empty
  /\ theirs' = [theirs EXCEPT ![r] = v]
  /\ UNCHANGED row
=============================================================================
