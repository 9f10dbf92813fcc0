------------------------------ MODULE PinMenu ------------------------------
(***************************************************************************)
(* The life of an account PIN: its creation, its verification in front of  *)
(* a guarded menu, the count of wrong entries and the lock it leads to,    *)
(* the change of PIN, and the reset of another user's PIN by an admin.     *)
(*                                                                         *)
(* A step is one USSD request: the user answers the menu node the session  *)
(* halted on, and the engine runs the handlers of the scripts (.vis) it    *)
(* passes until the next HALT.  A handler is an operator from the user's   *)
(* row and the input to the row it leaves behind, so that a script that    *)
(* runs two handlers is the composition of two operators.                  *)
(***************************************************************************)
EXTENDS Integers

CONSTANTS
  User,                \* session ids (phone numbers), all registered
  Admins,              \* the users whose session has flag_admin_privilege
  PIN,                 \* the inputs that have the format of a PIN
  NoPin,               \* no PIN stored
  NoUser,              \* no number stored
  AllowedPINAttempts,  \* wrong entries after which an account is locked (3)
  CounterModulus,      \* 2^8: attempts are counted in a uint8
  Typed                \* Typed[u]: what u answers to a prompt

\* The menu answers that matter here; "other" is any text without PIN format.
Key == {"0", "9", "other"}
Input == PIN \cup Key

ASSUME PinAssumption == NoPin \notin PIN /\ PIN \cap Key = {}
ASSUME UserAssumption == NoUser \notin User /\ Admins \subseteq User
ASSUME CounterAssumption ==
  /\ AllowedPINAttempts \in Nat /\ CounterModulus \in Nat
  /\ 0 < AllowedPINAttempts /\ AllowedPINAttempts < CounterModulus
ASSUME TypedAssumption == Typed \in [User -> SUBSET Input]

Flag == {"account_authorized", "incorrect_pin", "invalid_pin",
         "pin_mismatch", "account_blocked"}

\* Nodes a session halts on.  "amount" stands for the menus in front of a PIN
\* prompt that loads its guard before the HALT (pin_early), "pin_late" for the
\* prompts that load it after (pin_late_again once it is loaded in that frame);
\* "initiated" for the guarded nodes behind them.
\* confirm_self_reset is confirm_pin_change reached from self_reset_pin.
Node == {"off", "main", "my_account", "balances", "my_balance", "pin_entry",
         "check_statement", "transactions", "amount", "pin_early", "pin_late",
         "pin_late_again", "initiated", "incorrect_pin", "blocked_account", "create_pin",
         "confirm_create_pin", "pin_management", "old_pin", "new_pin",
         "confirm_pin_change", "confirm_self_reset", "pin_mismatch",
         "invalid_pin", "pin_reset_success", "self_reset_pin",
         "enter_other_number", "unregistered_number", "no_admin_privilege",
         "authorize_reset_others_pin", "pin_reset_result"}

\* A user's row: the entries of the userdata store (pin .. blockedNumber) and
\* the engine state kept with the session: the flags, the node it halted on and,
\* on an error screen, the node that "retry" goes back to.  An absent
\* DATA_INCORRECT_PIN_ATTEMPTS reads as 0, an absent or empty temporary value
\* as NoPin.
Row == [pin: PIN \cup {NoPin}, temp: PIN \cup {NoPin},
        attempts: 0 .. CounterModulus - 1, selfReset: BOOLEAN,
        blockedNumber: User \cup {NoUser},
        flags: SUBSET Flag, node: Node, back: Node]

VARIABLE row    \* row[u]: what the store and the persister hold of u

vars == <<row>>

TypeOK == row \in [User -> Row]

Init ==
  row = [u \in User |-> [pin |-> NoPin, temp |-> NoPin, attempts |-> 0,
                         selfReset |-> FALSE, blockedNumber |-> NoUser,
                         flags |-> {}, node |-> "off", back |-> "off"]]

-----------------------------------------------------------------------------
(* Handlers *)

SetFlags(s, F) == [s EXCEPT !.flags = @ \cup F]
ResetFlags(s, F) == [s EXCEPT !.flags = @ \ F]
At(s, n) == [s EXCEPT !.node = n, !.back = "off"]
ErrorAt(s, n, from) == [s EXCEPT !.node = n, !.back = from]
Has(s, f) == f \in s.flags

\* pin.AllowedPINAttempts - uint8(attempts), in uint8 arithmetic.
Remaining(n) == (AllowedPINAttempts - n) % CounterModulus

\* Faulty variants (here and below) only serve to see the properties fail.
ResetIncorrectPinOffByOne(s) ==
  LET r == ResetFlags(s, {"incorrect_pin"})
  IN  IF s.attempts > AllowedPINAttempts THEN SetFlags(r, {"account_blocked"}) ELSE r

ResetIncorrectPin(s) ==
  LET r == ResetFlags(s, {"incorrect_pin"})
  IN  IF Remaining(s.attempts) = 0 THEN SetFlags(r, {"account_blocked"}) ELSE r

AuthorizeWithoutWrap(s, in) ==
  IF in \notin PIN THEN ResetFlags(s, {"account_authorized"})
  ELSE IF in = s.pin
  THEN [s EXCEPT !.flags = (@ \ {"incorrect_pin"}) \cup {"account_authorized"},
                 !.attempts = 0]
  ELSE [s EXCEPT !.flags = (@ \ {"account_authorized"}) \cup {"incorrect_pin"},
                 !.attempts = @ + 1]

Authorize(s, in) ==
  IF in \notin PIN THEN ResetFlags(s, {"account_authorized"})
  ELSE IF in = s.pin
  THEN [s EXCEPT !.flags = (@ \ {"incorrect_pin"}) \cup {"account_authorized"},
                 !.attempts = 0]
  ELSE [s EXCEPT !.flags = (@ \ {"account_authorized"}) \cup {"incorrect_pin"},
                 !.attempts = (@ + 1) % CounterModulus]

SaveTemporaryPinNotStored(s, in) ==
  IF in = "0" THEN s
  ELSE IF in \notin PIN THEN SetFlags(s, {"invalid_pin"})
  ELSE ResetFlags(s, {"invalid_pin"})

SaveTemporaryPin(s, in) ==
  IF in = "0" THEN s
  ELSE IF in \notin PIN THEN SetFlags(s, {"invalid_pin"})
  ELSE [s EXCEPT !.flags = @ \ {"invalid_pin"}, !.temp = in]

ConfirmPinChangeClearsFirst(s, in) ==
  LET r == [s EXCEPT !.selfReset = FALSE]
  IN  IF in # s.temp THEN SetFlags(r, {"pin_mismatch"})
      ELSE [r EXCEPT !.flags = @ \ {"pin_mismatch"}, !.pin = s.temp]

\* ConfirmPinChange with a temporary value to compare with.
ConfirmPinChange(s, in) ==
  IF in # s.temp THEN SetFlags(s, {"pin_mismatch"})
  ELSE [s EXCEPT !.flags = @ \ {"pin_mismatch"}, !.pin = s.temp,
                 !.selfReset = FALSE]

VerifyCreatePin(s, in) ==
  IF in # s.temp THEN SetFlags(s, {"pin_mismatch"})
  ELSE [s EXCEPT !.flags = @ \ {"pin_mismatch"}, !.pin = s.temp]

CheckBlockedStatusAlwaysUnlocks(s) == ResetFlags(s, {"account_blocked"})

CheckBlockedStatus(s) ==
  IF s.attempts = 0 THEN ResetFlags(s, {"account_blocked"}) ELSE s

Quit(s) == At(ResetFlags(s, {"account_authorized"}), "off")

-----------------------------------------------------------------------------
(* Scripts: what entering a node runs before its HALT *)

\* root.vis.  up: the account and voucher services answer.  flag_pin_set and
\* flag_account_pin_reset are recomputed from the store here.
EnterRoot(s, up) ==
  LET r == CheckBlockedStatus(s)
  IN  IF r.selfReset THEN At(ResetFlags(r, {"invalid_pin"}), "self_reset_pin")
      ELSE IF Has(r, "account_blocked") THEN At(r, "blocked_account")
      ELSE IF r.pin = NoPin THEN At(r, "create_pin")
      ELSE IF up THEN At([r EXCEPT !.temp = NoPin], "main")
      ELSE At(r, "off")

\* incorrect_pin.vis, entered by CATCH from the node n.
EnterIncorrectPin(s, n) ==
  LET r == ResetIncorrectPin(s)
  IN  IF Has(r, "account_blocked") THEN At(r, "blocked_account")
      ELSE ErrorAt(r, "incorrect_pin", n)

\* invalid_pin.vis, entered by CATCH from the node n.
EnterInvalidPin(s, n) ==
  ErrorAt(ResetFlags(s, {"invalid_pin"}), "invalid_pin", n)

EnterPinManagement(s) ==
  At(ResetFlags(ResetIncorrectPin(s), {"invalid_pin"}), "pin_management")

EnterOldPin(s) == At(ResetIncorrectPin(s), "old_pin")

EnterOtherNumber(s) ==
  At(ResetFlags(s, {"account_authorized"}), "enter_other_number")

EnterBalances(s) == At(ResetFlags(s, {"account_authorized"}), "balances")

\* my_balance.vis: shows the balance to an authorized session only.
EnterMyBalance(s) ==
  IF Has(s, "incorrect_pin") THEN EnterIncorrectPin(s, "pin_entry")
  ELSE IF Has(s, "account_authorized") THEN At(s, "my_balance")
  ELSE At(s, "pin_entry")

\* The target "_": the script of the parent node n runs again.
Resume(s, n) ==
  IF n = "old_pin" THEN EnterOldPin(s)
  ELSE IF n = "enter_other_number" THEN EnterOtherNumber(s)
  ELSE At(s, n)

-----------------------------------------------------------------------------
(* Requests *)

Step(u, s) == row' = [row EXCEPT ![u] = s]
On(u, n) == row[u].node = n

\* A request with an empty input restarts the session at the root, whatever
\* it halted on; a request after the end of a session does so too.
Dial(u, up) == Step(u, EnterRoot(row[u], up))

\* The target "^" of the nodes that offer a way back to the top.
BackToTop(u, up) ==
  /\ row[u].node \in {"my_account", "transactions", "pin_reset_success",
                      "pin_reset_result", "no_admin_privilege"}
  /\ Step(u, EnterRoot(row[u], up))

QuitMenu(u) ==
  /\ row[u].node \in {"main", "my_balance", "transactions", "incorrect_pin", "invalid_pin",
                      "pin_mismatch", "create_pin", "pin_reset_success",
                      "pin_reset_result", "no_admin_privilege",
                      "unregistered_number"}
  /\ Step(u, Quit(row[u]))

\* The menu choices that lead from one node to the next.
OpenMyAccount(u) ==
  /\ On(u, "main")
  /\ Step(u, At(Authorize(row[u], "other"), "my_account"))

OpenBalances(u) ==
  /\ row[u].node \in {"my_account", "my_balance"}
  /\ Step(u, EnterBalances(row[u]))

OpenMyBalance(u) ==
  /\ On(u, "balances")
  /\ Step(u, EnterMyBalance(ResetIncorrectPin(row[u])))

OpenStatement(u) ==
  /\ On(u, "my_account")
  /\ Step(u, At(row[u], "check_statement"))

OpenPinManagement(u) ==
  /\ On(u, "my_account")
  /\ Step(u, EnterPinManagement(row[u]))

LeaveMenu(u) ==
  \/ /\ row[u].node \in {"balances", "pin_management"}
     /\ Step(u, At(row[u], "my_account"))
  \/ /\ On(u, "amount")
     /\ Step(u, At(row[u], "main"))

ChooseOldPin(u) == On(u, "pin_management") /\ Step(u, EnterOldPin(row[u]))

ChooseResetOthersPin(u) ==
  /\ On(u, "pin_management")
  /\ \/ u \notin Admins /\ Step(u, At(row[u], "no_admin_privilege"))
     \/ u \in Admins /\ Step(u, EnterOtherNumber(row[u]))

ChooseAmount(u) == On(u, "main") /\ Step(u, At(row[u], "amount"))

\* The input that leads to a pin_early node is handed to the guard as well.
EnterPinEarly(u, in) ==
  /\ On(u, "amount")
  /\ in # "0"
  /\ Step(u, At(Authorize(row[u], in), "pin_early"))

EnterPinLate(u) == On(u, "main") /\ Step(u, At(row[u], "pin_late"))

Retry(u) ==
  /\ row[u].node \in {"incorrect_pin", "invalid_pin", "pin_mismatch",
                      "unregistered_number"}
  /\ Step(u, Resume(row[u], row[u].back))

-----------------------------------------------------------------------------
(* PIN prompts *)

EnterInitiatedUnguarded(s, n, ok) ==
  IF ok THEN At(ResetFlags(ResetIncorrectPin(s), {"account_authorized"}), "initiated")
  ELSE At(ResetIncorrectPin(s), "initiated")

\* The guarded node behind a PIN prompt: reset_incorrect_pin is loaded, then
\* CATCH _ flag_account_authorized 0.  ok: the service accepted the request;
\* only then does the handler reset the authorization.
EnterInitiated(s, n, ok) ==
  LET r == ResetIncorrectPin(s)
  IN  IF ~Has(r, "account_authorized") THEN At(r, n)
      ELSE IF ok THEN At(ResetFlags(r, {"account_authorized"}), "initiated")
      ELSE At(r, "initiated")

\* The script after the HALT of a PIN prompt n, once the guard left row s.
AfterGuard(u, n, parent, s, in, ok) ==
  \/ Has(s, "incorrect_pin") /\ Step(u, EnterIncorrectPin(s, n))
  \/ ~Has(s, "incorrect_pin") /\ in = "0" /\ Step(u, Resume(s, parent))
  \/ ~Has(s, "incorrect_pin") /\ in = "9" /\ Step(u, Quit(s))
  \/ /\ ~Has(s, "incorrect_pin") /\ in \notin {"0", "9"}
     /\ Step(u, EnterInitiated(s, n, ok))

PinEarly(u, in, ok) ==
  /\ On(u, "pin_early")
  /\ AfterGuard(u, "pin_early", "amount", Authorize(row[u], in), in, ok)

\* LOAD then RELOAD after the HALT: the guard runs twice on the first answer,
\* and once on the answers to come while the frame keeps it loaded.
PinLate(u, in, ok) ==
  \/ /\ On(u, "pin_late")
     /\ AfterGuard(u, "pin_late_again", "main",
                   Authorize(Authorize(row[u], in), in), in, ok)
  \/ /\ On(u, "pin_late_again")
     /\ AfterGuard(u, "pin_late_again", "main", Authorize(row[u], in), in, ok)

PinEntry(u, in) ==
  /\ On(u, "pin_entry")
  /\ Step(u, EnterMyBalance(Authorize(row[u], in)))

CheckStatement(u, in) ==
  LET s == Authorize(row[u], in)
  IN  /\ On(u, "check_statement")
      /\ \/ Has(s, "incorrect_pin") /\ Step(u, EnterIncorrectPin(s, "check_statement"))
         \/ ~Has(s, "incorrect_pin") /\ in = "0" /\ Step(u, At(s, "my_account"))
         \/ ~Has(s, "incorrect_pin") /\ in = "9" /\ Step(u, Quit(s))
         \/ /\ ~Has(s, "incorrect_pin") /\ in \notin {"0", "9"}
            /\ Step(u, At(s, "transactions"))

-----------------------------------------------------------------------------
(* Creating and changing a PIN *)

CreatePin(u, in) ==
  LET s == SaveTemporaryPin(row[u], in)
  IN  /\ On(u, "create_pin") /\ in # "0"
      /\ \/ Has(s, "invalid_pin") /\ Step(u, EnterInvalidPin(s, "create_pin"))
         \/ ~Has(s, "invalid_pin") /\ Step(u, At(s, "confirm_create_pin"))

ConfirmCreatePin(u, in) ==
  LET s == VerifyCreatePin(row[u], in)
  IN  /\ On(u, "confirm_create_pin")
      /\ \/ in = "0" /\ Step(u, At(row[u], "create_pin"))
         \/ /\ in # "0" /\ Has(s, "pin_mismatch")
            /\ Step(u, ErrorAt(s, "pin_mismatch", "confirm_create_pin"))
         \/ in # "0" /\ ~Has(s, "pin_mismatch") /\ Step(u, Quit(s))

\* The old PIN is checked by flag_incorrect_pin and flag_invalid_pin.
OldPin(u, in) ==
  LET s == Authorize(row[u], in)
  IN  /\ On(u, "old_pin")
      /\ \/ in = "0" /\ Step(u, At(row[u], "pin_management"))
         \/ /\ in # "0" /\ Has(s, "incorrect_pin")
            /\ Step(u, EnterIncorrectPin(s, "old_pin"))
         \/ /\ in # "0" /\ ~Has(s, "incorrect_pin") /\ Has(s, "invalid_pin")
            /\ Step(u, EnterInvalidPin(s, "old_pin"))
         \/ /\ in # "0" /\ ~Has(s, "incorrect_pin") /\ ~Has(s, "invalid_pin")
            /\ Step(u, At(s, "new_pin"))

NewPin(u, in) ==
  LET s == SaveTemporaryPin(row[u], in)
  IN  /\ On(u, "new_pin")
      /\ \/ in = "0" /\ Step(u, EnterOldPin(row[u]))
         \/ in # "0" /\ Has(s, "invalid_pin") /\ Step(u, EnterInvalidPin(s, "new_pin"))
         \/ in # "0" /\ ~Has(s, "invalid_pin") /\ Step(u, At(s, "confirm_pin_change"))

\* Here "0" is not a way back: the PIN stays as it was and the prompt to
\* confirm it follows.
SelfResetPin(u, in) ==
  LET s == SaveTemporaryPin(row[u], in)
  IN  /\ On(u, "self_reset_pin")
      /\ \/ Has(s, "invalid_pin") /\ Step(u, EnterInvalidPin(s, "self_reset_pin"))
         \/ ~Has(s, "invalid_pin") /\ Step(u, At(s, "confirm_self_reset"))

\* Without a temporary value the handler fails and the session ends (_catch).
ConfirmNewPin(u, in) ==
  LET n == row[u].node
      s == ConfirmPinChange(row[u], in)
  IN  /\ n \in {"confirm_pin_change", "confirm_self_reset"}
      /\ \/ in = "0" /\ n = "confirm_pin_change" /\ Step(u, At(row[u], "new_pin"))
         \/ in = "0" /\ n = "confirm_self_reset" /\ Step(u, At(row[u], "self_reset_pin"))
         \/ in # "0" /\ row[u].temp = NoPin /\ Step(u, At(row[u], "off"))
         \/ /\ in # "0" /\ row[u].temp # NoPin /\ Has(s, "pin_mismatch")
            /\ Step(u, ErrorAt(s, "pin_mismatch", n))
         \/ /\ in # "0" /\ row[u].temp # NoPin /\ ~Has(s, "pin_mismatch")
            /\ Step(u, At(s, "pin_reset_success"))

-----------------------------------------------------------------------------
(* Resetting another user's PIN *)

\* num: the registered user whose number is typed, or NoUser for a number
\* that is malformed or not registered.
EnterNumber(u, num) ==
  /\ On(u, "enter_other_number")
  /\ \/ /\ num \in User
        /\ Step(u, [At(row[u], "authorize_reset_others_pin")
                      EXCEPT !.blockedNumber = num])
     \/ /\ num = NoUser
        /\ Step(u, ErrorAt(row[u], "unregistered_number", "enter_other_number"))

LeaveNumber(u) ==
  On(u, "enter_other_number") /\ Step(u, At(row[u], "pin_management"))

ResetOthersPin(u, s) ==
  LET t == s.blockedNumber
      entered == At(s, "pin_reset_result")
  IN  row' = [[row EXCEPT ![u] = entered] EXCEPT
                ![t].selfReset = TRUE, ![t].attempts = 0]

AuthorizeResetUnguarded(u, in) ==
  LET s == Authorize(row[u], in)
  IN  /\ On(u, "authorize_reset_others_pin")
      /\ \/ /\ Has(s, "incorrect_pin")
            /\ Step(u, EnterIncorrectPin(s, "authorize_reset_others_pin"))
         \/ ~Has(s, "incorrect_pin") /\ in = "0" /\ Step(u, EnterOtherNumber(s))
         \/ ~Has(s, "incorrect_pin") /\ in = "9" /\ Step(u, Quit(s))
         \/ /\ ~Has(s, "incorrect_pin") /\ in \notin {"0", "9"}
            /\ ResetOthersPin(u, s)

AuthorizeReset(u, in) ==
  LET s == Authorize(row[u], in)
  IN  /\ On(u, "authorize_reset_others_pin")
      /\ \/ /\ Has(s, "incorrect_pin")
            /\ Step(u, EnterIncorrectPin(s, "authorize_reset_others_pin"))
         \/ ~Has(s, "incorrect_pin") /\ in = "0" /\ Step(u, EnterOtherNumber(s))
         \/ ~Has(s, "incorrect_pin") /\ in = "9" /\ Step(u, Quit(s))
         \/ /\ ~Has(s, "incorrect_pin") /\ in \notin {"0", "9"}
            /\ ~Has(s, "account_authorized")
            /\ Step(u, s)
         \/ /\ ~Has(s, "incorrect_pin") /\ in \notin {"0", "9"}
            /\ Has(s, "account_authorized")
            /\ ResetOthersPin(u, s)

-----------------------------------------------------------------------------
Navigate(u) ==
  \/ QuitMenu(u) \/ OpenMyAccount(u) \/ OpenBalances(u) \/ OpenMyBalance(u)
  \/ OpenStatement(u) \/ OpenPinManagement(u) \/ LeaveMenu(u)
  \/ ChooseOldPin(u) \/ ChooseResetOthersPin(u) \/ ChooseAmount(u)
  \/ EnterPinLate(u) \/ Retry(u) \/ LeaveNumber(u)

Answer(u, in) ==
  \/ EnterPinEarly(u, in) \/ PinEntry(u, in) \/ CheckStatement(u, in)
  \/ CreatePin(u, in) \/ ConfirmCreatePin(u, in) \/ OldPin(u, in)
  \/ NewPin(u, in) \/ SelfResetPin(u, in) \/ ConfirmNewPin(u, in)
  \/ AuthorizeReset(u, in)

Next ==
  \E u \in User :
    \/ Navigate(u)
    \/ \E up \in BOOLEAN : Dial(u, up) \/ BackToTop(u, up)
    \/ \E in \in Typed[u] : Answer(u, in)
    \/ \E in \in Typed[u], ok \in BOOLEAN : PinEarly(u, in, ok) \/ PinLate(u, in, ok)
    \/ \E num \in User \cup {NoUser} : EnterNumber(u, num)

Spec == Init /\ [][Next]_vars

-----------------------------------------------------------------------------
(* Properties *)

\* A count at the limit that the user has been shown (flag_incorrect_pin is
\* reset by ResetIncorrectPin) has locked the account: no order of prompts,
\* early exits and retries gets past the screen without the lock.
LimitBlocks ==
  \A u \in User :
    row[u].attempts = AllowedPINAttempts /\ ~Has(row[u], "incorrect_pin")
      => Has(row[u], "account_blocked")

\* A guarded operation starts from a PIN that was right at its own prompt: no
\* wrong entry is pending, whatever flags earlier sessions left behind.
InitiatedIsClean ==
  \A u \in User : On(u, "initiated") =>
    row[u].attempts = 0 /\ ~Has(row[u], "incorrect_pin")

\* Who creates or changes a PIN and is asked to confirm it has entered one: the
\* temporary value that the confirmation compares with survives mistakes, retries and
\* what others do meanwhile.  A reset has no such promise: "0" at its prompt stores
\* nothing and leads on to the confirmation.  There, as at the prompt, the reset is
\* still marked, so that a confirmation that fails for want of a candidate, or is
\* abandoned, leads back to the prompt at the next dial and lets nobody off.
ConfirmHasCandidate ==
  \A u \in User :
    LET at == {row[u].node, row[u].back}
    IN  /\ at \cap {"confirm_create_pin", "confirm_pin_change"} # {} => row[u].temp # NoPin
        /\ at \cap {"self_reset_pin", "confirm_self_reset"} # {} => row[u].selfReset

\* A PIN reset is marked for exactly the number that an admin was shown and
\* confirmed with the right PIN; nothing else marks one.
ResetAsConfirmed ==
  [][\A u \in User :
       row'[u].selfReset /\ ~row[u].selfReset =>
         \E a \in Admins :
           /\ On(a, "authorize_reset_others_pin") /\ row[a].blockedNumber = u
           /\ row'[a].node = "pin_reset_result"
           /\ Has(row'[a], "account_authorized")]_vars

\* A session that ended on the lock screen gets nowhere else, however often
\* the user dials, until the count is back at zero or a reset is marked; both
\* are out of the locked user's reach.
LockedUntilReset ==
  [][\A u \in User :
       On(u, "blocked_account") /\ row'[u].node # "blocked_account"
         => row[u].attempts = 0 \/ row[u].selfReset]_vars

\* What pp.csv:31 says of flag_account_blocked: it is set once the allowed
\* attempts have been used up.
LockoutHolds ==
  \A u \in User :
    row[u].attempts >= AllowedPINAttempts /\ ~Has(row[u], "incorrect_pin")
      => Has(row[u], "account_blocked")
=============================================================================
