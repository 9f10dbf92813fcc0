---------------------------- MODULE Registration ----------------------------
(***************************************************************************)
(* From the first call to the main menu: root.vis and what it leads to,    *)
(* the creation of the account and the entries that it leaves in the       *)
(* store.                                                                  *)
(*                                                                         *)
(* The creation is modelled call by call, since the account service takes  *)
(* its time and any write may fail; the other requests are one step.  The  *)
(* events of the network read and write the same entries meanwhile: they   *)
(* are the actions of module Events, which completes this one.             *)
(***************************************************************************)
EXTENDS Integers, FiniteSets

CONSTANTS
  User, Nobody,  \* the sessions, and no session
  Before,        \* Before[u]: the account that u has from before, or 0
  Voucher, None, \* the vouchers of the network, and an entry without value
  MaxAccounts,   \* bound: accounts that the service creates
  MaxFaults      \* bound: calls that fail, sessions that time out at a prompt

ASSUME NullAssumption == Nobody \notin User /\ None \notin Voucher
ASSUME BoundsAssumption == MaxAccounts \in Nat /\ MaxFaults \in Nat

\* An account is its address and its public key in one; 0 is no account.
Account == 1 .. MaxAccounts

ASSUME BeforeAssumption ==
  /\ Before \in [User -> {0} \cup Account]
  /\ \A u, w \in User : Before[u] = Before[w] /\ Before[u] # 0 => u = w

VARIABLES
  row,      \* row[u]: the menu, flags and entries of u
  reverse,  \* reverse[a]: DATA_PUBLIC_KEY_REVERSE, the session of an address
  given,    \* the service: the accounts that it has created
  active,   \* the service: the accounts that are on the chain
  faults    \* faults so far

regVars == <<row, reverse, given, active, faults>>

Prompts == {"select_language", "terms", "create_pin", "confirm_create_pin"}
Node == Prompts \cup
  {"off", "create_account", "account_creation", "account_creation_failed",
   "account_pending", "api_failure", "main"}

Flag == {"language_set", "account_created", "account_creation_failed", "pin_set",
         "account_pending", "account_success", "api_call_error"}

\* The entries of createAccountNoExist, written in the order of a Go map.  The
\* third, the alias, is emptied, which nobody notices, and goes with the first.
Entry == {"tracking_id", "public_key"}

\* new and left: the account that a creation was given and what it has to write.
\* sym: DATA_ACTIVE_SYM; list: the vouchers under the keys of the menus, hasList
\* whether they were ever written.
Row == [node : Node, flags : SUBSET Flag, tracking_id : {0} \cup Account,
        public_key : {0} \cup Account, language : BOOLEAN, pin : BOOLEAN,
        new : {0} \cup Account, left : SUBSET Entry,
        sym : Voucher \cup {None}, list : SUBSET Voucher, hasList : BOOLEAN]

RegTypeOK ==
  /\ row \in [User -> Row]
  /\ reverse \in [Account -> User \cup {Nobody}]
  /\ given \subseteq Account /\ active \subseteq given
  /\ faults \in 0 .. MaxFaults

NewRow ==
  [node |-> "off", flags |-> {}, tracking_id |-> 0, public_key |-> 0,
   language |-> FALSE, pin |-> FALSE, new |-> 0, left |-> {},
   sym |-> None, list |-> {}, hasList |-> FALSE]

\* Somebody who has done all that is below and has not been at the main menu.
SettledRow(a) ==
  [NewRow EXCEPT !.tracking_id = a, !.public_key = a, !.language = TRUE, !.pin = TRUE,
                 !.flags = {"language_set", "account_created", "pin_set"}]

RegInit ==
  /\ row = [u \in User |-> IF Before[u] = 0 THEN NewRow ELSE SettledRow(Before[u])]
  /\ reverse = [a \in Account |-> IF \E u \in User : Before[u] = a
                                 THEN CHOOSE u \in User : Before[u] = a ELSE Nobody]
  /\ given = {Before[u] : u \in User} \ {0} /\ active = given
  /\ faults = 0

-----------------------------------------------------------------------------
(* Handlers *)

Set(r, f) == [r EXCEPT !.flags = @ \cup {f}]
Reset(r, f) == [r EXCEPT !.flags = @ \ {f}]
Has(r, f) == f \in r.flags
Goto(r, n) == [r EXCEPT !.node = n]

\* CheckBlockedStatus, the part about a new user; the lock is in PinMenu.
CheckBlockedStatus(r) ==
  [r EXCEPT !.flags = @ \cup (IF r.pin THEN {"pin_set"} ELSE {})
                        \cup (IF r.language THEN {"language_set"} ELSE {})]

CheckAccountCreated(r) ==
  IF r.public_key = 0
  THEN [r EXCEPT !.flags = @ \ {"language_set", "account_created"}]
  ELSE Set(r, "account_created")

\* CheckAccountStatus; ok says whether the service answers.
CheckAccountStatus(r, ok) ==
  IF ~ok THEN Set(r, "api_call_error")
  ELSE IF r.public_key \in active
  THEN [r EXCEPT !.flags = (@ \cup {"account_success"}) \ {"account_pending", "api_call_error"}]
  ELSE [r EXCEPT !.flags = (@ \cup {"account_pending"}) \ {"account_success", "api_call_error"}]

\* ManageVouchers, when the holdings are H and first is the first of them.  The
\* default is written before the list; a list that is not written is only logged.
ManageVouchers(r, H, first, listed) ==
  IF H = {} THEN r
  ELSE LET sym == IF r.sym \in H THEN r.sym ELSE first
           v == [r EXCEPT !.sym = sym]
       IN  IF listed THEN [v EXCEPT !.list = H \ {sym}, !.hasList = TRUE] ELSE v

-----------------------------------------------------------------------------
(* Scripts: what a node runs up to its HALT *)

\* What goes wrong in a request: a status call, the holdings, the write of the
\* default's symbol, a write of the rest of the default, and that of the list.
Fault == {"status", "holdings", "symbol", "default", "list"}

ApiFailure(r) == Goto(Reset(r, "api_call_error"), "api_failure")

Main(r, H, first, bad) ==
  IF "holdings" \in bad THEN ApiFailure(Set(r, "api_call_error"))
  ELSE LET v == ManageVouchers(Reset(r, "api_call_error"), H, first, "list" \notin bad)
       IN  IF H = {} \/ {"symbol", "default"} \cap bad = {} THEN Goto(v, "main")
           ELSE IF "default" \in bad THEN Goto([r EXCEPT !.sym = v.sym], "off")
           ELSE Goto(r, "off")

AccountPending(r, H, first, bad) ==
  LET v == CheckAccountStatus(r, "status" \notin bad)
  IN  IF Has(v, "account_success") THEN Main(v, H, first, bad)
      ELSE Goto(v, "account_pending")

\* create_pin.vis behind create_account.
CreatePin(r) ==
  Goto(r, IF Has(r, "account_creation_failed") THEN "account_creation_failed"
          ELSE "create_pin")

\* Faulty variants (here and below) only serve to see the properties fail.
CreateAccountAlways(r) == Goto([r EXCEPT !.left = Entry], "create_account")

CreateAccountByEither(r) ==
  IF r.public_key # 0 \/ r.tracking_id # 0 THEN CreatePin(r)
  ELSE Goto([r EXCEPT !.left = Entry], "create_account")

\* create_pin.vis with its LOAD of create_account: CreateAccount does nothing when
\* there is a public key, otherwise it waits for the service.
CreateAccount(r) ==
  IF r.public_key # 0 THEN CreatePin(r)
  ELSE Goto([r EXCEPT !.left = Entry], "create_account")

\* root.vis, without the branches for a locked account and a reset of the PIN.
Root(r, H, first, bad) ==
  LET s == CheckAccountCreated(CheckBlockedStatus(r))
      t == CheckAccountStatus(s, "status" \notin bad)
  IN  IF ~Has(s, "language_set") THEN Goto(s, "select_language")
      ELSE IF ~Has(s, "account_created") THEN Goto(s, "terms")
      ELSE IF ~Has(s, "pin_set") THEN CreateAccount(s)
      ELSE IF Has(t, "api_call_error") THEN ApiFailure(t)
      ELSE IF Has(t, "account_pending") THEN AccountPending(t, H, first, bad)
      ELSE Main(t, H, first, bad)

-----------------------------------------------------------------------------
(* Actions *)

Change(u, r) == row' = [row EXCEPT ![u] = r]
Faulty(n) == faults + n <= MaxFaults /\ faults' = faults + n
Become(u, r) == Change(u, r) /\ UNCHANGED <<reverse, given, active, faults>>

\* A new call, at the end of the one before, with the faults bad; held is what the
\* account of the user holds.
Dial(u, held, bad) ==
  /\ row[u].node \notin Prompts \cup {"create_account"}
  /\ Faulty(Cardinality(bad))
  /\ \E first \in IF held = {} THEN {None} ELSE held :
       Change(u, Root(row[u], held, first, bad))
  /\ UNCHANGED <<reverse, given, active>>

\* The session times out at a prompt.
HangUp(u) ==
  /\ row[u].node \in Prompts
  /\ Faulty(1) /\ Change(u, Goto(row[u], "off"))
  /\ UNCHANGED <<reverse, given, active>>

\* set_eng.vis and set_swa.vis; SetLanguage stores the language.
ChooseLanguage(u) ==
  /\ row[u].node = "select_language"
  /\ LET r == Set([row[u] EXCEPT !.language = TRUE], "language_set")
     IN  Become(u, IF Has(r, "account_created") THEN Goto(r, "off") ELSE Goto(r, "terms"))

Accept(u) ==
  /\ row[u].node = "terms"
  /\ Become(u, CreateAccount(row[u]))

Creating(u) == row[u].node = "create_account"

\* An address that the service has not given yet.
Fresh == CHOOSE a \in Account : a \notin given

\* The answer of the service.
AccountIsGiven(u) ==
  /\ Creating(u) /\ row[u].new = 0 /\ given # Account
  /\ given' = given \cup {Fresh}
  /\ Change(u, [row[u] EXCEPT !.new = Fresh])
  /\ UNCHANGED <<reverse, active, faults>>

\* The call fails; the account may have been created all the same.
CreationFails(u) ==
  /\ Creating(u) /\ row[u].new = 0
  /\ Faulty(1)
  /\ \/ given' = given
     \/ given # Account /\ given' = given \cup {Fresh}
  /\ Change(u, [CreatePin(Set(row[u], "account_creation_failed")) EXCEPT !.left = {}])
  /\ UNCHANGED <<reverse, active>>

WriteEntry(u, e) ==
  /\ Creating(u) /\ row[u].new # 0 /\ e \in row[u].left
  /\ LET r == [row[u] EXCEPT !.left = @ \ {e}]
     IN  Become(u, IF e = "public_key" THEN [r EXCEPT !.public_key = r.new]
                   ELSE [r EXCEPT !.tracking_id = r.new])

WriteReverseAnyTime(u) ==
  /\ Creating(u) /\ row[u].new # 0
  /\ reverse' = [reverse EXCEPT ![row[u].new] = u]
  /\ Change(u, IF row[u].left # {} THEN row[u]
               ELSE CreatePin([Set(Reset(row[u], "account_creation_failed"),
                                   "account_created") EXCEPT !.new = 0]))
  /\ UNCHANGED <<given, active, faults>>

\* The last write; the flags of the handler take effect with its return.
WriteReverse(u) ==
  /\ Creating(u) /\ row[u].new # 0 /\ row[u].left = {}
  /\ reverse' = [reverse EXCEPT ![row[u].new] = u]
  /\ Change(u, CreatePin([Set(Reset(row[u], "account_creation_failed"), "account_created")
                            EXCEPT !.new = 0]))
  /\ UNCHANGED <<given, active, faults>>

\* A write fails, or the process stops: nobody goes on with the rest.
WriteFails(u) ==
  /\ Creating(u) /\ row[u].new # 0
  /\ Faulty(1)
  /\ Change(u, Goto([row[u] EXCEPT !.new = 0, !.left = {}], "off"))
  /\ UNCHANGED <<reverse, given, active>>

\* A PIN and the same again; the wrong ones are in PinMenu.
EnterPin(u) ==
  /\ row[u].node = "create_pin"
  /\ Become(u, Goto(row[u], "confirm_create_pin"))

\* VerifyCreatePin
ConfirmPin(u) ==
  /\ row[u].node = "confirm_create_pin"
  /\ Become(u, Goto(Set([row[u] EXCEPT !.pin = TRUE], "pin_set"), "account_creation"))

\* The network takes the account up.
Activate(a) ==
  /\ a \in given \ active
  /\ active' = active \cup {a}
  /\ UNCHANGED <<row, reverse, given, faults>>

\* What u, or the request that he waits for, does next when nothing stops it.
Go(u, held) ==
  \/ Dial(u, held, {})
  \/ ChooseLanguage(u)
  \/ Accept(u)
  \/ AccountIsGiven(u)
  \/ \E e \in Entry : WriteEntry(u, e)
  \/ WriteReverse(u)
  \/ EnterPin(u)
  \/ ConfirmPin(u)

Stops(u, held) ==
  \/ \E f \in Fault : Dial(u, held, {f})
  \/ HangUp(u)
  \/ CreationFails(u)
  \/ WriteFails(u)
=============================================================================
