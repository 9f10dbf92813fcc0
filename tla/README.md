# Verification of sarafu-vise

TLA+ models of sarafu-vise, the Go service behind a USSD wallet for community
vouchers, with the TLC configurations that check them and TLAPS proofs.

## The system

A user dials, gets a menu, and answers it with short inputs.  Each request is
one step of an engine (go-vise, external) that interprets the scripts in
`src/services/registration/*.vis`.  A script names handlers (`LOAD`, `RELOAD`),
branches on flags (`CATCH node flag value`) and on the input (`INCMP node key`),
and waits at `HALT`.  The handlers are methods of `MenuHandlers`
(`src/handlers/application`), bound to their names in `src/handlers/local.go`.

What matters of the engine:

* `LOAD` runs a handler unless its result is cached in a frame of the menu
  stack; `RELOAD` always runs it.  So a handler may run on an input that was
  typed at an earlier prompt, or twice on one input.
* flags persist with the session across requests, menus and dials; the resets
  of a handler are applied before its sets.
* target `_` pops a frame and reruns the parent's script, `^` rewinds to the
  root, `.` stays; a handler that returns an error ends the session and its
  flags are not applied; an empty input restarts at the root.

### Inventory

| Part | State | Operations | What makes it hard, what makes it correct |
|---|---|---|---|
| PIN and lock (`pin.go`, `authorization.go`, `account_status.go`) | PIN, temporary PIN, wrong entries, reset mark, blocked number; five flags | create, verify, change, reset by oneself, reset by an admin, lock | handlers that run early or twice; uint8 count; flags left by other menus.  A lock must hold, a guarded node needs a right PIN, a reset hits the number shown |
| Credit send (`send.go`, `upsell.go`) | recipient, amount, transaction type, chosen voucher, swap-to voucher, limits | validate the recipient, choose a voucher, limit, preview, transfer, swap and transfer, invite | entries shared with other menus and never cleared; the recipient changes his voucher meanwhile; two calls in a row.  What is sent is what was confirmed |
| Pool swap (`poolswap.go`, `store/swap.go`) | swap-to list and voucher, maximum, amount | list, limit, preview, swap | stale list and amount |
| Vouchers (`vouchers.go`, `store/vouchers.go`) | holdings, ordered holdings, active voucher | refresh, view, set, choose | sanitized symbols, an entry shared with credit send |
| User data store (`store/user_store.go`, `store/db`) | a database object with a current session | `ReadEntry`, `WriteEntry`, prefixed get and put | the session is set in one step and used in the next, on an object shared by all requests of a server |
| Statements (`transactions.go`) | eight columns of the last transactions | fetch and store, list, view | columns written one by one; own rows only, all of one fetch |
| Events (`handlers/event`) | the same entries as the menus | transfer, mint, registration | arrive at any time, from another process |
| Pools, pool deposit, pay debt, M-Pesa | active pool, swap-from and swap-to, amounts, quotes | choose, limit, preview, initiate | share entries with credit send; quotes that fail |
| Registration (`registration.go`) | tracking id, public key, alias, reverse key | create an account | writes in map order, no repair |
| Alias, profile, language, balances | alias, six profile entries with a shared buffer | request, edit, show | repeated requests; one buffer for all sessions |
| Admin command (`internal/cmd`) | flags of a session | set and reset the privilege | load, change and save over a live session |
| Front ends (`cmd`, `ssh`) | connections, one handler object per server | serve | wiring only |

`PROJECT.json` lists the parts with their files and, under `hazards`, the lines
where each difficulty bites.

## Modules

| Module | Models |
|---|---|
| `PinMenu` | the PIN handlers and the menu nodes around them, for several users |
| `MCPinMenu` | its instance for TLC |
| `PinMenu_proofs` | the inductive invariant of `PinMenu` and the theorems |
| `Wallet` | the entries and flags that the voucher menus share, the refresh of the holdings at the main menu, the recipients' own changes |
| `VoucherMenu`, `CreditSend`, `PoolSwap` | one menu each, on the state of `Wallet` |
| `Transfers` | the three menus together, the properties |
| `MCTransfers` | its instance for TLC |
| `Transfers_proofs` | the inductive invariant of `Transfers` and the theorems |
| `StatementService` | what the statement menu promises: a user sees a number of his own transactions that were really made, never fewer than he has seen |
| `Statements` | the handlers of the statement, call by call, on the database objects that requests share; shown to implement `StatementService` |
| `MCStatements` | its instance for TLC |
| `Statements_proofs` | the inductive invariant of `Statements`, the theorems and the refinement of `StatementService` |
| `Profile` | the six prompts of the profile menu with the buffer that all sessions share |
| `MCProfile` | its instance for TLC |
| `Profile_proofs` | the inductive invariant of `Profile` and the theorems |
| `Accounts` | what registration promises: at most one account for a user, nobody else's, and an address that leads to the user it was given to |
| `Registration` | the scripts from the first call to the main menu, and the creation of an account call by call |
| `Registration_proofs` | what every step of a registration preserves: the lemmas for the theorems of `Events_proofs` |
| `Events` | the handlers of transfers and mints, call by call, on the entries of `Registration`; the properties, the fairness; shown to implement `Accounts` |
| `MCEvents` | the instance of both for TLC |
| `Events_proofs` | the inductive invariant of `Events`, the theorems about it and the refinement of `Accounts` |
| `Cash` | the entries and flags of the menus about cash and pools, the main menu and the M-Pesa menu |
| `Mpesa`, `PoolMenus` | withdrawal and purchase; choice of a pool, deposit and debt; on the state of `Cash` |
| `CashFlows` | those menus together, the properties |
| `MCCashFlows` | its instance for TLC |
| `CashFlows_proofs` | the inductive invariant of `CashFlows` and the theorems |

### How to read them

In `PinMenu`, `Transfers`, `Profile` and `CashFlows` a step is one request.  The
state is a row per user: the userdata entries, the flags and the node on which the
session halted.  A handler is an operator from a
row (and the input, and the answers of the services) to a row; an `Enter...`
operator is what a script does up to its `HALT`, and an action is what happens
from an input to the next `HALT`.  So a script that runs three handlers is a
composition of three operators, in the order of the script.

Services answer nondeterministically, or fail (`Down`).  PINs, vouchers and
recipients are members of small sets; hashing is left out (a stored PIN is
compared by equality), and so are wording, languages and logging.

Amounts are naturals in units of which `Cent` make 0.01, so that `Truncate` loses
digits; `Unit[v]` scales to base units.  What a user of `Transfers` types is a
`Text`: the value that `ParseFloat` makes of it, which the handlers compare, and the
digits in front of its exponent, since `TruncateDecimalString` cuts the text and with
it the exponent (`Cut`).  "99.00e-1" has the value 9.9 and the digits 99; "1.5e1" and
"1e1" are cut to, or padded into, what is no number (`digits` is `None`).  `Truncate`
is for what the program has formatted itself, where there is no exponent.  In `Cash`
there is no `Text`: deposit and debt scale what was typed without a cut, and the
M-Pesa menu cuts what it has formatted.  `Scale` leaves out the rounding of
`Text('f', 0)` for a voucher with fewer than two decimals, and float64 is taken as
exact; a negative amount is refused as too small where there is a least amount, and
is not modelled elsewhere.

Correspondence in `PinMenu`: `Authorize`, `ResetIncorrectPin`,
`SaveTemporaryPin`, `ConfirmPinChange`, `VerifyCreatePin`, `CheckBlockedStatus`
are the handlers of the same name.  The two PIN prompts `pin_early` and
`pin_late` stand for the guarded menus: `transaction_pin.vis`,
`transaction_swap.vis`, `swap_preview.vis`, `view_voucher.vis` and
`view_pool.vis` load `authorize_account` before the `HALT`;
`pool_deposit_confirmation.vis`, `confirm_debt_removal.vis` and the M-Pesa
confirmations load and reload it after.  `pin_late_again` is the latter once the
handler is cached in its frame.

Correspondence in `Transfers`: each menu's nodes carry the names of their
scripts.  The PIN of a confirmation is taken to be right (a wrong one leads back
to the same prompt, which is `PinMenu`'s subject).  The fields `offered`,
`shown` and `calls` of a row are what the user was last offered, what the
confirmation displayed, and what the services were asked for; the properties
relate them.  `transactionType` (`DATA_SEND_TRANSACTION_TYPE`) is written and
then overwritten by `MaxAmount` from the stored swap-to voucher, hence left out.

Correspondence in `Statements`: here a step is one call on the database object
(`store/db`) or to the service.  `ReadEntry` is `SetSession` and then `GetKey`;
`CheckTransactions` goes on with `FetchTransactions` and one `Put` per column,
in any order, since it walks a Go map; `GetTransactionsList` and
`ViewTransactionStatement` are the `Get`s and `Show`.  `SubPrefixDb` sets no
session, so `Put` and `Get` use `Session(q)`, whatever it is by then.  A column is
represented by the fetch it was made from.  The constant `Exclusive` says that a
database object serves one request at a time: it does in `ssh/ssh.go`, which
makes one per connection, and in `cmd/main.go` and `cmd/async`, which serve one
session; it does not in `cmd/http` and `cmd/africastalking`, whose goroutines
share one.  A user sends the next input after the answer to the one before
(`~Waiting(u)`): USSD is a dialogue.

Correspondence in `Profile`: the six entries go by the names of their prompts.  An
answer carries who typed it, for which prompt, and a text, so that the properties
can tell whose it is.  A row has the stored entries, the temporary value
(`temp`), the flags of the entries (`set`), `flag_allow_update`, `flag_incorrect_pin`
(`wrong`) and the stack of frames (`path`), since `_` runs the parent's script
again and a handler loaded in a frame is cached with it (`loaded`).  `buffer` is
`h.profile.ProfileItems` of the one `MenuHandlers` object; handlers and scripts are
operators on the pair of a row and the buffer.  `Prompt` is `edit_*.vis`,
`Continue` the chain of `CATCH`es behind an answer, `Save` the six save handlers,
`UpdateAllProfileItems` the bulk update.  A handler error ends the session
(`Fail`).  Which PIN is typed is `PinMenu`'s subject: here it is right, wrong or
no PIN.

Correspondence in `Registration` and `Events`: an account is a number that stands
for its address and its public key.  `Root`, `CreatePin`, `AccountPending` and
`Main` are the scripts of these names.  `CreateAccount` waits for the service, so
its creation is several steps: `AccountIsGiven`, `WriteEntry` in any order (the code
walks a map), `WriteReverse`, any of which may fail; the other requests are one
step.  Of the main menu `ManageVouchers` is modelled, since the events read what it
writes.  The event handler has a row of its own, `work`; `Identify`,
`UpdateTokenList`, `ReadActiveSym`, `UpdateDefaultToken` and
`UpdateTokenTransferList` are the calls of `HandleTokenTransfer` and
`HandleTokenMint` for one side.  Where the code indexes what is not there, the
event fails like one whose call fails.  There is one handler at a time.  Who
delivers events is outside the repository (external in the map): an event stays
`pending` until it is acknowledged, and no order is kept.  `MaxFaults` bounds the
calls, writes and sessions that fail, `MaxEvents` the movements, `MaxAccounts` the
accounts.

Correspondence in `CashFlows`: one user, and handlers are operators from a row to
the set of rows that they may leave.  `Twice` is a handler that a script both
loads and reloads, so that the services are asked twice, perhaps with different
answers.  `UseCreditSend`, `UsePoolSwap` and `UseVouchers` stand for a visit to a
menu of `Transfers` in one step: they write what those menus leave in the entries
that are shared.  The PIN is right.  `shown` is what a confirmation displayed and
`calls` what the services were asked for, in base units.  A withdrawal that needs a swap
stores the input and the output of the quote as the service gives them
(`mpesa.go:372`): both are any of `Answers`, whatever was asked for.  A quote's two
decimals on the screen of the M-Pesa preview, and wording, are left out.

## Checks

`tlc -config X.cfg M` for the pairs below.

### `PinMenu` (`MCPinMenu`, `PinMenu.cfg`)

A user who types anything, and an administrator who types one PIN, `0`, or text
that is no PIN; two PINs, a limit of 2 and a counter modulo 4: about 990,000
distinct states.  The real values are 3 and 2^8.  The small ones keep every case:
a count below the limit, at it, stepped over it by a prompt that counts twice, and
wrapped round.  Both are constants, and the proofs hold for every value.

| Property | Says |
|---|---|
| `TypeOK` | the types, among them that the counter stays in its width |
| `LimitBlocks` | a count at the limit that has been shown has locked the account |
| `InitiatedIsClean` | a guarded operation starts with no wrong entry pending |
| `ConfirmHasCandidate` | who confirms a PIN that he creates or changes has one to confirm; up to the confirmation of a reset, which may lack one, the reset stays marked |
| `ResetAsConfirmed` | a reset marks only the number an admin was shown, by his right PIN |
| `LockedUntilReset` | nothing a locked user does gets him out of the lock screen |

The second half of `ConfirmHasCandidate` is what remains true of a reset: "0" at
`self_reset_pin.vis` is read as "go back", stores nothing and yet leads on to
`confirm_self_reset`, where every answer fails or meets an older candidate.  The mark
is only taken off by a confirmation that succeeds, so the prompt comes back.

`PinMenu_LockoutHolds.cfg` shows what the code does not do: a prompt that counts
one answer twice steps over the limit, and the account is not locked.

### `Transfers` (`MCTransfers`, `Transfers.cfg`)

Two vouchers, one with a symbol that is sanitized and a scale of 1, the other
with a scale of 10; holdings of neither, of the first alone and of both, the first
with less; one registered recipient, the M-Pesa address, a stranger.  Three texts are
typed: a plain amount with a digit too many, which is the balance of one voucher and
above that of the other and the lower limit of a swap; a lesser value whose exponent
stands behind digits above every balance; and the same with an exponent that the cut
spoils.  About 1,360,000 distinct states.  Two vouchers are enough to send the wrong
one, and to swap; one recipient is enough since the choice of another one overwrites
the same entries.

| Property | Says |
|---|---|
| `TypeOK` | the types |
| `TransferAsShown` | a transfer is of the voucher, the recipient and the amount of the confirmation, cut and scaled once; of an amount with exponent the digits in front |
| `WithinOffer` | a confirmation is of the voucher and recipient offered, paid with the voucher offered, and within the limit that was shown |
| `OffersHoldings` | what is offered is among the holdings, up to the balance |
| `SwapAsShown` | a pool swap is what its confirmation showed, unless the amount was refused |
| `SetAsViewed` | the voucher set is the one viewed |
| `ConfirmationIsStaged` | the entries that the last step reads again are those on the screen |

`Transfers_InvalidAmountIsNotSwapped.cfg` shows that after a refused amount the
PIN prompt of the swap follows all the same, and the amount of an earlier preview
is swapped.

`WithinOffer` leaves two cases open, as the code does.

* An amount with an exponent is compared by its value and stored by its digits
  (`send.go:676`, `send.go:684`): "99.00e-1" passes as 9.9 and is staged, shown and sent
  as 99.00, although `send.go:630` says of `ValidateAmount` that the amount is "not more
  than the current balance".  Nothing but the token service stands in the way of a
  transfer above the balance.  `WithinOffer` without `HasExponent` is violated in a
  few steps.
* A swap for which no voucher was chosen in this transaction takes the one of an earlier
  transaction, not the one offered (`send.go:929`).

### `Statements` (`MCStatements`, `Statements.cfg`)

Two users, three goroutines (two on one database object, one on another), two
columns, up to two transactions per user, `Exclusive`: about 570,000 distinct
states.  Two columns are enough for one to be older than the other, two
transactions for a statement to be shorter than the one before.

| Property | Says |
|---|---|
| `TypeOK` | the types |
| `OwnStatement` | what is stored for and shown to a user is his own |
| `ColumnsAgree` | the columns a request reads are of one fetch, so no list is indexed past its end |
| `ServiceSpec` | every step is one of `StatementService` or a stutter |

The refinement maps `seen[u]` to the length of the statement on u's screen, and
to -1, which the abstract specification never takes, when the statement is
somebody else's or its columns are of different fetches.

`Statements_StoredForItsKey.cfg` is the same instance without `Exclusive`: a
request that sets its session between another's `ReadEntry` and `Put` gets the
other's transactions.

### `Profile` (`MCProfile`, `Profile.cfg`)

Two users of one process; Amina starts from the first, a middle and the last
prompt, Baraka from the location, whose handler runs early; two texts, three
answers to prompts in all, one wrong PIN, any number of redials, retries and exits:
about 451,000 distinct states.  Three answers are enough for one user's to come
between two of the other, and for an insertion to cut off what follows it; two
texts tell a new answer from an old one.

| Property | Says |
|---|---|
| `TypeOK` | the types, among them that the buffer never outgrows the six entries |
| `StoredOnlyByPin` | a profile changes only in the request with its owner's right PIN |
| `ReplacedByLastAnswer` | a stored entry is only replaced by the answer that its owner gave last, to that entry's prompt |
| `FlaggedIsStored` | the flag of an entry never claims a value that the store lacks |

The last two leave out gender and year of birth, whose flags `insertProfileItems`
lists in the other order than their entries.  `Profile_OwnAnswers.cfg` shows that
what one user answered is stored for another: the buffer is one for all sessions.
`CHECK_DEADLOCK FALSE` is not about the code: a user may always dial, but a dial
that changes nothing is no other state.

### `Events` (`MCEvents`, `Events.cfg`)

Baraka has an account and a voucher, Amina comes new; two vouchers, one movement,
two faults, four accounts (as many as two users and two faults can use up, so the
service never runs out: `EnoughAccounts`): about 146,000 distinct states.  One event
with two sides already meets the handler in between its own two updates, a
registration half done, and the main menu; two faults are what it takes for a
creation to fail and fail again otherwise, and for an event to be repeated twice.
Two events out of their order need two movements: `Events_proofs` covers them.

| Property | Says |
|---|---|
| `TypeOK` | the types, among them that the handler never goes on without a user |
| `AddressLeadsBack` | an address leads to the user whose current key it is |
| `HandledIsListed` | an event that will not be delivered again was seen by both users that its addresses led to |
| `AccountsSpec` | every step is one of `Accounts` or a stutter |
| `GetsToTheMenu` | who keeps calling gets to the main menu again and again, unless he is stranded |
| `IsHandled` | every event is handled in the end, unless a user is stranded |

The refinement maps `account` to the public keys in the store and `owner` to the
reverse keys: the five calls of `CreateAccount`, their order and failures are what
`Accounts` knows nothing of.  `Stranded` is the disagreement that
`Events_FailureIsOver.cfg` shows: the service fails once, later creates the account,
and the write of the reverse key fails; the flag of the first failure stays set,
its only reset is in a handler that does nothing once the public key is stored, and
`create_pin.vis` shows the failure at every call.

The fairness, and why it is that:

* `WF(UserGoesOn(u))`: a user at a prompt answers or calls again, and the request
  that he waits for goes on.  It is an assumption about the user, and of the code
  that each of its calls returns.  Faults may always intervene, but there are only
  `MaxFaults` of them.
* `WF(Activate)`: the network takes up the accounts that it was given; without it
  an account is pending for good, which is what the code shows then.
* `WF(HandlerGoesOn)`: a handler that runs is not suspended.
* `SF(Deliver(n))` for each event: a queue that delivers again until it is told not
  to.  Weak fairness is not enough since the handler is busy with another event, or
  the same, again and again.

### `CashFlows` (`MCCashFlows`, `CashFlows.cfg`)

One user with no vouchers or with two, whose scales are 1 and 10; two pools, the
configured one and another; the M-Pesa account with one of the vouchers active or
with none; rates of 1 and 2, limits and quotes of 1 and 5 (below the least amount,
and with a digit too many for the screen), typed amounts of 2, 4 and 6 (refused,
plain, with decimals and at the limit); four visits to the main menu: about
2,700,000 distinct states.  Three visits leave entries of two menus behind and read
them in a third; the fourth is for the choice of another voucher or pool between.

| Property | Says |
|---|---|
| `TypeOK` | the types, among them that each script leads to a node there is |
| `PaidAsShown` | a deposit or withdrawal moves what its confirmation showed, the transfer after the swap and of the other amount of the same quote |
| `DebtAsShown` | a debt is paid with the voucher whose limit was asked for, and as much as was shown but for less than 0.01 |
| `PurchaseAsShown` | a purchase whose preview was shown is of that amount |
| `WithinLimit` | deposit and debt stay within the balance and the limit of their voucher |
| `PoolAsViewed` | the pool that is set is the one viewed last |

`CashFlows_BuysOnlyWhatWasShown.cfg` shows why `PurchaseAsShown` has its premise:
when the rates are not to be had, `send_mpesa_confirmation.vis` goes on to the PIN,
and the purchase is of the amount that another menu left.

Deadlock is checked in every other run: a user can always dial again, up to the
bounds.

## What the models show without a run

The models contain the following, as the code has it.  No comment, document or
test of the repository says otherwise, or what is lost is a page, so they are no
findings; a reader should know of them.

* An answer without PIN format passes the prompts that do not catch
  `flag_account_authorized` being unset (`check_statement.vis:10`).
* The swap before a transfer takes the voucher of an earlier transaction when none
  was chosen in this one (`send.go:929`).
* A transfer that is refused after its swap leaves the user with the other voucher:
  nothing is undone or tried again (`send.go:1088`, `mpesa.go:501`).
* A swap-to voucher left by an earlier transaction decides whether the limit is that
  of a transfer or of a swap (`send.go:397`); it is shown and stored alike.
* What a withdrawal transfers after its swap is the output of the quote, which is not
  compared with the shillings typed (`mpesa.go:372`); `PaidAsShown` ties it to the
  quote whose input was shown.
* The cut of an exponent reaches the swaps as well (`send.go:962`, `poolswap.go`);
  what is no number after it is an error of the handler, behind the PIN in a plain
  transfer.
* "0" where a PIN is reset leads to a confirmation without a candidate
  (`self_reset_pin.vis:5`).
* The active symbol is stored sanitized and compared unsanitized, so the default
  replaces it at the next main menu (`vouchers.go:132`).
* `upsell.go:28` reads the temporary value, which its own menu never writes.
* An event that found no active symbol writes a default over what the main menu
  set meanwhile (`event/token.go:23`).
* An answer to a profile prompt whose entry was set by a load in between ends in
  "Data error encountered" behind the right PIN (`profile.go:36`).
* What `edit_first_name.vis:14` calls `edit_gender` is no node: the session ends.
* The session data contain the transaction type, which only credit send writes:
  who never sent a voucher gets an error when he withdraws and an empty page when
  he pays debt (`mpesa.go:60`), and a plain withdrawal wants the recipient he typed
  there (`mpesa.go:436`).
* `flag_incorrect_voucher`, once set by another menu, makes `pay_debt.vis:15` refuse
  valid choices.
* A quote that fails in `confirm_debt_removal.vis:1` is followed by the PIN and the
  swap of the amount just typed; `WithinLimit` and `DebtAsShown` bound it.
* A list of pools that holds the active one only is stored empty, and `MatchPool`
  indexes past its end (`store/pools.go:81`).  A pool name with a comma would shift
  the fields of the temporary value (`store/pools.go:113`), which is not modelled.
* An amount with decimals passes `SendMpesaPreview` and is an error of `Atoi`
  behind the PIN (`mpesa.go:666`).

## Proofs

Every invariant, action property and refinement that a passing run checks is also a
theorem, for every value of the constants; the two liveness properties are not.

`PinMenu_proofs` proves the type invariant, the three safety invariants,
`LockedUntilReset` and `ResetAsConfirmed` of `PinMenu` for every set of users and PINs,
every limit and every modulus above it.  The assumptions are those named in `PinMenu`.

The three safety invariants are not inductive.  The proof strengthens
them to `Inv`, which says that the row of every user is a `SafeRow`:

* `GoodRow`: the row has its types, and a count at the limit goes with the lock
  (`AtLimit`);
* `Candidate`: a session on a node that confirms the creation or the change of a PIN
  has a temporary value, and so has one on an error screen that goes back there;
* `Marked`: a session on the two nodes of a reset, or on an error screen that goes
  back to one, has the mark;
* `Clean`: on `initiated` the count is 0 and `flag_incorrect_pin` is not set, on
  the lock screen `flag_account_blocked` is, and an error screen never goes back
  to either.

The clauses about error screens are what makes it inductive: `Candidate` on the
confirmation alone would be lost by going to the error screen and back.  There is
a lemma per handler and per script that says how it transforms these facts, and
one step per action of `Next`.  The action property `LockedUntilReset` follows from
`Inv`: no request of another user moves a session (`RequestsMoveTheirOwn`), the lock
screen answers nothing but a new dial (`LockScreenOffersNothing`), and the root sends
a row whose flag is set back to it (`DiallingKeepsLock`).

`ResetAsConfirmed` needs an invariant of its own, `Supervised`: only an admin is on
`enter_other_number` or `authorize_reset_others_pin`, or on an error screen that goes
back to one of them.  The way in is guarded once, at the PIN menu; every other
script and handler is shown to lead elsewhere or to go back
(`ScriptsGoOutside`, `HandlersAreStill`).

`Statements_proofs` proves `OwnStatement`, `ColumnsAgree`, `TypeOK` and the refinement of
`StatementService`, given `Exclusive`, for any users, requests, database objects and
columns.  Whose transactions are stored depends on
the session of a database object at the time of each `Put`, so the invariant says
of every request in progress what it relies on (`Faithful`: the object is still
in its user's session, the key it read and the fetch it holds are his), and that
no two share an object (`Alone`).  `GoesOn` is the lemma that a step of one request
disturbs no other; only `SetSession` changes a session, and `Alone` is what makes
it harmless.

The columns are put one by one, so what is stored may be of two fetches.  `Ordered`
says why no screen shows it:

* `OnePerUser`: a user has at most one request in progress, since he waits for an
  answer.
* `Advanced` and `Between` follow that request: its fetch is not older than the
  stored columns; those it has put are of its fetch; what it has read back is what
  is stored.
* `Settled`: between requests the columns of a session with a statement are
  complete and of one fetch.  A put that fails ends the session, and the next one
  fetches anew.

With `Ordered`, `Show` is a `Look` of `StatementService` (`ShowLooks`); every other step
of a request is a stutter there.  `NoneAssumption` says that a missing value is none of
the others.

`Events_proofs`, on the lemmas of `Registration_proofs`, proves `TypeOK`,
`AddressLeadsBack`, `HandledIsListed` and the refinement of `Accounts`, for any users,
vouchers, movements, faults and accounts.  The assumptions are those named in
`Registration` and `Events`; no fairness is used.  The run has one
movement, so that TLC meets no two events out of their order; the theorem is
about any number of them, in any order.

* An account that is being given is in the store under other entries at different
  times, so the invariant follows it from the answer of the service on:
  `Sound` says which entries of a creation are still to be written, `Given` and
  `Distinct` that the account is no other user's, `Unwritten` that its address leads
  nowhere before the last write, `LeadsBack` that an address leads to whom its
  account belongs to.
* Every step is shown to preserve these and to be a `KeyStep`: it leaves keys and
  addresses alone, or gives a user without a key one that nobody has, or lets an
  address lead to its user.  This is the refinement (`KeyStepImplements`).
* It is also `Stable`: an address that leads to a user goes on to do so.  Whom an
  event was for when the vouchers moved (`known`) is then whom its addresses still
  lead to (`StillKnown`), `Handling` says whom the handler has told so far at each of
  its steps, and `HandledIsListed` follows when it is done with both sides.  A list
  that is read shows all movements made so far and `listed` never runs ahead of them
  (`UpToDate`): a repeated event, or an older one after a newer, takes nothing back.

`CashFlows_proofs` proves everything that the run `CashFlows` checks, for any
vouchers, scales, pools, rates, limits and answers of the services, and any number
of visits.  The properties are about the step that asks the services; the entries
that it reads were written some steps before, by handlers that each other menu has
as well.  The invariant (`Sound`) therefore says of every node what may be relied on
there:

* `WithdrawalReady`, `PurchaseReady`, `DepositReady`, `DebtReady` and `PoolReady`:
  on a confirmation, what is shown are the stored entries.  `PurchaseReady` and
  `DebtReady` allow that nothing is shown, since the quote or the rates may fail.
* `LimitReady`: behind the limit of a debt the displayed limit is less than 0.01
  below the stored one (`TruncateLoses`), which is what ties `WithinLimit` to what
  the user may type; `ChosenSound`: a prompt for an amount has its voucher.
* `ActiveSound`: an emptied active voucher goes with its flag, so that nobody gets to
  the removal of a debt without a voucher to receive.

Nothing is relied on at the other nodes (`Resting`), so a menu may leave there
whatever it likes: this is why the menus do not disturb each other.  A handler that
is run twice by `LOAD` and `RELOAD` is treated by a predicate on the row in between
(`Choosing`, `Previewing`, `Viewed`, `LimitKnown`, `Removing`).  A step asks for
nothing and leaves the pool (`Quiet`), or is one of the five that the properties are
about.

`Transfers_proofs` proves everything that the run `Transfers` checks, for any vouchers,
holdings, scales, recipients, amounts, rates and answers of the services.  As in
`CashFlows`, the entries that a transfer is made from were written some steps before,
and the three menus write them all, so `Sound` says what may be relied on at which
node:

* `SourceSound`: behind a recipient, the voucher to send from is among the holdings
  and the recipient is the one typed; `OfferSound`: at the prompt for the amount, what
  is offered is that voucher up to its balance, or the one of the swap up to its limit.
* `PlainSound`, `SwapSound` and `ExchangeSound`: on the three confirmations, the
  stored entries are those shown.  Only in the last may the amount be missing, when it
  was refused.
* `VoucherSound`: the voucher viewed, or just set, is one of the holdings.

The cut matters once: without an exponent the digits that are left are the truncated
value (`CutIsNat`), and truncation keeps the order (`TruncateIsMonotone`), so an
amount that was compared before it is cut is within the offer afterwards.  With an
exponent neither holds, which is why `WithinOffer` exempts it (`Offered`).

A step either asks the services for nothing (`Quiet`) or is one behind a
confirmation, for which `TransferAsShown` and `SwapAsShown` are shown directly.
`NoneAssumption` of `Wallet` is again that a missing entry is none of the values.

`Profile_proofs` proves everything that the run `Profile` checks, for any users and
texts, any prompts to start from and any number of answers.  Nothing can be said of
the buffer, which all sessions share, or of the temporary value, which the handlers of
the prompts overwrite when they run early.  What makes the properties true is where
the menu stack can be when a PIN is asked (`SoundRow`):

* `Stack`: a session that is on has a frame of the profile menu, the view lies directly
  on one, and the PIN prompt is on top.  Going back therefore meets a menu that
  takes back what was allowed: `Authorized` says that what the right PIN allowed is
  only remembered on the pages behind it.
* `Flags`: the flag of an entry is set if and only if it is stored; `Asked`: at a PIN
  prompt above the prompt of a stored entry, the temporary value is its owner's last
  answer, to that prompt.  It is the flag that makes the prompt keep the answer, so
  `Asked` is not inductive without `Flags`.
* `Alive`: a session that an error ended has no stack.

`Flags` and `Asked` leave out gender and year of birth, as the properties do.  The
lemmas go handler by handler, on the pair of a row and the buffer; `Proper` is what the
request of a user may make of it, and `ReplacedByLastAnswer` and `StoredOnlyByPin`
are read off it.

Only model-checked: `GetsToTheMenu` and `IsHandled`, which are liveness under fairness.
The prover has no rules for ENABLED, so weak fairness cannot be used in a proof.

## Not modelled, and the plan

Next, in this order:

1. `Attempts`: the count of wrong entries on a shared database object, with two
   requests between read and write, an administrator's reset in between, and the
   `h.st`/`h.pe` of the handler object that all requests of a server share; writes
   of `pin.go` that fail half way.
2. `AdminCmd`: the command that loads, changes and saves the flags of a session
   that is in use.
3. `Alias`: the request that each `LOAD` repeats.
4. `Amounts`: truncation, scaling and the decoding of entries against a
   reference definition.

Left out of what is modelled: in `Registration`, a read of the store that fails
otherwise than by finding nothing (`registration.go:77`) and the emptying of the
active symbol; `WriteEntry` is one step there, as are the reads of a handler in the
models whose step is a request.

Left out altogether: the texts of balances, the language and address pages and the SMS they
send, the front ends, configuration and development tools.  They keep no state
that another part reads, or are wiring.  A connection of `ssh/ssh.go` is written to
a Go map by each goroutine without a lock: the process ends, and there is nothing to
state about the state after it.
