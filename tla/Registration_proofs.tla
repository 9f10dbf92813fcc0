------------------------ MODULE Registration_proofs ------------------------
(***************************************************************************)
(* What every step of a registration preserves, for any users, vouchers    *)
(* and bounds: the lemmas about module Registration that the theorems of   *)
(* Events_proofs rest on.                                                  *)
(***************************************************************************)
EXTENDS Registration, FiniteSetTheorems, TLAPS

\* A row by itself: only a creation has a new account, and the public key is
\* empty until it has been written.
Sound(r) ==
  /\ r \in Row
  /\ r.node # "create_account" => r.new = 0
  /\ r.node = "create_account" /\ r.new = 0 => r.left = Entry
  /\ r.node = "create_account" =>
       r.public_key = IF "public_key" \in r.left THEN 0 ELSE r.new

\* The accounts that a user has or is being given.
AccountsOf(u) == {row[u].public_key, row[u].new} \ {0}

Given == \A u \in User : AccountsOf(u) \subseteq given
Distinct == \A u, w \in User : u # w => AccountsOf(u) \cap AccountsOf(w) = {}
LeadsBack == \A a \in Account, u \in User : reverse[a] = u => row[u].public_key = a
Unwritten == \A u \in User : row[u].new # 0 => reverse[row[u].new] = Nobody

RegInv ==
  /\ RegTypeOK
  /\ \A u \in User : Sound(row[u])
  /\ Given /\ Distinct /\ LeadsBack /\ Unwritten

\* What a step may do to keys and addresses: nothing, or give a user without a key
\* one that nobody has, or let a user's address lead to him.
KeyStep ==
  \/ /\ reverse' = reverse
     /\ \A u \in User : row'[u].public_key = row[u].public_key
  \/ \E u \in User, a \in Account :
       /\ reverse' = reverse
       /\ row[u].public_key = 0 /\ \A w \in User : row[w].public_key # a
       /\ \A w \in User : row'[w].public_key = IF w = u THEN a ELSE row[w].public_key
  \/ \E u \in User :
       /\ row[u].public_key \in Account /\ reverse[row[u].public_key] = Nobody
       /\ reverse' = [reverse EXCEPT ![row[u].public_key] = u]
       /\ \A w \in User : row'[w].public_key = row[w].public_key

\* An address that leads to a user goes on to do so.
Stable == \A a \in Account : reverse[a] \in User => reverse'[a] = reverse[a]

Preserved == RegInv' /\ KeyStep /\ Stable

-----------------------------------------------------------------------------
(* Handlers and scripts *)

\* The same but for flags, prompts and what the menus show.
Like(r, s) ==
  s \in Row /\ s.public_key = r.public_key /\ s.new = r.new /\ s.left = r.left

LEMMA FlagsAreLike ==
  ASSUME NEW r \in Row, NEW F \in SUBSET Flag, NEW n \in Node
  PROVE  Like(r, [r EXCEPT !.flags = F]) /\ Like(r, Goto(r, n))
BY DEF Row, Like, Goto

LEMMA HandlersAreLike ==
  ASSUME NEW r \in Row, NEW ok, NEW f \in Flag
  PROVE  /\ Like(r, Set(r, f)) /\ Like(r, Reset(r, f))
         /\ Like(r, CheckBlockedStatus(r))
         /\ Like(r, CheckAccountCreated(r))
         /\ Like(r, CheckAccountStatus(r, ok))
<1>1. Like(r, Set(r, f)) /\ Like(r, Reset(r, f))
  BY DEF Set, Reset, Row, Like
<1>2. Like(r, CheckBlockedStatus(r))
  BY DEF CheckBlockedStatus, Row, Like, Flag
<1>3. Like(r, CheckAccountCreated(r))
  BY DEF CheckAccountCreated, Set, Row, Like, Flag
<1>4. Like(r, CheckAccountStatus(r, ok))
  BY DEF CheckAccountStatus, Set, Row, Like, Flag
<1> QED BY <1>1, <1>2, <1>3, <1>4

LEMMA ManageVouchersIsLike ==
  ASSUME NEW r \in Row, NEW H \in SUBSET Voucher, NEW listed,
         NEW first, H # {} => first \in Voucher
  PROVE  Like(r, ManageVouchers(r, H, first, listed))
         /\ ManageVouchers(r, H, first, listed).sym \in Voucher \cup {None}
BY DEF ManageVouchers, Row, Like

\* The nodes behind the PIN: nobody creates an account there.
Settled(r, s) == Like(r, s) /\ s.node # "create_account"

LEMMA MainIsSettled ==
  ASSUME NEW r \in Row, NEW H \in SUBSET Voucher, NEW bad \in SUBSET Fault,
         NEW first, H # {} => first \in Voucher
  PROVE  Settled(r, Main(r, H, first, bad))
<1>1. Settled(r, ApiFailure(Set(r, "api_call_error")))
  BY DEF Settled, ApiFailure, Set, Reset, Goto, Like, Row, Flag, Node
<1> DEFINE t == Reset(r, "api_call_error")
           v == ManageVouchers(t, H, first, "list" \notin bad)
<1>2. Like(r, t)
  BY HandlersAreLike DEF Flag
<1> HIDE DEF t
<1>3. Like(t, v) /\ v.sym \in Voucher \cup {None}
  BY <1>2, ManageVouchersIsLike DEF Like
<1> HIDE DEF v
<1>4. Like(r, v)
  BY <1>2, <1>3 DEF Like
<1>5. Settled(r, Goto(v, "main"))
  BY <1>4 DEF Settled, Goto, Like, Row, Node
<1>6. Settled(r, Goto([r EXCEPT !.sym = v.sym], "off"))
  BY <1>3 DEF Settled, Goto, Like, Row, Node
<1>7. Settled(r, Goto(r, "off"))
  BY DEF Settled, Goto, Like, Row, Node
<1> QED BY <1>1, <1>5, <1>6, <1>7 DEF Main, t, v

LEMMA AccountPendingIsSettled ==
  ASSUME NEW r \in Row, NEW H \in SUBSET Voucher, NEW bad \in SUBSET Fault,
         NEW first, H # {} => first \in Voucher
  PROVE  Settled(r, AccountPending(r, H, first, bad))
<1> DEFINE v == CheckAccountStatus(r, "status" \notin bad)
<1>1. Like(r, v)
  BY HandlersAreLike, "api_call_error" \in Flag DEF Flag
<1>2. Settled(v, Main(v, H, first, bad))
  BY <1>1, MainIsSettled DEF Like
<1>3. Settled(v, Goto(v, "account_pending"))
  BY <1>1 DEF Settled, Goto, Like, Row, Node
<1> QED BY <1>1, <1>2, <1>3 DEF AccountPending, Settled, Like

LEMMA CreatePinIsSettled ==
  ASSUME NEW r \in Row
  PROVE  Settled(r, CreatePin(r))
<1>1. Settled(r, Goto(r, "account_creation_failed")) /\ Settled(r, Goto(r, "create_pin"))
  BY DEF Settled, Goto, Like, Row, Node, Prompts
<1> QED BY <1>1 DEF CreatePin, Goto

\* A row that may follow one without a creation under way.
Follows(r, s) == Sound(s) /\ s.public_key = r.public_key /\ s.new = 0

LEMMA SettledFollows ==
  ASSUME NEW r, r.new = 0, NEW s, Settled(r, s)
  PROVE  Follows(r, s)
BY DEF Follows, Settled, Like, Sound

LEMMA CreateAccountFollows ==
  ASSUME NEW r \in Row, r.new = 0
  PROVE  Follows(r, CreateAccount(r))
<1>1. CASE r.public_key # 0
  BY <1>1, CreatePinIsSettled, SettledFollows DEF CreateAccount
<1>2. CASE r.public_key = 0
  BY <1>2 DEF CreateAccount, Goto, Follows, Sound, Row, Node, Entry
<1> QED BY <1>1, <1>2

LEMMA RootFollows ==
  ASSUME NEW r \in Row, r.new = 0, NEW H \in SUBSET Voucher, NEW bad \in SUBSET Fault,
         NEW first, H # {} => first \in Voucher
  PROVE  Follows(r, Root(r, H, first, bad))
<1> DEFINE b == CheckBlockedStatus(r)
           s == CheckAccountCreated(b)
           t == CheckAccountStatus(s, "status" \notin bad)
<1>1. Like(r, b) /\ Like(b, s) /\ Like(s, t)
  <2>1. Like(r, b)
    BY HandlersAreLike, "api_call_error" \in Flag DEF Flag
  <2> HIDE DEF b
  <2>2. Like(b, s)
    BY <2>1, HandlersAreLike, "api_call_error" \in Flag DEF Flag, Like
  <2> HIDE DEF s
  <2>3. Like(s, t)
    BY <2>2, HandlersAreLike, "api_call_error" \in Flag DEF Flag, Like
  <2> QED BY <2>1, <2>2, <2>3
<1>2. Like(r, s) /\ Like(r, t)
  BY <1>1 DEF Like
<1> HIDE DEF b, s, t
<1>3. Settled(r, Goto(s, "select_language")) /\ Settled(r, Goto(s, "terms"))
  BY <1>2 DEF Settled, Goto, Like, Row, Node, Prompts
<1>4. Follows(r, CreateAccount(s))
  BY <1>2, CreateAccountFollows DEF Like, Follows
<1>5. Settled(r, ApiFailure(t))
  <2>1. Like(t, Reset(t, "api_call_error"))
    BY <1>2, HandlersAreLike DEF Flag, Like
  <2> QED BY <1>2, <2>1 DEF Settled, ApiFailure, Goto, Like, Row, Node
<1>6. Settled(r, AccountPending(t, H, first, bad))
  BY <1>2, AccountPendingIsSettled DEF Like, Settled
<1>7. Settled(r, Main(t, H, first, bad))
  BY <1>2, MainIsSettled DEF Like, Settled
<1> QED BY <1>3, <1>4, <1>5, <1>6, <1>7, SettledFollows DEF Root, b, s, t

-----------------------------------------------------------------------------
(* Steps *)

\* Initially the accounts are those from before.
LEMMA InitEstablishesRegInv == RegInit => RegInv
<1> SUFFICES ASSUME RegInit PROVE RegInv
  OBVIOUS
<1>1. \A u \in User :
        /\ row[u] \in Row /\ row[u].node = "off" /\ row[u].new = 0
        /\ row[u].public_key = Before[u]
  BY BeforeAssumption DEF RegInit, NewRow, SettledRow, Row, Node, Flag, Entry
<1>2. /\ reverse \in [Account -> User \cup {Nobody}]
      /\ \A a \in Account, u \in User : reverse[a] = u => Before[u] = a
  BY NullAssumption DEF RegInit
<1>3. RegTypeOK
  BY <1>1, <1>2, BeforeAssumption, BoundsAssumption DEF RegInit, RegTypeOK
<1>4. \A u \in User : Sound(row[u])
  BY <1>1 DEF Sound
<1>5. Given /\ Distinct /\ LeadsBack /\ Unwritten
  BY <1>1, <1>2, BeforeAssumption DEF RegInit, Given, Distinct, LeadsBack, Unwritten, AccountsOf
<1> QED BY <1>3, <1>4, <1>5 DEF RegInv

\* The steps that leave keys and addresses alone.
LEMMA QuietStep ==
  ASSUME RegInv, NEW u \in User, NEW s, row' = [row EXCEPT ![u] = s],
         Sound(s), s.public_key = row[u].public_key, s.new \in {0, row[u].new},
         reverse' = reverse, given \subseteq given', given' \subseteq Account,
         active' \subseteq given', faults' \in 0 .. MaxFaults
  PROVE  Preserved
<1>1. /\ \A w \in User : row'[w] = IF w = u THEN s ELSE row[w]
      /\ row' \in [User -> Row]
  BY DEF RegInv, RegTypeOK, Sound
<1>2. \A w \in User : /\ row'[w].public_key = row[w].public_key
                      /\ row'[w].new \in {0, row[w].new}
  BY <1>1
<1>3. RegTypeOK'
  BY <1>1 DEF RegInv, RegTypeOK
<1>4. \A w \in User : Sound(row'[w])
  BY <1>1 DEF RegInv
<1>5. \A w \in User : AccountsOf(w)' \subseteq AccountsOf(w)
  BY <1>2 DEF AccountsOf
<1>6. Given' /\ Distinct'
  BY <1>5 DEF RegInv, Given, Distinct
<1>7. LeadsBack' /\ Unwritten'
  BY <1>2 DEF RegInv, LeadsBack, Unwritten
<1>8. KeyStep /\ Stable
  BY <1>2 DEF KeyStep, Stable
<1> QED BY <1>3, <1>4, <1>6, <1>7, <1>8 DEF Preserved, RegInv

LEMMA FollowingStep ==
  ASSUME RegInv, NEW u \in User, NEW s, Change(u, s), Follows(row[u], s),
         UNCHANGED <<reverse, given, active>>, faults' \in 0 .. MaxFaults
  PROVE  Preserved
BY QuietStep DEF Change, Follows, RegInv, RegTypeOK

\* Nothing changes but for what the network has taken up.
LEMMA RowsKept ==
  ASSUME RegInv, UNCHANGED <<row, reverse, given>>, active' \subseteq given,
         faults' \in 0 .. MaxFaults
  PROVE  Preserved
BY DEF Preserved, RegInv, RegTypeOK, Given, Distinct, LeadsBack, Unwritten, AccountsOf,
       KeyStep, Stable

LEMMA FaultsInBounds ==
  ASSUME RegInv
  PROVE  /\ faults \in 0 .. MaxFaults
         /\ \A n \in Nat : Faulty(n) => faults' \in 0 .. MaxFaults
BY BoundsAssumption DEF RegInv, RegTypeOK, Faulty

LEMMA FreshIsNew ==
  ASSUME given # Account, given \subseteq Account
  PROVE  Fresh \in Account \ given
BY DEF Fresh

LEMMA AccountIsNoZero == 0 \notin Account
BY BoundsAssumption DEF Account

LEMMA DialPreserves ==
  ASSUME RegInv, NEW u \in User, NEW held \in SUBSET Voucher, NEW bad \in SUBSET Fault,
         Cardinality(bad) \in Nat, Dial(u, held, bad)
  PROVE  Preserved
<1>1. PICK first \in IF held = {} THEN {None} ELSE held :
        Change(u, Root(row[u], held, first, bad))
  BY DEF Dial
<1>2. row[u] \in Row /\ row[u].new = 0
  BY DEF RegInv, Sound, Dial
<1>3. Follows(row[u], Root(row[u], held, first, bad))
  BY <1>1, <1>2, RootFollows
<1> QED BY <1>1, <1>3, FollowingStep, FaultsInBounds DEF Dial

\* The prompts: each is left for a row that follows the one before.
LEMMA PromptPreserves ==
  ASSUME RegInv, NEW u \in User,
         HangUp(u) \/ ChooseLanguage(u) \/ Accept(u) \/ EnterPin(u) \/ ConfirmPin(u)
  PROVE  Preserved
<1>1. row[u] \in Row /\ Sound(row[u])
  BY DEF RegInv, Sound
<1>2. CASE HangUp(u)
  <2>1. Follows(row[u], Goto(row[u], "off"))
    BY <1>1, <1>2 DEF HangUp, Prompts, Follows, Sound, Goto, Row, Node
  <2> QED BY <1>2, <2>1, FollowingStep, FaultsInBounds DEF HangUp
<1>3. CASE ChooseLanguage(u)
  <2> DEFINE r == Set([row[u] EXCEPT !.language = TRUE], "language_set")
  <2>1. /\ Follows(row[u], Goto(r, "off"))
        /\ Follows(row[u], Goto(r, "terms"))
    BY <1>1, <1>3 DEF ChooseLanguage, Set, Follows, Sound, Goto, Row, Node, Prompts, Flag
  <2>2. \/ Become(u, Goto(r, "off"))
        \/ Become(u, Goto(r, "terms"))
    BY <1>3 DEF ChooseLanguage
  <2> QED BY <2>1, <2>2, FollowingStep, FaultsInBounds DEF Become
<1>4. CASE Accept(u)
  <2>1. Follows(row[u], CreateAccount(row[u]))
    BY <1>1, <1>4, CreateAccountFollows DEF Accept, Sound
  <2> QED BY <1>4, <2>1, FollowingStep, FaultsInBounds DEF Accept, Become
<1>5. CASE EnterPin(u)
  <2>1. Follows(row[u], Goto(row[u], "confirm_create_pin"))
    BY <1>1, <1>5 DEF EnterPin, Follows, Sound, Goto, Row, Node, Prompts
  <2> QED BY <1>5, <2>1, FollowingStep, FaultsInBounds DEF EnterPin, Become
<1>6. CASE ConfirmPin(u)
  <2>1. Follows(row[u], Goto(Set([row[u] EXCEPT !.pin = TRUE], "pin_set"), "account_creation"))
    BY <1>1, <1>6 DEF ConfirmPin, Set, Follows, Sound, Goto, Row, Node, Flag
  <2> QED BY <1>6, <2>1, FollowingStep, FaultsInBounds DEF ConfirmPin, Become
<1> QED BY <1>2, <1>3, <1>4, <1>5, <1>6

\* What stops a creation leaves the key, if it was written, and no new account.
LEMMA FailurePreserves ==
  ASSUME RegInv, NEW u \in User, CreationFails(u) \/ WriteFails(u)
  PROVE  Preserved
<1>1. row[u] \in Row /\ Sound(row[u])
  BY DEF RegInv, Sound
<1>2. CASE CreationFails(u)
  <2> DEFINE c == CreatePin(Set(row[u], "account_creation_failed"))
             s == [c EXCEPT !.left = {}]
  <2>1. Like(row[u], Set(row[u], "account_creation_failed"))
    BY <1>1, HandlersAreLike DEF Flag
  <2>2. c \in Row /\ c.public_key = row[u].public_key /\ c.new = 0 /\ c.node # "create_account"
    BY <1>2, <2>1, CreatePinIsSettled DEF CreationFails, Settled, Like
  <2> HIDE DEF c
  <2>3. Sound(s) /\ s.public_key = row[u].public_key /\ s.new = 0
    BY <2>2 DEF Sound, Row
  <2>4. given \subseteq given' /\ given' \subseteq Account
    BY <1>2, FreshIsNew DEF CreationFails, RegInv, RegTypeOK
  <2>5. row' = [row EXCEPT ![u] = s] /\ faults' \in 0 .. MaxFaults
    BY <1>2, FaultsInBounds DEF CreationFails, Change, c
  <2> HIDE DEF s
  <2> QED BY <1>2, <2>3, <2>4, <2>5, QuietStep DEF CreationFails, RegInv, RegTypeOK
<1>3. CASE WriteFails(u)
  <2> DEFINE s == Goto([row[u] EXCEPT !.new = 0, !.left = {}], "off")
  <2>1. Follows(row[u], s)
    BY <1>1 DEF Follows, Sound, Goto, Row, Node
  <2> QED BY <1>3, <2>1, FollowingStep, FaultsInBounds DEF WriteFails
<1> QED BY <1>2, <1>3

\* The service gives an account that nobody has.
LEMMA GivingPreserves ==
  ASSUME RegInv, NEW u \in User, AccountIsGiven(u)
  PROVE  Preserved
<1> DEFINE a == Fresh
<1>1. a \in Account /\ a \notin given /\ a # 0
  BY FreshIsNew, AccountIsNoZero DEF AccountIsGiven, RegInv, RegTypeOK
<1> HIDE DEF a
<1>2. /\ given' = given \cup {a} /\ row' = [row EXCEPT ![u] = [row[u] EXCEPT !.new = a]]
      /\ UNCHANGED <<reverse, active, faults>>
  BY DEF AccountIsGiven, Change, a
<1>3. /\ row[u] \in Row /\ row[u].node = "create_account"
      /\ row[u].left = Entry /\ row[u].public_key = 0
  BY DEF RegInv, Sound, AccountIsGiven, Creating, Entry
<1>4. /\ \A w \in User : row'[w] = IF w = u THEN [row[u] EXCEPT !.new = a] ELSE row[w]
      /\ row' \in [User -> Row]
  BY <1>1, <1>2, <1>3 DEF RegInv, RegTypeOK, Row
<1>5. RegTypeOK'
  BY <1>1, <1>2, <1>4 DEF RegInv, RegTypeOK
<1>6. \A w \in User : Sound(row'[w])
  BY <1>1, <1>3, <1>4 DEF RegInv, Sound, Row, Entry
<1>7. \A w \in User : /\ row'[w].public_key = row[w].public_key
                      /\ row'[w].new = IF w = u THEN a ELSE row[w].new
  BY <1>3, <1>4 DEF Row
<1>8. Given' /\ Distinct'
  BY <1>1, <1>2, <1>3, <1>7 DEF RegInv, Given, Distinct, AccountsOf
<1>9. reverse[a] = Nobody
  BY <1>1, AccountIsNoZero DEF RegInv, RegTypeOK, LeadsBack, Given, AccountsOf
<1>10. LeadsBack' /\ Unwritten'
  BY <1>2, <1>7, <1>9 DEF RegInv, LeadsBack, Unwritten
<1>11. KeyStep /\ Stable
  BY <1>2, <1>7 DEF KeyStep, Stable
<1> QED BY <1>5, <1>6, <1>8, <1>10, <1>11 DEF Preserved, RegInv

\* The entries are written: with the public key the user has the account.
LEMMA WritingPreserves ==
  ASSUME RegInv, NEW u \in User, NEW e \in Entry, WriteEntry(u, e)
  PROVE  Preserved
<1> DEFINE r == [row[u] EXCEPT !.left = @ \ {e}]
           s == IF e = "public_key" THEN [r EXCEPT !.public_key = r.new]
                ELSE [r EXCEPT !.tracking_id = r.new]
<1>1. row' = [row EXCEPT ![u] = s] /\ UNCHANGED <<reverse, given, active, faults>>
  BY DEF WriteEntry, Become, Change
<1>2. /\ row[u] \in Row /\ row[u].node = "create_account"
      /\ row[u].new # 0 /\ row[u].new \in Account /\ e \in row[u].left
      /\ row[u].public_key = IF "public_key" \in row[u].left THEN 0 ELSE row[u].new
  BY DEF RegInv, Sound, WriteEntry, Creating, Row
<1>3. /\ s \in Row /\ s.node = "create_account" /\ s.new = row[u].new
      /\ s.left = row[u].left \ {e}
      /\ s.public_key = IF e = "public_key" THEN row[u].new ELSE row[u].public_key
  BY <1>2 DEF Row
<1> HIDE DEF s
<1>4. /\ \A w \in User : row'[w] = IF w = u THEN s ELSE row[w]
      /\ row' \in [User -> Row]
  BY <1>1, <1>3 DEF RegInv, RegTypeOK
<1>5. RegTypeOK'
  BY <1>1, <1>4 DEF RegInv, RegTypeOK
<1>6. \A w \in User : Sound(row'[w])
  BY <1>2, <1>3, <1>4 DEF RegInv, Sound
<1>7. /\ \A w \in User : row'[w].new = row[w].new /\ AccountsOf(w)' \subseteq AccountsOf(w)
      /\ \A w \in User \ {u} : row'[w].public_key = row[w].public_key
  BY <1>3, <1>4 DEF AccountsOf
<1>8. Given' /\ Distinct'
  BY <1>1, <1>7 DEF RegInv, Given, Distinct
<1>9. Unwritten'
  BY <1>1, <1>7 DEF RegInv, Unwritten
<1>10. CASE e = "public_key"
  <2>1. row[u].public_key = 0 /\ row'[u].public_key = row[u].new
    BY <1>2, <1>3, <1>4, <1>10
  <2>2. LeadsBack'
    BY <1>1, <1>7, <2>1, AccountIsNoZero DEF RegInv, LeadsBack
  <2>3. \A w \in User : row[w].public_key # row[u].new
    BY <1>2, <2>1 DEF RegInv, Distinct, AccountsOf
  <2>4. KeyStep
    BY <1>1, <1>2, <1>7, <2>1, <2>3 DEF KeyStep
  <2> QED BY <1>1, <1>5, <1>6, <1>8, <1>9, <2>2, <2>4 DEF Preserved, RegInv, Stable
<1>11. CASE e # "public_key"
  <2>1. \A w \in User : row'[w].public_key = row[w].public_key
    BY <1>3, <1>4, <1>11
  <2>2. LeadsBack' /\ KeyStep
    BY <1>1, <2>1 DEF RegInv, LeadsBack, KeyStep
  <2> QED BY <1>1, <1>5, <1>6, <1>8, <1>9, <2>2 DEF Preserved, RegInv, Stable
<1> QED BY <1>10, <1>11

\* The last write: the address leads to the user.
LEMMA ReversePreserves ==
  ASSUME RegInv, NEW u \in User, WriteReverse(u)
  PROVE  Preserved
<1> DEFINE a == row[u].new
           c == Set(Reset(row[u], "account_creation_failed"), "account_created")
           s == CreatePin([c EXCEPT !.new = 0])
<1>1. /\ reverse' = [reverse EXCEPT ![a] = u] /\ UNCHANGED <<given, active, faults>>
      /\ row' = [row EXCEPT ![u] = s]
  BY DEF WriteReverse, Change
<1>2. row[u] \in Row /\ a # 0 /\ a \in Account /\ row[u].public_key = a
  BY DEF RegInv, Sound, WriteReverse, Creating, Row
<1>3. c \in Row /\ c.public_key = a
  <2>1. Like(row[u], Reset(row[u], "account_creation_failed"))
    BY <1>2, HandlersAreLike DEF Flag
  <2> QED BY <1>2, <2>1, HandlersAreLike DEF Flag, Like
<1> HIDE DEF c
<1>4. s \in Row /\ s.public_key = a /\ s.new = 0 /\ s.node # "create_account"
  <2>1. /\ [c EXCEPT !.new = 0] \in Row /\ [c EXCEPT !.new = 0].new = 0
        /\ [c EXCEPT !.new = 0].public_key = a
    BY <1>3 DEF Row
  <2> QED BY <2>1, CreatePinIsSettled DEF Settled, Like
<1> HIDE DEF s
<1>5. /\ \A w \in User : row'[w] = IF w = u THEN s ELSE row[w]
      /\ row' \in [User -> Row]
  BY <1>1, <1>4 DEF RegInv, RegTypeOK
<1>6. /\ \A b \in Account : reverse'[b] = IF b = a THEN u ELSE reverse[b]
      /\ reverse' \in [Account -> User \cup {Nobody}]
  BY <1>1 DEF RegInv, RegTypeOK
<1>7. RegTypeOK'
  BY <1>1, <1>5, <1>6 DEF RegInv, RegTypeOK
<1>8. \A w \in User : Sound(row'[w])
  BY <1>4, <1>5 DEF RegInv, Sound
<1>9. \A w \in User : row'[w].public_key = row[w].public_key
  BY <1>2, <1>4, <1>5
<1>10. Given' /\ Distinct'
  <2>1. \A w \in User : AccountsOf(w)' \subseteq AccountsOf(w)
    BY <1>4, <1>5, <1>9 DEF AccountsOf
  <2> QED BY <1>1, <2>1 DEF RegInv, Given, Distinct
<1>11. LeadsBack'
  BY <1>2, <1>6, <1>9 DEF RegInv, LeadsBack
<1>12. Unwritten'
  <2> SUFFICES ASSUME NEW w \in User, row'[w].new # 0
               PROVE  reverse'[row'[w].new] = Nobody
    BY DEF Unwritten
  <2>1. w # u /\ row'[w].new = row[w].new
    BY <1>4, <1>5
  <2>2. row[w].new # a
    BY <1>2, <2>1 DEF RegInv, Distinct, AccountsOf
  <2>3. row[w].new \in Account
    BY <2>1 DEF RegInv, RegTypeOK, Row
  <2> QED BY <1>6, <2>1, <2>2, <2>3 DEF RegInv, Unwritten
<1>13. reverse[a] = Nobody
  BY <1>2 DEF RegInv, Unwritten
<1>14. KeyStep
  BY <1>1, <1>2, <1>9, <1>13 DEF KeyStep
<1>15. Stable
  BY <1>6, <1>13, NullAssumption DEF Stable
<1> QED BY <1>7, <1>8, <1>10, <1>11, <1>12, <1>14, <1>15 DEF Preserved, RegInv

\* What a user does, or his request, whatever goes wrong.
LEMMA UserPreserves ==
  ASSUME RegInv, NEW u \in User, NEW held \in SUBSET Voucher,
         Go(u, held) \/ Stops(u, held)
  PROVE  Preserved
<1>1. Cardinality({}) \in Nat /\ \A f \in Fault : Cardinality({f}) \in Nat
  <2>1. Cardinality({}) = 0
    BY FS_EmptySet
  <2>2. \A f \in Fault : Cardinality({f}) = 1
    BY FS_Singleton
  <2> QED BY <2>1, <2>2
<1>2. ASSUME Dial(u, held, {}) \/ \E f \in Fault : Dial(u, held, {f})
      PROVE  Preserved
  BY <1>1, <1>2, DialPreserves
<1>3. CASE Go(u, held)
  BY <1>2, <1>3, PromptPreserves, GivingPreserves, WritingPreserves, ReversePreserves DEF Go
<1>4. CASE Stops(u, held)
  BY <1>2, <1>4, PromptPreserves, FailurePreserves DEF Stops
<1> QED BY <1>3, <1>4

LEMMA ActivatePreserves ==
  ASSUME RegInv, NEW a \in Account, Activate(a)
  PROVE  Preserved
<1>1. active' \subseteq given
  BY DEF Activate, RegInv, RegTypeOK
<1> QED BY <1>1, RowsKept, FaultsInBounds DEF Activate
=============================================================================
