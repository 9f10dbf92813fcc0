--------------------------- MODULE PinMenu_proofs ---------------------------
(***************************************************************************)
(* Proofs about PinMenu, for every set of users, PINs and every limit.     *)
(***************************************************************************)
EXTENDS PinMenu, TLAPS

\* A row is good when it is well-typed and locked at the limit; it is safe when
\* the node its session halted on also has what it needs.
AtLimit(s) ==
  s.attempts = AllowedPINAttempts /\ "incorrect_pin" \notin s.flags
    => "account_blocked" \in s.flags

GoodRow == {s \in Row : AtLimit(s)}

ConfirmNode == {"confirm_create_pin", "confirm_pin_change"}
ResetNode == {"self_reset_pin", "confirm_self_reset"}
SpecialNode == {"initiated", "blocked_account"}
PlainNode == Node \ (ConfirmNode \cup ResetNode \cup SpecialNode)

Candidate(s) == s.node \in ConfirmNode \/ s.back \in ConfirmNode => s.temp # NoPin
Marked(s) == s.node \in ResetNode \/ s.back \in ResetNode => s.selfReset
Clean(s) ==
  /\ s.node = "initiated" => s.attempts = 0 /\ "incorrect_pin" \notin s.flags
  /\ s.node = "blocked_account" => "account_blocked" \in s.flags
  /\ s.back \notin SpecialNode

SafeRow == {s \in GoodRow : Candidate(s) /\ Marked(s) /\ Clean(s)}

Inv == row \in [User -> SafeRow]

\* The counter arithmetic stays within a uint8, and a count at the limit
\* leaves no attempt.
LEMMA CounterFacts ==
  /\ \A n \in 0 .. CounterModulus - 1 :
       (n + 1) % CounterModulus \in 0 .. CounterModulus - 1
  /\ Remaining(AllowedPINAttempts) = 0
  /\ 0 \in 0 .. CounterModulus - 1
BY CounterAssumption DEF Remaining

\* Every handler turns a good row into a good row.
LEMMA HandlersKeepGoodRow ==
  ASSUME NEW s \in GoodRow, NEW in \in Input
  PROVE  /\ ResetIncorrectPin(s) \in GoodRow
         /\ Authorize(s, in) \in GoodRow
         /\ SaveTemporaryPin(s, in) \in GoodRow
         /\ CheckBlockedStatus(s) \in GoodRow
         /\ ResetFlags(s, {"account_authorized"}) \in GoodRow
         /\ ResetFlags(s, {"invalid_pin"}) \in GoodRow
         /\ [s EXCEPT !.temp = NoPin] \in GoodRow
<1>1. ResetIncorrectPin(s) \in GoodRow
  BY CounterFacts DEF ResetIncorrectPin, ResetFlags, SetFlags, GoodRow, AtLimit, Row, Flag
<1>2. Authorize(s, in) \in GoodRow
  <2> DEFINE t == Authorize(s, in)
  <2>1. CASE in \notin PIN
    BY <2>1 DEF Authorize, ResetFlags, GoodRow, AtLimit, Row, Flag
  <2>2. CASE in \in PIN /\ in = s.pin
    <3>1. t \in Row
      BY <2>2, CounterFacts DEF Authorize, GoodRow, Row, Flag
    <3>2. t.attempts = 0
      BY <2>2 DEF Authorize, GoodRow, Row
    <3>3. AtLimit(t)
      BY <3>2, CounterAssumption DEF AtLimit
    <3> QED BY <3>1, <3>3 DEF GoodRow
  <2>3. CASE in \in PIN /\ in # s.pin
    <3>1. (s.attempts + 1) % CounterModulus \in 0 .. CounterModulus - 1
      BY CounterFacts DEF GoodRow, Row
    <3>2. t \in Row
      BY <2>3, <3>1 DEF Authorize, GoodRow, Row, Flag
    <3>3. "incorrect_pin" \in t.flags
      BY <2>3 DEF Authorize, GoodRow, Row
    <3>4. AtLimit(t)
      BY <3>3 DEF AtLimit
    <3> QED BY <3>2, <3>4 DEF GoodRow
  <2> QED BY <2>1, <2>2, <2>3
<1>3. SaveTemporaryPin(s, in) \in GoodRow
  BY DEF SaveTemporaryPin, ResetFlags, SetFlags, GoodRow, AtLimit, Row, Flag
<1>4. CheckBlockedStatus(s) \in GoodRow
  BY CounterAssumption DEF CheckBlockedStatus, ResetFlags, GoodRow, AtLimit, Row, Flag
<1>5. ResetFlags(s, {"account_authorized"}) \in GoodRow
  BY DEF ResetFlags, GoodRow, AtLimit, Row, Flag
<1>6. ResetFlags(s, {"invalid_pin"}) \in GoodRow
  BY DEF ResetFlags, GoodRow, AtLimit, Row, Flag
<1>7. [s EXCEPT !.temp = NoPin] \in GoodRow
  BY DEF GoodRow, AtLimit, Row
<1> QED BY <1>1, <1>2, <1>3, <1>4, <1>5, <1>6, <1>7

\* So do the two handlers that store a PIN, for a user who entered one.
LEMMA StoringKeepsGoodRow ==
  ASSUME NEW s \in GoodRow, NEW in \in Input
  PROVE  ConfirmPinChange(s, in) \in GoodRow /\ VerifyCreatePin(s, in) \in GoodRow
BY DEF ConfirmPinChange, VerifyCreatePin, SetFlags, GoodRow, AtLimit, Row, Flag

\* Halting somewhere changes the node and nothing that AtLimit looks at.
LEMMA HaltingKeepsGoodRow ==
  ASSUME NEW s \in GoodRow, NEW n \in Node, NEW from \in Node
  PROVE  /\ At(s, n) \in GoodRow
         /\ At(s, n).node = n /\ At(s, n).back = "off"
         /\ At(s, n).temp = s.temp /\ At(s, n).flags = s.flags
         /\ At(s, n).attempts = s.attempts /\ At(s, n).selfReset = s.selfReset
         /\ ErrorAt(s, n, from) \in GoodRow
         /\ ErrorAt(s, n, from).node = n /\ ErrorAt(s, n, from).back = from
         /\ ErrorAt(s, n, from).temp = s.temp
         /\ ErrorAt(s, n, from).selfReset = s.selfReset
<1>1. "off" \in Node
  BY DEF Node
<1> QED BY <1>1 DEF At, ErrorAt, GoodRow, AtLimit, Row

\* Halting a good row on a plain node makes it safe.
LEMMA PlainNodesAreSafe ==
  ASSUME NEW s \in GoodRow, NEW n \in PlainNode, NEW from \in PlainNode
  PROVE  At(s, n) \in SafeRow /\ ErrorAt(s, n, from) \in SafeRow
<1>1. /\ n \in Node /\ from \in Node
      /\ {n, from} \cap ConfirmNode = {} /\ {n, from} \cap ResetNode = {}
  BY DEF PlainNode
<1>2. {n, from, "off"} \cap SpecialNode = {} /\ "off" \notin ConfirmNode \cup ResetNode
  BY DEF PlainNode, ConfirmNode, ResetNode, SpecialNode
<1>3. At(s, n) \in SafeRow
  <2> DEFINE t == At(s, n)
  <2>1. t \in GoodRow /\ t.node = n /\ t.back = "off"
    BY <1>1, HaltingKeepsGoodRow
  <2>2. Candidate(t) /\ Marked(t) /\ Clean(t)
    BY <1>1, <1>2, <2>1 DEF Candidate, Marked, Clean, SpecialNode
  <2> QED BY <2>1, <2>2 DEF SafeRow
<1>4. ErrorAt(s, n, from) \in SafeRow
  <2> DEFINE t == ErrorAt(s, n, from)
  <2>1. t \in GoodRow /\ t.node = n /\ t.back = from
    BY <1>1, HaltingKeepsGoodRow
  <2>2. Candidate(t) /\ Marked(t) /\ Clean(t)
    BY <1>1, <1>2, <2>1 DEF Candidate, Marked, Clean, SpecialNode
  <2> QED BY <2>1, <2>2 DEF SafeRow
<1> QED BY <1>3, <1>4

\* A right PIN is the only way to be authorized, and leaves a clean count.
LEMMA AuthorizeVerdict ==
  ASSUME NEW s \in GoodRow, NEW in \in Input,
         "account_authorized" \in Authorize(s, in).flags
  PROVE  /\ Authorize(s, in).attempts = 0
         /\ "incorrect_pin" \notin Authorize(s, in).flags
BY DEF Authorize, ResetFlags, GoodRow, Row

\* Halting on a prompt of a reset is safe while the reset is marked, and on another
\* prompt to confirm a PIN with a candidate PIN stored.
LEMMA PromptsAreSafe ==
  ASSUME NEW s \in GoodRow, NEW n \in Node, NEW from \in Node,
         {n, from} \cap SpecialNode = {},
         {n, from} \cap ConfirmNode # {} => s.temp # NoPin,
         {n, from} \cap ResetNode # {} => s.selfReset
  PROVE  At(s, n) \in SafeRow /\ ErrorAt(s, n, from) \in SafeRow
<1>1. "off" \notin ConfirmNode \cup ResetNode \cup SpecialNode
  BY DEF ConfirmNode, ResetNode, SpecialNode
<1>2. At(s, n) \in SafeRow
  <2> DEFINE t == At(s, n)
  <2>1. /\ t \in GoodRow /\ t.node = n /\ t.back = "off" /\ t.temp = s.temp
        /\ t.selfReset = s.selfReset
    BY HaltingKeepsGoodRow
  <2>2. Candidate(t) /\ Marked(t) /\ Clean(t)
    BY <1>1, <2>1 DEF Candidate, Marked, Clean, SpecialNode
  <2> QED BY <2>1, <2>2 DEF SafeRow
<1>3. ErrorAt(s, n, from) \in SafeRow
  <2> DEFINE t == ErrorAt(s, n, from)
  <2>1. /\ t \in GoodRow /\ t.node = n /\ t.back = from /\ t.temp = s.temp
        /\ t.selfReset = s.selfReset
    BY HaltingKeepsGoodRow
  <2>2. Candidate(t) /\ Marked(t) /\ Clean(t)
    BY <2>1 DEF Candidate, Marked, Clean, SpecialNode
  <2> QED BY <2>1, <2>2 DEF SafeRow
<1> QED BY <1>2, <1>3

\* The lock screen is safe for a locked account.
LEMMA LockScreenIsSafe ==
  ASSUME NEW s \in GoodRow, "account_blocked" \in s.flags
  PROVE  At(s, "blocked_account") \in SafeRow
<1> DEFINE t == At(s, "blocked_account")
<1>1. "blocked_account" \in Node
  BY DEF Node
<1>2. t \in GoodRow /\ t.node = "blocked_account" /\ t.back = "off" /\ t.flags = s.flags
  BY <1>1, HaltingKeepsGoodRow
<1>3. Candidate(t) /\ Marked(t) /\ Clean(t)
  BY <1>2 DEF Candidate, Marked, Clean, ConfirmNode, ResetNode, SpecialNode
<1> QED BY <1>2, <1>3 DEF SafeRow

\* Every script leaves a safe row, whatever flags it starts from.
LEMMA ScriptsAreSafe ==
  ASSUME NEW s \in GoodRow, NEW n \in PlainNode, NEW up \in BOOLEAN
  PROVE  /\ EnterRoot(s, up) \in SafeRow
         /\ EnterIncorrectPin(s, n) \in SafeRow
         /\ EnterInvalidPin(s, n) \in SafeRow
         /\ EnterPinManagement(s) \in SafeRow
         /\ EnterOldPin(s) \in SafeRow
         /\ EnterOtherNumber(s) \in SafeRow
         /\ EnterBalances(s) \in SafeRow
         /\ EnterMyBalance(s) \in SafeRow
         /\ Resume(s, n) \in SafeRow
         /\ Quit(s) \in SafeRow
<1>0. {"off", "main", "create_pin",
       "incorrect_pin", "invalid_pin", "pin_management", "old_pin",
       "enter_other_number", "balances", "my_balance", "pin_entry"} \subseteq PlainNode
  BY DEF PlainNode, Node, ConfirmNode, ResetNode, SpecialNode
<1>1. "other" \in Input
  BY DEF Input, Key
<1>2. EnterRoot(s, up) \in SafeRow
  <2> DEFINE r == CheckBlockedStatus(s)
  <2>1. r \in GoodRow
    BY <1>1, HandlersKeepGoodRow
  <2>2. ResetFlags(r, {"invalid_pin"}) \in GoodRow /\ [r EXCEPT !.temp = NoPin] \in GoodRow
    BY <1>1, <2>1, HandlersKeepGoodRow
  <2> HIDE DEF r
  <2>3. \A m \in PlainNode : At(r, m) \in SafeRow
                             /\ At([r EXCEPT !.temp = NoPin], m) \in SafeRow
    BY <2>1, <2>2, PlainNodesAreSafe
  <2>4. Has(r, "account_blocked") => At(r, "blocked_account") \in SafeRow
    BY <2>1, LockScreenIsSafe DEF Has
  <2>5. r.selfReset => At(ResetFlags(r, {"invalid_pin"}), "self_reset_pin") \in SafeRow
    <3>1. ResetFlags(r, {"invalid_pin"}).selfReset = r.selfReset
      BY <2>1 DEF ResetFlags, GoodRow, Row
    <3>2. "self_reset_pin" \in Node /\ "self_reset_pin" \notin ConfirmNode \cup SpecialNode
      BY DEF Node, ConfirmNode, SpecialNode
    <3> QED BY <2>2, <3>1, <3>2, PromptsAreSafe
  <2> QED BY <1>0, <2>3, <2>4, <2>5 DEF EnterRoot, r
<1>3. \A m \in PlainNode : EnterIncorrectPin(s, m) \in SafeRow
  <2> DEFINE r == ResetIncorrectPin(s)
  <2>1. r \in GoodRow
    BY <1>1, HandlersKeepGoodRow
  <2> HIDE DEF r
  <2>2. /\ \A m \in PlainNode : ErrorAt(r, "incorrect_pin", m) \in SafeRow
        /\ Has(r, "account_blocked") => At(r, "blocked_account") \in SafeRow
    BY <1>0, <2>1, PlainNodesAreSafe, LockScreenIsSafe DEF Has
  <2> QED BY <2>2 DEF EnterIncorrectPin, r
<1>4. EnterInvalidPin(s, n) \in SafeRow
  BY <1>0, <1>1, HandlersKeepGoodRow, PlainNodesAreSafe DEF EnterInvalidPin
<1>5. EnterPinManagement(s) \in SafeRow
  BY <1>0, <1>1, HandlersKeepGoodRow, PlainNodesAreSafe DEF EnterPinManagement
<1>6. EnterOldPin(s) \in SafeRow
  BY <1>0, <1>1, HandlersKeepGoodRow, PlainNodesAreSafe DEF EnterOldPin
<1>7. EnterOtherNumber(s) \in SafeRow
  BY <1>0, <1>1, HandlersKeepGoodRow, PlainNodesAreSafe DEF EnterOtherNumber
<1>8. EnterBalances(s) \in SafeRow
  BY <1>0, <1>1, HandlersKeepGoodRow, PlainNodesAreSafe DEF EnterBalances
<1>9. EnterMyBalance(s) \in SafeRow
  BY <1>0, <1>3, PlainNodesAreSafe DEF EnterMyBalance
<1>10. Resume(s, n) \in SafeRow
  BY <1>6, <1>7, PlainNodesAreSafe DEF Resume
<1>11. Quit(s) \in SafeRow
  BY <1>0, <1>1, HandlersKeepGoodRow, PlainNodesAreSafe DEF Quit
<1> QED BY <1>2, <1>3, <1>4, <1>5, <1>6, <1>7, <1>8, <1>9, <1>10, <1>11

\* The guarded node behind a prompt is only reached with a clean count.
LEMMA InitiatedIsSafe ==
  ASSUME NEW s \in GoodRow, NEW n \in PlainNode, NEW ok \in BOOLEAN,
         "account_authorized" \in s.flags => s.attempts = 0
  PROVE  EnterInitiated(s, n, ok) \in SafeRow
<1> DEFINE r == ResetIncorrectPin(s)
<1>1. r \in GoodRow
  BY HandlersKeepGoodRow DEF Input, Key
<1>2. /\ "incorrect_pin" \notin r.flags /\ r.attempts = s.attempts
      /\ "account_authorized" \in r.flags <=> "account_authorized" \in s.flags
  BY DEF ResetIncorrectPin, ResetFlags, SetFlags, GoodRow, Row
<1> HIDE DEF r
<1> DEFINE q == ResetFlags(r, {"account_authorized"})
<1>3. q \in GoodRow /\ "incorrect_pin" \notin q.flags /\ q.attempts = r.attempts
  BY <1>1, <1>2, HandlersKeepGoodRow DEF Input, Key, ResetFlags, GoodRow, Row
<1> HIDE DEF q
<1>4. ASSUME NEW x \in GoodRow, x.attempts = 0, "incorrect_pin" \notin x.flags
      PROVE  At(x, "initiated") \in SafeRow
  <2>0. "initiated" \in Node
    BY DEF Node
  <2>1. /\ At(x, "initiated") \in GoodRow /\ At(x, "initiated").back = "off"
        /\ At(x, "initiated").node = "initiated" /\ At(x, "initiated").attempts = 0
        /\ "incorrect_pin" \notin At(x, "initiated").flags
    BY <1>4, <2>0, HaltingKeepsGoodRow
  <2>2. /\ Candidate(At(x, "initiated")) /\ Marked(At(x, "initiated"))
        /\ Clean(At(x, "initiated"))
    BY <2>1 DEF Candidate, Marked, Clean, ConfirmNode, ResetNode, SpecialNode
  <2> QED BY <2>1, <2>2 DEF SafeRow
<1>5. CASE "account_authorized" \in r.flags
  <2>1. At(r, "initiated") \in SafeRow /\ At(q, "initiated") \in SafeRow
    BY <1>1, <1>2, <1>3, <1>4, <1>5
  <2> QED BY <1>5, <2>1 DEF EnterInitiated, Has, r, q
<1>6. CASE "account_authorized" \notin r.flags
  BY <1>1, <1>6, PlainNodesAreSafe DEF EnterInitiated, Has, r
<1> QED BY <1>5, <1>6

\* A request that leaves its user with a safe row keeps the invariant.
LEMMA StepKeepsInv ==
  ASSUME Inv, NEW u \in User, NEW s \in SafeRow, Step(u, s)
  PROVE  Inv'
BY DEF Inv, Step

\* Navigating through the menus keeps the invariant.
LEMMA NavigateKeepsInv ==
  ASSUME Inv, NEW u \in User, Navigate(u)
  PROVE  Inv'
<1> DEFINE r == row[u]
<1>1. r \in SafeRow /\ r \in GoodRow
  BY DEF Inv, SafeRow
<1>2. "other" \in Input
  BY DEF Input, Key
<1>3. {"off", "my_account", "check_statement", "main", "no_admin_privilege", "amount",
       "pin_late", "pin_management"} \subseteq PlainNode
  BY DEF PlainNode, Node, ConfirmNode, ResetNode, SpecialNode
<1>4. \A n \in PlainNode : At(r, n) \in SafeRow
  BY <1>1, PlainNodesAreSafe
<1> HIDE DEF r
<1>5. CASE QuitMenu(u)
  BY <1>1, <1>3, <1>5, ScriptsAreSafe, StepKeepsInv DEF QuitMenu, r
<1>6. CASE OpenMyAccount(u)
  <2>1. At(Authorize(r, "other"), "my_account") \in SafeRow
    BY <1>1, <1>2, <1>3, HandlersKeepGoodRow, PlainNodesAreSafe
  <2> QED BY <1>6, <2>1, StepKeepsInv DEF OpenMyAccount, r
<1>7. CASE OpenBalances(u)
  BY <1>1, <1>3, <1>7, ScriptsAreSafe, StepKeepsInv DEF OpenBalances, r
<1>8. CASE OpenMyBalance(u)
  <2>1. EnterMyBalance(ResetIncorrectPin(r)) \in SafeRow
    BY <1>1, <1>2, <1>3, HandlersKeepGoodRow, ScriptsAreSafe
  <2> QED BY <1>8, <2>1, StepKeepsInv DEF OpenMyBalance, r
<1>9. CASE OpenStatement(u)
  BY <1>3, <1>4, <1>9, StepKeepsInv DEF OpenStatement, r
<1>10. CASE OpenPinManagement(u)
  BY <1>1, <1>3, <1>10, ScriptsAreSafe, StepKeepsInv DEF OpenPinManagement, r
<1>11. CASE LeaveMenu(u)
  BY <1>3, <1>4, <1>11, StepKeepsInv DEF LeaveMenu, r
<1>12. CASE ChooseOldPin(u)
  BY <1>1, <1>3, <1>12, ScriptsAreSafe, StepKeepsInv DEF ChooseOldPin, r
<1>13. CASE ChooseResetOthersPin(u)
  BY <1>1, <1>3, <1>4, <1>13, ScriptsAreSafe, StepKeepsInv DEF ChooseResetOthersPin, r
<1>14. CASE ChooseAmount(u)
  BY <1>3, <1>4, <1>14, StepKeepsInv DEF ChooseAmount, r
<1>15. CASE EnterPinLate(u)
  BY <1>3, <1>4, <1>15, StepKeepsInv DEF EnterPinLate, r
<1>16. CASE Retry(u)
  <2>1. Step(u, Resume(r, r.back))
    BY <1>16 DEF Retry, r
  <2>2. r.back \in Node /\ r.back \notin SpecialNode
    BY <1>1 DEF SafeRow, GoodRow, Row, Clean
  <2>3. CASE r.back \in PlainNode
    BY <1>1, <2>1, <2>3, ScriptsAreSafe, StepKeepsInv
  <2>4. CASE r.back \in ConfirmNode \cup ResetNode
    <3>1. r.back \in ConfirmNode => r.temp # NoPin
      BY <1>1 DEF SafeRow, Candidate
    <3>2. r.back \in ResetNode => r.selfReset
      BY <1>1 DEF SafeRow, Marked
    <3>3. At(r, r.back) \in SafeRow
      BY <1>1, <2>2, <3>1, <3>2, PromptsAreSafe
    <3>4. Resume(r, r.back) = At(r, r.back)
      BY <2>4 DEF Resume, ConfirmNode, ResetNode
    <3> QED BY <2>1, <3>3, <3>4, StepKeepsInv
  <2> QED BY <2>2, <2>3, <2>4 DEF PlainNode
<1>17. CASE LeaveNumber(u)
  BY <1>3, <1>4, <1>17, StepKeepsInv DEF LeaveNumber, r
<1> QED BY <1>5, <1>6, <1>7, <1>8, <1>9, <1>10, <1>11, <1>12, <1>13, <1>14, <1>15,
           <1>16, <1>17 DEF Navigate

\* What follows a PIN prompt keeps the invariant.
LEMMA AfterGuardKeepsInv ==
  ASSUME Inv, NEW u \in User, NEW s \in GoodRow, NEW in \in Input, NEW ok \in BOOLEAN,
         NEW n \in PlainNode, NEW parent \in PlainNode,
         "account_authorized" \in s.flags => s.attempts = 0,
         AfterGuard(u, n, parent, s, in, ok)
  PROVE  Inv'
<1>1. EnterInitiated(s, n, ok) \in SafeRow
  BY InitiatedIsSafe
<1>2. EnterIncorrectPin(s, n) \in SafeRow /\ Resume(s, parent) \in SafeRow /\ Quit(s) \in SafeRow
  BY ScriptsAreSafe
<1> QED BY <1>1, <1>2, StepKeepsInv DEF AfterGuard

\* Resetting another user's PIN keeps the invariant.
LEMMA ResetKeepsInv ==
  ASSUME Inv, NEW u \in User, NEW s \in GoodRow, ResetOthersPin(u, s)
  PROVE  Inv'
<1> DEFINE entered == At(s, "pin_reset_result")
           t == s.blockedNumber
           before == [row EXCEPT ![u] = entered]
<1>1. entered \in SafeRow
  BY PlainNodesAreSafe DEF PlainNode, Node, ConfirmNode, ResetNode, SpecialNode
<1>2. before \in [User -> SafeRow]
  BY <1>1 DEF Inv
<1>3. row' = [before EXCEPT ![t].selfReset = TRUE, ![t].attempts = 0]
  BY DEF ResetOthersPin
<1> HIDE DEF entered, before, t
<1>4. ASSUME NEW q \in SafeRow
      PROVE  [q EXCEPT !.selfReset = TRUE, !.attempts = 0] \in SafeRow
  <2> DEFINE z == [q EXCEPT !.selfReset = TRUE, !.attempts = 0]
  <2>1. q \in Row /\ Candidate(q) /\ Marked(q) /\ Clean(q)
    BY DEF SafeRow, GoodRow
  <2>2. z \in Row
    BY <2>1, CounterFacts DEF Row
  <2>3. /\ z.attempts = 0 /\ z.node = q.node /\ z.back = q.back
        /\ z.temp = q.temp /\ z.flags = q.flags /\ z.selfReset = TRUE
    BY <2>1 DEF Row
  <2> HIDE DEF z
  <2>4. AtLimit(z) /\ Candidate(z) /\ Marked(z) /\ Clean(z)
    BY <2>1, <2>3, CounterAssumption DEF AtLimit, Candidate, Marked, Clean
  <2>5. z \in SafeRow
    BY <2>2, <2>4 DEF SafeRow, GoodRow
  <2> QED BY <2>5 DEF z
<1>5. CASE t \in User
  <2>1. before[t] \in SafeRow
    BY <1>2, <1>5
  <2>2. row' = [before EXCEPT ![t] = [before[t] EXCEPT !.selfReset = TRUE, !.attempts = 0]]
    BY <1>2, <1>3, <1>5
  <2> QED BY <1>2, <1>4, <2>1, <2>2 DEF Inv
<1>6. CASE t \notin User
  BY <1>2, <1>3, <1>6 DEF Inv
<1> QED BY <1>5, <1>6

\* Answering a prompt keeps the invariant.
LEMMA AnswerKeepsInv ==
  ASSUME Inv, NEW u \in User, NEW in \in Input, Answer(u, in)
  PROVE  Inv'
<1> DEFINE r == row[u]
           a == Authorize(r, in)
           p == SaveTemporaryPin(r, in)
<1>1. r \in SafeRow /\ r \in GoodRow /\ r \in Row
  BY DEF Inv, SafeRow, GoodRow
<1>2. a \in GoodRow /\ p \in GoodRow
  BY <1>1, HandlersKeepGoodRow
<1>3. {"create_pin", "new_pin", "pin_early", "my_account", "transactions", "old_pin", "pin_management", "check_statement",
       "authorize_reset_others_pin", "off", "pin_reset_success"} \subseteq PlainNode
  BY DEF PlainNode, Node, ConfirmNode, ResetNode, SpecialNode
<1>4. \A n \in PlainNode : At(r, n) \in SafeRow /\ At(a, n) \in SafeRow /\ At(p, n) \in SafeRow
  BY <1>1, <1>2, PlainNodesAreSafe
<1>5. /\ \A n \in ConfirmNode : n \in Node /\ n \notin SpecialNode \cup ResetNode
      /\ \A n \in ResetNode : n \in Node /\ n \notin SpecialNode \cup ConfirmNode
  BY DEF ConfirmNode, ResetNode, Node, SpecialNode
<1>6. in # "0" /\ ~Has(p, "invalid_pin") => p.temp # NoPin
  BY <1>1, PinAssumption DEF SaveTemporaryPin, SetFlags, Has, Row
<1>7. in # "0" /\ ~Has(p, "invalid_pin") => \A n \in ConfirmNode : At(p, n) \in SafeRow
  BY <1>2, <1>5, <1>6, PromptsAreSafe
<1>8. \A n \in PlainNode : EnterIncorrectPin(a, n) \in SafeRow
                           /\ EnterInvalidPin(a, n) \in SafeRow
                           /\ EnterInvalidPin(p, n) \in SafeRow
  BY <1>2, ScriptsAreSafe
<1>9. /\ EnterOldPin(r) \in SafeRow /\ EnterMyBalance(a) \in SafeRow
      /\ EnterOtherNumber(a) \in SafeRow /\ Quit(a) \in SafeRow
  BY <1>1, <1>2, <1>3, ScriptsAreSafe
<1> HIDE DEF a, p
<1>10. CASE EnterPinEarly(u, in)
  BY <1>3, <1>4, <1>10, StepKeepsInv DEF EnterPinEarly, a
<1>11. CASE PinEntry(u, in)
  BY <1>9, <1>11, StepKeepsInv DEF PinEntry, a
<1>12. CASE CheckStatement(u, in)
  BY <1>3, <1>4, <1>8, <1>9, <1>12, StepKeepsInv DEF CheckStatement, a
<1>13. CASE CreatePin(u, in)
  BY <1>3, <1>4, <1>7, <1>8, <1>13, StepKeepsInv DEF CreatePin, ConfirmNode, p
<1>14. CASE OldPin(u, in)
  BY <1>3, <1>4, <1>8, <1>14, StepKeepsInv DEF OldPin, a
<1>15. CASE NewPin(u, in)
  BY <1>3, <1>7, <1>8, <1>9, <1>15, StepKeepsInv DEF NewPin, ConfirmNode, p
<1>16. CASE SelfResetPin(u, in)
  <2> DEFINE q == ResetFlags(p, {"invalid_pin"})
  <2>1. r.selfReset
    BY <1>1, <1>16 DEF SelfResetPin, On, SafeRow, Marked, ResetNode
  <2>2. p.selfReset /\ q.selfReset
    BY <1>1, <1>2, <2>1 DEF p, SaveTemporaryPin, SetFlags, ResetFlags, GoodRow, Row
  <2>3. q \in GoodRow
    BY <1>2, HandlersKeepGoodRow
  <2> HIDE DEF q
  <2>4. At(p, "confirm_self_reset") \in SafeRow
    BY <1>2, <1>5, <2>2, PromptsAreSafe DEF ResetNode
  <2>5. ErrorAt(q, "invalid_pin", "self_reset_pin") \in SafeRow
    <3>1. "invalid_pin" \in Node \ (ConfirmNode \cup SpecialNode)
      BY DEF Node, ConfirmNode, SpecialNode
    <3> QED BY <1>5, <2>2, <2>3, <3>1, PromptsAreSafe DEF ResetNode
  <2> QED BY <1>16, <2>4, <2>5, StepKeepsInv DEF SelfResetPin, EnterInvalidPin, p, q
<1>17. CASE ConfirmCreatePin(u, in)
  <2> DEFINE v == VerifyCreatePin(r, in)
  <2>1. v \in GoodRow /\ v.temp = r.temp
    BY <1>1, StoringKeepsGoodRow DEF VerifyCreatePin, SetFlags, Row
  <2>2. Quit(v) \in SafeRow
    BY <1>3, <2>1, ScriptsAreSafe
  <2>3. r.temp # NoPin
    BY <1>1, <1>17 DEF ConfirmCreatePin, On, SafeRow, Candidate, ConfirmNode
  <2>4. ErrorAt(v, "pin_mismatch", "confirm_create_pin") \in SafeRow
    BY <1>5, <2>1, <2>3, PromptsAreSafe DEF ConfirmNode, ResetNode, Node, SpecialNode
  <2> HIDE DEF v
  <2> QED BY <1>3, <1>4, <1>17, <2>2, <2>4, StepKeepsInv DEF ConfirmCreatePin, v
<1>18. CASE ConfirmNewPin(u, in)
  <2> DEFINE n == r.node
             c == ConfirmPinChange(r, in)
  <2>1. /\ c \in GoodRow /\ c.temp = r.temp
        /\ Has(c, "pin_mismatch") => c.selfReset = r.selfReset
    BY <1>1, StoringKeepsGoodRow DEF ConfirmPinChange, SetFlags, Has, Row
  <2>2. At(c, "pin_reset_success") \in SafeRow
    BY <1>3, <2>1, PlainNodesAreSafe
  <2>3. /\ {n, "pin_mismatch"} \subseteq Node /\ {n, "pin_mismatch"} \cap SpecialNode = {}
        /\ "pin_mismatch" \notin ConfirmNode \cup ResetNode
    BY <1>18 DEF ConfirmNewPin, ConfirmNode, ResetNode, Node, SpecialNode
  <2>4. n \in ResetNode => r.selfReset
    BY <1>1 DEF SafeRow, Marked
  <2>5. r.temp # NoPin /\ Has(c, "pin_mismatch") => ErrorAt(c, "pin_mismatch", n) \in SafeRow
    BY <2>1, <2>3, <2>4, PromptsAreSafe
  <2>6. n = "confirm_self_reset" => At(r, "self_reset_pin") \in SafeRow
    BY <1>1, <1>5, <2>4, PromptsAreSafe DEF ResetNode
  <2> HIDE DEF c
  <2> QED BY <1>3, <1>4, <1>18, <2>2, <2>5, <2>6, StepKeepsInv DEF ConfirmNewPin, c
<1>19. CASE AuthorizeReset(u, in)
  <2>1. CASE Step(u, a) /\ On(u, "authorize_reset_others_pin")
    <3>1. a.node = r.node /\ a.back = r.back /\ a.temp = r.temp /\ a.selfReset = r.selfReset
      BY <1>1 DEF a, Authorize, ResetFlags, Row
    <3>2. Candidate(a) /\ Marked(a) /\ Clean(a)
      BY <1>1, <2>1, <3>1 DEF SafeRow, Candidate, Marked, Clean, On
    <3> QED BY <1>2, <2>1, <3>2, StepKeepsInv DEF SafeRow
  <2>2. CASE ResetOthersPin(u, a)
    BY <1>2, <2>2, ResetKeepsInv
  <2> QED BY <1>3, <1>8, <1>9, <1>19, <2>1, <2>2, StepKeepsInv DEF AuthorizeReset, a
<1> QED BY <1>10, <1>11, <1>12, <1>13, <1>14, <1>15, <1>16, <1>17, <1>18, <1>19 DEF Answer

\* The invariant holds initially, is kept by every step, and so always holds.
THEOREM InvHolds == Spec => []Inv
<1>1. Init => Inv
  <2> SUFFICES ASSUME Init PROVE Inv
    OBVIOUS
  <2> DEFINE z == [pin |-> NoPin, temp |-> NoPin, attempts |-> 0,
                   selfReset |-> FALSE, blockedNumber |-> NoUser,
                   flags |-> {}, node |-> "off", back |-> "off"]
  <2>1. z \in Row
    BY CounterFacts DEF Row, Node
  <2>2. AtLimit(z) /\ Candidate(z) /\ Marked(z) /\ Clean(z)
    BY CounterAssumption DEF AtLimit, Candidate, Marked, Clean, ConfirmNode, ResetNode, SpecialNode
  <2>3. z \in SafeRow
    BY <2>1, <2>2 DEF SafeRow, GoodRow
  <2> QED BY <2>3 DEF Init, Inv
<1>2. Inv /\ [Next]_vars => Inv'
  <2> SUFFICES ASSUME Inv, [Next]_vars PROVE Inv'
    OBVIOUS
  <2>1. CASE UNCHANGED vars
    BY <2>1 DEF vars, Inv
  <2>2. ASSUME NEW u \in User, Navigate(u) PROVE Inv'
    BY <2>2, NavigateKeepsInv
  <2>3. ASSUME NEW u \in User, NEW up \in BOOLEAN, Dial(u, up) \/ BackToTop(u, up)
        PROVE  Inv'
    <3>1. row[u] \in GoodRow
      BY DEF Inv, SafeRow
    <3>2. EnterRoot(row[u], up) \in SafeRow
      BY <3>1, ScriptsAreSafe DEF PlainNode, Node, ConfirmNode, ResetNode, SpecialNode
    <3> QED BY <2>3, <3>2, StepKeepsInv DEF Dial, BackToTop
  <2>4. ASSUME NEW u \in User, NEW in \in Typed[u], Answer(u, in) PROVE Inv'
    <3>1. in \in Input
      BY <2>4, TypedAssumption
    <3> QED BY <2>4, <3>1, AnswerKeepsInv
  <2>5. ASSUME NEW u \in User, NEW in \in Typed[u], NEW ok \in BOOLEAN,
               PinEarly(u, in, ok) \/ PinLate(u, in, ok)
        PROVE  Inv'
    <3>1. in \in Input
      BY <2>5, TypedAssumption
    <3> DEFINE a == Authorize(row[u], in)
               b == Authorize(a, in)
    <3>2. row[u] \in GoodRow
      BY DEF Inv, SafeRow
    <3>3. a \in GoodRow /\ b \in GoodRow
      BY <3>1, <3>2, HandlersKeepGoodRow
    <3>4. /\ "account_authorized" \in a.flags => a.attempts = 0
          /\ "account_authorized" \in b.flags => b.attempts = 0
      BY <3>1, <3>2, <3>3, AuthorizeVerdict
    <3>5. {"pin_early", "pin_late_again", "amount", "main"} \subseteq PlainNode
      BY DEF PlainNode, Node, ConfirmNode, ResetNode, SpecialNode
    <3> HIDE DEF a, b
    <3>6. ASSUME NEW n \in PlainNode, NEW parent \in PlainNode,
                 \/ AfterGuard(u, n, parent, a, in, ok)
                 \/ AfterGuard(u, n, parent, b, in, ok)
          PROVE  Inv'
      BY <3>1, <3>3, <3>4, <3>6, AfterGuardKeepsInv
    <3> QED BY <2>5, <3>5, <3>6 DEF PinEarly, PinLate, a, b
  <2>6. ASSUME NEW u \in User, NEW num \in User \cup {NoUser}, EnterNumber(u, num)
        PROVE  Inv'
    <3> DEFINE t == At(row[u], "authorize_reset_others_pin")
               e == ErrorAt(row[u], "unregistered_number", "enter_other_number")
    <3>1. row[u] \in GoodRow
      BY DEF Inv, SafeRow
    <3>2. t \in SafeRow /\ e \in SafeRow
      BY <3>1, PlainNodesAreSafe DEF PlainNode, Node, ConfirmNode, ResetNode, SpecialNode
    <3> HIDE DEF t, e
    <3>3. num \in User => [t EXCEPT !.blockedNumber = num] \in SafeRow
      BY <3>2 DEF SafeRow, GoodRow, Row, AtLimit, Candidate, Marked, Clean
    <3> QED BY <2>6, <3>2, <3>3, StepKeepsInv, UserAssumption DEF EnterNumber, t, e
  <2> QED BY <2>1, <2>2, <2>3, <2>4, <2>5, <2>6 DEF Next
<1> QED BY <1>1, <1>2, PTL DEF Spec

\* Rows stay well-typed; in particular the attempts stay a uint8.
THEOREM TypeCorrect == Spec => []TypeOK
<1>1. Inv => TypeOK
  BY DEF Inv, SafeRow, GoodRow, TypeOK
<1> QED BY <1>1, InvHolds, PTL

\* An account at the limit is locked once its user has seen the error screen.
THEOREM LimitAlwaysBlocks == Spec => []LimitBlocks
<1>1. Inv => LimitBlocks
  BY DEF Inv, SafeRow, GoodRow, AtLimit, LimitBlocks, Has
<1> QED BY <1>1, InvHolds, PTL

\* Guarded operations start with a clean count.
THEOREM InitiatedAlwaysClean == Spec => []InitiatedIsClean
<1>1. Inv => InitiatedIsClean
  BY DEF Inv, SafeRow, Clean, InitiatedIsClean, Has, On
<1> QED BY <1>1, InvHolds, PTL

\* Who confirms a PIN that he creates or changes has entered one, and a reset stays
\* marked up to its confirmation, entered or not.
THEOREM ConfirmAlwaysHasCandidate == Spec => []ConfirmHasCandidate
<1>1. Inv => ConfirmHasCandidate
  BY DEF Inv, SafeRow, Candidate, Marked, ConfirmNode, ResetNode, ConfirmHasCandidate
<1> QED BY <1>1, InvHolds, PTL

-----------------------------------------------------------------------------
(* The lock *)

\* A request of v moves no other user's session.
OnlyMoves(v) == \A w \in User \ {v} : row'[w].node = row[w].node

LEMMA RequestsMoveTheirOwn ==
  ASSUME Inv, NEW v \in User, NEW s, Step(v, s) \/ ResetOthersPin(v, s)
  PROVE  OnlyMoves(v)
<1>1. row \in [User -> Row]
  BY DEF Inv, SafeRow, GoodRow
<1>2. CASE Step(v, s)
  BY <1>1, <1>2 DEF Step, OnlyMoves
<1>3. CASE ResetOthersPin(v, s)
  <2> DEFINE mid == [row EXCEPT ![v] = At(s, "pin_reset_result")]
             t == s.blockedNumber
  <2>1. row' = [mid EXCEPT ![t] = [[@ EXCEPT !.selfReset = TRUE] EXCEPT !.attempts = 0]]
    BY <1>3 DEF ResetOthersPin
  <2>2. DOMAIN mid = User /\ \A w \in User \ {v} : mid[w] = row[w]
    BY <1>1
  <2> HIDE DEF mid
  <2>3. ASSUME NEW w \in User \ {v} PROVE row'[w].node = row[w].node
    <3>1. row[w] \in Row
      BY <1>1, <2>3
    <3>2. CASE w = t
      BY <2>1, <2>2, <3>1, <3>2 DEF Row
    <3>3. CASE w # t
      BY <2>1, <2>2, <3>3
    <3> QED BY <3>2, <3>3
  <2> QED BY <2>3 DEF OnlyMoves
<1> QED BY <1>2, <1>3

\* A locked user who dials sees the lock screen, unless the count is back at
\* zero or a reset is marked.
LEMMA DiallingKeepsLock ==
  ASSUME NEW s \in Row, NEW up \in BOOLEAN,
         "account_blocked" \in s.flags, s.attempts # 0, ~s.selfReset
  PROVE  EnterRoot(s, up).node = "blocked_account"
<1>1. CheckBlockedStatus(s) = s
  BY DEF CheckBlockedStatus
<1>2. EnterRoot(s, up) = At(s, "blocked_account")
  BY <1>1 DEF EnterRoot, Has
<1> QED BY <1>2 DEF At, Row

\* The lock screen answers nothing but a new dial.
LEMMA LockScreenOffersNothing ==
  ASSUME Inv, Next, NEW u \in User, On(u, "blocked_account")
  PROVE  \/ row'[u].node = "blocked_account"
         \/ \E up \in BOOLEAN : Dial(u, up)
<1>1. ASSUME NEW v \in User, OnlyMoves(v), row[v].node # "blocked_account"
      PROVE  row'[u].node = "blocked_account"
  BY <1>1 DEF OnlyMoves, On
<1>2. ASSUME NEW v \in User, Navigate(v)
      PROVE  OnlyMoves(v) /\ row[v].node # "blocked_account"
  BY <1>2, RequestsMoveTheirOwn DEF Navigate, QuitMenu, OpenMyAccount, OpenBalances,
     OpenMyBalance, OpenStatement, OpenPinManagement, LeaveMenu, ChooseOldPin,
     ChooseResetOthersPin, ChooseAmount, EnterPinLate, Retry, LeaveNumber, On
<1>3. ASSUME NEW v \in User, NEW in, Answer(v, in)
      PROVE  OnlyMoves(v) /\ row[v].node # "blocked_account"
  BY <1>3, RequestsMoveTheirOwn DEF Answer, EnterPinEarly, PinEntry, CheckStatement,
     CreatePin, ConfirmCreatePin, OldPin, NewPin, SelfResetPin, ConfirmNewPin,
     AuthorizeReset, On
<1>4. ASSUME NEW v \in User, NEW in, NEW ok, PinEarly(v, in, ok) \/ PinLate(v, in, ok)
      PROVE  OnlyMoves(v) /\ row[v].node # "blocked_account"
  BY <1>4, RequestsMoveTheirOwn DEF PinEarly, PinLate, AfterGuard, On
<1>5. ASSUME NEW v \in User, NEW num, EnterNumber(v, num)
      PROVE  OnlyMoves(v) /\ row[v].node # "blocked_account"
  BY <1>5, RequestsMoveTheirOwn DEF EnterNumber, On
<1>6. ASSUME NEW v \in User, NEW up \in BOOLEAN, Dial(v, up) \/ BackToTop(v, up)
      PROVE  \/ row'[u].node = "blocked_account"
             \/ \E o \in BOOLEAN : Dial(u, o)
  <2>1. CASE BackToTop(v, up)
    BY <1>1, <2>1, RequestsMoveTheirOwn DEF BackToTop
  <2>2. CASE Dial(v, up) /\ v = u
    BY <2>2
  <2>3. CASE Dial(v, up) /\ v # u
    BY <2>3, RequestsMoveTheirOwn DEF Dial, OnlyMoves, On
  <2> QED BY <1>6, <2>1, <2>2, <2>3
<1> QED BY <1>1, <1>2, <1>3, <1>4, <1>5, <1>6 DEF Next

\* Nothing that a locked user or anybody else does takes his session off the
\* lock screen while the count is not zero and no reset is marked.
THEOREM LockAlwaysHolds == Spec => LockedUntilReset
<1>1. ASSUME Inv, [Next]_vars, NEW u \in User,
             On(u, "blocked_account"), row'[u].node # "blocked_account"
      PROVE  row[u].attempts = 0 \/ row[u].selfReset
  <2>1. row[u] \in Row /\ "account_blocked" \in row[u].flags
    BY <1>1 DEF Inv, SafeRow, GoodRow, Clean, On
  <2>2. Next
    BY <1>1 DEF vars, On
  <2>3. PICK up \in BOOLEAN : Dial(u, up)
    BY <1>1, <2>2, LockScreenOffersNothing
  <2>4. row'[u] = EnterRoot(row[u], up)
    BY <1>1, <2>3 DEF Dial, Step, Inv
  <2> QED BY <1>1, <2>1, <2>4, DiallingKeepsLock DEF Row
<1> DEFINE Kept == \A u \in User :
             On(u, "blocked_account") /\ row'[u].node # "blocked_account"
               => row[u].attempts = 0 \/ row[u].selfReset
<1>2. Inv /\ [Next]_vars => [Kept]_vars
  BY <1>1
<1>3. [][Kept]_vars => LockedUntilReset
  BY DEF LockedUntilReset
<1> QED BY <1>2, <1>3, InvHolds, PTL DEF Spec

-----------------------------------------------------------------------------
(* The reset of another user's PIN *)

\* The menus of which enter_other_number is the entrance are for admins.
AdminNode == {"enter_other_number", "authorize_reset_others_pin"}
Allowed(u, s) == u \in Admins \/ {s.node, s.back} \cap AdminNode = {}
Supervised == \A u \in User : Allowed(u, row[u])

\* t comes from s without a new mark; nor does it lead to the menus of admins.
Unmarked(s, t) == t.selfReset => s.selfReset
Outside(s, t) == Unmarked(s, t) /\ {t.node, t.back} \cap AdminNode = {}

\* A handler stays where it is.
Still(s, t) == t.selfReset = s.selfReset /\ t.node = s.node /\ t.back = s.back

LEMMA HandlersAreStill ==
  ASSUME NEW s \in GoodRow, NEW in \in Input
  PROVE  /\ Still(s, ResetIncorrectPin(s)) /\ Still(s, Authorize(s, in))
         /\ Still(s, SaveTemporaryPin(s, in)) /\ Still(s, CheckBlockedStatus(s))
         /\ Still(s, ResetFlags(s, {"account_authorized"}))
         /\ Still(s, ResetFlags(s, {"invalid_pin"}))
         /\ Still(s, [s EXCEPT !.temp = NoPin])
         /\ Still(s, VerifyCreatePin(s, in))
<1>1. s \in Row
  BY DEF GoodRow
<1>2. Still(s, ResetIncorrectPin(s)) /\ Still(s, CheckBlockedStatus(s))
  BY <1>1 DEF ResetIncorrectPin, CheckBlockedStatus, ResetFlags, SetFlags, Row, Still
<1>3. Still(s, Authorize(s, in))
  BY <1>1 DEF Authorize, ResetFlags, Row, Still
<1>4. Still(s, SaveTemporaryPin(s, in))
  BY <1>1 DEF SaveTemporaryPin, SetFlags, Row, Still
<1>5. Still(s, VerifyCreatePin(s, in))
  BY <1>1 DEF VerifyCreatePin, SetFlags, Row, Still
<1>6. /\ Still(s, ResetFlags(s, {"account_authorized"}))
      /\ Still(s, ResetFlags(s, {"invalid_pin"})) /\ Still(s, [s EXCEPT !.temp = NoPin])
  BY <1>1 DEF ResetFlags, Row, Still
<1> QED
  BY <1>2, <1>3, <1>4, <1>5, <1>6

\* Halting marks nothing, wherever it is.
LEMMA HaltingIsUnmarked ==
  ASSUME NEW s \in GoodRow, NEW n \in Node, NEW from \in Node
  PROVE  /\ Unmarked(s, At(s, n)) /\ Unmarked(s, ErrorAt(s, n, from))
         /\ n \notin AdminNode => Outside(s, At(s, n))
         /\ {n, from} \cap AdminNode = {} => Outside(s, ErrorAt(s, n, from))
<1>1. s \in Row
  BY DEF GoodRow
<1>2. At(s, n).selfReset = s.selfReset /\ ErrorAt(s, n, from).selfReset = s.selfReset
  BY <1>1 DEF At, ErrorAt, Row
<1>3. /\ At(s, n).node = n /\ At(s, n).back = "off"
      /\ ErrorAt(s, n, from).node = n /\ ErrorAt(s, n, from).back = from
  BY HaltingKeepsGoodRow
<1>4. "off" \notin AdminNode
  BY DEF AdminNode
<1> QED
  BY <1>2, <1>3, <1>4 DEF Unmarked, Outside

LEMMA StillThenOutside ==
  ASSUME NEW s, NEW r, NEW t, Still(s, r)
  PROVE  /\ Unmarked(r, t) => Unmarked(s, t)
         /\ Outside(r, t) => Outside(s, t)
BY DEF Still, Unmarked, Outside

\* The scripts that go somewhere else than to the menus of admins.
LEMMA ScriptsGoOutside ==
  ASSUME NEW s \in GoodRow, NEW n \in Node \ AdminNode, NEW up \in BOOLEAN
  PROVE  /\ Outside(s, EnterRoot(s, up))
         /\ Outside(s, EnterIncorrectPin(s, n))
         /\ Outside(s, EnterInvalidPin(s, n))
         /\ Outside(s, EnterPinManagement(s))
         /\ Outside(s, EnterOldPin(s))
         /\ Outside(s, EnterBalances(s))
         /\ Outside(s, EnterMyBalance(s))
         /\ Outside(s, Resume(s, n))
         /\ Outside(s, Quit(s))
<1>0. {"off", "main", "self_reset_pin", "create_pin", "blocked_account",
       "incorrect_pin", "invalid_pin", "pin_management", "old_pin",
       "balances", "my_balance", "pin_entry"} \subseteq Node \ AdminNode
  BY DEF Node, AdminNode
<1>1. "other" \in Input
  BY DEF Input, Key
<1>2. \A r \in GoodRow, m \in Node \ AdminNode, k \in Node \ AdminNode :
        Outside(r, At(r, m)) /\ Outside(r, ErrorAt(r, m, k))
  BY HaltingIsUnmarked
<1>3. Outside(s, EnterRoot(s, up))
  <2> DEFINE r == CheckBlockedStatus(s)
             a == ResetFlags(r, {"invalid_pin"})
             b == [r EXCEPT !.temp = NoPin]
  <2>1. r \in GoodRow /\ Still(s, r)
    BY <1>1, HandlersKeepGoodRow, HandlersAreStill
  <2> HIDE DEF r
  <2>2. a \in GoodRow /\ b \in GoodRow /\ Still(r, a) /\ Still(r, b)
    BY <1>1, <2>1, HandlersKeepGoodRow, HandlersAreStill
  <2> HIDE DEF a, b
  <2>3. \A m \in Node \ AdminNode :
          Outside(s, At(r, m)) /\ Outside(s, At(a, m)) /\ Outside(s, At(b, m))
    BY <1>2, <2>1, <2>2, StillThenOutside DEF Still
  <2> QED
    BY <1>0, <2>3 DEF EnterRoot, r, a, b
<1>4. \A m \in Node \ AdminNode : Outside(s, EnterIncorrectPin(s, m))
  <2> DEFINE r == ResetIncorrectPin(s)
  <2>1. r \in GoodRow /\ Still(s, r)
    BY <1>1, HandlersKeepGoodRow, HandlersAreStill
  <2> HIDE DEF r
  <2>2. \A m \in Node \ AdminNode :
          Outside(s, At(r, "blocked_account")) /\ Outside(s, ErrorAt(r, "incorrect_pin", m))
    BY <1>0, <1>2, <2>1, StillThenOutside
  <2> QED
    BY <2>2 DEF EnterIncorrectPin, r
<1>5. Outside(s, EnterInvalidPin(s, n)) /\ Outside(s, EnterBalances(s)) /\ Outside(s, Quit(s))
  <2> DEFINE a == ResetFlags(s, {"invalid_pin"})
             b == ResetFlags(s, {"account_authorized"})
  <2>1. a \in GoodRow /\ Still(s, a) /\ b \in GoodRow /\ Still(s, b)
    BY <1>1, HandlersKeepGoodRow, HandlersAreStill
  <2> HIDE DEF a, b
  <2>2. /\ Outside(s, ErrorAt(a, "invalid_pin", n))
        /\ Outside(s, At(b, "balances")) /\ Outside(s, At(b, "off"))
    BY <1>0, <1>2, <2>1, StillThenOutside
  <2> QED
    BY <2>2 DEF EnterInvalidPin, EnterBalances, Quit, a, b
<1>6. Outside(s, EnterPinManagement(s)) /\ Outside(s, EnterOldPin(s))
  <2> DEFINE r == ResetIncorrectPin(s)
             a == ResetFlags(r, {"invalid_pin"})
  <2>1. r \in GoodRow /\ Still(s, r)
    BY <1>1, HandlersKeepGoodRow, HandlersAreStill
  <2> HIDE DEF r
  <2>2. a \in GoodRow /\ Still(r, a)
    BY <1>1, <2>1, HandlersKeepGoodRow, HandlersAreStill
  <2> HIDE DEF a
  <2>3. Outside(s, At(r, "old_pin")) /\ Outside(s, At(a, "pin_management"))
    BY <1>0, <1>2, <2>1, <2>2, StillThenOutside DEF Still
  <2> QED
    BY <2>3 DEF EnterPinManagement, EnterOldPin, r, a
<1>7. Outside(s, EnterMyBalance(s))
  BY <1>0, <1>2, <1>4 DEF EnterMyBalance
<1>8. Outside(s, Resume(s, n))
  BY <1>2, <1>6 DEF Resume, AdminNode
<1> QED
  BY <1>3, <1>4, <1>5, <1>6, <1>7, <1>8

\* The two ways into the menus of admins.
LEMMA AdminScripts ==
  ASSUME NEW s \in GoodRow
  PROVE  /\ Unmarked(s, EnterOtherNumber(s))
         /\ Unmarked(s, EnterIncorrectPin(s, "authorize_reset_others_pin"))
<1>1. "other" \in Input /\ AdminNode \cup {"incorrect_pin", "blocked_account"} \subseteq Node
  BY DEF Input, Key, Node, AdminNode
<1> DEFINE a == ResetFlags(s, {"account_authorized"})
           r == ResetIncorrectPin(s)
<1>2. a \in GoodRow /\ Still(s, a) /\ r \in GoodRow /\ Still(s, r)
  BY <1>1, HandlersKeepGoodRow, HandlersAreStill
<1> HIDE DEF a, r
<1>3. /\ Unmarked(s, At(a, "enter_other_number")) /\ Unmarked(s, At(r, "blocked_account"))
      /\ Unmarked(s, ErrorAt(r, "incorrect_pin", "authorize_reset_others_pin"))
  BY <1>1, <1>2, HaltingIsUnmarked, StillThenOutside DEF AdminNode
<1> QED
  BY <1>3 DEF EnterOtherNumber, EnterIncorrectPin, a, r

\* What a request does to these menus: it keeps to the rule, or it is an admin's
\* confirmation of a reset with the right PIN.
Keeps(u) == \E s : Step(u, s) /\ Unmarked(row[u], s) /\ Allowed(u, s)
Confirms(u) ==
  /\ On(u, "authorize_reset_others_pin") /\ u \in Admins
  /\ \E s \in GoodRow :
       /\ Still(row[u], s) /\ s.blockedNumber = row[u].blockedNumber
       /\ Has(s, "account_authorized")
       /\ ResetOthersPin(u, s)

LEMMA KeepsIf ==
  ASSUME NEW u \in User, NEW s, Step(u, s),
         Outside(row[u], s) \/ (Unmarked(row[u], s) /\ u \in Admins)
  PROVE  Keeps(u)
BY DEF Keeps, Outside, Allowed

LEMMA NavigateKeeps ==
  ASSUME Inv, Supervised, NEW u \in User, Navigate(u)
  PROVE  Keeps(u)
<1> DEFINE r == row[u]
<1>1. r \in GoodRow /\ r.back \in Node
  BY DEF Inv, SafeRow, GoodRow, Row
<1>2. "other" \in Input
  BY DEF Input, Key
<1>3. {"off", "my_account", "check_statement", "main", "no_admin_privilege", "amount",
       "pin_late", "pin_management"} \subseteq Node \ AdminNode
  BY DEF Node, AdminNode
<1>4. \A x \in GoodRow, n \in Node \ AdminNode : Outside(x, At(x, n))
  BY HaltingIsUnmarked
<1> HIDE DEF r
<1>5. CASE QuitMenu(u)
  BY <1>1, <1>3, <1>5, ScriptsGoOutside, KeepsIf DEF QuitMenu, r
<1>6. CASE OpenMyAccount(u)
  <2> DEFINE a == Authorize(r, "other")
  <2>1. a \in GoodRow /\ Still(r, a)
    BY <1>1, <1>2, HandlersKeepGoodRow, HandlersAreStill
  <2> HIDE DEF a
  <2>2. Outside(r, At(a, "my_account"))
    BY <1>3, <1>4, <2>1, StillThenOutside
  <2> QED
    BY <1>6, <2>2, KeepsIf DEF OpenMyAccount, r, a
<1>7. CASE OpenBalances(u)
  BY <1>1, <1>3, <1>7, ScriptsGoOutside, KeepsIf DEF OpenBalances, r
<1>8. CASE OpenMyBalance(u)
  <2> DEFINE a == ResetIncorrectPin(r)
  <2>1. a \in GoodRow /\ Still(r, a)
    BY <1>1, <1>2, HandlersKeepGoodRow, HandlersAreStill
  <2> HIDE DEF a
  <2>2. Outside(r, EnterMyBalance(a))
    BY <1>3, <2>1, ScriptsGoOutside, StillThenOutside
  <2> QED
    BY <1>8, <2>2, KeepsIf DEF OpenMyBalance, r, a
<1>9. CASE OpenStatement(u)
  BY <1>1, <1>3, <1>4, <1>9, KeepsIf DEF OpenStatement, r
<1>10. CASE OpenPinManagement(u)
  BY <1>1, <1>3, <1>10, ScriptsGoOutside, KeepsIf DEF OpenPinManagement, r
<1>11. CASE LeaveMenu(u)
  BY <1>1, <1>3, <1>4, <1>11, KeepsIf DEF LeaveMenu, r
<1>12. CASE ChooseOldPin(u)
  BY <1>1, <1>3, <1>12, ScriptsGoOutside, KeepsIf DEF ChooseOldPin, r
<1>13. CASE ChooseResetOthersPin(u)
  BY <1>1, <1>3, <1>4, <1>13, AdminScripts, KeepsIf DEF ChooseResetOthersPin, r
<1>14. CASE ChooseAmount(u)
  BY <1>1, <1>3, <1>4, <1>14, KeepsIf DEF ChooseAmount, r
<1>15. CASE EnterPinLate(u)
  BY <1>1, <1>3, <1>4, <1>15, KeepsIf DEF EnterPinLate, r
<1>16. CASE Retry(u)
  <2>1. Step(u, Resume(r, r.back))
    BY <1>16 DEF Retry, r
  <2>2. CASE r.back \notin AdminNode
    BY <1>1, <1>3, <2>1, <2>2, ScriptsGoOutside, KeepsIf DEF r
  <2>3. CASE r.back \in AdminNode
    <3>1. u \in Admins
      BY <2>3 DEF Supervised, Allowed, r
    <3>2. Unmarked(r, At(r, r.back)) /\ Unmarked(r, EnterOtherNumber(r))
      BY <1>1, AdminScripts, HaltingIsUnmarked
    <3>3. Unmarked(r, Resume(r, r.back))
      BY <2>3, <3>2 DEF Resume, AdminNode
    <3> QED
      BY <2>1, <3>1, <3>3, KeepsIf DEF r
  <2> QED
    BY <2>2, <2>3
<1>17. CASE LeaveNumber(u)
  BY <1>1, <1>3, <1>4, <1>17, KeepsIf DEF LeaveNumber, r
<1> QED
  BY <1>5, <1>6, <1>7, <1>8, <1>9, <1>10, <1>11, <1>12, <1>13, <1>14, <1>15,
     <1>16, <1>17 DEF Navigate

LEMMA AnswerKeeps ==
  ASSUME Inv, Supervised, NEW u \in User, NEW in \in Input, Answer(u, in)
  PROVE  Keeps(u) \/ Confirms(u)
<1> DEFINE r == row[u]
           a == Authorize(r, in)
           p == SaveTemporaryPin(r, in)
           v == VerifyCreatePin(r, in)
           c == ConfirmPinChange(r, in)
<1>1. r \in GoodRow /\ r \in Row
  BY DEF Inv, SafeRow, GoodRow
<1>2. /\ a \in GoodRow /\ Still(r, a) /\ p \in GoodRow /\ Still(r, p)
      /\ v \in GoodRow /\ Still(r, v) /\ c \in GoodRow
  BY <1>1, HandlersKeepGoodRow, HandlersAreStill, StoringKeepsGoodRow
<1>3. Unmarked(r, c)
  BY <1>1 DEF ConfirmPinChange, SetFlags, Row, Unmarked
<1>4. a.blockedNumber = r.blockedNumber
  BY <1>1 DEF Authorize, ResetFlags, Row
<1> HIDE DEF r, a, p, v, c
<1>5. \A x \in GoodRow, n \in Node \ AdminNode, k \in Node \ AdminNode :
        Unmarked(r, x) =>
          /\ Outside(r, At(x, n)) /\ Outside(r, ErrorAt(x, n, k))
          /\ Outside(r, EnterIncorrectPin(x, n)) /\ Outside(r, EnterInvalidPin(x, n))
          /\ Outside(r, EnterOldPin(x)) /\ Outside(r, EnterMyBalance(x))
          /\ Outside(r, Quit(x))
  <2> SUFFICES ASSUME NEW x \in GoodRow, NEW n \in Node \ AdminNode,
                      NEW k \in Node \ AdminNode, Unmarked(r, x)
               PROVE  /\ Outside(r, At(x, n)) /\ Outside(r, ErrorAt(x, n, k))
                      /\ Outside(r, EnterIncorrectPin(x, n))
                      /\ Outside(r, EnterInvalidPin(x, n))
                      /\ Outside(r, EnterOldPin(x)) /\ Outside(r, EnterMyBalance(x))
                      /\ Outside(r, Quit(x))
    OBVIOUS
  <2>1. \A t : Outside(x, t) => Outside(r, t)
    BY DEF Outside, Unmarked
  <2>2. Outside(x, At(x, n)) /\ Outside(x, ErrorAt(x, n, k))
    BY HaltingIsUnmarked
  <2>3. /\ Outside(x, EnterIncorrectPin(x, n)) /\ Outside(x, EnterInvalidPin(x, n))
        /\ Outside(x, EnterOldPin(x)) /\ Outside(x, EnterMyBalance(x))
        /\ Outside(x, Quit(x))
    BY ScriptsGoOutside
  <2> QED
    BY <2>1, <2>2, <2>3
<1>6. Unmarked(r, r) /\ Unmarked(r, a) /\ Unmarked(r, p) /\ Unmarked(r, v)
  BY <1>2 DEF Still, Unmarked
<1>7. {"create_pin", "new_pin", "self_reset_pin", "confirm_self_reset", "pin_early",
       "my_account", "transactions", "old_pin", "pin_management", "check_statement",
       "off", "pin_reset_success", "confirm_create_pin", "confirm_pin_change",
       "pin_mismatch"} \subseteq Node \ AdminNode
  BY DEF Node, AdminNode
<1>8. \A t : Step(u, t) /\ Outside(r, t) => Keeps(u)
  BY KeepsIf DEF r
<1>9. /\ \A n \in Node \ AdminNode :
           /\ Outside(r, At(r, n)) /\ Outside(r, At(a, n)) /\ Outside(r, At(p, n))
           /\ Outside(r, EnterIncorrectPin(a, n)) /\ Outside(r, EnterInvalidPin(a, n))
           /\ Outside(r, EnterInvalidPin(p, n)) /\ Outside(r, At(c, n))
           /\ Outside(r, ErrorAt(v, "pin_mismatch", n))
           /\ Outside(r, ErrorAt(c, "pin_mismatch", n))
      /\ Outside(r, EnterMyBalance(a)) /\ Outside(r, EnterOldPin(r))
      /\ Outside(r, Quit(a)) /\ Outside(r, Quit(v))
  BY <1>1, <1>2, <1>3, <1>5, <1>6, <1>7
<1>10. CASE EnterPinEarly(u, in)
  BY <1>7, <1>8, <1>9, <1>10 DEF EnterPinEarly, r, a
<1>11. CASE PinEntry(u, in)
  BY <1>8, <1>9, <1>11 DEF PinEntry, r, a
<1>12. CASE CheckStatement(u, in)
  BY <1>7, <1>8, <1>9, <1>12 DEF CheckStatement, r, a
<1>13. CASE CreatePin(u, in)
  BY <1>7, <1>8, <1>9, <1>13 DEF CreatePin, r, p
<1>14. CASE OldPin(u, in)
  BY <1>7, <1>8, <1>9, <1>14 DEF OldPin, r, a
<1>15. CASE NewPin(u, in)
  BY <1>7, <1>8, <1>9, <1>15 DEF NewPin, r, p
<1>16. CASE SelfResetPin(u, in)
  BY <1>7, <1>8, <1>9, <1>16 DEF SelfResetPin, r, p
<1>17. CASE ConfirmCreatePin(u, in)
  BY <1>7, <1>8, <1>9, <1>17 DEF ConfirmCreatePin, r, v
<1>18. CASE ConfirmNewPin(u, in)
  <2>1. r.node \in Node \ AdminNode
    BY <1>7, <1>18 DEF ConfirmNewPin, r
  <2> QED
    BY <1>7, <1>8, <1>9, <1>18, <2>1 DEF ConfirmNewPin, r, c
<1>19. CASE AuthorizeReset(u, in)
  <2>1. On(u, "authorize_reset_others_pin") /\ u \in Admins
    BY <1>19 DEF AuthorizeReset, On, Supervised, Allowed, AdminNode
  <2>2. \A t : Step(u, t) /\ Unmarked(r, t) => Keeps(u)
    BY <2>1, KeepsIf DEF r
  <2>3. /\ Unmarked(a, EnterOtherNumber(a))
        /\ Unmarked(a, EnterIncorrectPin(a, "authorize_reset_others_pin"))
    BY <1>2, AdminScripts
  <2>4. /\ Unmarked(r, EnterOtherNumber(a))
        /\ Unmarked(r, EnterIncorrectPin(a, "authorize_reset_others_pin"))
    BY <1>2, <2>3, StillThenOutside
  <2>5. CASE ResetOthersPin(u, a) /\ Has(a, "account_authorized")
    BY <1>2, <1>4, <2>1, <2>5 DEF Confirms, r
  <2>6. \/ ResetOthersPin(u, a) /\ Has(a, "account_authorized")
        \/ Step(u, EnterOtherNumber(a)) \/ Step(u, Quit(a)) \/ Step(u, a)
        \/ Step(u, EnterIncorrectPin(a, "authorize_reset_others_pin"))
    BY <1>19 DEF AuthorizeReset, r, a
  <2> QED
    BY <1>6, <1>8, <1>9, <2>2, <2>4, <2>5, <2>6
<1> QED
  BY <1>10, <1>11, <1>12, <1>13, <1>14, <1>15, <1>16, <1>17, <1>18, <1>19 DEF Answer

LEMMA AfterGuardKeeps ==
  ASSUME NEW u \in User, row[u] \in GoodRow, NEW s \in GoodRow, Still(row[u], s),
         NEW in \in Input, NEW ok \in BOOLEAN,
         NEW n \in Node \ AdminNode, NEW parent \in Node \ AdminNode,
         AfterGuard(u, n, parent, s, in, ok)
  PROVE  Keeps(u)
<1> DEFINE q == ResetIncorrectPin(s)
           b == ResetFlags(q, {"account_authorized"})
<1>1. q \in GoodRow /\ Still(s, q)
  BY HandlersKeepGoodRow, HandlersAreStill
<1>2. b \in GoodRow /\ Still(q, b)
  BY <1>1, HandlersKeepGoodRow, HandlersAreStill
<1>3. "initiated" \in Node \ AdminNode
  BY DEF Node, AdminNode
<1>4. /\ Outside(q, At(q, n)) /\ Outside(q, At(q, "initiated"))
      /\ Outside(b, At(b, "initiated"))
  BY <1>1, <1>2, <1>3, HaltingIsUnmarked
<1>5. EnterInitiated(s, n, ok) \in {At(q, n), At(q, "initiated"), At(b, "initiated")}
  BY DEF EnterInitiated
<1> HIDE DEF q, b
<1>6. Outside(s, EnterInitiated(s, n, ok))
  BY <1>1, <1>2, <1>4, <1>5, StillThenOutside DEF Still
<1>7. /\ Outside(s, EnterIncorrectPin(s, n)) /\ Outside(s, Resume(s, parent))
      /\ Outside(s, Quit(s))
  BY ScriptsGoOutside
<1>8. \A t : Step(u, t) /\ Outside(s, t) => Keeps(u)
  BY StillThenOutside, KeepsIf
<1> QED
  BY <1>6, <1>7, <1>8 DEF AfterGuard

LEMMA NextKeeps ==
  ASSUME Inv, Supervised, Next
  PROVE  \E u \in User : Keeps(u) \/ Confirms(u)
<1>1. \A u \in User : row[u] \in GoodRow
  BY DEF Inv, SafeRow
<1>2. ASSUME NEW u \in User, Navigate(u)
      PROVE  Keeps(u)
  BY <1>2, NavigateKeeps
<1>3. ASSUME NEW u \in User, NEW up \in BOOLEAN, Dial(u, up) \/ BackToTop(u, up)
      PROVE  Keeps(u)
  <2>1. "off" \in Node \ AdminNode
    BY DEF Node, AdminNode
  <2>2. Outside(row[u], EnterRoot(row[u], up))
    BY <1>1, <2>1, ScriptsGoOutside
  <2> QED
    BY <1>3, <2>2, KeepsIf DEF Dial, BackToTop
<1>4. ASSUME NEW u \in User, NEW in \in Typed[u], Answer(u, in)
      PROVE  Keeps(u) \/ Confirms(u)
  <2>1. in \in Input
    BY <1>4, TypedAssumption
  <2> QED
    BY <1>4, <2>1, AnswerKeeps
<1>5. ASSUME NEW u \in User, NEW in \in Typed[u], NEW ok \in BOOLEAN,
             PinEarly(u, in, ok) \/ PinLate(u, in, ok)
      PROVE  Keeps(u)
  <2> DEFINE a == Authorize(row[u], in)
             b == Authorize(a, in)
  <2>1. in \in Input
    BY <1>5, TypedAssumption
  <2>2. a \in GoodRow /\ Still(row[u], a)
    BY <1>1, <2>1, HandlersKeepGoodRow, HandlersAreStill
  <2>3. b \in GoodRow /\ Still(a, b)
    BY <2>1, <2>2, HandlersKeepGoodRow, HandlersAreStill
  <2>4. Still(row[u], b)
    BY <2>2, <2>3 DEF Still
  <2>5. {"pin_early", "pin_late_again", "amount", "main"} \subseteq Node \ AdminNode
    BY DEF Node, AdminNode
  <2> HIDE DEF a, b
  <2>6. \/ AfterGuard(u, "pin_early", "amount", a, in, ok)
        \/ AfterGuard(u, "pin_late_again", "main", b, in, ok)
        \/ AfterGuard(u, "pin_late_again", "main", a, in, ok)
    BY <1>5 DEF PinEarly, PinLate, a, b
  <2> QED
    BY <1>1, <2>1, <2>2, <2>3, <2>4, <2>5, <2>6, AfterGuardKeeps
<1>6. ASSUME NEW u \in User, NEW num \in User \cup {NoUser}, EnterNumber(u, num)
      PROVE  Keeps(u)
  <2> DEFINE r == row[u]
             t == At(r, "authorize_reset_others_pin")
             e == ErrorAt(r, "unregistered_number", "enter_other_number")
  <2>1. u \in Admins
    BY <1>6 DEF EnterNumber, On, Supervised, Allowed, AdminNode
  <2>2. Unmarked(r, t) /\ Unmarked(r, e) /\ t \in Row
    <3>1. AdminNode \cup {"unregistered_number"} \subseteq Node
      BY DEF AdminNode, Node
    <3>2. {"authorize_reset_others_pin", "unregistered_number", "enter_other_number"}
            \subseteq Node
      BY <3>1 DEF AdminNode
    <3> QED
      BY <1>1, <3>2, HaltingIsUnmarked, HaltingKeepsGoodRow DEF GoodRow
  <2>3. Step(u, [t EXCEPT !.blockedNumber = num]) \/ Step(u, e)
    BY <1>6 DEF EnterNumber
  <2> HIDE DEF t, e
  <2>4. Unmarked(r, [t EXCEPT !.blockedNumber = num])
    BY <2>2 DEF Unmarked, Row
  <2> QED
    BY <2>1, <2>2, <2>3, <2>4, KeepsIf
<1> QED
  BY <1>2, <1>3, <1>4, <1>5, <1>6 DEF Next

\* The row of an admin after the confirmation, and those of the others.
LEMMA ResetRows ==
  ASSUME Inv, NEW u \in User, NEW s \in GoodRow, ResetOthersPin(u, s)
  PROVE  /\ row'[u].node = "pin_reset_result" /\ row'[u].back = "off"
         /\ row'[u].flags = s.flags
         /\ \A w \in User \ {u} : row'[w].node = row[w].node /\ row'[w].back = row[w].back
         /\ \A w \in User : w # s.blockedNumber =>
              row'[w].selfReset = IF w = u THEN s.selfReset ELSE row[w].selfReset
<1> DEFINE e == At(s, "pin_reset_result")
           t == s.blockedNumber
           mid == [row EXCEPT ![u] = e]
<1>1. row \in [User -> Row] /\ s \in Row
  BY DEF Inv, SafeRow, GoodRow
<1>2. /\ e \in Row /\ e.node = "pin_reset_result" /\ e.back = "off" /\ e.flags = s.flags
      /\ e.selfReset = s.selfReset
  BY <1>1 DEF At, Row, Node
<1>3. row' = [mid EXCEPT ![t] = [[@ EXCEPT !.selfReset = TRUE] EXCEPT !.attempts = 0]]
  BY DEF ResetOthersPin
<1> HIDE DEF e
<1>4. mid \in [User -> Row] /\ mid[u] = e /\ \A w \in User \ {u} : mid[w] = row[w]
  BY <1>1, <1>2
<1> HIDE DEF mid
<1>5. ASSUME NEW w \in User
      PROVE  /\ row'[w].node = mid[w].node /\ row'[w].back = mid[w].back
             /\ row'[w].flags = mid[w].flags
             /\ w # t => row'[w].selfReset = mid[w].selfReset
  <2>1. mid[w] \in Row
    BY <1>4
  <2>2. CASE w = t
    <3>1. row'[w] = [[mid[w] EXCEPT !.selfReset = TRUE] EXCEPT !.attempts = 0]
      BY <1>3, <1>4, <2>2
    <3> QED
      BY <2>1, <2>2, <3>1 DEF Row
  <2>3. CASE w # t
    BY <1>3, <1>4, <2>3
  <2> QED
    BY <2>2, <2>3
<1> QED
  BY <1>2, <1>4, <1>5

LEMMA NextKeepsSupervised ==
  ASSUME Inv, Supervised, [Next]_vars
  PROVE  Supervised'
<1>1. CASE UNCHANGED vars
  BY <1>1 DEF vars, Supervised, Allowed
<1>2. CASE Next
  <2>1. PICK u \in User : Keeps(u) \/ Confirms(u)
    BY <1>2, NextKeeps
  <2>2. CASE Keeps(u)
    <3>1. PICK s : Step(u, s) /\ Allowed(u, s)
      BY <2>2 DEF Keeps
    <3>2. row'[u] = s /\ \A w \in User \ {u} : row'[w] = row[w]
      BY <3>1 DEF Step, Inv
    <3> QED
      BY <3>1, <3>2 DEF Supervised, Allowed
  <2>3. CASE Confirms(u)
    <3>1. PICK s \in GoodRow : ResetOthersPin(u, s)
      BY <2>3 DEF Confirms
    <3>2. /\ row'[u].node = "pin_reset_result" /\ row'[u].back = "off"
          /\ \A w \in User \ {u} :
               row'[w].node = row[w].node /\ row'[w].back = row[w].back
      BY <3>1, ResetRows
    <3> QED
      BY <3>2 DEF Supervised, Allowed, AdminNode
  <2> QED
    BY <2>1, <2>2, <2>3
<1> QED
  BY <1>1, <1>2

LEMMA SupervisedHolds == Spec => []Supervised
<1>1. Init => Supervised
  <2> SUFFICES ASSUME Init, NEW u \in User
               PROVE  Allowed(u, row[u])
    BY DEF Supervised
  <2>1. row[u].node = "off" /\ row[u].back = "off"
    BY DEF Init
  <2> QED
    BY <2>1 DEF Allowed, AdminNode
<1>2. Inv /\ Supervised /\ [Next]_vars => Supervised'
  BY NextKeepsSupervised
<1> QED
  BY <1>1, <1>2, InvHolds, PTL DEF Spec

\* Only an admin marks a PIN reset, at the confirmation, with the right PIN, of
\* the number that he was shown, whoever else types what, in which order.
THEOREM ResetAlwaysAsConfirmed == Spec => ResetAsConfirmed
<1> DEFINE Confirmed == \A u \in User :
             row'[u].selfReset /\ ~row[u].selfReset =>
               \E a \in Admins :
                 /\ On(a, "authorize_reset_others_pin") /\ row[a].blockedNumber = u
                 /\ row'[a].node = "pin_reset_result"
                 /\ Has(row'[a], "account_authorized")
<1>1. ASSUME Inv, Supervised, [Next]_vars
      PROVE  [Confirmed]_vars
  <2> SUFFICES ASSUME Next, NEW u \in User, row'[u].selfReset, ~row[u].selfReset
               PROVE  \E a \in Admins :
                        /\ On(a, "authorize_reset_others_pin") /\ row[a].blockedNumber = u
                        /\ row'[a].node = "pin_reset_result"
                        /\ Has(row'[a], "account_authorized")
    BY <1>1
  <2>1. PICK a \in User : Keeps(a) \/ Confirms(a)
    BY <1>1, NextKeeps
  <2>2. CASE Keeps(a)
    <3>1. PICK s : Step(a, s) /\ Unmarked(row[a], s)
      BY <2>2 DEF Keeps
    <3>2. row'[a] = s /\ \A w \in User \ {a} : row'[w] = row[w]
      BY <1>1, <3>1 DEF Step, Inv
    <3> QED
      BY <3>1, <3>2 DEF Unmarked
  <2>3. CASE Confirms(a)
    <3>1. PICK s \in GoodRow : /\ Still(row[a], s) /\ s.blockedNumber = row[a].blockedNumber
                               /\ Has(s, "account_authorized") /\ ResetOthersPin(a, s)
      BY <2>3 DEF Confirms
    <3>2. /\ row'[a].node = "pin_reset_result" /\ row'[a].flags = s.flags
          /\ u # s.blockedNumber =>
               row'[u].selfReset = IF u = a THEN s.selfReset ELSE row[u].selfReset
      BY <1>1, <3>1, ResetRows
    <3>3. u = s.blockedNumber
      BY <3>1, <3>2 DEF Still
    <3> QED
      BY <2>3, <3>1, <3>2, <3>3 DEF Confirms, Has
  <2> QED
    BY <2>1, <2>2, <2>3
<1>2. Inv /\ Supervised /\ [Next]_vars => [Confirmed]_vars
  BY <1>1
<1>3. [][Confirmed]_vars => ResetAsConfirmed
  BY DEF ResetAsConfirmed
<1> QED
  BY <1>2, <1>3, InvHolds, SupervisedHolds, PTL DEF Spec
=============================================================================
