------------------------------- MODULE Events -------------------------------
(***************************************************************************)
(* The events of the network: token transfers and mints that arrive, from  *)
(* another process, while users register and look at their menus.  The     *)
(* handlers resolve an address with the entry that registration writes     *)
(* last, and refresh what the store keeps for that user.                   *)
(*                                                                         *)
(* Who delivers the events is outside the repository.  An event whose      *)
(* handler returns an error is delivered again, later; so is one whose     *)
(* acknowledgement is lost; no order is kept.                              *)
(***************************************************************************)
EXTENDS Registration, Sequences

CONSTANTS
  HeldBefore,  \* HeldBefore[a]: the vouchers that account a holds from before
  MaxEvents    \* bound: movements of vouchers

ASSUME EventsAssumption ==
  HeldBefore \in [Account -> SUBSET Voucher] /\ MaxEvents \in Nat

VARIABLES
  sent,     \* the movements on the chain, each with an event
  pending,  \* the events, by number, that are to be delivered
  work,     \* the handler: the event, its side, where it is, whom it is for
  listed,   \* listed[u]: how much of sent the token list of events has seen
  history   \* history[u]: the same of DATA_TRANSACTIONS

vars == <<row, reverse, given, active, faults, sent, pending, work, listed, history>>
evVars == <<sent, pending, work, listed, history>>

\* from = 0 is a mint.  known: the users that the two addresses led to then.
Movement == [from : {0} \cup Account, to : Account, v : Voucher, known : SUBSET User]

Work == [event : 0 .. MaxEvents, side : {"from", "to"}, user : User \cup {Nobody},
         at : {"idle", "who", "list", "active", "default", "transfers"}]

Idle == [event |-> 0, side |-> "to", user |-> Nobody, at |-> "idle"]

TypeOK ==
  /\ RegTypeOK
  /\ sent \in Seq(Movement) /\ Len(sent) <= MaxEvents
  /\ pending \subseteq DOMAIN sent
  /\ work \in Work /\ work.event <= Len(sent)
  /\ work.at \in {"list", "active", "default", "transfers"} => work.user \in User
  /\ listed \in [User -> 0 .. MaxEvents] /\ history \in [User -> 0 .. MaxEvents]

Init ==
  /\ RegInit
  /\ sent = <<>> /\ pending = {} /\ work = Idle
  /\ listed = [u \in User |-> 0] /\ history = [u \in User |-> 0]

-----------------------------------------------------------------------------
(* The network *)

\* What an account holds.  A transfer leaves some with the sender.
Held(a) ==
  (IF a = 0 THEN {} ELSE HeldBefore[a])
    \cup {sent[n].v : n \in {m \in DOMAIN sent : sent[m].to = a}}

Reached(a) == IF a = 0 \/ reverse[a] = Nobody THEN {} ELSE {reverse[a]}

Move(from, to, v) ==
  /\ Len(sent) < MaxEvents
  /\ to \in active
  /\ sent' = Append(sent, [from |-> from, to |-> to, v |-> v,
                           known |-> Reached(from) \cup Reached(to)])
  /\ pending' = pending \cup {Len(sent) + 1}
  /\ UNCHANGED <<regVars, work, listed, history>>

Mint(to, v) == Move(0, to, v)
Transfer(from, to, v) == v \in Held(from) /\ Move(from, to, v)

-----------------------------------------------------------------------------
(* The handlers *)

At(p) == work.at = p
Event == sent[work.event]
Goes(p) == work' = [work EXCEPT !.at = p]

\* The other side of a transfer, or the end: the event is acknowledged.
NextSide ==
  IF work.side = "from" /\ Event.to # Event.from
  THEN /\ work' = [work EXCEPT !.side = "to", !.at = "who", !.user = Nobody]
       /\ UNCHANGED pending
  ELSE /\ work' = Idle /\ pending' = pending \ {work.event}

\* HandleTokenTransfer, HandleTokenMint
Deliver(n) ==
  /\ At("idle") /\ n \in pending
  /\ work' = [event |-> n, side |-> IF sent[n].from = 0 THEN "to" ELSE "from",
              user |-> Nobody, at |-> "who"]
  /\ UNCHANGED <<regVars, sent, pending, listed, history>>

IdentifyAnyway ==
  /\ At("who")
  /\ work' = [work EXCEPT !.at = "list",
       !.user = reverse[IF work.side = "from" THEN Event.from ELSE Event.to]]
  /\ UNCHANGED <<regVars, sent, pending, listed, history>>

\* IdentityFromAddress: an address that leads nowhere is passed over.
Identify ==
  /\ At("who")
  /\ LET u == reverse[IF work.side = "from" THEN Event.from ELSE Event.to]
     IN  IF u = Nobody THEN NextSide
         ELSE work' = [work EXCEPT !.user = u, !.at = "list"] /\ UNCHANGED pending
  /\ UNCHANGED <<regVars, sent, listed, history>>

\* updateTokenList: the holdings as of now, under keys that the menus do not read.
UpdateTokenList ==
  /\ At("list") /\ Goes("active")
  /\ listed' = [listed EXCEPT ![work.user] = Len(sent)]
  /\ UNCHANGED <<regVars, sent, pending, history>>

ReadActiveSymNoReturn ==
  /\ At("active") /\ Goes("default")
  /\ UNCHANGED <<regVars, sent, pending, listed, history>>

\* updateToken: nothing else is done for a user who has an active symbol.
ReadActiveSym ==
  /\ At("active")
  /\ IF row[work.user].sym # None THEN NextSide
     ELSE Goes("default") /\ UNCHANGED pending
  /\ UNCHANGED <<regVars, sent, listed, history>>

GivesUpForGood ==
  /\ work' = Idle /\ pending' = pending \ {work.event}
  /\ UNCHANGED <<row, reverse, given, active, sent, listed, history>>

\* The handler returns an error, or not at all.
GivesUp ==
  /\ work' = Idle
  /\ UNCHANGED <<row, reverse, given, active, sent, pending, listed, history>>

\* updateDefaultToken reads the list under the keys of the menus.  It is an error
\* when there is none; a symbol that is not in it gives no data, which
\* UpdateVoucherData does not survive.
UpdateDefaultTokenFails ==
  /\ At("default")
  /\ ~(row[work.user].hasList /\ Event.v \in row[work.user].list)
  /\ GivesUp /\ UNCHANGED faults

UpdateDefaultToken ==
  /\ At("default") /\ row[work.user].hasList /\ Event.v \in row[work.user].list
  /\ Change(work.user, [row[work.user] EXCEPT !.sym = Event.v])
  /\ Goes("transfers")
  /\ UNCHANGED <<reverse, given, active, faults, sent, pending, listed, history>>

UpdateTokenTransferList ==
  /\ At("transfers") /\ NextSide
  /\ history' = [history EXCEPT ![work.user] = Len(sent)]
  /\ UNCHANGED <<regVars, sent, listed>>

\* A call of the store or the service fails, or the process stops, or the
\* acknowledgement is lost: the event is delivered again.
HandlerFails == ~At("idle") /\ GivesUp /\ Faulty(1)

HandlerGoesOn ==
  \/ Identify
  \/ UpdateTokenList
  \/ ReadActiveSym
  \/ UpdateDefaultToken
  \/ UpdateDefaultTokenFails
  \/ UpdateTokenTransferList

UserGoesOn(u) == UNCHANGED evVars /\ Go(u, Held(row[u].public_key))
UserStops(u) == UNCHANGED evVars /\ Stops(u, Held(row[u].public_key))

Next ==
  \/ \E u \in User : UserGoesOn(u)
  \/ \E u \in User : UserStops(u)
  \/ \E a \in Account : Activate(a) /\ UNCHANGED evVars
  \/ \E to \in Account, v \in Voucher : Mint(to, v)
  \/ \E from, to \in Account, v \in Voucher : Transfer(from, to, v)
  \/ \E n \in 1 .. MaxEvents : Deliver(n)
  \/ HandlerGoesOn
  \/ HandlerFails

\* Who waits for an answer gets it and who is at a prompt goes on, unless the
\* faults, which are few, intervene; so does the handler.  The network takes up
\* the accounts that it was given, and each event is delivered until it is handled.
Fairness ==
  /\ \A u \in User : WF_vars(UserGoesOn(u))
  /\ WF_vars(\E a \in Account : Activate(a) /\ UNCHANGED evVars)
  /\ WF_vars(HandlerGoesOn)
  /\ \A n \in 1 .. MaxEvents : SF_vars(Deliver(n))

Spec == Init /\ [][Next]_vars /\ Fairness

-----------------------------------------------------------------------------
(* Properties *)

\* An address leads to the user whose current key it is, whatever failed and was
\* repeated while the account was created: events are not put down to others.
AddressLeadsBack ==
  \A a \in Account, u \in User : reverse[a] = u => row[u].public_key = a

\* CreateAccount, with its five calls and their failures, gives a user one account
\* for good and to nobody else, although the service may have created others.
A == INSTANCE Accounts WITH account <- [u \in User |-> row[u].public_key],
                            owner <- reverse
AccountsSpec == A!Spec

\* HandleTokenTransfer: an event that will not be delivered again has been seen by
\* the token list of every user that its addresses led to when it happened, also
\* when the handler failed for one side, or between the two, and was repeated.
HandledIsListed ==
  \A n \in DOMAIN sent \ pending : \A u \in sent[n].known : listed[u] >= n

\* The account exists, but the flag of an earlier failure is still set: create_pin
\* shows the failure at every call.
Stranded(u) ==
  /\ row[u].public_key # 0 /\ ~Creating(u)
  /\ Has(row[u], "account_creation_failed")

\* Whoever keeps calling gets to the main menu, whatever calls and writes failed on
\* the way, unless he is stranded.
GetsToTheMenu ==
  \A u \in User : []<>(row[u].node = "main" \/ Stranded(u))

\* Every event is handled in the end, although its handler fails for a user without
\* active symbol: he opens the main menu some day, unless he is stranded.
IsHandled ==
  \A n \in 1 .. MaxEvents :
    n \in pending ~> n \notin pending \/ \E u \in User : Stranded(u)

\* pp.csv:3, flag_account_creation_failed "is set when there's an error from the
\* API during account creation": once the API has created the account that it
\* stored, the failure is over, and whoever keeps calling gets to the main menu.
FailureIsOver == \A u \in User : []<>(row[u].node = "main")
=============================================================================
