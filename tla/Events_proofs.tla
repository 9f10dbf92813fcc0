--------------------------- MODULE Events_proofs ---------------------------
(***************************************************************************)
(* Proofs about Events, for any users, vouchers, accounts from before and  *)
(* bounds: an address leads to the user whose key it is, an event that is  *)
(* over has been seen by those it was for, and the creation of an account  *)
(* implements Accounts.  Nothing is assumed of the order in which events   *)
(* are delivered, nor of how often.                                        *)
(***************************************************************************)
EXTENDS Events, Registration_proofs

Address(n, side) == IF side = "from" THEN sent[n].from ELSE sent[n].to

\* Whoever was known when an event was sent is still known by its addresses.
StillKnown ==
  \A n \in DOMAIN sent : \A u \in sent[n].known :
    \/ sent[n].from # 0 /\ reverse[sent[n].from] = u
    \/ reverse[sent[n].to] = u

\* The token lists have not seen more than there is.
UpToDate == \A u \in User : listed[u] <= Len(sent)

\* The handler has an event that is not over, and when it is at the second side of
\* a transfer the first has been told.
Handling ==
  work.at # "idle" =>
    /\ work.event \in pending
    /\ work.side = "from" => Event.from # 0
    /\ work.side = "to" =>
         \A u \in Event.known : listed[u] >= work.event \/ reverse[Event.to] = u
    /\ work.at # "who" => work.user = reverse[Address(work.event, work.side)]
    /\ work.at \in {"active", "default", "transfers"} => listed[work.user] >= work.event

Inv == RegInv /\ TypeOK /\ StillKnown /\ UpToDate /\ Handling /\ HandledIsListed

-----------------------------------------------------------------------------
LEMMA InitEstablishesInv == Init => Inv
<1> SUFFICES ASSUME Init PROVE Inv
  OBVIOUS
<1>1. RegInv
  BY InitEstablishesRegInv DEF Init
<1>2. sent = <<>> /\ pending = {} /\ work = Idle
  BY DEF Init
<1>3. TypeOK
  BY <1>1, <1>2, EventsAssumption DEF TypeOK, RegInv, Init, Idle, Work
<1>4. StillKnown /\ Handling /\ HandledIsListed
  BY <1>2 DEF StillKnown, Handling, HandledIsListed, Idle
<1>5. UpToDate
  BY <1>2 DEF UpToDate, Init
<1> QED BY <1>1, <1>3, <1>4, <1>5 DEF Inv

LEMMA HeldIsVouchers ==
  ASSUME Inv, NEW a \in {0} \cup Account
  PROVE  Held(a) \in SUBSET Voucher
<1>1. a # 0 => HeldBefore[a] \in SUBSET Voucher
  BY EventsAssumption
<1>2. \A n \in DOMAIN sent : sent[n].v \in Voucher
  <2>1. sent \in Seq(Movement)
    BY DEF Inv, TypeOK
  <2>2. \A n \in DOMAIN sent : sent[n] \in Movement
    BY <2>1
  <2> QED BY <2>2 DEF Movement
<1> QED BY <1>1, <1>2 DEF Held

\* The addresses of an event, and whom they lead to.
LEMMA EventHasAddresses ==
  ASSUME Inv, NEW n \in DOMAIN sent
  PROVE  /\ sent[n].from \in {0} \cup Account /\ sent[n].to \in Account
         /\ sent[n].known \subseteq User
         /\ sent[n].from # 0 => reverse[sent[n].from] \in User \cup {Nobody}
         /\ reverse[sent[n].to] \in User \cup {Nobody}
         /\ n \in 1 .. MaxEvents /\ n <= Len(sent)
<1>1. sent \in Seq(Movement) /\ Len(sent) <= MaxEvents
  BY DEF Inv, TypeOK
<1>2. sent[n] \in Movement /\ n \in 1 .. Len(sent) /\ Len(sent) \in Nat
  BY <1>1
<1>3. n \in 1 .. MaxEvents /\ n <= Len(sent)
  BY <1>1, <1>2, EventsAssumption
<1>4. /\ sent[n].from \in {0} \cup Account /\ sent[n].to \in Account
      /\ sent[n].known \subseteq User
  BY <1>2 DEF Movement
<1>5. reverse \in [Account -> User \cup {Nobody}]
  BY DEF Inv, RegInv, RegTypeOK
<1> QED BY <1>3, <1>4, <1>5

\* A step of a registration: who is known stays so.
LEMMA RegistrationStep ==
  ASSUME Inv, Preserved, UNCHANGED evVars
  PROVE  Inv'
<1> USE DEF evVars
<1>1. RegInv' /\ TypeOK'
  BY DEF Preserved, Inv, RegInv, TypeOK
<1>2. \A a \in Account, u \in User : reverse[a] = u => reverse'[a] = u
  BY DEF Preserved, Stable
<1>3. StillKnown'
  BY <1>2, EventHasAddresses DEF Inv, StillKnown
<1>4. UpToDate' /\ HandledIsListed'
  BY DEF Inv, UpToDate, HandledIsListed
<1>5. Handling'
  <2> SUFFICES ASSUME work.at # "idle" PROVE Handling'
    BY DEF Handling
  <2>1. work.event \in DOMAIN sent
    BY DEF Inv, TypeOK, Handling
  <2>2. work.at # "who" => work.user \in User
    BY DEF Inv, TypeOK, Work
  <2>3. Address(work.event, work.side) \in {0} \cup Account
    BY <2>1, EventHasAddresses DEF Address
  <2>4. work.at # "who" => Address(work.event, work.side) \in Account
    BY <2>1, EventHasAddresses DEF Address, Inv, Handling, Event
  <2>5. Address(work.event, work.side)' = Address(work.event, work.side) /\ Event' = Event
    BY DEF Address, Event
  <2> QED BY <1>2, <2>1, <2>2, <2>4, <2>5, EventHasAddresses DEF Inv, Handling, Event
<1> QED BY <1>1, <1>3, <1>4, <1>5 DEF Inv

LEMMA RegKept ==
  ASSUME Inv, UNCHANGED regVars
  PROVE  Preserved
BY RowsKept, FaultsInBounds DEF regVars, Inv, RegInv, RegTypeOK

\* A movement of vouchers: whom its addresses lead to is known.
LEMMA MovePreserves ==
  ASSUME Inv, NEW from \in {0} \cup Account, NEW to \in Account, NEW v \in Voucher,
         Move(from, to, v)
  PROVE  Inv'
<1> DEFINE m == [from |-> from, to |-> to, v |-> v, known |-> Reached(from) \cup Reached(to)]
<1>1. RegInv' /\ UNCHANGED <<reverse, work, listed, history>>
  BY RegKept DEF Move, Preserved, regVars
<1>2. m \in Movement
  BY DEF Movement, Reached, Inv, RegInv, RegTypeOK
<1>3. sent' = Append(sent, m) /\ pending' = pending \cup {Len(sent) + 1}
  BY DEF Move
<1>4. Len(sent) < MaxEvents /\ Len(sent) \in Nat /\ sent \in Seq(Movement)
  BY DEF Move, Inv, TypeOK
<1>5. \A u \in m.known : (m.from # 0 /\ reverse[m.from] = u) \/ reverse[m.to] = u
  BY DEF Reached
<1> HIDE DEF m
<1>6. /\ sent' \in Seq(Movement) /\ Len(sent') = Len(sent) + 1
      /\ \A n \in 1 .. Len(sent) : sent'[n] = sent[n]
      /\ sent'[Len(sent) + 1] = m
      /\ DOMAIN sent' = 1 .. Len(sent) + 1 /\ DOMAIN sent = 1 .. Len(sent)
  BY <1>2, <1>3, <1>4
<1>7. TypeOK'
  <2>1. RegTypeOK'
    BY <1>1 DEF RegInv
  <2>2. Len(sent') <= MaxEvents /\ pending' \subseteq DOMAIN sent'
    BY <1>3, <1>4, <1>6, EventsAssumption DEF Inv, TypeOK
  <2>3. work' \in Work /\ work'.event <= Len(sent')
    <3>1. work.event \in Nat /\ work.event <= Len(sent)
      BY EventsAssumption DEF Inv, TypeOK, Work
    <3> QED BY <1>1, <1>4, <1>6, <3>1 DEF Inv, TypeOK
  <2>4. /\ work'.at \in {"list", "active", "default", "transfers"} => work'.user \in User
        /\ listed' \in [User -> 0 .. MaxEvents] /\ history' \in [User -> 0 .. MaxEvents]
    BY <1>1 DEF Inv, TypeOK
  <2> QED BY <1>6, <2>1, <2>2, <2>3, <2>4 DEF TypeOK
<1>8. StillKnown'
  BY <1>1, <1>4, <1>5, <1>6 DEF Inv, StillKnown
<1>9. UpToDate'
  BY <1>1, <1>4, <1>6, EventsAssumption DEF Inv, UpToDate, TypeOK
<1>10. HandledIsListed'
  BY <1>1, <1>3, <1>4, <1>6 DEF Inv, HandledIsListed, TypeOK
<1>11. Handling'
  <2> SUFFICES ASSUME work.at # "idle" PROVE Handling'
    BY <1>1 DEF Handling
  <2>1. work.event \in 1 .. Len(sent) /\ work.event \in pending
    BY <1>6 DEF Inv, TypeOK, Handling
  <2>2. sent'[work.event] = sent[work.event]
    BY <1>6, <2>1
  <2> QED BY <1>1, <1>3, <2>1, <2>2 DEF Inv, Handling, Event, Address
<1> QED BY <1>1, <1>7, <1>8, <1>9, <1>10, <1>11 DEF Inv

-----------------------------------------------------------------------------
(* The handler *)

\* The event that the handler is at.
LEMMA CurrentEvent ==
  ASSUME Inv, work.at # "idle"
  PROVE  /\ work.event \in pending /\ work.event \in DOMAIN sent
         /\ work.event \in 1 .. MaxEvents /\ work.event <= Len(sent)
         /\ Event.from \in {0} \cup Account /\ Event.to \in Account
         /\ Event.known \subseteq User
         /\ Event.from # 0 => reverse[Event.from] \in User \cup {Nobody}
         /\ reverse[Event.to] \in User \cup {Nobody}
         /\ work.side \in {"from", "to"}
         /\ work.side = "from" => Event.from # 0
<1>1. work.event \in pending /\ work.event \in DOMAIN sent
  BY DEF Inv, TypeOK, Handling
<1>2. work.side \in {"from", "to"} /\ (work.side = "from" => Event.from # 0)
  BY DEF Inv, TypeOK, Work, Handling
<1> QED BY <1>1, <1>2, EventHasAddresses DEF Event

\* Whoever is known but not told yet is the one at the second side.
Told(seen) ==
  \A u \in Event.known :
    seen[u] >= work.event
      \/ (work.side = "from" /\ Event.to # Event.from /\ reverse[Event.to] = u)

\* An address that leads nowhere is no address of anybody who is known.
LEMMA NobodyIsTold ==
  ASSUME Inv, work.at # "idle", reverse[Address(work.event, work.side)] = Nobody
  PROVE  Told(listed)
<1> SUFFICES ASSUME NEW u \in Event.known
             PROVE  listed[u] >= work.event
                      \/ (work.side = "from" /\ Event.to # Event.from /\ reverse[Event.to] = u)
  BY DEF Told
<1>1. u \in User /\ u # Nobody
  BY CurrentEvent, NullAssumption
<1>2. CASE work.side = "from"
  <2>1. reverse[Event.from] = Nobody
    BY <1>2 DEF Address, Event
  <2>2. reverse[Event.to] = u
    BY <1>1, <2>1, CurrentEvent DEF Inv, StillKnown, Event
  <2> QED BY <1>1, <1>2, <2>1, <2>2
<1>3. CASE work.side = "to"
  <2>1. reverse[Event.to] = Nobody
    BY <1>3 DEF Address, Event
  <2> QED BY <1>1, <1>3, <2>1 DEF Inv, Handling
<1> QED BY <1>2, <1>3, CurrentEvent

\* Once the token list of the handler's user is written, he is told.
LEMMA UserIsTold ==
  ASSUME Inv, work.at \in {"active", "default", "transfers"}
  PROVE  Told(listed)
<1> SUFFICES ASSUME NEW u \in Event.known
             PROVE  listed[u] >= work.event
                      \/ (work.side = "from" /\ Event.to # Event.from /\ reverse[Event.to] = u)
  BY DEF Told
<1>1. /\ work.user = reverse[Address(work.event, work.side)]
      /\ listed[work.user] >= work.event
  BY DEF Inv, Handling
<1>2. CASE work.side = "from"
  <2>1. work.user = reverse[Event.from]
    BY <1>1, <1>2 DEF Address, Event
  <2>2. reverse[Event.from] = u \/ reverse[Event.to] = u
    BY CurrentEvent DEF Inv, StillKnown, Event
  <2> QED BY <1>1, <1>2, <2>1, <2>2
<1>3. CASE work.side = "to"
  <2>1. work.user = reverse[Event.to]
    BY <1>1, <1>3 DEF Address, Event
  <2>2. listed[u] >= work.event \/ reverse[Event.to] = u
    BY <1>3 DEF Inv, Handling
  <2> QED BY <1>1, <2>1, <2>2
<1> QED BY <1>2, <1>3, CurrentEvent

\* What a step of the handler has to keep.
LEMMA HandlerStep ==
  ASSUME Inv, Preserved, UNCHANGED <<reverse, sent>>, pending' \subseteq pending,
         work' \in Work, work'.event <= Len(sent),
         work'.at \in {"list", "active", "default", "transfers"} => work'.user \in User,
         listed' \in [User -> 0 .. MaxEvents], history' \in [User -> 0 .. MaxEvents],
         \A u \in User : listed[u] <= listed'[u] /\ listed'[u] <= Len(sent),
         \A n \in pending \ pending' : \A u \in sent[n].known : listed'[u] >= n,
         Handling'
  PROVE  Inv'
<1>1. RegInv'
  BY DEF Preserved
<1>2. TypeOK'
  BY <1>1 DEF Inv, TypeOK, RegInv
<1>3. StillKnown'
  BY DEF Inv, StillKnown
<1>4. UpToDate'
  BY DEF UpToDate
<1>5. HandledIsListed'
  <2> SUFFICES ASSUME NEW n \in DOMAIN sent \ pending', NEW u \in sent[n].known
               PROVE  listed'[u] >= n
    BY DEF HandledIsListed
  <2>1. u \in User /\ n \in 1 .. MaxEvents
    BY EventHasAddresses
  <2>2. CASE n \in pending
    BY <2>2
  <2>3. CASE n \notin pending
    <3>1. listed[u] >= n /\ listed[u] <= listed'[u]
      BY <2>1, <2>3 DEF Inv, HandledIsListed
    <3>2. listed[u] \in Nat /\ listed'[u] \in Nat
      BY <2>1, EventsAssumption DEF Inv, TypeOK
    <3> QED BY <2>1, <3>1, <3>2
  <2> QED BY <2>2, <2>3
<1> QED BY <1>1, <1>2, <1>3, <1>4, <1>5 DEF Inv

\* The lists that no step of the handler but one changes.
LEMMA ListedIsBounded ==
  ASSUME Inv
  PROVE  /\ listed \in [User -> 0 .. MaxEvents] /\ history \in [User -> 0 .. MaxEvents]
         /\ \A u \in User : listed[u] <= listed[u] /\ listed[u] <= Len(sent)
         /\ Len(sent) \in 0 .. MaxEvents
BY EventsAssumption DEF Inv, TypeOK, UpToDate

LEMMA NextSidePreserves ==
  ASSUME Inv, work.at # "idle", Told(listed), NextSide, UNCHANGED <<regVars, sent, listed>>,
         history' \in [User -> 0 .. MaxEvents]
  PROVE  Inv'
<1>1. Preserved /\ reverse' = reverse
  BY RegKept DEF regVars
<1>2. CASE work.side = "from" /\ Event.to # Event.from
  <2>1. work' = [work EXCEPT !.side = "to", !.at = "who", !.user = Nobody] /\ pending' = pending
    BY <1>2 DEF NextSide
  <2>2. /\ work' \in Work /\ work'.event = work.event /\ work'.side = "to"
        /\ work'.at = "who"
    BY <2>1 DEF Inv, TypeOK, Work
  <2>3. Event' = Event
    BY <2>2 DEF Event
  <2>4. Handling'
    BY <1>1, <1>2, <2>1, <2>2, <2>3, CurrentEvent DEF Handling, Told
  <2> QED BY <1>1, <2>1, <2>2, <2>4, CurrentEvent, ListedIsBounded, HandlerStep
<1>3. CASE ~(work.side = "from" /\ Event.to # Event.from)
  <2>1. work' = Idle /\ pending' = pending \ {work.event}
    BY <1>3 DEF NextSide
  <2>2. \A u \in sent[work.event].known : listed[u] >= work.event
    BY <1>3 DEF Told, Event
  <2>3. work' \in Work /\ work'.event = 0 /\ work'.at = "idle"
    BY <2>1, EventsAssumption DEF Idle, Work
  <2>4. Handling'
    BY <2>3 DEF Handling
  <2>5. work'.event <= Len(sent)
    BY <2>3, ListedIsBounded
  <2> QED BY <1>1, <2>1, <2>2, <2>3, <2>4, <2>5, ListedIsBounded, HandlerStep
<1> QED BY <1>2, <1>3

\* The handler goes on to place p with user u; lists may have been written.
LEMMA GoesOn ==
  ASSUME Inv, work.at # "idle", Preserved, UNCHANGED <<reverse, sent, pending>>,
         NEW p \in {"list", "active", "default", "transfers"}, NEW u \in User,
         u = reverse[Address(work.event, work.side)],
         work' = [work EXCEPT !.user = u, !.at = p],
         listed' \in [User -> 0 .. MaxEvents], history' \in [User -> 0 .. MaxEvents],
         \A w \in User : listed[w] <= listed'[w] /\ listed'[w] <= Len(sent),
         p # "list" => listed'[u] >= work.event
  PROVE  Inv'
<1>1. /\ work' \in Work /\ work'.event = work.event /\ work'.side = work.side
      /\ work'.at = p /\ work'.user = u
  BY DEF Inv, TypeOK, Work
<1>2. Event' = Event /\ Address(work.event, work.side)' = Address(work.event, work.side)
  BY <1>1 DEF Event, Address
<1>3. work.side = "to" =>
        \A w \in Event.known : listed'[w] >= work.event \/ reverse[Event.to] = w
  <2> SUFFICES ASSUME work.side = "to", NEW w \in Event.known
               PROVE  listed'[w] >= work.event \/ reverse[Event.to] = w
    OBVIOUS
  <2>1. w \in User
    BY CurrentEvent
  <2>2. listed[w] >= work.event \/ reverse[Event.to] = w
    BY DEF Inv, Handling
  <2>3. listed[w] \in Nat /\ listed'[w] \in Nat /\ work.event \in Nat
    BY <2>1, CurrentEvent, ListedIsBounded, EventsAssumption
  <2> QED BY <2>1, <2>2, <2>3
<1>4. Handling'
  BY <1>1, <1>2, <1>3, CurrentEvent DEF Handling
<1> QED BY <1>1, <1>4, CurrentEvent, HandlerStep

LEMMA DeliverPreserves ==
  ASSUME Inv, NEW n \in 1 .. MaxEvents, Deliver(n)
  PROVE  Inv'
<1>1. n \in DOMAIN sent /\ n <= Len(sent) /\ n \in pending
  BY EventHasAddresses DEF Deliver, Inv, TypeOK
<1>2. /\ work' \in Work /\ work'.event = n /\ work'.at = "who"
      /\ work'.side = IF sent[n].from = 0 THEN "to" ELSE "from"
  BY DEF Deliver, Work
<1>3. Preserved /\ UNCHANGED <<reverse, sent, pending, listed, history>>
  BY RegKept DEF Deliver, regVars
<1>4. Event' = sent[n]
  BY <1>2, <1>3 DEF Event
<1>5. sent[n].from = 0 => \A u \in sent[n].known : reverse[sent[n].to] = u
  BY <1>1 DEF Inv, StillKnown
<1>6. Handling'
  BY <1>1, <1>2, <1>3, <1>4, <1>5 DEF Handling
<1> QED BY <1>1, <1>2, <1>3, <1>6, ListedIsBounded, HandlerStep

LEMMA GivesUpPreserves ==
  ASSUME Inv, GivesUp, faults' \in 0 .. MaxFaults
  PROVE  Inv'
<1>1. Preserved
  BY RowsKept DEF GivesUp, Inv, RegInv, RegTypeOK
<1>2. work' \in Work /\ work'.event = 0 /\ work'.at = "idle"
  BY EventsAssumption DEF GivesUp, Idle, Work
<1>3. Handling' /\ work'.event <= Len(sent)
  BY <1>2, ListedIsBounded DEF Handling
<1> QED BY <1>1, <1>2, <1>3, ListedIsBounded, HandlerStep DEF GivesUp

\* Every step of the handler, and its failure.
LEMMA HandlerPreserves ==
  ASSUME Inv, HandlerGoesOn \/ HandlerFails
  PROVE  Inv'
<1>1. CASE Identify
  <2>1. /\ work.at # "idle" /\ UNCHANGED <<regVars, sent, listed, history>>
        /\ Preserved
    BY <1>1, RegKept DEF Identify, At
  <2> DEFINE u == reverse[Address(work.event, work.side)]
  <2>2. u \in User \cup {Nobody}
    BY <2>1, CurrentEvent DEF Address, Event
  <2>3. CASE u = Nobody
    BY <1>1, <2>1, <2>3, NobodyIsTold, NextSidePreserves, ListedIsBounded
       DEF Identify, Address, Event
  <2>4. CASE u # Nobody
    <3>1. work' = [work EXCEPT !.user = u, !.at = "list"] /\ pending' = pending
      BY <1>1, <2>4 DEF Identify, Address, Event
    <3> QED BY <2>1, <2>2, <2>4, <3>1, ListedIsBounded, GoesOn DEF regVars
  <2> QED BY <2>3, <2>4
<1>2. CASE UpdateTokenList
  <2>1. /\ work.at = "list" /\ work.user \in User
        /\ work.user = reverse[Address(work.event, work.side)]
        /\ work' = [work EXCEPT !.user = work.user, !.at = "active"]
    BY <1>2 DEF UpdateTokenList, At, Goes, Inv, TypeOK, Handling, Work
  <2>2. listed' = [listed EXCEPT ![work.user] = Len(sent)]
    BY <1>2 DEF UpdateTokenList
  <2>3. /\ listed' \in [User -> 0 .. MaxEvents] /\ listed'[work.user] = Len(sent)
        /\ \A w \in User : listed[w] <= listed'[w] /\ listed'[w] <= Len(sent)
    BY <2>1, <2>2, ListedIsBounded, EventsAssumption
  <2>4. listed'[work.user] >= work.event
    BY <2>1, <2>3, CurrentEvent, ListedIsBounded, EventsAssumption
  <2>5. Preserved /\ UNCHANGED <<reverse, sent, pending, history>>
    BY <1>2, RegKept DEF UpdateTokenList, regVars
  <2> QED BY <2>1, <2>3, <2>4, <2>5, ListedIsBounded, GoesOn
<1>3. CASE ReadActiveSym
  <2>1. work.at = "active" /\ UNCHANGED <<regVars, sent, listed, history>>
    BY <1>3 DEF ReadActiveSym, At
  <2>2. CASE row[work.user].sym # None
    BY <1>3, <2>1, <2>2, UserIsTold, NextSidePreserves, ListedIsBounded DEF ReadActiveSym
  <2>3. CASE row[work.user].sym = None
    <3>1. /\ work' = [work EXCEPT !.user = work.user, !.at = "default"] /\ pending' = pending
          /\ work.user \in User /\ work.user = reverse[Address(work.event, work.side)]
          /\ listed[work.user] >= work.event
      BY <1>3, <2>1, <2>3 DEF ReadActiveSym, Goes, Inv, TypeOK, Handling, Work
    <3> QED BY <2>1, <3>1, RegKept, ListedIsBounded, GoesOn DEF regVars
  <2> QED BY <2>2, <2>3
<1>4. CASE UpdateDefaultToken
  <2>1. /\ work.at = "default" /\ work.user \in User
        /\ work.user = reverse[Address(work.event, work.side)]
        /\ listed[work.user] >= work.event
        /\ work' = [work EXCEPT !.user = work.user, !.at = "transfers"]
    BY <1>4 DEF UpdateDefaultToken, At, Goes, Inv, TypeOK, Handling, Work
  <2> DEFINE u == work.user
             s == [row[u] EXCEPT !.sym = Event.v]
  <2>2. /\ row' = [row EXCEPT ![u] = s] /\ Event.v \in row[u].list
        /\ UNCHANGED <<reverse, given, active, faults, sent, pending, listed, history>>
    BY <1>4 DEF UpdateDefaultToken, Change
  <2>3. Sound(row[u])
    BY <2>1 DEF Inv, RegInv
  <2>4. Sound(s) /\ s.public_key = row[u].public_key /\ s.new = row[u].new
    BY <2>2, <2>3 DEF Sound, Row
  <2> HIDE DEF s
  <2>5. Preserved
    BY <2>1, <2>2, <2>4, QuietStep DEF Inv, RegInv, RegTypeOK
  <2> QED BY <2>1, <2>2, <2>5, ListedIsBounded, GoesOn
<1>5. CASE UpdateDefaultTokenFails
  BY <1>5, GivesUpPreserves, FaultsInBounds DEF UpdateDefaultTokenFails, Inv
<1>6. CASE UpdateTokenTransferList
  <2>1. /\ work.at = "transfers" /\ UNCHANGED <<regVars, sent, listed>> /\ NextSide
        /\ history' = [history EXCEPT ![work.user] = Len(sent)]
    BY <1>6 DEF UpdateTokenTransferList, At
  <2>2. history' \in [User -> 0 .. MaxEvents]
    BY <2>1, ListedIsBounded
  <2> QED BY <2>1, <2>2, UserIsTold, NextSidePreserves
<1>7. CASE HandlerFails
  BY <1>7, GivesUpPreserves, FaultsInBounds DEF HandlerFails, Inv
<1> QED BY <1>1, <1>2, <1>3, <1>4, <1>5, <1>6, <1>7 DEF HandlerGoesOn

-----------------------------------------------------------------------------
(* The specification *)

LEMMA UserStep ==
  ASSUME Inv, NEW u \in User, UserGoesOn(u) \/ UserStops(u)
  PROVE  Preserved /\ UNCHANGED evVars
<1>1. row[u].public_key \in {0} \cup Account
  BY DEF Inv, RegInv, Sound, Row
<1>2. Held(row[u].public_key) \in SUBSET Voucher
  BY <1>1, HeldIsVouchers
<1> QED BY <1>2, UserPreserves DEF UserGoesOn, UserStops, Inv

\* A step of anybody preserves the invariant.
LEMMA NextPreservesInv ==
  ASSUME Inv, [Next]_vars
  PROVE  Inv'
<1>1. ASSUME NEW u \in User, UserGoesOn(u) \/ UserStops(u)
      PROVE  Inv'
  BY <1>1, UserStep, RegistrationStep
<1>2. ASSUME NEW a \in Account, Activate(a), UNCHANGED evVars
      PROVE  Inv'
  BY <1>2, ActivatePreserves, RegistrationStep DEF Inv
<1>3. ASSUME NEW to \in Account, NEW v \in Voucher, Mint(to, v)
      PROVE  Inv'
  BY <1>3, MovePreserves DEF Mint
<1>4. ASSUME NEW from \in Account, NEW to \in Account, NEW v \in Voucher,
             Transfer(from, to, v)
      PROVE  Inv'
  BY <1>4, MovePreserves DEF Transfer
<1>5. ASSUME UNCHANGED vars
      PROVE  Inv'
  BY <1>5, RegKept, RegistrationStep DEF vars, evVars, regVars
<1> QED BY <1>1, <1>2, <1>3, <1>4, <1>5, DeliverPreserves, HandlerPreserves DEF Next

\* The registration, the movements and the events, together, for ever.
THEOREM InvAlways == Spec => []Inv
<1>1. Init => Inv
  BY InitEstablishesInv
<1>2. Inv /\ [Next]_vars => Inv'
  BY NextPreservesInv
<1> QED BY <1>1, <1>2, PTL DEF Spec

\* Rows, events and handler stay in their types; the handler never goes on without
\* a user (Identify, IdentityFromAddress).
THEOREM TypeCorrect == Spec => []TypeOK
<1>1. Inv => TypeOK
  BY DEF Inv
<1> QED BY <1>1, InvAlways, PTL

\* An address leads to the user whose public key it is, for any users and whatever
\* fails while accounts are created (CreateAccount, createAccountNoExist).
THEOREM AddressAlwaysLeadsBack == Spec => []AddressLeadsBack
<1>1. Inv => AddressLeadsBack
  BY DEF Inv, RegInv, LeadsBack, AddressLeadsBack
<1> QED BY <1>1, InvAlways, PTL

\* An event that is over has been seen by the token lists of those it was for, for
\* any number of events and of failures of the handler (HandleTokenTransfer).
THEOREM HandledAlwaysListed == Spec => []HandledIsListed
<1>1. Inv => HandledIsListed
  BY DEF Inv
<1> QED BY <1>1, InvAlways, PTL

-----------------------------------------------------------------------------
(* The refinement *)

Keys == [u \in User |-> row[u].public_key]

LEMMA InitImplements == Init => A!Init
<1> SUFFICES ASSUME Init PROVE A!Init
  OBVIOUS
<1>1. RegInv
  BY InitEstablishesRegInv DEF Init
<1>2. /\ DOMAIN reverse = Account /\ reverse \in [Account -> User \cup {Nobody}]
      /\ Keys \in [User -> {0} \cup Account]
      /\ \A u \in User : Keys[u] = row[u].public_key
  BY <1>1 DEF RegInv, RegTypeOK, Sound, Row, Keys
<1>3. \A u, w \in User : Keys[u] = Keys[w] /\ Keys[u] # 0 => u = w
  BY <1>1, <1>2 DEF RegInv, Distinct, AccountsOf
<1>4. \A a \in DOMAIN reverse, u \in User : reverse[a] = u => Keys[u] = a
  BY <1>1, <1>2 DEF RegInv, LeadsBack
<1> QED BY <1>2, <1>3, <1>4 DEF A!Init, Keys

\* The three things that a step may do to keys and addresses are a stutter, Open
\* and Register.
LEMMA KeyStepImplements ==
  ASSUME Inv, KeyStep
  PROVE  [A!Next]_<<Keys, reverse>>
<1>1. /\ DOMAIN reverse = Account
      /\ DOMAIN Keys = User /\ \A u \in User : Keys[u] = row[u].public_key
      /\ DOMAIN Keys' = User /\ \A u \in User : Keys'[u] = row'[u].public_key
      /\ Keys = [u \in User |-> Keys[u]] /\ Keys' = [u \in User |-> Keys'[u]]
  BY DEF Keys, Inv, RegInv, RegTypeOK
<1>2. CASE /\ reverse' = reverse
           /\ \A u \in User : row'[u].public_key = row[u].public_key
  BY <1>1, <1>2
<1>3. ASSUME NEW u \in User, NEW a \in Account, reverse' = reverse,
             row[u].public_key = 0, \A w \in User : row[w].public_key # a,
             \A w \in User : row'[w].public_key = IF w = u THEN a ELSE row[w].public_key
      PROVE  A!Next
  <2>1. Keys' = [Keys EXCEPT ![u] = a]
    BY <1>1, <1>3
  <2>2. A!Open(u, a)
    BY <1>1, <1>3, <2>1 DEF A!Open, Keys
  <2> QED BY <1>1, <2>2 DEF A!Next
<1>4. ASSUME NEW u \in User, row[u].public_key \in Account,
             reverse[row[u].public_key] = Nobody,
             reverse' = [reverse EXCEPT ![row[u].public_key] = u],
             \A w \in User : row'[w].public_key = row[w].public_key
      PROVE  A!Next
  <2>1. Keys' = Keys
    BY <1>1, <1>4
  <2>2. A!Register(u)
    BY <1>1, <1>4, <2>1 DEF A!Register, Keys
  <2> QED BY <2>2 DEF A!Next
<1> QED BY <1>2, <1>3, <1>4 DEF KeyStep

LEMMA StepImplements ==
  ASSUME Inv, [Next]_vars
  PROVE  [A!Next]_<<Keys, reverse>>
<1>1. ASSUME NEW u \in User, UserGoesOn(u) \/ UserStops(u)
      PROVE  KeyStep
  BY <1>1, UserStep DEF Preserved
<1>2. ASSUME UNCHANGED <<row, reverse>>
      PROVE  KeyStep
  BY <1>2 DEF KeyStep
<1>3. CASE UpdateDefaultToken
  <2>1. row' = [row EXCEPT ![work.user] = [row[work.user] EXCEPT !.sym = Event.v]]
        /\ reverse' = reverse
    BY <1>3 DEF UpdateDefaultToken, Change
  <2>2. \A u \in User : row'[u].public_key = row[u].public_key
    BY <2>1 DEF Inv, RegInv, RegTypeOK, Row
  <2> QED BY <2>1, <2>2, KeyStepImplements DEF KeyStep
<1>4. ASSUME NEW a \in Account, Activate(a)
      PROVE  UNCHANGED <<row, reverse>>
  BY <1>4 DEF Activate
<1>5. ASSUME \/ \E to \in Account, v \in Voucher : Mint(to, v)
             \/ \E from, to \in Account, v \in Voucher : Transfer(from, to, v)
             \/ \E n \in 1 .. MaxEvents : Deliver(n)
             \/ HandlerGoesOn /\ ~UpdateDefaultToken
             \/ HandlerFails
             \/ UNCHANGED vars
      PROVE  UNCHANGED <<row, reverse>>
  BY <1>5 DEF Mint, Transfer, Move, Deliver, HandlerGoesOn, HandlerFails, GivesUp, Identify,
              UpdateTokenList, ReadActiveSym, UpdateDefaultTokenFails,
              UpdateTokenTransferList, regVars, vars
<1> QED BY <1>1, <1>2, <1>3, <1>4, <1>5, KeyStepImplements DEF Next

\* The creation of accounts, call by call with its failures, implements Accounts:
\* at most one account for a user, nobody else's, and kept for good.
THEOREM ImplementsAccounts == Spec => AccountsSpec
<1>1. Init => A!Init
  BY InitImplements
<1>2. Inv /\ [Next]_vars => [A!Next]_<<Keys, reverse>>
  BY StepImplements
<1> QED BY <1>1, <1>2, InvAlways, PTL DEF Spec, AccountsSpec, A!Spec, Keys
=============================================================================
