-------------------------- MODULE Statements_proofs --------------------------
(***************************************************************************)
(* Proofs about Statements, for any users, goroutines, database objects    *)
(* and columns, when a database object serves one request at a time:       *)
(* every user's statement is his own, its columns are of one fetch, and    *)
(* the handlers implement StatementService.                                *)
(***************************************************************************)
EXTENDS Statements, TLAPS

\* What a request in progress relies on: the database object is still in its
\* user's session, and what it has read or fetched so far is its user's.
Faithful(r, s) ==
  /\ r.pc # "idle" => r.user \in User
  /\ r.pc \in {"key", "fetch", "put", "get"} => s = r.user
  /\ r.pc \in {"fetch", "put", "get"} => r.key = r.user
  /\ r.pc = "put" => r.fetch \in Fetch /\ r.fetch.of = r.user
  /\ r.pc = "get" => r.todo \in SUBSET Column /\ r.got \in [Column -> Fetch \cup {None}]
  /\ r.pc = "get" => \A c \in Column \ r.todo : r.got[c] \in Fetch /\ r.got[c].of = r.user

Alone ==
  \A q, p \in Request :
    DbOf[q] = DbOf[p] /\ req[q].pc # "idle" /\ req[p].pc # "idle" => q = p

Stored ==
  \A u \in User, c \in Column : columns[u][c] # None => columns[u][c].of = u

Shown ==
  \A u \in User : screen[u] # None =>
    screen[u].key = u /\ \A c \in Column : screen[u].got[c].of = u

\* The requests: what they rely on, and that no two share a database object.
Requests ==
  /\ req \in [Request -> Progress]
  /\ session \in [Db -> User \cup {None}]
  /\ Alone
  /\ \A q \in Request : Faithful(req[q], Session(q))

\* The users: what is stored for them and shown to them.
Entries ==
  /\ ledger \in [User -> 0 .. MaxTransfers]
  /\ columns \in [User -> [Column -> Fetch \cup {None}]]
  /\ screen = [u \in User |-> screen[u]]
  /\ Stored /\ Shown

Inv == Requests /\ Entries

-----------------------------------------------------------------------------
LEMMA IdleInProgress == Idle \in Progress /\ \A s : Faithful(Idle, s)
BY DEF Idle, Blank, Progress, Faithful

\* Initially no request is in progress and nothing is stored or shown.
LEMMA InitEstablishesInv == Init => Inv
<1> SUFFICES ASSUME Init PROVE Inv
  OBVIOUS
<1>1. \A q \in Request : req[q] = Idle /\ req[q].pc = "idle"
  BY DEF Init, Idle
<1>2. Requests
  <2>1. req \in [Request -> Progress]
    BY <1>1, IdleInProgress DEF Init
  <2>2. session \in [Db -> User \cup {None}]
    BY DEF Init
  <2>3. Alone
    BY <1>1 DEF Alone
  <2>4. \A q \in Request : Faithful(req[q], Session(q))
    BY <1>1, IdleInProgress
  <2> QED BY <2>1, <2>2, <2>3, <2>4 DEF Requests
<1>3. Entries
  <2>1. ledger \in [User -> 0 .. MaxTransfers]
    BY BoundAssumption DEF Init
  <2>2. columns \in [User -> [Column -> Fetch \cup {None}]]
    BY DEF Init, Blank
  <2>3. screen = [u \in User |-> screen[u]]
    BY DEF Init
  <2>4. Stored /\ Shown
    BY DEF Init, Stored, Shown, Blank
  <2> QED BY <2>1, <2>2, <2>3, <2>4 DEF Entries
<1> QED BY <1>2, <1>3 DEF Inv

\* A request that goes on, and keeps what it relies on, disturbs no other.
LEMMA GoesOn ==
  ASSUME Requests, NEW q \in Request, NEW r \in Progress,
         req' = [req EXCEPT ![q] = r], session' = session,
         r.pc # "idle" => req[q].pc # "idle",
         Faithful(r, Session(q))
  PROVE  Requests'
<1>1. req' \in [Request -> Progress]
  BY DEF Requests
<1>2. \A p \in Request : req'[p] = IF p = q THEN r ELSE req[p]
  BY DEF Requests
<1>3. Alone'
  BY <1>2 DEF Requests, Alone
<1>4. \A p \in Request : Faithful(req[p], Session(p))'
  <2> SUFFICES ASSUME NEW p \in Request PROVE Faithful(req'[p], Session(p)')
    BY DEF Faithful
  <2>1. Session(p)' = Session(p)
    BY DEF Session
  <2>2. Faithful(req[p], Session(p))
    BY DEF Requests
  <2> QED BY <1>2, <2>1, <2>2
<1> QED BY <1>1, <1>3, <1>4 DEF Requests

\* What is stored and shown stays.
LEMMA EntriesStay ==
  ASSUME Entries, UNCHANGED <<ledger, columns, screen>>
  PROVE  Entries'
BY DEF Entries, Stored, Shown

\* An answer ends the request: Requests again, whatever the entries.
LEMMA Answered ==
  ASSUME Requests, NEW q \in Request, NEW n, Answer(q, n), session' = session
  PROVE  Requests'
<1>1. Idle.pc = "idle" /\ Idle \in Progress /\ Faithful(Idle, Session(q))
  BY IdleInProgress DEF Idle
<1> QED BY <1>1, GoesOn DEF Answer

-----------------------------------------------------------------------------
(* One lemma per action *)

LEMMA BeginKeepsInv ==
  ASSUME Inv, Exclusive, NEW q \in Request, NEW u \in User,
         NEW job \in {"check", "read"}, Begin(q, u, job)
  PROVE  Inv'
<1> DEFINE r == [Idle EXCEPT !.user = u, !.job = job, !.pc = "session"]
<1>1. r \in Progress /\ r.pc = "session" /\ r.user = u
  BY IdleInProgress DEF Idle, Blank, Progress
<1>2. req' = [req EXCEPT ![q] = r] /\ session' = session
  BY DEF Begin
<1>3. \A p \in Request : DbOf[p] = DbOf[q] => req[p].pc = "idle"
  BY DEF Begin, InUse
<1>4. \A p \in Request : req'[p] = IF p = q THEN r ELSE req[p]
  BY <1>2 DEF Inv, Requests
<1>5. req' \in [Request -> Progress]
  BY <1>1, <1>2 DEF Inv, Requests
<1>6. Alone'
  BY <1>3, <1>4 DEF Inv, Requests, Alone
<1>7. \A p \in Request : Faithful(req'[p], Session(p)')
  <2> TAKE p \in Request
  <2>1. Faithful(r, Session(p)')
    BY <1>1 DEF Faithful
  <2>2. Faithful(req[p], Session(p)')
    BY <1>2 DEF Inv, Requests, Session
  <2> QED BY <1>4, <2>1, <2>2
<1>8. Requests'
  BY <1>2, <1>5, <1>6, <1>7 DEF Inv, Requests, Faithful
<1> QED BY <1>8, EntriesStay DEF Inv, Begin

LEMMA SetSessionKeepsInv ==
  ASSUME Inv, NEW q \in Request, SetSession(q)
  PROVE  Inv'
<1> DEFINE r == [req[q] EXCEPT !.pc = "key"]
<1>1. req[q] \in Progress /\ req[q].pc = "session" /\ req[q].user \in User
  BY DEF Inv, Requests, SetSession, At, Faithful
<1>2. r \in Progress /\ r.pc = "key" /\ r.user = req[q].user
  BY <1>1 DEF Progress
<1>3. /\ req' = [req EXCEPT ![q] = r]
      /\ session' = [session EXCEPT ![DbOf[q]] = req[q].user]
  BY DEF SetSession
<1>4. \A p \in Request : req'[p] = IF p = q THEN r ELSE req[p]
  BY <1>3 DEF Inv, Requests
<1>5. \A p \in Request : Session(p)' = IF DbOf[p] = DbOf[q] THEN req[q].user ELSE Session(p)
  BY <1>3, DbAssumption DEF Inv, Requests, Session
<1>6. req' \in [Request -> Progress] /\ session' \in [Db -> User \cup {None}]
  BY <1>1, <1>2, <1>3 DEF Inv, Requests
<1>7. Alone'
  BY <1>1, <1>4 DEF Inv, Requests, Alone
<1>8. \A p \in Request : Faithful(req'[p], Session(p)')
  <2> TAKE p \in Request
  <2>1. CASE p = q
    <3>1. Faithful(r, req[q].user)
      BY <1>1, <1>2 DEF Faithful
    <3> QED BY <1>4, <1>5, <2>1, <3>1
  <2>2. CASE p # q /\ DbOf[p] = DbOf[q]
    <3>1. req[p].pc = "idle"
      BY <1>1, <2>2 DEF Inv, Requests, Alone
    <3>2. Faithful(req[p], Session(p)')
      BY <3>1 DEF Faithful
    <3> QED BY <1>4, <2>2, <3>2
  <2>3. CASE DbOf[p] # DbOf[q]
    BY <1>4, <1>5, <2>3 DEF Inv, Requests
  <2> QED BY <2>1, <2>2, <2>3
<1>9. Requests'
  BY <1>6, <1>7, <1>8 DEF Requests, Faithful
<1> QED BY <1>9, EntriesStay DEF Inv, SetSession

LEMMA GetKeyKeepsInv ==
  ASSUME Inv, NEW q \in Request, GetKey(q)
  PROVE  Inv'
<1>1. /\ req[q] \in Progress /\ req[q].pc = "key" /\ req[q].user \in User
      /\ Session(q) = req[q].user
  BY DEF Inv, Requests, GetKey, At, Faithful
<1>2. CASE req[q].job = "check"
  <2> DEFINE r == [req[q] EXCEPT !.key = Session(q), !.pc = "fetch"]
  <2>1. r \in Progress /\ req' = [req EXCEPT ![q] = r] /\ session' = session
    BY <1>1, <1>2 DEF Progress, GetKey
  <2>2. Faithful(r, Session(q))
    BY <1>1 DEF Faithful, Progress
  <2>3. Requests'
    BY <1>1, <2>1, <2>2, GoesOn DEF Inv
  <2> QED BY <2>3, EntriesStay DEF Inv, GetKey
<1>3. CASE req[q].job # "check"
  <2> DEFINE r == [req[q] EXCEPT !.key = Session(q), !.pc = "get", !.todo = Column]
  <2>1. r \in Progress /\ req' = [req EXCEPT ![q] = r] /\ session' = session
    BY <1>1, <1>3 DEF Progress, GetKey
  <2>2. Faithful(r, Session(q))
    BY <1>1 DEF Faithful, Progress
  <2>3. Requests'
    BY <1>1, <2>1, <2>2, GoesOn DEF Inv
  <2> QED BY <2>3, EntriesStay DEF Inv, GetKey
<1> QED BY <1>2, <1>3

LEMMA FetchKeepsInv ==
  ASSUME Inv, NEW q \in Request, FetchTransactions(q)
  PROVE  Inv'
<1>1. Entries'
  BY EntriesStay DEF Inv, FetchTransactions
<1>2. CASE Answer(q, "off")
  BY <1>1, <1>2, Answered DEF Inv, FetchTransactions
<1>3. CASE ~Answer(q, "off")
  <2> DEFINE f == [of |-> req[q].key, n |-> ledger[req[q].key]]
  <2> DEFINE r == [req[q] EXCEPT !.pc = "put", !.todo = Column, !.fetch = f]
  <2>1. /\ req[q] \in Progress /\ req[q].pc = "fetch" /\ req[q].user \in User
        /\ Session(q) = req[q].user /\ req[q].key = req[q].user
    BY DEF Inv, Requests, FetchTransactions, At, Faithful
  <2>2. ledger[req[q].key] > 0 /\ req' = [req EXCEPT ![q] = r] /\ session' = session
    BY <1>3 DEF FetchTransactions
  <2>3. ledger[req[q].key] \in 1 .. MaxTransfers
    BY <2>1, <2>2, BoundAssumption DEF Inv, Entries
  <2>4. f \in Fetch /\ f.of = req[q].user
    BY <2>1, <2>3 DEF Fetch
  <2>5. r \in Progress
    BY <2>1, <2>4 DEF Progress
  <2>6. Faithful(r, Session(q))
    BY <2>1, <2>4 DEF Faithful, Progress
  <2>7. Requests'
    BY <2>1, <2>2, <2>5, <2>6, GoesOn DEF Inv
  <2> QED BY <1>1, <2>7 DEF Inv
<1> QED BY <1>2, <1>3

LEMMA PutKeepsInv ==
  ASSUME Inv, NEW q \in Request, NEW c \in Column, Put(q, c)
  PROVE  Inv'
<1>1. /\ req[q] \in Progress /\ req[q].pc = "put" /\ req[q].user \in User
      /\ Session(q) = req[q].user /\ req[q].key = req[q].user
      /\ req[q].fetch \in Fetch /\ req[q].fetch.of = req[q].user
  BY DEF Inv, Requests, Put, At, Faithful
<1>2. columns' = [columns EXCEPT ![req[q].user] = [@ EXCEPT ![c] = req[q].fetch]]
  BY <1>1 DEF Put
<1>3. columns' \in [User -> [Column -> Fetch \cup {None}]]
  BY <1>1, <1>2 DEF Inv, Entries
<1>4. Stored'
  BY <1>1, <1>2 DEF Inv, Entries, Stored
<1>5. Entries'
  BY <1>3, <1>4 DEF Inv, Entries, Shown, Put
<1>6. CASE Answer(q, "check_statement")
  BY <1>5, <1>6, Answered DEF Inv, Put
<1>7. CASE ~Answer(q, "check_statement")
  <2> DEFINE r == [req[q] EXCEPT !.todo = @ \ {c}]
  <2>1. req' = [req EXCEPT ![q] = r] /\ session' = session
    BY <1>7 DEF Put
  <2>2. r \in Progress
    BY <1>1 DEF Progress
  <2>3. Faithful(r, Session(q))
    BY <1>1 DEF Faithful, Progress
  <2>4. Requests'
    BY <1>1, <2>1, <2>2, <2>3, GoesOn DEF Inv
  <2> QED BY <1>5, <2>4 DEF Inv
<1> QED BY <1>6, <1>7

LEMMA PutFailsKeepsInv ==
  ASSUME Inv, NEW q \in Request, PutFails(q)
  PROVE  Inv'
BY Answered, EntriesStay DEF Inv, PutFails

LEMMA GetKeepsInv ==
  ASSUME Inv, NEW q \in Request, NEW c \in Column, Get(q, c)
  PROVE  Inv'
<1>1. Entries'
  BY EntriesStay DEF Inv, Get
<1>2. CASE columns[Session(q)][c] = None
  BY <1>1, <1>2, Answered DEF Inv, Get
<1>3. CASE columns[Session(q)][c] # None
  <2> DEFINE f == columns[Session(q)][c]
  <2> DEFINE r == [req[q] EXCEPT !.todo = @ \ {c}, !.got[c] = f]
  <2>1. /\ req[q] \in Progress /\ req[q].pc = "get" /\ req[q].user \in User
        /\ Session(q) = req[q].user /\ req[q].key = req[q].user
        /\ req[q].got \in [Column -> Fetch \cup {None}]
        /\ \A d \in Column \ req[q].todo :
             req[q].got[d] \in Fetch /\ req[q].got[d].of = req[q].user
    BY DEF Inv, Requests, Get, At, Faithful
  <2>2. f \in Fetch /\ f.of = req[q].user
    BY <1>3, <2>1 DEF Inv, Entries, Stored
  <2>3. req' = [req EXCEPT ![q] = r] /\ session' = session
    BY <1>3 DEF Get
  <2>4. r \in Progress
    BY <2>1, <2>2 DEF Progress
  <2>5. r.todo = req[q].todo \ {c} /\ r.got = [req[q].got EXCEPT ![c] = f]
    BY <2>1 DEF Progress
  <2>6. r.pc = "get" /\ r.user = req[q].user /\ r.key = req[q].key
    BY <2>1 DEF Progress
  <2>7. \A d \in Column \ r.todo : r.got[d] \in Fetch /\ r.got[d].of = r.user
    BY <2>1, <2>2, <2>5, <2>6
  <2>8. r.todo \in SUBSET Column /\ r.got \in [Column -> Fetch \cup {None}]
    BY <2>4 DEF Progress
  <2>9. Faithful(r, Session(q))
    BY <2>1, <2>6, <2>7, <2>8 DEF Faithful
  <2>10. Requests'
    BY <2>1, <2>3, <2>4, <2>9, GoesOn DEF Inv
  <2> QED BY <1>1, <2>10 DEF Inv
<1> QED BY <1>2, <1>3

LEMMA ShowKeepsInv ==
  ASSUME Inv, NEW q \in Request, Show(q)
  PROVE  Inv'
<1>1. Requests'
  BY Answered DEF Inv, Show
<1>2. /\ req[q].pc = "get" /\ req[q].todo = {} /\ req[q].user \in User
      /\ req[q].key = req[q].user
      /\ \A c \in Column : req[q].got[c].of = req[q].user
  BY DEF Inv, Requests, Show, At, Faithful
<1>3. CASE Shorter(req[q].got)
  BY <1>1, <1>3, EntriesStay DEF Inv, Show
<1>4. CASE ~Shorter(req[q].got)
  <2>1. screen' = [screen EXCEPT ![req[q].user] = [key |-> req[q].key, got |-> req[q].got]]
    BY <1>4 DEF Show
  <2>2. screen' = [u \in User |-> screen'[u]] /\ Shown'
    BY <1>2, <2>1 DEF Inv, Entries, Shown
  <2>3. Entries'
    BY <2>2 DEF Inv, Entries, Stored, Show
  <2> QED BY <1>1, <2>3 DEF Inv
<1> QED BY <1>3, <1>4

LEMMA UserKeepsInv ==
  ASSUME Inv, NEW u \in User, Transact(u) \/ Leave(u)
  PROVE  Inv'
<1>1. Requests'
  BY DEF Inv, Requests, Alone, Faithful, Session, Transact, Leave
<1>2. CASE Transact(u)
  <2>1. ledger' \in [User -> 0 .. MaxTransfers]
    BY <1>2, BoundAssumption DEF Inv, Entries, Transact
  <2> QED BY <1>1, <1>2, <2>1 DEF Inv, Entries, Stored, Shown, Transact
<1>3. CASE Leave(u)
  BY <1>1, <1>3, EntriesStay DEF Inv, Leave
<1> QED BY <1>2, <1>3

-----------------------------------------------------------------------------
LEMMA NextKeepsInv ==
  ASSUME Inv, Exclusive, [Next]_vars
  PROVE  Inv'
<1>1. CASE \E u \in User : Transact(u) \/ Leave(u)
  BY <1>1, UserKeepsInv
<1>2. ASSUME NEW q \in Request,
             \/ SetSession(q) \/ GetKey(q) \/ FetchTransactions(q)
             \/ PutFails(q) \/ Show(q)
      PROVE  Inv'
  BY <1>2, SetSessionKeepsInv, GetKeyKeepsInv, FetchKeepsInv, PutFailsKeepsInv,
     ShowKeepsInv
<1>3. ASSUME NEW q \in Request, NEW u \in User, NEW job \in {"check", "read"},
             Begin(q, u, job)
      PROVE  Inv'
  BY <1>3, BeginKeepsInv
<1>4. ASSUME NEW q \in Request, NEW c \in Column, Put(q, c) \/ Get(q, c)
      PROVE  Inv'
  BY <1>4, PutKeepsInv, GetKeepsInv
<1>5. CASE UNCHANGED vars
  <2>1. Requests'
    BY <1>5 DEF vars, Inv, Requests, Alone, Faithful, Session
  <2> QED BY <1>5, <2>1, EntriesStay DEF vars, Inv
<1> QED BY <1>1, <1>2, <1>3, <1>4, <1>5 DEF Next

\* When a database object serves one request at a time, everything stored for
\* a user and every statement shown to him are his own: the handlers need no
\* session of their own, although SubPrefixDb works on whichever was set last.
THEOREM OwnAlways == Exclusive => (Spec => []OwnStatement)
<1> SUFFICES ASSUME Exclusive PROVE Spec => []OwnStatement
  OBVIOUS
<1>1. Inv => OwnStatement
  BY DEF Inv, Entries, Stored, Shown, OwnStatement
<1>2. Inv /\ [Next]_vars => Inv'
  BY NextKeepsInv
<1> QED BY <1>1, <1>2, InitEstablishesInv, PTL DEF Spec
-----------------------------------------------------------------------------
(* What a user sees.  The columns of a user are written one by one, so the   *)
(* order of the requests of one user is what keeps a reader from a mixture.  *)

\* A user waits for the answer to his request.
OnePerUser ==
  \A q, p \in Request :
    req[q].pc # "idle" /\ req[p].pc # "idle" /\ req[q].user = req[p].user => q = p

Complete(w) == \A c \in Column : w[c] \in Fetch /\ w[c] = w[Senders]

\* How far a request has come, when w are the columns of its user, n is the node
\* of his session and l the number of his transactions: only a session with a
\* statement reads, and what is put is newer than what was there.
Advanced(r, w, n, l) ==
  /\ r.job = "read" => n # "off"
  /\ r.pc \in {"fetch", "put"} => r.job = "check"
  /\ r.pc = "get" => r.job = "read" /\ \A c \in Column \ r.todo : r.got[c] = w[c]
  /\ r.pc = "put" =>
       /\ r.fetch.n <= l
       /\ \A c \in Column \ r.todo : w[c] = r.fetch
       /\ \A c \in Column : w[c] # None => w[c].n <= r.fetch.n

\* What is stored for a user, w, is not more than there is, l, and not less than
\* what his screen, s, shows.
Between(s, w, l) ==
  /\ \A c \in Column : w[c] # None => w[c].n <= l
  /\ s # None =>
       /\ s \in Statement /\ Complete(s.got)
       /\ \A c \in Column : w[c] \in Fetch /\ s.got[c].n <= w[c].n

Putting(u) == \E q \in Request : req[q].pc = "put" /\ req[q].user = u

\* The columns of a session with a statement are of one fetch, unless they are
\* being put.
Settled(u) == node[u] # "off" /\ ~Putting(u) => Complete(columns[u])

Ordered ==
  /\ node \in [User -> {"off", "check_statement", "transactions"}]
  /\ OnePerUser
  /\ \A q \in Request : req[q].pc # "idle" =>
       Advanced(req[q], columns[req[q].user], node[req[q].user], ledger[req[q].user])
  /\ \A u \in User : Between(screen[u], columns[u], ledger[u]) /\ Settled(u)

LEMMA FetchIsShown ==
  /\ None \notin Fetch
  /\ \A f \in Fetch : f.n \in 1 .. MaxTransfers /\ f = [of |-> f.of, n |-> f.n]
BY NoneAssumption DEF Fetch

LEMMA InitOrdered == Init => Ordered
<1> SUFFICES ASSUME Init PROVE Ordered
  OBVIOUS
<1>1. \A q \in Request : req[q].pc = "idle"
  BY DEF Init, Idle
<1>2. \A u \in User : Between(screen[u], columns[u], ledger[u]) /\ Settled(u)
  BY DEF Init, Blank, Between, Settled
<1> QED BY <1>1, <1>2 DEF Init, Ordered, OnePerUser

\* No other request is for u.
OnlyRequest(q, u) ==
  \A p \in Request \ {q} : req[p].pc # "idle" => req[p].user # u

\* Nothing but u's is touched.
Only(u) ==
  \A v \in User \ {u} :
    node'[v] = node[v] /\ columns'[v] = columns[v] /\ screen'[v] = screen[v]

\* A step of a request touches nothing but what is its user's.
LEMMA StepOrdered ==
  ASSUME Inv, Ordered, NEW q \in Request, NEW u \in User, NEW r \in Progress,
         req' = [req EXCEPT ![q] = r],
         req[q].pc # "idle" => req[q].user = u,
         r.pc # "idle" => r.user = u,
         OnlyRequest(q, u),
         node' \in [User -> {"off", "check_statement", "transactions"}],
         ledger' = ledger,
         Only(u),
         r.pc # "idle" => Advanced(r, columns'[u], node'[u], ledger[u]),
         Between(screen'[u], columns'[u], ledger[u]),
         node'[u] # "off" /\ r.pc # "put" => Complete(columns'[u])
  PROVE  Ordered'
<1>1. \A p \in Request : req'[p] = IF p = q THEN r ELSE req[p]
  BY DEF Inv, Requests
<1>2. \A p \in Request : req[p].pc # "idle" => req[p].user \in User
  BY DEF Inv, Requests, Faithful
<1>3. OnePerUser'
  BY <1>1 DEF Ordered, OnePerUser, OnlyRequest
<1>4. ASSUME NEW p \in Request, req'[p].pc # "idle"
      PROVE  Advanced(req'[p], columns'[req'[p].user], node'[req'[p].user],
                      ledger'[req'[p].user])
  <2>1. CASE p = q
    BY <1>1, <1>4, <2>1
  <2>2. CASE p # q
    <3>1. req'[p] = req[p] /\ req[p].user \in User \ {u}
      BY <1>1, <1>2, <1>4, <2>2 DEF OnlyRequest
    <3>2. Advanced(req[p], columns[req[p].user], node[req[p].user], ledger[req[p].user])
      BY <1>4, <3>1 DEF Ordered
    <3> QED BY <3>1, <3>2 DEF Only
  <2> QED BY <2>1, <2>2
<1>5. ASSUME NEW v \in User PROVE Between(screen'[v], columns'[v], ledger'[v])
  BY DEF Ordered, Only
<1>6. ASSUME NEW v \in User PROVE Settled(v)'
  <2>1. CASE v = u
    <3>1. r.pc = "put" => Putting(u)'
      BY <1>1 DEF Putting
    <3> QED BY <2>1, <3>1 DEF Settled
  <2>2. CASE v # u
    <3>1. Putting(v) => Putting(v)'
      BY <1>1, <2>2 DEF Putting
    <3>2. Settled(v)
      BY DEF Ordered
    <3> QED BY <2>2, <3>1, <3>2 DEF Settled, Only
  <2> QED BY <2>1, <2>2
<1>7. \A p \in Request : req'[p].pc # "idle" =>
        Advanced(req'[p], columns'[req'[p].user], node'[req'[p].user], ledger'[req'[p].user])
  BY <1>4
<1>8. \A v \in User : Between(screen'[v], columns'[v], ledger'[v])
  BY <1>5
<1>9. \A v \in User : Settled(v)'
  BY <1>6
<1> QED BY <1>3, <1>7, <1>8, <1>9 DEF Ordered, Advanced, Between

\* What a request in progress knows of its user.
LEMMA InProgress ==
  ASSUME Inv, Ordered, NEW q \in Request, req[q].pc # "idle"
  PROVE  /\ req[q] \in Progress /\ req[q].user \in User
         /\ OnlyRequest(q, req[q].user)
         /\ Faithful(req[q], Session(q))
         /\ Advanced(req[q], columns[req[q].user], node[req[q].user], ledger[req[q].user])
         /\ Between(screen[req[q].user], columns[req[q].user], ledger[req[q].user])
         /\ node[req[q].user] # "off" /\ req[q].pc # "put" => Complete(columns[req[q].user])
<1>1. req[q] \in Progress /\ Faithful(req[q], Session(q))
  BY DEF Inv, Requests
<1>2. req[q].user \in User
  BY <1>1 DEF Faithful
<1>3. OnlyRequest(q, req[q].user)
  BY DEF Ordered, OnePerUser, OnlyRequest
<1>4. req[q].pc # "put" => ~Putting(req[q].user)
  BY <1>3 DEF Putting, OnlyRequest
<1> QED BY <1>1, <1>2, <1>3, <1>4 DEF Ordered, Settled

\* An answer that stores and shows nothing.
LEMMA AnswerOrdered ==
  ASSUME Inv, Ordered, NEW q \in Request, req[q].pc # "idle",
         NEW n \in {"off", "check_statement", "transactions"}, Answer(q, n),
         UNCHANGED <<ledger, columns, screen>>,
         n # "off" => Complete(columns[req[q].user])
  PROVE  Ordered'
<1>1. Idle \in Progress /\ Idle.pc = "idle"
  BY IdleInProgress DEF Idle
<1>2. node' = [node EXCEPT ![req[q].user] = n] /\ req' = [req EXCEPT ![q] = Idle]
  BY DEF Answer
<1> DEFINE u == req[q].user
<1>3. u \in User /\ node \in [User -> {"off", "check_statement", "transactions"}]
  BY InProgress DEF Ordered
<1>4. OnlyRequest(q, u) /\ Between(screen'[u], columns'[u], ledger[u])
  BY InProgress
<1>5. node' \in [User -> {"off", "check_statement", "transactions"}] /\ Only(u)
  BY <1>2, <1>3 DEF Only
<1>6. node'[u] # "off" => Complete(columns'[u])
  BY <1>2, <1>3
<1> HIDE DEF u
<1>7. req[q].user = u
  BY DEF u
<1> QED BY <1>1, <1>2, <1>3, <1>4, <1>5, <1>6, <1>7, StepOrdered

\* A request that goes on, and stores and shows nothing.
LEMMA GoesOnOrdered ==
  ASSUME Inv, Ordered, NEW q \in Request, NEW r \in Progress,
         req[q].pc \notin {"idle", "put"}, r.pc # "idle", r.user = req[q].user,
         req' = [req EXCEPT ![q] = r], UNCHANGED <<ledger, columns, node, screen>>,
         Advanced(r, columns[r.user], node[r.user], ledger[r.user])
  PROVE  Ordered'
<1> DEFINE u == req[q].user
<1>1. u \in User /\ OnlyRequest(q, u) /\ Between(screen'[u], columns'[u], ledger[u])
  BY InProgress
<1>2. node' \in [User -> {"off", "check_statement", "transactions"}] /\ Only(u)
  BY DEF Ordered, Only
<1>3. node'[u] # "off" => Complete(columns'[u])
  BY InProgress
<1>4. Advanced(r, columns'[u], node'[u], ledger[u])
  OBVIOUS
<1> HIDE DEF u
<1>5. req[q].user = u /\ r.user = u
  BY DEF u
<1> QED BY <1>1, <1>2, <1>3, <1>4, <1>5, StepOrdered

-----------------------------------------------------------------------------
LEMMA BeginOrdered ==
  ASSUME Inv, Ordered, NEW q \in Request, NEW u \in User,
         NEW job \in {"check", "read"}, Begin(q, u, job)
  PROVE  Ordered'
<1> DEFINE r == [Idle EXCEPT !.user = u, !.job = job, !.pc = "session"]
<1>1. r \in Progress /\ r.pc = "session" /\ r.user = u /\ r.job = job
  BY IdleInProgress DEF Idle, Blank, Progress
<1>2. /\ req[q].pc = "idle" /\ req' = [req EXCEPT ![q] = r]
      /\ UNCHANGED <<ledger, columns, node, screen>>
      /\ \A p \in Request : req[p].user # u
      /\ job = "read" => node[u] # "off"
  BY DEF Begin, At, Waiting
<1>3. Advanced(r, columns'[u], node'[u], ledger[u])
  BY <1>1, <1>2 DEF Advanced
<1>4. ~Putting(u)
  BY <1>2 DEF Putting
<1>5. Between(screen'[u], columns'[u], ledger[u])
  BY <1>2 DEF Ordered
<1>6. node'[u] # "off" => Complete(columns'[u])
  BY <1>2, <1>4 DEF Ordered, Settled
<1>7. node' \in [User -> {"off", "check_statement", "transactions"}]
  BY <1>2 DEF Ordered
<1>8. OnlyRequest(q, u) /\ Only(u)
  BY <1>2 DEF OnlyRequest, Only
<1> HIDE DEF r
<1> QED BY <1>1, <1>2, <1>3, <1>5, <1>6, <1>7, <1>8, StepOrdered

LEMMA SetSessionOrdered ==
  ASSUME Inv, Ordered, NEW q \in Request, SetSession(q)
  PROVE  Ordered'
<1> DEFINE r == [req[q] EXCEPT !.pc = "key"]
<1>1. req[q].pc = "session" /\ req[q] \in Progress
  BY InProgress DEF SetSession, At
<1>2. r \in Progress /\ r.pc = "key" /\ r.user = req[q].user /\ r.job = req[q].job
  BY <1>1 DEF Progress
<1>3. Advanced(r, columns[r.user], node[r.user], ledger[r.user])
  BY <1>1, <1>2, InProgress DEF Advanced
<1> QED BY <1>1, <1>2, <1>3, GoesOnOrdered DEF SetSession

LEMMA GetKeyOrdered ==
  ASSUME Inv, Ordered, NEW q \in Request, GetKey(q)
  PROVE  Ordered'
<1>1. /\ req[q].pc = "key" /\ req[q] \in Progress /\ Session(q) = req[q].user
      /\ req[q].user \in User /\ (req[q].job = "read" => node[req[q].user] # "off")
  BY InProgress DEF GetKey, At, Advanced, Faithful
<1>2. CASE req[q].job = "check"
  <2> DEFINE r == [req[q] EXCEPT !.key = Session(q), !.pc = "fetch"]
  <2>1. r \in Progress /\ r.pc = "fetch" /\ r.user = req[q].user /\ r.job = "check"
    BY <1>1, <1>2 DEF Progress
  <2>2. Advanced(r, columns[r.user], node[r.user], ledger[r.user])
    BY <2>1 DEF Advanced
  <2> QED BY <1>1, <1>2, <2>1, <2>2, GoesOnOrdered DEF GetKey
<1>3. CASE req[q].job # "check"
  <2> DEFINE r == [req[q] EXCEPT !.key = Session(q), !.pc = "get", !.todo = Column]
  <2>1. /\ r \in Progress /\ r.pc = "get" /\ r.user = req[q].user
        /\ r.job = "read" /\ r.todo = Column
    BY <1>1, <1>3 DEF Progress
  <2>2. Advanced(r, columns[r.user], node[r.user], ledger[r.user])
    BY <1>1, <2>1 DEF Advanced
  <2> QED BY <1>1, <1>3, <2>1, <2>2, GoesOnOrdered DEF GetKey
<1> QED BY <1>2, <1>3

LEMMA FetchOrdered ==
  ASSUME Inv, Ordered, NEW q \in Request, FetchTransactions(q)
  PROVE  Ordered'
<1>1. /\ req[q].pc = "fetch" /\ req[q] \in Progress /\ req[q].user \in User
      /\ req[q].key = req[q].user /\ req[q].job = "check"
  BY InProgress DEF FetchTransactions, At, Advanced, Faithful
<1>2. CASE Answer(q, "off")
  BY <1>1, <1>2, AnswerOrdered DEF FetchTransactions
<1>3. CASE ~Answer(q, "off")
  <2> DEFINE u == req[q].user
  <2> DEFINE f == [of |-> u, n |-> ledger[u]]
  <2> DEFINE r == [req[q] EXCEPT !.pc = "put", !.todo = Column, !.fetch = f]
  <2>1. ledger[u] > 0 /\ req' = [req EXCEPT ![q] = r]
    BY <1>1, <1>3 DEF FetchTransactions
  <2>2. ledger[u] \in 1 .. MaxTransfers
    BY <1>1, <2>1, BoundAssumption DEF Inv, Entries
  <2>3. f \in Fetch /\ f.n = ledger[u]
    BY <1>1, <2>2 DEF Fetch
  <2>4. /\ r \in Progress /\ r.pc = "put" /\ r.user = u /\ r.job = "check"
        /\ r.todo = Column /\ r.fetch = f
    BY <1>1, <2>3 DEF Progress
  <2>5. \A c \in Column : columns[u][c] # None => columns[u][c].n <= ledger[u]
    BY <1>1, InProgress DEF Between
  <2>6. Advanced(r, columns[r.user], node[r.user], ledger[r.user])
    BY <2>2, <2>3, <2>4, <2>5 DEF Advanced
  <2> HIDE DEF f, r, u
  <2> QED BY <1>1, <1>3, <2>1, <2>4, <2>6, GoesOnOrdered DEF FetchTransactions, u
<1> QED BY <1>2, <1>3

LEMMA PutOrdered ==
  ASSUME Inv, Ordered, NEW q \in Request, NEW c \in Column, Put(q, c)
  PROVE  Ordered'
<1> DEFINE u == req[q].user
<1> DEFINE w == [columns[u] EXCEPT ![c] = req[q].fetch]
<1> DEFINE f == req[q].fetch
<1>1. /\ req[q].pc = "put" /\ req[q] \in Progress /\ u \in User /\ Session(q) = u
      /\ f \in Fetch /\ c \in req[q].todo
  BY InProgress DEF Put, At, Faithful
<1>2. columns[u] \in [Column -> Fetch \cup {None}]
  BY <1>1 DEF Inv, Entries
<1>3. columns'[u] = w /\ \A v \in User \ {u} : columns'[v] = columns[v]
  BY <1>1 DEF Put, Inv, Entries
<1>4. \A d \in Column : w[d] = IF d = c THEN f ELSE columns[u][d]
  BY <1>2
<1>5. /\ f.n <= ledger[u] /\ req[q].job = "check"
      /\ \A d \in Column \ req[q].todo : columns[u][d] = f
      /\ \A d \in Column : columns[u][d] # None => columns[u][d].n <= f.n
  BY <1>1, InProgress DEF Advanced
<1>6. Between(screen[u], columns[u], ledger[u])
  BY <1>1, InProgress
<1> HIDE DEF w, f, u
<1>7. \A d \in Column : w[d] # None => w[d].n <= ledger[u]
  BY <1>4, <1>5, <1>6 DEF Between
<1>8. ASSUME screen[u] # None
      PROVE  \A d \in Column : w[d] \in Fetch /\ screen[u].got[d].n <= w[d].n
  <2> TAKE d \in Column
  <2>1. /\ columns[u][d] \in Fetch /\ screen[u].got[d].n <= columns[u][d].n
        /\ screen[u].got[d] \in Fetch
    BY <1>6, <1>8 DEF Between, Complete
  <2>2. columns[u][d].n <= f.n
    BY <1>5, <2>1, FetchIsShown
  <2>3. screen[u].got[d].n <= f.n
    <3>1. screen[u].got[d].n \in Nat /\ columns[u][d].n \in Nat /\ f.n \in Nat
      BY <1>1, <2>1, FetchIsShown, BoundAssumption
    <3> QED BY <2>1, <2>2, <3>1
  <2> QED BY <1>1, <1>4, <2>1, <2>3
<1>9. Between(screen[u], w, ledger[u])
  BY <1>6, <1>7, <1>8 DEF Between
<1>10. UNCHANGED <<ledger, screen>>
  BY DEF Put
<1>11. OnlyRequest(q, u) /\ req[q].user = u
  BY <1>1, InProgress DEF u
<1>12. node \in [User -> {"off", "check_statement", "transactions"}]
  BY DEF Ordered
<1>13. CASE req[q].todo = {c}
  <2>1. Complete(w)
    BY <1>1, <1>4, <1>5, <1>13, ColumnAssumption DEF Complete
  <2>2. /\ node' = [node EXCEPT ![u] = "check_statement"]
        /\ req' = [req EXCEPT ![q] = Idle]
    BY <1>13 DEF Put, Answer, u
  <2>3. Idle \in Progress /\ Idle.pc = "idle"
    BY IdleInProgress DEF Idle
  <2>4. node' \in [User -> {"off", "check_statement", "transactions"}] /\ Only(u)
    BY <1>3, <1>10, <1>12, <2>2 DEF Only
  <2>5. Complete(columns'[u]) /\ Between(screen'[u], columns'[u], ledger[u])
    BY <1>3, <1>9, <1>10, <2>1
  <2> QED BY <1>1, <1>10, <1>11, <2>2, <2>3, <2>4, <2>5, StepOrdered
<1>14. CASE req[q].todo # {c}
  <2> DEFINE r == [req[q] EXCEPT !.todo = @ \ {c}]
  <2>1. req' = [req EXCEPT ![q] = r] /\ node' = node
    BY <1>14 DEF Put
  <2>2. /\ r \in Progress /\ r.pc = "put" /\ r.user = u /\ r.job = "check" /\ r.fetch = f
        /\ r.todo = req[q].todo \ {c}
    BY <1>1, <1>5 DEF Progress, u, f
  <2> HIDE DEF r
  <2>3. \A d \in Column \ r.todo : w[d] = f
    BY <1>4, <1>5, <2>2
  <2>4. \A d \in Column : w[d] # None => w[d].n <= f.n
    <3>1. f.n \in Nat
      BY <1>1, FetchIsShown, BoundAssumption
    <3> QED BY <1>4, <1>5, <3>1
  <2>5. Advanced(r, w, node[u], ledger[u])
    BY <1>5, <2>2, <2>3, <2>4 DEF Advanced
  <2>6. node' \in [User -> {"off", "check_statement", "transactions"}] /\ Only(u)
    BY <1>3, <1>10, <1>12, <2>1 DEF Only
  <2>7. /\ Advanced(r, columns'[u], node'[u], ledger[u])
        /\ Between(screen'[u], columns'[u], ledger[u])
    BY <1>3, <1>9, <1>10, <2>1, <2>5
  <2> QED BY <1>1, <1>10, <1>11, <2>1, <2>2, <2>6, <2>7, StepOrdered
<1> QED BY <1>13, <1>14

LEMMA PutFailsOrdered ==
  ASSUME Inv, Ordered, NEW q \in Request, PutFails(q)
  PROVE  Ordered'
BY AnswerOrdered DEF PutFails, At

LEMMA GetOrdered ==
  ASSUME Inv, Ordered, NEW q \in Request, NEW c \in Column, Get(q, c)
  PROVE  Ordered'
<1>1. /\ req[q].pc = "get" /\ req[q] \in Progress /\ req[q].user \in User
      /\ Session(q) = req[q].user /\ c \in req[q].todo
  BY InProgress DEF Get, At, Faithful
<1>2. CASE columns[Session(q)][c] = None
  BY <1>1, <1>2, AnswerOrdered DEF Get
<1>3. CASE columns[Session(q)][c] # None
  <2> DEFINE u == req[q].user
  <2> DEFINE f == columns[u][c]
  <2> DEFINE r == [req[q] EXCEPT !.todo = @ \ {c}, !.got[c] = f]
  <2>1. req' = [req EXCEPT ![q] = r]
    BY <1>1, <1>3 DEF Get
  <2>2. f \in Fetch
    BY <1>1, <1>3 DEF Inv, Entries
  <2>3. r \in Progress
    BY <1>1, <2>2 DEF Progress
  <2>4. /\ r.pc = "get" /\ r.user = u /\ r.job = req[q].job
        /\ r.todo = req[q].todo \ {c} /\ r.got = [req[q].got EXCEPT ![c] = f]
        /\ req[q].got \in [Column -> Fetch \cup {None}]
    BY <1>1 DEF Progress
  <2>5. \A d \in Column \ req[q].todo : req[q].got[d] = columns[u][d]
    BY <1>1, InProgress DEF Advanced
  <2>6. req[q].job = "read" /\ node[u] # "off"
    BY <1>1, InProgress DEF Advanced
  <2> HIDE DEF r, u
  <2>7. \A d \in Column \ r.todo : r.got[d] = columns[u][d]
    BY <1>1, <2>4, <2>5
  <2>8. Advanced(r, columns[r.user], node[r.user], ledger[r.user])
    BY <2>4, <2>6, <2>7 DEF Advanced
  <2> QED BY <1>1, <1>3, <2>1, <2>3, <2>4, <2>8, GoesOnOrdered DEF Get, u
<1> QED BY <1>2, <1>3

\* What is shown is what is stored, all of it of one fetch.
LEMMA ShowsStored ==
  ASSUME Inv, Ordered, NEW q \in Request, Show(q)
  PROVE  /\ req[q].pc = "get" /\ req[q].user \in User /\ req[q].key = req[q].user
         /\ node[req[q].user] # "off"
         /\ req[q].got = columns[req[q].user]
         /\ req[q].got \in [Column -> Fetch] /\ Complete(req[q].got)
<1>1. /\ req[q].pc = "get" /\ req[q] \in Progress /\ req[q].user \in User
      /\ req[q].key = req[q].user /\ req[q].todo = {}
  BY InProgress DEF Show, At, Faithful
<1>2. req[q].got \in [Column -> Fetch \cup {None}]
  BY <1>1 DEF Progress
<1>3. columns[req[q].user] \in [Column -> Fetch \cup {None}]
  BY <1>1 DEF Inv, Entries
<1>4. node[req[q].user] # "off" /\ \A c \in Column : req[q].got[c] = columns[req[q].user][c]
  BY <1>1, InProgress DEF Advanced
<1>5. req[q].got = columns[req[q].user]
  BY <1>2, <1>3, <1>4
<1>6. Complete(columns[req[q].user])
  BY <1>1, <1>4, InProgress
<1>7. req[q].got \in [Column -> Fetch]
  BY <1>2, <1>5, <1>6 DEF Complete
<1> QED BY <1>1, <1>4, <1>5, <1>6, <1>7

LEMMA ShowOrdered ==
  ASSUME Inv, Ordered, NEW q \in Request, Show(q)
  PROVE  Ordered'
<1>1. /\ req[q].pc = "get" /\ req[q].user \in User /\ req[q].key = req[q].user
      /\ req[q].got = columns[req[q].user]
      /\ req[q].got \in [Column -> Fetch] /\ Complete(req[q].got)
  BY ShowsStored
<1>2. CASE Shorter(req[q].got)
  BY <1>1, <1>2, AnswerOrdered DEF Show
<1>3. CASE ~Shorter(req[q].got)
  <2> DEFINE u == req[q].user
  <2> DEFINE s == [key |-> req[q].key, got |-> req[q].got]
  <2>1. /\ screen' = [screen EXCEPT ![u] = s] /\ req' = [req EXCEPT ![q] = Idle]
        /\ node' = [node EXCEPT ![u] = "transactions"] /\ UNCHANGED <<ledger, columns>>
    BY <1>3 DEF Show, Answer
  <2>2. s \in Statement /\ s.got = columns[u]
    BY <1>1 DEF Statement
  <2>3. \A c \in Column : columns[u][c] \in Fetch /\ columns[u][c].n <= columns[u][c].n
    <3> TAKE c \in Column
    <3>1. columns[u][c] \in Fetch
      BY <1>1
    <3>2. columns[u][c].n \in Nat
      BY <3>1, FetchIsShown, BoundAssumption
    <3> QED BY <3>1, <3>2
  <2>4. \A c \in Column : columns[u][c] # None => columns[u][c].n <= ledger[u]
    BY <1>1, InProgress DEF Between
  <2> HIDE DEF s, u
  <2>5. Between(s, columns[u], ledger[u])
    BY <1>1, <2>2, <2>3, <2>4 DEF Between, u
  <2>6. Idle \in Progress /\ Idle.pc = "idle"
    BY IdleInProgress DEF Idle
  <2>7. OnlyRequest(q, u)
    BY <1>1, InProgress DEF u
  <2>8. screen'[u] = s /\ \A v \in User \ {u} : screen'[v] = screen[v]
    BY <1>1, <2>1 DEF Inv, Entries, u
  <2>9. /\ node' \in [User -> {"off", "check_statement", "transactions"}]
        /\ \A v \in User \ {u} : node'[v] = node[v]
    BY <1>1, <2>1 DEF Ordered, u
  <2>10. Complete(columns'[u]) /\ u \in User /\ req[q].user = u
    BY <1>1, <2>1 DEF u
  <2>11. Only(u) /\ Between(screen'[u], columns'[u], ledger[u]) /\ ledger' = ledger
    BY <2>1, <2>5, <2>8, <2>9 DEF Only
  <2>12. req' = [req EXCEPT ![q] = Idle]
         /\ node' \in [User -> {"off", "check_statement", "transactions"}]
    BY <2>1, <2>9
  <2> QED BY <2>6, <2>7, <2>10, <2>11, <2>12, StepOrdered
<1> QED BY <1>2, <1>3

LEMMA UserOrdered ==
  ASSUME Inv, Ordered, NEW u \in User, Transact(u) \/ Leave(u)
  PROVE  Ordered'
<1>1. req' = req /\ columns' = columns /\ screen' = screen
  BY DEF Transact, Leave
<1>2. OnePerUser' /\ \A v \in User : Putting(v)' = Putting(v)
  BY <1>1 DEF Ordered, OnePerUser, Putting
<1>3. \A q \in Request : req[q].pc # "idle" => req[q].user \in User
  BY DEF Inv, Requests, Faithful
<1>4. CASE Transact(u)
  <2>1. node' = node /\ \A v \in User : ledger'[v] \in Nat /\ ledger[v] \in Nat
                                        /\ ledger[v] <= ledger'[v]
    BY <1>4, BoundAssumption DEF Inv, Entries, Transact
  <2>2. \A v \in User : Settled(v)'
    BY <1>1, <1>2, <2>1 DEF Ordered, Settled
  <2>3. ASSUME NEW v \in User PROVE Between(screen[v], columns[v], ledger'[v])
    <3>1. Between(screen[v], columns[v], ledger[v])
      BY DEF Ordered
    <3>2. ASSUME NEW c \in Column, columns[v][c] # None PROVE columns[v][c].n <= ledger'[v]
      <4>1. columns[v][c] \in Fetch
        BY <3>2 DEF Inv, Entries
      <4>2. columns[v][c].n \in Nat /\ columns[v][c].n <= ledger[v]
        BY <3>1, <3>2, <4>1, FetchIsShown, BoundAssumption DEF Between
      <4> QED BY <2>1, <4>2
    <3> QED BY <3>1, <3>2 DEF Between
  <2>4. ASSUME NEW q \in Request, req[q].pc # "idle"
        PROVE  Advanced(req[q], columns[req[q].user], node[req[q].user], ledger'[req[q].user])
    <3>1. /\ Advanced(req[q], columns[req[q].user], node[req[q].user], ledger[req[q].user])
          /\ Faithful(req[q], Session(q)) /\ req[q].user \in User
      BY <2>4, InProgress
    <3>2. req[q].pc = "put" => req[q].fetch.n <= ledger'[req[q].user]
      <4> SUFFICES ASSUME req[q].pc = "put" PROVE req[q].fetch.n <= ledger'[req[q].user]
        OBVIOUS
      <4>1. req[q].fetch \in Fetch /\ req[q].fetch.n <= ledger[req[q].user]
        BY <3>1 DEF Advanced, Faithful
      <4>2. req[q].fetch.n \in Nat
        BY <4>1, FetchIsShown, BoundAssumption
      <4> QED BY <2>1, <3>1, <4>1, <4>2
    <3> QED BY <3>1, <3>2 DEF Advanced
  <2>5. node' \in [User -> {"off", "check_statement", "transactions"}]
    BY <2>1 DEF Ordered
  <2>6. \A q \in Request : req'[q].pc # "idle" =>
          Advanced(req'[q], columns'[req'[q].user], node'[req'[q].user], ledger'[req'[q].user])
    BY <1>1, <2>1, <2>4
  <2>7. \A v \in User : Between(screen'[v], columns'[v], ledger'[v])
    BY <1>1, <2>3
  <2> QED BY <1>2, <2>2, <2>5, <2>6, <2>7 DEF Ordered, Advanced, Between
<1>5. CASE Leave(u)
  <2>1. /\ node' = [node EXCEPT ![u] = "off"] /\ ledger' = ledger
        /\ \A q \in Request : req[q].user # u
    BY <1>5 DEF Leave, Waiting
  <2>2. \A v \in User : node'[v] = IF v = u THEN "off" ELSE node[v]
    BY <2>1 DEF Ordered
  <2>3. \A v \in User : Settled(v)'
    BY <1>1, <1>2, <2>2 DEF Ordered, Settled
  <2>4. \A q \in Request : req'[q].pc # "idle" =>
          Advanced(req'[q], columns'[req'[q].user], node'[req'[q].user], ledger'[req'[q].user])
    BY <1>1, <1>3, <2>1, <2>2 DEF Ordered
  <2>5. \A v \in User : Between(screen'[v], columns'[v], ledger'[v])
    BY <1>1, <2>1 DEF Ordered
  <2>6. node' \in [User -> {"off", "check_statement", "transactions"}]
    BY <2>1 DEF Ordered
  <2> QED BY <1>2, <2>3, <2>4, <2>5, <2>6 DEF Ordered, Advanced, Between
<1> QED BY <1>4, <1>5

-----------------------------------------------------------------------------
LEMMA NextOrdered ==
  ASSUME Inv, Ordered, [Next]_vars
  PROVE  Ordered'
<1>1. CASE \E u \in User : Transact(u) \/ Leave(u)
  BY <1>1, UserOrdered
<1>2. ASSUME NEW q \in Request,
             \/ SetSession(q) \/ GetKey(q) \/ FetchTransactions(q)
             \/ PutFails(q) \/ Show(q)
      PROVE  Ordered'
  BY <1>2, SetSessionOrdered, GetKeyOrdered, FetchOrdered, PutFailsOrdered, ShowOrdered
<1>3. ASSUME NEW q \in Request, NEW u \in User, NEW job \in {"check", "read"},
             Begin(q, u, job)
      PROVE  Ordered'
  BY <1>3, BeginOrdered
<1>4. ASSUME NEW q \in Request, NEW c \in Column, Put(q, c) \/ Get(q, c)
      PROVE  Ordered'
  BY <1>4, PutOrdered, GetOrdered
<1>5. CASE UNCHANGED vars
  BY <1>5 DEF vars, Ordered, OnePerUser, Advanced, Between, Settled, Putting
<1> QED BY <1>1, <1>2, <1>3, <1>4, <1>5 DEF Next

LEMMA InvAlways == Exclusive => (Spec => [](Inv /\ Ordered))
<1> SUFFICES ASSUME Exclusive PROVE Spec => [](Inv /\ Ordered)
  OBVIOUS
<1>1. Init => Inv /\ Ordered
  BY InitEstablishesInv, InitOrdered
<1>2. Inv /\ Ordered /\ [Next]_vars => (Inv /\ Ordered)'
  BY NextKeepsInv, NextOrdered
<1> QED BY <1>1, <1>2, PTL DEF Spec

\* Every variable has its type: in particular every column of a statement that
\* was shown holds transactions, and no column is missing.
THEOREM TypeAlways == Exclusive => (Spec => []TypeOK)
<1> SUFFICES ASSUME Exclusive PROVE Spec => []TypeOK
  OBVIOUS
<1>1. Inv /\ Ordered => TypeOK
  <2> SUFFICES ASSUME Inv, Ordered PROVE TypeOK
    OBVIOUS
  <2>1. \A u \in User : screen[u] \in Statement \cup {None}
    BY DEF Ordered, Between
  <2>3. screen = [u \in User |-> screen[u]]
    BY DEF Inv, Entries
  <2>2. screen \in [User -> Statement \cup {None}]
    BY <2>1, <2>3
  <2> QED BY <2>2 DEF Inv, Requests, Entries, Ordered, TypeOK
<1> QED BY <1>1, InvAlways, PTL

\* What a request has read is of one fetch, though another request may have put
\* the columns one by one in any order, and failed half way: a user waits for
\* the answer of the one before he sends the other, and a session whose columns
\* are a mixture has no statement to go on from.
THEOREM AgreeAlways == Exclusive => (Spec => []ColumnsAgree)
<1> SUFFICES ASSUME Exclusive PROVE Spec => []ColumnsAgree
  OBVIOUS
<1>1. Inv /\ Ordered => ColumnsAgree
  <2> SUFFICES ASSUME Inv, Ordered, NEW q \in Request, At(q, "get"),
                      NEW c \in Column \ req[q].todo, NEW d \in Column \ req[q].todo
               PROVE  req[q].got[c] = req[q].got[d]
    BY DEF ColumnsAgree
  <2>1. /\ req[q].job = "read" /\ node[req[q].user] # "off"
        /\ \A e \in Column \ req[q].todo : req[q].got[e] = columns[req[q].user][e]
    BY InProgress DEF At, Advanced
  <2>2. Complete(columns[req[q].user])
    BY <2>1, InProgress DEF At
  <2> QED BY <2>1, <2>2 DEF Complete
<1> QED BY <1>1, InvAlways, PTL

-----------------------------------------------------------------------------
(* The promise of the menu: each step is one of StatementService's. *)

LEMMA SeenIs ==
  ASSUME NEW u \in User, NEW w, NEW l, Between(screen[u], w, l), Shown
  PROVE  /\ screen[u] = None => Seen(u) = 0
         /\ screen[u] # None => Seen(u) = screen[u].got[Senders].n
<1>1. CASE screen[u] = None
  BY <1>1 DEF Seen
<1>2. CASE screen[u] # None
  <2>1. \A c \in Column : screen[u].got[c] \in Fetch /\ screen[u].got[c] = screen[u].got[Senders]
    BY <1>2 DEF Between, Complete
  <2>2. \A c \in Column : screen[u].got[c] = [of |-> u, n |-> screen[u].got[Senders].n]
    BY <1>2, <2>1, FetchIsShown DEF Shown
  <2> QED BY <1>2, <2>2 DEF Seen
<1> QED BY <1>1, <1>2

LEMMA ShowLooks ==
  ASSUME Inv, Ordered, Inv', Ordered', NEW q \in Request, Show(q),
         NEW u \in User, u = req[q].user
  PROVE  Service!Look(u)
<1> DEFINE w == columns[u]
<1> DEFINE s == [key |-> req[q].key, got |-> w]
<1>1. req[q].got = w /\ w \in [Column -> Fetch] /\ Complete(w)
      /\ req[q].key = u
  BY ShowsStored
<1>2. ~Shorter(req[q].got)
  <2>1. \A c \in Column : ~(w[c].n < w[Senders].n)
    BY <1>1, FetchIsShown, ColumnAssumption, BoundAssumption DEF Complete
  <2> QED BY <1>1, <2>1 DEF Shorter
<1>3. screen' = [screen EXCEPT ![u] = s] /\ UNCHANGED <<ledger, columns>>
  BY <1>1, <1>2 DEF Show
<1>4. screen'[u] = s /\ \A v \in User \ {u} : screen'[v] = screen[v]
  BY <1>1, <1>3 DEF Inv, Entries
<1>5. s \in Statement /\ s # None
  BY <1>1, NoneAssumption DEF Statement
<1>6. Seen(u)' = w[Senders].n
  <2>1. Between(screen'[u], columns'[u], ledger'[u]) /\ Shown'
    BY <1>1 DEF Inv, Entries, Ordered
  <2>2. \A c \in Column : s.got[c] = [of |-> u, n |-> s.got[Senders].n]
    BY <1>1, <1>4, <1>5, <2>1, FetchIsShown DEF Complete, Shown
  <2>3. \A c \in Column : screen'[u].got[c] = [of |-> u, n |-> screen'[u].got[Senders].n]
    BY <1>4, <2>2
  <2>4. screen'[u] # None
    BY <1>4, <1>5
  <2>5. Seen(u)' = screen'[u].got[Senders].n
    BY <2>3, <2>4 DEF Seen
  <2> QED BY <1>4, <2>5
<1>7. Between(screen[u], w, ledger[u]) /\ Shown
  BY <1>1 DEF Inv, Entries, Ordered
<1>8. w[Senders].n \in Nat /\ w[Senders].n <= ledger[u] /\ ledger[u] \in Nat
  <2>1. w[Senders] \in Fetch /\ w[Senders] # None
    BY <1>1, ColumnAssumption, FetchIsShown
  <2> QED BY <1>1, <1>7, <2>1, FetchIsShown, ColumnAssumption, BoundAssumption
          DEF Between, Inv, Entries
<1>9. Seen(u) \in Nat /\ Seen(u) <= w[Senders].n
  <2>1. CASE screen[u] = None
    <3>1. Seen(u) = 0
      BY <2>1 DEF Seen
    <3> QED BY <1>8, <3>1
  <2>2. CASE screen[u] # None
    <3>1. Seen(u) = screen[u].got[Senders].n /\ screen[u].got[Senders] \in Fetch
          /\ screen[u].got[Senders].n <= w[Senders].n
      <4>1. Seen(u) = screen[u].got[Senders].n
        BY <1>7, <2>2, SeenIs
      <4>2. /\ screen[u].got[Senders] \in Fetch
            /\ screen[u].got[Senders].n <= w[Senders].n
        BY <1>7, <2>2, ColumnAssumption DEF Between, Complete
      <4> QED BY <4>1, <4>2
    <3> QED BY <3>1, FetchIsShown, BoundAssumption
  <2> QED BY <2>1, <2>2
<1>10. \A v \in User : Seen(v)' = IF v = u THEN w[Senders].n ELSE Seen(v)
  <2> TAKE v \in User
  <2>1. CASE v = u
    BY <1>6, <2>1
  <2>2. CASE v # u
    <3>1. screen'[v] = screen[v]
      BY <1>4, <2>2
    <3> QED BY <2>2, <3>1 DEF Seen
  <2> QED BY <2>1, <2>2
<1>11. [v \in User |-> Seen(v)]' = [[v \in User |-> Seen(v)] EXCEPT ![u] = w[Senders].n]
  BY <1>10
<1>12. w[Senders].n \in Seen(u) .. ledger[u]
  BY <1>8, <1>9
<1> QED BY <1>1, <1>3, <1>11, <1>12 DEF Service!Look

LEMMA NextServes ==
  ASSUME Inv, Ordered, Inv', Ordered', [Next]_vars
  PROVE  [Service!Next]_(Service!vars)
<1>1. ASSUME UNCHANGED <<ledger, screen>>
      PROVE  UNCHANGED Service!vars
  <2>1. \A u \in User : Seen(u)' = Seen(u)
    BY <1>1 DEF Seen
  <2> QED BY <1>1, <2>1 DEF Service!vars
<1>2. ASSUME NEW u \in User, Transact(u) PROVE Service!Next
  <2>1. \A v \in User : Seen(v)' = Seen(v)
    BY <1>2 DEF Transact, Seen
  <2>2. Service!Transact(u)
    BY <1>2, <2>1 DEF Transact, Service!Transact
  <2> QED BY <2>2 DEF Service!Next
<1>3. ASSUME NEW q \in Request, Show(q) PROVE Service!Next
  <2> DEFINE u == req[q].user
  <2>1. u \in User
    BY <1>3, ShowsStored
  <2>2. \A v \in User : v = u => Service!Look(v)
    BY <1>3, ShowLooks
  <2> QED BY <2>1, <2>2 DEF Service!Next
<1>4. ASSUME NEW u \in User, Leave(u) PROVE UNCHANGED Service!vars
  BY <1>1, <1>4 DEF Leave
<1>5. ASSUME NEW q \in Request,
             SetSession(q) \/ GetKey(q) \/ FetchTransactions(q) \/ PutFails(q)
      PROVE  UNCHANGED Service!vars
  BY <1>1, <1>5 DEF SetSession, GetKey, FetchTransactions, PutFails
<1>6. ASSUME NEW q \in Request, NEW u \in User, NEW job \in {"check", "read"},
             Begin(q, u, job)
      PROVE  UNCHANGED Service!vars
  BY <1>1, <1>6 DEF Begin
<1>7. ASSUME NEW q \in Request, NEW c \in Column, Put(q, c) \/ Get(q, c)
      PROVE  UNCHANGED Service!vars
  BY <1>1, <1>7 DEF Put, Get
<1>8. CASE UNCHANGED vars
  BY <1>1, <1>8 DEF vars
<1> QED BY <1>2, <1>3, <1>4, <1>5, <1>6, <1>7, <1>8 DEF Next

\* The handlers implement the promise of the menu: every step of theirs that a
\* user can see is a look at all of his transactions up to some moment, and not
\* at fewer than he saw before.
THEOREM Serves == Exclusive => (Spec => ServiceSpec)
<1> SUFFICES ASSUME Exclusive PROVE Spec => ServiceSpec
  OBVIOUS
<1>1. Init => Service!Init
  BY DEF Init, Service!Init, Seen
<1>2. Inv /\ Ordered /\ (Inv /\ Ordered)' /\ [Next]_vars => [Service!Next]_(Service!vars)
  BY NextServes
<1> QED BY <1>1, <1>2, InvAlways, PTL DEF Spec, ServiceSpec, Service!Spec
=============================================================================
