----------------------------- MODULE Statements -----------------------------
(***************************************************************************)
(* The statement of a user's transactions, and the database object that    *)
(* its handlers use.  The object has a current session; ReadEntry sets it  *)
(* in one step and gets an entry in the next, and SubPrefixDb, where the   *)
(* columns of the statement are, sets none: it works on the session that   *)
(* ReadEntry left.  Requests run in goroutines, without a lock, on the     *)
(* database objects that the front end gives them.                         *)
(*                                                                         *)
(* A step is one call on the database object or to the service.  A user    *)
(* waits for the answer of a request before the next one: USSD is a        *)
(* dialogue.  When Exclusive, a database object serves one request at a    *)
(* time: so it is with an object per connection (ssh.go) or a single       *)
(* session (cmd/main.go, cmd/async), and not in the HTTP servers.          *)
(***************************************************************************)
EXTENDS Integers

CONSTANTS
  User,          \* session ids
  Request,       \* the goroutines that serve requests
  Db,            \* the database objects
  DbOf,          \* DbOf[q]: the database object that q works on
  Exclusive,     \* a database object serves one request at a time
  Column,        \* the columns of a statement: DATA_TX_SENDERS and so on
  Senders,       \* the column whose rows are counted
  MaxTransfers,  \* bound on the transactions of a user
  None           \* no session, no entry, nothing shown

ASSUME DbAssumption == DbOf \in [Request -> Db] /\ Exclusive \in BOOLEAN
ASSUME ColumnAssumption == Senders \in Column
ASSUME BoundAssumption == MaxTransfers \in Nat

\* What FetchTransactions answers: the n transactions of a user, if there are
\* any.  A column stands for the fetch it was made from.
Fetch == [of: User, n: 1 .. MaxTransfers]

\* A statement on a user's screen: the key it is for and its columns.
Statement == [key: User, got: [Column -> Fetch]]

ASSUME NoneAssumption == None \notin User \cup Fetch \cup Statement

\* A request in progress: whose it is, what it does next, the public key it
\* read (a user stands for his key), the fetch to store, the columns that are
\* left to put or to get, and those it got.
Progress == [user: User \cup {None},
             pc: {"idle", "session", "key", "fetch", "put", "get"},
             job: {"check", "read"}, key: User \cup {None},
             fetch: Fetch \cup {None}, todo: SUBSET Column,
             got: [Column -> Fetch \cup {None}]]

VARIABLES
  ledger,   \* ledger[u]: how many transactions of u there are
  session,  \* session[d]: the current session of the database object d
  columns,  \* columns[u][c]: the entry of u for column c
  node,     \* node[u]: the node the session halted on
  screen,   \* screen[u]: the statement u was shown last
  req       \* req[q]: the progress of q

vars == <<ledger, session, columns, node, screen, req>>

Blank == [c \in Column |-> None]
Idle == [user |-> None, pc |-> "idle", job |-> "check", key |-> None,
         fetch |-> None, todo |-> {}, got |-> Blank]

TypeOK ==
  /\ ledger \in [User -> 0 .. MaxTransfers]
  /\ session \in [Db -> User \cup {None}]
  /\ columns \in [User -> [Column -> Fetch \cup {None}]]
  /\ node \in [User -> {"off", "check_statement", "transactions"}]
  /\ screen \in [User -> Statement \cup {None}]
  /\ req \in [Request -> Progress]

Init ==
  /\ ledger = [u \in User |-> 0]
  /\ session = [d \in Db |-> None]
  /\ columns = [u \in User |-> Blank]
  /\ node = [u \in User |-> "off"]
  /\ screen = [u \in User |-> None]
  /\ req = [q \in Request |-> Idle]

-----------------------------------------------------------------------------
Waiting(u) == \E q \in Request : req[q].user = u
InUse(d) == \E q \in Request : DbOf[q] = d /\ req[q].pc # "idle"
Session(q) == session[DbOf[q]]
At(q, pc) == req[q].pc = pc

\* The answer to request q: its user's session halts on node n, or is over.
Answer(q, n) ==
  /\ req' = [req EXCEPT ![q] = Idle]
  /\ node' = [node EXCEPT ![req[q].user] = n]

\* A transaction of u, made somewhere else.
Transact(u) ==
  /\ ledger[u] < MaxTransfers
  /\ ledger' = [ledger EXCEPT ![u] = @ + 1]
  /\ UNCHANGED <<session, columns, node, screen, req>>

\* The user leaves the statement menu, with a key or by dialling again.
Leave(u) ==
  /\ ~Waiting(u) /\ node[u] # "off"
  /\ node' = [node EXCEPT ![u] = "off"]
  /\ UNCHANGED <<ledger, session, columns, screen, req>>

\* A faulty variant (here and below) only serves to see a property fail.
BeginInUse(q, u, job) ==
  /\ At(q, "idle") /\ ~Waiting(u)
  /\ job = "read" => node[u] # "off"
  /\ req' = [req EXCEPT ![q] = [Idle EXCEPT !.user = u, !.job = job, !.pc = "session"]]
  /\ UNCHANGED <<ledger, session, columns, node, screen>>

\* A request of u.  "check" enters check_statement, from the account menu or
\* again after a wrong PIN; "read" goes on to the list, or to a single
\* transaction, which are read in the same way.
Begin(q, u, job) ==
  /\ At(q, "idle") /\ ~Waiting(u)
  /\ Exclusive => ~InUse(DbOf[q])
  /\ job = "read" => node[u] # "off"
  /\ req' = [req EXCEPT ![q] = [Idle EXCEPT !.user = u, !.job = job, !.pc = "session"]]
  /\ UNCHANGED <<ledger, session, columns, node, screen>>

SetSessionOnCheck(q) ==
  /\ At(q, "session")
  /\ session' = IF req[q].job = "read" /\ Session(q) # None THEN session
                ELSE [session EXCEPT ![DbOf[q]] = req[q].user]
  /\ req' = [req EXCEPT ![q].pc = "key"]
  /\ UNCHANGED <<ledger, columns, node, screen>>

\* ReadEntry of the public key, first half and second half.
SetSession(q) ==
  /\ At(q, "session")
  /\ session' = [session EXCEPT ![DbOf[q]] = req[q].user]
  /\ req' = [req EXCEPT ![q].pc = "key"]
  /\ UNCHANGED <<ledger, columns, node, screen>>

GetKey(q) ==
  /\ At(q, "key")
  /\ req' = IF req[q].job = "check"
            THEN [req EXCEPT ![q].key = Session(q), ![q].pc = "fetch"]
            ELSE [req EXCEPT ![q].key = Session(q), ![q].pc = "get", ![q].todo = Column]
  /\ UNCHANGED <<ledger, session, columns, node, screen>>

FetchTransactionsOrNone(q) ==
  /\ At(q, "fetch")
  /\ req' = [req EXCEPT ![q].pc = "put", ![q].todo = Column,
                        ![q].fetch = [of |-> req[q].key, n |-> ledger[req[q].key]]]
  /\ UNCHANGED <<ledger, session, columns, node, screen>>

\* FetchTransactions, with the key that was read.  Nothing is stored when there
\* are no transactions (the script goes to no_transfers) or the service fails.
FetchTransactions(q) ==
  /\ At(q, "fetch")
  /\ \/ Answer(q, "off")
     \/ /\ ledger[req[q].key] > 0
        /\ req' = [req EXCEPT ![q].pc = "put", ![q].todo = Column,
                              ![q].fetch = [of |-> req[q].key, n |-> ledger[req[q].key]]]
        /\ UNCHANGED node
  /\ UNCHANGED <<ledger, session, columns, screen>>

\* One column, in the order of a Go map.
Put(q, c) ==
  /\ At(q, "put") /\ c \in req[q].todo
  /\ columns' = [columns EXCEPT ![Session(q)][c] = req[q].fetch]
  /\ IF req[q].todo = {c} THEN Answer(q, "check_statement")
     ELSE req' = [req EXCEPT ![q].todo = @ \ {c}] /\ UNCHANGED node
  /\ UNCHANGED <<ledger, session, screen>>

PutIsLogged(q) ==
  /\ At(q, "put")
  /\ Answer(q, "check_statement")
  /\ UNCHANGED <<ledger, session, columns, screen>>

\* A Put that fails ends the session.  The columns put before stay.
PutFails(q) ==
  /\ At(q, "put")
  /\ Answer(q, "off")
  /\ UNCHANGED <<ledger, session, columns, screen>>

\* A column that is not there ends the session.
Get(q, c) ==
  /\ At(q, "get") /\ c \in req[q].todo
  /\ IF columns[Session(q)][c] = None THEN Answer(q, "off")
     ELSE /\ req' = [req EXCEPT ![q].todo = @ \ {c},
                                ![q].got[c] = columns[Session(q)][c]]
          /\ UNCHANGED node
  /\ UNCHANGED <<ledger, session, columns, screen>>

\* A row for each sender.  A shorter column is indexed past its end: the
\* goroutine panics, and so does nothing more.
Shorter(got) == \E c \in Column : got[c].n < got[Senders].n

Show(q) ==
  /\ At(q, "get") /\ req[q].todo = {}
  /\ IF Shorter(req[q].got) THEN Answer(q, "off") /\ UNCHANGED screen
     ELSE /\ Answer(q, "transactions")
          /\ screen' = [screen EXCEPT ![req[q].user] =
                          [key |-> req[q].key, got |-> req[q].got]]
  /\ UNCHANGED <<ledger, session, columns>>

Next ==
  \/ \E u \in User : Transact(u) \/ Leave(u)
  \/ \E q \in Request :
       \/ SetSession(q) \/ GetKey(q) \/ FetchTransactions(q)
       \/ PutFails(q) \/ Show(q)
       \/ \E u \in User, job \in {"check", "read"} : Begin(q, u, job)
       \/ \E c \in Column : Put(q, c) \/ Get(q, c)

Spec == Init /\ [][Next]_vars

-----------------------------------------------------------------------------
(* Properties *)

\* What is stored and shown for a user is his own, although neither the
\* handlers nor SubPrefixDb name the session when they put and get.
OwnStatement ==
  \A u \in User :
    /\ \A c \in Column : columns[u][c] # None => columns[u][c].of = u
    /\ screen[u] # None =>
         screen[u].key = u /\ \A c \in Column : screen[u].got[c].of = u

\* The columns that a request has read are of one fetch, although they are
\* written one by one, in any order, and a write may fail: so the list is never
\* indexed past the end of a column.
ColumnsAgree ==
  \A q \in Request : At(q, "get") =>
    \A c, d \in Column \ req[q].todo : req[q].got[c] = req[q].got[d]

\* How many transactions the statement on u's screen has, if it is his own and
\* its columns agree.
Seen(u) ==
  IF screen[u] = None THEN 0
  ELSE IF \A c \in Column : screen[u].got[c] = [of |-> u, n |-> screen[u].got[Senders].n]
  THEN screen[u].got[Senders].n ELSE -1

Service == INSTANCE StatementService WITH seen <- [u \in User |-> Seen(u)]

\* The handlers keep the promise of the menu.
ServiceSpec == Service!Spec

\* transactions.go:14, CheckTransactions "retrieves the transactions from the API
\* using the PublicKey and stores to prefixDb": what is stored for a user are
\* the transactions of his key.
StoredForItsKey ==
  \A u \in User, c \in Column : columns[u][c] # None => columns[u][c].of = u
=============================================================================
