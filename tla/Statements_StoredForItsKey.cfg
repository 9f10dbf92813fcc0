SPECIFICATION Spec
CONSTANTS
  alice = alice
  bob = bob
  q1 = q1
  q2 = q2
  q3 = q3
  d1 = d1
  d2 = d2
  senders = senders
  values = values
  User <- MCUser
  Request <- MCRequest
  Db <- MCDb
  DbOf <- MCDbOf
  Exclusive = FALSE
  Column <- MCColumn
  Senders = senders
  MaxTransfers = 2
  None = None
INVARIANTS
  StoredForItsKey
