SPECIFICATION Spec
CONSTANTS
  alice = alice
  bob = bob
  p1 = p1
  p2 = p2
  User <- MCUser
  Admins <- MCAdmins
  PIN <- MCPIN
  NoPin = NoPin
  NoUser = NoUser
  AllowedPINAttempts = 3
  CounterModulus = 8
  Typed <- MCTyped
INVARIANT
  LockoutHolds
