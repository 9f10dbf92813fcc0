CONSTANTS
  chai = chai
  amina = amina
  baraka = baraka
  User <- MCUser
  Before <- MCBefore
  HeldBefore <- MCHeldBefore
  Nobody = nobody
  Voucher = {mbao, chai}
  None = none
  MaxAccounts = 4
  MaxFaults = 2
  MaxEvents = 0
SPECIFICATION Spec
PROPERTY FailureIsOver
