CONSTANTS
  chai = chai
  amina = amina
  baraka = baraka
  User <- MCUser
  Before <- MCBefore
  HeldBefore <- MCHeldBefore
  Nobody = nobody
  Voucher = {mbao, chai}
  None = none
  MaxAccounts = 4
  MaxFaults = 2
  MaxEvents = 1
SPECIFICATION Spec
INVARIANTS TypeOK AddressLeadsBack HandledIsListed
PROPERTIES AccountsSpec GetsToTheMenu IsHandled
