SPECIFICATION Spec
CONSTANTS
  a = a
  b = b
  None = None
  Voucher = {a, b}
  Stable = {}
  Unit <- MCUnit
  Cent = 2
  MinAmount = 3
  MinWithdraw = 3
  MinSend = 3
  MaxSend = 6
  Rates = {1, 2}
  MpesaVouchers <- MCMpesaVouchers
  Holdings <- MCHoldings
  p = p
  q = q
  Pool = {p, q}
  DefaultPool = p
  TopPools <- MCTopPools
  Typed = {2, 4, 6}
  Whole = {2, 4}
  Answers = {1, 5}
  Earlier = {4}
  MaxVisits = 4
INVARIANT TypeOK
PROPERTIES PaidAsShown DebtAsShown PurchaseAsShown WithinLimit PoolAsViewed
