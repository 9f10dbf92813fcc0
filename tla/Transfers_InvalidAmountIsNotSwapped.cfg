SPECIFICATION Spec
CONSTANTS
  usdt = usdt
  srf = srf
  dad = dad
  none = none
  Voucher <- MCVoucher
  Renamed = {usdt}
  Stable = {usdt}
  Unit <- MCUnit
  Cent = 2
  MinAmount = 2
  Recipient = {dad}
  Mpesa = mpesa
  Stranger = stranger
  Holdings <- MCHoldings
  Lists <- MCLists
  Typed <- MCTyped
  Answers = {1, 5}
  Down = down
  None = none
  Empty = empty
INVARIANT InvalidAmountIsNotSwapped
