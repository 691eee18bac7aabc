SPECIFICATION Spec
CONSTANTS
  t1 = t1
  t2 = t2
  MaxDeals = 1
  MaxTxs = 2
  MaxFaults = 1
  Tokens = {t1, t2}
  Target <- MCOneToken
  InitialBase = 6
  Stake = 2
  Lot = 2
  Gas = 1
  Offers = {4, 5, 6}
  MinExitProfit = 2
  MinExitProfitWaiting = 1
INVARIANT PurchaseIsFollowed
