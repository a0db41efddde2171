SPECIFICATION FairSpec
CONSTANTS
  Withdrawal = {}
  Utr = {}
  MinWithdrawal = 1
  Shoutout = {s1}
  Price = 3
  Fee = 1
  MaxRounds = 2
  Charge = 2
  Run = {j1, j2}
  MaxAsks = 1
  MaxWindows = 2
PROPERTY EveryOrderResolves
CHECK_DEADLOCK FALSE
