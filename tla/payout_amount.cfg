SPECIFICATION Spec
CONSTANTS
  Withdrawal = {w1, w2}
  Utr = {u1}
  MinWithdrawal = 3
  Shoutout = {s1}
  Price = 3
  Fee = 1
  MaxRounds = 2
  Charge = 2
  Run = {j1, j2}
  MaxAsks = 1
  MaxWindows = 2
INVARIANT AmountIsWhatItMarks
CHECK_DEADLOCK FALSE
