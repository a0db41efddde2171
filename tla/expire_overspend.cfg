SPECIFICATION Spec
CONSTANTS
  b1 = b1
  f1 = f1
  Booking = {b1}
  Fan = {f1}
  FanOf <- MCFanOf
  Funds <- MCFunds
  Gross <- MCGross
  Discount <- MCDiscount
  Minutes <- MCMinutes
  Thresholds = {0, 3}
  Window = 1
  Outcome <- MCOutcome
  MaxLive = 2
  CreatorShare = {1}
  AdminOps = {"expire"}
INVARIANT
  EscrowNeverOverspent
