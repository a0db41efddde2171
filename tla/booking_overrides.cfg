SPECIFICATION RaceSpec
CONSTANTS
  b1 = b1
  f1 = f1
  Booking = {b1}
  Fan = {f1}
  FanOf <- MCFanOf
  Funds <- MCFunds
  Gross <- MCGross
  Discount <- MCDiscount
  Minutes <- MCMinutes
  Thresholds = {0, 3}
  Window = 1
  Outcome <- MCOutcome
  MaxLive = 2
  CreatorShare = {0, 1}
  AdminOps = {"force_settle", "expire", "recover", "partial", "report_close", "report_refund"}
  Sweeper = {w1, w2}
INVARIANTS
  EarningsBacked
  CreatorPaidAtMostOnce
PROPERTY
  SweepRefundsOnce
