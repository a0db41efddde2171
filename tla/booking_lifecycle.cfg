SPECIFICATION FairSpec
CONSTANTS
  b1 = b1
  f1 = f1
  Booking = {b1, b2}
  Fan = {f1}
  FanOf <- MCFanOf
  Funds <- MCFunds
  Gross <- MCGross
  Discount <- MCDiscount
  Minutes <- MCMinutes
  Thresholds = {0, 3}
  Window = 1
  Outcome <- MCOutcome
  MaxLive = 1
  CreatorShare = {1}
  AdminOps = {"force_settle", "partial", "report_close"}
INVARIANTS
  TypeOK
  
  
  
  PaidForDelivery
PROPERTIES
  
  
  EscrowReleased
  
