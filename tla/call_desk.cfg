SPECIFICATION Spec
CONSTANTS
  b1 = b1 b2 = b2 f1 = f1 f2 = f2
  Booking = {b1, b2}
  FanOf <- MCFanOf
  MaxCalls = 2
  MaxMarks = 1
INVARIANTS OutcomeTold AlertedOnce  RingsStopped
CHECK_DEADLOCK FALSE
