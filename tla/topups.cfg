SPECIFICATION FairTopupSpec
CONSTANTS
  o1 = o1
  o2 = o2
  o3 = o3
  Order = {o1, o2, o3}
  NoOrder = NoOrder
  Credit <- MCCredit
  Disputed = {o1}
  Resent = {o2}
  Ceiling = 3
  OwnIds = TRUE
INVARIANTS  ReservedWithinCeiling SuccessIsCredited
 
CHECK_DEADLOCK FALSE
