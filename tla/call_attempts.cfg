SPECIFICATION FairSpec
CONSTANTS
  MaxAttempts = 2
  Duration = 3
  RingWindow = 1
  Slack = 0
  Caller = {c1}
INVARIANTS
  CallTypeOK
  
PROPERTIES
  UnseenNotDelivered
  AttemptEnds
