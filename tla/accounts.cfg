SPECIFICATION FairSpec
CONSTANT Request = {r1, r2}
INVARIANTS CompletedMeansGone OnlyAfterGrace
PROPERTY DueIsHandled
CHECK_DEADLOCK FALSE
