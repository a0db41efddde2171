-------------------------- MODULE MCBookingSweepRace ------------------------
(* Bookings of one fan on one date, all overrides and overlapping sweeps.   *)
EXTENDS BookingSweepRace

CONSTANTS b1, f1

MCFanOf == [b \in Booking |-> f1]
MCFunds == [f \in Fan |-> 3]
MCGross == [b \in Booking |-> IF b = b1 THEN 3 ELSE 2]
MCDiscount == [b \in Booking |-> IF b = b1 THEN 1 ELSE 0]
MCMinutes == [b \in Booking |-> IF b = b1 THEN 2 ELSE 1]
MCOutcome == {<<"MISSED_FAN_NO_JOIN", 0>>, <<"DROPPED_TECHNICAL_ISSUE", 0>>,
              <<"DROPPED_TECHNICAL_ISSUE", 1>>, <<"COMPLETED_SUCCESSFUL", 1>>}
============================================================================
