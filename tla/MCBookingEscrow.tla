-------------------------- MODULE MCBookingEscrow --------------------------
(* Bookings of one fan on one date; b1 is the discounted one.               *)
EXTENDS BookingEscrow

CONSTANTS b1, f1

MCFanOf == [b \in Booking |-> f1]
MCFunds == [f \in Fan |-> 3]
MCGross == [b \in Booking |-> IF b = b1 THEN 3 ELSE 2]
MCDiscount == [b \in Booking |-> IF b = b1 THEN 1 ELSE 0]
MCMinutes == [b \in Booking |-> IF b = b1 THEN 2 ELSE 1]
MCOutcome == {<<"MISSED_FAN_DECLINED", 0>>, <<"DROPPED_TECHNICAL_ISSUE", 1>>,
              <<"DROPPED_TECHNICAL_ISSUE", 2>>, <<"COMPLETED_SUCCESSFUL", 2>>}
============================================================================
