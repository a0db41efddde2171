----------------------------- MODULE MCCallDesk -----------------------------
EXTENDS CallDesk

CONSTANTS b1, b2, f1, f2

\* Two bookings of two fans with one creator.
MCFanOf == [b \in Booking |-> IF b = b1 THEN f1 ELSE f2]
==============================================================================
