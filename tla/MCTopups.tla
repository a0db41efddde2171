------------------------------ MODULE MCTopups ------------------------------
(* Top-ups of one fan, small amounts under a small ceiling. *)
EXTENDS Topups

CONSTANTS o1, o2, o3

MCCredit == [o \in Order |-> IF o = o1 THEN 2 ELSE 1]
==============================================================================
