---------------------------- MODULE EscrowPromise ----------------------------
(***************************************************************************)
(* What the platform promises about the money of one video-call booking:   *)
(* the list price is taken into escrow once, and leaves it once, in full,  *)
(* split between the creator and the side that paid (the fan, and the      *)
(* promotion pool for the discounted part).  After that nothing moves.     *)
(* BookingEscrow is shown to implement this specification.                 *)
(***************************************************************************)
EXTENDS Integers

CONSTANTS Booking,    \* the bookings that may be made
          Gross       \* list price of each, in paise

VARIABLES phase,      \* "unpaid", "held" or "released"
          toCreator,  \* paise that left escrow for the creator
          toPayer     \* paise that left escrow for whoever paid

promiseVars == <<phase, toCreator, toPayer>>

PromiseInit ==
  /\ phase = [b \in Booking |-> "unpaid"]
  /\ toCreator = [b \in Booking |-> 0]
  /\ toPayer = [b \in Booking |-> 0]

\* The list price enters escrow.
Take(b) ==
  /\ phase[b] = "unpaid"
  /\ phase' = [phase EXCEPT ![b] = "held"]
  /\ UNCHANGED <<toCreator, toPayer>>

\* The whole of it leaves, once: p paise to the creator, the rest back.
Release(b, p) ==
  /\ phase[b] = "held"
  /\ phase' = [phase EXCEPT ![b] = "released"]
  /\ toCreator' = [toCreator EXCEPT ![b] = p]
  /\ toPayer' = [toPayer EXCEPT ![b] = Gross[b] - p]

PromiseNext ==
  \E b \in Booking : Take(b) \/ \E p \in 0..Gross[b] : Release(b, p)

PromiseSpec == PromiseInit /\ [][PromiseNext]_promiseVars
==============================================================================
