-------------------------- MODULE BookingSweepRace --------------------------
(***************************************************************************)
(* The booking life cycle with the expiry sweep as it runs under READ      *)
(* COMMITTED: process_end_of_day_expired_bookings opens a cursor over the  *)
(* due bookings without locking them, and later writes each one it saw,    *)
(* by id, with the class it had when the cursor opened.  Refunds, call     *)
(* completions, admin overrides and a second sweep (pg_cron beside the     *)
(* BullMQ worker) commit in between.                                       *)
(***************************************************************************)
EXTENDS BookingEscrow

CONSTANT Sweeper     \* the schedulers that may be sweeping at once

VARIABLE snapshot    \* per sweeper: the class of each row it still has to write

raceVars == <<vars, snapshot>>

RaceTypeOK == TypeOK /\ snapshot \in [Sweeper -> [Booking -> BookingStatus]]

RaceInit == Init /\ snapshot = [w \in Sweeper |-> [b \in Booking |-> "NONE"]]

Pending(w) == {b \in Booking : snapshot[w][b] # "NONE"}

\* The cursor query: status = 'BOOKED' and settle_at <= now(), classified
\* from the attempts that have ended.
SweepOpens(w) ==
  /\ Pending(w) = {}
  /\ \E b \in Booking : Due(b)
  /\ snapshot' = [snapshot EXCEPT ![w] =
                    [b \in Booking |-> IF Due(b) THEN Classify(b) ELSE "NONE"]]
  /\ UNCHANGED vars

\* The loop body for one row of the cursor.
SweepItem(w, b) ==
  /\ b \in Pending(w)
  /\ ExpireAs(b, snapshot[w][b])
  /\ snapshot' = [snapshot EXCEPT ![w][b] = "NONE"]

RaceNext ==
  \/ LifecycleNext /\ UNCHANGED snapshot
  \/ \E w \in Sweeper : SweepOpens(w) \/ \E b \in Booking : SweepItem(w, b)

RaceSpec == RaceInit /\ [][RaceNext]_raceVars

------------------------------------------------------------------------------
(* Properties                                                               *)

\* The statuses that only an expiry writes: recovering a call types one of them.
WrittenByExpiry ==
  IF "recover" \in AdminOps THEN Expired \ {"EXPIRED_TECHNICAL_ISSUE"} ELSE Expired

ExpiredBySweep(b) == status[b] \in WrittenByExpiry /\ "admin-expire" \notin posted[b]

\* "Both are idempotent": a sweep that reaches a booking another sweep has expired
\* since it read it refunds nothing more, whatever overrides came in between.
SweepRefundsOnce ==
  [][\A w \in Sweeper, b \in Booking :
       SweepItem(w, b) /\ ExpiredBySweep(b) => UNCHANGED ledger]_raceVars

\* ... and gives back no minutes of the date either.
SweepIdempotent ==
  [][\A w \in Sweeper, b \in Booking :
       SweepItem(w, b) /\ status[b] \in Expired
         => UNCHANGED <<ledger, bookedMinutes>>]_raceVars
==============================================================================
