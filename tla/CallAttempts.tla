---------------------------- MODULE CallAttempts ----------------------------
(***************************************************************************)
(* The call attempts of one booking: the creator rings, the fan joins, and *)
(* the attempt ends at its deadline, early, or missed.  An attempt that    *)
(* fails leaves the booking open and the next one gets the time that is    *)
(* left.                                                                   *)
(*                                                                         *)
(* Each rpc is one action, except rpc_mark_call_missed: it reads the call  *)
(* without a lock, decides, and then updates it by id alone, so its read   *)
(* and its write are two actions with other calls in between.              *)
(*                                                                         *)
(* Times are relative: how long since, how long until.  fan_ready_at, the  *)
(* notifications and who ended a call are left out: nothing here is        *)
(* decided by them.                                                        *)
(***************************************************************************)
EXTENDS Integers, Functions

CONSTANTS
  MaxAttempts,  \* bound: attempts of the booking
  Duration,     \* booked time, in ticks
  RingWindow,   \* the 60 seconds of a ring, in ticks
  Slack,        \* the 5 seconds in front of a deadline
  Caller        \* requests to mark a call missed that may be under way

ASSUME CallAssumption ==
  /\ MaxAttempts \in Nat /\ Duration \in Nat \ {0}
  /\ RingWindow \in Nat /\ Slack \in Nat

Attempt == 1..MaxAttempts    \* in the order of partner_initiated_at

Live == {"PARTNER_INITIATED", "IN_PROGRESS"}
RingOutcome == {"MISSED_FAN_NO_JOIN", "MISSED_FAN_DECLINED"}
MarkStatus == RingOutcome \cup {"DROPPED_TECHNICAL_ISSUE"}
CallStatus == {"NONE", "COMPLETED_SUCCESSFUL"} \cup Live \cup MarkStatus

\* The longest run told apart: anything past the booked time is "too long".
MaxRun == Duration + 1

VARIABLES
  booking,   \* bookings.status: "BOOKED", "COMPLETED_SUCCESSFUL", or "CLOSED"
  attempt,   \* calls.attempt_status of each attempt
  rung,      \* now() - partner_initiated_at
  since,     \* now() - started_at, -1 while it has not started
  left,      \* deadline_at - now()
  seen,      \* partner_media_confirmed: "null", "no", "yes"
  ran,       \* ended_at - started_at, 0 until it has both
  marking    \* per caller: the mark it has decided on, "NONE" if none

clocks == <<rung, since, left>>
vars == <<booking, attempt, clocks, seen, ran, marking>>

NoMark == [call |-> 0, status |-> "NONE"]
AtMost(n, bound) == IF n > bound THEN bound ELSE n
AtLeastZero(n) == IF n < 0 THEN 0 ELSE n

------------------------------------------------------------------------------

Init ==
  /\ booking = "BOOKED"
  /\ attempt = [a \in Attempt |-> "NONE"]
  /\ rung = [a \in Attempt |-> 0]
  /\ since = [a \in Attempt |-> -1]
  /\ left = [a \in Attempt |-> 0]
  /\ seen = [a \in Attempt |-> "null"]
  /\ ran = [a \in Attempt |-> 0]
  /\ marking = [c \in Caller |-> NoMark]

\* A ring of less than a minute stops another; a connected attempt does not.
PartnerInitiates(a) ==
  /\ booking = "BOOKED"
  /\ \A x \in Attempt : attempt[x] = "PARTNER_INITIATED" => rung[x] >= RingWindow
  /\ attempt[a] = "NONE" /\ \A x \in 1..(a - 1) : attempt[x] # "NONE"
  /\ attempt' = [attempt EXCEPT ![a] = "PARTNER_INITIATED"]
  /\ UNCHANGED <<booking, clocks, seen, ran, marking>>

\* booking_consumed_seconds: what the other, ended attempts ran for.
Counts(a) == attempt[a] \in {"COMPLETED_SUCCESSFUL", "DROPPED_TECHNICAL_ISSUE"}
Consumed(a) == SumFunctionOnSet(ran, {x \in Attempt \ {a} : Counts(x)})

UnclampedRest(a) == Duration - Consumed(a)
Rest(a) == AtLeastZero(Duration - Consumed(a))

\* The latest live attempt is the one joined; joining again changes nothing.
FanJoins(a) ==
  /\ attempt[a] = "PARTNER_INITIATED"
  /\ \A x \in Attempt : x > a => attempt[x] \notin Live
  /\ attempt' = [attempt EXCEPT ![a] = "IN_PROGRESS"]
  /\ since' = [since EXCEPT ![a] = 0]
  /\ left' = [left EXCEPT ![a] = Rest(a)]
  /\ UNCHANGED <<booking, rung, seen, ran, marking>>

\* A heartbeat is taken whatever the attempt's status is.  The fan's says
\* whether the creator is on the channel, which sticks once true.  A heartbeat
\* without that bit changes nothing kept here.
FanHeartbeat(a, present) ==
  /\ attempt[a] # "NONE"
  /\ seen[a] # "yes"
  /\ seen' = [seen EXCEPT ![a] = IF present THEN "yes" ELSE "no"]
  /\ UNCHANGED <<booking, attempt, clocks, ran, marking>>

------------------------------------------------------------------------------
(* Ending a connected attempt                                               *)

NeverUnconfirmed(a) == FALSE
Unconfirmed(a) == seen[a] = "no"

\* A cumulative bar: within a tick of the booked time, over all attempts.
NearlyDelivered(a) == since[a] + Consumed(a) >= Duration - 1
OwedDelivered(a) == left[a] <= Slack

\* rpc_complete_call, and the trigger that completes the booking with it.
Completes(a, auto) ==
  LET delivered == ~Unconfirmed(a) /\ (auto \/ OwedDelivered(a))
  IN /\ attempt[a] = "IN_PROGRESS"
     /\ attempt' = [attempt EXCEPT ![a] =
          IF delivered THEN "COMPLETED_SUCCESSFUL" ELSE "DROPPED_TECHNICAL_ISSUE"]
     /\ ran' = [ran EXCEPT ![a] = IF Unconfirmed(a) THEN 0 ELSE since[a]]
     /\ booking' = IF delivered /\ booking = "BOOKED"
                   THEN "COMPLETED_SUCCESSFUL" ELSE booking
     /\ UNCHANGED <<clocks, seen, marking>>

ParticipantCompletes(a) == Completes(a, FALSE)

\* The call sweep: deadlines, then rings nobody answered.
PastDeadlineAndSeen(a) == left[a] = 0 /\ ~Unconfirmed(a)
PastDeadline(a) == left[a] = 0
SweepCompletes(a) == PastDeadline(a) /\ Completes(a, TRUE)

Unanswered == {a \in Attempt : attempt[a] = "PARTNER_INITIATED" /\ rung[a] > RingWindow}
SweepMissesRings ==
  /\ Unanswered # {}
  /\ attempt' = [a \in Attempt |-> IF a \in Unanswered THEN "MISSED_FAN_NO_JOIN" ELSE attempt[a]]
  /\ UNCHANGED <<booking, clocks, seen, ran, marking>>

------------------------------------------------------------------------------
(* rpc_mark_call_missed                                                     *)

\* The unlocked read, and what it decides: a ring outcome only of a ring, a
\* drop of any live attempt.  The sweep sends a drop when both sides have been
\* silent for a minute; a participant may send the same at any time, so the
\* ages of the heartbeats are not kept.
MarkReads(c, a, s) ==
  /\ marking[c] = NoMark
  /\ attempt[a] \in Live
  /\ s \in RingOutcome => attempt[a] = "PARTNER_INITIATED"
  /\ marking' = [marking EXCEPT ![c] = [call |-> a, status |-> s]]
  /\ UNCHANGED <<booking, attempt, clocks, seen, ran>>

\* The update by id: the row's status is not looked at again, and ended_at is
\* now, also for a call that has ended before.
MarkWrites(c) ==
  /\ marking[c] # NoMark
  /\ attempt' = [attempt EXCEPT ![marking[c].call] = marking[c].status]
  /\ ran' = [ran EXCEPT ![marking[c].call] = AtLeastZero(since[marking[c].call])]
  /\ marking' = [marking EXCEPT ![c] = NoMark]
  /\ UNCHANGED <<booking, clocks, seen>>

------------------------------------------------------------------------------

\* A refund or an expiry ends the booking; its live attempts go on.
BookingCloses ==
  /\ booking = "BOOKED"
  /\ booking' = "CLOSED"
  /\ UNCHANGED <<attempt, clocks, seen, ran, marking>>

\* Once an attempt is over its clocks matter only to a mark still to be
\* written.
Running(a) == attempt[a] = "IN_PROGRESS" \/ \E c \in Caller : marking[c].call = a
Tick ==
  /\ rung' = [a \in Attempt |-> IF attempt[a] = "PARTNER_INITIATED"
                               THEN AtMost(rung[a] + 1, RingWindow + 1) ELSE rung[a]]
  /\ since' = [a \in Attempt |-> IF Running(a) /\ since[a] >= 0
                                THEN AtMost(since[a] + 1, MaxRun) ELSE since[a]]
  /\ left' = [a \in Attempt |-> AtLeastZero(left[a] - 1)]
  /\ UNCHANGED <<booking, attempt, seen, ran, marking>>

Next ==
  \/ Tick \/ BookingCloses \/ SweepMissesRings
  \/ \E a \in Attempt :
       \/ PartnerInitiates(a) \/ FanJoins(a)
       \/ \E present \in BOOLEAN : FanHeartbeat(a, present)
       \/ ParticipantCompletes(a) \/ SweepCompletes(a)
  \/ \E c \in Caller :
       \/ \E a \in Attempt, s \in MarkStatus : MarkReads(c, a, s)
       \/ MarkWrites(c)

Spec == Init /\ [][Next]_vars

\* Time passes and the sweep runs every minute.
Fairness ==
  /\ WF_vars(Tick) /\ WF_vars(SweepMissesRings)
  /\ \A a \in Attempt : WF_vars(SweepCompletes(a))

FairSpec == Spec /\ Fairness

------------------------------------------------------------------------------
(* Properties                                                               *)

CallTypeOK ==
  /\ booking \in {"BOOKED", "COMPLETED_SUCCESSFUL", "CLOSED"}
  /\ attempt \in [Attempt -> CallStatus]
  /\ rung \in [Attempt -> 0..RingWindow + 1]
  /\ since \in [Attempt -> -1..MaxRun]
  /\ left \in [Attempt -> 0..Duration]
  /\ seen \in [Attempt -> {"null", "no", "yes"}]
  /\ ran \in [Attempt -> 0..MaxRun]
  /\ marking \in [Caller -> [call : 0..MaxAttempts, status : MarkStatus \cup {"NONE"}]]

\* No attempt rings or stays connected for ever, whoever keeps beating and
\* whatever becomes of the booking: the sweep ends it.
AttemptEnds == \A a \in Attempt : attempt[a] \in Live ~> attempt[a] \notin Live

\* A booking is completed by its calls only if they ran for the booked time
\* together: "A call completes only when the booked duration is actually
\* delivered".  Attempts whose creator the fan never saw add nothing.
DeliveredInFull ==
  booking = "COMPLETED_SUCCESSFUL" =>
    SumFunctionOnSet(ran, Attempt) >= Duration - Slack

\* An attempt on which the fan's app beat and never saw the creator does not
\* complete, neither by hand nor at its deadline.
UnseenNotDelivered ==
  [][\A a \in Attempt :
       attempt'[a] = "COMPLETED_SUCCESSFUL" => attempt[a] = attempt'[a] \/ seen[a] # "no"]_vars

\* "A ring outcome must never terminate a call that is already live."
StaleRingIgnored ==
  [][\A a \in Attempt : attempt[a] = "IN_PROGRESS" => attempt'[a] \notin RingOutcome]_vars

\* "A resumed call gets the time that's LEFT, not a fresh full duration": what
\* a join grants and what other attempts have run for, ended or still
\* connected, is within the booked time.
ConnectedFor(a) == IF attempt[a] = "IN_PROGRESS" THEN since[a] ELSE ran[a]
ResumedGetsTheRest ==
  [][\A a \in Attempt :
       FanJoins(a) =>
         left'[a] <= AtLeastZero(Duration -
           SumFunctionOnSet([x \in Attempt |-> ConnectedFor(x)], Attempt \ {a}))]_vars
==============================================================================
