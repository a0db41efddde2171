------------------------------ MODULE CallDesk ------------------------------
(***************************************************************************)
(* One creator's calls as both sides learn of them: the queue, the "ready" *)
(* flag, the attempts, the notifications kept in the database and the      *)
(* pushes sent around them.                                                *)
(*                                                                         *)
(* A handler is one transaction and one action, except for marking a call  *)
(* missed, which reads without a lock before it writes.  A notification    *)
(* whose insert fails is caught by the handler and aborts its transaction  *)
(* all the same, so a handler does all it does or nothing; only its pushes *)
(* are not taken back, and those of a handler that did nothing are not     *)
(* kept here.                                                              *)
(*                                                                         *)
(* What the pushes do on their way to the devices, the time a call owes    *)
(* and the money are left out; how a call ends is chosen, not computed.    *)
(***************************************************************************)
EXTENDS Naturals, Sequences, FiniteSets

CONSTANTS
  Booking,
  FanOf,     \* the fan of each booking; the creator is "creator"
  MaxCalls,  \* bound: attempts, over all bookings
  MaxMarks   \* bound: requests to mark a call missed under way at once

ASSUME DeskAssumption == MaxCalls \in Nat /\ MaxMarks \in Nat /\ DOMAIN FanOf = Booking

VARIABLES
  booking,  \* "BOOKED", "COMPLETED", "CANCELLED", "EXPIRED_FAN_NO_JOIN"
  ready,    \* bookings with a fan_ready_at
  calls,    \* the attempts in the order they were made: booking and status
  fresh,    \* attempts rung less than a minute ago
  swept,    \* history: attempts a job has ended
  marking,  \* what the requests to mark a call missed have decided on
  notice,   \* notifications: recipient, event, entity
  pushed    \* history: pushes launched by handlers that committed

vars == <<booking, ready, calls, fresh, swept, marking, notice, pushed>>

Live == {"PARTNER_INITIATED", "IN_PROGRESS"}
RingOutcome == {"MISSED_FAN_NO_JOIN", "MISSED_FAN_DECLINED"}
MISSED_STATUSES == RingOutcome \cup {"DROPPED_TECHNICAL_ISSUE"}
Call == DOMAIN calls
Of(b) == {c \in Call : calls[c].booking = b}
FanOfCall(c) == FanOf[calls[c].booking]
Both(c) == {FanOfCall(c), "creator"}

Note(to, event, about) == [to |-> to, event |-> event, about |-> about]
Push(kind, to, about) == [kind |-> kind, to |-> to, about |-> about, status |-> "none", cause |-> 0]
EndedPush(c, status) == [Push("ended", Both(c), c) EXCEPT !.status = status]
NextPush(b, c) == [Push("next", {FanOf[b]}, b) EXCEPT !.cause = c]

Init ==
  /\ booking = [b \in Booking |-> "BOOKED"]
  /\ ready = {} /\ calls = <<>> /\ fresh = {} /\ swept = {}
  /\ marking = {} /\ notice = {} /\ pushed = {}

------------------------------------------------------------------------------
(* The queue                                                                *)

HasStatus(b, statuses) == \E c \in Of(b) : calls[c].status \in statuses

Queued(b) ==
  /\ booking[b] \in {"BOOKED", "EXPIRED_FAN_NO_JOIN"}
  /\ ~HasStatus(b, {"COMPLETED_SUCCESSFUL"})

Priority(b) == CASE b \in ready -> 0
                 [] b \notin ready /\ HasStatus(b, Live) -> 1
                 [] b \notin ready /\ Of(b) = {} -> 2
                 [] OTHER -> 3

\* Whose turn is next: the head of the queue without the fan being called.
\* Ties are broken by dates, which are not kept.
Behind(b) == {n \in Booking : n # b /\ Queued(n) /\ FanOf[n] # FanOf[b]}
NextInLine(b) == {n \in Behind(b) : \A m \in Behind(b) : Priority(n) <= Priority(m)}

------------------------------------------------------------------------------
(* The fan                                                                  *)

SignalReady(b) ==
  /\ booking[b] = "BOOKED"
  /\ ready' = ready \cup {b}
  /\ notice' = notice \cup {Note("creator", "ready", b)}
  /\ pushed' = pushed \cup {Push("ready", {"creator"}, b)}
  /\ UNCHANGED <<booking, calls, fresh, swept, marking>>

\* Cancelling stops whatever rings, and leaves the attempt as it is.
CancelBooking(b) ==
  /\ booking[b] = "BOOKED"
  /\ booking' = [booking EXCEPT ![b] = "CANCELLED"]
  /\ notice' = notice \cup {Note("creator", "cancelled", b)}
  /\ pushed' = pushed \cup {Push("cancel", {FanOf[b]}, c) : c \in
                              {x \in Of(b) : calls[x].status \in Live}}
  /\ UNCHANGED <<ready, calls, fresh, swept, marking>>

\* The latest live attempt is joined, whatever became of the booking.
Joinable(b) == {c \in Of(b) : /\ calls[c].status \in Live
                              /\ \A x \in Of(b) : calls[x].status \in Live => x <= c}
NoPush(c) == {}
StopPush(c) == {Push("cancel", {FanOfCall(c)}, c)}
Join(b) ==
  \E c \in Joinable(b) :
    /\ calls' = [calls EXCEPT ![c].status = "IN_PROGRESS"]
    /\ pushed' = pushed \cup StopPush(c)
    /\ UNCHANGED <<booking, ready, fresh, swept, marking, notice>>

------------------------------------------------------------------------------
(* The creator rings                                                        *)

CanRing(b) ==
  /\ booking[b] = "BOOKED"
  /\ \A c \in Of(b) : calls[c].status = "PARTNER_INITIATED" => c \notin fresh

\* rpc_create_notification says whether the row is new.
AlwaysCreated(n) == TRUE
Created(n) == n \notin notice

\* The note of the ring is made before the push of it.
NoNote(b, c) == {}
RingNote(b, c) == {Note(FanOf[b], "initiated", c)}

Initiate(b) ==
  LET c == Len(calls) + 1
      Alert(n) == Note(FanOf[n], "next", n)
  IN /\ CanRing(b) /\ c <= MaxCalls
     /\ calls' = Append(calls, [booking |-> b, status |-> "PARTNER_INITIATED"])
     /\ fresh' = fresh \cup {c}
     /\ \E next \in SUBSET NextInLine(b) :
          /\ Cardinality(next) = IF NextInLine(b) = {} THEN 0 ELSE 1
          /\ notice' = notice \cup RingNote(b, c) \cup {Alert(n) : n \in next}
          /\ pushed' = pushed \cup {Push("ring", {FanOf[b]}, c)}
                         \cup {NextPush(n, c) : n \in {m \in next : Created(Alert(m))}}
     /\ UNCHANGED <<booking, ready, swept, marking>>

------------------------------------------------------------------------------
(* A call ends                                                              *)

\* trg_reset_fan_ready, and trg_sync_call_to_booking.
ReadyAfter(c, status) == IF status \in MISSED_STATUSES THEN ready \ {calls[c].booking} ELSE ready
BookingAfter(c, status) ==
  IF status = "COMPLETED_SUCCESSFUL" /\ booking[calls[c].booking] = "BOOKED"
  THEN [booking EXCEPT ![calls[c].booking] = "COMPLETED"] ELSE booking

Ends(c, status) ==
  /\ calls' = [calls EXCEPT ![c].status = status]
  /\ ready' = ReadyAfter(c, status)
  /\ booking' = BookingAfter(c, status)

\* rpc_complete_call decides; what it decided is pushed to both.  A drop that
\* nobody caused, the creator never having been seen, is noted for the fan only.
HappyCase(status) == "COMPLETED_SUCCESSFUL"
Resolved(status) == status
Outcomes(c) ==
  {[status |-> "COMPLETED_SUCCESSFUL",
    notes |-> {Note(FanOfCall(c), "completed", c), Note("creator", "completed", c)}],
   [status |-> "DROPPED_TECHNICAL_ISSUE",
    notes |-> {Note(FanOfCall(c), "missed", c), Note("creator", "completed", c)}],
   [status |-> "DROPPED_TECHNICAL_ISSUE", notes |-> {Note(FanOfCall(c), "missed", c)}]}

Complete(c) ==
  /\ calls[c].status = "IN_PROGRESS"
  /\ \E o \in Outcomes(c) :
       /\ Ends(c, o.status)
       /\ notice' = notice \cup o.notes
       /\ pushed' = pushed \cup {EndedPush(c, Resolved(o.status))}
  /\ UNCHANGED <<fresh, swept, marking>>

\* rpc_mark_call_missed reads: a ring outcome only of a ring, a drop of any
\* live call.  A drop of a connected call is somebody's doing.
MarkReads(c, status) ==
  /\ Cardinality(marking) < MaxMarks
  /\ calls[c].status \in Live
  /\ status \in RingOutcome => calls[c].status = "PARTNER_INITIATED"
  /\ marking' = marking \cup {[call |-> c, status |-> status,
                               attributed |-> status \notin RingOutcome
                                              /\ calls[c].status = "IN_PROGRESS"]}
  /\ UNCHANGED <<booking, ready, calls, fresh, swept, notice, pushed>>

MarkNotes(m) ==
  IF m.status \in RingOutcome THEN {Note(FanOfCall(m.call), "missed", m.call)}
  ELSE IF m.attributed THEN {Note(FanOfCall(m.call), "missed", m.call),
                             Note("creator", "completed", m.call)}
  ELSE {}

MarkPushes(m) == {Push("cancel", {FanOfCall(m.call)}, m.call), EndedPush(m.call, m.status)}

MarkWrites(m) ==
  /\ m \in marking /\ marking' = marking \ {m}
  /\ Ends(m.call, m.status)
  /\ notice' = notice \cup MarkNotes(m)
  /\ pushed' = pushed \cup MarkPushes(m)
  /\ UNCHANGED <<fresh, swept>>

\* The sweeps end calls too, and push nothing: an unanswered ring, a deadline,
\* a call both sides have left.
SweepEnds(c) ==
  /\ \E status \in IF calls[c].status = "IN_PROGRESS"
                   THEN {"COMPLETED_SUCCESSFUL", "DROPPED_TECHNICAL_ISSUE"}
                   ELSE {"MISSED_FAN_NO_JOIN"} : Ends(c, status)
  /\ calls[c].status \in Live /\ (calls[c].status = "PARTNER_INITIATED" => c \notin fresh)
  /\ swept' = swept \cup {c}
  /\ UNCHANGED <<fresh, marking, notice, pushed>>

MinutePasses(c) ==
  /\ c \in fresh /\ fresh' = fresh \ {c}
  /\ UNCHANGED <<booking, ready, calls, swept, marking, notice, pushed>>

\* The nightly sweep closes a booking whose fan never joined.
BookingExpires(b) ==
  /\ booking[b] = "BOOKED" /\ ~HasStatus(b, {"IN_PROGRESS"})
  /\ booking' = [booking EXCEPT ![b] = "EXPIRED_FAN_NO_JOIN"]
  /\ UNCHANGED <<ready, calls, fresh, swept, marking, notice, pushed>>

------------------------------------------------------------------------------

Next ==
  \/ \E b \in Booking : \/ SignalReady(b) \/ CancelBooking(b) \/ Join(b)
                        \/ Initiate(b) \/ BookingExpires(b)
  \/ \E c \in Call : \/ Complete(c) \/ SweepEnds(c) \/ MinutePasses(c)
                     \/ \E status \in MISSED_STATUSES : MarkReads(c, status)
  \/ \E m \in marking : MarkWrites(m)

Spec == Init /\ [][Next]_vars

------------------------------------------------------------------------------
(* Properties                                                               *)

\* A call that is over, by its participants and not by a job, was pushed to both
\* of them with the status it has, whichever of two racing ends was written last
\* ("so the other party's outcome card matches the money").
OutcomeTold ==
  \A c \in Call : calls[c].status \notin Live /\ c \notin swept =>
                    EndedPush(c, calls[c].status) \in pushed

\* A fan is pushed "you're next" for a booking once, however often the creator
\* rings the others.
AlertedOnce ==
  \A p, q \in {x \in pushed : x.kind = "next"} : p.about = q.about => p = q

\* Every ring of a call that exists has its note, and every call missed has one
\* for the fan, although the failure of its insert is swallowed.
RingsRecorded ==
  \A c \in Call :
    /\ Note(FanOfCall(c), "initiated", c) \in notice
    /\ calls[c].status \in RingOutcome /\ c \notin swept =>
         Note(FanOfCall(c), "missed", c) \in notice

\* A phone that was made to ring is told to stop, by every way out of ringing
\* but the sweep: answered, declined, dropped, or the booking cancelled.
RingsStopped ==
  \A c \in Call :
    \/ Push("cancel", {FanOfCall(c)}, c) \in pushed
    \/ c \in swept
    \/ calls[c].status = "PARTNER_INITIATED" /\ booking[calls[c].booking] # "CANCELLED"
==============================================================================
