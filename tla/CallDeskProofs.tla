--------------------------- MODULE CallDeskProofs ---------------------------
(***************************************************************************)
(* What holds of CallDesk for every set of bookings and fans.              *)
(***************************************************************************)
EXTENDS CallDesk, TLAPS

Status == Live \cup MISSED_STATUSES \cup {"COMPLETED_SUCCESSFUL"}

DeskTypeOK ==
  /\ booking \in [Booking -> {"BOOKED", "COMPLETED", "CANCELLED", "EXPIRED_FAN_NO_JOIN"}]
  /\ calls \in Seq([booking : Booking, status : Status])
  /\ marking \subseteq [call : Call, status : MISSED_STATUSES, attributed : BOOLEAN]

\* A fan who was pushed "you're next" has the note of it: the note decides
\* whether there is a push.
NextIsNoted ==
  \A p \in pushed : p.kind = "next" =>
    /\ p.about \in Booking /\ p = NextPush(p.about, p.cause)
    /\ Note(FanOf[p.about], "next", p.about) \in notice

DeskInv == DeskTypeOK /\ OutcomeTold /\ RingsRecorded /\ RingsStopped
AlertInv == NextIsNoted /\ AlertedOnce

------------------------------------------------------------------------------
(* Attempts                                                                 *)

LEMMA InitDesk == Init => DeskInv /\ AlertInv
BY DEF Init, DeskInv, AlertInv, DeskTypeOK, OutcomeTold, RingsRecorded, RingsStopped,
   NextIsNoted, AlertedOnce, Call

\* What changing one attempt's status leaves alone.
LEMMA OneStatus ==
  ASSUME DeskTypeOK, NEW c \in Call, NEW s \in Status,
         calls' = [calls EXCEPT ![c].status = s]
  PROVE  /\ calls' \in Seq([booking : Booking, status : Status])
         /\ Call' = Call /\ calls'[c].status = s
         /\ \A d \in Call : calls'[d].booking = calls[d].booking
         /\ \A d \in Call \ {c} : calls'[d].status = calls[d].status
<1> DEFINE Attempt == [booking : Booking, status : Status]
<1>0. calls \in Seq(Attempt) /\ c \in DOMAIN calls
  BY Zenon DEF DeskTypeOK, Call
<1>1. calls[c] \in [booking : Booking, status : Status]
  <2> HIDE DEF Attempt
  <2>1. calls[c] \in Attempt
    BY <1>0
  <2> QED BY <2>1 DEF Attempt
<1>2. [calls[c] EXCEPT !.status = s] \in [booking : Booking, status : Status]
  BY <1>1
<1>3. calls' = [calls EXCEPT ![c] = [calls[c] EXCEPT !.status = s]]
  OBVIOUS
<1>4. Call' = Call /\ \A d \in Call \ {c} : calls'[d] = calls[d]
  BY <1>3 DEF DeskTypeOK, Call
<1>5. calls'[c] = [calls[c] EXCEPT !.status = s]
  BY <1>3 DEF DeskTypeOK, Call
<1>6. calls'[c].status = s /\ calls'[c].booking = calls[c].booking
  BY <1>1, <1>5
<1>7. calls' \in Seq([booking : Booking, status : Status])
  BY <1>2, <1>3 DEF DeskTypeOK, Call
<1> QED BY <1>4, <1>6, <1>7

\* What a new attempt leaves alone.
LEMMA OneMore ==
  ASSUME DeskTypeOK, NEW b \in Booking,
         calls' = Append(calls, [booking |-> b, status |-> "PARTNER_INITIATED"])
  PROVE  /\ calls' \in Seq([booking : Booking, status : Status])
         /\ Call' = Call \cup {Len(calls) + 1} /\ Len(calls) + 1 \notin Call
         /\ calls'[Len(calls) + 1] = [booking |-> b, status |-> "PARTNER_INITIATED"]
         /\ \A d \in Call : calls'[d] = calls[d]
<1>1. [booking |-> b, status |-> "PARTNER_INITIATED"] \in [booking : Booking, status : Status]
  BY DEF Status, Live
<1> QED BY <1>1 DEF DeskTypeOK, Call

\* Whom an attempt is about never changes.
LEMMA SameAddressee ==
  ASSUME NEW d, calls'[d].booking = calls[d].booking
  PROVE  /\ FanOfCall(d)' = FanOfCall(d)
         /\ \A s : EndedPush(d, s)' = EndedPush(d, s)
BY DEF FanOfCall, EndedPush, Both, Push

------------------------------------------------------------------------------
(* Outcomes, notes and stopped rings                                        *)

\* What the three properties ask of one attempt.
Told(c) == calls[c].status \notin Live /\ c \notin swept =>
             EndedPush(c, calls[c].status) \in pushed
Recorded(c) ==
  /\ Note(FanOfCall(c), "initiated", c) \in notice
  /\ calls[c].status \in RingOutcome /\ c \notin swept =>
       Note(FanOfCall(c), "missed", c) \in notice
Stopped(c) ==
  \/ Push("cancel", {FanOfCall(c)}, c) \in pushed
  \/ c \in swept
  \/ calls[c].status = "PARTNER_INITIATED" /\ booking[calls[c].booking] # "CANCELLED"
CallOK(c) == Told(c) /\ Recorded(c) /\ Stopped(c)

LEMMA DeskByCall == DeskInv <=> DeskTypeOK /\ \A c \in Call : CallOK(c)
BY DEF DeskInv, OutcomeTold, RingsRecorded, RingsStopped, CallOK, Told, Recorded, Stopped

LEMMA DeskNext ==
  ASSUME DeskTypeOK', \A c \in Call' : CallOK(c)'
  PROVE  DeskInv'
BY DEF DeskInv, OutcomeTold, RingsRecorded, RingsStopped, CallOK, Told, Recorded, Stopped

LEMMA AttemptTyped ==
  ASSUME DeskTypeOK, NEW c \in Call
  PROVE  calls[c].booking \in Booking /\ calls[c].status \in Status
<1> DEFINE Attempt == [booking : Booking, status : Status]
<1>1. calls \in Seq(Attempt) /\ c \in DOMAIN calls
  BY Zenon DEF DeskTypeOK, Call
<1>2. calls[c] \in Attempt
  <2> HIDE DEF Attempt
  <2> QED BY <1>1
<1> QED BY <1>2

\* An attempt nothing is done to stays as it should be, unless its booking is
\* cancelled.
LEMMA OthersOK ==
  ASSUME NEW c, CallOK(c), calls'[c].booking = calls[c].booking,
         calls'[c].status = calls[c].status,
         pushed \subseteq pushed', notice \subseteq notice', swept \subseteq swept',
         booking[calls[c].booking] # "CANCELLED" => booking'[calls[c].booking] # "CANCELLED"
  PROVE  CallOK(c)'
<1>1. /\ FanOfCall(c)' = FanOfCall(c)
      /\ EndedPush(c, calls[c].status)' = EndedPush(c, calls[c].status)
  BY SameAddressee
<1> QED BY <1>1 DEF CallOK, Told, Recorded, Stopped

\* The bookkeeping of a step that changes no attempt.
LEMMA NoStatus ==
  ASSUME DeskInv, UNCHANGED calls,
         pushed \subseteq pushed', notice \subseteq notice', swept \subseteq swept',
         booking' \in [Booking -> {"BOOKED", "COMPLETED", "CANCELLED", "EXPIRED_FAN_NO_JOIN"}],
         marking' \subseteq [call : Call, status : MISSED_STATUSES, attributed : BOOLEAN],
         \A b \in Booking : booking[b] # "CANCELLED" => booking'[b] # "CANCELLED"
  PROVE  DeskInv'
<1>1. DeskTypeOK'
  BY DeskByCall DEF DeskTypeOK, Call
<1>2. ASSUME NEW c \in Call PROVE CallOK(c)'
  <2>1. CallOK(c) /\ calls[c].booking \in Booking
    BY DeskByCall, AttemptTyped
  <2> QED BY <2>1, OthersOK
<1> QED BY <1>1, <1>2, DeskNext DEF Call

LEMMA CancelDesk ==
  ASSUME DeskInv, NEW b \in Booking, CancelBooking(b)
  PROVE  DeskInv'
<1>1. /\ booking' = [booking EXCEPT ![b] = "CANCELLED"]
      /\ notice \subseteq notice' /\ pushed \subseteq pushed'
      /\ \A c \in Of(b) : calls[c].status \in Live => Push("cancel", {FanOf[b]}, c) \in pushed'
      /\ UNCHANGED <<calls, swept, marking>>
  BY DEF CancelBooking
<1>2. DeskTypeOK'
  BY <1>1, DeskByCall DEF DeskTypeOK, Call
<1>3. ASSUME NEW c \in Call PROVE CallOK(c)'
  <2>1. CallOK(c) /\ calls[c].booking \in Booking
    BY DeskByCall, AttemptTyped
  <2>2. CASE calls[c].booking # b
    <3>1. booking'[calls[c].booking] = booking[calls[c].booking]
      BY <1>1, <2>1, <2>2, DeskByCall DEF DeskTypeOK
    <3> QED BY <1>1, <2>1, <3>1, OthersOK
  <2>3. CASE calls[c].booking = b
    <3>1. Told(c)' /\ Recorded(c)'
      BY <1>1, <2>1, SameAddressee DEF CallOK, Told, Recorded
    <3>2. Stopped(c)'
      BY <1>1, <2>1, <2>3 DEF CallOK, Stopped, Of, FanOfCall, Live
    <3> QED BY <3>1, <3>2 DEF CallOK
  <2> QED BY <2>2, <2>3
<1> QED BY <1>1, <1>2, <1>3, DeskNext DEF Call

LEMMA JoinDesk ==
  ASSUME DeskInv, NEW b \in Booking, Join(b)
  PROVE  DeskInv'
<1>1. PICK c \in Joinable(b) :
        /\ calls' = [calls EXCEPT ![c].status = "IN_PROGRESS"]
        /\ pushed' = pushed \cup StopPush(c)
        /\ UNCHANGED <<booking, swept, marking, notice>>
  BY DEF Join
<1>2. c \in Call /\ "IN_PROGRESS" \in Status
  BY DEF Joinable, Of, Status, Live
<1>3. /\ calls' \in Seq([booking : Booking, status : Status])
      /\ Call' = Call /\ calls'[c].status = "IN_PROGRESS"
      /\ \A d \in Call : calls'[d].booking = calls[d].booking
      /\ \A d \in Call \ {c} : calls'[d].status = calls[d].status
  BY <1>1, <1>2, OneStatus, DeskByCall
<1>4. DeskTypeOK'
  BY <1>1, <1>3, DeskByCall DEF DeskTypeOK
<1>5. ASSUME NEW d \in Call \ {c} PROVE CallOK(d)'
  BY <1>1, <1>3, OthersOK, DeskByCall
<1>6. CallOK(c)'
  <2>1. CallOK(c) /\ FanOfCall(c)' = FanOfCall(c)
    BY <1>2, <1>3, SameAddressee, DeskByCall
  <2>2. Told(c)' /\ Recorded(c)'
    BY <1>1, <1>3, <2>1 DEF CallOK, Told, Recorded, Live, RingOutcome
  <2>3. Stopped(c)'
    BY <1>1, <2>1 DEF Stopped, StopPush
  <2> QED BY <2>2, <2>3 DEF CallOK
<1> QED BY <1>3, <1>4, <1>5, <1>6, DeskNext

LEMMA InitiateDesk ==
  ASSUME DeskInv, NEW b \in Booking, Initiate(b)
  PROVE  DeskInv'
<1>0. PICK c : c = Len(calls) + 1
  OBVIOUS
<1>1. /\ booking[b] = "BOOKED"
      /\ calls' = Append(calls, [booking |-> b, status |-> "PARTNER_INITIATED"])
      /\ notice \subseteq notice' /\ Note(FanOf[b], "initiated", c) \in notice'
      /\ pushed \subseteq pushed'
      /\ UNCHANGED <<booking, swept, marking>>
  BY <1>0 DEF Initiate, CanRing, RingNote
<1>2. /\ calls' \in Seq([booking : Booking, status : Status])
      /\ Call' = Call \cup {c} /\ c \notin Call
      /\ calls'[c] = [booking |-> b, status |-> "PARTNER_INITIATED"]
      /\ \A d \in Call : calls'[d] = calls[d]
  BY <1>0, <1>1, OneMore, DeskByCall
<1>3. DeskTypeOK'
  <2>1. marking' \subseteq [call : Call', status : MISSED_STATUSES, attributed : BOOLEAN]
    BY <1>1, <1>2, DeskByCall DEF DeskTypeOK
  <2> QED BY <1>1, <1>2, <2>1, DeskByCall DEF DeskTypeOK
<1>4. ASSUME NEW d \in Call PROVE CallOK(d)'
  BY <1>1, <1>2, OthersOK, DeskByCall
<1>5. CallOK(c)'
  <2>1. calls'[c].booking = b /\ calls'[c].status = "PARTNER_INITIATED"
    BY <1>2
  <2>2. Told(c)'
    BY <2>1 DEF Told, Live
  <2>3. Recorded(c)'
    BY <1>1, <2>1 DEF Recorded, FanOfCall, RingOutcome
  <2>4. Stopped(c)'
    BY <1>1, <2>1 DEF Stopped
  <2> QED BY <2>2, <2>3, <2>4 DEF CallOK
<1> QED BY <1>2, <1>3, <1>4, <1>5, DeskNext

\* The end of an attempt, told and noted or left to a job, whose ring was
\* stopped before or is now.
LEMMA EndDesk ==
  ASSUME DeskInv, NEW c \in Call, NEW s \in Status, s # "PARTNER_INITIATED", Ends(c, s),
         pushed \subseteq pushed', notice \subseteq notice', swept \subseteq swept',
         marking' \subseteq marking,
         c \in swept' \/ EndedPush(c, s) \in pushed',
         c \in swept' \/ s \notin RingOutcome \/ Note(FanOfCall(c), "missed", c) \in notice',
         c \in swept' \/ Push("cancel", {FanOfCall(c)}, c) \in pushed'
  PROVE  DeskInv'
<1>1. /\ calls' \in Seq([booking : Booking, status : Status])
      /\ Call' = Call /\ calls'[c].status = s
      /\ \A d \in Call : calls'[d].booking = calls[d].booking
      /\ \A d \in Call \ {c} : calls'[d].status = calls[d].status
  BY OneStatus, DeskByCall DEF Ends
<1>2. /\ booking' \in [Booking -> {"BOOKED", "COMPLETED", "CANCELLED", "EXPIRED_FAN_NO_JOIN"}]
      /\ \A b \in Booking : booking[b] # "CANCELLED" => booking'[b] # "CANCELLED"
  BY DeskByCall DEF Ends, BookingAfter, DeskTypeOK
<1>3. DeskTypeOK'
  BY <1>1, <1>2, DeskByCall DEF DeskTypeOK
<1>4. ASSUME NEW d \in Call \ {c} PROVE CallOK(d)'
  <2>1. CallOK(d) /\ calls[d].booking \in Booking
    BY DeskByCall, AttemptTyped
  <2> QED BY <1>1, <1>2, <2>1, OthersOK
<1>5. CallOK(c)'
  <2>1. /\ CallOK(c) /\ FanOfCall(c)' = FanOfCall(c)
        /\ EndedPush(c, s)' = EndedPush(c, s)
    BY <1>1, SameAddressee, DeskByCall
  <2>2. Told(c)'
    BY <1>1, <2>1 DEF Told, EndedPush
  <2>3. Recorded(c)'
    BY <1>1, <2>1 DEF CallOK, Recorded
  <2>4. Stopped(c)'
    BY <2>1 DEF Stopped
  <2> QED BY <2>2, <2>3, <2>4 DEF CallOK
<1> QED BY <1>1, <1>3, <1>4, <1>5, DeskNext

LEMMA CompleteDesk ==
  ASSUME DeskInv, NEW c \in Call, Complete(c)
  PROVE  DeskInv'
<1>1. PICK o \in Outcomes(c) :
        /\ Ends(c, o.status)
        /\ notice' = notice \cup o.notes
        /\ pushed' = pushed \cup {EndedPush(c, Resolved(o.status))}
  BY DEF Complete
<1>2. o.status \in {"COMPLETED_SUCCESSFUL", "DROPPED_TECHNICAL_ISSUE"}
  BY DEF Outcomes
<1>3. o.status \in Status /\ o.status # "PARTNER_INITIATED" /\ o.status \notin RingOutcome
  BY <1>2 DEF Status, MISSED_STATUSES, RingOutcome
<1>4. c \in swept \/ Push("cancel", {FanOfCall(c)}, c) \in pushed
  BY DeskByCall DEF Complete, CallOK, Stopped
<1>5. UNCHANGED <<swept, marking>>
  BY DEF Complete
<1> QED BY <1>1, <1>3, <1>4, <1>5, EndDesk DEF Resolved

LEMMA MarkReadsDesk ==
  ASSUME DeskInv, NEW c \in Call, NEW s \in MISSED_STATUSES, MarkReads(c, s)
  PROVE  DeskInv'
<1>1. marking' \subseteq [call : Call, status : MISSED_STATUSES, attributed : BOOLEAN]
  <2> DEFINE a == s \notin RingOutcome /\ calls[c].status = "IN_PROGRESS"
  <2>1. a \in BOOLEAN
    OBVIOUS
  <2>2. marking' = marking \cup {[call |-> c, status |-> s, attributed |-> a]}
    BY Zenon DEF MarkReads
  <2> HIDE DEF a
  <2> QED BY <2>1, <2>2, DeskByCall DEF DeskTypeOK
<1> QED BY <1>1, NoStatus, DeskByCall DEF MarkReads, DeskTypeOK

LEMMA MarkWritesDesk ==
  ASSUME DeskInv, NEW m \in marking, MarkWrites(m)
  PROVE  DeskInv'
<1>1. m.call \in Call /\ m.status \in MISSED_STATUSES
  BY DeskByCall DEF DeskTypeOK
<1>2. m.status \in Status /\ m.status # "PARTNER_INITIATED"
  BY <1>1 DEF Status, MISSED_STATUSES, RingOutcome
<1>3. /\ Ends(m.call, m.status) /\ notice' = notice \cup MarkNotes(m)
      /\ pushed' = pushed \cup MarkPushes(m) /\ swept' = swept /\ marking' \subseteq marking
  BY DEF MarkWrites
<1>4. /\ Push("cancel", {FanOfCall(m.call)}, m.call) \in pushed'
      /\ EndedPush(m.call, m.status) \in pushed'
  BY <1>3 DEF MarkPushes
<1>5. m.status \in RingOutcome => Note(FanOfCall(m.call), "missed", m.call) \in notice'
  BY <1>3 DEF MarkNotes
<1> QED BY <1>1, <1>2, <1>3, <1>4, <1>5, EndDesk

LEMMA SweepDesk ==
  ASSUME DeskInv, NEW c \in Call, SweepEnds(c)
  PROVE  DeskInv'
<1>1. PICK s \in {"COMPLETED_SUCCESSFUL", "DROPPED_TECHNICAL_ISSUE", "MISSED_FAN_NO_JOIN"} :
        Ends(c, s)
  BY DEF SweepEnds
<1>2. s \in Status /\ s # "PARTNER_INITIATED"
  BY DEF Status, MISSED_STATUSES, RingOutcome
<1> QED BY <1>1, <1>2, EndDesk DEF SweepEnds

LEMMA DeskKept == DeskInv /\ [Next]_vars => DeskInv'
<1> SUFFICES ASSUME DeskInv, [Next]_vars PROVE DeskInv'
  OBVIOUS
<1>1. ASSUME NEW b \in Booking, SignalReady(b) PROVE DeskInv'
  BY <1>1, NoStatus, DeskByCall DEF SignalReady, DeskTypeOK
<1>2. ASSUME NEW b \in Booking, BookingExpires(b) PROVE DeskInv'
  BY <1>2, NoStatus, DeskByCall DEF BookingExpires, DeskTypeOK
<1>3. ASSUME NEW c \in Call, MinutePasses(c) PROVE DeskInv'
  BY <1>3, NoStatus, DeskByCall DEF MinutePasses, DeskTypeOK
<1>4. CASE UNCHANGED vars
  BY <1>4, NoStatus, DeskByCall DEF vars, DeskTypeOK
<1> QED BY <1>1, <1>2, <1>3, <1>4, CancelDesk, JoinDesk, InitiateDesk, CompleteDesk,
        MarkReadsDesk, MarkWritesDesk, SweepDesk DEF Next

\* Whichever of two racing ends is written last, both sides of the call were
\* pushed the status it has.
THEOREM OutcomeAlwaysTold == Spec => []OutcomeTold
<1>1. Init => DeskInv
  BY InitDesk
<1>2. DeskInv => OutcomeTold
  BY DEF DeskInv
<1> QED BY DeskKept, <1>1, <1>2, PTL DEF Spec

\* No committed ring or missed call is without its note, however attempts follow
\* and end.
THEOREM RingsAlwaysRecorded == Spec => []RingsRecorded
<1>1. Init => DeskInv
  BY InitDesk
<1>2. DeskInv => RingsRecorded
  BY DEF DeskInv
<1> QED BY DeskKept, <1>1, <1>2, PTL DEF Spec

\* Every way out of ringing but the sweep stops the phone that rang.
THEOREM RingsAlwaysStopped == Spec => []RingsStopped
<1>1. Init => DeskInv
  BY InitDesk
<1>2. DeskInv => RingsStopped
  BY DEF DeskInv
<1> QED BY DeskKept, <1>1, <1>2, PTL DEF Spec

------------------------------------------------------------------------------
(* One alert per booking                                                    *)

LEMMA PushFields ==
  /\ \A kind, to, about : Push(kind, to, about).kind = kind
  /\ \A c, status : EndedPush(c, status).kind = "ended"
  /\ \A b, c : /\ NextPush(b, c).kind = "next" /\ NextPush(b, c).about = b
              /\ NextPush(b, c).cause = c
BY DEF Push, EndedPush, NextPush

\* Pushes of other kinds, and more notes.
LEMMA QuietPushes ==
  ASSUME AlertInv, \A p \in pushed' : p \in pushed \/ p.kind # "next", notice \subseteq notice'
  PROVE  AlertInv'
BY DEF AlertInv, NextIsNoted, AlertedOnce, NextPush, Push

LEMMA InitiateAlerts ==
  ASSUME AlertInv, NEW b \in Booking, Initiate(b)
  PROVE  AlertInv'
<1>0. PICK c : c = Len(calls) + 1
  OBVIOUS
<1>1. PICK next \in SUBSET NextInLine(b) :
        /\ notice' = notice \cup RingNote(b, c) \cup {Note(FanOf[n], "next", n) : n \in next}
        /\ pushed' = pushed \cup {Push("ring", {FanOf[b]}, c)}
             \cup {NextPush(n, c) : n \in {m \in next : Created(Note(FanOf[m], "next", m))}}
  BY <1>0 DEF Initiate
<1>2. next \subseteq Booking
  BY DEF NextInLine, Behind
<1>3. ASSUME NEW p \in pushed', p.kind = "next", p \notin pushed
      PROVE  /\ p.about \in next /\ p = NextPush(p.about, c) /\ p.cause = c
             /\ Note(FanOf[p.about], "next", p.about) \notin notice
  <2>1. p # Push("ring", {FanOf[b]}, c)
    BY <1>3, PushFields
  <2>2. PICK n \in next : p = NextPush(n, c) /\ Created(Note(FanOf[n], "next", n))
    BY <1>1, <1>3, <2>1
  <2> QED BY <2>2, PushFields DEF Created
<1>4. NextIsNoted'
  <2> SUFFICES ASSUME NEW p \in pushed', p.kind = "next"
               PROVE  /\ p.about \in Booking /\ p = NextPush(p.about, p.cause)
                      /\ Note(FanOf[p.about], "next", p.about) \in notice'
    BY DEF NextIsNoted, NextPush, Push
  <2>1. CASE p \in pushed
    BY <1>1, <2>1 DEF AlertInv, NextIsNoted
  <2>2. CASE p \notin pushed
    BY <1>1, <1>2, <1>3, <2>2
  <2> QED BY <2>1, <2>2
<1>5. AlertedOnce'
  <2> SUFFICES ASSUME NEW p \in pushed', NEW q \in pushed', p.kind = "next", q.kind = "next",
                      p.about = q.about
               PROVE  p = q
    BY DEF AlertedOnce
  <2>1. CASE p \in pushed /\ q \in pushed
    BY <2>1 DEF AlertInv, AlertedOnce
  <2>2. CASE p \notin pushed /\ q \notin pushed
    BY <1>3, <2>2
  <2>3. CASE p \in pushed /\ q \notin pushed
    BY <1>3, <2>3 DEF AlertInv, NextIsNoted
  <2>4. CASE p \notin pushed /\ q \in pushed
    BY <1>3, <2>4 DEF AlertInv, NextIsNoted
  <2> QED BY <2>1, <2>2, <2>3, <2>4
<1> QED BY <1>4, <1>5 DEF AlertInv

LEMMA AlertKept == AlertInv /\ [Next]_vars => AlertInv'
<1> SUFFICES ASSUME AlertInv, [Next]_vars PROVE AlertInv'
  OBVIOUS
<1>1. ASSUME NEW b \in Booking, SignalReady(b) PROVE AlertInv'
  BY <1>1, QuietPushes, PushFields DEF SignalReady
<1>2. ASSUME NEW b \in Booking, CancelBooking(b) PROVE AlertInv'
  BY <1>2, QuietPushes, PushFields DEF CancelBooking
<1>3. ASSUME NEW b \in Booking, Join(b) PROVE AlertInv'
  BY <1>3, QuietPushes, PushFields DEF Join, StopPush
<1>4. ASSUME NEW b \in Booking, BookingExpires(b) PROVE AlertInv'
  BY <1>4, QuietPushes DEF BookingExpires
<1>5. ASSUME NEW c \in Call, Complete(c) PROVE AlertInv'
  BY <1>5, QuietPushes, PushFields DEF Complete
<1>6. ASSUME NEW c \in Call, SweepEnds(c) \/ MinutePasses(c) PROVE AlertInv'
  BY <1>6, QuietPushes DEF SweepEnds, MinutePasses
<1>7. ASSUME NEW c \in Call, NEW s \in MISSED_STATUSES, MarkReads(c, s) PROVE AlertInv'
  BY <1>7, QuietPushes DEF MarkReads
<1>8. ASSUME NEW m \in marking, MarkWrites(m) PROVE AlertInv'
  BY <1>8, QuietPushes, PushFields DEF MarkWrites, MarkPushes
<1>9. CASE UNCHANGED vars
  BY <1>9, QuietPushes DEF vars
<1> QED BY <1>1, <1>2, <1>3, <1>4, <1>5, <1>6, <1>7, <1>8, <1>9, InitiateAlerts DEF Next

\* However often a creator rings the others, a fan is pushed "you're next" once
\* for a booking: the note that is there already stops the second push.
THEOREM AlwaysAlertedOnce == Spec => []AlertedOnce
<1>1. Init => AlertInv
  BY InitDesk
<1>2. AlertInv => AlertedOnce
  BY DEF AlertInv
<1> QED BY AlertKept, <1>1, <1>2, PTL DEF Spec
=============================================================================
