------------------------ MODULE CallAttemptsProofs ------------------------
(***************************************************************************)
(* What holds of the call attempts of a booking for any number of          *)
(* attempts and of requests to mark them, and for any durations.           *)
(***************************************************************************)
EXTENDS CallAttempts, SetSums, TLAPS

\* A mark under way names an attempt there is and a way of not completing it.
MarkOf(m) == m.call \in Attempt /\ m.status \in MarkStatus

Mark == [call : 0..MaxAttempts, status : MarkStatus \cup {"NONE"}]
MarksTyped ==
  /\ attempt \in [Attempt -> CallStatus]
  /\ seen \in [Attempt -> {"null", "no", "yes"}]
  /\ marking \in [Caller -> Mark]
  /\ \A c \in Caller : marking[c] = NoMark \/ MarkOf(marking[c])

LEMMA CallStatuses ==
  /\ MarkStatus \subseteq CallStatus
  /\ {"NONE", "COMPLETED_SUCCESSFUL", "PARTNER_INITIATED", "IN_PROGRESS",
      "DROPPED_TECHNICAL_ISSUE", "MISSED_FAN_NO_JOIN"} \subseteq CallStatus
  /\ MarkStatus \cap {"COMPLETED_SUCCESSFUL", "NONE"} = {}
BY DEF CallStatus, MarkStatus, RingOutcome, Live

LEMMA Marks ==
  NoMark \in Mark /\ \A a \in Attempt, s \in MarkStatus : [call |-> a, status |-> s] \in Mark
<1>1. 0 \in 0..MaxAttempts /\ Attempt \subseteq 0..MaxAttempts
  BY CallAssumption DEF Attempt
<1> QED BY <1>1 DEF NoMark, Mark

\* The steps that move no attempt, no bit and no mark.
Still == UNCHANGED <<attempt, seen, marking>>

LEMMA StillSteps == Tick \/ BookingCloses \/ UNCHANGED vars => Still
BY DEF Tick, BookingCloses, vars, Still

\* An attempt the step completes is one whose creator the fan has not missed.
CompletedSeen ==
  \A a \in Attempt :
    attempt'[a] = "COMPLETED_SUCCESSFUL" => attempt[a] = attempt'[a] \/ seen[a] # "no"

\* An attempt that takes the value s, the others keeping theirs.
LEMMA AttemptTakes ==
  ASSUME MarksTyped, NEW a \in Attempt, NEW s \in CallStatus,
         attempt' = [attempt EXCEPT ![a] = s],
         s = "COMPLETED_SUCCESSFUL" => seen[a] # "no"
  PROVE  attempt' \in [Attempt -> CallStatus] /\ CompletedSeen
BY DEF MarksTyped, CompletedSeen

LEMMA AttemptSteps ==
  ASSUME MarksTyped, NEW a \in Attempt,
         \/ PartnerInitiates(a) \/ FanJoins(a)
         \/ \E auto \in BOOLEAN : Completes(a, auto)
  PROVE  MarksTyped' /\ CompletedSeen
<1>1. UNCHANGED <<seen, marking>>
  BY DEF PartnerInitiates, FanJoins, Completes
<1>2. CASE PartnerInitiates(a) \/ FanJoins(a)
  <2>1. PICK s \in {"PARTNER_INITIATED", "IN_PROGRESS"} :
          attempt' = [attempt EXCEPT ![a] = s]
    BY <1>2 DEF PartnerInitiates, FanJoins
  <2> QED BY <1>1, <2>1, AttemptTakes, CallStatuses DEF MarksTyped
<1>3. ASSUME NEW auto \in BOOLEAN, Completes(a, auto)
      PROVE  MarksTyped' /\ CompletedSeen
  <2> DEFINE delivered == ~Unconfirmed(a) /\ (auto \/ OwedDelivered(a))
             s == IF delivered THEN "COMPLETED_SUCCESSFUL" ELSE "DROPPED_TECHNICAL_ISSUE"
  <2>1. attempt' = [attempt EXCEPT ![a] = s]
    BY <1>3 DEF Completes
  <2>2. s \in CallStatus /\ (s = "COMPLETED_SUCCESSFUL" => seen[a] # "no")
    BY CallStatuses DEF Unconfirmed
  <2> HIDE DEF s
  <2> QED BY <1>1, <2>1, <2>2, AttemptTakes DEF MarksTyped
<1> QED BY <1>2, <1>3

LEMMA HeartbeatStep ==
  ASSUME MarksTyped, NEW a \in Attempt, NEW present \in BOOLEAN, FanHeartbeat(a, present)
  PROVE  MarksTyped' /\ CompletedSeen
BY DEF FanHeartbeat, MarksTyped, CompletedSeen

LEMMA RingSweepStep ==
  ASSUME MarksTyped, SweepMissesRings
  PROVE  MarksTyped' /\ CompletedSeen
<1>1. \A a \in Attempt : attempt'[a] = attempt[a] \/ attempt'[a] = "MISSED_FAN_NO_JOIN"
  BY DEF SweepMissesRings
<1>2. attempt' \in [Attempt -> CallStatus]
  BY CallStatuses DEF SweepMissesRings, MarksTyped
<1> QED BY <1>1, <1>2 DEF SweepMissesRings, MarksTyped, CompletedSeen

\* The decision made on the unlocked read is one of the marks, and stays one.
LEMMA MarkSteps ==
  ASSUME MarksTyped, NEW c \in Caller,
         MarkWrites(c) \/ \E a \in Attempt, s \in MarkStatus : MarkReads(c, a, s)
  PROVE  MarksTyped' /\ CompletedSeen
<1>1. ASSUME NEW a \in Attempt, NEW s \in MarkStatus, MarkReads(c, a, s)
      PROVE  MarksTyped' /\ CompletedSeen
  <2> DEFINE m == [call |-> a, status |-> s]
  <2>1. MarkOf(m) /\ m \in Mark
    BY Marks DEF MarkOf
  <2>2. marking' = [marking EXCEPT ![c] = m] /\ UNCHANGED <<attempt, seen>>
    BY <1>1 DEF MarkReads
  <2> HIDE DEF m
  <2> QED BY <2>1, <2>2 DEF MarksTyped, CompletedSeen
<1>2. CASE MarkWrites(c)
  <2>1. MarkOf(marking[c])
    BY <1>2 DEF MarkWrites, MarksTyped
  <2>2. attempt' \in [Attempt -> CallStatus] /\ CompletedSeen
    BY <1>2, <2>1, AttemptTakes, CallStatuses DEF MarkWrites, MarkOf
  <2>3. marking' = [marking EXCEPT ![c] = NoMark] /\ UNCHANGED seen
    BY <1>2 DEF MarkWrites
  <2> QED BY <2>2, <2>3, Marks DEF MarksTyped
<1> QED BY <1>1, <1>2

LEMMA CallStep == MarksTyped /\ [Next]_vars => MarksTyped' /\ CompletedSeen
<1> SUFFICES ASSUME MarksTyped, [Next]_vars PROVE MarksTyped' /\ CompletedSeen
  OBVIOUS
<1>1. CASE Tick \/ BookingCloses \/ UNCHANGED vars
  BY <1>1, StillSteps DEF Still, MarksTyped, CompletedSeen
<1>2. ASSUME NEW a \in Attempt, ParticipantCompletes(a) \/ SweepCompletes(a)
      PROVE  MarksTyped' /\ CompletedSeen
  BY <1>2, AttemptSteps DEF ParticipantCompletes, SweepCompletes
<1> QED BY <1>1, <1>2, AttemptSteps, HeartbeatStep, RingSweepStep, MarkSteps DEF Next

\* With any number of late marks and heartbeats in flight, an attempt on which
\* the fan's app beat and never saw the creator does not become completed: not
\* by a participant, not by the sweep, and not by a mark written by id.
THEOREM NeverDeliveredUnseen == Spec => UnseenNotDelivered
<1>1. Init => MarksTyped
  BY CallStatuses, Marks DEF Init, MarksTyped
<1>2. CompletedSeen /\ [Next]_vars =>
        [\A a \in Attempt :
           attempt'[a] = "COMPLETED_SUCCESSFUL" => attempt[a] = attempt'[a] \/ seen[a] # "no"]_vars
  BY DEF CompletedSeen
<1> QED BY <1>1, <1>2, CallStep, PTL DEF Spec, UnseenNotDelivered

------------------------------------------------------------------------------
(* What the attempts ran for                                                *)

ClocksTyped ==
  /\ booking \in {"BOOKED", "COMPLETED_SUCCESSFUL", "CLOSED"}
  /\ rung \in [Attempt -> 0..RingWindow + 1]
  /\ since \in [Attempt -> -1..MaxRun]
  /\ left \in [Attempt -> 0..Duration]
  /\ ran \in [Attempt -> 0..MaxRun]

\* An attempt is ended no earlier than it ended before, and one not ended has run
\* for nothing yet.
EndsLater ==
  \A a \in Attempt :
    /\ ran[a] <= AtLeastZero(since[a])
    /\ attempt[a] \in Live \cup {"NONE"} => ran[a] = 0
    /\ attempt[a] = "IN_PROGRESS" => since[a] >= 0

\* The deadline of a connected attempt leaves no booked time out: what it has had, what
\* it still gets and what the others ran for make the booked time.
Others(a) == SumFunctionOnSet(ran, Attempt \ {a})
TimeCovered ==
  \A a \in Attempt :
    attempt[a] = "IN_PROGRESS" => since[a] + left[a] + Others(a) >= Duration

DeliveryInv == MarksTyped /\ ClocksTyped /\ EndsLater /\ TimeCovered /\ DeliveredInFull

LEMMA Attempts ==
  /\ Duration \in Nat /\ MaxRun \in Nat /\ MaxRun = Duration + 1
  /\ RingWindow \in Nat /\ Slack \in Nat /\ IsFiniteSet(Attempt)
BY CallAssumption, FS_Interval DEF Attempt, MaxRun

\* Sums of what a set of attempts ran for.
LEMMA RanSums ==
  ASSUME NEW r \in [Attempt -> Nat], NEW S \in SUBSET Attempt
  PROVE  /\ SumFunctionOnSet(r, S) \in Nat
         /\ \A T \in SUBSET S : SumFunctionOnSet(r, T) <= SumFunctionOnSet(r, S)
         /\ \A q \in [Attempt -> Nat] :
              (\A a \in Attempt : r[a] <= q[a]) => SumFunctionOnSet(r, S) <= SumFunctionOnSet(q, S)
         /\ \A a \in S : SumFunctionOnSet(r, S) = r[a] + SumFunctionOnSet(r, S \ {a})
<1>1. IsFiniteSet(S) /\ \A a \in S : r[a] \in Nat /\ r[a] \in Int
  BY FS_Subset, Attempts
<1>2. SumFunctionOnSet(r, S) \in Nat
  BY <1>1, SumNat
<1>3. ASSUME NEW T \in SUBSET S PROVE SumFunctionOnSet(r, T) <= SumFunctionOnSet(r, S)
  BY <1>1, SumOfPart
<1>4. ASSUME NEW q \in [Attempt -> Nat], \A a \in Attempt : r[a] <= q[a]
      PROVE  SumFunctionOnSet(r, S) <= SumFunctionOnSet(q, S)
  <2>1. \A a \in S : r[a] \in Int /\ q[a] \in Int /\ r[a] <= q[a]
    BY <1>4
  <2> QED BY <1>1, <2>1, SumMonotone
<1>5. ASSUME NEW a \in S
      PROVE  SumFunctionOnSet(r, S) = r[a] + SumFunctionOnSet(r, S \ {a})
  BY <1>1, SumTake
<1> QED BY <1>2, <1>3, <1>4, <1>5

LEMMA InitDelivery == Init => DeliveryInv
<1> SUFFICES ASSUME Init PROVE DeliveryInv
  OBVIOUS
<1>1. MarksTyped /\ ClocksTyped
  BY CallStatuses, Marks, Attempts DEF Init, MarksTyped, ClocksTyped
<1>2. EndsLater /\ TimeCovered /\ DeliveredInFull
  BY DEF Init, EndsLater, TimeCovered, DeliveredInFull, AtLeastZero, Live
<1> QED BY <1>1, <1>2 DEF DeliveryInv

\* What an attempt ran for is never taken back.
RanRises == \A a \in Attempt : ran[a] <= ran'[a]

LEMMA SumsRise ==
  ASSUME ClocksTyped, ClocksTyped', RanRises
  PROVE  /\ SumFunctionOnSet(ran, Attempt) <= SumFunctionOnSet(ran, Attempt)'
         /\ SumFunctionOnSet(ran, Attempt) \in Nat /\ SumFunctionOnSet(ran, Attempt)' \in Nat
         /\ \A a \in Attempt : Others(a) <= Others(a)' /\ Others(a) \in Nat /\ Others(a)' \in Nat
<1>1. ran \in [Attempt -> Nat] /\ ran' \in [Attempt -> Nat]
  BY Attempts DEF ClocksTyped
<1>2. Attempt \in SUBSET Attempt /\ \A a \in Attempt : Attempt \ {a} \in SUBSET Attempt
  OBVIOUS
<1> QED BY <1>1, <1>2, RanSums DEF RanRises, Others

\* A connected attempt whose clocks go on, or that is past its time, stays covered.
LEMMA CoveredStays ==
  ASSUME DeliveryInv, ClocksTyped', RanRises, NEW a \in Attempt, attempt[a] = "IN_PROGRESS",
         since'[a] + left'[a] >= since[a] + left[a] \/ since'[a] = MaxRun
  PROVE  since'[a] + left'[a] + Others(a)' >= Duration
<1>1. Others(a) <= Others(a)' /\ Others(a) \in Nat /\ Others(a)' \in Nat
  BY SumsRise DEF DeliveryInv
<1>2. since[a] + left[a] + Others(a) >= Duration
  BY DEF DeliveryInv, TimeCovered
<1>3. /\ since[a] \in Int /\ left[a] \in Nat /\ since'[a] \in Int /\ left'[a] \in Nat
      /\ Duration \in Nat /\ MaxRun = Duration + 1
  BY Attempts DEF DeliveryInv, ClocksTyped
<1> QED BY <1>1, <1>2, <1>3

LEMMA DeliveredStays ==
  ASSUME DeliveryInv, ClocksTyped', RanRises,
         booking' = "COMPLETED_SUCCESSFUL" => booking = "COMPLETED_SUCCESSFUL"
  PROVE  DeliveredInFull'
<1>1. /\ SumFunctionOnSet(ran, Attempt) <= SumFunctionOnSet(ran, Attempt)'
      /\ SumFunctionOnSet(ran, Attempt) \in Nat /\ SumFunctionOnSet(ran, Attempt)' \in Nat
  BY SumsRise DEF DeliveryInv
<1> QED BY <1>1, Attempts DEF DeliveryInv, DeliveredInFull

\* A step that lets no clock run and gives no attempt a new deadline.
LEMMA ClocksRest ==
  ASSUME DeliveryInv, ClocksTyped', EndsLater', RanRises, UNCHANGED clocks,
         \A a \in Attempt : attempt'[a] = "IN_PROGRESS" => attempt[a] = "IN_PROGRESS",
         booking' = "COMPLETED_SUCCESSFUL" => booking = "COMPLETED_SUCCESSFUL"
  PROVE  ClocksTyped' /\ EndsLater' /\ TimeCovered' /\ DeliveredInFull'
<1>1. ASSUME NEW a \in Attempt, attempt'[a] = "IN_PROGRESS"
      PROVE  since'[a] + left'[a] + Others(a)' >= Duration
  <2>1. attempt[a] = "IN_PROGRESS" /\ since'[a] = since[a] /\ left'[a] = left[a]
    BY <1>1 DEF clocks
  <2>2. since[a] \in Int /\ left[a] \in Nat
    BY Attempts DEF DeliveryInv, ClocksTyped
  <2> QED BY <2>1, <2>2, CoveredStays
<1>2. TimeCovered'
  BY <1>1 DEF TimeCovered
<1> QED BY <1>2, DeliveredStays

LEMMA QuietSteps ==
  ASSUME DeliveryInv,
         \/ BookingCloses \/ UNCHANGED vars
         \/ \E a \in Attempt : \/ PartnerInitiates(a)
                             \/ \E present \in BOOLEAN : FanHeartbeat(a, present)
         \/ \E c \in Caller, a \in Attempt, s \in MarkStatus : MarkReads(c, a, s)
  PROVE  ClocksTyped' /\ EndsLater' /\ TimeCovered' /\ DeliveredInFull'
<1> USE DEF clocks
<1>1. UNCHANGED <<rung, since, left, ran>>
  BY DEF PartnerInitiates, BookingCloses, vars, FanHeartbeat, MarkReads
<1>2. booking' \in {booking, "CLOSED"}
  BY DEF PartnerInitiates, BookingCloses, vars, FanHeartbeat, MarkReads
<1>3. \A x \in Attempt :
        \/ attempt'[x] = attempt[x]
        \/ attempt'[x] = "PARTNER_INITIATED" /\ attempt[x] = "NONE"
  <2>1. ASSUME NEW a \in Attempt, PartnerInitiates(a)
        PROVE  attempt[a] = "NONE" /\ attempt' = [attempt EXCEPT ![a] = "PARTNER_INITIATED"]
    BY <2>1 DEF PartnerInitiates
  <2>2. ASSUME ~\E a \in Attempt : PartnerInitiates(a) PROVE attempt' = attempt
    BY <2>2 DEF BookingCloses, vars, FanHeartbeat, MarkReads
  <2>3. attempt \in [Attempt -> CallStatus]
    BY DEF DeliveryInv, MarksTyped
  <2> QED BY <2>1, <2>2, <2>3
<1>4. ClocksTyped' /\ RanRises
  BY <1>1, <1>2, Attempts DEF DeliveryInv, ClocksTyped, RanRises
<1>5. EndsLater'
  BY <1>1, <1>3 DEF DeliveryInv, EndsLater, Live
<1> QED BY <1>1, <1>2, <1>3, <1>4, <1>5, ClocksRest

LEMMA RingSweepDelivers ==
  ASSUME DeliveryInv, SweepMissesRings
  PROVE  ClocksTyped' /\ EndsLater' /\ TimeCovered' /\ DeliveredInFull'
<1>1. UNCHANGED <<booking, rung, since, left, ran>> /\ UNCHANGED clocks
  BY DEF SweepMissesRings, clocks
<1>2. \A x \in Attempt :
        attempt'[x] = attempt[x] \/ attempt'[x] = "MISSED_FAN_NO_JOIN"
  BY DEF SweepMissesRings
<1>3. ClocksTyped' /\ RanRises
  BY <1>1, Attempts DEF DeliveryInv, ClocksTyped, RanRises
<1>4. EndsLater'
  BY <1>1, <1>2 DEF DeliveryInv, EndsLater, Live
<1> QED BY <1>1, <1>2, <1>3, <1>4, ClocksRest

\* A join is granted what the others have left of the booked time.
LEMMA JoinDelivers ==
  ASSUME DeliveryInv, NEW a \in Attempt, FanJoins(a)
  PROVE  ClocksTyped' /\ EndsLater' /\ TimeCovered' /\ DeliveredInFull'
<1> DEFINE S == {x \in Attempt \ {a} : Counts(x)}
<1>1. /\ attempt[a] = "PARTNER_INITIATED" /\ attempt' = [attempt EXCEPT ![a] = "IN_PROGRESS"]
      /\ since' = [since EXCEPT ![a] = 0] /\ left' = [left EXCEPT ![a] = Rest(a)]
      /\ UNCHANGED <<booking, rung, ran>>
  BY DEF FanJoins
<1>2. ran \in [Attempt -> Nat] /\ ran' \in [Attempt -> Nat] /\ RanRises
  BY <1>1, Attempts DEF DeliveryInv, ClocksTyped, RanRises
<1>3. /\ Consumed(a) \in Nat /\ Others(a) \in Nat /\ Consumed(a) <= Others(a)
  <2>1. Attempt \ {a} \in SUBSET Attempt /\ S \in SUBSET (Attempt \ {a}) /\ S \in SUBSET Attempt
    OBVIOUS
  <2>2. Consumed(a) = SumFunctionOnSet(ran, S) /\ Others(a) = SumFunctionOnSet(ran, Attempt \ {a})
    BY DEF Consumed, Others
  <2> HIDE DEF S
  <2> QED BY <1>2, <2>1, <2>2, RanSums
<1>4. Rest(a) \in 0..Duration /\ Rest(a) + Others(a) >= Duration
  BY <1>3, Attempts DEF Rest, AtLeastZero
<1>5. ClocksTyped'
  BY <1>1, <1>4, Attempts DEF DeliveryInv, ClocksTyped
<1>6. EndsLater'
  BY <1>1 DEF DeliveryInv, MarksTyped, ClocksTyped, EndsLater, Live, AtLeastZero
<1>7. ASSUME NEW x \in Attempt, attempt'[x] = "IN_PROGRESS"
      PROVE  since'[x] + left'[x] + Others(x)' >= Duration
  <2>1. CASE x = a
    <3>1. Others(a)' = Others(a)
      BY <1>1 DEF Others
    <3>2. since'[a] = 0 /\ left'[a] = Rest(a)
      BY <1>1 DEF DeliveryInv, ClocksTyped
    <3> QED BY <1>3, <1>4, <2>1, <3>1, <3>2
  <2>2. CASE x # a
    <3>1. attempt[x] = "IN_PROGRESS" /\ since'[x] = since[x] /\ left'[x] = left[x]
      BY <1>1, <1>7, <2>2 DEF DeliveryInv, MarksTyped, ClocksTyped
    <3>2. since[x] \in Int /\ left[x] \in Nat
      BY Attempts DEF DeliveryInv, ClocksTyped
    <3> QED BY <1>2, <1>5, <3>1, <3>2, CoveredStays
  <2> QED BY <2>1, <2>2
<1>8. TimeCovered'
  BY <1>7 DEF TimeCovered
<1> QED BY <1>1, <1>2, <1>5, <1>6, <1>8, DeliveredStays

\* An attempt that completes its booking has run to within the slack of what the others
\* left; one that nobody confirmed counts for nothing.
LEMMA CompletionDelivers ==
  ASSUME DeliveryInv, NEW a \in Attempt, NEW auto \in BOOLEAN, Completes(a, auto),
         auto => PastDeadline(a)
  PROVE  ClocksTyped' /\ EndsLater' /\ TimeCovered' /\ DeliveredInFull'
<1> DEFINE delivered == ~Unconfirmed(a) /\ (auto \/ OwedDelivered(a))
<1>1. /\ attempt[a] = "IN_PROGRESS"
      /\ ran' = [ran EXCEPT ![a] = IF Unconfirmed(a) THEN 0 ELSE since[a]]
      /\ booking' = IF delivered /\ booking = "BOOKED" THEN "COMPLETED_SUCCESSFUL" ELSE booking
      /\ UNCHANGED <<rung, since, left>>
  BY DEF Completes, clocks
<1>2. /\ attempt'[a] \in {"COMPLETED_SUCCESSFUL", "DROPPED_TECHNICAL_ISSUE"}
      /\ \A x \in Attempt \ {a} : attempt'[x] = attempt[x]
  BY DEF Completes, DeliveryInv, MarksTyped
<1>3. ran[a] = 0 /\ since[a] \in 0..MaxRun
  BY <1>1, Attempts DEF DeliveryInv, EndsLater, Live, ClocksTyped
<1>4. ClocksTyped' /\ RanRises
  BY <1>1, <1>3, Attempts DEF DeliveryInv, ClocksTyped, RanRises
<1>5. EndsLater'
  <2>1. ran'[a] <= AtLeastZero(since[a]) /\ \A x \in Attempt \ {a} : ran'[x] = ran[x]
    BY <1>1, <1>3, Attempts DEF DeliveryInv, ClocksTyped, AtLeastZero
  <2> QED BY <1>1, <1>2, <2>1 DEF DeliveryInv, EndsLater, Live
<1>6. ASSUME NEW x \in Attempt, attempt'[x] = "IN_PROGRESS"
      PROVE  since'[x] + left'[x] + Others(x)' >= Duration
  <2>1. attempt[x] = "IN_PROGRESS" /\ since'[x] = since[x] /\ left'[x] = left[x]
    BY <1>1, <1>2, <1>6
  <2>2. since[x] \in Int /\ left[x] \in Nat
    BY Attempts DEF DeliveryInv, ClocksTyped
  <2> QED BY <1>4, <2>1, <2>2, CoveredStays
<1>7. TimeCovered'
  BY <1>6 DEF TimeCovered
<1>8. CASE ~delivered
  BY <1>1, <1>4, <1>5, <1>7, <1>8, DeliveredStays
<1>9. CASE delivered
  <2>1. left[a] <= Slack /\ ran'[a] = since[a]
    BY <1>1, <1>9, Attempts DEF PastDeadline, OwedDelivered, DeliveryInv, ClocksTyped
  <2>2. /\ ran \in [Attempt -> Nat] /\ ran' \in [Attempt -> Nat]
        /\ Attempt \in SUBSET Attempt /\ Attempt \ {a} \in SUBSET Attempt
    BY <1>4, Attempts DEF DeliveryInv, ClocksTyped
  <2>3. SumFunctionOnSet(ran', Attempt) = ran'[a] + SumFunctionOnSet(ran', Attempt \ {a})
    BY <2>2, RanSums
  <2>4. Others(a) <= SumFunctionOnSet(ran', Attempt \ {a})
    BY <2>2, <1>4, RanSums DEF Others, RanRises
  <2>5. SumFunctionOnSet(ran', Attempt \ {a}) \in Nat /\ Others(a) \in Nat
    BY <2>2, RanSums DEF Others
  <2>6. since[a] + left[a] + Others(a) >= Duration /\ since[a] \in Int /\ left[a] \in Nat
    BY <1>1, Attempts DEF DeliveryInv, TimeCovered, ClocksTyped
  <2>7. SumFunctionOnSet(ran', Attempt) >= Duration - Slack
    BY <2>1, <2>3, <2>4, <2>5, <2>6, Attempts
  <2> QED BY <1>4, <1>5, <1>7, <2>7 DEF DeliveredInFull
<1> QED BY <1>8, <1>9

\* A mark written late ends its attempt later, if it had ended.
LEMMA MarkDelivers ==
  ASSUME DeliveryInv, NEW c \in Caller, MarkWrites(c)
  PROVE  ClocksTyped' /\ EndsLater' /\ TimeCovered' /\ DeliveredInFull'
<1> DEFINE a == marking[c].call
           s == marking[c].status
<1>1. a \in Attempt /\ s \in MarkStatus
  BY DEF MarkWrites, DeliveryInv, MarksTyped, MarkOf
<1>2. /\ attempt' = [attempt EXCEPT ![a] = s]
      /\ ran' = [ran EXCEPT ![a] = AtLeastZero(since[a])]
      /\ UNCHANGED <<booking, rung, since, left, clocks>>
  BY DEF MarkWrites, clocks
<1> HIDE DEF a, s
<1>3. since[a] \in -1..MaxRun /\ AtLeastZero(since[a]) \in 0..MaxRun /\ ran[a] <= AtLeastZero(since[a])
  BY <1>1, Attempts DEF DeliveryInv, ClocksTyped, AtLeastZero, EndsLater
<1>4. ClocksTyped' /\ RanRises
  BY <1>1, <1>2, <1>3, Attempts DEF DeliveryInv, ClocksTyped, RanRises
<1>5. /\ attempt'[a] \notin Live \cup {"NONE"} /\ "IN_PROGRESS" \in Live
      /\ \A x \in Attempt \ {a} : attempt'[x] = attempt[x] /\ ran'[x] = ran[x]
      /\ ran'[a] = AtLeastZero(since[a])
  BY <1>1, <1>2 DEF DeliveryInv, MarksTyped, ClocksTyped, MarkStatus, RingOutcome, Live
<1>6. EndsLater'
  BY <1>2, <1>3, <1>5, Attempts DEF DeliveryInv, EndsLater
<1>7. \A x \in Attempt : attempt'[x] = "IN_PROGRESS" => attempt[x] = "IN_PROGRESS"
  BY <1>5
<1> QED BY <1>2, <1>4, <1>6, <1>7, ClocksRest

LEMMA TickDelivers ==
  ASSUME DeliveryInv, Tick
  PROVE  ClocksTyped' /\ EndsLater' /\ TimeCovered' /\ DeliveredInFull'
<1>1. UNCHANGED <<booking, attempt, ran>>
  BY DEF Tick
<1>2. rung' \in [Attempt -> 0..RingWindow + 1]
  BY Attempts DEF Tick, DeliveryInv, ClocksTyped, AtMost
<1>3. since' \in [Attempt -> -1..MaxRun]
  BY Attempts DEF Tick, DeliveryInv, ClocksTyped, AtMost
<1>4. left' \in [Attempt -> 0..Duration]
  BY Attempts DEF Tick, DeliveryInv, ClocksTyped, AtLeastZero
<1>5. ClocksTyped' /\ RanRises
  BY <1>1, <1>2, <1>3, <1>4, Attempts DEF DeliveryInv, ClocksTyped, RanRises
<1>6. ASSUME NEW x \in Attempt
      PROVE  /\ since[x] \in -1..MaxRun /\ since'[x] >= since[x]
             /\ attempt[x] = "IN_PROGRESS" => \/ since'[x] + left'[x] >= since[x] + left[x]
                                             \/ since'[x] = MaxRun
  <2>1. since[x] \in -1..MaxRun /\ left[x] \in 0..Duration
    BY DEF DeliveryInv, ClocksTyped
  <2>2. /\ since'[x] = IF Running(x) /\ since[x] >= 0 THEN AtMost(since[x] + 1, MaxRun) ELSE since[x]
        /\ left'[x] = AtLeastZero(left[x] - 1)
    BY DEF Tick
  <2>3. attempt[x] = "IN_PROGRESS" => Running(x) /\ since[x] >= 0
    BY DEF Running, DeliveryInv, EndsLater
  <2> QED BY <2>1, <2>2, <2>3, Attempts DEF AtMost, AtLeastZero
<1>7. EndsLater'
  <2>1. ASSUME NEW x \in Attempt PROVE ran[x] <= AtLeastZero(since'[x])
    <3>1. ran[x] <= AtLeastZero(since[x]) /\ ran[x] \in Int /\ since'[x] \in Int
      BY <1>3, Attempts DEF DeliveryInv, EndsLater, ClocksTyped
    <3> QED BY <1>6, <3>1, Attempts DEF AtLeastZero
  <2>2. ASSUME NEW x \in Attempt, attempt[x] = "IN_PROGRESS" PROVE since'[x] >= 0
    <3>1. since[x] >= 0 /\ since'[x] \in Int
      BY <1>3, <2>2, Attempts DEF DeliveryInv, EndsLater
    <3> QED BY <1>6, <3>1, Attempts
  <2> QED BY <1>1, <2>1, <2>2 DEF DeliveryInv, EndsLater
<1>8. TimeCovered'
  BY <1>1, <1>5, <1>6, CoveredStays DEF TimeCovered
<1> QED BY <1>1, <1>5, <1>7, <1>8, DeliveredStays

LEMMA DeliveryKept == DeliveryInv /\ [Next]_vars => DeliveryInv'
<1> SUFFICES ASSUME DeliveryInv, [Next]_vars PROVE DeliveryInv'
  OBVIOUS
<1> DEFINE Kept == ClocksTyped' /\ EndsLater' /\ TimeCovered' /\ DeliveredInFull'
<1>1. MarksTyped'
  BY CallStep DEF DeliveryInv
<1>2. ASSUME \/ BookingCloses \/ UNCHANGED vars
             \/ \E a \in Attempt : \/ PartnerInitiates(a)
                                 \/ \E present \in BOOLEAN : FanHeartbeat(a, present)
             \/ \E c \in Caller, a \in Attempt, s \in MarkStatus : MarkReads(c, a, s)
      PROVE  Kept
  BY <1>2, QuietSteps
<1>3. ASSUME NEW a \in Attempt, ParticipantCompletes(a) \/ SweepCompletes(a) PROVE Kept
  <2>1. PICK auto \in BOOLEAN : Completes(a, auto) /\ (auto => PastDeadline(a))
    BY <1>3 DEF ParticipantCompletes, SweepCompletes
  <2> QED BY <2>1, CompletionDelivers
<1>4. Kept
  BY <1>2, <1>3, RingSweepDelivers, JoinDelivers, MarkDelivers, TickDelivers DEF Next
<1> QED BY <1>1, <1>4 DEF DeliveryInv

\* The calls of a booking complete it only when they ran for the booked time between
\* them, but for the slack in front of the last deadline: for any number of attempts,
\* dropped, resumed, connected side by side, and marked late by any number of callers.
THEOREM AlwaysDeliveredInFull == Spec => []DeliveredInFull
<1>1. DeliveryInv => DeliveredInFull
  BY DEF DeliveryInv
<1> QED BY InitDelivery, DeliveryKept, <1>1, PTL DEF Spec

\* The types of the attempts.  That no deadline is past the booked time is what needs
\* an argument: no attempt runs for less than nothing, so a sum of them takes none away.
THEOREM CallsAlwaysTyped == Spec => []CallTypeOK
<1>1. DeliveryInv => CallTypeOK
  BY DEF DeliveryInv, MarksTyped, Mark, ClocksTyped, CallTypeOK
<1> QED BY InitDelivery, DeliveryKept, <1>1, PTL DEF Spec
==============================================================================
