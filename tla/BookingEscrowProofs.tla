------------------------ MODULE BookingEscrowProofs ------------------------
(***************************************************************************)
(* What holds of BookingEscrow for every set of bookings, prices, windows  *)
(* and call outcomes, and of the creator's earnings under sweeps that      *)
(* overlap (BookingSweepRace).                                             *)
(***************************************************************************)
EXTENDS BookingSweepRace, SetSums, TLAPS

LedgerTypeOK ==
  /\ wallet \in [Booking -> Int] /\ escrow \in [Booking -> Int]
  /\ payable \in [Booking -> Nat] /\ promo \in [Booking -> Int]
  /\ posted \in [Booking -> SUBSET Key]

RowsTypeOK ==
  /\ status \in [Booking -> BookingStatus]
  /\ remaining \in [Booking -> -1..Window]
  /\ earning \in [Booking -> Nat]

EventsTypeOK ==
  /\ live \in [Booking -> 0..MaxLive]
  /\ ends \in [Booking -> SUBSET End]
  /\ longest \in [Booking -> Level]
  /\ report \in [Booking -> {"none", "open", "closed"}]
  /\ bookedMinutes \in Nat /\ threshold \in Nat

LEMMA Statuses ==
  /\ Expired \subseteq BookingStatus
  /\ {"NONE", "BOOKED", "COMPLETED_SUCCESSFUL", "REQUIRES_ADMIN_REVIEW",
      "CANCELLED_BY_FAN", "CANCELLED_BY_ADMIN"} \subseteq BookingStatus
BY DEF BookingStatus

\* A transaction whose payable leg is not negative keeps the ledger typed.
LEMMA PostTyped ==
  ASSUME LedgerTypeOK, NEW b \in Booking, NEW keys \in SUBSET Key,
         NEW w \in Int, NEW e \in Int, NEW p \in Nat, NEW d \in Int,
         Post(b, keys, w, e, p, d)
  PROVE  LedgerTypeOK'
<1>1. CASE keys \cap posted[b] # {}
  BY <1>1 DEF Post, LedgerTypeOK, ledger
<1>2. CASE keys \cap posted[b] = {}
  BY <1>2 DEF Post, LedgerTypeOK
<1> QED BY <1>1, <1>2

LEMMA UnwindTyped ==
  ASSUME LedgerTypeOK, NEW b \in Booking, NEW key \in Key, Unwind(b, key)
  PROVE  LedgerTypeOK'
<1>1. Price(b) \in Int /\ -Gross[b] \in Int /\ Discount[b] \in Int
  BY BookingAssumption DEF Price
<1> QED BY <1>1, PostTyped DEF Unwind

LEMMA ReleasedTyped ==
  ASSUME bookedMinutes \in Nat, NEW b \in Booking
  PROVE  Released(b) \in Nat
BY BookingAssumption DEF Released, AtLeastZero

LEMMA ClassifyTyped ==
  ASSUME NEW b \in Booking, longest[b] \in Level
  PROVE  Classify(b) \in BookingStatus
BY DEF Classify, BookingStatus, Expired, Level

LEMMA ExpireTyped ==
  ASSUME TypeOK, NEW b \in Booking, NEW s \in BookingStatus, ExpireAs(b, s)
  PROVE  TypeOK'
<1>1. LedgerTypeOK
  BY DEF TypeOK, LedgerTypeOK
<1>2. LedgerTypeOK' /\ bookedMinutes' \in Nat
  <2>1. CASE s \in Expired
    BY <1>1, <2>1, UnwindTyped, ReleasedTyped DEF ExpireAs, TypeOK, Key
  <2>2. CASE s \notin Expired
    BY <1>1, <2>2 DEF ExpireAs, TypeOK, LedgerTypeOK, ledger
  <2> QED BY <2>1, <2>2
<1>3. RowsTypeOK'
  <2>1. remaining' \in [Booking -> -1..Window]
    BY BookingAssumption DEF ExpireAs, TypeOK
  <2> QED BY <2>1 DEF ExpireAs, TypeOK, RowsTypeOK
<1>4. EventsTypeOK'
  BY <1>2 DEF ExpireAs, TypeOK, EventsTypeOK, calls
<1> QED BY <1>2, <1>3, <1>4 DEF TypeOK, LedgerTypeOK, RowsTypeOK, EventsTypeOK

LEMMA SettleTyped ==
  ASSUME TypeOK, NEW b \in Booking, SettleBooking(b)
  PROVE  TypeOK'
<1>1. Gross[b] \in Nat /\ -Gross[b] \in Int /\ {"settle"} \in SUBSET Key
  BY BookingAssumption DEF Key
<1>2. LedgerTypeOK'
  <2>1. LedgerTypeOK /\ Post(b, {"settle"}, 0, -Gross[b], Gross[b], 0)
    BY DEF SettleBooking, TypeOK, LedgerTypeOK
  <2> QED BY <1>1, <2>1, PostTyped
<1>3. RowsTypeOK'
  BY <1>1 DEF SettleBooking, TypeOK, RowsTypeOK
<1>4. EventsTypeOK'
  BY DEF SettleBooking, TypeOK, EventsTypeOK, calls, availability
<1> QED BY <1>2, <1>3, <1>4 DEF TypeOK, LedgerTypeOK, RowsTypeOK, EventsTypeOK

\* One attempt more, below the bound, or one fewer: their number stays typed.
LEMMA OneMore ==
  ASSUME TypeOK, NEW b \in Booking, live[b] < MaxLive
  PROVE  [live EXCEPT ![b] = @ + 1] \in [Booking -> 0..MaxLive]
<1>1. live \in [Booking -> 0..MaxLive] /\ MaxLive \in Nat
  BY BookingAssumption DEF TypeOK
<1>2. live[b] + 1 \in 0..MaxLive
  BY <1>1
<1> QED BY <1>1, <1>2

LEMMA OneFewer ==
  ASSUME TypeOK, NEW b \in Booking, live[b] > 0
  PROVE  [live EXCEPT ![b] = @ - 1] \in [Booking -> 0..MaxLive]
<1>1. live \in [Booking -> 0..MaxLive] /\ MaxLive \in Nat
  BY BookingAssumption DEF TypeOK
<1>2. live[b] - 1 \in 0..MaxLive
  BY <1>1
<1> QED BY <1>1, <1>2

\* An admin step is one of the six overrides, and one the instance includes.
LEMMA Overrides ==
  ASSUME NEW b \in Booking, AdminNext(b)
  PROVE  \/ ForceSettle(b)
         \/ "expire" \in AdminOps
              /\ \E s \in Expired \cup {"COMPLETED_SUCCESSFUL"} : AdminExpire(b, s)
         \/ "recover" \in AdminOps /\ \E level \in Level : RecoverCall(b, level)
         \/ \E p \in CreatorShare : ResolvePartialCall(b, p)
         \/ \E s \in {"open", "closed"} : ResolveReport(b, s)
         \/ "report_refund" \in AdminOps
              /\ \E a \in 1..Gross[b], s \in {"open", "closed"} : ResolveReportRefund(b, a, s)
<1>1. PICK op \in AdminOps :
        /\ op = "force_settle" => ForceSettle(b)
        /\ op = "expire" => \E s \in Expired \cup {"COMPLETED_SUCCESSFUL"} : AdminExpire(b, s)
        /\ op = "recover" => \E level \in Level : RecoverCall(b, level)
        /\ op = "partial" => \E p \in CreatorShare : ResolvePartialCall(b, p)
        /\ op = "report_close" => \E s \in {"open", "closed"} : ResolveReport(b, s)
        /\ op = "report_refund" =>
             \E a \in 1..Gross[b], s \in {"open", "closed"} : ResolveReportRefund(b, a, s)
  BY Zenon DEF AdminNext
<1>2. op \in {"force_settle", "expire", "recover", "partial", "report_close", "report_refund"}
  BY BookingAssumption
<1> QED BY <1>1, <1>2

LEMMA AdminTyped ==
  ASSUME TypeOK, NEW b \in Booking, AdminNext(b)
  PROVE  TypeOK'
<1>1. CASE ForceSettle(b)
  BY <1>1, SettleTyped DEF ForceSettle
<1>2. ASSUME NEW s \in Expired \cup {"COMPLETED_SUCCESSFUL"}, AdminExpire(b, s)
      PROVE  TypeOK'
  <2>1. LedgerTypeOK' /\ bookedMinutes' \in Nat
    <3>1. CASE s \in Expired
      BY <1>2, <3>1, UnwindTyped, ReleasedTyped DEF AdminExpire, TypeOK, LedgerTypeOK, Key
    <3>2. CASE s \notin Expired
      BY <1>2, <3>2 DEF AdminExpire, TypeOK, LedgerTypeOK, ledger
    <3> QED BY <3>1, <3>2
  <2>2. RowsTypeOK'
    BY <1>2, Statuses DEF AdminExpire, TypeOK, RowsTypeOK
  <2>3. EventsTypeOK'
    BY <1>2, <2>1 DEF AdminExpire, TypeOK, EventsTypeOK, calls
  <2> QED BY <2>1, <2>2, <2>3 DEF TypeOK, LedgerTypeOK, RowsTypeOK, EventsTypeOK
<1>3. ASSUME NEW level \in Level, RecoverCall(b, level)
      PROVE  TypeOK'
  <2>1. LedgerTypeOK'
    BY <1>3 DEF RecoverCall, TypeOK, LedgerTypeOK, ledger
  <2>2. RowsTypeOK'
    BY <1>3, Statuses DEF RecoverCall, TypeOK, RowsTypeOK, Expired
  <2>3. EventsTypeOK'
    <3>1. CASE live[b] > 0
      <4>1. "DROPPED_TECHNICAL_ISSUE" \in End
        BY DEF End
      <4>2. AttemptOver(b, "DROPPED_TECHNICAL_ISSUE", level) /\ UNCHANGED <<report, availability>>
        BY <1>3, <3>1 DEF RecoverCall
      <4>3. live' \in [Booking -> 0..MaxLive]
        BY <3>1, <4>2, OneFewer DEF AttemptOver
      <4> QED BY <4>1, <4>2, <4>3 DEF AttemptOver, TypeOK, EventsTypeOK, availability
    <3>2. CASE live[b] = 0
      BY <1>3, <3>2 DEF RecoverCall, TypeOK, EventsTypeOK, calls, availability
    <3>3. live[b] \in Nat
      BY BookingAssumption DEF TypeOK
    <3> QED BY <3>1, <3>2, <3>3
  <2> QED BY <2>1, <2>2, <2>3 DEF TypeOK, LedgerTypeOK, RowsTypeOK, EventsTypeOK
<1>4. ASSUME NEW p \in CreatorShare, ResolvePartialCall(b, p)
      PROVE  TypeOK'
  <2> DEFINE c == IF "partial-settle" \in posted[b] THEN 0 ELSE p
             f == IF "partial-refund" \in posted[b] THEN 0 ELSE AtLeastZero(Gross[b] - p)
             keys == {k \in {"partial-settle"} : c > 0} \cup {k \in {"partial-refund"} : f > 0}
  <2>1. p \in Nat /\ c \in Nat /\ f \in Nat /\ keys \subseteq Key
    BY BookingAssumption DEF AtLeastZero, Key
  <2>2. Post(b, keys, f, -(c + f), c, 0)
    BY <1>4 DEF ResolvePartialCall
  <2> HIDE DEF c, f, keys
  <2>3. LedgerTypeOK'
    <3>1. LedgerTypeOK
      BY DEF TypeOK, LedgerTypeOK
    <3>2. -(c + f) \in Int /\ f \in Int /\ 0 \in Int
      BY <2>1
    <3> QED BY <2>1, <2>2, <3>1, <3>2, PostTyped
  <2>4. RowsTypeOK'
    BY <1>4, <2>1, Statuses DEF ResolvePartialCall, PartEarned, TypeOK, RowsTypeOK
  <2>5. EventsTypeOK'
    BY <1>4 DEF ResolvePartialCall, TypeOK, EventsTypeOK, calls, availability
  <2> QED BY <2>3, <2>4, <2>5 DEF TypeOK, LedgerTypeOK, RowsTypeOK, EventsTypeOK
<1>5. ASSUME NEW s \in {"open", "closed"}, ResolveReport(b, s)
      PROVE  TypeOK'
  BY <1>5 DEF ResolveReport, TypeOK, calls, ledger, availability
<1>6. ASSUME NEW a \in 1..Gross[b], NEW s \in {"open", "closed"},
             ResolveReportRefund(b, a, s)
      PROVE  TypeOK'
  <2> DEFINE v == IF a < Price(b) THEN a ELSE Price(b)
  <2>1. v \in Int /\ -v \in Int
    BY BookingAssumption DEF Price
  <2>2. Post(b, {"report-refund"}, v, -v, 0, 0)
    BY <1>6 DEF ResolveReportRefund
  <2> HIDE DEF v
  <2>3. LedgerTypeOK'
    <3>1. LedgerTypeOK /\ {"report-refund"} \in SUBSET Key
      BY DEF TypeOK, LedgerTypeOK, Key
    <3> QED BY <2>1, <2>2, <3>1, PostTyped
  <2>4. RowsTypeOK'
    BY <1>6, Statuses DEF ResolveReportRefund, TypeOK, RowsTypeOK
  <2>5. EventsTypeOK'
    BY <1>6 DEF ResolveReportRefund, TypeOK, EventsTypeOK, calls, availability
  <2> QED BY <2>3, <2>4, <2>5 DEF TypeOK, LedgerTypeOK, RowsTypeOK, EventsTypeOK
<1> QED BY <1>1, <1>2, <1>3, <1>4, <1>5, <1>6, Overrides

LEMMA BookTyped ==
  ASSUME TypeOK, NEW b \in Booking, BookVideoCall(b)
  PROVE  TypeOK'
<1>1. -Price(b) \in Int /\ Gross[b] \in Int /\ -Discount[b] \in Int
  BY BookingAssumption DEF Price
<1>2. LedgerTypeOK'
  BY <1>1, PostTyped DEF BookVideoCall, TypeOK, LedgerTypeOK, Key
<1>3. RowsTypeOK'
  BY BookingAssumption, Statuses DEF BookVideoCall, TypeOK, RowsTypeOK
<1>4. EventsTypeOK'
  <2>1. bookedMinutes' \in Nat
    <3>1. Minutes[b] \in Nat /\ bookedMinutes \in Nat
      BY BookingAssumption DEF TypeOK
    <3>2. bookedMinutes' = bookedMinutes + Minutes[b]
      BY DEF BookVideoCall
    <3> QED BY <3>1, <3>2
  <2> QED BY <2>1 DEF BookVideoCall, TypeOK, EventsTypeOK, calls
<1> QED BY <1>2, <1>3, <1>4 DEF TypeOK, LedgerTypeOK, RowsTypeOK, EventsTypeOK

LEMMA RefundTyped ==
  ASSUME TypeOK, NEW b \in Booking, RefundBooking(b)
  PROVE  TypeOK'
<1>1. LedgerTypeOK' /\ bookedMinutes' \in Nat
  BY UnwindTyped, ReleasedTyped DEF RefundBooking, TypeOK, LedgerTypeOK, Key
<1>2. RowsTypeOK'
  BY Statuses DEF RefundBooking, TypeOK, RowsTypeOK
<1>3. EventsTypeOK'
  BY <1>1 DEF RefundBooking, TypeOK, EventsTypeOK, calls
<1> QED BY <1>1, <1>2, <1>3 DEF TypeOK, LedgerTypeOK, RowsTypeOK, EventsTypeOK

LEMMA CallTyped ==
  ASSUME TypeOK, NEW b \in Booking,
         \/ CallStarts(b) \/ FileReport(b)
         \/ \E o \in Outcome : CallEnds(b, o[1], o[2])
  PROVE  TypeOK'
<1>1. CASE CallStarts(b)
  BY <1>1, OneMore DEF CallStarts, TypeOK, ledger, availability
<1>2. CASE FileReport(b)
  BY <1>2 DEF FileReport, TypeOK, calls, ledger, availability
<1>3. ASSUME NEW o \in Outcome, CallEnds(b, o[1], o[2])
      PROVE  TypeOK'
  <2>1. o[1] \in End /\ o[2] \in Level
    BY BookingAssumption
  <2>2. LedgerTypeOK' /\ RowsTypeOK'
    BY <1>3, Statuses DEF CallEnds, TypeOK, LedgerTypeOK, RowsTypeOK, ledger
  <2>3. live' \in [Booking -> 0..MaxLive]
    BY <1>3, OneFewer DEF CallEnds, AttemptOver
  <2>4. EventsTypeOK'
    BY <1>3, <2>1, <2>3 DEF CallEnds, AttemptOver, TypeOK, EventsTypeOK, availability
  <2> QED BY <2>2, <2>4 DEF TypeOK, LedgerTypeOK, RowsTypeOK, EventsTypeOK
<1> QED BY <1>1, <1>2, <1>3

LEMMA StepTyped ==
  ASSUME TypeOK, [Next]_vars
  PROVE  TypeOK'
<1>1. CASE Tick
  <2>1. remaining' \in [Booking -> -1..Window]
    BY <1>1, BookingAssumption DEF Tick, TypeOK
  <2> QED BY <1>1, <2>1 DEF Tick, TypeOK, calls, ledger, availability
<1>2. ASSUME NEW m \in Thresholds, SetAvailability(m)
      PROVE  TypeOK'
  BY <1>2, BookingAssumption DEF SetAvailability, TypeOK, calls, ledger
<1>3. ASSUME NEW b \in Booking, SweepExpired(b)
      PROVE  TypeOK'
  BY <1>3, ExpireTyped, ClassifyTyped DEF SweepExpired, TypeOK
<1>4. ASSUME NEW b \in Booking, JobSettle(b)
      PROVE  TypeOK'
  BY <1>4, SettleTyped DEF JobSettle
<1>5. CASE UNCHANGED vars
  BY <1>5 DEF vars, TypeOK, calls, ledger, availability
<1> QED
  BY <1>1, <1>2, <1>3, <1>4, <1>5, BookTyped, RefundTyped, CallTyped, AdminTyped
  DEF Next, LifecycleNext

\* Every variable keeps its type, and in particular the creator is never owed
\* a negative amount and a date never counts negative minutes, whatever
\* overrides the admins may use.
THEOREM TypeCorrect == Spec => []TypeOK
<1>1. Init => TypeOK
  BY BookingAssumption DEF Init, TypeOK, BookingStatus, Level
<1> QED BY <1>1, StepTyped, PTL DEF Spec

------------------------------------------------------------------------------
(* Escrow accounting, without the overrides that bypass the status gates    *)

\* The overrides that look at neither the status nor the money (expire,
\* recover, refund of a report) stay out, and no split gives the creator
\* nothing or more than the price: each of the three breaks what follows.
GatedOverrides ==
  /\ AdminOps \cap {"expire", "recover", "report_refund"} = {}
  /\ \A b \in Booking, p \in CreatorShare : 0 < p /\ p <= Gross[b]

NoRow(b) ==
  /\ posted[b] = {} /\ earning[b] = 0
  /\ wallet[b] = 0 /\ escrow[b] = 0 /\ payable[b] = 0 /\ promo[b] = 0

\* Only the booking's own transaction is posted, and escrow has all of it.
Held(b) ==
  /\ posted[b] = {"book"} /\ earning[b] = 0
  /\ wallet[b] = -Price(b) /\ escrow[b] = Gross[b]
  /\ payable[b] = 0 /\ promo[b] = -Discount[b]

\* Escrow is empty, and what left it went to the creator and the payer.
Disbursed(b) ==
  /\ "book" \in posted[b] /\ escrow[b] = 0
  /\ wallet[b] + promo[b] + payable[b] = 0

\* The ledger of a booking is what its status and its earning say it is.
Accounted(b) ==
  /\ status[b] # "CANCELLED_BY_ADMIN"
  /\ status[b] = "NONE" => NoRow(b)
  /\ Unresolved(b) => Held(b)
  /\ status[b] # "NONE" /\ ~Unresolved(b) => Disbursed(b)

AllAccounted == \A b \in Booking : Accounted(b)

\* Nothing that booking x is accounted by changes.
Untouched(x) ==
  /\ status'[x] = status[x] /\ earning'[x] = earning[x] /\ posted'[x] = posted[x]
  /\ wallet'[x] = wallet[x] /\ escrow'[x] = escrow[x]
  /\ payable'[x] = payable[x] /\ promo'[x] = promo[x]

LEMMA UntouchedAccounted ==
  ASSUME NEW x \in Booking, Accounted(x), Untouched(x)
  PROVE  Accounted(x)'
BY DEF Untouched, Accounted, NoRow, Held, Disbursed, Unresolved, Price

\* The ledger of every booking but b is as it was.
OthersKept(b) ==
  \A x \in Booking \ {b} :
    /\ posted'[x] = posted[x]
    /\ wallet'[x] = wallet[x] /\ escrow'[x] = escrow[x]
    /\ payable'[x] = payable[x] /\ promo'[x] = promo[x]

\* The legs of a transaction under fresh keys, added to booking b.
Landed(b, keys, w, e, p, d) ==
  /\ posted'[b] = posted[b] \cup keys
  /\ wallet'[b] = wallet[b] + w /\ escrow'[b] = escrow[b] + e
  /\ payable'[b] = payable[b] + p /\ promo'[b] = promo[b] + d

\* The two ways money moves: a price taken into escrow, and an escrow emptied.
Taken(b) == NoRow(b) /\ Held(b)' /\ OthersKept(b)
PaidOut(b) ==
  /\ Held(b) /\ Disbursed(b)' /\ OthersKept(b)
  /\ payable'[b] \in 0..Gross[b]
MoneyMoves == \E b \in Booking : Taken(b) \/ PaidOut(b)

\* A transaction under fresh keys adds its legs to the one booking.
LEMMA PostApplied ==
  ASSUME LedgerTypeOK, NEW b \in Booking, NEW keys, keys \cap posted[b] = {},
         NEW w, NEW e, NEW p, NEW d, Post(b, keys, w, e, p, d)
  PROVE  Landed(b, keys, w, e, p, d) /\ OthersKept(b)
BY DEF Post, LedgerTypeOK, Landed, OthersKept

LEMMA Prices ==
  \A b \in Booking : /\ Gross[b] \in Nat /\ Gross[b] > 0
                     /\ Discount[b] \in Nat /\ Price(b) \in Int
                     /\ Price(b) + Discount[b] = Gross[b]
BY BookingAssumption DEF Price

\* A refund of the exact booking legs empties the escrow of a held booking.
LEMMA UnwindDisburses ==
  ASSUME LedgerTypeOK, NEW b \in Booking, NEW key \in Key \ {"book"},
         Held(b), Unwind(b, key)
  PROVE  PaidOut(b)
<1>1. {key} \cap posted[b] = {}
  BY DEF Held
<1>2. Post(b, {key}, Price(b), -Gross[b], 0, Discount[b])
  BY DEF Unwind
<1>3. Landed(b, {key}, Price(b), -Gross[b], 0, Discount[b]) /\ OthersKept(b)
  BY <1>1, <1>2, PostApplied
<1>4. Disbursed(b)' /\ payable'[b] \in 0..Gross[b]
  BY <1>3, Prices DEF Landed, Held, Disbursed
<1> QED BY <1>3, <1>4 DEF PaidOut

LEMMA BookAccounted ==
  ASSUME TypeOK, AllAccounted, NEW b \in Booking, BookVideoCall(b)
  PROVE  AllAccounted' /\ Taken(b)
<1>1. LedgerTypeOK /\ NoRow(b) /\ status[b] = "NONE"
  BY DEF TypeOK, LedgerTypeOK, AllAccounted, Accounted, BookVideoCall, Exists
<1>2. {"book"} \cap posted[b] = {}
  BY <1>1 DEF NoRow
<1>3. Post(b, {"book"}, -Price(b), Gross[b], 0, -Discount[b])
  BY DEF BookVideoCall
<1>4. Landed(b, {"book"}, -Price(b), Gross[b], 0, -Discount[b]) /\ OthersKept(b)
  BY <1>1, <1>2, <1>3, PostApplied
<1>5. status'[b] = "BOOKED" /\ earning'[b] = 0
  BY <1>1 DEF BookVideoCall, TypeOK, NoRow
<1>6. Held(b)'
  BY <1>1, <1>4, <1>5, Prices DEF Landed, NoRow, Held, Price
<1>7. Accounted(b)'
  BY <1>5, <1>6 DEF Accounted, Unresolved
<1>8. ASSUME NEW x \in Booking, x # b
      PROVE  Untouched(x)
  BY <1>4, <1>8 DEF OthersKept, BookVideoCall, TypeOK, Untouched
<1> QED BY <1>1, <1>4, <1>6, <1>7, <1>8, UntouchedAccounted DEF AllAccounted, Taken

LEMMA RefundAccounted ==
  ASSUME TypeOK, AllAccounted, NEW b \in Booking, RefundBooking(b)
  PROVE  AllAccounted' /\ PaidOut(b)
<1>1. LedgerTypeOK /\ Held(b) /\ Unwind(b, "refund") /\ "refund" \in Key \ {"book"}
  BY DEF TypeOK, LedgerTypeOK, AllAccounted, Accounted, Unresolved, RefundBooking,
         Refundable, Key
<1>2. status'[b] = "CANCELLED_BY_FAN"
  BY DEF RefundBooking, TypeOK
<1>3. PaidOut(b)
  BY <1>1, UnwindDisburses
<1>4. Accounted(b)'
  BY <1>2, <1>3 DEF PaidOut, Accounted, Unresolved
<1>5. ASSUME NEW x \in Booking, x # b
      PROVE  Untouched(x)
  BY <1>3, <1>5 DEF PaidOut, OthersKept, RefundBooking, TypeOK, Untouched
<1> QED BY <1>3, <1>4, <1>5, UntouchedAccounted DEF AllAccounted

LEMMA SweepAccounted ==
  ASSUME TypeOK, AllAccounted, NEW b \in Booking, SweepExpired(b)
  PROVE  AllAccounted' /\ (PaidOut(b) \/ UNCHANGED ledger)
<1> DEFINE s == Classify(b)
<1>1. s \in Expired \cup {"COMPLETED_SUCCESSFUL", "REQUIRES_ADMIN_REVIEW"}
  BY DEF Classify, TypeOK, Level, Expired
<1>2. LedgerTypeOK /\ Held(b) /\ "expire" \in Key \ {"book"}
  BY DEF TypeOK, LedgerTypeOK, AllAccounted, Accounted, Unresolved, SweepExpired, Due, Key
<1>3. ExpireAs(b, s)
  BY DEF SweepExpired
<1> HIDE DEF s
<1>4. status'[b] = s /\ earning'[b] = earning[b]
  BY <1>3 DEF ExpireAs, TypeOK
<1>5. CASE s \in Expired
  <2>1. PaidOut(b)
    BY <1>2, <1>3, <1>5, UnwindDisburses DEF ExpireAs
  <2>2. Accounted(b)'
    BY <1>4, <1>5, <2>1 DEF PaidOut, Accounted, Unresolved, Expired
  <2>3. ASSUME NEW x \in Booking, x # b
        PROVE  Untouched(x)
    BY <1>3, <2>1, <2>3 DEF PaidOut, OthersKept, ExpireAs, TypeOK, Untouched
  <2> QED BY <2>1, <2>2, <2>3, UntouchedAccounted DEF AllAccounted
<1>6. CASE s \notin Expired
  <2>1. UNCHANGED ledger
    BY <1>3, <1>6 DEF ExpireAs
  <2>2. Held(b)'
    BY <1>2, <1>4, <2>1 DEF Held, ledger, Price
  <2>3. Accounted(b)'
    BY <1>1, <1>2, <1>4, <1>6, <2>2 DEF Accounted, Unresolved, Held
  <2>4. ASSUME NEW x \in Booking, x # b
        PROVE  Untouched(x)
    BY <1>3, <2>1, <2>4 DEF ExpireAs, TypeOK, Untouched, ledger
  <2> QED BY <2>1, <2>3, <2>4, UntouchedAccounted DEF AllAccounted
<1> QED BY <1>5, <1>6

LEMMA SettleAccounted ==
  ASSUME TypeOK, AllAccounted, NEW b \in Booking, SettleBooking(b)
  PROVE  AllAccounted' /\ PaidOut(b)
<1>1. LedgerTypeOK /\ Held(b) /\ status[b] = "COMPLETED_SUCCESSFUL"
  BY DEF TypeOK, LedgerTypeOK, AllAccounted, Accounted, Unresolved, SettleBooking, Settleable
<1>2. {"settle"} \cap posted[b] = {}
  BY <1>1 DEF Held
<1>3. Post(b, {"settle"}, 0, -Gross[b], Gross[b], 0)
  BY DEF SettleBooking
<1>4. Landed(b, {"settle"}, 0, -Gross[b], Gross[b], 0) /\ OthersKept(b)
  BY <1>1, <1>2, <1>3, PostApplied
<1>5. status'[b] = "COMPLETED_SUCCESSFUL" /\ earning'[b] = Gross[b]
  BY <1>1 DEF SettleBooking, TypeOK
<1>6. Disbursed(b)' /\ payable'[b] \in 0..Gross[b]
  <2>1. Disbursed(b)'
    BY <1>1, <1>4, Prices DEF Landed, Held, Disbursed
  <2>2. payable'[b] = Gross[b]
    BY <1>1, <1>4, Prices DEF Landed, Held
  <2> QED BY <2>1, <2>2, Prices
<1>7. Accounted(b)'
  BY <1>5, <1>6, Prices DEF Accounted, Unresolved
<1>8. ASSUME NEW x \in Booking, x # b
      PROVE  Untouched(x)
  BY <1>4, <1>8 DEF OthersKept, SettleBooking, TypeOK, Untouched
<1> QED BY <1>1, <1>4, <1>6, <1>7, <1>8, UntouchedAccounted DEF AllAccounted, PaidOut

LEMMA PartialAccounted ==
  ASSUME GatedOverrides, TypeOK, AllAccounted, NEW b \in Booking,
         NEW p \in CreatorShare, ResolvePartialCall(b, p)
  PROVE  AllAccounted' /\ PaidOut(b)
<1> DEFINE c == IF "partial-settle" \in posted[b] THEN 0 ELSE p
           f == IF "partial-refund" \in posted[b] THEN 0 ELSE AtLeastZero(Gross[b] - p)
           keys == {k \in {"partial-settle"} : c > 0} \cup {k \in {"partial-refund"} : f > 0}
<1>1. LedgerTypeOK /\ Held(b)
  BY DEF TypeOK, LedgerTypeOK, AllAccounted, Accounted, Unresolved, ResolvePartialCall
<1>2. p \in Nat /\ 0 < p /\ p <= Gross[b]
  BY BookingAssumption DEF GatedOverrides
<1>3. c = p /\ f = Gross[b] - p
  BY <1>1, <1>2, Prices DEF Held, AtLeastZero
<1>4. keys \cap posted[b] = {}
  BY <1>1 DEF Held
<1>5. Post(b, keys, f, -(c + f), c, 0)
  BY DEF ResolvePartialCall
<1> HIDE DEF c, f, keys
<1>6. Landed(b, keys, f, -(c + f), c, 0) /\ OthersKept(b)
  BY <1>1, <1>4, <1>5, PostApplied
<1>7. status'[b] = "COMPLETED_SUCCESSFUL" /\ earning'[b] = p
  BY DEF ResolvePartialCall, PartEarned, TypeOK
<1>8. Disbursed(b)' /\ payable'[b] \in 0..Gross[b]
  BY <1>1, <1>2, <1>3, <1>6, Prices DEF Landed, Held, Disbursed
<1>9. Accounted(b)'
  BY <1>2, <1>7, <1>8 DEF Accounted, Unresolved
<1>10. ASSUME NEW x \in Booking, x # b
       PROVE  Untouched(x)
  BY <1>6, <1>10 DEF OthersKept, ResolvePartialCall, TypeOK, Untouched
<1> QED BY <1>1, <1>6, <1>8, <1>9, <1>10, UntouchedAccounted DEF AllAccounted, PaidOut

LEMMA CallEndAccounted ==
  ASSUME TypeOK, AllAccounted, NEW b \in Booking, NEW end, NEW level, CallEnds(b, end, level)
  PROVE  AllAccounted' /\ UNCHANGED ledger
<1> UNCHANGED ledger
  BY DEF CallEnds
<1>1. CASE SyncsBooking(b, end)
  <2>1. Held(b) /\ Held(b)'
    BY <1>1 DEF SyncsBooking, CallEnds, AllAccounted, Accounted, Unresolved, Held, ledger, Price
  <2>2. status'[b] = "COMPLETED_SUCCESSFUL"
    BY <1>1 DEF CallEnds, TypeOK
  <2>3. Accounted(b)'
    BY <2>1, <2>2 DEF Accounted, Unresolved, Held
  <2>4. ASSUME NEW x \in Booking, x # b
        PROVE  Untouched(x)
    BY <1>1, <2>4 DEF CallEnds, TypeOK, Untouched, ledger
  <2> QED BY <2>3, <2>4, UntouchedAccounted DEF AllAccounted
<1>2. CASE ~SyncsBooking(b, end)
  <2>1. \A x \in Booking : Untouched(x)
    BY <1>2 DEF CallEnds, Untouched, ledger
  <2> QED BY <2>1, UntouchedAccounted DEF AllAccounted
<1> QED BY <1>1, <1>2

\* Steps that change neither a status nor the money.
LEMMA QuietAccounted ==
  ASSUME AllAccounted, UNCHANGED <<status, ledger, earning>>
  PROVE  AllAccounted'
<1>1. \A x \in Booking : Untouched(x)
  BY DEF Untouched, ledger
<1> QED BY <1>1, UntouchedAccounted DEF AllAccounted

LEMMA StepAccounted ==
  ASSUME GatedOverrides, TypeOK, AllAccounted, [Next]_vars
  PROVE  AllAccounted' /\ (UNCHANGED ledger \/ MoneyMoves)
<1>1. CASE Tick \/ (\E m \in Thresholds : SetAvailability(m)) \/ UNCHANGED vars
  BY <1>1, QuietAccounted DEF Tick, SetAvailability, vars, ledger
<1>2. ASSUME NEW b \in Booking, CallStarts(b) \/ FileReport(b)
      PROVE  AllAccounted' /\ (UNCHANGED ledger \/ MoneyMoves)
  BY <1>2, QuietAccounted DEF CallStarts, FileReport
<1>3. ASSUME NEW b \in Booking, JobSettle(b) \/ AdminNext(b)
      PROVE  AllAccounted' /\ (UNCHANGED ledger \/ MoneyMoves)
  <2>1. CASE JobSettle(b) \/ ForceSettle(b)
    BY <2>1, SettleAccounted DEF JobSettle, ForceSettle, MoneyMoves
  <2>2. ASSUME NEW p \in CreatorShare, ResolvePartialCall(b, p)
        PROVE  AllAccounted' /\ (UNCHANGED ledger \/ MoneyMoves)
    BY <2>2, PartialAccounted DEF MoneyMoves
  <2>3. ASSUME NEW s \in {"open", "closed"}, ResolveReport(b, s)
        PROVE  AllAccounted' /\ (UNCHANGED ledger \/ MoneyMoves)
    BY <2>3, QuietAccounted DEF ResolveReport
  <2> QED BY <1>3, <2>1, <2>2, <2>3, Overrides DEF GatedOverrides
<1> QED
  BY <1>1, <1>2, <1>3, BookAccounted, RefundAccounted, SweepAccounted, CallEndAccounted
  DEF Next, LifecycleNext, MoneyMoves

LEMMA AccountedAlways == ASSUME GatedOverrides PROVE Spec => [](TypeOK /\ AllAccounted)
<1>1. Init => TypeOK /\ AllAccounted
  <2>1. Init => TypeOK
    BY BookingAssumption DEF Init, TypeOK, BookingStatus, Level
  <2>2. Init => AllAccounted
    BY DEF Init, AllAccounted, Accounted, Unresolved, NoRow
  <2> QED BY <2>1, <2>2
<1>2. TypeOK /\ AllAccounted /\ [Next]_vars => (TypeOK /\ AllAccounted)'
  BY StepTyped, StepAccounted
<1> QED BY <1>1, <1>2, PTL DEF Spec

\* Escrow holds exactly what is still owed, for any number of bookings and any
\* prices, in every order of bookings, refunds, sweeps, call outcomes,
\* settlements, reports and splits: none spends or strands a paisa.
THEOREM EscrowAlwaysExact == ASSUME GatedOverrides PROVE Spec => []EscrowExact
<1>1. TypeOK /\ AllAccounted => EscrowExact
  BY DEF EscrowExact, AllAccounted, Accounted, NoRow, Held, Disbursed
<1> QED BY <1>1, AccountedAlways, PTL

\* A split has emptied the escrow, and nothing takes from it or returns to it after:
\* as long as it gives the creator something, and so leaves an earnings row.
THEOREM SplitAlwaysFinal == ASSUME GatedOverrides PROVE Spec => []SplitIsFinal
<1>1. TypeOK /\ AllAccounted => SplitIsFinal
  BY DEF SplitIsFinal, AllAccounted, Accounted, NoRow, Held, Disbursed
<1> QED BY <1>1, AccountedAlways, PTL

------------------------------------------------------------------------------
(* The booking functions implement the escrow promise                       *)

LEMMA PhaseKept ==
  ASSUME NEW b \in Booking, OthersKept(b), NEW x \in Booking, x # b
  PROVE  Phase(x)' = Phase(x) /\ ToPayer(x)' = ToPayer(x)
BY DEF OthersKept, Phase, ToPayer

LEMMA TakenTakes ==
  ASSUME LedgerTypeOK, LedgerTypeOK', NEW b \in Booking, Taken(b)
  PROVE  Promise!Take(b)
<1>1. Phase(b) = "unpaid" /\ Phase(b)' = "held"
  BY DEF Taken, NoRow, Held, Phase
<1>2. ToPayer(b) = 0 /\ ToPayer(b)' = 0
  <2>1. wallet'[b] = -Price(b) /\ promo'[b] = -Discount[b] /\ posted'[b] = {"book"}
    BY DEF Taken, Held, Price
  <2> QED BY <2>1, Prices DEF Taken, NoRow, ToPayer
<1>3. payable' = payable
  BY DEF Taken, NoRow, Held, OthersKept, LedgerTypeOK
<1> QED BY <1>1, <1>2, <1>3, PhaseKept DEF Taken, Promise!Take

LEMMA PaidOutReleases ==
  ASSUME LedgerTypeOK, LedgerTypeOK', NEW b \in Booking, PaidOut(b)
  PROVE  Promise!Release(b, payable'[b])
<1>1. Phase(b) = "held" /\ Phase(b)' = "released"
  BY Prices DEF PaidOut, Held, Disbursed, Phase
<1>2. ToPayer(b)' = Gross[b] - payable'[b]
  BY Prices DEF PaidOut, Disbursed, ToPayer, LedgerTypeOK
<1>3. payable' = [payable EXCEPT ![b] = payable'[b]]
  BY DEF PaidOut, OthersKept, LedgerTypeOK
<1> QED BY <1>1, <1>2, <1>3, PhaseKept DEF PaidOut, Promise!Release

\* For any bookings and prices, and under every override that keeps to its
\* gate, the booking functions do with a booking's money only what EscrowPromise
\* says: take the price once, and give it out once, in full.
THEOREM BookingKeepsPromise == ASSUME GatedOverrides PROVE Spec => KeepsPromise
<1>1. Init => Promise!PromiseInit
  BY DEF Init, Phase, ToPayer, Promise!PromiseInit
<1>2. TypeOK /\ AllAccounted /\ [Next]_vars => [Promise!PromiseNext]_Promise!promiseVars
  <2> SUFFICES ASSUME TypeOK, AllAccounted, [Next]_vars
               PROVE  [Promise!PromiseNext]_Promise!promiseVars
    OBVIOUS
  <2>1. CASE UNCHANGED ledger
    BY <2>1 DEF ledger, Phase, ToPayer, Promise!promiseVars
  <2>2. ASSUME NEW b \in Booking, Taken(b) \/ PaidOut(b)
        PROVE  Promise!PromiseNext
    <3>1. LedgerTypeOK /\ LedgerTypeOK'
      BY StepTyped DEF TypeOK, LedgerTypeOK
    <3>2. CASE Taken(b)
      BY <3>1, <3>2, TakenTakes DEF Promise!PromiseNext
    <3>3. CASE PaidOut(b)
      BY <3>1, <3>3, PaidOutReleases DEF PaidOut, Promise!PromiseNext
    <3> QED BY <2>2, <3>2, <3>3
  <2> QED BY <2>1, <2>2, StepAccounted DEF MoneyMoves
<1> QED BY <1>1, <1>2, AccountedAlways, PTL DEF Spec, KeepsPromise, Promise!PromiseSpec

------------------------------------------------------------------------------
(* Reports and refunds: what no single step may do                          *)

NotPaidWhileReported ==
  \A b \in Booking :
    report[b] = "open" /\ status[b] = "COMPLETED_SUCCESSFUL" => payable'[b] = payable[b]

\* A transaction touches the payable leg of its own booking only, and not even
\* that when it owes the creator nothing.
LEMMA PostPayable ==
  ASSUME TypeOK, NEW b \in Booking, NEW keys, NEW w, NEW e, NEW p, NEW d,
         Post(b, keys, w, e, p, d), NEW x \in Booking, x # b \/ p = 0
  PROVE  payable'[x] = payable[x]
<1>1. payable \in [Booking -> Nat]
  BY DEF TypeOK
<1>2. payable' = payable \/ payable' = [payable EXCEPT ![b] = @ + p]
  BY DEF Post, ledger
<1> QED BY <1>1, <1>2

LEMMA UnwindPayable ==
  ASSUME TypeOK, NEW b \in Booking, NEW key, Unwind(b, key)
  PROVE  NotPaidWhileReported
BY PostPayable DEF Unwind, NotPaidWhileReported

LEMMA AdminReportHold ==
  ASSUME TypeOK, NEW b \in Booking, AdminNext(b)
  PROVE  NotPaidWhileReported
<1>1. CASE ForceSettle(b)
  BY <1>1, PostPayable DEF ForceSettle, SettleBooking, Settleable, NotPaidWhileReported
<1>2. ASSUME NEW s \in Expired \cup {"COMPLETED_SUCCESSFUL"}, AdminExpire(b, s)
      PROVE  NotPaidWhileReported
  <2>1. CASE s \in Expired
    BY <1>2, <2>1, UnwindPayable DEF AdminExpire
  <2>2. CASE s \notin Expired
    BY <1>2, <2>2 DEF AdminExpire, ledger, NotPaidWhileReported
  <2> QED BY <2>1, <2>2
<1>3. ASSUME NEW level \in Level, RecoverCall(b, level)
      PROVE  NotPaidWhileReported
  BY <1>3 DEF RecoverCall, ledger, NotPaidWhileReported
<1>4. ASSUME NEW p \in CreatorShare, ResolvePartialCall(b, p)
      PROVE  NotPaidWhileReported
  BY <1>4, PostPayable DEF ResolvePartialCall, NotPaidWhileReported
<1>5. ASSUME NEW s \in {"open", "closed"}, ResolveReport(b, s)
      PROVE  NotPaidWhileReported
  BY <1>5 DEF ResolveReport, ledger, NotPaidWhileReported
<1>6. ASSUME NEW a \in 1..Gross[b], NEW s \in {"open", "closed"},
             ResolveReportRefund(b, a, s)
      PROVE  NotPaidWhileReported
  BY <1>6, PostPayable DEF ResolveReportRefund, NotPaidWhileReported
<1> QED BY <1>1, <1>2, <1>3, <1>4, <1>5, <1>6, Overrides

LEMMA StepReportHold ==
  ASSUME TypeOK, [Next]_vars
  PROVE  NotPaidWhileReported
<1>1. CASE UNCHANGED ledger
  BY <1>1 DEF ledger, NotPaidWhileReported
<1>2. ASSUME NEW b \in Booking, BookVideoCall(b) \/ RefundBooking(b)
      PROVE  NotPaidWhileReported
  BY <1>2, PostPayable, UnwindPayable DEF BookVideoCall, RefundBooking, NotPaidWhileReported
<1>3. ASSUME NEW b \in Booking, SweepExpired(b)
      PROVE  NotPaidWhileReported
  <2>1. CASE Classify(b) \in Expired
    BY <1>3, <2>1, UnwindPayable DEF SweepExpired, ExpireAs
  <2>2. CASE Classify(b) \notin Expired
    BY <1>1, <1>3, <2>2 DEF SweepExpired, ExpireAs
  <2> QED BY <2>1, <2>2
<1>4. ASSUME NEW b \in Booking, JobSettle(b)
      PROVE  NotPaidWhileReported
  BY <1>4, PostPayable DEF JobSettle, SettleBooking, Settleable, NotPaidWhileReported
<1>5. ASSUME NEW b \in Booking,
             \/ CallStarts(b) \/ FileReport(b)
             \/ \E o \in Outcome : CallEnds(b, o[1], o[2])
      PROVE  NotPaidWhileReported
  BY <1>1, <1>5 DEF CallStarts, FileReport, CallEnds
<1>6. CASE Tick \/ (\E m \in Thresholds : SetAvailability(m)) \/ UNCHANGED vars
  BY <1>1, <1>6 DEF Tick, SetAvailability, vars
<1> QED
  BY <1>2, <1>3, <1>4, <1>5, <1>6, AdminReportHold DEF Next, LifecycleNext

\* An open report holds the creator's payment against the settlement job and
\* against every admin override, the ungated ones and any split included.
THEOREM ReportAlwaysHolds == Spec => ReportHold
<1>1. TypeOK /\ [Next]_vars =>
        [\A b \in Booking :
           report[b] = "open" /\ status[b] = "COMPLETED_SUCCESSFUL"
             => payable'[b] = payable[b]]_vars
  BY StepReportHold DEF NotPaidWhileReported
<1> QED BY <1>1, TypeCorrect, PTL DEF Spec, ReportHold

\* The two overrides that write the status of a booking already refunded.
NoStatusOverride == AdminOps \cap {"expire", "recover"} = {}

Refunded == Expired \cup {"CANCELLED_BY_FAN"}
StaysRefunded == \A b \in Booking : status[b] \in Refunded => status'[b] = status[b]

\* A step that writes the status of one booking that is not refunded.
LEMMA OthersStayRefunded ==
  ASSUME TypeOK, NEW b \in Booking, status[b] \notin Refunded,
         NEW s, status' = [status EXCEPT ![b] = s]
  PROVE  StaysRefunded
BY DEF TypeOK, StaysRefunded

LEMMA StepStaysRefunded ==
  ASSUME NoStatusOverride, TypeOK, [Next]_vars
  PROVE  StaysRefunded
<1>1. {"NONE", "BOOKED", "COMPLETED_SUCCESSFUL", "REQUIRES_ADMIN_REVIEW"} \cap Refunded = {}
  BY DEF Refunded, Expired
<1>2. CASE UNCHANGED status
  BY <1>2 DEF StaysRefunded
<1>3. ASSUME NEW b \in Booking, BookVideoCall(b) \/ RefundBooking(b) \/ SweepExpired(b)
      PROVE  StaysRefunded
  <2>1. status[b] \in {"NONE", "BOOKED"}
    BY <1>3 DEF BookVideoCall, Exists, RefundBooking, Refundable, SweepExpired, Due
  <2>2. \E s : status' = [status EXCEPT ![b] = s]
    BY <1>3 DEF BookVideoCall, RefundBooking, SweepExpired, ExpireAs
  <2> QED BY <1>1, <2>1, <2>2, OthersStayRefunded
<1>4. ASSUME NEW b \in Booking, NEW o \in Outcome, CallEnds(b, o[1], o[2])
      PROVE  StaysRefunded
  <2>1. CASE SyncsBooking(b, o[1])
    <3>1. status[b] = "BOOKED" /\ status' = [status EXCEPT ![b] = "COMPLETED_SUCCESSFUL"]
      BY <1>4, <2>1 DEF CallEnds, SyncsBooking
    <3> QED BY <1>1, <3>1, OthersStayRefunded
  <2>2. CASE ~SyncsBooking(b, o[1])
    BY <1>2, <1>4, <2>2 DEF CallEnds
  <2> QED BY <2>1, <2>2
<1>5. ASSUME NEW b \in Booking, JobSettle(b) \/ ForceSettle(b) \/ CallStarts(b) \/ FileReport(b)
      PROVE  StaysRefunded
  BY <1>2, <1>5 DEF JobSettle, ForceSettle, SettleBooking, CallStarts, FileReport
<1>6. ASSUME NEW b \in Booking, NEW p \in CreatorShare, ResolvePartialCall(b, p)
      PROVE  StaysRefunded
  <2>1. status[b] = "REQUIRES_ADMIN_REVIEW"
        /\ status' = [status EXCEPT ![b] = "COMPLETED_SUCCESSFUL"]
    BY <1>6 DEF ResolvePartialCall
  <2> QED BY <1>1, <2>1, OthersStayRefunded
<1>7. ASSUME NEW b \in Booking, AdminNext(b)
      PROVE  StaysRefunded
  <2>1. ASSUME NEW s \in {"open", "closed"}, ResolveReport(b, s)
        PROVE  StaysRefunded
    BY <1>2, <2>1 DEF ResolveReport
  <2>2. ASSUME NEW a \in 1..Gross[b], NEW s \in {"open", "closed"},
               ResolveReportRefund(b, a, s)
        PROVE  StaysRefunded
    <3>1. status[b] = "COMPLETED_SUCCESSFUL"
          /\ status' = [status EXCEPT ![b] = "CANCELLED_BY_ADMIN"]
      BY <2>2 DEF ResolveReportRefund
    <3> QED BY <1>1, <3>1, OthersStayRefunded
  <2> QED BY <1>5, <1>6, <1>7, <2>1, <2>2, Overrides DEF NoStatusOverride
<1>8. CASE Tick \/ (\E m \in Thresholds : SetAvailability(m)) \/ UNCHANGED vars
  BY <1>2, <1>8 DEF Tick, SetAvailability, vars
<1> QED
  BY <1>3, <1>4, <1>5, <1>7, <1>8 DEF Next, LifecycleNext

\* A refund is final: no call that outlives the booking, no settlement, split,
\* report decision or report refund brings a refunded or expired booking back.
THEOREM RefundAlwaysFinal == ASSUME NoStatusOverride PROVE Spec => RefundIsFinal
<1>1. TypeOK /\ [Next]_vars =>
        [\A b \in Booking :
           status[b] \in Expired \cup {"CANCELLED_BY_FAN"} => status'[b] = status[b]]_vars
  BY StepStaysRefunded DEF StaysRefunded, Refunded
<1> QED BY <1>1, TypeCorrect, PTL DEF Spec, RefundIsFinal

------------------------------------------------------------------------------
(* Creators are paid for calls that took place                              *)

Delivered(b) == longest[b] >= 1 \/ "COMPLETED_SUCCESSFUL" \in ends[b]

\* PaidForDelivery is not inductive: whether a booking may be paid later is
\* said by its status, so the status must rest on a call as well.
Earned(b) ==
  status[b] \in {"COMPLETED_SUCCESSFUL", "REQUIRES_ADMIN_REVIEW"} \/ payable[b] > 0
    => Delivered(b)
AllEarned == \A b \in Booking : Earned(b)

NoStatusByHand == "expire" \notin AdminOps

\* A step that leaves the calls alone, and writes of at most one booking, whose
\* status or calls already said that it may be paid.
LEMMA EarnedKept ==
  ASSUME TypeOK, AllEarned, UNCHANGED calls, NEW b \in Booking,
         \A x \in Booking \ {b} : status'[x] = status[x] /\ payable'[x] = payable[x],
         Earned(b)'
  PROVE  AllEarned'
BY DEF AllEarned, Earned, Delivered, calls

\* A step that moves no money to creators and writes at most one status.
LEMMA UnpaidKept ==
  ASSUME TypeOK, AllEarned, UNCHANGED calls, NEW b \in Booking,
         \A x \in Booking : payable'[x] = payable[x],
         NEW s, status' = [status EXCEPT ![b] = s],
         s \in {"COMPLETED_SUCCESSFUL", "REQUIRES_ADMIN_REVIEW"} => Delivered(b)
  PROVE  AllEarned'
<1>1. \A x \in Booking \ {b} : status'[x] = status[x]
  BY DEF TypeOK
<1>2. Delivered(b)' <=> Delivered(b)
  BY DEF Delivered, calls
<1>3. Earned(b)'
  BY <1>2 DEF TypeOK, AllEarned, Earned
<1> QED BY <1>1, <1>3, EarnedKept

LEMMA AttemptEarned ==
  ASSUME TypeOK, AllEarned, NEW b \in Booking, NEW end \in End, NEW level \in Level,
         AttemptOver(b, end, level), payable' = payable,
         \A x \in Booking : \/ status'[x] = status[x]
                            \/ status'[x] \in Expired
                            \/ x = b /\ end = "COMPLETED_SUCCESSFUL"
  PROVE  AllEarned'
<1> SUFFICES ASSUME NEW x \in Booking PROVE Earned(x)'
  BY DEF AllEarned
<1>1. Delivered(x) => Delivered(x)'
  BY DEF AttemptOver, TypeOK, Delivered, Level
<1>2. x = b /\ end = "COMPLETED_SUCCESSFUL" => Delivered(x)'
  BY DEF AttemptOver, TypeOK, Delivered
<1> QED BY <1>1, <1>2 DEF AllEarned, Earned, Expired

LEMMA SettleEarned ==
  ASSUME TypeOK, AllEarned, NEW b \in Booking, SettleBooking(b)
  PROVE  AllEarned'
<1>1. Delivered(b) /\ UNCHANGED <<status, calls>>
  BY DEF SettleBooking, Settleable, AllEarned, Earned
<1>2. \A x \in Booking \ {b} : payable'[x] = payable[x]
  BY PostPayable DEF SettleBooking
<1>3. Earned(b)'
  BY <1>1 DEF Earned, Delivered, calls
<1> QED BY <1>1, <1>2, <1>3, EarnedKept

\* A class that lets a creator be paid rests on a call.
Rests(b, s) == s \in {"COMPLETED_SUCCESSFUL", "REQUIRES_ADMIN_REVIEW"} => Delivered(b)

LEMMA ClassifyEarned == ASSUME TypeOK, NEW b \in Booking PROVE Rests(b, Classify(b))
BY DEF Rests, Classify, Delivered, TypeOK, Level

LEMMA ExpireEarned ==
  ASSUME TypeOK, AllEarned, NEW b \in Booking, NEW s, Rests(b, s), ExpireAs(b, s)
  PROVE  AllEarned'
<1>1. \A x \in Booking : payable'[x] = payable[x]
  <2>1. CASE s \in Expired
    BY <2>1, PostPayable DEF ExpireAs, Unwind
  <2>2. CASE s \notin Expired
    BY <2>2 DEF ExpireAs, ledger
  <2> QED BY <2>1, <2>2
<1>2. status' = [status EXCEPT ![b] = s] /\ UNCHANGED calls
  BY DEF ExpireAs
<1> QED BY <1>1, <1>2, UnpaidKept DEF Rests

LEMMA SweepEarned ==
  ASSUME TypeOK, AllEarned, NEW b \in Booking, SweepExpired(b)
  PROVE  AllEarned'
BY ClassifyEarned, ExpireEarned DEF SweepExpired

LEMMA AdminEarned ==
  ASSUME NoStatusByHand, TypeOK, AllEarned, NEW b \in Booking, AdminNext(b)
  PROVE  AllEarned'
<1>1. CASE ForceSettle(b)
  BY <1>1, SettleEarned DEF ForceSettle
<1>2. ASSUME NEW level \in Level, RecoverCall(b, level)
      PROVE  AllEarned'
  <2>1. status' = [status EXCEPT ![b] = "EXPIRED_TECHNICAL_ISSUE"] /\ payable' = payable
    BY <1>2 DEF RecoverCall, ledger
  <2>2. CASE live[b] > 0
    <3>1. AttemptOver(b, "DROPPED_TECHNICAL_ISSUE", level)
      BY <1>2, <2>2 DEF RecoverCall
    <3>2. \A x \in Booking : status'[x] = status[x] \/ status'[x] \in Expired
      BY <2>1 DEF TypeOK, Expired
    <3>3. "DROPPED_TECHNICAL_ISSUE" \in End
      BY DEF End
    <3> QED BY <2>1, <3>1, <3>2, <3>3, AttemptEarned
  <2>3. CASE ~(live[b] > 0)
    BY <1>2, <2>1, <2>3, UnpaidKept DEF RecoverCall
  <2> QED BY <2>2, <2>3
<1>3. ASSUME NEW p \in CreatorShare, ResolvePartialCall(b, p)
      PROVE  AllEarned'
  <2>1. Delivered(b) /\ UNCHANGED calls
    BY <1>3 DEF ResolvePartialCall, AllEarned, Earned
  <2>2. \A x \in Booking \ {b} : status'[x] = status[x] /\ payable'[x] = payable[x]
    BY <1>3, PostPayable DEF ResolvePartialCall, TypeOK
  <2>3. Earned(b)'
    BY <2>1 DEF Earned, Delivered, calls
  <2> QED BY <2>1, <2>2, <2>3, EarnedKept
<1>4. ASSUME NEW s \in {"open", "closed"}, ResolveReport(b, s)
      PROVE  AllEarned'
  BY <1>4 DEF ResolveReport, AllEarned, Earned, Delivered, calls, ledger
<1>5. ASSUME NEW a \in 1..Gross[b], NEW s \in {"open", "closed"},
             ResolveReportRefund(b, a, s)
      PROVE  AllEarned'
  <2>1. \A x \in Booking : payable'[x] = payable[x]
    BY <1>5, PostPayable DEF ResolveReportRefund
  <2>2. status' = [status EXCEPT ![b] = "CANCELLED_BY_ADMIN"] /\ UNCHANGED calls
    BY <1>5 DEF ResolveReportRefund
  <2> QED BY <2>1, <2>2, UnpaidKept
<1> QED BY <1>1, <1>2, <1>3, <1>4, <1>5, Overrides DEF NoStatusByHand

LEMMA StepEarned ==
  ASSUME NoStatusByHand, TypeOK, AllEarned, [Next]_vars
  PROVE  AllEarned'
<1>1. CASE UNCHANGED <<status, calls, payable>>
  BY <1>1 DEF AllEarned, Earned, Delivered, calls
<1>2. ASSUME NEW b \in Booking, BookVideoCall(b) \/ RefundBooking(b)
      PROVE  AllEarned'
  <2>1. \A x \in Booking : payable'[x] = payable[x]
    BY <1>2, PostPayable DEF BookVideoCall, RefundBooking, Unwind
  <2>2. PICK s \in {"BOOKED", "CANCELLED_BY_FAN"} : status' = [status EXCEPT ![b] = s]
    BY <1>2 DEF BookVideoCall, RefundBooking
  <2>3. UNCHANGED calls
    BY <1>2 DEF BookVideoCall, RefundBooking
  <2> QED BY <2>1, <2>2, <2>3, UnpaidKept
<1>3. ASSUME NEW b \in Booking, CallStarts(b)
      PROVE  AllEarned'
  BY <1>3 DEF CallStarts, AllEarned, Earned, Delivered, ledger
<1>4. ASSUME NEW b \in Booking, NEW o \in Outcome, CallEnds(b, o[1], o[2])
      PROVE  AllEarned'
  <2>1. o[1] \in End /\ o[2] \in Level
    BY BookingAssumption
  <2>2. AttemptOver(b, o[1], o[2]) /\ payable' = payable
    BY <1>4 DEF CallEnds, ledger
  <2>3. \A x \in Booking : \/ status'[x] = status[x]
                           \/ x = b /\ o[1] = "COMPLETED_SUCCESSFUL"
    BY <1>4 DEF CallEnds, SyncsBooking, TypeOK
  <2> QED BY <2>1, <2>2, <2>3, AttemptEarned
<1>5. ASSUME NEW b \in Booking, FileReport(b)
      PROVE  AllEarned'
  BY <1>1, <1>5 DEF FileReport, ledger
<1>6. CASE Tick \/ (\E m \in Thresholds : SetAvailability(m)) \/ UNCHANGED vars
  BY <1>1, <1>6 DEF Tick, SetAvailability, vars, ledger
<1> QED
  BY <1>2, <1>3, <1>4, <1>5, <1>6, SweepEarned, SettleEarned, AdminEarned
  DEF Next, LifecycleNext, JobSettle

\* However bookings, sweeps, outcomes, recoveries, splits and report decisions
\* interleave, a creator is owed money only for a booking with an attempt that
\* completed or ran for at least three minutes; only the admin override that
\* types a booking's status in by hand can break that.
THEOREM AlwaysPaidForDelivery == ASSUME NoStatusByHand PROVE Spec => []PaidForDelivery
<1>1. Init => TypeOK /\ AllEarned
  <2>1. Init => TypeOK
    BY BookingAssumption DEF Init, TypeOK, BookingStatus, Level
  <2>2. Init => AllEarned
    BY DEF Init, AllEarned, Earned
  <2> QED BY <2>1, <2>2
<1>2. TypeOK /\ AllEarned /\ [Next]_vars => (TypeOK /\ AllEarned)'
  BY StepTyped, StepEarned
<1>3. AllEarned => PaidForDelivery
  BY DEF AllEarned, Earned, Delivered, PaidForDelivery
<1> QED BY <1>1, <1>2, <1>3, PTL DEF Spec

------------------------------------------------------------------------------
(* What the earnings row says                                               *)

\* The row has what the ledger owes, and is positive once a transaction in the
\* creator's favour is posted: none is posted a second time.
EarningKey == {"settle", "partial-settle"}
Backed(b) ==
  /\ earning[b] = payable[b]
  /\ posted[b] \cap EarningKey # {} => earning[b] > 0
AllBacked == \A b \in Booking : Backed(b)

\* A transaction of another kind, or none.
LEMMA OtherPostBacked ==
  ASSUME TypeOK, AllBacked, UNCHANGED earning, NEW b \in Booking, NEW keys \in SUBSET Key,
         keys \cap EarningKey = {}, NEW w, NEW e, NEW d, Post(b, keys, w, e, 0, d)
  PROVE  AllBacked'
<1>1. CASE keys \cap posted[b] # {}
  BY <1>1 DEF Post, ledger, AllBacked, Backed
<1>2. CASE keys \cap posted[b] = {}
  <2>1. /\ posted' = [posted EXCEPT ![b] = @ \cup keys]
        /\ payable' = [payable EXCEPT ![b] = @ + 0]
    BY <1>2 DEF Post
  <2>2. \A x \in Booking : /\ payable'[x] = payable[x]
                          /\ posted'[x] \cap EarningKey = posted[x] \cap EarningKey
    BY <2>1 DEF TypeOK
  <2> QED BY <2>2 DEF AllBacked, Backed
<1> QED BY <1>1, <1>2

LEMMA UnwindBacked ==
  ASSUME TypeOK, AllBacked, UNCHANGED earning, NEW b \in Booking,
         NEW key \in {"refund", "expire", "admin-expire"}, Unwind(b, key)
  PROVE  AllBacked'
BY OtherPostBacked DEF Unwind, Key, EarningKey

LEMMA QuietBacked == AllBacked /\ UNCHANGED <<earning, ledger>> => AllBacked'
BY DEF AllBacked, Backed, ledger

\* The row is made with the transaction that owes its amount.
LEMMA EarningBacked ==
  ASSUME TypeOK, AllBacked, NEW b \in Booking, earning[b] = 0, NEW p \in Nat,
         NEW keys \in SUBSET Key, NEW w, NEW e, NEW d, Post(b, keys, w, e, p, d),
         keys \cap posted[b] = {}, keys \cap EarningKey # {} => p > 0,
         earning' = [earning EXCEPT ![b] = p]
  PROVE  AllBacked'
<1>1. /\ posted' = [posted EXCEPT ![b] = @ \cup keys]
      /\ payable' = [payable EXCEPT ![b] = @ + p]
  BY DEF Post
<1>2. payable[b] = 0 /\ posted[b] \cap EarningKey = {}
  BY DEF AllBacked, Backed
<1>3. Backed(b)'
  BY <1>1, <1>2 DEF Backed, TypeOK
<1>4. \A x \in Booking \ {b} : Backed(x)'
  BY <1>1 DEF AllBacked, Backed, TypeOK
<1> QED BY <1>3, <1>4 DEF AllBacked

LEMMA SettleBacked ==
  ASSUME TypeOK, AllBacked, NEW b \in Booking, SettleBooking(b)
  PROVE  AllBacked'
<1>1. earning[b] = 0 /\ Gross[b] \in Nat /\ Gross[b] > 0
  BY BookingAssumption DEF SettleBooking, Settleable
<1>2. {"settle"} \cap posted[b] = {}
  BY <1>1 DEF AllBacked, Backed, EarningKey
<1> QED BY <1>1, <1>2, EarningBacked DEF SettleBooking, Key

LEMMA PartialBacked ==
  ASSUME TypeOK, AllBacked, NEW b \in Booking, NEW p \in CreatorShare,
         ResolvePartialCall(b, p)
  PROVE  AllBacked'
<1> DEFINE c == IF "partial-settle" \in posted[b] THEN 0 ELSE p
           f == IF "partial-refund" \in posted[b] THEN 0 ELSE AtLeastZero(Gross[b] - p)
           keys == {k \in {"partial-settle"} : c > 0} \cup {k \in {"partial-refund"} : f > 0}
<1>1. earning[b] = 0 /\ p \in Nat
  BY BookingAssumption DEF ResolvePartialCall
<1>2. c = p
  BY <1>1 DEF AllBacked, Backed, EarningKey
<1>3. Post(b, keys, f, -(c + f), c, 0) /\ earning' = [earning EXCEPT ![b] = p]
  BY DEF ResolvePartialCall, PartEarned
<1>4. keys \in SUBSET Key /\ keys \cap posted[b] = {}
  BY DEF Key
<1>5. keys \cap EarningKey # {} => p > 0
  BY <1>2 DEF EarningKey
<1> HIDE DEF c, f, keys
<1> QED BY <1>1, <1>2, <1>3, <1>4, <1>5, EarningBacked

LEMMA AdminBacked ==
  ASSUME TypeOK, AllBacked, NEW b \in Booking, AdminNext(b)
  PROVE  AllBacked'
<1>1. CASE ForceSettle(b)
  BY <1>1, SettleBacked DEF ForceSettle
<1>2. ASSUME NEW s \in Expired \cup {"COMPLETED_SUCCESSFUL"}, AdminExpire(b, s)
      PROVE  AllBacked'
  <2>1. CASE s \in Expired
    BY <1>2, <2>1, UnwindBacked DEF AdminExpire
  <2>2. CASE s \notin Expired
    BY <1>2, <2>2, QuietBacked DEF AdminExpire
  <2> QED BY <2>1, <2>2
<1>3. ASSUME NEW level \in Level, RecoverCall(b, level)
      PROVE  AllBacked'
  BY <1>3, QuietBacked DEF RecoverCall
<1>4. ASSUME NEW s \in {"open", "closed"}, ResolveReport(b, s)
      PROVE  AllBacked'
  BY <1>4, QuietBacked DEF ResolveReport
<1>5. ASSUME NEW a \in 1..Gross[b], NEW s \in {"open", "closed"},
             ResolveReportRefund(b, a, s)
      PROVE  AllBacked'
  <2>1. {"report-refund"} \in SUBSET Key /\ {"report-refund"} \cap EarningKey = {}
    BY DEF Key, EarningKey
  <2> QED BY <1>5, <2>1, OtherPostBacked DEF ResolveReportRefund
<1> QED BY <1>1, <1>2, <1>3, <1>4, <1>5, PartialBacked, Overrides

LEMMA StepBacked == TypeOK /\ AllBacked /\ [Next]_vars => AllBacked'
<1> SUFFICES ASSUME TypeOK, AllBacked, [Next]_vars PROVE AllBacked'
  OBVIOUS
<1>1. ASSUME NEW b \in Booking, BookVideoCall(b) PROVE AllBacked'
  <2>1. {"book"} \in SUBSET Key /\ {"book"} \cap EarningKey = {}
    BY DEF Key, EarningKey
  <2> QED BY <1>1, <2>1, OtherPostBacked DEF BookVideoCall
<1>2. ASSUME NEW b \in Booking, RefundBooking(b) PROVE AllBacked'
  BY <1>2, UnwindBacked DEF RefundBooking
<1>3. ASSUME NEW b \in Booking, SweepExpired(b) PROVE AllBacked'
  <2>1. CASE Classify(b) \in Expired
    BY <1>3, <2>1, UnwindBacked DEF SweepExpired, ExpireAs
  <2>2. CASE Classify(b) \notin Expired
    BY <1>3, <2>2, QuietBacked DEF SweepExpired, ExpireAs
  <2> QED BY <2>1, <2>2
<1>4. ASSUME NEW b \in Booking,
             \/ CallStarts(b) \/ FileReport(b)
             \/ \E o \in Outcome : CallEnds(b, o[1], o[2])
      PROVE  AllBacked'
  BY <1>4, QuietBacked DEF CallStarts, FileReport, CallEnds
<1>5. CASE Tick \/ (\E m \in Thresholds : SetAvailability(m)) \/ UNCHANGED vars
  BY <1>5, QuietBacked DEF Tick, SetAvailability, vars
<1> QED BY <1>1, <1>2, <1>3, <1>4, <1>5, SettleBacked, AdminBacked
        DEF Next, LifecycleNext, JobSettle

LEMMA BackedAlways == Spec => [](TypeOK /\ AllBacked)
<1>1. Init => TypeOK
  BY BookingAssumption DEF Init, TypeOK, BookingStatus, Level
<1>2. Init => AllBacked
  BY DEF Init, AllBacked, Backed
<1> QED BY <1>1, <1>2, StepTyped, StepBacked, PTL DEF Spec

\* Under every override and every split, whatever the admin types in, the
\* earnings row has what the ledger owes the creator.
THEOREM AlwaysBacked == Spec => []EarningsBacked
<1>1. AllBacked => EarningsBacked
  BY DEF AllBacked, Backed, EarningsBacked
<1> QED BY BackedAlways, <1>1, PTL

\* A split that gives the creator no more than the price.
SharesWithinPrice == \A b \in Booking, p \in CreatorShare : p <= Gross[b]

\* Two rows for one booking are what could owe a creator more than its price.
LEMMA EarningBounded ==
  ASSUME SharesWithinPrice, TypeOK, AllBacked, NEW b \in Booking, NEW x \in Booking,
         earning[x] <= Gross[x],
         SettleBooking(b) \/ \E p \in CreatorShare : ResolvePartialCall(b, p)
  PROVE  earning'[x] <= Gross[x]
<1>1. Gross[b] \in Nat
  BY BookingAssumption
<1>2. PICK p \in Nat : p <= Gross[b] /\ earning' = [earning EXCEPT ![b] = p]
  <2>1. CASE SettleBooking(b)
    <3>1. earning' = [earning EXCEPT ![b] = Gross[b]] /\ Gross[b] <= Gross[b]
      BY <1>1, <2>1 DEF SettleBooking
    <3> QED BY <1>1, <3>1
  <2>2. ASSUME NEW p \in CreatorShare, ResolvePartialCall(b, p)
        PROVE  p \in Nat /\ p <= Gross[b] /\ earning' = [earning EXCEPT ![b] = p]
    BY <2>2, BookingAssumption DEF ResolvePartialCall, PartEarned, SharesWithinPrice
  <2> QED BY <2>1, <2>2
<1> QED BY <1>2 DEF TypeOK

\* The row is written by a settlement or a split, and by nothing else.
LEMMA EarningWriters ==
  ASSUME [Next]_vars
  PROVE  \/ UNCHANGED earning
         \/ \E b \in Booking : \/ SettleBooking(b)
                              \/ \E p \in CreatorShare : ResolvePartialCall(b, p)
<1>1. ASSUME NEW b \in Booking, AdminNext(b)
      PROVE  \/ UNCHANGED earning
             \/ SettleBooking(b) \/ \E p \in CreatorShare : ResolvePartialCall(b, p)
  BY <1>1, Overrides DEF ForceSettle, AdminExpire, RecoverCall, ResolveReport,
     ResolveReportRefund
<1>2. ASSUME NEW b \in Booking,
             \/ BookVideoCall(b) \/ RefundBooking(b) \/ CallStarts(b) \/ FileReport(b)
             \/ \E o \in Outcome : CallEnds(b, o[1], o[2])
             \/ SweepExpired(b)
      PROVE  UNCHANGED earning
  BY <1>2 DEF BookVideoCall, RefundBooking, CallStarts, FileReport, CallEnds, SweepExpired,
     ExpireAs
<1>3. CASE Tick \/ (\E m \in Thresholds : SetAvailability(m)) \/ UNCHANGED vars
  BY <1>3 DEF Tick, SetAvailability, vars
<1> QED BY <1>1, <1>2, <1>3 DEF Next, LifecycleNext, JobSettle

\* When no split gives the creator more than the price, no sequence of jobs and
\* overrides owes it more: a booking earns once.
THEOREM AlwaysPaidAtMostOnce == ASSUME SharesWithinPrice PROVE Spec => []CreatorPaidAtMostOnce
<1> DEFINE Bounded == \A x \in Booking : earning[x] <= Gross[x]
<1>1. Init => Bounded
  BY BookingAssumption DEF Init
<1>2. TypeOK /\ AllBacked /\ Bounded /\ [Next]_vars => Bounded'
  BY EarningWriters, EarningBounded
<1>3. AllBacked /\ Bounded => CreatorPaidAtMostOnce
  BY DEF AllBacked, Backed, CreatorPaidAtMostOnce
<1> HIDE DEF Bounded
<1> QED BY BackedAlways, <1>1, <1>2, <1>3, PTL DEF Spec

------------------------------------------------------------------------------
(* Sweeps that overlap                                                      *)

\* One step of the booking functions or of a sweeper: what the booking sees of
\* it is a step of Next, nothing, or a write with some class read earlier.
LEMMA RaceStep ==
  ASSUME RaceTypeOK, [RaceNext]_raceVars
  PROVE  \/ [Next]_vars /\ snapshot' \in [Sweeper -> [Booking -> BookingStatus]]
         \/ \E b \in Booking, s \in BookingStatus :
              ExpireAs(b, s) /\ snapshot' \in [Sweeper -> [Booking -> BookingStatus]]
<1>1. CASE LifecycleNext /\ UNCHANGED snapshot
  BY <1>1 DEF Next, RaceTypeOK
<1>2. ASSUME NEW w \in Sweeper, SweepOpens(w)
      PROVE  [Next]_vars /\ snapshot' \in [Sweeper -> [Booking -> BookingStatus]]
  <2>1. [b \in Booking |-> IF Due(b) THEN Classify(b) ELSE "NONE"]
          \in [Booking -> BookingStatus]
    BY ClassifyTyped, Statuses DEF RaceTypeOK, TypeOK
  <2> QED BY <1>2, <2>1 DEF SweepOpens, RaceTypeOK
<1>3. ASSUME NEW w \in Sweeper, NEW b \in Booking, SweepItem(w, b)
      PROVE  \E s \in BookingStatus :
               ExpireAs(b, s) /\ snapshot' \in [Sweeper -> [Booking -> BookingStatus]]
  <2>1. snapshot[w][b] \in BookingStatus /\ ExpireAs(b, snapshot[w][b])
    BY <1>3 DEF SweepItem, RaceTypeOK
  <2>2. snapshot' \in [Sweeper -> [Booking -> BookingStatus]]
    BY <1>3, Statuses DEF SweepItem, RaceTypeOK
  <2> QED BY <2>1, <2>2
<1>4. CASE UNCHANGED raceVars
  BY <1>4 DEF raceVars, RaceTypeOK
<1> QED BY <1>1, <1>2, <1>3, <1>4 DEF RaceNext

LEMMA RaceStepTyped == RaceTypeOK /\ [RaceNext]_raceVars => RaceTypeOK'
BY RaceStep, StepTyped, ExpireTyped DEF RaceTypeOK

\* With any number of sweepers writing what they read long before, over refunds,
\* completions and overrides: every variable keeps its type, so no booking is
\* given a status that does not exist and the minutes never go below zero.
THEOREM RaceTypeCorrect == RaceSpec => []RaceTypeOK
<1>1. RaceInit => RaceTypeOK
  <2>1. Init => TypeOK
    BY BookingAssumption DEF Init, TypeOK, BookingStatus, Level
  <2> QED BY <2>1, Statuses DEF RaceInit, RaceTypeOK
<1> QED BY <1>1, RaceStepTyped, PTL DEF RaceSpec

LEMMA RaceStepBacked == RaceTypeOK /\ AllBacked /\ [RaceNext]_raceVars => AllBacked'
<1> SUFFICES ASSUME RaceTypeOK, AllBacked, [RaceNext]_raceVars PROVE AllBacked'
  OBVIOUS
<1>1. TypeOK
  BY DEF RaceTypeOK
<1>2. ASSUME NEW b \in Booking, NEW s \in BookingStatus, ExpireAs(b, s)
      PROVE  AllBacked'
  <2>1. CASE s \in Expired
    BY <1>1, <1>2, <2>1, UnwindBacked DEF ExpireAs
  <2>2. CASE s \notin Expired
    BY <1>2, <2>2, QuietBacked DEF ExpireAs
  <2> QED BY <2>1, <2>2
<1> QED BY <1>1, <1>2, RaceStep, StepBacked

LEMMA RaceBackedAlways == RaceSpec => [](RaceTypeOK /\ AllBacked)
<1>1. RaceInit => AllBacked
  BY DEF RaceInit, Init, AllBacked, Backed
<1> QED BY <1>1, RaceTypeCorrect, RaceStepBacked, PTL DEF RaceSpec

\* A sweeper that writes a class the booking has outgrown still owes the creator
\* nothing: the earnings row has what the ledger owes, however sweeps overlap.
THEOREM RaceAlwaysBacked == RaceSpec => []EarningsBacked
<1>1. AllBacked => EarningsBacked
  BY DEF AllBacked, Backed, EarningsBacked
<1> QED BY RaceBackedAlways, <1>1, PTL

\* A stale COMPLETED_SUCCESSFUL that overwrites a refunded or settled booking
\* does not make it earn twice.
THEOREM RacePaidAtMostOnce == ASSUME SharesWithinPrice PROVE RaceSpec => []CreatorPaidAtMostOnce
<1> DEFINE Bounded == \A x \in Booking : earning[x] <= Gross[x]
<1>1. RaceInit => Bounded
  BY BookingAssumption DEF RaceInit, Init
<1>2. RaceTypeOK /\ AllBacked /\ Bounded /\ [RaceNext]_raceVars => Bounded'
  <2> SUFFICES ASSUME RaceTypeOK, AllBacked, Bounded, [RaceNext]_raceVars PROVE Bounded'
    OBVIOUS
  <2>1. CASE [Next]_vars
    BY <2>1, EarningWriters, EarningBounded DEF RaceTypeOK
  <2>2. ASSUME NEW b \in Booking, NEW s \in BookingStatus, ExpireAs(b, s)
        PROVE  Bounded'
    BY <2>2 DEF ExpireAs
  <2> QED BY <2>1, <2>2, RaceStep
<1>3. AllBacked /\ Bounded => CreatorPaidAtMostOnce
  BY DEF AllBacked, Backed, CreatorPaidAtMostOnce
<1> HIDE DEF Bounded
<1> QED BY RaceBackedAlways, <1>1, <1>2, <1>3, PTL DEF RaceSpec

\* An open report holds the payment under overlapping sweeps, too.
THEOREM RaceReportHolds == RaceSpec => ReportHold
<1>1. ASSUME RaceTypeOK, [RaceNext]_raceVars PROVE NotPaidWhileReported
  <2>1. ASSUME NEW b \in Booking, NEW s, ExpireAs(b, s) PROVE NotPaidWhileReported
    <3>1. CASE s \in Expired
      BY <2>1, <3>1, <1>1, UnwindPayable DEF ExpireAs, RaceTypeOK
    <3>2. CASE s \notin Expired
      BY <2>1, <3>2 DEF ExpireAs, ledger, NotPaidWhileReported
    <3> QED BY <3>1, <3>2
  <2> QED BY <1>1, <2>1, RaceStep, StepReportHold DEF RaceTypeOK
<1>2. RaceTypeOK /\ [RaceNext]_raceVars =>
        [\A b \in Booking :
           report[b] = "open" /\ status[b] = "COMPLETED_SUCCESSFUL"
             => payable'[b] = payable[b]]_vars
  BY <1>1 DEF NotPaidWhileReported
<1> QED BY <1>2, RaceTypeCorrect, PTL DEF RaceSpec, ReportHold

\* What a sweeper has read of the calls does not go stale the wrong way: a booking
\* delivered once stays so, whatever becomes of its status.
LEMMA DeliveredStays ==
  ASSUME TypeOK, [Next]_vars, NEW x \in Booking, Delivered(x)
  PROVE  Delivered(x)'
<1>1. ASSUME NEW b \in Booking, NEW end, NEW level \in Level, AttemptOver(b, end, level)
      PROVE  Delivered(x)'
  BY <1>1 DEF AttemptOver, TypeOK, Delivered, Level
<1>2. CASE UNCHANGED <<ends, longest>>
  BY <1>2 DEF Delivered
<1>3. ASSUME NEW b \in Booking, AdminNext(b) PROVE Delivered(x)'
  <2>1. ASSUME NEW level \in Level, RecoverCall(b, level) PROVE Delivered(x)'
    BY <1>1, <1>2, <2>1 DEF RecoverCall, calls
  <2>2. ASSUME \/ ForceSettle(b) \/ \E s \in Expired \cup {"COMPLETED_SUCCESSFUL"} : AdminExpire(b, s)
               \/ \E p \in CreatorShare : ResolvePartialCall(b, p)
               \/ \E s \in {"open", "closed"} : ResolveReport(b, s)
               \/ \E a \in 1..Gross[b], s \in {"open", "closed"} : ResolveReportRefund(b, a, s)
        PROVE  UNCHANGED <<ends, longest>>
    BY <2>2 DEF ForceSettle, SettleBooking, AdminExpire, ResolvePartialCall, ResolveReport,
       ResolveReportRefund, calls
  <2> QED BY <1>2, <1>3, <2>1, <2>2, Overrides
<1>4. ASSUME NEW b \in Booking,
             \/ BookVideoCall(b) \/ RefundBooking(b) \/ JobSettle(b)
             \/ CallStarts(b) \/ FileReport(b) \/ SweepExpired(b)
      PROVE  UNCHANGED <<ends, longest>>
  BY <1>4 DEF BookVideoCall, RefundBooking, JobSettle, SettleBooking, CallStarts, FileReport,
     SweepExpired, ExpireAs, calls
<1>5. ASSUME NEW b \in Booking, NEW o \in Outcome, CallEnds(b, o[1], o[2])
      PROVE  Delivered(x)'
  <2>1. o[2] \in Level
    BY BookingAssumption
  <2> QED BY <1>1, <1>5, <2>1 DEF CallEnds
<1>6. CASE Tick \/ (\E m \in Thresholds : SetAvailability(m)) \/ UNCHANGED vars
  BY <1>2, <1>6 DEF Tick, SetAvailability, vars, calls
<1> QED BY <1>2, <1>3, <1>4, <1>5, <1>6 DEF Next, LifecycleNext

SnapshotEarned == \A w \in Sweeper, b \in Booking : Rests(b, snapshot[w][b])

LEMMA RaceStepEarned ==
  ASSUME NoStatusByHand
  PROVE  RaceTypeOK /\ AllEarned /\ SnapshotEarned /\ [RaceNext]_raceVars
           => AllEarned' /\ SnapshotEarned'
<1> SUFFICES ASSUME RaceTypeOK, AllEarned, SnapshotEarned, [RaceNext]_raceVars
             PROVE  AllEarned' /\ SnapshotEarned'
  OBVIOUS
<1>1. TypeOK
  BY DEF RaceTypeOK
<1>2. CASE /\ [Next]_vars
           /\ UNCHANGED snapshot
  <2>1. AllEarned'
    BY <1>1, <1>2, StepEarned
  <2>2. ASSUME NEW w \in Sweeper, NEW b \in Booking PROVE Rests(b, snapshot[w][b])'
    BY <1>1, <1>2, DeliveredStays DEF SnapshotEarned, Rests
  <2> QED BY <2>1, <2>2 DEF SnapshotEarned
<1>3. ASSUME NEW w \in Sweeper, SweepOpens(w) PROVE AllEarned' /\ SnapshotEarned'
  <2>1. UNCHANGED vars
    BY <1>3 DEF SweepOpens
  <2>2. AllEarned'
    BY <1>1, <2>1, StepEarned
  <2>3. ASSUME NEW v \in Sweeper, NEW b \in Booking PROVE Rests(b, snapshot'[v][b])
    <3>1. snapshot'[v][b] \in {snapshot[v][b], Classify(b), "NONE"}
      BY <1>3 DEF SweepOpens, RaceTypeOK
    <3> QED BY <1>1, <3>1, ClassifyEarned DEF SnapshotEarned, Rests
  <2>4. \A b \in Booking : Delivered(b)' <=> Delivered(b)
    BY <2>1 DEF vars, calls, Delivered
  <2> QED BY <2>2, <2>3, <2>4 DEF SnapshotEarned, Rests
<1>4. ASSUME NEW w \in Sweeper, NEW b \in Booking, SweepItem(w, b)
      PROVE  AllEarned' /\ SnapshotEarned'
  <2>1. ExpireAs(b, snapshot[w][b]) /\ Rests(b, snapshot[w][b])
    BY <1>4 DEF SweepItem, SnapshotEarned
  <2>2. AllEarned'
    BY <1>1, <2>1, ExpireEarned
  <2>3. \A v \in Sweeper, x \in Booking : snapshot'[v][x] \in {snapshot[v][x], "NONE"}
    BY <1>4 DEF SweepItem, RaceTypeOK
  <2>4. \A x \in Booking : Delivered(x)' <=> Delivered(x)
    BY <2>1 DEF ExpireAs, calls, Delivered
  <2> QED BY <2>2, <2>3, <2>4 DEF SnapshotEarned, Rests
<1>5. CASE UNCHANGED raceVars
  BY <1>2, <1>5 DEF raceVars
<1> QED BY <1>2, <1>3, <1>4, <1>5 DEF RaceNext, Next

\* A sweeper that completes a booking from what it read earlier has read of a call
\* that took place: however late it writes, and over whatever, the creator is paid
\* only for that.
THEOREM RacePaidForDelivery == ASSUME NoStatusByHand PROVE RaceSpec => []PaidForDelivery
<1>1. RaceInit => AllEarned /\ SnapshotEarned
  BY DEF RaceInit, Init, AllEarned, Earned, SnapshotEarned, Rests
<1>2. AllEarned => PaidForDelivery
  BY DEF AllEarned, Earned, Delivered, PaidForDelivery
<1> QED BY <1>1, <1>2, RaceTypeCorrect, RaceStepEarned, PTL DEF RaceSpec

\* A booking is expired with its refund posted, by a sweep or by an admin.
ExpiredIsPosted ==
  \A b \in Booking :
    status[b] \in WrittenByExpiry => "expire" \in posted[b] \/ "admin-expire" \in posted[b]

\* Neither a lifecycle step nor the recovery of a call writes such a status.
LEMMA ExpiryStatuses ==
  /\ WrittenByExpiry \subseteq Expired
  /\ "recover" \in AdminOps => "EXPIRED_TECHNICAL_ISSUE" \notin WrittenByExpiry
BY DEF WrittenByExpiry

LEMMA PostGrows ==
  ASSUME TypeOK, NEW b \in Booking, NEW keys, NEW w, NEW e, NEW p, NEW d,
         Post(b, keys, w, e, p, d)
  PROVE  \A x \in Booking : posted[x] \subseteq posted'[x]
BY DEF Post, ledger, TypeOK

LEMMA ExpirePosts ==
  ASSUME TypeOK, ExpiredIsPosted, NEW b \in Booking, NEW s, ExpireAs(b, s)
  PROVE  ExpiredIsPosted'
<1> USE ExpiryStatuses
<1>1. status' = [status EXCEPT ![b] = s]
  BY DEF ExpireAs
<1>2. CASE s \in Expired
  <2>1. Unwind(b, "expire")
    BY <1>2 DEF ExpireAs
  <2>2. \A x \in Booking : posted[x] \subseteq posted'[x]
    BY <2>1, PostGrows DEF Unwind
  <2>3. "expire" \in posted'[b]
    BY <2>1 DEF Unwind, Post, ledger, TypeOK
  <2> QED BY <1>1, <2>2, <2>3 DEF ExpiredIsPosted, TypeOK
<1>3. CASE s \notin Expired
  <2>1. posted' = posted
    BY <1>3 DEF ExpireAs, ledger
  <2> QED BY <1>1, <1>3, <2>1 DEF ExpiredIsPosted, TypeOK
<1> QED BY <1>2, <1>3

\* A step that expires nothing and takes no key back.
LEMMA ExpiresNothing ==
  ASSUME ExpiredIsPosted, \A x \in Booking : posted[x] \subseteq posted'[x],
         \A x \in Booking : status'[x] = status[x] \/ status'[x] \notin WrittenByExpiry
  PROVE  ExpiredIsPosted'
BY DEF ExpiredIsPosted

LEMMA AdminExpirePosts ==
  ASSUME TypeOK, ExpiredIsPosted, NEW b \in Booking, NEW s, AdminExpire(b, s)
  PROVE  ExpiredIsPosted'
<1>1. status' = [status EXCEPT ![b] = s]
  BY DEF AdminExpire
<1>2. CASE s \in Expired
  <2>1. Unwind(b, "admin-expire")
    BY <1>2 DEF AdminExpire
  <2>2. \A x \in Booking : posted[x] \subseteq posted'[x]
    BY <2>1, PostGrows DEF Unwind
  <2>3. "admin-expire" \in posted'[b]
    BY <2>1 DEF Unwind, Post, ledger, TypeOK
  <2> QED BY <1>1, <2>2, <2>3 DEF ExpiredIsPosted, TypeOK
<1>3. CASE s \notin Expired
  <2>1. posted' = posted
    BY <1>3 DEF AdminExpire, ledger
  <2> QED BY <1>1, <1>3, <2>1, ExpiryStatuses DEF ExpiredIsPosted, TypeOK
<1> QED BY <1>2, <1>3

LEMMA AdminPosts ==
  ASSUME TypeOK, ExpiredIsPosted, NEW b \in Booking, AdminNext(b)
  PROVE  ExpiredIsPosted'
<1> USE ExpiryStatuses
<1>1. CASE ForceSettle(b)
  BY <1>1, PostGrows, ExpiresNothing DEF ForceSettle, SettleBooking
<1>2. ASSUME NEW p \in CreatorShare, ResolvePartialCall(b, p) PROVE ExpiredIsPosted'
  <2>1. \A x \in Booking : status'[x] = status[x] \/ status'[x] \notin WrittenByExpiry
    BY <1>2 DEF ResolvePartialCall, TypeOK, Expired
  <2>2. \A x \in Booking : posted[x] \subseteq posted'[x]
    BY <1>2, PostGrows DEF ResolvePartialCall
  <2> QED BY <2>1, <2>2, ExpiresNothing
<1>3. ASSUME NEW s \in {"open", "closed"}, ResolveReport(b, s) PROVE ExpiredIsPosted'
  BY <1>3 DEF ResolveReport, ledger, ExpiredIsPosted
<1>4. ASSUME NEW a \in 1..Gross[b], NEW s \in {"open", "closed"},
             ResolveReportRefund(b, a, s)
      PROVE  ExpiredIsPosted'
  <2>1. \A x \in Booking : status'[x] = status[x] \/ status'[x] \notin WrittenByExpiry
    BY <1>4 DEF ResolveReportRefund, TypeOK, Expired
  <2>2. \A x \in Booking : posted[x] \subseteq posted'[x]
    BY <1>4, PostGrows DEF ResolveReportRefund
  <2> QED BY <2>1, <2>2, ExpiresNothing
<1>5. ASSUME NEW s \in Expired \cup {"COMPLETED_SUCCESSFUL"}, AdminExpire(b, s)
      PROVE  ExpiredIsPosted'
  BY <1>5, AdminExpirePosts
<1>6. ASSUME NEW level \in Level, "recover" \in AdminOps, RecoverCall(b, level)
      PROVE  ExpiredIsPosted'
  <2>1. posted' = posted /\ status' = [status EXCEPT ![b] = "EXPIRED_TECHNICAL_ISSUE"]
    BY <1>6 DEF RecoverCall, ledger
  <2> QED BY <2>1, <1>6 DEF ExpiredIsPosted, TypeOK
<1> QED BY <1>1, <1>2, <1>3, <1>4, <1>5, <1>6, Overrides

LEMMA StepPosts ==
  ASSUME TypeOK, ExpiredIsPosted, [Next]_vars
  PROVE  ExpiredIsPosted'
<1> USE ExpiryStatuses
<1>1. ASSUME UNCHANGED <<status, ledger>> PROVE ExpiredIsPosted'
  BY <1>1 DEF ledger, ExpiredIsPosted
<1>2. ASSUME NEW b \in Booking, BookVideoCall(b) \/ RefundBooking(b) PROVE ExpiredIsPosted'
  <2>1. \A x \in Booking : status'[x] = status[x] \/ status'[x] \notin WrittenByExpiry
    BY <1>2 DEF BookVideoCall, RefundBooking, TypeOK, Expired
  <2>2. \A x \in Booking : posted[x] \subseteq posted'[x]
    BY <1>2, PostGrows DEF BookVideoCall, RefundBooking, Unwind
  <2> QED BY <2>1, <2>2, ExpiresNothing
<1>3. ASSUME NEW b \in Booking, JobSettle(b) PROVE ExpiredIsPosted'
  BY <1>3, PostGrows, ExpiresNothing DEF JobSettle, SettleBooking
<1>4. ASSUME NEW b \in Booking, NEW o \in Outcome, CallEnds(b, o[1], o[2])
      PROVE  ExpiredIsPosted'
  <2>1. posted' = posted /\ \A x \in Booking : status'[x] = status[x] \/ status'[x] \notin WrittenByExpiry
    BY <1>4 DEF CallEnds, ledger, TypeOK, Expired
  <2> QED BY <2>1, ExpiresNothing
<1>5. ASSUME NEW b \in Booking, CallStarts(b) \/ FileReport(b) PROVE ExpiredIsPosted'
  BY <1>1, <1>5 DEF CallStarts, FileReport
<1>6. CASE Tick \/ (\E m \in Thresholds : SetAvailability(m)) \/ UNCHANGED vars
  BY <1>1, <1>6 DEF Tick, SetAvailability, vars
<1>7. ASSUME NEW b \in Booking, SweepExpired(b) PROVE ExpiredIsPosted'
  BY <1>7, ExpirePosts DEF SweepExpired
<1> QED
  BY <1>2, <1>3, <1>4, <1>5, <1>6, <1>7, AdminPosts DEF Next, LifecycleNext

\* However many sweeps overlap, and whatever overrides come in between, a booking is
\* refunded by one of them only: the others find its key posted.
THEOREM RaceRefundsOnce == RaceSpec => SweepRefundsOnce
<1>1. RaceInit => ExpiredIsPosted
  BY ExpiryStatuses DEF RaceInit, Init, ExpiredIsPosted, Expired
<1>2. RaceTypeOK /\ ExpiredIsPosted /\ [RaceNext]_raceVars => ExpiredIsPosted'
  BY RaceStep, StepPosts, ExpirePosts DEF RaceTypeOK
<1>3. ASSUME ExpiredIsPosted, NEW w \in Sweeper, NEW b \in Booking,
             SweepItem(w, b), ExpiredBySweep(b)
      PROVE  UNCHANGED ledger
  <2>1. "expire" \in posted[b] /\ ExpireAs(b, snapshot[w][b])
    BY <1>3 DEF ExpiredIsPosted, SweepItem, ExpiredBySweep
  <2> QED BY <2>1 DEF ExpireAs, Unwind, Post
<1>4. ExpiredIsPosted /\ [RaceNext]_raceVars =>
        [\A w \in Sweeper, b \in Booking :
           SweepItem(w, b) /\ ExpiredBySweep(b) => UNCHANGED ledger]_raceVars
  BY <1>3
<1> QED BY <1>1, <1>2, <1>4, RaceTypeCorrect, PTL DEF RaceSpec, SweepRefundsOnce

------------------------------------------------------------------------------
(* Wallets                                                                  *)

BookingsOf(f) == {b \in Booking : FanOf[b] = f}

\* A transaction that affords its wallet leg overdraws no wallet.
LEMMA PostAffords ==
  ASSUME TypeOK, WalletNeverNegative, NEW b \in Booking, NEW keys, NEW w \in Int,
         NEW e, NEW p, NEW d, Post(b, keys, w, e, p, d)
  PROVE  WalletNeverNegative'
<1>1. CASE keys \cap posted[b] # {}
  BY <1>1 DEF Post, ledger, WalletNeverNegative, Balance
<1>2. CASE keys \cap posted[b] = {}
  <2>1. wallet' = [wallet EXCEPT ![b] = @ + w] /\ Balance(FanOf[b]) + w >= 0
    BY <1>2 DEF Post, Affords
  <2>2. \A x \in Booking : wallet[x] \in Int
    BY DEF TypeOK
  <2>3. wallet'[b] = wallet[b] + w /\ \A x \in Booking \ {b} : wallet'[x] = wallet[x]
    BY <2>1 DEF TypeOK
  <2>4. ASSUME NEW f \in Fan PROVE Balance(f)' >= 0
    <3>1. IsFiniteSet(BookingsOf(f)) /\ Funds[f] \in Int
      BY BookingAssumption, FS_Subset DEF BookingsOf
    <3>2. SumFunctionOnSet(wallet, BookingsOf(f)) \in Int
      BY <2>2, <3>1, SumType DEF BookingsOf
    <3>3. /\ Balance(f) = Funds[f] + SumFunctionOnSet(wallet, BookingsOf(f))
          /\ Balance(f)' = Funds[f] + SumFunctionOnSet(wallet', BookingsOf(f))
      BY DEF Balance, BookingsOf
    <3>4. CASE FanOf[b] = f
      <4>1. b \in BookingsOf(f) /\ w \in Int
        BY <3>4 DEF BookingsOf
      <4>2. /\ \A x \in BookingsOf(f) : wallet[x] \in Int
            /\ \A x \in BookingsOf(f) \ {b} : wallet'[x] = wallet[x]
            /\ wallet'[b] = wallet[b] + w
        BY <2>2, <2>3 DEF BookingsOf
      <4>3. SumFunctionOnSet(wallet', BookingsOf(f)) = SumFunctionOnSet(wallet, BookingsOf(f)) + w
        BY <3>1, <4>1, <4>2, SumChange
      <4> QED BY <2>1, <3>1, <3>2, <3>3, <3>4, <4>3
    <3>5. CASE FanOf[b] # f
      <4>1. SumFunctionOnSet(wallet', BookingsOf(f)) = SumFunctionOnSet(wallet, BookingsOf(f))
        BY <2>2, <2>3, <3>1, <3>5, SumSame DEF BookingsOf
      <4> QED BY <3>3, <4>1 DEF WalletNeverNegative
    <3> QED BY <3>4, <3>5
  <2> QED BY <2>4 DEF WalletNeverNegative
<1> QED BY <1>1, <1>2

\* What a transaction may do to the ledger of a booking, as far as the wallet
\* is concerned.
Pays(b) == \E keys, w, e, p, d : w \in Int /\ Post(b, keys, w, e, p, d)

LEMMA UnwindPays == ASSUME NEW b \in Booking, NEW key, Unwind(b, key) PROVE Pays(b)
<1>1. Price(b) \in Int
  BY BookingAssumption DEF Price
<1> QED BY <1>1 DEF Unwind, Pays

LEMMA AdminPays == ASSUME NEW b \in Booking, AdminNext(b) PROVE UNCHANGED ledger \/ Pays(b)
<1>1. CASE ForceSettle(b)
  BY <1>1 DEF ForceSettle, SettleBooking, Pays
<1>2. ASSUME NEW s \in Expired \cup {"COMPLETED_SUCCESSFUL"}, AdminExpire(b, s)
      PROVE  UNCHANGED ledger \/ Pays(b)
  BY <1>2, UnwindPays DEF AdminExpire
<1>3. ASSUME NEW p \in CreatorShare, ResolvePartialCall(b, p) PROVE Pays(b)
  <2> DEFINE f == IF "partial-refund" \in posted[b] THEN 0 ELSE AtLeastZero(Gross[b] - p)
  <2>1. f \in Int
    BY BookingAssumption DEF AtLeastZero
  <2>2. \E keys, e, c, d : Post(b, keys, f, e, c, d)
    BY <1>3 DEF ResolvePartialCall
  <2> HIDE DEF f
  <2> QED BY <2>1, <2>2 DEF Pays
<1>4. ASSUME NEW a \in 1..Gross[b], NEW s, ResolveReportRefund(b, a, s) PROVE Pays(b)
  <2> DEFINE v == IF a < Price(b) THEN a ELSE Price(b)
  <2>1. v \in Int
    BY BookingAssumption DEF Price
  <2>2. Post(b, {"report-refund"}, v, -v, 0, 0)
    BY <1>4 DEF ResolveReportRefund
  <2> HIDE DEF v
  <2> QED BY <2>1, <2>2 DEF Pays
<1>5. ASSUME NEW level, RecoverCall(b, level) PROVE UNCHANGED ledger
  BY <1>5 DEF RecoverCall
<1>6. ASSUME NEW s, ResolveReport(b, s) PROVE UNCHANGED ledger
  BY <1>6 DEF ResolveReport
<1> QED BY <1>1, <1>2, <1>3, <1>4, <1>5, <1>6, Overrides

LEMMA StepPays ==
  ASSUME [Next]_vars
  PROVE  UNCHANGED ledger \/ \E b \in Booking : Pays(b)
<1>1. ASSUME NEW b \in Booking, BookVideoCall(b) PROVE Pays(b)
  <2>1. -Price(b) \in Int
    BY BookingAssumption DEF Price
  <2> QED BY <1>1, <2>1 DEF BookVideoCall, Pays
<1>2. ASSUME NEW b \in Booking, RefundBooking(b) PROVE Pays(b)
  BY <1>2, UnwindPays DEF RefundBooking
<1>3. ASSUME NEW b \in Booking, JobSettle(b) PROVE Pays(b)
  BY <1>3 DEF JobSettle, SettleBooking, Pays
<1>4. ASSUME NEW b \in Booking, SweepExpired(b) PROVE UNCHANGED ledger \/ Pays(b)
  BY <1>4, UnwindPays DEF SweepExpired, ExpireAs
<1>5. ASSUME NEW b \in Booking,
             \/ CallStarts(b) \/ FileReport(b)
             \/ \E o \in Outcome : CallEnds(b, o[1], o[2])
      PROVE  UNCHANGED ledger
  BY <1>5 DEF CallStarts, FileReport, CallEnds
<1>6. CASE Tick \/ (\E m \in Thresholds : SetAvailability(m)) \/ UNCHANGED vars
  BY <1>6 DEF Tick, SetAvailability, vars
<1> QED BY <1>1, <1>2, <1>3, <1>4, <1>5, <1>6, AdminPays DEF Next, LifecycleNext

LEMMA InitAffords == Init => WalletNeverNegative
<1> SUFFICES ASSUME Init, NEW f \in Fan PROVE Balance(f) >= 0
  BY DEF WalletNeverNegative
<1>1. IsFiniteSet(BookingsOf(f)) /\ Funds[f] \in Nat
  BY BookingAssumption, FS_Subset DEF BookingsOf
<1>2. \A b \in BookingsOf(f) : wallet[b] \in Nat
  BY DEF Init, BookingsOf
<1>3. SumFunctionOnSet(wallet, BookingsOf(f)) \in Nat
  BY <1>1, <1>2, SumNat
<1> QED BY <1>1, <1>3 DEF Balance, BookingsOf

LEMMA RaceStepAffords ==
  RaceTypeOK /\ WalletNeverNegative /\ [RaceNext]_raceVars => WalletNeverNegative'
<1> SUFFICES ASSUME RaceTypeOK, WalletNeverNegative, [RaceNext]_raceVars
             PROVE  WalletNeverNegative'
  OBVIOUS
<1>1. UNCHANGED ledger \/ \E b \in Booking : Pays(b)
  <2>1. ASSUME NEW b \in Booking, NEW s, ExpireAs(b, s) PROVE UNCHANGED ledger \/ Pays(b)
    BY <2>1, UnwindPays DEF ExpireAs
  <2> QED BY <2>1, RaceStep, StepPays
<1>2. CASE UNCHANGED ledger
  BY <1>2 DEF ledger, WalletNeverNegative, Balance
<1>3. ASSUME NEW b \in Booking, Pays(b) PROVE WalletNeverNegative'
  BY <1>3, PostAffords DEF Pays, RaceTypeOK
<1> QED BY <1>1, <1>2, <1>3

LEMMA StepAffords == TypeOK /\ WalletNeverNegative /\ [Next]_vars => WalletNeverNegative'
<1> SUFFICES ASSUME TypeOK, WalletNeverNegative, [Next]_vars PROVE WalletNeverNegative'
  OBVIOUS
<1>1. CASE UNCHANGED ledger
  BY <1>1 DEF ledger, WalletNeverNegative, Balance
<1>2. ASSUME NEW b \in Booking, Pays(b) PROVE WalletNeverNegative'
  BY <1>2, PostAffords DEF Pays
<1> QED BY <1>1, <1>2, StepPays

\* No fan's wallet is ever overdrawn, however many bookings draw on it and
\* whatever overrides the admins use (the wallet_non_negative check of 0004).
THEOREM WalletAlwaysCovered == Spec => []WalletNeverNegative
BY InitAffords, StepAffords, TypeCorrect, PTL DEF Spec

\* Nor under sweeps that overlap.
THEOREM RaceWalletCovered == RaceSpec => []WalletNeverNegative
<1>1. RaceInit => WalletNeverNegative
  BY InitAffords DEF RaceInit
<1> QED BY <1>1, RaceStepAffords, RaceTypeCorrect, PTL DEF RaceSpec

------------------------------------------------------------------------------
(* The minutes of the date                                                  *)

Occupying == {b \in Booking : Occupies(b)}

\* A booking that takes its minutes, and one that gives them back.
LEMMA MinutesTaken ==
  ASSUME CapacityExact, NEW b \in Booking, b \notin Occupying,
         Occupying' = Occupying \cup {b}, bookedMinutes' = bookedMinutes + Minutes[b]
  PROVE  CapacityExact'
<1> DEFINE T == Occupying \cup {b}
<1>1. IsFiniteSet(T) /\ T \ {b} = Occupying /\ b \in T
  BY BookingAssumption, FS_Subset DEF Occupying
<1>2. \A x \in T : Minutes[x] \in Int
  BY BookingAssumption DEF Occupying
<1>3. SumFunctionOnSet(Minutes, T) = Minutes[b] + SumFunctionOnSet(Minutes, Occupying)
  <2> HIDE DEF T
  <2> QED BY <1>1, <1>2, SumTake
<1>4. /\ bookedMinutes = SumFunctionOnSet(Minutes, Occupying)
      /\ CapacityExact' <=> bookedMinutes' = SumFunctionOnSet(Minutes, Occupying')
  BY DEF CapacityExact, Occupying
<1>5. IsFiniteSet(Occupying) /\ \A x \in Occupying : Minutes[x] \in Int
  BY BookingAssumption, FS_Subset DEF Occupying
<1>6. SumFunctionOnSet(Minutes, Occupying) \in Int /\ Minutes[b] \in Int
  BY <1>5, SumType, BookingAssumption
<1> QED BY <1>3, <1>4, <1>6

LEMMA MinutesReturned ==
  ASSUME CapacityExact, NEW b \in Occupying,
         Occupying' = Occupying \ {b}, bookedMinutes' = Released(b)
  PROVE  CapacityExact'
<1>1. IsFiniteSet(Occupying) /\ IsFiniteSet(Occupying \ {b}) /\ b \in Booking
  BY BookingAssumption, FS_Subset, FS_RemoveElement DEF Occupying
<1>2. \A x \in Occupying : Minutes[x] \in Nat
  BY BookingAssumption DEF Occupying
<1>3. SumFunctionOnSet(Minutes, Occupying) =
        Minutes[b] + SumFunctionOnSet(Minutes, Occupying \ {b})
  BY <1>1, <1>2, SumTake
<1>4. SumFunctionOnSet(Minutes, Occupying \ {b}) \in Nat
  BY <1>1, <1>2, SumNat
<1>5. /\ bookedMinutes = SumFunctionOnSet(Minutes, Occupying)
      /\ CapacityExact' <=> bookedMinutes' = SumFunctionOnSet(Minutes, Occupying')
  BY DEF CapacityExact, Occupying
<1>6. Released(b) = SumFunctionOnSet(Minutes, Occupying \ {b})
  BY <1>1, <1>2, <1>3, <1>4, <1>5 DEF Released, AtLeastZero
<1> QED BY <1>5, <1>6

\* A status that changes among those that occupy the date, or does not change.
LEMMA MinutesKept ==
  ASSUME CapacityExact, TypeOK, NEW b \in Booking, NEW s, UNCHANGED bookedMinutes,
         \/ UNCHANGED status
         \/ status' = [status EXCEPT ![b] = s] /\ Occupies(b)
              /\ s \in {"BOOKED", "REQUIRES_ADMIN_REVIEW", "COMPLETED_SUCCESSFUL",
                        "CANCELLED_BY_ADMIN"}
  PROVE  CapacityExact'
<1>1. Occupying' = Occupying
  BY DEF Occupying, Occupies, TypeOK
<1> QED BY <1>1 DEF CapacityExact, Occupying

LEMMA FreesDate ==
  ASSUME CapacityExact, TypeOK, NEW b \in Booking, status[b] = "BOOKED",
         NEW s \in Expired \cup {"CANCELLED_BY_FAN"},
         status' = [status EXCEPT ![b] = s], bookedMinutes' = Released(b)
  PROVE  CapacityExact'
<1>1. b \in Occupying /\ Occupying' = Occupying \ {b}
  BY DEF Occupying, Occupies, TypeOK, Expired
<1> QED BY <1>1, MinutesReturned

LEMMA SweepCapacity ==
  ASSUME CapacityExact, TypeOK, NEW b \in Booking, SweepExpired(b)
  PROVE  CapacityExact'
<1>1. /\ status[b] = "BOOKED" /\ ExpireAs(b, Classify(b))
      /\ status' = [status EXCEPT ![b] = Classify(b)]
  BY DEF SweepExpired, Due, ExpireAs
<1>2. CASE Classify(b) \in Expired
  BY <1>1, <1>2, FreesDate DEF ExpireAs
<1>3. CASE Classify(b) \notin Expired
  <2>1. Classify(b) \in {"COMPLETED_SUCCESSFUL", "REQUIRES_ADMIN_REVIEW"}
    BY <1>3 DEF Classify, Expired, TypeOK, Level
  <2> QED BY <1>1, <1>3, <2>1, MinutesKept DEF ExpireAs, Occupies
<1> QED BY <1>2, <1>3

LEMMA BookCapacity ==
  ASSUME CapacityExact, TypeOK, NEW b \in Booking, BookVideoCall(b)
  PROVE  CapacityExact'
<1>1. /\ status[b] = "NONE" /\ status' = [status EXCEPT ![b] = "BOOKED"]
      /\ bookedMinutes' = bookedMinutes + Minutes[b]
  BY DEF BookVideoCall, Exists
<1>2. b \notin Occupying /\ Occupying' = Occupying \cup {b}
  BY <1>1 DEF Occupying, Occupies, TypeOK
<1> QED BY <1>1, <1>2, MinutesTaken

LEMMA AdminCapacity ==
  ASSUME NoStatusOverride, CapacityExact, TypeOK, NEW b \in Booking, AdminNext(b)
  PROVE  CapacityExact'
<1>1. ASSUME ForceSettle(b) \/ \E s \in {"open", "closed"} : ResolveReport(b, s)
      PROVE  UNCHANGED <<status, bookedMinutes>>
  BY <1>1 DEF ForceSettle, SettleBooking, ResolveReport, availability
<1>2. ASSUME NEW p \in CreatorShare, ResolvePartialCall(b, p) PROVE CapacityExact'
  <2>1. /\ Occupies(b) /\ UNCHANGED bookedMinutes
        /\ status' = [status EXCEPT ![b] = "COMPLETED_SUCCESSFUL"]
    BY <1>2 DEF ResolvePartialCall, availability, Occupies
  <2> QED BY <2>1, MinutesKept
<1>3. ASSUME NEW a \in 1..Gross[b], NEW s \in {"open", "closed"}, ResolveReportRefund(b, a, s)
      PROVE  CapacityExact'
  <2>1. /\ Occupies(b) /\ UNCHANGED bookedMinutes
        /\ status' = [status EXCEPT ![b] = "CANCELLED_BY_ADMIN"]
    BY <1>3 DEF ResolveReportRefund, availability, Occupies
  <2> QED BY <2>1, MinutesKept
<1>4. "expire" \notin AdminOps /\ "recover" \notin AdminOps
  BY DEF NoStatusOverride
<1> QED BY <1>1, <1>2, <1>3, <1>4, MinutesKept, Overrides

LEMMA StepCapacity ==
  ASSUME NoStatusOverride
  PROVE  TypeOK /\ CapacityExact /\ [Next]_vars => CapacityExact'
<1> SUFFICES ASSUME TypeOK, CapacityExact, [Next]_vars PROVE CapacityExact'
  OBVIOUS
<1>1. ASSUME NEW b \in Booking, RefundBooking(b) PROVE CapacityExact'
  BY <1>1, FreesDate DEF RefundBooking, Refundable
<1>2. ASSUME NEW b \in Booking, JobSettle(b) \/ CallStarts(b) \/ FileReport(b)
      PROVE  UNCHANGED <<status, bookedMinutes>>
  BY <1>2 DEF JobSettle, SettleBooking, CallStarts, FileReport, availability
<1>3. ASSUME NEW b \in Booking, NEW o \in Outcome, CallEnds(b, o[1], o[2])
      PROVE  CapacityExact'
  <2>1. UNCHANGED bookedMinutes
    BY <1>3 DEF CallEnds, availability
  <2>2. \/ UNCHANGED status
        \/ status' = [status EXCEPT ![b] = "COMPLETED_SUCCESSFUL"] /\ status[b] = "BOOKED"
    BY <1>3 DEF CallEnds, SyncsBooking
  <2> QED BY <2>1, <2>2, MinutesKept DEF Occupies
<1>4. CASE Tick \/ (\E m \in Thresholds : SetAvailability(m)) \/ UNCHANGED vars
  BY <1>4 DEF Tick, SetAvailability, vars, availability, CapacityExact, Occupies
<1>5. UNCHANGED <<status, bookedMinutes>> => CapacityExact'
  BY DEF CapacityExact, Occupies
<1> QED BY <1>1, <1>2, <1>3, <1>4, <1>5, SweepCapacity, BookCapacity, AdminCapacity
        DEF Next, LifecycleNext

\* However many bookings share the date, and in whatever order they are made,
\* cancelled, expired, delivered and split, the date counts the minutes of
\* exactly those that still occupy it.
THEOREM CapacityAlwaysExact == ASSUME NoStatusOverride PROVE Spec => []CapacityExact
<1>1. Init => CapacityExact
  <2> SUFFICES ASSUME Init PROVE CapacityExact
    OBVIOUS
  <2>1. {b \in Booking : Occupies(b)} = {} /\ bookedMinutes = 0
    BY DEF Init, Occupies
  <2> QED BY <2>1, SumEmpty DEF CapacityExact
<1> QED BY <1>1, StepCapacity, TypeCorrect, PTL DEF Spec
=============================================================================
