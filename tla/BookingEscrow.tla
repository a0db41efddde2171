---------------------------- MODULE BookingEscrow ----------------------------
(***************************************************************************)
(* The money life of a video-call booking: charged into escrow, then       *)
(* refunded, expired, settled to the creator, or split by an admin.        *)
(*                                                                         *)
(* Every rpc_* function of the final migrations is one action: those that  *)
(* move a booking's money take its row FOR UPDATE before they decide, so   *)
(* two of them on one booking never interleave.  The expiry sweep reads    *)
(* its bookings without a lock; here it is one step per booking, and       *)
(* BookingSweepRace splits it into the read and the write.                 *)
(*                                                                         *)
(* One creator and one date.  Money is counted per booking: the net of the *)
(* ledger legs of that booking's transactions on each account.             *)
(***************************************************************************)
EXTENDS Integers, FiniteSets, Functions

CONSTANTS
  Booking,       \* ids that bookings may take
  Fan, FanOf,    \* the fans, and whose booking each is
  Funds,         \* wallet balance of each fan before any booking
  Gross,         \* list price of each booking, what escrow receives
  Discount,      \* the part of it the platform funds through a promo code
  Minutes,       \* booked duration
  Thresholds,    \* minutes the creator may offer for the date
  Window,        \* platform_settings.settlement_window_days, in ticks
  Outcome,       \* how a call attempt may end: <<end, duration level>>
  MaxLive,       \* bound: attempts of one booking alive at once
  CreatorShare,  \* creator parts an admin may type into a split
  AdminOps       \* the admin overrides the instance includes

\* Levels of one attempt's connected time, as the expiry sweep tells them
\* apart: 0 under three minutes, 1 under the booked time, 2 all of it.
Level == 0..2
End == {"COMPLETED_SUCCESSFUL", "MISSED_FAN_NO_JOIN", "MISSED_FAN_DECLINED",
        "DROPPED_TECHNICAL_ISSUE"}

\* booking_price_positive makes the fan's own part at least one paisa.
ASSUME BookingAssumption ==
  /\ IsFiniteSet(Booking)
  /\ FanOf \in [Booking -> Fan]
  /\ Funds \in [Fan -> Nat]
  /\ Gross \in [Booking -> Nat]
  /\ Discount \in [Booking -> Nat]
  /\ \A b \in Booking : Discount[b] < Gross[b]
  /\ Minutes \in [Booking -> Nat \ {0}]
  /\ Thresholds \subseteq Nat
  /\ Window \in Nat
  /\ Outcome \subseteq End \X Level
  /\ MaxLive \in Nat
  /\ CreatorShare \subseteq Nat
  /\ AdminOps \subseteq {"force_settle", "expire", "recover", "partial",
                       "report_close", "report_refund"}

VARIABLES
  status,         \* bookings.status, "NONE" before the row exists
  remaining,      \* settle_at - now(), saturating at -1 once past
  live,           \* how many of its attempts are ringing or connected
  ends, longest,  \* how its ended attempts ended; the longest one's level
  report,         \* the one CALL report: "none", "open", "closed"
  wallet, escrow, payable, promo,  \* net ledger legs, per account
  posted,         \* idempotency keys of the transactions posted for it
  earning,        \* partner_earnings.amount_paise, 0 while there is no row
  bookedMinutes, threshold         \* the availability row of the date

ledger == <<wallet, escrow, payable, promo, posted>>
calls == <<live, ends, longest>>
availability == <<bookedMinutes, threshold>>
vars == <<status, remaining, calls, report, ledger, earning, availability>>

Expired == {"EXPIRED_PARTNER_NO_SHOW", "EXPIRED_FAN_NO_JOIN",
            "EXPIRED_FAN_DECLINED", "EXPIRED_TECHNICAL_ISSUE"}
BookingStatus == Expired \cup
  {"NONE", "BOOKED", "COMPLETED_SUCCESSFUL", "REQUIRES_ADMIN_REVIEW",
   "CANCELLED_BY_FAN", "CANCELLED_BY_ADMIN"}
Key == {"book", "refund", "expire", "admin-expire", "settle",
        "partial-settle", "partial-refund", "report-refund"}

Price(b) == Gross[b] - Discount[b]
Balance(f) ==
  Funds[f] + SumFunctionOnSet(wallet, {b \in Booking : FanOf[b] = f})
Exists(b) == status[b] # "NONE"
AtLeastZero(n) == IF n < 0 THEN 0 ELSE n

------------------------------------------------------------------------------
(* The ledger                                                               *)

\* The wallet CHECK (balance_paise >= 0) that aborts an overdraft.
NoOverdraftCheck(b, w) == TRUE
Affords(b, w) == Balance(FanOf[b]) + w >= 0

\* post_transaction: a replayed key applies nothing; otherwise the legs land
\* on the four accounts.  Several keys: several transactions of one handler.
Post(b, keys, w, e, p, d) ==
  IF keys \cap posted[b] # {}
  THEN UNCHANGED ledger
  ELSE /\ Affords(b, w)
       /\ posted' = [posted EXCEPT ![b] = @ \cup keys]
       /\ wallet' = [wallet EXCEPT ![b] = @ + w]
       /\ escrow' = [escrow EXCEPT ![b] = @ + e]
       /\ payable' = [payable EXCEPT ![b] = @ + p]
       /\ promo' = [promo EXCEPT ![b] = @ + d]

\* The same posted without a key.
UnwindKeyless(b, key) == Post(b, {}, Price(b), -Gross[b], 0, Discount[b])

\* The booking legs unwound exactly, under the given key.
Unwind(b, key) == Post(b, {key}, Price(b), -Gross[b], 0, Discount[b])

\* The minutes of the date after booking b gives its own back.
NothingReleased(b) == bookedMinutes
UnclampedRelease(b) == bookedMinutes - Minutes[b]
Released(b) == AtLeastZero(bookedMinutes - Minutes[b])

------------------------------------------------------------------------------
(* Booking, refund, expiry, settlement                                      *)

Init ==
  /\ status = [b \in Booking |-> "NONE"]
  /\ remaining = [b \in Booking |-> -1]
  /\ live = [b \in Booking |-> 0]
  /\ ends = [b \in Booking |-> {}]
  /\ longest = [b \in Booking |-> 0]
  /\ report = [b \in Booking |-> "none"]
  /\ wallet = [b \in Booking |-> 0]
  /\ escrow = [b \in Booking |-> 0]
  /\ payable = [b \in Booking |-> 0]
  /\ promo = [b \in Booking |-> 0]
  /\ posted = [b \in Booking |-> {}]
  /\ earning = [b \in Booking |-> 0]
  /\ bookedMinutes = 0
  /\ threshold \in Thresholds

\* rpc_partner_set_availability leaves the booked minutes alone.
SetAvailability(m) ==
  /\ threshold' = m
  /\ UNCHANGED <<status, remaining, calls, report, ledger, earning, bookedMinutes>>

HasCapacity(b) == threshold > 0 /\ bookedMinutes + Minutes[b] <= threshold

BookVideoCall(b) ==
  /\ ~Exists(b)
  /\ HasCapacity(b)
  /\ Post(b, {"book"}, -Price(b), Gross[b], 0, -Discount[b])
  /\ status' = [status EXCEPT ![b] = "BOOKED"]
  /\ remaining' = [remaining EXCEPT ![b] = Window]
  /\ bookedMinutes' = bookedMinutes + Minutes[b]
  /\ UNCHANGED <<calls, report, earning, threshold>>

\* Until settle_at, while nothing has happened that ends the booking.
RefundableOnceDelivered(b) ==
  status[b] \in {"BOOKED", "COMPLETED_SUCCESSFUL"} /\ remaining[b] >= 0
Refundable(b) == status[b] = "BOOKED" /\ remaining[b] >= 0

RefundBooking(b) ==
  /\ Refundable(b)
  /\ Unwind(b, "refund")
  /\ status' = [status EXCEPT ![b] = "CANCELLED_BY_FAN"]
  /\ bookedMinutes' = Released(b)
  /\ UNCHANGED <<remaining, calls, report, earning, threshold>>

\* A sweep that takes a booking nobody complained of for delivered.
ClassifyQuietAsDelivered(b) ==
  CASE longest[b] = 2 \/ ends[b] = {} -> "COMPLETED_SUCCESSFUL"
    [] longest[b] = 1 -> "REQUIRES_ADMIN_REVIEW"
    [] OTHER -> "EXPIRED_TECHNICAL_ISSUE"

\* What the attempts of booking b say it was, in the order the sweep asks.
Classify(b) ==
  CASE longest[b] = 2 -> "COMPLETED_SUCCESSFUL"
    [] longest[b] = 1 -> "REQUIRES_ADMIN_REVIEW"
    [] longest[b] = 0 /\ ends[b] = {} -> "EXPIRED_PARTNER_NO_SHOW"
    [] longest[b] = 0 /\ "MISSED_FAN_DECLINED" \in ends[b] -> "EXPIRED_FAN_DECLINED"
    [] longest[b] = 0 /\ "MISSED_FAN_NO_JOIN" \in ends[b]
         /\ "MISSED_FAN_DECLINED" \notin ends[b] -> "EXPIRED_FAN_NO_JOIN"
    [] OTHER -> "EXPIRED_TECHNICAL_ISSUE"

\* The sweep's writes for one booking it has classified as s.  The status
\* is written by id alone: the row is not looked at again.
ExpireAs(b, s) ==
  /\ IF s \in Expired
     THEN Unwind(b, "expire") /\ bookedMinutes' = Released(b)
     ELSE UNCHANGED <<ledger, bookedMinutes>>
  /\ status' = [status EXCEPT ![b] = s]
  /\ remaining' = IF s = "COMPLETED_SUCCESSFUL"
                  THEN [remaining EXCEPT ![b] = Window] ELSE remaining
  /\ UNCHANGED <<calls, report, earning, threshold>>

DueUnlessLive(b) == status[b] = "BOOKED" /\ remaining[b] <= 0 /\ live[b] = 0
Due(b) == status[b] = "BOOKED" /\ remaining[b] <= 0

SweepExpired(b) == Due(b) /\ ExpireAs(b, Classify(b))

\* rpc_settle_booking: delivered, not under report, not paid already.
SettleableDespiteReport(b) == status[b] = "COMPLETED_SUCCESSFUL" /\ earning[b] = 0
SettleableTwice(b) == status[b] = "COMPLETED_SUCCESSFUL" /\ report[b] # "open"
Settleable(b) ==
  /\ status[b] = "COMPLETED_SUCCESSFUL"
  /\ report[b] # "open"
  /\ earning[b] = 0

\* The signs of the two legs swapped.
SettleSwapped(b) ==
  /\ Settleable(b)
  /\ Post(b, {"settle"}, 0, Gross[b], -Gross[b], 0)
  /\ earning' = [earning EXCEPT ![b] = Gross[b]]
  /\ UNCHANGED <<status, remaining, calls, report, availability>>
SettleBooking(b) ==
  /\ Settleable(b)
  /\ Post(b, {"settle"}, 0, -Gross[b], Gross[b], 0)
  /\ earning' = [earning EXCEPT ![b] = Gross[b]]
  /\ UNCHANGED <<status, remaining, calls, report, availability>>

\* The settlement job pays only what is past its review window.
JobSettle(b) == remaining[b] <= 0 /\ SettleBooking(b)

------------------------------------------------------------------------------
(* Calls and reports, as far as the money depends on them                   *)

\* Only an attempt that still rings, and for less than a minute, stops the
\* creator from starting another: one may ring beside one that is connected.
CallStarts(b) ==
  /\ status[b] = "BOOKED" /\ live[b] < MaxLive
  /\ live' = [live EXCEPT ![b] = @ + 1]
  /\ UNCHANGED <<status, remaining, ends, longest, report, ledger, earning, availability>>

\* trg_sync_call_to_booking: a completed attempt completes a BOOKED booking.
SyncsAnyBooking(b, end) == end = "COMPLETED_SUCCESSFUL"
SyncsBooking(b, end) == end = "COMPLETED_SUCCESSFUL" /\ status[b] = "BOOKED"

\* One attempt is over, whatever became of the booking meanwhile.
AttemptOver(b, end, level) ==
  /\ live' = [live EXCEPT ![b] = @ - 1]
  /\ ends' = [ends EXCEPT ![b] = @ \cup {end}]
  /\ longest' = [longest EXCEPT ![b] = IF level > @ THEN level ELSE @]

CallEnds(b, end, level) ==
  /\ live[b] > 0
  /\ AttemptOver(b, end, level)
  /\ status' = IF SyncsBooking(b, end)
               THEN [status EXCEPT ![b] = "COMPLETED_SUCCESSFUL"] ELSE status
  /\ UNCHANGED <<remaining, report, ledger, earning, availability>>

\* Anyone may report a call that has a row, at any time.
FileReport(b) ==
  /\ live[b] > 0 \/ ends[b] # {}
  /\ report[b] = "none"
  /\ report' = [report EXCEPT ![b] = "open"]
  /\ UNCHANGED <<status, remaining, calls, ledger, earning, availability>>

\* rpc_admin_resolve_report without a refund; it may also reopen.
ResolveReport(b, s) ==
  /\ report[b] # "none"
  /\ report' = [report EXCEPT ![b] = s]
  /\ UNCHANGED <<status, remaining, calls, ledger, earning, availability>>

\* ... with a refund of at most what the fan paid.  Neither the report's own
\* state nor partner_earnings is looked at.
ResolveReportRefund(b, amount, s) ==
  /\ report[b] # "none"
  /\ status[b] = "COMPLETED_SUCCESSFUL" /\ remaining[b] >= 0
  /\ LET v == IF amount < Price(b) THEN amount ELSE Price(b)
     IN Post(b, {"report-refund"}, v, -v, 0, 0)
  /\ status' = [status EXCEPT ![b] = "CANCELLED_BY_ADMIN"]
  /\ report' = [report EXCEPT ![b] = s]
  /\ UNCHANGED <<remaining, calls, earning, availability>>

------------------------------------------------------------------------------
(* Admin overrides                                                          *)

ForceSettle(b) == SettleBooking(b)

\* rpc_admin_expire_booking never looks at the current status.
AdminExpire(b, s) ==
  /\ Exists(b)
  /\ IF s \in Expired
     THEN Unwind(b, "admin-expire") /\ bookedMinutes' = Released(b)
     ELSE UNCHANGED <<ledger, bookedMinutes>>
  /\ status' = [status EXCEPT ![b] = s]
  /\ UNCHANGED <<remaining, calls, report, earning, threshold>>

\* rpc_admin_recover_call drops the latest live attempt; no money moves.
RecoverCall(b, level) ==
  /\ status[b] \in {"BOOKED", "EXPIRED_TECHNICAL_ISSUE", "EXPIRED_PARTNER_NO_SHOW"}
  /\ IF live[b] > 0 THEN AttemptOver(b, "DROPPED_TECHNICAL_ISSUE", level) ELSE UNCHANGED calls
  /\ status' = [status EXCEPT ![b] = "EXPIRED_TECHNICAL_ISSUE"]
  /\ UNCHANGED <<remaining, report, ledger, earning, availability>>

\* The partner_earnings row of a split is the creator's part.
EarnsListPrice(b, p) == IF p > 0 THEN Gross[b] ELSE 0
PartEarned(b, p) == p

\* rpc_admin_resolve_partial_call: two transactions, each under a key of its
\* own, one for the creator's part p and one for the rest.
ResolvePartialCall(b, p) ==
  /\ status[b] = "REQUIRES_ADMIN_REVIEW"
  /\ earning[b] = 0
  /\ LET c == IF "partial-settle" \in posted[b] THEN 0 ELSE p
         f == IF "partial-refund" \in posted[b] THEN 0 ELSE AtLeastZero(Gross[b] - p)
         keys == {k \in {"partial-settle"} : c > 0} \cup {k \in {"partial-refund"} : f > 0}
     IN Post(b, keys, f, -(c + f), c, 0)
  /\ earning' = [earning EXCEPT ![b] = PartEarned(b, p)]
  /\ status' = [status EXCEPT ![b] = "COMPLETED_SUCCESSFUL"]
  /\ UNCHANGED <<remaining, calls, report, availability>>

------------------------------------------------------------------------------

Tick ==
  /\ \E b \in Booking : remaining[b] > -1
  /\ remaining' = [b \in Booking |-> IF remaining[b] > -1 THEN remaining[b] - 1 ELSE -1]
  /\ UNCHANGED <<status, calls, report, ledger, earning, availability>>

\* The override an admin may pick, with what it is given.
AdminNext(b) ==
  \E op \in AdminOps :
    CASE op = "force_settle" -> ForceSettle(b)
      [] op = "expire" -> \E s \in Expired \cup {"COMPLETED_SUCCESSFUL"} : AdminExpire(b, s)
      [] op = "recover" -> \E level \in Level : RecoverCall(b, level)
      [] op = "partial" -> \E p \in CreatorShare : ResolvePartialCall(b, p)
      [] op = "report_close" -> \E s \in {"open", "closed"} : ResolveReport(b, s)
      [] op = "report_refund" -> \E a \in 1..Gross[b], s \in {"open", "closed"} :
                                   ResolveReportRefund(b, a, s)

\* Everything but the expiry sweep, which BookingSweepRace refines.
LifecycleNext ==
  \/ Tick
  \/ \E m \in Thresholds : SetAvailability(m)
  \/ \E b \in Booking :
       \/ BookVideoCall(b) \/ RefundBooking(b) \/ JobSettle(b)
       \/ CallStarts(b) \/ FileReport(b)
       \/ \E o \in Outcome : CallEnds(b, o[1], o[2])
       \/ AdminNext(b)

Next == LifecycleNext \/ \E b \in Booking : SweepExpired(b)

Spec == Init /\ [][Next]_vars

\* Time passes, and the jobs run every few minutes and reach every due row.
Fairness ==
  /\ WF_vars(Tick)
  /\ \A b \in Booking : WF_vars(SweepExpired(b)) /\ WF_vars(JobSettle(b))

FairSpec == Spec /\ Fairness

------------------------------------------------------------------------------
(* Properties                                                               *)

TypeOK ==
  /\ status \in [Booking -> BookingStatus]
  /\ remaining \in [Booking -> -1..Window]
  /\ live \in [Booking -> 0..MaxLive]
  /\ ends \in [Booking -> SUBSET End]
  /\ longest \in [Booking -> Level]
  /\ report \in [Booking -> {"none", "open", "closed"}]
  /\ wallet \in [Booking -> Int] /\ escrow \in [Booking -> Int]
  /\ payable \in [Booking -> Nat] /\ promo \in [Booking -> Int]
  /\ posted \in [Booking -> SUBSET Key]
  /\ earning \in [Booking -> Nat]
  /\ bookedMinutes \in Nat /\ threshold \in Nat

\* No sequence of bookings and refunds takes a fan's wallet below zero
\* (wallet_non_negative), whichever of the fan's bookings they touch.
WalletNeverNegative == \A f \in Fan : Balance(f) >= 0

\* A booking's money is still owed to someone: not refunded, not paid out.
Unresolved(b) ==
  \/ status[b] \in {"BOOKED", "REQUIRES_ADMIN_REVIEW"}
  \/ status[b] = "COMPLETED_SUCCESSFUL" /\ earning[b] = 0

\* Escrow holds the list price of exactly the unresolved bookings and nothing
\* for the others: no refund, expiry, settlement or split spends the same
\* escrow twice, and none strands a part of it.
EscrowExact ==
  \A b \in Booking : escrow[b] = IF Unresolved(b) THEN Gross[b] ELSE 0

\* The date's booked minutes are those of the bookings that still occupy it:
\* every cancellation and expiry gives its minutes back exactly once.
Occupies(b) ==
  status[b] \in {"BOOKED", "REQUIRES_ADMIN_REVIEW", "COMPLETED_SUCCESSFUL",
                 "CANCELLED_BY_ADMIN"}
CapacityExact ==
  bookedMinutes = SumFunctionOnSet(Minutes, {b \in Booking : Occupies(b)})

\* A booking whose money went back never comes back to life, not even when a
\* call that outlived it completes.
RefundIsFinal ==
  [][\A b \in Booking :
       status[b] \in Expired \cup {"CANCELLED_BY_FAN"} => status'[b] = status[b]]_vars

\* While a report on its call is open, a delivered booking is not paid out,
\* neither by the job nor by an admin forcing it.
ReportHold ==
  [][\A b \in Booking :
       report[b] = "open" /\ status[b] = "COMPLETED_SUCCESSFUL"
         => payable'[b] = payable[b]]_vars

\* No money stays in escrow for ever: the jobs release it, or an admin has
\* a review or a report to decide.
EscrowReleased ==
  \A b \in Booking :
    escrow[b] # 0 ~> escrow[b] = 0 \/ status[b] = "REQUIRES_ADMIN_REVIEW"
                                  \/ report[b] = "open"

\* Without an admin's word for it, a creator is paid only for a call that
\* completed or ran at least three minutes.
PaidForDelivery ==
  \A b \in Booking :
    payable[b] > 0 => longest[b] >= 1 \/ "COMPLETED_SUCCESSFUL" \in ends[b]

\* What the creator is owed in the ledger is what the earnings row, from
\* which payouts are made, says -- under every override and every split.
EarningsBacked == \A b \in Booking : earning[b] = payable[b]

\* No sequence of jobs and overrides owes the creator more than the price.
CreatorPaidAtMostOnce == \A b \in Booking : payable[b] <= Gross[b]

\* No booking's escrow is ever paid out beyond what it received: "the same
\* escrow paisa gets spent twice" is what expiry and settlement must rule out,
\* and rpc_admin_expire_booking is said to mirror the automated expiry exactly.
EscrowNeverOverspent == \A b \in Booking : escrow[b] >= 0

\* A booking is paid for once its book transaction is posted, and what left
\* its escrow since is what the other accounts received.
Phase(b) ==
  IF "book" \notin posted[b] THEN "unpaid"
  ELSE IF escrow[b] = Gross[b] THEN "held" ELSE "released"
ToPayer(b) ==
  IF "book" \notin posted[b] THEN 0 ELSE Gross[b] + wallet[b] + promo[b]

Promise == INSTANCE EscrowPromise WITH
  phase <- [b \in Booking |-> Phase(b)],
  toCreator <- payable,
  toPayer <- [b \in Booking |-> ToPayer(b)]

\* The booking functions implement the escrow promise.
KeepsPromise == Promise!PromiseSpec

\* A split leaves nothing in escrow and takes nothing more from it.
SplitIsFinal ==
  \A b \in Booking :
    posted[b] \cap {"partial-settle", "partial-refund"} # {} => escrow[b] = 0
==============================================================================
