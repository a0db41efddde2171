----------------------------- MODULE MoneyProofs -----------------------------
(***************************************************************************)
(* What holds of Creators, for every set of orders, withdrawals and         *)
(* operators' references, every price and every fee; and of Topups, for    *)
(* every set of orders, every credit and any ceiling.                      *)
(***************************************************************************)
EXTENDS Creators, Topups, SetSums, SequenceTheorems, TLAPS


(***************************************************************************)
(* Payouts.  What is to be shown needs what each row says of itself, and   *)
(* that an approval under way is the only one of a payout still to decide. *)
(***************************************************************************)
IsList == \E S : payout \in Seq(S)
RowSound(p) ==
  /\ payout[p].status \in {"REQUESTED", "PAID", "REJECTED"}
  /\ payout[p].status # "PAID" => payout[p].utr = "none"
ApprovalSound(a) ==
  /\ a.payout \in DOMAIN payout
  /\ payout[a.payout].status = "REQUESTED"
EarningSound(e) ==
  \/ e.payout = 0 /\ e.status = "PENDING_PAYOUT"
  \/ /\ e.payout \in DOMAIN payout /\ e.payout # 0
     /\ <<e.status, payout[e.payout].status>> \in
          {<<"INCLUDED_IN_PAYOUT", "REQUESTED">>, <<"PAID", "PAID">>}
OneEach ==
  \A p, q \in DOMAIN payout : payout[p].utr = payout[q].utr /\ payout[p].utr # "none" => p = q

PayoutInv ==
  /\ IsList
  /\ \A p \in DOMAIN payout : RowSound(p)
  /\ \A a \in approving : ApprovalSound(a)
  /\ \A a, b \in approving : a.payout = b.payout => a = b
  /\ \A s \in DOMAIN earning : EarningSound(earning[s])
  /\ OneEach

LEMMA ListDomain ==
  ASSUME IsList
  PROVE  Len(payout) \in Nat /\ DOMAIN payout = 1..Len(payout)
BY DEF IsList

LEMMA InitPayoutInv == PayoutsInit => PayoutInv
<1> SUFFICES ASSUME PayoutsInit PROVE PayoutInv
  OBVIOUS
<1>1. payout = <<>> /\ earning = <<>> /\ approving = {}
  BY DEF PayoutsInit
<1>2. payout \in Seq({})
  BY <1>1
<1>3. DOMAIN payout = {} /\ DOMAIN earning = {}
  BY <1>1
<1> QED BY <1>1, <1>2, <1>3 DEF PayoutInv, IsList, OneEach

LEMMA SamePayouts ==
  ASSUME PayoutInv, UNCHANGED payoutVars
  PROVE  PayoutInv'
BY DEF PayoutInv, payoutVars, IsList, RowSound, ApprovalSound, EarningSound, OneEach

LEMMA CreditsPayoutInv ==
  ASSUME PayoutInv, NEW service, NEW amount, Credits(service, amount)
  PROVE  PayoutInv'
<1>1. payout' = payout /\ approving' = approving
  BY DEF Credits
<1>2. \A s \in DOMAIN earning' :
        \/ s \in DOMAIN earning /\ earning'[s] = earning[s]
        \/ earning'[s] = Earned(amount, "PENDING_PAYOUT", 0)
  BY DEF Credits
<1>3. EarningSound(Earned(amount, "PENDING_PAYOUT", 0))
  BY DEF EarningSound, Earned
<1>4. \A s \in DOMAIN earning' : EarningSound(earning'[s])
  BY <1>2, <1>3 DEF PayoutInv
<1> QED BY <1>1, <1>4 DEF PayoutInv, IsList, RowSound, ApprovalSound, EarningSound, OneEach

LEMMA MarksPayoutInv ==
  ASSUME PayoutInv, NEW w \in Withdrawal, MarksEarnings(w)
  PROVE  PayoutInv'
<1> DEFINE n == Len(payout)
           x == Owed(withdrawing[w], "REQUESTED", "none")
<1>1. PICK S : payout \in Seq(S)
  BY DEF PayoutInv, IsList
<1>2. payout \in Seq(S \cup {x}) /\ x \in S \cup {x}
  BY <1>1
<1>3. payout' = Append(payout, x) /\ approving' = approving
  BY DEF MarksEarnings
<1> HIDE DEF x
<1>4. /\ n \in Nat /\ DOMAIN payout = 1..n
      /\ payout' \in Seq(S \cup {x}) /\ DOMAIN payout' = 1..(n + 1)
      /\ \A p \in DOMAIN payout : p \in DOMAIN payout' /\ p # n + 1 /\ payout'[p] = payout[p]
      /\ payout'[n + 1] = x
      /\ \A p \in DOMAIN payout' : p \in DOMAIN payout \/ p = n + 1
  BY <1>2, <1>3, AppendProperties
<1>5. x.status = "REQUESTED" /\ x.utr = "none"
  BY DEF x, Owed
<1> HIDE DEF n
<1>6. IsList'
  BY <1>4 DEF IsList
<1>7. \A p \in DOMAIN payout' : RowSound(p)'
  BY <1>4, <1>5 DEF PayoutInv, RowSound
<1>8. \A a \in approving' : ApprovalSound(a)'
  BY <1>3, <1>4 DEF PayoutInv, ApprovalSound
<1>9. OneEach'
  BY <1>4, <1>5 DEF PayoutInv, OneEach
<1>10. ASSUME NEW s \in DOMAIN earning' PROVE EarningSound(earning[s])'
  <2>1. /\ s \in DOMAIN earning
        /\ s \in Pending => earning'[s] = Earned(earning[s].amount, "INCLUDED_IN_PAYOUT", n + 1)
        /\ s \notin Pending => earning'[s] = earning[s]
    BY DEF MarksEarnings, Mark, n
  <2>2. CASE s \in Pending
    <3>1. earning'[s].status = "INCLUDED_IN_PAYOUT" /\ earning'[s].payout = n + 1
      BY <2>1, <2>2 DEF Earned
    <3> QED BY <3>1, <1>4, <1>5 DEF EarningSound
  <2>3. CASE s \notin Pending
    <3>1. earning[s].status # "PENDING_PAYOUT" /\ EarningSound(earning[s])
      BY <2>1, <2>3 DEF Pending, PayoutInv
    <3> QED BY <3>1, <2>1, <2>3, <1>4 DEF EarningSound
  <2> QED BY <2>2, <2>3
<1> QED BY <1>3, <1>6, <1>7, <1>8, <1>9, <1>10 DEF PayoutInv

\* What becomes of a payout that is decided, and of the earnings in it.
LEMMA ClosedRow ==
  ASSUME IsList, NEW p \in DOMAIN payout, NEW st, NEW utr,
         payout' = Closed(p, st, utr)
  PROVE  /\ IsList' /\ DOMAIN payout' = DOMAIN payout
         /\ payout'[p].status = st /\ payout'[p].utr = utr
         /\ \A q \in DOMAIN payout : q # p => payout'[q] = payout[q]
<1> DEFINE x == Owed(payout[p].amount, st, utr)
<1>1. PICK S : payout \in Seq(S)
  BY DEF IsList
<1>2. payout \in Seq(S \cup {x}) /\ x \in S \cup {x}
  BY <1>1
<1>3. payout' = [payout EXCEPT ![p] = x]
  BY DEF Closed
<1>4. x.status = st /\ x.utr = utr
  BY DEF Owed
<1> HIDE DEF x
<1>5. /\ payout' \in Seq(S \cup {x}) /\ DOMAIN payout' = DOMAIN payout /\ payout'[p] = x
      /\ \A q \in DOMAIN payout : q # p => payout'[q] = payout[q]
  BY <1>2, <1>3, ExceptSeq
<1> QED BY <1>4, <1>5 DEF IsList

LEMMA MarkedEarnings ==
  ASSUME NEW p \in DOMAIN payout, NEW q, NEW st,
         earning' = Mark(InPayout(p), q, st), NEW s \in DOMAIN earning'
  PROVE  /\ s \in DOMAIN earning
         /\ earning[s].payout = p => earning'[s].payout = q /\ earning'[s].status = st
         /\ earning[s].payout # p => earning'[s] = earning[s]
BY DEF Mark, InPayout, Earned

LEMMA RejectsPayoutInv ==
  ASSUME PayoutInv, NEW p \in DOMAIN payout, RejectsPayout(p)
  PROVE  PayoutInv'
<1>1. /\ payout' = Closed(p, "REJECTED", payout[p].utr) /\ approving' = approving
      /\ earning' = Mark(InPayout(p), 0, "PENDING_PAYOUT")
      /\ payout[p].status = "REQUESTED" /\ \A a \in approving : a.payout # p
  BY DEF RejectsPayout, Decidable
<1>2. payout[p].utr = "none"
  BY <1>1 DEF PayoutInv, RowSound
<1>3. /\ IsList' /\ DOMAIN payout' = DOMAIN payout
      /\ payout'[p].status = "REJECTED" /\ payout'[p].utr = "none"
      /\ \A q \in DOMAIN payout : q # p => payout'[q] = payout[q]
  BY <1>1, <1>2, ClosedRow DEF PayoutInv
<1>4. \A q \in DOMAIN payout' : RowSound(q)'
  BY <1>3 DEF PayoutInv, RowSound
<1>5. \A a \in approving' : ApprovalSound(a)'
  BY <1>1, <1>3 DEF PayoutInv, ApprovalSound
<1>6. OneEach'
  BY <1>3 DEF PayoutInv, OneEach
<1>7. ASSUME NEW s \in DOMAIN earning' PROVE EarningSound(earning[s])'
  <2>1. /\ s \in DOMAIN earning
        /\ earning[s].payout = p =>
             earning'[s].payout = 0 /\ earning'[s].status = "PENDING_PAYOUT"
        /\ earning[s].payout # p => earning'[s] = earning[s]
    BY <1>1, MarkedEarnings
  <2>2. EarningSound(earning[s])
    BY <2>1 DEF PayoutInv
  <2> QED BY <2>1, <2>2, <1>3 DEF EarningSound
<1> QED BY <1>1, <1>3, <1>4, <1>5, <1>6, <1>7 DEF PayoutInv

LEMMA ApprovalPayoutInv ==
  ASSUME PayoutInv, NEW a \in approving, ApprovalWrites(a)
  PROVE  PayoutInv'
<1>1. approving' = approving \ {a}
  BY DEF ApprovalWrites
<1>2. /\ a.payout \in DOMAIN payout /\ payout[a.payout].status = "REQUESTED"
      /\ \A b \in approving' : b.payout # a.payout
  BY <1>1 DEF PayoutInv, ApprovalSound
<1>3. CASE UNCHANGED <<payout, earning>>
  BY <1>1, <1>3 DEF PayoutInv, IsList, RowSound, ApprovalSound, EarningSound, OneEach
<1>4. CASE /\ Unused(a.utr) /\ payout' = Closed(a.payout, "PAID", a.utr)
           /\ earning' = Mark(InPayout(a.payout), a.payout, "PAID")
  <2> DEFINE p == a.payout
             u == a.utr
  <2>1. /\ IsList' /\ DOMAIN payout' = DOMAIN payout
        /\ payout'[p].status = "PAID" /\ payout'[p].utr = u
        /\ \A q \in DOMAIN payout : q # p => payout'[q] = payout[q]
    BY <1>2, <1>4, ClosedRow DEF PayoutInv
  <2>2. \A q \in DOMAIN payout' : RowSound(q)'
    BY <1>2, <2>1 DEF PayoutInv, RowSound
  <2>3. \A b \in approving' : ApprovalSound(b)'
    BY <1>1, <1>2, <2>1 DEF PayoutInv, ApprovalSound
  <2>4. OneEach'
    BY <1>2, <1>4, <2>1 DEF PayoutInv, OneEach, Unused
  <2>5. ASSUME NEW s \in DOMAIN earning' PROVE EarningSound(earning[s])'
    <3>1. /\ s \in DOMAIN earning
          /\ earning[s].payout = p => earning'[s].payout = p /\ earning'[s].status = "PAID"
          /\ earning[s].payout # p => earning'[s] = earning[s]
      BY <1>2, <1>4, MarkedEarnings
    <3>2. EarningSound(earning[s]) /\ p # 0
      BY <3>1, <1>2, ListDomain DEF PayoutInv
    <3> QED BY <3>1, <3>2, <1>2, <2>1 DEF EarningSound
  <2>6. \A b, c \in approving' : b.payout = c.payout => b = c
    BY <1>1 DEF PayoutInv
  <2> QED BY <2>1, <2>2, <2>3, <2>4, <2>5, <2>6 DEF PayoutInv
<1> QED BY <1>3, <1>4 DEF ApprovalWrites, UniqueIndex

LEMMA ChecksPayoutInv ==
  ASSUME PayoutInv, NEW p \in DOMAIN payout, NEW u \in Utr, ApprovalChecks(p, u)
  PROVE  PayoutInv'
<1>1. /\ payout' = payout /\ earning' = earning
      /\ approving' = approving \cup {[payout |-> p, utr |-> u]}
      /\ payout[p].status = "REQUESTED" /\ \A a \in approving : a.payout # p
  BY DEF ApprovalChecks, Decidable
<1>2. \A a \in approving' : ApprovalSound(a)'
  BY <1>1 DEF PayoutInv, ApprovalSound
<1>3. \A a, b \in approving' : a.payout = b.payout => a = b
  BY <1>1 DEF PayoutInv
<1> QED BY <1>1, <1>2, <1>3 DEF PayoutInv, IsList, RowSound, EarningSound, OneEach

LEMMA StepPayouts ==
  ASSUME PayoutInv, PayoutsNext
  PROVE  PayoutInv'
<1>1. CASE VerifyPayoutMethod
  BY <1>1 DEF VerifyPayoutMethod, PayoutInv, IsList, RowSound, ApprovalSound, EarningSound, OneEach
<1>2. CASE \E w \in Withdrawal : SumsEarnings(w)
  BY <1>2 DEF SumsEarnings, PayoutInv, IsList, RowSound, ApprovalSound, EarningSound, OneEach
<1>3. CASE \E w \in Withdrawal : MarksEarnings(w)
  BY <1>3, MarksPayoutInv
<1>4. CASE \E p \in DOMAIN payout : RejectsPayout(p)
  BY <1>4, RejectsPayoutInv
<1>5. CASE \E p \in DOMAIN payout : \E u \in Utr : ApprovalChecks(p, u)
  BY <1>5, ChecksPayoutInv
<1>6. CASE \E a \in approving : ApprovalWrites(a)
  BY <1>6, ApprovalPayoutInv
<1> QED BY <1>1, <1>2, <1>3, <1>4, <1>5, <1>6 DEF PayoutsNext

\* The services touch payouts in one way only.
LEMMA ShoutoutTouches ==
  ASSUME ShoutoutsNext
  PROVE  UNCHANGED payoutVars \/ \E service, amount : Credits(service, amount)
<1>1. PICK s \in Shoutout :
        \/ RequestShoutout(s) \/ UploadShoutout(s) \/ ConfirmShoutout(s)
        \/ ReportShoutout(s) \/ RequestCorrection(s)
        \/ \E approve \in BOOLEAN : DeliverShoutout(s, approve)
        \/ CancelShoutout(s)
        \/ \E action \in {"REFUND", "REWORK", "DISMISS"} : ResolveShoutoutReport(s, action)
        \/ AutoConfirm(s) \/ ExpireShoutout(s) \/ SettleShoutout(s)
        \/ ReviewEnds(s) \/ ShoutoutFallsDue(s)
  BY DEF ShoutoutsNext, SweepSettlesShoutout, ForceSettleShoutout
<1>2. CASE SettleShoutout(s)
  BY <1>2 DEF SettleShoutout
<1>3. CASE ~SettleShoutout(s)
  <2>1. \E row : Becomes(s, row)
    BY <1>1, <1>3 DEF RequestShoutout, UploadShoutout, ConfirmShoutout, ReportShoutout,
       RequestCorrection, DeliverShoutout, CancelShoutout, ResolveShoutoutReport, AutoConfirm,
       ExpireShoutout, ReviewEnds, ShoutoutFallsDue
  <2> QED BY <2>1 DEF Becomes
<1> QED BY <1>2, <1>3

LEMMA QuestionTouches ==
  ASSUME QuestionsNext
  PROVE  UNCHANGED payoutVars \/ \E service, amount : Credits(service, amount)
<1>1. CASE \E i \in Windows : SettleWindow(i)
  BY <1>1 DEF SettleWindow
<1>2. CASE ~\E i \in Windows : SettleWindow(i)
  BY <1>2 DEF QuestionsNext, AskFirst, AskLooks, AskOpens, Answer, Followup, Changes, ExpiryLists,
     ExpiryRefunds, ExpiryFails, SweepSettlesWindow, ForceSettleWindow, ReportWindow,
     ResolveWindowReport, DeadlinePasses, WindowFallsDue
<1> QED BY <1>1, <1>2

\* One bank reference closes one payout, approvals at once included, and each
\* earning is as far as its payout, whatever settles while a withdrawal is
\* between its two statements (rpc_create_payout_batch, rpc_process_payout).
THEOREM PayoutsAlwaysReconcile == Spec => []PayoutsReconcile
<1>1. Init => PayoutInv
  BY InitPayoutInv DEF Init
<1>2. PayoutInv /\ [Next]_vars => PayoutInv'
  <2> SUFFICES ASSUME PayoutInv, [Next]_vars PROVE PayoutInv'
    OBVIOUS
  <2>1. CASE PayoutsNext
    BY <2>1, StepPayouts
  <2>2. CASE UNCHANGED payoutVars
    BY <2>2, SamePayouts
  <2>3. CASE \E service, amount : Credits(service, amount)
    BY <2>3, CreditsPayoutInv
  <2> QED BY <2>1, <2>2, <2>3, ShoutoutTouches, QuestionTouches DEF Next, vars
<1>3. PayoutInv => PayoutsReconcile
  BY DEF PayoutInv, PayoutsReconcile, EarningSound, OneEach
<1> QED BY <1>1, <1>2, <1>3, PTL DEF Spec

------------------------------------------------------------------------------
(***************************************************************************)
(* The money of shout-outs and questions.  That a shout-out is credited or *)
(* refunded, never both, rests on what its row says of both: RowMoney says *)
(* for each status where the fan's money is, and SettledMoney that what is *)
(* credited stays delivered, confirmed and in full.  A question's row is   *)
(* overwritten by an expiry that listed it earlier; its refund has one key.*)
(***************************************************************************)
OrderFields == {"status", "confirmed", "freeUsed", "disputed", "reviewed", "due",
                "rounds", "fees", "debited", "refunded"}
Active == {"AWAITING_PARTNER_VIDEO", "VIDEO_DELIVERED_TO_FAN", "ISSUE_REPORTED_BY_FAN"}

RowMoney(row) ==
  /\ DOMAIN row = OrderFields
  /\ row.fees \in Nat
  /\ \/ row.status = "none" /\ row.debited = 0 /\ row.refunded = 0 /\ row.fees = 0
     \/ row.status \in Active /\ row.debited = Price + row.fees /\ row.refunded = 0
     \/ row.status = "REFUNDED_BY_ADMIN" /\ row.refunded = row.debited
     \/ row.status = "EXPIRED_PARTNER_NO_DELIVERY" /\ row.refunded = Price

SettledMoney(s) ==
  Settled(<<"SHOUT_OUT", s>>) =>
    /\ shoutout[s].status = "VIDEO_DELIVERED_TO_FAN" /\ shoutout[s].confirmed
    /\ earning[<<"SHOUT_OUT", s>>].amount = shoutout[s].debited

OrderInv ==
  /\ DOMAIN shoutout = Shoutout
  /\ \A s \in Shoutout : RowMoney(shoutout[s]) /\ SettledMoney(s)

WindowFields == {"kind", "status", "late", "due", "reported", "refunded"}
WindowMoney(row) == DOMAIN row = WindowFields /\ row.refunded \in {0, Charge}
WindowInv ==
  /\ \E S : window \in Seq(S)
  /\ \A i \in Windows : WindowMoney(window[i])

LEMMA InitOrderInv == PayoutsInit /\ ShoutoutsInit => OrderInv
<1> SUFFICES ASSUME PayoutsInit, ShoutoutsInit PROVE OrderInv
  OBVIOUS
<1>1. DOMAIN earning = {}
  BY DEF PayoutsInit
<1>2. RowMoney(Fresh)
  BY DEF RowMoney, Fresh, OrderFields
<1> QED BY <1>1, <1>2 DEF ShoutoutsInit, OrderInv, SettledMoney, Settled

\* An order's row may change in any way that keeps its books, and its price and
\* delivery once it is settled.
LEMMA RowChanges ==
  ASSUME OrderInv, NEW s \in Shoutout, NEW row, Becomes(s, row), RowMoney(row),
         Settled(<<"SHOUT_OUT", s>>) =>
           /\ row.status = "VIDEO_DELIVERED_TO_FAN" /\ row.confirmed
           /\ row.debited = shoutout[s].debited
  PROVE  OrderInv'
<1>1. /\ DOMAIN shoutout' = Shoutout /\ earning' = earning
      /\ shoutout'[s] = row /\ \A t \in Shoutout : t # s => shoutout'[t] = shoutout[t]
  BY DEF Becomes, OrderInv, payoutVars
<1>2. ASSUME NEW t \in Shoutout PROVE RowMoney(shoutout[t])' /\ SettledMoney(t)'
  <2>1. CASE t = s
    BY <1>1, <2>1 DEF OrderInv, RowMoney, SettledMoney, Settled
  <2>2. CASE t # s
    BY <1>1, <2>2 DEF OrderInv, RowMoney, SettledMoney, Settled
  <2> QED BY <2>1, <2>2
<1> QED BY <1>1, <1>2 DEF OrderInv

\* Of an order that is settled, nothing is left to do.
LEMMA NotSettledUnless ==
  ASSUME OrderInv, NEW s \in Shoutout,
         shoutout[s].status # "VIDEO_DELIVERED_TO_FAN" \/ ~shoutout[s].confirmed
  PROVE  ~Settled(<<"SHOUT_OUT", s>>)
BY DEF OrderInv, SettledMoney

LEMMA FanOrderInv ==
  ASSUME OrderInv, NEW s \in Shoutout,
         RequestShoutout(s) \/ UploadShoutout(s) \/ ConfirmShoutout(s) \/ ReportShoutout(s)
  PROVE  OrderInv'
<1>0. RowMoney(shoutout[s]) /\ Price \in Nat
  BY ShoutoutAssumption DEF OrderInv
<1>1. CASE RequestShoutout(s)
  <2> DEFINE row == [Fresh EXCEPT !.status = "AWAITING_PARTNER_VIDEO", !.debited = Price]
  <2>1. RowMoney(Fresh) /\ Fresh.fees = 0 /\ Fresh.refunded = 0
    BY DEF RowMoney, Fresh, OrderFields
  <2>2. RowMoney(row)
    BY <1>0, <2>1 DEF RowMoney, OrderFields, Active
  <2> QED BY <1>1, <2>2, RowChanges, NotSettledUnless DEF RequestShoutout
<1>2. CASE UploadShoutout(s)
  <2> DEFINE row == [shoutout[s] EXCEPT !.status = "VIDEO_DELIVERED_TO_FAN", !.confirmed = FALSE,
                                        !.reviewed = FALSE, !.due = FALSE]
  <2>1. RowMoney(row)
    BY <1>0, <1>2 DEF UploadShoutout, RowMoney, OrderFields, Active
  <2> QED BY <1>2, <2>1, RowChanges, NotSettledUnless DEF UploadShoutout
<1>3. CASE ConfirmShoutout(s)
  <2> DEFINE row == [shoutout[s] EXCEPT !.confirmed = TRUE, !.due = TRUE]
  <2>1. RowMoney(row)
    BY <1>0 DEF RowMoney, OrderFields, Active
  <2> QED BY <1>3, <2>1, RowChanges, NotSettledUnless DEF ConfirmShoutout, Open
<1>4. CASE ReportShoutout(s)
  <2> DEFINE row == [shoutout[s] EXCEPT !.status = "ISSUE_REPORTED_BY_FAN", !.disputed = TRUE]
  <2>1. RowMoney(row)
    BY <1>0, <1>4 DEF ReportShoutout, Open, RowMoney, OrderFields, Active
  <2> QED BY <1>4, <2>1, RowChanges, NotSettledUnless DEF ReportShoutout, Open
<1> QED BY <1>1, <1>2, <1>3, <1>4

LEMMA SentBackMoney ==
  ASSUME NEW s \in Shoutout, RowMoney(shoutout[s]), shoutout[s].status \in Active
  PROVE  /\ RowMoney(SentBack(s)) /\ SentBack(s).status = "AWAITING_PARTNER_VIDEO"
         /\ SentBack(s).debited = Price + SentBack(s).fees /\ SentBack(s).refunded = 0
BY DEF SentBack, RowMoney, OrderFields, Active

LEMMA CorrectionOrderInv ==
  ASSUME OrderInv, NEW s \in Shoutout, RequestCorrection(s)
  PROVE  OrderInv'
<1> DEFINE charged == [SentBack(s) EXCEPT !.fees = @ + Fee, !.debited = @ + Fee]
           free == [SentBack(s) EXCEPT !.freeUsed = TRUE]
           back == SentBack(s)
<1>0. /\ RowMoney(shoutout[s]) /\ shoutout[s].status \in Active /\ ~shoutout[s].confirmed
      /\ Price \in Nat /\ Fee \in Nat
  BY ShoutoutAssumption DEF OrderInv, RequestCorrection, Open, Active
<1>1. /\ RowMoney(back) /\ back.status = "AWAITING_PARTNER_VIDEO"
      /\ back.debited = Price + back.fees /\ back.refunded = 0
  BY <1>0, SentBackMoney
<1>2. RowMoney(free)
  <2> HIDE DEF back
  <2>1. free = [back EXCEPT !.freeUsed = TRUE]
    BY DEF back
  <2> HIDE DEF free
  <2> QED BY <1>1, <2>1 DEF RowMoney, OrderFields, Active
<1>3. RowMoney(charged)
  <2> HIDE DEF back
  <2>1. charged = [back EXCEPT !.fees = back.fees + Fee, !.debited = back.debited + Fee]
    BY DEF back
  <2> HIDE DEF charged
  <2>2. charged.fees \in Nat /\ charged.debited = Price + charged.fees
    BY <1>0, <1>1, <2>1 DEF RowMoney, OrderFields
  <2> QED BY <1>1, <2>1, <2>2 DEF RowMoney, OrderFields, Active
<1>4. Becomes(s, charged) \/ Becomes(s, free)
  BY DEF RequestCorrection
<1> HIDE DEF charged, free, back
<1> QED BY <1>0, <1>2, <1>3, <1>4, RowChanges, NotSettledUnless

LEMMA OperatorOrderInv ==
  ASSUME OrderInv, NEW s \in Shoutout,
         \/ \E approve \in BOOLEAN : DeliverShoutout(s, approve)
         \/ CancelShoutout(s)
         \/ \E action \in {"REFUND", "REWORK", "DISMISS"} : ResolveShoutoutReport(s, action)
  PROVE  OrderInv'
<1> DEFINE approved == [shoutout[s] EXCEPT !.status = "VIDEO_DELIVERED_TO_FAN",
                                           !.confirmed = TRUE]
           cancelled == [shoutout[s] EXCEPT !.status = "REFUNDED_BY_ADMIN",
                                            !.refunded = @ + Worth(s)]
           dismissed == [shoutout[s] EXCEPT !.status = "VIDEO_DELIVERED_TO_FAN",
                                            !.reviewed = FALSE, !.due = FALSE]
           back == SentBack(s)
<1>0. RowMoney(shoutout[s]) /\ Price \in Nat
  BY ShoutoutAssumption DEF OrderInv
<1>1. CASE CancelShoutout(s)
  <2>1. /\ shoutout[s].status \in Active /\ ~Settled(<<"SHOUT_OUT", s>>)
        /\ Becomes(s, cancelled)
    BY <1>1 DEF CancelShoutout, NotSettled, SettledShoutout, Active
  <2>2. shoutout[s].debited = Worth(s) /\ shoutout[s].refunded = 0 /\ Worth(s) \in Nat
    BY <1>0, <2>1 DEF RowMoney, Worth, Active
  <2>3. RowMoney(cancelled)
    BY <1>0, <2>2 DEF RowMoney, OrderFields
  <2> QED BY <2>1, <2>3, RowChanges
<1>2. CASE Confirmable(s) /\ (Becomes(s, approved) \/ Becomes(s, back))
  <2>1. shoutout[s].status \in Active /\ ~shoutout[s].confirmed
    BY <1>2 DEF Confirmable, Active
  <2>2. RowMoney(approved)
    BY <1>0, <2>1 DEF RowMoney, OrderFields, Active
  <2>3. RowMoney(back)
    BY <1>0, <2>1, SentBackMoney
  <2> HIDE DEF approved, back
  <2> QED BY <1>2, <2>1, <2>2, <2>3, RowChanges, NotSettledUnless
<1>3. CASE /\ shoutout[s].status = "ISSUE_REPORTED_BY_FAN"
           /\ Becomes(s, back) \/ Becomes(s, dismissed)
  <2>1. RowMoney(back)
    BY <1>0, <1>3, SentBackMoney DEF Active
  <2>2. RowMoney(dismissed)
    BY <1>0, <1>3 DEF RowMoney, OrderFields, Active
  <2> HIDE DEF dismissed, back
  <2> QED BY <1>3, <2>1, <2>2, RowChanges, NotSettledUnless
<1>4. (\E approve \in BOOLEAN : DeliverShoutout(s, approve)) =>
        Confirmable(s) /\ (Becomes(s, approved) \/ Becomes(s, back))
  BY DEF DeliverShoutout
<1>5. (\E action \in {"REFUND", "REWORK", "DISMISS"} : ResolveShoutoutReport(s, action)) =>
        \/ CancelShoutout(s)
        \/ /\ shoutout[s].status = "ISSUE_REPORTED_BY_FAN"
           /\ Becomes(s, back) \/ Becomes(s, dismissed)
  BY DEF ResolveShoutoutReport
<1> QED BY <1>1, <1>2, <1>3, <1>4, <1>5

LEMMA SweepOrderInv ==
  ASSUME OrderInv, NEW s \in Shoutout,
         AutoConfirm(s) \/ ExpireShoutout(s) \/ ReviewEnds(s) \/ ShoutoutFallsDue(s)
  PROVE  OrderInv'
<1>0. RowMoney(shoutout[s]) /\ Price \in Nat
  BY ShoutoutAssumption DEF OrderInv
<1>1. CASE AutoConfirm(s)
  <2> DEFINE row == [shoutout[s] EXCEPT !.confirmed = TRUE, !.due = TRUE]
  <2>1. RowMoney(row)
    BY <1>0 DEF RowMoney, OrderFields, Active
  <2> QED BY <1>1, <2>1, RowChanges, NotSettledUnless DEF AutoConfirm, Open
<1>2. CASE ExpireShoutout(s)
  <2> DEFINE row == [shoutout[s] EXCEPT !.status = "EXPIRED_PARTNER_NO_DELIVERY",
                                        !.refunded = @ + Price]
  <2>1. RowMoney(row)
    BY <1>0, <1>2 DEF ExpireShoutout, RowMoney, OrderFields, Active
  <2> QED BY <1>2, <2>1, RowChanges, NotSettledUnless DEF ExpireShoutout
<1>3. CASE ReviewEnds(s)
  <2> DEFINE row == [shoutout[s] EXCEPT !.reviewed = TRUE]
  <2>1. RowMoney(row)
    BY <1>0 DEF RowMoney, OrderFields, Active
  <2> QED BY <1>3, <2>1, RowChanges, NotSettledUnless DEF ReviewEnds, Open
<1>4. CASE ShoutoutFallsDue(s)
  <2> DEFINE row == [shoutout[s] EXCEPT !.due = TRUE]
  <2>1. RowMoney(row)
    BY <1>0 DEF RowMoney, OrderFields, Active
  <2>2. row.status = shoutout[s].status /\ row.debited = shoutout[s].debited
    BY <1>0 DEF RowMoney, OrderFields
  <2>3. shoutout[s].confirmed => row.confirmed
    BY <1>0 DEF RowMoney, OrderFields
  <2>4. Settled(<<"SHOUT_OUT", s>>) =>
          shoutout[s].status = "VIDEO_DELIVERED_TO_FAN" /\ shoutout[s].confirmed
    BY DEF OrderInv, SettledMoney
  <2>5. Becomes(s, row)
    BY <1>4 DEF ShoutoutFallsDue
  <2> HIDE DEF row
  <2> QED BY <2>1, <2>2, <2>3, <2>4, <2>5, RowChanges
<1> QED BY <1>1, <1>2, <1>3, <1>4

LEMMA CreditKeepsOrders ==
  ASSUME OrderInv, NEW service, NEW amount, Credits(service, amount), UNCHANGED shoutout,
         \A s \in Shoutout : service # <<"SHOUT_OUT", s>>
  PROVE  OrderInv'
<1>1. ASSUME NEW s \in Shoutout PROVE RowMoney(shoutout[s])' /\ SettledMoney(s)'
  BY DEF OrderInv, RowMoney, SettledMoney, Settled, Credits
<1> QED BY <1>1 DEF OrderInv

LEMMA SettleOrderInv ==
  ASSUME OrderInv, NEW s \in Shoutout, SettleShoutout(s)
  PROVE  OrderInv'
<1> DEFINE service == <<"SHOUT_OUT", s>>
<1>1. /\ shoutout' = shoutout /\ service \notin DOMAIN earning
      /\ shoutout[s].status = "VIDEO_DELIVERED_TO_FAN" /\ shoutout[s].confirmed
      /\ Credits(service, Worth(s))
  BY DEF SettleShoutout, NotSettled, SettledShoutout, Settled
<1>2. /\ DOMAIN earning' = DOMAIN earning \cup {service}
      /\ \A x \in DOMAIN earning : earning'[x] = earning[x]
      /\ earning'[service].amount = Worth(s)
  BY <1>1 DEF Credits, Earned
<1>3. shoutout[s].debited = Worth(s)
  BY <1>1 DEF OrderInv, RowMoney, Worth, Active
<1>4. ASSUME NEW t \in Shoutout PROVE RowMoney(shoutout[t])' /\ SettledMoney(t)'
  <2>1. CASE t = s
    BY <2>1, <1>1, <1>2, <1>3 DEF OrderInv, RowMoney, SettledMoney, Settled
  <2>2. CASE t # s
    BY <2>2, <1>1, <1>2 DEF OrderInv, RowMoney, SettledMoney, Settled
  <2> QED BY <2>1, <2>2
<1> QED BY <1>1, <1>4 DEF OrderInv

LEMMA StepOrders ==
  ASSUME OrderInv, ShoutoutsNext
  PROVE  OrderInv'
BY FanOrderInv, CorrectionOrderInv, OperatorOrderInv, SweepOrderInv, SettleOrderInv
   DEF ShoutoutsNext, SweepSettlesShoutout, ForceSettleShoutout

\* A payout moves earnings on without touching what they are worth.
LEMMA PayoutsKeepAmounts ==
  ASSUME PayoutsNext
  PROVE  /\ DOMAIN earning' = DOMAIN earning
         /\ \A x \in DOMAIN earning : earning'[x].amount = earning[x].amount
<1>1. earning' = earning \/ \E services, p, st : earning' = Mark(services, p, st)
  BY DEF PayoutsNext, VerifyPayoutMethod, SumsEarnings, MarksEarnings, ApprovalChecks,
     ApprovalWrites, RejectsPayout
<1> QED BY <1>1 DEF Mark, Earned

LEMMA PayoutsKeepOrders ==
  ASSUME OrderInv, PayoutsNext, UNCHANGED shoutout
  PROVE  OrderInv'
<1>1. ASSUME NEW s \in Shoutout PROVE RowMoney(shoutout[s])' /\ SettledMoney(s)'
  BY PayoutsKeepAmounts DEF OrderInv, RowMoney, SettledMoney, Settled
<1> QED BY <1>1 DEF OrderInv

LEMMA QuestionsKeepOrders ==
  ASSUME OrderInv, QuestionsNext, UNCHANGED shoutout
  PROVE  OrderInv'
<1>1. CASE UNCHANGED payoutVars
  BY <1>1 DEF OrderInv, RowMoney, SettledMoney, Settled, payoutVars
<1>2. CASE \E i \in Windows : SettleWindow(i)
  <2>1. PICK i \in Windows : SettleWindow(i)
    BY <1>2
  <2>2. \A s \in Shoutout : <<"QUICK_QUESTION", i>> # <<"SHOUT_OUT", s>>
    OBVIOUS
  <2> QED BY <2>1, <2>2, CreditKeepsOrders DEF SettleWindow
<1>3. CASE ~\E i \in Windows : SettleWindow(i)
  BY <1>1, <1>3 DEF QuestionsNext, AskFirst, AskLooks, AskOpens, Answer, Followup, Changes,
     ExpiryLists, ExpiryRefunds, ExpiryFails, SweepSettlesWindow, ForceSettleWindow, ReportWindow,
     ResolveWindowReport, DeadlinePasses, WindowFallsDue
<1> QED BY <1>2, <1>3

LEMMA OpensWindowInv ==
  ASSUME WindowInv, NEW kind, Opens(kind)
  PROVE  WindowInv'
<1> DEFINE x == Opened(kind)
<1>1. PICK S : window \in Seq(S)
  BY DEF WindowInv
<1>2. window \in Seq(S \cup {x}) /\ x \in S \cup {x} /\ window' = Append(window, x)
  BY <1>1 DEF Opens
<1>3. WindowMoney(x)
  BY DEF Opened, WindowMoney, WindowFields
<1> HIDE DEF x
<1>4. /\ window' \in Seq(S \cup {x})
      /\ \A i \in DOMAIN window' :
           window'[i] = x \/ (i \in DOMAIN window /\ window'[i] = window[i])
  BY <1>2, AppendProperties
<1>5. \A i \in DOMAIN window' : WindowMoney(window'[i])
  BY <1>3, <1>4 DEF WindowInv, Windows
<1> QED BY <1>4, <1>5 DEF WindowInv, Windows, WindowMoney

LEMMA ChangesWindowInv ==
  ASSUME WindowInv, NEW i \in Windows, NEW row, window' = [window EXCEPT ![i] = row],
         WindowMoney(row)
  PROVE  WindowInv'
<1>1. PICK S : window \in Seq(S)
  BY DEF WindowInv
<1>2. window \in Seq(S \cup {row}) /\ row \in S \cup {row} /\ i \in DOMAIN window
  BY <1>1 DEF Windows
<1>3. /\ window' \in Seq(S \cup {row}) /\ DOMAIN window' = DOMAIN window
      /\ \A k \in DOMAIN window : window'[k] = row \/ window'[k] = window[k]
  BY <1>2, ExceptSeq
<1>4. \A k \in DOMAIN window' : WindowMoney(window'[k])
  BY <1>3 DEF WindowInv, Windows
<1> QED BY <1>3, <1>4 DEF WindowInv, Windows, WindowMoney

LEMMA RowWindowInv ==
  ASSUME WindowInv, NEW i \in Windows, NEW row, Changes(i, row),
         DOMAIN row = WindowFields, row.refunded = window[i].refunded
  PROVE  WindowInv'
<1>1. WindowMoney(row)
  BY DEF WindowInv, WindowMoney
<1> QED BY <1>1, ChangesWindowInv DEF Changes

LEMMA RefundWindowInv ==
  ASSUME WindowInv, NEW i \in Windows,
         window' = [window EXCEPT ![i].status = "EXPIRED", ![i].refunded = Refunded(i)]
  PROVE  WindowInv'
<1> DEFINE row == [window[i] EXCEPT !.status = "EXPIRED", !.refunded = Refunded(i)]
<1>1. window' = [window EXCEPT ![i] = row]
  OBVIOUS
<1>2. WindowMoney(window[i]) /\ Refunded(i) \in {0, Charge}
  BY DEF WindowInv, WindowMoney, Refunded
<1>3. WindowMoney(row)
  BY <1>2 DEF WindowMoney, WindowFields
<1> HIDE DEF row
<1> QED BY <1>1, <1>3, ChangesWindowInv

\* A job's list may name what is no window any more; nothing comes of it.
LEMMA NoSuchWindow ==
  ASSUME WindowInv, NEW i, i \notin Windows,
         window' = [window EXCEPT ![i].status = "EXPIRED", ![i].refunded = Refunded(i)]
  PROVE  window' = window
BY DEF WindowInv, Windows

LEMMA JobWindowInv ==
  ASSUME WindowInv, NEW j \in Run, NEW i \in listed[j], ExpiryRefunds(j, i) \/ ExpiryFails(j, i)
  PROVE  WindowInv'
<1>1. CASE window' = window
  BY <1>1 DEF WindowInv, Windows, WindowMoney
<1>2. CASE ExpiryRefunds(j, i)
  BY <1>1, <1>2, RefundWindowInv, NoSuchWindow DEF ExpiryRefunds
<1> QED BY <1>1, <1>2 DEF ExpiryFails, AfterFailure

LEMMA EditWindowInv ==
  ASSUME WindowInv, NEW i \in Windows,
         \/ Changes(i, [window[i] EXCEPT !.status = "ANSWERED", !.due = FALSE])
         \/ ReportWindow(i) \/ ResolveWindowReport(i) \/ DeadlinePasses(i) \/ WindowFallsDue(i)
  PROVE  WindowInv'
<1>1. DOMAIN window[i] = WindowFields
  BY DEF WindowInv, WindowMoney
<1>2. CASE Changes(i, [window[i] EXCEPT !.status = "ANSWERED", !.due = FALSE])
  <2> DEFINE row == [window[i] EXCEPT !.status = "ANSWERED", !.due = FALSE]
  <2>1. DOMAIN row = WindowFields /\ row.refunded = window[i].refunded
    BY <1>1 DEF WindowFields
  <2> QED BY <1>2, <2>1, RowWindowInv
<1>3. CASE ReportWindow(i)
  <2> DEFINE row == [window[i] EXCEPT !.reported = TRUE]
  <2>1. DOMAIN row = WindowFields /\ row.refunded = window[i].refunded
    BY <1>1 DEF WindowFields
  <2> QED BY <1>3, <2>1, RowWindowInv DEF ReportWindow
<1>4. CASE ResolveWindowReport(i)
  <2> DEFINE row == [window[i] EXCEPT !.reported = FALSE]
  <2>1. DOMAIN row = WindowFields /\ row.refunded = window[i].refunded
    BY <1>1 DEF WindowFields
  <2> QED BY <1>4, <2>1, RowWindowInv DEF ResolveWindowReport
<1>5. CASE DeadlinePasses(i)
  <2> DEFINE row == [window[i] EXCEPT !.late = TRUE]
  <2>1. DOMAIN row = WindowFields /\ row.refunded = window[i].refunded
    BY <1>1 DEF WindowFields
  <2> QED BY <1>5, <2>1, RowWindowInv DEF DeadlinePasses
<1>6. CASE WindowFallsDue(i)
  <2> DEFINE row == [window[i] EXCEPT !.due = TRUE]
  <2>1. DOMAIN row = WindowFields /\ row.refunded = window[i].refunded
    BY <1>1 DEF WindowFields
  <2> QED BY <1>6, <2>1, RowWindowInv DEF WindowFallsDue
<1> QED BY <1>2, <1>3, <1>4, <1>5, <1>6

LEMMA StepWindows ==
  ASSUME WindowInv, QuestionsNext
  PROVE  WindowInv'
<1>1. CASE window' = window
  BY <1>1 DEF WindowInv, Windows, WindowMoney
<1>2. CASE \E kind : Opens(kind)
  BY <1>2, OpensWindowInv
<1>3. CASE \E j \in Run : \E i \in listed[j] : ExpiryRefunds(j, i) \/ ExpiryFails(j, i)
  BY <1>3, JobWindowInv
<1>4. CASE \E i \in Windows :
             \/ Changes(i, [window[i] EXCEPT !.status = "ANSWERED", !.due = FALSE])
             \/ ReportWindow(i) \/ ResolveWindowReport(i) \/ DeadlinePasses(i) \/ WindowFallsDue(i)
  BY <1>4, EditWindowInv
<1>5. AskFirst \/ AskOpens \/ Followup => \E kind : Opens(kind)
  BY DEF AskFirst, AskOpens, Followup
<1>6. Answer => \E i \in Windows :
                  Changes(i, [window[i] EXCEPT !.status = "ANSWERED", !.due = FALSE])
  BY DEF Answer, OpenWindows
<1>7. AskLooks \/ (\E j \in Run : ExpiryLists(j)) \/ (\E i \in Windows : SettleWindow(i))
        => window' = window
  BY DEF AskLooks, ExpiryLists, SettleWindow, questionVars
<1> QED BY <1>1, <1>2, <1>3, <1>4, <1>5, <1>6, <1>7
        DEF QuestionsNext, SweepSettlesWindow, ForceSettleWindow

PaidInv == OrderInv /\ WindowInv

\* What a fan paid for a shout-out is credited to the creator or given back,
\* never both and never in part, and no question is refunded twice, whichever
\* fans, operators, sweeps and withdrawals act in whatever order
\* (rpc_settle_shoutout, rpc_admin_cancel_shoutout, rpc_expire_shoutout, jobs).
THEOREM OrdersAlwaysPaidOnce == Spec => []OrdersPaidOnce
<1>1. Init => PaidInv
  <2> SUFFICES ASSUME Init PROVE PaidInv
    OBVIOUS
  <2>1. OrderInv
    BY InitOrderInv DEF Init
  <2>2. window \in Seq({}) /\ Windows = {}
    BY DEF Init, QuestionsInit, Windows
  <2> QED BY <2>1, <2>2 DEF PaidInv, WindowInv
<1>2. PaidInv /\ [Next]_vars => PaidInv'
  <2> SUFFICES ASSUME PaidInv, [Next]_vars PROVE PaidInv'
    OBVIOUS
  <2>0. window' = window => WindowInv'
    BY DEF PaidInv, WindowInv, Windows, WindowMoney
  <2>1. CASE PayoutsNext /\ UNCHANGED <<shoutout, questionVars>>
    BY <2>0, <2>1, PayoutsKeepOrders DEF PaidInv, questionVars
  <2>2. CASE ShoutoutsNext /\ UNCHANGED questionVars
    BY <2>0, <2>2, StepOrders DEF PaidInv, questionVars
  <2>3. CASE QuestionsNext /\ UNCHANGED shoutout
    BY <2>3, StepWindows, QuestionsKeepOrders DEF PaidInv
  <2>4. CASE UNCHANGED vars
    <3>1. UNCHANGED <<earning, shoutout, window>>
      BY <2>4 DEF vars, payoutVars, questionVars
    <3>2. OrderInv'
      BY <3>1 DEF PaidInv, OrderInv, RowMoney, SettledMoney, Settled
    <3> QED BY <2>0, <3>1, <3>2 DEF PaidInv
  <2> QED BY <2>1, <2>2, <2>3, <2>4 DEF Next
<1>3. PaidInv => OrdersPaidOnce
  <2> SUFFICES ASSUME PaidInv PROVE OrdersPaidOnce
    OBVIOUS
  <2>1. ASSUME NEW s \in Shoutout
        PROVE  LET row == shoutout[s]
                   credited == Credited(<<"SHOUT_OUT", s>>)
               IN \/ credited = 0 /\ row.refunded \in {0, row.debited}
                  \/ credited = 0 /\ row.status = "EXPIRED_PARTNER_NO_DELIVERY"
                                  /\ row.refunded = Price
                  \/ credited = row.debited /\ row.refunded = 0
    <3>1. RowMoney(shoutout[s]) /\ SettledMoney(s)
      BY DEF PaidInv, OrderInv
    <3>2. CASE Settled(<<"SHOUT_OUT", s>>)
      BY <3>1, <3>2 DEF RowMoney, SettledMoney, Credited
    <3>3. CASE ~Settled(<<"SHOUT_OUT", s>>)
      BY <3>1, <3>3 DEF RowMoney, Credited
    <3> QED BY <3>2, <3>3
  <2>2. \A i \in Windows : window[i].refunded <= Charge
    BY QuestionAssumption DEF PaidInv, WindowInv, WindowMoney
  <2> QED BY <2>1, <2>2 DEF OrdersPaidOnce
<1> QED BY <1>1, <1>2, <1>3, PTL DEF Spec
------------------------------------------------------------------------------
(***************************************************************************)
(* Top-ups.                                                                *)
(***************************************************************************)


WellTyped ==
  /\ request \in [Order -> {"none", "ordered", "reading", "deciding", "refused", "recorded"}]
  /\ status \in [Order -> {"NONE", "PENDING", "SUCCESSFUL", "FAILED"}]
  /\ posted \subseteq Order
  /\ paid \subseteq Order /\ unanswered \subseteq sent /\ sent \subseteq Event
  /\ dispute \in [Order -> {"NONE", "OPEN", "WON"}]

\* A row is made once, and a payment is taken for a row: no decision overwrites
\* what became of an order.
RowFollowsDecision ==
  /\ \A o \in Order : request[o] # "recorded" => status[o] = "NONE"
  /\ \A o \in paid : status[o] # "NONE"

\* Events and credits are of payments that were taken.
OnlyPaid == posted \subseteq paid /\ \A e \in sent : e.order \in paid

CreditInv == WellTyped /\ RowFollowsDecision /\ OnlyPaid /\ SuccessIsCredited

Applied(e) ==
  /\ e.kind = "captured" => status[e.order] = "SUCCESSFUL"
  /\ e.kind \in {"dispute.created", "dispute.won"} => dispute[e.order] # "NONE"

\* What was answered or logged was applied: with ids of their own, an event is
\* skipped only when it was logged itself.
LoggedIsApplied ==
  /\ logged \subseteq sent
  /\ \A e \in logged : Applied(e)
  /\ \A e \in sent \ unanswered : Applied(e)

------------------------------------------------------------------------------
(* The order and the wallet                                                 *)

LEMMA InitCredit == TopupInit => CreditInv
BY DEF TopupInit, CreditInv, WellTyped, RowFollowsDecision, OnlyPaid, SuccessIsCredited

\* A request moves towards its decision.
LEMMA RequestStep ==
  ASSUME CreditInv, UNCHANGED <<status, posted, paid, unanswered, sent, dispute>>,
         NEW o \in Order, request[o] # "recorded",
         NEW r \in {"ordered", "reading", "deciding"}, request' = [request EXCEPT ![o] = r]
  PROVE  CreditInv'
BY DEF CreditInv, WellTyped, RowFollowsDecision, OnlyPaid, SuccessIsCredited

\* The provider takes a payment or sends something about one.
LEMMA ProviderStep ==
  ASSUME CreditInv, UNCHANGED <<request, status, posted, dispute>>,
         NEW o \in Order, status[o] # "NONE", paid' = paid \cup {o},
         NEW events \in SUBSET Event, \A e \in events : e.order = o, Sends(events)
  PROVE  CreditInv'
BY DEF Sends, CreditInv, WellTyped, RowFollowsDecision, OnlyPaid, SuccessIsCredited

LEMMA Events ==
  ASSUME NEW o \in Order, NEW kind \in Kind
  PROVE  Ev(kind, o) \in Event /\ Ev(kind, o).order = o /\ Ev(kind, o).kind = kind
BY DEF Ev, Event

LEMMA DecisionStep ==
  ASSUME CreditInv, NEW o \in Order, Decides(o)
  PROVE  CreditInv'
<1>1. /\ request[o] = "deciding"
      /\ UNCHANGED <<posted, paid, unanswered, sent, dispute>>
  BY DEF Decides, walletVars, providerVars
<1>2. status[o] = "NONE" /\ o \notin paid
  BY <1>1 DEF CreditInv, RowFollowsDecision
<1>3. CASE seen[o] + Credit[o] > Ceiling
  <2>1. request' = [request EXCEPT ![o] = "refused"] /\ UNCHANGED status
    BY <1>3 DEF Decides
  <2> QED BY <1>1, <1>2, <2>1
          DEF CreditInv, WellTyped, RowFollowsDecision, OnlyPaid, SuccessIsCredited
<1>4. CASE ~(seen[o] + Credit[o] > Ceiling)
  <2>1. /\ request' = [request EXCEPT ![o] = "recorded"]
        /\ status' = [status EXCEPT ![o] = "PENDING"]
    BY <1>4 DEF Decides
  <2> QED BY <1>1, <1>2, <2>1
          DEF CreditInv, WellTyped, RowFollowsDecision, OnlyPaid, SuccessIsCredited
<1> QED BY <1>3, <1>4

LEMMA LogsTyped ==
  ASSUME CreditInv, NEW e, Logs(e)
  PROVE  /\ e \in sent /\ e \in Event /\ e.order \in paid /\ e.order \in Order
         /\ e.kind \in Kind /\ status[e.order] # "NONE" /\ request[e.order] = "recorded"
         /\ sent' = sent /\ unanswered' \subseteq sent' /\ unanswered \ unanswered' \subseteq {e}
         /\ logged' = logged \cup {EventId(e)}
         /\ UNCHANGED <<request, paid>>
BY DEF Logs, CreditInv, WellTyped, Event, requestVars, RowFollowsDecision, OnlyPaid

\* A verified top-up is credited, now or before.
LEMMA VerificationStep ==
  ASSUME CreditInv, NEW e, VerifiesTopup(e)
  PROVE  /\ CreditInv'
         /\ \A o \in Order : status'[o] = IF o = e.order THEN "SUCCESSFUL" ELSE status[o]
<1>1. /\ e.order \in paid /\ e.order \in Order
      /\ status[e.order] # "NONE" /\ request[e.order] = "recorded"
      /\ sent' = sent /\ unanswered' \subseteq sent'
      /\ UNCHANGED <<request, paid, dispute>>
  BY LogsTyped DEF VerifiesTopup
<1>2. CASE Creditable(e.order)
  <2>1. Post(e.order) /\ status' = [status EXCEPT ![e.order] = "SUCCESSFUL"]
    BY <1>2 DEF VerifiesTopup
  <2>2. posted' = posted \cup {e.order}
    BY <2>1 DEF Post
  <2> QED BY <1>1, <2>1, <2>2
          DEF CreditInv, WellTyped, RowFollowsDecision, OnlyPaid, SuccessIsCredited
<1>3. CASE ~Creditable(e.order)
  <2>1. UNCHANGED <<posted, status>> /\ status[e.order] = "SUCCESSFUL"
    BY <1>3 DEF VerifiesTopup, Creditable
  <2> QED BY <1>1, <2>1
          DEF CreditInv, WellTyped, RowFollowsDecision, OnlyPaid, SuccessIsCredited
<1> QED BY <1>2, <1>3

\* The other answers leave orders and wallet alone.
LEMMA OtherAnswer ==
  ASSUME CreditInv, NEW e, Logs(e), UNCHANGED <<status, posted>>,
         dispute' \in [Order -> {"NONE", "OPEN", "WON"}]
  PROVE  CreditInv'
BY LogsTyped DEF CreditInv, WellTyped, RowFollowsDecision, OnlyPaid, SuccessIsCredited

LEMMA CleanupStep == CreditInv /\ CleansUp => CreditInv'
BY DEF CleansUp, Abandoned, requestVars, walletVars, providerVars,
   CreditInv, WellTyped, RowFollowsDecision, OnlyPaid, SuccessIsCredited

LEMMA NothingMoves ==
  CreditInv /\ UNCHANGED <<request, status, posted, paid, unanswered, sent, dispute>> => CreditInv'
BY DEF CreditInv, WellTyped, RowFollowsDecision, OnlyPaid, SuccessIsCredited

LEMMA CreditKept == CreditInv /\ [TopupNext]_topupVars => CreditInv'
<1> SUFFICES ASSUME CreditInv, [TopupNext]_topupVars PROVE CreditInv'
  OBVIOUS
<1> USE DEF requestVars, rowVars, walletVars, providerVars
<1>1. ASSUME NEW o \in Order, CreatesOrder(o) PROVE CreditInv'
  BY <1>1, RequestStep DEF CreatesOrder
<1>2. ASSUME NEW o \in Order, ReadsBalance(o) PROVE CreditInv'
  BY <1>2, RequestStep DEF ReadsBalance
<1>3. ASSUME NEW o \in Order, ReadsReserved(o) PROVE CreditInv'
  BY <1>3, RequestStep DEF ReadsReserved
<1>4. ASSUME NEW o \in Order, Captures(o) PROVE CreditInv'
  <2>1. /\ status[o] # "NONE" /\ paid' = paid \cup {o}
        /\ Sends({Ev("authorized", o), Ev("captured", o)})
        /\ UNCHANGED <<request, status, posted, dispute>>
    BY <1>4 DEF Captures
  <2>2. /\ {Ev("authorized", o), Ev("captured", o)} \in SUBSET Event
        /\ \A e \in {Ev("authorized", o), Ev("captured", o)} : e.order = o
    BY Events DEF Kind
  <2> QED BY <2>1, <2>2, ProviderStep
<1>5. ASSUME NEW o \in Order, DisputeRaised(o) PROVE CreditInv'
  <2>1. status[o] # "NONE" /\ o \in paid
    BY <1>5 DEF DisputeRaised, CreditInv, RowFollowsDecision
  <2> QED BY <1>5, <2>1, ProviderStep, Events DEF DisputeRaised, Kind
<1>6. ASSUME NEW o \in Order, DisputeDecided(o) PROVE CreditInv'
  <2>1. o \in paid
    BY <1>6, Events DEF DisputeDecided, CreditInv, OnlyPaid, Kind
  <2>2. status[o] # "NONE"
    BY <2>1 DEF CreditInv, RowFollowsDecision
  <2> QED BY <1>6, <2>1, <2>2, ProviderStep, Events DEF DisputeDecided, Kind
<1>7. ASSUME NEW e \in Event, SkipsReplay(e) \/ IgnoresEvent(e) PROVE CreditInv'
  BY <1>7, OtherAnswer DEF SkipsReplay, IgnoresEvent, CreditInv, WellTyped
<1>8. ASSUME NEW e \in Event, RecordsDispute(e) PROVE CreditInv'
  <2>1. dispute' \in [Order -> {"NONE", "OPEN", "WON"}]
    BY <1>8 DEF RecordsDispute, CreditInv, WellTyped
  <2> QED BY <1>8, <2>1, OtherAnswer DEF RecordsDispute
<1>9. ASSUME NEW o \in Order, GetsOlder(o) PROVE CreditInv'
  BY <1>9, NothingMoves DEF GetsOlder
<1>10. CASE Spends \/ UNCHANGED topupVars
  BY <1>10, NothingMoves DEF Spends, topupVars
<1> QED BY <1>1, <1>2, <1>3, <1>4, <1>5, <1>6, <1>7, <1>8, <1>9, <1>10,
        DecisionStep, VerificationStep, CleanupStep DEF TopupNext

\* The ledger and the order always agree: for every number of orders, whatever
\* comes twice, late, or after the cleanup gave the order up.
THEOREM SuccessAlwaysCredited == TopupSpec => []SuccessIsCredited
<1>1. CreditInv => SuccessIsCredited
  BY DEF CreditInv
<1> QED BY InitCredit, CreditKept, <1>1, PTL DEF TopupSpec

------------------------------------------------------------------------------
(* The promise                                                              *)

\* Every step of a top-up is one the promise allows: a payment is taken once, and
\* credited once, in full, after it was taken; spending does not matter.
PromisedStep == \E o \in Order : Promise!TakePayment(o) \/ Promise!CreditWallet(o)
PromisedSteps ==
  Promise!Init /\ [][PromisedStep]_Promise!vars

Amounts == balance \in Int /\ spent \in Int

LEMMA WalletOnlyByOrders ==
  ASSUME CreditInv, Amounts, [TopupNext]_topupVars,
         ~(\E o \in Order : Captures(o)), ~(\E e \in Event : VerifiesTopup(e))
  PROVE  UNCHANGED Promise!vars
<1> USE DEF Amounts, Promise!vars, requestVars, rowVars, walletVars, providerVars
<1>1. CASE CleansUp
  BY <1>1 DEF CleansUp
<1>2. CASE Spends
  <2>1. balance' = balance - 1 /\ spent' = spent + 1 /\ UNCHANGED <<posted, paid>>
    BY <1>2 DEF Spends
  <2> QED BY <2>1
<1>3. ASSUME NEW o \in Order,
             \/ CreatesOrder(o) \/ ReadsBalance(o) \/ ReadsReserved(o) \/ Decides(o)
             \/ GetsOlder(o) \/ DisputeRaised(o) \/ DisputeDecided(o)
      PROVE  UNCHANGED <<paid, posted, balance, spent>>
  BY <1>3 DEF CreatesOrder, ReadsBalance, ReadsReserved, Decides, GetsOlder, DisputeRaised,
     DisputeDecided
<1>4. ASSUME NEW e \in Event, SkipsReplay(e) \/ RecordsDispute(e) \/ IgnoresEvent(e)
      PROVE  UNCHANGED <<paid, posted, balance, spent>>
  BY <1>4 DEF SkipsReplay, RecordsDispute, IgnoresEvent, Logs
<1>5. CASE UNCHANGED topupVars
  BY <1>5 DEF topupVars
<1> QED BY <1>1, <1>2, <1>3, <1>4, <1>5 DEF TopupNext

LEMMA PromiseStep ==
  ASSUME CreditInv, Amounts, [TopupNext]_topupVars
  PROVE  [PromisedStep]_Promise!vars
<1>1. ASSUME NEW o \in Order, Captures(o) PROVE Promise!TakePayment(o)
  BY <1>1 DEF Captures, Promise!TakePayment, walletVars
<1>2. ASSUME NEW e \in Event, VerifiesTopup(e), Creditable(e.order)
      PROVE  Promise!CreditWallet(e.order)
  <2>1. e.order \in paid /\ e.order \in Order /\ UNCHANGED <<paid, spent>>
    BY <1>2, LogsTyped DEF VerifiesTopup, Logs
  <2>2. e.order \notin posted
    BY <1>2, <2>1 DEF Creditable, CreditInv, SuccessIsCredited
  <2>3. posted' = posted \cup {e.order} /\ balance' = balance + Credit[e.order]
    BY <1>2, <2>2 DEF VerifiesTopup, Post
  <2>4. Credit[e.order] \in Int
    BY <2>1, TopupAssumption
  <2>5. balance' + spent' = (balance + spent) + Credit[e.order]
    BY <2>1, <2>3, <2>4 DEF Amounts
  <2> QED BY <2>1, <2>2, <2>3, <2>5 DEF Promise!CreditWallet
<1>3. ASSUME NEW e \in Event, VerifiesTopup(e), ~Creditable(e.order)
      PROVE  UNCHANGED Promise!vars
  BY <1>3 DEF VerifiesTopup, Logs, Promise!vars
<1>4. ASSUME NEW e \in Event, VerifiesTopup(e) PROVE e.order \in Order
  BY DEF Event
<1> QED BY <1>1, <1>2, <1>3, <1>4, WalletOnlyByOrders DEF PromisedStep

LEMMA AmountsKept == Amounts /\ [TopupNext]_topupVars => Amounts'
<1> SUFFICES ASSUME Amounts, [TopupNext]_topupVars PROVE Amounts'
  OBVIOUS
<1> USE DEF Amounts, requestVars, rowVars, walletVars, providerVars
<1>1. CASE CleansUp
  BY <1>1 DEF CleansUp
<1>2. CASE Spends
  BY <1>2 DEF Spends
<1>3. ASSUME NEW o \in Order,
             \/ CreatesOrder(o) \/ ReadsBalance(o) \/ ReadsReserved(o) \/ Decides(o)
             \/ GetsOlder(o) \/ Captures(o) \/ DisputeRaised(o) \/ DisputeDecided(o)
      PROVE  UNCHANGED <<balance, spent>>
  BY <1>3 DEF CreatesOrder, ReadsBalance, ReadsReserved, Decides, GetsOlder, Captures,
     DisputeRaised, DisputeDecided
<1>4. ASSUME NEW e \in Event, SkipsReplay(e) \/ RecordsDispute(e) \/ IgnoresEvent(e)
      PROVE  UNCHANGED <<balance, spent>>
  BY <1>4 DEF SkipsReplay, RecordsDispute, IgnoresEvent, Logs
<1>5. ASSUME NEW e \in Event, VerifiesTopup(e) PROVE balance' \in Int /\ UNCHANGED spent
  <2>1. e.order \in Order /\ Credit[e.order] \in Int
    BY TopupAssumption DEF Event
  <2>2. balance' = balance \/ balance' = balance + Credit[e.order]
    BY <1>5 DEF VerifiesTopup, Post
  <2> QED BY <1>5, <2>1, <2>2 DEF VerifiesTopup, Logs
<1>6. CASE UNCHANGED topupVars
  BY <1>6 DEF topupVars
<1> QED BY <1>1, <1>2, <1>3, <1>4, <1>5, <1>6 DEF TopupNext

\* A top-up implements the safety of TopupPromise, for every number of orders
\* and every credit.  That each payment is credited in the end is left to TLC.
THEOREM TopupsOnlyPromised == TopupSpec => PromisedSteps
<1>1. TopupInit => Promise!Init
  BY DEF TopupInit, Promise!Init
<1>2. TopupInit => Amounts
  BY DEF TopupInit, Amounts
<1>3. CreditInv /\ Amounts /\ [TopupNext]_topupVars => [PromisedStep]_Promise!vars
  BY PromiseStep
<1> QED BY InitCredit, CreditKept, AmountsKept, <1>1, <1>2, <1>3, PTL
        DEF TopupSpec, PromisedSteps

------------------------------------------------------------------------------
(* Answered events                                                          *)

\* What was applied stays applied.
LEMMA AppliedStays ==
  ASSUME CreditInv, [TopupNext]_topupVars, NEW e \in Event, Applied(e)
  PROVE  Applied(e)'
<1> USE DEF requestVars, rowVars, walletVars, providerVars
<1>1. e.order \in Order
  BY DEF Event
<1>2. CASE CleansUp
  BY <1>1, <1>2 DEF CleansUp, Abandoned, Applied
<1>3. ASSUME NEW o \in Order, Decides(o) PROVE Applied(e)'
  <2>1. status[o] = "NONE" /\ UNCHANGED dispute
    BY <1>3 DEF Decides, CreditInv, RowFollowsDecision
  <2>2. status' = status \/ status' = [status EXCEPT ![o] = "PENDING"]
    BY <1>3 DEF Decides
  <2> QED BY <1>1, <2>1, <2>2 DEF Applied, CreditInv, WellTyped
<1>4. ASSUME NEW o \in Order,
             \/ CreatesOrder(o) \/ ReadsBalance(o) \/ ReadsReserved(o)
             \/ GetsOlder(o) \/ Captures(o) \/ DisputeRaised(o) \/ DisputeDecided(o)
      PROVE  UNCHANGED <<status, dispute>>
  BY <1>4 DEF CreatesOrder, ReadsBalance, ReadsReserved, GetsOlder, Captures,
     DisputeRaised, DisputeDecided
<1>5. ASSUME NEW f \in Event, SkipsReplay(f) \/ IgnoresEvent(f)
      PROVE  UNCHANGED <<status, dispute>>
  BY <1>5 DEF SkipsReplay, IgnoresEvent
<1>6. ASSUME NEW f \in Event, RecordsDispute(f) PROVE Applied(e)'
  <2>1. UNCHANGED status /\ dispute'[e.order] \in {dispute[e.order], "WON", "OPEN"}
    BY <1>1, <1>6 DEF RecordsDispute, CreditInv, WellTyped
  <2> QED BY <2>1 DEF Applied
<1>7. ASSUME NEW f \in Event, VerifiesTopup(f) PROVE Applied(e)'
  BY <1>1, <1>7, VerificationStep DEF VerifiesTopup, Applied
<1>8. CASE Spends \/ UNCHANGED topupVars
  BY <1>8 DEF Spends, topupVars, Applied
<1>9. UNCHANGED <<status, dispute>> => Applied(e)'
  BY DEF Applied
<1> QED BY <1>2, <1>3, <1>4, <1>5, <1>6, <1>7, <1>8, <1>9 DEF TopupNext

\* An event is answered, or logged, when it is applied or was before.
LEMMA AnswersApply ==
  ASSUME OwnIds, CreditInv, LoggedIsApplied, NEW e \in Event,
         SkipsReplay(e) \/ VerifiesTopup(e) \/ RecordsDispute(e) \/ IgnoresEvent(e)
  PROVE  /\ e \in sent /\ logged' = logged \cup {e} /\ sent' = sent
         /\ unanswered \ unanswered' \subseteq {e} /\ Applied(e)'
<1>1. Logs(e)
  BY DEF SkipsReplay, VerifiesTopup, RecordsDispute, IgnoresEvent
<1>2. /\ e \in sent /\ e.order \in Order /\ logged' = logged \cup {e} /\ sent' = sent
      /\ unanswered \ unanswered' \subseteq {e}
  BY <1>1, LogsTyped DEF EventId
<1>3. CASE SkipsReplay(e)
  <2>1. e \in logged
    BY <1>3, Zenon DEF SkipsReplay, Replayed, EventId
  <2>2. UNCHANGED <<status, dispute>>
    BY <1>3 DEF SkipsReplay
  <2>3. Applied(e)
    BY <2>1, Zenon DEF LoggedIsApplied
  <2> QED BY <1>2, <2>2, <2>3, Zenon DEF Applied
<1>4. CASE VerifiesTopup(e)
  BY <1>2, <1>4, VerificationStep DEF VerifiesTopup, Applied
<1>5. CASE RecordsDispute(e)
  BY <1>2, <1>5 DEF RecordsDispute, Applied, CreditInv, WellTyped
<1>6. CASE IgnoresEvent(e)
  <2>1. e.kind = "authorized"
    BY <1>6, Zenon DEF IgnoresEvent
  <2>2. e.kind # "captured" /\ e.kind \notin {"dispute.created", "dispute.won"}
    BY <2>1
  <2> QED BY <1>2, <2>2, Zenon DEF Applied
<1> QED BY <1>2, <1>3, <1>4, <1>5, <1>6

LEMMA LoggedKept ==
  ASSUME OwnIds
  PROVE  CreditInv /\ LoggedIsApplied /\ [TopupNext]_topupVars => LoggedIsApplied'
<1> SUFFICES ASSUME CreditInv, LoggedIsApplied, [TopupNext]_topupVars PROVE LoggedIsApplied'
  OBVIOUS
<1> USE DEF requestVars, rowVars, walletVars, providerVars
<1>1. \A e \in sent : Applied(e) => Applied(e)'
  BY AppliedStays DEF CreditInv, WellTyped
<1>2. CASE \E e \in Event : SkipsReplay(e) \/ VerifiesTopup(e) \/ RecordsDispute(e) \/ IgnoresEvent(e)
  <2>1. PICK e \in Event : SkipsReplay(e) \/ VerifiesTopup(e) \/ RecordsDispute(e) \/ IgnoresEvent(e)
    BY <1>2
  <2>2. /\ e \in sent /\ logged' = logged \cup {e} /\ sent' = sent
        /\ unanswered \ unanswered' \subseteq {e} /\ Applied(e)'
    BY <2>1, AnswersApply
  <2> QED BY <1>1, <2>2 DEF LoggedIsApplied
<1>3. ASSUME logged' = logged, sent \subseteq sent', sent' \ sent \subseteq unanswered',
             unanswered \subseteq unanswered'
      PROVE  LoggedIsApplied'
  BY <1>1, <1>3 DEF LoggedIsApplied
<1>4. ASSUME NEW o \in Order, Captures(o) \/ DisputeRaised(o) \/ DisputeDecided(o)
      PROVE  LoggedIsApplied'
  BY <1>3, <1>4 DEF Captures, DisputeRaised, DisputeDecided, Sends
<1>5. ASSUME NEW o \in Order,
             \/ CreatesOrder(o) \/ ReadsBalance(o) \/ ReadsReserved(o) \/ Decides(o)
             \/ GetsOlder(o)
      PROVE  LoggedIsApplied'
  BY <1>3, <1>5 DEF CreatesOrder, ReadsBalance, ReadsReserved, Decides, GetsOlder
<1>6. CASE CleansUp \/ Spends \/ UNCHANGED topupVars
  BY <1>3, <1>6 DEF CleansUp, Spends, topupVars
<1> QED BY <1>2, <1>4, <1>5, <1>6 DEF TopupNext

\* When the provider's events carry ids of their own, one it takes as answered was
\* acted on: no dispute is lost for the payment it is about having been logged.
THEOREM AnsweredAlwaysApplied == ASSUME OwnIds PROVE TopupSpec => []AnsweredMeansApplied
<1>1. TopupInit => LoggedIsApplied
  BY DEF TopupInit, LoggedIsApplied
<1>2. LoggedIsApplied => AnsweredMeansApplied
  BY DEF LoggedIsApplied, Applied, AnsweredMeansApplied
<1> QED BY InitCredit, CreditKept, LoggedKept, <1>1, <1>2, PTL DEF TopupSpec

------------------------------------------------------------------------------
(* The ceiling                                                              *)

\* Whoever decides holds the lock, and has read figures that are whole.
LockHeld ==
  /\ request \in [Order -> {"none", "ordered", "reading", "deciding", "refused", "recorded"}]
  /\ deciding \in Order \cup {NoOrder} /\ seen \in [Order -> Nat] /\ balance \in Nat
  /\ \A o \in Order : request[o] \in {"reading", "deciding"} <=> o = deciding

\* A row starts fresh.
NewRowsFresh == \A o \in Order : status[o] = "NONE" => age[o] = "fresh"

\* What a decision has read covers what is reserved when it is taken: only a decision
\* reserves more, and they take turns.
SeenCovers == \A o \in Order : request[o] = "deciding" => seen[o] >= Sum(Reserved)

CeilingInv ==
  CreditInv /\ LockHeld /\ NewRowsFresh /\ SeenCovers /\ ReservedWithinCeiling

LEMMA SumOfOrders ==
  ASSUME NEW S \in SUBSET Order
  PROVE  IsFiniteSet(S) /\ Sum(S) \in Nat /\ \A T \in SUBSET S : Sum(T) <= Sum(S)
<1>1. IsFiniteSet(S)
  BY FS_Subset, TopupAssumption
<1>2. \A o \in S : Credit[o] \in Nat
  BY TopupAssumption
<1>3. SumFunctionOnSet(Credit, S) \in Nat
  BY <1>1, <1>2, SumNat
<1>4. ASSUME NEW T \in SUBSET S
      PROVE  SumFunctionOnSet(Credit, T) <= SumFunctionOnSet(Credit, S)
  BY <1>1, <1>2, SumOfPart
<1> QED BY <1>1, <1>3, <1>4 DEF Sum

LEMMA InitCeiling == TopupInit => CeilingInv
<1> SUFFICES ASSUME TopupInit PROVE CeilingInv
  OBVIOUS
<1>1. Reserved = {}
  BY DEF TopupInit, Reserved
<1>2. Sum(Reserved) = 0
  BY <1>1, SumEmpty DEF Sum
<1> QED BY <1>2, InitCredit, TopupAssumption DEF TopupInit, CeilingInv, LockHeld, NewRowsFresh, SeenCovers,
        ReservedWithinCeiling

\* Fewer reservations disturb nothing.
LEMMA FewerReserved ==
  ASSUME CeilingInv, Reserved' \subseteq Reserved
  PROVE  Sum(Reserved') <= Sum(Reserved) /\ ReservedWithinCeiling'
<1>1. Reserved \in SUBSET Order /\ Reserved' \in SUBSET Reserved /\ Reserved' \in SUBSET Order
  BY DEF Reserved
<1>2. Sum(Reserved') <= Sum(Reserved) /\ Sum(Reserved) \in Nat /\ Sum(Reserved') \in Nat
  BY <1>1, SumOfOrders
<1>3. Sum(Reserved)' = Sum(Reserved')
  BY DEF Sum
<1> QED BY <1>2, <1>3, TopupAssumption DEF CeilingInv, ReservedWithinCeiling

\* Only createTopup touches its requests, the lock and what was read under it.
OtherStep ==
  \/ CleansUp \/ Spends \/ UNCHANGED topupVars
  \/ \E o \in Order : GetsOlder(o) \/ Captures(o) \/ DisputeRaised(o) \/ DisputeDecided(o)
  \/ \E e \in Event :
       SkipsReplay(e) \/ VerifiesTopup(e) \/ RecordsDispute(e) \/ IgnoresEvent(e)

LEMMA StepKinds ==
  ASSUME [TopupNext]_topupVars
  PROVE  \/ OtherStep
         \/ \E o \in Order : CreatesOrder(o) \/ ReadsBalance(o) \/ ReadsReserved(o) \/ Decides(o)
BY DEF TopupNext, OtherStep

\* What another step leaves alone; it may end reservations, and make none.
LEMMA OtherStepReserves ==
  ASSUME CeilingInv, OtherStep
  PROVE  /\ UNCHANGED requestVars /\ balance' \in Nat
         /\ NewRowsFresh' /\ Reserved' \subseteq Reserved
<1> USE DEF requestVars, rowVars, walletVars, providerVars
<1>1. balance \in Nat /\ NewRowsFresh /\ WellTyped
  BY DEF CeilingInv, CreditInv, LockHeld
<1>2. CASE CleansUp
  <2>1. UNCHANGED <<request, deciding, seen, age, balance>>
    BY <1>2 DEF CleansUp
  <2>2. \A o \in Order : status'[o] \in {status[o], "FAILED"}
    BY <1>2 DEF CleansUp
  <2> QED BY <1>1, <2>1, <2>2 DEF NewRowsFresh, Reserved
<1>3. CASE Spends
  <2>1. UNCHANGED <<request, deciding, seen, status, age>>
    BY <1>3 DEF Spends
  <2>2. balance' \in Nat
    BY <1>1, <1>3 DEF Spends
  <2> QED BY <1>1, <2>1, <2>2 DEF NewRowsFresh, Reserved
<1>4. ASSUME NEW o \in Order, GetsOlder(o)
      PROVE  /\ UNCHANGED requestVars /\ balance' \in Nat
             /\ NewRowsFresh' /\ Reserved' \subseteq Reserved
  <2>1. UNCHANGED <<request, deciding, seen, status, balance>> /\ status[o] # "NONE"
    BY <1>4 DEF GetsOlder
  <2>2. /\ \A p \in Order \ {o} : age'[p] = age[p]
        /\ age'[o] = "fresh" => age[o] = "fresh"
    BY <1>4 DEF GetsOlder
  <2> QED BY <1>1, <2>1, <2>2 DEF NewRowsFresh, Reserved
<1>5. ASSUME NEW o \in Order, Captures(o) \/ DisputeRaised(o) \/ DisputeDecided(o)
      PROVE  UNCHANGED <<request, deciding, seen, status, age, balance>>
  BY <1>5 DEF Captures, DisputeRaised, DisputeDecided
<1>6. ASSUME NEW e \in Event, SkipsReplay(e) \/ RecordsDispute(e) \/ IgnoresEvent(e)
      PROVE  UNCHANGED <<request, deciding, seen, status, age, balance>>
  BY <1>6 DEF SkipsReplay, RecordsDispute, IgnoresEvent, Logs
<1>7. ASSUME NEW e \in Event, VerifiesTopup(e)
      PROVE  /\ UNCHANGED requestVars /\ balance' \in Nat
             /\ NewRowsFresh' /\ Reserved' \subseteq Reserved
  <2>1. UNCHANGED <<request, deciding, seen, age>>
    BY <1>7 DEF VerifiesTopup, Logs
  <2>2. e.order \in Order /\ Credit[e.order] \in Nat
    BY TopupAssumption DEF Event
  <2>3. balance' \in {balance, balance + Credit[e.order]}
    BY <1>7 DEF VerifiesTopup, Post
  <2>4. \A o \in Order : status'[o] \in {status[o], "SUCCESSFUL"}
    BY <1>1, <1>7, <2>2 DEF VerifiesTopup, WellTyped
  <2> QED BY <1>1, <2>1, <2>2, <2>3, <2>4 DEF NewRowsFresh, Reserved
<1>8. CASE UNCHANGED topupVars
  BY <1>1, <1>8 DEF topupVars, NewRowsFresh, Reserved
<1>9. UNCHANGED <<request, deciding, seen, status, age, balance>> =>
        /\ UNCHANGED requestVars /\ balance' \in Nat
        /\ NewRowsFresh' /\ Reserved' \subseteq Reserved
  BY <1>1 DEF NewRowsFresh, Reserved
<1> QED BY <1>2, <1>3, <1>4, <1>5, <1>6, <1>7, <1>8, <1>9 DEF OtherStep

LEMMA OtherStepKeeps ==
  ASSUME CeilingInv, OtherStep
  PROVE  LockHeld' /\ NewRowsFresh' /\ SeenCovers' /\ ReservedWithinCeiling'
<1>1. /\ UNCHANGED <<request, deciding, seen>> /\ balance' \in Nat
      /\ NewRowsFresh' /\ Reserved' \subseteq Reserved
  BY OtherStepReserves DEF requestVars
<1>2. Sum(Reserved') <= Sum(Reserved) /\ ReservedWithinCeiling'
  BY <1>1, FewerReserved
<1>3. LockHeld'
  BY <1>1 DEF CeilingInv, LockHeld
<1>4. Sum(Reserved) \in Nat /\ Sum(Reserved') \in Nat
  BY SumOfOrders DEF Reserved
<1>5. ASSUME NEW o \in Order, request'[o] = "deciding"
      PROVE  seen'[o] >= Sum(Reserved')
  <2>1. seen[o] >= Sum(Reserved) /\ seen'[o] = seen[o] /\ seen[o] \in Nat
    BY <1>1, <1>5 DEF CeilingInv, SeenCovers, LockHeld
  <2> QED BY <1>2, <1>4, <2>1
<1>6. Sum(Reserved)' = Sum(Reserved')
  BY DEF Sum
<1>7. SeenCovers'
  BY <1>5, <1>6 DEF SeenCovers
<1> QED BY <1>1, <1>2, <1>3, <1>7

\* The steps of one createTopup, whose requests are the only ones that decide.
LEMMA RequestKeeps ==
  ASSUME CeilingInv, NEW o \in Order, CreatesOrder(o) \/ ReadsBalance(o) \/ ReadsReserved(o)
  PROVE  LockHeld' /\ NewRowsFresh' /\ SeenCovers' /\ ReservedWithinCeiling'
<1> USE DEF rowVars, walletVars
<1>1. UNCHANGED <<status, age, balance>> /\ LockHeld /\ NewRowsFresh
  BY DEF CreatesOrder, ReadsBalance, ReadsReserved, CeilingInv
<1>2. Reserved' = Reserved /\ Sum(Reserved)' = Sum(Reserved) /\ Sum(Reserved) \in Nat
  BY <1>1, SumOfOrders DEF Reserved, Sum
<1>3. NewRowsFresh' /\ ReservedWithinCeiling'
  BY <1>1, <1>2, FewerReserved DEF NewRowsFresh
<1>4. CASE CreatesOrder(o)
  <2>1. LockHeld'
    BY <1>1, <1>4, TopupAssumption DEF CreatesOrder, LockHeld
  <2>2. SeenCovers'
    BY <1>1, <1>2, <1>4 DEF CreatesOrder, LockHeld, SeenCovers, CeilingInv
  <2> QED BY <1>3, <2>1, <2>2
<1>5. CASE ReadsBalance(o)
  <2>1. LockHeld'
    BY <1>1, <1>5, TopupAssumption DEF ReadsBalance, LockFree, LockHeld
  <2>2. SeenCovers'
    BY <1>1, <1>2, <1>5, TopupAssumption DEF ReadsBalance, LockFree, LockHeld, SeenCovers, CeilingInv
  <2> QED BY <1>3, <2>1, <2>2
<1>6. CASE ReadsReserved(o)
  <2>1. LockHeld'
    BY <1>1, <1>2, <1>6 DEF ReadsReserved, LockHeld
  <2>2. \A p \in Order : request'[p] = "deciding" => p = o
    BY <1>1, <1>6 DEF ReadsReserved, LockHeld
  <2>3. seen'[o] >= Sum(Reserved)
    BY <1>1, <1>2, <1>6 DEF ReadsReserved, LockHeld
  <2> QED BY <1>2, <1>3, <2>1, <2>2, <2>3 DEF SeenCovers
<1> QED BY <1>4, <1>5, <1>6

\* The decision: what it reserves fits beside all it has read of.
LEMMA DecisionKeeps ==
  ASSUME CeilingInv, NEW o \in Order, Decides(o)
  PROVE  LockHeld' /\ NewRowsFresh' /\ SeenCovers' /\ ReservedWithinCeiling'
<1> USE DEF walletVars
<1>1. /\ request[o] = "deciding" /\ deciding' = NoOrder /\ seen' = [seen EXCEPT ![o] = 0]
      /\ UNCHANGED <<age, balance>>
      /\ \E r \in {"refused", "recorded"} : request' = [request EXCEPT ![o] = r]
  BY DEF Decides
<1>2. LockHeld' /\ \A p \in Order : request'[p] # "deciding"
  BY <1>1, TopupAssumption DEF CeilingInv, LockHeld
<1>3. SeenCovers'
  BY <1>2 DEF SeenCovers
<1>4. status[o] = "NONE" /\ age[o] = "fresh"
  BY <1>1 DEF CeilingInv, CreditInv, RowFollowsDecision, NewRowsFresh
<1>5. CASE UNCHANGED status
  <2>1. NewRowsFresh' /\ Reserved' \subseteq Reserved
    BY <1>1, <1>5 DEF CeilingInv, NewRowsFresh, Reserved
  <2> QED BY <1>2, <1>3, <2>1, FewerReserved
<1>6. CASE ~(seen[o] + Credit[o] > Ceiling) /\ status' = [status EXCEPT ![o] = "PENDING"]
  <2>1. NewRowsFresh' /\ Reserved' = Reserved \cup {o} /\ o \notin Reserved
    BY <1>1, <1>4, <1>6 DEF CeilingInv, CreditInv, WellTyped, NewRowsFresh, Reserved
  <2>2. /\ IsFiniteSet(Reserved') /\ Reserved' \ {o} = Reserved
        /\ \A p \in Reserved' : Credit[p] \in Int
    BY <2>1, SumOfOrders, TopupAssumption DEF Reserved
  <2>3. SumFunctionOnSet(Credit, Reserved') = Credit[o] + SumFunctionOnSet(Credit, Reserved' \ {o})
    BY <2>1, <2>2, SumTake
  <2>4. Sum(Reserved)' = Credit[o] + Sum(Reserved)
    BY <2>2, <2>3 DEF Sum
  <2>5. Sum(Reserved) \in Nat /\ Credit[o] \in Nat /\ Ceiling \in Nat
    BY SumOfOrders, TopupAssumption DEF Reserved
  <2>6. seen[o] \in Nat /\ seen[o] >= Sum(Reserved)
    BY <1>1 DEF CeilingInv, LockHeld, SeenCovers
  <2> QED BY <1>2, <1>3, <1>6, <2>1, <2>4, <2>5, <2>6 DEF ReservedWithinCeiling
<1> QED BY <1>5, <1>6 DEF Decides

LEMMA CeilingKept == CeilingInv /\ [TopupNext]_topupVars => CeilingInv'
<1> SUFFICES ASSUME CeilingInv, [TopupNext]_topupVars PROVE CeilingInv'
  OBVIOUS
<1>1. CreditInv'
  BY CreditKept DEF CeilingInv
<1>2. LockHeld' /\ NewRowsFresh' /\ SeenCovers' /\ ReservedWithinCeiling'
  BY StepKinds, OtherStepKeeps, RequestKeeps, DecisionKeeps
<1> QED BY <1>1, <1>2 DEF CeilingInv

\* Two top-ups at once never reserve more than the ceiling between them, whatever is
\* paid, lapses or is spent while they decide: for every ceiling, every credit and
\* every number of requests.
THEOREM ReservedAlwaysWithinCeiling == TopupSpec => []ReservedWithinCeiling
<1>1. CeilingInv => ReservedWithinCeiling
  BY DEF CeilingInv
<1> QED BY InitCeiling, CeilingKept, <1>1, PTL DEF TopupSpec

\* Double entry: what the fan has, with what the fan has spent, is what the orders that
\* succeeded credit, each once.
WalletAddsUp == balance + spent = Sum({o \in Order : status[o] = "SUCCESSFUL"})

LEMMA SumStep ==
  ASSUME CreditInv, Amounts, balance + spent = Sum(posted), [TopupNext]_topupVars
  PROVE  balance' + spent' = Sum(posted)'
<1>1. CASE UNCHANGED Promise!vars
  <2>1. balance' + spent' = balance + spent /\ posted' = posted
    BY <1>1 DEF Promise!vars
  <2> QED BY <2>1 DEF Sum
<1>2. ASSUME NEW o \in Order, Promise!TakePayment(o) PROVE balance' + spent' = Sum(posted)'
  <2>1. balance' + spent' = balance + spent /\ posted' = posted
    BY <1>2 DEF Promise!TakePayment
  <2> QED BY <2>1 DEF Sum
<1>3. ASSUME NEW o \in Order, Promise!CreditWallet(o) PROVE balance' + spent' = Sum(posted)'
  <2>1. /\ o \notin posted /\ posted' = posted \cup {o}
        /\ balance' + spent' = (balance + spent) + Credit[o]
    BY <1>3 DEF Promise!CreditWallet
  <2>2. posted' \ {o} = posted /\ posted' \in SUBSET Order /\ o \in posted'
    BY <2>1 DEF CreditInv, WellTyped
  <2>3. IsFiniteSet(posted') /\ \A x \in posted' : Credit[x] \in Int
    BY <2>2, SumOfOrders, TopupAssumption
  <2>4. SumFunctionOnSet(Credit, posted') = Credit[o] + SumFunctionOnSet(Credit, posted' \ {o})
    BY <2>2, <2>3, SumTake
  <2>5. Sum(posted) \in Nat /\ Credit[o] \in Nat /\ Sum(posted)' = Credit[o] + Sum(posted)
    BY <2>2, <2>4, SumOfOrders, TopupAssumption DEF CreditInv, WellTyped, Sum
  <2> QED BY <2>1, <2>5
<1> QED BY <1>1, <1>2, <1>3, PromiseStep DEF PromisedStep

\* The wallet adds up to the orders that succeeded, whatever comes twice, late or is
\* given up in between, and however much is spent meanwhile.
THEOREM WalletAlwaysAddsUp == TopupSpec => []WalletAddsUp
<1> DEFINE AddsUp == balance + spent = Sum(posted)
<1>1. TopupInit => Amounts /\ AddsUp
  BY SumEmpty DEF TopupInit, Amounts, Sum
<1>2. CreditInv /\ Amounts /\ AddsUp /\ [TopupNext]_topupVars => AddsUp'
  BY SumStep
<1>3. CreditInv /\ AddsUp => WalletAddsUp
  <2> SUFFICES ASSUME CreditInv, AddsUp PROVE WalletAddsUp
    OBVIOUS
  <2>1. {o \in Order : status[o] = "SUCCESSFUL"} = posted
    BY DEF CreditInv, WellTyped, SuccessIsCredited
  <2> QED BY <2>1 DEF WalletAddsUp
<1> HIDE DEF AddsUp
<1> QED BY InitCredit, CreditKept, AmountsKept, <1>1, <1>2, <1>3, PTL DEF TopupSpec

RestTyped ==
  age \in [Order -> {"fresh", "lapsed", "old"}] /\ spent \in Nat /\ logged \subseteq Event

LEMMA RestKept == CeilingInv /\ RestTyped /\ [TopupNext]_topupVars => RestTyped'
<1> SUFFICES ASSUME CeilingInv, RestTyped, [TopupNext]_topupVars PROVE RestTyped'
  OBVIOUS
<1> USE DEF RestTyped, requestVars, rowVars, walletVars, providerVars
<1>1. CASE CleansUp \/ UNCHANGED topupVars
  BY <1>1 DEF CleansUp, topupVars
<1>2. CASE Spends
  BY <1>2 DEF Spends
<1>3. ASSUME NEW o \in Order,
             \/ CreatesOrder(o) \/ ReadsBalance(o) \/ ReadsReserved(o) \/ Decides(o)
             \/ Captures(o) \/ DisputeRaised(o) \/ DisputeDecided(o)
      PROVE  UNCHANGED <<age, spent, logged>>
  BY <1>3 DEF CreatesOrder, ReadsBalance, ReadsReserved, Decides, Captures, DisputeRaised,
     DisputeDecided
<1>4. ASSUME NEW o \in Order, GetsOlder(o) PROVE RestTyped'
  BY <1>4 DEF GetsOlder
<1>5. ASSUME NEW e \in Event, HandleWebhook(e)
      PROVE  UNCHANGED <<age, spent>> /\ logged' = logged \cup {EventId(e)}
  BY <1>5 DEF HandleWebhook, SkipsReplay, VerifiesTopup, RecordsDispute, IgnoresEvent, Logs
<1>6. ASSUME NEW e \in Event PROVE EventId(e) \in Event
  <2>1. PaymentId(e) \in Event
    BY DEF PaymentId, Ev, Event, Kind
  <2> QED BY <2>1 DEF EventId
<1> QED BY <1>1, <1>2, <1>3, <1>4, <1>5, <1>6 DEF TopupNext, HandleWebhook

\* The type invariant, with the lock: it is held exactly while its request decides, and
\* the wallet is never below zero.
THEOREM TopupsAlwaysTyped == TopupSpec => []TopupTypeOK
<1>1. TopupInit => RestTyped
  BY DEF TopupInit, RestTyped
<1>2. CeilingInv /\ RestTyped => TopupTypeOK
  BY DEF CeilingInv, CreditInv, WellTyped, LockHeld, RestTyped, TopupTypeOK
<1> QED BY InitCeiling, CeilingKept, RestKept, <1>1, <1>2, PTL DEF TopupSpec
==============================================================================
