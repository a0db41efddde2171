------------------------------ MODULE Payouts -------------------------------
(***************************************************************************)
(* What one creator has earned and how it is paid out: withdrawals the     *)
(* creator asks for, and the operators who close them with the reference   *)
(* of a bank transfer made by hand.                                        *)
(*                                                                         *)
(* A withdrawal sums the pending earnings in one statement and marks them  *)
(* in a later one, under READ COMMITTED and no lock; what another          *)
(* transaction commits in between is marked, or no longer there to mark.   *)
(* An approval holds the lock of its payout, and looks for its reference   *)
(* among the others before it writes it.                                   *)
(***************************************************************************)
EXTENDS Naturals, Sequences, FiniteSets, Functions

CONSTANTS
  Withdrawal,    \* bound: requests for a withdrawal
  Utr,           \* bank references the operators enter
  MinWithdrawal  \* min_withdrawal_paise

ASSUME PayoutAssumption == MinWithdrawal \in Nat

VARIABLES
  verified,     \* the method the creator wants to be paid by is verified
  earning,      \* partner_earnings by service: amount, status, payout (0: none)
  payout,       \* partner_payouts: amount, status, utr ("none" until paid)
  withdrawing,  \* what each request has summed, 0 when it is not under way
  approving     \* approvals that have passed their checks

payoutVars == <<verified, earning, payout, withdrawing, approving>>

Settled(service) == service \in DOMAIN earning
Pending == {s \in DOMAIN earning : earning[s].status = "PENDING_PAYOUT"}
InPayout(p) == {s \in DOMAIN earning : earning[s].payout = p}
Total(services) == SumFunctionOnSet([s \in services |-> earning[s].amount], services)

Earned(amount, status, p) == [amount |-> amount, status |-> status, payout |-> p]

PayoutsInit ==
  /\ verified = FALSE /\ earning = <<>> /\ payout = <<>>
  /\ withdrawing = [w \in Withdrawal |-> 0] /\ approving = {}

\* How every settlement ends: one earning for the service, pending.
Credits(service, amount) ==
  /\ earning' = [x \in DOMAIN earning \cup {service} |->
                  IF x \in DOMAIN earning THEN earning[x] ELSE Earned(amount, "PENDING_PAYOUT", 0)]
  /\ UNCHANGED <<verified, payout, withdrawing, approving>>

------------------------------------------------------------------------------

\* By an operator: verified, or sent back, one method or all of the creator's.
VerifyPayoutMethod ==
  /\ verified' = ~verified
  /\ UNCHANGED <<earning, payout, withdrawing, approving>>

\* rpc_create_payout_batch: sum, then insert and mark.
SumsEarnings(w) ==
  /\ verified /\ withdrawing[w] = 0
  /\ Total(Pending) > 0 /\ Total(Pending) >= MinWithdrawal
  /\ withdrawing' = [withdrawing EXCEPT ![w] = Total(Pending)]
  /\ UNCHANGED <<verified, earning, payout, approving>>

Owed(amount, status, utr) == [amount |-> amount, status |-> status, utr |-> utr]
Closed(p, status, utr) == [payout EXCEPT ![p] = Owed(payout[p].amount, status, utr)]

Mark(services, p, status) ==
  [s \in DOMAIN earning |->
     IF s \in services THEN Earned(earning[s].amount, status, p) ELSE earning[s]]

MarksEarnings(w) ==
  /\ withdrawing[w] > 0 /\ Len(payout) < Cardinality(Withdrawal)
  /\ payout' = Append(payout, Owed(withdrawing[w], "REQUESTED", "none"))
  /\ earning' = Mark(Pending, Len(payout) + 1, "INCLUDED_IN_PAYOUT")
  /\ withdrawing' = [withdrawing EXCEPT ![w] = 0]
  /\ UNCHANGED <<verified, approving>>

------------------------------------------------------------------------------
(* rpc_process_payout                                                       *)

Decidable(p) == payout[p].status = "REQUESTED" /\ \A a \in approving : a.payout # p

Unused(u) == \A p \in DOMAIN payout : payout[p].utr # u

ApprovalChecks(p, u) ==
  /\ Decidable(p) /\ Unused(u)
  /\ approving' = approving \cup {[payout |-> p, utr |-> u]}
  /\ UNCHANGED <<verified, earning, payout, withdrawing>>

\* partner_payouts_utr_uq fails the second of two approvals with one reference,
\* and the ledger entries of it are rolled back.
NoIndex(u) == TRUE
UniqueIndex(u) == Unused(u)

ApprovalWrites(a) ==
  /\ a \in approving /\ approving' = approving \ {a}
  /\ \/ /\ UniqueIndex(a.utr)
        /\ payout' = Closed(a.payout, "PAID", a.utr)
        /\ earning' = Mark(InPayout(a.payout), a.payout, "PAID")
     \/ /\ ~UniqueIndex(a.utr) /\ UNCHANGED <<payout, earning>>
  /\ UNCHANGED <<verified, withdrawing>>

RejectsPayout(p) ==
  /\ Decidable(p)
  /\ payout' = Closed(p, "REJECTED", payout[p].utr)
  /\ earning' = Mark(InPayout(p), 0, "PENDING_PAYOUT")
  /\ UNCHANGED <<verified, withdrawing, approving>>

PayoutsNext ==
  \/ VerifyPayoutMethod
  \/ \E w \in Withdrawal : SumsEarnings(w) \/ MarksEarnings(w)
  \/ \E p \in DOMAIN payout : RejectsPayout(p) \/ \E u \in Utr : ApprovalChecks(p, u)
  \/ \E a \in approving : ApprovalWrites(a)

------------------------------------------------------------------------------
(* Properties                                                               *)

\* One bank reference closes one payout, two approvals at once included, and an
\* earning is exactly as far as the payout it is in: what is rejected can be
\* withdrawn again, what is paid cannot.
PayoutsReconcile ==
  /\ \A p, q \in DOMAIN payout : payout[p].utr = payout[q].utr /\ payout[p].utr # "none" => p = q
  /\ \A s \in DOMAIN earning : LET e == earning[s] IN
       \/ e.payout = 0 /\ e.status = "PENDING_PAYOUT"
       \/ e.payout # 0 /\ <<e.status, payout[e.payout].status>> \in
            {<<"INCLUDED_IN_PAYOUT", "REQUESTED">>, <<"PAID", "PAID">>}

\* The payout batch's "amount = exactly [the sum of those] marked" (0017).
AmountIsWhatItMarks ==
  \A p \in DOMAIN payout :
    payout[p].status # "REJECTED" => payout[p].amount = Total(InPayout(p))
==============================================================================
