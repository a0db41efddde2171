------------------------------- MODULE Topups -------------------------------
(***************************************************************************)
(* One fan's wallet top-ups: the three phases of createTopup, the payment   *)
(* at the provider, its webhooks, the cleanup of abandoned orders, and     *)
(* disputes.                                                               *)
(*                                                                         *)
(* Each database transaction is one action, except the ceiling decision of *)
(* createTopup.  It holds a lock only other decisions take, and reads the  *)
(* balance and the reservations in two statements, so a webhook may commit *)
(* between them.                                                           *)
(*                                                                         *)
(* A webhook is delivered in any order, again after a failure or when the  *)
(* answer is lost.  One whose cross-check or rpc fails rolls its           *)
(* transaction back and changes nothing, so it is no action here.  Tax and *)
(* the other legs of the ledger are left out.                              *)
(***************************************************************************)
EXTENDS Integers, FiniteSets, Functions

CONSTANTS
  Order,     \* requests for a top-up, each with its order at the provider
  NoOrder,
  Credit,    \* what each credits the wallet with
  Disputed,  \* bound: the orders whose payment may be disputed
  Resent,    \* bound: the orders about whose events an answer may be lost
  Ceiling,   \* max_wallet_balance_paise
  OwnIds     \* the provider's event bodies carry an id of their own

ASSUME TopupAssumption ==
  /\ IsFiniteSet(Order) /\ NoOrder \notin Order
  /\ Credit \in [Order -> Nat \ {0}]
  /\ Disputed \subseteq Order /\ Resent \subseteq Order
  /\ Ceiling \in Nat
  /\ OwnIds \in BOOLEAN

VARIABLES
  request,   \* each createTopup: "none", "ordered", "reading", "deciding", "refused",
             \* "recorded"
  deciding,  \* who holds the fan's advisory lock
  seen,      \* the credit each deciding request has read of so far
  status,    \* topup_orders.status, "NONE" without a row
  age,       \* of the row: "fresh" (30 minutes), "lapsed", "old" (24 hours)
  posted,    \* orders whose key is in the ledger
  balance, spent,
  paid,      \* orders whose payment the provider captured
  unanswered,\* events the provider still owes an answer for
  sent,      \* events it has ever sent
  logged,    \* webhook_events, by event id
  dispute    \* disputes.status, "NONE" without a row

requestVars == <<request, deciding, seen>>
rowVars == <<status, age>>
walletVars == <<posted, balance, spent>>
providerVars == <<paid, unanswered, sent>>
topupVars == <<requestVars, rowVars, walletVars, providerVars, logged, dispute>>

Kind == {"authorized", "captured", "dispute.created", "dispute.won"}
Event == [kind : Kind, order : Order]
Ev(kind, o) == [kind |-> kind, order |-> o]

Sum(S) == SumFunctionOnSet(Credit, S)

TopupInit ==
  /\ request = [o \in Order |-> "none"] /\ deciding = NoOrder
  /\ seen = [o \in Order |-> 0]
  /\ status = [o \in Order |-> "NONE"] /\ age = [o \in Order |-> "fresh"]
  /\ posted = {} /\ balance = 0 /\ spent = 0
  /\ paid = {} /\ unanswered = {} /\ sent = {}
  /\ logged = {} /\ dispute = [o \in Order |-> "NONE"]

------------------------------------------------------------------------------
(* createTopup                                                              *)

\* Phases 1 and 2: within the limits, and the provider's order exists.  A crash
\* after it leaves an order nobody can pay.
CreatesOrder(o) ==
  /\ request[o] = "none"
  /\ request' = [request EXCEPT ![o] = "ordered"]
  /\ UNCHANGED <<deciding, seen, rowVars, walletVars, providerVars, logged, dispute>>

\* Phase 3: two reads, the decision and the row, under the fan's lock.
NoLock == TRUE
LockFree == deciding = NoOrder
ReadsBalance(o) ==
  /\ request[o] = "ordered" /\ LockFree
  /\ request' = [request EXCEPT ![o] = "reading"]
  /\ deciding' = o /\ seen' = [seen EXCEPT ![o] = balance]
  /\ UNCHANGED <<rowVars, walletVars, providerVars, logged, dispute>>

Reserved == {o \in Order : status[o] = "PENDING" /\ age[o] = "fresh"}

ReadsReserved(o) ==
  /\ request[o] = "reading"
  /\ request' = [request EXCEPT ![o] = "deciding"]
  /\ seen' = [seen EXCEPT ![o] = @ + Sum(Reserved)]
  /\ UNCHANGED <<deciding, rowVars, walletVars, providerVars, logged, dispute>>

Decides(o) ==
  /\ request[o] = "deciding"
  /\ deciding' = NoOrder /\ seen' = [seen EXCEPT ![o] = 0]
  /\ IF seen[o] + Credit[o] > Ceiling
     THEN request' = [request EXCEPT ![o] = "refused"] /\ UNCHANGED status
     ELSE /\ request' = [request EXCEPT ![o] = "recorded"]
          /\ status' = [status EXCEPT ![o] = "PENDING"]
  /\ UNCHANGED <<age, walletVars, providerVars, logged, dispute>>

------------------------------------------------------------------------------
(* The provider: external                                                   *)

Sends(events) ==
  /\ sent' = sent \cup events
  /\ unanswered' = unanswered \cup events

\* The fan learns the order's id once its row is committed.
Captures(o) ==
  /\ status[o] # "NONE" /\ o \notin paid
  /\ paid' = paid \cup {o}
  /\ Sends({Ev("authorized", o), Ev("captured", o)})
  /\ UNCHANGED <<requestVars, rowVars, walletVars, logged, dispute>>

DisputeRaised(o) ==
  /\ o \in paid \cap Disputed
  /\ Ev("dispute.created", o) \notin sent
  /\ Sends({Ev("dispute.created", o)})
  /\ UNCHANGED <<paid, requestVars, rowVars, walletVars, logged, dispute>>

DisputeDecided(o) ==
  /\ Ev("dispute.created", o) \in sent /\ Ev("dispute.won", o) \notin sent
  /\ Sends({Ev("dispute.won", o)})
  /\ UNCHANGED <<paid, requestVars, rowVars, walletVars, logged, dispute>>

------------------------------------------------------------------------------
(* handleWebhook                                                            *)

\* event.id, and without one the id of the payment the event is about.
PaymentId(e) == Ev("captured", e.order)
EventId(e) == IF OwnIds THEN e ELSE PaymentId(e)

Replayed(e) == EventId(e) \in logged

\* The row that logs the event, in the transaction of what is done about it.  The
\* answer may be lost after the commit.
Logs(e) ==
  /\ e \in unanswered
  /\ \/ unanswered' = unanswered \ {e}
     \/ e.order \in Resent /\ UNCHANGED unanswered
  /\ logged' = logged \cup {EventId(e)}
  /\ UNCHANGED <<requestVars, age, spent, paid, sent>>

SkipsReplay(e) ==
  /\ Replayed(e)
  /\ Logs(e)
  /\ UNCHANGED <<status, posted, balance, dispute>>

\* rpc_verify_topup: an order that is not SUCCESSFUL yet is credited, one the
\* cleanup has given up too.
OnlyPending(o) == status[o] = "PENDING"
Creditable(o) == status[o] # "SUCCESSFUL"
Post(o) ==
  IF o \in posted THEN UNCHANGED <<posted, balance>>
  ELSE posted' = posted \cup {o} /\ balance' = balance + Credit[o]

VerifiesTopup(e) ==
  /\ e.kind = "captured" /\ ~Replayed(e)
  /\ Logs(e)
  /\ IF Creditable(e.order)
     THEN Post(e.order) /\ status' = [status EXCEPT ![e.order] = "SUCCESSFUL"]
     ELSE UNCHANGED <<posted, balance, status>>
  /\ UNCHANGED dispute

\* rpc_record_dispute: a new row, or whatever status came last.
RecordsDispute(e) ==
  /\ e.kind \in {"dispute.created", "dispute.won"} /\ ~Replayed(e)
  /\ Logs(e)
  /\ dispute' = [dispute EXCEPT ![e.order] =
                   IF e.kind = "dispute.won" THEN "WON" ELSE "OPEN"]
  /\ UNCHANGED <<status, posted, balance>>

IgnoresEvent(e) ==
  /\ e.kind = "authorized" /\ ~Replayed(e)
  /\ Logs(e)
  /\ UNCHANGED <<status, posted, balance, dispute>>

------------------------------------------------------------------------------
(* Time, the cleanup job, and spending                                      *)

GetsOlder(o) ==
  /\ status[o] # "NONE" /\ age[o] # "old"
  /\ age' = [age EXCEPT ![o] = IF @ = "fresh" THEN "lapsed" ELSE "old"]
  /\ UNCHANGED <<requestVars, status, walletVars, providerVars, logged, dispute>>

OldOrders == {o \in Order : status[o] # "NONE" /\ age[o] = "old"}
Abandoned == {o \in Order : status[o] = "PENDING" /\ age[o] = "old"}
CleansUp ==
  /\ Abandoned # {}
  /\ status' = [o \in Order |-> IF o \in Abandoned THEN "FAILED" ELSE status[o]]
  /\ UNCHANGED <<requestVars, age, walletVars, providerVars, logged, dispute>>

Spends ==
  /\ balance > 0
  /\ balance' = balance - 1 /\ spent' = spent + 1
  /\ UNCHANGED <<requestVars, rowVars, posted, providerVars, logged, dispute>>

HandleWebhook(e) ==
  SkipsReplay(e) \/ VerifiesTopup(e) \/ RecordsDispute(e) \/ IgnoresEvent(e)

TopupNext ==
  \/ CleansUp \/ Spends
  \/ \E o \in Order :
       \/ CreatesOrder(o) \/ ReadsBalance(o) \/ ReadsReserved(o) \/ Decides(o)
       \/ GetsOlder(o)
       \/ Captures(o) \/ DisputeRaised(o) \/ DisputeDecided(o)
  \/ \E e \in Event :
       \/ SkipsReplay(e) \/ VerifiesTopup(e) \/ RecordsDispute(e) \/ IgnoresEvent(e)

TopupSpec == TopupInit /\ [][TopupNext]_topupVars

\* The provider delivers an event again until it is answered.
FairTopupSpec == TopupSpec /\ \A e \in Event : WF_topupVars(HandleWebhook(e))

------------------------------------------------------------------------------
(* Properties                                                               *)

TopupTypeOK ==
  /\ request \in [Order -> {"none", "ordered", "reading", "deciding", "refused", "recorded"}]
  /\ deciding \in Order \cup {NoOrder} /\ seen \in [Order -> Nat]
  /\ \A o \in Order : request[o] \in {"reading", "deciding"} <=> o = deciding
  /\ status \in [Order -> {"NONE", "PENDING", "SUCCESSFUL", "FAILED"}]
  /\ age \in [Order -> {"fresh", "lapsed", "old"}]
  /\ posted \subseteq Order /\ balance \in Nat /\ spent \in Nat
  /\ paid \subseteq Order /\ unanswered \subseteq sent /\ sent \subseteq Event
  /\ logged \subseteq Event
  /\ dispute \in [Order -> {"NONE", "OPEN", "WON"}]

\* "cross-checked ... no double-spend": every captured payment is credited, once
\* and in full, whether its webhook comes twice, late, or after the cleanup gave
\* the order up.
Promise == INSTANCE TopupPromise
             WITH credited <- posted, received <- balance + spent
KeepsPromise == Promise!Spec

\* An event the provider takes as answered was acted on, not just logged: it
\* will not come again.
AnsweredMeansApplied ==
  \A e \in sent \ unanswered :
    /\ e.kind = "captured" => status[e.order] = "SUCCESSFUL"
    /\ e.kind \in {"dispute.created", "dispute.won"} => dispute[e.order] # "NONE"

\* "two simultaneous top-ups each read the same pre-top-up balance ... and
\* together they breached the prepaid ceiling": what is reserved at one time
\* stays within it.
ReservedWithinCeiling == Sum(Reserved) <= Ceiling

\* The ledger and the order agree: the row says SUCCESSFUL exactly when the
\* wallet was credited, and never again anything else, whatever the cleanup does.
SuccessIsCredited == \A o \in Order : status[o] = "SUCCESSFUL" <=> o \in posted

\* The ceiling itself, as long as no reservation has lapsed.
CeilingHolds == (\A o \in Order : age[o] = "fresh") => balance <= Ceiling
==============================================================================
