----------------------------- MODULE Questions ------------------------------
(***************************************************************************)
(* The questions one fan asks one creator: the windows of a conversation,  *)
(* the first of them free, the others paid for in advance, settled when    *)
(* they were answered and refunded when nobody answered in time.           *)
(*                                                                         *)
(* rpc_ask_question locks an open window it finds; when it finds none, it  *)
(* goes on without a lock.  The very first question is serialised by the   *)
(* unique key of the conversation, which is made with it.  The expiry job  *)
(* reads its list and then handles each window in a transaction of its     *)
(* own, without looking again.  The messages themselves, their cap and     *)
(* refusals for price, block or identity are left out: they leave the      *)
(* windows alone.                                                          *)
(***************************************************************************)
EXTENDS Payouts

CONSTANTS
  Charge,      \* of a paid window
  Run,         \* bound: runs of the expiry job under way at once
  MaxAsks,     \* bound: questions past the look for an open window at once
  MaxWindows   \* bound: windows of the conversation

ASSUME QuestionAssumption == Charge \in Nat \ {0} /\ MaxAsks \in Nat /\ MaxWindows \in Nat

VARIABLES
  window,  \* conversation_windows in the order they were opened
  asking,  \* questions that found no open window
  listed   \* windows each run of the expiry job has still to handle

questionVars == <<window, asking, listed>>

Windows == DOMAIN window
QuestionsInit == window = <<>> /\ asking = 0 /\ listed = [j \in Run |-> {}]

Opened(kind) == [kind |-> kind, status |-> "OPEN",
                 late |-> FALSE,      \* response_deadline has passed
                 due |-> FALSE,       \* settle_at has passed
                 reported |-> FALSE,  \* a report is pending
                 refunded |-> 0]
OpenWindows == {i \in Windows : window[i].status = "OPEN"}
SettledWindow(i) == Settled(<<"QUICK_QUESTION", i>>)
Opens(kind) == Len(window) < MaxWindows /\ window' = Append(window, Opened(kind))
Changes(i, row) ==
  window' = [window EXCEPT ![i] = row] /\ UNCHANGED <<asking, listed, payoutVars>>

------------------------------------------------------------------------------
(* Fan and creator                                                          *)

AskFirst ==
  /\ window = <<>> /\ Opens("FREE")
  /\ UNCHANGED <<asking, listed, payoutVars>>

\* A question into an open window changes no window.
AskLooks ==
  /\ window # <<>> /\ OpenWindows = {} /\ asking < MaxAsks
  /\ asking' = asking + 1
  /\ UNCHANGED <<window, listed, payoutVars>>

AskOpens ==
  /\ asking > 0 /\ asking' = asking - 1
  /\ Opens("PAID")
  /\ UNCHANGED <<listed, payoutVars>>

\* Into the latest window that is open or answered; only the first reply to an
\* open one changes it.
Replyable(i) == window[i].status \in {"OPEN", "ANSWERED"}
Answer ==
  \E i \in OpenWindows :
    /\ \A k \in Windows : Replyable(k) => k <= i
    /\ Changes(i, [window[i] EXCEPT !.status = "ANSWERED", !.due = FALSE])

\* The creator speaks first: a free window, unless one is open.
Followup ==
  /\ window # <<>> /\ OpenWindows = {}
  /\ Opens("FREE")
  /\ UNCHANGED <<asking, listed, payoutVars>>

------------------------------------------------------------------------------
(* The jobs                                                                 *)

Overdue == {i \in OpenWindows : window[i].kind = "PAID" /\ window[i].late}

ExpiryLists(j) ==
  /\ listed[j] = {} /\ Overdue # {}
  /\ listed' = [listed EXCEPT ![j] = Overdue]
  /\ UNCHANGED <<window, asking, payoutVars>>

\* The key of the refund is the window's: a second refund moves nothing.
Refunded(i) == IF window[i].refunded = 0 THEN Charge ELSE window[i].refunded

ExpiryRefunds(j, i) ==
  /\ i \in listed[j] /\ listed' = [listed EXCEPT ![j] = @ \ {i}]
  /\ window' = [window EXCEPT ![i].status = "EXPIRED", ![i].refunded = Refunded(i)]
  /\ UNCHANGED <<asking, payoutVars>>

\* A failure of any statement, the notification's included, rolls the window's
\* transaction back: it stays open, and a later run lists it again.
MarkedFirst(i) == [window EXCEPT ![i].status = "EXPIRED"]
AfterFailure(i) == window
ExpiryFails(j, i) ==
  /\ i \in listed[j] /\ listed' = [listed EXCEPT ![j] = @ \ {i}]
  /\ window' = AfterFailure(i)
  /\ UNCHANGED <<asking, payoutVars>>

SettleWindow(i) ==
  /\ window[i].kind = "PAID" /\ window[i].status = "ANSWERED"
  /\ ~window[i].reported /\ ~SettledWindow(i)
  /\ Credits(<<"QUICK_QUESTION", i>>, Charge)
  /\ UNCHANGED questionVars

\* An operator settles it without waiting for settle_at.
SweepSettlesWindow(i) == window[i].due /\ SettleWindow(i)
ForceSettleWindow(i) == ~window[i].due /\ SettleWindow(i)

------------------------------------------------------------------------------
(* Reports and time                                                         *)

ReportWindow(i) ==
  /\ window[i].kind = "PAID" /\ ~window[i].reported
  /\ Changes(i, [window[i] EXCEPT !.reported = TRUE])

\* Without a refund.  One with a refund fails on a column the table has not, and
\* changes nothing.
ResolveWindowReport(i) ==
  /\ window[i].reported
  /\ Changes(i, [window[i] EXCEPT !.reported = FALSE])

DeadlinePasses(i) ==
  /\ window[i].kind = "PAID" /\ window[i].status = "OPEN" /\ ~window[i].late
  /\ Changes(i, [window[i] EXCEPT !.late = TRUE])

WindowFallsDue(i) ==
  /\ window[i].kind = "PAID" /\ window[i].status = "ANSWERED" /\ ~window[i].due
  /\ Changes(i, [window[i] EXCEPT !.due = TRUE])

QuestionsNext ==
  \/ AskFirst \/ AskLooks \/ AskOpens \/ Answer \/ Followup
  \/ \E j \in Run : ExpiryLists(j) \/ \E i \in listed[j] : ExpiryRefunds(j, i) \/ ExpiryFails(j, i)
  \/ \E i \in Windows : \/ SweepSettlesWindow(i) \/ ForceSettleWindow(i)
                        \/ ReportWindow(i) \/ ResolveWindowReport(i)
                        \/ DeadlinePasses(i) \/ WindowFallsDue(i)
==============================================================================
