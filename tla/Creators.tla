------------------------------ MODULE Creators ------------------------------
(***************************************************************************)
(* One creator's business outside calls: shout-outs and questions, both    *)
(* paid into escrow by a fan, settled into earnings, and withdrawn.        *)
(***************************************************************************)
EXTENDS Shoutouts, Questions

vars == <<payoutVars, shoutout, questionVars>>

Init == PayoutsInit /\ ShoutoutsInit /\ QuestionsInit

Next ==
  \/ PayoutsNext /\ UNCHANGED <<shoutout, questionVars>>
  \/ ShoutoutsNext /\ UNCHANGED questionVars
  \/ QuestionsNext /\ UNCHANGED shoutout

Spec == Init /\ [][Next]_vars

\* The sweeps run every 15 minutes, and do not fail on one item for ever.
FairSpec ==
  /\ Spec
  /\ \A s \in Shoutout : /\ WF_vars(ShoutoutSweep(s) /\ UNCHANGED questionVars)
                         /\ WF_vars(ReviewEnds(s) /\ UNCHANGED questionVars)
                         /\ WF_vars(ShoutoutFallsDue(s) /\ UNCHANGED questionVars)
  /\ \A j \in Run : WF_vars(ExpiryLists(j) /\ UNCHANGED shoutout)
  /\ \A i \in 1..MaxWindows :
       /\ \A j \in Run : SF_vars(i \in Windows /\ ExpiryRefunds(j, i) /\ UNCHANGED shoutout)
       /\ WF_vars(i \in Windows /\ SweepSettlesWindow(i) /\ UNCHANGED shoutout)
       /\ WF_vars(i \in Windows /\ DeadlinePasses(i) /\ UNCHANGED shoutout)
       /\ WF_vars(i \in Windows /\ WindowFallsDue(i) /\ UNCHANGED shoutout)

------------------------------------------------------------------------------
(* Properties                                                               *)

Credited(service) == IF Settled(service) THEN earning[service].amount ELSE 0

\* What a fan paid for a shout-out, corrections included, goes to the creator or
\* back to the fan, never both and never in part, whatever confirmations,
\* reports, reworks, cancellations and sweeps come together; one that expired
\* gives back the price alone.  A question is refunded at most once, although
\* two runs of the job may both have listed it.
OrdersPaidOnce ==
  /\ \A s \in Shoutout :
       LET row == shoutout[s]
           credited == Credited(<<"SHOUT_OUT", s>>)
       IN \/ credited = 0 /\ row.refunded \in {0, row.debited}
          \/ credited = 0 /\ row.status = "EXPIRED_PARTNER_NO_DELIVERY" /\ row.refunded = Price
          \/ credited = row.debited /\ row.refunded = 0
  /\ \A i \in Windows : window[i].refunded <= Charge

\* No order stays in escrow for ever: a shout-out is paid out, given back or in
\* the hands of an operator; a paid question credited, refunded or reported.
ShoutoutResolved(s) ==
  \/ SettledShoutout(s) \/ shoutout[s].refunded > 0
  \/ shoutout[s].status = "ISSUE_REPORTED_BY_FAN"
QuestionResolved(i) == SettledWindow(i) \/ window[i].refunded > 0 \/ window[i].reported
PaidQuestions == {i \in Windows : window[i].kind = "PAID"}
EveryOrderResolves ==
  /\ \A s \in Shoutout : shoutout[s].debited > 0 ~> ShoutoutResolved(s)
  /\ \A i \in 1..MaxWindows : i \in PaidQuestions ~> i \in Windows /\ QuestionResolved(i)
==============================================================================
