----------------------------- MODULE Shoutouts ------------------------------
(***************************************************************************)
(* Shout-outs: paid for in advance, delivered as a video, corrected at the *)
(* fan's wish (once for nothing, then for a fee), reported, expired, and   *)
(* settled into the creator's earnings once confirmed.                     *)
(*                                                                         *)
(* Every rpc locks the row or writes it under a condition, so each is one  *)
(* action.  The sweep's lists are read without a lock and each rpc looks   *)
(* again; an item that fails changes nothing.  A fan who cannot pay is     *)
(* refused and nothing of the round is kept, so the wallet is left out.    *)
(***************************************************************************)
EXTENDS Payouts

CONSTANTS
  Shoutout,
  Price, Fee,  \* of a shout-out, and of each paid correction
  MaxRounds    \* bound: times one is sent back to the creator

ASSUME ShoutoutAssumption == Price \in Nat \ {0} /\ Fee \in Nat \ {0} /\ MaxRounds \in Nat

VARIABLE shoutout  \* shout_out_requests, with the fees of shoutout_corrections

Fresh == [status |-> "none", confirmed |-> FALSE, freeUsed |-> FALSE, disputed |-> FALSE,
          reviewed |-> FALSE,  \* review_deadline_at has passed
          due |-> FALSE,       \* settle_at has passed
          rounds |-> 0, fees |-> 0, debited |-> 0, refunded |-> 0]

ShoutoutsInit == shoutout = [s \in Shoutout |-> Fresh]

SettledShoutout(s) == Settled(<<"SHOUT_OUT", s>>)
Worth(s) == Price + shoutout[s].fees

Becomes(s, row) == shoutout' = [shoutout EXCEPT ![s] = row] /\ UNCHANGED payoutVars

------------------------------------------------------------------------------
(* Fan and creator                                                          *)

RequestShoutout(s) ==
  /\ shoutout[s].status = "none"
  /\ Becomes(s, [Fresh EXCEPT !.status = "AWAITING_PARTNER_VIDEO", !.debited = Price])

UploadShoutout(s) ==
  /\ shoutout[s].status = "AWAITING_PARTNER_VIDEO"
  /\ Becomes(s, [shoutout[s] EXCEPT !.status = "VIDEO_DELIVERED_TO_FAN", !.confirmed = FALSE,
                                    !.reviewed = FALSE, !.due = FALSE])

\* Delivered, and nobody has confirmed it yet.
Open(s) == shoutout[s].status = "VIDEO_DELIVERED_TO_FAN" /\ ~shoutout[s].confirmed

ConfirmShoutout(s) ==
  /\ Open(s)
  /\ Becomes(s, [shoutout[s] EXCEPT !.confirmed = TRUE, !.due = TRUE])

ReportShoutout(s) ==
  /\ Open(s)
  /\ Becomes(s, [shoutout[s] EXCEPT !.status = "ISSUE_REPORTED_BY_FAN", !.disputed = TRUE])

\* Sending back leaves settle_at as the last delivery set it.
SentBack(s) == [shoutout[s] EXCEPT !.status = "AWAITING_PARTNER_VIDEO", !.rounds = @ + 1]

RequestCorrection(s) ==
  /\ Open(s) /\ ~shoutout[s].disputed /\ shoutout[s].rounds < MaxRounds
  /\ Becomes(s, IF shoutout[s].freeUsed
                THEN [SentBack(s) EXCEPT !.fees = @ + Fee, !.debited = @ + Fee]
                ELSE [SentBack(s) EXCEPT !.freeUsed = TRUE])

------------------------------------------------------------------------------
(* Operators                                                                *)

Confirmable(s) == ~shoutout[s].confirmed /\
  shoutout[s].status \in {"VIDEO_DELIVERED_TO_FAN", "ISSUE_REPORTED_BY_FAN"}

\* Over the fan's head, or back for rework.
DeliverShoutout(s, approve) ==
  /\ Confirmable(s) /\ (~approve => shoutout[s].rounds < MaxRounds)
  /\ Becomes(s, IF approve
                THEN [shoutout[s] EXCEPT !.status = "VIDEO_DELIVERED_TO_FAN", !.confirmed = TRUE]
                ELSE SentBack(s))

\* The whole of what the fan paid, and only before it is settled.
SettledOrNot(s) == TRUE
NotSettled(s) == ~SettledShoutout(s)
CancelShoutout(s) ==
  /\ shoutout[s].status \in {"AWAITING_PARTNER_VIDEO", "VIDEO_DELIVERED_TO_FAN",
                             "ISSUE_REPORTED_BY_FAN"}
  /\ NotSettled(s)
  /\ Becomes(s, [shoutout[s] EXCEPT !.status = "REFUNDED_BY_ADMIN", !.refunded = @ + Worth(s)])

\* REFUND cancels; REWORK sends back; DISMISS starts both timers again.
ResolveShoutoutReport(s, action) ==
  /\ shoutout[s].status = "ISSUE_REPORTED_BY_FAN"
  /\ \/ action = "REFUND" /\ CancelShoutout(s)
     \/ action = "REWORK" /\ shoutout[s].rounds < MaxRounds /\ Becomes(s, SentBack(s))
     \/ action = "DISMISS" /\ Becomes(s, [shoutout[s] EXCEPT
          !.status = "VIDEO_DELIVERED_TO_FAN", !.reviewed = FALSE, !.due = FALSE])

------------------------------------------------------------------------------
(* The settlement sweep, and time                                           *)

AutoConfirm(s) ==
  /\ Open(s) /\ shoutout[s].reviewed
  /\ Becomes(s, [shoutout[s] EXCEPT !.confirmed = TRUE, !.due = TRUE])

\* The price comes back; the fees of paid corrections do not.
ExpireShoutout(s) ==
  /\ shoutout[s].status = "AWAITING_PARTNER_VIDEO" /\ shoutout[s].due
  /\ Becomes(s, [shoutout[s] EXCEPT !.status = "EXPIRED_PARTNER_NO_DELIVERY",
                                    !.refunded = @ + Price])

SettleShoutout(s) ==
  /\ shoutout[s].status = "VIDEO_DELIVERED_TO_FAN" /\ shoutout[s].confirmed
  /\ NotSettled(s)
  /\ Credits(<<"SHOUT_OUT", s>>, Worth(s))
  /\ UNCHANGED shoutout

\* An operator settles it without waiting for settle_at.
SweepSettlesShoutout(s) == shoutout[s].due /\ SettleShoutout(s)
ForceSettleShoutout(s) == ~shoutout[s].due /\ SettleShoutout(s)

ReviewEnds(s) ==
  /\ Open(s) /\ ~shoutout[s].reviewed
  /\ Becomes(s, [shoutout[s] EXCEPT !.reviewed = TRUE])

ShoutoutFallsDue(s) ==
  /\ shoutout[s].status \in {"AWAITING_PARTNER_VIDEO", "VIDEO_DELIVERED_TO_FAN"}
  /\ ~shoutout[s].due
  /\ Becomes(s, [shoutout[s] EXCEPT !.due = TRUE])

ShoutoutsNext == \E s \in Shoutout :
  \/ RequestShoutout(s) \/ UploadShoutout(s) \/ ConfirmShoutout(s)
  \/ ReportShoutout(s) \/ RequestCorrection(s)
  \/ \E approve \in BOOLEAN : DeliverShoutout(s, approve)
  \/ CancelShoutout(s)
  \/ \E action \in {"REFUND", "REWORK", "DISMISS"} : ResolveShoutoutReport(s, action)
  \/ AutoConfirm(s) \/ ExpireShoutout(s) \/ SweepSettlesShoutout(s) \/ ForceSettleShoutout(s)
  \/ ReviewEnds(s) \/ ShoutoutFallsDue(s)

\* The sweep runs every 15 minutes and does not fail on one item for ever.
ShoutoutSweep(s) ==
  AutoConfirm(s) \/ ExpireShoutout(s) \/ SweepSettlesShoutout(s)
ShoutoutTimers(s) == ReviewEnds(s) \/ ShoutoutFallsDue(s)
==============================================================================
