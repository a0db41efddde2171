----------------------------- MODULE Storefront -----------------------------
(***************************************************************************)
(* How one user becomes a creator and is found: the application, its two   *)
(* reviews and the identity check, the role an operator grants or takes,   *)
(* the creator's page and what discovery shows of it, and the fans who     *)
(* asked to be told when the creator is back.                              *)
(*                                                                         *)
(* A return from vacation is one transaction of three statements: it holds *)
(* the page's row from the first to its end, while fans go on joining the  *)
(* waiting list.  The other requests are single steps.  Deletion of the    *)
(* account is in Accounts; favourites and the fields of a page that decide *)
(* nothing are left out.                                                   *)
(***************************************************************************)
EXTENDS Naturals

CONSTANT Fan   \* the fans who may ask to be told

VARIABLES
  role,        \* profiles.role
  standing,    \* profiles.account_status
  kyc,         \* profiles.verification_status
  page,        \* the partner_profiles row
  application, \* partner_applications.status, "none" before there is one
  entry,       \* waitlist.status of each fan, "none" before there is one
  told,        \* notifications a fan's entry has brought
  return,      \* the return under way: its stage, whom it tells, whom it marks
  overlapped   \* history: fans who joined while a return was under way

userVars == <<role, standing, kyc, application>>
listVars == <<entry, told, return, overlapped>>
vars == <<userVars, page, listVars>>

Roles == {"FAN", "PARTNER"}
Standings == {"ACTIVE", "SUSPENDED"}
Checks == {"NOT_SUBMITTED", "PENDING_VERIFICATION", "VERIFIED", "REJECTED"}
Applications == {"none", "PENDING_INITIAL_REVIEW", "AWAITING_KYC_AND_PROFILE_COMPLETION",
                 "PENDING_FINAL_ADMIN_APPROVAL", "ACTIVE", "REJECTED_INITIAL", "REJECTED_FINAL"}
PageStates == {"none", "ACTIVE", "INACTIVE", "REJECTED_ONBOARDING"}

NoPage == [status |-> "none", active |-> FALSE, away |-> FALSE, complete |-> FALSE]
NoReturn == [stage |-> "none", tells |-> {}, marks |-> {}]

Init ==
  /\ role = "FAN" /\ standing = "ACTIVE" /\ kyc = "NOT_SUBMITTED"
  /\ page = NoPage /\ application = "none"
  /\ entry = [f \in Fan |-> "none"] /\ told = [f \in Fan |-> 0]
  /\ return = NoReturn /\ overlapped = {}

HasPage == page.status # "none"
Unlocked == return.stage = "none"   \* no transaction holds the page's row
Waiting == {f \in Fan : entry[f] = "WAITING"}

\* vw_discover_partners: what the feed and a fan's saved list read.
Listed == page.status = "ACTIVE" /\ page.active /\ ~page.away

\* partner_lifecycle: which screen the user's client opens.
Lifecycle ==
  IF standing = "SUSPENDED" THEN "SUSPENDED"
  ELSE IF role # "PARTNER" \/ page.status = "ACTIVE" THEN "LIVE"
  ELSE CASE application = "none" -> "NEEDS_APPLICATION"
         [] application \in {"REJECTED_INITIAL", "REJECTED_FINAL"} -> "REJECTED"
         [] application = "AWAITING_KYC_AND_PROFILE_COMPLETION" -> "AWAITING_COMPLETION"
         [] application = "PENDING_FINAL_ADMIN_APPROVAL" -> "PENDING_FINAL"
         [] OTHER -> "PENDING_INITIAL"

------------------------------------------------------------------------------
(* The user                                                                 *)

\* One application for ever: a second insert meets the unique key.
SubmitApplication ==
  /\ application = "none" /\ application' = "PENDING_INITIAL_REVIEW"
  /\ UNCHANGED <<role, standing, kyc, page, listVars>>

SubmitKyc ==
  /\ standing = "ACTIVE" /\ kyc # "VERIFIED"
  /\ kyc' = "PENDING_VERIFICATION"
  /\ UNCHANGED <<role, standing, application, page, listVars>>

\* A check that was refused is a check that was submitted.
KycSubmitted == kyc # "NOT_SUBMITTED"
SubmitForReview ==
  /\ application = "AWAITING_KYC_AND_PROFILE_COMPLETION"
  /\ KycSubmitted /\ page.complete
  /\ application' = "PENDING_FINAL_ADMIN_APPROVAL"
  /\ UNCHANGED <<role, standing, kyc, page, listVars>>

\* updatePartnerProfile, but for a return.  Whoever has a page may, in any
\* standing and any role.
CompletesPage(complete) ==
  /\ HasPage /\ Unlocked
  /\ page' = [page EXCEPT !.complete = complete]
  /\ UNCHANGED <<userVars, listVars>>
GoesAway ==
  /\ HasPage /\ Unlocked
  /\ page' = [page EXCEPT !.away = TRUE]
  /\ UNCHANGED <<userVars, listVars>>

\* vacation_mode = false: the page's row, and a notification for each entry
\* that waits now; sent again, it finds no entry waiting.
EveryEntry == {f \in Fan : entry[f] # "none"}
ToTell == Waiting
BeginsReturn ==
  /\ HasPage /\ Unlocked
  /\ return' = [stage |-> "told", tells |-> ToTell, marks |-> {}]
  /\ UNCHANGED <<userVars, page, entry, told, overlapped>>

\* The second statement of rpc_notify_waitlist looks for itself.
MarksNotified ==
  /\ return.stage = "told"
  /\ return' = [return EXCEPT !.stage = "marked", !.marks = Waiting]
  /\ UNCHANGED <<userVars, page, entry, told, overlapped>>

CommitsReturn ==
  /\ return.stage = "marked"
  /\ page' = [page EXCEPT !.away = FALSE]
  /\ entry' = [f \in Fan |-> IF f \in return.marks THEN "NOTIFIED" ELSE entry[f]]
  /\ told' = [f \in Fan |-> IF f \in return.tells THEN told[f] + 1 ELSE told[f]]
  /\ return' = NoReturn
  /\ UNCHANGED <<userVars, overlapped>>

\* A statement fails or the connection is lost: nothing of it was done.
ReturnFails ==
  /\ return.stage # "none"
  /\ return' = NoReturn
  /\ UNCHANGED <<userVars, page, entry, told, overlapped>>

------------------------------------------------------------------------------
(* A fan.  Asking a second time is answered like the first and does nothing. *)

JoinWaitlist(f) ==
  /\ HasPage /\ entry[f] = "none"
  /\ entry' = [entry EXCEPT ![f] = "WAITING"]
  /\ overlapped' = IF Unlocked THEN overlapped ELSE overlapped \cup {f}
  /\ UNCHANGED <<userVars, page, told, return>>

------------------------------------------------------------------------------
(* The operators of the platform                                            *)

\* A promotion overrides whatever review there was; the standing is not asked.
OldPageKept(p) == IF HasPage THEN p ELSE [p EXCEPT !.status = "ACTIVE", !.active = TRUE]
Promoted(p) == [p EXCEPT !.status = "ACTIVE", !.active = TRUE]
StillActive(p) == IF HasPage THEN [p EXCEPT !.status = "INACTIVE"] ELSE p
Demoted(p) == IF HasPage THEN [p EXCEPT !.status = "INACTIVE", !.active = FALSE] ELSE p
SetUserRole(new) ==
  /\ role # new /\ (HasPage => Unlocked)
  /\ role' = new
  /\ page' = IF new = "PARTNER" THEN Promoted(page) ELSE Demoted(page)
  /\ UNCHANGED <<standing, kyc, application, listVars>>

\* trg_sync_partner_account_ban hides a creator's page; nothing shows it again.
SetAccountStatus(new) ==
  /\ standing # new
  /\ role = "PARTNER" /\ new # "ACTIVE" => Unlocked
  /\ standing' = new
  /\ page' = IF role = "PARTNER" /\ new # "ACTIVE" THEN [page EXCEPT !.active = FALSE] ELSE page
  /\ UNCHANGED <<role, kyc, application, listVars>>

\* Whether or not anything was ever submitted.
DecideKyc(verified) ==
  /\ kyc' = IF verified THEN "VERIFIED" ELSE "REJECTED"
  /\ UNCHANGED <<role, standing, application, page, listVars>>

ReviewApplication(approve) ==
  /\ application = "PENDING_INITIAL_REVIEW"
  /\ application' = IF approve THEN "AWAITING_KYC_AND_PROFILE_COMPLETION"
                    ELSE "REJECTED_INITIAL"
  /\ UNCHANGED <<role, standing, kyc, page, listVars>>

\* Neither the role nor is_active: an approved applicant who has lost the role
\* meanwhile has an active page that nobody sees.
FinalApprove ==
  /\ application = "PENDING_FINAL_ADMIN_APPROVAL" /\ (HasPage => Unlocked)
  /\ application' = "ACTIVE" /\ kyc' = "VERIFIED"
  /\ page' = IF HasPage THEN [page EXCEPT !.status = "ACTIVE"] ELSE page
  /\ UNCHANGED <<role, standing, listVars>>
FinalReject ==
  /\ application = "PENDING_FINAL_ADMIN_APPROVAL" /\ (HasPage => Unlocked)
  /\ application' = "REJECTED_FINAL"
  /\ page' = IF HasPage THEN [page EXCEPT !.status = "REJECTED_ONBOARDING"] ELSE page
  /\ UNCHANGED <<role, standing, kyc, listVars>>

------------------------------------------------------------------------------

User ==
  \/ SubmitApplication \/ SubmitKyc \/ SubmitForReview
  \/ \E b \in BOOLEAN : CompletesPage(b)
  \/ GoesAway \/ BeginsReturn \/ MarksNotified \/ CommitsReturn \/ ReturnFails
Operator ==
  \/ \E new \in Roles : SetUserRole(new)
  \/ \E new \in Standings : SetAccountStatus(new)
  \/ \E b \in BOOLEAN : DecideKyc(b) \/ ReviewApplication(b)
  \/ FinalApprove \/ FinalReject
Next == User \/ Operator \/ \E f \in Fan : JoinWaitlist(f)

Spec == Init /\ [][Next]_vars

------------------------------------------------------------------------------
(* Properties                                                               *)

StorefrontTypeOK ==
  /\ role \in Roles /\ standing \in Standings /\ kyc \in Checks
  /\ application \in Applications
  /\ page \in [status : PageStates, active : BOOLEAN, away : BOOLEAN, complete : BOOLEAN]
  /\ ~HasPage => ~page.active /\ ~page.away /\ ~page.complete
  /\ entry \in [Fan -> {"none", "WAITING", "NOTIFIED"}] /\ told \in [Fan -> Nat]
  /\ return \in [stage : {"none", "told", "marked"}, tells : SUBSET Fan, marks : SUBSET Fan]
  /\ overlapped \subseteq Fan

\* Discovery never shows somebody who is not a creator, whatever the order of
\* promotions, demotions and reviews: the view asks neither the role nor the
\* application, it relies on every writer of is_active.
ListedIsCreator == Listed => role = "PARTNER"

\* A creator's client opens a live or a finally rejected storefront, never an
\* onboarding screen left over from an application: a promotion settles it.
CreatorIsSettled ==
  role = "PARTNER" =>
    \/ Lifecycle \in {"SUSPENDED", "LIVE"}
    \/ Lifecycle = "REJECTED" /\ application = "REJECTED_FINAL"

\* An entry brings one notification (0007_notifications_push_waitlist.sql:41):
\* never a second, through returns that fail, are repeated or overlap joins,
\* and none only if it was made while a return was under way.
OncePerEntry ==
  \A f \in Fan :
    /\ told[f] <= 1
    /\ told[f] = 1 => entry[f] = "NOTIFIED"
    /\ entry[f] = "NOTIFIED" /\ told[f] = 0 => f \in overlapped

\* What the schema's comment says without that exception.  TLC refutes it.
ExactlyOnePerEntry == \A f \in Fan : entry[f] = "NOTIFIED" => told[f] = 1
==============================================================================
