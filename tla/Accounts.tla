------------------------------ MODULE Accounts ------------------------------
(***************************************************************************)
(* One account: who its owner is to the platform (fan or creator), whether *)
(* it is in good standing, whether discovery shows it, and its deletion:   *)
(* asked for, waiting out a grace period, then executed by a job that has  *)
(* to reach two systems, the database and the identity provider.           *)
(*                                                                         *)
(* The job is either the worker of this program ("bullmq") or the          *)
(* database's own scheduler ("pgcron").  The latter handles its list in    *)
(* one transaction; here each purge of it is seen when it is made, and     *)
(* what is undone when the session dies is not.  Onboarding applications,  *)
(* KYC and vacation are left out.                                          *)
(***************************************************************************)


CONSTANT Request   \* bound: deletion requests the owner may make

VARIABLES
  role,       \* profiles.role: "none" before sign-up, "FAN", "PARTNER"
  standing,   \* profiles.account_status: "ACTIVE", "SUSPENDED", "INACTIVE"
  personal,   \* what the profile says: "named", "anonymised", "rewritten"
  creator,    \* the partner_profiles row: exists, is_active, deactivation_reason
  request,    \* deletion_requests.status of each, "none" before it is made
  over,       \* requests whose scheduled_purge_at has passed
  asking,     \* requests that have found no open one and are not inserted yet
  credential, \* the identity provider knows the user
  signedIn,   \* somebody holds a token that has not lapsed
  driver,     \* JOBS_DRIVER
  keyed,      \* the provider's service key is configured
  due,        \* requests the running purge job has listed and not handled
  barred      \* of these, the one whose credential is taken care of

profileVars == <<role, standing, personal, creator>>
deletionVars == <<request, over, asking>>
jobVars == <<due, barred>>
vars == <<profileVars, deletionVars, credential, signedIn, driver, keyed, jobVars>>

Open == {r \in Request : request[r] = "REQUESTED"}
Reasons == {"none", "deletion", "other"}
NoCreator == [exists |-> FALSE, active |-> FALSE, reason |-> "none"]

Init ==
  /\ role = "none" /\ standing = "ACTIVE" /\ personal = "named"
  /\ creator = NoCreator
  /\ request = [r \in Request |-> "none"] /\ over = {} /\ asking = {}
  /\ credential = TRUE /\ signedIn = TRUE
  /\ driver \in {"bullmq", "pgcron"} /\ keyed \in BOOLEAN
  /\ due = {} /\ barred = {}

------------------------------------------------------------------------------
(* The owner                                                                *)

\* A token outlives the credential and the profile until it lapses.
SignsIn ==
  /\ credential /\ ~signedIn /\ signedIn' = TRUE
  /\ UNCHANGED <<profileVars, deletionVars, credential, driver, keyed, jobVars>>

TokenLapses ==
  /\ signedIn /\ signedIn' = FALSE
  /\ UNCHANGED <<profileVars, deletionVars, credential, driver, keyed, jobVars>>

\* Signing up again changes nothing.  A welcome notification that fails is no
\* step: it aborts the transaction it shares with the profile.
CreateProfile ==
  /\ signedIn /\ role = "none"
  /\ role' = "FAN"
  /\ UNCHANGED <<standing, personal, creator, deletionVars, credential, signedIn,
                 driver, keyed, jobVars>>

\* The row policy asks who the owner is, not whether the account still stands.
UpdateProfile ==
  /\ signedIn /\ role # "none" /\ personal = "anonymised"
  /\ personal' = "rewritten"
  /\ UNCHANGED <<role, standing, creator, deletionVars, credential, signedIn,
                 driver, keyed, jobVars>>

\* rpc_request_account_deletion: it looks, without a lock, and then inserts.
AsksDeletion(r) ==
  /\ signedIn /\ role # "none"
  /\ Open = {} /\ request[r] = "none"
  /\ asking' = asking \cup {r}
  /\ UNCHANGED <<profileVars, request, over, credential, signedIn, driver, keyed, jobVars>>

\* During the grace period a creator is not discoverable.
Withdrawn == [creator EXCEPT !.active = FALSE,
                !.reason = IF @ = "none" THEN "deletion" ELSE @]
RequestsDeletion(r) ==
  /\ r \in asking
  /\ asking' = asking \ {r}
  /\ request' = [request EXCEPT ![r] = "REQUESTED"]
  /\ creator' = IF role = "PARTNER" THEN Withdrawn ELSE creator
  /\ UNCHANGED <<role, standing, personal, over, credential, signedIn, driver, keyed, jobVars>>

GraceEnds(r) ==
  /\ r \in Open \ over
  /\ over' = over \cup {r}
  /\ UNCHANGED <<profileVars, request, asking, credential, signedIn, driver, keyed, jobVars>>

CancelsDeletion ==
  /\ signedIn /\ Open # {}
  /\ request' = [r \in Request |-> IF r \in Open THEN "CANCELLED" ELSE request[r]]
  /\ creator' = IF role = "PARTNER" /\ creator.reason = "deletion"
                THEN [creator EXCEPT !.active = TRUE, !.reason = "none"] ELSE creator
  /\ UNCHANGED <<role, standing, personal, over, asking, credential, signedIn,
                 driver, keyed, jobVars>>

------------------------------------------------------------------------------
(* The operators of the platform                                            *)

\* A promoted creator is active at once; the reason an earlier demotion left
\* stays in the row.
SetUserRole(new) ==
  /\ role \notin {"none", new}
  /\ role' = new
  /\ creator' = IF new = "PARTNER" THEN [creator EXCEPT !.exists = TRUE, !.active = TRUE]
                ELSE [creator EXCEPT !.active = FALSE, !.reason = "other"]
  /\ UNCHANGED <<standing, personal, deletionVars, credential, signedIn, driver, keyed, jobVars>>

\* trg_sync_partner_account_ban hides a creator; nothing shows one again.
Hidden(s) == IF role = "PARTNER" /\ s # "ACTIVE"
             THEN [creator EXCEPT !.active = FALSE,
                     !.reason = IF @ = "none" THEN "other" ELSE @]
             ELSE creator
SetAccountStatus(new) ==
  /\ role # "none" /\ standing # new
  /\ standing' = new /\ creator' = Hidden(new)
  /\ UNCHANGED <<role, personal, deletionVars, credential, signedIn, driver, keyed, jobVars>>

------------------------------------------------------------------------------
(* The purge job                                                            *)

AnyOpen == Open
Listed == Open \cap over
PurgeLists ==
  /\ due = {} /\ barred = {} /\ Listed # {}
  /\ due' = Listed
  /\ UNCHANGED <<profileVars, deletionVars, credential, signedIn, driver, keyed, barred>>

\* deleteUser: the provider deletes the user, or has none, which is as good.
Answer == IF credential THEN "deleted" ELSE "not found"
DeletedNow == Answer = "deleted"
DeletesUser == Answer \in {"deleted", "not found"}

WithCredential == driver = "bullmq" /\ keyed

\* The credential first, the profile after it: the request is the same whether
\* it still stands or was cancelled since it was listed.
BarsUser(r) ==
  /\ r \in due /\ barred = {}
  /\ WithCredential => DeletesUser
  /\ credential' = (credential /\ ~WithCredential)
  /\ barred' = {r}
  /\ UNCHANGED <<profileVars, deletionVars, signedIn, driver, keyed, due>>

\* The provider refuses or cannot be reached: the request stays for the next run.
GoesOn(r) == {r}
AfterRefusal(r) == {}
BarFails(r) ==
  /\ r \in due /\ barred = {} /\ WithCredential
  /\ barred' = AfterRefusal(r)
  /\ due' = due \ ({r} \ AfterRefusal(r))
  /\ UNCHANGED <<profileVars, deletionVars, credential, signedIn, driver, keyed>>

\* rpc_purge_profile and the status, in one transaction.
Purged == [creator EXCEPT !.active = FALSE,
             !.reason = IF role = "PARTNER" /\ standing # "INACTIVE" /\ @ = "none"
                        THEN "other" ELSE @]
Purges(r) ==
  /\ r \in barred
  /\ personal' = "anonymised" /\ standing' = "INACTIVE"
  /\ creator' = Purged
  /\ request' = [request EXCEPT ![r] = "COMPLETED"]
  /\ due' = due \ {r} /\ barred' = {}
  /\ UNCHANGED <<role, over, asking, credential, signedIn, driver, keyed>>

PurgeFails(r) ==
  /\ r \in barred
  /\ due' = due \ {r} /\ barred' = {}
  /\ UNCHANGED <<profileVars, deletionVars, credential, signedIn, driver, keyed>>

\* The process, or the scheduler's session, dies with its list.
JobDies ==
  /\ due # {}
  /\ due' = {} /\ barred' = {}
  /\ UNCHANGED <<profileVars, deletionVars, credential, signedIn, driver, keyed>>

------------------------------------------------------------------------------

Owner ==
  \/ SignsIn \/ TokenLapses \/ CreateProfile \/ UpdateProfile
  \/ \E r \in Request : AsksDeletion(r) \/ RequestsDeletion(r)
  \/ CancelsDeletion
Operator ==
  \/ \E new \in {"FAN", "PARTNER"} : SetUserRole(new)
  \/ \E new \in {"ACTIVE", "SUSPENDED", "INACTIVE"} : SetAccountStatus(new)
PurgeJob ==
  \/ PurgeLists \/ JobDies
  \/ \E r \in Request : BarsUser(r) \/ BarFails(r) \/ Purges(r) \/ PurgeFails(r)
Next == Owner \/ Operator \/ PurgeJob \/ \E r \in Request : GraceEnds(r)

Spec == Init /\ [][Next]_vars

\* The job runs every day, and does not fail on one request for ever.
FairSpec ==
  /\ Spec
  /\ WF_vars(PurgeLists)
  /\ \A r \in Request : SF_vars(BarsUser(r)) /\ SF_vars(Purges(r))

------------------------------------------------------------------------------
(* Properties                                                               *)

AccountTypeOK ==
  /\ role \in {"none", "FAN", "PARTNER"}
  /\ standing \in {"ACTIVE", "SUSPENDED", "INACTIVE"}
  /\ personal \in {"named", "anonymised", "rewritten"}
  /\ creator \in [exists : BOOLEAN, active : BOOLEAN, reason : Reasons]
  /\ creator.active => creator.exists
  /\ request \in [Request -> {"none", "REQUESTED", "CANCELLED", "COMPLETED"}]
  /\ over \subseteq Request /\ asking \subseteq Request
  /\ \A r \in asking : request[r] = "none"
  /\ credential \in BOOLEAN /\ signedIn \in BOOLEAN
  /\ driver \in {"bullmq", "pgcron"} /\ keyed \in BOOLEAN
  /\ due \subseteq Request /\ barred \subseteq due
  /\ \A a, b \in barred : a = b

\* A request is reported completed only when both systems have forgotten the
\* user, through any series of failed runs, retries and cancellations between
\* the listing and the purge; without the key, and under the database's own
\* scheduler, only the profile (jobs.module.ts 377-383).
CompletedMeansGone ==
  (\E r \in Request : request[r] = "COMPLETED") =>
    personal # "named" /\ (WithCredential => ~credential)

\* Neither the profile nor the credential is touched before some request has
\* waited out its grace period uncancelled, two racing requests included.
OnlyAfterGrace == (personal # "named" \/ ~credential) => over # {}

\* A request that has waited out its grace period does not stay open for ever:
\* a run that got half way is finished by a later one.
DueIsHandled == \A r \in Request : r \in Open \cap over ~> r \notin Open
==============================================================================
