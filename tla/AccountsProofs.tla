--------------------------- MODULE AccountsProofs ---------------------------
(***************************************************************************)
(* What holds of Accounts for every set of deletion requests, under either *)
(* driver and with or without the provider's key.                          *)
(***************************************************************************)
EXTENDS Accounts, TLAPS

\* A creator has a page; requests that are over were made.
Sound ==
  /\ role = "PARTNER" => creator.exists
  /\ \A r \in over : request[r] # "none"

\* The job works on a request that is over, and bars it before it purges.
JobInOrder ==
  /\ due \subseteq over
  /\ barred # {} /\ WithCredential => ~credential

AccountsInv ==
  AccountTypeOK /\ Sound /\ JobInOrder /\ CompletedMeansGone /\ OnlyAfterGrace

LEMMA InitInv == Init => AccountsInv
BY DEF Init, AccountsInv, AccountTypeOK, Sound, JobInOrder, CompletedMeansGone,
       OnlyAfterGrace, NoCreator, Reasons

------------------------------------------------------------------------------
(* The owner                                                                *)

LEMMA SignsInKeeps == AccountsInv /\ SignsIn => AccountsInv'
BY DEF SignsIn, AccountsInv, AccountTypeOK, Sound, JobInOrder, CompletedMeansGone,
       OnlyAfterGrace, WithCredential, profileVars, deletionVars, jobVars

LEMMA TokenLapsesKeeps == AccountsInv /\ TokenLapses => AccountsInv'
<1> SUFFICES ASSUME AccountsInv, TokenLapses PROVE AccountsInv'
  OBVIOUS
<1>1. signedIn' \in BOOLEAN
  BY DEF TokenLapses
<1>2. UNCHANGED <<profileVars, deletionVars, credential, driver, keyed, jobVars>>
  BY DEF TokenLapses
<1> QED
  BY <1>1, <1>2
     DEF AccountsInv, AccountTypeOK, Sound, JobInOrder, CompletedMeansGone,
         OnlyAfterGrace, WithCredential, profileVars, deletionVars, jobVars

LEMMA CreateProfileKeeps == AccountsInv /\ CreateProfile => AccountsInv'
BY DEF CreateProfile, AccountsInv, AccountTypeOK, Sound, JobInOrder, CompletedMeansGone,
       OnlyAfterGrace, WithCredential, deletionVars, jobVars

LEMMA UpdateProfileKeeps == AccountsInv /\ UpdateProfile => AccountsInv'
BY DEF UpdateProfile, AccountsInv, AccountTypeOK, Sound, JobInOrder, CompletedMeansGone,
       OnlyAfterGrace, WithCredential, deletionVars, jobVars

LEMMA AsksDeletionKeeps ==
  ASSUME AccountsInv, NEW r \in Request, AsksDeletion(r)
  PROVE  AccountsInv'
BY DEF AsksDeletion, AccountsInv, AccountTypeOK, Sound, JobInOrder, CompletedMeansGone,
       OnlyAfterGrace, WithCredential, profileVars, jobVars

\* Whatever hides a page keeps the row's type and does not create one.
LEMMA HidingTyped ==
  ASSUME AccountTypeOK
  PROVE  /\ \A s : /\ Hidden(s) \in [exists : BOOLEAN, active : BOOLEAN, reason : Reasons]
                   /\ Hidden(s).active => Hidden(s).exists
                   /\ Hidden(s).exists = creator.exists
         /\ Withdrawn \in [exists : BOOLEAN, active : BOOLEAN, reason : Reasons]
         /\ ~Withdrawn.active /\ Withdrawn.exists = creator.exists
         /\ Purged \in [exists : BOOLEAN, active : BOOLEAN, reason : Reasons]
         /\ ~Purged.active /\ Purged.exists = creator.exists
BY DEF AccountTypeOK, Hidden, Withdrawn, Purged, Reasons

LEMMA RequestsDeletionKeeps ==
  ASSUME AccountsInv, NEW r \in Request, RequestsDeletion(r)
  PROVE  AccountsInv'
BY HidingTyped
   DEF RequestsDeletion, AccountsInv, AccountTypeOK, Sound, JobInOrder, CompletedMeansGone,
       OnlyAfterGrace, WithCredential, jobVars

LEMMA GraceEndsKeeps ==
  ASSUME AccountsInv, NEW r \in Request, GraceEnds(r)
  PROVE  AccountsInv'
BY DEF GraceEnds, Open, AccountsInv, AccountTypeOK, Sound, JobInOrder, CompletedMeansGone,
       OnlyAfterGrace, WithCredential, profileVars, jobVars

LEMMA CancelsDeletionKeeps == AccountsInv /\ CancelsDeletion => AccountsInv'
<1> SUFFICES ASSUME AccountsInv, CancelsDeletion PROVE AccountsInv'
  OBVIOUS
<1>1. /\ creator' \in [exists : BOOLEAN, active : BOOLEAN, reason : Reasons]
      /\ creator'.active => creator'.exists
      /\ creator'.exists = creator.exists
  <2>1. CASE role = "PARTNER" /\ creator.reason = "deletion"
    BY <2>1 DEF CancelsDeletion, AccountsInv, AccountTypeOK, Sound, Reasons
  <2>2. CASE ~(role = "PARTNER" /\ creator.reason = "deletion")
    BY <2>2 DEF CancelsDeletion, AccountsInv, AccountTypeOK
  <2> QED BY <2>1, <2>2
<1>2. /\ request' \in [Request -> {"none", "REQUESTED", "CANCELLED", "COMPLETED"}]
      /\ \A r \in Request : /\ request'[r] = "none" <=> request[r] = "none"
                            /\ request'[r] = "COMPLETED" => request[r] = "COMPLETED"
  BY DEF CancelsDeletion, Open, AccountsInv, AccountTypeOK
<1>3. /\ role' = role /\ standing' = standing /\ personal' = personal
      /\ over' = over /\ asking' = asking /\ due' = due /\ barred' = barred
      /\ credential' = credential /\ signedIn' = signedIn
      /\ driver' = driver /\ keyed' = keyed
  BY DEF CancelsDeletion, jobVars
<1>4. AccountTypeOK'
  BY <1>1, <1>2, <1>3 DEF AccountsInv, AccountTypeOK
<1>5. Sound' /\ JobInOrder'
  BY <1>1, <1>2, <1>3
     DEF AccountsInv, AccountTypeOK, Sound, JobInOrder, WithCredential
<1>6. CompletedMeansGone' /\ OnlyAfterGrace'
  BY <1>2, <1>3 DEF AccountsInv, CompletedMeansGone, OnlyAfterGrace, WithCredential
<1> QED BY <1>4, <1>5, <1>6 DEF AccountsInv

------------------------------------------------------------------------------
(* The operators                                                            *)

LEMMA SetUserRoleKeeps ==
  ASSUME AccountsInv, NEW new \in {"FAN", "PARTNER"}, SetUserRole(new)
  PROVE  AccountsInv'
BY DEF SetUserRole, AccountsInv, AccountTypeOK, Sound, JobInOrder, CompletedMeansGone,
       OnlyAfterGrace, WithCredential, Reasons, deletionVars, jobVars

LEMMA SetAccountStatusKeeps ==
  ASSUME AccountsInv, NEW new \in {"ACTIVE", "SUSPENDED", "INACTIVE"}, SetAccountStatus(new)
  PROVE  AccountsInv'
BY HidingTyped
   DEF SetAccountStatus, AccountsInv, AccountTypeOK, Sound, JobInOrder, CompletedMeansGone,
       OnlyAfterGrace, WithCredential, deletionVars, jobVars

------------------------------------------------------------------------------
(* The purge job                                                            *)

LEMMA PurgeListsKeeps == AccountsInv /\ PurgeLists => AccountsInv'
BY DEF PurgeLists, Listed, Open, AccountsInv, AccountTypeOK, Sound, JobInOrder,
       CompletedMeansGone, OnlyAfterGrace, WithCredential, profileVars, deletionVars

LEMMA BarsUserKeeps ==
  ASSUME AccountsInv, NEW r \in Request, BarsUser(r)
  PROVE  AccountsInv'
BY DEF BarsUser, AccountsInv, AccountTypeOK, Sound, JobInOrder, CompletedMeansGone,
       OnlyAfterGrace, WithCredential, profileVars, deletionVars

LEMMA BarFailsKeeps ==
  ASSUME AccountsInv, NEW r \in Request, BarFails(r)
  PROVE  AccountsInv'
BY DEF BarFails, AfterRefusal, AccountsInv, AccountTypeOK, Sound, JobInOrder,
       CompletedMeansGone, OnlyAfterGrace, WithCredential, profileVars, deletionVars

LEMMA PurgesKeeps ==
  ASSUME AccountsInv, NEW r \in Request, Purges(r)
  PROVE  AccountsInv'
<1>1. r \in over /\ request[r] # "none" /\ (WithCredential => ~credential)
  BY DEF Purges, AccountsInv, AccountTypeOK, Sound, JobInOrder
<1>2. AccountTypeOK'
  BY <1>1, HidingTyped DEF Purges, AccountsInv, AccountTypeOK
<1>3. Sound' /\ JobInOrder'
  BY <1>1, HidingTyped
     DEF Purges, AccountsInv, AccountTypeOK, Sound, JobInOrder, WithCredential
<1>4. CompletedMeansGone' /\ OnlyAfterGrace'
  BY <1>1 DEF Purges, CompletedMeansGone, OnlyAfterGrace, WithCredential
<1> QED BY <1>2, <1>3, <1>4 DEF AccountsInv

LEMMA PurgeFailsKeeps ==
  ASSUME AccountsInv, NEW r \in Request, PurgeFails(r)
  PROVE  AccountsInv'
BY DEF PurgeFails, AccountsInv, AccountTypeOK, Sound, JobInOrder, CompletedMeansGone,
       OnlyAfterGrace, WithCredential, profileVars, deletionVars

LEMMA JobDiesKeeps == AccountsInv /\ JobDies => AccountsInv'
BY DEF JobDies, AccountsInv, AccountTypeOK, Sound, JobInOrder, CompletedMeansGone,
       OnlyAfterGrace, WithCredential, profileVars, deletionVars

------------------------------------------------------------------------------

LEMMA StepKeeps == AccountsInv /\ [Next]_vars => AccountsInv'
<1> SUFFICES ASSUME AccountsInv, [Next]_vars PROVE AccountsInv'
  OBVIOUS
<1>1. CASE Owner
  BY <1>1, SignsInKeeps, TokenLapsesKeeps, CreateProfileKeeps, UpdateProfileKeeps,
     AsksDeletionKeeps, RequestsDeletionKeeps, CancelsDeletionKeeps DEF Owner
<1>2. CASE Operator
  BY <1>2, SetUserRoleKeeps, SetAccountStatusKeeps DEF Operator
<1>3. CASE PurgeJob
  BY <1>3, PurgeListsKeeps, JobDiesKeeps, BarsUserKeeps, BarFailsKeeps, PurgesKeeps,
     PurgeFailsKeeps DEF PurgeJob
<1>4. CASE \E r \in Request : GraceEnds(r)
  BY <1>4, GraceEndsKeeps
<1>5. CASE UNCHANGED vars
  BY <1>5 DEF vars, profileVars, deletionVars, jobVars, AccountsInv, AccountTypeOK, Sound,
     JobInOrder, CompletedMeansGone, OnlyAfterGrace, WithCredential
<1> QED BY <1>1, <1>2, <1>3, <1>4, <1>5 DEF Next

LEMMA AccountsInvariant == Spec => []AccountsInv
BY InitInv, StepKeeps, PTL DEF Spec

\* The rows keep their type: in particular a page that is active exists, and
\* the job never bars two users at once.
THEOREM AccountTypeCorrect == Spec => []AccountTypeOK
<1>1. AccountsInv => AccountTypeOK
  BY DEF AccountsInv
<1> QED BY <1>1, AccountsInvariant, PTL

\* A deletion that is reported completed left nothing in either system,
\* whatever refusals, failures, crashes and cancellations came before.
THEOREM CompletedAlwaysGone == Spec => []CompletedMeansGone
<1>1. AccountsInv => CompletedMeansGone
  BY DEF AccountsInv
<1> QED BY <1>1, AccountsInvariant, PTL

\* Nobody loses profile or credential before some request's grace is over.
THEOREM AlwaysAfterGrace == Spec => []OnlyAfterGrace
<1>1. AccountsInv => OnlyAfterGrace
  BY DEF AccountsInv
<1> QED BY <1>1, AccountsInvariant, PTL
==============================================================================
