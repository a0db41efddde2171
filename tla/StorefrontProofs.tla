-------------------------- MODULE StorefrontProofs --------------------------
(***************************************************************************)
(* What holds of Storefront for every set of fans.                         *)
(***************************************************************************)
EXTENDS Storefront, TLAPS

\* Only a creator's page is active; a creator's page is approved, or was
\* refused in a final review.
PageFollowsRole ==
  /\ page.active => role = "PARTNER"
  /\ role = "PARTNER" => \/ page.status = "ACTIVE"
                         \/ page.status = "REJECTED_ONBOARDING" /\ application = "REJECTED_FINAL"

\* While a return is under way no waiting fan is handled by another: those it
\* tells and marks still wait, and whom it misses joined after it began.
ReturnInOrder ==
  /\ return.stage = "none" => return = NoReturn
  /\ return.stage = "told" => return.marks = {}
  /\ return.tells \subseteq Waiting /\ return.marks \subseteq Waiting
  /\ return.stage = "told" => Waiting \ return.tells \subseteq overlapped
  /\ return.stage = "marked" =>
       return.tells \subseteq return.marks /\ return.marks \ return.tells \subseteq overlapped

TypeInv == StorefrontTypeOK /\ PageFollowsRole
FanoutInv == StorefrontTypeOK /\ ReturnInOrder /\ OncePerEntry

------------------------------------------------------------------------------
(* The page and the role                                                    *)

LEMMA InitTyped == Init => TypeInv
BY DEF Init, TypeInv, StorefrontTypeOK, PageFollowsRole, Roles, Standings, Checks,
       Applications, PageStates, NoPage, NoReturn, HasPage

\* The steps of the user and of the operators that leave page and lists alone.
ReviewStep ==
  \/ SubmitApplication \/ SubmitKyc \/ SubmitForReview
  \/ \E b \in BOOLEAN : DecideKyc(b) \/ ReviewApplication(b)

LEMMA ReviewTyped == TypeInv /\ ReviewStep => TypeInv'
BY DEF ReviewStep, SubmitApplication, SubmitKyc, SubmitForReview, DecideKyc,
       ReviewApplication, TypeInv, StorefrontTypeOK, PageFollowsRole, Checks,
       Applications, HasPage, listVars

\* The steps that concern the waiting list alone.
ListStep ==
  BeginsReturn \/ MarksNotified \/ ReturnFails \/ \E f \in Fan : JoinWaitlist(f)

LEMMA ListTyped == TypeInv /\ ListStep => TypeInv'
<1> SUFFICES ASSUME TypeInv, ListStep PROVE TypeInv'
  OBVIOUS
<1>1. CASE BeginsReturn
  BY <1>1 DEF BeginsReturn, ToTell, Waiting, TypeInv, StorefrontTypeOK, PageFollowsRole,
     HasPage, userVars
<1>2. CASE MarksNotified
  BY <1>2 DEF MarksNotified, Waiting, TypeInv, StorefrontTypeOK, PageFollowsRole,
     HasPage, userVars
<1>3. CASE ReturnFails
  BY <1>3 DEF ReturnFails, NoReturn, TypeInv, StorefrontTypeOK, PageFollowsRole,
     HasPage, userVars
<1>4. ASSUME NEW f \in Fan, JoinWaitlist(f) PROVE TypeInv'
  BY <1>4 DEF JoinWaitlist, TypeInv, StorefrontTypeOK, PageFollowsRole, HasPage, userVars
<1> QED BY <1>1, <1>2, <1>3, <1>4 DEF ListStep

LEMMA PageTyped ==
  ASSUME TypeInv,
         GoesAway \/ CommitsReturn \/ \E b \in BOOLEAN : CompletesPage(b)
  PROVE  TypeInv'
<1>1. CASE GoesAway
  BY <1>1 DEF GoesAway, TypeInv, StorefrontTypeOK, PageFollowsRole, HasPage, userVars, listVars
<1>2. CASE CommitsReturn
  <2>1. /\ page' \in [status : PageStates, active : BOOLEAN, away : BOOLEAN, complete : BOOLEAN]
        /\ page'.status = page.status /\ page'.active = page.active
    BY <1>2 DEF CommitsReturn, TypeInv, StorefrontTypeOK
  <2>2. ~page'.away /\ page'.complete = page.complete
    BY <1>2 DEF CommitsReturn, TypeInv, StorefrontTypeOK
  <2>3. /\ entry' \in [Fan -> {"none", "WAITING", "NOTIFIED"}]
        /\ told' \in [Fan -> Nat]
        /\ return' \in [stage : {"none", "told", "marked"}, tells : SUBSET Fan, marks : SUBSET Fan]
    BY <1>2 DEF CommitsReturn, TypeInv, StorefrontTypeOK, NoReturn
  <2> QED
    BY <1>2, <2>1, <2>2, <2>3 DEF CommitsReturn, TypeInv, StorefrontTypeOK, PageFollowsRole,
       HasPage, userVars
<1>3. ASSUME NEW b \in BOOLEAN, CompletesPage(b) PROVE TypeInv'
  BY <1>3 DEF CompletesPage, TypeInv, StorefrontTypeOK, PageFollowsRole, HasPage,
     userVars, listVars
<1> QED BY <1>1, <1>2, <1>3

LEMMA RoleTyped ==
  ASSUME TypeInv, NEW new \in Roles, SetUserRole(new)
  PROVE  TypeInv'
<1>1. CASE new = "PARTNER"
  BY <1>1 DEF SetUserRole, Promoted, TypeInv, StorefrontTypeOK, PageFollowsRole, HasPage,
     Roles, PageStates, listVars
<1>2. CASE new = "FAN" /\ HasPage
  BY <1>2 DEF SetUserRole, Demoted, TypeInv, StorefrontTypeOK, PageFollowsRole, HasPage,
     Roles, PageStates, listVars
<1>3. CASE new = "FAN" /\ ~HasPage
  BY <1>3 DEF SetUserRole, Demoted, TypeInv, StorefrontTypeOK, PageFollowsRole, HasPage,
     Roles, PageStates, NoPage, listVars
<1> QED BY <1>1, <1>2, <1>3 DEF Roles

LEMMA StandingTyped ==
  ASSUME TypeInv, NEW new \in Standings, SetAccountStatus(new)
  PROVE  TypeInv'
<1>1. CASE role = "PARTNER" /\ new # "ACTIVE"
  BY <1>1 DEF SetAccountStatus, TypeInv, StorefrontTypeOK, PageFollowsRole, HasPage,
     NoPage, listVars
<1>2. CASE ~(role = "PARTNER" /\ new # "ACTIVE")
  BY <1>2 DEF SetAccountStatus, TypeInv, StorefrontTypeOK, PageFollowsRole, HasPage, listVars
<1> QED BY <1>1, <1>2

LEMMA FinalTyped ==
  ASSUME TypeInv, FinalApprove \/ FinalReject
  PROVE  TypeInv'
<1>1. CASE FinalApprove
  BY <1>1 DEF FinalApprove, TypeInv, StorefrontTypeOK, PageFollowsRole, HasPage,
     Checks, Applications, PageStates, listVars
<1>2. CASE FinalReject
  BY <1>2 DEF FinalReject, TypeInv, StorefrontTypeOK, PageFollowsRole, HasPage,
     Applications, PageStates, listVars
<1> QED BY <1>1, <1>2

LEMMA StepTyped == TypeInv /\ [Next]_vars => TypeInv'
<1> SUFFICES ASSUME TypeInv, [Next]_vars PROVE TypeInv'
  OBVIOUS
<1>1. CASE ReviewStep \/ ListStep
  BY <1>1, ReviewTyped, ListTyped
<1>2. CASE GoesAway \/ CommitsReturn \/ \E b \in BOOLEAN : CompletesPage(b)
  BY <1>2, PageTyped
<1>3. CASE \/ \E new \in Roles : SetUserRole(new)
           \/ \E new \in Standings : SetAccountStatus(new)
           \/ FinalApprove \/ FinalReject
  BY <1>3, RoleTyped, StandingTyped, FinalTyped
<1>4. CASE UNCHANGED vars
  BY <1>4 DEF vars, userVars, listVars, TypeInv, StorefrontTypeOK, PageFollowsRole, HasPage
<1> QED BY <1>1, <1>2, <1>3, <1>4 DEF Next, User, Operator, ReviewStep, ListStep

LEMMA TypeInvariant == Spec => []TypeInv
BY InitTyped, StepTyped, PTL DEF Spec

------------------------------------------------------------------------------
(* The waiting list                                                         *)

LEMMA InitFanout == Init => ReturnInOrder /\ OncePerEntry
BY DEF Init, ReturnInOrder, OncePerEntry, NoReturn, Waiting

\* A step that leaves the lists alone leaves the fan-out in order.
LEMMA FanoutFrame ==
  ASSUME FanoutInv, UNCHANGED listVars
  PROVE  (ReturnInOrder /\ OncePerEntry)'
BY DEF FanoutInv, ReturnInOrder, OncePerEntry, Waiting, NoReturn, listVars

LEMMA BeginsInOrder == FanoutInv /\ BeginsReturn => (ReturnInOrder /\ OncePerEntry)'
BY DEF FanoutInv, StorefrontTypeOK, ReturnInOrder, OncePerEntry, BeginsReturn, ToTell,
       Waiting, NoReturn

LEMMA MarksInOrder == FanoutInv /\ MarksNotified => (ReturnInOrder /\ OncePerEntry)'
BY DEF FanoutInv, StorefrontTypeOK, ReturnInOrder, OncePerEntry, MarksNotified,
       Waiting, NoReturn

LEMMA FailsInOrder == FanoutInv /\ ReturnFails => (ReturnInOrder /\ OncePerEntry)'
BY DEF FanoutInv, ReturnInOrder, OncePerEntry, ReturnFails, Waiting, NoReturn

LEMMA JoinsInOrder ==
  ASSUME FanoutInv, NEW f \in Fan, JoinWaitlist(f)
  PROVE  (ReturnInOrder /\ OncePerEntry)'
<1>1. Waiting' = Waiting \cup {f} /\ UNCHANGED <<return, told>>
  BY DEF FanoutInv, StorefrontTypeOK, JoinWaitlist, Waiting
<1>2. overlapped \subseteq overlapped' /\ (return.stage # "none" => f \in overlapped')
  BY DEF JoinWaitlist, Unlocked
<1>3. ReturnInOrder'
  BY <1>1, <1>2 DEF FanoutInv, ReturnInOrder, NoReturn
<1>4. OncePerEntry'
  BY <1>1, <1>2 DEF FanoutInv, StorefrontTypeOK, OncePerEntry, JoinWaitlist
<1> QED BY <1>3, <1>4

LEMMA CommitsInOrder == FanoutInv /\ CommitsReturn => (ReturnInOrder /\ OncePerEntry)'
<1> SUFFICES ASSUME FanoutInv, CommitsReturn PROVE (ReturnInOrder /\ OncePerEntry)'
  OBVIOUS
<1>1. ReturnInOrder'
  BY DEF CommitsReturn, ReturnInOrder, NoReturn, Waiting
<1>2. ASSUME NEW f \in Fan
      PROVE  /\ told'[f] <= 1
             /\ told'[f] = 1 => entry'[f] = "NOTIFIED"
             /\ entry'[f] = "NOTIFIED" /\ told'[f] = 0 => f \in overlapped
  <2>1. CASE f \in return.marks
    <3>1. entry[f] = "WAITING" /\ told[f] = 0
      BY <2>1 DEF FanoutInv, StorefrontTypeOK, ReturnInOrder, OncePerEntry, Waiting
    <3>2. f \in return.tells \/ f \in overlapped
      BY <2>1 DEF FanoutInv, ReturnInOrder, CommitsReturn
    <3> QED BY <2>1, <3>1, <3>2 DEF CommitsReturn
  <2>2. CASE f \notin return.marks
    <3>1. f \notin return.tells
      BY <2>2 DEF FanoutInv, ReturnInOrder, CommitsReturn
    <3> QED BY <2>2, <3>1 DEF CommitsReturn, FanoutInv, OncePerEntry
  <2> QED BY <2>1, <2>2
<1>3. OncePerEntry'
  BY <1>2 DEF OncePerEntry, CommitsReturn
<1> QED BY <1>1, <1>3

LEMMA StepInOrder ==
  ASSUME TypeInv, ReturnInOrder /\ OncePerEntry, [Next]_vars
  PROVE  (ReturnInOrder /\ OncePerEntry)'
<1>1. FanoutInv
  BY DEF TypeInv, FanoutInv
<1>2. CASE UNCHANGED listVars
  BY <1>1, <1>2, FanoutFrame
<1>3. CASE BeginsReturn \/ MarksNotified \/ ReturnFails \/ CommitsReturn
  BY <1>1, <1>3, BeginsInOrder, MarksInOrder, FailsInOrder, CommitsInOrder
<1>4. CASE \E f \in Fan : JoinWaitlist(f)
  BY <1>1, <1>4, JoinsInOrder
<1> QED
  BY <1>2, <1>3, <1>4
     DEF Next, User, Operator, vars, SubmitApplication, SubmitKyc, SubmitForReview,
         CompletesPage, GoesAway, SetUserRole, SetAccountStatus, DecideKyc,
         ReviewApplication, FinalApprove, FinalReject

------------------------------------------------------------------------------

\* The rows keep their type, and without a page none of its flags is set.
THEOREM StorefrontTypeCorrect == Spec => []StorefrontTypeOK
<1>1. TypeInv => StorefrontTypeOK
  BY DEF TypeInv
<1> QED BY <1>1, TypeInvariant, PTL

\* Discovery shows creators only, after any series of promotions, demotions,
\* suspensions and reviews.
THEOREM AlwaysListedIsCreator == Spec => []ListedIsCreator
<1>1. TypeInv => ListedIsCreator
  BY DEF TypeInv, PageFollowsRole, ListedIsCreator, Listed
<1> QED BY <1>1, TypeInvariant, PTL

\* No creator's client is sent to a screen of the onboarding.
THEOREM CreatorAlwaysSettled == Spec => []CreatorIsSettled
<1>1. TypeInv => CreatorIsSettled
  BY DEF TypeInv, PageFollowsRole, CreatorIsSettled, Lifecycle
<1> QED BY <1>1, TypeInvariant, PTL

\* However many fans wait and however often a return fails or is repeated, an
\* entry brings one notification, or none if it was made during a return.
THEOREM AlwaysOncePerEntry == Spec => []OncePerEntry
<1>1. Spec => [](ReturnInOrder /\ OncePerEntry)
  BY InitFanout, StepInOrder, TypeInvariant, PTL DEF Spec
<1>2. ReturnInOrder /\ OncePerEntry => OncePerEntry
  OBVIOUS
<1> QED BY <1>1, <1>2, PTL
==============================================================================
