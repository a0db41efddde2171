---------------------------- MODULE TopupPromise ----------------------------
(***************************************************************************)
(* What a top-up promises: a payment that was taken is credited to the     *)
(* wallet, once, for the amount the fan was to receive.                    *)
(***************************************************************************)
EXTENDS Naturals

CONSTANTS Order, Credit

VARIABLES
  paid,      \* orders whose payment was captured
  credited,  \* orders the wallet has received
  received   \* what it received for all of them, in paise

vars == <<paid, credited, received>>

Init == paid = {} /\ credited = {} /\ received = 0

TakePayment(o) ==
  /\ o \notin paid
  /\ paid' = paid \cup {o}
  /\ UNCHANGED <<credited, received>>

CreditWallet(o) ==
  /\ o \in paid \ credited
  /\ credited' = credited \cup {o}
  /\ received' = received + Credit[o]
  /\ UNCHANGED paid

Spec ==
  /\ Init
  /\ [][\E o \in Order : TakePayment(o) \/ CreditWallet(o)]_vars
  /\ \A o \in Order : WF_vars(CreditWallet(o))
==============================================================================
