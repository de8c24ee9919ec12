------------------------------ MODULE Metered ------------------------------
(***************************************************************************)
(* What every capability of the machine promises: a number of uses fixed   *)
(* at the purchase, spent one at a time, and an end after which there is   *)
(* never another one.  It neither comes back to life nor regains a use.    *)
(***************************************************************************)
EXTENDS Naturals

CONSTANT Limit \* the uses that were paid for

VARIABLES
  used,  \* uses spent
  spent, \* no further use although its life goes on
  ended  \* expired or destroyed

vars == <<used, spent, ended>>

Init == used = 0 /\ ~spent /\ ~ended

Use ==
  /\ ~spent /\ ~ended /\ used < Limit
  /\ used' = used + 1
  /\ spent' \in (IF used' = Limit THEN {TRUE} ELSE BOOLEAN)
  /\ UNCHANGED ended

Exhaust ==
  /\ ~spent /\ spent'
  /\ UNCHANGED <<used, ended>>

End ==
  /\ ~ended /\ ended'
  /\ spent' \in {spent, TRUE}
  /\ UNCHANGED used

Next == Use \/ Exhaust \/ End

Spec == Init /\ [][Next]_vars
=============================================================================
