------------------------------ MODULE Vending ------------------------------
(***************************************************************************)
(* What the machine promises a buyer, without requests, rows or invoices:  *)
(* money in, one item out, and the same item again to whoever asks again.  *)
(***************************************************************************)
CONSTANTS Keys,        \* purchases, by idempotency key
          Resources,   \* items
          NoResource

VARIABLES paid,    \* the purchases whose money has arrived
          vended,  \* the item each purchase was given
          told     \* the items each buyer has been handed

vars == <<paid, vended, told>>

Init ==
  /\ paid = {}
  /\ vended = [k \in Keys |-> NoResource]
  /\ told = [k \in Keys |-> {}]

Settle(k) ==
  /\ k \notin paid
  /\ paid' = paid \cup {k}
  /\ UNCHANGED <<vended, told>>

Vend(k, x) ==
  /\ k \in paid
  /\ vended[k] = NoResource
  /\ \A other \in Keys : vended[other] # x
  /\ vended' = [vended EXCEPT ![k] = x]
  /\ UNCHANGED <<paid, told>>

Hand(k) ==
  /\ vended[k] # NoResource
  /\ told' = [told EXCEPT ![k] = {vended[k]}]
  /\ UNCHANGED <<paid, vended>>

Next ==
  \E k \in Keys : Settle(k) \/ Hand(k) \/ \E x \in Resources : Vend(k, x)

Spec == Init /\ [][Next]_vars
=============================================================================
