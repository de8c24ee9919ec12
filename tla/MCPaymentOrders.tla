-------------------------- MODULE MCPaymentOrders --------------------------
(* Finite instances of PaymentOrders: slots of the same set are alike.     *)
EXTENDS PaymentOrders, TLC

Symmetry == Permutations(Keys) \cup Permutations(Requests)
              \cup Permutations(Invoices) \cup Permutations(Resources)
              \cup Permutations(Protocols)
=============================================================================
