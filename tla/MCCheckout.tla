----------------------------- MODULE MCCheckout -----------------------------
(* Finite instances of Checkout.                                           *)
EXTENDS Checkout
=============================================================================
