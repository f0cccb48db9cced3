----------------------------- MODULE MCCheckout -----------------------------
(* One student, who pays, and one accountant.                              *)
EXTENDS Checkout

CONSTANTS s1, p1, p2, p3, accountant1
=============================================================================
