----------------------------- MODULE MCPayments -----------------------------
(* Payments on a small instance.  Requests are interchangeable; references   *)
(* are not when one of them is of an unquoted currency.                      *)
EXTENDS PaymentInvariant, TLC

Symmetry == Permutations(Request)

=============================================================================
