--------------------------- MODULE MCPaymentQueue ---------------------------
(* Small instances of PaymentQueue for TLC. *)
EXTENDS PaymentQueue
=============================================================================
