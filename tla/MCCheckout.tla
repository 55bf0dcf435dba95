------------------------------ MODULE MCCheckout ------------------------------
(***************************************************************************)
(* Instances of Checkout for TLC.                                          *)
(***************************************************************************)
EXTENDS Checkout, TLC

CONSTANTS alice, bob, pizza, shop

=============================================================================
