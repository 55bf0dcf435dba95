--------------------------- MODULE MCSubscriptions ---------------------------
(***************************************************************************)
(* An instance of Subscriptions for TLC.                                   *)
(***************************************************************************)
EXTENDS Subscriptions

CONSTANTS t1, pro, trial, estoque, g1, p1, p2

=============================================================================
