---------------------------- MODULE MCOrderStatus ----------------------------
(***************************************************************************)
(* Instances of OrderStatus for TLC.                                       *)
(***************************************************************************)
EXTENDS OrderStatus, TLC

CONSTANTS o1, o2, p1, p2, p3

=============================================================================
