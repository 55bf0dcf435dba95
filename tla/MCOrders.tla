------------------------------ MODULE MCOrders ------------------------------
(***************************************************************************)
(* Instances of Orders for TLC.                                            *)
(***************************************************************************)
EXTENDS Orders, TLC

CONSTANTS t1, t2, k1, k2

Request(n, t, k) == [id |-> n, tenant |-> t, key |-> k]

\* A request, its retry, and an order of another customer of the same shop.
RetryAndRival == {Request(1, t1, k1), Request(2, t1, k1), Request(3, t1, k2)}

=============================================================================
