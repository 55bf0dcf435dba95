----------------------------- MODULE MCOrderViews -----------------------------
(***************************************************************************)
(* Instances of OrderViews for TLC.                                        *)
(***************************************************************************)
EXTENDS OrderViews, TLC

CONSTANTS o1, p1, p2, p3

=============================================================================
