------------------------------ MODULE MCSessions ------------------------------
(***************************************************************************)
(* Instances of Sessions for TLC.  Requests and updates are interchangeable:*)
(* nothing of Sessions tells them apart.                                   *)
(***************************************************************************)
EXTENDS Sessions, TLC

CONSTANTS ana, dono, r1, r2, r3, r4, u1, u2

Interchangeable == Permutations(Requests) \cup Permutations(Updates)

=============================================================================
