------------------------------ MODULE MCOrders ------------------------------
(***************************************************************************)
(* Orders for TLC: the requests in progress are interchangeable.           *)
(***************************************************************************)
EXTENDS Orders, TLC

Requesters == Permutations(Calls)
=============================================================================
