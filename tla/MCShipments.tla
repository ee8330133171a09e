---------------------------- MODULE MCShipments -----------------------------
(***************************************************************************)
(* Shipments for TLC: requests in progress are interchangeable.            *)
(***************************************************************************)
EXTENDS Shipments, TLC

Requesters == Permutations(Calls) \union Permutations(Clerks)
=============================================================================
