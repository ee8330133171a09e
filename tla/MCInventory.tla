---------------------------- MODULE MCInventory ----------------------------
(***************************************************************************)
(* Instances of Inventory for TLC.  The groups run has three items, two of *)
(* them one sku in two warehouses, and no adjustments; the adjustments run *)
(* has one item, a request of its seller and fewer reservations.           *)
(***************************************************************************)
EXTENDS Inventory, TLC, FiniteSetsExt

OneItem == {1}
ThreeItems == {1, 2, 3}
TwoWarehouses == [i \in Items |-> IF i = 3 THEN "b" ELSE "a"]

\* Ids of rows and groups are interchangeable.
Ids == Permutations(Reservations) \union Permutations(Groups)

\* Total is the sum it is meant to be.
ASSUME TotalIsTheSum ==
  \A f \in [1 .. 3 -> 0 .. 2] : Total(1 .. 3, f) = MapThenSumSet(LAMBDA x : f[x], 1 .. 3)
=============================================================================
