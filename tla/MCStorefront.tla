---------------------------- MODULE MCStorefront ----------------------------
(***************************************************************************)
(* Instances of Carts for TLC.                                             *)
(***************************************************************************)
EXTENDS Carts, TLC

CONSTANTS c1, c2, r1, r2, p1, p2, usd

MCCarts    == {c1, c2}
MCRequests == {r1, r2}
MCPrices   == {p1, p2}

OneCurrency == [p \in MCPrices |-> usd]

\* Carts, requests and prices are only told apart by what they are used for.
Symmetry == Permutations(MCCarts) \union Permutations(MCRequests) \union Permutations(MCPrices)

=============================================================================
