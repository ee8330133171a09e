------------------------------- MODULE Totals -------------------------------
(***************************************************************************)
(* Sums of quantities over finite sets, by counting.                       *)
(*                                                                         *)
(* The services keep sums incrementally (reserved_quantity, refunded       *)
(* amount) next to the rows the sum is made of.  Total(S, f) is the sum of *)
(* f[x] over x \in S, defined as the number of units <<x, 1>>, ...,        *)
(* <<x, f[x]>>: adding and removing rows is then union and difference of   *)
(* sets, which the facts about Cardinality let a proof reason about.       *)
(***************************************************************************)
EXTENDS Integers, FiniteSets

\* The units the members of S contribute, each tagged with its member.
Units(S, f) == UNION {{x} \X (1 .. f[x]) : x \in S}

\* The sum of f[x] over x \in S.
Total(S, f) == Cardinality(Units(S, f))
=============================================================================
