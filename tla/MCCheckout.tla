----------------------------- MODULE MCCheckout -----------------------------
(* Small instances of Checkout.  Attempts and keys are interchangeable. *)
EXTENDS Checkout, TLC

Interchangeable ==
  Permutations(Attempts) \union Permutations(Keys)

\* A request that was refused, or whose customer got no answer, is never read
\* again: states that differ in what it asked for only are the same.
Remembered ==
  <<[a \in Attempts |-> IF attempt[a].pc = "done" /\ attempt[a].answer = Nobody
                           THEN [pc |-> "done"] ELSE attempt[a]],
    order, record, cart, group>>
=============================================================================
