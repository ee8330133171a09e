----------------------------- MODULE MCPayments -----------------------------
(***************************************************************************)
(* Payments for TLC: one order of two units.  Half of it refunded twice,   *)
(* once without an Idempotency-Key, and a refund of all that remains.      *)
(***************************************************************************)
EXTENDS Payments

CONSTANT Order1

Half(n, keyed) == [id |-> n, on |-> Order1, amount |-> 1, keyed |-> keyed]
Rest(n)        == [id |-> n, on |-> Order1, amount |-> 0, keyed |-> TRUE]

NoRefunds  == {}
TwoRefunds == {Half(1, TRUE), Rest(2)}
TwoHalves  == {Half(1, TRUE), Half(2, FALSE)}
SomeRefunds == {Half(1, TRUE), Half(2, FALSE), Rest(3)}
=============================================================================
