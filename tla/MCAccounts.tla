----------------------------- MODULE MCAccounts -----------------------------
(***************************************************************************)
(* Instances of Profiles, and with it Auth, for TLC.                       *)
(***************************************************************************)
EXTENDS Profiles, TLC

CONSTANTS u1, slug, p1, p2, t1, t2, s1, s2, s3, r1, r2, q1, q2, a1, a2, k1, k2

MCPasswords == {p1, p2}
MCTokens    == {t1, t2}
MCSessions  == {s1, s2, s3}
MCRequests  == {r1, r2}
MCEdits     == {q1, q2}
MCAddresses == {a1, a2}
MCKeys      == {k1, k2}

\* Requests and keys are only told apart by what they are used for.
Symmetry == Permutations(MCRequests) \union Permutations(MCEdits) \union Permutations(MCKeys)

=============================================================================
