-------------------------- MODULE ReservationGroups --------------------------
(***************************************************************************)
(* What Inventory promises the checkout about a reservation group, whoever *)
(* else is at work on its rows (the expiry sweep, the single-reservation   *)
(* endpoints): the contract Order programs against.                        *)
(*                                                                         *)
(* A group is a set of reservation rows created together.  Its phase is    *)
(*   none       not created                                                *)
(*   active     every row ACTIVE                                           *)
(*   mixed      some rows ACTIVE, some resolved                            *)
(*   committed  every row COMMITTED                                        *)
(*   released   every row RELEASED                                         *)
(*   dead       no row ACTIVE, and not all resolved the same way or all    *)
(*              EXPIRED                                                    *)
(* told[g] is the set of the positive answers given for the group: "held"  *)
(* (reserve), "committed", "released".                                     *)
(***************************************************************************)
CONSTANT Groups
VARIABLES phase, told

Phases  == {"none", "active", "mixed", "committed", "released", "dead"}
Answers == {"held", "committed", "released"}

\* Where a phase may go when rows are resolved one at a time or by expiry.
Erosion == [p \in Phases |->
              CASE p = "active" -> {"active", "mixed", "committed", "released", "dead"}
                [] p = "mixed"  -> {"mixed", "committed", "released", "dead"}
                [] OTHER        -> {p}]

\* The caller gets a positive answer about the group.
Answered(g, a) == told' = [told EXCEPT ![g] = @ \union {a}]

-----------------------------------------------------------------------------
Init == /\ phase = [g \in Groups |-> "none"]
        /\ told  = [g \in Groups |-> {}]

\* All the rows of a new group are created, or none is.
Reserve(g) == /\ phase[g] = "none"
              /\ phase' = [phase EXCEPT ![g] = "active"]
              /\ Answered(g, "held")

\* A replayed reservation answers with the group it made, whatever became of it.
Replay(g) == /\ phase[g] # "none"
             /\ Answered(g, "held")
             /\ UNCHANGED phase

\* Commit and release act on the whole of an active group; an answer to a
\* repeated call changes nothing.
Complete(g, a) == /\ phase[g] \in {"active", a}
                  /\ phase' = [phase EXCEPT ![g] = a]
                  /\ Answered(g, a)

Commit(g)  == Complete(g, "committed")
Release(g) == Complete(g, "released")

\* Rows resolve without an answer about their group: the sweep, a commit that
\* finds the group expired, the single-reservation endpoints.
Erode(G) == /\ phase' \in {f \in [Groups -> Phases] : \A g \in Groups :
                              f[g] \in IF g \in G THEN Erosion[phase[g]] ELSE {phase[g]}}
            /\ UNCHANGED told

Next == \/ \E g \in Groups : Reserve(g) \/ Replay(g) \/ Commit(g) \/ Release(g)
        \/ \E G \in SUBSET Groups : Erode(G)

Spec == Init /\ [][Next]_<<phase, told>>
=============================================================================
