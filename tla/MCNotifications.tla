-------------------------- MODULE MCNotifications --------------------------
(***************************************************************************)
(* Notifications for TLC: one e-mail at a time is enough for what its      *)
(* senders, its tasks and its operators do to each other.                  *)
(***************************************************************************)
EXTENDS Notifications, Integers

\* No step reads how many messages the provider took, and the properties only
\* whether it was one more than went unheard: states that agree on that go on
\* in the same way.
Counted ==
  <<row, attempts, unqueued, queue, sender, [n \in Emails |-> accepted[n] - unheard[n]],
    byHand, asked, faults>>
=============================================================================
