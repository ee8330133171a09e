------------------------------ MODULE Payments ------------------------------
(***************************************************************************)
(* Payment service over Order service: creating the payment of an order,   *)
(* the webhook for what Stripe reports about it, and refunds.              *)
(*                                                                         *)
(* The webhook handler keeps the payment row locked while it calls Order   *)
(* and commits only after Order accepted, so at most one is at work on an  *)
(* order: hook[o].  When Order refuses or does not answer it rolls back,   *)
(* the event stays unprocessed, and Stripe sends it again; a request to    *)
(* Order that it stopped waiting for runs on there.  A refund is the other *)
(* way round: money moves at Stripe, the refund is committed, and only     *)
(* then is Order told, whatever it answers.                                *)
(*                                                                         *)
(* Stripe (external): an intent can be confirmed once the buyer has its    *)
(* client_secret; a declined attempt is reported and may be followed by    *)
(* one that succeeds; events arrive in any order, any number of times.     *)
(***************************************************************************)
EXTENDS Orders, FiniteSets

CONSTANTS
  Refunds,    \* refund requests: [id, on : order, amount : 0 if omitted, keyed]
  MaxDeclines, \* bound on the attempts to pay that the bank declines
  MaxFaults   \* bound on the calls that fail or are given up

ASSUME RefundsAssumption ==
  \A r \in Refunds : r.on \in Orders /\ r.amount \in 0 .. Total /\ r.keyed \in BOOLEAN
ASSUME FaultsAssumption == MaxDeclines \in Nat /\ MaxFaults \in Nat

VARIABLES
  payment,    \* the row: status ("none" before it exists), sum of its refunds
  intent,     \* the PaymentIntent at Stripe
  returned,   \* money Stripe has given back on the intent
  moved,      \* refund requests Stripe carried out
  sent,       \* events Stripe sends
  done,       \* webhook_events
  hook,       \* the webhook handler at work on an order, and its request
  refund,     \* the refund requests: where they are, the total they report
  faults

money    == <<payment, intent, returned, moved, sent, done, hook, refund, faults>>
allVars  == <<vars, money>>

NoHook   == [pc |-> "idle"]

\* An event: the order, the callback it leads to, the attempt it is about.
Events   == [on : Orders, op : PaymentOps, attempt : 0 .. MaxDeclines]
EventsOf(o, op) == {e \in Events : e.on = o /\ e.op = op}

Settled  == {"succeeded", "partially_refunded", "refunded"}
Verdict  == [authorized |-> "succeeded", failed |-> "failed"]

-----------------------------------------------------------------------------
\* Mutant: refunds read the payment without FOR UPDATE.
HookedOnly(o) == hook[o] # NoHook

PaymentLocked(o) ==
  \/ hook[o] # NoHook
  \/ \E r \in Refunds : r.on = o /\ refund[r].pc \in {"stripe", "record"}

\* Some handler of Payment waits for this request to Order.
Awaited(h) == \E o \in Orders : hook[o] # NoHook /\ hook[o].call = h

Remaining(o) == Total - payment[o].refunded

AmountOf(r) == IF r.amount = 0 THEN Remaining(r.on) ELSE r.amount

-----------------------------------------------------------------------------
PaymentsInit ==
  /\ Init
  /\ payment  = [o \in Orders |-> [status |-> "none", refunded |-> 0]]
  /\ intent   = [o \in Orders |-> "none"]
  /\ returned = [o \in Orders |-> 0]
  /\ moved    = {}
  /\ sent     = {}
  /\ done     = {}
  /\ hook     = [o \in Orders |-> NoHook]
  /\ refund   = [r \in Refunds |-> [pc |-> "new", total |-> 0]]
  /\ faults   = 0

\* create_payment asks Order for the order's state, then creates the intent.
CreateIntent(o) ==
  /\ payment[o].status = "none"
  /\ intent[o] = "none"
  /\ order[o].status = "pending_payment"
  /\ intent' = [intent EXCEPT ![o] = "created"]
  /\ UNCHANGED <<vars, payment, returned, moved, sent, done, hook, refund, faults>>

\* The row is committed, then the buyer is given the client_secret.
CreatePayment(o) ==
  /\ intent[o] = "created"
  /\ payment' = [payment EXCEPT ![o].status = "pending"]
  /\ intent' = [intent EXCEPT ![o] = "open"]
  /\ UNCHANGED <<vars, returned, moved, sent, done, hook, refund, faults>>

\* The buyer's bank declines, or the money is taken.
StripeDeclines(o) ==
  /\ intent[o] = "open"
  /\ \E e \in EventsOf(o, "failed") :
       /\ e.attempt = 1 + Cardinality(sent \intersect EventsOf(o, "failed"))
       /\ sent' = sent \union {e}
  /\ UNCHANGED <<vars, payment, intent, returned, moved, done, hook, refund, faults>>

StripeCaptures(o) ==
  /\ intent[o] = "open"
  /\ intent' = [intent EXCEPT ![o] = "captured"]
  /\ sent' = sent \union {[on |-> o, op |-> "authorized", attempt |-> 0]}
  /\ UNCHANGED <<vars, payment, returned, moved, done, hook, refund, faults>>

-----------------------------------------------------------------------------
\* Mutant: an event is recorded before it is acted upon.
RecordedEarly(e) == done \union {e}

RecordedNow(e) == done

\* Mutant: the webhook commits before it calls Order.
AsksAfterCommit(e) == [payment EXCEPT ![e.on].status = Verdict[e.op]]

WhileAsking(e) == payment

\* An event that is new, and not what the payment says already.
HookStart(e, h) ==
  /\ e \in sent \ done
  /\ ~PaymentLocked(e.on)
  /\ payment[e.on].status # Verdict[e.op]
  /\ Ask(h, e.op, e.on, 0)
  /\ hook' = [hook EXCEPT ![e.on] = [pc |-> "waits", event |-> e, call |-> h]]
  /\ done' = RecordedNow(e)
  /\ payment' = WhileAsking(e)
  /\ UNCHANGED <<intent, returned, moved, sent, refund, faults>>

HookSkips(e) ==
  /\ e \in sent \ done
  /\ ~PaymentLocked(e.on)
  /\ payment[e.on].status = Verdict[e.op]
  /\ done' = done \union {e}
  /\ UNCHANGED <<vars, payment, intent, returned, moved, sent, hook, refund, faults>>

\* Mutant: an answer that says no is taken for a yes.
Answer(h) == call[h].pc \in {"ok", "refused"}

Accepted(h) == call[h].pc = "ok"

HookCommits(o) ==
  LET w == hook[o] IN
  /\ w # NoHook
  /\ Accepted(w.call)
  /\ Return(w.call)
  /\ payment' = [payment EXCEPT ![o].status = Verdict[w.event.op]]
  /\ done' = done \union {w.event}
  /\ hook' = [hook EXCEPT ![o] = NoHook]
  /\ UNCHANGED <<intent, returned, moved, sent, refund, faults>>

HookRollsBack(o) ==
  /\ hook[o] # NoHook
  /\ call[hook[o].call].pc \in Failed
  /\ hook' = [hook EXCEPT ![o] = NoHook]
  /\ UNCHANGED <<vars, payment, intent, returned, moved, sent, done, refund, faults>>

\* The request times out, the answer is lost, or Payment stops.
HookGivesUp(o) ==
  /\ hook[o] # NoHook
  /\ call[hook[o].call].pc \notin Failed
  /\ faults < MaxFaults
  /\ faults' = faults + 1
  /\ hook' = [hook EXCEPT ![o] = NoHook]
  /\ UNCHANGED <<vars, payment, intent, returned, moved, sent, done, refund>>

-----------------------------------------------------------------------------
RefundStart(r) ==
  /\ refund[r].pc = "new"
  /\ ~PaymentLocked(r.on)
  /\ payment[r.on].status \in {"succeeded", "partially_refunded"}
  /\ AmountOf(r) <= Remaining(r.on)
  /\ refund' = [refund EXCEPT ![r].pc = "stripe"]
  /\ UNCHANGED <<vars, payment, intent, returned, moved, sent, done, hook, faults>>

\* A request Stripe has seen with its key moves no money again.
StripeRefunds(r) ==
  LET rest == Total - returned[r.on]
      sum  == IF r.amount = 0 THEN rest ELSE r.amount IN
  /\ refund[r].pc = "stripe"
  /\ \/ r \in moved /\ UNCHANGED <<returned, moved>>
     \/ /\ r \notin moved
        /\ sum \in 1 .. rest
        /\ returned' = [returned EXCEPT ![r.on] = @ + sum]
        /\ moved' = moved \union {r}
  /\ refund' = [refund EXCEPT ![r].pc = "record"]
  /\ UNCHANGED <<vars, payment, intent, sent, done, hook, faults>>

RefundCommits(r) ==
  LET o == r.on  total == payment[o].refunded + AmountOf(r) IN
  /\ refund[r].pc = "record"
  /\ payment' = [payment EXCEPT ![o] =
       [status   |-> IF AmountOf(r) = Remaining(o) THEN "refunded" ELSE "partially_refunded",
        refunded |-> total]]
  /\ refund' = [refund EXCEPT ![r] = [pc |-> "notify", total |-> total]]
  /\ UNCHANGED <<vars, intent, returned, moved, sent, done, hook, faults>>

\* Stripe refuses, or the transaction fails on either side of Stripe's refund.
\* The request can be repeated as the same one only if it carried a key.
RefundFails(r) ==
  /\ refund[r].pc \in {"stripe", "record"}
  /\ refund' = [refund EXCEPT ![r].pc = IF r.keyed THEN "new" ELSE "done"]
  /\ UNCHANGED <<vars, payment, intent, returned, moved, sent, done, hook, faults>>

\* Mutant: Order is told the amount of the payment.
WholePayment(r) == Total

Reported(r) == refund[r].total

\* Whatever Order answers is ignored.
RefundNotifies(r, h) ==
  /\ refund[r].pc = "notify"
  /\ Ask(h, "refunded", r.on, Reported(r))
  /\ refund' = [refund EXCEPT ![r].pc = "done"]
  /\ UNCHANGED <<payment, intent, returned, moved, sent, done, hook, faults>>

\* Order cannot be reached, or Payment stops before it tried.
RefundNotReported(r) ==
  /\ refund[r].pc = "notify"
  /\ refund' = [refund EXCEPT ![r].pc = "unreported"]
  /\ UNCHANGED <<vars, payment, intent, returned, moved, sent, done, hook, faults>>

-----------------------------------------------------------------------------
Webhook(o) == \/ HookCommits(o) \/ HookRollsBack(o) \/ HookGivesUp(o)
              \/ \E e \in {e \in sent : e.on = o} : \/ HookSkips(e)
                                                   \/ \E h \in Calls : HookStart(e, h)

Refund(r) == \/ RefundStart(r) \/ StripeRefunds(r) \/ RefundCommits(r) \/ RefundFails(r)
             \/ RefundNotReported(r) \/ \E h \in Calls : RefundNotifies(r, h)

Stripe(o) == StripeDeclines(o) \/ StripeCaptures(o)

OrderSteps(h) == /\ \/ Proceed(h)
                    \/ Return(h) /\ ~Awaited(h)
                 /\ UNCHANGED money

OrderFails(h) == /\ Fail(h)
                 /\ faults < MaxFaults
                 /\ faults' = faults + 1
                 /\ UNCHANGED <<payment, intent, returned, moved, sent, done, hook, refund>>

Others(h) == (Customer(h) \/ Shipping(h)) /\ UNCHANGED money

PaymentsNext ==
  \/ \E o \in Orders : CreateIntent(o) \/ CreatePayment(o) \/ Stripe(o) \/ Webhook(o)
                       \/ (GroupErodes(o) /\ UNCHANGED money)
  \/ \E r \in Refunds : Refund(r)
  \/ \E h \in Calls : OrderSteps(h) \/ OrderFails(h) \/ Others(h)

PaymentsSpec == PaymentsInit /\ [][PaymentsNext]_allVars

\* Handlers run to their end, Stripe sends an event until it is processed, and
\* who waits for a row or for Order gets a turn.
PaymentsFairness ==
  /\ \A o \in Orders : /\ WF_allVars(CreatePayment(o))
                       /\ WF_allVars(HookCommits(o) \/ HookRollsBack(o))
                       /\ \A op \in PaymentOps :
                            /\ SF_allVars(\E e \in EventsOf(o, op) : HookSkips(e))
                            /\ SF_allVars(\E e \in EventsOf(o, op), h \in Calls : HookStart(e, h))
  /\ \A h \in Calls : /\ WF_allVars(OrderSteps(h))
                      /\ SF_allVars(Locks(h) /\ UNCHANGED money)

FairPaymentsSpec == PaymentsSpec /\ PaymentsFairness

-----------------------------------------------------------------------------
\* The variables of Payment keep their types.
PaymentTypeOK ==
  /\ payment \in [Orders -> [status : {"none", "pending", "failed"} \union Settled,
                             refunded : 0 .. Total]]
  /\ intent \in [Orders -> {"none", "created", "open", "captured"}]
  /\ returned \in [Orders -> 0 .. Total]
  /\ moved \subseteq Refunds
  /\ done \subseteq sent
  /\ sent \subseteq Events
  /\ hook \in [Orders -> [pc : {"waits"}, event : Events, call : Calls] \union {NoHook}]
  /\ refund \in [Refunds -> [pc : {"new", "stripe", "record", "notify", "unreported", "done"},
                             total : 0 .. Total]]
  /\ faults \in 0 .. MaxFaults

\* The two services never disagree on the outcome of a payment: one that
\* succeeded here is authorized (or refunded) there, one that failed here
\* failed there.  The webhook commits after Order did, Order may commit
\* without it, and late, repeated and contradictory events are in flight.
PaymentsAgreeWithOrders ==
  \A o \in Orders : /\ payment[o].status \in Settled => order[o].pay \in Refundable
                    /\ payment[o].status = "failed"  => order[o].pay = "failed"

\* Nothing is confirmed, shipped or marked as paid for which Stripe did not
\* take the money.
PaidMeansCaptured ==
  \A o \in Orders : order[o].pay \in Refundable \/ order[o].status \in Fulfilled
                      => intent[o] = "captured"

\* What Payment books as refunded was given back by Stripe, and Stripe never
\* gives back more than it took, whichever refunds race, crash half way or
\* are repeated with their key.
BookedWasReturned ==
  \A o \in Orders : payment[o].refunded <= returned[o] /\ returned[o] <= Total

\* Order may lag behind Payment about refunds; it never runs ahead.
OrdersLagOnRefunds ==
  \A o \in Orders : /\ order[o].pay = "refunded" => payment[o].status = "refunded"
                    /\ order[o].pay = "partially_refunded" => payment[o].refunded > 0

\* Once Payment has said that a payment succeeded or failed it never says the
\* opposite, and the sum of its refunds never shrinks.
PaymentVerdictStands ==
  [][\A o \in Orders : /\ payment[o].status \in Settled => payment'[o].status \in Settled
                       /\ payment[o].status = "failed"  => payment'[o].status = "failed"
                       /\ payment'[o].refunded >= payment[o].refunded]_allVars

\* Money that Stripe took is booked in the end, unless the order went where
\* the callback cannot follow: cancelled, failed before, shipped on, or its
\* reservation was lost.
CapturedIsBooked ==
  \A o \in Orders :
    intent[o] = "captured" ~>
      \/ payment[o].status \in Settled
      \/ order[o].status \notin {"pending_payment", "confirmed"}
      \/ phase[o] \notin {"active", "committed"}

\* payment-authorized is "safe to retry": a payment that Order has accepted is
\* booked in the end, because Stripe has the callback repeated until Payment
\* learns the answer (unless the customer cancels in between).
AcceptedIsBooked ==
  \A o \in Orders : order[o].pay = "authorized"
                      ~> payment[o].status \in Settled \/ order[o].status = "cancelled"

\* Order.payment_status moves to refunded "the same way regardless of how many
\* partial refunds preceded it": once all was refunded, and Order was told of
\* every refund and nothing failed, Order says refunded.
RefundsAddUp ==
  \A o \in Orders :
    (/\ payment[o].status = "refunded"
     /\ \A r \in Refunds : r.on = o => refund[r].pc \in {"new", "done"}
     /\ \A h \in Calls : call[h] = Idle
     /\ faults = 0)
      => order[o].pay # "partially_refunded"
=============================================================================
