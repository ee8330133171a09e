------------------------------- MODULE Orders -------------------------------
(***************************************************************************)
(* Order service after checkout: cancellation by the customer, the payment *)
(* callbacks of Payment and the fulfillment callback of Shipping, over the *)
(* reservation group Inventory holds for the order.                        *)
(*                                                                         *)
(* A call is a request being handled.  The payment callbacks lock the      *)
(* order row (SELECT ... FOR UPDATE), ask Inventory to commit or release   *)
(* the group while they hold the lock, then write the row and commit.      *)
(* Cancellation reads the row without a lock, asks Inventory to release    *)
(* the group, and writes the columns it changes: status and the version it *)
(* read plus one.  Refund and fulfillment callbacks ask nobody: reading    *)
(* and writing the locked row is one step.                                 *)
(*                                                                         *)
(* A request to Inventory that times out has failed for its caller, whose  *)
(* transaction rolls back, but may still be carried out later.  Inventory  *)
(* itself is the contract ReservationGroups, one group per order.          *)
(***************************************************************************)
EXTENDS Naturals

CONSTANTS
  Orders,     \* rows of the orders table, created by checkout
  Calls,      \* requests that can be in progress at the same time
  Total,      \* grand_total of an order, in units of a refund
  MaxVersion  \* bound on the versions refunds reach and If-Match names

ASSUME TotalAssumption == Total \in Nat \ {0}
ASSUME VersionAssumption == MaxVersion \in Nat

VARIABLES
  order,      \* the row: status, payment_status and version
  call,       \* the calls in progress
  phase,      \* what Inventory made of the order's reservation group
  told        \* what Inventory answered about it

Inventory == INSTANCE ReservationGroups WITH Groups <- Orders

rows  == <<order, call>>
group == <<phase, told>>
vars  == <<order, call, phase, told>>

Cancellable == {"pending_payment", "payment_authorized", "confirmed"}
Fulfilled   == {"confirmed", "processing", "shipped", "delivered"}
Ended       == {"cancelled", "payment_failed"}
Statuses    == {"pending_payment", "payment_authorized"} \union Fulfilled \union Ended
Refundable  == {"authorized", "captured", "refunded", "partially_refunded"}
PayStatuses == {"pending", "failed"} \union Refundable

\* What a payment callback makes of the order, and what a fulfillment callback
\* must find there.
Outcome == [authorized |-> [status |-> "confirmed",      pay |-> "authorized"],
            failed     |-> [status |-> "payment_failed", pay |-> "failed"]]

\* Mutant: fulfillment does not wait for the payment.
BeforePayment == [processing |-> "pending_payment", shipped |-> "processing",
                  delivered |-> "shipped"]

Before == [processing |-> "confirmed", shipped |-> "processing", delivered |-> "shipped"]

PaymentOps     == {"authorized", "failed"}
FulfillmentOps == {"processing", "shipped", "delivered"}
Ops            == {"cancel", "refunded"} \union PaymentOps \union FulfillmentOps

\* arg is the version in If-Match (cancel) or the amount refunded in all
\* (refunded).  A call is late when it has failed but its request to Inventory
\* may still arrive.
PCs      == {"asked", "stock", "write", "late", "ok", "refused"}
Idle     == [op |-> "none", pc |-> "idle"]
Requests == [op : Ops, on : Orders, arg : Nat, pc : PCs]
Failed   == {"late", "refused"}

-----------------------------------------------------------------------------
At(h, ops, pc) == call[h].pc = pc /\ call[h].op \in ops

Goto(h, pc) == call' = [call EXCEPT ![h].pc = pc]

\* Some payment callback is between reading the row and its commit.
Locked(o) == \E h \in Calls : /\ call[h].pc \in {"stock", "write"}
                              /\ call[h].op \in PaymentOps
                              /\ call[h].on = o

NextVersion(v) == v + 1

\* Mutant: a failed payment may be tried again.
NotYetPaid(o) == order[o].status \in {"pending_payment", "payment_failed"}

AwaitsPayment(o) == order[o].status = "pending_payment"

\* Mutant: a conflict in Inventory never stops the order.
ToleratesAll(op) == TRUE

\* A 409 from Inventory does not stop a release.
ToleratesConflict(op) == op # "authorized"

\* Mutant: no failure of Inventory stops a release.
ToleratesSilence(op) == IF op = "authorized" THEN "late" ELSE "write"

OnTimeout(op) == "late"

Asks(op) == IF op = "authorized" THEN "committed" ELSE "released"

-----------------------------------------------------------------------------
\* Checkout left every order waiting for its payment, with its stock held.
Init ==
  /\ order = [o \in Orders |-> [status |-> "pending_payment", pay |-> "pending", version |-> 1]]
  /\ call  = [h \in Calls |-> Idle]
  /\ phase = [o \in Orders |-> "active"]
  /\ told  = [o \in Orders |-> {"held"}]

Ask(h, op, o, arg) ==
  /\ call[h] = Idle
  /\ call' = [call EXCEPT ![h] = [op |-> op, on |-> o, arg |-> arg, pc |-> "asked"]]
  /\ UNCHANGED <<order, group>>

\* The response is sent, or nobody waits for it any more.
Return(h) ==
  /\ call[h].pc \in {"ok", "refused"}
  /\ call' = [call EXCEPT ![h] = Idle]
  /\ UNCHANGED <<order, group>>

CancelRead(h) ==
  /\ At(h, {"cancel"}, "asked")
  /\ LET row == order[call[h].on] IN
       Goto(h, IF row.version = call[h].arg /\ row.status \in Cancellable
               THEN "stock" ELSE "refused")
  /\ UNCHANGED <<order, group>>

PaymentRead(h) ==
  LET o == call[h].on  op == call[h].op IN
  /\ At(h, PaymentOps, "asked")
  /\ ~Locked(o)
  /\ Goto(h, IF order[o].status = Outcome[op].status THEN "ok"
             ELSE IF AwaitsPayment(o) THEN "stock" ELSE "refused")
  /\ UNCHANGED <<order, group>>

\* Inventory commits or releases the group, or has done so before.
StockAnswers(h) ==
  /\ call[h].pc = "stock"
  /\ Inventory!Complete(call[h].on, Asks(call[h].op))
  /\ Goto(h, "write")
  /\ UNCHANGED order

\* Inventory answers 409: the group is not active any more.
StockConflicts(h) ==
  LET op == call[h].op IN
  /\ call[h].pc = "stock"
  /\ phase[call[h].on] \notin {"active", Asks(op)}
  /\ Goto(h, IF ToleratesConflict(op) THEN "write" ELSE "refused")
  /\ UNCHANGED <<order, group>>

\* Inventory does not answer in time, or answers with another error.
StockFails(h) ==
  /\ call[h].pc = "stock"
  /\ Goto(h, OnTimeout(call[h].op))
  /\ UNCHANGED <<order, group>>

\* The request that timed out takes effect, or never will.
LateStock(h) ==
  /\ call[h].pc = "late"
  /\ \/ Inventory!Complete(call[h].on, Asks(call[h].op))
     \/ UNCHANGED group
  /\ Goto(h, "refused")
  /\ UNCHANGED order

PaymentWrite(h) ==
  LET o == call[h].on  to == Outcome[call[h].op] IN
  /\ At(h, PaymentOps, "write")
  /\ order' = [order EXCEPT ![o] = [status |-> to.status, pay |-> to.pay,
                                    version |-> NextVersion(@.version)]]
  /\ Goto(h, "ok")
  /\ UNCHANGED group

\* The UPDATE names the row by its id alone and waits for no more than its lock.
CancelWrite(h) ==
  LET o == call[h].on IN
  /\ At(h, {"cancel"}, "write")
  /\ ~Locked(o)
  /\ order' = [order EXCEPT ![o].status = "cancelled",
                            ![o].version = NextVersion(call[h].arg)]
  /\ Goto(h, "ok")
  /\ UNCHANGED group

PaymentRefunded(h) ==
  LET o == call[h].on IN
  /\ At(h, {"refunded"}, "asked")
  /\ ~Locked(o)
  /\ IF order[o].pay \in Refundable /\ call[h].arg <= Total
       THEN /\ order' = [order EXCEPT
                 ![o].pay = IF call[h].arg = Total THEN "refunded" ELSE "partially_refunded",
                 ![o].version = NextVersion(@)]
            /\ Goto(h, "ok")
       ELSE /\ Goto(h, "refused")
            /\ UNCHANGED order
  /\ UNCHANGED group

Fulfillment(h) ==
  LET o == call[h].on  to == call[h].op IN
  /\ At(h, FulfillmentOps, "asked")
  /\ ~Locked(o)
  /\ IF order[o].status = Before[to]
       THEN /\ order' = [order EXCEPT ![o].status = to, ![o].version = NextVersion(@)]
            /\ Goto(h, "ok")
       ELSE /\ Goto(h, "refused")
            /\ UNCHANGED order
  /\ UNCHANGED group

\* The request is lost, or the service stops before the transaction commits.
Crash(h) ==
  /\ call[h].pc \in {"asked", "write"}
  /\ Goto(h, "refused")
  /\ UNCHANGED <<order, group>>

\* The sweep and the single-reservation endpoints of Inventory.
GroupErodes(o) == Inventory!Erode({o}) /\ UNCHANGED rows

-----------------------------------------------------------------------------
Proceed(h) == \/ CancelRead(h)     \/ PaymentRead(h)  \/ StockAnswers(h)
              \/ StockConflicts(h) \/ LateStock(h)    \/ PaymentWrite(h)
              \/ CancelWrite(h)    \/ Fulfillment(h)  \/ PaymentRefunded(h)

Fail(h) == StockFails(h) \/ Crash(h)

\* The steps that wait for the row's lock.
Locks(h) == PaymentRead(h) \/ CancelWrite(h) \/ PaymentRefunded(h) \/ Fulfillment(h)

\* Requests that customers and the other services may send at any time.
Customer(h)  == \E o \in Orders, v \in 1 .. MaxVersion : Ask(h, "cancel", o, v)
Payment(h)   == \E o \in Orders :
                  \/ \E op \in PaymentOps : Ask(h, op, o, 0)
                  \/ /\ order[o].version < MaxVersion
                     /\ \E amount \in 1 .. Total : Ask(h, "refunded", o, amount)
Shipping(h)  == \E o \in Orders, op \in FulfillmentOps : Ask(h, op, o, 0)

Next == \/ \E h \in Calls : \/ Proceed(h)  \/ Fail(h)    \/ Return(h)
                            \/ Customer(h) \/ Payment(h) \/ Shipping(h)
        \/ \E o \in Orders : GroupErodes(o)

Spec == Init /\ [][Next]_vars

-----------------------------------------------------------------------------
\* The variables keep their types.
TypeOK ==
  /\ order \in [Orders -> [status : Statuses, pay : PayStatuses, version : Nat \ {0}]]
  /\ call \in [Calls -> Requests \union {Idle}]
  /\ phase \in [Orders -> Inventory!Phases]
  /\ told \in [Orders -> SUBSET Inventory!Answers]

\* An order that is confirmed or on its way to the customer has had its whole
\* reservation group taken out of stock (payment_authorized commits the group
\* before the order, and nothing a cancellation, a timeout, the sweep or a
\* failed payment does in between may undo that).
PaidOrdersHaveStock ==
  \A o \in Orders : order[o].status \in Fulfilled => phase[o] = "committed"

\* An order that was cancelled or whose payment failed does not go on holding
\* a whole group (the release comes first, its 409 is ignored).
EndedOrdersHoldNothing ==
  \A o \in Orders : order[o].status \in Ended => phase[o] # "active"

\* Where an order may go: to its payment's outcome only while it waits for it,
\* then stage by stage, and from anywhere into a cancellation, but not out of it.
Course(from, to) ==
  \/ to \in {from, "cancelled"}
  \/ from = "pending_payment" /\ \E op \in PaymentOps : to = Outcome[op].status
  \/ \E op \in FulfillmentOps : from = Before[op] /\ to = op

\* The first answer of the payment provider that reaches an order stands: a
\* failed payment never becomes an authorized one nor the reverse; and the order
\* keeps to its course, whatever cancellations and callbacks race, are repeated
\* or arrive after a crash: a cancelled one is never confirmed, shipped or
\* failed by a callback that read it before.
OneVerdict ==
  [][\A o \in Orders : /\ order[o].pay = "failed" => order'[o].pay = "failed"
                       /\ order[o].pay \in Refundable => order'[o].pay \in Refundable
                       /\ Course(order[o].status, order'[o].status)]_vars

\* "Order's fulfillment machine only ever moves forward": an order that has
\* gone past confirmed is not cancelled any more.
FulfillmentOnlyMovesForward ==
  [][\A o \in Orders : order[o].status \in FulfillmentOps => order'[o].status # "cancelled"]_vars
=============================================================================
