---------------------------- MODULE OrdersProofs ----------------------------
(***************************************************************************)
(* The state machine of orders keeps its types, keeps orders in agreement  *)
(* with their stock and keeps the first outcome of a payment, for any set  *)
(* of orders, any number of concurrent requests and any amounts.           *)
(*                                                                         *)
(* OrderInv is inductive with TypeOK.  What has to be added to the two     *)
(* properties is what a request may rely on between its steps: a payment   *)
(* callback that holds the row's lock is alone and finds the order as it   *)
(* read it (OneHolder, HeldIsUnpaid), and Inventory's answer about the     *)
(* group is still true when the row is written (StockSettled).  A          *)
(* cancellation holds no lock and may rely on the last of them only.       *)
(***************************************************************************)
EXTENDS Orders, TLAPS

\* Request h is a payment callback between reading the row and its commit.
Holds(h) == call[h].pc \in {"stock", "write"} /\ call[h].op \in PaymentOps

OneHolder == \A h, k \in Calls : Holds(h) /\ Holds(k) /\ call[h].on = call[k].on => h = k

HeldIsUnpaid == \A h \in Calls : Holds(h) => AwaitsPayment(call[h].on)

\* What Inventory did for a request that is about to write the order.
Answered(h) ==
  /\ call[h].pc = "write" /\ call[h].op = "authorized" => phase[call[h].on] = "committed"
  /\ call[h].pc = "write" /\ call[h].op \in {"cancel", "failed"} => phase[call[h].on] # "active"

StockSettled == \A h \in Calls : Answered(h)

\* Only cancellations and payment callbacks ever get past reading the order.
OnlyTheyAsk == \A h \in Calls : call[h].pc \in {"stock", "write", "late"}
                                  => call[h].op \in {"cancel"} \union PaymentOps

\* An order that waits for its payment has no outcome yet.
UnpaidIsPending == \A o \in Orders : AwaitsPayment(o) => order[o].pay = "pending"

OrderInv == /\ PaidOrdersHaveStock /\ EndedOrdersHoldNothing /\ UnpaidIsPending
            /\ OneHolder /\ HeldIsUnpaid /\ StockSettled /\ OnlyTheyAsk

\* A step of Order whatever it is asked for, within the bounds of Next or not.
Serves == \/ \E h \in Calls : \/ Proceed(h) \/ Fail(h) \/ Return(h)
                              \/ \E op \in Ops, o \in Orders, arg \in Nat : Ask(h, op, o, arg)
          \/ \E o \in Orders : GroupErodes(o)

ServingSpec == Init /\ [][Serves]_vars

-----------------------------------------------------------------------------
(***************************************************************************)
(* Lemmas on the parts the actions are built from.                         *)
(***************************************************************************)

\* Next bounds what is asked for.
LEMMA NextServes == Next => Serves
<1> SUFFICES ASSUME NEW h \in Calls, Customer(h) \/ Payment(h) \/ Shipping(h)
             PROVE  \E op \in Ops, o \in Orders, arg \in Nat : Ask(h, op, o, arg)
  BY DEF Next, Serves
<1> QED BY TotalAssumption, VersionAssumption
    DEF Customer, Payment, Shipping, Ops, PaymentOps, FulfillmentOps

\* A call that is in progress is a request.
LEMMA InProgress ==
  ASSUME TypeOK, NEW h \in Calls, call[h].pc # "idle"
  PROVE  call[h] \in Requests
BY DEF TypeOK, Idle

\* A request that goes on changes its pc and nothing else.
LEMMA GotoStep ==
  ASSUME TypeOK, NEW h \in Calls, call[h] \in Requests, NEW pc \in PCs, Goto(h, pc)
  PROVE  /\ call' \in [Calls -> Requests \union {Idle}]
         /\ \A k \in Calls : k # h => call'[k] = call[k]
         /\ call'[h].pc = pc
         /\ call'[h].op = call[h].op
         /\ call'[h].on = call[h].on
         /\ call'[h].arg = call[h].arg
BY DEF TypeOK, Goto, Requests

\* What Inventory does to a group, on behalf of a request or by itself, never
\* makes it active again and never undoes a commit.
LEMMA GroupStep ==
  ASSUME TypeOK,
         \/ \E o \in Orders, a \in {"committed", "released"} : Inventory!Complete(o, a)
         \/ \E o \in Orders : Inventory!Erode({o})
         \/ UNCHANGED group
  PROVE  /\ phase' \in [Orders -> Inventory!Phases]
         /\ told' \in [Orders -> SUBSET Inventory!Answers]
         /\ \A o \in Orders : /\ phase[o] = "committed" => phase'[o] = "committed"
                              /\ phase[o] # "active" => phase'[o] # "active"
<1>1. ASSUME NEW o \in Orders, NEW a \in {"committed", "released"}, Inventory!Complete(o, a)
      PROVE  /\ phase' \in [Orders -> Inventory!Phases]
             /\ told' \in [Orders -> SUBSET Inventory!Answers]
             /\ \A p \in Orders : /\ phase[p] = "committed" => phase'[p] = "committed"
                                  /\ phase[p] # "active" => phase'[p] # "active"
  BY <1>1 DEF TypeOK, Inventory!Complete, Inventory!Answered, Inventory!Phases,
              Inventory!Answers
<1>2. ASSUME NEW o \in Orders, Inventory!Erode({o})
      PROVE  /\ phase' \in [Orders -> Inventory!Phases]
             /\ told' \in [Orders -> SUBSET Inventory!Answers]
             /\ \A p \in Orders : /\ phase[p] = "committed" => phase'[p] = "committed"
                                  /\ phase[p] # "active" => phase'[p] # "active"
  <2>1. \A p \in Orders : phase'[p] \in IF p \in {o} THEN Inventory!Erosion[phase[p]]
                                                     ELSE {phase[p]}
    BY <1>2 DEF Inventory!Erode
  <2>2. Inventory!Erosion["committed"] = {"committed"}
    BY DEF Inventory!Erosion, Inventory!Phases
  <2>3. \A p \in Inventory!Phases : p # "active" => "active" \notin Inventory!Erosion[p]
    BY DEF Inventory!Erosion, Inventory!Phases
  <2>4. \A p \in Orders : phase[p] \in Inventory!Phases
    BY DEF TypeOK
  <2> QED BY <1>2, <2>1, <2>2, <2>3, <2>4 DEF TypeOK, Inventory!Erode
<1>3. CASE UNCHANGED group
  BY <1>3 DEF TypeOK, group
<1> QED BY <1>1, <1>2, <1>3

-----------------------------------------------------------------------------
(***************************************************************************)
(* Type correctness.                                                       *)
(***************************************************************************)

\* The initial state is well typed.
LEMMA InitType == Init => TypeOK
BY DEF Init, TypeOK, Idle, Statuses, PayStatuses, Inventory!Phases, Inventory!Answers

\* A new request is well typed.
LEMMA AskType ==
  ASSUME TypeOK, NEW h \in Calls, NEW op \in Ops, NEW o \in Orders, NEW arg \in Nat,
         Ask(h, op, o, arg)
  PROVE  TypeOK'
<1>1. call' \in [Calls -> Requests \union {Idle}]
  BY DEF TypeOK, Ask, Requests, PCs
<1> QED BY <1>1 DEF TypeOK, Ask, group

\* Every step of a request in progress keeps the types.
LEMMA ProceedType ==
  ASSUME TypeOK, NEW h \in Calls, Proceed(h) \/ Fail(h)
  PROVE  TypeOK'
<1> DEFINE o == call[h].on
<1>1. call[h].pc \in PCs /\ call[h] \in Requests /\ o \in Orders /\ call[h].op \in Ops
  <2>1. call[h].pc # "idle"
    BY DEF Proceed, Fail, At, CancelRead, PaymentRead, StockAnswers, StockConflicts, LateStock,
           PaymentWrite, CancelWrite, PaymentRefunded, Fulfillment, StockFails, Crash
  <2> QED BY <2>1, InProgress DEF Requests
<1>2. call' \in [Calls -> Requests \union {Idle}]
  <2>1. \E pc \in PCs : Goto(h, pc)
    BY DEF Proceed, Fail, PCs, CancelRead, PaymentRead, StockAnswers, StockConflicts, LateStock,
           PaymentWrite, CancelWrite, PaymentRefunded, Fulfillment, StockFails, Crash, OnTimeout
  <2> QED BY <1>1, <2>1, GotoStep
<1>3. phase' \in [Orders -> Inventory!Phases] /\ told' \in [Orders -> SUBSET Inventory!Answers]
  <2>1. \/ Inventory!Complete(o, Asks(call[h].op))
        \/ UNCHANGED group
    BY DEF Proceed, Fail, CancelRead, PaymentRead, StockAnswers, StockConflicts, LateStock,
           PaymentWrite, CancelWrite, PaymentRefunded, Fulfillment, StockFails, Crash
  <2>2. Asks(call[h].op) \in {"committed", "released"}
    BY DEF Asks
  <2> QED BY <1>1, <2>1, <2>2, GroupStep
<1>4. order' \in [Orders -> [status : Statuses, pay : PayStatuses, version : Nat \ {0}]]
  <2>1. CASE UNCHANGED order
    BY <2>1 DEF TypeOK
  <2>2. CASE PaymentWrite(h)
    BY <2>2, <1>1 DEF TypeOK, PaymentWrite, At, PaymentOps, Outcome, NextVersion, Statuses,
                      PayStatuses, Refundable, Fulfilled, Ended
  <2>3. CASE CancelWrite(h)
    <3>1. NextVersion(call[h].arg) \in Nat \ {0}
      BY <1>1 DEF Requests, NextVersion
    <3>2. order' = [order EXCEPT ![o].status = "cancelled",
                                 ![o].version = NextVersion(call[h].arg)]
      BY <2>3 DEF CancelWrite
    <3> QED BY <1>1, <3>1, <3>2 DEF TypeOK, Statuses, Ended
  <2>4. CASE PaymentRefunded(h)
    BY <2>4, <1>1 DEF TypeOK, PaymentRefunded, NextVersion, PayStatuses, Refundable
  <2>5. CASE Fulfillment(h)
    BY <2>5, <1>1 DEF TypeOK, Fulfillment, At, NextVersion, FulfillmentOps, Statuses, Fulfilled
  <2> QED
    BY <2>1, <2>2, <2>3, <2>4, <2>5
    DEF Proceed, Fail, CancelRead, PaymentRead, StockAnswers, StockConflicts, LateStock,
        StockFails, Crash
<1> QED BY <1>2, <1>3, <1>4 DEF TypeOK

\* Every step keeps the types.
LEMMA ServesType == TypeOK /\ [Serves]_vars => TypeOK'
<1> SUFFICES ASSUME TypeOK, [Serves]_vars PROVE TypeOK'
  OBVIOUS
<1>1. ASSUME NEW h \in Calls, Proceed(h) \/ Fail(h)
      PROVE  TypeOK'
  BY <1>1, ProceedType
<1>2. ASSUME NEW h \in Calls, Return(h)
      PROVE  TypeOK'
  BY <1>2 DEF TypeOK, Return, group
<1>3. ASSUME NEW o \in Orders, GroupErodes(o)
      PROVE  TypeOK'
  BY <1>3, GroupStep DEF TypeOK, GroupErodes, rows
<1>4. CASE UNCHANGED vars
  BY <1>4 DEF TypeOK, vars
<1> QED BY <1>1, <1>2, <1>3, <1>4, AskType DEF Serves

\* The variables keep their types, whatever requests arrive and fail.
THEOREM TypeCorrect == Spec => []TypeOK
<1> QED BY InitType, ServesType, NextServes, PTL DEF Spec

-----------------------------------------------------------------------------
(***************************************************************************)
(* Orders, their stock and the outcome of their payments.                  *)
(***************************************************************************)

\* The initial state satisfies the invariant.
LEMMA InitInv == Init => OrderInv
BY DEF Init, OrderInv, PaidOrdersHaveStock, EndedOrdersHoldNothing, UnpaidIsPending, OneHolder,
       HeldIsUnpaid, StockSettled, Answered, OnlyTheyAsk, Holds, Idle, Fulfilled, Ended,
       AwaitsPayment

\* A request that does not write the order keeps the invariant if it takes
\* the row's lock only when nobody has it and the order waits for payment,
\* and goes on to write only with the group settled.
LEMMA RequestStep ==
  ASSUME TypeOK, OrderInv, NEW h \in Calls, call[h] \in Requests, UNCHANGED order,
         NEW pc \in PCs, Goto(h, pc),
         \A p \in Orders : /\ phase[p] = "committed" => phase'[p] = "committed"
                           /\ phase[p] # "active" => phase'[p] # "active",
         Holds(h)' => Holds(h) \/ (~Locked(call[h].on) /\ AwaitsPayment(call[h].on)),
         Answered(h)',
         pc \in {"stock", "write", "late"} => call[h].op \in {"cancel"} \union PaymentOps
  PROVE  OrderInv'
<1>1. /\ \A k \in Calls : k # h => call'[k] = call[k]
      /\ call'[h].pc = pc
      /\ call'[h].op = call[h].op
      /\ call'[h].on = call[h].on
  BY GotoStep
<1>2. \A k \in Calls : call[k].pc \in {"stock", "write"} => call[k].on \in Orders
  BY InProgress DEF Requests
<1>3. PaidOrdersHaveStock' /\ EndedOrdersHoldNothing' /\ UnpaidIsPending'
  BY DEF OrderInv, PaidOrdersHaveStock, EndedOrdersHoldNothing, UnpaidIsPending, AwaitsPayment
<1>4. OneHolder'
  <2> SUFFICES ASSUME NEW k \in Calls, NEW l \in Calls, Holds(k)', Holds(l)',
                      call'[k].on = call'[l].on, k # l
               PROVE  FALSE
    BY DEF OneHolder
  <2>1. CASE k # h /\ l # h
    BY <1>1, <2>1 DEF OrderInv, OneHolder, Holds
  <2>2. CASE k = h
    BY <1>1, <2>2 DEF OrderInv, OneHolder, Holds, Locked
  <2>3. CASE l = h
    BY <1>1, <2>3 DEF OrderInv, OneHolder, Holds, Locked
  <2> QED BY <2>1, <2>2, <2>3
<1>5. HeldIsUnpaid'
  BY <1>1 DEF OrderInv, HeldIsUnpaid, Holds, AwaitsPayment
<1>6. StockSettled'
  <2> SUFFICES ASSUME NEW k \in Calls, k # h PROVE Answered(k)'
    BY DEF StockSettled
  <2> QED BY <1>1, <1>2 DEF OrderInv, StockSettled, Answered
<1>7. OnlyTheyAsk'
  BY <1>1 DEF OrderInv, OnlyTheyAsk
<1> QED BY <1>3, <1>4, <1>5, <1>6, <1>7 DEF OrderInv

\* A request that writes the order and ends keeps the invariant if nobody
\* else has the row locked and what it writes fits the group.
LEMMA WriteStep ==
  ASSUME TypeOK, OrderInv, NEW h \in Calls, call[h] \in Requests, UNCHANGED group,
         NEW pc \in {"ok", "refused"}, Goto(h, pc),
         \A p \in Orders : p # call[h].on => order'[p] = order[p],
         \A k \in Calls : k # h /\ Holds(k) => call[k].on # call[h].on,
         order'[call[h].on].status \in Fulfilled => phase[call[h].on] = "committed",
         order'[call[h].on].status \in Ended => phase[call[h].on] # "active",
         order'[call[h].on].status = "pending_payment" => order'[call[h].on].pay = "pending"
  PROVE  OrderInv'
<1>1. /\ \A k \in Calls : k # h => call'[k] = call[k]
      /\ call'[h].pc = pc
      /\ call'[h].op = call[h].op
      /\ call'[h].on = call[h].on
  BY GotoStep DEF PCs
<1>2. PaidOrdersHaveStock' /\ EndedOrdersHoldNothing' /\ UnpaidIsPending'
  BY DEF OrderInv, PaidOrdersHaveStock, EndedOrdersHoldNothing, UnpaidIsPending, AwaitsPayment,
         group
<1>3. \A k \in Calls : Holds(k)' => k # h /\ Holds(k)
  BY <1>1 DEF Holds
<1>4. OneHolder'
  BY <1>1, <1>3 DEF OrderInv, OneHolder
<1>5. HeldIsUnpaid'
  <2> SUFFICES ASSUME NEW k \in Calls, Holds(k)' PROVE AwaitsPayment(call[k].on)'
    BY <1>1, <1>3 DEF HeldIsUnpaid
  <2>1. k # h /\ Holds(k) /\ call[k].on # call[h].on /\ call'[k] = call[k]
    BY <1>1, <1>3
  <2>2. call[k].on \in Orders
    BY <2>1, InProgress DEF Holds, Requests
  <2> QED BY <2>1, <2>2 DEF OrderInv, HeldIsUnpaid, AwaitsPayment
<1>6. StockSettled'
  BY <1>1 DEF OrderInv, StockSettled, Answered, group
<1>7. OnlyTheyAsk'
  BY <1>1 DEF OrderInv, OnlyTheyAsk
<1> QED BY <1>2, <1>4, <1>5, <1>6, <1>7 DEF OrderInv

\* Every step of a request that asks Inventory or gives up keeps the invariant.
LEMMA StockStepInv ==
  ASSUME TypeOK, OrderInv, NEW h \in Calls,
         \/ CancelRead(h)     \/ PaymentRead(h) \/ StockAnswers(h)
         \/ StockConflicts(h) \/ LateStock(h)   \/ Fail(h)
  PROVE  OrderInv'
<1> DEFINE o  == call[h].on
           op == call[h].op
<1>1. call[h] \in Requests /\ o \in Orders /\ op \in Ops
  <2>1. call[h].pc # "idle"
    BY DEF Fail, At, CancelRead, PaymentRead, StockAnswers, StockConflicts, LateStock,
           StockFails, Crash
  <2> QED BY <2>1, InProgress DEF Requests
<1>2. \A p \in Orders : /\ phase[p] = "committed" => phase'[p] = "committed"
                        /\ phase[p] # "active" => phase'[p] # "active"
  <2>1. \/ Inventory!Complete(o, Asks(op))
        \/ UNCHANGED group
    BY DEF Fail, CancelRead, PaymentRead, StockAnswers, StockConflicts, LateStock, StockFails,
           Crash
  <2>2. Asks(op) \in {"committed", "released"}
    BY DEF Asks
  <2> QED BY <1>1, <2>1, <2>2, GroupStep
<1>3. CASE CancelRead(h)
  <2>1. PICK pc \in {"stock", "refused"} : Goto(h, pc)
    BY <1>3 DEF CancelRead
  <2>2. op = "cancel" /\ UNCHANGED order
    BY <1>3 DEF CancelRead, At
  <2>3. pc \in PCs /\ call'[h].pc = pc /\ call'[h].op = op
    BY <1>1, <2>1, GotoStep DEF PCs
  <2> QED BY <1>1, <1>2, <2>1, <2>2, <2>3, RequestStep DEF Holds, Answered, PaymentOps
<1>4. CASE PaymentRead(h)
  <2>1. PICK pc \in {"ok", "stock", "refused"} :
               Goto(h, pc) /\ (pc = "stock" => AwaitsPayment(o))
    BY <1>4 DEF PaymentRead
  <2>2. op \in PaymentOps /\ ~Locked(o) /\ UNCHANGED order
    BY <1>4 DEF PaymentRead, At
  <2>3. pc \in PCs /\ call'[h].pc = pc /\ call'[h].op = op
    BY <1>1, <2>1, GotoStep DEF PCs
  <2> QED BY <1>1, <1>2, <2>1, <2>2, <2>3, RequestStep DEF Holds, Answered
<1>5. CASE StockAnswers(h)
  <2>1. /\ Goto(h, "write") /\ UNCHANGED order
        /\ call[h].pc = "stock" /\ Inventory!Complete(o, Asks(op))
    BY <1>5 DEF StockAnswers
  <2>2. "write" \in PCs /\ call'[h].pc = "write" /\ call'[h].op = op /\ call'[h].on = o
    BY <1>1, <2>1, GotoStep DEF PCs
  <2>3. phase'[o] = Asks(op)
    BY <1>1, <2>1 DEF TypeOK, Inventory!Complete
  <2>4. Answered(h)'
    BY <2>2, <2>3 DEF Answered, Asks
  <2>5. op \in {"cancel"} \union PaymentOps
    BY <2>1 DEF OrderInv, OnlyTheyAsk
  <2> QED BY <1>1, <1>2, <2>1, <2>2, <2>4, <2>5, RequestStep DEF Holds
<1>6. CASE StockConflicts(h)
  <2>1. /\ UNCHANGED <<order, group>>
        /\ call[h].pc = "stock" /\ phase[o] \notin {"active", Asks(op)}
        /\ Goto(h, IF ToleratesConflict(op) THEN "write" ELSE "refused")
    BY <1>6 DEF StockConflicts
  <2>2. PICK pc \in {"write", "refused"} : Goto(h, pc) /\ (pc = "write" => op # "authorized")
    BY <2>1 DEF ToleratesConflict
  <2>3. pc \in PCs /\ call'[h].pc = pc /\ call'[h].op = op /\ call'[h].on = o
    BY <1>1, <2>2, GotoStep DEF PCs
  <2>4. Answered(h)'
    BY <2>1, <2>2, <2>3 DEF Answered, group
  <2>5. op \in {"cancel"} \union PaymentOps
    BY <2>1 DEF OrderInv, OnlyTheyAsk
  <2> QED BY <1>1, <1>2, <2>1, <2>2, <2>3, <2>4, <2>5, RequestStep DEF Holds
<1>7. CASE LateStock(h) \/ Fail(h)
  <2>1. PICK pc \in {"late", "refused"} :
               Goto(h, pc) /\ (pc = "late" => call[h].pc = "stock")
    BY <1>7 DEF LateStock, Fail, StockFails, Crash, OnTimeout
  <2>2. UNCHANGED order
    BY <1>7 DEF LateStock, Fail, StockFails, Crash
  <2>3. pc \in PCs /\ call'[h].pc = pc
    BY <1>1, <2>1, GotoStep DEF PCs
  <2>4. pc = "late" => op \in {"cancel"} \union PaymentOps
    BY <2>1 DEF OrderInv, OnlyTheyAsk
  <2> QED BY <1>1, <1>2, <2>1, <2>2, <2>3, <2>4, RequestStep DEF Holds, Answered
<1> QED BY <1>3, <1>4, <1>5, <1>6, <1>7

\* Every step that writes an order keeps the invariant.
LEMMA OrderStepInv ==
  ASSUME TypeOK, OrderInv, NEW h \in Calls,
         PaymentWrite(h) \/ CancelWrite(h) \/ PaymentRefunded(h) \/ Fulfillment(h)
  PROVE  OrderInv'
<1> DEFINE o == call[h].on
<1>1. call[h] \in Requests /\ o \in Orders /\ UNCHANGED group
  <2>1. call[h].pc # "idle" /\ UNCHANGED group
    BY DEF At, PaymentWrite, CancelWrite, PaymentRefunded, Fulfillment
  <2> QED BY <2>1, InProgress DEF Requests
<1>2. ~Locked(o) => \A k \in Calls : k # h /\ Holds(k) => call[k].on # o
  BY DEF Locked, Holds
<1>3. PICK pc \in {"ok", "refused"} : Goto(h, pc)
  BY DEF PaymentWrite, CancelWrite, PaymentRefunded, Fulfillment
<1>4. \A p \in Orders : p # o => order'[p] = order[p]
  BY <1>1 DEF TypeOK, PaymentWrite, CancelWrite, PaymentRefunded, Fulfillment
<1>5. CASE PaymentWrite(h)
  <2>1. Holds(h)
    BY <1>5 DEF PaymentWrite, At, Holds
  <2>2. \A k \in Calls : k # h /\ Holds(k) => call[k].on # o
    BY <2>1 DEF OrderInv, OneHolder
  <2>3. order'[o].status = Outcome[call[h].op].status
    BY <1>1, <1>5 DEF TypeOK, PaymentWrite
  <2>4. Answered(h) /\ call[h].pc = "write" /\ call[h].op \in PaymentOps
    BY <1>5 DEF PaymentWrite, At, OrderInv, StockSettled
  <2> QED
    BY <1>1, <1>3, <1>4, <2>2, <2>3, <2>4, WriteStep
    DEF Answered, PaymentOps, Outcome, Fulfilled, Ended
<1>6. CASE CancelWrite(h)
  <2>1. order'[o].status = "cancelled"
    BY <1>1, <1>6 DEF TypeOK, CancelWrite
  <2>2. phase[o] # "active"
    BY <1>6 DEF CancelWrite, At, OrderInv, StockSettled, Answered
  <2> QED
    BY <1>1, <1>2, <1>3, <1>4, <1>6, <2>1, <2>2, WriteStep DEF CancelWrite, Fulfilled, Ended
<1>7. CASE PaymentRefunded(h)
  <2>1. order'[o].status = order[o].status
    BY <1>1, <1>7 DEF TypeOK, PaymentRefunded
  <2>2. order[o].status = "pending_payment" => order[o].pay = "pending"
    BY <1>1 DEF OrderInv, UnpaidIsPending, AwaitsPayment
  <2>3. order'[o].pay = order[o].pay \/ order[o].pay \in Refundable
    BY <1>1, <1>7 DEF TypeOK, PaymentRefunded
  <2>4. "pending" \notin Refundable
    BY DEF Refundable
  <2>5. /\ order[o].status \in Fulfilled => phase[o] = "committed"
        /\ order[o].status \in Ended => phase[o] # "active"
    BY <1>1 DEF OrderInv, PaidOrdersHaveStock, EndedOrdersHoldNothing
  <2>6. ~Locked(o)
    BY <1>7 DEF PaymentRefunded
  <2> QED BY <1>1, <1>2, <1>3, <1>4, <2>1, <2>2, <2>3, <2>4, <2>5, <2>6, WriteStep
<1>8. CASE Fulfillment(h)
  <2>1. \/ order' = order
        \/ order[o].status \in Fulfilled /\ order'[o].status \in FulfillmentOps
    BY <1>1, <1>8 DEF TypeOK, Fulfillment, At, FulfillmentOps, Before, Fulfilled
  <2>2. /\ order[o].status \in Fulfilled => phase[o] = "committed"
        /\ order[o].status \in Ended => phase[o] # "active"
        /\ order[o].status = "pending_payment" => order[o].pay = "pending"
    BY <1>1 DEF OrderInv, PaidOrdersHaveStock, EndedOrdersHoldNothing, UnpaidIsPending,
                AwaitsPayment
  <2>3. ~Locked(o)
    BY <1>8 DEF Fulfillment
  <2>4. \A s \in FulfillmentOps : s \in Fulfilled /\ s \notin Ended /\ s # "pending_payment"
    BY DEF FulfillmentOps, Fulfilled, Ended
  <2> QED BY <1>1, <1>2, <1>3, <1>4, <2>1, <2>2, <2>3, <2>4, WriteStep
<1> QED BY <1>5, <1>6, <1>7, <1>8

\* Every step keeps the invariant.
LEMMA ServesInv == TypeOK /\ OrderInv /\ [Serves]_vars => OrderInv'
<1> SUFFICES ASSUME TypeOK, OrderInv, [Serves]_vars PROVE OrderInv'
  OBVIOUS
<1>1. ASSUME NEW h \in Calls, Proceed(h) \/ Fail(h)
      PROVE  OrderInv'
  BY <1>1, StockStepInv, OrderStepInv DEF Proceed
<1>2. ASSUME NEW h \in Calls, UNCHANGED <<order, group>>,
             \A k \in Calls : k # h => call'[k] = call[k],
             call'[h].pc \in {"idle", "asked"}
      PROVE  OrderInv'
  <2>1. /\ UNCHANGED <<order, phase>>
        /\ \A k \in Calls : call'[k].pc \in {"stock", "write", "late"} => call'[k] = call[k]
    BY <1>2 DEF group
  <2>2. PaidOrdersHaveStock' /\ EndedOrdersHoldNothing' /\ UnpaidIsPending'
    BY <2>1 DEF OrderInv, PaidOrdersHaveStock, EndedOrdersHoldNothing, UnpaidIsPending,
                AwaitsPayment
  <2>3. OneHolder' /\ HeldIsUnpaid'
    BY <2>1 DEF OrderInv, OneHolder, HeldIsUnpaid, Holds, AwaitsPayment
  <2>4. StockSettled' /\ OnlyTheyAsk'
    BY <2>1 DEF OrderInv, StockSettled, Answered, OnlyTheyAsk
  <2> QED BY <2>2, <2>3, <2>4 DEF OrderInv
<1>3. ASSUME NEW h \in Calls, Return(h)
      PROVE  OrderInv'
  BY <1>2, <1>3 DEF TypeOK, Return, Idle
<1>4. ASSUME NEW h \in Calls, NEW op, NEW o, NEW arg, Ask(h, op, o, arg)
      PROVE  OrderInv'
  BY <1>2, <1>4 DEF TypeOK, Ask
<1>5. ASSUME NEW o \in Orders, GroupErodes(o)
      PROVE  OrderInv'
  <2>1. /\ UNCHANGED <<order, call>>
        /\ \A p \in Orders : /\ phase[p] = "committed" => phase'[p] = "committed"
                             /\ phase[p] # "active" => phase'[p] # "active"
    BY <1>5, GroupStep DEF GroupErodes, rows
  <2>2. PaidOrdersHaveStock' /\ EndedOrdersHoldNothing' /\ UnpaidIsPending'
    BY <2>1 DEF OrderInv, PaidOrdersHaveStock, EndedOrdersHoldNothing, UnpaidIsPending,
                AwaitsPayment
  <2>3. OneHolder' /\ HeldIsUnpaid' /\ OnlyTheyAsk'
    BY <2>1 DEF OrderInv, OneHolder, HeldIsUnpaid, OnlyTheyAsk, Holds, AwaitsPayment
  <2>4. \A h \in Calls : call[h].pc = "write" => call[h].on \in Orders
    BY InProgress DEF Requests
  <2>5. StockSettled'
    BY <2>1, <2>4 DEF OrderInv, StockSettled, Answered
  <2> QED BY <2>2, <2>3, <2>5 DEF OrderInv
<1>6. CASE UNCHANGED vars
  BY <1>6 DEF vars, OrderInv, PaidOrdersHaveStock, EndedOrdersHoldNothing, UnpaidIsPending,
              AwaitsPayment, OneHolder, HeldIsUnpaid, Holds, StockSettled, Answered, OnlyTheyAsk
<1> QED BY <1>1, <1>3, <1>4, <1>5, <1>6 DEF Serves

\* The inductive invariant of the order service holds in every reachable state.
THEOREM OrderCorrect == Spec => []OrderInv
<1> QED BY InitType, InitInv, ServesType, ServesInv, NextServes, PTL DEF Spec

\* An order on its way to the customer has its whole group taken out of stock.
THEOREM NothingShipsUnreserved == Spec => []PaidOrdersHaveStock
<1>1. OrderInv => PaidOrdersHaveStock
  BY DEF OrderInv
<1> QED BY <1>1, OrderCorrect, PTL

\* An order that was cancelled or not paid does not go on holding its group.
THEOREM NothingHeldForEnded == Spec => []EndedOrdersHoldNothing
<1>1. OrderInv => EndedOrdersHoldNothing
  BY DEF OrderInv
<1> QED BY <1>1, OrderCorrect, PTL

-----------------------------------------------------------------------------
\* What OneVerdict says of a step.
Stands == \A o \in Orders : /\ order[o].pay = "failed" => order'[o].pay = "failed"
                            /\ order[o].pay \in Refundable => order'[o].pay \in Refundable
                            /\ Course(order[o].status, order'[o].status)

\* The first outcome of a payment that reaches an order stands: the order is
\* written by a payment callback only while it has none (HeldIsUnpaid,
\* UnpaidIsPending), and by a refund only when it is authorized.  So stands its
\* cancellation.
LEMMA StepStands == TypeOK /\ OrderInv /\ [Serves]_vars => Stands
<1> SUFFICES ASSUME TypeOK, OrderInv, [Serves]_vars PROVE Stands
  OBVIOUS
<1> USE DEF Stands
<1>1. "failed" \notin Refundable /\ "pending" \notin Refundable
      /\ "refunded" \in Refundable /\ "partially_refunded" \in Refundable
  BY DEF Refundable
<1>2. ASSUME NEW h \in Calls, PaymentWrite(h)
      PROVE  Stands
  <2>1. Holds(h) /\ call[h] \in Requests
    BY <1>1, <1>2, InProgress DEF PaymentWrite, At, Holds
  <2>2. /\ order[call[h].on].pay = "pending" /\ order[call[h].on].status = "pending_payment"
        /\ call[h].on \in Orders /\ call[h].op \in PaymentOps
    BY <1>1, <1>2, <2>1
    DEF OrderInv, HeldIsUnpaid, UnpaidIsPending, AwaitsPayment, Requests, PaymentWrite, At
  <2>3. /\ order'[call[h].on].status = Outcome[call[h].op].status
        /\ \A o \in Orders : o # call[h].on => order'[o] = order[o]
    BY <1>2, <2>2 DEF TypeOK, PaymentWrite
  <2>4. \A o \in Orders : Course(order[o].status, order'[o].status)
    BY <2>2, <2>3 DEF Course
  <2> QED BY <1>1, <2>2, <2>3, <2>4
<1>3. ASSUME NEW h \in Calls, CancelWrite(h)
      PROVE  Stands
  BY <1>1, <1>3 DEF TypeOK, CancelWrite, Course
<1>4. ASSUME NEW h \in Calls, PaymentRefunded(h)
      PROVE  Stands
  BY <1>1, <1>4 DEF TypeOK, PaymentRefunded, Course
<1>5. ASSUME NEW h \in Calls, Fulfillment(h)
      PROVE  Stands
  <2>1. call[h].op \in FulfillmentOps
    BY <1>5 DEF Fulfillment, At
  <2> QED BY <1>1, <1>5, <2>1 DEF TypeOK, Fulfillment, Course
<1>6. CASE UNCHANGED order
  BY <1>6 DEF Course
<1>7. \/ UNCHANGED order
      \/ \E h \in Calls : PaymentWrite(h) \/ CancelWrite(h) \/ PaymentRefunded(h)
                              \/ Fulfillment(h)
  BY DEF Serves, vars, rows, Proceed, Fail, CancelRead, PaymentRead, StockAnswers,
              StockConflicts, LateStock, StockFails, Crash, Return, Customer, Payment,
              Shipping, Ask, GroupErodes
<1> QED BY <1>2, <1>3, <1>4, <1>5, <1>6, <1>7

\* A payment that failed is never authorized later, nor the reverse.
THEOREM VerdictStands == Spec => OneVerdict
BY StepStands, NextServes, TypeCorrect, OrderCorrect, PTL DEF Spec, OneVerdict, Stands
=============================================================================
