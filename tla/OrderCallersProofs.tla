------------------------- MODULE OrderCallersProofs -------------------------
(***************************************************************************)
(* Shipping and Order keep within a step of each other, and Payment,       *)
(* Stripe and Order agree on money: for any set of orders, any number of   *)
(* requests at any of the services, any refunds, amounts and faults.       *)
(*                                                                         *)
(* Shipping and Payment are proved about side by side, each with all that  *)
(* Order's customers and the other service may ask.  Every step of theirs  *)
(* is a step of module Orders within ServingSpec, or leaves its variables  *)
(* alone, so what OrdersProofs proves of Order holds here.                 *)
(***************************************************************************)
EXTENDS Shipments, Payments, OrdersProofs

Sums == INSTANCE TotalProofs

-----------------------------------------------------------------------------
(***************************************************************************)
(* Shipping.  ShipInv adds to OrderInv what a request of Shipping and the  *)
(* request it makes at Order know of each other: Order is only asked for a *)
(* stage whose earlier one is booked (AskedInOrder), what it accepted      *)
(* stays accepted (AcceptedStages), and the row lock keeps a shipment as   *)
(* it was read until the answer is booked (RowStays).                      *)
(***************************************************************************)

\* A task waits for the request that it made.
Linked == \A k \in Clerks : task[k] # NoTask =>
  call[task[k].call].op = task[k].op /\ call[task[k].call].on = task[k].on

OneTaskPerCall == \A k, l \in Clerks :
  task[k] # NoTask /\ task[l] # NoTask /\ task[k].call = task[l].call => k = l

\* Task k is of a request that has locked the row of its shipment.
LocksRow(k) == task[k] # NoTask /\ task[k].op # "processing"

OneRowLock == \A k, l \in Clerks : LocksRow(k) /\ LocksRow(l) /\ task[k].on = task[l].on => k = l

RowStays == \A k \in Clerks : LocksRow(k) => shipment[task[k].on] = Earlier[task[k].op]

\* Order is asked for a stage only once the stage before it is booked.
AskedInOrder == \A h \in Calls : call[h].op \in FulfillmentOps =>
  \/ shipment[call[h].on] = "failed"
  \/ Rank[call[h].op] <= Progress[shipment[call[h].on]] + 1

\* The order is as far as the status s names, or was cancelled.
AsFar(o, s) ==
  \/ order[o].status = "cancelled"
  \/ order[o].status \in FulfillmentOps /\ Rank[s] <= Rank[order[o].status]

\* What Order accepted it has done, and nothing but a cancellation undoes it.
AcceptedStages == \A h \in Calls :
  call[h].op \in FulfillmentOps /\ call[h].pc = "ok" => AsFar(call[h].on, call[h].op)

TaskInv == Linked /\ OneTaskPerCall /\ OneRowLock /\ RowStays
ShipInv == TaskInv /\ AskedInOrder /\ AcceptedStages /\ ShipmentTracksOrder

-----------------------------------------------------------------------------
(***************************************************************************)
(* Steps of Order.                                                         *)
(***************************************************************************)

\* How one step of a request may change the status of an order.
Moves(h, o) ==
  \/ order'[o].status \in {order[o].status, "cancelled"}
  \/ order[o].status = "pending_payment" /\ order'[o].status \notin FulfillmentOps
  \/ /\ call[h].op \in FulfillmentOps /\ call[h].on = o
     /\ order[o].status = Before[call[h].op] /\ order'[o].status = call[h].op

\* A request that goes on keeps what it asks for; it is accepted by moving the order.
LEMMA RequestMoves ==
  ASSUME TypeOK, OrderInv, NEW h \in Calls, Proceed(h) \/ Fail(h)
  PROVE  /\ call[h] \in Requests
         /\ call'[h].op = call[h].op /\ call'[h].on = call[h].on
         /\ \A k \in Calls : k # h => call'[k] = call[k]
         /\ \A o \in Orders : Moves(h, o)
         /\ call[h].op \in FulfillmentOps /\ call'[h].pc = "ok" =>
              order'[call[h].on].status = call[h].op
<1> DEFINE on == call[h].on
           op == call[h].op
<1>1. call[h] \in Requests /\ on \in Orders /\ op \in Ops
  <2>1. call[h].pc # "idle"
    BY DEF Proceed, Fail, At, CancelRead, PaymentRead, StockAnswers, StockConflicts, LateStock,
           PaymentWrite, CancelWrite, PaymentRefunded, Fulfillment, StockFails, Crash
  <2> QED  BY <2>1, InProgress DEF Requests
<1>2. /\ call'[h].op = op /\ call'[h].on = on
      /\ \A k \in Calls : k # h => call'[k] = call[k]
      /\ \A pc \in PCs : Goto(h, pc) => call'[h].pc = pc
  <2>1. \E pc \in PCs : Goto(h, pc)
    BY DEF Proceed, Fail, PCs, CancelRead, PaymentRead, StockAnswers, StockConflicts, LateStock,
           PaymentWrite, CancelWrite, PaymentRefunded, Fulfillment, StockFails, Crash, OnTimeout
  <2> QED  BY <1>1, <2>1, GotoStep
<1>3. CASE UNCHANGED order
  <2>1. \A o \in Orders : Moves(h, o)
    BY <1>3 DEF Moves
  <2>2. ASSUME op \in FulfillmentOps, call'[h].pc = "ok"
        PROVE  order'[on].status = op
    <3>1. call[h].pc \notin {"stock", "write", "late"} /\ op \notin {"cancel", "refunded"} \union PaymentOps
      BY <2>2 DEF OrderInv, OnlyTheyAsk, FulfillmentOps, PaymentOps
    <3>2. Fulfillment(h) \/ Goto(h, "refused")
      BY <3>1 DEF Proceed, Fail, At, CancelRead, PaymentRead, StockAnswers, StockConflicts, LateStock,
                  PaymentWrite, CancelWrite, PaymentRefunded, StockFails, Crash
    <3>3. ~Goto(h, "refused")
      BY <1>2, <2>2 DEF PCs
    <3> QED  BY <1>1, <3>2, <3>3 DEF Fulfillment, TypeOK
  <2> QED  BY <1>1, <1>2, <2>1, <2>2
<1>4. CASE PaymentWrite(h)
  <2>1. order[on].status = "pending_payment" /\ op \in PaymentOps
    BY <1>4 DEF PaymentWrite, At, OrderInv, HeldIsUnpaid, Holds, AwaitsPayment
  <2>2. order'[on].status \in {"confirmed", "payment_failed"}
    BY <1>1, <1>4 DEF PaymentWrite, At, PaymentOps, Outcome, TypeOK
  <2>3. \A o \in Orders : o # on => order'[o] = order[o]
    BY <1>1, <1>4 DEF PaymentWrite, TypeOK
  <2>4. \A o \in Orders : Moves(h, o)
    BY <2>1, <2>2, <2>3 DEF Moves, FulfillmentOps
  <2> QED  BY <1>1, <1>2, <2>1, <2>4 DEF PaymentOps, FulfillmentOps
<1>5. CASE CancelWrite(h)
  <2>1. \A o \in Orders : Moves(h, o)
    BY <1>1, <1>5 DEF CancelWrite, TypeOK, Moves
  <2> QED  BY <1>1, <1>2, <1>5, <2>1 DEF CancelWrite, At, FulfillmentOps
<1>6. CASE PaymentRefunded(h)
  <2>1. \A o \in Orders : Moves(h, o)
    BY <1>1, <1>6 DEF PaymentRefunded, TypeOK, Moves
  <2> QED  BY <1>1, <1>2, <1>6, <2>1 DEF PaymentRefunded, At, FulfillmentOps
<1>7. CASE Fulfillment(h) /\ order' # order
  <2>1. /\ op \in FulfillmentOps /\ order[on].status = Before[op]
        /\ order'[on].status = op /\ \A o \in Orders : o # on => order'[o] = order[o]
    BY <1>1, <1>7 DEF Fulfillment, At, TypeOK
  <2>2. \A o \in Orders : Moves(h, o)
    BY <2>1 DEF Moves
  <2> QED  BY <1>1, <1>2, <2>1, <2>2
<1> QED  BY <1>3, <1>4, <1>5, <1>6, <1>7 DEF Proceed, Fail, CancelRead, PaymentRead, StockAnswers,
            StockConflicts, LateStock, StockFails, Crash

\* Nothing but a cancellation takes an order back.
LEMMA StaysAsFar ==
  ASSUME NEW h \in Calls, NEW o \in Orders, NEW s \in FulfillmentOps, Moves(h, o), AsFar(o, s)
  PROVE  AsFar(o, s)'
BY DEF AsFar, Moves, FulfillmentOps, Rank, Before

-----------------------------------------------------------------------------
(***************************************************************************)
(* What the services know of each other.                                   *)
(***************************************************************************)

\* The stage a request books follows the one it found.
LEMMA StageOrder ==
  ASSUME NEW op \in FulfillmentOps
  PROVE  /\ Progress[Earlier[op]] + 1 = Rank[op] /\ Progress[Stages[op]] = Rank[op]
         /\ Earlier[op] # "failed" /\ Stages[op] \notin {"none", "failed"}
         /\ Rank[op] \in Nat /\ Progress[Earlier[op]] \in Nat
         /\ op # "processing" => Earlier[op] # "none"
BY DEF FulfillmentOps, Progress, Earlier, Rank, Stages

\* Progress is a number wherever it is defined.
LEMMA ProgressIsNat == \A s \in {"none", "pending", "shipped", "delivered"} : Progress[s] \in Nat
BY DEF Progress

\* Order's own steps keep Shipping's view of it.
LEMMA OrderMovesShip ==
  ASSUME ShipmentTypeOK, OrderInv, ShipInv, NEW h \in Calls, Proceed(h) \/ Fail(h), UNCHANGED logistics
  PROVE  ShipInv'
<1> USE DEF logistics
<1>1. /\ call[h] \in Requests
      /\ call'[h].op = call[h].op /\ call'[h].on = call[h].on
      /\ \A k \in Calls : k # h => call'[k] = call[k]
      /\ \A o \in Orders : Moves(h, o)
      /\ call[h].op \in FulfillmentOps /\ call'[h].pc = "ok" => order'[call[h].on].status = call[h].op
  BY RequestMoves DEF ShipmentTypeOK
<1>2. TaskInv'
  <2>1. \A k \in Clerks : task[k] # NoTask => task[k].call \in Calls
    BY DEF ShipmentTypeOK
  <2>2. Linked'
    BY <1>1, <2>1 DEF ShipInv, TaskInv, Linked
  <2> QED  BY <2>2 DEF ShipInv, TaskInv, OneTaskPerCall, OneRowLock, LocksRow, RowStays
<1>3. AskedInOrder'
  BY <1>1 DEF ShipInv, AskedInOrder
<1>4. AcceptedStages'
  <2> SUFFICES ASSUME NEW k \in Calls, (call[k].op \in FulfillmentOps /\ call[k].pc = "ok")'
               PROVE  AsFar(call[k].on, call[k].op)'
    BY DEF AcceptedStages
  <2>1. CASE k = h
    <3>1. order'[call'[k].on].status = call'[k].op
      BY <1>1, <2>1
    <3> QED  BY <3>1 DEF AsFar, FulfillmentOps, Rank
  <2>2. CASE k # h
    <3>1. call[k].op \in FulfillmentOps /\ call[k].pc = "ok" /\ call'[k] = call[k] /\ call[k].on \in Orders
      BY <1>1, <2>2, InProgress DEF ShipmentTypeOK, Requests
    <3>2. PICK o \in Orders, op \in FulfillmentOps : call[k].on = o /\ call[k].op = op
      BY <3>1
    <3>3. AsFar(o, op) /\ Moves(h, o)
      BY <1>1, <3>1, <3>2 DEF ShipInv, AcceptedStages
    <3>4. AsFar(o, op)'
      BY <3>3, StaysAsFar
    <3> QED  BY <3>1, <3>2, <3>4
  <2> QED  BY <2>1, <2>2
<1>5. ShipmentTracksOrder'
  <2> SUFFICES ASSUME NEW o \in Orders
               PROVE  /\ shipment[o] \notin {"none", "failed"} /\ order'[o].status # "cancelled"
                           => \E op \in FulfillmentOps : /\ order'[o].status = op
                                                         /\ Progress[shipment[o]] <= Rank[op]
                      /\ \A op \in FulfillmentOps :
                           order'[o].status = op /\ shipment[o] # "failed"
                             => Rank[op] <= Progress[shipment[o]] + 1
    BY DEF ShipmentTracksOrder
  <2>1. /\ shipment[o] \in {"none", "pending", "shipped", "delivered", "failed"}
        /\ shipment[o] \notin {"none", "failed"} /\ order[o].status # "cancelled"
             => \E op \in FulfillmentOps : /\ order[o].status = op
                                           /\ Progress[shipment[o]] <= Rank[op]
        /\ \A op \in FulfillmentOps :
             order[o].status = op /\ shipment[o] # "failed" => Rank[op] <= Progress[shipment[o]] + 1
    BY DEF ShipInv, ShipmentTracksOrder, ShipmentTypeOK
  <2>2. Moves(h, o)
    BY <1>1
  <2>3. CASE order'[o].status = order[o].status
    BY <2>1, <2>3
  <2>4. CASE order'[o].status = "cancelled"
    BY <2>4 DEF FulfillmentOps
  <2>5. CASE order[o].status = "pending_payment" /\ order'[o].status \notin FulfillmentOps
    BY <2>1, <2>5 DEF FulfillmentOps
  <2>6. CASE /\ call[h].op \in FulfillmentOps /\ call[h].on = o
             /\ order[o].status = Before[call[h].op] /\ order'[o].status = call[h].op
    <3>1. shipment[o] = "failed" \/ Rank[call[h].op] <= Progress[shipment[o]] + 1
      BY <2>6 DEF ShipInv, AskedInOrder
    <3>2. order[o].status # "cancelled"
      BY <2>6 DEF FulfillmentOps, Before
    <3>3. ASSUME NEW op \in FulfillmentOps, order[o].status = op
          PROVE  Rank[op] <= Rank[call[h].op] /\ Rank[op] \in Nat /\ Rank[call[h].op] \in Nat
      BY <2>6, <3>3 DEF FulfillmentOps, Before, Rank
    <3>4. ASSUME shipment[o] \notin {"none", "failed"}
          PROVE  Progress[shipment[o]] <= Rank[call[h].op]
      BY <2>1, <3>2, <3>3, <3>4, ProgressIsNat
    <3> QED  BY <2>6, <3>1, <3>4
  <2> QED  BY <2>2, <2>3, <2>4, <2>5, <2>6 DEF Moves
<1> QED  BY <1>2, <1>3, <1>4, <1>5 DEF ShipInv

\* So do requests that others make of Order, and answers that nobody in Shipping
\* waits for.
LEMMA OthersAsk ==
  ASSUME ShipmentTypeOK, ShipInv, NEW h \in Calls, UNCHANGED <<order, group, logistics>>,
         NEW c \in Requests \union {Idle}, call' = [call EXCEPT ![h] = c],
         c.op \notin FulfillmentOps, ~ClerkWaits(h)
  PROVE  ShipInv'
<1> USE DEF logistics
<1>1. \A k \in Calls : call'[k] = IF k = h THEN c ELSE call[k]
  BY DEF ShipmentTypeOK, TypeOK
<1>2. Linked'
  <2> SUFFICES ASSUME NEW k \in Clerks, task[k] # NoTask
               PROVE  call'[task[k].call].op = task[k].op /\ call'[task[k].call].on = task[k].on
    BY DEF Linked
  <2>1. task[k].call \in Calls /\ task[k].call # h
    BY DEF ShipmentTypeOK, ClerkWaits
  <2> QED  BY <1>1, <2>1 DEF ShipInv, TaskInv, Linked
<1>3. TaskInv'
  BY <1>2 DEF ShipInv, TaskInv, OneTaskPerCall, OneRowLock, LocksRow, RowStays
<1>4. AskedInOrder' /\ AcceptedStages'
  BY <1>1 DEF ShipInv, AskedInOrder, AcceptedStages, AsFar
<1>5. ShipmentTracksOrder'
  BY DEF ShipInv, ShipmentTracksOrder
<1> QED  BY <1>3, <1>4, <1>5 DEF ShipInv

\* A request of Shipping takes the lock it needs and asks Order for the stage
\* after the one it found.
LEMMA AskOrderShip ==
  ASSUME ShipmentTypeOK, ShipInv, NEW k \in Clerks, NEW op \in FulfillmentOps, NEW o \in Orders,
         NEW h \in Calls, AskOrder(k, op, o, h)
  PROVE  ShipInv'
<1> DEFINE t == [pc |-> "waits", op |-> op, on |-> o, call |-> h]
           c == [op |-> op, on |-> o, arg |-> 0, pc |-> "asked"]
<1>1. \A l \in Calls : call'[l] = IF l = h THEN c ELSE call[l]
  BY DEF AskOrder, Ask, ShipmentTypeOK, TypeOK
<1>2. \A l \in Clerks : task'[l] = IF l = k THEN t ELSE task[l]
  BY DEF AskOrder, ShipmentTypeOK
<1>3. t # NoTask /\ call[h] = Idle /\ task[k] = NoTask /\ UNCHANGED <<order, shipment>>
  BY DEF AskOrder, Ask, NoTask
<1>4. \A l \in Clerks : task[l] # NoTask => task[l].call \in Calls /\ task[l].call # h
  <2> SUFFICES ASSUME NEW l \in Clerks, task[l] # NoTask PROVE task[l].call \in Calls /\ task[l].call # h
    OBVIOUS
  <2>1. task[l].call \in Calls /\ task[l].op \in FulfillmentOps
    BY DEF ShipmentTypeOK
  <2>2. call[task[l].call].op \in FulfillmentOps
    BY <2>1 DEF ShipInv, TaskInv, Linked
  <2> QED  BY <1>3, <2>1, <2>2 DEF Idle, FulfillmentOps
<1>5. \A l \in Clerks : LocksRow(l) => task[l].on # o
  BY DEF LocksRow, AskOrder, RowLocked
<1>6. shipment[o] = Earlier[op]
  BY DEF AskOrder
<1>7. Linked'
  <2> SUFFICES ASSUME NEW l \in Clerks, task'[l] # NoTask
               PROVE  call'[task'[l].call].op = task'[l].op /\ call'[task'[l].call].on = task'[l].on
    BY DEF Linked
  <2>1. CASE l = k
    BY <1>1, <1>2, <2>1
  <2>2. CASE l # k
    BY <1>1, <1>2, <1>4, <2>2 DEF ShipInv, TaskInv, Linked
  <2> QED  BY <2>1, <2>2
<1>8. OneTaskPerCall'
  BY <1>2, <1>4 DEF ShipInv, TaskInv, OneTaskPerCall
<1>9. OneRowLock'
  BY <1>2, <1>5 DEF ShipInv, TaskInv, OneRowLock, LocksRow
<1>10. RowStays'
  BY <1>2, <1>3, <1>6 DEF ShipInv, TaskInv, RowStays, LocksRow
<1>11. AskedInOrder'
  BY <1>1, <1>3, <1>6, StageOrder DEF ShipInv, AskedInOrder
<1>12. AcceptedStages'
  BY <1>1, <1>3 DEF ShipInv, AcceptedStages, AsFar
<1>13. ShipmentTracksOrder'
  BY <1>3 DEF ShipInv, ShipmentTracksOrder
<1> QED  BY <1>7, <1>8, <1>9, <1>10, <1>11, <1>12, <1>13 DEF ShipInv, TaskInv

\* A task that ends leaves the others as they were.
LEMMA TaskEnds ==
  ASSUME ShipmentTypeOK, TaskInv, NEW k \in Clerks, task' = [task EXCEPT ![k] = NoTask]
  PROVE  /\ \A l \in Clerks : task'[l] = IF l = k THEN NoTask ELSE task[l]
         /\ OneTaskPerCall' /\ OneRowLock'
<1>1. \A l \in Clerks : task'[l] = IF l = k THEN NoTask ELSE task[l]
  BY DEF ShipmentTypeOK
<1> QED  BY <1>1 DEF TaskInv, OneTaskPerCall, OneRowLock, LocksRow

\* What is booked is the next stage, which Order has reached.
LEMMA BookShip ==
  ASSUME ShipmentTypeOK, ShipInv, NEW k \in Clerks, Book(k)
  PROVE  ShipInv' /\ shipment[task[k].on] = Earlier[task[k].op]
<1> DEFINE t == task[k]
<1>1. t # NoTask /\ t.op \in FulfillmentOps /\ t.on \in Orders /\ t.call \in Calls
  BY DEF Book, ShipmentTypeOK
<1>2. shipment[t.on] = Earlier[t.op]
  BY <1>1 DEF Book, ShipInv, TaskInv, RowStays, LocksRow, Earlier
<1>3. AsFar(t.on, t.op)
  BY <1>1 DEF Book, OrderAgreed, ShipInv, TaskInv, Linked, AcceptedStages
<1>4. /\ \A l \in Calls : call'[l] = IF l = t.call THEN Idle ELSE call[l]
      /\ \A l \in Clerks : task'[l] = IF l = k THEN NoTask ELSE task[l]
      /\ OneTaskPerCall' /\ OneRowLock'
      /\ order' = order
  <2>1. task' = [task EXCEPT ![k] = NoTask]
    BY DEF Book
  <2> QED  BY <2>1, TaskEnds DEF Book, Return, ShipmentTypeOK, TypeOK, ShipInv
<1>5. \A o \in Orders : shipment'[o] = IF o = t.on THEN Stages[t.op] ELSE shipment[o]
  BY DEF Book, ShipmentTypeOK
<1>6. Linked'
  <2> SUFFICES ASSUME NEW l \in Clerks, task'[l] # NoTask
               PROVE  call'[task'[l].call].op = task'[l].op /\ call'[task'[l].call].on = task'[l].on
    BY DEF Linked
  <2>1. l # k /\ task'[l] = task[l] /\ task[l] # NoTask
    BY <1>4
  <2>2. task[l].call \in Calls /\ task[l].call # t.call
    BY <1>1, <2>1 DEF ShipmentTypeOK, ShipInv, TaskInv, OneTaskPerCall
  <2> QED  BY <1>4, <2>1, <2>2 DEF ShipInv, TaskInv, Linked
<1>7. RowStays'
  <2> SUFFICES ASSUME NEW l \in Clerks, LocksRow(l)'
               PROVE  shipment'[task'[l].on] = Earlier[task'[l].op]
    BY DEF RowStays
  <2>1. l # k /\ task'[l] = task[l] /\ LocksRow(l) /\ task[l].on \in Orders /\ task[l].op \in FulfillmentOps
    BY <1>4 DEF LocksRow, ShipmentTypeOK
  <2>2. shipment[task[l].on] = Earlier[task[l].op] /\ Earlier[task[l].op] # "none"
    BY <2>1, StageOrder DEF ShipInv, TaskInv, RowStays, LocksRow
  <2>3. task[l].on # t.on
    <3>1. CASE t.op = "processing"
      BY <1>2, <2>2, <3>1 DEF Earlier
    <3>2. CASE t.op # "processing"
      BY <1>1, <2>1, <3>2 DEF ShipInv, TaskInv, OneRowLock, LocksRow
    <3> QED  BY <3>1, <3>2
  <2> QED  BY <1>5, <2>1, <2>2, <2>3
<1>8. AskedInOrder'
  <2> SUFFICES ASSUME NEW h \in Calls, call'[h].op \in FulfillmentOps
               PROVE  \/ shipment'[call'[h].on] = "failed"
                      \/ Rank[call'[h].op] <= Progress[shipment'[call'[h].on]] + 1
    BY DEF AskedInOrder
  <2>1. call'[h] = call[h] /\ call[h].on \in Orders
    BY <1>4, InProgress DEF Idle, FulfillmentOps, ShipmentTypeOK, TypeOK, Requests
  <2>2. shipment[call[h].on] = "failed" \/ Rank[call[h].op] <= Progress[shipment[call[h].on]] + 1
    BY <2>1 DEF ShipInv, AskedInOrder
  <2>3. CASE call[h].on = t.on
    <3>1. /\ Rank[call[h].op] <= Progress[Earlier[t.op]] + 1
          /\ Progress[Stages[t.op]] = Progress[Earlier[t.op]] + 1
          /\ Rank[call[h].op] \in Nat /\ Progress[Earlier[t.op]] \in Nat
      BY <1>1, <1>2, <2>1, <2>2, <2>3, StageOrder
    <3>2. Rank[call[h].op] <= Progress[Stages[t.op]] + 1
      BY <3>1
    <3> QED  BY <1>1, <1>5, <2>1, <2>3, <3>2
  <2>4. CASE call[h].on # t.on
    BY <1>5, <2>1, <2>2, <2>4
  <2> QED  BY <2>3, <2>4
<1>9. AcceptedStages'
  BY <1>4 DEF ShipInv, AcceptedStages, AsFar, Idle, FulfillmentOps
<1>10. ShipmentTracksOrder'
  <2> SUFFICES ASSUME NEW o \in Orders
               PROVE  /\ shipment'[o] \notin {"none", "failed"} /\ order[o].status # "cancelled"
                           => \E op \in FulfillmentOps : /\ order[o].status = op
                                                         /\ Progress[shipment'[o]] <= Rank[op]
                      /\ \A op \in FulfillmentOps :
                           order[o].status = op /\ shipment'[o] # "failed"
                             => Rank[op] <= Progress[shipment'[o]] + 1
    BY <1>4 DEF ShipmentTracksOrder
  <2>1. CASE o # t.on
    BY <1>5, <2>1 DEF ShipInv, ShipmentTracksOrder
  <2>2. CASE o = t.on
    <3>1. shipment'[o] = Stages[t.op] /\ Progress[Stages[t.op]] = Progress[Earlier[t.op]] + 1
          /\ Progress[Stages[t.op]] = Rank[t.op] /\ Progress[Earlier[t.op]] \in Nat
      BY <1>1, <1>5, <2>2, StageOrder
    <3>2. \A op \in FulfillmentOps : order[o].status = op => Rank[op] <= Progress[Earlier[t.op]] + 1
                                                             /\ Rank[op] \in Nat
      BY <1>1, <1>2, <2>2, StageOrder DEF ShipInv, ShipmentTracksOrder
    <3>3. \A op \in FulfillmentOps : order[o].status = op => Rank[op] <= Progress[Stages[t.op]] + 1
      BY <3>1, <3>2
    <3> QED  BY <1>3, <2>2, <3>1, <3>3 DEF AsFar
  <2> QED  BY <2>1, <2>2
<1> QED  BY <1>2, <1>4, <1>6, <1>7, <1>8, <1>9, <1>10 DEF ShipInv, TaskInv

\* A request that is given up leaves everything else as it is.
LEMMA AbandonShip ==
  ASSUME ShipmentTypeOK, ShipInv, NEW k \in Clerks, Abandon(k)
  PROVE  ShipInv'
<1>1. /\ \A l \in Clerks : task'[l] = IF l = k THEN NoTask ELSE task[l]
      /\ OneTaskPerCall' /\ OneRowLock'
  BY TaskEnds DEF Abandon, ShipInv
<1>2. UNCHANGED <<order, call, shipment>>
  BY DEF Abandon, vars
<1>3. Linked' /\ RowStays'
  BY <1>1, <1>2 DEF ShipInv, TaskInv, Linked, RowStays, LocksRow
<1>4. AskedInOrder' /\ AcceptedStages' /\ ShipmentTracksOrder'
  BY <1>2 DEF ShipInv, AskedInOrder, AcceptedStages, AsFar, ShipmentTracksOrder
<1> QED  BY <1>1, <1>3, <1>4 DEF ShipInv, TaskInv

\* An exception is recorded only while nobody has the row.
LEMMA ExceptionShip ==
  ASSUME ShipmentTypeOK, ShipInv, NEW o \in Orders, RecordException(o)
  PROVE  ShipInv'
<1>1. /\ \A p \in Orders : shipment'[p] = IF p = o THEN "failed" ELSE shipment[p]
      /\ UNCHANGED <<order, call, task>> /\ shipment[o] \in {"pending", "shipped"}
  BY DEF RecordException, vars, ShipmentTypeOK
<1>2. RowStays'
  <2>1. \A k \in Clerks : LocksRow(k) => task[k].on # o /\ task[k].on \in Orders
    BY DEF RecordException, RowLocked, LocksRow, ShipmentTypeOK
  <2> QED  BY <1>1, <2>1 DEF ShipInv, TaskInv, RowStays, LocksRow
<1>3. TaskInv'
  BY <1>1, <1>2 DEF ShipInv, TaskInv, Linked, OneTaskPerCall, OneRowLock, LocksRow
<1>4. AskedInOrder'
  <2>1. \A h \in Calls : call[h].op \in FulfillmentOps => call[h].on \in Orders
    BY DEF ShipmentTypeOK, TypeOK, Requests, Idle, FulfillmentOps
  <2> QED  BY <1>1, <2>1 DEF ShipInv, AskedInOrder
<1>5. AcceptedStages' /\ ShipmentTracksOrder'
  BY <1>1 DEF ShipInv, AcceptedStages, AsFar, ShipmentTracksOrder
<1> QED  BY <1>3, <1>4, <1>5 DEF ShipInv

-----------------------------------------------------------------------------
(***************************************************************************)
(* Both services together.                                                 *)
(***************************************************************************)

\* A step of the two services is a step of Order, or leaves it alone.
LEMMA StagesKept == ShipmentTypeOK /\ [ShipmentsNext]_shippingVars => [Next]_vars
<1> SUFFICES ASSUME ShipmentTypeOK, [ShipmentsNext]_shippingVars PROVE [Next]_vars
  OBVIOUS
<1>1. ASSUME NEW k \in Clerks, Clerk(k)
      PROVE  [Next]_vars
  <2>1. CASE Book(k)
    <3>1. task[k].call \in Calls
      BY <2>1 DEF Book, ShipmentTypeOK
    <3> QED  BY <2>1, <3>1 DEF Book, Next
  <2>2. CASE Abandon(k)
    BY <2>2 DEF Abandon
  <2>3. ASSUME NEW o \in Orders, NEW op \in FulfillmentOps, NEW h \in Calls, AskOrder(k, op, o, h)
        PROVE  Shipping(h)
    BY <2>3 DEF AskOrder, Shipping
  <2> QED  BY <1>1, <2>1, <2>2, <2>3 DEF Clerk, Next
<1>2. ASSUME NEW o \in Orders, RecordException(o) \/ GroupErodes(o)
      PROVE  [Next]_vars
  BY <1>2 DEF RecordException, Next
<1>3. ASSUME NEW h \in Calls, OrderGoesOn(h)
      PROVE  [Next]_vars
  BY <1>3 DEF OrderGoesOn, Next
<1> QED  BY <1>1, <1>2, <1>3 DEF ShipmentsNext, shippingVars

\* Requests of the customer and of Payment are not for Shipping's stages.
LEMMA OthersAskShip ==
  ASSUME ShipmentTypeOK, ShipInv, NEW h \in Calls, Customer(h) \/ Payment(h), UNCHANGED logistics
  PROVE  ShipInv'
<1>1. PICK op \in Ops, o \in Orders, arg \in Nat : op \notin FulfillmentOps /\ Ask(h, op, o, arg)
  BY TotalAssumption, VersionAssumption DEF Customer, Payment, Ops, PaymentOps, FulfillmentOps
<1> DEFINE c == [op |-> op, on |-> o, arg |-> arg, pc |-> "asked"]
<1>2. c \in Requests /\ c.op \notin FulfillmentOps
  BY <1>1 DEF Requests, PCs
<1>3. call' = [call EXCEPT ![h] = c] /\ UNCHANGED <<order, group>> /\ call[h] = Idle
  BY <1>1 DEF Ask
<1>4. ~ClerkWaits(h)
  <2> SUFFICES ASSUME NEW k \in Clerks, task[k] # NoTask, task[k].call = h PROVE FALSE
    BY DEF ClerkWaits
  <2>1. call[h].op \in FulfillmentOps
    BY DEF ShipInv, TaskInv, Linked, ShipmentTypeOK
  <2> QED  BY <1>3, <2>1 DEF Idle, FulfillmentOps
<1> HIDE DEF c
<1> QED  BY <1>2, <1>3, <1>4, OthersAsk

\* Every step keeps what the services know of each other.
LEMMA ShipStep ==
  ASSUME ShipmentTypeOK, OrderInv, ShipInv, [ShipmentsNext]_shippingVars
  PROVE  ShipInv'
<1>1. ASSUME NEW k \in Clerks, Clerk(k)
      PROVE  ShipInv'
  BY <1>1, AskOrderShip, BookShip, AbandonShip DEF Clerk
<1>2. ASSUME UNCHANGED <<order, call, logistics>>
      PROVE  ShipInv'
  BY <1>2 DEF logistics, ShipInv, TaskInv, Linked, OneTaskPerCall, OneRowLock, LocksRow, RowStays,
     AskedInOrder, AcceptedStages, AsFar, ShipmentTracksOrder
<1>3. ASSUME NEW h \in Calls, OrderGoesOn(h)
      PROVE  ShipInv'
  <2>1. CASE Return(h) /\ ~ClerkWaits(h)
    <3>1. UNCHANGED logistics
      BY <1>3 DEF OrderGoesOn
    <3>2. Idle \in Requests \union {Idle} /\ Idle.op \notin FulfillmentOps
      BY DEF Idle, FulfillmentOps
    <3> QED  BY <2>1, <3>1, <3>2, OthersAsk DEF Return
  <2> QED  BY <1>3, <2>1, OrderMovesShip, OthersAskShip DEF OrderGoesOn
<1> QED  BY <1>1, <1>2, <1>3, ExceptionShip DEF ShipmentsNext, GroupErodes, rows, shippingVars, vars

\* The types of Shipping's variables, given those of Order's.
LEMMA ShipTypes ==
  ASSUME ShipmentTypeOK, ShipInv, TypeOK', [ShipmentsNext]_shippingVars
  PROVE  ShipmentTypeOK'
<1> DEFINE Tasks == [pc : {"waits"}, op : FulfillmentOps, on : Orders, call : Calls] \union {NoTask}
           Marks == {"none", "pending", "shipped", "delivered", "failed"}
<1>1. shipment \in [Orders -> Marks] /\ task \in [Clerks -> Tasks]
  BY DEF ShipmentTypeOK
<1>2. ASSUME NEW k \in Clerks, Clerk(k)
      PROVE  shipment' \in [Orders -> Marks] /\ task' \in [Clerks -> Tasks]
  <2>1. CASE Book(k)
    <3>1. task[k].op \in FulfillmentOps
      BY <1>1, <2>1 DEF Book
    <3>2. Stages[task[k].op] \in Marks
      BY <3>1 DEF Stages, FulfillmentOps
    <3> QED  BY <1>1, <2>1, <3>2 DEF Book
  <2>2. CASE Abandon(k)
    BY <1>1, <2>2 DEF Abandon
  <2>3. ASSUME NEW o \in Orders, NEW op \in FulfillmentOps, NEW h \in Calls, AskOrder(k, op, o, h)
        PROVE  shipment' \in [Orders -> Marks] /\ task' \in [Clerks -> Tasks]
    BY <1>1, <2>3 DEF AskOrder
  <2> QED  BY <1>2, <2>1, <2>2, <2>3 DEF Clerk
<1>3. ASSUME NEW o \in Orders, RecordException(o)
      PROVE  shipment' \in [Orders -> Marks] /\ task' \in [Clerks -> Tasks]
  BY <1>1, <1>3 DEF RecordException
<1>4. ASSUME UNCHANGED logistics
      PROVE  shipment' \in [Orders -> Marks] /\ task' \in [Clerks -> Tasks]
  BY <1>1, <1>4 DEF logistics
<1>5. shipment' \in [Orders -> Marks] /\ task' \in [Clerks -> Tasks]
  <2> HIDE DEF Marks, Tasks
  <2> QED  BY <1>2, <1>3, <1>4 DEF ShipmentsNext, OrderGoesOn, shippingVars
<1> QED  BY <1>5 DEF ShipmentTypeOK

\* The inductive invariant of the two services together.
ShipmentsInv == ShipmentTypeOK /\ OrderInv /\ ShipInv

\* It holds when checkout has left every order waiting for its payment.
LEMMA ShipmentsStart == ShipmentsInit => ShipmentsInv
<1> SUFFICES ASSUME ShipmentsInit PROVE ShipmentsInv
  OBVIOUS
<1>1. TypeOK /\ OrderInv
  BY InitType, InitInv DEF ShipmentsInit
<1>2. ShipmentTypeOK
  BY <1>1 DEF ShipmentsInit, ShipmentTypeOK
<1>3. ShipInv
  BY DEF ShipmentsInit, Init, ShipInv, TaskInv, Linked, OneTaskPerCall, OneRowLock, LocksRow, RowStays,
     AskedInOrder, AcceptedStages, ShipmentTracksOrder, Idle, FulfillmentOps
<1> QED  BY <1>1, <1>2, <1>3 DEF ShipmentsInv

\* Every step keeps it.
LEMMA ShipmentsStep == ShipmentsInv /\ [ShipmentsNext]_shippingVars => ShipmentsInv'
<1> SUFFICES ASSUME ShipmentsInv, [ShipmentsNext]_shippingVars PROVE ShipmentsInv'
  OBVIOUS
<1>1. TypeOK' /\ OrderInv'
  BY StagesKept, NextServes, ServesType, ServesInv DEF ShipmentsInv, ShipmentTypeOK
<1> QED  BY <1>1, ShipStep, ShipTypes DEF ShipmentsInv

\* So it holds in every reachable state.
LEMMA ShipmentsInvariance == ShipmentsSpec => []ShipmentsInv
BY ShipmentsStart, ShipmentsStep, PTL DEF ShipmentsSpec

\* Order, with Shipping for its only seller, implements Order with any senders
\* of requests: what OrdersProofs proves holds here too.
THEOREM OrdersImplemented == ShipmentsSpec => Spec
<1>1. ShipmentsInit => Init
  BY DEF ShipmentsInit
<1>2. ShipmentsInv /\ [ShipmentsNext]_shippingVars => [Next]_vars
  BY StagesKept DEF ShipmentsInv
<1> QED  BY <1>1, <1>2, ShipmentsInvariance, PTL DEF ShipmentsSpec, Spec

\* The variables of Order and of Shipping keep their types.
THEOREM ShipmentTypesStay == ShipmentsSpec => []ShipmentTypeOK
<1>1. ShipmentsInv => ShipmentTypeOK
  BY DEF ShipmentsInv
<1> QED  BY <1>1, ShipmentsInvariance, PTL

\* A shipment is never ahead of its order nor more than a step behind it,
\* however requests time out, are carried out late, race or stop between
\* Order's answer and their commit (shipment_service.py:67, ship, deliver).
THEOREM WithinAStep == ShipmentsSpec => []ShipmentTracksOrder
<1>1. ShipmentsInv => ShipmentTracksOrder
  BY DEF ShipmentsInv, ShipInv
<1> QED  BY <1>1, ShipmentsInvariance, PTL

\* A shipment goes through its stages one by one, and an exception neither
\* overwrites nor is overwritten by a request that waits for Order, because
\* ship and deliver keep the row locked (shipment_service.py _owned_shipment).
THEOREM StagesStayInOrder == ShipmentsSpec => StagesInOrder
<1> DEFINE InOrder(o) ==
      shipment'[o] # shipment[o] =>
       \/ shipment[o] \in {"pending", "shipped"} /\ shipment'[o] = "failed"
       \/ \E op \in FulfillmentOps : shipment[o] = Earlier[op] /\ shipment'[o] = Stages[op]
<1>1. ShipmentsInv /\ [ShipmentsNext]_shippingVars => [\A o \in Orders : InOrder(o)]_shippingVars
  <2> SUFFICES ASSUME ShipmentsInv, ShipmentsNext, NEW o \in Orders PROVE InOrder(o)
    OBVIOUS
  <2>1. ASSUME NEW k \in Clerks, Clerk(k)
        PROVE  InOrder(o)
    <3>1. CASE Book(k)
      <4>1. shipment[task[k].on] = Earlier[task[k].op]
        BY <3>1, BookShip DEF ShipmentsInv
      <4>2. /\ task[k].op \in FulfillmentOps /\ task[k].on \in Orders
            /\ \A p \in Orders : shipment'[p] = IF p = task[k].on THEN Stages[task[k].op] ELSE shipment[p]
        BY <3>1 DEF Book, ShipmentsInv, ShipmentTypeOK
      <4> QED  BY <4>1, <4>2
    <3> QED  BY <2>1, <3>1 DEF Clerk, Abandon, AskOrder
  <2>2. ASSUME NEW p \in Orders, RecordException(p)
        PROVE  InOrder(o)
    BY <2>2 DEF RecordException, ShipmentsInv, ShipmentTypeOK
  <2>3. CASE UNCHANGED logistics
    BY <2>3 DEF logistics
  <2> QED  BY <2>1, <2>2, <2>3 DEF ShipmentsNext, OrderGoesOn
<1> QED  BY <1>1, ShipmentsInvariance, PTL DEF ShipmentsSpec, StagesInOrder

-----------------------------------------------------------------------------
(***************************************************************************)
(* Payment.  PayInv adds to OrderInv what Payment, Stripe and Order know   *)
(* of each other.  The webhook's row lock keeps the event it works on      *)
(* unrecorded (HookIsTrue), so an outcome is booked by one event and a row *)
(* that has one was never written by another (RowIsTrue); the refund's     *)
(* keeps the row as it was read (RefundIsTrue).  Money Stripe gave back    *)
(* and Payment has not booked yet is a sum over the refunds still at work  *)
(* (Covered): it is what a retry with its key books without moving money   *)
(* again.                                                                  *)
(***************************************************************************)

Amounts == [r \in Refunds |-> r.amount]

Capture(o) == [on |-> o, op |-> "authorized", attempt |-> 0]

-----------------------------------------------------------------------------
\* The row of an order tells the same of its payment in both columns.
StatusTellsPay == \A o \in Orders :
  /\ order[o].status \in Fulfilled => order[o].pay \in Refundable
  /\ order[o].status = "payment_failed" => order[o].pay = "failed"

\* What Order accepted about a payment it has done.
AcceptedIsDone == \A h \in Calls : call[h].pc = "ok" =>
  /\ call[h].op = "authorized" => order[call[h].on].pay \in Refundable
  /\ call[h].op = "failed"     => order[call[h].on].pay = "failed"

\* Order is asked to authorize what Stripe took, and told sums Payment has booked.
AskedIsTrue == \A h \in Calls :
  /\ call[h].op = "authorized" => intent[call[h].on] = "captured"
  /\ call[h].op = "refunded"   => call[h].arg \in 1 .. payment[call[h].on].refunded

OrderSide == StatusTellsPay /\ AcceptedIsDone /\ AskedIsTrue

\* Stripe reports nothing of an intent that nobody could confirm yet.
SentIsTrue == \A e \in sent :
  /\ intent[e.on] \in {"open", "captured"}
  /\ e.op = "authorized" => e = Capture(e.on) /\ intent[e.on] = "captured"

\* The row of a payment: no outcome before the intent can be confirmed, none but
\* by the event that was recorded with it, and its two columns agree.
RowIsTrue == \A o \in Orders :
  /\ intent[o] \in {"none", "created"} => payment[o].status = "none"
  /\ payment[o].status \in Settled => Capture(o) \in done
  /\ payment[o].status \notin Settled => payment[o].refunded = 0
  /\ payment[o].status = "refunded" <=> payment[o].refunded = Total

\* A webhook at work has an event that is still to be recorded, and waits for
\* the request it made.
HookIsTrue == \A o \in Orders : hook[o] # NoHook =>
  /\ hook[o].event \in sent \ done /\ hook[o].event.on = o
  /\ call[hook[o].call].op = hook[o].event.op /\ call[hook[o].call].on = o

WebhookSide == SentIsTrue /\ RowIsTrue /\ HookIsTrue

\* Refund r has locked the row of its payment.
HasRow(r) == refund[r].pc \in {"stripe", "record"}

OneRowHolder ==
  /\ \A r \in Refunds : HasRow(r) => hook[r.on] = NoHook
  /\ \A r, s \in Refunds : HasRow(r) /\ HasRow(s) /\ r.on = s.on => r = s

\* The row is as it was read; money moved before it is booked; what is to be
\* reported is part of what is booked.
RefundIsTrue == \A r \in Refunds :
  /\ HasRow(r) => /\ payment[r.on].status \in {"succeeded", "partially_refunded"}
                  /\ AmountOf(r) <= Remaining(r.on)
  /\ refund[r].pc = "record" => r \in moved
  /\ refund[r].pc = "notify" => refund[r].total \in 1 .. payment[r.on].refunded

\* Refunds Stripe carried out and Payment may still book.
Unbooked(o) == {r \in moved : r.on = o /\ refund[r].pc \in {"new", "stripe", "record"}}

\* Everything is given back, or at least what was and may yet be booked.
Covered(o) ==
  \/ returned[o] = Total
  \/ payment[o].refunded + Sums!Total(Unbooked(o), Amounts) <= returned[o]

MoneySide ==
  /\ IsFiniteSet(moved)
  /\ \A r \in moved : r.amount = 0 => returned[r.on] = Total
  /\ \A o \in Orders : Covered(o)

RefundSide == OneRowHolder /\ RefundIsTrue /\ MoneySide

PayInv == /\ OrderSide /\ WebhookSide /\ RefundSide
          /\ PaymentsAgreeWithOrders /\ PaidMeansCaptured /\ OrdersLagOnRefunds

-----------------------------------------------------------------------------
(***************************************************************************)
(* Steps of Order.                                                         *)
(***************************************************************************)

\* A call that was asked for something is a request.
LEMMA AskedFor ==
  ASSUME TypeOK, NEW h \in Calls, call[h].op # "none"
  PROVE  call[h] \in Requests /\ call[h].on \in Orders /\ call[h].arg \in Nat
BY DEF TypeOK, Idle, Requests

\* How one step of request h may change the row of an order.
PayMoves(h, o) ==
  \/ order'[o].pay = order[o].pay /\ order'[o].status \in {order[o].status, "cancelled"}
  \/ /\ call[h].on = o /\ call[h].op \in PaymentOps
     /\ order[o].pay = "pending"
     /\ order'[o].status = Outcome[call[h].op].status /\ order'[o].pay = Outcome[call[h].op].pay
  \/ /\ call[h].on = o /\ call[h].op = "refunded"
     /\ order[o].pay \in Refundable /\ order'[o].status = order[o].status
     /\ order'[o].pay = IF call[h].arg = Total THEN "refunded" ELSE "partially_refunded"
  \/ /\ order'[o].pay = order[o].pay
     /\ order[o].status \in Fulfilled /\ order'[o].status \in FulfillmentOps

\* A request that goes on keeps what it asks for; a payment callback is accepted
\* when the order says so already, or by writing it.
LEMMA RequestPays ==
  ASSUME TypeOK, OrderInv, NEW h \in Calls, Proceed(h) \/ Fail(h)
  PROVE  /\ call[h] \in Requests /\ call[h].pc \notin {"ok", "refused"}
         /\ call'[h].op = call[h].op /\ call'[h].on = call[h].on /\ call'[h].arg = call[h].arg
         /\ \A k \in Calls : k # h => call'[k] = call[k]
         /\ \A o \in Orders : PayMoves(h, o)
         /\ call[h].op \in PaymentOps /\ call'[h].pc = "ok" =>
              order'[call[h].on].status = Outcome[call[h].op].status
<1> DEFINE on == call[h].on
           op == call[h].op
<1>1. /\ call[h] \in Requests /\ on \in Orders /\ op \in Ops /\ call[h].arg \in Nat
      /\ call[h].pc \notin {"idle", "ok", "refused"}
  <2>1. call[h].pc \notin {"idle", "ok", "refused"}
    BY DEF Proceed, Fail, At, CancelRead, PaymentRead, StockAnswers, StockConflicts, LateStock,
           PaymentWrite, CancelWrite, PaymentRefunded, Fulfillment, StockFails, Crash
  <2> QED  BY <2>1, InProgress DEF Requests
<1>2. /\ call'[h].op = op /\ call'[h].on = on /\ call'[h].arg = call[h].arg
      /\ \A k \in Calls : k # h => call'[k] = call[k]
      /\ \A pc \in PCs : Goto(h, pc) => call'[h].pc = pc
  <2>1. \E pc \in PCs : Goto(h, pc)
    BY DEF Proceed, Fail, PCs, CancelRead, PaymentRead, StockAnswers, StockConflicts, LateStock,
           PaymentWrite, CancelWrite, PaymentRefunded, Fulfillment, StockFails, Crash, OnTimeout
  <2> QED  BY <1>1, <2>1, GotoStep
<1>3. CASE UNCHANGED order
  <2>1. \A o \in Orders : PayMoves(h, o)
    BY <1>3 DEF PayMoves
  <2>2. ASSUME op \in PaymentOps, call'[h].pc = "ok"
        PROVE  order'[on].status = Outcome[op].status
    <3>1. op \notin {"cancel", "refunded"} \union FulfillmentOps
      BY <2>2 DEF PaymentOps, FulfillmentOps
    <3>2. \A pc \in {"stock", "write", "late", "refused"} : ~Goto(h, pc)
      BY <1>2, <2>2 DEF PCs
    <3>3. CASE PaymentWrite(h)
      BY <1>1, <3>3 DEF PaymentWrite, TypeOK
    <3>4. CASE PaymentRead(h)
      BY <1>3, <3>2, <3>4 DEF PaymentRead
    <3> QED  BY <1>3, <3>1, <3>2, <3>3, <3>4 DEF Proceed, Fail, At, CancelRead, StockAnswers,
                StockConflicts, LateStock, CancelWrite, PaymentRefunded, Fulfillment, StockFails,
                Crash, OnTimeout
  <2> QED  BY <1>1, <1>2, <2>1, <2>2
<1>4. CASE PaymentWrite(h)
  <2>1. op \in PaymentOps /\ order[on].pay = "pending"
    BY <1>1, <1>4 DEF PaymentWrite, At, OrderInv, HeldIsUnpaid, UnpaidIsPending, Holds
  <2>2. /\ order'[on].status = Outcome[op].status /\ order'[on].pay = Outcome[op].pay
        /\ \A o \in Orders : o # on => order'[o] = order[o]
    BY <1>1, <1>4 DEF PaymentWrite, TypeOK
  <2>3. \A o \in Orders : PayMoves(h, o)
    BY <2>1, <2>2 DEF PayMoves
  <2> QED  BY <1>1, <1>2, <2>2, <2>3
<1>5. CASE CancelWrite(h)
  <2>1. \A o \in Orders : PayMoves(h, o)
    BY <1>1, <1>5 DEF CancelWrite, TypeOK, PayMoves
  <2> QED  BY <1>1, <1>2, <1>5, <2>1 DEF CancelWrite, At, PaymentOps
<1>6. CASE PaymentRefunded(h) /\ order' # order
  <2>1. /\ op = "refunded" /\ order[on].pay \in Refundable /\ order'[on].status = order[on].status
        /\ order'[on].pay = IF call[h].arg = Total THEN "refunded" ELSE "partially_refunded"
        /\ \A o \in Orders : o # on => order'[o] = order[o]
    BY <1>1, <1>6 DEF PaymentRefunded, At, TypeOK
  <2>2. \A o \in Orders : PayMoves(h, o)
    BY <2>1 DEF PayMoves
  <2> QED  BY <1>1, <1>2, <2>1, <2>2 DEF PaymentOps
<1>7. CASE Fulfillment(h) /\ order' # order
  <2>1. /\ op \in FulfillmentOps /\ order[on].status = Before[op]
        /\ order'[on].status = op /\ order'[on].pay = order[on].pay
        /\ \A o \in Orders : o # on => order'[o] = order[o]
    BY <1>1, <1>7 DEF Fulfillment, At, TypeOK
  <2>2. Before[op] \in Fulfilled
    BY <2>1 DEF FulfillmentOps, Before, Fulfilled
  <2>3. \A o \in Orders : PayMoves(h, o)
    BY <2>1, <2>2 DEF PayMoves
  <2> QED  BY <1>1, <1>2, <2>1, <2>3 DEF PaymentOps, FulfillmentOps
<1> QED  BY <1>3, <1>4, <1>5, <1>6, <1>7 DEF Proceed, Fail, CancelRead, PaymentRead, StockAnswers,
            StockConflicts, LateStock, StockFails, Crash

\* Order's own steps keep what the three know of each other.
LEMMA OrderMovesPay ==
  ASSUME TypeOK, OrderInv, PaymentTypeOK, PayInv, NEW h \in Calls, Proceed(h) \/ Fail(h),
         UNCHANGED <<payment, intent, returned, moved, sent, done, hook, refund>>
  PROVE  PayInv'
<1>1. /\ call[h] \in Requests /\ call[h].pc \notin {"ok", "refused"}
      /\ call'[h].op = call[h].op /\ call'[h].on = call[h].on /\ call'[h].arg = call[h].arg
      /\ \A k \in Calls : k # h => call'[k] = call[k]
      /\ \A o \in Orders : PayMoves(h, o)
      /\ call[h].op \in PaymentOps /\ call'[h].pc = "ok" =>
           order'[call[h].on].status = Outcome[call[h].op].status
  BY RequestPays
<1>2. Stands
  BY StepStands DEF Serves
<1>3. /\ "failed" \notin Refundable /\ "pending" \notin Refundable /\ "confirmed" \in Fulfilled
      /\ "cancelled" \notin Fulfilled /\ "payment_failed" \notin Fulfilled
      /\ "payment_failed" \notin FulfillmentOps /\ "refunded" \in Refundable
      /\ "partially_refunded" \in Refundable /\ "authorized" \in Refundable
  BY DEF Refundable, Fulfilled, FulfillmentOps
<1>4. StatusTellsPay'
  <2> SUFFICES ASSUME NEW o \in Orders
               PROVE  /\ order'[o].status \in Fulfilled => order'[o].pay \in Refundable
                      /\ order'[o].status = "payment_failed" => order'[o].pay = "failed"
    BY DEF StatusTellsPay
  <2>1. /\ order[o].status \in Fulfilled => order[o].pay \in Refundable
        /\ order[o].status = "payment_failed" => order[o].pay = "failed"
    BY DEF PayInv, OrderSide, StatusTellsPay
  <2> QED  BY <1>1, <1>3, <2>1 DEF PayMoves, PaymentOps, Outcome
<1>5. AcceptedIsDone'
  <2> SUFFICES ASSUME NEW k \in Calls, call'[k].pc = "ok"
               PROVE  /\ call'[k].op = "authorized" => order'[call'[k].on].pay \in Refundable
                      /\ call'[k].op = "failed"     => order'[call'[k].on].pay = "failed"
    BY DEF AcceptedIsDone
  <2>1. CASE k = h
    <3>1. call[h].on \in Orders
      BY <1>1 DEF Requests
    <3> QED  BY <1>1, <1>3, <1>4, <2>1, <3>1 DEF StatusTellsPay, Outcome, PaymentOps
  <2>2. CASE k # h
    <3>1. call'[k] = call[k] /\ (call[k].op # "none" => call[k].on \in Orders)
      BY <1>1, <2>2, AskedFor
    <3> QED  BY <1>2, <3>1 DEF PayInv, OrderSide, AcceptedIsDone, Stands
  <2> QED  BY <2>1, <2>2
<1>6. AskedIsTrue'
  BY <1>1 DEF PayInv, OrderSide, AskedIsTrue
<1>7. WebhookSide'
  <2>1. \A o \in Orders : hook[o] # NoHook => hook[o].call \in Calls
    BY DEF PaymentTypeOK
  <2>2. HookIsTrue'
    BY <1>1, <2>1 DEF PayInv, WebhookSide, HookIsTrue
  <2> QED  BY <2>2 DEF PayInv, WebhookSide, SentIsTrue, RowIsTrue, Capture
<1>8. RefundSide'
  BY DEF PayInv, RefundSide, OneRowHolder, HasRow, RefundIsTrue, AmountOf, Remaining, MoneySide,
         Covered, Unbooked, Amounts
<1>9. PaymentsAgreeWithOrders'
  BY <1>2 DEF PayInv, PaymentsAgreeWithOrders, Stands
<1>10. PaidMeansCaptured'
  <2> SUFFICES ASSUME NEW o \in Orders, order'[o].pay \in Refundable \/ order'[o].status \in Fulfilled
               PROVE  intent[o] = "captured"
    BY DEF PaidMeansCaptured
  <2>1. order[o].pay \in Refundable \/ order[o].status \in Fulfilled => intent[o] = "captured"
    BY DEF PayInv, PaidMeansCaptured
  <2>2. call[h].op = "authorized" /\ call[h].on = o => intent[o] = "captured"
    BY DEF PayInv, OrderSide, AskedIsTrue
  <2> QED  BY <1>1, <1>3, <2>1, <2>2 DEF PayMoves, PaymentOps, Outcome
<1>11. OrdersLagOnRefunds'
  <2> SUFFICES ASSUME NEW o \in Orders
               PROVE  /\ order'[o].pay = "refunded" => payment[o].status = "refunded"
                      /\ order'[o].pay = "partially_refunded" => payment[o].refunded > 0
    BY DEF OrdersLagOnRefunds
  <2>1. /\ order[o].pay = "refunded" => payment[o].status = "refunded"
        /\ order[o].pay = "partially_refunded" => payment[o].refunded > 0
    BY DEF PayInv, OrdersLagOnRefunds
  <2>2. ASSUME call[h].op = "refunded", call[h].on = o
        PROVE  /\ call[h].arg = Total => payment[o].status = "refunded"
               /\ payment[o].refunded > 0
    <3>1. call[h].arg \in 1 .. payment[o].refunded /\ payment[o].refunded \in 0 .. Total
      BY <2>2 DEF PayInv, OrderSide, AskedIsTrue, PaymentTypeOK
    <3>2. payment[o].refunded = Total => payment[o].status = "refunded"
      BY DEF PayInv, WebhookSide, RowIsTrue
    <3> QED  BY <3>1, <3>2, TotalAssumption
  <2> QED  BY <1>1, <2>1, <2>2 DEF PayMoves, PaymentOps, Outcome
<1> QED  BY <1>4, <1>5, <1>6, <1>7, <1>8, <1>9, <1>10, <1>11 DEF PayInv, OrderSide

\* A new request asks for what is true; an answer is forgotten.
LEMMA CallChanges ==
  ASSUME TypeOK, PayInv, NEW h \in Calls, NEW c \in Requests \union {Idle},
         call' = [call EXCEPT ![h] = c], c.pc # "ok", UNCHANGED <<order, intent>>,
         \A o \in Orders : payment'[o].refunded = payment[o].refunded,
         /\ c.op = "authorized" => intent[c.on] = "captured"
         /\ c.op = "refunded"   => c.arg \in 1 .. payment[c.on].refunded
  PROVE  /\ OrderSide'
         /\ \A k \in Calls : call'[k] = IF k = h THEN c ELSE call[k]
<1>1. \A k \in Calls : call'[k] = IF k = h THEN c ELSE call[k]
  BY DEF TypeOK
<1>2. StatusTellsPay' /\ AcceptedIsDone'
  BY <1>1 DEF PayInv, OrderSide, StatusTellsPay, AcceptedIsDone
<1>3. AskedIsTrue'
  <2> SUFFICES ASSUME NEW k \in Calls
               PROVE  /\ call'[k].op = "authorized" => intent'[call'[k].on] = "captured"
                      /\ call'[k].op = "refunded" =>
                           call'[k].arg \in 1 .. payment'[call'[k].on].refunded
    BY DEF AskedIsTrue
  <2>1. CASE k = h
    <3>1. c.op = "refunded" => c.on \in Orders
      BY DEF Requests, Idle
    <3> QED  BY <1>1, <2>1, <3>1
  <2>2. CASE k # h
    BY <1>1, <2>2, AskedFor DEF PayInv, OrderSide, AskedIsTrue
  <2> QED  BY <2>1, <2>2
<1> QED  BY <1>1, <1>2, <1>3 DEF OrderSide

\* A request made or answered while nobody in Payment waits for it.
LEMMA OthersAskPay ==
  ASSUME TypeOK, PaymentTypeOK, PayInv, NEW h \in Calls, NEW c \in Requests \union {Idle},
         call' = [call EXCEPT ![h] = c], c.pc # "ok", c.op \notin {"authorized", "refunded"},
         ~Awaited(h), UNCHANGED <<order, money>>
  PROVE  PayInv'
<1> USE DEF money
<1>1. OrderSide' /\ \A k \in Calls : call'[k] = IF k = h THEN c ELSE call[k]
  BY CallChanges
<1>2. WebhookSide'
  <2>1. \A o \in Orders : hook[o] # NoHook => hook[o].call \in Calls /\ hook[o].call # h
    BY DEF PaymentTypeOK, Awaited
  <2>2. HookIsTrue'
    BY <1>1, <2>1 DEF PayInv, WebhookSide, HookIsTrue
  <2> QED  BY <2>2 DEF PayInv, WebhookSide, SentIsTrue, RowIsTrue, Capture
<1>3. RefundSide'
  BY DEF PayInv, RefundSide, OneRowHolder, HasRow, RefundIsTrue, AmountOf, Remaining, MoneySide,
         Covered, Unbooked, Amounts
<1>4. PaymentsAgreeWithOrders' /\ PaidMeansCaptured' /\ OrdersLagOnRefunds'
  BY DEF PayInv, PaymentsAgreeWithOrders, PaidMeansCaptured, OrdersLagOnRefunds
<1> QED  BY <1>1, <1>2, <1>3, <1>4 DEF PayInv

-----------------------------------------------------------------------------
(***************************************************************************)
(* Steps of Payment and Stripe that ask Order nothing.                     *)
(***************************************************************************)

\* What Order was told stays true as more is taken and given back.
LEMMA OrderStays ==
  ASSUME TypeOK, PaymentTypeOK, PayInv, UNCHANGED <<order, call>>,
         \A o \in Orders : intent[o] = "captured" => intent'[o] = "captured",
         \A o \in Orders : /\ payment'[o].refunded \in Nat
                           /\ payment[o].refunded <= payment'[o].refunded
  PROVE  OrderSide' /\ PaidMeansCaptured'
<1>1. StatusTellsPay' /\ AcceptedIsDone' /\ PaidMeansCaptured'
  BY DEF PayInv, OrderSide, StatusTellsPay, AcceptedIsDone, PaidMeansCaptured
<1>2. AskedIsTrue'
  <2> SUFFICES ASSUME NEW h \in Calls
               PROVE  /\ call[h].op = "authorized" => intent'[call[h].on] = "captured"
                      /\ call[h].op = "refunded" => call[h].arg \in 1 .. payment'[call[h].on].refunded
    BY DEF AskedIsTrue
  <2>1. call[h].op \in {"authorized", "refunded"} => call[h].on \in Orders /\ call[h].arg \in Nat
    BY AskedFor
  <2>2. \A o \in Orders : payment[o].refunded \in Nat
    BY TotalAssumption DEF PaymentTypeOK
  <2> QED  BY <2>1, <2>2 DEF PayInv, OrderSide, AskedIsTrue
<1> QED  BY <1>1, <1>2 DEF OrderSide

\* The set of refunds Stripe carried out, and their amounts, can be summed.
LEMMA Countable ==
  ASSUME PaymentTypeOK, PayInv, NEW S, S \subseteq moved
  PROVE  IsFiniteSet(S) /\ Sums!IsFiniteSet(S) /\ \A r \in S : r \in Refunds /\ Amounts[r] \in Nat
<1>1. \A T : IsFiniteSet(T) <=> Sums!IsFiniteSet(T)
  BY DEF IsFiniteSet, Sums!IsFiniteSet
<1>2. IsFiniteSet(S)
  BY Sums!FS_Subset, <1>1 DEF PayInv, RefundSide, MoneySide
<1>3. \A r \in S : r \in Refunds /\ Amounts[r] \in Nat
  BY RefundsAssumption, TotalAssumption DEF PaymentTypeOK, Amounts
<1> QED  BY <1>1, <1>2, <1>3

\* Money is covered as long as none moves and no refund comes back to be booked.
LEMMA MoneyStays ==
  ASSUME PaymentTypeOK, PayInv, UNCHANGED <<moved, returned>>,
         \A o \in Orders : payment'[o].refunded = payment[o].refunded,
         \A o \in Orders : Unbooked(o)' \subseteq Unbooked(o)
  PROVE  MoneySide'
<1> SUFFICES ASSUME NEW o \in Orders PROVE Covered(o)'
  BY DEF PayInv, RefundSide, MoneySide
<1> DEFINE T == Unbooked(o)'
<1>1. Unbooked(o) \subseteq moved
  BY DEF Unbooked
<1>2. /\ Sums!IsFiniteSet(Unbooked(o)) /\ T \subseteq Unbooked(o)
      /\ \A r \in Unbooked(o) : Amounts[r] \in Nat
  BY <1>1, Countable
<1> HIDE DEF T
<1>3. /\ Sums!Total(T, Amounts) <= Sums!Total(Unbooked(o), Amounts)
      /\ Sums!Total(T, Amounts) \in Nat /\ Sums!Total(Unbooked(o), Amounts) \in Nat
  BY <1>2, Sums!TotalRemove
<1>4. Covered(o)
  BY DEF PayInv, RefundSide, MoneySide
<1>5. payment[o].refunded \in Nat /\ returned[o] \in Nat
  BY TotalAssumption DEF PaymentTypeOK
<1>6. \/ returned'[o] = Total
      \/ payment'[o].refunded + Sums!Total(T, Amounts) <= returned'[o]
  BY <1>3, <1>4, <1>5 DEF Covered
<1> QED  BY <1>6 DEF Covered, T, Amounts

\* Creating an intent and its row changes nothing that was decided.
LEMMA CreatePay ==
  ASSUME TypeOK, PaymentTypeOK, PayInv, NEW o \in Orders, CreateIntent(o) \/ CreatePayment(o)
  PROVE  PayInv'
<1>1. /\ UNCHANGED <<order, call, returned, moved, sent, done, hook, refund>>
      /\ \A p \in Orders : /\ payment'[p].refunded = payment[p].refunded
                           /\ p # o => payment'[p] = payment[p] /\ intent'[p] = intent[p]
                           /\ payment'[p].refunded \in Nat
  BY TotalAssumption DEF CreateIntent, CreatePayment, vars, PaymentTypeOK
<1>2. /\ payment[o].status = "none" /\ intent[o] \in {"none", "created"}
      /\ \/ payment'[o].status = "none" /\ intent'[o] = "created"
         \/ payment'[o].status = "pending" /\ intent'[o] = "open"
  BY DEF CreateIntent, CreatePayment, PaymentTypeOK, PayInv, WebhookSide, RowIsTrue
<1>3. {"none", "pending"} \intersect Settled = {} /\ "refunded" \in Settled
  BY DEF Settled
<1>4. OrderSide' /\ PaidMeansCaptured'
  BY <1>1, <1>2, OrderStays
<1>5. SentIsTrue'
  <2>1. \A e \in sent : e.on \in Orders /\ e.on # o
    BY <1>2 DEF PaymentTypeOK, Events, PayInv, WebhookSide, SentIsTrue
  <2> QED  BY <1>1, <2>1 DEF PayInv, WebhookSide, SentIsTrue, Capture
<1>6. RowIsTrue'
  BY <1>1, <1>2, <1>3 DEF PayInv, WebhookSide, RowIsTrue, Capture
<1>7. HookIsTrue'
  BY <1>1 DEF PayInv, WebhookSide, HookIsTrue
<1>8. OneRowHolder'
  BY <1>1 DEF PayInv, RefundSide, OneRowHolder, HasRow
<1>9. RefundIsTrue'
  <2>1. \A r \in Refunds : r.on \in Orders
    BY RefundsAssumption
  <2> QED  BY <1>1, <1>2, <2>1 DEF PayInv, RefundSide, RefundIsTrue, HasRow, AmountOf, Remaining
<1>10. MoneySide'
  BY <1>1, MoneyStays DEF Unbooked
<1>11. PaymentsAgreeWithOrders' /\ OrdersLagOnRefunds'
  BY <1>1, <1>2, <1>3 DEF PayInv, PaymentsAgreeWithOrders, OrdersLagOnRefunds
<1> QED  BY <1>4, <1>5, <1>6, <1>7, <1>8, <1>9, <1>10, <1>11 DEF PayInv, WebhookSide, RefundSide

\* Stripe reports what it did.
LEMMA StripePay ==
  ASSUME TypeOK, PaymentTypeOK, PayInv, NEW o \in Orders, Stripe(o)
  PROVE  PayInv'
<1>1. /\ UNCHANGED <<order, call, payment, returned, moved, done, hook, refund>>
      /\ intent[o] = "open" /\ intent'[o] \in {"open", "captured"}
      /\ \A p \in Orders : p # o => intent'[p] = intent[p]
  BY DEF Stripe, StripeDeclines, StripeCaptures, vars, PaymentTypeOK
<1>2. sent \subseteq sent' /\ \A e \in sent' \ sent :
           e.on = o /\ (e.op = "authorized" => e = Capture(o) /\ intent'[o] = "captured")
  <2>1. CASE StripeDeclines(o)
    <3>1. PICK e \in EventsOf(o, "failed") : sent' = sent \union {e}
      BY <2>1 DEF StripeDeclines
    <3>2. e.on = o /\ e.op = "failed"
      BY DEF EventsOf
    <3> QED  BY <3>1, <3>2
  <2>2. CASE StripeCaptures(o)
    <3>1. sent' = sent \union {Capture(o)} /\ Capture(o).on = o
      BY <2>2 DEF StripeCaptures, Capture
    <3>2. intent'[o] = "captured"
      BY <2>2 DEF StripeCaptures, PaymentTypeOK
    <3> QED  BY <3>1, <3>2
  <2> QED  BY <2>1, <2>2 DEF Stripe
<1>3. OrderSide' /\ PaidMeansCaptured'
  BY <1>1, OrderStays, TotalAssumption DEF PaymentTypeOK
<1>4. SentIsTrue'
  <2>1. \A e \in sent : e.on \in Orders
    BY DEF PaymentTypeOK, Events
  <2> QED  BY <1>1, <1>2, <2>1 DEF PayInv, WebhookSide, SentIsTrue, Capture
<1>5. RowIsTrue'
  BY <1>1 DEF PayInv, WebhookSide, RowIsTrue, Capture
<1>6. HookIsTrue'
  BY <1>1, <1>2 DEF PayInv, WebhookSide, HookIsTrue
<1>7. RefundSide'
  BY <1>1 DEF PayInv, RefundSide, OneRowHolder, HasRow, RefundIsTrue, AmountOf, Remaining,
     MoneySide, Covered, Unbooked, Amounts
<1>8. PaymentsAgreeWithOrders' /\ OrdersLagOnRefunds'
  BY <1>1 DEF PayInv, PaymentsAgreeWithOrders, OrdersLagOnRefunds
<1> QED  BY <1>3, <1>4, <1>5, <1>6, <1>7, <1>8 DEF PayInv, WebhookSide

-----------------------------------------------------------------------------
(***************************************************************************)
(* The webhook.                                                            *)
(***************************************************************************)

\* What is known of a webhook that waits for Order.
LEMMA AtWork ==
  ASSUME TypeOK, PaymentTypeOK, PayInv, NEW o \in Orders, hook[o] # NoHook
  PROVE  /\ hook[o].event \in sent \ done /\ hook[o].event.on = o
         /\ hook[o].event.op \in PaymentOps
         /\ hook[o].call \in Calls /\ call[hook[o].call].on = o
         /\ call[hook[o].call].op = hook[o].event.op /\ call[hook[o].call] # Idle
<1>1. /\ hook[o].event \in sent \ done /\ hook[o].event.on = o
      /\ call[hook[o].call].op = hook[o].event.op /\ call[hook[o].call].on = o
  BY DEF PayInv, WebhookSide, HookIsTrue
<1>2. hook[o].call \in Calls /\ hook[o].event.op \in PaymentOps
  BY DEF PaymentTypeOK, Events
<1>3. call[hook[o].call] # Idle
  BY <1>1, <1>2 DEF Idle, PaymentOps
<1> QED  BY <1>1, <1>2, <1>3

\* A webhook begins when nobody has the row, and asks for what Stripe reported.
LEMMA HookStartPay ==
  ASSUME TypeOK, PaymentTypeOK, PayInv, NEW e \in sent, NEW h \in Calls, HookStart(e, h)
  PROVE  PayInv'
<1> DEFINE c == [op |-> e.op, on |-> e.on, arg |-> 0, pc |-> "asked"]
           w == [pc |-> "waits", event |-> e, call |-> h]
<1>1. /\ UNCHANGED <<order, payment, intent, returned, moved, sent, done, refund>>
      /\ e \in sent \ done /\ e.on \in Orders /\ e.op \in PaymentOps
      /\ call[h] = Idle /\ call' = [call EXCEPT ![h] = c] /\ ~PaymentLocked(e.on)
  BY DEF HookStart, Ask, WhileAsking, RecordedNow, PaymentTypeOK, Events
<1>2. \A o \in Orders : hook'[o] = IF o = e.on THEN w ELSE hook[o]
  BY DEF HookStart, PaymentTypeOK
<1>3. OrderSide' /\ \A k \in Calls : call'[k] = IF k = h THEN c ELSE call[k]
  <2>1. c \in Requests
    BY <1>1 DEF Requests, Ops, PCs
  <2>2. /\ c.op = "authorized" => intent[c.on] = "captured"
        /\ c.op # "refunded" /\ c.pc # "ok"
    BY <1>1 DEF PayInv, WebhookSide, SentIsTrue, PaymentOps
  <2>3. /\ UNCHANGED <<order, intent>> /\ call' = [call EXCEPT ![h] = c]
        /\ \A o \in Orders : payment'[o].refunded = payment[o].refunded
    BY <1>1
  <2> HIDE DEF c
  <2> QED  BY <2>1, <2>2, <2>3, CallChanges
<1>4. HookIsTrue'
  <2> SUFFICES ASSUME NEW o \in Orders, hook'[o] # NoHook
               PROVE  /\ hook'[o].event \in sent \ done /\ hook'[o].event.on = o
                      /\ call'[hook'[o].call].op = hook'[o].event.op
                      /\ call'[hook'[o].call].on = o
    BY <1>1 DEF HookIsTrue
  <2>1. CASE o = e.on
    BY <1>1, <1>2, <1>3, <2>1
  <2>2. CASE o # e.on
    BY <1>1, <1>2, <1>3, <2>2, AtWork
  <2> QED  BY <2>1, <2>2
<1>5. WebhookSide'
  BY <1>1, <1>4 DEF PayInv, WebhookSide, SentIsTrue, RowIsTrue, Capture
<1>6. OneRowHolder'
  <2>1. \A r \in Refunds : HasRow(r) => r.on # e.on
    BY <1>1 DEF PaymentLocked, HasRow
  <2> QED  BY <1>1, <1>2, <2>1, RefundsAssumption DEF PayInv, RefundSide, OneRowHolder, HasRow
<1>7. RefundSide'
  BY <1>1, <1>6 DEF PayInv, RefundSide, HasRow, RefundIsTrue, AmountOf, Remaining, MoneySide,
     Covered, Unbooked, Amounts
<1>8. PaymentsAgreeWithOrders' /\ PaidMeansCaptured' /\ OrdersLagOnRefunds'
  BY <1>1 DEF PayInv, PaymentsAgreeWithOrders, PaidMeansCaptured, OrdersLagOnRefunds
<1> QED  BY <1>3, <1>5, <1>7, <1>8 DEF PayInv

\* A webhook that ends without booking leaves the rest as it was; so does an event
\* that says what the payment says already.
LEMMA HookEndsPay ==
  ASSUME TypeOK, PaymentTypeOK, PayInv, NEW o \in Orders,
         \/ HookRollsBack(o) \/ HookGivesUp(o)
         \/ \E e \in sent : e.on = o /\ HookSkips(e)
  PROVE  PayInv'
<1>1. /\ UNCHANGED <<order, call, payment, intent, returned, moved, sent, refund>>
      /\ done \subseteq done' /\ \A e \in done' \ done : e.on = o /\ hook[o] = NoHook
      /\ \A p \in Orders : hook'[p] \in {hook[p], NoHook}
  BY DEF HookRollsBack, HookGivesUp, HookSkips, vars, PaymentTypeOK, PaymentLocked
<1>2. OrderSide' /\ PaidMeansCaptured'
  BY <1>1, OrderStays, TotalAssumption DEF PaymentTypeOK
<1>3. HookIsTrue'
  BY <1>1, AtWork DEF HookIsTrue
<1>4. WebhookSide'
  BY <1>1, <1>3 DEF PayInv, WebhookSide, SentIsTrue, RowIsTrue, Capture
<1>5. OneRowHolder'
  BY <1>1, RefundsAssumption DEF PayInv, RefundSide, OneRowHolder, HasRow
<1>6. RefundSide'
  BY <1>1, <1>5 DEF PayInv, RefundSide, HasRow, RefundIsTrue, AmountOf, Remaining, MoneySide,
     Covered, Unbooked, Amounts
<1>7. PaymentsAgreeWithOrders' /\ OrdersLagOnRefunds'
  BY <1>1 DEF PayInv, PaymentsAgreeWithOrders, OrdersLagOnRefunds
<1> QED  BY <1>2, <1>4, <1>6, <1>7 DEF PayInv

\* What a webhook books is what Order did, and the payment had no outcome.
LEMMA Books ==
  ASSUME TypeOK, PaymentTypeOK, PayInv, NEW o \in Orders, HookCommits(o)
  PROVE  /\ payment[o].status \notin Settled /\ payment[o].refunded = 0
         /\ \/ /\ payment'[o].status = "succeeded" /\ order[o].pay \in Refundable
               /\ Capture(o) \in done'
            \/ payment'[o].status = "failed" /\ order[o].pay = "failed"
         /\ \A p \in Orders : /\ payment'[p].refunded = payment[p].refunded
                              /\ p # o => payment'[p] = payment[p]
<1> DEFINE e == hook[o].event
<1>1. /\ hook[o] # NoHook /\ call[hook[o].call].pc = "ok" /\ done' = done \union {e}
      /\ payment' = [payment EXCEPT ![o].status = Verdict[e.op]]
  BY DEF HookCommits, Accepted
<1>2. /\ e \in sent \ done /\ e.on = o /\ e.op \in PaymentOps
      /\ hook[o].call \in Calls /\ call[hook[o].call].on = o /\ call[hook[o].call].op = e.op
  BY <1>1, AtWork
<1>3. \/ e.op = "authorized" /\ order[o].pay \in Refundable
      \/ e.op = "failed" /\ order[o].pay = "failed"
  BY <1>1, <1>2 DEF PayInv, OrderSide, AcceptedIsDone, PaymentOps
<1>4. e.op = "authorized" => e = Capture(o)
  BY <1>2 DEF PayInv, WebhookSide, SentIsTrue
<1>5. payment[o].status \notin Settled
  <2>1. CASE e.op = "authorized"
    BY <1>2, <1>4, <2>1 DEF PayInv, WebhookSide, RowIsTrue
  <2>2. CASE order[o].pay = "failed"
    BY <2>2 DEF PayInv, PaymentsAgreeWithOrders, Refundable
  <2> QED  BY <1>3, <2>1, <2>2
<1>6. payment[o].refunded = 0
  BY <1>5 DEF PayInv, WebhookSide, RowIsTrue
<1>7. /\ payment'[o].status = Verdict[e.op]
      /\ \A p \in Orders : /\ payment'[p].refunded = payment[p].refunded
                           /\ p # o => payment'[p] = payment[p]
  BY <1>1 DEF PaymentTypeOK
<1> QED  BY <1>1, <1>3, <1>4, <1>5, <1>6, <1>7 DEF Verdict

\* Booking an outcome keeps the services in agreement.
LEMMA HookCommitsPay ==
  ASSUME TypeOK, PaymentTypeOK, PayInv, NEW o \in Orders, HookCommits(o)
  PROVE  PayInv'
<1> DEFINE e == hook[o].event
           h == hook[o].call
<1>1. /\ UNCHANGED <<order, intent, returned, moved, sent, refund>>
      /\ hook[o] # NoHook /\ done' = done \union {e} /\ call' = [call EXCEPT ![h] = Idle]
      /\ \A p \in Orders : hook'[p] = IF p = o THEN NoHook ELSE hook[p]
  BY DEF HookCommits, Return, PaymentTypeOK
<1>2. e \in sent \ done /\ e.on = o /\ h \in Calls /\ call[h].on = o
  BY <1>1, AtWork
<1>3. /\ payment[o].status \notin Settled /\ payment[o].refunded = 0
      /\ \/ /\ payment'[o].status = "succeeded" /\ order[o].pay \in Refundable
            /\ Capture(o) \in done'
         \/ payment'[o].status = "failed" /\ order[o].pay = "failed"
      /\ \A p \in Orders : /\ payment'[p].refunded = payment[p].refunded
                           /\ p # o => payment'[p] = payment[p]
  BY Books
<1>4. {"refunded", "succeeded", "partially_refunded"} \subseteq Settled /\ "failed" \notin Settled
  BY DEF Settled
<1>5. OrderSide' /\ \A k \in Calls : call'[k] = IF k = h THEN Idle ELSE call[k]
  <2>1. Idle.pc # "ok" /\ Idle.op \notin {"authorized", "refunded"}
    BY DEF Idle
  <2>2. /\ UNCHANGED <<order, intent>> /\ call' = [call EXCEPT ![h] = Idle] /\ h \in Calls
        /\ \A p \in Orders : payment'[p].refunded = payment[p].refunded
        /\ Idle \in Requests \union {Idle}
    BY <1>1, <1>2, <1>3
  <2> HIDE DEF h, e
  <2> QED  BY <2>1, <2>2, CallChanges
<1>6. SentIsTrue'
  BY <1>1 DEF PayInv, WebhookSide, SentIsTrue, Capture
<1>7. RowIsTrue'
  <2>1. intent[o] \notin {"none", "created"}
    BY <1>2 DEF PayInv, WebhookSide, SentIsTrue
  <2>2. \A p \in Orders : Capture(p) \in done => Capture(p) \in done'
    BY <1>1
  <2>3. \A p \in Orders : Capture(p)' = Capture(p)
    BY DEF Capture
  <2> QED  BY <1>1, <1>3, <1>4, <2>1, <2>2, <2>3, TotalAssumption DEF PayInv, WebhookSide, RowIsTrue
<1>8. HookIsTrue'
  <2> SUFFICES ASSUME NEW p \in Orders, hook'[p] # NoHook
               PROVE  /\ hook'[p].event \in sent \ done' /\ hook'[p].event.on = p
                      /\ call'[hook'[p].call].op = hook'[p].event.op
                      /\ call'[hook'[p].call].on = p
    BY <1>1 DEF HookIsTrue
  <2>1. p # o /\ hook'[p] = hook[p]
    BY <1>1
  <2>2. /\ hook[p].event \in sent \ done /\ hook[p].event.on = p
        /\ hook[p].call \in Calls /\ call[hook[p].call].on = p
        /\ call[hook[p].call].op = hook[p].event.op
    BY <2>1, AtWork
  <2>3. hook[p].event # e /\ hook[p].call # h
    BY <1>2, <2>1, <2>2
  <2> QED  BY <1>1, <1>5, <2>1, <2>2, <2>3
<1>9. OneRowHolder'
  BY <1>1, RefundsAssumption DEF PayInv, RefundSide, OneRowHolder, HasRow
<1>10. RefundIsTrue'
  <2>1. \A r \in Refunds : r.on \in Orders /\ (HasRow(r) => r.on # o)
    BY <1>1, RefundsAssumption DEF PayInv, RefundSide, OneRowHolder
  <2> QED  BY <1>1, <1>3, <2>1 DEF PayInv, RefundSide, RefundIsTrue, HasRow, AmountOf, Remaining
<1>11. MoneySide'
  BY <1>1, <1>3, MoneyStays DEF Unbooked
<1>12. PaymentsAgreeWithOrders' /\ OrdersLagOnRefunds'
  BY <1>1, <1>3, <1>4 DEF PayInv, PaymentsAgreeWithOrders, OrdersLagOnRefunds, Refundable
<1>13. PaidMeansCaptured'
  BY <1>1 DEF PayInv, PaidMeansCaptured
<1> QED  BY <1>5, <1>6, <1>7, <1>8, <1>9, <1>10, <1>11, <1>12, <1>13 DEF PayInv, WebhookSide, RefundSide

-----------------------------------------------------------------------------
(***************************************************************************)
(* Refunds.                                                                *)
(***************************************************************************)

\* Refund r goes on without money moving or being booked.
LEMMA RefundGoes ==
  ASSUME TypeOK, PaymentTypeOK, PayInv, NEW r \in Refunds,
         UNCHANGED <<payment, intent, returned, moved, sent, done, hook>>,
         \A s \in Refunds : s # r => refund'[s] = refund[s],
         refund'[r].pc \in {"new", "stripe", "record"} =>
           refund[r].pc \in {"new", "stripe", "record"},
         HasRow(r)' => \/ HasRow(r)
                       \/ /\ ~PaymentLocked(r.on) /\ AmountOf(r) <= Remaining(r.on)
                          /\ payment[r.on].status \in {"succeeded", "partially_refunded"},
         refund'[r].pc = "record" => refund[r].pc = "record",
         refund'[r].pc # "notify"
  PROVE  RefundSide'
<1>1. OneRowHolder'
  BY RefundsAssumption DEF PayInv, RefundSide, OneRowHolder, HasRow, PaymentLocked
<1>2. RefundIsTrue'
  <2>1. \A s \in Refunds : AmountOf(s)' = AmountOf(s) /\ Remaining(s.on)' = Remaining(s.on)
    BY DEF AmountOf, Remaining
  <2> QED  BY <2>1 DEF PayInv, RefundSide, RefundIsTrue, HasRow
<1>3. \A o \in Orders : Unbooked(o)' \subseteq Unbooked(o)
  BY DEF Unbooked, PaymentTypeOK
<1>4. MoneySide'
  BY <1>3, MoneyStays
<1> QED  BY <1>1, <1>2, <1>4 DEF RefundSide

\* Starting, failing, and not reporting a refund.
LEMMA RefundStepPay ==
  ASSUME TypeOK, PaymentTypeOK, PayInv, NEW r \in Refunds,
         RefundStart(r) \/ RefundFails(r) \/ RefundNotReported(r)
  PROVE  PayInv'
<1>1. UNCHANGED <<order, call, payment, intent, returned, moved, sent, done, hook>>
  BY DEF RefundStart, RefundFails, RefundNotReported, vars
<1>2. \A s \in Refunds : s # r => refund'[s] = refund[s]
  BY DEF RefundStart, RefundFails, RefundNotReported, PaymentTypeOK
<1>3. \/ /\ refund[r].pc = "new" /\ refund'[r].pc = "stripe"
         /\ ~PaymentLocked(r.on) /\ AmountOf(r) <= Remaining(r.on)
         /\ payment[r.on].status \in {"succeeded", "partially_refunded"}
      \/ refund[r].pc \in {"stripe", "record"} /\ refund'[r].pc \in {"new", "done"}
      \/ refund[r].pc = "notify" /\ refund'[r].pc = "unreported"
  BY DEF RefundStart, RefundFails, RefundNotReported, PaymentTypeOK
<1>4. RefundSide'
  <2>1. HasRow(r)' <=> refund'[r].pc \in {"stripe", "record"}
    BY DEF HasRow
  <2> QED  BY <1>1, <1>2, <1>3, <2>1, RefundGoes
<1>5. OrderSide' /\ PaidMeansCaptured'
  BY <1>1, OrderStays, TotalAssumption DEF PaymentTypeOK
<1>6. WebhookSide'
  BY <1>1 DEF PayInv, WebhookSide, SentIsTrue, RowIsTrue, HookIsTrue, Capture
<1>7. PaymentsAgreeWithOrders' /\ OrdersLagOnRefunds'
  BY <1>1 DEF PayInv, PaymentsAgreeWithOrders, OrdersLagOnRefunds
<1> QED  BY <1>4, <1>5, <1>6, <1>7 DEF PayInv

\* Order is told a sum that is booked.
LEMMA RefundNotifiesPay ==
  ASSUME TypeOK, PaymentTypeOK, PayInv, NEW r \in Refunds, NEW h \in Calls, RefundNotifies(r, h)
  PROVE  PayInv'
<1> DEFINE c == [op |-> "refunded", on |-> r.on, arg |-> refund[r].total, pc |-> "asked"]
<1>1. /\ UNCHANGED <<order, payment, intent, returned, moved, sent, done, hook>>
      /\ call[h] = Idle /\ call' = [call EXCEPT ![h] = c]
      /\ refund[r].pc = "notify" /\ refund'[r].pc = "done"
      /\ \A s \in Refunds : s # r => refund'[s] = refund[s]
  BY DEF RefundNotifies, Ask, Reported, PaymentTypeOK
<1>2. c \in Requests /\ c.arg \in 1 .. payment[c.on].refunded
  BY <1>1, RefundsAssumption, TotalAssumption
     DEF Requests, Ops, PCs, PaymentTypeOK, PayInv, RefundSide, RefundIsTrue
<1>3. OrderSide' /\ \A k \in Calls : call'[k] = IF k = h THEN c ELSE call[k]
  <2>1. /\ UNCHANGED <<order, intent>> /\ call' = [call EXCEPT ![h] = c]
        /\ \A o \in Orders : payment'[o].refunded = payment[o].refunded
        /\ c.pc # "ok" /\ c \in Requests \union {Idle}
        /\ c.op = "authorized" => intent[c.on] = "captured"
        /\ c.op = "refunded" => c.arg \in 1 .. payment[c.on].refunded
    BY <1>1, <1>2
  <2> HIDE DEF c
  <2> QED  BY <2>1, CallChanges
<1>4. HookIsTrue'
  <2> SUFFICES ASSUME NEW o \in Orders, hook[o] # NoHook
               PROVE  /\ hook[o].event \in sent \ done /\ hook[o].event.on = o
                      /\ call'[hook[o].call].op = hook[o].event.op
                      /\ call'[hook[o].call].on = o
    BY <1>1 DEF HookIsTrue
  <2> QED  BY <1>1, <1>3, AtWork
<1>5. WebhookSide'
  BY <1>1, <1>4 DEF PayInv, WebhookSide, SentIsTrue, RowIsTrue, Capture
<1>6. RefundSide'
  <2>1. ~HasRow(r)'
    BY <1>1 DEF HasRow
  <2> QED  BY <1>1, <2>1, RefundGoes
<1>7. PaymentsAgreeWithOrders' /\ PaidMeansCaptured' /\ OrdersLagOnRefunds'
  BY <1>1 DEF PayInv, PaymentsAgreeWithOrders, PaidMeansCaptured, OrdersLagOnRefunds
<1> QED  BY <1>3, <1>5, <1>6, <1>7 DEF PayInv

\* Money that Stripe gives back is covered, whether it moves now or did before.
LEMMA MoneyMoves ==
  ASSUME TypeOK, PaymentTypeOK, PayInv, NEW r \in Refunds, StripeRefunds(r)
  PROVE  MoneySide'
<1> DEFINE o    == r.on
           rest == Total - returned[o]
           sum  == IF r.amount = 0 THEN rest ELSE r.amount
<1>1. /\ payment' = payment /\ refund[r].pc = "stripe"
      /\ refund' = [refund EXCEPT ![r].pc = "record"] /\ o \in Orders
  BY RefundsAssumption DEF StripeRefunds
<1>2. CASE r \in moved /\ UNCHANGED <<returned, moved>>
  <2>1. \A p \in Orders : Unbooked(p)' \subseteq Unbooked(p)
    BY <1>1, <1>2 DEF Unbooked, PaymentTypeOK
  <2> QED  BY <1>1, <1>2, <2>1, MoneyStays
<1>3. CASE /\ r \notin moved /\ sum \in 1 .. rest
           /\ returned' = [returned EXCEPT ![o] = @ + sum] /\ moved' = moved \union {r}
  <2>1. /\ returned'[o] = returned[o] + sum /\ returned[o] \in Nat /\ sum \in Nat
        /\ returned[o] # Total /\ payment[o].refunded \in Nat
        /\ \A p \in Orders : p # o => returned'[p] = returned[p]
    BY <1>1, <1>3, TotalAssumption DEF PaymentTypeOK
  <2>2. IsFiniteSet(moved')
    <3>1. \A T : IsFiniteSet(T) <=> Sums!IsFiniteSet(T)
      BY DEF IsFiniteSet, Sums!IsFiniteSet
    <3> QED  BY <1>3, <3>1, Sums!FS_AddElement DEF PayInv, RefundSide, MoneySide
  <2>3. \A s \in moved' : s.amount = 0 => returned'[s.on] = Total
    <3>1. \A s \in moved : s.on \in Orders
      BY RefundsAssumption DEF PaymentTypeOK
    <3>2. r.amount = 0 => returned'[o] = Total
      BY <1>3, <2>1, TotalAssumption
    <3> QED  BY <1>3, <2>1, <3>1, <3>2 DEF PayInv, RefundSide, MoneySide
  <2>4. ASSUME NEW p \in Orders, p # o
        PROVE  Covered(p)'
    <3>1. Unbooked(p)' = Unbooked(p)
      BY <1>1, <1>3, <2>4 DEF Unbooked, PaymentTypeOK
    <3> QED  BY <1>1, <2>1, <2>4, <3>1 DEF PayInv, RefundSide, MoneySide, Covered, Amounts
  <2>5. Covered(o)'
    <3>1. CASE r.amount = 0
      BY <1>3, <2>3, <3>1 DEF Covered
    <3>2. CASE r.amount # 0
      <4>1. Unbooked(o)' = Unbooked(o) \union {r} /\ Unbooked(o) \intersect {r} = {}
        BY <1>1, <1>3 DEF Unbooked, PaymentTypeOK
      <4> DEFINE U == Unbooked(o)
      <4>2. U \subseteq moved
        BY DEF Unbooked
      <4>3. /\ Sums!IsFiniteSet(U) /\ \A s \in U : Amounts[s] \in Nat
            /\ Amounts[r] = r.amount /\ r.amount \in Nat
        BY <4>2, Countable, RefundsAssumption, TotalAssumption DEF Amounts
      <4> HIDE DEF U
      <4>4. Sums!IsFiniteSet({r})
        BY Sums!FS_Singleton
      <4>5. Sums!Total({r}, Amounts) = r.amount
        BY <4>3, Sums!TotalSingleton
      <4>6. Sums!Total(U, Amounts) \in Nat
        BY <4>3, Sums!TotalType
      <4>7. U \intersect {r} = {}
        BY <4>1 DEF U
      <4>8. Sums!Total(U \union {r}, Amounts) = Sums!Total(U, Amounts) + r.amount
        BY <4>3, <4>4, <4>5, <4>7, Sums!TotalDisjoint
      <4>9. payment[o].refunded + Sums!Total(U, Amounts) <= returned[o]
        BY <1>1, <2>1 DEF PayInv, RefundSide, MoneySide, Covered, U
      <4>10. payment[o].refunded + Sums!Total(U \union {r}, Amounts) <= returned'[o]
        BY <2>1, <3>2, <4>3, <4>6, <4>8, <4>9
      <4> QED  BY <1>1, <4>1, <4>10 DEF Covered, U, Amounts
    <3> QED  BY <3>1, <3>2
  <2> QED  BY <2>2, <2>3, <2>4, <2>5 DEF MoneySide
<1> QED  BY <1>2, <1>3 DEF StripeRefunds

\* So the rest is as it was.
LEMMA StripeRefundsPay ==
  ASSUME TypeOK, PaymentTypeOK, PayInv, NEW r \in Refunds, StripeRefunds(r)
  PROVE  PayInv'
<1>1. /\ UNCHANGED <<order, call, payment, intent, sent, done, hook>>
      /\ moved \subseteq moved' /\ r \in moved'
      /\ refund[r].pc = "stripe" /\ refund'[r].pc = "record"
      /\ \A s \in Refunds : s # r => refund'[s] = refund[s]
  BY DEF StripeRefunds, vars, PaymentTypeOK
<1>2. OrderSide' /\ PaidMeansCaptured'
  BY <1>1, OrderStays, TotalAssumption DEF PaymentTypeOK
<1>3. WebhookSide'
  BY <1>1 DEF PayInv, WebhookSide, SentIsTrue, RowIsTrue, HookIsTrue, Capture
<1>4. OneRowHolder'
  BY <1>1, RefundsAssumption DEF PayInv, RefundSide, OneRowHolder, HasRow
<1>5. RefundIsTrue'
  <2>1. \A s \in Refunds : AmountOf(s)' = AmountOf(s) /\ Remaining(s.on)' = Remaining(s.on)
    BY <1>1 DEF AmountOf, Remaining
  <2> QED  BY <1>1, <2>1 DEF PayInv, RefundSide, RefundIsTrue, HasRow
<1>6. PaymentsAgreeWithOrders' /\ OrdersLagOnRefunds'
  BY <1>1 DEF PayInv, PaymentsAgreeWithOrders, OrdersLagOnRefunds
<1> QED  BY <1>2, <1>3, <1>4, <1>5, <1>6, MoneyMoves DEF PayInv, RefundSide

\* What a refund books is at least one unit, no more than what is left, and the
\* status says whether anything is left.
LEMMA RefundBooks ==
  ASSUME TypeOK, PaymentTypeOK, PayInv, NEW r \in Refunds, RefundCommits(r)
  PROVE  /\ AmountOf(r) \in Nat \ {0} /\ AmountOf(r) <= Remaining(r.on)
         /\ payment[r.on].refunded \in Nat /\ r \in moved
         /\ payment[r.on].status \in {"succeeded", "partially_refunded"}
         /\ payment'[r.on].refunded = payment[r.on].refunded + AmountOf(r)
         /\ payment'[r.on].refunded \in 1 .. Total
         /\ payment'[r.on].status = IF payment'[r.on].refunded = Total
                                      THEN "refunded" ELSE "partially_refunded"
         /\ \A p \in Orders : p # r.on => payment'[p] = payment[p]
<1>1. /\ payment[r.on].status \in {"succeeded", "partially_refunded"}
      /\ AmountOf(r) <= Remaining(r.on) /\ r \in moved
  BY DEF RefundCommits, PayInv, RefundSide, RefundIsTrue, HasRow
<1>2. r.on \in Orders /\ r.amount \in 0 .. Total /\ payment[r.on].refunded \in 0 .. Total
  BY RefundsAssumption DEF PaymentTypeOK
<1>3. payment[r.on].refunded # Total
  BY <1>1, <1>2 DEF PayInv, WebhookSide, RowIsTrue
<1>4. AmountOf(r) \in Nat \ {0} /\ Remaining(r.on) \in Nat
  BY <1>2, <1>3, TotalAssumption DEF AmountOf, Remaining
<1>5. /\ payment'[r.on].refunded = payment[r.on].refunded + AmountOf(r)
      /\ payment'[r.on].status = IF AmountOf(r) = Remaining(r.on)
                                   THEN "refunded" ELSE "partially_refunded"
      /\ \A p \in Orders : p # r.on => payment'[p] = payment[p]
  BY <1>2 DEF RefundCommits, PaymentTypeOK
<1>6. /\ payment'[r.on].refunded \in 1 .. Total
      /\ payment'[r.on].refunded = Total <=> AmountOf(r) = Remaining(r.on)
  BY <1>1, <1>2, <1>4, <1>5, TotalAssumption DEF Remaining
<1> QED  BY <1>1, <1>2, <1>4, <1>5, <1>6

\* Booking a refund is covered by what Stripe gave back.
LEMMA MoneyBooked ==
  ASSUME TypeOK, PaymentTypeOK, PayInv, NEW r \in Refunds, RefundCommits(r)
  PROVE  MoneySide'
<1> DEFINE o == r.on
           U == Unbooked(o)
<1>1. /\ AmountOf(r) \in Nat /\ payment[o].refunded \in Nat /\ r \in moved
      /\ payment'[o].refunded = payment[o].refunded + AmountOf(r)
      /\ \A p \in Orders : p # o => payment'[p] = payment[p]
  BY RefundBooks
<1>2. /\ UNCHANGED <<moved, returned>> /\ o \in Orders
      /\ refund[r].pc = "record" /\ refund'[r].pc = "notify"
      /\ \A s \in Refunds : s # r => refund'[s] = refund[s]
  BY RefundsAssumption DEF RefundCommits, PaymentTypeOK
<1>3. moved \subseteq Refunds
  BY DEF PaymentTypeOK
<1>4. ASSUME NEW p \in Orders, p # o
      PROVE  Covered(p)'
  <2>1. Unbooked(p)' = Unbooked(p)
    BY <1>2, <1>3, <1>4 DEF Unbooked
  <2> QED  BY <1>1, <1>2, <1>4, <2>1 DEF PayInv, RefundSide, MoneySide, Covered, Amounts
<1>5. Covered(o)'
  <2>1. CASE returned[o] = Total
    BY <1>2, <2>1 DEF Covered
  <2>2. CASE returned[o] # Total
    <3>1. r.amount # 0 /\ AmountOf(r) = r.amount
      BY <1>1, <2>2 DEF PayInv, RefundSide, MoneySide, AmountOf
    <3>2. Unbooked(o)' = U \ {r} /\ {r} \subseteq U /\ U \subseteq moved
      BY <1>1, <1>2, <1>3 DEF Unbooked
    <3>3. payment[o].refunded + Sums!Total(U, Amounts) <= returned[o]
      BY <1>2, <2>2 DEF PayInv, RefundSide, MoneySide, Covered
    <3> HIDE DEF U
    <3>4. /\ Sums!IsFiniteSet(U) /\ \A s \in U : Amounts[s] \in Nat
          /\ Amounts[r] = r.amount /\ r.amount \in Nat /\ returned[o] \in Nat
      BY <1>2, <3>2, Countable, RefundsAssumption, TotalAssumption DEF Amounts, PaymentTypeOK
    <3>5. Sums!Total({r}, Amounts) = r.amount
      BY <3>4, Sums!TotalSingleton
    <3>6. /\ Sums!Total(U \ {r}, Amounts) = Sums!Total(U, Amounts) - Sums!Total({r}, Amounts)
          /\ Sums!Total(U, Amounts) \in Nat
      <4>1. Sums!IsFiniteSet(U) /\ {r} \subseteq U /\ \A s \in U : Amounts[s] \in Nat
        BY <3>2, <3>4
      <4> QED  BY <4>1, Sums!TotalRemove
    <3>7. payment'[o].refunded + Sums!Total(U \ {r}, Amounts) <= returned'[o]
      BY <1>1, <1>2, <3>1, <3>3, <3>4, <3>5, <3>6
    <3> QED  BY <3>2, <3>7 DEF Covered, Amounts
  <2> QED  BY <2>1, <2>2
<1>6. IsFiniteSet(moved') /\ \A s \in moved' : s.amount = 0 => returned'[s.on] = Total
  BY <1>2 DEF PayInv, RefundSide, MoneySide
<1> QED  BY <1>4, <1>5, <1>6 DEF MoneySide

\* Booking a refund contradicts nobody.
LEMMA RefundCommitsPay ==
  ASSUME TypeOK, PaymentTypeOK, PayInv, NEW r \in Refunds, RefundCommits(r)
  PROVE  PayInv'
<1> DEFINE o == r.on
<1>1. /\ UNCHANGED <<order, call, intent, moved, sent, done, hook>> /\ o \in Orders
      /\ refund[r].pc = "record" /\ refund'[r].pc = "notify"
      /\ refund'[r].total = payment[o].refunded + AmountOf(r)
      /\ \A s \in Refunds : s # r => refund'[s] = refund[s]
  BY RefundsAssumption DEF RefundCommits, vars, PaymentTypeOK
<1>2. /\ AmountOf(r) \in Nat \ {0} /\ payment[o].refunded \in Nat
      /\ payment[o].status \in {"succeeded", "partially_refunded"}
      /\ payment'[o].refunded = payment[o].refunded + AmountOf(r)
      /\ payment'[o].refunded \in 1 .. Total
      /\ payment'[o].status = IF payment'[o].refunded = Total THEN "refunded"
                                                              ELSE "partially_refunded"
      /\ \A p \in Orders : p # o => payment'[p] = payment[p]
  BY RefundBooks
<1>3. {"succeeded", "refunded", "partially_refunded"} \subseteq Settled /\ "failed" \notin Settled
  BY DEF Settled
<1>4. \A p \in Orders : /\ payment[p].refunded \in Nat /\ payment'[p].refunded \in Nat
                        /\ payment[p].refunded <= payment'[p].refunded
  BY <1>2, TotalAssumption DEF PaymentTypeOK
<1>5. OrderSide' /\ PaidMeansCaptured'
  BY <1>1, <1>4, OrderStays
<1>6. SentIsTrue' /\ HookIsTrue'
  BY <1>1 DEF PayInv, WebhookSide, SentIsTrue, HookIsTrue, Capture
<1>7. RowIsTrue'
  <2>1. intent[o] \notin {"none", "created"} /\ Capture(o) \in done
    BY <1>1, <1>2, <1>3 DEF PayInv, WebhookSide, RowIsTrue
  <2>2. \A p \in Orders : Capture(p)' = Capture(p)
    BY DEF Capture
  <2> QED  BY <1>1, <1>2, <1>3, <2>1, <2>2 DEF PayInv, WebhookSide, RowIsTrue
<1>8. OneRowHolder'
  BY <1>1 DEF PayInv, RefundSide, OneRowHolder, HasRow
<1>9. RefundIsTrue'
  <2> SUFFICES ASSUME NEW s \in Refunds
               PROVE  /\ HasRow(s)' =>
                           /\ payment'[s.on].status \in {"succeeded", "partially_refunded"}
                           /\ AmountOf(s)' <= Remaining(s.on)'
                      /\ refund'[s].pc = "record" => s \in moved'
                      /\ refund'[s].pc = "notify" => refund'[s].total \in 1 .. payment'[s.on].refunded
    BY DEF RefundIsTrue
  <2>1. CASE s = r
    BY <1>1, <1>2, <2>1 DEF HasRow
  <2>2. CASE s # r
    <3>1. refund'[s] = refund[s] /\ s.on \in Orders /\ (HasRow(s)' <=> HasRow(s))
      BY <1>1, <2>2, RefundsAssumption DEF HasRow
    <3>2. HasRow(s) => s.on # o
      BY <1>1, <2>2 DEF PayInv, RefundSide, OneRowHolder, HasRow
    <3>3. s.on # o => AmountOf(s)' = AmountOf(s) /\ Remaining(s.on)' = Remaining(s.on)
      BY <1>2, <3>1 DEF AmountOf, Remaining
    <3>4. refund[s].pc = "notify" => refund[s].total \in 1 .. payment'[s.on].refunded
      BY <1>4, <3>1, TotalAssumption DEF PayInv, RefundSide, RefundIsTrue, PaymentTypeOK
    <3> QED  BY <1>1, <1>2, <3>1, <3>2, <3>3, <3>4 DEF PayInv, RefundSide, RefundIsTrue
  <2> QED  BY <2>1, <2>2
<1>10. PaymentsAgreeWithOrders'
  BY <1>1, <1>2, <1>3 DEF PayInv, PaymentsAgreeWithOrders
<1>11. OrdersLagOnRefunds'
  BY <1>1, <1>2, <1>4 DEF PayInv, OrdersLagOnRefunds
<1> QED  BY <1>5, <1>6, <1>7, <1>8, <1>9, <1>10, <1>11, MoneyBooked DEF PayInv, WebhookSide, RefundSide

-----------------------------------------------------------------------------
(***************************************************************************)
(* The three together.                                                     *)
(***************************************************************************)

PaymentsInv == TypeOK /\ OrderInv /\ PaymentTypeOK /\ PayInv

\* It holds when checkout has left every order waiting for its payment.
LEMMA PaymentsStart == PaymentsInit => PaymentsInv
<1> SUFFICES ASSUME PaymentsInit PROVE PaymentsInv
  OBVIOUS
<1>1. TypeOK /\ OrderInv
  BY InitType, InitInv DEF PaymentsInit
<1>2. PaymentTypeOK
  BY TotalAssumption, FaultsAssumption DEF PaymentsInit, PaymentTypeOK
<1>3. OrderSide /\ PaidMeansCaptured /\ OrdersLagOnRefunds /\ PaymentsAgreeWithOrders
  BY DEF PaymentsInit, Init, OrderSide, StatusTellsPay, AcceptedIsDone, AskedIsTrue, Idle,
     PaidMeansCaptured, OrdersLagOnRefunds, PaymentsAgreeWithOrders, Fulfilled, Refundable, Settled
<1>4. WebhookSide
  BY TotalAssumption DEF PaymentsInit, WebhookSide, SentIsTrue, RowIsTrue, HookIsTrue, Settled
<1>5. OneRowHolder /\ RefundIsTrue
  BY RefundsAssumption DEF PaymentsInit, OneRowHolder, RefundIsTrue, HasRow
<1>6. MoneySide
  <2>1. \A o \in Orders : Unbooked(o) = {}
    BY DEF PaymentsInit, Unbooked
  <2>2. Sums!Total({}, Amounts) = 0
    BY Sums!TotalEmpty
  <2>3. IsFiniteSet(moved)
    <3>1. IsFiniteSet({}) <=> Sums!IsFiniteSet({})
      BY DEF IsFiniteSet, Sums!IsFiniteSet
    <3> QED  BY <3>1, Sums!FS_EmptySet DEF PaymentsInit
  <2> QED  BY <2>1, <2>2, <2>3 DEF PaymentsInit, MoneySide, Covered
<1> QED  BY <1>1, <1>2, <1>3, <1>4, <1>5, <1>6 DEF PaymentsInv, PayInv, RefundSide

\* Whatever Payment asks of Order, a step of the three is one that Order serves.
LEMMA StepOfOrder == PaymentsInv /\ [PaymentsNext]_allVars => [Serves]_vars
<1> SUFFICES ASSUME PaymentsInv, [PaymentsNext]_allVars PROVE [Serves]_vars
  OBVIOUS
<1>1. ASSUME NEW o \in Orders, CreateIntent(o) \/ CreatePayment(o) \/ Stripe(o)
      PROVE  UNCHANGED vars
  BY <1>1 DEF CreateIntent, CreatePayment, Stripe, StripeDeclines, StripeCaptures
<1>2. ASSUME NEW o \in Orders, Webhook(o)
      PROVE  [Serves]_vars
  <2>1. CASE HookCommits(o)
    <3>1. hook[o].call \in Calls
      BY <2>1 DEF HookCommits, PaymentsInv, PaymentTypeOK
    <3> QED  BY <2>1, <3>1 DEF HookCommits, Serves
  <2>2. ASSUME NEW e \in sent, NEW h \in Calls, HookStart(e, h)
        PROVE  Serves
    <3>1. e.op \in Ops /\ e.on \in Orders
      BY DEF PaymentsInv, PaymentTypeOK, Events, Ops
    <3> QED  BY <2>2, <3>1 DEF HookStart, Serves
  <2>3. ASSUME \/ HookRollsBack(o) \/ HookGivesUp(o) \/ \E e \in sent : HookSkips(e)
        PROVE  UNCHANGED vars
    BY <2>3 DEF HookRollsBack, HookGivesUp, HookSkips
  <2> QED  BY <1>2, <2>1, <2>2, <2>3 DEF Webhook
<1>3. ASSUME NEW r \in Refunds, Refund(r)
      PROVE  [Serves]_vars
  <2>1. ASSUME NEW h \in Calls, RefundNotifies(r, h)
        PROVE  Serves
    <3>1. r.on \in Orders /\ refund[r].total \in Nat /\ "refunded" \in Ops
      BY RefundsAssumption, TotalAssumption DEF PaymentsInv, PaymentTypeOK, Ops
    <3> QED  BY <2>1, <3>1 DEF RefundNotifies, Reported, Serves
  <2>2. ASSUME \/ RefundStart(r) \/ StripeRefunds(r) \/ RefundCommits(r) \/ RefundFails(r)
               \/ RefundNotReported(r)
        PROVE  UNCHANGED vars
    BY <2>2 DEF RefundStart, StripeRefunds, RefundCommits, RefundFails, RefundNotReported
  <2> QED  BY <1>3, <2>1, <2>2 DEF Refund
<1>4. ASSUME NEW h \in Calls, OrderSteps(h) \/ OrderFails(h) \/ Others(h)
      PROVE  Serves
  <2>1. Others(h) => \E op \in Ops, o \in Orders, arg \in Nat : Ask(h, op, o, arg)
    BY VersionAssumption DEF Others, Customer, Shipping, Ops, FulfillmentOps
  <2> QED  BY <1>4, <2>1 DEF OrderSteps, OrderFails, Serves
<1>5. ASSUME NEW o \in Orders, GroupErodes(o)
      PROVE  Serves
  BY <1>5 DEF Serves
<1> QED  BY <1>1, <1>2, <1>3, <1>4, <1>5 DEF PaymentsNext, allVars

\* Every step keeps what the three know of each other.
LEMMA PayStep ==
  ASSUME PaymentsInv, [PaymentsNext]_allVars
  PROVE  PayInv'
<1> USE DEF PaymentsInv
<1>1. ASSUME NEW o \in Orders, CreateIntent(o) \/ CreatePayment(o) \/ Stripe(o)
      PROVE  PayInv'
  BY <1>1, CreatePay, StripePay
<1>2. ASSUME NEW o \in Orders, Webhook(o)
      PROVE  PayInv'
  BY <1>2, HookCommitsPay, HookEndsPay, HookStartPay DEF Webhook
<1>3. ASSUME NEW r \in Refunds, Refund(r)
      PROVE  PayInv'
  BY <1>3, RefundStepPay, StripeRefundsPay, RefundCommitsPay, RefundNotifiesPay DEF Refund
<1>4. ASSUME NEW h \in Calls, OrderSteps(h) \/ OrderFails(h) \/ Others(h)
      PROVE  PayInv'
  <2>1. ASSUME Proceed(h) \/ Fail(h)
        PROVE  PayInv'
    BY <1>4, <2>1, OrderMovesPay DEF OrderSteps, OrderFails, Others, money
  <2>2. CASE Return(h) /\ ~Awaited(h) /\ UNCHANGED money
    <3>1. Idle \in Requests \union {Idle} /\ Idle.pc # "ok" /\ Idle.op \notin {"authorized", "refunded"}
      BY DEF Idle
    <3> QED  BY <2>2, <3>1, OthersAskPay DEF Return
  <2>3. CASE Others(h)
    <3>1. PICK op \in Ops, o \in Orders, arg \in Nat :
            op \notin {"authorized", "refunded"} /\ Ask(h, op, o, arg)
      BY <2>3, VersionAssumption DEF Others, Customer, Shipping, Ops, FulfillmentOps
    <3> DEFINE c == [op |-> op, on |-> o, arg |-> arg, pc |-> "asked"]
    <3>2. c \in Requests \union {Idle} /\ c.pc # "ok" /\ c.op \notin {"authorized", "refunded"}
      BY <3>1 DEF Requests, PCs
    <3>3. call[h] = Idle /\ call' = [call EXCEPT ![h] = c] /\ UNCHANGED <<order, money>>
      BY <2>3, <3>1 DEF Ask, Others
    <3>4. ~Awaited(h)
      BY <3>3, AtWork DEF Awaited
    <3> HIDE DEF c
    <3> QED  BY <3>2, <3>3, <3>4, OthersAskPay
  <2> QED  BY <1>4, <2>1, <2>2, <2>3 DEF OrderSteps, OrderFails
<1>5. ASSUME UNCHANGED <<order, call, money>>
      PROVE  PayInv'
  <2> USE <1>5 DEF money
  <2>1. OrderSide' /\ PaidMeansCaptured' /\ PaymentsAgreeWithOrders' /\ OrdersLagOnRefunds'
    BY DEF PayInv, OrderSide, StatusTellsPay, AcceptedIsDone, AskedIsTrue, PaidMeansCaptured,
       PaymentsAgreeWithOrders, OrdersLagOnRefunds
  <2>2. WebhookSide'
    BY DEF PayInv, WebhookSide, SentIsTrue, RowIsTrue, HookIsTrue, Capture
  <2>3. RefundSide'
    BY DEF PayInv, RefundSide, OneRowHolder, HasRow, RefundIsTrue, AmountOf, Remaining, MoneySide,
       Covered, Unbooked, Amounts
  <2> QED  BY <2>1, <2>2, <2>3 DEF PayInv
<1>6. ASSUME NEW o \in Orders, GroupErodes(o), UNCHANGED money
      PROVE  PayInv'
  BY <1>5, <1>6 DEF GroupErodes, rows
<1> QED  BY <1>1, <1>2, <1>3, <1>4, <1>5, <1>6 DEF PaymentsNext, allVars, vars

\* The types of the variables of Payment and Stripe.
LEMMA PaymentTypes ==
  ASSUME PaymentsInv, [PaymentsNext]_allVars
  PROVE  PaymentTypeOK'
<1> DEFINE Rows    == [status : {"none", "pending", "failed"} \union Settled, refunded : 0 .. Total]
           Intents == {"none", "created", "open", "captured"}
           Hooks   == [pc : {"waits"}, event : Events, call : Calls] \union {NoHook}
           States  == [pc : {"new", "stripe", "record", "notify", "unreported", "done"},
                       total : 0 .. Total]
           Good    == /\ payment \in [Orders -> Rows] /\ intent \in [Orders -> Intents]
                      /\ returned \in [Orders -> 0 .. Total] /\ moved \subseteq Refunds
                      /\ done \subseteq sent /\ sent \subseteq Events
                      /\ hook \in [Orders -> Hooks] /\ refund \in [Refunds -> States]
                      /\ faults \in 0 .. MaxFaults
<1>1. Good
  BY DEF PaymentsInv, PaymentTypeOK
<1>2. ASSUME NEW o \in Orders, CreateIntent(o) \/ CreatePayment(o)
      PROVE  Good'
  <2>1. payment' \in [Orders -> Rows]
    BY <1>1, <1>2 DEF CreateIntent, CreatePayment
  <2>2. intent' \in [Orders -> Intents]
    BY <1>1, <1>2 DEF CreateIntent, CreatePayment
  <2> HIDE DEF Rows, Intents, Hooks, States
  <2> QED  BY <1>1, <1>2, <2>1, <2>2 DEF CreateIntent, CreatePayment
<1>3. ASSUME NEW o \in Orders, Stripe(o)
      PROVE  Good'
  <2>1. sent \subseteq sent' /\ sent' \subseteq Events
    <3>1. [on |-> o, op |-> "authorized", attempt |-> 0] \in Events
      BY FaultsAssumption DEF Events, PaymentOps
    <3>2. CASE StripeDeclines(o)
      <4>1. PICK e \in EventsOf(o, "failed") : sent' = sent \union {e}
        BY <3>2 DEF StripeDeclines
      <4> QED  BY <1>1, <4>1 DEF EventsOf
    <3> QED  BY <1>1, <1>3, <3>1, <3>2 DEF Stripe, StripeCaptures
  <2> QED  BY <1>1, <1>3, <2>1 DEF Stripe, StripeDeclines, StripeCaptures
<1>4. ASSUME NEW o \in Orders, Webhook(o)
      PROVE  Good'
  <2>1. CASE HookCommits(o)
    <3>1. hook[o].event.op \in PaymentOps /\ hook[o].event \in sent
      BY <2>1, AtWork DEF HookCommits, PaymentsInv
    <3>2. Verdict[hook[o].event.op] \in {"succeeded", "failed"}
      BY <3>1 DEF Verdict, PaymentOps
    <3> QED  BY <1>1, <2>1, <3>1, <3>2 DEF HookCommits, Settled
  <2>2. ASSUME NEW e \in sent, NEW h \in Calls, HookStart(e, h)
        PROVE  Good'
    BY <1>1, <2>2 DEF HookStart, RecordedNow, WhileAsking
  <2>3. ASSUME \/ HookRollsBack(o) \/ HookGivesUp(o) \/ \E e \in sent : HookSkips(e)
        PROVE  Good'
    BY <1>1, <2>3, FaultsAssumption DEF HookRollsBack, HookGivesUp, HookSkips
  <2> HIDE DEF Good
  <2> QED  BY <1>4, <2>1, <2>2, <2>3 DEF Webhook
<1>5. ASSUME NEW r \in Refunds, Refund(r)
      PROVE  Good'
  <2>1. CASE StripeRefunds(r)
    <3>1. returned' \in [Orders -> 0 .. Total] /\ moved' \subseteq Refunds
      BY <1>1, <2>1, RefundsAssumption, TotalAssumption DEF StripeRefunds
    <3> QED  BY <1>1, <2>1, <3>1 DEF StripeRefunds
  <2>2. CASE RefundCommits(r)
    <3>1. payment[r.on].refunded + AmountOf(r) \in 0 .. Total
      BY <2>2, RefundBooks, TotalAssumption DEF PaymentsInv
    <3> QED  BY <1>1, <2>2, <3>1 DEF RefundCommits, Settled
  <2>3. ASSUME \/ RefundStart(r) \/ RefundFails(r) \/ RefundNotReported(r)
               \/ \E h \in Calls : RefundNotifies(r, h)
        PROVE  Good'
    BY <1>1, <2>3 DEF RefundStart, RefundFails, RefundNotReported, RefundNotifies
  <2> HIDE DEF Good
  <2> QED  BY <1>5, <2>1, <2>2, <2>3 DEF Refund
<1>6. ASSUME NEW h \in Calls, OrderFails(h)
      PROVE  Good'
  BY <1>1, <1>6, FaultsAssumption DEF OrderFails
<1>7. ASSUME UNCHANGED money
      PROVE  Good'
  BY <1>1, <1>7 DEF money
<1>8. Good'
  <2> HIDE DEF Good
  <2> QED  BY <1>2, <1>3, <1>4, <1>5, <1>6, <1>7 DEF PaymentsNext, OrderSteps, Others, allVars
<1> QED  BY <1>8 DEF PaymentTypeOK

\* Every step keeps the invariant of the three.
LEMMA PaymentsStep == PaymentsInv /\ [PaymentsNext]_allVars => PaymentsInv'
<1> SUFFICES ASSUME PaymentsInv, [PaymentsNext]_allVars PROVE PaymentsInv'
  OBVIOUS
<1>1. TypeOK' /\ OrderInv'
  BY StepOfOrder, ServesType, ServesInv DEF PaymentsInv
<1> QED  BY <1>1, PayStep, PaymentTypes DEF PaymentsInv

\* So it holds in every reachable state.
LEMMA PaymentsInvariance == PaymentsSpec => []PaymentsInv
BY PaymentsStart, PaymentsStep, PTL DEF PaymentsSpec

\* Order goes on serving as module Orders says, whatever Payment asks of it:
\* what OrdersProofs proves of its steps holds here too.
THEOREM OrdersServed == PaymentsSpec => ServingSpec
<1>1. PaymentsInit => Init
  BY DEF PaymentsInit
<1> QED  BY <1>1, StepOfOrder, PaymentsInvariance, PTL DEF PaymentsSpec, ServingSpec

\* The variables of Payment and Stripe keep their types.
THEOREM PaymentTypesStay == PaymentsSpec => []PaymentTypeOK
<1>1. PaymentsInv => PaymentTypeOK
  BY DEF PaymentsInv
<1> QED  BY <1>1, PaymentsInvariance, PTL

\* Payment and Order agree on the outcome of every payment, however the webhook's
\* requests to Order time out, are carried out late or lose their answer
\* (payment_service.py:248-330, order service.py payment_authorized, payment_failed).
THEOREM OutcomesAgree == PaymentsSpec => []PaymentsAgreeWithOrders
<1>1. PaymentsInv => PaymentsAgreeWithOrders
  BY DEF PaymentsInv, PayInv
<1> QED  BY <1>1, PaymentsInvariance, PTL

\* Nothing is confirmed, shipped or marked as paid that Stripe did not take the
\* money for.
THEOREM NothingPaidUncaptured == PaymentsSpec => []PaidMeansCaptured
<1>1. PaymentsInv => PaidMeansCaptured
  BY DEF PaymentsInv, PayInv
<1> QED  BY <1>1, PaymentsInvariance, PTL

\* What is booked as refunded was given back, and no more than was taken is given
\* back, whichever refunds race, fail half way or are repeated with their key
\* (payment_service.py create_refund).
THEOREM RefundsAreCovered == PaymentsSpec => []BookedWasReturned
<1>1. PaymentsInv => BookedWasReturned
  <2> SUFFICES ASSUME PaymentsInv, NEW o \in Orders
               PROVE  payment[o].refunded <= returned[o] /\ returned[o] <= Total
    BY DEF BookedWasReturned
  <2> DEFINE U == Unbooked(o)
  <2>1. U \subseteq moved
    BY DEF Unbooked
  <2>2. Sums!IsFiniteSet(U) /\ \A s \in U : Amounts[s] \in Nat
    BY <2>1, Countable DEF PaymentsInv
  <2>3. returned[o] = Total \/ payment[o].refunded + Sums!Total(U, Amounts) <= returned[o]
    BY DEF PaymentsInv, PayInv, RefundSide, MoneySide, Covered
  <2> HIDE DEF U
  <2>4. Sums!Total(U, Amounts) \in Nat
    BY <2>2, Sums!TotalType
  <2>5. payment[o].refunded \in 0 .. Total /\ returned[o] \in 0 .. Total
    BY DEF PaymentsInv, PaymentTypeOK
  <2> QED  BY <2>3, <2>4, <2>5, TotalAssumption
<1> QED  BY <1>1, PaymentsInvariance, PTL

\* Order never says more was refunded than Payment has booked.
THEOREM OrdersNeverAhead == PaymentsSpec => []OrdersLagOnRefunds
<1>1. PaymentsInv => OrdersLagOnRefunds
  BY DEF PaymentsInv, PayInv
<1> QED  BY <1>1, PaymentsInvariance, PTL

\* What Payment said of the outcome it never takes back, and its sum of refunds
\* never shrinks.
THEOREM PaymentStands == PaymentsSpec => PaymentVerdictStands
<1> DEFINE Kept(o) == /\ payment[o].status \in Settled => payment'[o].status \in Settled
                      /\ payment[o].status = "failed"  => payment'[o].status = "failed"
                      /\ payment'[o].refunded >= payment[o].refunded
<1>1. PaymentsInv /\ [PaymentsNext]_allVars => [\A o \in Orders : Kept(o)]_allVars
  <2> SUFFICES ASSUME PaymentsInv, PaymentsNext, NEW o \in Orders PROVE Kept(o)
    OBVIOUS
  <2> USE DEF PaymentsInv
  <2>1. /\ payment[o].refunded \in Nat /\ "failed" \notin Settled
        /\ {"succeeded", "refunded", "partially_refunded"} \subseteq Settled
    BY TotalAssumption DEF PaymentTypeOK, Settled
  <2>2. CASE payment' = payment
    BY <2>1, <2>2
  <2>3. ASSUME NEW p \in Orders, CreatePayment(p)
        PROVE  Kept(o)
    <3>1. payment[p].status = "none" /\ "none" \notin Settled
      BY <2>3 DEF CreatePayment, PayInv, WebhookSide, RowIsTrue, Settled
    <3> QED  BY <2>1, <2>3, <3>1 DEF CreatePayment, PaymentTypeOK
  <2>4. ASSUME NEW p \in Orders, HookCommits(p)
        PROVE  Kept(o)
    <3>1. payment[p].status = "failed" => payment'[p].status = "failed"
      BY <2>4, Books DEF PayInv, PaymentsAgreeWithOrders, Refundable
    <3> QED  BY <2>1, <2>4, <3>1, Books
  <2>5. ASSUME NEW r \in Refunds, RefundCommits(r)
        PROVE  Kept(o)
    BY <2>1, <2>5, RefundBooks
  <2>6. \/ payment' = payment
        \/ \E p \in Orders : CreatePayment(p) \/ HookCommits(p)
        \/ \E r \in Refunds : RefundCommits(r)
    BY DEF PaymentsNext, CreateIntent, Stripe, StripeDeclines, StripeCaptures, Webhook, HookStart,
       HookSkips, HookRollsBack, HookGivesUp, WhileAsking, Refund, RefundStart, StripeRefunds,
       RefundFails, RefundNotReported, RefundNotifies, OrderSteps, OrderFails, Others, money
  <2> QED  BY <2>2, <2>3, <2>4, <2>5, <2>6
<1> QED  BY <1>1, PaymentsInvariance, PTL DEF PaymentsSpec, PaymentVerdictStands
=============================================================================
