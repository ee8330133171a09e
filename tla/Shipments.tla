----------------------------- MODULE Shipments ------------------------------
(***************************************************************************)
(* Shipping service over Order service: booking the shipment of an order,  *)
(* marking it shipped and delivered, and recording an exception.           *)
(*                                                                         *)
(* Every step but the exception asks Order first and books the step only   *)
(* when Order accepted it.  Shipping and delivering hold the lock of the   *)
(* shipment row meanwhile; booking has no row to lock yet, and relies on   *)
(* Order and on the unique order_id of shipments.  A handler that stops or *)
(* gives up after Order accepted leaves its step unbooked.                 *)
(***************************************************************************)
EXTENDS Orders

CONSTANT Clerks  \* requests of sellers that can be in progress at the same time

VARIABLES
  shipment,      \* status of the order's shipment, "none" before it is booked
  task           \* the requests in progress

logistics    == <<shipment, task>>
shippingVars == <<vars, logistics>>

\* Mutant: shipments are given the order's status.
OrderStages == [op \in FulfillmentOps |-> op]

Stages    == [processing |-> "pending", shipped |-> "shipped", delivered |-> "delivered"]

Earlier   == [processing |-> "none",    shipped |-> "pending", delivered |-> "shipped"]

NoTask    == [pc |-> "idle"]

\* How far a shipment and its order have come.
Progress == [none |-> 0, pending |-> 1, shipped |-> 2, delivered |-> 3]
Rank     == [processing |-> 1, shipped |-> 2, delivered |-> 3]

-----------------------------------------------------------------------------
\* Mutant: shipments are read without FOR UPDATE.
Unlocked(o) == FALSE

RowLocked(o) == \E k \in Clerks : /\ task[k] # NoTask
                                  /\ task[k].on = o
                                  /\ task[k].op # "processing"

\* Mutant: any answer of Order is good enough.
OrderReplied(h) == call[h].pc \in {"ok", "refused"}

OrderAgreed(h) == call[h].pc = "ok"

ClerkWaits(h) == \E k \in Clerks : task[k] # NoTask /\ task[k].call = h

ShipmentsInit == /\ Init
                 /\ shipment = [o \in Orders |-> "none"]
                 /\ task = [k \in Clerks |-> NoTask]

\* create_shipment, ship or deliver is asked for and turns to Order.
AskOrder(k, op, o, h) ==
  /\ task[k] = NoTask
  /\ ~RowLocked(o)
  /\ shipment[o] = Earlier[op]
  /\ Ask(h, op, o, 0)
  /\ task' = [task EXCEPT ![k] = [pc |-> "waits", op |-> op, on |-> o, call |-> h]]
  /\ UNCHANGED shipment

\* Booking a second shipment of an order violates the unique constraint.
Book(k) ==
  LET t == task[k] IN
  /\ t # NoTask
  /\ OrderAgreed(t.call)
  /\ Return(t.call)
  /\ t.op = "processing" => shipment[t.on] = "none"
  /\ shipment' = [shipment EXCEPT ![t.on] = Stages[t.op]]
  /\ task' = [task EXCEPT ![k] = NoTask]

\* Order refused or did not answer, the wait timed out, or Shipping stopped.
Abandon(k) ==
  /\ task[k] # NoTask
  /\ task' = [task EXCEPT ![k] = NoTask]
  /\ UNCHANGED <<vars, shipment>>

\* Order hears nothing of an exception.
RecordException(o) ==
  /\ ~RowLocked(o)
  /\ shipment[o] \in {"pending", "shipped"}
  /\ shipment' = [shipment EXCEPT ![o] = "failed"]
  /\ UNCHANGED <<vars, task>>

-----------------------------------------------------------------------------
Clerk(k) == Book(k) \/ Abandon(k)
              \/ \E o \in Orders, op \in FulfillmentOps, h \in Calls : AskOrder(k, op, o, h)

OrderGoesOn(h) == /\ \/ Proceed(h) \/ Fail(h) \/ Customer(h) \/ Payment(h)
                     \/ Return(h) /\ ~ClerkWaits(h)
                  /\ UNCHANGED logistics

ShipmentsNext ==
  \/ \E k \in Clerks : Clerk(k)
  \/ \E o \in Orders : RecordException(o) \/ (GroupErodes(o) /\ UNCHANGED logistics)
  \/ \E h \in Calls : OrderGoesOn(h)

ShipmentsSpec == ShipmentsInit /\ [][ShipmentsNext]_shippingVars

-----------------------------------------------------------------------------
\* The variables of Order and of Shipping keep their types.
ShipmentTypeOK ==
  /\ TypeOK
  /\ shipment \in [Orders -> {"none", "pending", "shipped", "delivered", "failed"}]
  /\ task \in [Clerks -> [pc : {"waits"}, op : FulfillmentOps, on : Orders, call : Calls]
                           \union {NoTask}]

\* "There's never a local Shipment that doesn't correspond to a real Order
\* transition": a shipment is at most as far as its order, or the order was
\* cancelled; and requests that were given up and are carried out late do not
\* get an order more than one step ahead of its shipment.
ShipmentTracksOrder ==
  \A o \in Orders :
    /\ shipment[o] \notin {"none", "failed"} /\ order[o].status # "cancelled"
         => \E op \in FulfillmentOps : /\ order[o].status = op
                                       /\ Progress[shipment[o]] <= Rank[op]
    /\ \A op \in FulfillmentOps :
         order[o].status = op /\ shipment[o] # "failed"
           => Rank[op] <= Progress[shipment[o]] + 1

\* A shipment passes through its stages one by one and never leaves failed or
\* delivered: an exception is not overwritten by a request that waits for
\* Order at that moment, nor does it overtake one.
StagesInOrder ==
  [][\A o \in Orders : shipment'[o] # shipment[o] =>
       \/ shipment[o] \in {"pending", "shipped"} /\ shipment'[o] = "failed"
       \/ \E op \in FulfillmentOps :
            shipment[o] = Earlier[op] /\ shipment'[o] = Stages[op]]_shippingVars
=============================================================================
