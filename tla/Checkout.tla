------------------------------ MODULE Checkout ------------------------------
(***************************************************************************)
(* Order service: checkout, the creation of an order from a cart.          *)
(*                                                                         *)
(* An attempt is one POST /orders of a customer, under an Idempotency-Key  *)
(* the customer chose.  It looks up the key and the cart, takes the cart's *)
(* snapshot, has Inventory reserve the lines as one group (under the same  *)
(* key), and inserts the order; unique constraints on the key and on the   *)
(* live order of a cart decide races, whose loser releases the group it    *)
(* reserved.  Then Cart is told to close the cart, and what it answers is  *)
(* ignored.  Nothing is locked between these steps, each of which may time *)
(* out (and still be carried out later) or be the attempt's last.          *)
(*                                                                         *)
(* The attempt's name also stands for what is made for it: order_number,   *)
(* the reservation group, the order.  Cart and the later life of orders    *)
(* (module Orders) are reduced to what checkout depends on.                *)
(***************************************************************************)
EXTENDS Naturals

CONSTANTS
  Attempts,   \* checkout requests of one customer
  Keys,       \* values of Idempotency-Key
  Carts,      \* carts of the customer
  MaxVersion, \* bound on the version of a cart
  Nobody      \* no attempt

ASSUME BoundAssumption == MaxVersion \in Nat \ {0}
ASSUME NobodyAssumption == Nobody \notin Attempts

VARIABLES
  attempt,    \* the requests: where they are, what they ask for, what they got
  order,      \* orders: status ("none" before it exists), cart, key, group, and
              \* whether their stock was given back because they are to end
  record,     \* order_idempotency: the order a key stands for
  holder,     \* Inventory's idempotency records: who reserved under a key
  cart,       \* carts: status, version, whether there is something in it
  phase,      \* what Inventory made of the group of an attempt
  told        \* what Inventory answered about it

Inventory == INSTANCE ReservationGroups WITH Groups <- Attempts

group == <<phase, told, holder>>
vars  == <<attempt, order, record, cart, group>>

CartStatuses  == {"none", "active", "checked_out", "expired"}
OrderStatuses == {"none", "pending", "paid", "ended"}

\* Waiting for the next step; given up with a request still under way; done.
PCs == {"idle", "new", "reserve", "save", "undo", "close",
        "lateReserve", "lateUndo", "lateClose", "done"}

Unsent  == [pc |-> "idle"]
NoOrder == [status |-> "none"]

\* The requests that were sent, and the orders that exist.
Requests == [pc : PCs \ {"idle"}, key : Keys, cart : Carts, version : 1 .. MaxVersion,
             group : Attempts \union {Nobody}, answer : Attempts \union {Nobody}]
Orders   == [status : OrderStatuses \ {"none"}, cart : Carts, key : Keys, group : Attempts,
             leaving : BOOLEAN]

\* The fields the request hash covers, addresses aside.
Body(a) == <<attempt[a].cart, attempt[a].version>>

-----------------------------------------------------------------------------
Goto(a, pc) == attempt' = [attempt EXCEPT ![a].pc = pc]

\* Mutant: a key may be used again for another request.
AnyBody(body, o) == TRUE

SameBody(body, o) == body = Body(o)

\* Mutant: the order_reference is not part of the request to Inventory.
AnyReservation(a, b) == TRUE

\* Inventory compares the whole request, which names the order to be.
SameReservation(a, b) == a = b

\* Mutant of Live: a paid order does not keep its cart.
Pending(o) == order[o].status = "pending"

Live(o) == order[o].status \in {"pending", "paid"}

Taken(c) == \E o \in Attempts : Live(o) /\ order[o].cart = c

\* Mutant: checkout goes on when the order could not be saved.
CarriesOn(a) == "close"

OnFailure(a) == "undo"

\* Mutant: carts start without a version.
NoVersion == 0

FirstVersion == 1

-----------------------------------------------------------------------------
Init ==
  /\ attempt = [a \in Attempts |-> Unsent]
  /\ order   = [a \in Attempts |-> NoOrder]
  /\ record  = [k \in Keys |-> Nobody]
  /\ holder  = [k \in Keys |-> Nobody]
  /\ cart    = [c \in Carts |-> [status |-> "none", version |-> FirstVersion, filled |-> FALSE]]
  /\ Inventory!Init

\* A request arrives, for a version of the cart that its customer saw.  A key
\* that was used answers with its order, if it was for this request.
LookUp(a, k, c, v) ==
  LET o == record[k] IN
  /\ attempt[a] = Unsent
  /\ cart[c].status # "none" /\ v <= cart[c].version
  /\ attempt' = [attempt EXCEPT ![a] =
       [pc |-> IF o = Nobody THEN "new" ELSE "done", key |-> k, cart |-> c, version |-> v,
        group |-> Nobody, answer |-> IF o # Nobody /\ SameBody(<<c, v>>, o) THEN o ELSE Nobody]]
  /\ UNCHANGED <<order, record, cart, group>>

\* No live order has the cart yet, and Cart gives its snapshot: it is still
\* the active cart, in the version asked for, and ready for checkout.
Snapshot(a) ==
  LET c == attempt[a].cart IN
  /\ attempt[a].pc = "new"
  /\ ~Taken(c)
  /\ cart[c].status = "active" /\ cart[c].version = attempt[a].version /\ cart[c].filled
  /\ Goto(a, "reserve")
  /\ UNCHANGED <<order, record, cart, group>>

\* Prices changed: Cart refreshes them, and the checkout is refused.
Refresh(a) ==
  LET c == attempt[a].cart IN
  /\ attempt[a].pc = "new"
  /\ ~Taken(c)
  /\ cart[c].status = "active" /\ cart[c].version = attempt[a].version /\ cart[c].filled
  /\ cart[c].version < MaxVersion
  /\ cart' = [cart EXCEPT ![c].version = @ + 1]
  /\ Goto(a, "done")
  /\ UNCHANGED <<order, record, group>>

\* The cart is taken or not as it should be, stock is short, a service does
\* not answer, or the handler stops.
GiveUp(a) ==
  /\ attempt[a].pc \in {"new", "reserve", "save", "undo", "close"}
  /\ Goto(a, "done")
  /\ UNCHANGED <<order, record, cart, group>>

\* Inventory reserves all lines as a group of their own, and keeps the key.
Reserves(a) == /\ holder[attempt[a].key] = Nobody
               /\ Inventory!Reserve(a)
               /\ holder' = [holder EXCEPT ![attempt[a].key] = a]

Reserve(a) ==
  /\ attempt[a].pc = "reserve"
  /\ Reserves(a)
  /\ attempt' = [attempt EXCEPT ![a].pc = "save", ![a].group = a]
  /\ UNCHANGED <<order, record, cart>>

\* A key Inventory knows is answered with its group, to the same request only.
ReserveAgain(a) ==
  LET b == holder[attempt[a].key] IN
  /\ attempt[a].pc = "reserve"
  /\ b # Nobody
  /\ IF SameReservation(a, b)
       THEN /\ Inventory!Replay(b)
            /\ attempt' = [attempt EXCEPT ![a].pc = "save", ![a].group = b]
       ELSE /\ Goto(a, "done")
            /\ UNCHANGED <<phase, told>>
  /\ UNCHANGED <<order, record, holder, cart>>

\* The order and the record of its key are inserted, or a constraint fails.
Save(a) ==
  LET k == attempt[a].key  c == attempt[a].cart IN
  /\ attempt[a].pc = "save"
  /\ IF record[k] = Nobody /\ ~Taken(c)
       THEN /\ order' = [order EXCEPT ![a] =
                 [status |-> "pending", cart |-> c, key |-> k, group |-> attempt[a].group,
                  leaving |-> FALSE]]
            /\ record' = [record EXCEPT ![k] = a]
            /\ attempt' = [attempt EXCEPT ![a].pc = "close", ![a].answer = a]
       ELSE /\ Goto(a, OnFailure(a))
            /\ UNCHANGED <<order, record>>
  /\ UNCHANGED <<cart, group>>

\* The transaction fails for another reason.
SaveFails(a) ==
  /\ attempt[a].pc = "save"
  /\ Goto(a, OnFailure(a))
  /\ UNCHANGED <<order, record, cart, group>>

\* Inventory releases the group, or it is not active any more (409).
Releases(g) == \/ Inventory!Complete(g, "released")
               \/ phase[g] \notin {"active", "released"} /\ UNCHANGED <<phase, told>>

Undo(a) ==
  /\ attempt[a].pc \in {"undo", "lateUndo"}
  /\ Releases(attempt[a].group)
  /\ Goto(a, "done")
  /\ UNCHANGED <<order, record, holder, cart>>

\* mark_checked_out takes any version of the cart, if it is active and not empty.
Close(a) ==
  LET c == attempt[a].cart IN
  /\ attempt[a].pc \in {"close", "lateClose"}
  /\ cart' = IF cart[c].status = "active" /\ cart[c].filled
               THEN [cart EXCEPT ![c].status = "checked_out", ![c].version = @ + 1]
               ELSE cart
  /\ Goto(a, "done")
  /\ UNCHANGED <<order, record, group>>

\* A request is not answered in time; it may still be carried out.
Lose(a) ==
  /\ attempt[a].pc \in {"reserve", "undo", "close"}
  /\ Goto(a, CASE attempt[a].pc = "reserve" -> "lateReserve"
               [] attempt[a].pc = "undo"    -> "lateUndo"
               [] attempt[a].pc = "close"   -> "lateClose")
  /\ UNCHANGED <<order, record, cart, group>>

LateReserve(a) ==
  /\ attempt[a].pc = "lateReserve"
  /\ Reserves(a)
  /\ Goto(a, "done")
  /\ UNCHANGED <<order, record, cart>>

-----------------------------------------------------------------------------
\* The order is paid for: its group is committed first, in a call to Inventory
\* that the transaction of the order may not survive.
OrderCommits(o) ==
  /\ order[o].status = "pending"
  /\ Inventory!Complete(order[o].group, "committed")
  /\ UNCHANGED <<attempt, order, record, holder, cart>>

OrderPaid(o) ==
  /\ order[o].status = "pending" /\ "committed" \in told[order[o].group]
  /\ order' = [order EXCEPT ![o].status = "paid"]
  /\ UNCHANGED <<attempt, record, cart, group>>

\* The order is to be cancelled, or its payment failed: its group is released
\* first, and the order ends later, or never if the handler stops between.
OrderReleases(o) ==
  /\ Live(o)
  /\ Releases(order[o].group)
  /\ order' = [order EXCEPT ![o].leaving = TRUE]
  /\ UNCHANGED <<attempt, record, holder, cart>>

OrderEnds(o) ==
  /\ order[o].status = "pending" \/ order[o].status = "paid"
  /\ order[o].leaving
  /\ order' = [order EXCEPT ![o].status = "ended"]
  /\ UNCHANGED <<attempt, record, cart, group>>

\* The customer has one active cart at most.
NewCart(c) ==
  /\ cart[c].status = "none"
  /\ \A d \in Carts : cart[d].status # "active"
  /\ cart' = [cart EXCEPT ![c].status = "active"]
  /\ UNCHANGED <<attempt, order, record, group>>

EditCart(c) ==
  /\ cart[c].status = "active" /\ cart[c].version < MaxVersion
  /\ \E filled \in BOOLEAN :
       cart' = [cart EXCEPT ![c].version = @ + 1, ![c].filled = filled]
  /\ UNCHANGED <<attempt, order, record, group>>

\* The sweep locks nothing: a cart that it found active, and overwrites, may
\* have been checked out since.
CartExpires(c) ==
  /\ cart[c].status \in {"active", "checked_out"}
  /\ cart' = [cart EXCEPT ![c].status = "expired",
                         ![c].version = IF cart[c].status = "active" THEN @ + 1 ELSE @]
  /\ UNCHANGED <<attempt, order, record, group>>

GroupErodes(a) == Inventory!Erode({a}) /\ UNCHANGED <<attempt, order, record, holder, cart>>

-----------------------------------------------------------------------------
Request(a) == \E k \in Keys, c \in Carts, v \in 1 .. MaxVersion : LookUp(a, k, c, v)

Handle(a) == \/ Snapshot(a) \/ Refresh(a) \/ Reserve(a) \/ ReserveAgain(a)
             \/ Save(a)     \/ Undo(a)    \/ Close(a)

Fail(a) == GiveUp(a) \/ SaveFails(a) \/ Lose(a) \/ LateReserve(a)

OrderGoesOn(o) == OrderCommits(o) \/ OrderPaid(o) \/ OrderReleases(o) \/ OrderEnds(o)

Next == \/ \E a \in Attempts : \/ Request(a)     \/ Handle(a)      \/ Fail(a)
                               \/ OrderGoesOn(a) \/ GroupErodes(a)
        \/ \E c \in Carts : NewCart(c) \/ EditCart(c) \/ CartExpires(c)

Spec == Init /\ [][Next]_vars

-----------------------------------------------------------------------------
\* The variables keep their types.
TypeOK ==
  /\ attempt \in [Attempts -> Requests \union {Unsent}]
  /\ order \in [Attempts -> Orders \union {NoOrder}]
  /\ record \in [Keys -> Attempts \union {Nobody}]
  /\ holder \in [Keys -> Attempts \union {Nobody}]
  /\ cart \in [Carts -> [status : CartStatuses, version : 1 .. MaxVersion + 1, filled : BOOLEAN]]
  /\ phase \in [Attempts -> Inventory!Phases]
  /\ told \in [Attempts -> SUBSET Inventory!Answers]

\* The loser of a race releases what it reserved itself and nothing else:
\* whatever keys two attempts share and however late a release arrives, the
\* stock of a living order is only ever given back by its own cancellation or
\* failed payment, and never once the order is paid.
OrdersKeepTheirStock ==
  \A o \in Attempts :
    Live(o) /\ "released" \in told[order[o].group] => order[o].leaving /\ Pending(o)

\* A cart is paid for once, however often it is checked out, under however
\* many keys, and whatever became of its first order.
CartPaidOnce ==
  \A o, p \in Attempts :
    order[o].status = "paid" /\ order[p].status = "paid" /\ order[o].cart = order[p].cart
      => o = p

\* All attempts under a key that are answered with an order get the same one,
\* and it was made for the request they sent.
KeysNameOneOrder ==
  \A a, b \in Attempts :
    (/\ attempt[a] # Unsent /\ attempt[a].answer # Nobody
     /\ attempt[b] # Unsent /\ attempt[b].answer # Nobody
     /\ attempt[a].key = attempt[b].key)
      => attempt[a].answer = attempt[b].answer /\ Body(a) = Body(b)

\* A cart is closed only for an order that was made from it: no failure on
\* the way costs the customer the cart.
ClosedCartsWereOrdered ==
  \A c \in Carts : cart[c].status = "checked_out"
                     => \E o \in Attempts : order[o] # NoOrder /\ order[o].cart = c
=============================================================================
