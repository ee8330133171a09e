--------------------------- MODULE CheckoutProofs ---------------------------
(***************************************************************************)
(* Checkout keeps its types and its promises for any number of attempts,   *)
(* keys and carts: living orders keep their stock, a cart is paid for      *)
(* once, a key names one order, and only carts that were ordered close.    *)
(*                                                                         *)
(* CheckoutInv is inductive with TypeInv and StockInv.  Its heart is who   *)
(* owns what: an attempt only ever gives back the group that it reserved   *)
(* itself (OwnGroup), it does so only as long as it made no order          *)
(* (OrderIsOwn), and no group is released before its attempt was decided   *)
(* (NotReleased).  StockInv adds what keeps the stock of a paid order: it  *)
(* is committed, and Inventory never answers both ways about a group.      *)
(***************************************************************************)
EXTENDS Checkout, TLAPS

\* The last steps: the order was saved, or nothing will be.
Late == {"close", "lateClose", "done"}

\* A cart that can still change has a version left.
OpenCartsHaveRoom ==
  \A c \in Carts : cart[c].status \in {"none", "active"} => cart[c].version <= MaxVersion

\* What an attempt may save or give back is the group it reserved itself.
OwnGroup == \A a \in Attempts : attempt[a].pc \in {"save", "undo", "lateUndo"}
                                  => attempt[a].group = a

TypeInv == TypeOK /\ OpenCartsHaveRoom /\ OwnGroup

\* An order belongs to an attempt that is past saving, and has its group and cart.
OrderIsOwn == \A a \in Attempts : order[a] # NoOrder => /\ attempt[a].pc \in Late
                                                        /\ order[a].group = a
                                                        /\ order[a].cart = attempt[a].cart

\* Inventory's answers about the end of a group stay true.
AnswersHold == \A g \in Attempts : \A a \in {"committed", "released"} :
                 a \in told[g] => phase[g] = a

\* A paid order has its stock.
PaidAreCommitted ==
  \A o \in Attempts : order[o].status = "paid" => "committed" \in told[order[o].group]

StockInv == AnswersHold /\ PaidAreCommitted

\* Who closes a cart has ordered it.
ClosersHaveOrdered == \A a \in Attempts : attempt[a].pc \in {"close", "lateClose"}
                                            => order[a] # NoOrder

\* A group is not released while its attempt may still save an order for it.
NotReleased == \A a \in Attempts : attempt[a].pc \in {"idle", "new", "reserve", "save", "lateReserve"}
                                     => "released" \notin told[a]

\* A cart has one living order at most.
OneLiveOrder == \A o, p \in Attempts : Live(o) /\ Live(p) /\ order[o].cart = order[p].cart
                                         => o = p

\* A key stands for an order that exists.
RecordsHaveOrders == \A k \in Keys : record[k] # Nobody => order[record[k]] # NoOrder

\* An answer is the order its key stands for, made for the same request.
AnswersAreRecorded ==
  \A a \in Attempts : attempt[a] # Unsent /\ attempt[a].answer # Nobody
                        => /\ attempt[a].answer = record[attempt[a].key]
                           /\ Body(a) = Body(attempt[a].answer)

CheckoutInv == /\ OrderIsOwn /\ ClosersHaveOrdered /\ NotReleased
               /\ OrdersKeepTheirStock /\ OneLiveOrder /\ RecordsHaveOrders
               /\ AnswersAreRecorded /\ ClosedCartsWereOrdered

-----------------------------------------------------------------------------
(***************************************************************************)
(* Lemmas on the parts the actions are built from.                         *)
(***************************************************************************)

\* An attempt that goes on changes its pc and nothing else.
LEMMA GotoStep ==
  ASSUME TypeOK, NEW a \in Attempts, attempt[a].pc # "idle",
         NEW pc \in PCs \ {"idle"}, Goto(a, pc)
  PROVE  /\ attempt[a] \in Requests
         /\ attempt' \in [Attempts -> Requests \union {Unsent}]
         /\ \A b \in Attempts : b # a => attempt'[b] = attempt[b]
         /\ attempt'[a].pc = pc
         /\ attempt'[a].key = attempt[a].key
         /\ attempt'[a].cart = attempt[a].cart
         /\ attempt'[a].version = attempt[a].version
         /\ attempt'[a].group = attempt[a].group
         /\ attempt'[a].answer = attempt[a].answer
<1>1. attempt[a] \in Requests
  BY DEF TypeOK, Unsent
<1> QED BY <1>1 DEF TypeOK, Goto, Requests

\* What Inventory does to the group of an attempt leaves the others alone.
LEMMA CompleteStep ==
  ASSUME TypeOK, NEW g \in Attempts, NEW p \in {"committed", "released"},
         Inventory!Complete(g, p)
  PROVE  /\ phase' \in [Attempts -> Inventory!Phases]
         /\ told' \in [Attempts -> SUBSET Inventory!Answers]
         /\ \A b \in Attempts : b # g => told'[b] = told[b]
         /\ told'[g] = told[g] \union {p}
BY DEF TypeOK, Inventory!Complete, Inventory!Answered, Inventory!Phases, Inventory!Answers

\* A release that was answered, by 409 or not, concerns one group only.
LEMMA ReleaseStep ==
  ASSUME TypeOK, NEW g \in Attempts, Releases(g)
  PROVE  /\ phase' \in [Attempts -> Inventory!Phases]
         /\ told' \in [Attempts -> SUBSET Inventory!Answers]
         /\ \A b \in Attempts : b # g => told'[b] = told[b]
BY CompleteStep DEF TypeOK, Releases

\* A group that erodes answers nobody.
LEMMA ErodeStep ==
  ASSUME TypeOK, NEW g \in Attempts, Inventory!Erode({g})
  PROVE  phase' \in [Attempts -> Inventory!Phases] /\ told' = told
BY DEF TypeOK, Inventory!Erode

\* A reservation releases nothing.
LEMMA ReservesStep ==
  ASSUME TypeOK, NEW a \in Attempts, attempt[a] \in Requests, Reserves(a)
  PROVE  /\ phase' \in [Attempts -> Inventory!Phases]
         /\ told' \in [Attempts -> SUBSET Inventory!Answers]
         /\ \A b \in Attempts : "released" \in told'[b] => "released" \in told[b]
         /\ holder' \in [Keys -> Attempts \union {Nobody}]
BY DEF TypeOK, Reserves, Requests, Inventory!Reserve, Inventory!Answered, Inventory!Phases,
       Inventory!Answers

\* An order that exists says so in its status.
LEMMA OrderExists ==
  ASSUME TypeOK, NEW o \in Attempts
  PROVE  /\ order[o] # NoOrder <=> order[o] \in Orders
         /\ order[o] # NoOrder <=> order[o].status # "none"
         /\ Live(o) => order[o] # NoOrder
BY DEF TypeOK, Orders, OrderStatuses, NoOrder, Live

-----------------------------------------------------------------------------
(***************************************************************************)
(* Type correctness.                                                       *)
(***************************************************************************)

\* The initial state is well typed.
LEMMA InitType == Init => TypeInv
BY BoundAssumption
DEF Init, TypeInv, TypeOK, OpenCartsHaveRoom, OwnGroup, Unsent, NoOrder, FirstVersion, CartStatuses,
    Inventory!Init, Inventory!Phases, Inventory!Answers

\* A request that arrives is well typed.
LEMMA RequestType ==
  ASSUME TypeInv, NEW a \in Attempts, Request(a)
  PROVE  TypeInv'
<1>1. PICK k \in Keys, c \in Carts, v \in 1 .. MaxVersion : LookUp(a, k, c, v)
  BY DEF Request
<1>2. record[k] \in Attempts \union {Nobody}
  BY DEF TypeInv, TypeOK
<1>3. attempt' \in [Attempts -> Requests \union {Unsent}]
  BY <1>1, <1>2 DEF TypeInv, TypeOK, LookUp, Requests, PCs
<1>4. OwnGroup'
  BY <1>1 DEF TypeInv, TypeOK, OwnGroup, LookUp
<1> QED BY <1>1, <1>3, <1>4 DEF TypeInv, TypeOK, OpenCartsHaveRoom, LookUp, group

\* Whatever step an attempt takes, it stays a request, and others are not touched.
LEMMA StepKeepsAttempts ==
  ASSUME TypeInv, NEW a \in Attempts, Handle(a) \/ Fail(a)
  PROVE  /\ attempt[a] \in Requests
         /\ attempt' \in [Attempts -> Requests \union {Unsent}]
         /\ \A b \in Attempts : b # a => attempt'[b] = attempt[b]
         /\ OwnGroup'
<1> USE DEF TypeInv
<1>1. attempt[a].pc # "idle"
  BY DEF Handle, Fail, Snapshot, Refresh, Reserve, ReserveAgain, Save, Undo, Close, GiveUp,
         SaveFails, Lose, LateReserve
<1>2. attempt[a] \in Requests
  BY <1>1 DEF TypeOK, Unsent
<1>3. CASE Reserve(a)
  BY <1>2, <1>3 DEF TypeOK, OwnGroup, Reserve, Requests, PCs
<1>4. CASE ReserveAgain(a)
  <2>1. holder[attempt[a].key] \in Attempts \union {Nobody}
    BY <1>2 DEF TypeOK, Requests
  <2>2. CASE SameReservation(a, holder[attempt[a].key])
    <3>1. attempt' = [attempt EXCEPT ![a].pc = "save", ![a].group = a]
      BY <1>4, <2>2 DEF ReserveAgain, SameReservation
    <3> QED BY <1>2, <3>1 DEF TypeOK, OwnGroup, Requests, PCs
  <2>3. CASE ~SameReservation(a, holder[attempt[a].key])
    <3>1. Goto(a, "done")
      BY <1>4, <2>3 DEF ReserveAgain
    <3> QED BY <1>2, <3>1 DEF TypeOK, OwnGroup, Requests, PCs, Goto
  <2> QED BY <2>2, <2>3
<1>5. CASE Save(a)
  <2>1. CASE attempt' = [attempt EXCEPT ![a].pc = "close", ![a].answer = a]
    BY <1>2, <2>1 DEF TypeOK, OwnGroup, Requests, PCs
  <2>2. CASE attempt[a].pc = "save" /\ Goto(a, "undo")
    BY <1>2, <2>2 DEF TypeOK, OwnGroup, Requests, PCs, Goto
  <2> QED BY <1>5, <2>1, <2>2 DEF Save, OnFailure
<1>6. ASSUME NEW pc \in PCs \ {"idle"}, Goto(a, pc),
             pc \in {"save", "undo", "lateUndo"} => attempt[a].pc \in {"save", "undo", "lateUndo"}
      PROVE  /\ attempt' \in [Attempts -> Requests \union {Unsent}]
             /\ \A b \in Attempts : b # a => attempt'[b] = attempt[b]
             /\ OwnGroup'
  BY <1>1, <1>6, GotoStep DEF OwnGroup
<1>7. ASSUME Snapshot(a) \/ Refresh(a) \/ Undo(a) \/ Close(a) \/ Fail(a)
      PROVE  \E pc \in PCs \ {"idle"} :
               /\ Goto(a, pc)
               /\ pc \in {"save", "undo", "lateUndo"}
                    => attempt[a].pc \in {"save", "undo", "lateUndo"}
  BY <1>7 DEF Fail, Snapshot, Refresh, Undo, Close, GiveUp, SaveFails, Lose, LateReserve,
              OnFailure, PCs
<1> QED BY <1>2, <1>3, <1>4, <1>5, <1>6, <1>7 DEF Handle

\* A step of an attempt keeps the types.
LEMMA StepType ==
  ASSUME TypeInv, NEW a \in Attempts, Handle(a) \/ Fail(a)
  PROVE  TypeInv'
<1> USE DEF TypeInv
<1>1. /\ attempt[a] \in Requests
      /\ attempt' \in [Attempts -> Requests \union {Unsent}]
      /\ OwnGroup'
  BY StepKeepsAttempts
<1>2. /\ order' \in [Attempts -> Orders \union {NoOrder}]
      /\ record' \in [Keys -> Attempts \union {Nobody}]
  <2>1. CASE UNCHANGED <<order, record>>
    BY <2>1 DEF TypeOK
  <2>2. CASE Save(a)
    <3>1. attempt[a].group = a /\ attempt[a].key \in Keys /\ attempt[a].cart \in Carts
      BY <1>1, <2>2 DEF OwnGroup, Save, Requests
    <3>2. [status |-> "pending", cart |-> attempt[a].cart, key |-> attempt[a].key,
           group |-> attempt[a].group, leaving |-> FALSE] \in Orders
      BY <3>1 DEF Orders, OrderStatuses
    <3> QED BY <2>2, <3>2 DEF TypeOK, Save
  <2> QED BY <2>1, <2>2 DEF Handle, Fail, Snapshot, Refresh, Reserve, ReserveAgain, Undo, Close,
                            GiveUp, SaveFails, Lose, LateReserve
<1>3. /\ cart' \in [Carts -> [status : CartStatuses, version : 1 .. MaxVersion + 1,
                              filled : BOOLEAN]]
      /\ OpenCartsHaveRoom'
  <2>1. CASE UNCHANGED cart
    BY <2>1 DEF TypeOK, OpenCartsHaveRoom
  <2>2. CASE Refresh(a)
    BY <1>1, <2>2, BoundAssumption DEF TypeOK, OpenCartsHaveRoom, Refresh, Requests
  <2>3. CASE Close(a)
    BY <1>1, <2>3, BoundAssumption DEF TypeOK, OpenCartsHaveRoom, Close, Requests, CartStatuses
  <2> QED BY <2>1, <2>2, <2>3 DEF Handle, Fail, Snapshot, Reserve, ReserveAgain, Save, Undo,
                                  GiveUp, SaveFails, Lose, LateReserve
<1>4. /\ phase' \in [Attempts -> Inventory!Phases]
      /\ told' \in [Attempts -> SUBSET Inventory!Answers]
      /\ holder' \in [Keys -> Attempts \union {Nobody}]
  <2>1. CASE UNCHANGED group
    BY <2>1 DEF TypeOK, group
  <2>2. CASE Reserves(a)
    BY <1>1, <2>2, ReservesStep
  <2>3. CASE ReserveAgain(a)
    <3>1. holder[attempt[a].key] \in Attempts
      BY <1>1, <2>3 DEF TypeOK, ReserveAgain, Requests
    <3> QED BY <2>3, <3>1 DEF TypeOK, ReserveAgain, Inventory!Replay, Inventory!Answered,
                              Inventory!Answers
  <2>4. CASE Undo(a)
    BY <2>4, ReleaseStep DEF TypeOK, OwnGroup, Undo
  <2> QED BY <2>1, <2>2, <2>3, <2>4 DEF Handle, Fail, Snapshot, Refresh, Reserve, Save, Close,
                                        GiveUp, SaveFails, Lose, LateReserve
<1> QED BY <1>1, <1>2, <1>3, <1>4 DEF TypeOK

\* What becomes of orders keeps the types.
LEMMA OrderType ==
  ASSUME TypeInv, NEW o \in Attempts, OrderGoesOn(o)
  PROVE  TypeInv'
<1>1. order[o] \in Orders /\ order[o].group \in Attempts
  BY OrderExists DEF TypeInv, OrderGoesOn, OrderCommits, OrderPaid, OrderReleases, OrderEnds, Live,
                     Orders
<1>2. order' \in [Attempts -> Orders \union {NoOrder}]
  <2>1. \/ order' = order
        \/ order' = [order EXCEPT ![o].leaving = TRUE]
        \/ \E status \in {"paid", "ended"} : order' = [order EXCEPT ![o].status = status]
    BY DEF OrderGoesOn, OrderCommits, OrderPaid, OrderReleases, OrderEnds
  <2>2. /\ [order[o] EXCEPT !.leaving = TRUE] \in Orders
        /\ \A status \in {"paid", "ended"} : [order[o] EXCEPT !.status = status] \in Orders
    BY <1>1 DEF Orders, OrderStatuses
  <2> QED BY <2>1, <2>2 DEF TypeInv, TypeOK
<1>3. /\ phase' \in [Attempts -> Inventory!Phases]
      /\ told' \in [Attempts -> SUBSET Inventory!Answers]
      /\ UNCHANGED <<attempt, record, holder, cart>>
  BY <1>1, CompleteStep, ReleaseStep
  DEF TypeInv, TypeOK, OrderGoesOn, OrderCommits, OrderPaid, OrderReleases, OrderEnds, group
<1> QED BY <1>2, <1>3 DEF TypeInv, TypeOK, OpenCartsHaveRoom, OwnGroup

\* What becomes of carts keeps the types.
LEMMA CartType ==
  ASSUME TypeInv, NEW c \in Carts, NewCart(c) \/ EditCart(c) \/ CartExpires(c)
  PROVE  TypeInv'
<1>1. /\ cart' \in [Carts -> [status : CartStatuses, version : 1 .. MaxVersion + 1,
                              filled : BOOLEAN]]
      /\ OpenCartsHaveRoom'
  <2>1. CASE NewCart(c)
    BY <2>1 DEF TypeInv, TypeOK, OpenCartsHaveRoom, NewCart, CartStatuses
  <2>2. CASE EditCart(c)
    <3>1. PICK filled \in BOOLEAN :
            cart' = [cart EXCEPT ![c].version = @ + 1, ![c].filled = filled]
      BY <2>2 DEF EditCart
    <3>2. cart[c].version < MaxVersion
      BY <2>2 DEF EditCart
    <3>3. cart[c].version \in 1 .. MaxVersion + 1
      BY DEF TypeInv, TypeOK
    <3>4. cart[c].version + 1 \in 1 .. MaxVersion + 1 /\ cart[c].version + 1 <= MaxVersion
      BY <3>2, <3>3, BoundAssumption
    <3>5. cart'[c].version = cart[c].version + 1 /\ \A d \in Carts : d # c => cart'[d] = cart[d]
      BY <3>1 DEF TypeInv, TypeOK
    <3>6. OpenCartsHaveRoom'
      BY <3>4, <3>5 DEF TypeInv, OpenCartsHaveRoom
    <3> QED BY <3>1, <3>4, <3>6 DEF TypeInv, TypeOK
  <2>3. CASE CartExpires(c)
    <3>1. PICK v \in 1 .. MaxVersion + 1 :
            cart' = [cart EXCEPT ![c].status = "expired", ![c].version = v]
      <4>1. CASE cart[c].status = "active"
        <5>1. cart[c].version + 1 \in 1 .. MaxVersion + 1
          BY <4>1, BoundAssumption DEF TypeInv, TypeOK, OpenCartsHaveRoom
        <5> QED BY <2>3, <4>1, <5>1 DEF CartExpires
      <4>2. CASE cart[c].status # "active"
        BY <2>3, <4>2 DEF TypeInv, TypeOK, CartExpires
      <4> QED BY <4>1, <4>2
    <3>2. /\ cart'[c] = [cart[c] EXCEPT !.status = "expired", !.version = v]
          /\ \A d \in Carts : d # c => cart'[d] = cart[d]
      BY <3>1 DEF TypeInv, TypeOK
    <3>3. cart'[c].status = "expired"
      BY <3>2 DEF TypeInv, TypeOK
    <3>4. OpenCartsHaveRoom'
      BY <3>2, <3>3 DEF TypeInv, OpenCartsHaveRoom
    <3> QED BY <3>1, <3>4 DEF TypeInv, TypeOK, CartStatuses
  <2> QED BY <2>1, <2>2, <2>3
<1> QED BY <1>1 DEF TypeInv, TypeOK, OwnGroup, NewCart, EditCart, CartExpires, group

\* Every step keeps the types.
LEMMA NextType == TypeInv /\ [Next]_vars => TypeInv'
<1> SUFFICES ASSUME TypeInv, [Next]_vars PROVE TypeInv'
  OBVIOUS
<1>1. ASSUME NEW a \in Attempts, GroupErodes(a)
      PROVE  TypeInv'
  BY <1>1, ErodeStep DEF TypeInv, TypeOK, OpenCartsHaveRoom, OwnGroup, GroupErodes
<1>2. CASE UNCHANGED vars
  BY <1>2 DEF TypeInv, TypeOK, OpenCartsHaveRoom, OwnGroup, vars, group
<1> QED BY <1>1, <1>2, RequestType, StepType, OrderType, CartType DEF Next

\* The variables keep their types, for any attempts, keys and carts.
THEOREM TypeCorrect == Spec => []TypeOK
<1>1. TypeInv => TypeOK
  BY DEF TypeInv
<1> QED BY <1>1, InitType, NextType, PTL DEF Spec

-----------------------------------------------------------------------------
(***************************************************************************)
(* What Inventory answered stays true.                                     *)
(***************************************************************************)

\* Checkout uses the groups as ReservationGroups lets it.
LEMMA GroupsAsPromised ==
  ASSUME TypeInv, [Next]_vars
  PROVE  [Inventory!Next]_<<phase, told>>
<1>1. ASSUME NEW g \in Attempts, Releases(g)
      PROVE  [Inventory!Next]_<<phase, told>>
  BY <1>1 DEF Releases, Inventory!Next, Inventory!Release
<1>2. ASSUME NEW a \in Attempts, Reserves(a)
      PROVE  [Inventory!Next]_<<phase, told>>
  BY <1>2 DEF Reserves, Inventory!Next
<1>3. ASSUME NEW a \in Attempts, ReserveAgain(a)
      PROVE  [Inventory!Next]_<<phase, told>>
  <2>1. attempt[a] \in Requests
    BY <1>3 DEF TypeInv, TypeOK, ReserveAgain, Unsent
  <2>2. holder[attempt[a].key] \in Attempts
    BY <1>3, <2>1 DEF TypeInv, TypeOK, ReserveAgain, Requests
  <2> QED BY <1>3, <2>2 DEF ReserveAgain, Inventory!Next
<1>4. ASSUME NEW a \in Attempts, Undo(a)
      PROVE  [Inventory!Next]_<<phase, told>>
  BY <1>1, <1>4 DEF TypeInv, OwnGroup, Undo
<1>5. ASSUME NEW o \in Attempts, OrderGoesOn(o)
      PROVE  [Inventory!Next]_<<phase, told>>
  <2>1. order[o].group \in Attempts
    BY <1>5, OrderExists DEF TypeInv, OrderGoesOn, OrderCommits, OrderPaid, OrderReleases, OrderEnds,
                             Live, Orders
  <2> QED BY <1>1, <1>5, <2>1 DEF OrderGoesOn, OrderCommits, OrderPaid, OrderReleases, OrderEnds,
                                  group, Inventory!Next, Inventory!Commit
<1>6. ASSUME NEW a \in Attempts, GroupErodes(a)
      PROVE  [Inventory!Next]_<<phase, told>>
  <2>1. {a} \in SUBSET Attempts
    OBVIOUS
  <2> QED BY <1>6, <2>1 DEF GroupErodes, Inventory!Next
<1>7. ASSUME NEW a \in Attempts, Handle(a) \/ Fail(a) \/ Request(a)
      PROVE  [Inventory!Next]_<<phase, told>>
  BY <1>2, <1>3, <1>4, <1>7
  DEF Handle, Fail, Request, LookUp, Snapshot, Refresh, Reserve, Save, Close, GiveUp, SaveFails,
      Lose, LateReserve, group
<1>8. ASSUME NEW c \in Carts, NewCart(c) \/ EditCart(c) \/ CartExpires(c)
      PROVE  UNCHANGED <<phase, told>>
  BY <1>8 DEF NewCart, EditCart, CartExpires, group
<1>9. CASE UNCHANGED vars
  BY <1>9 DEF vars, group
<1> QED BY <1>5, <1>6, <1>7, <1>8, <1>9 DEF Next

\* A group that ended one way stays that way, and its answers are kept.
LEMMA AnswersStay ==
  ASSUME TypeInv, AnswersHold, [Inventory!Next]_<<phase, told>>
  PROVE  /\ AnswersHold'
         /\ \A g \in Attempts : told[g] \subseteq told'[g]
<1> USE DEF TypeInv, TypeOK
<1>1. ASSUME NEW g \in Attempts, Inventory!Reserve(g) \/ Inventory!Replay(g)
      PROVE  /\ \A h \in Attempts : phase[h] = "none" \/ phase'[h] = phase[h]
             /\ \A h \in Attempts : told'[h] = told[h] \/ told'[h] = told[h] \union {"held"}
  BY <1>1 DEF Inventory!Reserve, Inventory!Replay, Inventory!Answered
<1>2. ASSUME NEW g \in Attempts, NEW a \in {"committed", "released"}, Inventory!Complete(g, a)
      PROVE  /\ phase[g] \in {"active", a} /\ phase'[g] = a /\ told'[g] = told[g] \union {a}
             /\ \A h \in Attempts : h # g => phase'[h] = phase[h] /\ told'[h] = told[h]
  BY <1>2 DEF Inventory!Complete, Inventory!Answered
<1>3. ASSUME NEW G \in SUBSET Attempts, Inventory!Erode(G)
      PROVE  /\ \A h \in Attempts : phase[h] \in {"committed", "released"} => phase'[h] = phase[h]
             /\ told' = told
  <2>1. \A h \in Attempts : phase'[h] \in IF h \in G THEN Inventory!Erosion[phase[h]] ELSE {phase[h]}
    BY <1>3 DEF Inventory!Erode
  <2>2. /\ Inventory!Erosion["committed"] = {"committed"}
        /\ Inventory!Erosion["released"] = {"released"}
    BY DEF Inventory!Erosion, Inventory!Phases
  <2> QED BY <1>3, <2>1, <2>2 DEF Inventory!Erode
<1>4. CASE \E g \in Attempts : Inventory!Reserve(g) \/ Inventory!Replay(g)
  BY <1>1, <1>4 DEF AnswersHold
<1>5. CASE \E g \in Attempts, a \in {"committed", "released"} : Inventory!Complete(g, a)
  BY <1>2, <1>5 DEF AnswersHold
<1>6. CASE \E G \in SUBSET Attempts : Inventory!Erode(G)
  BY <1>3, <1>6 DEF AnswersHold
<1>7. CASE UNCHANGED <<phase, told>>
  BY <1>7 DEF AnswersHold
<1> QED BY <1>4, <1>5, <1>6, <1>7 DEF Inventory!Next, Inventory!Commit, Inventory!Release

\* An order is paid only when its group was committed, and keeps its group.
LEMMA PaidStep ==
  ASSUME TypeInv, [Next]_vars, NEW o \in Attempts, order'[o].status = "paid"
  PROVE  /\ order'[o].group = order[o].group
         /\ order[o].status = "paid" \/ "committed" \in told[order[o].group]
<1>1. CASE UNCHANGED order
  BY <1>1
<1>2. ASSUME NEW a \in Attempts, Save(a), ~UNCHANGED order
      PROVE  order'[o] = order[o]
  BY <1>2 DEF TypeInv, TypeOK, Save
<1>3. ASSUME NEW p \in Attempts, NEW s \in {"paid", "ended"},
             order' = [order EXCEPT ![p].status = s], order[p] \in Orders,
             s = "paid" => "committed" \in told[order[p].group]
      PROVE  /\ order'[o].group = order[o].group
             /\ order[o].status = "paid" \/ "committed" \in told[order[o].group]
  BY <1>3 DEF TypeInv, TypeOK, Orders
<1>4. ASSUME NEW p \in Attempts, OrderReleases(p)
      PROVE  order'[o].group = order[o].group /\ order'[o].status = order[o].status
  <2>1. order[p] \in Orders
    BY <1>4, OrderExists DEF TypeInv, OrderReleases
  <2> QED BY <1>4, <2>1 DEF TypeInv, TypeOK, OrderReleases, Orders
<1>5. ASSUME NEW p \in Attempts, OrderPaid(p) \/ OrderEnds(p)
      PROVE  /\ order'[o].group = order[o].group
             /\ order[o].status = "paid" \/ "committed" \in told[order[o].group]
  <2>1. order[p] \in Orders
    BY <1>5, OrderExists DEF TypeInv, OrderPaid, OrderEnds
  <2> QED BY <1>3, <1>5, <2>1 DEF OrderPaid, OrderEnds
<1>6. \/ UNCHANGED order
      \/ \E a \in Attempts : Save(a) \/ OrderReleases(a) \/ OrderPaid(a) \/ OrderEnds(a)
  <2>1. ASSUME NEW a \in Attempts, Request(a) \/ Handle(a) PROVE UNCHANGED order \/ Save(a)
    BY <2>1 DEF Request, LookUp, Handle, Snapshot, Refresh, Reserve, ReserveAgain, Undo, Close
  <2>2. ASSUME NEW a \in Attempts, Fail(a) \/ GroupErodes(a) PROVE UNCHANGED order
    BY <2>2 DEF Fail, GiveUp, SaveFails, Lose, LateReserve, GroupErodes
  <2>3. ASSUME NEW a \in Attempts, OrderGoesOn(a)
        PROVE  \/ UNCHANGED order
               \/ OrderReleases(a) \/ OrderPaid(a) \/ OrderEnds(a)
    BY <2>3 DEF OrderGoesOn, OrderCommits
  <2>4. ASSUME NEW c \in Carts, NewCart(c) \/ EditCart(c) \/ CartExpires(c)
        PROVE  UNCHANGED order
    BY <2>4 DEF NewCart, EditCart, CartExpires
  <2>5. CASE UNCHANGED vars
    BY <2>5 DEF vars
  <2> QED BY <2>1, <2>2, <2>3, <2>4, <2>5 DEF Next
<1> QED BY <1>1, <1>2, <1>4, <1>5, <1>6

\* The initial state has no answers yet.
LEMMA InitStock == Init => StockInv
BY DEF Init, StockInv, AnswersHold, PaidAreCommitted, NoOrder, Inventory!Init

\* Every step keeps what was answered, and the stock of paid orders.
LEMMA NextStock == TypeInv /\ TypeInv' /\ StockInv /\ [Next]_vars => StockInv'
<1> SUFFICES ASSUME TypeInv, TypeInv', StockInv, [Next]_vars PROVE StockInv'
  OBVIOUS
<1>1. AnswersHold' /\ \A g \in Attempts : told[g] \subseteq told'[g]
  BY GroupsAsPromised, AnswersStay DEF StockInv
<1>2. ASSUME NEW o \in Attempts, order'[o].status = "paid"
      PROVE  "committed" \in told'[order'[o].group]
  <2>1. order'[o].group \in Attempts
    BY <1>2 DEF TypeInv, TypeOK, Orders, NoOrder
  <2>2. "committed" \in told[order'[o].group]
    BY <1>2, PaidStep DEF StockInv, PaidAreCommitted
  <2> QED BY <1>1, <2>1, <2>2
<1> QED BY <1>1, <1>2 DEF StockInv, PaidAreCommitted

-----------------------------------------------------------------------------
(***************************************************************************)
(* Orders, their stock, their carts and their keys.                        *)
(***************************************************************************)

\* The initial state satisfies the invariant.
LEMMA InitInv == Init => CheckoutInv
BY DEF Init, CheckoutInv, OrderIsOwn, ClosersHaveOrdered, NotReleased, OrdersKeepTheirStock,
       OneLiveOrder, RecordsHaveOrders, AnswersAreRecorded, ClosedCartsWereOrdered, Live, Unsent,
       NoOrder, Inventory!Init

\* An attempt goes on without touching orders: it does not go back before the
\* point where orders are saved, releases its own group only if it has no
\* order, and closes the cart of its order only.
LEMMA GoesOn ==
  ASSUME TypeInv, TypeInv', CheckoutInv, NEW a \in Attempts,
         attempt[a] \in Requests, attempt'[a] \in Requests,
         \A b \in Attempts : b # a => attempt'[b] = attempt[b],
         attempt'[a].key = attempt[a].key,
         attempt'[a].cart = attempt[a].cart,
         attempt'[a].version = attempt[a].version,
         attempt'[a].answer = attempt[a].answer,
         attempt[a].pc \in Late => attempt'[a].pc \in Late,
         attempt'[a].pc \in {"close", "lateClose"} => attempt[a].pc \in {"close", "lateClose"},
         attempt'[a].pc \in {"new", "reserve", "save", "lateReserve"}
           => attempt[a].pc \in {"new", "reserve", "save", "lateReserve"},
         UNCHANGED <<order, record>>,
         \A b \in Attempts : "released" \in told'[b]
           => \/ "released" \in told[b]
              \/ b = a /\ order[a] = NoOrder /\ attempt'[a].pc = "done",
         \A c \in Carts : cart'[c].status = "checked_out"
           => \/ cart[c].status = "checked_out"
              \/ order[a] # NoOrder /\ order[a].cart = c
  PROVE  CheckoutInv'
<1>1. OrderIsOwn'
  BY DEF CheckoutInv, OrderIsOwn
<1>2. ClosersHaveOrdered'
  BY DEF CheckoutInv, ClosersHaveOrdered
<1>3. NotReleased'
  BY DEF CheckoutInv, NotReleased, Requests, PCs
<1>4. OrdersKeepTheirStock'
  BY OrderExists DEF TypeInv, CheckoutInv, OrdersKeepTheirStock, OrderIsOwn, Live, Pending
<1>5. OneLiveOrder'
  BY DEF CheckoutInv, OneLiveOrder, Live
<1>6. RecordsHaveOrders'
  BY DEF CheckoutInv, RecordsHaveOrders
<1>7. AnswersAreRecorded'
  <2>1. \A b \in Attempts : Body(b)' = Body(b)
    BY DEF Body
  <2>2. \A b \in Attempts : /\ attempt'[b] # Unsent <=> attempt[b] # Unsent
                            /\ attempt'[b].answer = attempt[b].answer
                            /\ attempt'[b].key = attempt[b].key
    BY DEF Requests, Unsent
  <2>3. \A b \in Attempts : attempt[b] # Unsent => attempt[b] \in Requests
    BY DEF TypeInv, TypeOK
  <2> QED BY <2>1, <2>2, <2>3 DEF CheckoutInv, AnswersAreRecorded, Requests
<1>8. ClosedCartsWereOrdered'
  BY DEF CheckoutInv, ClosedCartsWereOrdered
<1> QED BY <1>1, <1>2, <1>3, <1>4, <1>5, <1>6, <1>7, <1>8 DEF CheckoutInv

\* A step that keeps away from orders, groups and carts goes on.
LEMMA QuietStep ==
  ASSUME TypeInv, TypeInv', CheckoutInv, NEW a \in Attempts,
         \/ Snapshot(a) \/ Refresh(a) \/ GiveUp(a) \/ SaveFails(a) \/ Lose(a)
  PROVE  CheckoutInv'
<1>1. attempt[a].pc # "idle"
  BY DEF Snapshot, Refresh, GiveUp, SaveFails, Lose
<1>2. PICK pc \in PCs \ {"idle"} :
        /\ Goto(a, pc)
        /\ attempt[a].pc \in Late => pc \in Late
        /\ pc \in {"close", "lateClose"} => attempt[a].pc \in {"close", "lateClose"}
        /\ pc \in {"new", "reserve", "save", "lateReserve"}
             => attempt[a].pc \in {"new", "reserve", "save", "lateReserve"}
  BY DEF Snapshot, Refresh, GiveUp, SaveFails, Lose, OnFailure, PCs, Late
<1>3. attempt'[a] \in Requests
  BY <1>1, <1>2, GotoStep DEF TypeInv, Unsent
<1>4. \A c \in Carts : cart'[c].status = "checked_out" => cart[c].status = "checked_out"
  BY DEF TypeInv, TypeOK, Snapshot, Refresh, GiveUp, SaveFails, Lose
<1>5. UNCHANGED <<order, record, group>>
  BY DEF Snapshot, Refresh, GiveUp, SaveFails, Lose
<1> QED BY <1>1, <1>2, <1>3, <1>4, <1>5, GotoStep, GoesOn DEF TypeInv, group

\* A reservation goes on, whether it is new, repeated or late.
LEMMA ReserveStep ==
  ASSUME TypeInv, TypeInv', CheckoutInv, NEW a \in Attempts,
         Reserve(a) \/ ReserveAgain(a) \/ LateReserve(a)
  PROVE  CheckoutInv'
<1>1. attempt[a] \in Requests /\ attempt[a].pc \in {"reserve", "lateReserve"}
  BY DEF TypeInv, TypeOK, Unsent, Reserve, ReserveAgain, LateReserve
<1>2. /\ attempt'[a] \in Requests
      /\ \A b \in Attempts : b # a => attempt'[b] = attempt[b]
  BY <1>1, StepKeepsAttempts DEF TypeInv, TypeOK, Handle, Fail, Unsent, Reserve, ReserveAgain,
                                 LateReserve, Goto, Requests
<1>3. /\ attempt'[a].key = attempt[a].key
      /\ attempt'[a].cart = attempt[a].cart
      /\ attempt'[a].version = attempt[a].version
      /\ attempt'[a].answer = attempt[a].answer
      /\ attempt'[a].pc \in {"save", "done"}
      /\ attempt'[a].pc = "save" => attempt[a].pc = "reserve"
  BY <1>1 DEF TypeInv, TypeOK, Reserve, ReserveAgain, LateReserve, Goto, Requests
<1>4. \A b \in Attempts : "released" \in told'[b] => "released" \in told[b]
  <2>1. CASE ReserveAgain(a)
    <3>1. \/ UNCHANGED told
          \/ told' = [told EXCEPT ![holder[attempt[a].key]] = @ \union {"held"}]
      BY <2>1 DEF ReserveAgain, Inventory!Replay, Inventory!Answered
    <3> QED BY <3>1 DEF TypeInv, TypeOK
  <2>2. CASE Reserves(a)
    BY <1>1, <2>2, ReservesStep DEF TypeInv
  <2> QED BY <2>1, <2>2 DEF Reserve, LateReserve
<1>5. UNCHANGED <<order, record, cart>>
  BY DEF Reserve, ReserveAgain, LateReserve
<1> QED BY <1>1, <1>2, <1>3, <1>4, <1>5, GoesOn DEF Late

\* An attempt that gives its group back has made no order.
LEMMA UndoStep ==
  ASSUME TypeInv, TypeInv', CheckoutInv, NEW a \in Attempts, Undo(a)
  PROVE  CheckoutInv'
<1>1. /\ attempt[a].pc # "idle" /\ attempt[a].pc \notin Late /\ attempt[a].group = a
      /\ Goto(a, "done") /\ Releases(a) /\ UNCHANGED <<order, record, cart>>
  BY DEF TypeInv, OwnGroup, Undo, Late
<1>2. order[a] = NoOrder
  BY <1>1 DEF CheckoutInv, OrderIsOwn
<1>3. attempt'[a] \in Requests
  BY <1>1, GotoStep DEF TypeInv, Unsent, PCs
<1>4. \A b \in Attempts : b # a => told'[b] = told[b]
  BY <1>1, ReleaseStep DEF TypeInv
<1>5. "done" \in PCs \ {"idle"}
  BY DEF PCs
<1> QED BY <1>1, <1>2, <1>3, <1>4, <1>5, GotoStep, GoesOn DEF TypeInv, Late

\* An attempt closes the cart of its own order.
LEMMA CloseStep ==
  ASSUME TypeInv, TypeInv', CheckoutInv, NEW a \in Attempts, Close(a)
  PROVE  CheckoutInv'
<1>1. /\ attempt[a].pc \in {"close", "lateClose"} /\ Goto(a, "done")
      /\ UNCHANGED <<order, record, group>>
  BY DEF Close
<1>2. order[a] # NoOrder /\ order[a].cart = attempt[a].cart
  BY <1>1 DEF CheckoutInv, ClosersHaveOrdered, OrderIsOwn
<1>3. attempt'[a] \in Requests
  BY <1>1, GotoStep DEF TypeInv, Unsent, PCs
<1>4. \A c \in Carts : c # attempt[a].cart => cart'[c] = cart[c]
  BY DEF TypeInv, TypeOK, Close
<1>5. "done" \in PCs \ {"idle"}
  BY DEF PCs
<1> QED BY <1>1, <1>2, <1>3, <1>4, <1>5, GotoStep, GoesOn DEF TypeInv, Late, group

\* The order of an attempt and the record of its key are saved together.
LEMMA SaveStep ==
  ASSUME TypeInv, TypeInv', CheckoutInv, NEW a \in Attempts, Save(a)
  PROVE  CheckoutInv'
<1> DEFINE k == attempt[a].key  c == attempt[a].cart
<1>1. /\ attempt[a] \in Requests /\ attempt[a].pc = "save" /\ attempt[a].group = a
      /\ order[a] = NoOrder /\ "released" \notin told[a]
  BY DEF TypeInv, TypeOK, OwnGroup, Save, Unsent, CheckoutInv, OrderIsOwn, NotReleased, Late
<1>2. CASE record[k] = Nobody /\ ~Taken(c)
  <2>1. /\ order' = [order EXCEPT ![a] =
             [status |-> "pending", cart |-> c, key |-> k, group |-> a, leaving |-> FALSE]]
        /\ record' = [record EXCEPT ![k] = a]
        /\ attempt' = [attempt EXCEPT ![a].pc = "close", ![a].answer = a]
        /\ UNCHANGED <<cart, group>>
    BY <1>1, <1>2 DEF Save
  <2>2. /\ order'[a] = [status |-> "pending", cart |-> c, key |-> k, group |-> a,
                      leaving |-> FALSE]
        /\ order'[a] # NoOrder
        /\ \A b \in Attempts : b # a => order'[b] = order[b]
    BY <2>1 DEF TypeInv, TypeOK, NoOrder
  <2>3. /\ attempt'[a] \in Requests
        /\ attempt'[a].pc = "close" /\ attempt'[a].key = k /\ attempt'[a].cart = c
        /\ attempt'[a].version = attempt[a].version /\ attempt'[a].answer = a
        /\ \A b \in Attempts : b # a => attempt'[b] = attempt[b]
    BY <1>1, <2>1 DEF TypeInv, TypeOK, Requests, PCs
  <2>4. record'[k] = a /\ \A l \in Keys : l # k => record'[l] = record[l]
    BY <1>1, <2>1 DEF TypeInv, TypeOK, Requests
  <2>5. OrderIsOwn'
    BY <2>2, <2>3 DEF CheckoutInv, OrderIsOwn, Late
  <2>6. ClosersHaveOrdered'
    BY <2>2, <2>3 DEF CheckoutInv, ClosersHaveOrdered
  <2>7. NotReleased'
    BY <2>1, <2>3 DEF CheckoutInv, NotReleased, group
  <2>8. OrdersKeepTheirStock'
    BY <1>1, <2>1, <2>2, OrderExists DEF CheckoutInv, OrdersKeepTheirStock, Live, Pending, group
  <2>9. OneLiveOrder'
    BY <1>2, <2>2 DEF CheckoutInv, OneLiveOrder, Live, Taken
  <2>10. RecordsHaveOrders'
    BY <2>2, <2>4 DEF TypeInv, TypeOK, CheckoutInv, RecordsHaveOrders
  <2>11. AnswersAreRecorded'
    <3>1. \A b \in Attempts : Body(b)' = Body(b)
      BY <2>3 DEF Body
    <3>2. ASSUME NEW b \in Attempts, b # a, attempt[b] # Unsent, attempt[b].answer # Nobody
          PROVE  attempt[b].answer = record'[attempt[b].key]
      <4>1. attempt[b] \in Requests
        BY <3>2 DEF TypeInv, TypeOK
      <4>2. record[attempt[b].key] # Nobody
        BY <3>2 DEF CheckoutInv, AnswersAreRecorded
      <4> QED BY <1>2, <2>4, <3>2, <4>1, <4>2 DEF CheckoutInv, AnswersAreRecorded, Requests
    <3>3. ASSUME NEW b \in Attempts, b # a, attempt[b] # Unsent, attempt[b].answer # Nobody
          PROVE  attempt[b].answer \in Attempts
      BY <3>3 DEF TypeInv, TypeOK, Requests
    <3> QED BY <2>3, <2>4, <3>1, <3>2, <3>3 DEF CheckoutInv, AnswersAreRecorded
  <2>12. ClosedCartsWereOrdered'
    BY <1>1, <2>1, <2>2 DEF CheckoutInv, ClosedCartsWereOrdered
  <2> QED BY <2>5, <2>6, <2>7, <2>8, <2>9, <2>10, <2>11, <2>12 DEF CheckoutInv
<1>3. CASE ~(record[k] = Nobody /\ ~Taken(c))
  <2>1. Goto(a, "undo") /\ UNCHANGED <<order, record, cart, group>>
    BY <1>3 DEF Save, OnFailure
  <2>2. "undo" \in PCs \ {"idle"}
    BY DEF PCs
  <2>3. attempt'[a] \in Requests
    BY <1>1, <2>1, <2>2, GotoStep DEF TypeInv, Unsent
  <2> QED BY <1>1, <2>1, <2>2, <2>3, GotoStep, GoesOn DEF TypeInv, Late, group
<1> QED BY <1>2, <1>3

\* A request that arrives is answered as its key says, or starts from nothing.
LEMMA LookUpStep ==
  ASSUME TypeInv, TypeInv', CheckoutInv, NEW a \in Attempts, Request(a)
  PROVE  CheckoutInv'
<1>1. PICK k \in Keys, c \in Carts, v \in 1 .. MaxVersion : LookUp(a, k, c, v)
  BY DEF Request
<1> DEFINE o == record[k]
<1>2. /\ attempt[a] = Unsent /\ attempt[a].pc = "idle"
      /\ order[a] = NoOrder /\ "released" \notin told[a]
  BY <1>1 DEF LookUp, Unsent, CheckoutInv, OrderIsOwn, NotReleased, Late
<1>3. /\ \A b \in Attempts : b # a => attempt'[b] = attempt[b]
      /\ attempt'[a].pc = IF o = Nobody THEN "new" ELSE "done"
      /\ attempt'[a].key = k /\ attempt'[a].cart = c /\ attempt'[a].version = v
      /\ attempt'[a].answer = IF o # Nobody /\ SameBody(<<c, v>>, o) THEN o ELSE Nobody
      /\ UNCHANGED <<order, record, cart, group>>
  BY <1>1 DEF TypeInv, TypeOK, LookUp
<1>4. OrderIsOwn'
  BY <1>2, <1>3 DEF CheckoutInv, OrderIsOwn
<1>5. ClosersHaveOrdered' /\ NotReleased'
  BY <1>2, <1>3 DEF CheckoutInv, ClosersHaveOrdered, NotReleased, group
<1>6. OrdersKeepTheirStock' /\ OneLiveOrder' /\ RecordsHaveOrders' /\ ClosedCartsWereOrdered'
  BY <1>3 DEF CheckoutInv, OrdersKeepTheirStock, OneLiveOrder, RecordsHaveOrders,
              ClosedCartsWereOrdered, Live, Pending, group
<1>7. AnswersAreRecorded'
  <2>1. \A b \in Attempts : b # a => Body(b)' = Body(b)
    BY <1>3 DEF Body
  <2>2. Body(a)' = <<c, v>>
    BY <1>3 DEF Body
  <2>3. \A l \in Keys : record[l] # Nobody => record[l] \in Attempts /\ record[l] # a
    BY <1>2 DEF TypeInv, TypeOK, CheckoutInv, RecordsHaveOrders
  <2>4. CASE attempt'[a].answer # Nobody
    <3>1. attempt'[a].answer = o /\ o \in Attempts /\ o # a /\ <<c, v>> = Body(o)
      BY <1>3, <2>3, <2>4 DEF SameBody
    <3>2. attempt'[a].answer = record'[attempt'[a].key]
      BY <1>3, <3>1
    <3>3. Body(a)' = Body(attempt[a].answer)'
      BY <2>1, <2>2, <3>1 DEF Body
    <3>4. \A b \in Attempts : b # a /\ attempt[b] # Unsent /\ attempt[b].answer # Nobody
            => attempt[b].answer \in Attempts /\ attempt[b].answer # a
      BY <2>3 DEF TypeInv, TypeOK, Requests, CheckoutInv, AnswersAreRecorded
    <3> QED BY <1>3, <2>1, <3>2, <3>3, <3>4 DEF CheckoutInv, AnswersAreRecorded
  <2>5. CASE attempt'[a].answer = Nobody
    <3>1. \A b \in Attempts : b # a /\ attempt[b] # Unsent /\ attempt[b].answer # Nobody
            => attempt[b].answer \in Attempts /\ attempt[b].answer # a
      BY <2>3 DEF TypeInv, TypeOK, Requests, CheckoutInv, AnswersAreRecorded
    <3> QED BY <1>3, <2>1, <2>5, <3>1 DEF CheckoutInv, AnswersAreRecorded
  <2> QED BY <2>4, <2>5
<1> QED BY <1>4, <1>5, <1>6, <1>7 DEF CheckoutInv

\* What becomes of an order changes its status and its own group, and an order
\* gives its stock back only when it is to end.
LEMMA OrderStep ==
  ASSUME TypeInv, TypeInv', StockInv', CheckoutInv, NEW o \in Attempts, OrderGoesOn(o)
  PROVE  CheckoutInv'
<1>1. /\ order[o] \in Orders /\ order[o] # NoOrder /\ Live(o)
      /\ order[o].group = o /\ attempt[o].pc \in Late
  BY OrderExists DEF TypeInv, OrderGoesOn, OrderCommits, OrderPaid, OrderReleases, OrderEnds, Live,
                     CheckoutInv, OrderIsOwn
<1>2. \/ /\ order' = order
         /\ Inventory!Complete(o, "committed")
      \/ /\ order' = [order EXCEPT ![o].leaving = TRUE]
         /\ Releases(o)
      \/ \E status \in {"paid", "ended"} : /\ order' = [order EXCEPT ![o].status = status]
                                          /\ UNCHANGED group
  BY <1>1 DEF OrderGoesOn, OrderCommits, OrderPaid, OrderReleases, OrderEnds
<1>3. /\ order'[o] # NoOrder /\ order'[o].status # "none"
      /\ order'[o].cart = order[o].cart /\ order'[o].group = o
      /\ \A p \in Attempts : p # o => order'[p] = order[p]
  BY <1>1, <1>2 DEF TypeInv, TypeOK, Orders, OrderStatuses, NoOrder
<1>4. UNCHANGED <<attempt, record, cart>>
  BY DEF OrderGoesOn, OrderCommits, OrderPaid, OrderReleases, OrderEnds
<1>5. \A p \in Attempts : p # o => told'[p] = told[p]
  BY <1>2, CompleteStep, ReleaseStep DEF TypeInv, group
<1>6. OrderIsOwn'
  BY <1>1, <1>3, <1>4 DEF CheckoutInv, OrderIsOwn
<1>7. ClosersHaveOrdered'
  BY <1>3, <1>4 DEF CheckoutInv, ClosersHaveOrdered
<1>8. NotReleased'
  BY <1>1, <1>4, <1>5 DEF CheckoutInv, NotReleased, Late
<1>9. OrdersKeepTheirStock'
  <2>1. ASSUME NEW p \in Attempts, p # o, Live(p)', "released" \in told'[order'[p].group]
        PROVE  order'[p].leaving /\ Pending(p)'
    <3>1. Live(p) /\ order'[p] = order[p]
      BY <1>3, <2>1 DEF Live
    <3>2. order[p].group = p
      BY <3>1, OrderExists DEF TypeInv, CheckoutInv, OrderIsOwn
    <3> QED BY <1>5, <2>1, <3>1, <3>2 DEF CheckoutInv, OrdersKeepTheirStock, Pending
  <2>2. ASSUME Live(o)', "released" \in told'[o]
        PROVE  order'[o].leaving /\ order'[o].status = "pending"
    <3>1. order'[o].status # "paid"
      BY <1>3, <2>2 DEF StockInv, AnswersHold, PaidAreCommitted
    <3>2. order'[o].status = "pending"
      BY <2>2, <3>1 DEF Live
    <3>3. order'[o].leaving
      <4>1. CASE "released" \in told[o]
        <5>1. order[o].leaving
          BY <1>1, <4>1 DEF CheckoutInv, OrdersKeepTheirStock
        <5> QED BY <1>1, <1>2, <5>1 DEF TypeInv, TypeOK, Orders
      <4>2. CASE "released" \notin told[o]
        <5>1. ~(order' = order /\ Inventory!Complete(o, "committed"))
          BY <2>2, <4>2, CompleteStep DEF TypeInv
        <5>2. ~UNCHANGED group
          BY <2>2, <4>2 DEF group
        <5>3. order' = [order EXCEPT ![o].leaving = TRUE]
          BY <1>2, <5>1, <5>2
        <5> QED BY <1>1, <5>3 DEF TypeInv, TypeOK, Orders
      <4> QED BY <4>1, <4>2
    <3> QED BY <3>2, <3>3
  <2> QED BY <1>3, <2>1, <2>2 DEF OrdersKeepTheirStock, Pending
<1>10. OneLiveOrder'
  <2>1. \A p \in Attempts : Live(p)' => Live(p) /\ order'[p].cart = order[p].cart
    BY <1>1, <1>3 DEF Live
  <2> QED BY <2>1 DEF CheckoutInv, OneLiveOrder
<1>11. RecordsHaveOrders'
  BY <1>3, <1>4 DEF TypeInv, TypeOK, CheckoutInv, RecordsHaveOrders
<1>12. AnswersAreRecorded'
  BY <1>4 DEF CheckoutInv, AnswersAreRecorded, Body
<1>13. ClosedCartsWereOrdered'
  BY <1>3, <1>4 DEF CheckoutInv, ClosedCartsWereOrdered
<1> QED BY <1>6, <1>7, <1>8, <1>9, <1>10, <1>11, <1>12, <1>13 DEF CheckoutInv

\* Nothing but checkout closes a cart, and a group that erodes tells nobody.
LEMMA OtherStep ==
  ASSUME TypeInv, CheckoutInv, UNCHANGED <<attempt, order, record, told>>,
         \A c \in Carts : cart'[c].status = "checked_out" => cart[c].status = "checked_out"
  PROVE  CheckoutInv'
BY DEF CheckoutInv, OrderIsOwn, ClosersHaveOrdered, NotReleased, OrdersKeepTheirStock,
       OneLiveOrder, RecordsHaveOrders, AnswersAreRecorded, ClosedCartsWereOrdered, Live, Pending, Body

\* Every step keeps the invariant.
LEMMA NextInv == TypeInv /\ TypeInv' /\ StockInv' /\ CheckoutInv /\ [Next]_vars => CheckoutInv'
<1> SUFFICES ASSUME TypeInv, TypeInv', StockInv', CheckoutInv, [Next]_vars PROVE CheckoutInv'
  OBVIOUS
<1>1. ASSUME NEW a \in Attempts, Handle(a) \/ Fail(a)
      PROVE  CheckoutInv'
  BY <1>1, QuietStep, ReserveStep, SaveStep, UndoStep, CloseStep DEF Handle, Fail
<1>2. ASSUME NEW a \in Attempts, GroupErodes(a)
      PROVE  CheckoutInv'
  BY <1>2, ErodeStep, OtherStep DEF TypeInv, GroupErodes
<1>3. ASSUME NEW c \in Carts, NewCart(c) \/ EditCart(c) \/ CartExpires(c)
      PROVE  CheckoutInv'
  <2>1. \A d \in Carts : cart'[d].status = "checked_out" => cart[d].status = "checked_out"
    BY <1>3 DEF TypeInv, TypeOK, NewCart, EditCart, CartExpires
  <2> QED BY <1>3, <2>1, OtherStep DEF NewCart, EditCart, CartExpires, group
<1>4. CASE UNCHANGED vars
  BY <1>4, OtherStep DEF vars, group
<1> QED BY <1>1, <1>2, <1>3, <1>4, LookUpStep, OrderStep DEF Next

\* CheckoutInv holds in every reachable state.
THEOREM CheckoutCorrect == Spec => []CheckoutInv
<1> QED BY InitType, InitStock, InitInv, NextType, NextStock, NextInv, PTL DEF Spec

\* The stock of a living order is given back only by its own cancellation or
\* failed payment, and that of a paid order never.
THEOREM StockIsKept == Spec => []OrdersKeepTheirStock
<1>1. CheckoutInv => OrdersKeepTheirStock
  BY DEF CheckoutInv
<1> QED BY <1>1, CheckoutCorrect, PTL

\* A cart is paid for once: paid orders are living ones.
THEOREM PaidOnce == Spec => []CartPaidOnce
<1>1. CheckoutInv => CartPaidOnce
  BY DEF CheckoutInv, OneLiveOrder, CartPaidOnce, Live
<1> QED BY <1>1, CheckoutCorrect, PTL

\* The answers under a key are the order that its record names.
THEOREM OneOrderPerKey == Spec => []KeysNameOneOrder
<1>1. CheckoutInv => KeysNameOneOrder
  BY DEF CheckoutInv, AnswersAreRecorded, KeysNameOneOrder
<1> QED BY <1>1, CheckoutCorrect, PTL

\* Only a cart that was ordered is closed.
THEOREM OrderedBeforeClosed == Spec => []ClosedCartsWereOrdered
<1>1. CheckoutInv => ClosedCartsWereOrdered
  BY DEF CheckoutInv
<1> QED BY <1>1, CheckoutCorrect, PTL
=============================================================================
