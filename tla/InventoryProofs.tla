--------------------------- MODULE InventoryProofs ---------------------------
(***************************************************************************)
(* Inventory keeps its types, its stock, its groups and its adjustments    *)
(* consistent, and the contract ReservationGroups, for any finite sets of  *)
(* items and reservations and any number of groups, keys, adjustments and  *)
(* quantities.                                                             *)
(*                                                                         *)
(* StockInv is inductive with TypeOK.  NoOversell alone is not: when a row *)
(* is resolved, reserved_quantity stays non-negative only because it is    *)
(* the total of the ACTIVE rows (StockConservation); and an item starts    *)
(* consistent only because no row refers to it before (RowsOnItems).       *)
(* GroupInv and EditsAreCurrent, below, are inductive with TypeOK too.     *)
(***************************************************************************)
EXTENDS Inventory, TotalProofs

\* A reservation is of an item that exists, the foreign key of the table.
RowsOnItems == \A r \in Reservations : itemOf[r] \in created \union {NoItem}

StockInv == StockConservation /\ SoldOnce /\ NoOversell /\ RowsOnItems

-----------------------------------------------------------------------------
(***************************************************************************)
(* Type correctness.                                                       *)
(***************************************************************************)

\* Rows added for known items with allowed quantities are well typed.
LEMMA AddRowsType ==
  ASSUME TypeOK, NEW R, NEW at \in [R -> Items], R \subseteq Reservations,
         NEW take \in [Items -> 0 .. MaxQuantity], NEW g \in Groups \union {NoGroup},
         AddRows(R, at, take, g)
  PROVE  /\ created' \subseteq Items
         /\ listed' \in [Items -> BOOLEAN]
         /\ onHand' \in [Items -> Int]
         /\ reserved' \in [Items -> Int]
         /\ received' \in [Items -> Int]
         /\ version' \in [Items -> Nat]
         /\ status' \in [Reservations -> Statuses]
         /\ itemOf' \in [Reservations -> Items \union {NoItem}]
         /\ quantity' \in [Reservations -> 0 .. MaxQuantity]
         /\ groupOf' \in [Reservations -> Groups \union {NoGroup}]
<1> USE DEF TypeOK, AddRows, Statuses
<1>1. UNCHANGED <<created, listed, onHand, received>>
  OBVIOUS
<1>2. reserved' \in [Items -> Int]
  OBVIOUS
<1>3. version' \in [Items -> Nat]
  OBVIOUS
<1>4. status' \in [Reservations -> Statuses]
  OBVIOUS
<1>5. itemOf' \in [Reservations -> Items \union {NoItem}]
  OBVIOUS
<1>6. quantity' \in [Reservations -> 0 .. MaxQuantity]
  OBVIOUS
<1>7. groupOf' \in [Reservations -> Groups \union {NoGroup}]
  OBVIOUS
<1> QED BY <1>1, <1>2, <1>3, <1>4, <1>5, <1>6, <1>7

\* A row's quantity is a number and any set of rows is finite, so what the
\* rows of an item sum to is a number.
LEMMA RowsTotal ==
  ASSUME TypeOK, NEW S, S \subseteq Reservations, NEW i
  PROVE  /\ IsFiniteSet(On(S, i))
         /\ \A r \in On(S, i) : quantity[r] \in Nat
         /\ Total(On(S, i), quantity) \in Nat
         /\ Cardinality(On(S, i)) \in Nat
<1>1. On(S, i) \subseteq Reservations
  BY DEF On
<1>2. IsFiniteSet(On(S, i))
  BY <1>1, RowsAssumption, FS_Subset 
<1>3. \A r \in On(S, i) : quantity[r] \in Nat
  BY <1>1, BoundsAssumption DEF TypeOK
<1> QED BY <1>2, <1>3, TotalType, FS_CardinalityType

\* Resolving rows is well typed.
LEMMA ResolveType ==
  ASSUME TypeOK, NEW S, S \subseteq Reservations, NEW target \in Terminal,
         Resolve(S, target), told' \in [Groups -> SUBSET Answers]
  PROVE  TypeOK'
<1>1. UNCHANGED <<created, listed, received, itemOf, quantity, groupOf, due,
                  records, edit, applied>>
  BY DEF Resolve
<1>2. \A i \in Items : Back(S, i) \in Nat /\ NewVersion(S, i) \in Nat
  <2> TAKE i \in Items
  <2>1. Total(On(S, i), quantity) \in Nat /\ Cardinality(On(S, i)) \in Nat
    BY RowsTotal
  <2>2. version[i] \in Nat
    BY DEF TypeOK
  <2> QED BY <2>1, <2>2 DEF Back, NewVersion
<1>3. reserved' \in [Items -> Int] /\ onHand' \in [Items -> Int] /\ version' \in [Items -> Nat]
  BY <1>2 DEF Resolve, TypeOK
<1>4. status' \in [Reservations -> Statuses]
  BY DEF Resolve, TypeOK, Statuses
<1> QED BY <1>1, <1>3, <1>4 DEF TypeOK

\* An idempotency record has the shape the type invariant asks for.
LEMMA RecordType ==
  ASSUME TypeOK, NEW k \in AnyKey, NEW request \in RequestType,
         NEW made \in Groups \union {NoGroup}, Record(k, request, made)
  PROVE  records' \subseteq [key : Keys, request : RequestType,
                             made : Groups \union {NoGroup}]
BY DEF TypeOK, Record, AnyKey

\* An answer is one of the answers.
LEMMA AnswerType ==
  ASSUME TypeOK, NEW g, NEW a \in Answers, Answer(g, a)
  PROVE  told' \in [Groups -> SUBSET Answers]
BY DEF TypeOK, Answer

\* The initial state is well typed.
LEMMA InitType == Init => TypeOK
<1> SUFFICES ASSUME Init PROVE TypeOK
  OBVIOUS
<1>1. 0 \in 0 .. MaxQuantity
  BY BoundsAssumption
<1> QED BY <1>1 DEF Init, TypeOK, Statuses, Terminal, Unsent, Answers

\* Every operation of a seller keeps the types.
LEMMA SellerType ==
  ASSUME TypeOK, Seller
  PROVE  TypeOK'
<1>1. ASSUME NEW i \in Items, NEW q \in 0 .. MaxStock, CreateItem(i, q)
      PROVE  TypeOK'
  BY <1>1 DEF CreateItem, TypeOK, rows
<1>2. ASSUME NEW i \in Items, UpdateItem(i)
      PROVE  TypeOK'
  BY <1>2 DEF UpdateItem, TypeOK, rows
<1>3. ASSUME NEW a \in Adjustments, NEW i \in Items, NEW d \in Deltas, NEW k \in AnyKey,
             SendAdjustment(a, i, d, k)
      PROVE  TypeOK'
  <2>1. UNCHANGED <<stock, rows, due, records, applied, told>>
    BY <1>3 DEF SendAdjustment
  <2>2. [sent |-> TRUE, item |-> i, delta |-> d, key |-> k, version |-> version[i],
         onHand |-> onHand[i], reserved |-> reserved[i]] \in EditType
    BY DEF EditType, TypeOK
  <2>3. edit' \in [Adjustments -> EditType \union {Unsent}]
    BY <1>3, <2>2 DEF SendAdjustment, TypeOK
  <2> QED BY <2>1, <2>3 DEF TypeOK, stock, rows
<1>4. ASSUME NEW a \in Adjustments, AdjustStock(a)
      PROVE  TypeOK'
  <2>1. edit[a] \in EditType
    <3>1. edit[a] # Unsent
      BY <1>4 DEF AdjustStock
    <3>2. edit[a] \in EditType \union {Unsent}
      BY DEF TypeOK
    <3> QED BY <3>1, <3>2
  <2>2. /\ edit[a].item \in Items /\ edit[a].delta \in Int /\ edit[a].key \in AnyKey
    <3>1. Deltas \subseteq Int
      BY DEF Deltas
    <3> QED BY <2>1, <3>1 DEF EditType
  <2>3. UNCHANGED <<created, listed, reserved, rows, due, edit, told>>
    BY <1>4 DEF AdjustStock
  <2>4. /\ onHand' \in [Items -> Int] /\ received' \in [Items -> Int]
        /\ version' \in [Items -> Nat] /\ applied' \in [Adjustments -> Nat]
    <3>1. /\ onHand' = [onHand EXCEPT ![edit[a].item] = @ + edit[a].delta]
          /\ received' = [received EXCEPT ![edit[a].item] = @ + edit[a].delta]
          /\ version' = [version EXCEPT ![edit[a].item] = @ + 1]
          /\ applied' = [applied EXCEPT ![a] = @ + 1]
      BY <1>4 DEF AdjustStock
    <3>2. /\ onHand \in [Items -> Int] /\ received \in [Items -> Int]
          /\ version \in [Items -> Nat] /\ applied \in [Adjustments -> Nat]
      BY DEF TypeOK
    <3>3. PICK i \in Items, d \in Int : i = edit[a].item /\ d = edit[a].delta
      BY <2>2
    <3>4. onHand[i] + d \in Int /\ received[i] + d \in Int
      BY <3>2
    <3>5. version[i] + 1 \in Nat /\ applied[a] + 1 \in Nat
      BY <3>2
    <3> QED BY <3>1, <3>2, <3>3, <3>4, <3>5
  <2>5. EditRequest(a) \in RequestType
    BY DEF EditRequest, RequestType
  <2>6. records' \subseteq [key : Keys, request : RequestType,
                            made : Groups \union {NoGroup}]
    BY <1>4, <2>2, <2>5, RecordType DEF AdjustStock
  <2> QED BY <2>3, <2>4, <2>6 DEF TypeOK, rows
<1> QED BY <1>1, <1>2, <1>3, <1>4 DEF Seller

\* Holding stock keeps the types.
LEMMA HoldType ==
  ASSUME TypeOK, NEW k \in AnyKey,
         \/ \E i \in Items, q \in 1 .. MaxQuantity : CreateReservation(k, i, q)
         \/ \E lines \in AnyLines :
               \/ \E g \in Groups : CreateBatchReservation(k, lines, g)
               \/ ReplayBatchReservation(k, lines)
  PROVE  TypeOK'
<1>1. ASSUME NEW i \in Items, NEW q \in 1 .. MaxQuantity, CreateReservation(k, i, q)
      PROVE  TypeOK'
  <2>1. PICK r \in InStatus("none") :
           /\ AddRows({r}, [x \in {r} |-> i], [j \in Items |-> IF j = i THEN q ELSE 0], NoGroup)
           /\ Record(k, RowRequest(i, q), NoGroup)
    BY <1>1 DEF CreateReservation
  <2>2. {r} \subseteq Reservations /\ [x \in {r} |-> i] \in [{r} -> Items]
    BY DEF InStatus
  <2>3. [j \in Items |-> IF j = i THEN q ELSE 0] \in [Items -> 0 .. MaxQuantity]
    <3>1. \A n \in 1 .. MaxQuantity : n \in 0 .. MaxQuantity
      BY BoundsAssumption
    <3>2. 0 \in 0 .. MaxQuantity
      BY BoundsAssumption
    <3> QED BY <3>1, <3>2
  <2>4. RowRequest(i, q) \in RequestType
    BY DEF RowRequest, RequestType
  <2>5. records' \subseteq [key : Keys, request : RequestType, made : Groups \union {NoGroup}]
    BY <2>1, <2>4, RecordType
  <2>6. UNCHANGED <<due, edit, applied, told>>
    BY <1>1 DEF CreateReservation
  <2> QED BY <2>1, <2>2, <2>3, <2>5, <2>6, AddRowsType DEF TypeOK
<1>2. ASSUME NEW lines \in AnyLines, NEW g \in Groups, CreateBatchReservation(k, lines, g)
      PROVE  TypeOK'
  <2>0. PICK take \in [Items -> 0 .. MaxQuantity], R \in SUBSET InStatus("none") :
           \E at \in [R -> {i \in Items : take[i] > 0}] : AddRows(R, at, take, g)
    BY <1>2 DEF CreateBatchReservation
  <2>1. PICK at \in [R -> {i \in Items : take[i] > 0}] : AddRows(R, at, take, g)
    BY <2>0
  <2>2. R \subseteq Reservations /\ at \in [R -> Items]
    BY DEF InStatus
  <2>3. GroupRequest(lines) \in RequestType
    BY DEF GroupRequest, RequestType
  <2>4. /\ records' \subseteq [key : Keys, request : RequestType, made : Groups \union {NoGroup}]
        /\ told' \in [Groups -> SUBSET Answers]
    BY <1>2, <2>3, RecordType, AnswerType DEF CreateBatchReservation, Answers
  <2>5. UNCHANGED <<due, edit, applied>>
    BY <1>2 DEF CreateBatchReservation
  <2> QED BY <2>1, <2>2, <2>4, <2>5, AddRowsType DEF TypeOK
<1>3. ASSUME NEW lines \in AnyLines, ReplayBatchReservation(k, lines)
      PROVE  TypeOK'
  <2>1. told' \in [Groups -> SUBSET Answers]
    BY <1>3, AnswerType DEF ReplayBatchReservation, Answers
  <2>2. UNCHANGED <<stock, rows, due, records, edit, applied>>
    BY <1>3 DEF ReplayBatchReservation
  <2> QED BY <2>1, <2>2 DEF TypeOK, stock, rows
<1> QED BY <1>1, <1>2, <1>3

\* Every step keeps the types.
LEMMA NextType ==
  ASSUME TypeOK, [Next]_vars
  PROVE  TypeOK'
<1>1. CASE Seller
  BY <1>1, SellerType
<1>2. CASE Buyer
  <2>1. CASE \E k \in AnyKey, i \in Items, q \in 1 .. MaxQuantity : CreateReservation(k, i, q)
    BY <2>1, HoldType
  <2>2. ASSUME NEW r \in Reservations, CommitReservation(r)
        PROVE  TypeOK'
    <3>1. PICK target \in Terminal : Resolve({r}, target)
      BY <2>2 DEF CommitReservation, Terminal
    <3>2. told' \in [Groups -> SUBSET Answers]
      BY <2>2 DEF CommitReservation, TypeOK
    <3> QED BY <3>1, <3>2, ResolveType
  <2>3. ASSUME NEW r \in Reservations, ReleaseReservation(r)
        PROVE  TypeOK'
    <3>1. Resolve({r}, "released") /\ "released" \in Terminal
      BY <2>3 DEF ReleaseReservation, Terminal
    <3>2. told' \in [Groups -> SUBSET Answers]
      BY <2>3 DEF ReleaseReservation, TypeOK
    <3> QED BY <3>1, <3>2, ResolveType
  <2> QED BY <1>2, <2>1, <2>2, <2>3 DEF Buyer
<1>3. CASE Checkout
  <2>1. CASE \E k \in AnyKey, lines \in AnyLines :
                \/ \E g \in Groups : CreateBatchReservation(k, lines, g)
                \/ ReplayBatchReservation(k, lines)
    BY <2>1, HoldType
  <2>2. ASSUME NEW g \in Groups, CommitReservationGroup(g) \/ ReleaseReservationGroup(g)
        PROVE  TypeOK'
    <3>1. told' \in [Groups -> SUBSET Answers]
      BY <2>2, AnswerType DEF CommitReservationGroup, ReleaseReservationGroup, TypeOK, Answers
    <3>2. CASE \E target \in Terminal : Resolve(Members(g), target)
      <4>1. Members(g) \subseteq Reservations
        BY DEF Members
      <4> QED BY <3>1, <3>2, <4>1, ResolveType
    <3>3. CASE UNCHANGED <<stock, rows, due, records, edit, applied>>
      BY <3>1, <3>3 DEF TypeOK, stock, rows
    <3> QED
      BY <2>2, <3>2, <3>3 DEF CommitReservationGroup, ReleaseReservationGroup, Terminal
  <2> QED BY <1>3, <2>1, <2>2 DEF Checkout
<1>4. CASE Sweep
  <2>1. PICK S \in SUBSET Reservations : Resolve(S, "expired") /\ UNCHANGED told
    BY <1>4 DEF Sweep, ExpireReservations
  <2>2. told' \in [Groups -> SUBSET Answers] /\ "expired" \in Terminal
    BY <2>1 DEF TypeOK, Terminal
  <2> QED BY <2>1, <2>2, ResolveType
<1>5. ASSUME NEW r \in Reservations, TimePasses(r)
      PROVE  TypeOK'
  <2>1. Members(groupOf[r]) \subseteq Reservations
    BY DEF Members
  <2> QED BY <1>5, <2>1 DEF TimePasses, TypeOK, stock, rows
<1>6. CASE UNCHANGED vars
  BY <1>6 DEF vars, stock, rows, TypeOK
<1> QED BY <1>1, <1>2, <1>3, <1>4, <1>5, <1>6 DEF Next

\* The variables always have their types.
THEOREM TypeCorrect == Spec => []TypeOK
<1>1. Init => TypeOK
  BY InitType
<1>2. TypeOK /\ [Next]_vars => TypeOK'
  BY NextType
<1> QED BY <1>1, <1>2, PTL DEF Spec

-----------------------------------------------------------------------------
(***************************************************************************)
(* Stock.                                                                  *)
(***************************************************************************)

\* Resolving ACTIVE rows moves their units out of reserved_quantity, and off
\* the stock when they are sold.
LEMMA ResolveStock ==
  ASSUME TypeOK, StockInv, NEW S, S \subseteq Active, NEW target \in Terminal,
         Resolve(S, target)
  PROVE  StockInv'
<1> SUFFICES ASSUME NEW i \in Items
             PROVE  /\ reserved'[i] = Total(On(Active, i)', quantity')
                    /\ onHand'[i] = received'[i] - Total(On(InStatus("committed"), i)', quantity')
                    /\ 0 <= reserved'[i] /\ reserved'[i] <= onHand'[i]
  <2>1. RowsOnItems'
    BY DEF StockInv, RowsOnItems, Resolve
  <2> QED BY <2>1 DEF StockInv, StockConservation, SoldOnce, NoOversell
<1> DEFINE A == On(Active, i)
           B == On(S, i)
           C == On(InStatus("committed"), i)
           b == Total(B, quantity)
<1>1. A \subseteq Reservations /\ B \subseteq A /\ C \subseteq Reservations /\ B \intersect C = {}
  BY DEF On, Active, InStatus
<1>2. IsFiniteSet(A) /\ IsFiniteSet(B) /\ IsFiniteSet(C)
  BY <1>1, RowsAssumption, FS_Subset
<1>3. \A r \in Reservations : quantity[r] \in Nat
  BY BoundsAssumption DEF TypeOK
<1>4. /\ Total(A \ B, quantity) = Total(A, quantity) - b
      /\ Total(A, quantity) \in Nat /\ b \in Nat /\ Total(A \ B, quantity) \in Nat
  BY <1>1, <1>2, <1>3, TotalRemove
<1>5. Total(C, quantity) \in Nat
  BY <1>1, <1>2, <1>3, TotalType
<1>6. Total(C \union B, quantity) = Total(C, quantity) + b
  BY <1>1, <1>2, <1>3, TotalDisjoint
<1>7. quantity' = quantity /\ itemOf' = itemOf /\ received' = received
  BY DEF Resolve
<1>8. \A r \in Reservations : status'[r] = IF r \in S THEN target ELSE status[r]
  BY DEF Resolve
<1>9. reserved'[i] = reserved[i] - b
  BY DEF Resolve, Back
<1>10. reserved[i] = Total(A, quantity) /\ onHand[i] = received[i] - Total(C, quantity)
  BY DEF StockInv, StockConservation, SoldOnce
<1>11. reserved[i] <= onHand[i]
  BY DEF StockInv, NoOversell
<1>12. onHand[i] \in Int /\ reserved[i] \in Int /\ received[i] \in Int
  BY DEF TypeOK
<1>13. On(Active, i)' = A \ B
  <2>1. On(Active, i)' = {r \in Reservations : status'[r] = "active" /\ itemOf[r] = i}
    BY <1>7 DEF On, Active, InStatus
  <2>2. target # "active"
    BY DEF Terminal
  <2> QED BY <2>1, <2>2, <1>8 DEF On, Active, InStatus
<1>14. reserved'[i] = Total(On(Active, i)', quantity')
  BY <1>4, <1>7, <1>9, <1>10, <1>13
<1>15. On(InStatus("committed"), i)'
         = {r \in Reservations : status'[r] = "committed" /\ itemOf[r] = i}
  BY <1>7 DEF On, InStatus
<1>16. S \subseteq Reservations /\ \A r \in S : status[r] = "active"
  BY DEF Active, InStatus
<1>17. CASE target = "committed"
  <2>1. On(InStatus("committed"), i)' = C \union B
    BY <1>8, <1>15, <1>16, <1>17 DEF On, InStatus
  <2>2. onHand'[i] = onHand[i] - b
    BY <1>17 DEF Resolve, Back, Sells
  <2>3. onHand'[i] = received'[i] - Total(On(InStatus("committed"), i)', quantity')
    <3>1. Total(On(InStatus("committed"), i)', quantity') = Total(C, quantity) + b
      BY <2>1, <1>6, <1>7
    <3>2. ASSUME NEW o \in Int, NEW v \in Int, NEW c \in Nat, NEW d \in Nat, o = v - c
          PROVE  o - d = v - (c + d)
      BY <3>2
    <3>3. onHand[i] - b = received[i] - (Total(C, quantity) + b)
      BY <3>2, <1>4, <1>5, <1>10, <1>12
    <3> QED BY <2>2, <3>1, <3>3, <1>7
  <2>4. 0 <= reserved'[i] /\ reserved'[i] <= onHand'[i]
    BY <2>2, <1>4, <1>9, <1>10, <1>11, <1>12
  <2> QED BY <1>14, <2>3, <2>4
<1>18. CASE target # "committed"
  <2>1. On(InStatus("committed"), i)' = C
    BY <1>8, <1>15, <1>16, <1>18 DEF On, InStatus
  <2>2. onHand'[i] = onHand[i]
    BY <1>18 DEF Resolve, Sells
  <2>3. onHand'[i] = received'[i] - Total(On(InStatus("committed"), i)', quantity')
    BY <2>1, <2>2, <1>7, <1>10
  <2>4. 0 <= reserved'[i] /\ reserved'[i] <= onHand'[i]
    BY <2>2, <1>4, <1>9, <1>10, <1>11, <1>12
  <2> QED BY <1>14, <2>3, <2>4
<1> QED BY <1>17, <1>18

\* Rows added one per item, each for no more than is available, hold exactly
\* what is added to reserved_quantity.
LEMMA HoldStock ==
  ASSUME TypeOK, StockInv, NEW R, R \subseteq InStatus("none"),
         NEW take \in [Items -> 0 .. MaxQuantity], NEW at \in [R -> Items], NEW g,
         \A r \in R : take[at[r]] > 0 /\ at[r] \in created,
         \A i \in Items : take[i] > 0 => \E r \in R : at[r] = i,
         \A r, x \in R : at[r] = at[x] => r = x,
         \A i \in Items : take[i] > 0 => take[i] <= Available(i),
         AddRows(R, at, take, g)
  PROVE  StockInv'
<1> SUFFICES ASSUME NEW i \in Items
             PROVE  /\ reserved'[i] = Total(On(Active, i)', quantity')
                    /\ onHand'[i] = received'[i] - Total(On(InStatus("committed"), i)', quantity')
                    /\ 0 <= reserved'[i] /\ reserved'[i] <= onHand'[i]
  <2>1. RowsOnItems'
    BY DEF StockInv, RowsOnItems, AddRows
  <2> QED BY <2>1 DEF StockInv, StockConservation, SoldOnce, NoOversell
<1> DEFINE A == On(Active, i)
           N == {r \in R : at[r] = i}
           C == On(InStatus("committed"), i)
<1>1. R \subseteq Reservations /\ \A r \in R : status[r] = "none"
  BY DEF InStatus
<1>2. /\ reserved'[i] = reserved[i] + take[i]
      /\ onHand' = onHand /\ received' = received
  BY DEF AddRows
<1>a. ASSUME NEW r \in R
      PROVE  /\ r \in Reservations
             /\ status'[r] = "active" /\ itemOf'[r] = at[r] /\ quantity'[r] = take[at[r]]
  BY <1>1 DEF AddRows
<1>b. ASSUME NEW r \in Reservations \ R
      PROVE  status'[r] = status[r] /\ itemOf'[r] = itemOf[r] /\ quantity'[r] = quantity[r]
  BY DEF AddRows
<1>3. On(Active, i)' = A \union N
  <2>1. On(Active, i)' = {r \in Reservations : status'[r] = "active" /\ itemOf'[r] = i}
    BY DEF On, Active, InStatus
  <2> QED BY <2>1, <1>1, <1>a, <1>b DEF On, Active, InStatus
<1>4. On(InStatus("committed"), i)' = C
  <2>1. On(InStatus("committed"), i)'
          = {r \in Reservations : status'[r] = "committed" /\ itemOf'[r] = i}
    BY DEF On, InStatus
  <2> QED BY <2>1, <1>1, <1>a, <1>b DEF On, InStatus
<1>5. A \subseteq Reservations \ R /\ C \subseteq Reservations \ R
  BY <1>1 DEF On, Active, InStatus
<1>6. IsFiniteSet(A) /\ IsFiniteSet(N)
  BY <1>1, <1>5, RowsAssumption, FS_Subset
<1>7. Total(A, quantity') = Total(A, quantity) /\ Total(C, quantity') = Total(C, quantity)
  <2>1. \A r \in A : quantity'[r] = quantity[r]
    BY <1>5, <1>b
  <2>2. \A r \in C : quantity'[r] = quantity[r]
    BY <1>5, <1>b
  <2>3. Total(A, quantity') = Total(A, quantity)
    BY <2>1, TotalSame
  <2>4. Total(C, quantity') = Total(C, quantity)
    BY <2>2, TotalSame
  <2> QED BY <2>3, <2>4
<1>8. \A r \in A \union N : quantity'[r] \in Nat
  <2>1. ASSUME NEW r \in N PROVE quantity'[r] \in Nat
    <3>1. r \in R /\ r \in Reservations
      BY <1>1
    <3>2. quantity'[r] = take[at[r]]
      BY <1>a, <3>1
    <3>3. take[at[r]] \in 0 .. MaxQuantity
      BY <3>1
    <3> QED BY <3>2, <3>3, BoundsAssumption
  <2>2. ASSUME NEW r \in A PROVE quantity'[r] \in Nat
    <3>1. r \in Reservations /\ quantity'[r] = quantity[r]
      BY <1>b, <1>5
    <3> QED BY <3>1, BoundsAssumption DEF TypeOK
  <2> QED BY <2>1, <2>2
<1>9. Total(A \union N, quantity') = Total(A, quantity) + Total(N, quantity')
  BY <1>5, <1>6, <1>7, <1>8, TotalDisjoint
<1>10. Total(N, quantity') = take[i]
  <2>1. CASE take[i] = 0
    <3>1. N = {}
      BY <2>1
    <3> QED BY <2>1, <3>1, TotalEmpty
  <2>2. CASE take[i] > 0
    <3>1. PICK r \in R : at[r] = i
      BY <2>2
    <3>2. N = {r}
      BY <3>1
    <3>3. quantity'[r] = take[i]
      BY <1>a, <3>1
    <3>4. take[i] \in Nat
      BY BoundsAssumption
    <3> QED BY <3>2, <3>3, <3>4, TotalSingleton
  <2>3. take[i] \in Nat
    BY BoundsAssumption
  <2> QED BY <2>1, <2>2, <2>3
<1>11. reserved[i] = Total(A, quantity) /\ onHand[i] = received[i] - Total(C, quantity)
  BY DEF StockInv, StockConservation, SoldOnce
<1>12. 0 <= reserved[i] /\ reserved[i] <= onHand[i]
  BY DEF StockInv, NoOversell
<1>13. onHand[i] \in Int /\ reserved[i] \in Int /\ take[i] \in Nat
  BY BoundsAssumption DEF TypeOK
<1>14. take[i] <= onHand[i] - reserved[i]
  BY <1>12, <1>13 DEF Available
<1>15. reserved'[i] = Total(On(Active, i)', quantity')
  BY <1>2, <1>3, <1>9, <1>10, <1>11
<1>16. onHand'[i] = received'[i] - Total(On(InStatus("committed"), i)', quantity')
  BY <1>2, <1>4, <1>7, <1>11
<1>17. 0 <= reserved'[i] /\ reserved'[i] <= onHand'[i]
  BY <1>2, <1>12, <1>13, <1>14
<1> QED BY <1>15, <1>16, <1>17

\* The initial state has no stock and no rows.
LEMMA InitStock == Init => StockInv
<1> SUFFICES ASSUME Init PROVE StockInv
  OBVIOUS
<1>1. \A i \in Items : On(Active, i) = {} /\ On(InStatus("committed"), i) = {}
  BY DEF Init, On, Active, InStatus
<1>2. StockConservation /\ SoldOnce
  <2>1. \A i \in Items : reserved[i] = 0 /\ onHand[i] = 0 /\ received[i] = 0
    BY DEF Init
  <2>2. \A i \in Items : /\ Total(On(Active, i), quantity) = 0
                         /\ Total(On(InStatus("committed"), i), quantity) = 0
    BY <1>1, TotalEmpty
  <2> QED BY <2>1, <2>2 DEF StockConservation, SoldOnce
<1>3. NoOversell /\ RowsOnItems
  <2>1. \A i \in Items : reserved[i] = 0 /\ onHand[i] = 0
    BY DEF Init
  <2>2. \A r \in Reservations : itemOf[r] = NoItem
    BY DEF Init
  <2> QED BY <2>1, <2>2 DEF NoOversell, RowsOnItems
<1> QED BY <1>2, <1>3 DEF StockInv

\* The rows and reserved_quantity stay as they are, and so does the stock less
\* what the seller put in: the invariant needs the new stock to cover what is
\* held.
LEMMA RowsUnchangedStock ==
  ASSUME TypeOK, StockInv, UNCHANGED <<rows, reserved>>, created \subseteq created',
         \A i \in Items : /\ onHand'[i] - received'[i] = onHand[i] - received[i]
                          /\ reserved[i] <= onHand'[i]
                          /\ onHand'[i] \in Int /\ received'[i] \in Int
  PROVE  StockInv'
<1>1. UNCHANGED <<status, itemOf, quantity, reserved>>
  BY DEF rows
<1>2. \A i \in Items : /\ On(Active, i)' = On(Active, i)
                       /\ On(InStatus("committed"), i)' = On(InStatus("committed"), i)
  BY <1>1 DEF On, Active, InStatus
<1>3. StockConservation' /\ NoOversell' /\ RowsOnItems'
  BY <1>1, <1>2 DEF StockInv, StockConservation, NoOversell, RowsOnItems
<1>4. SoldOnce'
  <2> SUFFICES ASSUME NEW i \in Items
               PROVE  onHand'[i] = received'[i] - Total(On(InStatus("committed"), i), quantity)
    BY <1>1, <1>2 DEF SoldOnce
  <2>1. onHand[i] = received[i] - Total(On(InStatus("committed"), i), quantity)
    BY DEF StockInv, SoldOnce
  <2>2. Total(On(InStatus("committed"), i), quantity) \in Nat
    BY RowsTotal DEF InStatus
  <2>3. onHand[i] \in Int /\ received[i] \in Int
    BY DEF TypeOK
  <2> QED BY <2>1, <2>2, <2>3
<1> QED BY <1>3, <1>4 DEF StockInv

\* Every operation of a seller keeps the stock consistent.
LEMMA SellerStock ==
  ASSUME TypeOK, StockInv, Seller
  PROVE  StockInv'
<1>1. ASSUME NEW i \in Items, NEW q \in 0 .. MaxStock, CreateItem(i, q)
      PROVE  StockInv'
  <2>1. \A r \in Reservations : itemOf[r] # i
    <3>1. i # NoItem
      BY ItemsAssumption
    <3> QED BY <1>1, <3>1 DEF CreateItem, StockInv, RowsOnItems
  <2>2. On(Active, i) = {} /\ On(InStatus("committed"), i) = {}
    BY <2>1 DEF On, Active, InStatus
  <2>3. reserved[i] = 0 /\ onHand[i] = received[i] - 0
    BY <2>2, TotalEmpty DEF StockInv, StockConservation, SoldOnce
  <2>4. /\ onHand' = [onHand EXCEPT ![i] = q] /\ received' = [received EXCEPT ![i] = q]
        /\ UNCHANGED <<rows, reserved>> /\ created \subseteq created'
    BY <1>1 DEF CreateItem
  <2>5. ASSUME NEW j \in Items
        PROVE  /\ onHand'[j] - received'[j] = onHand[j] - received[j]
               /\ reserved[j] <= onHand'[j]
               /\ onHand'[j] \in Int /\ received'[j] \in Int
    <3>1. onHand[j] \in Int /\ received[j] \in Int /\ reserved[j] <= onHand[j] /\ q \in Nat
      BY DEF TypeOK, StockInv, NoOversell
    <3>2. CASE j = i
      <4>1. onHand'[j] = q /\ received'[j] = q /\ reserved[j] = 0
        BY <2>3, <2>4, <3>2 DEF TypeOK
      <4>2. onHand[j] = received[j]
        BY <2>3, <3>1, <3>2
      <4> QED BY <3>1, <4>1, <4>2
    <3>3. CASE j # i
      <4>1. onHand'[j] = onHand[j] /\ received'[j] = received[j]
        BY <2>4, <3>3 DEF TypeOK
      <4> QED BY <3>1, <4>1
    <3> QED BY <3>2, <3>3
  <2> QED BY <2>4, <2>5, RowsUnchangedStock
<1>2. ASSUME UNCHANGED <<rows, reserved, created, onHand, received>>
      PROVE  StockInv'
  <2>1. \A j \in Items : onHand[j] \in Int /\ received[j] \in Int /\ reserved[j] <= onHand[j]
    BY DEF TypeOK, StockInv, NoOversell
  <2> QED BY <1>2, <2>1, RowsUnchangedStock
<1>3. ASSUME NEW i \in Items, UpdateItem(i)
      PROVE  StockInv'
  BY <1>2, <1>3 DEF UpdateItem
<1>4. ASSUME NEW a \in Adjustments, NEW i \in Items, NEW d \in Deltas, NEW k \in AnyKey,
             SendAdjustment(a, i, d, k)
      PROVE  StockInv'
  BY <1>2, <1>4 DEF SendAdjustment, stock
<1>5. ASSUME NEW a \in Adjustments, AdjustStock(a)
      PROVE  StockInv'
  <2>1. edit[a] \in EditType
    <3>1. edit[a] # Unsent
      BY <1>5 DEF AdjustStock
    <3> QED BY <3>1 DEF TypeOK
  <2>2. edit[a].item \in Items /\ edit[a].delta \in Int
    <3>1. Deltas \subseteq Int
      BY DEF Deltas
    <3> QED BY <2>1, <3>1 DEF EditType
  <2>3. PICK i \in Items, d \in Int : i = edit[a].item /\ d = edit[a].delta
    BY <2>2
  <2>4. /\ onHand' = [onHand EXCEPT ![i] = @ + d]
        /\ received' = [received EXCEPT ![i] = @ + d]
        /\ onHand[i] + d >= reserved[i]
        /\ UNCHANGED <<rows, reserved>> /\ created \subseteq created'
    BY <1>5, <2>3 DEF AdjustStock
  <2>5. ASSUME NEW j \in Items
        PROVE  /\ onHand'[j] - received'[j] = onHand[j] - received[j]
               /\ reserved[j] <= onHand'[j]
               /\ onHand'[j] \in Int /\ received'[j] \in Int
    <3>1. /\ onHand[j] \in Int /\ received[j] \in Int /\ reserved[j] \in Int
          /\ reserved[j] <= onHand[j]
      BY DEF TypeOK, StockInv, NoOversell
    <3>2. CASE j = i
      <4>1. onHand'[j] = onHand[j] + d /\ received'[j] = received[j] + d
        BY <2>4, <3>2 DEF TypeOK
      <4> QED BY <2>4, <3>1, <3>2, <4>1
    <3>3. CASE j # i
      <4>1. onHand'[j] = onHand[j] /\ received'[j] = received[j]
        BY <2>4, <3>3 DEF TypeOK
      <4> QED BY <3>1, <4>1
    <3> QED BY <3>2, <3>3
  <2> QED BY <2>4, <2>5, RowsUnchangedStock
<1> QED BY <1>1, <1>3, <1>4, <1>5 DEF Seller

\* Every step keeps the stock consistent.
LEMMA NextStock ==
  ASSUME TypeOK, StockInv, [Next]_vars
  PROVE  StockInv'
<1>0. ASSUME UNCHANGED <<stock, rows>>
      PROVE  StockInv'
  <2>1. \A j \in Items : onHand[j] \in Int /\ received[j] \in Int /\ reserved[j] <= onHand[j]
    BY DEF TypeOK, StockInv, NoOversell
  <2> QED BY <1>0, <2>1, RowsUnchangedStock DEF stock
<1>1. CASE Seller
  BY <1>1, SellerStock
<1>2. CASE Buyer
  <2>1. ASSUME NEW k \in AnyKey, NEW i \in Items, NEW q \in 1 .. MaxQuantity,
               CreateReservation(k, i, q)
        PROVE  StockInv'
    <3>1. PICK r \in InStatus("none") :
             AddRows({r}, [x \in {r} |-> i], [j \in Items |-> IF j = i THEN q ELSE 0], NoGroup)
      BY <2>1 DEF CreateReservation
    <3> DEFINE take == [j \in Items |-> IF j = i THEN q ELSE 0]
               at == [x \in {r} |-> i]
    <3>2. /\ {r} \subseteq InStatus("none") /\ at \in [{r} -> Items]
          /\ take \in [Items -> 0 .. MaxQuantity]
      <4>1. \A n \in 1 .. MaxQuantity : n \in 0 .. MaxQuantity
        BY BoundsAssumption
      <4>2. 0 \in 0 .. MaxQuantity
        BY BoundsAssumption
      <4> QED BY <4>1, <4>2
    <3>3. i \in created /\ q <= Available(i)
      <4>1. Available(i) >= q /\ i \in created
        BY <2>1 DEF CreateReservation
      <4>2. Available(i) \in Int
        BY DEF Available, TypeOK
      <4> QED BY <4>1, <4>2
    <3>4. /\ \A x \in {r} : take[at[x]] > 0 /\ at[x] \in created
          /\ \A j \in Items : take[j] > 0 => \E x \in {r} : at[x] = j
          /\ \A x, y \in {r} : at[x] = at[y] => x = y
          /\ \A j \in Items : take[j] > 0 => take[j] <= Available(j)
      BY <3>3
    <3> HIDE DEF take, at
    <3> QED BY <3>1, <3>2, <3>4, HoldStock DEF take, at
  <2>2. ASSUME NEW r \in Reservations, CommitReservation(r) \/ ReleaseReservation(r)
        PROVE  StockInv'
    <3>1. PICK target \in Terminal : Resolve({r}, target) /\ {r} \subseteq Active
      BY <2>2 DEF CommitReservation, ReleaseReservation, Terminal
    <3> QED BY <3>1, ResolveStock
  <2> QED BY <1>2, <2>1, <2>2 DEF Buyer
<1>3. CASE Checkout
  <2>1. ASSUME NEW k \in AnyKey, NEW lines \in AnyLines, NEW g \in Groups,
               CreateBatchReservation(k, lines, g)
        PROVE  StockInv'
    <3>1. PICK take \in [Items -> 0 .. MaxQuantity], R \in SUBSET InStatus("none") :
             /\ Split(lines, take)
             /\ \E at \in [R -> {i \in Items : take[i] > 0}] :
                  /\ \A i \in {j \in Items : take[j] > 0} : \E r \in R : at[r] = i
                  /\ \A r, x \in R : at[r] = at[x] => r = x
                  /\ AddRows(R, at, take, g)
      BY <2>1 DEF CreateBatchReservation
    <3>2. PICK at \in [R -> {i \in Items : take[i] > 0}] :
                  /\ \A i \in {j \in Items : take[j] > 0} : \E r \in R : at[r] = i
                  /\ \A r, x \in R : at[r] = at[x] => r = x
                  /\ AddRows(R, at, take, g)
      BY <3>1
    <3>3. \A i \in Items : take[i] > 0 => i \in created /\ take[i] <= Available(i)
      BY <3>1 DEF Split, Pool
    <3>4. at \in [R -> Items] /\ \A r \in R : take[at[r]] > 0 /\ at[r] \in created
      BY <3>3
    <3> QED BY <3>2, <3>3, <3>4, HoldStock
  <2>2. ASSUME NEW k \in AnyKey, NEW lines \in AnyLines, ReplayBatchReservation(k, lines)
        PROVE  StockInv'
    BY <1>0, <2>2 DEF ReplayBatchReservation
  <2>3. ASSUME NEW g \in Groups, CommitReservationGroup(g) \/ ReleaseReservationGroup(g)
        PROVE  StockInv'
    <3>1. AllAre(g, "active") => Members(g) \subseteq Active
      BY DEF AllAre, StatusesOf, Members, Active, InStatus
    <3>2. CASE \E target \in Terminal : Resolve(Members(g), target) /\ AllAre(g, "active")
      BY <3>1, <3>2, ResolveStock
    <3>3. CASE UNCHANGED <<stock, rows>>
      BY <3>3, <1>0
    <3> QED
      BY <2>3, <3>2, <3>3 DEF CommitReservationGroup, ReleaseReservationGroup, Terminal
  <2> QED BY <1>3, <2>1, <2>2, <2>3 DEF Checkout
<1>4. CASE Sweep
  <2>1. PICK S \in SUBSET Reservations : Resolve(S, "expired") /\ S \subseteq Active
    BY <1>4 DEF Sweep, ExpireReservations, Overdue
  <2>2. "expired" \in Terminal
    BY DEF Terminal
  <2> QED BY <2>1, <2>2, ResolveStock
<1>5. ASSUME NEW r \in Reservations, TimePasses(r)
      PROVE  StockInv'
  BY <1>0, <1>5 DEF TimePasses
<1>6. CASE UNCHANGED vars
  BY <1>0, <1>6 DEF vars
<1> QED BY <1>1, <1>2, <1>3, <1>4, <1>5, <1>6 DEF Next

\* The stock invariant holds in every reachable state.
THEOREM StockCorrect == Spec => []StockInv
<1>1. Init => TypeOK /\ StockInv
  BY InitType, InitStock
<1>2. TypeOK /\ StockInv /\ [Next]_vars => (TypeOK /\ StockInv)'
  BY NextType, NextStock
<1> QED BY <1>1, <1>2, PTL DEF Spec

\* reserved_quantity is always the sum of the ACTIVE reservations.
THEOREM ReservedIsHeld == Spec => []StockConservation
<1>1. StockInv => StockConservation
  BY DEF StockInv
<1> QED BY <1>1, StockCorrect, PTL

\* Every unit that left the stock is in exactly one COMMITTED reservation.
THEOREM NothingSoldTwice == Spec => []SoldOnce
<1>1. StockInv => SoldOnce
  BY DEF StockInv
<1> QED BY <1>1, StockCorrect, PTL

\* No item ever holds more than it has: the CHECK constraints never fire.
THEOREM NeverOversold == Spec => []NoOversell
<1>1. StockInv => NoOversell
  BY DEF StockInv
<1> QED BY <1>1, StockCorrect, PTL

-----------------------------------------------------------------------------
(***************************************************************************)
(* Reservation groups.                                                     *)
(*                                                                         *)
(* GroupInv is inductive.  A replayed request may only be answered with a  *)
(* group that exists, so the record of a batch must name one, which is     *)
(* RecordsNameGroups.  An answer about a group stands because a group gets *)
(* its rows once and rows that are resolved stay so.                       *)
(***************************************************************************)

\* The record of a batch names a group with rows.
RecordsNameGroups ==
  \A e \in records : e.request.kind = "batch" => e.made \in Groups /\ Members(e.made) # {}

GroupInv == KeysStandForOneRequest /\ RecordsNameGroups /\ AnsweredGroupsAreWhole

\* A step that leaves the rows and the answers alone.
Quiet == UNCHANGED <<rows, told>>

\* Rows R are made for group g.
Adds(R, g) ==
  /\ R # {} /\ R \subseteq InStatus("none")
  /\ \E at \in [R -> Items], take \in [Items -> 0 .. MaxQuantity] : AddRows(R, at, take, g)

\* A batch makes the rows of a new group.
Opens(g) ==
  /\ Members(g) = {}
  /\ \E R \in SUBSET Reservations : Adds(R, g)
  /\ Answer(g, "held")

\* An answer is given again: the group named by a record is held, or is
\* already what the answer says.
Repeats(g, a) ==
  /\ UNCHANGED rows
  /\ Answer(g, a)
  /\ \/ a = "held" /\ \E e \in records : e.request.kind = "batch" /\ e.made = g
     \/ a \in {"committed", "released"} /\ AllAre(g, a)

\* A group with ACTIVE rows only is committed or released as a whole.
Closes(g, a) ==
  /\ a \in {"committed", "released"}
  /\ AllAre(g, "active")
  /\ Resolve(Members(g), a)
  /\ Answer(g, a)

\* ACTIVE rows of any groups are resolved without an answer.
Wears(S, target) ==
  /\ S \subseteq Active
  /\ target \in Terminal
  /\ Resolve(S, target)
  /\ UNCHANGED told

\* A request for some unit of some sku finds an item to take it from.
LEMMA LinesTakeSomething ==
  ASSUME TypeOK, NEW lines \in AnyLines, NEW take \in [Items -> 0 .. MaxQuantity],
         Split(lines, take)
  PROVE  \E i \in Items : take[i] > 0
<1> SUFFICES ASSUME \A i \in Items : ~(take[i] > 0) PROVE FALSE
  OBVIOUS
<1>1. PICK s \in Skus : lines[s] > 0
  BY DEF AnyLines
<1>2. Total(Pool(s), take) = lines[s]
  BY DEF Split
<1>3. \A i \in Pool(s) : take[i] = 0
  BY BoundsAssumption DEF Pool, TypeOK
<1>4. Units(Pool(s), take) = {}
  BY <1>3 DEF Units
<1>5. Total(Pool(s), take) = 0
  BY <1>4, FS_EmptySet DEF Total
<1> QED BY <1>1, <1>2, <1>5

\* What the steps of the service are to its rows and answers.
LEMMA StepsOfRows ==
  ASSUME TypeOK, GroupInv, [Next]_vars
  PROVE  \/ Quiet
         \/ \E r \in Reservations : Adds({r}, NoGroup) /\ UNCHANGED told
         \/ \E g \in Groups : Opens(g)
         \/ \E g \in Groups, a \in Answers : Repeats(g, a)
         \/ \E g \in Groups, a \in Answers : Closes(g, a)
         \/ \E S \in SUBSET Reservations, target \in Terminal : Wears(S, target)
<1>1. CASE Seller
  <2>1. Quiet
    BY <1>1 DEF Seller, CreateItem, UpdateItem, SendAdjustment, AdjustStock, Quiet
  <2> QED BY <2>1
<1>2. CASE Buyer
  <2>1. ASSUME NEW k \in AnyKey, NEW i \in Items, NEW q \in 1 .. MaxQuantity,
               CreateReservation(k, i, q)
        PROVE  \E r \in Reservations : Adds({r}, NoGroup) /\ UNCHANGED told
    <3>1. PICK r \in InStatus("none") :
             AddRows({r}, [x \in {r} |-> i], [j \in Items |-> IF j = i THEN q ELSE 0], NoGroup)
      BY <2>1 DEF CreateReservation
    <3>2. [j \in Items |-> IF j = i THEN q ELSE 0] \in [Items -> 0 .. MaxQuantity]
      <4>1. \A n \in 1 .. MaxQuantity : n \in 0 .. MaxQuantity
        BY BoundsAssumption
      <4>2. 0 \in 0 .. MaxQuantity
        BY BoundsAssumption
      <4> QED BY <4>1, <4>2
    <3>3. [x \in {r} |-> i] \in [{r} -> Items] /\ {r} \subseteq InStatus("none") /\ {r} # {}
      OBVIOUS
    <3>4. Adds({r}, NoGroup)
      BY <3>1, <3>2, <3>3 DEF Adds
    <3>5. UNCHANGED told /\ r \in Reservations
      BY <2>1 DEF CreateReservation, InStatus
    <3> QED BY <3>4, <3>5
  <2>2. ASSUME NEW r \in Reservations, CommitReservation(r) \/ ReleaseReservation(r)
        PROVE  \E S \in SUBSET Reservations, target \in Terminal : Wears(S, target)
    <3>1. PICK target \in Terminal : Resolve({r}, target) /\ {r} \subseteq Active /\ UNCHANGED told
      BY <2>2 DEF CommitReservation, ReleaseReservation, Terminal
    <3> QED BY <3>1 DEF Wears
  <2> QED BY <1>2, <2>1, <2>2 DEF Buyer
<1>3. CASE Checkout
  <2>1. ASSUME NEW k \in AnyKey, NEW lines \in AnyLines, NEW g \in Groups,
               CreateBatchReservation(k, lines, g)
        PROVE  Opens(g)
    <3>1. PICK take \in [Items -> 0 .. MaxQuantity], R \in SUBSET InStatus("none") :
             /\ Split(lines, take)
             /\ \E at \in [R -> {i \in Items : take[i] > 0}] :
                  /\ \A i \in {j \in Items : take[j] > 0} : \E r \in R : at[r] = i
                  /\ AddRows(R, at, take, g)
      BY <2>1 DEF CreateBatchReservation
    <3>2. PICK at \in [R -> {i \in Items : take[i] > 0}] :
             /\ \A i \in {j \in Items : take[j] > 0} : \E r \in R : at[r] = i
             /\ AddRows(R, at, take, g)
      BY <3>1
    <3>3. R # {}
      BY <3>1, <3>2, LinesTakeSomething
    <3>4. at \in [R -> Items] /\ R \in SUBSET Reservations
      BY DEF InStatus
    <3>5. Adds(R, g)
      BY <3>2, <3>3, <3>4 DEF Adds
    <3> QED BY <2>1, <3>4, <3>5 DEF CreateBatchReservation, Opens
  <2>2. ASSUME NEW k \in AnyKey, NEW lines \in AnyLines, ReplayBatchReservation(k, lines)
        PROVE  \E g \in Groups, a \in Answers : Repeats(g, a)
    <3>1. PICK e \in Recorded(k) :
             /\ e.request = GroupRequest(lines)
             /\ Answer(e.made, "held")
             /\ UNCHANGED rows
      BY <2>2 DEF ReplayBatchReservation
    <3>2. e \in records /\ e.request.kind = "batch"
      BY <3>1 DEF Recorded, GroupRequest
    <3>3. e.made \in Groups
      BY <3>2 DEF GroupInv, RecordsNameGroups
    <3>4. Repeats(e.made, "held") /\ "held" \in Answers
      BY <3>1, <3>2 DEF Repeats, Answers
    <3> QED BY <3>3, <3>4
  <2>3. ASSUME NEW g \in Groups, CommitReservationGroup(g) \/ ReleaseReservationGroup(g)
        PROVE  \/ \E a \in Answers : Repeats(g, a) \/ Closes(g, a)
               \/ \E S \in SUBSET Reservations, target \in Terminal : Wears(S, target)
    <3>1. ASSUME NEW a \in {"committed", "released"}, AllAre(g, a), Answer(g, a), UNCHANGED rows
          PROVE  Repeats(g, a) /\ a \in Answers
      BY <3>1 DEF Repeats, Answers
    <3>2. ASSUME NEW a \in {"committed", "released"}, AllAre(g, "active"), Answer(g, a),
                 Resolve(Members(g), a)
          PROVE  Closes(g, a) /\ a \in Answers
      BY <3>2 DEF Closes, Answers
    <3>3. ASSUME AllAre(g, "active"), Resolve(Members(g), "expired"), UNCHANGED told
          PROVE  /\ Members(g) \in SUBSET Reservations /\ "expired" \in Terminal
                 /\ Wears(Members(g), "expired")
      <4>1. Members(g) \subseteq Active
        BY <3>3 DEF AllAre, StatusesOf, Members, Active, InStatus
      <4> QED BY <3>3, <4>1 DEF Wears, Terminal, Members
    <3>4. CASE CommitReservationGroup(g)
      BY <3>1, <3>2, <3>3, <3>4 DEF CommitReservationGroup
    <3>5. CASE ReleaseReservationGroup(g)
      BY <3>1, <3>2, <3>5 DEF ReleaseReservationGroup
    <3> QED BY <2>3, <3>4, <3>5
  <2> QED BY <1>3, <2>1, <2>2, <2>3 DEF Checkout
<1>4. CASE Sweep
  <2>1. PICK S \in SUBSET Reservations :
           S \subseteq Active /\ Resolve(S, "expired") /\ UNCHANGED told
    BY <1>4 DEF Sweep, ExpireReservations, Overdue
  <2>2. "expired" \in Terminal
    BY DEF Terminal
  <2> QED BY <2>1, <2>2 DEF Wears
<1>5. ASSUME NEW r \in Reservations, TimePasses(r)
      PROVE  Quiet
  BY <1>5 DEF TimePasses, Quiet
<1>6. CASE UNCHANGED vars
  BY <1>6 DEF vars, Quiet
<1> QED BY <1>1, <1>2, <1>3, <1>4, <1>5, <1>6 DEF Next

\* With the rows, the groups stay as they are.
LEMMA SameRowsSameGroups ==
  ASSUME UNCHANGED rows, NEW g
  PROVE  /\ Members(g)' = Members(g)
         /\ StatusesOf(g)' = StatusesOf(g)
BY DEF rows, Members, StatusesOf

\* New rows join the group they are made for, as ACTIVE ones, and no other.
LEMMA AddedRows ==
  ASSUME NEW R, NEW g, Adds(R, g), NEW h
  PROVE  /\ h # g => /\ Members(h)' = Members(h)
                     /\ StatusesOf(h)' = StatusesOf(h)
         /\ Members(g) \subseteq Members(g)'
         /\ Members(g)' # {}
         /\ Members(g) = {} => StatusesOf(g)' = {"active"}
<1>1. R # {} /\ R \subseteq Reservations /\ \A r \in R : status[r] = "none"
  BY DEF Adds, InStatus
<1>2. \A r \in Reservations :
         /\ status'[r] = (IF r \in R THEN "active" ELSE status[r])
         /\ groupOf'[r] = (IF r \in R THEN g ELSE groupOf[r])
  BY DEF Adds, AddRows
<1>3. ASSUME h # g
      PROVE  Members(h)' = Members(h) /\ \A r \in Members(h) : status'[r] = status[r]
  BY <1>1, <1>2, <1>3 DEF Members
<1>4. h # g => StatusesOf(h)' = StatusesOf(h)
  BY <1>3 DEF StatusesOf
<1>5. Members(g)' = Members(g) \union R
  BY <1>1, <1>2 DEF Members
<1>6. Members(g) = {} => StatusesOf(g)' = {"active"}
  BY <1>1, <1>2, <1>5 DEF StatusesOf
<1> QED BY <1>1, <1>3, <1>4, <1>5, <1>6

\* Resolving ACTIVE rows leaves every group its rows, and the rows that are not
\* resolved their status.
LEMMA ResolvedRows ==
  ASSUME NEW S, S \subseteq Active, NEW target \in Terminal, Resolve(S, target), NEW g
  PROVE  /\ Members(g)' = Members(g)
         /\ StatusesOf(g)' = {IF r \in S THEN target ELSE status[r] : r \in Members(g)}
         /\ \A r \in Reservations : status[r] # "active" => status'[r] = status[r]
<1>1. groupOf' = groupOf /\ \A r \in S : status[r] = "active"
  BY DEF Resolve, Active, InStatus
<1>2. \A r \in Reservations : status'[r] = IF r \in S THEN target ELSE status[r]
  BY DEF Resolve
<1>3. target # "none"
  BY DEF Terminal
<1>4. Members(g)' = Members(g)
  BY <1>1, <1>2, <1>3 DEF Members
<1>5. \A r \in Members(g) : r \in Reservations
  BY DEF Members
<1>6. StatusesOf(g)' = {IF r \in S THEN target ELSE status[r] : r \in Members(g)}
  BY <1>2, <1>4, <1>5 DEF StatusesOf
<1> QED BY <1>1, <1>2, <1>4, <1>6

\* Committing or releasing a group as a whole makes all its rows so, and is a
\* resolution of ACTIVE rows.
LEMMA ClosedGroup ==
  ASSUME NEW g \in Groups, NEW a, Closes(g, a)
  PROVE  /\ a \in Terminal
         /\ Members(g) \subseteq Active
         /\ StatusesOf(g)' = {a}
         /\ \A h \in Groups : h # g => StatusesOf(h)' = StatusesOf(h)
<1>1. a \in Terminal /\ Members(g) # {}
  BY DEF Closes, Terminal, AllAre, StatusesOf
<1>2. Members(g) \subseteq Active
  BY DEF Closes, AllAre, StatusesOf, Members, Active, InStatus
<1>3. StatusesOf(g)' = {IF r \in Members(g) THEN a ELSE status[r] : r \in Members(g)}
  BY <1>1, <1>2, ResolvedRows DEF Closes
<1>4. ASSUME NEW h \in Groups, h # g
      PROVE  StatusesOf(h)' = StatusesOf(h)
  <2>1. StatusesOf(h)' = {IF r \in Members(g) THEN a ELSE status[r] : r \in Members(h)}
    BY <1>1, <1>2, ResolvedRows DEF Closes
  <2>2. \A r \in Members(h) : r \notin Members(g)
    BY <1>4 DEF Members
  <2> QED BY <2>1, <2>2 DEF StatusesOf
<1> QED BY <1>1, <1>2, <1>3, <1>4

\* No step takes a row away from a group.
LEMMA GroupsKeepRows ==
  ASSUME TypeOK, GroupInv, [Next]_vars, NEW g
  PROVE  Members(g) \subseteq Members(g)'
<1>1. CASE Quiet
  BY <1>1, SameRowsSameGroups DEF Quiet
<1>2. ASSUME NEW R, NEW h, Adds(R, h)
      PROVE  Members(g) \subseteq Members(g)'
  BY <1>2, AddedRows
<1>3. ASSUME NEW h, NEW a, Repeats(h, a)
      PROVE  Members(g) \subseteq Members(g)'
  BY <1>3, SameRowsSameGroups DEF Repeats
<1>4. ASSUME NEW h \in Groups, NEW a, Closes(h, a)
      PROVE  Members(g) \subseteq Members(g)'
  BY <1>4, ClosedGroup, ResolvedRows DEF Closes
<1>5. ASSUME NEW S, NEW target, Wears(S, target)
      PROVE  Members(g) \subseteq Members(g)'
  BY <1>5, ResolvedRows DEF Wears
<1> QED BY <1>1, <1>2, <1>3, <1>4, <1>5, StepsOfRows DEF Opens

\* The one way a record is made: under a key that had none, and for a batch
\* with the group that now has rows.
LEMMA RecordsGrow ==
  ASSUME TypeOK, GroupInv, [Next]_vars
  PROVE  \/ records' = records
         \/ \E k \in AnyKey, request \in RequestType, made \in Groups \union {NoGroup} :
               /\ Recorded(k) = {}
               /\ Record(k, request, made)
               /\ request.kind = "batch" => made \in Groups /\ Members(made)' # {}
<1>1. CASE Seller
  <2>1. ASSUME NEW a \in Adjustments, AdjustStock(a)
        PROVE  \E k \in AnyKey, request \in RequestType, made \in Groups \union {NoGroup} :
                  /\ Recorded(k) = {}
                  /\ Record(k, request, made)
                  /\ request.kind # "batch"
    <3>1. edit[a] \in EditType
      BY <2>1 DEF AdjustStock, TypeOK
    <3>2. edit[a].key \in AnyKey
      BY <3>1 DEF EditType
    <3>3. EditRequest(a) \in RequestType /\ EditRequest(a).kind # "batch"
      BY DEF EditRequest, RequestType
    <3>4. Recorded(edit[a].key) = {} /\ Record(edit[a].key, EditRequest(a), NoGroup)
      BY <2>1 DEF AdjustStock
    <3> QED BY <3>2, <3>3, <3>4
  <2> QED BY <1>1, <2>1 DEF Seller, CreateItem, UpdateItem, SendAdjustment
<1>2. CASE Buyer
  <2>1. ASSUME NEW k \in AnyKey, NEW i \in Items, NEW q \in 1 .. MaxQuantity,
               CreateReservation(k, i, q)
        PROVE  \E request \in RequestType, made \in Groups \union {NoGroup} :
                  /\ Recorded(k) = {}
                  /\ Record(k, request, made)
                  /\ request.kind # "batch"
    <3>1. RowRequest(i, q) \in RequestType /\ RowRequest(i, q).kind # "batch"
      BY DEF RowRequest, RequestType
    <3>2. Recorded(k) = {} /\ Record(k, RowRequest(i, q), NoGroup)
      BY <2>1 DEF CreateReservation
    <3> QED BY <3>1, <3>2
  <2>2. ASSUME NEW r \in Reservations, CommitReservation(r) \/ ReleaseReservation(r)
        PROVE  records' = records
    BY <2>2 DEF CommitReservation, ReleaseReservation, Resolve
  <2> QED BY <1>2, <2>1, <2>2 DEF Buyer
<1>3. CASE Checkout
  <2>1. ASSUME NEW k \in AnyKey, NEW lines \in AnyLines, NEW g \in Groups,
               CreateBatchReservation(k, lines, g)
        PROVE  \E request \in RequestType :
                  /\ Recorded(k) = {}
                  /\ Record(k, request, g)
                  /\ Members(g)' # {}
    <3>1. GroupRequest(lines) \in RequestType
      BY DEF GroupRequest, RequestType
    <3>2. Recorded(k) = {} /\ Record(k, GroupRequest(lines), g)
      BY <2>1 DEF CreateBatchReservation
    <3>3. Members(g)' # {}
      <4>1. PICK take \in [Items -> 0 .. MaxQuantity], R \in SUBSET InStatus("none") :
               /\ Split(lines, take)
               /\ \E at \in [R -> {i \in Items : take[i] > 0}] :
                    /\ \A i \in {j \in Items : take[j] > 0} : \E r \in R : at[r] = i
                    /\ AddRows(R, at, take, g)
        BY <2>1 DEF CreateBatchReservation
      <4>2. R # {}
        BY <4>1, LinesTakeSomething
      <4>3. \A r \in R : r \in Reservations /\ status'[r] = "active" /\ groupOf'[r] = g
        BY <4>1 DEF AddRows, InStatus
      <4> QED BY <4>2, <4>3 DEF Members
    <3> QED BY <3>1, <3>2, <3>3
  <2>2. ASSUME NEW k \in AnyKey, NEW lines \in AnyLines, ReplayBatchReservation(k, lines)
        PROVE  records' = records
    BY <2>2 DEF ReplayBatchReservation
  <2>3. ASSUME NEW g \in Groups, CommitReservationGroup(g) \/ ReleaseReservationGroup(g)
        PROVE  records' = records
    BY <2>3 DEF CommitReservationGroup, ReleaseReservationGroup, Resolve
  <2> QED BY <1>3, <2>1, <2>2, <2>3 DEF Checkout
<1>4. CASE Sweep
  BY <1>4 DEF Sweep, ExpireReservations, Resolve
<1>5. ASSUME NEW r \in Reservations, TimePasses(r)
      PROVE  records' = records
  BY <1>5 DEF TimePasses
<1>6. CASE UNCHANGED vars
  BY <1>6 DEF vars
<1> QED BY <1>1, <1>2, <1>3, <1>4, <1>5, <1>6 DEF Next

\* A key keeps its record, and the record its group.
LEMMA NextRecords ==
  ASSUME TypeOK, GroupInv, [Next]_vars
  PROVE  KeysStandForOneRequest' /\ RecordsNameGroups'
<1>1. \A g : Members(g) # {} => Members(g)' # {}
  BY GroupsKeepRows
<1>2. \A e \in records : e.request.kind = "batch" => e.made \in Groups /\ Members(e.made)' # {}
  BY <1>1 DEF GroupInv, RecordsNameGroups
<1>3. CASE records' = records
  BY <1>2, <1>3 DEF GroupInv, KeysStandForOneRequest, RecordsNameGroups
<1>4. ASSUME NEW k \in AnyKey, NEW request \in RequestType,
             NEW made \in Groups \union {NoGroup},
             Recorded(k) = {}, Record(k, request, made),
             request.kind = "batch" => made \in Groups /\ Members(made)' # {}
      PROVE  KeysStandForOneRequest' /\ RecordsNameGroups'
  <2>1. CASE k = NoKey
    <3>1. records' = records
      BY <1>4, <2>1 DEF Record
    <3> QED BY <1>3, <3>1
  <2>2. CASE k # NoKey
    <3> DEFINE new == [key |-> k, request |-> request, made |-> made]
    <3>1. records' = records \union {new}
      BY <1>4, <2>2 DEF Record
    <3>2. \A e \in records : e.key # new.key
      BY <1>4 DEF Recorded
    <3>3. \A e, f \in records' : e.key = f.key => e = f
      BY <3>1, <3>2 DEF GroupInv, KeysStandForOneRequest
    <3>4. new.request.kind = "batch" => new.made \in Groups /\ Members(new.made)' # {}
      BY <1>4
    <3>5. \A e \in records' : e.request.kind = "batch" => e.made \in Groups /\ Members(e.made)' # {}
      BY <1>2, <3>1, <3>4
    <3> QED BY <3>3, <3>5 DEF KeysStandForOneRequest, RecordsNameGroups
  <2> QED BY <2>1, <2>2
<1> QED BY <1>3, <1>4, RecordsGrow

\* A positive answer about a group stays true of all its rows.
LEMMA NextAnswers ==
  ASSUME TypeOK, GroupInv, [Next]_vars
  PROVE  AnsweredGroupsAreWhole'
<1> SUFFICES ASSUME NEW g \in Groups, NEW a \in {"committed", "released"}, a \in told'[g]
             PROVE  StatusesOf(g)' = {a}
  BY DEF AnsweredGroupsAreWhole
<1>1. told \in [Groups -> SUBSET Answers]
  BY DEF TypeOK
<1>2. a \in told[g] => StatusesOf(g) = {a}
  BY DEF GroupInv, AnsweredGroupsAreWhole
<1>3. StatusesOf(g) = {a} => Members(g) # {} /\ \A r \in Members(g) : status[r] = a
  BY DEF StatusesOf
<1>4. CASE Quiet
  BY <1>2, <1>4, SameRowsSameGroups DEF Quiet
<1>5. ASSUME NEW R, Adds(R, NoGroup), UNCHANGED told
      PROVE  StatusesOf(g)' = {a}
  <2>1. g # NoGroup
    BY GroupsAssumption
  <2> QED BY <1>2, <1>5, <2>1, AddedRows
<1>6. ASSUME NEW h \in Groups, Opens(h)
      PROVE  StatusesOf(g)' = {a}
  <2>1. a \in told[g]
    BY <1>1, <1>6 DEF Opens, Answer
  <2>2. g # h
    BY <1>2, <1>3, <1>6, <2>1 DEF Opens
  <2> QED BY <1>2, <1>6, <2>1, <2>2, AddedRows DEF Opens
<1>7. ASSUME NEW h \in Groups, NEW b \in Answers, Repeats(h, b)
      PROVE  StatusesOf(g)' = {a}
  <2>1. StatusesOf(g)' = StatusesOf(g)
    BY <1>7, SameRowsSameGroups DEF Repeats
  <2>2. a \in told[g] \/ (g = h /\ a = b)
    BY <1>1, <1>7 DEF Repeats, Answer
  <2> QED BY <1>2, <1>7, <2>1, <2>2 DEF Repeats, AllAre
<1>8. ASSUME NEW h \in Groups, NEW b \in Answers, Closes(h, b)
      PROVE  StatusesOf(g)' = {a}
  <2>1. a \in told[g] \/ (g = h /\ a = b)
    BY <1>1, <1>8 DEF Closes, Answer
  <2>2. a \in told[g] => g # h
    BY <1>2, <1>8 DEF Closes, AllAre
  <2> QED BY <1>2, <1>8, <2>1, <2>2, ClosedGroup
<1>9. ASSUME NEW S \in SUBSET Reservations, NEW target \in Terminal, Wears(S, target)
      PROVE  StatusesOf(g)' = {a}
  <2>1. StatusesOf(g) = {a}
    BY <1>2, <1>9 DEF Wears
  <2>2. \A r \in Members(g) : r \notin S /\ status[r] = a
    BY <1>3, <1>9, <2>1 DEF Wears, Active, InStatus
  <2>3. StatusesOf(g)' = {IF r \in S THEN target ELSE status[r] : r \in Members(g)}
    BY <1>9, ResolvedRows DEF Wears
  <2> QED BY <1>3, <2>1, <2>2, <2>3
<1> QED BY <1>4, <1>5, <1>6, <1>7, <1>8, <1>9, StepsOfRows

\* The initial state has no groups, records or answers.
LEMMA InitGroups == Init => GroupInv
BY DEF Init, GroupInv, KeysStandForOneRequest, RecordsNameGroups, AnsweredGroupsAreWhole

\* What is recorded and answered about groups is always true of their rows.
THEOREM GroupsCorrect == Spec => []GroupInv
<1>1. Init => TypeOK /\ GroupInv
  BY InitType, InitGroups
<1>2. TypeOK /\ GroupInv /\ [Next]_vars => (TypeOK /\ GroupInv)'
  BY NextType, NextRecords, NextAnswers DEF GroupInv
<1> QED BY <1>1, <1>2, PTL DEF Spec

\* An idempotency key stands for one request for ever, and the group it is
\* answered with exists.
THEOREM OneRequestPerKey == Spec => []KeysStandForOneRequest
<1>1. GroupInv => KeysStandForOneRequest
  BY DEF GroupInv
<1> QED BY <1>1, GroupsCorrect, PTL

\* A group the checkout was told is committed or released is so as a whole, and
\* stays so, whatever the sweep and the endpoints for single rows do.
THEOREM AnswersStayTrue == Spec => []AnsweredGroupsAreWhole
<1>1. GroupInv => AnsweredGroupsAreWhole
  BY DEF GroupInv
<1> QED BY <1>1, GroupsCorrect, PTL

\* A row that is resolved keeps its status, and a row keeps what it holds.
LEMMA NextResolved ==
  ASSUME TypeOK, GroupInv, [Next]_vars, NEW r \in Reservations
  PROVE  /\ status[r] \in Terminal => status'[r] = status[r]
         /\ status[r] # "none" => /\ itemOf'[r] = itemOf[r]
                                  /\ quantity'[r] = quantity[r]
                                  /\ groupOf'[r] = groupOf[r]
<1> DEFINE Kept == /\ status[r] \in Terminal => status'[r] = status[r]
                   /\ status[r] # "none" => /\ itemOf'[r] = itemOf[r]
                                            /\ quantity'[r] = quantity[r]
                                            /\ groupOf'[r] = groupOf[r]
<1>0. "active" \notin Terminal /\ "none" \notin Terminal
  BY DEF Terminal
<1>1. CASE UNCHANGED rows
  BY <1>1 DEF rows
<1>2. ASSUME NEW R, NEW g, Adds(R, g)
      PROVE  Kept
  <2>1. r \in R => status[r] = "none"
    BY <1>2 DEF Adds, InStatus
  <2>2. r \notin R => /\ status'[r] = status[r] /\ itemOf'[r] = itemOf[r]
                      /\ quantity'[r] = quantity[r] /\ groupOf'[r] = groupOf[r]
    BY <1>2 DEF Adds, AddRows
  <2> QED BY <1>0, <2>1, <2>2
<1>3. ASSUME NEW S, S \subseteq Active, NEW target \in Terminal, Resolve(S, target)
      PROVE  Kept
  <2>1. UNCHANGED <<itemOf, quantity, groupOf>>
    BY <1>3 DEF Resolve
  <2> QED BY <1>0, <1>3, <2>1, ResolvedRows
<1>4. ASSUME NEW g \in Groups, NEW a \in Answers, Closes(g, a)
      PROVE  Kept
  BY <1>3, <1>4, ClosedGroup DEF Closes
<1> QED BY <1>1, <1>2, <1>3, <1>4, StepsOfRows DEF Quiet, Opens, Repeats, Wears

\* A reservation is resolved once and never changes what it holds.
THEOREM RowsResolveOnce == Spec => ResolvedOnce
<1> DEFINE Kept == \A r \in Reservations :
                     /\ status[r] \in Terminal => status'[r] = status[r]
                     /\ status[r] # "none" => /\ itemOf'[r] = itemOf[r]
                                              /\ quantity'[r] = quantity[r]
                                              /\ groupOf'[r] = groupOf[r]
<1>1. TypeOK /\ GroupInv /\ [Next]_vars => [Kept]_vars
  BY NextResolved
<1> QED BY <1>1, TypeCorrect, GroupsCorrect, PTL DEF Spec, ResolvedOnce

-----------------------------------------------------------------------------
(***************************************************************************)
(* Adjustments.                                                            *)
(***************************************************************************)

\* While the version is the one a seller saw, so is the stock, and the seller's
\* request has not been applied.
EditsAreCurrent ==
  \A a \in Adjustments :
    IF edit[a] = Unsent THEN applied[a] = 0
    ELSE LET e == edit[a] IN
         /\ e.item \in created
         /\ e.version <= version[e.item]
         /\ version[e.item] = e.version => /\ applied[a] = 0
                                           /\ onHand[e.item] = e.onHand
                                           /\ reserved[e.item] = e.reserved

\* A step that changes the stock of an item that exists gives it a new version.
LEMMA VersionsCountChanges ==
  ASSUME TypeOK, [Next]_vars
  PROVE  /\ created \subseteq created'
         /\ \A i \in created :
              /\ version[i] <= version'[i]
              /\ version'[i] = version[i] => onHand'[i] = onHand[i] /\ reserved'[i] = reserved[i]
<1> DEFINE Counted == /\ created \subseteq created'
                      /\ \A i \in created :
                           /\ version[i] <= version'[i]
                           /\ version'[i] = version[i] => /\ onHand'[i] = onHand[i]
                                                          /\ reserved'[i] = reserved[i]
<1>0. /\ created \subseteq Items
      /\ \A i \in Items : version[i] \in Nat /\ reserved[i] \in Int /\ onHand[i] \in Int
  BY DEF TypeOK
<1>1. CASE UNCHANGED <<created, onHand, reserved, version>>
  BY <1>0, <1>1
<1>2. ASSUME NEW R, NEW at, NEW take \in [Items -> 0 .. MaxQuantity], NEW g,
             AddRows(R, at, take, g)
      PROVE  Counted
  <2>1. created' = created /\ onHand' = onHand
    BY <1>2 DEF AddRows
  <2>2. ASSUME NEW i \in Items
        PROVE  /\ version[i] <= version'[i]
               /\ version'[i] = version[i] => reserved'[i] = reserved[i]
    <3>1. /\ reserved'[i] = reserved[i] + take[i]
          /\ version'[i] = IF take[i] > 0 THEN version[i] + 1 ELSE version[i]
      BY <1>2 DEF AddRows
    <3>2. take[i] \in Nat
      BY BoundsAssumption
    <3> QED BY <1>0, <3>1, <3>2
  <2> QED BY <1>0, <2>1, <2>2
<1>3. ASSUME NEW S, S \subseteq Reservations, NEW target, Resolve(S, target)
      PROVE  Counted
  <2>1. created' = created
    BY <1>3 DEF Resolve
  <2>2. ASSUME NEW i \in Items
        PROVE  /\ version[i] <= version'[i]
               /\ version'[i] = version[i] => onHand'[i] = onHand[i] /\ reserved'[i] = reserved[i]
    <3>1. /\ reserved'[i] = reserved[i] - Back(S, i)
          /\ onHand'[i] = onHand[i] - Back(S, i) \/ onHand'[i] = onHand[i]
          /\ version'[i] = version[i] + Cardinality(On(S, i))
      BY <1>3 DEF Resolve, NewVersion
    <3>2. IsFiniteSet(On(S, i)) /\ Cardinality(On(S, i)) \in Nat
      BY <1>3, RowsTotal
    <3>3. Cardinality(On(S, i)) = 0 => Back(S, i) = 0
      BY <3>2, FS_EmptySet, TotalEmpty DEF Back
    <3> QED BY <1>0, <3>1, <3>2, <3>3
  <2> QED BY <1>0, <2>1, <2>2
<1>4. CASE Seller
  <2>1. ASSUME NEW i \in Items, NEW q \in 0 .. MaxStock, CreateItem(i, q)
        PROVE  Counted
    BY <1>0, <2>1 DEF CreateItem, TypeOK
  <2>2. ASSUME NEW i \in Items, UpdateItem(i)
        PROVE  Counted
    BY <1>0, <2>2 DEF UpdateItem, TypeOK
  <2>3. ASSUME NEW a \in Adjustments, NEW i \in Items, NEW d \in Deltas, NEW k \in AnyKey,
               SendAdjustment(a, i, d, k)
        PROVE  Counted
    BY <1>1, <2>3 DEF SendAdjustment, stock
  <2>4. ASSUME NEW a \in Adjustments, AdjustStock(a)
        PROVE  Counted
    <3>1. /\ UNCHANGED <<created, reserved>>
          /\ version' = [version EXCEPT ![edit[a].item] = @ + 1]
          /\ onHand' = [onHand EXCEPT ![edit[a].item] = @ + edit[a].delta]
      BY <2>4 DEF AdjustStock
    <3>2. \A i \in Items :
             /\ version'[i] = IF i = edit[a].item THEN version[i] + 1 ELSE version[i]
             /\ i # edit[a].item => onHand'[i] = onHand[i]
      BY <3>1 DEF TypeOK
    <3> QED BY <1>0, <3>1, <3>2
  <2> QED BY <1>4, <2>1, <2>2, <2>3, <2>4 DEF Seller
<1>5. CASE Buyer
  <2>1. ASSUME NEW k \in AnyKey, NEW i \in Items, NEW q \in 1 .. MaxQuantity,
               CreateReservation(k, i, q)
        PROVE  Counted
    <3>1. PICK r \in InStatus("none") :
             AddRows({r}, [x \in {r} |-> i], [j \in Items |-> IF j = i THEN q ELSE 0], NoGroup)
      BY <2>1 DEF CreateReservation
    <3>2. [j \in Items |-> IF j = i THEN q ELSE 0] \in [Items -> 0 .. MaxQuantity]
      <4>1. \A n \in 1 .. MaxQuantity : n \in 0 .. MaxQuantity
        BY BoundsAssumption
      <4>2. 0 \in 0 .. MaxQuantity
        BY BoundsAssumption
      <4> QED BY <4>1, <4>2
    <3> HIDE DEF Counted
    <3> QED BY <3>1, <3>2, <1>2
  <2>2. ASSUME NEW r \in Reservations, CommitReservation(r) \/ ReleaseReservation(r)
        PROVE  Counted
    BY <1>3, <2>2 DEF CommitReservation, ReleaseReservation
  <2> QED BY <1>5, <2>1, <2>2 DEF Buyer
<1>6. CASE Checkout
  <2>1. ASSUME NEW k \in AnyKey, NEW lines \in AnyLines, NEW g \in Groups,
               CreateBatchReservation(k, lines, g)
        PROVE  Counted
    BY <1>2, <2>1 DEF CreateBatchReservation
  <2>2. ASSUME NEW k \in AnyKey, NEW lines \in AnyLines, ReplayBatchReservation(k, lines)
        PROVE  Counted
    BY <1>1, <2>2 DEF ReplayBatchReservation, stock
  <2>3. ASSUME NEW g \in Groups, CommitReservationGroup(g) \/ ReleaseReservationGroup(g)
        PROVE  Counted
    <3>1. Members(g) \subseteq Reservations
      BY DEF Members
    <3> QED BY <1>1, <1>3, <2>3, <3>1 DEF CommitReservationGroup, ReleaseReservationGroup, stock
  <2> QED BY <1>6, <2>1, <2>2, <2>3 DEF Checkout
<1>7. CASE Sweep
  <2>1. PICK S \in SUBSET Reservations : Resolve(S, "expired")
    BY <1>7 DEF Sweep, ExpireReservations
  <2> QED BY <1>3, <2>1
<1>8. ASSUME NEW r \in Reservations, TimePasses(r)
      PROVE  Counted
  BY <1>1, <1>8 DEF TimePasses, stock
<1>9. CASE UNCHANGED vars
  BY <1>1, <1>9 DEF vars, stock
<1> QED BY <1>4, <1>5, <1>6, <1>7, <1>8, <1>9 DEF Next

\* Who sends and applies adjustments: the others leave both alone.
LEMMA OnlySellersEdit ==
  ASSUME [Next]_vars
  PROVE  \/ UNCHANGED <<edit, applied>>
         \/ \E a \in Adjustments, i \in Items, d \in Deltas, k \in AnyKey :
               SendAdjustment(a, i, d, k)
         \/ \E a \in Adjustments : AdjustStock(a)
<1>1. CASE Seller
  BY <1>1 DEF Seller, CreateItem, UpdateItem
<1>2. CASE Buyer
  BY <1>2 DEF Buyer, CreateReservation, CommitReservation, ReleaseReservation, Resolve
<1>3. CASE Checkout
  BY <1>3 DEF Checkout, CreateBatchReservation, ReplayBatchReservation,
              CommitReservationGroup, ReleaseReservationGroup, Resolve
<1>4. CASE Sweep
  BY <1>4 DEF Sweep, ExpireReservations, Resolve
<1>5. ASSUME NEW r \in Reservations, TimePasses(r)
      PROVE  UNCHANGED <<edit, applied>>
  BY <1>5 DEF TimePasses
<1>6. CASE UNCHANGED vars
  BY <1>6 DEF vars
<1> QED BY <1>1, <1>2, <1>3, <1>4, <1>5, <1>6 DEF Next

\* Every step keeps what a seller saw tied to the version.
LEMMA NextEdits ==
  ASSUME TypeOK, EditsAreCurrent, [Next]_vars
  PROVE  EditsAreCurrent'
<1> SUFFICES ASSUME NEW a \in Adjustments
             PROVE  IF edit'[a] = Unsent THEN applied'[a] = 0
                    ELSE /\ edit'[a].item \in created'
                         /\ edit'[a].version <= version'[edit'[a].item]
                         /\ version'[edit'[a].item] = edit'[a].version
                              => /\ applied'[a] = 0
                                 /\ onHand'[edit'[a].item] = edit'[a].onHand
                                 /\ reserved'[edit'[a].item] = edit'[a].reserved
  BY DEF EditsAreCurrent
<1>0. /\ edit \in [Adjustments -> EditType \union {Unsent}]
      /\ applied \in [Adjustments -> Nat] /\ created \subseteq Items
      /\ version \in [Items -> Nat] /\ version' \in [Items -> Nat]
  BY NextType DEF TypeOK
<1>1. edit[a] # Unsent => edit[a].version \in Nat
  BY <1>0 DEF EditType
<1>2. ASSUME edit'[a] = edit[a], applied'[a] = applied[a]
      PROVE  IF edit[a] = Unsent THEN applied'[a] = 0
             ELSE /\ edit[a].item \in created'
                  /\ edit[a].version <= version'[edit[a].item]
                  /\ version'[edit[a].item] = edit[a].version
                       => /\ applied'[a] = 0
                          /\ onHand'[edit[a].item] = edit[a].onHand
                          /\ reserved'[edit[a].item] = edit[a].reserved
  <2>1. CASE edit[a] = Unsent
    BY <1>2, <2>1 DEF EditsAreCurrent
  <2>2. CASE edit[a] # Unsent
    <3> DEFINE i == edit[a].item
    <3>1. /\ i \in created /\ edit[a].version <= version[i]
          /\ version[i] = edit[a].version => /\ applied[a] = 0
                                             /\ onHand[i] = edit[a].onHand
                                             /\ reserved[i] = edit[a].reserved
      BY <2>2 DEF EditsAreCurrent
    <3>2. /\ i \in created' /\ version[i] <= version'[i]
          /\ version'[i] = version[i] => onHand'[i] = onHand[i] /\ reserved'[i] = reserved[i]
      BY <3>1, VersionsCountChanges
    <3>3. version[i] \in Nat /\ version'[i] \in Nat
      BY <1>0, <3>1
    <3> HIDE DEF i
    <3>4. edit[a].version <= version'[i]
          /\ (version'[i] = edit[a].version => version[i] = edit[a].version)
      BY <1>1, <2>2, <3>1, <3>2, <3>3
    <3> QED BY <1>2, <2>2, <3>1, <3>2, <3>4 DEF i
  <2> QED BY <2>1, <2>2
<1>3. CASE UNCHANGED <<edit, applied>>
  BY <1>2, <1>3
<1>4. ASSUME NEW b \in Adjustments, NEW i \in Items, NEW d \in Deltas, NEW k \in AnyKey,
             SendAdjustment(b, i, d, k)
      PROVE  IF edit'[a] = Unsent THEN applied'[a] = 0
             ELSE /\ edit'[a].item \in created'
                  /\ edit'[a].version <= version'[edit'[a].item]
                  /\ version'[edit'[a].item] = edit'[a].version
                       => /\ applied'[a] = 0
                          /\ onHand'[edit'[a].item] = edit'[a].onHand
                          /\ reserved'[edit'[a].item] = edit'[a].reserved
  <2>1. UNCHANGED <<created, version, onHand, reserved, applied>>
    BY <1>4 DEF SendAdjustment, stock
  <2>2. CASE a # b
    BY <1>0, <1>2, <1>4, <2>1, <2>2 DEF SendAdjustment
  <2>3. CASE a = b
    <3>1. edit'[a] = [sent |-> TRUE, item |-> i, delta |-> d, key |-> k,
                      version |-> version[i], onHand |-> onHand[i], reserved |-> reserved[i]]
      BY <1>0, <1>4, <2>3 DEF SendAdjustment
    <3>2. applied[a] = 0 /\ i \in created /\ version[i] \in Nat
      BY <1>0, <1>4, <2>3 DEF SendAdjustment, EditsAreCurrent
    <3>3. edit'[a] # Unsent
      <4>1. edit'[a].sent # Unsent.sent
        BY <3>1 DEF Unsent
      <4> QED BY <4>1
    <3>4. /\ edit'[a].item = i /\ edit'[a].version = version[i]
          /\ edit'[a].onHand = onHand[i] /\ edit'[a].reserved = reserved[i]
      BY <3>1
    <3> QED BY <2>1, <3>2, <3>3, <3>4
  <2> QED BY <2>2, <2>3
<1>5. ASSUME NEW b \in Adjustments, AdjustStock(b)
      PROVE  IF edit'[a] = Unsent THEN applied'[a] = 0
             ELSE /\ edit'[a].item \in created'
                  /\ edit'[a].version <= version'[edit'[a].item]
                  /\ version'[edit'[a].item] = edit'[a].version
                       => /\ applied'[a] = 0
                          /\ onHand'[edit'[a].item] = edit'[a].onHand
                          /\ reserved'[edit'[a].item] = edit'[a].reserved
  <2>1. edit' = edit /\ applied' = [applied EXCEPT ![b] = @ + 1] /\ created' = created
    BY <1>5 DEF AdjustStock
  <2>2. CASE a # b
    BY <1>0, <1>2, <2>1, <2>2
  <2>3. CASE a = b
    <3>1. edit[a] # Unsent /\ version[edit[a].item] = edit[a].version
      BY <1>5, <2>3 DEF AdjustStock, CurrentVersion
    <3>2. edit[a].item \in created
      BY <3>1 DEF EditsAreCurrent
    <3>3. version'[edit[a].item] = version[edit[a].item] + 1
      BY <1>0, <1>5, <2>3, <3>2 DEF AdjustStock
    <3>4. edit[a].version \in Nat
      BY <1>1, <3>1
    <3> QED BY <2>1, <3>1, <3>2, <3>3, <3>4
  <2> QED BY <2>2, <2>3
<1> QED BY <1>3, <1>4, <1>5, OnlySellersEdit

\* While a version is the one a seller saw, the stock is what the seller saw.
THEOREM EditsStayCurrent == Spec => []EditsAreCurrent
<1>1. Init => TypeOK /\ EditsAreCurrent
  BY InitType DEF Init, EditsAreCurrent
<1>2. TypeOK /\ EditsAreCurrent /\ [Next]_vars => (TypeOK /\ EditsAreCurrent)'
  BY NextType, NextEdits
<1> QED BY <1>1, <1>2, PTL DEF Spec

\* An adjustment is applied at most once, and only to the stock its sender saw.
THEOREM AdjustmentsSeeTheStock == Spec => AdjustedOnceAsSeen
<1> DEFINE Seen == \A a \in Adjustments : applied'[a] # applied[a] =>
                     LET e == edit[a] IN
                     /\ applied[a] = 0
                     /\ e.onHand = onHand[e.item]
                     /\ e.reserved = reserved[e.item]
<1>1. TypeOK /\ EditsAreCurrent /\ [Next]_vars => [Seen]_vars
  <2> SUFFICES ASSUME TypeOK, EditsAreCurrent, [Next]_vars,
                      NEW a \in Adjustments, applied'[a] # applied[a]
               PROVE  /\ applied[a] = 0
                      /\ edit[a].onHand = onHand[edit[a].item]
                      /\ edit[a].reserved = reserved[edit[a].item]
    OBVIOUS
  <2>1. PICK b \in Adjustments : AdjustStock(b)
    BY OnlySellersEdit DEF SendAdjustment
  <2>2. a = b
    BY <2>1 DEF AdjustStock, TypeOK
  <2>3. edit[a] # Unsent /\ version[edit[a].item] = edit[a].version
    BY <2>1, <2>2 DEF AdjustStock, CurrentVersion
  <2> QED BY <2>3 DEF EditsAreCurrent
<1> QED BY <1>1, TypeCorrect, EditsStayCurrent, PTL DEF Spec, AdjustedOnceAsSeen

-----------------------------------------------------------------------------
(***************************************************************************)
(* Inventory implements ReservationGroups, the contract Order, Payment and *)
(* Shipping are verified against.                                          *)
(***************************************************************************)

\* The phase a group is in, by the statuses of its rows.
LEMMA PhaseCases ==
  ASSUME NEW seen, seen \subseteq Statuses \ {"none"}
  PROVE  /\ Phase(seen) = "none" <=> seen = {}
         /\ Phase(seen) = "active" <=> seen = {"active"}
         /\ Phase(seen) = "committed" <=> seen = {"committed"}
         /\ Phase(seen) = "released" <=> seen = {"released"}
         /\ Phase(seen) = "mixed" <=> "active" \in seen /\ seen # {"active"}
         /\ Phase(seen) \in Contract!Phases
<1>1. CASE seen = {}
  BY <1>1 DEF Phase, Contract!Phases
<1>2. CASE seen = {"active"}
  BY <1>2 DEF Phase, Contract!Phases
<1>3. CASE seen = {"committed"}
  BY <1>3 DEF Phase, Contract!Phases
<1>4. CASE seen = {"released"}
  BY <1>4 DEF Phase, Contract!Phases
<1>5. CASE seen \notin {{}, {"active"}, {"committed"}, {"released"}}
  BY <1>5 DEF Phase, Contract!Phases
<1> QED BY <1>1, <1>2, <1>3, <1>4, <1>5

\* The phase of a group is that of the statuses of its rows, before a step and
\* after it.
LEMMA PhaseOfGroup ==
  ASSUME TypeOK, [Next]_vars, NEW g \in Groups
  PROVE  /\ PhaseOf(g) = Phase(StatusesOf(g))
         /\ PhaseOf(g)' = Phase(StatusesOf(g)')
         /\ StatusesOf(g) \subseteq Statuses \ {"none"}
         /\ StatusesOf(g)' \subseteq Statuses \ {"none"}
<1>1. PhaseOf(g) = Phase(StatusesOf(g)) /\ PhaseOf(g)' = Phase(StatusesOf(g)')
  BY DEF PhaseOf
<1>2. \A r \in Reservations : status[r] \in Statuses /\ status'[r] \in Statuses
  BY NextType DEF TypeOK
<1> QED BY <1>1, <1>2 DEF StatusesOf, Members

\* When the statuses of the rows of all groups stay, so do the phases.
LEMMA PhasesStay ==
  ASSUME TypeOK, [Next]_vars, \A g \in Groups : StatusesOf(g)' = StatusesOf(g)
  PROVE  [g \in Groups |-> PhaseOf(g)]' = [g \in Groups |-> PhaseOf(g)]
<1>1. \A g \in Groups : PhaseOf(g)' = PhaseOf(g)
  BY PhaseOfGroup
<1> QED BY <1>1

\* When the statuses of the rows of one group change, so does its phase only.
LEMMA OnePhaseChanges ==
  ASSUME TypeOK, [Next]_vars, NEW g \in Groups, NEW p, PhaseOf(g)' = p,
         \A h \in Groups : h # g => StatusesOf(h)' = StatusesOf(h)
  PROVE  [h \in Groups |-> PhaseOf(h)]' = [[h \in Groups |-> PhaseOf(h)] EXCEPT ![g] = p]
<1>1. \A h \in Groups : h # g => PhaseOf(h)' = PhaseOf(h)
  BY PhaseOfGroup
<1> QED BY <1>1

\* Resolving ACTIVE rows erodes the phases of their groups.
LEMMA WornGroups ==
  ASSUME TypeOK, [Next]_vars, NEW S \in SUBSET Reservations, NEW target \in Terminal,
         Wears(S, target), NEW g \in Groups
  PROVE  PhaseOf(g)' \in Contract!Erosion[PhaseOf(g)]
<1> DEFINE seen == StatusesOf(g)
           after == StatusesOf(g)'
<1>1. seen \subseteq Statuses \ {"none"} /\ after \subseteq Statuses \ {"none"}
  BY PhaseOfGroup
<1>2. after = {IF r \in S THEN target ELSE status[r] : r \in Members(g)}
  <2>1. S \subseteq Active /\ Resolve(S, target)
    BY DEF Wears
  <2>2. Members(g)' = Members(g) /\ Members(g) \subseteq Reservations
    BY <2>1, ResolvedRows DEF Members
  <2>3. \A r \in Reservations : status'[r] = IF r \in S THEN target ELSE status[r]
    BY <2>1 DEF Resolve
  <2>4. StatusesOf(g)' = {IF r \in S THEN target ELSE status[r] : r \in Members(g)}
    BY <2>2, <2>3 DEF StatusesOf
  <2> QED BY <2>4
<1>3. seen = {status[r] : r \in Members(g)}
  BY DEF StatusesOf
<1>4. \A r \in S : status[r] = "active"
  BY DEF Wears, Active, InStatus
<1>5. "active" \notin seen => after = seen
  BY <1>2, <1>3, <1>4
<1>6. seen # {} => after # {}
  BY <1>2, <1>3
<1>7. "active" \in seen /\ seen # {"active"} => after # {"active"}
  <2> SUFFICES ASSUME NEW s \in seen, s # "active" PROVE s \in after
    OBVIOUS
  <2> QED BY <1>2, <1>3, <1>4
<1>8. PhaseOf(g) = Phase(seen) /\ PhaseOf(g)' = Phase(after)
  BY PhaseOfGroup
<1>9. Phase(seen) \in Contract!Phases /\ Phase(after) \in Contract!Phases
  BY <1>1, PhaseCases
<1>10. Contract!Erosion[Phase(seen)] =
         CASE Phase(seen) = "active" -> {"active", "mixed", "committed", "released", "dead"}
           [] Phase(seen) = "mixed"  -> {"mixed", "committed", "released", "dead"}
           [] OTHER                  -> {Phase(seen)}
  BY <1>9 DEF Contract!Erosion
<1>11. CASE "active" \notin seen
  <2>1. Phase(after) = Phase(seen)
    BY <1>5, <1>11
  <2>2. Phase(seen) # "active" /\ Phase(seen) # "mixed"
    BY <1>1, <1>11, PhaseCases
  <2> QED BY <1>8, <1>10, <2>1, <2>2
<1>12. CASE seen = {"active"}
  <2>1. Phase(seen) = "active"
    BY <1>1, <1>12, PhaseCases
  <2>2. Phase(after) # "none"
    BY <1>1, <1>6, <1>12, PhaseCases
  <2> QED BY <1>8, <1>9, <1>10, <2>1, <2>2 DEF Contract!Phases
<1>13. CASE "active" \in seen /\ seen # {"active"}
  <2>1. Phase(seen) = "mixed"
    BY <1>1, <1>13, PhaseCases
  <2>2. Phase(after) # "none" /\ Phase(after) # "active"
    BY <1>1, <1>6, <1>7, <1>13, PhaseCases
  <2> QED BY <1>8, <1>9, <1>10, <2>1, <2>2 DEF Contract!Phases
<1> QED BY <1>11, <1>12, <1>13

\* Each step of the service is one of the contract, or leaves it alone.
LEMMA StepImplements ==
  ASSUME TypeOK, GroupInv, [Next]_vars
  PROVE  \/ Contract!Next
         \/ UNCHANGED <<[g \in Groups |-> PhaseOf(g)], told>>
<1> DEFINE phase == [g \in Groups |-> PhaseOf(g)]
<1>1. CASE Quiet
  <2>1. \A g \in Groups : StatusesOf(g)' = StatusesOf(g)
    BY <1>1, SameRowsSameGroups DEF Quiet
  <2> QED BY <1>1, <2>1, PhasesStay DEF Quiet
<1>2. ASSUME NEW r \in Reservations, Adds({r}, NoGroup), UNCHANGED told
      PROVE  UNCHANGED <<phase, told>>
  <2>1. \A g \in Groups : StatusesOf(g)' = StatusesOf(g)
    BY <1>2, AddedRows, GroupsAssumption
  <2> QED BY <1>2, <2>1, PhasesStay
<1>3. ASSUME NEW g \in Groups, Opens(g)
      PROVE  Contract!Reserve(g)
  <2>1. PICK R : Adds(R, g)
    BY <1>3 DEF Opens
  <2>2. StatusesOf(g) = {} /\ StatusesOf(g)' = {"active"}
    BY <1>3, <2>1, AddedRows DEF Opens, StatusesOf
  <2>3. \A h \in Groups : h # g => StatusesOf(h)' = StatusesOf(h)
    BY <2>1, AddedRows
  <2>4. PhaseOf(g) = "none" /\ PhaseOf(g)' = "active"
    BY <2>2, PhaseOfGroup, PhaseCases
  <2>5. phase' = [phase EXCEPT ![g] = "active"]
    BY <2>3, <2>4, OnePhaseChanges
  <2>6. phase[g] = "none"
    BY <2>4
  <2>7. told' = [told EXCEPT ![g] = @ \union {"held"}]
    BY <1>3 DEF Opens, Answer
  <2> HIDE DEF phase
  <2> QED BY <2>5, <2>6, <2>7 DEF Contract!Reserve, Contract!Answered, phase
<1>4. ASSUME NEW g \in Groups, NEW a \in Answers, Repeats(g, a)
      PROVE  Contract!Replay(g) \/ Contract!Commit(g) \/ Contract!Release(g)
  <2>1. \A h \in Groups : StatusesOf(h)' = StatusesOf(h)
    BY <1>4, SameRowsSameGroups DEF Repeats
  <2>2. phase' = phase
    BY <2>1, PhasesStay
  <2>3. told' = [told EXCEPT ![g] = @ \union {a}]
    BY <1>4 DEF Repeats, Answer
  <2>4. CASE a = "held"
    <3>1. Members(g) # {}
      BY <1>4, <2>4 DEF Repeats, GroupInv, RecordsNameGroups
    <3>2. StatusesOf(g) # {}
      BY <3>1 DEF StatusesOf
    <3>3. PhaseOf(g) # "none"
      BY <3>2, PhaseOfGroup, PhaseCases
    <3>4. phase[g] # "none"
      BY <3>3
    <3> HIDE DEF phase
    <3>5. Contract!Replay(g)
      BY <2>2, <2>3, <2>4, <3>4 DEF Contract!Replay, Contract!Answered, phase
    <3> QED BY <3>5
  <2>5. CASE a \in {"committed", "released"}
    <3>1. StatusesOf(g) = {a}
      BY <1>4, <2>5 DEF Repeats, AllAre
    <3>2. PhaseOf(g) = a
      BY <2>5, <3>1, PhaseOfGroup, PhaseCases
    <3>3. phase[g] = a /\ phase' = [phase EXCEPT ![g] = a]
      BY <2>2, <3>2
    <3> HIDE DEF phase
    <3>4. Contract!Complete(g, a)
      BY <2>3, <3>3 DEF Contract!Complete, Contract!Answered, phase
    <3> QED BY <2>5, <3>4 DEF Contract!Commit, Contract!Release
  <2> QED BY <2>4, <2>5 DEF Answers
<1>5. ASSUME NEW g \in Groups, NEW a \in Answers, Closes(g, a)
      PROVE  Contract!Commit(g) \/ Contract!Release(g)
  <2>1. a \in {"committed", "released"} /\ StatusesOf(g) = {"active"}
    BY <1>5 DEF Closes, AllAre
  <2>2. StatusesOf(g)' = {a} /\ \A h \in Groups : h # g => StatusesOf(h)' = StatusesOf(h)
    BY <1>5, ClosedGroup
  <2>3. PhaseOf(g) = "active" /\ PhaseOf(g)' = a
    BY <2>1, <2>2, PhaseOfGroup, PhaseCases
  <2>4. phase' = [phase EXCEPT ![g] = a]
    BY <2>2, <2>3, OnePhaseChanges
  <2>5. phase[g] = "active"
    BY <2>3
  <2>6. told' = [told EXCEPT ![g] = @ \union {a}]
    BY <1>5 DEF Closes, Answer
  <2> HIDE DEF phase
  <2>7. Contract!Complete(g, a)
    BY <2>4, <2>5, <2>6 DEF Contract!Complete, Contract!Answered, phase
  <2> QED BY <2>1, <2>7 DEF Contract!Commit, Contract!Release
<1>6. ASSUME NEW S \in SUBSET Reservations, NEW target \in Terminal, Wears(S, target)
      PROVE  Contract!Erode(Groups)
  <2>1. \A g \in Groups : PhaseOf(g)' \in Contract!Erosion[PhaseOf(g)]
    BY <1>6, WornGroups
  <2>2. \A g \in Groups : PhaseOf(g)' \in Contract!Phases
    BY PhaseOfGroup, PhaseCases
  <2>3. phase' = [g \in Groups |-> PhaseOf(g)']
    OBVIOUS
  <2>4. /\ phase' \in [Groups -> Contract!Phases]
        /\ \A g \in Groups : phase'[g] \in Contract!Erosion[phase[g]]
    BY <2>1, <2>2, <2>3
  <2>5. UNCHANGED told
    BY <1>6 DEF Wears
  <2> HIDE DEF phase
  <2> QED BY <2>4, <2>5 DEF Contract!Erode, phase
<1>7. Groups \in SUBSET Groups
  OBVIOUS
<1> QED BY <1>1, <1>2, <1>3, <1>4, <1>5, <1>6, <1>7, StepsOfRows DEF Contract!Next

\* The service keeps the contract the checkout relies on, for any number of
\* groups, rows and requests.
THEOREM ContractKept == Spec => ImplementsGroups
<1>1. Init => Contract!Init
  <2> SUFFICES ASSUME Init PROVE Contract!Init
    OBVIOUS
  <2>1. \A g \in Groups : StatusesOf(g) = {}
    BY DEF Init, StatusesOf, Members
  <2>2. \A g \in Groups : PhaseOf(g) = "none"
    BY <2>1 DEF PhaseOf, Phase
  <2> QED BY <2>2 DEF Contract!Init, Init
<1>2. TypeOK /\ GroupInv /\ [Next]_vars
        => [Contract!Next]_<<[g \in Groups |-> PhaseOf(g)], told>>
  BY StepImplements
<1> QED BY <1>1, <1>2, TypeCorrect, GroupsCorrect, PTL DEF Spec, ImplementsGroups, Contract!Spec
=============================================================================
