------------------------------ MODULE Inventory ------------------------------
(***************************************************************************)
(* Inventory service: stock items, the reservations held against them and  *)
(* the groups a checkout reserves, commits and releases as one.            *)
(*                                                                         *)
(* Every operation is one database transaction that locks the rows it      *)
(* reads (SELECT ... FOR UPDATE) and keeps the locks until it commits, so  *)
(* an operation is one atomic action here.  An operation that is rejected, *)
(* chosen as a deadlock victim or cancelled by a unique constraint changes *)
(* nothing and is not an action.  The CHECK constraints of the tables are  *)
(* not guards: NoOversell says the code never needs them.                  *)
(*                                                                         *)
(* SkuOf[i] stands for the (seller_id, sku) pair of an item; several items *)
(* (one per warehouse) may have the same one.  Items are numbered in the   *)
(* order of their UUIDs.                                                   *)
(***************************************************************************)
EXTENDS Totals

CONSTANTS
  Items,          \* rows of inventory_items
  Skus, SkuOf,    \* what the items stock
  Reservations,   \* ids of rows of inventory_reservations
  Groups, NoGroup,\* values of reservation_group_id
  Keys, NoKey,    \* values of the Idempotency-Key header
  Adjustments,    \* a seller's requests to adjust stock
  MaxQuantity,    \* largest quantity in one request (1_000_000 in the schemas)
  MaxStock,       \* bound on the stock a run puts in one item
  MaxVersion,     \* bound on the versions UpdateItem and AdjustStock reach
  SweepLimit      \* rows one sweep takes (limit, 100 by default)

NoItem == 0

ASSUME ItemsAssumption == /\ IsFiniteSet(Items)
                          /\ Items \subseteq Nat \ {NoItem}
ASSUME SkusAssumption == SkuOf \in [Items -> Skus]
ASSUME RowsAssumption == IsFiniteSet(Reservations)
ASSUME GroupsAssumption == NoGroup \notin Groups
ASSUME KeysAssumption == NoKey \notin Keys
ASSUME BoundsAssumption == /\ MaxQuantity \in Nat \ {0}
                           /\ MaxStock \in Nat
                           /\ MaxVersion \in Nat
                           /\ SweepLimit \in Nat \ {0}

VARIABLES
  created,   \* items that exist
  listed,    \* is_active of an item
  onHand,    \* on_hand_quantity
  reserved,  \* reserved_quantity
  version,   \* version of an item
  status,    \* status of a reservation, "none" before it exists
  itemOf,    \* its inventory_item_id
  quantity,  \* its quantity
  groupOf,   \* its reservation_group_id
  due,       \* the reservations whose expires_at has passed
  records,   \* idempotency_records: key, request (its hash) and what it made
  edit,      \* the adjustments sellers sent, with the stock they saw
  applied,   \* history: how often an adjustment was applied
  received,  \* history: sum of the RECEIPT and ADJUSTMENT movements of an item
  told       \* history: the positive answers given about a group

stock == <<created, listed, onHand, reserved, version, received>>
rows  == <<status, itemOf, quantity, groupOf>>
vars  == <<stock, rows, due, records, edit, applied, told>>

Terminal  == {"committed", "released", "expired"}
Statuses  == {"none", "active"} \union Terminal
Answers   == {"held", "committed", "released"}
Unsent    == [sent |-> FALSE]

-----------------------------------------------------------------------------
\* Mutant: stock that is held is sold again.
AvailableIsOnHand(i) == onHand[i]

Available(i) == onHand[i] - reserved[i]

InStatus(s) == {r \in Reservations : status[r] = s}
\* Mutant: a resolved row can be resolved again.
AnyStatus   == {r \in Reservations : status[r] # "none"}
Active      == InStatus("active")
On(S, i)    == {r \in S : itemOf[r] = i}
Members(g)  == {r \in Reservations : status[r] # "none" /\ groupOf[r] = g}
StatusesOf(g) == {status[r] : r \in Members(g)}

\* Mutant: one row in the status is enough.
SomeAre(g, s) == s \in StatusesOf(g)
AllAre(g, s)  == StatusesOf(g) = {s}

\* Mutant: the sweep only looks at rows of groups.
OverdueOfGroups == {r \in Active \intersect due : groupOf[r] # NoGroup}
Overdue         == Active \intersect due

\* Active items that stock s, the candidates of a line.
Pool(s) == {i \in created : listed[i] /\ SkuOf[i] = s}

\* The idempotency record of a key, if there is one; a request without a key
\* never has one.
Unrecorded(k) == {}      \* Mutant: keys are not looked up.
Recorded(k) == {e \in records : e.key = k}
\* Mutant: a request without a key is recorded under no key.
RecordAlways(k, request, made) ==
  records' = records \union {[key |-> k, request |-> request, made |-> made]}
Record(k, request, made) ==
  records' = IF k = NoKey THEN records
             ELSE records \union {[key |-> k, request |-> request, made |-> made]}

GroupRequest(lines)   == [kind |-> "batch", lines |-> lines]
RowRequest(i, q)      == [kind |-> "single", item |-> i, quantity |-> q]
EditRequest(a)        == [kind |-> "adjust", of |-> a]

Answer(g, a) == told' = [told EXCEPT ![g] = @ \union {a}]

-----------------------------------------------------------------------------
Init == /\ created = {}
        /\ listed   = [i \in Items |-> TRUE]
        /\ onHand   = [i \in Items |-> 0]
        /\ reserved = [i \in Items |-> 0]
        /\ version  = [i \in Items |-> 1]
        /\ status   = [r \in Reservations |-> "none"]
        /\ itemOf   = [r \in Reservations |-> NoItem]
        /\ quantity = [r \in Reservations |-> 0]
        /\ groupOf  = [r \in Reservations |-> NoGroup]
        /\ due      = {}
        /\ records  = {}
        /\ edit     = [a \in Adjustments |-> Unsent]
        /\ applied  = [a \in Adjustments |-> 0]
        /\ received = [i \in Items |-> 0]
        /\ told     = [g \in Groups |-> {}]

(***************************************************************************)
(* The seller's operations on items.                                       *)
(***************************************************************************)

\* A second create of the item finds the key's record or breaks the unique
\* constraint on (warehouse, sku).
CreateItem(i, q) ==
  /\ i \notin created
  /\ created'  = created \union {i}
  /\ onHand'   = [onHand EXCEPT ![i] = q]
  /\ received' = [received EXCEPT ![i] = q]
  /\ UNCHANGED <<listed, reserved, version, rows, due, records, edit, applied, told>>

\* The update that matters here switches is_active.
UpdateItem(i) ==
  /\ i \in created
  /\ version[i] < MaxVersion
  /\ listed'  = [listed EXCEPT ![i] = ~@]
  /\ version' = [version EXCEPT ![i] = @ + 1]
  /\ UNCHANGED <<created, onHand, reserved, received, rows, due, records, edit, applied, told>>

\* A seller reads an item and decides on a correction of its stock.
SendAdjustment(a, i, delta, k) ==
  /\ edit[a] = Unsent
  /\ i \in created
  /\ edit' = [edit EXCEPT ![a] =
                [sent |-> TRUE, item |-> i, delta |-> delta, key |-> k,
                 version |-> version[i], onHand |-> onHand[i],
                 reserved |-> reserved[i]]]
  /\ UNCHANGED <<stock, rows, due, records, applied, told>>

\* The version the request expects, the If-Match header.
CurrentVersion(e) == version[e.item] = e.version

\* The request arrives, for the first time or again.  A request whose key is
\* recorded is answered with the item as it is now.
AdjustStock(a) ==
  LET e == edit[a] IN
  /\ e # Unsent
  /\ Recorded(e.key) = {}
  /\ CurrentVersion(e)
  /\ version[e.item] < MaxVersion
  /\ onHand[e.item] + e.delta >= reserved[e.item]
  /\ onHand[e.item] + e.delta <= MaxStock
  /\ onHand'   = [onHand EXCEPT ![e.item] = @ + e.delta]
  /\ received' = [received EXCEPT ![e.item] = @ + e.delta]
  /\ version'  = [version EXCEPT ![e.item] = @ + 1]
  /\ applied'  = [applied EXCEPT ![a] = @ + 1]
  /\ Record(e.key, EditRequest(a), NoGroup)
  /\ UNCHANGED <<created, listed, reserved, rows, due, edit, told>>

(***************************************************************************)
(* Holding stock.  AddRows makes the rows R, one per item at[r], each for  *)
(* take[at[r]] units.                                                      *)
(***************************************************************************)
AddRows(R, at, take, g) ==
  /\ status'   = [r \in Reservations |-> IF r \in R THEN "active" ELSE status[r]]
  /\ itemOf'   = [r \in Reservations |-> IF r \in R THEN at[r] ELSE itemOf[r]]
  /\ quantity' = [r \in Reservations |-> IF r \in R THEN take[at[r]] ELSE quantity[r]]
  /\ groupOf'  = [r \in Reservations |-> IF r \in R THEN g ELSE groupOf[r]]
  /\ reserved' = [i \in Items |-> reserved[i] + take[i]]
  /\ version'  = [i \in Items |-> IF take[i] > 0 THEN version[i] + 1 ELSE version[i]]
  /\ UNCHANGED <<created, listed, onHand, received>>

CreateReservation(k, i, q) ==
  /\ Recorded(k) = {}
  /\ i \in created /\ listed[i]
  /\ Available(i) >= q
  /\ \E r \in InStatus("none") :
        /\ AddRows({r}, [x \in {r} |-> i],
                   [j \in Items |-> IF j = i THEN q ELSE 0], NoGroup)
        /\ Record(k, RowRequest(i, q), NoGroup)
  /\ UNCHANGED <<due, edit, applied, told>>

\* take meets every line from the pool of its sku, the items in id order and
\* each emptied before the next is touched.
Split(lines, take) ==
  /\ \A i \in Items : take[i] > 0 => /\ i \in Pool(SkuOf[i])
                                     /\ take[i] <= Available(i)
  /\ \A s \in Skus : Total(Pool(s), take) = lines[s]
  /\ \A i, j \in Items :
        i < j /\ SkuOf[i] = SkuOf[j] /\ i \in Pool(SkuOf[i]) /\ take[j] > 0
          => take[i] = Available(i)

CreateBatchReservation(k, lines, g) ==
  /\ Recorded(k) = {}
  /\ Members(g) = {}
  /\ \E take \in [Items -> 0 .. MaxQuantity], R \in SUBSET InStatus("none") :
       LET touched == {i \in Items : take[i] > 0} IN
       /\ Split(lines, take)
       /\ \E at \in [R -> touched] :
            /\ \A i \in touched : \E r \in R : at[r] = i
            /\ \A r, x \in R : at[r] = at[x] => r = x
            /\ AddRows(R, at, take, g)
  /\ Record(k, GroupRequest(lines), g)
  /\ Answer(g, "held")
  /\ UNCHANGED <<due, edit, applied>>

\* The same request again: the group of the first one, as it is now.  Another
\* request with the key is refused (409).
ReplayBatchReservation(k, lines) ==
  \E e \in Recorded(k) :
    /\ e.request = GroupRequest(lines)
    /\ Answer(e.made, "held")
    /\ UNCHANGED <<stock, rows, due, records, edit, applied>>

(***************************************************************************)
(* Resolving reservations.  Each row gives its units back to its item; a   *)
(* committed one takes them off the stock as well.                         *)
(***************************************************************************)
\* Mutant: of several rows on an item only one is subtracted.
BackOnce(S, i) == IF On(S, i) = {} THEN 0 ELSE quantity[CHOOSE r \in On(S, i) : TRUE]
Back(S, i)     == Total(On(S, i), quantity)

SellsUnlessReleased(target) == target # "released"   \* Mutant: expiry sells.
Sells(target)               == target = "committed"

SameVersion(S, i) == version[i]     \* Mutant: resolving keeps the version.
NewVersion(S, i)  == version[i] + Cardinality(On(S, i))

Resolve(S, target) ==
  /\ status'   = [r \in Reservations |-> IF r \in S THEN target ELSE status[r]]
  /\ reserved' = [i \in Items |-> reserved[i] - Back(S, i)]
  /\ onHand'   = [i \in Items |-> IF Sells(target) THEN onHand[i] - Back(S, i)
                                                    ELSE onHand[i]]
  /\ version'  = [i \in Items |-> NewVersion(S, i)]
  /\ UNCHANGED <<created, listed, received, itemOf, quantity, groupOf, due,
                 records, edit, applied>>

\* All rows COMMITTED: answered again.  All ACTIVE: committed, unless the
\* group is due; then all its rows expire and the caller is told so.
CommitReservationGroup(g) ==
  \/ /\ AllAre(g, "committed")
     /\ Answer(g, "committed")
     /\ UNCHANGED <<stock, rows, due, records, edit, applied>>
  \/ /\ AllAre(g, "active")
     /\ Members(g) \intersect due = {}
     /\ Resolve(Members(g), "committed")
     /\ Answer(g, "committed")
  \/ /\ AllAre(g, "active")
     /\ Members(g) \intersect due # {}
     /\ Resolve(Members(g), "expired")
     /\ UNCHANGED told

ReleaseReservationGroup(g) ==
  \/ /\ AllAre(g, "released")
     /\ Answer(g, "released")
     /\ UNCHANGED <<stock, rows, due, records, edit, applied>>
  \/ /\ AllAre(g, "active")
     /\ Resolve(Members(g), "released")
     /\ Answer(g, "released")

\* The endpoints for a single row also accept a row of a group.
CommitReservation(r) ==
  /\ r \in Active
  /\ Resolve({r}, IF r \in due THEN "expired" ELSE "committed")
  /\ UNCHANGED told

ReleaseReservation(r) ==
  /\ r \in Active
  /\ Resolve({r}, "released")
  /\ UNCHANGED told

\* The sweep takes at most SweepLimit due rows and skips those another
\* transaction has locked, whatever group they are of.
ExpireReservations(S) ==
  /\ S # {}
  /\ S \subseteq Overdue
  /\ Cardinality(S) <= SweepLimit
  /\ Resolve(S, "expired")
  /\ UNCHANGED told

\* The rows of a group share one expires_at.
TimePasses(r) ==
  /\ r \in Active \ due
  /\ due' = due \union (IF groupOf[r] = NoGroup THEN {r} ELSE Members(groupOf[r]))
  /\ UNCHANGED <<stock, rows, records, edit, applied, told>>

-----------------------------------------------------------------------------
AnyKey   == Keys \union {NoKey}
AnyLines == {lines \in [Skus -> 0 .. MaxQuantity] : \E s \in Skus : lines[s] > 0}
Deltas   == (-MaxQuantity .. MaxQuantity) \ {0}

Seller ==
  \/ \E i \in Items : \/ \E q \in 0 .. MaxStock : CreateItem(i, q)
                      \/ UpdateItem(i)
  \/ \E a \in Adjustments :
        \/ \E i \in Items, d \in Deltas, k \in AnyKey : SendAdjustment(a, i, d, k)
        \/ AdjustStock(a)

Buyer ==
  \/ \E k \in AnyKey, i \in Items, q \in 1 .. MaxQuantity : CreateReservation(k, i, q)
  \/ \E r \in Reservations : CommitReservation(r) \/ ReleaseReservation(r)

Checkout ==
  \/ \E k \in AnyKey, lines \in AnyLines :
        \/ \E g \in Groups : CreateBatchReservation(k, lines, g)
        \/ ReplayBatchReservation(k, lines)
  \/ \E g \in Groups : CommitReservationGroup(g) \/ ReleaseReservationGroup(g)

Sweep == \E S \in SUBSET Reservations : ExpireReservations(S)

Next == Seller \/ Buyer \/ Checkout \/ Sweep \/ \E r \in Reservations : TimePasses(r)

Spec == Init /\ [][Next]_vars

\* Celery beat runs the sweep every 60 seconds: no due row is passed over for
\* ever.  Buyers, sellers and the checkout may stop at any point.
Fairness == \A r \in Reservations :
              WF_vars(\E S \in SUBSET Reservations : r \in S /\ ExpireReservations(S))

FairSpec == Spec /\ Fairness

-----------------------------------------------------------------------------
(***************************************************************************)
(* Properties.                                                             *)
(***************************************************************************)
EditType == [sent : {TRUE}, item : Items, delta : Deltas, key : AnyKey,
             version : Nat, onHand : Int, reserved : Int]
RequestType ==
  [kind : {"batch"}, lines : AnyLines]
    \union [kind : {"single"}, item : Items, quantity : 1 .. MaxQuantity]
    \union [kind : {"adjust"}, of : Adjustments]

\* The type invariant.
TypeOK ==
  /\ created \subseteq Items
  /\ listed   \in [Items -> BOOLEAN]
  /\ onHand   \in [Items -> Int]
  /\ reserved \in [Items -> Int]
  /\ received \in [Items -> Int]
  /\ version  \in [Items -> Nat]
  /\ status   \in [Reservations -> Statuses]
  /\ itemOf   \in [Reservations -> Items \union {NoItem}]
  /\ quantity \in [Reservations -> 0 .. MaxQuantity]
  /\ groupOf  \in [Reservations -> Groups \union {NoGroup}]
  /\ due \subseteq Reservations
  /\ records \subseteq [key : Keys, request : RequestType, made : Groups \union {NoGroup}]
  /\ edit     \in [Adjustments -> EditType \union {Unsent}]
  /\ applied  \in [Adjustments -> Nat]
  /\ told     \in [Groups -> SUBSET Answers]

\* reserved_quantity, kept by adding and subtracting in six operations, is the
\* sum over the item's ACTIVE reservations: what "drift" in the comment of
\* expire_reservations (inventory_service.py:1000-1006) would break.
StockConservation ==
  \A i \in Items : reserved[i] = Total(On(Active, i), quantity)

\* No unit is sold twice and none is lost: on_hand_quantity is what the seller
\* put in (the RECEIPT and ADJUSTMENT movements) less the COMMITTED rows.
SoldOnce ==
  \A i \in Items :
    onHand[i] = received[i] - Total(On(InStatus("committed"), i), quantity)

\* The CHECK constraints of inventory_items never fire, so no operation fails
\* on one: stock cannot be oversold whatever is adjusted, committed or expired.
NoOversell == \A i \in Items : 0 <= reserved[i] /\ reserved[i] <= onHand[i]

\* Once the checkout was told that its group is committed (or released), every
\* row of the group is so and stays so, though the sweep and the endpoints for
\* single rows work on the same rows.
AnsweredGroupsAreWhole ==
  \A g \in Groups, a \in {"committed", "released"} :
    a \in told[g] => StatusesOf(g) = {a}

\* An Idempotency-Key stands for one request for ever, and the group it is
\* answered with exists.
KeysStandForOneRequest ==
  /\ \A e, f \in records : e.key = f.key => e = f
  /\ \A e \in records : e.request.kind = "batch" => Members(e.made) # {}

\* An adjustment is applied once, however often it is delivered, with or without
\* a key, and only to the stock its sender saw: any hold, sale, release or expiry
\* since then makes expected_version stale.
AdjustedOnceAsSeen ==
  [][\A a \in Adjustments : applied'[a] # applied[a] =>
        LET e == edit[a] IN
        /\ applied[a] = 0
        /\ e.onHand = onHand[e.item]
        /\ e.reserved = reserved[e.item]]_vars

\* A reservation is resolved once: no operation moves a row out of COMMITTED,
\* RELEASED or EXPIRED, or changes what it holds.
ResolvedOnce ==
  [][\A r \in Reservations :
        /\ status[r] \in Terminal => status'[r] = status[r]
        /\ status[r] # "none" => /\ itemOf'[r] = itemOf[r]
                                 /\ quantity'[r] = quantity[r]
                                 /\ groupOf'[r] = groupOf[r]]_vars

\* Held stock comes back: an overdue reservation does not stay ACTIVE.
OverdueIsResolved ==
  \A r \in Reservations : (r \in due /\ status[r] = "active") ~> status[r] # "active"

\* What a group is to the checkout, by the statuses of its rows.
Phase(seen) ==
  CASE seen = {} -> "none"
    [] seen \in {{"active"}, {"committed"}, {"released"}} -> CHOOSE s \in seen : TRUE
    [] seen # {"active"} /\ "active" \in seen -> "mixed"
    [] OTHER -> "dead"

PhaseOf(g) == Phase(StatusesOf(g))

Contract == INSTANCE ReservationGroups WITH phase <- [g \in Groups |-> PhaseOf(g)]

\* The service keeps the contract the checkout relies on.
ImplementsGroups == Contract!Spec
=============================================================================
