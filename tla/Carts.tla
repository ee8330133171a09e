------------------------------- MODULE Carts -------------------------------
(***************************************************************************)
(* Cart service over the catalog: carts of guests and customers, their     *)
(* lines and saved items, merge, checkout and expiry.                      *)
(*                                                                         *)
(* An operation locks the cart it works on (two, for merge), checks its    *)
(* status, expiry and version, asks Product what it needs to know, and     *)
(* commits all its changes at once: a step that takes the lock and a step  *)
(* that commits.  Between them time passes, the catalog changes, and two   *)
(* readers that take no lock see the old row: the lookup of an             *)
(* Idempotency-Key, and the sweep, which reads what is due and later       *)
(* writes what it read.                                                    *)
(*                                                                         *)
(* A guest is named by its cart, since its token opens no other.  A        *)
(* request that names another version than the cart's changes nothing and  *)
(* is left out, except where it waits between its lookup and the lock.     *)
(***************************************************************************)
EXTENDS Catalog, Totals

CONSTANTS
  Carts, Customers,
  Requests,       \* handlers at work at the same time
  Keys,           \* values of Idempotency-Key of add_item
  CurrencyOf,     \* the currency of a price
  DefaultCurrency,
  Asked,          \* the quantities customers ask for when they add
  MaxQuantity,    \* max_item_quantity
  MaxDistinct,    \* max_distinct_items
  MaxChanges,     \* bound on the changes made to carts
  Guest           \* owner of a cart that belongs to no customer

ASSUME LimitsAssumption == /\ MaxQuantity \in Nat \ {0} /\ MaxDistinct \in Nat \ {0}
                           /\ Asked \subseteq Nat \ {0}
ASSUME ChangesAssumption == MaxChanges \in Nat
ASSUME OwnersAssumption == /\ Carts \intersect Customers = {}
                           /\ Guest \notin Carts \union Customers
                           /\ None \notin Carts \union Customers
ASSUME CartsAssumption == IsFiniteSet(Carts)

VARIABLES
  cart,    \* carts with cart_items and saved_items
  record,  \* idempotency_records: the cart and the body of an actor's key
  req,     \* requests: waiting for a lock, holding one, or idle
  seen,    \* the sweep: version of the carts it read as due, 0 for others
  changes, \* how many changes were committed, to bound them
  units    \* history: units of each variant put in carts and not taken out

cartVars == <<cart, record, req, seen, changes, units>>
vars     == <<catalogVars, cartVars>>

Actors     == Customers \union Carts
Quantities == 1 .. MaxQuantity
Currencies == {CurrencyOf[p] : p \in Prices} \union {DefaultCurrency}

CartStatuses == {"active", "checked_out", "expired", "merged"}

NoLine   == [quantity |-> 0]
NoCart   == [status |-> "none"]
NoRecord == [cart |-> None]
Idle     == [pc |-> "idle"]

SavedItems == SUBSET Variants
Lines == [quantity : Quantities, version : Nat \ {0}, price : Prices]
CartRows == [status : CartStatuses, owner : Customers \union {Guest},
             version : Nat \ {0}, due : BOOLEAN, currency : Currencies,
             lines : [Variants -> Lines \union {NoLine}], saved : SavedItems,
             into : Carts \union {None}]

RequestRows == [pc : {"asked", "adding"}, actor : Actors, cart : Carts \union {None},
                key : Keys, item : Variants, quantity : Asked,
                version : Nat \ {0}]
               \union [pc : {"editing"}, actor : Actors, cart : Carts \union {None}]
               \union [pc : {"merging"}, actor : Customers, cart : Carts \union {None},
                       guest : Carts]

-----------------------------------------------------------------------------
\* Bound: a request is begun only if it would be one of the first that succeed.
Open == changes + Cardinality({r \in Requests : req[r] # Idle}) < MaxChanges

Active(c) == cart[c].status = "active"

HasLine(row, v) == row.lines[v] # NoLine

LinesOf(row) == {v \in Variants : HasLine(row, v)}

\* The active carts of a customer (the unique index leaves one at most), or the
\* cart a token opens, which a merge takes away.
CartsOf(a) == {c \in Carts : /\ Active(c)
                             /\ \/ cart[c].owner = a
                                \/ c = a /\ cart[c].owner = Guest /\ cart[c].into = None}

Locks(r) == CASE req[r].pc \in {"adding", "editing"} -> {req[r].cart}
              [] req[r].pc = "merging" -> {req[r].cart, req[r].guest}
              [] OTHER -> {}

Locked(c) == \E r \in Requests : c \in Locks(r)

NewCart(a) == [status |-> "active", owner |-> IF a \in Customers THEN a ELSE Guest,
               version |-> 1, due |-> FALSE, currency |-> DefaultCurrency,
               lines |-> [v \in Variants |-> NoLine], saved |-> {}, into |-> None]

\* What a request finds under lock: the active cart, not past its expiry, or
\* for a customer who has none, a cart to be created.
Finds(a, c) ==
  \/ c \in CartsOf(a) /\ ~Locked(c) /\ ~cart[c].due
  \/ c = None /\ a \in Customers /\ CartsOf(a) = {}

VersionFound(c) == IF c = None THEN 1 ELSE cart[c].version

\* Mutant: a customer's new cart does not mind another one.
AnyCart(r, c) == IF req[r].cart = None THEN cart[c] = NoCart ELSE c = req[r].cart

\* The row a request writes: the one it locked, or a new one, unless another
\* request created the customer's cart first.
Writes(r, c) == IF req[r].cart = None
                  THEN cart[c] = NoCart /\ CartsOf(req[r].actor) = {}
                  ELSE c = req[r].cart

Row(r) == IF req[r].cart = None THEN NewCart(req[r].actor) ELSE cart[req[r].cart]

\* The snapshot of a variant, which becomes a line of the cart.
Line(v, quantity) == [quantity |-> quantity, version |-> variant[v].version,
                      price |-> variant[v].price]

\* Mutant: a key may be recorded again.
AnyKey(a, key) == TRUE

KeyFree(a, key) == record[a][key] = NoRecord

Finish(r) == req' = [req EXCEPT ![r] = Idle]

\* The commit of a request: the cart, in its next version.
Commit(r, c, row) ==
  /\ cart' = [cart EXCEPT ![c] = [row EXCEPT !.version = @ + 1]]
  /\ changes' = changes + 1
  /\ Finish(r)
  /\ UNCHANGED <<catalogVars, seen>>

-----------------------------------------------------------------------------
Init ==
  /\ CatalogInit
  /\ cart   = [c \in Carts |-> NoCart]
  /\ record = [a \in Actors |-> [key \in Keys |-> NoRecord]]
  /\ req    = [r \in Requests |-> Idle]
  /\ seen   = [c \in Carts |-> 0]
  /\ changes = 0
  /\ units  = [v \in Variants |-> 0]

CreateGuestCart(c) ==
  /\ Open /\ cart[c] = NoCart
  /\ cart' = [cart EXCEPT ![c] = NewCart(c)]
  /\ changes' = changes + 1
  /\ UNCHANGED <<catalogVars, record, req, seen, units>>

\* A read of the cart creates the customer's if there is none.
ResolveCart(u, c) ==
  /\ Open /\ cart[c] = NoCart /\ CartsOf(u) = {}
  /\ cart' = [cart EXCEPT ![c] = NewCart(u)]
  /\ changes' = changes + 1
  /\ UNCHANGED <<catalogVars, record, req, seen, units>>

\* More of a variant that is there, at today's price, or another line, in the
\* currency of the cart unless it is empty.
Fits(row, v, q) ==
  /\ OnSale(v)
  /\ row.lines[v].quantity + q <= MaxQuantity
  /\ ~HasLine(row, v) =>
       /\ Cardinality(LinesOf(row)) < MaxDistinct
       /\ LinesOf(row) # {} => row.currency = CurrencyOf[variant[v].price]

WithMore(row, v, q) ==
  [row EXCEPT !.lines[v] = Line(v, row.lines[v].quantity + q), !.due = FALSE,
              !.currency = IF HasLine(row, v) THEN @ ELSE CurrencyOf[variant[v].price]]

\* add_item under a key looks it up before it locks anything; a key that is
\* known is answered with its cart, or refused.  The request names a version
\* it saw.
AskToAdd(r, a, key, v, q) ==
  /\ Open /\ req[r] = Idle
  /\ KeyFree(a, key)
  /\ \E c \in CartsOf(a) \union {None} :
       /\ c = None => a \in Customers /\ CartsOf(a) = {}
       /\ req' = [req EXCEPT ![r] = [pc |-> "asked", actor |-> a, cart |-> None, key |-> key,
                                     item |-> v, quantity |-> q, version |-> VersionFound(c)]]
  /\ UNCHANGED <<catalogVars, cart, record, seen, changes, units>>

LockToAdd(r, c) ==
  /\ req[r].pc = "asked"
  /\ Finds(req[r].actor, c) /\ VersionFound(c) = req[r].version
  /\ req' = [req EXCEPT ![r].pc = "adding", ![r].cart = c]
  /\ UNCHANGED <<catalogVars, cart, record, seen, changes, units>>

\* The record of the key is part of the commit, and unique.
AddItemOnce(r, c) ==
  LET v == req[r].item  q == req[r].quantity  a == req[r].actor  key == req[r].key IN
  /\ req[r].pc = "adding" /\ Writes(r, c)
  /\ Fits(Row(r), v, q)
  /\ KeyFree(a, key)
  /\ Commit(r, c, WithMore(Row(r), v, q))
  /\ record' = [record EXCEPT ![a][key] = [cart |-> c, item |-> v, quantity |-> q]]
  /\ units' = IF record[a][key] = NoRecord THEN [units EXCEPT ![v] = @ + q] ELSE units

LockToEdit(r, a, c) ==
  /\ Open /\ req[r] = Idle
  /\ Finds(a, c)
  /\ req' = [req EXCEPT ![r] = [pc |-> "editing", actor |-> a, cart |-> c]]
  /\ UNCHANGED <<catalogVars, cart, record, seen, changes, units>>

Edits(r, c) == req[r].pc = "editing" /\ Writes(r, c) /\ UNCHANGED record

Takes(row, v) == units' = [units EXCEPT ![v] = @ - row.lines[v].quantity]

\* add_item without a key.
AddItem(r, c, v, q) ==
  /\ Edits(r, c) /\ Fits(Row(r), v, q)
  /\ Commit(r, c, WithMore(Row(r), v, q))
  /\ units' = [units EXCEPT ![v] = @ + q]

\* The price of the line is left as it is.
UpdateQuantity(r, c, v, q) ==
  LET row == Row(r) IN
  /\ Edits(r, c) /\ HasLine(row, v)
  /\ Commit(r, c, [row EXCEPT !.lines[v].quantity = q])
  /\ units' = [units EXCEPT ![v] = @ - row.lines[v].quantity + q]

RemoveItem(r, c, v) ==
  LET row == Row(r) IN
  /\ Edits(r, c) /\ HasLine(row, v)
  /\ Commit(r, c, [row EXCEPT !.lines[v] = NoLine])
  /\ Takes(row, v)

SaveForLater(r, c, v) ==
  LET row == Row(r) IN
  /\ Edits(r, c) /\ HasLine(row, v)
  /\ Commit(r, c, [row EXCEPT !.lines[v] = NoLine, !.saved = @ \union {v}])
  /\ Takes(row, v)

\* One unit comes back, at today's price; neither the number of lines nor the
\* currency is looked at.
MoveSavedToCart(r, c, v) ==
  LET row == Row(r) IN
  /\ Edits(r, c) /\ v \in row.saved
  /\ OnSale(v)
  /\ row.lines[v].quantity < MaxQuantity
  /\ Commit(r, c, [row EXCEPT !.lines[v] = Line(v, row.lines[v].quantity + 1),
                              !.saved = @ \ {v}])
  /\ units' = [units EXCEPT ![v] = @ + 1]

DeleteSaved(r, c, v) ==
  LET row == Row(r) IN
  /\ Edits(r, c) /\ v \in row.saved
  /\ Commit(r, c, [row EXCEPT !.saved = @ \ {v}])
  /\ UNCHANGED units

Outdated(row) == {v \in LinesOf(row) : row.lines[v] # Line(v, row.lines[v].quantity)}

\* All lines must be on sale; if a price or version differs, those lines are
\* refreshed and the cart gets a new version.
Readiness(r, c) ==
  LET row == Row(r) IN
  /\ Edits(r, c)
  /\ \A v \in LinesOf(row) : OnSale(v)
  /\ Outdated(row) # {}
  /\ Commit(r, c, [row EXCEPT !.lines = [v \in Variants |->
                     IF v \in Outdated(row) THEN Line(v, row.lines[v].quantity)
                                            ELSE row.lines[v]]])
  /\ UNCHANGED units

Clear(r, c) ==
  LET row == Row(r) IN
  /\ Edits(r, c)
  /\ Commit(r, c, [row EXCEPT !.lines = [v \in Variants |-> NoLine]])
  /\ units' = [v \in Variants |-> units[v] - row.lines[v].quantity]

-----------------------------------------------------------------------------
\* Locks the guest's cart, whether or not it is due, then the customer's.
LockToMerge(r, u, g, c) ==
  /\ Open /\ req[r] = Idle
  /\ g \in CartsOf(g) /\ ~Locked(g)
  /\ Finds(u, c)
  /\ req' = [req EXCEPT ![r] = [pc |-> "merging", actor |-> u, cart |-> c, guest |-> g]]
  /\ UNCHANGED <<catalogVars, cart, record, seen, changes, units>>

\* Mutant: a variant both have keeps the customer's price, with the guest's version.
HalfMergedLine(mine, theirs) ==
  CASE mine = NoLine   -> theirs
    [] theirs = NoLine -> mine
    [] OTHER           -> [theirs EXCEPT !.quantity = @ + mine.quantity, !.price = mine.price]

\* A variant both have keeps the customer's price; neither the number of lines
\* nor the currency is looked at.
MergedLine(mine, theirs) ==
  CASE mine = NoLine   -> theirs
    [] theirs = NoLine -> mine
    [] OTHER           -> [mine EXCEPT !.quantity = @ + theirs.quantity]

MergeGuest(r, c) ==
  LET row == Row(r)  g == req[r].guest IN
  /\ req[r].pc = "merging" /\ Writes(r, c)
  /\ \A v \in LinesOf(row) : row.lines[v].quantity + cart[g].lines[v].quantity <= MaxQuantity
  /\ cart' = [cart EXCEPT
       ![c] = [row EXCEPT !.lines = [v \in Variants |->
                             MergedLine(row.lines[v], cart[g].lines[v])],
                          !.saved = @ \union cart[g].saved,
                          !.version = @ + 1, !.due = FALSE],
       ![g] = [cart[g] EXCEPT !.status = "merged", !.into = c, !.version = @ + 1]]
  /\ changes' = changes + 1
  /\ Finish(r)
  /\ UNCHANGED <<catalogVars, record, seen, units>>

\* Order names the cart, its customer and no version.
MarkCheckedOut(r, c) ==
  /\ Edits(r, c) /\ c = req[r].cart
  /\ cart[c].owner # Guest /\ LinesOf(cart[c]) # {}
  /\ Commit(r, c, [cart[c] EXCEPT !.status = "checked_out"])
  /\ UNCHANGED units

\* A check fails, Product or Inventory does not answer, or the handler stops:
\* the transaction is rolled back.
Refuse(r) ==
  /\ req[r] # Idle
  /\ Finish(r)
  /\ UNCHANGED <<catalogVars, cart, record, seen, changes, units>>

-----------------------------------------------------------------------------
TimePasses(c) ==
  /\ cart[c] # NoCart /\ Active(c) /\ ~cart[c].due
  /\ cart' = [cart EXCEPT ![c].due = TRUE]
  /\ UNCHANGED <<catalogVars, record, req, seen, changes, units>>

\* The sweep reads the active carts that are due, without a lock.
ReadDue ==
  LET due == {c \in Carts : cart[c] # NoCart /\ Active(c) /\ cart[c].due} IN
  /\ \A c \in Carts : seen[c] = 0
  /\ due # {}
  /\ seen' = [c \in Carts |-> IF c \in due THEN cart[c].version ELSE 0]
  /\ UNCHANGED <<catalogVars, cart, record, req, changes, units>>

\* Whatever happened to them since, they expire, in the version after the one
\* that was read; or the sweep stops.
ExpireDue ==
  /\ \E c \in Carts : seen[c] # 0
  /\ \A c \in Carts : seen[c] # 0 => ~Locked(c)
  /\ cart' = [c \in Carts |-> IF seen[c] = 0 THEN cart[c]
                ELSE [cart[c] EXCEPT !.status = "expired", !.version = seen[c] + 1]]
  /\ changes' = changes + 1
  /\ seen' = [c \in Carts |-> 0]
  /\ UNCHANGED <<catalogVars, record, req, units>>

SweepStops ==
  /\ \E c \in Carts : seen[c] # 0
  /\ seen' = [c \in Carts |-> 0]
  /\ UNCHANGED <<catalogVars, cart, record, req, changes, units>>

-----------------------------------------------------------------------------
Adding(r) ==
  \/ \E a \in Actors, key \in Keys, v \in Variants, q \in Asked : AskToAdd(r, a, key, v, q)
  \/ \E c \in Carts \union {None} : LockToAdd(r, c)
  \/ \E c \in Carts : AddItemOnce(r, c)

Editing(r) ==
  \/ \E a \in Actors, c \in Carts \union {None} : LockToEdit(r, a, c)
  \/ \E c \in Carts, v \in Variants :
       \/ \E q \in Asked : AddItem(r, c, v, q)
       \/ \E q \in Quantities : UpdateQuantity(r, c, v, q)
       \/ RemoveItem(r, c, v)
       \/ SaveForLater(r, c, v)
       \/ MoveSavedToCart(r, c, v)
       \/ DeleteSaved(r, c, v)
  \/ \E c \in Carts : Readiness(r, c) \/ Clear(r, c)

Ending(r) ==
  \/ \E u \in Customers, g \in Carts, c \in Carts \union {None} : LockToMerge(r, u, g, c)
  \/ \E c \in Carts : MergeGuest(r, c) \/ MarkCheckedOut(r, c)
  \/ Refuse(r)

Next ==
  \/ CatalogNext /\ UNCHANGED cartVars
  \/ \E c \in Carts : \/ CreateGuestCart(c)
                      \/ \E u \in Customers : ResolveCart(u, c)
                      \/ TimePasses(c)
  \/ \E r \in Requests : Adding(r) \/ Editing(r) \/ Ending(r)
  \/ ReadDue \/ ExpireDue \/ SweepStops

Spec == Init /\ [][Next]_vars

-----------------------------------------------------------------------------
\* Types; every line within its limits; and each customer has one cart that is
\* open, however requests that found none race to create it
\* (CartService.resolve_cart and the index uq_active_cart_customer).
StorefrontTypeOK ==
  /\ CatalogTypeOK
  /\ cart \in [Carts -> CartRows \union {NoCart}]
  /\ req  \in [Requests -> RequestRows \union {Idle}]
  /\ seen \in [Carts -> Nat]
  /\ changes \in Nat
  /\ units \in [Variants -> Nat]
  /\ \A u \in Customers : Cardinality(CartsOf(u)) <= 1

\* A cart that was merged counts no more: its lines are in another.
Held(c, v) == IF cart[c] # NoCart /\ cart[c].into = None THEN cart[c].lines[v].quantity ELSE 0

UnitsIn(v) == Total(Carts, [c \in Carts |-> Held(c, v)])

\* The units in carts are those customers put there and did not take out: an
\* add that was repeated counts once, a merge neither loses nor doubles any, and
\* the sweep takes none away (CartService.add_item, CartService.merge_guest,
\* CartRepository.expire_due).
UnitsAddUp == \A v \in Variants : UnitsIn(v) = units[v]

\* A line, however old and wherever it was merged, has the price its variant was
\* listed at together with the version it names: what readiness compares with
\* today's is one offer that was made, and not a mixture of two.  It has to compare
\* both, since two updates of a variant that read the same row give one version
\* two prices (CartService.readiness, CartService.merge_guest,
\* CatalogService.update_variant).
LinesPricedAsListed ==
  \A c \in Carts, v \in Variants : cart[c] # NoCart /\ HasLine(cart[c], v) =>
    <<cart[c].lines[v].version, cart[c].lines[v].price>> \in published[v]

=============================================================================
