----------------------------- MODULE CartsProofs -----------------------------
(***************************************************************************)
(* What customers put into carts stays there, at a price it was listed at, *)
(* for any catalog and any carts, customers, requests and limits.          *)
(*                                                                         *)
(* A request works on the cart it locked: until it commits, nobody else    *)
(* writes that cart (LocksApart), so it is still open, still its owner's,  *)
(* and has not been merged (RequestOK); the sweep, which locks nothing     *)
(* while it reads, expires no cart that is locked.  That is why each       *)
(* commit changes one cart by what its request put in or took out, and a   *)
(* merge moves units from one open cart to another.  What a cart says of a *)
(* price needs that a variant is always listed as it is (Listed), although *)
(* its versions may come again with other prices.                          *)
(***************************************************************************)
EXTENDS Carts, TotalProofs

\* The type invariant; that units are not negative follows from their sum.
StoreTypes ==
  /\ CatalogTypeOK
  /\ cart \in [Carts -> CartRows \union {NoCart}]
  /\ req  \in [Requests -> RequestRows \union {Idle}]
  /\ seen \in [Carts -> Nat]
  /\ changes \in Nat
  /\ units \in [Variants -> Int]

\* Today's version of a variant was published with today's price.
Listed(v) ==
  Exists(variant[v]) => <<variant[v].version, variant[v].price>> \in published[v]

\* A line of a row has a price its variant had in the version it names.
LinesListed(row) ==
  \A v \in Variants : HasLine(row, v) =>
    <<row.lines[v].version, row.lines[v].price>> \in published[v]

\* An open cart was not merged; what the sweep read is a cart.
CartOK(c) ==
  /\ cart[c] # NoCart => LinesListed(cart[c])
  /\ Active(c) => cart[c].into = None
  /\ seen[c] # 0 => cart[c] # NoCart

\* A request that has the lock of a cart has it of one that is open and its
\* actor's; one that merges, of an open guest cart.
RequestOK(r) ==
  /\ req[r].pc \in {"adding", "editing", "merging"} /\ req[r].cart # None =>
       req[r].cart \in CartsOf(req[r].actor)
  /\ req[r].pc = "merging" => req[r].guest \in CartsOf(req[r].guest)

\* No cart is locked by two requests.
LocksApart ==
  \A r, s \in Requests, c \in Carts : c \in Locks(r) /\ c \in Locks(s) => r = s

OneOpenCart == \A u \in Customers : \A c, d \in CartsOf(u) : c = d

StoreInv ==
  /\ StoreTypes
  /\ \A v \in Variants : Listed(v)
  /\ \A c \in Carts : CartOK(c)
  /\ \A r \in Requests : RequestOK(r)
  /\ LocksApart
  /\ OneOpenCart
  /\ UnitsAddUp

-----------------------------------------------------------------------------
(***************************************************************************)
(* The catalog.                                                            *)
(***************************************************************************)

\* A row there is has the columns of one.
LEMMA CatalogRow ==
  ASSUME CatalogTypeOK
  PROVE  /\ \A k \in Categories : /\ category[k].version \in Nat
                                  /\ Exists(category[k]) => category[k] \in CategoryRows
         /\ \A p \in Products : Exists(product[p]) => product[p] \in ProductRows
         /\ \A v \in Variants : /\ variant[v].version \in Nat
                                /\ Exists(variant[v]) => variant[v] \in VariantRows
<1>1. NoRow.version = 0
  BY DEF NoRow
<1> QED BY <1>1 DEF CatalogTypeOK, Exists, CategoryRows, ProductRows, VariantRows

\* What was published of a variant are versions and prices.
LEMMA PublishedPairs ==
  ASSUME CatalogTypeOK, NEW v \in Variants, NEW a \in published[v]
  PROVE  a[1] \in Nat \ {0} /\ a[2] \in Prices /\ a = <<a[1], a[2]>>
<1>1. published[v] \in SUBSET ((Nat \ {0}) \X Prices)
  BY DEF CatalogTypeOK
<1>2. a \in (Nat \ {0}) \X Prices
  BY <1>1
<1> QED BY <1>2

\* Changes of categories keep the types.
LEMMA CategoryTypes ==
  ASSUME CatalogTypeOK, CategoryNext
  PROVE  CatalogTypeOK' /\ UNCHANGED <<variant, published>>
<1>1. PICK k \in Categories, parent \in Categories \union {None}, active \in BOOLEAN :
        \/ CreateCategory(k, parent, active)
        \/ \E n \in 1 .. category[k].version : UpdateCategory(k, n, parent, active)
  BY DEF CategoryNext
<1>2. PICK n \in Nat \ {0} :
        /\ category' = [category EXCEPT ![k] =
             [parent |-> parent, active |-> active, version |-> n]]
        /\ UNCHANGED <<product, variant, created, published>>
  <2>1. CASE CreateCategory(k, parent, active)
    <3>1. /\ 1 \in Nat \ {0}
          /\ category' = [category EXCEPT ![k] =
               [parent |-> parent, active |-> active, version |-> 1]]
          /\ UNCHANGED <<product, variant, created, published>>
      BY <2>1 DEF CreateCategory
    <3> QED BY <3>1
  <2>2. ASSUME NEW n \in 1 .. category[k].version, UpdateCategory(k, n, parent, active)
        PROVE  /\ n + 1 \in Nat \ {0}
               /\ category' = [category EXCEPT ![k] =
                    [parent |-> parent, active |-> active, version |-> n + 1]]
               /\ UNCHANGED <<product, variant, created, published>>
    BY <2>2, CatalogRow DEF UpdateCategory
  <2> QED BY <1>1, <2>1, <2>2
<1>3. [parent |-> parent, active |-> active, version |-> n] \in CategoryRows
  BY DEF CategoryRows
<1> QED BY <1>2, <1>3 DEF CatalogTypeOK

\* A product with other contents is a product.
LEMMA ProductTypes ==
  ASSUME CatalogTypeOK, NEW p \in Products, NEW row \in ProductRows,
         product' = [product EXCEPT ![p] = row],
         UNCHANGED <<category, variant, created, published>>
  PROVE  CatalogTypeOK'
BY DEF CatalogTypeOK

\* A variant, new or changed, is listed with its version and its price.
LEMMA VariantKeeps ==
  ASSUME CatalogTypeOK, \A v \in Variants : Listed(v), NEW w \in Variants, NEW row \in VariantRows,
         variant' = [variant EXCEPT ![w] = row],
         published' = [published EXCEPT ![w] = @ \union {<<row.version, row.price>>}],
         UNCHANGED <<category, product, created>>
  PROVE  /\ CatalogTypeOK'
         /\ \A v \in Variants : Listed(v)' /\ published[v] \subseteq published'[v]
<1>1. CatalogTypeOK'
  <2>1. row.version \in Nat \ {0} /\ row.price \in Prices
    BY DEF VariantRows
  <2>2. <<row.version, row.price>> \in (Nat \ {0}) \X Prices
    BY <2>1
  <2>3. published[w] \union {<<row.version, row.price>>} \in SUBSET ((Nat \ {0}) \X Prices)
    BY <2>2 DEF CatalogTypeOK
  <2> QED BY <2>3 DEF CatalogTypeOK
<1>2. ASSUME NEW v \in Variants PROVE Listed(v)' /\ published[v] \subseteq published'[v]
  <2>1. CASE v = w
    <3>1. variant'[v] = row /\ published'[v] = published[v] \union {<<row.version, row.price>>}
      BY <2>1 DEF CatalogTypeOK
    <3> QED BY <3>1 DEF Listed
  <2>2. CASE v # w
    <3>1. variant'[v] = variant[v] /\ published'[v] = published[v]
      BY <2>2 DEF CatalogTypeOK
    <3> QED BY <3>1 DEF Listed, Exists
  <2> QED BY <2>1, <2>2
<1> QED BY <1>1, <1>2

\* Every step of the catalog keeps its types and every variant listed, and takes
\* no price back.
LEMMA CatalogKeeps ==
  ASSUME CatalogTypeOK, \A v \in Variants : Listed(v), CatalogNext
  PROVE  /\ CatalogTypeOK'
         /\ \A v \in Variants : Listed(v)' /\ published[v] \subseteq published'[v]
<1>0. ASSUME UNCHANGED <<variant, published>>
      PROVE  \A v \in Variants : Listed(v)' /\ published[v] \subseteq published'[v]
  BY <1>0 DEF Listed, Exists
<1>1. CASE CategoryNext
  BY <1>0, <1>1, CategoryTypes
<1>2. ASSUME NEW p \in Products, NEW row \in ProductRows,
             product' = [product EXCEPT ![p] = row],
             UNCHANGED <<category, variant, created, published>>
      PROVE  /\ CatalogTypeOK'
             /\ \A v \in Variants : Listed(v)' /\ published[v] \subseteq published'[v]
  BY <1>0, <1>2, ProductTypes
<1>3. ASSUME NEW p \in Products, NEW k \in Categories, UpdateProduct(p, k)
      PROVE  /\ CatalogTypeOK'
             /\ \A v \in Variants : Listed(v)' /\ published[v] \subseteq published'[v]
  <2>1. product[p] \in ProductRows /\ product \in [Products -> ProductRows \union {NoRow}]
    BY <1>3, CatalogRow DEF UpdateProduct, CatalogTypeOK
  <2>2. [product[p] EXCEPT !.category = k, !.version = @ + 1] \in ProductRows
    <3>1. product[p].version + 1 \in Nat \ {0}
      BY <2>1 DEF ProductRows
    <3> QED BY <2>1, <3>1 DEF ProductRows
  <2>3. product' = [product EXCEPT ![p] = [product[p] EXCEPT !.category = k, !.version = @ + 1]]
    BY <1>3, <2>1 DEF UpdateProduct, ProductRows
  <2> QED BY <1>2, <1>3, <2>2, <2>3 DEF UpdateProduct
<1>4. ASSUME NEW p \in Products, NEW target \in ProductStatuses, ChangeStatus(p, target)
      PROVE  /\ CatalogTypeOK'
             /\ \A v \in Variants : Listed(v)' /\ published[v] \subseteq published'[v]
  <2>1. product[p] \in ProductRows /\ product \in [Products -> ProductRows \union {NoRow}]
    BY <1>4, CatalogRow DEF ChangeStatus, CatalogTypeOK
  <2>2. [product[p] EXCEPT !.status = target, !.version = @ + 1] \in ProductRows
    <3>1. product[p].version + 1 \in Nat \ {0}
      BY <2>1 DEF ProductRows
    <3> QED BY <2>1, <3>1 DEF ProductRows
  <2>3. product' = [product EXCEPT ![p] = [product[p] EXCEPT !.status = target, !.version = @ + 1]]
    BY <1>4, <2>1 DEF ChangeStatus, ProductRows
  <2> QED BY <1>2, <1>4, <2>2, <2>3 DEF ChangeStatus
<1>5. ASSUME NEW p \in Products, NEW o \in SortOrders, AddImage(p, o) \/ DeleteImage(p, o)
      PROVE  /\ CatalogTypeOK'
             /\ \A v \in Variants : Listed(v)' /\ published[v] \subseteq published'[v]
  <2>1. product[p] \in ProductRows /\ product \in [Products -> ProductRows \union {NoRow}]
    BY <1>5, CatalogRow DEF AddImage, DeleteImage, CatalogTypeOK
  <2>2. PICK i \in SUBSET SortOrders :
           /\ product' = [product EXCEPT ![p].images = i]
           /\ UNCHANGED <<category, variant, created, published>>
    <3>1. /\ product[p].images \union {o} \in SUBSET SortOrders
          /\ product[p].images \ {o} \in SUBSET SortOrders
      BY <2>1 DEF ProductRows
    <3> QED BY <1>5, <3>1 DEF AddImage, DeleteImage
  <2>3. [product[p] EXCEPT !.images = i] \in ProductRows
    BY <2>1 DEF ProductRows
  <2>4. product' = [product EXCEPT ![p] = [product[p] EXCEPT !.images = i]]
    BY <2>1, <2>2
  <2> QED BY <1>2, <2>2, <2>3, <2>4
<1>6. ASSUME NEW p \in Products, NEW k \in Categories, NEW key \in CatalogKeys,
             NEW images \in SUBSET SortOrders, NEW vs \in SUBSET Variants,
             NEW price \in [vs -> Prices], NEW active \in SUBSET vs,
             CreateProduct(p, k, key, images, price, active)
      PROVE  /\ CatalogTypeOK'
             /\ \A v \in Variants : Listed(v)' /\ published[v] \subseteq published'[v]
  <2>0. DOMAIN price = vs /\ \A v \in vs : price[v] \in Prices
    OBVIOUS
  <2>1. CatalogTypeOK'
    <3>1. [status |-> "draft", category |-> k, version |-> 1, images |-> images] \in ProductRows
      BY DEF ProductRows, ProductStatuses
    <3>2. product' \in [Products -> ProductRows \union {NoRow}]
      BY <1>6, <3>1 DEF CreateProduct, CatalogTypeOK
    <3>3. \A v \in vs : [product |-> p, price |-> price[v], active |-> v \in active, version |-> 1]
                         \in VariantRows
      BY <2>0 DEF VariantRows
    <3>4. variant' \in [Variants -> VariantRows \union {NoRow}]
      BY <1>6, <2>0, <3>3 DEF CreateProduct, CatalogTypeOK
    <3>5. created' \in [CatalogKeys -> Products \union {None}]
      BY <1>6 DEF CreateProduct, CatalogTypeOK
    <3>6. published' \in [Variants -> SUBSET ((Nat \ {0}) \X Prices)]
      <4>1. \A v \in vs : <<1, price[v]>> \in (Nat \ {0}) \X Prices
        BY <2>0
      <4>2. \A v \in Variants : published[v] \union (IF v \in vs THEN {<<1, price[v]>>} ELSE {})
                                  \in SUBSET ((Nat \ {0}) \X Prices)
        BY <4>1 DEF CatalogTypeOK
      <4> QED BY <1>6, <2>0, <4>2 DEF CreateProduct
    <3> QED BY <1>6, <3>2, <3>4, <3>5, <3>6 DEF CreateProduct, CatalogTypeOK
  <2>2. ASSUME NEW v \in Variants PROVE Listed(v)' /\ published[v] \subseteq published'[v]
    <3>1. CASE v \in vs
      <4>1. /\ variant'[v].version = 1 /\ variant'[v].price = price[v]
            /\ published'[v] = published[v] \union {<<1, price[v]>>}
        BY <1>6, <2>0, <3>1 DEF CreateProduct
      <4> QED BY <4>1 DEF Listed
    <3>2. CASE v \notin vs
      <4>1. variant'[v] = variant[v] /\ published'[v] = published[v]
        BY <1>6, <2>0, <3>2 DEF CreateProduct
      <4> QED BY <4>1 DEF Listed, Exists
    <3> QED BY <3>1, <3>2
  <2> QED BY <2>1, <2>2
<1>7. ASSUME NEW p \in Products, NEW v \in Variants, NEW price \in Prices, NEW active \in BOOLEAN,
             AddVariant(p, v, price, active)
      PROVE  /\ CatalogTypeOK'
             /\ \A w \in Variants : Listed(w)' /\ published[w] \subseteq published'[w]
  <2>1. PICK row \in VariantRows :
          row = [product |-> p, price |-> price, active |-> active, version |-> 1]
    <3>1. [product |-> p, price |-> price, active |-> active, version |-> 1] \in VariantRows
      BY DEF VariantRows
    <3> QED BY <3>1
  <2>2. row.version = 1 /\ row.price = price
    BY <2>1
  <2>3. /\ variant' = [variant EXCEPT ![v] = row]
        /\ published' = [published EXCEPT ![v] = @ \union {<<row.version, row.price>>}]
        /\ UNCHANGED <<category, product, created>>
    BY <1>7, <2>1, <2>2 DEF AddVariant, Publish
  <2> QED BY <2>2, <2>3, VariantKeeps
<1>8. ASSUME NEW v \in Variants, NEW price \in Prices, NEW active \in BOOLEAN,
             NEW read \in published[v], UpdateVariant(v, read, price, active)
      PROVE  /\ CatalogTypeOK'
             /\ \A w \in Variants : Listed(w)' /\ published[w] \subseteq published'[w]
  <2>1. variant[v] \in VariantRows /\ variant \in [Variants -> VariantRows \union {NoRow}]
    BY <1>8, CatalogRow DEF UpdateVariant, CatalogTypeOK
  <2>2. PICK new \in Prices : new = IF price = read[2] THEN variant[v].price ELSE price
    BY <2>1 DEF VariantRows
  <2>3. PICK n \in Nat \ {0} : n = read[1] + 1
    BY PublishedPairs
  <2>4. PICK row \in VariantRows :
          row = [variant[v] EXCEPT !.price = new, !.active = active, !.version = n]
    BY <2>1 DEF VariantRows
  <2>5. row.version = n /\ row.price = new
    BY <2>1, <2>4 DEF VariantRows
  <2>6. /\ variant' = [variant EXCEPT ![v] = row]
        /\ published' = [published EXCEPT ![v] = @ \union {<<row.version, row.price>>}]
        /\ UNCHANGED <<category, product, created>>
    <3>1. variant' = [variant EXCEPT ![v].price = new, ![v].active = active, ![v].version = n]
      BY <1>8, <2>2, <2>3 DEF UpdateVariant
    <3>2. variant' = [variant EXCEPT ![v] = row]
      BY <2>1, <2>4, <3>1
    <3> QED BY <1>8, <2>2, <2>3, <2>5, <3>2 DEF UpdateVariant, Publish
  <2> QED BY <2>6, VariantKeeps
<1>9. CASE ProductNext
  BY <1>3, <1>4, <1>5, <1>6, <1>9 DEF ProductNext
<1>10. CASE VariantNext
  BY <1>7, <1>8, <1>10 DEF VariantNext
<1> QED BY <1>1, <1>5, <1>9, <1>10 DEF CatalogNext

-----------------------------------------------------------------------------
(***************************************************************************)
(* Carts and their lines, and the requests that lock them.                 *)
(***************************************************************************)

\* A cart that is there has the columns of one, and one that is open is there.
LEMMA CartRow ==
  ASSUME StoreTypes, NEW c \in Carts
  PROVE  /\ cart[c] # NoCart => cart[c] \in CartRows
         /\ Active(c) => cart[c] # NoCart /\ cart[c] \in CartRows
<1>1. cart[c] \in CartRows \union {NoCart}
  BY DEF StoreTypes
<1>2. NoCart.status = "none"
  BY DEF NoCart
<1> QED BY <1>1, <1>2 DEF Active

\* A line has a quantity within the limit, and where there is none it is zero.
LEMMA LineTypes ==
  ASSUME NEW row \in CartRows, NEW v \in Variants
  PROVE  /\ row.lines \in [Variants -> Lines \union {NoLine}]
         /\ HasLine(row, v) => row.lines[v] \in Lines /\ row.lines[v].quantity \in Quantities
         /\ ~HasLine(row, v) => row.lines[v].quantity = 0
         /\ row.lines[v].quantity \in 0 .. MaxQuantity
         /\ row.lines[v].quantity \in Nat
<1> USE LimitsAssumption
<1>1. row.lines \in [Variants -> Lines \union {NoLine}]
  BY DEF CartRows
<1>2. NoLine.quantity = 0
  BY DEF NoLine
<1>3. \A x \in Lines : x.quantity \in 1 .. MaxQuantity
  BY DEF Lines, Quantities
<1> QED BY <1>1, <1>2, <1>3 DEF HasLine, Quantities

\* What there is of a variant in a cart is a number.
LEMMA HeldType == StoreTypes => \A c \in Carts, v \in Variants : Held(c, v) \in Nat
BY CartRow, LineTypes DEF Held

\* So it is after a step.
LEMMA HeldTypeNext == (StoreTypes => \A c \in Carts, v \in Variants : Held(c, v) \in Nat)'
BY HeldType, PTL

\* What a request has read has the types of its kind.
LEMMA RequestTypes ==
  ASSUME StoreTypes, NEW r \in Requests
  PROVE  /\ req[r].pc \in {"asked", "adding"} =>
              /\ req[r].actor \in Actors /\ req[r].cart \in Carts \union {None}
              /\ req[r].item \in Variants /\ req[r].quantity \in Asked
              /\ req[r] \in [pc : {"asked", "adding"}, actor : Actors, cart : Carts \union {None},
                            key : Keys, item : Variants, quantity : Asked,
                            version : Nat \ {0}]
         /\ req[r].pc = "editing" => req[r].actor \in Actors /\ req[r].cart \in Carts \union {None}
         /\ req[r].pc = "merging" => /\ req[r].actor \in Customers /\ req[r].guest \in Carts
                                     /\ req[r].cart \in Carts \union {None}
         /\ req[r] # Idle => req[r].pc \in {"asked", "adding", "editing", "merging"}
         /\ req[r].pc # "idle" => req[r] # Idle
<1>1. req[r] \in RequestRows \union {Idle}
  BY DEF StoreTypes
<1>2. Idle.pc = "idle"
  BY DEF Idle
<1> QED BY <1>1, <1>2 DEF RequestRows

\* The carts of an actor are there, open and not merged, and its own.
LEMMA OpenCarts ==
  ASSUME StoreTypes, \A c \in Carts : CartOK(c), NEW a \in Actors, NEW c \in CartsOf(a)
  PROVE  /\ c \in Carts /\ cart[c] # NoCart /\ cart[c] \in CartRows
         /\ Active(c) /\ cart[c].status = "active" /\ cart[c].into = None
         /\ a \in Customers => cart[c].owner = a
         /\ a \in Carts => cart[c].owner = Guest /\ c = a
<1>1. c \in Carts /\ Active(c)
  BY DEF CartsOf
<1>2. cart[c] # NoCart /\ cart[c] \in CartRows /\ cart[c].into = None
  BY <1>1, CartRow DEF CartOK
<1>3. cart[c].owner \in Customers \union {Guest}
  BY <1>2 DEF CartRows
<1> QED BY <1>1, <1>2, <1>3, OwnersAssumption DEF CartsOf, Active, Actors

\* The row a request works on: a cart it locked, open and nobody else's, or a
\* new one.
LEMMA FoundRow ==
  ASSUME StoreInv, NEW r \in Requests, NEW c \in Carts,
         req[r].pc \in {"adding", "editing", "merging"}, Writes(r, c)
  PROVE  /\ Row(r) \in CartRows /\ Row(r).status = "active" /\ Row(r).into = None
         /\ LinesListed(Row(r))
         /\ \A v \in Variants : Row(r).lines[v].quantity = Held(c, v)
         /\ req[r].actor \in Actors
         /\ req[r].actor \in Customers => Row(r).owner = req[r].actor
         /\ req[r].actor \in Carts => Row(r).owner = Guest
         /\ \A s \in Requests : s # r => c \notin Locks(s)
         /\ cart[c] = NoCart => CartsOf(req[r].actor) = {}
         /\ cart[c] # NoCart => cart[c] = Row(r) /\ c \in CartsOf(req[r].actor) /\ c = req[r].cart
<1> USE DEF StoreInv
<1>1. req[r].actor \in Actors /\ req[r].cart \in Carts \union {None}
  BY RequestTypes DEF Actors
<1>2. ASSUME req[r].cart = None
      PROVE  /\ Row(r) \in CartRows /\ Row(r).status = "active" /\ Row(r).into = None
             /\ Row(r).owner = IF req[r].actor \in Customers THEN req[r].actor ELSE Guest
             /\ \A v \in Variants : Row(r).lines[v] = NoLine
             /\ cart[c] = NoCart /\ CartsOf(req[r].actor) = {}
  <2>1. cart[c] = NoCart /\ CartsOf(req[r].actor) = {} /\ Row(r) = NewCart(req[r].actor)
    BY <1>2 DEF Writes, Row
  <2>2. NewCart(req[r].actor) \in CartRows
    <3>1. DefaultCurrency \in Currencies /\ "active" \in CartStatuses /\ {} \in SavedItems
      BY DEF Currencies, CartStatuses, SavedItems
    <3>2. [v \in Variants |-> NoLine] \in [Variants -> Lines \union {NoLine}]
      OBVIOUS
    <3> QED BY <1>1, <3>1, <3>2 DEF NewCart, CartRows
  <2> QED BY <2>1, <2>2 DEF NewCart
<1>3. CASE req[r].cart = None
  <2>1. NoLine.quantity = 0
    BY DEF NoLine
  <2>2. \A v \in Variants : Row(r).lines[v].quantity = 0 /\ Held(c, v) = 0
    BY <1>2, <1>3, <2>1 DEF Held
  <2>3. \A s \in Requests : c \notin Locks(s)
    <3> SUFFICES ASSUME NEW s \in Requests, c \in Locks(s) PROVE FALSE
      OBVIOUS
    <3>1. ~Active(c)
      BY <1>2, <1>3 DEF Active, NoCart
    <3>2. req[s].pc \in {"adding", "editing", "merging"} /\ (c = req[s].cart \/ c = req[s].guest)
      BY DEF Locks
    <3>3. c # None
      BY OwnersAssumption
    <3>4. c \in CartsOf(req[s].actor) \/ c \in CartsOf(req[s].guest)
      BY <3>2, <3>3, RequestTypes DEF RequestOK, Locks
    <3> QED BY <3>1, <3>4 DEF CartsOf
  <2> QED BY <1>1, <1>2, <1>3, <2>2, <2>3, OwnersAssumption DEF LinesListed, HasLine, Actors
<1>4. CASE req[r].cart # None
  <2>1. c = req[r].cart /\ Row(r) = cart[c]
    BY <1>4 DEF Writes, Row
  <2>2. c \in CartsOf(req[r].actor)
    BY <1>4, <2>1 DEF RequestOK
  <2>3. /\ cart[c] # NoCart /\ cart[c] \in CartRows
        /\ cart[c].status = "active" /\ cart[c].into = None
        /\ req[r].actor \in Customers => cart[c].owner = req[r].actor
        /\ req[r].actor \in Carts => cart[c].owner = Guest
    BY <1>1, <2>2, OpenCarts
  <2>4. LinesListed(cart[c]) /\ \A v \in Variants : cart[c].lines[v].quantity = Held(c, v)
    BY <2>3 DEF CartOK, Held
  <2>5. c \in Locks(r)
    BY <2>1 DEF Locks
  <2> QED BY <1>1, <2>1, <2>2, <2>3, <2>4, <2>5 DEF LocksApart
<1> QED BY <1>3, <1>4

-----------------------------------------------------------------------------
(***************************************************************************)
(* What a step leaves alone.                                               *)
(***************************************************************************)

\* The step leaves open who may work on cart c.
SameOwner(c) ==
  /\ cart'[c].status = cart[c].status
  /\ cart'[c].owner = cart[c].owner
  /\ cart'[c].into = cart[c].into

\* Requests go on or end, and carts that are locked after the step stay whose
\* they were: the locks stay apart and on open carts.
LEMMA RequestsStay ==
  ASSUME StoreInv,
         \A r \in Requests : req'[r] = req[r] \/ req'[r] = Idle,
         \A c \in Carts, r \in Requests : c \in Locks(r)' => SameOwner(c)
  PROVE  (\A r \in Requests : RequestOK(r)') /\ LocksApart'
<1> USE DEF StoreInv
<1>1. ASSUME NEW r \in Requests, req'[r] # req[r]
      PROVE  req'[r].pc = "idle"
  BY <1>1 DEF Idle
<1>2. \A r \in Requests, c \in Carts : c \in Locks(r)' => c \in Locks(r)
  BY <1>1 DEF Locks
<1>3. LocksApart'
  BY <1>2 DEF LocksApart
<1>4. ASSUME NEW r \in Requests PROVE RequestOK(r)'
  <2>1. CASE req'[r] # req[r]
    BY <1>1, <2>1 DEF RequestOK
  <2>2. CASE req'[r] = req[r]
    <3>1. ASSUME NEW c \in Carts, c \in Locks(r)', NEW a, c \in CartsOf(a)
          PROVE  c \in CartsOf(a)'
      <4>1. SameOwner(c)
        BY <3>1
      <4> QED BY <3>1, <4>1 DEF SameOwner, CartsOf, Active
    <3>2. PICK c, a, g : c = req[r].cart /\ a = req[r].actor /\ g = req[r].guest
      OBVIOUS
    <3>3. req[r].pc \in {"adding", "editing", "merging"} /\ c # None => c \in CartsOf(a)'
      <4> SUFFICES ASSUME req[r].pc \in {"adding", "editing", "merging"}, c # None
                   PROVE  c \in CartsOf(a)'
        OBVIOUS
      <4>1. c \in CartsOf(a) /\ c \in Carts
        BY <3>2 DEF RequestOK, CartsOf
      <4>2. c \in Locks(r)'
        BY <2>2, <3>2 DEF Locks
      <4> QED BY <3>1, <4>1, <4>2
    <3>4. req[r].pc = "merging" => g \in CartsOf(g)'
      <4> SUFFICES ASSUME req[r].pc = "merging" PROVE g \in CartsOf(g)'
        OBVIOUS
      <4>1. g \in CartsOf(g) /\ g \in Carts
        BY <3>2 DEF RequestOK, CartsOf
      <4>2. g \in Locks(r)'
        BY <2>2, <3>2 DEF Locks
      <4> QED BY <3>1, <4>1, <4>2
    <3> QED BY <2>2, <3>2, <3>3, <3>4 DEF RequestOK, CartsOf, Active
  <2> QED BY <2>1, <2>2
<1> QED BY <1>3, <1>4

\* The carts are those there were, but for their expiry, and prices are not
\* taken back: what is said of the carts stays true.
LEMMA CartsStay ==
  ASSUME StoreInv, StoreTypes',
         \A c \in Carts : /\ SameOwner(c) /\ cart'[c].lines = cart[c].lines
                          /\ cart'[c] = NoCart <=> cart[c] = NoCart
                          /\ seen'[c] # 0 => cart[c] # NoCart,
         \A v \in Variants : published[v] \subseteq published'[v],
         UNCHANGED units
  PROVE  (\A c \in Carts : CartOK(c)') /\ OneOpenCart' /\ UnitsAddUp'
<1> USE DEF StoreInv
<1>1. ASSUME NEW c \in Carts PROVE CartOK(c)'
  <2>1. CASE cart[c] = NoCart
    BY <2>1 DEF CartOK, Active, NoCart
  <2>2. CASE cart[c] # NoCart
    <3>1. LinesListed(cart[c])'
      BY <2>2 DEF CartOK, LinesListed, HasLine
    <3> QED BY <2>2, <3>1 DEF CartOK, Active, SameOwner
  <2> QED BY <2>1, <2>2
<1>2. OneOpenCart'
  <2>1. \A u \in Customers : CartsOf(u)' \subseteq CartsOf(u)
    BY DEF CartsOf, Active, SameOwner
  <2> QED BY <2>1 DEF OneOpenCart
<1>3. UnitsAddUp'
  <2>1. \A c \in Carts, v \in Variants : Held(c, v)' = Held(c, v)
    BY DEF Held, SameOwner
  <2>2. ASSUME NEW v \in Variants PROVE UnitsIn(v)' = UnitsIn(v)
    <3>1. \A c \in Carts : [x \in Carts |-> Held(x, v)'][c] = [x \in Carts |-> Held(x, v)][c]
      BY <2>1
    <3>2. Total(Carts, [x \in Carts |-> Held(x, v)']) = Total(Carts, [x \in Carts |-> Held(x, v)])
      BY <2>1
    <3> QED BY <3>2 DEF UnitsIn
  <2> QED BY <2>2 DEF UnitsAddUp
<1> QED BY <1>1, <1>2, <1>3

\* A request that begins, or locks carts that were free and its actor's, keeps
\* the invariant.
LEMMA RequestBegins ==
  ASSUME StoreInv, NEW r \in Requests, NEW new \in RequestRows,
         req' = [req EXCEPT ![r] = new],
         UNCHANGED <<catalogVars, cart, record, seen, changes, units>>,
         RequestOK(r)',
         \A c \in Carts : c \in Locks(r)' => ~Locked(c)
  PROVE  StoreInv'
<1> USE DEF StoreInv
<1>1. req'[r] = new /\ \A s \in Requests : s # r => req'[s] = req[s]
  BY DEF StoreTypes
<1>2. StoreTypes'
  BY DEF StoreTypes, CatalogTypeOK, catalogVars
<1>3. \A v \in Variants : Listed(v)'
  BY DEF Listed, Exists, catalogVars
<1>4. (\A c \in Carts : CartOK(c)') /\ OneOpenCart' /\ UnitsAddUp'
  BY <1>2, CartsStay DEF catalogVars, SameOwner, CartOK
<1>5. \A s \in Requests : s # r => RequestOK(s)'
  BY <1>1 DEF RequestOK, CartsOf, Active
<1>6. \A s \in Requests : s # r => Locks(s)' = Locks(s)
  BY <1>1 DEF Locks
<1>7. LocksApart'
  BY <1>6 DEF LocksApart, Locked
<1> QED BY <1>2, <1>3, <1>4, <1>5, <1>7

-----------------------------------------------------------------------------
(***************************************************************************)
(* What a commit writes.                                                   *)
(***************************************************************************)

\* If one cart holds more or less of a variant, so do all carts together.
LEMMA OneCartChanges ==
  ASSUME StoreTypes, StoreTypes', NEW v \in Variants, NEW c \in Carts,
         \A d \in Carts : d # c => Held(d, v)' = Held(d, v)
  PROVE  UnitsIn(v)' = UnitsIn(v) - Held(c, v) + Held(c, v)'
<1>1. PICK f : f = [d \in Carts |-> Held(d, v)]
  OBVIOUS
<1>2. PICK h : h = [d \in Carts |-> Held(d, v)']
  OBVIOUS
<1>3. (\A d \in Carts : Held(d, v) \in Nat) /\ (\A d \in Carts : Held(d, v)' \in Nat)
  <2>1. \A d \in Carts : Held(d, v) \in Nat
    BY HeldType
  <2>2. \A d \in Carts : Held(d, v)' \in Nat
    BY HeldTypeNext
  <2> QED BY <2>1, <2>2
<1>4. \A d \in Carts : f[d] \in Nat /\ h[d] \in Nat
  BY <1>1, <1>2, <1>3
<1>5. \A d \in Carts : d # c => h[d] = f[d]
  BY <1>1, <1>2
<1>6. Total(Carts, h) = Total(Carts, f) - f[c] + h[c]
  BY <1>4, <1>5, CartsAssumption, TotalChange
<1>7. f[c] = Held(c, v) /\ h[c] = Held(c, v)'
  BY <1>1, <1>2
<1> QED BY <1>1, <1>2, <1>6, <1>7 DEF UnitsIn

\* A cart, new or locked by the request that ends, gets a row: the invariant
\* holds if what is said of a row is true of that one.
LEMMA CartWritten ==
  ASSUME StoreInv, StoreTypes', NEW c \in Carts, NEW row \in CartRows,
         cart' = [cart EXCEPT ![c] = row],
         UNCHANGED <<catalogVars, seen>>,
         \A r \in Requests : req'[r] = req[r] \/ req'[r] = Idle,
         \A r \in Requests : c \notin Locks(r)',
         row.into = None, LinesListed(row),
         \A u \in Customers : row.status = "active" /\ row.owner = u =>
           c \in CartsOf(u) \/ CartsOf(u) = {},
         \A v \in Variants : units'[v] = units[v] - Held(c, v) + row.lines[v].quantity
  PROVE  StoreInv'
<1> USE DEF StoreInv
<1>1. cart'[c] = row /\ \A d \in Carts : d # c => cart'[d] = cart[d]
  BY DEF StoreTypes
<1>2. row # NoCart
  BY DEF NoCart, CartRows, CartStatuses
<1>3. \A v \in Variants : Listed(v)'
  BY DEF Listed, Exists, catalogVars
<1>4. \A d \in Carts : CartOK(d)'
  <2>1. LinesListed(row)'
    BY DEF LinesListed, HasLine, catalogVars
  <2>2. CartOK(c)'
    BY <1>1, <1>2, <2>1 DEF CartOK
  <2>3. ASSUME NEW d \in Carts, d # c PROVE CartOK(d)'
    BY <1>1, <2>3 DEF CartOK, LinesListed, HasLine, Active, catalogVars
  <2> QED BY <2>2, <2>3
<1>5. (\A r \in Requests : RequestOK(r)') /\ LocksApart'
  BY <1>1, RequestsStay DEF SameOwner
<1>6. OneOpenCart'
  <2>1. \A u \in Customers : c # u
    BY OwnersAssumption
  <2>2. ASSUME NEW u \in Customers, NEW d \in CartsOf(u)'
        PROVE  d \in CartsOf(u) \/ (d = c /\ CartsOf(u) = {})
    BY <1>1, <2>1, <2>2 DEF CartsOf, Active
  <2> QED BY <2>2 DEF OneOpenCart
<1>7. UnitsAddUp'
  <2>1. ASSUME NEW v \in Variants PROVE UnitsIn(v)' = units'[v]
    <3>1. \A d \in Carts : d # c => Held(d, v)' = Held(d, v)
      BY <1>1 DEF Held
    <3>2. Held(c, v)' = row.lines[v].quantity
      BY <1>1, <1>2 DEF Held
    <3>3. UnitsIn(v)' = UnitsIn(v) - Held(c, v) + Held(c, v)'
      BY <3>1, OneCartChanges
    <3>4. UnitsIn(v) = units[v]
      BY DEF UnitsAddUp
    <3> QED BY <3>2, <3>3, <3>4
  <2> QED BY <2>1 DEF UnitsAddUp
<1> QED BY <1>3, <1>4, <1>5, <1>6, <1>7

\* A request commits a row made of the one it found, with its lines listed and
\* counted: the invariant holds.
LEMMA CommitKeeps ==
  ASSUME StoreInv, NEW r \in Requests, NEW c \in Carts,
         req[r].pc \in {"adding", "editing"}, Writes(r, c),
         NEW row \in CartRows, Commit(r, c, row),
         row.owner = Row(r).owner, row.into = None, LinesListed(row),
         units' \in [Variants -> Int],
         \A v \in Variants :
           units'[v] = units[v] - Row(r).lines[v].quantity + row.lines[v].quantity
  PROVE  StoreInv'
<1>1. PICK next : next = [row EXCEPT !.version = @ + 1]
  OBVIOUS
<1>2. /\ next \in CartRows /\ next.owner = row.owner /\ next.into = row.into
      /\ next.lines = row.lines /\ next.status = row.status
  <2>1. row.version + 1 \in Nat \ {0}
    BY DEF CartRows
  <2> QED BY <1>1, <2>1 DEF CartRows
<1>3. /\ cart' = [cart EXCEPT ![c] = next]
      /\ changes' = changes + 1
      /\ req' = [req EXCEPT ![r] = Idle]
      /\ UNCHANGED <<catalogVars, seen>>
  BY <1>1 DEF Commit, Finish
<1>4. StoreTypes /\ req'[r] = Idle /\ \A s \in Requests : s # r => req'[s] = req[s]
  BY <1>3 DEF StoreInv, StoreTypes
<1>5. StoreTypes'
  BY <1>2, <1>3, <1>4 DEF StoreTypes, CatalogTypeOK, catalogVars
<1>6. \A s \in Requests : c \notin Locks(s)'
  <2>1. c \notin Locks(r)'
    BY <1>4 DEF Locks, Idle
  <2>2. \A s \in Requests : s # r => Locks(s)' = Locks(s)
    BY <1>4 DEF Locks
  <2> QED BY <2>1, <2>2, FoundRow
<1>7. \A u \in Customers : next.owner = u => c \in CartsOf(u) \/ CartsOf(u) = {}
  <2>1. /\ next.owner = Row(r).owner
        /\ req[r].actor \in Customers \/ Row(r).owner = Guest
        /\ req[r].actor \in Customers => Row(r).owner = req[r].actor
        /\ c \in CartsOf(req[r].actor) \/ CartsOf(req[r].actor) = {}
    BY <1>2, FoundRow DEF Actors
  <2> QED BY <2>1, OwnersAssumption
<1>8. LinesListed(next)
  BY <1>2 DEF LinesListed, HasLine
<1>9. \A v \in Variants : units'[v] = units[v] - Held(c, v) + next.lines[v].quantity
  BY <1>2, FoundRow
<1> QED BY <1>2, <1>3, <1>4, <1>5, <1>6, <1>7, <1>8, <1>9, CartWritten

\* A new cart, empty and the only one of its customer.
LEMMA NewCartKeeps ==
  ASSUME StoreInv, NEW a \in Actors, NEW c \in Carts, cart[c] = NoCart,
         a \in Customers => CartsOf(a) = {},
         cart' = [cart EXCEPT ![c] = NewCart(a)],
         changes' = changes + 1,
         UNCHANGED <<catalogVars, record, req, seen, units>>
  PROVE  StoreInv'
<1>1. PICK row : row = NewCart(a)
  OBVIOUS
<1>2. /\ row \in CartRows /\ row.into = None /\ LinesListed(row)
      /\ row.owner = IF a \in Customers THEN a ELSE Guest
      /\ \A v \in Variants : row.lines[v].quantity = 0
  <2>1. DefaultCurrency \in Currencies /\ "active" \in CartStatuses /\ {} \in SavedItems
    BY DEF Currencies, CartStatuses, SavedItems
  <2>2. [v \in Variants |-> NoLine] \in [Variants -> Lines \union {NoLine}]
    OBVIOUS
  <2>3. row \in CartRows
    BY <1>1, <2>1, <2>2 DEF NewCart, CartRows
  <2> QED BY <1>1, <2>3 DEF NewCart, LinesListed, HasLine, NoLine
<1>3. StoreTypes'
  BY <1>1, <1>2 DEF StoreInv, StoreTypes, CatalogTypeOK, catalogVars
<1>4. \A r \in Requests : c \notin Locks(r)'
  <2> SUFFICES ASSUME NEW r \in Requests, c \in Locks(r) PROVE FALSE
    BY DEF Locks
  <2>1. ~Active(c) /\ c # None
    BY OwnersAssumption DEF Active, NoCart
  <2>2. req[r].pc \in {"adding", "editing", "merging"} /\ (c = req[r].cart \/ c = req[r].guest)
    BY DEF Locks
  <2>3. c \in CartsOf(req[r].actor) \/ c \in CartsOf(req[r].guest)
    BY <2>1, <2>2 DEF RequestOK, Locks, StoreInv
  <2> QED BY <2>1, <2>3 DEF CartsOf
<1>5. \A u \in Customers : row.owner = u => CartsOf(u) = {}
  BY <1>2, OwnersAssumption
<1>6. \A v \in Variants : units'[v] = units[v] - Held(c, v) + row.lines[v].quantity
  BY <1>2 DEF Held, StoreInv, StoreTypes
<1> QED BY <1>1, <1>2, <1>3, <1>4, <1>5, <1>6, CartWritten

-----------------------------------------------------------------------------
(***************************************************************************)
(* The operations on lines and saved items.                                *)
(***************************************************************************)

\* A variant on sale makes a line, at a price that is listed.
LEMMA PricedLine ==
  ASSUME StoreInv, NEW v \in Variants, OnSale(v), NEW q \in Quantities
  PROVE  /\ Line(v, q) \in Lines /\ Line(v, q) # NoLine
         /\ <<Line(v, q).version, Line(v, q).price>> \in published[v]
         /\ Line(v, q).quantity = q
         /\ CurrencyOf[variant[v].price] \in Currencies
<1>1. variant[v] \in VariantRows /\ Exists(variant[v])
  BY CatalogRow DEF OnSale, StoreInv, StoreTypes
<1>2. <<variant[v].version, variant[v].price>> \in published[v]
  BY <1>1 DEF StoreInv, Listed
<1>3. Line(v, q) \in Lines
  BY <1>1 DEF Line, Lines, VariantRows
<1>4. q # 0
  BY LimitsAssumption DEF Quantities
<1> QED BY <1>1, <1>2, <1>3, <1>4 DEF Line, NoLine, Currencies, VariantRows

\* One line of the cart a request works on is changed, removed or added, and the
\* units follow.
LEMMA OneLineChanges ==
  ASSUME StoreInv, NEW r \in Requests, NEW c \in Carts,
         req[r].pc \in {"adding", "editing"}, Writes(r, c),
         NEW new \in CartRows, NEW v \in Variants, NEW x,
         new.lines = [Row(r).lines EXCEPT ![v] = x],
         new.owner = Row(r).owner, new.into = Row(r).into,
         x # NoLine => <<x.version, x.price>> \in published[v],
         x.quantity \in Nat,
         Commit(r, c, new),
         units' = [units EXCEPT ![v] = @ - Row(r).lines[v].quantity + x.quantity]
  PROVE  StoreInv'
<1>1. /\ Row(r) \in CartRows /\ Row(r).into = None /\ LinesListed(Row(r))
  BY FoundRow
<1>2. Row(r).lines \in [Variants -> Lines \union {NoLine}]
  BY <1>1 DEF CartRows
<1>3. \A w \in Variants : new.lines[w] = IF w = v THEN x ELSE Row(r).lines[w]
  BY <1>2
<1>4. LinesListed(new)
  BY <1>1, <1>3 DEF LinesListed, HasLine
<1>5. \A w \in Variants : Row(r).lines[w].quantity \in Nat /\ units[w] \in Int
  BY <1>1, LineTypes DEF StoreInv, StoreTypes
<1>6. units' \in [Variants -> Int]
  BY <1>5 DEF StoreInv, StoreTypes
<1>7. \A w \in Variants :
        units'[w] = units[w] - Row(r).lines[w].quantity + new.lines[w].quantity
  BY <1>3, <1>5 DEF StoreInv, StoreTypes
<1> QED BY <1>1, <1>4, <1>6, <1>7, CommitKeeps

\* More of a variant goes into the cart, with or without a key.
LEMMA MoreKeeps ==
  ASSUME StoreInv, NEW r \in Requests, NEW c \in Carts,
         req[r].pc \in {"adding", "editing"}, Writes(r, c),
         NEW v \in Variants, NEW q \in Asked, Fits(Row(r), v, q),
         Commit(r, c, WithMore(Row(r), v, q)),
         units' = [units EXCEPT ![v] = @ + q]
  PROVE  StoreInv'
<1>1. PICK row \in CartRows : row = Row(r) /\ row.into = None
  BY FoundRow
<1>2. PICK k : k = row.lines[v].quantity
  OBVIOUS
<1>3. k \in Nat /\ q \in Nat \ {0} /\ k + q \in Quantities
  BY <1>1, <1>2, LineTypes, LimitsAssumption DEF Fits, Quantities
<1>4. PICK x \in Lines : /\ x = Line(v, k + q) /\ x.quantity = k + q
                         /\ <<x.version, x.price>> \in published[v]
                         /\ CurrencyOf[variant[v].price] \in Currencies
  BY <1>3, PricedLine DEF Fits
<1>5. PICK lines \in [Variants -> Lines \union {NoLine}] : lines = [row.lines EXCEPT ![v] = x]
  <2>1. [row.lines EXCEPT ![v] = x] \in [Variants -> Lines \union {NoLine}]
    BY <1>4 DEF CartRows
  <2> QED BY <2>1
<1>6. PICK currency \in Currencies :
        currency = IF HasLine(row, v) THEN row.currency ELSE CurrencyOf[variant[v].price]
  BY <1>4 DEF CartRows
<1>7. PICK new : new = [row EXCEPT !.lines = lines, !.due = FALSE, !.currency = currency]
  OBVIOUS
<1>8. /\ new \in CartRows /\ new.lines = [row.lines EXCEPT ![v] = x]
      /\ new.owner = row.owner /\ new.into = row.into
  BY <1>5, <1>6, <1>7 DEF CartRows
<1>9. WithMore(row, v, q) = new
  BY <1>2, <1>4, <1>5, <1>6, <1>7 DEF WithMore, CartRows
<1>10. units' = [units EXCEPT ![v] = @ - row.lines[v].quantity + x.quantity]
  <2>1. units[v] + q = units[v] - k + (k + q)
    BY <1>3 DEF StoreInv, StoreTypes
  <2> QED BY <1>2, <1>4, <2>1
<1>11. x.quantity \in Nat
  BY <1>3, <1>4
<1> QED BY <1>1, <1>4, <1>8, <1>9, <1>10, <1>11, OneLineChanges

\* A line is taken out, whether or not its variant is saved.
LEMMA LineTaken ==
  ASSUME StoreInv, NEW r \in Requests, NEW c \in Carts, NEW v \in Variants,
         RemoveItem(r, c, v) \/ SaveForLater(r, c, v)
  PROVE  StoreInv'
<1>0. req[r].pc = "editing" /\ Writes(r, c) /\ Takes(Row(r), v)
  BY DEF RemoveItem, SaveForLater, Edits
<1>1. PICK row \in CartRows : row = Row(r) /\ row.into = None
  BY <1>0, FoundRow
<1>2. PICK lines \in [Variants -> Lines \union {NoLine}] : lines = [row.lines EXCEPT ![v] = NoLine]
  <2>1. [row.lines EXCEPT ![v] = NoLine] \in [Variants -> Lines \union {NoLine}]
    BY DEF CartRows
  <2> QED BY <2>1
<1>3. PICK saved \in SavedItems : Commit(r, c, [row EXCEPT !.lines = lines, !.saved = saved])
  <2>1. CASE RemoveItem(r, c, v)
    <3>1. /\ row.saved \in SavedItems
          /\ [row EXCEPT !.lines[v] = NoLine] = [row EXCEPT !.lines = lines, !.saved = row.saved]
      BY <1>2 DEF CartRows
    <3> QED BY <1>1, <2>1, <3>1 DEF RemoveItem
  <2>2. CASE SaveForLater(r, c, v)
    <3>1. row.saved \union {v} \in SavedItems
      BY DEF CartRows, SavedItems
    <3>2. [row EXCEPT !.lines[v] = NoLine, !.saved = @ \union {v}]
            = [row EXCEPT !.lines = lines, !.saved = row.saved \union {v}]
      BY <1>2 DEF CartRows
    <3> QED BY <1>1, <2>2, <3>1, <3>2 DEF SaveForLater
  <2> QED BY <2>1, <2>2
<1>4. PICK new : new = [row EXCEPT !.lines = lines, !.saved = saved]
  OBVIOUS
<1>5. /\ new \in CartRows /\ new.lines = [row.lines EXCEPT ![v] = NoLine]
      /\ new.owner = row.owner /\ new.into = row.into
  BY <1>2, <1>4 DEF CartRows
<1>6. NoLine.quantity = 0
  BY DEF NoLine
<1>7. units' = [units EXCEPT ![v] = @ - row.lines[v].quantity + NoLine.quantity]
  <2>1. row.lines[v].quantity \in Nat /\ units[v] \in Int
    BY LineTypes DEF StoreInv, StoreTypes
  <2>2. units[v] - row.lines[v].quantity = units[v] - row.lines[v].quantity + NoLine.quantity
    BY <1>6, <2>1
  <2> QED BY <1>0, <1>1, <2>2 DEF Takes
<1>8. Commit(r, c, new)
  BY <1>3, <1>4
<1>9. NoLine.quantity \in Nat
  BY <1>6
<1> QED BY <1>0, <1>1, <1>5, <1>7, <1>8, <1>9, OneLineChanges

\* Another quantity, at the price the line has.
LEMMA QuantityKeeps ==
  ASSUME StoreInv, NEW r \in Requests, NEW c \in Carts, NEW v \in Variants, NEW q \in Quantities,
         UpdateQuantity(r, c, v, q)
  PROVE  StoreInv'
<1>0. req[r].pc = "editing" /\ Writes(r, c) /\ HasLine(Row(r), v)
  BY DEF UpdateQuantity, Edits
<1>1. PICK row \in CartRows : row = Row(r) /\ row.into = None /\ LinesListed(row)
  BY <1>0, FoundRow
<1>2. PICK x \in Lines :
        /\ x = [row.lines[v] EXCEPT !.quantity = q]
        /\ x.quantity = q /\ x.version = row.lines[v].version /\ x.price = row.lines[v].price
  <2>1. row.lines[v] \in Lines
    BY <1>0, <1>1, LineTypes
  <2>2. [row.lines[v] EXCEPT !.quantity = q] \in Lines
    BY <2>1 DEF Lines
  <2> QED BY <2>1, <2>2 DEF Lines
<1>3. PICK lines \in [Variants -> Lines \union {NoLine}] : lines = [row.lines EXCEPT ![v] = x]
  <2>1. [row.lines EXCEPT ![v] = x] \in [Variants -> Lines \union {NoLine}]
    BY DEF CartRows
  <2> QED BY <2>1
<1>4. PICK new : new = [row EXCEPT !.lines = lines]
  OBVIOUS
<1>5. /\ new \in CartRows /\ new.lines = [row.lines EXCEPT ![v] = x]
      /\ new.owner = row.owner /\ new.into = row.into
  BY <1>3, <1>4 DEF CartRows
<1>6. [row EXCEPT !.lines[v].quantity = q] = new
  BY <1>2, <1>3, <1>4 DEF CartRows
<1>7. <<x.version, x.price>> \in published[v]
  BY <1>0, <1>1, <1>2 DEF LinesListed
<1>8. x.quantity \in Nat
  BY <1>2, LimitsAssumption DEF Quantities
<1>9. /\ Commit(r, c, new)
      /\ units' = [units EXCEPT ![v] = @ - row.lines[v].quantity + x.quantity]
  BY <1>1, <1>2, <1>6 DEF UpdateQuantity
<1> QED BY <1>0, <1>1, <1>5, <1>7, <1>8, <1>9, OneLineChanges

\* A saved variant comes back as one unit more, at today's price.
LEMMA MovedBack ==
  ASSUME StoreInv, NEW r \in Requests, NEW c \in Carts, NEW v \in Variants,
         MoveSavedToCart(r, c, v)
  PROVE  StoreInv'
<1>0. /\ req[r].pc = "editing" /\ Writes(r, c) /\ OnSale(v)
      /\ Row(r).lines[v].quantity < MaxQuantity
  BY DEF MoveSavedToCart, Edits
<1>1. PICK row \in CartRows : row = Row(r) /\ row.into = None
  BY <1>0, FoundRow
<1>2. PICK k \in Nat : k = row.lines[v].quantity
  BY LineTypes
<1>3. k + 1 \in Quantities
  BY <1>0, <1>1, <1>2, LimitsAssumption DEF Quantities
<1>4. PICK x \in Lines : /\ x = Line(v, k + 1) /\ x.quantity = k + 1
                         /\ <<x.version, x.price>> \in published[v]
  BY <1>0, <1>3, PricedLine
<1>5. PICK lines \in [Variants -> Lines \union {NoLine}] : lines = [row.lines EXCEPT ![v] = x]
  <2>1. [row.lines EXCEPT ![v] = x] \in [Variants -> Lines \union {NoLine}]
    BY DEF CartRows
  <2> QED BY <2>1
<1>6. PICK new : new = [row EXCEPT !.lines = lines, !.saved = row.saved \ {v}]
  OBVIOUS
<1>7. /\ new \in CartRows /\ new.lines = [row.lines EXCEPT ![v] = x]
      /\ new.owner = row.owner /\ new.into = row.into
  <2>1. row.saved \ {v} \in SavedItems
    BY DEF CartRows, SavedItems
  <2> QED BY <1>5, <1>6, <2>1 DEF CartRows
<1>8. Commit(r, c, new)
  <2>1. [row EXCEPT !.lines[v] = Line(v, k + 1), !.saved = @ \ {v}] = new
    BY <1>4, <1>5, <1>6 DEF CartRows
  <2> QED BY <1>1, <1>2, <2>1 DEF MoveSavedToCart
<1>9. units' = [units EXCEPT ![v] = @ - row.lines[v].quantity + x.quantity]
  <2>1. units[v] + 1 = units[v] - k + (k + 1)
    BY DEF StoreInv, StoreTypes
  <2> QED BY <1>2, <1>4, <2>1 DEF MoveSavedToCart
<1>10. x.quantity \in Nat
  BY <1>4
<1> QED BY <1>0, <1>1, <1>4, <1>7, <1>8, <1>9, <1>10, OneLineChanges

\* A saved variant is deleted: no line changes.
LEMMA SavedDeleted ==
  ASSUME StoreInv, NEW r \in Requests, NEW c \in Carts, NEW v \in Variants,
         DeleteSaved(r, c, v)
  PROVE  StoreInv'
<1>0. req[r].pc = "editing" /\ Writes(r, c)
  BY DEF DeleteSaved, Edits
<1>1. PICK row \in CartRows : row = Row(r) /\ row.into = None /\ LinesListed(row)
  BY <1>0, FoundRow
<1>2. PICK new : new = [row EXCEPT !.saved = row.saved \ {v}]
  OBVIOUS
<1>3. /\ new \in CartRows /\ new.lines = row.lines
      /\ new.owner = row.owner /\ new.into = row.into
  <2>1. row.saved \ {v} \in SavedItems
    BY DEF CartRows, SavedItems
  <2> QED BY <1>2, <2>1 DEF CartRows
<1>4. Commit(r, c, new) /\ UNCHANGED units
  BY <1>1, <1>2 DEF DeleteSaved
<1>5. LinesListed(new)
  BY <1>1, <1>3 DEF LinesListed, HasLine
<1>6. /\ units' \in [Variants -> Int]
      /\ \A w \in Variants : units'[w] = units[w] - row.lines[w].quantity + new.lines[w].quantity
  BY <1>3, <1>4, LineTypes DEF StoreInv, StoreTypes
<1> QED BY <1>0, <1>1, <1>3, <1>4, <1>5, <1>6, CommitKeeps

\* Every line is as it was, or as its variant is today: readiness keeps it true.
LEMMA ReadinessKeeps ==
  ASSUME StoreInv, NEW r \in Requests, NEW c \in Carts, Readiness(r, c)
  PROVE  StoreInv'
<1>0. req[r].pc = "editing" /\ Writes(r, c) /\ \A v \in LinesOf(Row(r)) : OnSale(v)
  BY DEF Readiness, Edits
<1>1. PICK row \in CartRows : row = Row(r) /\ row.into = None /\ LinesListed(row)
  BY <1>0, FoundRow
<1>2. PICK lines : lines = [v \in Variants |-> IF v \in Outdated(row)
                              THEN Line(v, row.lines[v].quantity) ELSE row.lines[v]]
  OBVIOUS
<1>3. ASSUME NEW v \in Variants
      PROVE  /\ lines[v] \in Lines \union {NoLine}
             /\ lines[v].quantity = row.lines[v].quantity
             /\ lines[v] # NoLine => <<lines[v].version, lines[v].price>> \in published[v]
  <2>1. CASE v \in Outdated(row)
    <3>1. /\ HasLine(row, v) /\ OnSale(v) /\ row.lines[v].quantity \in Quantities
          /\ lines[v] = Line(v, row.lines[v].quantity)
      BY <1>0, <1>1, <1>2, <2>1, LineTypes DEF Outdated, LinesOf
    <3> QED BY <3>1, PricedLine
  <2>2. CASE v \notin Outdated(row)
    <3>1. lines[v] = row.lines[v]
      BY <1>2, <2>2
    <3> QED BY <1>1, <3>1, LineTypes DEF LinesListed, HasLine
  <2> QED BY <2>1, <2>2
<1>4. PICK new : new = [row EXCEPT !.lines = lines]
  OBVIOUS
<1>5. new \in CartRows /\ new.lines = lines /\ new.owner = row.owner /\ new.into = row.into
  <2>1. lines \in [Variants -> Lines \union {NoLine}]
    BY <1>2, <1>3
  <2> QED BY <1>4, <2>1 DEF CartRows
<1>6. Commit(r, c, new) /\ UNCHANGED units
  BY <1>1, <1>2, <1>4 DEF Readiness
<1>7. LinesListed(new)
  BY <1>3, <1>5 DEF LinesListed, HasLine
<1>8. /\ units' \in [Variants -> Int]
      /\ \A w \in Variants : units'[w] = units[w] - row.lines[w].quantity + new.lines[w].quantity
  <2>1. \A w \in Variants : /\ row.lines[w].quantity \in Nat /\ units[w] \in Int
                            /\ new.lines[w].quantity = row.lines[w].quantity
    BY <1>3, <1>5, LineTypes DEF StoreInv, StoreTypes
  <2> QED BY <1>6, <2>1 DEF StoreInv, StoreTypes
<1> QED BY <1>0, <1>1, <1>5, <1>6, <1>7, <1>8, CommitKeeps

\* All lines are taken out.
LEMMA ClearKeeps ==
  ASSUME StoreInv, NEW r \in Requests, NEW c \in Carts, Clear(r, c)
  PROVE  StoreInv'
<1>0. req[r].pc = "editing" /\ Writes(r, c)
  BY DEF Clear, Edits
<1>1. PICK row \in CartRows : row = Row(r) /\ row.into = None
  BY <1>0, FoundRow
<1>2. PICK lines \in [Variants -> Lines \union {NoLine}] : lines = [v \in Variants |-> NoLine]
  OBVIOUS
<1>3. PICK new : new = [row EXCEPT !.lines = lines]
  OBVIOUS
<1>4. new \in CartRows /\ new.lines = lines /\ new.owner = row.owner /\ new.into = row.into
  BY <1>3 DEF CartRows
<1>5. /\ Commit(r, c, new)
      /\ units' = [v \in Variants |-> units[v] - row.lines[v].quantity]
  BY <1>1, <1>2, <1>3 DEF Clear
<1>6. LinesListed(new)
  BY <1>2, <1>4 DEF LinesListed, HasLine
<1>7. \A w \in Variants : row.lines[w].quantity \in Nat /\ units[w] \in Int
  BY LineTypes DEF StoreInv, StoreTypes
<1>8. \A w \in Variants : new.lines[w].quantity = 0
  BY <1>2, <1>4 DEF NoLine
<1>9. /\ units' \in [Variants -> Int]
      /\ \A w \in Variants : units'[w] = units[w] - row.lines[w].quantity + new.lines[w].quantity
  BY <1>5, <1>7, <1>8
<1> QED BY <1>0, <1>1, <1>4, <1>5, <1>6, <1>9, CommitKeeps

\* The cart of an order is closed with what is in it.
LEMMA CheckedOut ==
  ASSUME StoreInv, NEW r \in Requests, NEW c \in Carts, MarkCheckedOut(r, c)
  PROVE  StoreInv'
<1>0. req[r].pc = "editing" /\ Writes(r, c) /\ c = req[r].cart
  BY DEF MarkCheckedOut, Edits
<1>1. PICK row \in CartRows : row = Row(r) /\ row.into = None /\ LinesListed(row)
  BY <1>0, FoundRow
<1>2. row = cart[c]
  BY <1>0, <1>1, OwnersAssumption DEF Row
<1>3. PICK new : new = [row EXCEPT !.status = "checked_out"]
  OBVIOUS
<1>4. /\ new \in CartRows /\ new.lines = row.lines
      /\ new.owner = row.owner /\ new.into = row.into
  BY <1>3 DEF CartRows, CartStatuses
<1>5. Commit(r, c, new) /\ UNCHANGED units
  BY <1>2, <1>3 DEF MarkCheckedOut
<1>6. LinesListed(new)
  BY <1>1, <1>4 DEF LinesListed, HasLine
<1>7. /\ units' \in [Variants -> Int]
      /\ \A w \in Variants : units'[w] = units[w] - row.lines[w].quantity + new.lines[w].quantity
  BY <1>4, <1>5, LineTypes DEF StoreInv, StoreTypes
<1> QED BY <1>0, <1>1, <1>4, <1>5, <1>6, <1>7, CommitKeeps

-----------------------------------------------------------------------------
(***************************************************************************)
(* Locks, merge and the sweep.                                             *)
(***************************************************************************)

\* A request that asks, or locks what it found, keeps the invariant.
LEMMA LockKeeps ==
  ASSUME StoreInv, NEW r \in Requests,
         \/ \E a \in Actors, key \in Keys, v \in Variants, q \in Asked : AskToAdd(r, a, key, v, q)
         \/ \E c \in Carts \union {None} : LockToAdd(r, c)
         \/ \E a \in Actors, c \in Carts \union {None} : LockToEdit(r, a, c)
         \/ \E u \in Customers, g \in Carts, c \in Carts \union {None} : LockToMerge(r, u, g, c)
  PROVE  StoreInv'
<1>0. StoreTypes /\ req \in [Requests -> RequestRows \union {Idle}]
  BY DEF StoreInv, StoreTypes
<1>1. ASSUME NEW new \in RequestRows, req' = [req EXCEPT ![r] = new],
             UNCHANGED <<catalogVars, cart, record, seen, changes, units>>,
             new.pc \in {"adding", "editing", "merging"} => Finds(new.actor, new.cart),
             new.pc = "merging" => new.guest \in CartsOf(new.guest) /\ ~Locked(new.guest)
      PROVE  StoreInv'
  <2>1. req'[r] = new
    BY <1>0, <1>1
  <2>2. RequestOK(r)'
    BY <1>1, <2>1 DEF RequestOK, Finds, CartsOf, Active
  <2>3. \A c \in Carts : c \in Locks(r)' => ~Locked(c)
    BY <1>1, <2>1, OwnersAssumption DEF Locks, Finds
  <2> QED BY <1>1, <2>2, <2>3, RequestBegins
<1>2. ASSUME NEW a \in Actors, NEW key \in Keys, NEW v \in Variants, NEW q \in Asked,
             AskToAdd(r, a, key, v, q)
      PROVE  StoreInv'
  <2>1. PICK n \in Nat \ {0} :
          req' = [req EXCEPT ![r] = [pc |-> "asked", actor |-> a, cart |-> None, key |-> key,
                                     item |-> v, quantity |-> q, version |-> n]]
    <3>1. PICK c \in CartsOf(a) \union {None} :
            req' = [req EXCEPT ![r] =
              [pc |-> "asked", actor |-> a, cart |-> None, key |-> key,
               item |-> v, quantity |-> q, version |-> VersionFound(c)]]
      BY <1>2 DEF AskToAdd
    <3>2. VersionFound(c) \in Nat \ {0}
      BY <1>0, OpenCarts DEF VersionFound, StoreInv, CartRows
    <3> QED BY <3>1, <3>2
  <2>2. PICK new \in RequestRows :
          /\ new = [pc |-> "asked", actor |-> a, cart |-> None, key |-> key,
                    item |-> v, quantity |-> q, version |-> n]
          /\ new.pc = "asked"
    <3>1. [pc |-> "asked", actor |-> a, cart |-> None, key |-> key,
           item |-> v, quantity |-> q, version |-> n] \in RequestRows
      BY DEF RequestRows
    <3> QED BY <3>1
  <2> QED BY <1>1, <1>2, <2>1, <2>2 DEF AskToAdd
<1>3. ASSUME NEW c \in Carts \union {None}, LockToAdd(r, c)
      PROVE  StoreInv'
  <2>1. PICK old : old = req[r] /\ old.pc = "asked" /\ Finds(old.actor, c)
    BY <1>3 DEF LockToAdd
  <2>2. PICK new \in RequestRows :
          /\ new = [old EXCEPT !.pc = "adding", !.cart = c]
          /\ new.pc = "adding" /\ new.actor = old.actor /\ new.cart = c
    <3>1. old \in [pc : {"asked", "adding"}, actor : Actors, cart : Carts \union {None},
                   key : Keys, item : Variants, quantity : Asked, version : Nat \ {0}]
      BY <1>0, <2>1, RequestTypes
    <3>2. [old EXCEPT !.pc = "adding", !.cart = c]
            \in [pc : {"asked", "adding"}, actor : Actors, cart : Carts \union {None},
                 key : Keys, item : Variants, quantity : Asked, version : Nat \ {0}]
      BY <3>1
    <3>3. [old EXCEPT !.pc = "adding", !.cart = c] \in RequestRows
      BY <3>2 DEF RequestRows
    <3> QED BY <3>1, <3>3
  <2>3. req' = [req EXCEPT ![r] = new]
    BY <1>0, <1>3, <2>1, <2>2 DEF LockToAdd
  <2> QED BY <1>1, <1>3, <2>1, <2>2, <2>3 DEF LockToAdd
<1>4. ASSUME NEW a \in Actors, NEW c \in Carts \union {None}, LockToEdit(r, a, c)
      PROVE  StoreInv'
  <2>1. PICK new \in RequestRows :
          /\ new = [pc |-> "editing", actor |-> a, cart |-> c]
          /\ new.pc = "editing" /\ new.actor = a /\ new.cart = c
    <3>1. [pc |-> "editing", actor |-> a, cart |-> c] \in RequestRows
      BY DEF RequestRows
    <3> QED BY <3>1
  <2> QED BY <1>1, <1>4, <2>1 DEF LockToEdit
<1>5. ASSUME NEW u \in Customers, NEW g \in Carts, NEW c \in Carts \union {None},
             LockToMerge(r, u, g, c)
      PROVE  StoreInv'
  <2>1. PICK new \in RequestRows :
          /\ new = [pc |-> "merging", actor |-> u, cart |-> c, guest |-> g]
          /\ new.pc = "merging" /\ new.actor = u /\ new.cart = c /\ new.guest = g
    <3>1. [pc |-> "merging", actor |-> u, cart |-> c, guest |-> g] \in RequestRows
      BY DEF RequestRows
    <3> QED BY <3>1
  <2> QED BY <1>1, <1>5, <2>1 DEF LockToMerge
<1> QED BY <1>2, <1>3, <1>4, <1>5

\* If two carts hold more or less of a variant, so do all carts together.
LEMMA TwoCartsChange ==
  ASSUME StoreTypes, StoreTypes', NEW v \in Variants, NEW c \in Carts, NEW g \in Carts, g # c,
         \A d \in Carts : d \notin {c, g} => Held(d, v)' = Held(d, v)
  PROVE  UnitsIn(v)' = UnitsIn(v) - Held(c, v) - Held(g, v) + Held(c, v)' + Held(g, v)'
<1>1. PICK f : f = [d \in Carts |-> Held(d, v)]
  OBVIOUS
<1>2. PICK h : h = [d \in Carts |-> Held(d, v)']
  OBVIOUS
<1>3. \A d \in Carts : f[d] \in Nat /\ h[d] \in Nat
  BY <1>1, <1>2, HeldType, HeldTypeNext
<1>4. PICK m : m = [d \in Carts |-> IF d = c THEN h[d] ELSE f[d]]
  OBVIOUS
<1>5. \A d \in Carts : m[d] \in Nat /\ (d # c => m[d] = f[d]) /\ (d # g => h[d] = m[d])
  BY <1>1, <1>2, <1>3, <1>4
<1>6. Total(Carts, m) = Total(Carts, f) - f[c] + m[c]
  BY <1>3, <1>5, CartsAssumption, TotalChange
<1>7. Total(Carts, h) = Total(Carts, m) - m[g] + h[g]
  BY <1>3, <1>5, CartsAssumption, TotalChange
<1>8. m[c] = h[c] /\ m[g] = f[g]
  BY <1>4
<1>9. Total(Carts, f) \in Nat
  BY <1>3, CartsAssumption, TotalType
<1>10. Total(Carts, h) = Total(Carts, f) - f[c] - f[g] + h[c] + h[g]
  BY <1>3, <1>6, <1>7, <1>8, <1>9
<1>11. /\ f[c] = Held(c, v) /\ h[c] = Held(c, v)'
       /\ f[g] = Held(g, v) /\ h[g] = Held(g, v)'
  BY <1>1, <1>2
<1> QED BY <1>1, <1>2, <1>10, <1>11 DEF UnitsIn

\* A line of two carts: the quantities add up, and its price is one of theirs.
LEMMA MergedLineTypes ==
  ASSUME NEW mine \in Lines \union {NoLine}, NEW theirs \in Lines \union {NoLine},
         mine # NoLine => mine.quantity + theirs.quantity <= MaxQuantity
  PROVE  /\ MergedLine(mine, theirs) \in Lines \union {NoLine}
         /\ MergedLine(mine, theirs).quantity = mine.quantity + theirs.quantity
         /\ MergedLine(mine, theirs) # NoLine =>
              \E x \in {mine, theirs} :
                /\ x # NoLine
                /\ MergedLine(mine, theirs).version = x.version
                /\ MergedLine(mine, theirs).price = x.price
<1> USE LimitsAssumption
<1>1. NoLine.quantity = 0
  BY DEF NoLine
<1>2. \A x \in Lines : x.quantity \in 1 .. MaxQuantity /\ x.quantity \in Nat
  BY DEF Lines, Quantities
<1>3. CASE mine = NoLine
  BY <1>1, <1>2, <1>3 DEF MergedLine
<1>4. CASE mine # NoLine /\ theirs = NoLine
  BY <1>1, <1>2, <1>4 DEF MergedLine
<1>5. CASE mine # NoLine /\ theirs # NoLine
  <2>1. PICK q \in Quantities : q = mine.quantity + theirs.quantity
    BY <1>2, <1>5 DEF Quantities
  <2>2. MergedLine(mine, theirs) = [mine EXCEPT !.quantity = q]
    BY <1>5, <2>1 DEF MergedLine
  <2>3. /\ [mine EXCEPT !.quantity = q] \in Lines
        /\ [mine EXCEPT !.quantity = q].quantity = q
        /\ [mine EXCEPT !.quantity = q].version = mine.version
        /\ [mine EXCEPT !.quantity = q].price = mine.price
    BY <1>5 DEF Lines
  <2> QED BY <1>5, <2>1, <2>2, <2>3
<1> QED BY <1>3, <1>4, <1>5

\* A merge moves every unit of the guest's cart to the customer's, at prices
\* that were listed, and closes the guest's.
LEMMA MergeKeeps ==
  ASSUME StoreInv, NEW r \in Requests, NEW c \in Carts, MergeGuest(r, c)
  PROVE  StoreInv'
<1> USE DEF StoreInv
<1>1. PICK g \in Carts :
        /\ g = req[r].guest /\ req[r].pc = "merging" /\ Writes(r, c)
        /\ req[r].actor \in Customers
  BY RequestTypes DEF MergeGuest
<1>2. PICK row \in CartRows :
        /\ row = Row(r) /\ row.status = "active" /\ row.into = None /\ LinesListed(row)
        /\ row.owner = req[r].actor
        /\ \A v \in Variants : row.lines[v].quantity = Held(c, v)
  BY <1>1, FoundRow
<1>3. g \in CartsOf(g)
  BY <1>1 DEF RequestOK
<1>4. PICK old \in CartRows :
        /\ old = cart[g] /\ old # NoCart /\ old.owner = Guest /\ old.into = None
        /\ LinesListed(old) /\ \A v \in Variants : old.lines[v].quantity = Held(g, v)
  <2>1. /\ cart[g] # NoCart /\ cart[g] \in CartRows /\ cart[g].owner = Guest
        /\ cart[g].into = None
    BY <1>3, OpenCarts DEF Actors
  <2> QED BY <2>1 DEF CartOK, Held
<1>5. c # g
  BY <1>1, <1>2, <1>4, FoundRow, OwnersAssumption
<1>6. PICK lines : lines = [v \in Variants |-> MergedLine(row.lines[v], old.lines[v])]
  OBVIOUS
<1>7. ASSUME NEW v \in Variants
      PROVE  /\ lines[v] \in Lines \union {NoLine}
             /\ lines[v].quantity = row.lines[v].quantity + old.lines[v].quantity
             /\ lines[v] # NoLine => <<lines[v].version, lines[v].price>> \in published[v]
  <2>1. row.lines[v] \in Lines \union {NoLine} /\ old.lines[v] \in Lines \union {NoLine}
    BY LineTypes
  <2>2. row.lines[v] # NoLine =>
          row.lines[v].quantity + old.lines[v].quantity <= MaxQuantity
    BY <1>1, <1>2, <1>4 DEF MergeGuest, LinesOf, HasLine
  <2>3. lines[v] = MergedLine(row.lines[v], old.lines[v])
    BY <1>6
  <2>4. \A x \in {row.lines[v], old.lines[v]} :
          x # NoLine => <<x.version, x.price>> \in published[v]
    BY <1>2, <1>4 DEF LinesListed, HasLine
  <2> QED BY <2>1, <2>2, <2>3, <2>4, MergedLineTypes
<1>8. PICK new : new = [row EXCEPT !.lines = lines, !.saved = row.saved \union old.saved,
                                   !.version = row.version + 1, !.due = FALSE]
  OBVIOUS
<1>9. /\ new \in CartRows /\ new.lines = lines /\ new.owner = row.owner
      /\ new.into = None /\ new.status = "active"
  <2>1. lines \in [Variants -> Lines \union {NoLine}]
    BY <1>6, <1>7
  <2>2. row.saved \union old.saved \in SavedItems /\ row.version + 1 \in Nat \ {0}
    BY DEF CartRows, SavedItems
  <2> QED BY <1>2, <1>8, <2>1, <2>2 DEF CartRows
<1>10. PICK gone : gone = [old EXCEPT !.status = "merged", !.into = c, !.version = old.version + 1]
  OBVIOUS
<1>11. /\ gone \in CartRows /\ gone.lines = old.lines /\ gone.into = c
       /\ gone.status = "merged" /\ gone # NoCart
  <2>1. old.version + 1 \in Nat \ {0}
    BY DEF CartRows
  <2>2. gone \in CartRows /\ gone.lines = old.lines /\ gone.into = c /\ gone.status = "merged"
    BY <1>10, <2>1 DEF CartRows, CartStatuses
  <2> QED BY <2>2 DEF NoCart
<1>12. /\ cart'[c] = new /\ cart'[g] = gone /\ cart' \in [Carts -> CartRows \union {NoCart}]
       /\ \A d \in Carts : d \notin {c, g} => cart'[d] = cart[d]
  <2>1. cart' = [cart EXCEPT ![c] = new, ![g] = gone]
    <3>1. cart' = [cart EXCEPT
            ![c] = [row EXCEPT !.lines = lines, !.saved = @ \union old.saved,
                               !.version = @ + 1, !.due = FALSE],
            ![g] = [old EXCEPT !.status = "merged", !.into = c, !.version = @ + 1]]
      BY <1>1, <1>2, <1>4, <1>6 DEF MergeGuest
    <3>2. [row EXCEPT !.lines = lines, !.saved = @ \union old.saved,
                      !.version = @ + 1, !.due = FALSE] = new
      BY <1>8 DEF CartRows
    <3>3. [old EXCEPT !.status = "merged", !.into = c, !.version = @ + 1] = gone
      BY <1>10 DEF CartRows
    <3> QED BY <3>1, <3>2, <3>3
  <2> QED BY <1>5, <1>9, <1>11, <2>1 DEF StoreTypes
<1>13. /\ req' = [req EXCEPT ![r] = Idle] /\ changes' = changes + 1
       /\ UNCHANGED <<catalogVars, record, seen, units>>
  BY DEF MergeGuest, Finish
<1>14. req'[r] = Idle /\ \A s \in Requests : s # r => req'[s] = req[s]
  BY <1>13 DEF StoreTypes
<1>15. StoreTypes'
  BY <1>12, <1>13 DEF StoreTypes, CatalogTypeOK, catalogVars
<1>16. \A v \in Variants : Listed(v)'
  BY <1>13 DEF Listed, Exists, catalogVars
<1>17. \A d \in Carts : CartOK(d)'
  <2>1. LinesListed(new)' /\ LinesListed(gone)'
    BY <1>4, <1>7, <1>9, <1>11, <1>13 DEF LinesListed, HasLine, catalogVars
  <2>2. CartOK(c)'
    <3>1. new # NoCart
      BY <1>9 DEF NoCart
    <3> QED BY <1>9, <1>12, <2>1, <3>1 DEF CartOK
  <2>3. CartOK(g)'
    BY <1>11, <1>12, <2>1 DEF CartOK, Active
  <2>4. ASSUME NEW d \in Carts, d \notin {c, g} PROVE CartOK(d)'
    BY <1>12, <1>13, <2>4 DEF CartOK, LinesListed, HasLine, Active, catalogVars
  <2> QED BY <2>2, <2>3, <2>4
<1>18. (\A s \in Requests : RequestOK(s)') /\ LocksApart'
  <2>1. ASSUME NEW s \in Requests PROVE c \notin Locks(s)' /\ g \notin Locks(s)'
    <3>1. CASE s = r
      BY <1>14, <3>1 DEF Locks, Idle
    <3>2. CASE s # r
      <4>1. g \in Locks(r)
        BY <1>1 DEF Locks
      <4>2. c \notin Locks(s) /\ g \notin Locks(s)
        BY <1>1, <3>2, <4>1, FoundRow DEF LocksApart
      <4> QED BY <1>14, <3>2, <4>2 DEF Locks
    <3> QED BY <3>1, <3>2
  <2>2. \A d \in Carts, s \in Requests : d \in Locks(s)' => SameOwner(d)
    BY <1>12, <2>1 DEF SameOwner
  <2>3. \A s \in Requests : req'[s] = req[s] \/ req'[s] = Idle
    BY <1>14
  <2> QED BY <2>2, <2>3, RequestsStay
<1>19. OneOpenCart'
  <2>1. ASSUME NEW u \in Customers, NEW d \in CartsOf(u)'
        PROVE  d \in CartsOf(u) \/ (d = c /\ CartsOf(u) = {})
    <3>1. d \in Carts /\ cart'[d].status = "active" /\ d # u
      BY <2>1, OwnersAssumption DEF CartsOf, Active
    <3>2. CASE d = c
      <4>1. u = req[r].actor
        BY <1>2, <1>9, <1>12, <2>1, <3>1, <3>2 DEF CartsOf
      <4> QED BY <1>1, <3>2, <4>1, FoundRow
    <3>3. CASE d = g
      BY <1>11, <1>12, <3>1, <3>3
    <3>4. CASE d \notin {c, g}
      BY <1>12, <2>1, <3>1, <3>4 DEF CartsOf, Active
    <3> QED BY <3>2, <3>3, <3>4
  <2> QED BY <2>1 DEF OneOpenCart
<1>20. UnitsAddUp'
  <2>1. ASSUME NEW v \in Variants PROVE UnitsIn(v)' = units'[v]
    <3>1. \A d \in Carts : d \notin {c, g} => Held(d, v)' = Held(d, v)
      BY <1>12 DEF Held
    <3>2. UnitsIn(v)' = UnitsIn(v) - Held(c, v) - Held(g, v) + Held(c, v)' + Held(g, v)'
      BY <1>5, <1>15, <3>1, TwoCartsChange
    <3>3. Held(c, v)' = Held(c, v) + Held(g, v)
      <4>1. new # NoCart
        BY <1>9 DEF NoCart
      <4>2. lines[v].quantity = Held(c, v) + Held(g, v)
        BY <1>2, <1>4, <1>7
      <4> QED BY <1>9, <1>12, <4>1, <4>2 DEF Held
    <3>4. Held(g, v)' = 0
      BY <1>11, <1>12, OwnersAssumption DEF Held
    <3>5. UnitsIn(v) = units[v] /\ units'[v] = units[v] /\ units[v] \in Int
      BY <1>13 DEF UnitsAddUp, StoreTypes
    <3>6. Held(c, v) \in Nat /\ Held(g, v) \in Nat
      BY HeldType
    <3> QED BY <3>2, <3>3, <3>4, <3>5, <3>6
  <2> QED BY <2>1 DEF UnitsAddUp
<1> QED BY <1>15, <1>16, <1>17, <1>18, <1>19, <1>20

\* Time and the sweep take nothing out of a cart, and expire none that is locked.
LEMMA SweepKeeps ==
  ASSUME StoreInv,
         (\E c \in Carts : TimePasses(c)) \/ ReadDue \/ ExpireDue \/ SweepStops
  PROVE  StoreInv'
<1> USE DEF StoreInv
<1>1. UNCHANGED <<catalogVars, record, req, units>>
  BY DEF TimePasses, ReadDue, ExpireDue, SweepStops
<1>2. changes' \in Nat
  <2>1. UNCHANGED changes \/ changes' = changes + 1
    BY DEF TimePasses, ReadDue, ExpireDue, SweepStops
  <2> QED BY <2>1 DEF StoreTypes
<1>3. ASSUME NEW c \in Carts, cart[c] \in CartRows, NEW n \in Nat \ {0}
      PROVE  /\ [cart[c] EXCEPT !.due = TRUE] \in CartRows
             /\ [cart[c] EXCEPT !.due = TRUE] # NoCart
             /\ [cart[c] EXCEPT !.status = "expired", !.version = n] \in CartRows
             /\ [cart[c] EXCEPT !.status = "expired", !.version = n] # NoCart
  <2>1. /\ [cart[c] EXCEPT !.due = TRUE] \in CartRows
        /\ [cart[c] EXCEPT !.status = "expired", !.version = n] \in CartRows
    BY <1>3 DEF CartRows, CartStatuses
  <2>2. NoCart \notin CartRows
    BY DEF NoCart, CartRows, CartStatuses
  <2> QED BY <2>1, <2>2
<1>4. ASSUME NEW c \in Carts, TimePasses(c)
      PROVE  /\ cart' \in [Carts -> CartRows \union {NoCart}]
             /\ \A d \in Carts : /\ SameOwner(d) /\ cart'[d].lines = cart[d].lines
                                 /\ cart'[d] = NoCart <=> cart[d] = NoCart
             /\ UNCHANGED seen
  <2>1. cart[c] \in CartRows /\ cart[c] # NoCart
    BY <1>4, CartRow DEF TimePasses
  <2>2. PICK new \in CartRows : new = [cart[c] EXCEPT !.due = TRUE] /\ new # NoCart
    <3>1. 1 \in Nat \ {0}
      OBVIOUS
    <3> QED BY <1>3, <2>1, <3>1
  <2>3. cart' = [cart EXCEPT ![c] = new]
    BY <1>4, <2>2 DEF TimePasses
  <2>4. /\ new.status = cart[c].status /\ new.owner = cart[c].owner /\ new.into = cart[c].into
        /\ new.lines = cart[c].lines
    BY <2>1, <2>2 DEF CartRows
  <2> QED BY <1>4, <2>1, <2>2, <2>3, <2>4 DEF TimePasses, SameOwner, StoreTypes
<1>5. CASE ~ExpireDue
  <2>1. /\ StoreTypes'
        /\ \A c \in Carts : /\ SameOwner(c) /\ cart'[c].lines = cart[c].lines
                            /\ cart'[c] = NoCart <=> cart[c] = NoCart
                            /\ seen'[c] # 0 => cart[c] # NoCart
    <3>1. CASE \E c \in Carts : TimePasses(c)
      BY <1>1, <1>2, <1>4, <3>1 DEF StoreTypes, CatalogTypeOK, catalogVars, CartOK
    <3>2. CASE ReadDue \/ SweepStops
      <4>1. UNCHANGED cart /\ seen' \in [Carts -> Nat]
        BY <3>2, CartRow DEF ReadDue, SweepStops, CartRows, StoreTypes
      <4>2. \A c \in Carts : seen'[c] # 0 => cart[c] # NoCart
        BY <3>2 DEF ReadDue, SweepStops
      <4> QED BY <1>1, <1>2, <4>1, <4>2 DEF StoreTypes, CatalogTypeOK, catalogVars, SameOwner
    <3> QED BY <1>5, <3>1, <3>2
  <2>2. (\A c \in Carts : CartOK(c)') /\ OneOpenCart' /\ UnitsAddUp'
    BY <1>1, <2>1, CartsStay DEF catalogVars
  <2>3. (\A r \in Requests : RequestOK(r)') /\ LocksApart'
    BY <1>1, <2>1, RequestsStay
  <2> QED BY <1>1, <2>1, <2>2, <2>3 DEF Listed, Exists, catalogVars
<1>6. CASE ExpireDue
  <2>1. ASSUME NEW c \in Carts
        PROVE  /\ cart'[c] \in CartRows \union {NoCart}
               /\ cart'[c].owner = cart[c].owner /\ cart'[c].into = cart[c].into
               /\ cart'[c].lines = cart[c].lines
               /\ cart'[c] = NoCart <=> cart[c] = NoCart
               /\ cart'[c].status # cart[c].status => cart'[c].status = "expired" /\ ~Locked(c)
               /\ seen'[c] = 0
    <3>1. cart'[c] = (IF seen[c] = 0 THEN cart[c]
                      ELSE [cart[c] EXCEPT !.status = "expired", !.version = seen[c] + 1])
      BY <1>6 DEF ExpireDue
    <3>2. seen'[c] = 0 /\ seen[c] \in Nat /\ (seen[c] # 0 => ~Locked(c))
      BY <1>6 DEF ExpireDue, StoreTypes
    <3>3. CASE seen[c] = 0
      BY <3>1, <3>2, <3>3 DEF StoreTypes
    <3>4. CASE seen[c] # 0
      <4>1. cart[c] \in CartRows /\ cart[c] # NoCart
        BY <3>4, CartRow DEF CartOK
      <4>2. /\ cart'[c] = [cart[c] EXCEPT !.status = "expired", !.version = seen[c] + 1]
            /\ seen[c] + 1 \in Nat \ {0}
        BY <3>1, <3>2, <3>4
      <4>3. cart'[c] \in CartRows /\ cart'[c] # NoCart
        BY <1>3, <4>1, <4>2
      <4>4. /\ cart'[c].owner = cart[c].owner /\ cart'[c].into = cart[c].into
            /\ cart'[c].lines = cart[c].lines /\ cart'[c].status = "expired"
        BY <4>1, <4>2 DEF CartRows
      <4> QED BY <3>2, <3>4, <4>1, <4>3, <4>4
    <3> QED BY <3>3, <3>4
  <2>2. StoreTypes'
    <3>1. cart' \in [Carts -> CartRows \union {NoCart}]
      BY <1>6, <2>1 DEF ExpireDue
    <3>2. seen' \in [Carts -> Nat]
      BY <1>6 DEF ExpireDue
    <3> QED BY <1>1, <1>2, <3>1, <3>2 DEF StoreTypes, CatalogTypeOK, catalogVars
  <2>3. \A c \in Carts : CartOK(c)'
    <3> SUFFICES ASSUME NEW c \in Carts PROVE CartOK(c)'
      OBVIOUS
    <3>1. CASE cart[c] = NoCart
      BY <2>1, <3>1 DEF CartOK, Active, NoCart
    <3>2. CASE cart[c] # NoCart
      <4>1. LinesListed(cart[c])'
        BY <1>1, <2>1, <3>2 DEF CartOK, LinesListed, HasLine, catalogVars
      <4>2. Active(c)' => Active(c)
        BY <2>1 DEF Active
      <4> QED BY <2>1, <3>2, <4>1, <4>2 DEF CartOK
    <3> QED BY <3>1, <3>2
  <2>4. (\A r \in Requests : RequestOK(r)') /\ LocksApart'
    <3>1. \A c \in Carts, r \in Requests : c \in Locks(r)' => SameOwner(c)
      BY <1>1, <2>1 DEF Locks, Locked, SameOwner
    <3> QED BY <1>1, <3>1, RequestsStay
  <2>5. OneOpenCart'
    <3>1. \A u \in Customers : CartsOf(u)' \subseteq CartsOf(u)
      BY <2>1 DEF CartsOf, Active
    <3> QED BY <3>1 DEF OneOpenCart
  <2>6. UnitsAddUp'
    <3>1. \A c \in Carts, v \in Variants : Held(c, v)' = Held(c, v)
      BY <2>1 DEF Held
    <3>2. ASSUME NEW v \in Variants PROVE UnitsIn(v)' = UnitsIn(v)
      <4>1. [c \in Carts |-> Held(c, v)'] = [c \in Carts |-> Held(c, v)]
        BY <3>1
      <4> QED BY <4>1 DEF UnitsIn
    <3> QED BY <1>1, <3>2 DEF UnitsAddUp
  <2> QED BY <1>1, <2>2, <2>3, <2>4, <2>5, <2>6 DEF Listed, Exists, catalogVars
<1> QED BY <1>5, <1>6

-----------------------------------------------------------------------------
(***************************************************************************)
(* The theorems.                                                           *)
(***************************************************************************)

\* The catalog changes under the carts, which keep their lines.
LEMMA CatalogStep ==
  ASSUME StoreInv, CatalogNext, UNCHANGED cartVars
  PROVE  StoreInv'
<1> USE DEF StoreInv
<1>1. UNCHANGED <<cart, record, req, seen, changes, units>>
  BY DEF cartVars
<1>2. /\ CatalogTypeOK'
      /\ \A v \in Variants : Listed(v)' /\ published[v] \subseteq published'[v]
  BY CatalogKeeps DEF StoreTypes
<1>3. StoreTypes'
  BY <1>1, <1>2 DEF StoreTypes
<1>4. \A c \in Carts : SameOwner(c) /\ (seen'[c] # 0 => cart[c] # NoCart)
  BY <1>1 DEF SameOwner, CartOK
<1>5. (\A c \in Carts : CartOK(c)') /\ OneOpenCart' /\ UnitsAddUp'
  BY <1>1, <1>2, <1>3, <1>4, CartsStay
<1>6. (\A r \in Requests : RequestOK(r)') /\ LocksApart'
  BY <1>1, <1>4, RequestsStay
<1> QED BY <1>2, <1>3, <1>5, <1>6

\* A request that is refused leaves the carts alone.
LEMMA RefuseKeeps ==
  ASSUME StoreInv, NEW r \in Requests, Refuse(r)
  PROVE  StoreInv'
<1> USE DEF StoreInv
<1>1. /\ UNCHANGED <<catalogVars, cart, record, seen, changes, units>>
      /\ req' = [req EXCEPT ![r] = Idle]
  BY DEF Refuse, Finish
<1>2. StoreTypes'
  BY <1>1 DEF StoreTypes, CatalogTypeOK, catalogVars
<1>3. \A c \in Carts : SameOwner(c) /\ (seen'[c] # 0 => cart[c] # NoCart)
  BY <1>1 DEF SameOwner, CartOK
<1>4. (\A c \in Carts : CartOK(c)') /\ OneOpenCart' /\ UnitsAddUp'
  BY <1>1, <1>2, <1>3, CartsStay DEF catalogVars
<1>5. \A s \in Requests : req'[s] = req[s] \/ req'[s] = Idle
  BY <1>1 DEF StoreTypes
<1>6. (\A s \in Requests : RequestOK(s)') /\ LocksApart'
  BY <1>3, <1>5, RequestsStay
<1> QED BY <1>1, <1>2, <1>4, <1>6 DEF Listed, Exists, catalogVars

\* An add, with a key or without, that is not a repetition.
LEMMA AddKeeps ==
  ASSUME StoreInv, NEW r \in Requests, NEW c \in Carts,
         \/ AddItemOnce(r, c)
         \/ \E v \in Variants, q \in Asked : AddItem(r, c, v, q)
  PROVE  StoreInv'
<1>1. CASE AddItemOnce(r, c)
  <2>1. PICK v \in Variants, q \in Asked : v = req[r].item /\ q = req[r].quantity
    BY <1>1, RequestTypes DEF AddItemOnce, StoreInv
  <2>2. /\ req[r].pc = "adding" /\ Writes(r, c) /\ Fits(Row(r), v, q)
        /\ Commit(r, c, WithMore(Row(r), v, q))
        /\ units' = [units EXCEPT ![v] = @ + q]
    BY <1>1, <2>1 DEF AddItemOnce, KeyFree
  <2> QED BY <2>2, MoreKeeps
<1>2. ASSUME NEW v \in Variants, NEW q \in Asked, AddItem(r, c, v, q) PROVE StoreInv'
  <2>1. /\ req[r].pc = "editing" /\ Writes(r, c) /\ Fits(Row(r), v, q)
        /\ Commit(r, c, WithMore(Row(r), v, q))
        /\ units' = [units EXCEPT ![v] = @ + q]
    BY <1>2 DEF AddItem, Edits
  <2> QED BY <2>1, MoreKeeps
<1> QED BY <1>1, <1>2

\* A request on one cart keeps the invariant.
LEMMA EditKeeps ==
  ASSUME StoreInv, NEW r \in Requests, Editing(r)
  PROVE  StoreInv'
<1>1. ASSUME NEW a \in Actors, NEW c \in Carts \union {None}, LockToEdit(r, a, c)
      PROVE  StoreInv'
  BY <1>1, LockKeeps
<1>2. ASSUME NEW c \in Carts, NEW v \in Variants,
             \/ \E q \in Asked : AddItem(r, c, v, q)
             \/ \E q \in Quantities : UpdateQuantity(r, c, v, q)
             \/ RemoveItem(r, c, v)
             \/ SaveForLater(r, c, v)
             \/ MoveSavedToCart(r, c, v)
             \/ DeleteSaved(r, c, v)
      PROVE  StoreInv'
  BY <1>2, AddKeeps, QuantityKeeps, LineTaken, MovedBack, SavedDeleted
<1>3. ASSUME NEW c \in Carts, Readiness(r, c) \/ Clear(r, c) PROVE StoreInv'
  BY <1>3, ReadinessKeeps, ClearKeeps
<1> QED BY <1>1, <1>2, <1>3 DEF Editing

\* Every step keeps the invariant.
LEMMA StoreNext == StoreInv /\ [Next]_vars => StoreInv'
<1> SUFFICES ASSUME StoreInv, [Next]_vars PROVE StoreInv'
  OBVIOUS
<1>1. CASE CatalogNext /\ UNCHANGED cartVars
  BY <1>1, CatalogStep
<1>2. ASSUME NEW c \in Carts, CreateGuestCart(c) PROVE StoreInv'
  <2>1. c \in Actors /\ c \notin Customers
    BY OwnersAssumption DEF Actors
  <2> QED BY <1>2, <2>1, NewCartKeeps DEF CreateGuestCart
<1>3. ASSUME NEW c \in Carts, NEW u \in Customers, ResolveCart(u, c) PROVE StoreInv'
  <2>1. u \in Actors
    BY DEF Actors
  <2> QED BY <1>3, <2>1, NewCartKeeps DEF ResolveCart
<1>4. CASE (\E c \in Carts : TimePasses(c)) \/ ReadDue \/ ExpireDue \/ SweepStops
  BY <1>4, SweepKeeps
<1>5. ASSUME NEW r \in Requests, Adding(r) PROVE StoreInv'
  BY <1>5, LockKeeps, AddKeeps DEF Adding
<1>6. ASSUME NEW r \in Requests, Editing(r) PROVE StoreInv'
  BY <1>6, EditKeeps
<1>7. ASSUME NEW r \in Requests, Ending(r) PROVE StoreInv'
  BY <1>7, LockKeeps, MergeKeeps, CheckedOut, RefuseKeeps DEF Ending
<1>8. CASE UNCHANGED vars
  <2>1. UNCHANGED <<catalogVars, cart, record, req, seen, changes, units>>
    BY <1>8 DEF vars, cartVars
  <2>2. StoreTypes' /\ \A v \in Variants : Listed(v)'
    BY <2>1 DEF StoreInv, StoreTypes, CatalogTypeOK, Listed, Exists, catalogVars
  <2>3. (\A c \in Carts : CartOK(c)') /\ OneOpenCart' /\ UnitsAddUp'
    BY <2>1, <2>2, CartsStay DEF catalogVars, SameOwner, CartOK, StoreInv
  <2>4. (\A r \in Requests : RequestOK(r)') /\ LocksApart'
    BY <2>1, RequestsStay DEF SameOwner
  <2> QED BY <2>2, <2>3, <2>4 DEF StoreInv
<1> QED BY <1>1, <1>2, <1>3, <1>4, <1>5, <1>6, <1>7, <1>8 DEF Next

\* No cart is there yet: nothing is in any.
LEMMA StoreInit == Init => StoreInv
<1> SUFFICES ASSUME Init PROVE StoreInv
  OBVIOUS
<1>1. /\ \A c \in Carts : cart[c] = NoCart /\ seen[c] = 0
      /\ \A r \in Requests : req[r].pc = "idle"
      /\ \A v \in Variants : ~Exists(variant[v]) /\ published[v] = {} /\ units[v] = 0
  BY DEF Init, CatalogInit, Idle, Exists, NoRow
<1>2. StoreTypes
  <2>1. CatalogTypeOK
    BY DEF Init, CatalogInit, CatalogTypeOK
  <2> QED BY <2>1 DEF Init, StoreTypes
<1>3. \A v \in Variants : Listed(v)
  BY <1>1 DEF Listed
<1>4. \A c \in Carts : CartOK(c) /\ ~Active(c)
  BY <1>1 DEF CartOK, Active, NoCart
<1>5. (\A r \in Requests : RequestOK(r)) /\ LocksApart
  BY <1>1 DEF RequestOK, LocksApart, Locks
<1>6. OneOpenCart
  BY <1>4 DEF OneOpenCart, CartsOf
<1>7. UnitsAddUp
  <2> SUFFICES ASSUME NEW v \in Variants PROVE UnitsIn(v) = units[v]
    BY DEF UnitsAddUp
  <2>1. \A c \in Carts : [d \in Carts |-> Held(d, v)][c] = 0
    BY <1>1 DEF Held
  <2>2. Total(Carts, [d \in Carts |-> Held(d, v)]) = 0
    BY <2>1, TotalZero
  <2> QED BY <1>1, <2>2 DEF UnitsIn
<1> QED BY <1>2, <1>3, <1>4, <1>5, <1>6, <1>7 DEF StoreInv

\* The storefront is correct: carts stay their owners', locks apart, units
\* counted and prices listed.
THEOREM StoreCorrect == Spec => []StoreInv
BY StoreInit, StoreNext, PTL DEF Spec

\* The types, and that a customer has one open cart: units are what carts hold,
\* so not negative, and what two requests would create is one.
THEOREM StorefrontTypes == Spec => []StorefrontTypeOK
<1>1. StoreInv => StorefrontTypeOK
  <2> SUFFICES ASSUME StoreInv PROVE StorefrontTypeOK
    OBVIOUS
  <2>1. ASSUME NEW v \in Variants PROVE units[v] \in Nat
    <3>1. \A c \in Carts : [d \in Carts |-> Held(d, v)][c] \in Nat
      BY HeldType DEF StoreInv
    <3>2. Total(Carts, [d \in Carts |-> Held(d, v)]) \in Nat
      BY <3>1, CartsAssumption, TotalType
    <3> QED BY <3>2 DEF StoreInv, UnitsAddUp, UnitsIn
  <2>2. ASSUME NEW u \in Customers PROVE Cardinality(CartsOf(u)) <= 1
    <3>1. CASE CartsOf(u) = {}
      BY <3>1, FS_EmptySet
    <3>2. CASE CartsOf(u) # {}
      <4>1. PICK c : CartsOf(u) = {c}
        BY <3>2 DEF StoreInv, OneOpenCart
      <4> QED BY <4>1, FS_Singleton
    <3> QED BY <3>1, <3>2
  <2>3. units \in [Variants -> Nat]
    BY <2>1 DEF StoreInv, StoreTypes
  <2> QED BY <2>2, <2>3 DEF StoreInv, StoreTypes, StorefrontTypeOK
<1> QED BY <1>1, StoreCorrect, PTL

\* The units in carts are those customers put there and did not take out: an
\* add that was repeated counts once, and a merge loses and doubles none.
THEOREM UnitsKept == Spec => []UnitsAddUp
<1>1. StoreInv => UnitsAddUp
  BY DEF StoreInv
<1> QED BY <1>1, StoreCorrect, PTL

\* Every line in a cart has the price its variant was listed at together with the
\* version it names, though updates that read the same row name it twice.
THEOREM PricesAsListed == Spec => []LinesPricedAsListed
<1>1. StoreInv => LinesPricedAsListed
  BY DEF StoreInv, LinesPricedAsListed, Listed, CartOK, LinesListed
<1> QED BY <1>1, StoreCorrect, PTL
=============================================================================
