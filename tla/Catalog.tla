------------------------------ MODULE Catalog ------------------------------
(***************************************************************************)
(* Product service: categories, products, their variants and images.       *)
(*                                                                         *)
(* Every row carries a version that clients name in If-Match.  Products    *)
(* are locked by update_product and change_status, categories and parents  *)
(* of a new row by nobody; update_variant locks its row, but goes on with  *)
(* the one it had loaded before.  So an operation is one step here, except *)
(* that an update of a category or of a variant may have checked a version *)
(* that others have replaced since.  Other services read what is on sale   *)
(* and the version and price of a variant.                                 *)
(*                                                                         *)
(* A product stands for its slug, a variant for its SKU, both unique.      *)
(* Names, descriptions and attributes are left out.                        *)
(***************************************************************************)
EXTENDS Naturals, FiniteSetsExt

CONSTANTS
  Categories,
  Products,
  Variants,
  SortOrders,   \* places of the images of a product
  CatalogKeys,  \* values of Idempotency-Key of create_product
  Prices,       \* amounts, each in a currency
  MaxRevisions, \* bound on the number of rows and of changes made to them
  None          \* no category, product or variant

ASSUME NoneAssumption == None \notin Categories \union Products \union Variants \union Prices
ASSUME RevisionsAssumption == MaxRevisions \in Nat

VARIABLES
  category,   \* categories: parent, is_active, version
  product,    \* products: status, category, version, sort orders of images
  variant,    \* product_variants: product, price_amount, is_active, version
  created,    \* idempotency_records: the product made under a key
  published   \* history: the versions and prices each variant was given

catalogVars == <<category, product, variant, created, published>>

ProductStatuses == {"draft", "active", "inactive", "archived"}

NoRow == [version |-> 0]

CategoryRows == [parent : Categories \union {None}, active : BOOLEAN, version : Nat \ {0}]
ProductRows  == [status : ProductStatuses, category : Categories, version : Nat \ {0},
                 images : SUBSET SortOrders]
VariantRows  == [product : Products, price : Prices, active : BOOLEAN, version : Nat \ {0}]

CatalogTypeOK ==
  /\ category  \in [Categories -> CategoryRows \union {NoRow}]
  /\ product   \in [Products -> ProductRows \union {NoRow}]
  /\ variant   \in [Variants -> VariantRows \union {NoRow}]
  /\ created   \in [CatalogKeys -> Products \union {None}]
  /\ published \in [Variants -> SUBSET ((Nat \ {0}) \X Prices)]

-----------------------------------------------------------------------------
Exists(row) == row.version > 0

ImagesOf(p) == IF Exists(product[p]) THEN product[p].images ELSE {}

\* Bound: how much of the catalog's life is looked at.
Revisions == MapThenSumSet(LAMBDA k : category[k].version, Categories)
             + MapThenSumSet(LAMBDA p : product[p].version + Cardinality(ImagesOf(p)), Products)
             + MapThenSumSet(LAMBDA v : variant[v].version, Variants)
InBounds == Revisions < MaxRevisions

\* The public read of a product, as seen by one of its variants: 404 unless the
\* product is active, and Cart takes no variant that is not.
OnSale(v) ==
  /\ Exists(variant[v]) /\ variant[v].active
  /\ product[variant[v].product].status = "active"

Transitions == [draft    |-> {"active", "archived"},
                active   |-> {"inactive", "archived"},
                inactive |-> {"active", "archived"},
                archived |-> {}]

VariantsOf(p) == {v \in Variants : Exists(variant[v]) /\ variant[v].product = p}

Publishable(p) == \E v \in VariantsOf(p) : variant[v].active

UsableCategory(k) == Exists(category[k]) /\ category[k].active

\* A parent is any category there is, but not the category itself: longer
\* cycles are not looked for.
UsableParent(k, parent) == parent # None => parent # k /\ Exists(category[parent])

Publish(v, version, price) ==
  published' = [published EXCEPT ![v] = @ \union {<<version, price>>}]

-----------------------------------------------------------------------------
CatalogInit ==
  /\ category  = [k \in Categories |-> NoRow]
  /\ product   = [p \in Products |-> NoRow]
  /\ variant   = [v \in Variants |-> NoRow]
  /\ created   = [key \in CatalogKeys |-> None]
  /\ published = [v \in Variants |-> {}]

CreateCategory(k, parent, active) ==
  /\ ~Exists(category[k])
  /\ UsableParent(k, parent)
  /\ category' = [category EXCEPT ![k] = [parent |-> parent, active |-> active, version |-> 1]]
  /\ UNCHANGED <<product, variant, created, published>>

\* Checked against version n, which the request read without a lock.  What it
\* leaves out keeps the value of the day.
UpdateCategory(k, n, parent, active) ==
  /\ n \in 1 .. category[k].version
  /\ UsableParent(k, parent)
  /\ category' = [category EXCEPT ![k] =
       [parent |-> parent, active |-> active, version |-> n + 1]]
  /\ UNCHANGED <<product, variant, created, published>>

\* A product is made with its images and its variants, as a draft, once for each
\* key: a key that was used answers with its product.  A request without a key is
\* like one whose key nobody uses again.
CreateProduct(p, k, key, images, price, active) ==
  LET vs == DOMAIN price IN
  /\ ~Exists(product[p])
  /\ created[key] = None
  /\ UsableCategory(k)
  /\ \A v \in vs : ~Exists(variant[v])
  /\ product' = [product EXCEPT ![p] =
       [status |-> "draft", category |-> k, version |-> 1, images |-> images]]
  /\ variant' = [v \in Variants |->
       IF v \in vs THEN [product |-> p, price |-> price[v], active |-> v \in active, version |-> 1]
                   ELSE variant[v]]
  /\ created' = [created EXCEPT ![key] = p]
  /\ published' = [v \in Variants |-> published[v] \union
                                      (IF v \in vs THEN {<<1, price[v]>>} ELSE {})]
  /\ UNCHANGED category

\* Another category, or something that is not modelled.
UpdateProduct(p, k) ==
  /\ Exists(product[p])
  /\ k = product[p].category \/ UsableCategory(k)
  /\ product' = [product EXCEPT ![p].category = k, ![p].version = @ + 1]
  /\ UNCHANGED <<category, variant, created, published>>

ChangeStatus(p, target) ==
  /\ Exists(product[p])
  /\ target \in Transitions[product[p].status]
  /\ target = "active" => Publishable(p)
  /\ product' = [product EXCEPT ![p].status = target, ![p].version = @ + 1]
  /\ UNCHANGED <<category, variant, created, published>>

AddVariant(p, v, price, active) ==
  /\ Exists(product[p]) /\ ~Exists(variant[v])
  /\ variant' = [variant EXCEPT ![v] =
       [product |-> p, price |-> price, active |-> active, version |-> 1]]
  /\ Publish(v, 1, price)
  /\ UNCHANGED <<category, product, created>>

\* The variant was loaded with its product, then locked, and is not loaded again:
\* it is checked and counted from what was read, which others may have changed
\* since, and a price it had then is not written.  The product is not locked: this
\* may be the last active variant of an active one.
UpdateVariant(v, read, price, active) ==
  LET new == IF price = read[2] THEN variant[v].price ELSE price IN
  /\ Exists(variant[v]) /\ read \in published[v]
  /\ variant' = [variant EXCEPT ![v].price = new, ![v].active = active,
                                ![v].version = read[1] + 1]
  /\ Publish(v, read[1] + 1, new)
  /\ UNCHANGED <<category, product, created>>

\* Images come and go without a new version of the product.
AddImage(p, o) ==
  /\ Exists(product[p]) /\ o \notin product[p].images
  /\ product' = [product EXCEPT ![p].images = @ \union {o}]
  /\ UNCHANGED <<category, variant, created, published>>

DeleteImage(p, o) ==
  /\ Exists(product[p]) /\ o \in product[p].images
  /\ product' = [product EXCEPT ![p].images = @ \ {o}]
  /\ UNCHANGED <<category, variant, created, published>>

CategoryNext ==
  \E k \in Categories, parent \in Categories \union {None}, active \in BOOLEAN :
    \/ CreateCategory(k, parent, active)
    \/ \E n \in 1 .. category[k].version : UpdateCategory(k, n, parent, active)

ProductNext ==
  \E p \in Products :
    \/ \E k \in Categories :
         \/ \E key \in CatalogKeys, images \in SUBSET SortOrders, vs \in SUBSET Variants :
              \E price \in [vs -> Prices], active \in SUBSET vs :
                CreateProduct(p, k, key, images, price, active)
         \/ UpdateProduct(p, k)
    \/ \E target \in ProductStatuses : ChangeStatus(p, target)
    \/ \E o \in SortOrders : AddImage(p, o)

VariantNext ==
  \E v \in Variants, price \in Prices, active \in BOOLEAN :
    \/ \E p \in Products : AddVariant(p, v, price, active)
    \/ \E read \in published[v] : UpdateVariant(v, read, price, active)

CatalogNext ==
  \/ InBounds /\ (CategoryNext \/ ProductNext \/ VariantNext)
  \/ \E p \in Products, o \in SortOrders : DeleteImage(p, o)

=============================================================================
