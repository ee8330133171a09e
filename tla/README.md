# Verification of the marketplace services

TLA+ models of the nine services that keep the marketplace's data: those that
take an order from the cart to the customer (product, cart, inventory, order with
its checkout, payment, shipping), the accounts (auth, user) and the e-mails
(notification). They are checked with TLC on small instances, and theorems about
them are checked with TLAPS.

Every service is a FastAPI application over its own PostgreSQL database (READ
COMMITTED, SQLAlchemy). Services call each other over HTTP with a timeout, most
of them while a row of the caller is locked or has been read. There is no
transaction over two services, and no worker drains the outbox tables. So a
request can be lost, be answered after its sender stopped waiting, be repeated,
and be its process's last one, and all of that between any two steps of the
other requests. That is what these models are about. `svc/` below stands for
`src/services/svc-service/app/`.

## Inventory of the system

| Component | State | Operations | Talks to | Hard parts | Correct when |
|---|---|---|---|---|---|
| inventory (8005) | items (on hand, reserved, version), reservations in groups, idempotency keys, warehouses, SKUs | create/update/adjust item, reserve (one, batch), commit/release (one, group), expire sweep | – (called by order, cart) | groups over many rows changed by sweep and single-row endpoints; counters; retries; stale corrections | stock conserved, never oversold, answers about a group stay true |
| order (8007) | order (status, payment status, version, group), idempotency keys | create (checkout), cancel, payment-authorized/-failed/-refunded, fulfillment | cart, product, inventory, notification | calls to Inventory between read and write; unlocked cancel; unique constraints decide races | stock and status agree, one verdict, one order per cart and key |
| payment (8008) | payment, refunds, webhook events, idempotency keys | create payment, refund, webhook | order, Stripe | redelivery, commit after the callee's commit, money moved before the record | agrees with Order, captured money booked, refunds ≤ payment |
| shipping (8009) | shipment (status), events, idempotency keys | create, ship, deliver, exception | order | Order moved first, then the row | never ahead of the order, at most a step behind |
| cart (8006) | cart (status, version, lines, saved), idempotency keys | lines, saved items, readiness, merge guest, clear, checked-out, expire | product, inventory | version checks, merge, expiry against checkout | limits kept, no line lost or doubled |
| notification (8002) | notification (status, retry count), attempts; tasks in Celery's broker | create (from a template, direct, fixed), send now, retry, cancel, the task | SMTP, Celery | two senders, redelivery, retries counted twice over, crash around the provider call | sent twice only if the provider's yes was lost; attempts explain the row; settled in the end |
| auth (8001) | users, verification and reset tokens, refresh sessions, access tokens | register, verify, resend, login, refresh, logout, revoke, forgot, reset, change password | notification | nothing is locked between reading and committing | no commit takes back what another did; only verified users hold anything |
| user (8003) | profiles, sellers, addresses, preferences, consents, privacy requests, idempotency keys | create and edit each, deactivate, reactivate, ask for access or deletion | auth (access tokens) | versions compared at the write, unique indexes decide races | versions name contents, one default address, keys name one address |
| product (8004) | categories, products, variants, images, idempotency keys | create, update, status changes | – | versions in If-Match, rows read before they are locked | whoever keeps a version of a variant has a price it was listed at with it |
| api-gateway (9000) | circuit breaker per service | forward | all | half-open trials, late answers | an open circuit stays open for its cooldown |
| assistant (8012) | none | chat loop over tools | product, inventory, order, cart | – | one write per turn |
| buyer-portal | none | pages, actions | gateway | – | – |

seller-portal is a planning document, audit-service and search-service are empty
directories (`src/README.md:23`), infrastructure and scripts are configuration
and one-off seeding.

## Modules

    Totals ── TotalProofs            sums over finite sets, and facts about them
      └ Inventory ── InventoryProofs  inventory-service, and its theorems
           │ implements
    ReservationGroups                what Inventory promises about a group
           │ INSTANCE
           ├ Orders ── OrdersProofs   the life of orders over those promises
           │    ├ Payments            payment-service and Stripe over Orders
           │    └ Shipments           shipping-service over Orders
           │         └ OrderCallersProofs   the theorems of both
           └ Checkout ── CheckoutProofs   the creation of orders from carts
    Catalog                          product-service
      └ Carts ── CartsProofs         cart-service over the catalog, and the theorems
    Auth                             auth-service
      └ Profiles ── AccountProofs    user-service over the users Auth lets in, and the
                                     theorems of both
    Notifications ── NotificationsProofs   notification-service, Celery and the provider
    MCInventory, MCOrders, MCPayments, MCShipments, MCCheckout, MCStorefront,
    MCAccounts, MCNotifications      instances for TLC

**Inventory** (`inventory/services/inventory_service.py`). One action per
operation, each a transaction (rows are locked with FOR UPDATE before they are
checked). `onHand`, `reserved`, `version` are the columns of an item, `row` the
reservations; idempotency keys, the seller's pending adjustments and what was
answered about groups are kept beside them. `ExpireReservations` takes *some*
overdue rows, up to the limit, because it skips locked ones.

**ReservationGroups** is the contract the other services rely on: a group is
reserved once as a whole, is committed or released as a whole, or *erodes* (loses
rows to the sweep or the single-reservation endpoints) and is neither from then
on; what was answered stays true. `Inventory!ImplementsGroups` shows that the
detailed service implements it under a refinement mapping that reads the phase
of a group off its rows, and `Orders`, `Payments`, `Shipments` and `Checkout` use
the contract in place of the service.

**Orders** (`order/service.py`). `call[h]` is a request in progress: what it asks
and where it stands (`asked`, waiting for Inventory, about to write, or its
answer). Payment and fulfillment callbacks lock the row (`Locked`), a
cancellation does not. Each of them asks Inventory to commit or release in the
middle (`StockAnswers`, `StockConflicts`, `StockFails`), and a request that was
given up may still reach Inventory later (`LateStock`). `Crash` stops a request
anywhere before its commit.

**Checkout** (`order/service.py:59-225`). An attempt is one POST /orders. Nothing is
locked between its steps, which are the actions `LookUp`, `Snapshot`, `Reserve`,
`Save`, `Undo`, `Close`; each can fail (`GiveUp`, `SaveFails`) or time out and be
carried out late (`Lose`, `LateReserve`, and `Undo`/`Close` from their late
counters). Carts have a status, a version and whether they are empty.
`CartExpires` may overwrite a cart that was checked out after the sweep read it.
The later life of an order is reduced to paid and ended, each in two steps: its group
is committed (`OrderCommits`) or released (`OrderReleases`) in a call to Inventory, and
the order is paid (`OrderPaid`) or ends (`OrderEnds`) in a commit that may never come.

**Payments** (`payment/services/payment_service.py`). The webhook keeps the payment row
locked (`hook[o]`) while it asks Order and commits after Order accepted. Its
request to Order is a request of module Orders, which goes on there when the
webhook gives up on it (`HookGivesUp`). A refund moves money at Stripe
(`StripeRefunds`), is then recorded (`RefundCommits`), then reported
(`RefundNotifies`), whatever comes back. Stripe is external: events may be
delivered in any order and until processed, several attempts to pay may be
declined before one succeeds, and an idempotency key is remembered.

**Shipments** (`shipping/services/shipment_service.py`). Each request asks Order first
(`AskOrder`), then books the shipment (`Book`), with the row locked from ship and
deliver on; `Abandon` gives up while Order goes on. An Idempotency-Key is looked
up before all this, and only chooses whether a repeat is answered with the
shipment or with a conflict.

**Catalog** (`product/services/catalog_service.py`). Each of the nine operations is
one step, but two of them may work on what they read before. Products are read
under lock by what changes their rows. Categories are locked by nobody, so `UpdateCategory` may have checked a
version that was replaced since; it can lose an update or close a cycle of parents.
`UpdateVariant` gets the variant with its product and locks it afterwards, which does
not load it again: the version it checks and counts from, and the price it takes for
unchanged, are `read`, any that the variant ever had. A product stands for its slug and a variant for
its SKU, both unique. `published` is a history of the versions and prices each
variant was given.

**Carts** (`cart/services/cart_service.py`, `cart_repository.py`). A request that
changes a cart is a step that takes the row lock (`LockToAdd`, `LockToEdit`,
`LockToMerge`) and a step that commits, the actions named after the operations.
Two readers take no lock: the lookup of an Idempotency-Key, before `LockToAdd`
(and what was looked up may be gone when the lock is taken), and the sweep
`ExpireDue`, which writes EXPIRED and a version counted from the one it read
over whatever the cart has become. A guest is named by its cart, whose token
opens no other. A cart that is due answers 410 until it is swept, and nothing in
the repository calls the sweep (`cart-service/README.md:77`): `ReadDue` may happen
or not. ABANDONED is never set and left out. `merge_guest` and
`move_saved_to_cart` check neither currencies nor the number of lines, which
`add_item` does (`cart_service.py:241`); the actions have the guards where the code
has them. `units` is a history of what customers put in and took out.

**Auth** (`auth/routes.py`, `session_routes.py`). No handler locks a row, and
hashing a password takes long: a request is an `AskTo...` step that reads and
checks and a step that commits. `call[r]` is what it read. SQLAlchemy writes the
columns whose value changed (`Flush`), while the UPDATEs of all tokens or sessions
of a user (`ReplaceTokens`, `SetPassword`) reach the rows that are there when they
run, which are at least those that were found (`Reaches`). Mail is sent after the
commit, is lost or arrives (`SendMail`), and a token can be used only by who got
it. Requests that are refused leave no trace and are left out; so are tokens for
services, which leave users alone. `token_login` is `login` for this purpose.
`SwitchUser` is external: handlers read `is_active` and none writes it.

**Profiles** (`user/services/user_service.py`, `user_repository.py`) extends Auth: who
holds an access token can be a member. `edit[r]` is what a request has read; the ORM
asks for the row's version again when it writes (`SameVersion`), so a stale
request fails and is an `AbandonEdit`. Earlier default addresses are cleared by an UPDATE,
whose row locks stay until the commit (`Locked`), and the partial unique index
has the last word (`OneDefault`). A key that was used answers with its address;
one whose record expired or whose address was deleted is refused by the unique
constraint, so the time to live of keys needs no state. No code closes a privacy
request: they stay open.

**Notifications** (`notification/email_service.py`, `tasks.py`, `routes.py`). A request commits
a row and then queues its task (`ApplyAsync`); the broker is a bag of tasks. A
sender, a worker or a send-now request, puts the row in PROCESSING and commits
(`TakeTask`, `SendNow`), calls the provider with no lock held (`ProviderAnswers`),
records the attempt (`RecordAttempt`; `RecordFails` when the database refuses it), and
ends its task or has Celery try it again (`TaskEnds`). Tasks are acknowledged late:
one whose worker stops comes back (`SenderStops`), one that outlives the broker's
visibility timeout is delivered twice (`DeliveredTwice`). Celery's own limit of
retries (its default of 3: the `retry_kwargs` of `tasks.py:41` are those of automatic
retries, which are off) and the row's (5 in `k8s/configmap.yaml:37`) are counted apart. A task that
runs out of time (`TimeLimit`) leaves its row as it is: the soft limit is raised out of
`asyncio.run`, and the cancelled coroutine passes the handlers of `send_notification`;
it counts as failed and is acknowledged, and the provider may accept the message all
the same. A template renders or does not. Left out: clocks that disagree, what e-mails
say, and reads.

## Runs

| Run | Instance | Shows |
|---|---|---|
| inventory_groups | two groups, three items of which two are one SKU in two warehouses | groups are answered as wholes, keys stand for one request, nothing resolved twice, and the service implements ReservationGroups |
| inventory_adjust | one item, its seller, single reservations | stock conserved, sold once, never oversold, adjustments applied once and to the stock that was seen; overdue rows are resolved (liveness) |
| checkout | three attempts, two keys, one cart of three versions | nobody loses stock, cart or order to another attempt; the stock of a living order is released only by its own end, begun and perhaps not finished |
| shipments | three requests of any kind at Order, two of them for sellers at Shipping | the order agrees with its stock, ended orders hold nothing, verdict not taken back, the status keeps to its course; order and shipment within a step, stages kept |
| payments | one order, two requests at Order, two declined attempts and a capture, one fault | both services agree, nothing paid without capture, capture booked (liveness) |
| refunds | three refunds of a payment of two units, keyed and not | booked refunds were made, never more than the payment, Order lags but never leads |
| storefront | a guest's and a customer's cart, two requests at a time, the sweep, one product of two prices | units add up over repeated adds, merges and the sweep; lines carry a price their variant was listed at with the version they name, though updates may be checked against a stale row; one open cart per customer |
| accounts | one user who sells, two requests at a time in each service, three sessions | no commit of Auth takes back what another did, versions of User name contents, and the rows of both agree |
| notifications | one e-mail, two senders, an operator, one fault | PROCESSING keeps senders apart, nothing is sent after the verdict, sent twice only if unheard, attempts explain the row; settled in the end, or one of the two kinds of e-mail the code leaves open (liveness) |
| cancel_race | finding 1 | violation |
| retry_after_shipping | finding 2 | violation |
| refund_order | finding 3 | violation |

**Bounds, and why they are enough.** The races are between two or three requests
for one row, order, cart or key; more of them repeat the same pairs. `MaxVersion`
(Orders) bounds how often an order's version grows; its life has four
transitions, and refunds are stopped at the bound. `MaxVersion` (Checkout) bounds
edits of a cart: three versions let a cart be edited before and after a
snapshot. Run checkout takes states as equal (`VIEW Remembered`) that differ only in
what a finished, unanswered request once asked for: no action, and no property,
reads that again (its type is proved). `MaxVersion` of inventory_adjust lets the
seller, a hold, its sale and the sweep each bump the version once. `MaxStock` and
`MaxQuantity` of two let a line split, a stock run short and a second hold not
fit; `SweepLimit` of two rows cuts a group of three. `MaxFaults` bounds lost
requests, answers and crashes in Payments and Notifications, so that liveness can
be asked for; Inventory has none, and Orders, Checkout, Shipments and the accounts no
bound on them. `MaxDeclines` bounds attempts to pay that fail: two make an event of
a payment that failed already. `Total` is the payment in units: two are enough for a
partial refund and its rest.

Inventory_adjust has one item, so a batch that fails over several warehouses is met
only by inventory_groups and by the proofs. Storefront (about 1,060,000 states):
`MaxRevisions` of five make a category, a product, its variant and two changes, enough
for two updates of the variant that read the same row; `MaxChanges` of four fill two
carts, merge or save, and sweep. Quantities of one against a `MaxQuantity` of two let
a repeated add or a merge run into the limit. There is one variant and one currency,
so the limit on the number of lines and the check of currencies never refuse there.
Accounts (about 480,000 states): `Work` is what was made or changed or is under way, and a
joint bound on both services; it lets a user be registered, verified and signed in and
change a password with a login under way, or race two default addresses. Three sessions
let two refreshes of one token both get a successor. With one user the uniqueness of
slugs between users never bites; the proofs cover any number of users. Notifications
(about 640,000 states): Celery retries once and budgets are 0, 1, 2 and 3, so either
counter can run out first, and e-mails of both kinds that the code leaves open occur.
One fault is a stop, a time limit, a second delivery or a failed commit. The run takes
states as equal (`VIEW Counted`) in which as many acceptances more were heard of than
not: no action reads the counts, and the property only their difference.

**Fairness.** Safety runs assume none. In `FairPaymentsSpec` handlers that can go on
do (weak fairness: a process runs its coroutine unless it stops, and stopping is
a fault, which is bounded); who waits for a row lock gets it in the end, and
Stripe redelivers an event until it is answered 2xx (strong fairness, because the
lock is taken and freed by others in between; PostgreSQL queues waiters and
Stripe retries for days). In Inventory, the sweep runs again and again and does
not pass over a row for ever (it orders by `expires_at`). In `NotificationsFairness`
a request that committed queues its task, workers take what is queued, the provider
answers or times out, and the sender records it and ends its task: all weak, since
each stays possible until done. Customers, sellers, operators and the outcome of a
payment have no fairness: nobody must buy.

## Findings

1. *cancel_race* (`order/service.py:244`). `cancel` reads the order without
   a lock, asks Inventory, and writes over what it finds. If the payment is
   authorized and shipping starts in between, an order in fulfillment becomes
   cancelled, and its version goes backwards. Only this property is affected:
   `PaidOrdersHaveStock` and `OneVerdict` hold all the same: a cancelled order is
   never revived, and apart from the cancellation the status keeps to its `Course`.
2. *retry_after_shipping* (`order/service.py:282`). `payment_authorized` accepts a
   repeated callback only while the order is confirmed; once it is in processing
   it answers 409, so a payment whose first answer was lost stays pending. The
   order-service's `docs/payment-service-scope.md` calls the callback safe to
   retry.
3. *refund_order* (`order/service.py:382`). `payment_status` follows the
   callback that came last, not the largest amount: refund callbacks that
   overtake each other leave `partially_refunded` behind although everything was
   refunded.

Also seen while modelling, without a run of their own; the models have these steps, and
the properties are stated so as to name them:

* *If-Match of variants* (`product/services/catalog_service.py:361`). The variant is
  loaded with its product, without a lock; the SELECT FOR UPDATE that follows
  (`catalog_repository.py:113`) does not load it again, and there is no `version_id_col`.
  Two updates under one If-Match both pass, the second overwrites the first, and one
  version has two prices, although `product-service/README.md:17` has "Optimistic
  concurrency through `If-Match`". Readiness of a cart notices all the same, because it
  compares the price as well as the version (`LinesPricedAsListed`).
* *E-mails that wait for nobody* (`notification/tasks.py:125`). `task.retry` counts against
  the `max_retries` of the task class, 3 by default, while `k8s/configmap.yaml` sets
  `CELERY_TASK_MAX_RETRIES` and `NOTIFICATION_MAX_RETRIES` to 5: the row is still RETRYING
  when Celery has given up. First disjunct of `LeftOpen`.
* *E-mails without a retry* (`notification/email_service.py:914`). A request may ask for a
  limit of 0 (`schemas.py:324`). If the only attempt fails, `retry_count` would be 1, which
  the CHECK of the table refuses; the attempt is not recorded, against "record every
  provider attempt" (`email_service.py:97`), and the row stays in PROCESSING. Second
  disjunct of `LeftOpen`; `RefusedWithoutRetries` proves that there is no other such case.
* *Time limits* (`notification/celery_app.py:57`). A task that runs out of time leaves its
  row in PROCESSING with no attempt on record, which no request can change but
  one by hand in the database: send, retry and cancel all refuse PROCESSING.

## Proofs

TLAPS proves, for every value of the constants allowed by the named
assumptions:

* **InventoryProofs**, in four parts. *Stock*: `StockCorrect`, the inductive invariant
  `StockInv`, which says for every item that `reserved` is the sum of its active rows,
  that `onHand` is what the seller put in less the committed rows, and
  `0 <= reserved <= onHand`. `StockConservation`, `SoldOnce` and `NoOversell` need each
  other: a commit subtracts from both counters, and that this leaves `onHand` no less
  than `reserved` needs that the row's quantity is part of the sum. `TotalProofs` has the
  facts about sums over sets of rows; they avoid induction by defining a sum as the
  cardinality of a set of units. *Groups*: `OneRequestPerKey` and `AnswersStayTrue`, from
  `GroupInv`, which adds that the groups of the records of keys exist. Every action is
  first shown to be one of five kinds of step (it leaves the rows alone, opens a group,
  repeats an answer, closes a group as a whole, or wears rows away), and the kinds keep
  the invariant. *Adjustments*: `AdjustmentsSeeTheStock` needs that while an item's
  version is the one the seller read, so are its counters (`EditsAreCurrent`): every
  operation that changes a counter moves the version. *The contract*: `ContractKept`,
  that the service implements `ReservationGroups`. The phase of a group is read off
  its rows (`PhaseOf`), each kind of step is mapped to a step of the contract or a stutter,
  and `RowsResolveOnce` comes from the same lemmas.
* **OrdersProofs**: `TypeCorrect`; `OrderCorrect`, the inductive invariant
  `OrderInv`. `PaidOrdersHaveStock` and `EndedOrdersHoldNothing` alone are not
  inductive: a payment callback about to write must know what Inventory has done
  (`StockSettled`), that nobody else has written the row since it was locked
  (`OneHolder`, `HeldIsUnpaid`), that unpaid and pending go together
  (`UnpaidIsPending`), and that only cancellations and payment callbacks wait for
  Inventory (`OnlyTheyAsk`). `OneVerdict`, an action property (the payment's outcome is not
  taken back, and each step of the status is one of `Course`), follows from the
  same invariant. All is shown of `Serves`, the steps of Order whatever it is asked
  for, so that the next two can build on it.
* **OrderCallersProofs**, *Shipping*: `OrdersImplemented`, every behaviour of Order and
  Shipping is one of Order (`ShipmentsSpec => Spec`), so the above holds there too;
  `WithinAStep` and `StagesStayInOrder`. The inductive invariant `ShipInv` adds what the two
  know of each other: Order is asked for a stage only when the stage before it is booked
  (`AskedInOrder`), what it accepted stays so unless cancelled (`AcceptedStages`), the
  lock keeps a shipment as it was read until the answer is booked (`RowStays`,
  `OneRowLock`), and each task has a request of its own (`Linked`, `OneTaskPerCall`).
  *Payment*: `OutcomesAgree`, `NothingPaidUncaptured`, `OrdersNeverAhead`,
  `RefundsAreCovered` and `PaymentStands`. They are not inductive alone. `OrdersServed`
  brings in Order's steps; `PayInv` adds that the event a webhook works on stays
  unrecorded while the row is locked (`HookIsTrue`), that a payment with an outcome has
  its capture recorded (`RowIsTrue`), so no webhook writes over an outcome; that a
  refund finds the row as it read it (`OneRowHolder`, `RefundIsTrue`); and that what
  Stripe gave back covers what is booked and what a retry with its key may still book
  without moving money (`Covered`, a sum over refunds, with the facts of `TotalProofs`),
  unless all was given back.

* **CheckoutProofs**: `TypeCorrect`, with the facts that open carts have a version
  left and that an attempt saves and undoes its own group (`TypeInv`: without them
  types are not inductive); `CheckoutCorrect`, the inductive invariant
  `CheckoutInv`. `OrdersKeepTheirStock` needs that an order belongs to the attempt
  that reserved its group and is past saving (`OrderIsOwn`), so that who undoes has
  no order, and that a group is not released before its attempt is decided
  (`NotReleased`). `CartPaidOnce` needs the unique living order of a cart
  (`OneLiveOrder`), and that a paid order keeps its stock that Inventory answers one way
about a group (`StockInv`), since its release, begun by a cancellation, is refused after
the commit. `KeysNameOneOrder` needs the agreement of every answer with the
  record of its key (`AnswersAreRecorded`), `ClosedCartsWereOrdered` that who closes
  a cart has ordered it (`ClosersHaveOrdered`).

* **AccountProofs**, of Auth and Profiles: `AccountsStayTrue`, `CommitsStand` and
  `VersionsAreExact`. The inductive invariant is `AuthInv` and `ProfilesInv` together. What
  a request found when it read must still be there when it commits (`CallOK`, `EditOK`);
  it is, because no step of either service deletes a row, gives it to someone else or
  clears a mark (`Grows`, `Extends`), which each action is shown to respect. A commit
  writes changed columns only (`FlushedUser`), so it cannot undo a verification or a
  password it did not see. In Profiles every row is compared with its version again, so
  the row written over is the row that was read (`StoredProfile`, `SetSetting`), but for
  the defaults that are cleared, which move on by one in the UPDATE (`Written`). That a
  pending profile has its request needs that status is only overwritten by what the row
  had, `active` or `deactivated`; that the preferences made with a profile overwrite none
  needs that settings come after the profile. The sets of users, tokens, sessions, requests,
  addresses and keys are arbitrary; the named assumptions only keep `None` and
  `"preferences"` apart from other names.

* **CartsProofs**: `UnitsKept`, `PricesAsListed` and `StorefrontTypes`, from the inductive
  invariant `StoreInv`. That the units in carts are those put in and not taken out is a
  sum over all carts; a step changes one summand, or two that a merge moves units
  between (`OneCartChanges`, `TwoCartsChange`). It needs that the row a request writes
  is the row it found: no cart is locked twice (`LocksApart`), a locked cart stays open and
  its owner's (`RequestOK`), the sweep, which reads without a lock, expires none that is
  locked, and a customer has one open cart, so that a request that found none creates
  the only one (`OneOpenCart`). A merge counts nothing twice because an open cart was not
  merged before (`CartOK`). For prices, a variant is always listed as it is
  (`Listed`) and what was listed is not taken back, so a line that is copied, merged or
  refreshed still names a version and a price that its variant had together, even where
  a stale update lists a version twice. The set of carts is assumed finite, to be summed
  over; everything else is arbitrary.

* **NotificationsProofs**: `OneSenderPerEmail`, `NoBlindResend`, `AttemptsExplain`,
  `NotificationTypes` and the action property `VerdictStands`, from the inductive
  invariant `DeliveryInv`: four facts about each row that need each other. The number of
  an attempt is new only because the row is its sender's own (`Owned`) and attempts have
  no gap (`Explained`); an attempt is refused only if there was no budget at all, because
  whoever sends is within it (`Budgeted`, `RefusedWithoutRetries`); and no second message goes out because an
  acceptance that was heard of is in the row or keeps it in PROCESSING (`Heard`). Tasks
  are a bag, of which the proofs use only that it stays one.

OrdersProofs, OrderCallersProofs and CheckoutProofs rest on `ReservationGroups`, whose
steps their modules take for Inventory's; `ContractKept` proves that Inventory's steps
are such steps. What is not stated is one specification of all services at once: the
modules compose by that contract.

Only model-checked: liveness (`OverdueIsResolved`, `CapturedIsBooked`, `QueuedIsSettled`),
which needs fairness and ENABLED and is out of TLAPS's reach; every safety property a
passing run checks has its theorem. Induction over data and RECURSIVE operators are out
of its reach as well, and no module has any. The three findings are counterexamples, of
TLC.

## Not modelled, and why

* Outbox, audit and history rows: written in the same transactions as what they
  report, read by nothing in the repository.
* The notification call of checkout, reads, lists, pagination, authentication of
  callers, amounts in currencies (a mismatch is refused before anything changes).
* A COMMIT whose outcome the client does not learn: a transaction commits or does
  not, and the handler knows which. PostgreSQL's lock acquisition and its deadlock
  victims: a victim's transaction changes nothing.
* Warehouses and catalog SKUs in Inventory except as guards of `CreateItem`.
* Two `create_payment` at a time for one order (the loser's intent cannot be paid,
  its secret is never shown), and the idempotency keys of create_payment and
  create_shipment, which decide how a repeat is answered and change nothing else.
* Requests that name a version that is no longer the row's (If-Match) and are refused
  before they change anything.
* Promises the code does not make, though a reader may expect them: a refresh that read
  its token before a password change commits its session after it; two failed logins may
  count once; reactivating a deactivated profile whose deletion request is still open;
  lines added to a cart after the checkout's snapshot; an e-mail sent by hand that fails
  waits for nobody. The models have these behaviours, and no property excludes them.
* The circuit breaker of the gateway: it keeps no data, and what it costs is a 503
  that was not needed.
* The components listed as not modelled in `PROJECT.json`, each with its reason.

## Plan

Done, in the order of importance:

1. Inventory, its contract ReservationGroups, the refinement, proofs of the stock
   invariants.
2. Orders over the contract, proofs of the order invariants.
3. Payments and Shipments over Orders, and proofs of their properties.
4. Checkout, and proofs of its invariants.
5. Catalog and Carts, and proofs of their properties.
6. Notifications, and proofs of their properties.
7. Auth and Profiles, and proofs of their properties.
8. Proofs of Inventory's groups, keys and adjustments, and that it implements
   ReservationGroups.

Left:

9. What the findings leave of the properties they refute: which orders a cancellation
   may take back, and between which callbacks the refunded status is right.
10. The circuit breaker of the gateway, if a question about it is worth a run.
