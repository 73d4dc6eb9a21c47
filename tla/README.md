# Dubai Retail OS: verification project

TLA+ models of the server in `src/` (a Go HTTP API and an Asynq worker on
PostgreSQL and Redis), the TLC configurations that check them and the theorems
TLAPS proves about them. Its core is the stock: the **stock pool** every other
part leans on, that is, who may take units of a variant, when, and what the
tables then say; and the **stock of the warehouses** with the transfers between
them. Around it stand the **back office**: returns, purchasing, imports,
customers, access, channels, point of sale, invoices, catalogue and shipping,
each with a module of its own.

## 1. Inventory of the system

| Component | State | Operations | Interacts with | Hard behaviour | Correct when |
|---|---|---|---|---|---|
| Inventory service (`service/inventory.go`, `repository/postgres/inventory.go`) | `inventory`, `batch_items`, `inventory_movements`, `stock_reservations` | SubtractStock, ReserveStock, ReleaseExpiredReservations | called by orders, HTTP, worker; shares rows with catalogue, warehouse, returns | isolation levels, row locks in request order, snapshots older than the lock, lost commit replies | no unit is sold twice; quantity_on_hand and the ledger agree; quantity_reserved is what is reserved; FIFO |
| Orders (`service/order.go`) | `orders`, lines, invoices | ProcessOrder: Tx 1 takes stock, Tx 2 persists; compensate | inventory, prices, compliance | crash or failure between the two transactions | an order row has its stock; lost stock is in the log |
| Worker (`worker/server.go`) | Asynq queues, metrics | cleanup of expired reservations, release tasks, sync and rate tasks | inventory, channel sync | at-least-once tasks, ten at a time, lists that are stale when used | every expired reservation is released, once |
| Goods receipt (`service/batch_import.go`) | `purchase_batches`, `batch_items`, import jobs | runImport, processRow | inventory rows | rows that fail inside one transaction, a commit whose reply is lost, received_at before commit | the answer and the job tell what was stored |
| Suppliers (`service/supplier.go`) | purchase orders | create, update status, receive | goods receipt | status read before the transaction | a purchase order is received once |
| Catalogue (`service/product.go`) | products, variants, channel prices, sale prices, inventory rows | create, update, publish, duplicate, price | inventory rows, groups | slugs searched for and then written, rows read before the transaction, absolute writes that race sales | one sale price per channel; an edit keeps the columns it does not name; does not corrupt the stock account |
| Categories and collections (`service/category.go`, `collection.go`) | groups, memberships | create, patch, delete, replace memberships from both sides | catalogue | replacements that overlap | a product is where the last replacement put it |
| Warehouses (`service/warehouse.go`) | `warehouse_stock`, transfers | SetStock, AdjustInventory, Transfer, CreateTransfer, UpdateTransfer, TransitionTransfer | inventory row (AdjustInventory) | status read before the transaction and written outside of it | a transfer neither makes nor loses units |
| Returns (`service/rma.go`) | returns, items | CreateReturn, QC, ApproveReturn, RejectReturn | inventory rows | status read before the transaction | a return goes back on hand once |
| Loyalty (`service/customer.go`) | accounts, point ledger, tiers | AwardPoints, RedeemPoints, tier update | orders | award/redeem races, tier outside the transaction and from the balance | balance equals ledger; points are spent once; the tier is that of the last award |
| Auth (`service/auth.go`, `middleware/auth.go`) | Redis token and version keys, `permissions_version` | Login, Refresh, AssignRole, RevokeAllTokens | every request | cache filled after it was busted, a version that counts as 1 while absent | a role change and a revocation take effect |
| Channel sync (`service/channel_sync.go`) | platform orders, mappings | ConnectPlatform, SyncProducts, SyncInventory, ImportOrders | external platforms | overlapping pushes, mappings without an external id, stubs, repeated imports | a sync brings a mapped product its quantity; no order is missed |
| POS (`service/pos.go`) | registers, sessions, payments | open, close, scan, order, pay, print | orders | unguarded inserts, a receipt lost after its payment was stored | change never exceeds what was overpaid; a receipt stays the receipt |
| Compliance, invoices, receipts (`compliance`, `invoice/`) | `order_invoices`, the number sequence | Evaluate, Execute, build the UBL document, validate, submit | Tx 2 of orders | rounding at two places, failure after the number was taken | an order has one invoice with a number of its own; the document adds up |
| Prices (`service/price_resolver.go`) | — | pure resolution of a price | orders | expired rows, promotions of a tier | the most specific price wins |
| Shipping (`service/shipping.go`, `shipping/`) | accounts, shipments, event log | create, track, copy the carrier's events | external carriers | a booking whose row is not updated, overlapping tracking calls, events reported late | the log holds each event once; the row tells what the carrier did |
| Analytics, activity log, media, tenants, dashboards | tables of their own | CRUD, queries | — | — | — |

The hazards of each are listed in `PROJECT.json`, at the line where they bite.

## 2. Modules

| Module | What it is |
|---|---|
| `Sums` | sums of a function over `1..n` by a recursive function |
| `Fifo` | the waterfall of `deductSingleVariant` as a pure function |
| `SumLemmas` | the laws of the sums and of the waterfall, proved |
| `Inventory` | the stock pool, the orders and the cleanup; a step is a committed transaction |
| `StockTransactions` | the same transactions statement by statement: snapshots, row locks, conflicts, deadlocks |
| `StockContract` | the abstract specification: a call takes effect in one step and takes only what is available |
| `InventoryProofs`, `TransactionProofs`, `TransferProofs` | the theorems about `Inventory`, `StockTransactions` and `Transfers` |
| `Transfers` | the stock of the warehouses and the transfer documents, request by request |
| `WarehouseTotals` | the two accounts of a variant's units, global and by warehouse, and those who write both |
| `Returns` | returns, photos and their verdicts, approvals that book on the stock |
| `Purchasing` | purchase orders, their items and their receipt |
| `BatchImport` | a goods receipt from a file: the rows, the transaction, the job, the answer |
| `Loyalty` | accounts, the ledger of points, tiers |
| `AuthVersions` | roles, the version of a user's permissions and its cache |
| `Sessions` | refresh tokens, their rotation, the global version |
| `ChannelStock` | products mapped to channels and the push of their stock levels |
| `ChannelOrders` | the import of a channel's orders through a window of time |
| `Pos` | cashier sessions, scans, payments, receipts |
| `Invoicing` | the price of a line, totals, VAT, numbers, documents and their validation |
| `Catalogue` | products and slugs, categories, collections, memberships |
| `VariantPrices` | variants, channel prices and sale prices |
| `Shipping` | shipments, the carrier's bookings, the log of its events |
| `BackOffice` | `WarehouseTotals` and the thirteen above it beside each other |
| `AccountProofs` | the theorems about `Loyalty`, `AuthVersions` and `Sessions` |
| `TradeProofs` | the theorems about `ChannelStock`, `ChannelOrders`, `Pos`, `Shipping`, `Catalogue` and `WarehouseTotals` |
| `InvoicingProofs` | the theorems about `Invoicing` |
| `BackOfficeProofs` | the theorems about `Purchasing`, `BatchImport`, `Returns` and `VariantPrices`, and about all of `BackOffice` |
| `MCInventory`, `MCStockTransactions`, `MCTransfers` | the sets of model values for TLC |

`Inventory` and `StockTransactions` each INSTANCE `StockContract` under a
refinement mapping (`ImplementsContract`). They are two views of one program:
`StockTransactions` shows that the transactions behave like atomic steps, and
`Inventory` takes them as atomic and follows them through orders, crashes, the
clock and the worker.

### Inventory

| Variable | Code |
|---|---|
| `catalog` | the variants that have an inventory row |
| `onHand`, `reserved` | `inventory.quantity_on_hand`, `quantity_reserved` |
| `batch` | `batch_items`, numbered in the order of `received_at` (0 received: not there yet) |
| `saleOut` | the `sale_out` movement rows, summed by order and batch item |
| `resv`, `now` | `stock_reservations`, the database clock |
| `request`, `orders`, `compensated` | the ProcessOrder calls, the order rows, the `stock.compensation_required` log |
| `work`, `expiredTotal` | the ids each cleanup in progress has listed, the metric |
| `written`, `inherited` | history: what writers other than sales did to `onHand`, and what duplication gave to `reserved` |

The actions are the code's operations: `CreateVariant`, `DuplicateVariant`,
`OverwriteOnHand` (UpdateVariant), `AdjustOnHand` (AdjustInventory's global
write, and the returns' AdjustStock, a relative write too), `Receive` (imports and purchase orders), the outcomes of Tx 1
(`DeductForOrder`, `RejectOrder`, `FailDeduct`, `LoseDeductReply`) and of Tx 2
(`PersistOrder`, `FailOrder`, `LoseCommitReply`), `CrashServer`, `DeductStock`
(the HTTP operation), `ReserveStock`, `ReleaseByHand`, and the cleanup's
`ListExpired`, `ReleaseListed`, `FailCleanup`. A lost reply is an action of its
own because the code's error path then runs on a transaction that did commit.

No operation of the code turns a reservation into a sale, so the model has none.
`DeductStock` is one POST /inventory/deduct with the lines of one order, a bound.
`expires_at` is set by the server's clock and compared with the database's; the
two are taken to agree.

### StockTransactions

A session begins with a snapshot (PostgreSQL takes it at the first statement,
before that statement waits for a lock) and runs its lines in the order of the
request. A statement that wants a row locked by another session waits; one that
wants a row committed after the snapshot fails with 40001, except in the writers
that run at read committed; sessions that wait for each other are broken by
aborting one. `deductSingleVariant` is one step, since all it does after its
first lock is read its own snapshot and write rows no one else can touch.
A release locks its reservation and then the inventory row, in two steps.
A sale that overlaps a receipt does not see the goods: it takes effect at its
snapshot. So "oldest first" is a property of `Inventory`, where steps are
ordered by commit and the receipt had not happened for that sale.
Serializable is modelled as snapshot isolation with first-updater-wins: the
further aborts PostgreSQL makes (read/write cycles) only refuse more, and any
session may be aborted by `Cancel` at any point.

### Transfers

| Variable | Code |
|---|---|
| `stock` | `warehouse_stock.qty_on_hand`, 0 where there is no row (qty_reserved is written by no one except as 0) |
| `transfer` | `inventory_transfers` with `inventory_transfer_items` |
| `call` | the TransitionTransfer requests: how far each is, the document as it read it, the rows it holds |
| `edit` | the CreateTransfer and UpdateTransfer requests |
| `booked`, `applied` | history: what other writers did to `stock`, and what the transitions of each transfer did |
| `disturbed` | history: the transfers whose requests got in each other's way (below) |

A transition is `ReadHeader`, `ReadItems`, `BeginTx`, `Move`, `WriteStatus`,
`Commit`, each on the connection the code uses for it. The statements of the
transaction that move units are the one step `Move`: it waits for the rows
another transition has locked. One that really waited meets a row newer than its
snapshot and fails; that, a deadlock, and every other failure is `FailCall`,
which may end the call at any point. `Refuse` is the early returns: the status
is already there, the switch does not allow it, the origin has too little.
CreateTransfer is `CreateTransfer` and UpdateTransfer is `CheckEditable` and
`UpdateTransferMeta`; both then go on to `ReplaceTransferItems`, with `FailEdit`
between. `SetStock`, `AdjustInventory` and `Transfer` are committed transactions,
which wait for locks too. The catalogue's upserts of a warehouse row
(`product.go:451-459`, `949-957`) are `SetStock`.

`Init` is any document in any status together with what its way there did to
the stock (`Due`), so a run of two requests covers histories of any length that
ended quietly.

The code does not keep the document and the stock together when requests for
one transfer overlap: `disturbed` marks a transfer from there on, and
`StatusTellsStock` speaks of the others. A transfer is disturbed when a
transition begins while another of it is in progress, when a transition fails
with its status already written, when an edit writes to it during a transition
or in a status other than draft and pending, and when it is created in a
status in which units should have moved. Each of these is a way the code can
lose track of units (hazards at `warehouse.go:455`, `486`, `564`); the first
also breaks what the code says of itself (`transfer_race`).

### WarehouseTotals

`Inventory` has the global row and `Transfers` the rows of the warehouses (here by number);
`WarehouseTotals` puts the two together for one variant. `writer` are the requests
that write both: AdjustInventory (`AdjustStockTx`, `AdjustGlobalInventoryTx`) and
UpdateVariant with a quantity (`SetGlobal`, `PickWarehouse`,
`SyncWarehouseStock`), statement by statement, since they lock the two rows in
opposite orders and run at different isolation levels. `held` are the row locks
of each, `missed` what others committed since its snapshot. A deadlock,
a serialization failure and a refusal all end in `FailWriter`, which keeps
nothing. Sales, returns, SetStock and the legs of transfers are one step each.

DuplicateProduct writes both accounts too, of a new variant: `CopyInventory` and
`CopyWarehouseStock` are two statements at read committed, each of which reads
the source as it is committed by then and locks nothing of it. `duplicate` is
that transaction between the two. After the second the module follows the copy
(nobody sees it before the commit), or goes on with the source (`LeaveDuplicate`).

`parted` is set by every write of one account only, by an update that puts the
whole quantity in one warehouse while others have some, and by a copy that
leaves out units in transit or meets the commit of another request between its
statements (`CopyParted`); an update without units elsewhere clears it.
`TotalsAgree` speaks of the rest. The migration says without exception that the
sum of the warehouses is the global quantity (`012_warehouses.sql:49-50`,
`88-89`); the code does not keep that, since every sale, every return and every
SetStock writes one account only.

### The back office

In all of them a request is a record with a program counter (`pc`), and
a step is what the code does between two statements others can see: a
transaction when the reads it rests on are its own, a statement when not. A read
on a connection of the pool before a transaction is a step of its own, since
that is where others come between. Every step that talks to PostgreSQL, Redis or
the outside may fail, and the code's error path is then the step (`Fail...`,
`Lose...`, `Skip...`, `Abandon...`).

| Module | State | What the code excuses, kept as history |
|---|---|---|
| `Returns` | `returnRow`, `photo`: the tables; `returnStock`: quantity_on_hand; `approval`, `upload`: requests; `booked`: how often a return was booked | `overlapped`: two approvals at once |
| `Purchasing` | `po`, `poItem`, `batchItem`: the tables; `receipt`: requests | `unsettled`: two receipts at once, or an item added behind one |
| `BatchImport` | `file`, `job`, `progress` of runImport, `txItems` not yet committed, `stored`, `reply` | — |
| `Loyalty` | `customer`, `account`, `points`: the tables; `pointsReq`: awards and redemptions | `tierUnsure`: the newest award's tier write was lost, or an older one came after it |
| `AuthVersions` | `user`, `cached` (Redis), `change`, `token`, `request`; `settled`: the version the last finished change has left | `distrusted`: a bump or removal was lost, or a cache was filled with what had been read before a change |
| `Sessions` | `storedTokens`, `globalKey` (Redis), `pair`, `refresh`, `check` | `branched`: two refreshes of one token, or a key not removed; `revocations`: how many there have been, and in `pair` and `check` how many came before |
| `ChannelStock` | `connector`, `mapping` with `linked` (has an external id), `sync`; `shown`, `listings` on the platform; `stockVersion` for the quantity | `unsure`: two pushes at once, or one failed |
| `ChannelOrders` | `channel`, `platformOrder`, `import`; `externalOrder`, `now` | `excused`: closed, fell into a gap, cut off by the limit, not stored |
| `Pos` | `posSession`, `posOrder`, `payment`, `shelf`, what a scan has shown | `crowded`: two payments at once |
| `Invoicing` | `tariff`, `invoiceReq`, `invoiceSeq`, `invoicedOrder`, `orderInvoice` | — |
| `Catalogue` | `product`, `group`, `member`: the tables; `edit`, `quick`: requests; `asked`: the memberships had each replacement been one step | `mixed`: overlapping replacements; `overtaken`: a slug written during a search |
| `VariantPrices` | `variant`, `price`, `onSale`: the tables; `vedit`: requests; `wanted`, `quoted`: what was asked for | `crossing`: a request wrote back what another had overwritten |
| `Shipping` | `carrierAccount`, `shipment`, `eventLog`: the tables; `waybill` at the carrier; `tracking`: calls | `muddled`: two calls at once, or a statement failed |

The last column is the honest part of the properties. None of these paths holds
a lock from its read to its write, so what they promise holds of what did not
overlap, and the history variable says exactly which overlap the code does not
survive. A mutant that drops a check of the code breaks the property for
requests that came one after the other; what two overlapping ones do is listed
as a hazard at its line. So `BookedOnce`, `ReceivedInFull`, `StatusTellsStock`,
`EditsSurvive` and `ReprintStable` are about the protocol of requests in
sequence, `NoOrderMissed` leaves out what a cut-off import had not stored, and
`ShipmentTellsCarrier` what overlapping calls log twice: in those overlaps the
code does go wrong, and the properties do not say otherwise (the notes of the
hazards in `PROJECT.json` name each).

What is worth knowing before reading a module:

- `Returns`, `Purchasing`: nothing in the code moves a return to received or
  qc_review, or a purchase order to sent or confirmed; `MoveByHand` and
  `SetPOStatusByHand` stand for the edits in the database that must. A return
  changes the same `inventory` rows as `Inventory`'s `AdjustOnHand`.
- `BatchImport`: after a statement fails PostgreSQL aborts the transaction, the
  remaining rows all fail, and COMMIT rolls back (`Commit`). An error before
  that stores nothing (`FailImport`); one that is the loss of COMMIT's reply
  comes with the rows stored (`LoseCommitReply`). Either way the client is
  answered 422 and the job stays "processing": a 422 alone does not say that
  nothing is stored, and the file imported again is stored twice.
- `Loyalty`: repeatable read takes its snapshot with the first statement, which
  is the one that locks. So a request that waited for another's commit fails
  (`40001`), and only one that waited for a rollback goes on. The tier is that of
  the balance the award has left, not of `lifetime_points` as the comments and
  the architecture document say: an award after a redemption may lower it (run
  `tier`). `TierFollowsAwards` says what the code does: the newest award decides.
- `AuthVersions`: the role, the version and the removal from the cache are three
  steps, and a request that misses the cache reads the database and fills the
  cache in two.
- `Sessions`: RevokeAllTokens is an INCR of a key that counts as 1 while absent,
  so the very first one of a deployment revokes nothing, though the code says it
  invalidates every token at once (run `revocation`). From the second on, tokens
  from before any of them are refused, those the first was for included
  (`RevokedStayRefused`).
- `ChannelStock`: levels are pushed to the external id of a mapping, and no code
  of the repository fills one. SyncProducts stores mappings with an empty id, over
  one that had it, so an id is there only when somebody enters it
  (`EnterExternalId`, external) and until the product is published again. A push
  to an empty id brings nothing. Only Shopify's connector makes calls; those of
  Amazon and noon are stubs, which report success (`LevelAfter`). So SyncInventory,
  which "pushes current stock levels for all mapped products", does so for
  Shopify accounts and mappings with an id, and `SyncBrings` is about those.
- `Invoicing`: amounts are integers of 0.0001 AED, and the rounding to two digits
  (half away from zero) is done where the code does it. A discount of a client
  with more than four decimals is outside the model, and so outside
  `DocumentAddsUp`.
- `Catalogue`: at read committed each statement sees the groups and memberships of
  its moment; the rows a replacement has deleted are locked until it commits, the
  ones it has inserted are unseen until then.
- `VariantPrices`: the update of the variant's row locks it until the commit, and
  that lock is all that keeps two sale prices apart.

`BackOffice` EXTENDS all of them, and a behaviour of it is a behaviour of one.
What one writes and another reads (the price a sale finds, the stock a push
reads, the units an approved return puts back) changes freely in the reader's
module. So an interleaving of two of them shows nothing more, and one run covers
them all.

### What is taken from outside

The database is modelled to execute the SQL as its text means. Several statements do
not fit the migrations or PostgreSQL (`GetFIFOBatchItems` combines GROUP BY with
FOR UPDATE; `InsertBatchItem`, `UpsertInventory` and `AdjustStock` name columns
the schema has not; the deferred foreign key `fk_inv_movements_order` asks for
the order row when Tx 1 commits). With the schema as it is those statements end
in `FailDeduct` or in no receipt, behaviours the model has as well; the models
show what holds when they do run. `UpsertInventory` is said to increment or
initialise the inventory row (`batch_import.go:73`); its text inserts a row
without a quantity and does nothing to one that is there. So in `Inventory` a
receipt adds batch items and leaves `onHand`, and `OnHandReconciles` holds
through it.

Likewise `toJobRow` of `repository/postgres/batch_import.go` loses the row it is
given, so `BatchImport` writes the job through the interface the service
declares (`BatchImportRepo`). The carriers, the channels' platforms, the file a
client sends and the network are outside: a call to them acts, or fails, or acts
and then fails. The mock validation demands an element `UUID`
(`asp_sandbox.go:216-229`) that `encodeUBL` never writes, so every e-invoice is
rejected before it is sent, and the exchange with the provider is unreachable:
`Invoicing` ends at the rejection.

## 3. Runs

| Run | Question | Bounds |
|---|---|---|
| `inventory_sales` | two orders race for two batch items beside catalogue writes, out-of-order receipts, a reservation, lost replies, crashes: `TypeOK`, `BatchNeverOversold`, `OnHandReconciles`, `PersistedOrdersHoldStock`, `OldestFirst`, `NeverOversell` | 2 variants, 2 orders, 2 batch items, 1 reservation, quantities to 2, no clock |
| `inventory_live` | two cleanups with stale lists, a listing limit of 1, and releases by hand: `ReservedAccounted`, `ExpiredReleased`, and `ImplementsContract` | 2 variants, 1 order, 1 batch item, 2 reservations, 2 workers, quantities of 1, clock to 3, lifetimes 1 and 2 |
| `transaction_pairs` | every pair of requests, statement by statement: `NoDoubleDeduction`, `SessionsEnd`, `ImplementsContract`, `TypeOK` | 2 sessions, 2 lines each, 2 variants, 1 batch item, 2 reservations |
| `transfer_life` | two transitions of a transfer, an edit and other writers, with failures at every step: `StatusTellsStock`, `NoLostWrite`, `TransitionsEnd`, `TypeOK` | 2 warehouses, 1 variant, 1 transfer from any status, 2 transitions, 1 edit, 3 connections, quantities to 1 |
| `back_office` | each component around the stock, on an instance of its own: `BackOfficeTypeOK` and the 22 properties of the table below | below |
| `metric_double_count` | violated: the metric counts a release twice (`metrics.go:52`) | as `inventory_live`, but quantities to 2, clock to 2, one lifetime |
| `compensation_log` | violated: the log names a persisted order and misses lost ones (`ARCHITECTURE.md:669`) | as `inventory_sales` |
| `transaction_queue` | violated: of two orders for one SKU, with stock for both, the second is turned away (`ARCHITECTURE.md:303`); both sessions are sales | 2 sessions, 1 variant, 1 batch item of up to 3 |
| `transfer_race` | violated: a completed transfer is cancelled by a request that read the status before (`warehouse.go:551`) | as `transfer_life`, no edit |
| `set_price` | violated: a price set again keeps the end of the old one (`product.go:599`) | 1 variant, 1 channel, no edit needed |
| `revocation` | violated: the first revocation leaves every token good (`auth.go:456`) | 1 login, 1 revocation, 1 check |
| `tier` | violated: the tier is not that of the lifetime points (`customer.go:11`, `ARCHITECTURE.md:1509`) | 1 account, 3 requests of up to 2 points |

What `back_office` checks, and how small each instance is:

| Component | Property | In words | Bounds |
|---|---|---|---|
| Returns | `BookedOnce` | a return is booked on the stock at most once | 1 return of up to 2 lines, 2 approvals, 2 uploads, 2 hashes |
| | `VerdictGrounded` | a verdict rests on photos on file of its line | |
| Purchasing | `ReceivedInFull` | a received order has each item booked once, by one receipt | 2 orders, 2 items, 2 receipts |
| Import | `ImportReportTrue` | the answer and the job tell what was stored; a 422 leaves it open while the job is processing | 3 rows and one that does not parse |
| Loyalty | `LedgerChains` | the ledger explains the balance, which is never negative | 1 account, 3 requests of up to 2 points |
| | `TierFollowsAwards` | the tier is that of the balance the last award left | |
| Access | `CurrentTokensTellRoles` | a token of the current version carries the user's roles | 1 user, 1 role, 2 changes, 1 token, 2 requests |
| | `OldTokensRefused` | after a change has returned older tokens are refused | |
| Sessions | `OneTokenPerSession` | a login has at most one good refresh token | 1 login, 2 refreshes, 3 revocations, 1 check |
| | `RevokedStayRefused` | from the second revocation on, a token from before any is refused | |
| Channel stock | `SyncBrings` | a finished sync of Shopify has brought every product with an external id a level as new as its start | 1 account of Shopify or a stub, 1 variant, 2 syncs, 1 change, 1 listing |
| Channel orders | `NoOrderMissed` | no order falls between two runs | 2 orders, 2 imports, limit 1, window 2, clock to 5 |
| POS | `ChangeCovered` | the change handed out is covered by what was overpaid | 1 order, 2 payments, amounts to 2 |
| | `ReprintStable` | a receipt printed again shows the payment it showed | |
| Invoicing | `DocumentAddsUp` | the document agrees with its order and in itself | 2 orders, 2 lines, a price of 0.1, a discount, 5 % |
| | `OrdersAreInvoiced` | an order has one invoice, of the right kind, with its own number | |
| Catalogue | `SlugLostToRace` | a slug is refused only when another was written meanwhile | 2 products, 2 edits and 1 of one step, a category, a collection |
| | `MembershipsAsAsked` | a product is in the groups it was last put in | |
| Variants | `OneSalePrice` | never two active sale prices on a channel | 1 variant, 2 edits |
| | `EditsSurvive` | a column holds what was last asked for it | |
| Shipping | `ShipmentTellsCarrier` | the row and the log tell what the carrier did, each event once | 1 shipment, 2 calls, 2 events, 2 times |
| Two accounts | `TotalsAgree` | global and warehouse quantities agree, in a duplicate too, until one is written alone | 1 variant, 2 warehouses, 2 requests, quantities to 1 |

Why the bounds are enough. Two orders and two batch items give every order in
which sales can meet a partly sold and an untouched batch item; a quantity of 2
is the least that one line can split over two of them. Two workers and two
reservations give every overlap of stale lists. Two sessions with two lines are
the least that can deadlock, and a third session adds no new kind of conflict
between pairs of rows. What depends on larger numbers (sums over many orders and
batch items) is proved for all of them in section 4. Database rows are created
in id order, which loses nothing: ids are not compared by the code. Batch items
are numbered by `received_at` and a receipt may commit any run of them at any
time, so commits out of that order are covered. Two transitions are the least
that can read one status twice, and, starting from every status, they meet in
every pair of legs; the legs of another document meet its rows as those of the
`Transfer` operation do. `CHECK_DEADLOCK FALSE` stands
only in the runs of `StockTransactions`, where every session ends, and in the
two of the back office, whose requests are finitely many and end.

In `back_office` two requests are what it takes to overlap and to come one after
the other, and a third actor is there where a race needs one (a cache is filled
by a request, about a change, for another request). Two lines are the least that
round differently together than apart; a limit of one order and a window shorter
than the clock make the platform cut off, and gaps happen; one variant and one
account are enough where rows are worked on one by one and share nothing. No
fairness is assumed there: all its properties are about safety.

**Fairness.** `inventory_live` assumes that a cleanup that finds something to
list is run (the scheduler enqueues it every minute and Asynq delivers at least
once) and, strongly, that a listing is not failed for ever (a failure is a
database error or the 30 s limit; nothing in the code makes it permanent).
`transaction_pairs` assumes that the statements of a session are sent and
answered: the driver sends them one after the other, PostgreSQL grants freed
locks and its deadlock detector runs. `transfer_life` assumes the same of a
transition once it has begun, and that the pool has one connection more than
there are transitions at a time. The code does not see to that: it has 25
connections (`pool.go:18`), no limit on requests and no deadline for one, and
with as many transitions as connections all of them wait for a second
connection until a client gives up (hazard at `warehouse.go:564`). Nothing is assumed of clients, of writers,
of crashes or of receipts.

Each property of a passing run has a mutant in `PROJECT.json`: a plausible bug
of the code under which TLC finds it violated. They show, for one, that the row lock
and the write conflict are both needed: without the lock two sales take the
same unit, and without the conflict a sale that waited works on a ledger
from before the one it waited for.

## 4. Proofs

All with TLAPS, for any sets of variants, names and groups and any numbers of
rows, requests, sessions, workers and connections, from the assumption each
module states of its constants: they have their types, the thresholds of the
tiers are in order, the words that stand for "none" are not among the names, and
what a request refers to before it has begun exists (a first product, return,
warehouse, token, order at the till and so on). TLC evaluates them on every run.

Each component has an inductive invariant of its own, the conjunction of its type
invariant (of the catalogue and of invoices: the shapes the proof needs), its
properties and what these need. TLC has checked every one of them
as an invariant of the component's run before it was proved. A theorem
`...Inductive` says that every step keeps it, one lemma per action or group of
actions leads there, and `...InvHolds` and the theorem of each property follow.

| Module | Proves | What the invariant adds to the properties, and why it is needed |
|---|---|---|
| `SumLemmas` | the laws of the sums and of the waterfall | `Sums.SumTo` and `Fifo.Remaining` are recursive functions; that they satisfy their equations is itself proved (`RunningTotalExists`, `RemainingExists`) by a least-counterexample argument, and the laws after them likewise (`SumToAdd`, `SumToMonotone`, `SumToUpdate`, …), and that a permutation leaves a sum alone (`SumToRearranged`) |
| `InventoryProofs` | `TypeOK`, `ReservedAccounted`, `BatchNeverOversold`, `OnHandReconciles`, `PersistedOrdersHoldStock`, `OldestFirst`, `NeverOversell`, `ImplementsContract` | a release leaves `reserved` a natural number only because of `ReservedAccounted`, and a batch item's remainder one because of `BatchNeverOversold`; an order row is written in a later step than its stock is taken, so every request is followed (`RequestsHoldStock`); a variant that is not created has no quantities (`UncreatedEmpty`), which lets creation overwrite them |
| `TransactionProofs` | `TypeOK`, `NoDoubleDeduction`, `ImplementsContract` | what a session sees of the tables (`Sees`): the rows it holds are as they were committed last, but for its own changes; rows that nobody has committed since its snapshot are as in the tables; of a variant whose inventory row is not stale, it sees every sale. So its waterfall works on the ledger as it is, and what it commits is sound |
| `TransferProofs` | `TypeOK`, `NoLostWrite`, `StatusTellsStock` | two open transactions never hold one row (`LocksApart`), a held row is as its holder saw it (`ViewsTrue`); a transfer that is not disturbed has one request at a time (`Alone`), which has the document as it is (`DocumentKept`) |
| `AccountProofs` | `LedgerChains`, `TierFollowsAwards`, `CurrentTokensTellRoles`, `OldTokensRefused`, `OneTokenPerSession`, `RevokedStayRefused` | the request that holds an account has read its last balance (`LockedIsCurrent`, `OneHolder`), and a tier write that is pending is of a row of the ledger (`PendingRows`); a version that is cached, or about to be, is not older than the last change that has returned (`CacheSettled`, `RequestsSettled`); while a refresh reads no token but its own is good (`OneBranch`); the counter counts the revocations, and a token carries the count at its birth or the baseline (`VersionsBorn`) |
| `TradeProofs` | `SyncBrings`, `NoOrderMissed`, `ChangeCovered`, `ReprintStable`, `ShipmentTellsCarrier`, `SlugLostToRace`, `MembershipsAsAsked`, `TotalsAgree` | what a sync in the middle of a push has read is not older than what any sync of the account has brought to a product with an external id (`LevelsHold`); the change of a payment is what it alone exceeds the total by, and requests are stamped in order (`ChangeOfOne`, `PendingIsLast`); no logged event has one before it that is neither logged nor awaited (`LogOf`); a delete has seen every membership of its scope (`DeletesSeeAll`), a slug that was found is free until another is written (`SlugSound`); a name is a copy no more often than there are products, and two requests make two products (`NamesSound`); what a writer of both accounts is about to write follows from what its locked rows still say (`Prepared`, `HeldApart`), and the quantity DuplicateProduct has copied is that of the rows it will copy (`DuplicateSound`) |
| `InvoicingProofs` | `OrdersAreInvoiced`, `DocumentAddsUp` | rows and orders name each other (`RowsOfOrders`); the sequence has counted the requests that have a number, which bounds what LPAD cuts (`NumbersSound`); an order is what was built of its request, of lines with natural amounts, and its document what is made of the order (`DocumentsSound`) |
| `BackOfficeProofs` | `BackOfficeTypeOK`, `ReceivedInFull`, `ImportReportTrue`, `BookedOnce`, `VerdictGrounded`, `OneSalePrice`, `EditsSurvive`, and the whole | a settled order has one receipt at a time, which has read all its items (`OneReceipt`, `NotYetReceived`); what the transaction of an import holds is the good rows behind it until it is aborted (`ImportLoops`); an approval that is under way is alone, and none is once the return is booked (`BookedIsClosed`); the row lock keeps the sales a request has switched off (`SalesHeld`), and what it has read is what it will replace (`ReadIsCurrent`) |

The refinements map the initial state to an initial state of `StockContract` and
each step to a sale, a reservation, a release, a write or a stutter (`StepMaps`
in `InventoryProofs` and `TransactionProofs`). In `StockTransactions` only the commit of a session
changes what the contract sees, but for a sale that overlapped a receipt, which
takes effect at its snapshot.

The composition is proved last: a step of `BackOffice` is, for each of the
fourteen components, a step of its own or none (`StepsAreOfOne`), so the whole
implements the specification of each (`EachRunsAlone`), and all their theorems
hold of the specification that `back_office` runs (`BackOfficeSafe`). So do the
type invariants of the fourteen (`BackOfficeTypes`). Twelve of them are part of
the inductive invariants. Those of the catalogue and of invoices need more than
the properties do: that a slug is always found among as many numbers as there
are products and one (`SlugIsFound`, by counting), that a name with one more
copy comes with one more product, and that a number is cut by LPAD to what the
digits hold. They are proved as invariants that hold relative to the first
(`NamesInductive`, `BooksInductive`).

`DocumentAddsUp` is about sums over the lines of an order, the rounding of each
and the grouping of its lines by tax category. An order has one rate, so its
document has one subtotal, over all of its lines (`TaxOfDocument`). The net of a
line has up to four decimals and its VAT two, since it is rounded line by line:
so rounding the sum of the VAT changes nothing, and it is the same to round the
net before the VAT is added or after. That is where net, VAT and amount payable
would come apart (`Rounding`, `ChargedAmounts`). A document made anew reads the
lines in any order: that is a bijection of the line numbers, and
`SumToRearranged` says the sums are the same.

**Only model-checked.** Liveness (`ExpiredReleased`, `SessionsEnd`,
`TransitionsEnd`), since TLAPS does not reach fairness or ENABLED.

## 5. Plan

1. *Done*: `Inventory`, `StockTransactions`, `StockContract`, `Transfers`,
   `WarehouseTotals`, the modules of the back office and `BackOffice`.
2. *Done*: the proofs above, of every safety property that a passing run checks.

## 6. Not modelled

- The status of an order after it is placed: two updates without a guard.
- The listing generator, which stores what a language model answers.
- The exchange of e-invoices with the provider, which no document reaches (see
  above), and IssueInvoice, whose handler stamps nothing.
- The worker's tracking task, which does nothing yet, its gauges and the log of
  low stock.
- Landed costs, and costs and margins elsewhere: they decide no branch.
- Plain CRUD: suppliers, registers, warehouses' names, media, tenants, the
  activity log; the queries of lists, searches and analytics.
- The HTML of receipts and invoices, formatting, logging and metrics except the
  one a property is about, the HTTP layer except its defaults and refusals, all
  user interfaces.
- Passwords, hashes and signatures, which are taken to do what they are for.

Quantities are Go `int`s in PostgreSQL `INT` columns, whose overflow is an error
of the statement and so a failed transaction.
