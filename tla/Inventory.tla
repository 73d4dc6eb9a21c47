----------------------------- MODULE Inventory ------------------------------
(***************************************************************************)
(* The stock pool of the shop: the inventory row of each variant, the      *)
(* batch items the goods were bought in, the sale_out rows of the movement *)
(* ledger, the stock reservations, the orders whose two transactions take  *)
(* stock and then persist, and the worker that releases expired            *)
(* reservations.                                                           *)
(*                                                                         *)
(* A step is a committed database transaction, or the failure, crash or    *)
(* tick of the clock that comes between two of them.  How the statements   *)
(* of transactions interleave is the subject of module StockTransactions.  *)
(***************************************************************************)
EXTENDS Fifo, FiniteSets

CONSTANTS
  Variants,       \* the variants (SKUs) of the catalogue
  NOrders,        \* order ids are 1..NOrders
  NBatches,       \* batch items are 1..NBatches, in the order of received_at
  NReservations,  \* reservation ids are 1..NReservations
  MaxQty,         \* bound on the quantity of one line, receipt or write
  MaxTime,        \* bound on the clock
  TTLs,           \* the reservation lifetimes clients ask for
  BatchLimit,     \* how many reservations one cleanup lists (200 in the code)
  Workers         \* the worker goroutines that may run the cleanup task

ASSUME InventoryAssumption ==
  /\ Variants # {}
  /\ NOrders \in Nat /\ NBatches \in Nat /\ NReservations \in Nat
  /\ MaxQty \in Nat /\ MaxTime \in Nat
  /\ TTLs \subseteq Nat \ {0}
  /\ BatchLimit \in Nat \ {0}

VARIABLES
  catalog,      \* the variants that have been created, with their inventory row
  onHand,       \* inventory.quantity_on_hand
  reserved,     \* inventory.quantity_reserved
  batch,        \* batch_items: variant and quantity_received (0: not received yet)
  saleOut,      \* units of the sale_out rows of each order and batch item
  resv,         \* stock_reservations
  now,          \* the database clock
  request,      \* the ProcessOrder calls: where each is, and its lines
  orders,       \* the order rows that are persisted
  compensated,  \* the orders with a stock.compensation_required log entry
  work,         \* the reservations each cleanup in progress has listed
  expiredTotal, \* the reservations_expired_total counter
  written,      \* what writers other than sales did to onHand in all
  inherited     \* the part of reserved a variant got as a copy of another

stock    == <<catalog, onHand, reserved, batch, saleOut, written, inherited>>
flow     == <<request, orders, compensated>>
cleanup  == <<work, expiredTotal>>
vars     == <<stock, resv, now, flow, cleanup>>

Orders       == 1..NOrders
Batches      == 1..NBatches
Reservations == 1..NReservations
Lines        == [Variants -> 0..MaxQty]
NoLines      == [v \in Variants |-> 0]

-----------------------------------------------------------------------------
(* Queries                                                                 *)

Available(v) == onHand[v] - reserved[v]

\* SUM(ABS(quantity)) of the sale_out rows of batch item b.
Deducted(b) == SumTo([o \in Orders |-> saleOut[o][b]], NOrders)

\* Mutant of FifoStock: the join with the sale_out rows is lost.
FifoStockUnjoined(v) ==
  [b \in Batches |-> IF batch[b].variant = v THEN batch[b].received ELSE 0]

\* GetFIFOBatchItems: what the batch items of variant v have left.
FifoStock(v) ==
  [b \in Batches |-> IF batch[b].variant = v
                     THEN batch[b].received - Deducted(b) ELSE 0]

\* The units of variant v that the rows of table have in the set D of rows.
Held(table, D, v) ==
  SumTo([r \in Reservations |-> IF r \in D /\ table[r].variant = v
                                THEN table[r].quantity ELSE 0], NReservations)

InState(s) == {r \in Reservations : resv[r].state = s}
Active     == InState("active")
Expired    == {r \in Active : resv[r].expires_at < now}

\* The first ids of a set of unused ids: database rows are created in id order.
FirstOf(D, unused) ==
  /\ D # {} /\ D \subseteq unused
  /\ \A i \in unused, j \in D : i < j => i \in D

-----------------------------------------------------------------------------
(* Initial state: an empty database.                                       *)

Init ==
  /\ catalog = {}
  /\ onHand = [v \in Variants |-> 0]
  /\ reserved = [v \in Variants |-> 0]
  /\ batch = [b \in Batches |-> [variant |-> CHOOSE v \in Variants : TRUE,
                                 received |-> 0]]
  /\ saleOut = [o \in Orders |-> [b \in Batches |-> 0]]
  /\ resv = [r \in Reservations |->
               [state |-> "unused", variant |-> CHOOSE v \in Variants : TRUE,
                quantity |-> 0, expires_at |-> 0]]
  /\ now = 0
  /\ request = [o \in Orders |-> [pc |-> "new", lines |-> NoLines]]
  /\ orders = {}
  /\ compensated = {}
  /\ work = [w \in Workers |-> {}]
  /\ expiredTotal = 0
  /\ written = [v \in Variants |-> 0]
  /\ inherited = [v \in Variants |-> 0]

-----------------------------------------------------------------------------
(* Writers of the catalogue and of the warehouse                           *)

\* A variant is created with its inventory row and an opening quantity.
CreateVariant(v, q) ==
  /\ v \notin catalog
  /\ catalog' = catalog \cup {v}
  /\ onHand' = [onHand EXCEPT ![v] = q]
  /\ written' = [written EXCEPT ![v] = q]
  /\ UNCHANGED <<reserved, batch, saleOut, inherited, resv, now, flow, cleanup>>

\* DuplicateProduct: the copy's inventory row repeats both quantities.
DuplicateVariant(src, dst) ==
  /\ src \in catalog /\ dst \notin catalog
  /\ catalog' = catalog \cup {dst}
  /\ onHand' = [onHand EXCEPT ![dst] = onHand[src]]
  /\ written' = [written EXCEPT ![dst] = onHand[src]]
  /\ reserved' = [reserved EXCEPT ![dst] = reserved[src]]
  /\ inherited' = [inherited EXCEPT ![dst] = reserved[src]]
  /\ UNCHANGED <<batch, saleOut, resv, now, flow, cleanup>>

\* UpdateVariant with a quantity: a blind absolute write, with no movement row.
OverwriteOnHand(v, q) ==
  /\ v \in catalog
  /\ onHand' = [onHand EXCEPT ![v] = q]
  /\ written' = [written EXCEPT ![v] = @ + q - onHand[v]]
  /\ UNCHANGED <<catalog, reserved, batch, saleOut, inherited, resv, now,
                 flow, cleanup>>

\* Mutant of AdjustOnHand: the CHECK constraint is dropped.
AdjustOnHandUnchecked(v, delta) ==
  /\ v \in catalog
  /\ onHand[v] + delta <= MaxQty
  /\ onHand' = [onHand EXCEPT ![v] = @ + delta]
  /\ written' = [written EXCEPT ![v] = @ + delta]
  /\ UNCHANGED <<catalog, reserved, batch, saleOut, inherited, resv, now,
                 flow, cleanup>>

\* AdjustGlobalInventoryTx: a relative write; CHECK (quantity_on_hand >= 0).
\* That the warehouse has the stock is not asked of the global row.
AdjustOnHand(v, delta) ==
  /\ v \in catalog
  /\ onHand[v] + delta \in 0..MaxQty
  /\ onHand' = [onHand EXCEPT ![v] = @ + delta]
  /\ written' = [written EXCEPT ![v] = @ + delta]
  /\ UNCHANGED <<catalog, reserved, batch, saleOut, inherited, resv, now,
                 flow, cleanup>>

\* An import file or a purchase order is received: its batch items appear.
\* received_at is read before the transaction, so receipts may commit in
\* another order than that of received_at.  UpsertInventory leaves onHand
\* as it is: its INSERT names no quantity and does nothing on a conflict.
Receive(D, rows) ==
  /\ D # {} /\ \A b \in D : batch[b].received = 0
  /\ \A b, c \in D : b..c \subseteq D
  /\ \A b \in D : rows[b].variant \in catalog
  /\ batch' = [b \in Batches |-> IF b \in D THEN rows[b] ELSE batch[b]]
  /\ UNCHANGED <<catalog, onHand, reserved, saleOut, written, inherited,
                 resv, now, flow, cleanup>>

-----------------------------------------------------------------------------
(* SubtractStock                                                           *)

\* Mutant of CanSubtract: step 5, the coverage of the quantity, is dropped.
CanSubtractUncovered(lines) ==
  \A v \in Variants : lines[v] > 0 => v \in catalog /\ lines[v] <= Available(v)

\* Mutant of CanSubtract: the check forgets quantity_reserved.
CanSubtractOnHand(lines) ==
  \A v \in Variants : lines[v] > 0 =>
    /\ v \in catalog
    /\ lines[v] <= onHand[v]
    /\ Covers(FifoStock(v), lines[v], NBatches)

\* Every line passes the availability check and is covered by batch items.
CanSubtract(lines) ==
  \A v \in Variants : lines[v] > 0 =>
    /\ v \in catalog
    /\ lines[v] <= Available(v)
    /\ Covers(FifoStock(v), lines[v], NBatches)

\* Mutant of Taken: ORDER BY received_at DESC.
TakenNewestFirst(lines, b) ==
  LET v == batch[b].variant
      newest == [c \in Batches |-> FifoStock(v)[NBatches + 1 - c]]
  IN  Consumed(newest, lines[v], NBatches)[NBatches + 1 - b]

\* What the waterfall takes from batch item b.
Taken(lines, b) ==
  LET v == batch[b].variant
  IN  Consumed(FifoStock(v), lines[v], NBatches)[b]

\* The sale_out rows of order o are inserted and onHand goes down.
SubtractStock(o, lines) ==
  /\ CanSubtract(lines)
  /\ saleOut' = [saleOut EXCEPT ![o] =
                   [b \in Batches |-> saleOut[o][b] + Taken(lines, b)]]
  /\ onHand' = [v \in Variants |-> onHand[v] - lines[v]]
  /\ UNCHANGED <<catalog, reserved, batch, written, inherited>>

-----------------------------------------------------------------------------
(* ProcessOrder: Tx 1 takes the stock, Tx 2 persists the order.            *)

AtStep(o, pc, lines) ==
  request' = [request EXCEPT ![o] = [pc |-> pc, lines |-> lines]]

\* Tx 1 commits.
DeductForOrder(o, lines) ==
  /\ request[o].pc = "new" /\ lines # NoLines
  /\ SubtractStock(o, lines)
  /\ AtStep(o, "deducted", lines)
  /\ UNCHANGED <<resv, now, orders, compensated, cleanup>>

\* Mutant of RejectOrder: the error of SubtractStock is ignored.
RejectOrderIgnored(o, lines) ==
  /\ request[o].pc = "new" /\ lines # NoLines
  /\ ~CanSubtract(lines)
  /\ AtStep(o, "deducted", lines)
  /\ UNCHANGED <<stock, resv, now, orders, compensated, cleanup>>

\* Tx 1 is rolled back: not enough stock.
RejectOrder(o, lines) ==
  /\ request[o].pc = "new" /\ lines # NoLines
  /\ ~CanSubtract(lines)
  /\ AtStep(o, "rejected", NoLines)
  /\ UNCHANGED <<stock, resv, now, orders, compensated, cleanup>>

\* Tx 1 is rolled back by an error of the database (a serialization failure,
\* a deadlock, a refused statement); it is not tried again.
FailDeduct(o) ==
  /\ request[o].pc = "new"
  /\ AtStep(o, "error", NoLines)
  /\ UNCHANGED <<stock, resv, now, orders, compensated, cleanup>>

\* Tx 1 commits but the reply of the database is lost: ProcessOrder returns the
\* error of SubtractStock, and compensates nothing.
LoseDeductReply(o, lines) ==
  /\ request[o].pc = "new" /\ lines # NoLines
  /\ SubtractStock(o, lines)
  /\ AtStep(o, "unheard", lines)
  /\ UNCHANGED <<resv, now, orders, compensated, cleanup>>

\* Tx 2 commits.
PersistOrder(o) ==
  /\ request[o].pc = "deducted"
  /\ orders' = orders \cup {o}
  /\ AtStep(o, "placed", request[o].lines)
  /\ UNCHANGED <<stock, resv, now, compensated, cleanup>>

\* Tx 2 fails; compensate only writes a log entry.
FailOrder(o) ==
  /\ request[o].pc = "deducted"
  /\ compensated' = compensated \cup {o}
  /\ AtStep(o, "failed", request[o].lines)
  /\ UNCHANGED <<stock, resv, now, orders, cleanup>>

\* Tx 2 commits but Commit returns an error: the reply of the database is lost.
LoseCommitReply(o) ==
  /\ request[o].pc = "deducted"
  /\ orders' = orders \cup {o}
  /\ compensated' = compensated \cup {o}
  /\ AtStep(o, "failed", request[o].lines)
  /\ UNCHANGED <<stock, resv, now, cleanup>>

\* The server stops; the calls between their two transactions are gone.
CrashServer ==
  /\ \E o \in Orders : request[o].pc = "deducted"
  /\ request' = [o \in Orders |-> IF request[o].pc = "deducted"
                                  THEN [request[o] EXCEPT !.pc = "lost"]
                                  ELSE request[o]]
  /\ UNCHANGED <<stock, resv, now, orders, compensated, cleanup>>

\* POST /inventory/deduct for an order that exists.
DeductStock(o, lines) ==
  /\ o \in orders /\ lines # NoLines
  /\ SubtractStock(o, lines)
  /\ UNCHANGED <<resv, now, flow, cleanup>>

-----------------------------------------------------------------------------
(* Reservations                                                            *)

\* POST /inventory/reserve: one row per item of the request, for an order
\* that exists (stock_reservations.order_id references orders).
ReserveStock(D, rows, ttl) ==
  /\ orders # {}
  /\ FirstOf(D, InState("unused"))
  /\ \A r \in D : rows[r].variant \in catalog
  /\ \A v \in Variants : Held(rows, D, v) > 0 => Held(rows, D, v) <= Available(v)
  /\ resv' = [r \in Reservations |->
                IF r \in D THEN [state |-> "active", variant |-> rows[r].variant,
                                 quantity |-> rows[r].quantity,
                                 expires_at |-> now + ttl]
                ELSE resv[r]]
  /\ reserved' = [v \in Variants |-> reserved[v] + Held(rows, D, v)]
  /\ UNCHANGED <<catalog, onHand, batch, saleOut, written, inherited, now,
                 flow, cleanup>>

\* Mutant of Release: the UPDATE does not ask for is_active = TRUE.
ReleaseAgain(D) ==
  /\ resv' = [r \in Reservations |->
                IF r \in D THEN [resv[r] EXCEPT !.state = "released"] ELSE resv[r]]
  /\ reserved' = [v \in Variants |-> reserved[v] - Held(resv, D, v)]
  /\ UNCHANGED <<catalog, onHand, batch, saleOut, written, inherited>>

\* ReleaseExpiredReservations: rows that are no longer active are skipped.
Release(D) ==
  /\ resv' = [r \in Reservations |->
                IF r \in D \cap Active THEN [resv[r] EXCEPT !.state = "released"]
                ELSE resv[r]]
  /\ reserved' = [v \in Variants |-> reserved[v] - Held(resv, D \cap Active, v)]
  /\ UNCHANGED <<catalog, onHand, batch, saleOut, written, inherited>>

\* The task reservation:release names any existing reservations, expired or not.
ReleaseByHand(D) ==
  /\ D # {} /\ D \cap InState("unused") = {}
  /\ Release(D)
  /\ UNCHANGED <<now, flow, cleanup>>

-----------------------------------------------------------------------------
(* The cleanup task: list outside any transaction, then release.           *)

\* Mutant of Listing: WHERE expires_at > NOW().
ListingUnexpired(D) ==
  LET unexpired == {r \in Active : resv[r].expires_at > now}
  IN  /\ D \subseteq unexpired
      /\ Cardinality(D) = Lesser(Cardinality(unexpired), BatchLimit)

\* ListExpiredActive: the BatchLimit reservations that expired first.
Listing(D) ==
  /\ D \subseteq Expired
  /\ Cardinality(D) = Lesser(Cardinality(Expired), BatchLimit)
  /\ \A r \in D, s \in Expired \ D : resv[r].expires_at <= resv[s].expires_at

ListExpired(w, D) ==
  /\ work[w] = {} /\ D # {}
  /\ Listing(D)
  /\ work' = [work EXCEPT ![w] = D]
  /\ UNCHANGED <<stock, resv, now, flow, expiredTotal>>

\* The listed reservations are released and all of them are counted.
ReleaseListed(w) ==
  /\ work[w] # {}
  /\ Release(work[w])
  /\ work' = [work EXCEPT ![w] = {}]
  /\ expiredTotal' = expiredTotal + Cardinality(work[w])
  /\ UNCHANGED <<now, flow>>

\* The release fails, times out or the worker stops: a later task lists anew.
FailCleanup(w) ==
  /\ work[w] # {}
  /\ work' = [work EXCEPT ![w] = {}]
  /\ UNCHANGED <<stock, resv, now, flow, expiredTotal>>

Tick ==
  /\ now < MaxTime
  /\ now' = now + 1
  /\ UNCHANGED <<stock, resv, flow, cleanup>>

-----------------------------------------------------------------------------

BatchRows == [variant : Variants, received : 1..MaxQty]
ResvRows  == [variant : Variants, quantity : 1..MaxQty]

CatalogWrite ==
  \E v \in Variants :
    \/ \E q \in 0..MaxQty : CreateVariant(v, q) \/ OverwriteOnHand(v, q)
    \/ \E src \in Variants : DuplicateVariant(src, v)
    \/ \E delta \in (-MaxQty..MaxQty) \ {0} : AdjustOnHand(v, delta)

Receipt ==
  \E D \in SUBSET Batches : \E rows \in [D -> BatchRows] : Receive(D, rows)

OrderStep ==
  \E o \in Orders :
    \/ \E lines \in Lines : \/ DeductForOrder(o, lines)
                            \/ LoseDeductReply(o, lines)
                            \/ RejectOrder(o, lines)
                            \/ DeductStock(o, lines)
    \/ FailDeduct(o)
    \/ PersistOrder(o)
    \/ FailOrder(o)
    \/ LoseCommitReply(o)

Reserving ==
  \/ \E D \in SUBSET Reservations : \E rows \in [D -> ResvRows], ttl \in TTLs :
       ReserveStock(D, rows, ttl)
  \/ \E D \in SUBSET Reservations : ReleaseByHand(D)

CleanupStep ==
  \E w \in Workers :
    \/ \E D \in SUBSET Reservations : ListExpired(w, D)
    \/ ReleaseListed(w)
    \/ FailCleanup(w)

Next ==
  \/ CatalogWrite
  \/ Receipt
  \/ OrderStep
  \/ CrashServer
  \/ Reserving
  \/ CleanupStep
  \/ Tick

Spec == Init /\ [][Next]_vars

\* The scheduler enqueues the cleanup every minute and Asynq retries it, so a
\* task that can list eventually does; failures of the release are transient.
Fairness ==
  \A w \in Workers : /\ WF_vars(\E D \in SUBSET Reservations : ListExpired(w, D))
                     /\ SF_vars(ReleaseListed(w))

LiveSpec == Spec /\ Fairness

-----------------------------------------------------------------------------
(* Properties                                                              *)

PCs == {"new", "deducted", "placed", "failed", "lost", "unheard",
        "rejected", "error"}

TypeOK ==
  /\ catalog \subseteq Variants
  /\ onHand \in [Variants -> Nat]
  /\ reserved \in [Variants -> Nat]
  /\ batch \in [Batches -> [variant : Variants, received : Nat]]
  /\ saleOut \in [Orders -> [Batches -> Nat]]
  /\ resv \in [Reservations -> [state : {"unused", "active", "released"},
                                variant : Variants, quantity : Nat,
                                expires_at : Nat]]
  /\ now \in Nat
  /\ request \in [Orders -> [pc : PCs, lines : Lines]]
  /\ orders \subseteq Orders
  /\ compensated \subseteq Orders
  /\ work \in [Workers -> SUBSET Reservations]
  /\ expiredTotal \in Nat
  /\ written \in [Variants -> Int]
  /\ inherited \in [Variants -> Nat]

\* quantity_reserved is the sum of the active reservations and of nothing
\* else but what a duplicated variant was given (product.go:1188), whatever
\* cleanups, stale lists and releases by hand race.
ReservedAccounted ==
  \A v \in Variants : reserved[v] = inherited[v] + Held(resv, Active, v)

\* No batch item ever sells more units than were received in it.
BatchNeverOversold ==
  \A b \in Batches : Deducted(b) <= batch[b].received

\* The units of variant v among units, a quantity for each batch item.
UnitsOf(units, v) ==
  SumTo([b \in Batches |-> IF batch[b].variant = v THEN units[b] ELSE 0], NBatches)

\* The units sold of variant v, by the ledger.
Sold(v) == UnitsOf([b \in Batches |-> Deducted(b)], v)

\* quantity_on_hand is what the other writers made of it less exactly the
\* units the sale_out rows of the ledger say were sold.
OnHandReconciles ==
  \A v \in Variants : onHand[v] = written[v] - Sold(v)

\* An order row exists only with sale_out rows for all of its lines.
PersistedOrdersHoldStock ==
  \A o \in orders, v \in Variants :
    request[o].lines[v] <= UnitsOf(saleOut[o], v)

\* Sales take the oldest goods: a batch item is touched only when every older
\* one of the variant that is in stock has been emptied.
OldestFirst ==
  [][\A b, c \in Batches :
       (/\ c < b
        /\ batch[c].variant = batch[b].variant
        /\ Deducted(b)' > Deducted(b)) => Deducted(c)' = batch[c].received]_vars

\* Sales, reservations and releases never bring what is available below zero;
\* only a catalogue or warehouse write can.
NeverOversell ==
  [][\A v \in catalog :
       (written'[v] = written[v] /\ Available(v)' < Available(v)) =>
         Available(v)' >= 0]_vars

\* Every step does what StockContract says a call does in one step.
Contract == INSTANCE StockContract WITH
  sold <- [o \in Orders |-> [v \in Variants |-> UnitsOf(saleOut[o], v)]],
  held <- [v \in Variants |-> Held(resv, Active, v)]

ImplementsContract == Contract!Spec

\* An expired reservation is released in the end.
ExpiredReleased ==
  \A r \in Reservations : r \in Expired ~> resv[r].state = "released"

-----------------------------------------------------------------------------
(* What the code's comments and documents say and the code does not do     *)

\* metrics.go:52 "counts reservations released by the cleanup job".
ExpiredMetricExact ==
  expiredTotal <= Cardinality(InState("released"))

\* ARCHITECTURE.md:669 the log asks to restore the stock of the orders whose
\* write failed after their stock was taken: of all of them and of no other.
CompensationLogExact ==
  \A o \in Orders :
    (request[o].pc \in {"placed", "failed", "lost"} /\ \E b \in Batches : saleOut[o][b] > 0)
      => (o \in compensated <=> o \notin orders)
=============================================================================
