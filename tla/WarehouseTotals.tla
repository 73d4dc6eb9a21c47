--------------------------- MODULE WarehouseTotals ---------------------------
(***************************************************************************)
(* The two accounts of one variant's units: inventory.quantity_on_hand,    *)
(* and the rows of warehouse_stock that break it down by warehouse.        *)
(*                                                                         *)
(* AdjustInventory and UpdateVariant write both, in one transaction each   *)
(* but in opposite orders: an adjustment locks the warehouse's row and     *)
(* then the global one at serializable, an update the global one and then  *)
(* a warehouse's at read committed.  They wait for each other, meet rows   *)
(* newer than their snapshot, and are broken off.  DuplicateProduct writes  *)
(* both of a new variant, copied from one that is there by two statements  *)
(* at read committed, which lock nothing of it.  Everybody else writes one *)
(* of the two only, in one step that waits for the locks.                  *)
(*                                                                         *)
(* Which row of warehouse_stock is the oldest is not tracked: created_at   *)
(* is when its transaction began, so any of them may be.                   *)
(***************************************************************************)
EXTENDS Integers, Sums

CONSTANTS
  NWarehouses,     \* warehouses, by priority
  Tracking,        \* the values of track_inventory a variant is made with
  NWriters,        \* AdjustInventory and UpdateVariant requests
  MaxUnits         \* bound on every quantity

ASSUME WarehouseTotalsAssumption ==
  /\ NWarehouses \in Nat \ {0}
  /\ Tracking \subseteq BOOLEAN
  /\ NWriters \in Nat /\ MaxUnits \in Nat

VARIABLES
  onHand,     \* inventory.quantity_on_hand
  located,    \* warehouse_stock.qty_on_hand of each warehouse, or NoStockRow
  inTransit,  \* units that transfers have taken out and not brought in
  writer,     \* the requests that write both accounts
  parted,     \* whether units were written to one account only, or all of
              \* them to one warehouse while others had some
  duplicate   \* the transaction that copies the variant, between its statements

totalsVars == <<onHand, located, inTransit, writer, parted, duplicate>>

Warehouses     == 1..NWarehouses
FirstWarehouse == 1
Writers        == 1..NWriters
NoStockRow     == -1

\* The rows that are locked: those of warehouse_stock go by their warehouse.
InventoryRow == 0
VariantRow   == -1
StockRows    == Warehouses \cup {InventoryRow}

Units(w)  == IF located[w] = NoStockRow THEN 0 ELSE located[w]

InWarehouses == SumTo([w \in Warehouses |-> Units(w)], NWarehouses)
Elsewhere(w) == InWarehouses - Units(w) + inTransit

\* missed: the rows that others have committed since the snapshot.
NewWriter == [pc |-> "new", warehouse |-> FirstWarehouse, change |-> 0, held |-> {},
              missed |-> {}, total |-> 0, row |-> 0]

NoDuplicate == [open |-> FALSE, total |-> 0, parted |-> FALSE]

\* Mutant of LockFree: rows are read without FOR UPDATE and written as read.
LockFreeAlways(row) == row \in StockRows \cup {VariantRow}

LockFree(row) == \A s \in Writers : row \notin writer[s].held

\* Others commit these rows: whoever has a snapshot has missed them.
MissedBy(rows) ==
  [s \in Writers |-> IF writer[s].pc \in {"new", "over"} THEN writer[s]
                     ELSE [writer[s] EXCEPT !.missed = @ \cup rows]]

\* A variant that is tracked begins with its quantity in one warehouse, any
\* other one with its quantity in none (CreateProductWithVariants).
TotalsInit ==
  /\ onHand \in 0..MaxUnits
  /\ \E tracked \in Tracking, w \in Warehouses :
       /\ located = [x \in Warehouses |-> IF tracked /\ x = w THEN onHand ELSE NoStockRow]
       /\ parted = (~tracked /\ onHand > 0)
  /\ inTransit = 0
  /\ writer = [s \in Writers |-> NewWriter]
  /\ duplicate = NoDuplicate

-----------------------------------------------------------------------------
(* AdjustInventory                                                         *)

\* The first statement takes the snapshot, and may then wait for the row.
BeginAdjust(s, w, delta) ==
  /\ writer[s].pc = "new" /\ \A r \in 1..(s - 1) : writer[r].pc # "new"
  /\ delta # 0
  /\ writer' = [writer EXCEPT ![s] =
       [NewWriter EXCEPT !.pc = "adjust", !.warehouse = w, !.change = delta]]
  /\ UNCHANGED <<onHand, located, inTransit, parted, duplicate>>

\* A row newer than the snapshot is a serialization failure: FailWriter.
MayWrite(s, row) == LockFree(row) /\ row \notin writer[s].missed

\* UpsertStockTx, GetStockForUpdate, AdjustStockTx: all on the one row.
AdjustStockTx(s) ==
  LET new == Units(writer[s].warehouse) + writer[s].change
  IN  /\ writer[s].pc = "adjust" /\ MayWrite(s, writer[s].warehouse)
      /\ new \in 0..MaxUnits
      /\ writer' = [writer EXCEPT ![s].pc = "adjusted", ![s].row = new,
                                  ![s].held = @ \cup {writer[s].warehouse}]
      /\ UNCHANGED <<onHand, located, inTransit, parted, duplicate>>

AdjustGlobalInventoryTx(s) ==
  LET new == onHand + writer[s].change
  IN  /\ writer[s].pc = "adjusted" /\ MayWrite(s, InventoryRow)
      /\ new \in 0..MaxUnits
      /\ writer' = [writer EXCEPT ![s].pc = "adjust ready", ![s].total = new,
                                  ![s].held = @ \cup {InventoryRow}]
      /\ UNCHANGED <<onHand, located, inTransit, parted, duplicate>>

-----------------------------------------------------------------------------
(* UpdateVariant with a quantity                                           *)

\* The update of the variant's own row keeps two of them apart.
BeginUpdate(s, quantity) ==
  /\ writer[s].pc = "new" /\ \A r \in 1..(s - 1) : writer[r].pc # "new"
  /\ LockFree(VariantRow)
  /\ writer' = [writer EXCEPT ![s] =
       [NewWriter EXCEPT !.pc = "update", !.change = quantity, !.held = {VariantRow}]]
  /\ UNCHANGED <<onHand, located, inTransit, parted, duplicate>>

SetGlobal(s) ==
  /\ writer[s].pc = "update" /\ LockFree(InventoryRow)
  /\ writer' = [writer EXCEPT ![s].pc = "pick", ![s].total = writer[s].change,
                              ![s].held = @ \cup {InventoryRow}]
  /\ UNCHANGED <<onHand, located, inTransit, parted, duplicate>>

\* The oldest row of the variant, or the first warehouse when it has none.
PickWarehouse(s) ==
  LET rows == {w \in Warehouses : located[w] # NoStockRow}
  IN  /\ writer[s].pc = "pick"
      /\ \E w \in IF rows = {} THEN {FirstWarehouse} ELSE rows :
           writer' = [writer EXCEPT ![s].pc = "picked", ![s].warehouse = w]
      /\ UNCHANGED <<onHand, located, inTransit, parted, duplicate>>

SyncWarehouseStock(s) ==
  /\ writer[s].pc = "picked" /\ LockFree(writer[s].warehouse)
  /\ writer' = [writer EXCEPT ![s].pc = "update ready", ![s].row = writer[s].change,
                              ![s].held = @ \cup {writer[s].warehouse}]
  /\ UNCHANGED <<onHand, located, inTransit, parted, duplicate>>

-----------------------------------------------------------------------------
(* The end of either                                                       *)

Finished(s, rows) ==
  [MissedBy(rows) EXCEPT ![s] = [NewWriter EXCEPT !.pc = "over"]]

\* What is in the warehouses changes, maybe between the statements of a copy.
CopyParted == [duplicate EXCEPT !.parted = @ \/ duplicate.open]

\* A whole quantity in one warehouse is right when no other place has any.
CommitWriter(s) ==
  LET w == writer[s].warehouse
  IN  /\ writer[s].pc \in {"adjust ready", "update ready"}
      /\ onHand' = writer[s].total
      /\ located' = [located EXCEPT ![w] = writer[s].row]
      /\ parted' = IF writer[s].pc = "update ready" THEN Elsewhere(w) > 0 ELSE parted
      /\ writer' = Finished(s, {InventoryRow, w})
      /\ duplicate' = CopyParted
      /\ UNCHANGED inTransit

\* Too little stock, a serialization failure, a deadlock, a lost connection.
FailWriter(s) ==
  /\ writer[s].pc \notin {"new", "over"}
  /\ writer' = [writer EXCEPT ![s] = [NewWriter EXCEPT !.pc = "over"]]
  /\ UNCHANGED <<onHand, located, inTransit, parted, duplicate>>

-----------------------------------------------------------------------------
(* Those who write one account only                                        *)

MoveGlobal(delta) ==
  /\ LockFree(InventoryRow)
  /\ onHand + delta \in 0..MaxUnits
  /\ onHand' = onHand + delta
  /\ parted' = TRUE
  /\ writer' = MissedBy({InventoryRow})
  /\ UNCHANGED <<located, inTransit, duplicate>>

\* A sale.
DeductOnHand(quantity) == MoveGlobal(-quantity)

\* A line of a return that is approved: added when good, taken when damaged.
ReturnUnits(quantity) == MoveGlobal(quantity) \/ MoveGlobal(-quantity)

CanTake(w, quantity) == quantity \in 1..Units(w)

SetStock(w, quantity) ==
  /\ LockFree(w)
  /\ located' = [located EXCEPT ![w] = quantity]
  /\ parted' = (parted \/ quantity # Units(w))
  /\ duplicate' = IF quantity # Units(w) THEN CopyParted ELSE duplicate
  /\ writer' = MissedBy({w})
  /\ UNCHANGED <<onHand, inTransit>>

\* Transfer, or a document that is completed at once: both legs.
Transfer(from, to, quantity) ==
  /\ from # to /\ LockFree(from) /\ LockFree(to)
  /\ CanTake(from, quantity) /\ Units(to) + quantity <= MaxUnits
  /\ located' = [located EXCEPT ![from] = @ - quantity, ![to] = Units(to) + quantity]
  /\ writer' = MissedBy({from, to})
  /\ UNCHANGED <<onHand, inTransit, parted, duplicate>>

\* TransitionTransfer to in_transit; see Transfers for its steps.
Dispatch(from, quantity) ==
  /\ LockFree(from)
  /\ CanTake(from, quantity) /\ inTransit + quantity <= MaxUnits
  /\ located' = [located EXCEPT ![from] = @ - quantity]
  /\ inTransit' = inTransit + quantity
  /\ writer' = MissedBy({from})
  /\ UNCHANGED <<onHand, parted, duplicate>>

\* TransitionTransfer from in_transit: to the destination, or back.
Arrive(to, quantity) ==
  /\ LockFree(to)
  /\ quantity \in 1..inTransit /\ Units(to) + quantity <= MaxUnits
  /\ located' = [located EXCEPT ![to] = Units(to) + quantity]
  /\ inTransit' = inTransit - quantity
  /\ writer' = MissedBy({to})
  /\ UNCHANGED <<onHand, parted, duplicate>>

-----------------------------------------------------------------------------
(* DuplicateProduct, at read committed                                     *)

\* syncInventory: the quantity of the source, as it is committed.
CopyInventory ==
  /\ ~duplicate.open
  /\ duplicate' = [open |-> TRUE, total |-> onHand, parted |-> parted]
  /\ UNCHANGED <<onHand, located, inTransit, writer, parted>>

\* copyWarehouseStock: the rows of the source, as they are committed by now;
\* units in transit are in none of them.  Nobody sees the new variant before
\* the commit, from which on it is the one that is followed.
CopyWarehouseStock ==
  /\ duplicate.open
  /\ onHand' = duplicate.total
  /\ parted' = (duplicate.parted \/ inTransit > 0)
  /\ inTransit' = 0
  /\ writer' = [s \in Writers |-> NewWriter]
  /\ duplicate' = NoDuplicate
  /\ UNCHANGED located

\* The transaction fails, or commits and the source is followed further.
LeaveDuplicate ==
  /\ duplicate.open
  /\ duplicate' = NoDuplicate
  /\ UNCHANGED <<onHand, located, inTransit, writer, parted>>

-----------------------------------------------------------------------------

Deltas == (-MaxUnits)..MaxUnits

WriterStep(s) ==
  \/ \E w \in Warehouses, delta \in Deltas : BeginAdjust(s, w, delta)
  \/ AdjustStockTx(s) \/ AdjustGlobalInventoryTx(s)
  \/ \E quantity \in 0..MaxUnits : BeginUpdate(s, quantity)
  \/ SetGlobal(s) \/ PickWarehouse(s) \/ SyncWarehouseStock(s)
  \/ CommitWriter(s) \/ FailWriter(s)

TotalsNext ==
  \/ \E s \in Writers : WriterStep(s)
  \/ \E quantity \in 1..MaxUnits : DeductOnHand(quantity) \/ ReturnUnits(quantity)
  \/ \E w \in Warehouses, quantity \in 0..MaxUnits :
       \/ SetStock(w, quantity) \/ Dispatch(w, quantity) \/ Arrive(w, quantity)
       \/ \E x \in Warehouses : Transfer(w, x, quantity)
  \/ CopyInventory \/ CopyWarehouseStock \/ LeaveDuplicate

TotalsSpec == TotalsInit /\ [][TotalsNext]_totalsVars

TotalsTypeOK ==
  /\ onHand \in 0..MaxUnits /\ inTransit \in 0..MaxUnits
  /\ located \in [Warehouses -> {NoStockRow} \cup 0..MaxUnits]
  /\ writer \in [Writers ->
       [pc : {"new", "adjust", "adjusted", "adjust ready", "update", "pick", "picked",
              "update ready", "over"},
        warehouse : Warehouses, change : Deltas,
        held : SUBSET (StockRows \cup {VariantRow}),
        missed : SUBSET StockRows,
        total : 0..MaxUnits, row : 0..MaxUnits]]
  /\ parted \in BOOLEAN
  /\ duplicate \in [open : BOOLEAN, total : 0..MaxUnits, parted : BOOLEAN]

(* The two accounts agree, units in transit counted, through any mixture of *)
(* adjustments, updates and transfers, deadlocks and failures included, and *)
(* in a duplicate of the variant too, until somebody writes one of them    *)
(* only, an update puts the whole quantity in one warehouse while others   *)
(* have units, or a variant is duplicated with units in transit or across  *)
(* another request's commit; an update with no unit elsewhere makes them   *)
(* agree again (AdjustInventory, UpdateVariant, DuplicateProduct).  The    *)
(* plain equation of 012_warehouses.sql:49-50 and 88-89, which has no such *)
(* exceptions, is not kept by the code: that is what parted records.       *)
TotalsAgree == ~parted => onHand = InWarehouses + inTransit
=============================================================================
