----------------------------- MODULE Purchasing -----------------------------
(***************************************************************************)
(* Purchase orders: opened as a draft, given items one request at a time,  *)
(* and received, which makes a purchase batch with a batch item for every  *)
(* item of the order.                                                      *)
(*                                                                         *)
(* ReceivePurchaseOrder reads the header and then the items on connections *)
(* of the pool and writes in one read-committed transaction that asks for  *)
(* nothing again.  AddPOItem does not look at the status at all.  Costs    *)
(* are abstracted: they decide no branch but the sign of unit_cost.        *)
(***************************************************************************)
EXTENDS Integers, FiniteSets

CONSTANTS
  NPurchaseOrders,  \* purchase orders are 1..NPurchaseOrders
  NItems,           \* the rows of purchase_order_items are 1..NItems
  NReceipts,        \* ReceivePurchaseOrder requests are 1..NReceipts
  MaxOrdered        \* bound on the quantity of an item

ASSUME PurchasingAssumption ==
  /\ NPurchaseOrders \in Nat \ {0} /\ NItems \in Nat \ {0}
  /\ NReceipts \in Nat /\ MaxOrdered \in Nat \ {0}

VARIABLES
  po,          \* purchase_orders: their status
  poItem,      \* purchase_order_items
  batchItem,   \* batch_items: the item, the receipt and the quantity of each
  receipt,     \* the ReceivePurchaseOrder requests
  unsettled    \* orders that two receipts held at once, or that grew behind one

purchasingVars == <<po, poItem, batchItem, receipt, unsettled>>

PurchaseOrders == 1..NPurchaseOrders
ItemIds        == 1..NItems
Receipts       == 1..NReceipts

POStatuses == {"none", "draft", "sent", "confirmed", "partially_received", "received",
               "cancelled"}
NoItem     == [po |-> 0, quantity |-> 0, receivedQty |-> 0]
NoReceipt  == [pc |-> "new", po |-> 1, items |-> {}]

PurchasingInit ==
  /\ po = [p \in PurchaseOrders |-> "none"]
  /\ poItem = [i \in ItemIds |-> NoItem]
  /\ batchItem = {}
  /\ receipt = [c \in Receipts |-> NoReceipt]
  /\ unsettled = {}

ItemsOf(p)    == {i \in ItemIds : poItem[i].po = p}
Receiving(p)  == {c \in Receipts : receipt[c].po = p /\ receipt[c].pc \in {"header", "read"}}

-----------------------------------------------------------------------------
(* Opening an order                                                        *)

InsertPurchaseOrder(p, status) == [po EXCEPT ![p] = status]

CreatePurchaseOrder(p) ==
  /\ po[p] = "none"
  /\ po' = InsertPurchaseOrder(p, "draft")
  /\ UNCHANGED <<poItem, batchItem, receipt, unsettled>>

InsertPOItem(i, p, n) == [poItem EXCEPT ![i] = [po |-> p, quantity |-> n, receivedQty |-> 0]]

\* Rows are inserted in the order of their numbers.  The check of the quantity
\* and of unit_cost is the range of n; a foreign key asks for the order.
AddPOItem(p, n) ==
  /\ po[p] # "none"
  /\ \E i \in ItemIds :
       /\ poItem[i] = NoItem /\ \A j \in 1..(i - 1) : poItem[j] # NoItem
       /\ poItem' = InsertPOItem(i, p, n)
  /\ unsettled' = IF po[p] = "received" \/ Receiving(p) # {}
                  THEN unsettled \cup {p} ELSE unsettled
  /\ UNCHANGED <<po, batchItem, receipt>>

\* No code writes the other statuses: they are set in the database by hand.
SetPOStatusByHand(p, status) ==
  /\ po[p] \notin {"none", "received"} /\ status \in POStatuses \ {"none", "received", "draft"}
  /\ po[p] # status
  /\ po' = [po EXCEPT ![p] = status]
  /\ UNCHANGED <<poItem, batchItem, receipt, unsettled>>

-----------------------------------------------------------------------------
(* Receiving an order                                                      *)

\* Mutant of MayReceive: an order that was received is received again.
MayReceiveAgain(status) == status # "cancelled"

MayReceive(status) == status \notin {"received", "cancelled"}

\* GetPurchaseOrderByID: the header.
ReadPurchaseOrder(c, p) ==
  /\ receipt[c].pc = "new" /\ \A d \in 1..(c - 1) : receipt[d].pc # "new"
  /\ po[p] # "none" /\ MayReceive(po[p])
  /\ receipt' = [receipt EXCEPT ![c] = [pc |-> "header", po |-> p, items |-> {}]]
  /\ unsettled' = IF Receiving(p) = {} THEN unsettled ELSE unsettled \cup {p}
  /\ UNCHANGED <<po, poItem, batchItem>>

\* The items; an order without any is refused.
GetPOItems(c) ==
  LET items == ItemsOf(receipt[c].po)
  IN  /\ receipt[c].pc = "header"
      /\ receipt' = [receipt EXCEPT ![c].items = items,
                                    ![c].pc = IF items = {} THEN "refused" ELSE "read"]
      /\ UNCHANGED <<po, poItem, batchItem, unsettled>>

\* The mutant of UpdatePOItemReceivedQty: only the first item of the receipt.
UpdateFirstItemReceivedQty(items) ==
  [i \in ItemIds |-> IF i \in items /\ \A j \in items : i <= j
                     THEN [poItem[i] EXCEPT !.receivedQty = @ + poItem[i].quantity]
                     ELSE poItem[i]]

\* A relative update of every item that was read.
UpdatePOItemReceivedQty(items) ==
  [i \in ItemIds |-> IF i \in items
                     THEN [poItem[i] EXCEPT !.receivedQty = @ + poItem[i].quantity]
                     ELSE poItem[i]]

InsertBatchItems(c, items) ==
  batchItem \cup {[item |-> i, receipt |-> c, quantity |-> poItem[i].quantity] : i \in items}

UpdatePOStatus(p, status) == [po EXCEPT ![p] = status]

ReceivePurchaseOrder(c) ==
  /\ receipt[c].pc = "read"
  /\ batchItem' = InsertBatchItems(c, receipt[c].items)
  /\ poItem' = UpdatePOItemReceivedQty(receipt[c].items)
  /\ po' = UpdatePOStatus(receipt[c].po, "received")
  /\ receipt' = [receipt EXCEPT ![c].pc = "received"]
  /\ UNCHANGED unsettled

\* The transaction, or a read before it, fails.
FailReceipt(c) ==
  /\ receipt[c].pc \in {"header", "read"}
  /\ receipt' = [receipt EXCEPT ![c].pc = "refused"]
  /\ UNCHANGED <<po, poItem, batchItem, unsettled>>

-----------------------------------------------------------------------------

PurchasingNext ==
  \/ \E p \in PurchaseOrders : CreatePurchaseOrder(p)
  \/ \E p \in PurchaseOrders, n \in 1..MaxOrdered : AddPOItem(p, n)
  \/ \E p \in PurchaseOrders, status \in POStatuses : SetPOStatusByHand(p, status)
  \/ \E c \in Receipts, p \in PurchaseOrders : ReadPurchaseOrder(c, p)
  \/ \E c \in Receipts : GetPOItems(c) \/ ReceivePurchaseOrder(c) \/ FailReceipt(c)

PurchasingSpec == PurchasingInit /\ [][PurchasingNext]_purchasingVars

PurchasingTypeOK ==
  /\ po \in [PurchaseOrders -> POStatuses]
  /\ poItem \in [ItemIds -> [po : 0..NPurchaseOrders, quantity : Nat, receivedQty : Nat]]
  /\ batchItem \in SUBSET [item : ItemIds, receipt : Receipts, quantity : 1..MaxOrdered]
  /\ receipt \in [Receipts -> [pc : {"new", "header", "read", "received", "refused"},
                               po : PurchaseOrders, items : SUBSET ItemIds]]
  /\ unsettled \in SUBSET PurchaseOrders

(* An order that says "received" was received once and in full: every item *)
(* has received_qty = quantity and one batch item of that quantity.  It    *)
(* may be otherwise only when two receipts held the order at once or an    *)
(* item was added behind one (ReceivePurchaseOrder, AddPOItem).            *)
ReceivedInFull ==
  \A p \in PurchaseOrders \ unsettled :
    po[p] = "received" =>
      \A i \in ItemsOf(p) :
        /\ poItem[i].receivedQty = poItem[i].quantity
        /\ \E c \in Receipts : {b \in batchItem : b.item = i}
                                 = {[item |-> i, receipt |-> c, quantity |-> poItem[i].quantity]}
=============================================================================
