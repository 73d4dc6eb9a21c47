--------------------------- MODULE BackOfficeProofs ---------------------------
(***************************************************************************)
(* The safety of the components around the stock, for any number of rows   *)
(* and requests: a return is booked once and its verdicts rest on photos,  *)
(* a purchase order is received in full, an import reports what it stored, *)
(* a variant has one sale price and keeps what was asked of it.  The last  *)
(* theorems are about all components side by side, those of AccountProofs, *)
(* TradeProofs and InvoicingProofs among them.                             *)
(***************************************************************************)
EXTENDS BackOffice, AccountProofs, TradeProofs, InvoicingProofs

-----------------------------------------------------------------------------
(* Purchasing: the inductive invariant                                     *)

\* An item that was added has an order and a quantity.
ItemsOrdered ==
  \A i \in ItemIds : poItem[i] # NoItem =>
    poItem[i].po \in PurchaseOrders /\ poItem[i].quantity \in 1..MaxOrdered

\* A receipt has no items but those of its order.
ReceiptsOwn ==
  \A c \in Receipts : receipt[c].items \subseteq ItemsOf(receipt[c].po)

\* Of an order that is settled one receipt at most is under way, none once the
\* order is received, and what that receipt has read is what the order has.
OneReceipt ==
  \A p \in PurchaseOrders \ unsettled :
    /\ \A c, d \in Receiving(p) : c = d
    /\ po[p] = "received" => Receiving(p) = {}
    /\ \A c \in Receiving(p) : receipt[c].pc = "read" => receipt[c].items = ItemsOf(p)

\* Nothing has come of a settled order that is not received.
NotYetReceived ==
  /\ \A p \in PurchaseOrders \ unsettled : po[p] # "received" =>
       \A i \in ItemsOf(p) : poItem[i].receivedQty = 0 /\ \A b \in batchItem : b.item # i
  /\ \A b \in batchItem : poItem[b.item] # NoItem

PurchasingInv ==
  /\ PurchasingTypeOK /\ ItemsOrdered /\ ReceiptsOwn /\ OneReceipt /\ NotYetReceived
  /\ ReceivedInFull

-----------------------------------------------------------------------------
(* Import of a goods receipt: the inductive invariant                      *)

GoodUpTo(n) == {i \in 1..n : ValidRow(file.rows[i])}

\* Before the loop nothing is counted, written, stored or answered.
ImportOpens ==
  progress.pc \in {"new", "parsed"} =>
    /\ progress.next = 1 /\ progress.imported = 0 /\ progress.failed = 0 /\ ~progress.aborted
    /\ job.status = "none"

\* In the loop every row that is behind is counted once, as imported when the
\* transaction holds it; a transaction that is not aborted holds the good ones.
ImportLoops ==
  progress.pc = "rows" =>
    /\ progress.next <= Len(file.rows) + 1
    /\ progress.imported = Cardinality(txItems)
    /\ progress.imported + progress.failed = progress.next - 1
    /\ txItems \subseteq GoodUpTo(progress.next - 1)
    /\ ~progress.aborted => txItems = GoodUpTo(progress.next - 1)
    /\ job.status = "processing"

\* What is committed is all that was good.
ImportCommitted ==
  progress.pc = "committed" =>
    /\ stored = GoodUpTo(Len(file.rows))
    /\ progress.imported = Cardinality(stored)
    /\ progress.imported + progress.failed = Len(file.rows)
    /\ job.status = "processing"

\* Until then nothing is stored, and nothing is answered before the end.
ImportSilent ==
  /\ progress.pc \in {"new", "parsed", "rows"} => stored = {}
  /\ progress.pc \in {"new", "parsed"} => txItems = {}
  /\ progress.pc # "over" => reply = "none"
  /\ Len(file.rows) <= MaxRows

ImportInv ==
  /\ ImportTypeOK /\ ImportOpens /\ ImportLoops /\ ImportCommitted /\ ImportSilent
  /\ ImportReportTrue

-----------------------------------------------------------------------------
(* Returns: the inductive invariant                                        *)

\* A return that was booked and never overlapped is closed, and no approval of
\* it is under way; before, one at most is.
BookedIsClosed ==
  \A r \in Returns \ overlapped :
    /\ \A a, b \in UnderWay(r) : a = b
    /\ booked[r] # 0 => UnderWay(r) = {} /\ returnRow[r].status \in {"approved", "rejected"}

\* An upload that compares has its own photo on file, and the outbound one.
UploadsGrounded ==
  \A u \in Uploads :
    LET w == upload[u]
    IN  /\ w.pc \in {"inserted", "compared"} =>
             \E c \in PhotosOf(w.return, w.line, "customer_submitted") : c.hash = w.hash
        /\ w.pc = "compared" =>
             \E o \in PhotosOf(w.return, w.line, "outbound_qc") : o.hash = w.outbound

ReturnsInv ==
  ReturnsTypeOK /\ BookedIsClosed /\ BookedOnce /\ UploadsGrounded /\ VerdictGrounded

-----------------------------------------------------------------------------
(* Variants: the inductive invariant                                       *)

Writing(e) == vedit[e].pc \in {"read", "locked", "switched"}
Holding(e) == vedit[e].pc \in {"locked", "switched"}

VariantRows ==
  [state : {"none", "there", "gone"}, color : Colors \cup {Unset}, image : Urls \cup {Unset},
   media : Urls \cup {Unset}]
WantedRows == [color : Colors \cup {Unset}, image : Urls \cup {Unset}]
VEditRows ==
  [pc : {"new", "read", "locked", "switched", "done", "failed"}, id : Variants,
   row : VariantRows, color : Colors \cup {Omit}, image : Urls \cup {Omit},
   media : Urls \cup {Unset, Omit}, price : 0..MaxPrice, sale : {Omit, Clear, Sale},
   off : SUBSET (0..NVariantEdits)]

\* A request writes a variant that was made, from a row of it.
EditsOfVariants ==
  /\ vedit \in [VariantEdits -> VEditRows] /\ wanted \in [Variants -> WantedRows]
  /\ \A e \in VariantEdits : Writing(e) =>
       variant[vedit[e].id].state # "none" /\ vedit[e].row.state = "there"

\* The row of a variant is locked by one request, whose statement has seen the
\* sales there still are.
SalesHeld ==
  /\ \A e, f \in VariantEdits : Holding(e) /\ Holding(f) /\ vedit[e].id = vedit[f].id => e = f
  /\ \A e \in VariantEdits : vedit[e].pc = "switched" /\ vedit[e].sale # Omit =>
       vedit[e].off = onSale[vedit[e].id]
  /\ \A v \in Variants : \A x, y \in onSale[v] : x = y

\* The row a request has read is the one it will replace, or requests crossed.
ReadIsCurrent ==
  \A e \in VariantEdits : Writing(e) /\ vedit[e].id \notin crossing /\ ThereIs(vedit[e].id) =>
    LET row == vedit[e].row
        held == variant[vedit[e].id]
    IN  row.color = held.color /\ (held.image # Unset => row.image = held.image)

VariantsInv ==
  VariantsTypeOK /\ EditsOfVariants /\ SalesHeld /\ ReadIsCurrent /\ EditsSurvive

-----------------------------------------------------------------------------
(* Purchasing: the proof                                                   *)

POItems == [po : 0..NPurchaseOrders, quantity : Nat, receivedQty : Nat]
ReceiptRows ==
  [pc : {"new", "header", "read", "received", "refused"}, po : PurchaseOrders, items : SUBSET ItemIds]
BatchRows == [item : ItemIds, receipt : Receipts, quantity : 1..MaxOrdered]

LEMMA PurchasingShapes ==
  ASSUME PurchasingInv
  PROVE  /\ po \in [PurchaseOrders -> POStatuses] /\ poItem \in [ItemIds -> POItems]
         /\ batchItem \subseteq BatchRows /\ receipt \in [Receipts -> ReceiptRows]
         /\ unsettled \subseteq PurchaseOrders
  BY DEF PurchasingInv, PurchasingTypeOK, POItems, ReceiptRows, BatchRows

LEMMA PurchasingInitSafe == PurchasingInit => PurchasingInv
<1> SUFFICES ASSUME PurchasingInit PROVE PurchasingInv
  OBVIOUS
<1>1. 1 \in PurchaseOrders /\ 0 \in 0..NPurchaseOrders
  BY PurchasingAssumption DEF PurchaseOrders
<1>2. PurchasingTypeOK
  BY <1>1 DEF PurchasingInit, PurchasingTypeOK, POStatuses, NoItem, NoReceipt
<1>3. ItemsOrdered /\ ReceiptsOwn
  BY DEF PurchasingInit, ItemsOrdered, ReceiptsOwn, NoReceipt
<1>4. OneReceipt
  BY DEF PurchasingInit, OneReceipt, Receiving, NoReceipt
<1>5. NotYetReceived
  BY DEF PurchasingInit, NotYetReceived, ItemsOf, NoItem
<1>6. ReceivedInFull
  BY DEF PurchasingInit, ReceivedInFull
<1> QED
  BY <1>2, <1>3, <1>4, <1>5, <1>6 DEF PurchasingInv

\* An order is opened, or its status is set by hand: to "received" by no one.
LEMMA StatusKeeps ==
  ASSUME PurchasingInv, NEW p \in PurchaseOrders,
         CreatePurchaseOrder(p) \/ \E status \in POStatuses : SetPOStatusByHand(p, status)
  PROVE  PurchasingInv'
<1>1. PICK status \in POStatuses : po' = [po EXCEPT ![p] = status] /\ status # "received"
  BY DEF CreatePurchaseOrder, SetPOStatusByHand, InsertPurchaseOrder, POStatuses
<1>2. po[p] # "received" /\ UNCHANGED <<poItem, batchItem, receipt, unsettled>>
  BY DEF CreatePurchaseOrder, SetPOStatusByHand
<1>3. /\ po' \in [PurchaseOrders -> POStatuses]
      /\ \A q \in PurchaseOrders : po'[q] = "received" <=> po[q] = "received"
  BY <1>1, <1>2, PurchasingShapes
<1>4. PurchasingTypeOK'
  BY <1>2, <1>3 DEF PurchasingInv, PurchasingTypeOK
<1>5. ItemsOrdered' /\ ReceiptsOwn' /\ OneReceipt' /\ NotYetReceived' /\ ReceivedInFull'
  BY <1>2, <1>3 DEF PurchasingInv, ItemsOrdered, ReceiptsOwn, OneReceipt, Receiving, ItemsOf,
                    NotYetReceived, ReceivedInFull
<1> QED
  BY <1>4, <1>5 DEF PurchasingInv

\* An item is added: behind a receipt, its order is no longer settled.
LEMMA AddItemKeeps ==
  ASSUME PurchasingInv, NEW p \in PurchaseOrders, NEW n \in 1..MaxOrdered, AddPOItem(p, n)
  PROVE  PurchasingInv'
<1>1. /\ UNCHANGED <<po, batchItem, receipt>>
      /\ unsettled' = IF po[p] = "received" \/ Receiving(p) # {}
                      THEN unsettled \cup {p} ELSE unsettled
  BY DEF AddPOItem
<1>2. PICK i \in ItemIds :
        /\ poItem[i] = NoItem
        /\ poItem' = [poItem EXCEPT ![i] = [po |-> p, quantity |-> n, receivedQty |-> 0]]
  BY DEF AddPOItem, InsertPOItem
<1> DEFINE row == [po |-> p, quantity |-> n, receivedQty |-> 0]
<1>3. row \in POItems /\ row.po = p /\ row.quantity = n /\ row.receivedQty = 0 /\ p # 0
  BY PurchasingAssumption DEF POItems, PurchaseOrders
<1>4. poItem' = [poItem EXCEPT ![i] = row]
  BY <1>2
<1> HIDE DEF row
<1>5. /\ poItem' \in [ItemIds -> POItems] /\ poItem'[i] = row
      /\ \A j \in ItemIds \ {i} : poItem'[j] = poItem[j]
  BY <1>3, <1>4, PurchasingShapes
<1>6. poItem'[i] # NoItem /\ poItem[i].po = 0
  BY <1>2, <1>3, <1>5 DEF NoItem
<1>7. \A q \in PurchaseOrders : /\ ItemsOf(q) \subseteq ItemIds /\ i \notin ItemsOf(q)
                                /\ q # p => ItemsOf(q)' = ItemsOf(q)
                                /\ ItemsOf(p)' = ItemsOf(p) \cup {i}
  BY <1>3, <1>5, <1>6 DEF ItemsOf, PurchaseOrders
<1>8. /\ unsettled \subseteq unsettled' /\ unsettled' \subseteq PurchaseOrders
      /\ p \notin unsettled' => po[p] # "received" /\ Receiving(p) = {}
  BY <1>1, PurchasingShapes
<1>9. \A b \in batchItem : b.item \in ItemIds /\ b.item # i
  BY <1>2, PurchasingShapes DEF PurchasingInv, NotYetReceived, BatchRows
<1>10. PurchasingTypeOK'
  BY <1>1, <1>5, <1>8 DEF PurchasingInv, PurchasingTypeOK, POItems
<1>11. ItemsOrdered'
  BY <1>3, <1>5 DEF PurchasingInv, ItemsOrdered
<1>12. ReceiptsOwn'
  <2> SUFFICES ASSUME NEW c \in Receipts PROVE receipt[c].items \subseteq ItemsOf(receipt[c].po)'
    BY <1>1 DEF ReceiptsOwn, ItemsOf
  <2>1. receipt[c].po \in PurchaseOrders /\ receipt[c].items \subseteq ItemsOf(receipt[c].po)
    BY PurchasingShapes DEF PurchasingInv, ReceiptsOwn, ReceiptRows
  <2> QED
    BY <1>1, <1>7, <2>1 DEF ItemsOf
<1>13. OneReceipt'
  <2> SUFFICES ASSUME NEW q \in PurchaseOrders \ unsettled'
               PROVE  /\ \A c, d \in Receiving(q) : c = d
                      /\ po[q] = "received" => Receiving(q) = {}
                      /\ \A c \in Receiving(q) : receipt[c].pc = "read" =>
                                                   receipt[c].items = ItemsOf(q)'
    BY <1>1 DEF OneReceipt, Receiving
  <2> QED
    BY <1>7, <1>8 DEF PurchasingInv, OneReceipt
<1>14. NotYetReceived'
  <2>1. \A b \in batchItem : poItem'[b.item] # NoItem
    BY <1>5, <1>9 DEF PurchasingInv, NotYetReceived
  <2>2. ASSUME NEW q \in PurchaseOrders \ unsettled', po[q] # "received", NEW j \in ItemsOf(q)'
        PROVE  poItem'[j].receivedQty = 0 /\ \A b \in batchItem : b.item # j
    <3>1. j = i \/ (j \in ItemsOf(q) /\ j # i)
      BY <1>7, <2>2
    <3> QED
      BY <1>3, <1>5, <1>7, <1>8, <1>9, <2>2, <3>1 DEF PurchasingInv, NotYetReceived
  <2> QED
    BY <1>1, <2>1, <2>2 DEF NotYetReceived
<1>15. ReceivedInFull'
  <2> SUFFICES ASSUME NEW q \in PurchaseOrders \ unsettled', po[q] = "received",
                      NEW j \in ItemsOf(q)'
               PROVE  /\ poItem'[j].receivedQty = poItem'[j].quantity
                      /\ \E c \in Receipts : {b \in batchItem : b.item = j}
                           = {[item |-> j, receipt |-> c, quantity |-> poItem'[j].quantity]}
    BY <1>1 DEF ReceivedInFull
  <2>1. q # p /\ j \in ItemsOf(q) /\ j # i /\ q \notin unsettled
    BY <1>7, <1>8
  <2>2. poItem'[j] = poItem[j]
    BY <1>5, <1>7, <2>1
  <2> QED
    BY <2>1, <2>2 DEF PurchasingInv, ReceivedInFull
<1> QED
  BY <1>10, <1>11, <1>12, <1>13, <1>14, <1>15 DEF PurchasingInv

\* A receipt reads the header of an order that another has read: the order is
\* no longer settled.
LEMMA ReadHeaderKeeps ==
  ASSUME PurchasingInv, NEW c \in Receipts, NEW p \in PurchaseOrders, ReadPurchaseOrder(c, p)
  PROVE  PurchasingInv'
<1>1. /\ receipt[c].pc = "new" /\ po[p] # "received"
      /\ UNCHANGED <<po, poItem, batchItem>>
      /\ receipt' = [receipt EXCEPT ![c] = [pc |-> "header", po |-> p, items |-> {}]]
      /\ unsettled' = IF Receiving(p) = {} THEN unsettled ELSE unsettled \cup {p}
  BY DEF ReadPurchaseOrder, MayReceive
<1>2. /\ receipt' \in [Receipts -> ReceiptRows]
      /\ receipt'[c].pc = "header" /\ receipt'[c].po = p /\ receipt'[c].items = {}
      /\ \A d \in Receipts \ {c} : receipt'[d] = receipt[d]
  BY <1>1, PurchasingShapes DEF ReceiptRows
<1>3. /\ unsettled \subseteq unsettled' /\ unsettled' \subseteq PurchaseOrders
      /\ p \notin unsettled' => Receiving(p) = {}
  BY <1>1, PurchasingShapes
<1>4. \A q \in PurchaseOrders : /\ c \notin Receiving(q) /\ Receiving(q) \subseteq Receipts
                                /\ q # p => Receiving(q)' = Receiving(q)
                                /\ Receiving(p)' = Receiving(p) \cup {c}
  BY <1>1, <1>2 DEF Receiving
<1>5. PurchasingTypeOK'
  BY <1>1, <1>2, <1>3 DEF PurchasingInv, PurchasingTypeOK, ReceiptRows
<1>6. ItemsOrdered' /\ ReceiptsOwn' /\ NotYetReceived' /\ ReceivedInFull'
  BY <1>1, <1>2, <1>3 DEF PurchasingInv, ItemsOrdered, ReceiptsOwn, ItemsOf, NotYetReceived,
                          ReceivedInFull
<1>7. OneReceipt'
  <2> SUFFICES ASSUME NEW q \in PurchaseOrders \ unsettled'
               PROVE  /\ \A d, e \in Receiving(q)' : d = e
                      /\ po[q] = "received" => Receiving(q)' = {}
                      /\ \A d \in Receiving(q)' : receipt'[d].pc = "read" =>
                                                   receipt'[d].items = ItemsOf(q)
    BY <1>1 DEF OneReceipt, ItemsOf
  <2>1. CASE q = p
    BY <1>1, <1>2, <1>3, <1>4, <2>1
  <2>2. CASE q # p
    BY <1>2, <1>3, <1>4, <2>2 DEF PurchasingInv, OneReceipt
  <2> QED BY <2>1, <2>2
<1> QED
  BY <1>5, <1>6, <1>7 DEF PurchasingInv

\* It reads the items, or gives up.
LEMMA ReadItemsKeeps ==
  ASSUME PurchasingInv, NEW c \in Receipts, GetPOItems(c) \/ FailReceipt(c)
  PROVE  PurchasingInv'
<1>1. /\ receipt[c].pc \in {"header", "read"} /\ receipt[c].po \in PurchaseOrders
      /\ UNCHANGED <<po, poItem, batchItem, unsettled>>
      /\ ItemsOf(receipt[c].po) \subseteq ItemIds
      /\ receipt[c].items \subseteq ItemsOf(receipt[c].po)
  BY PurchasingShapes
  DEF GetPOItems, FailReceipt, ReceiptRows, ItemsOf, PurchasingInv, ReceiptsOwn
<1>2. /\ receipt' \in [Receipts -> ReceiptRows]
      /\ receipt'[c].pc \in {"read", "refused"} /\ receipt'[c].po = receipt[c].po
      /\ receipt'[c].items \subseteq ItemsOf(receipt[c].po)
      /\ receipt'[c].pc = "read" => receipt'[c].items = ItemsOf(receipt[c].po)
      /\ \A d \in Receipts \ {c} : receipt'[d] = receipt[d]
  <2>1. CASE GetPOItems(c)
    <3> DEFINE items == ItemsOf(receipt[c].po)
    <3>1. PICK pc \in {"read", "refused"} :
            receipt' = [receipt EXCEPT ![c].items = items, ![c].pc = pc]
      BY <2>1 DEF GetPOItems
    <3>2. items \subseteq ItemIds
      BY <1>1
    <3> HIDE DEF items
    <3>3. /\ receipt' \in [Receipts -> ReceiptRows]
          /\ receipt'[c].pc = pc /\ receipt'[c].po = receipt[c].po /\ receipt'[c].items = items
          /\ \A d \in Receipts \ {c} : receipt'[d] = receipt[d]
      BY <3>1, <3>2, PurchasingShapes DEF ReceiptRows
    <3> QED BY <3>3 DEF items
  <2>2. CASE FailReceipt(c)
    <3>1. receipt' = [receipt EXCEPT ![c].pc = "refused"]
      BY <2>2 DEF FailReceipt
    <3>2. /\ receipt' \in [Receipts -> ReceiptRows]
          /\ receipt'[c].pc = "refused" /\ receipt'[c].po = receipt[c].po
          /\ receipt'[c].items = receipt[c].items
          /\ \A d \in Receipts \ {c} : receipt'[d] = receipt[d]
      BY <3>1, PurchasingShapes DEF ReceiptRows
    <3> QED BY <1>1, <3>2
  <2> QED BY <2>1, <2>2
<1>3. \A q \in PurchaseOrders : Receiving(q)' \subseteq Receiving(q)
  BY <1>1, <1>2 DEF Receiving
<1>4. PurchasingTypeOK'
  BY <1>1, <1>2 DEF PurchasingInv, PurchasingTypeOK, ReceiptRows
<1>5. ItemsOrdered' /\ ReceiptsOwn' /\ NotYetReceived' /\ ReceivedInFull'
  BY <1>1, <1>2 DEF PurchasingInv, ItemsOrdered, ReceiptsOwn, ItemsOf, NotYetReceived,
                    ReceivedInFull
<1>6. OneReceipt'
  <2> SUFFICES ASSUME NEW q \in PurchaseOrders \ unsettled
               PROVE  /\ \A d, e \in Receiving(q)' : d = e
                      /\ po[q] = "received" => Receiving(q)' = {}
                      /\ \A d \in Receiving(q)' : receipt'[d].pc = "read" =>
                                                   receipt'[d].items = ItemsOf(q)
    BY <1>1 DEF OneReceipt, ItemsOf
  <2>1. ASSUME NEW d \in Receiving(q)', receipt'[d].pc = "read"
        PROVE  receipt'[d].items = ItemsOf(q)
    <3>1. CASE d = c
      BY <1>2, <2>1, <3>1 DEF Receiving
    <3>2. CASE d # c
      BY <1>2, <1>3, <2>1, <3>2 DEF PurchasingInv, OneReceipt, Receiving
    <3> QED BY <3>1, <3>2
  <2> QED
    BY <1>3, <2>1 DEF PurchasingInv, OneReceipt
<1> QED
  BY <1>4, <1>5, <1>6 DEF PurchasingInv

\* The transaction of the receipt: every item of a settled order gets its
\* quantity and its only batch item.
LEMMA ReceiveKeeps ==
  ASSUME PurchasingInv, NEW c \in Receipts, ReceivePurchaseOrder(c)
  PROVE  PurchasingInv'
<1>0. PICK p \in PurchaseOrders, items \in SUBSET ItemIds :
        receipt[c].po = p /\ receipt[c].items = items
  BY PurchasingShapes DEF ReceiptRows
<1> DEFINE new == {[item |-> i, receipt |-> c, quantity |-> poItem[i].quantity] : i \in items}
<1>1. /\ receipt[c].pc = "read" /\ c \in Receiving(p)
      /\ items \subseteq ItemsOf(p)
  BY <1>0 DEF ReceivePurchaseOrder, PurchasingInv, ReceiptsOwn, Receiving
<1>2. /\ batchItem' = batchItem \cup new
      /\ poItem' = [i \in ItemIds |-> IF i \in items
                      THEN [poItem[i] EXCEPT !.receivedQty = @ + poItem[i].quantity]
                      ELSE poItem[i]]
      /\ po' = [po EXCEPT ![p] = "received"]
      /\ receipt' = [receipt EXCEPT ![c].pc = "received"]
      /\ UNCHANGED unsettled
  BY <1>0 DEF ReceivePurchaseOrder, InsertBatchItems, UpdatePOItemReceivedQty, UpdatePOStatus
<1>3. \A i \in items : /\ poItem[i] # NoItem /\ poItem[i].quantity \in 1..MaxOrdered
                       /\ poItem[i].po = p
  <2>1. \A i \in items : poItem[i].po = p /\ p # 0
    BY <1>1, PurchasingAssumption DEF ItemsOf, PurchaseOrders
  <2> QED
    BY <1>1, <2>1 DEF PurchasingInv, ItemsOrdered, NoItem
<1>4. /\ poItem' \in [ItemIds -> POItems]
      /\ \A i \in ItemIds : /\ poItem'[i].po = poItem[i].po
                            /\ poItem'[i].quantity = poItem[i].quantity
      /\ \A i \in items : poItem'[i].receivedQty = poItem[i].receivedQty + poItem[i].quantity
      /\ \A i \in ItemIds \ items : poItem'[i] = poItem[i]
  <2>1. \A i \in ItemIds : poItem[i] \in POItems
    BY PurchasingShapes
  <2>2. \A i \in ItemIds : poItem[i].receivedQty + poItem[i].quantity \in Nat
    BY <2>1 DEF POItems
  <2>3. \A i \in ItemIds :
          LET row == [poItem[i] EXCEPT !.receivedQty = poItem[i].receivedQty + poItem[i].quantity]
          IN  /\ row \in POItems /\ row.po = poItem[i].po /\ row.quantity = poItem[i].quantity
              /\ row.receivedQty = poItem[i].receivedQty + poItem[i].quantity
    BY <2>1, <2>2 DEF POItems
  <2>4. poItem' = [i \in ItemIds |-> IF i \in items
                     THEN [poItem[i] EXCEPT !.receivedQty =
                             poItem[i].receivedQty + poItem[i].quantity]
                     ELSE poItem[i]]
    BY <1>2
  <2> QED
    BY <1>1, <2>1, <2>3, <2>4
<1>5. /\ po' \in [PurchaseOrders -> POStatuses] /\ po'[p] = "received"
      /\ \A q \in PurchaseOrders \ {p} : po'[q] = po[q]
  BY <1>1, <1>2, PurchasingShapes DEF POStatuses
<1>6. /\ receipt' \in [Receipts -> ReceiptRows] /\ receipt'[c].pc = "received"
      /\ \A d \in Receipts : /\ receipt'[d].po = receipt[d].po
                             /\ receipt'[d].items = receipt[d].items
      /\ \A d \in Receipts \ {c} : receipt'[d] = receipt[d]
  BY <1>2, PurchasingShapes DEF ReceiptRows
<1>7. /\ new \subseteq BatchRows
      /\ \A b \in new : b.item \in items
      /\ \A i \in items : {b \in new : b.item = i}
                            = {[item |-> i, receipt |-> c, quantity |-> poItem[i].quantity]}
  BY <1>1, <1>3 DEF BatchRows
<1> HIDE DEF new
<1>8. /\ \A q \in PurchaseOrders : ItemsOf(q)' = ItemsOf(q)
      /\ \A q \in PurchaseOrders : Receiving(q)' = Receiving(q) \ {c}
  BY <1>1, <1>4, <1>6 DEF ItemsOf, Receiving
<1>9. p \notin unsettled => /\ po[p] # "received" /\ items = ItemsOf(p) /\ Receiving(p)' = {}
                            /\ \A i \in items : /\ poItem[i].receivedQty = 0
                                                /\ \A b \in batchItem : b.item # i
  <2> SUFFICES ASSUME p \notin unsettled
               PROVE  /\ po[p] # "received" /\ items = ItemsOf(p) /\ Receiving(p)' = {}
                      /\ \A i \in items : /\ poItem[i].receivedQty = 0
                                          /\ \A b \in batchItem : b.item # i
    OBVIOUS
  <2>1. po[p] # "received" /\ items = ItemsOf(p)
    BY <1>0, <1>1 DEF PurchasingInv, OneReceipt
  <2>2. Receiving(p)' = {}
    BY <1>1, <1>8 DEF PurchasingInv, OneReceipt
  <2> QED
    BY <2>1, <2>2 DEF PurchasingInv, NotYetReceived
<1>10. \A i \in ItemIds : poItem[i] # NoItem => poItem'[i] # NoItem
  BY <1>3, <1>4, PurchasingAssumption DEF PurchasingInv, ItemsOrdered, NoItem, PurchaseOrders
<1>11. PurchasingTypeOK'
  BY <1>2, <1>4, <1>5, <1>6, <1>7, PurchasingShapes
  DEF PurchasingInv, PurchasingTypeOK, POItems, ReceiptRows, BatchRows
<1>12. ItemsOrdered'
  BY <1>3, <1>4 DEF PurchasingInv, ItemsOrdered
<1>13. ReceiptsOwn'
  BY <1>6, <1>8, PurchasingShapes DEF PurchasingInv, ReceiptsOwn, ReceiptRows
<1>14. OneReceipt'
  <2> SUFFICES ASSUME NEW q \in PurchaseOrders \ unsettled
               PROVE  /\ \A d, e \in Receiving(q)' : d = e
                      /\ po'[q] = "received" => Receiving(q)' = {}
                      /\ \A d \in Receiving(q)' : receipt'[d].pc = "read" =>
                                                   receipt'[d].items = ItemsOf(q)'
    BY <1>2 DEF OneReceipt
  <2>1. CASE q = p
    BY <1>9, <2>1
  <2>2. CASE q # p
    BY <1>5, <1>6, <1>8, <2>2 DEF PurchasingInv, OneReceipt, Receiving
  <2> QED BY <2>1, <2>2
<1>15. NotYetReceived'
  <2>1. \A b \in batchItem' : poItem'[b.item] # NoItem
    BY <1>1, <1>2, <1>3, <1>7, <1>10, PurchasingShapes DEF PurchasingInv, NotYetReceived, BatchRows
  <2>2. ASSUME NEW q \in PurchaseOrders \ unsettled, po'[q] # "received", NEW i \in ItemsOf(q)'
        PROVE  poItem'[i].receivedQty = 0 /\ \A b \in batchItem' : b.item # i
    <3>1. q # p /\ i \in ItemsOf(q) /\ i \notin items
      BY <1>3, <1>5, <1>8, <2>2 DEF ItemsOf
    <3> QED
      BY <1>2, <1>4, <1>5, <1>7, <2>2, <3>1 DEF PurchasingInv, NotYetReceived, ItemsOf
  <2> QED
    BY <1>2, <2>1, <2>2 DEF NotYetReceived
<1>16. ReceivedInFull'
  <2> SUFFICES ASSUME NEW q \in PurchaseOrders \ unsettled, po'[q] = "received",
                      NEW i \in ItemsOf(q)
               PROVE  /\ poItem'[i].receivedQty = poItem'[i].quantity
                      /\ \E d \in Receipts : {b \in batchItem' : b.item = i}
                           = {[item |-> i, receipt |-> d, quantity |-> poItem'[i].quantity]}
    BY <1>2, <1>8 DEF ReceivedInFull
  <2>1. CASE q = p
    <3>1. i \in items /\ i \in ItemIds
      BY <1>1, <1>9, <2>1
    <3>2. poItem[i].receivedQty = 0 /\ \A b \in batchItem : b.item # i
      BY <1>9, <2>1, <3>1
    <3>3. poItem'[i].quantity = poItem[i].quantity /\ poItem'[i].receivedQty = poItem[i].quantity
      BY <1>3, <1>4, <3>1, <3>2
    <3>4. {b \in batchItem' : b.item = i} = {b \in new : b.item = i}
      BY <1>2, <3>2
    <3> QED
      BY <1>7, <3>1, <3>3, <3>4
  <2>2. CASE q # p
    <3>1. i \in ItemIds \ items /\ poItem[i].po = q
      BY <1>3, <2>2 DEF ItemsOf
    <3>2. poItem'[i] = poItem[i] /\ po[q] = "received"
      BY <1>4, <1>5, <2>2, <3>1
    <3>3. {b \in batchItem' : b.item = i} = {b \in batchItem : b.item = i}
      BY <1>2, <1>7, <3>1
    <3> QED
      BY <3>2, <3>3 DEF PurchasingInv, ReceivedInFull
  <2> QED BY <2>1, <2>2
<1> QED
  BY <1>11, <1>12, <1>13, <1>14, <1>15, <1>16 DEF PurchasingInv

\* Every step of the purchase orders and their receipts keeps PurchasingInv.
THEOREM PurchasingInductive == PurchasingInv /\ [PurchasingNext]_purchasingVars => PurchasingInv'
<1> SUFFICES ASSUME PurchasingInv, [PurchasingNext]_purchasingVars PROVE PurchasingInv'
  OBVIOUS
<1>1. ASSUME NEW p \in PurchaseOrders,
             CreatePurchaseOrder(p) \/ \E status \in POStatuses : SetPOStatusByHand(p, status)
      PROVE  PurchasingInv'
  BY <1>1, StatusKeeps
<1>2. ASSUME NEW p \in PurchaseOrders, NEW n \in 1..MaxOrdered, AddPOItem(p, n)
      PROVE  PurchasingInv'
  BY <1>2, AddItemKeeps
<1>3. ASSUME NEW c \in Receipts, NEW p \in PurchaseOrders, ReadPurchaseOrder(c, p)
      PROVE  PurchasingInv'
  BY <1>3, ReadHeaderKeeps
<1>4. ASSUME NEW c \in Receipts, GetPOItems(c) \/ ReceivePurchaseOrder(c) \/ FailReceipt(c)
      PROVE  PurchasingInv'
  BY <1>4, ReadItemsKeeps, ReceiveKeeps
<1>5. CASE UNCHANGED purchasingVars
  <2>1. UNCHANGED <<po, poItem, batchItem, receipt, unsettled>>
    BY <1>5 DEF purchasingVars
  <2> QED
    BY <2>1 DEF PurchasingInv, PurchasingTypeOK, ItemsOrdered, ReceiptsOwn, OneReceipt, Receiving,
                ItemsOf, NotYetReceived, ReceivedInFull
<1> QED
  BY <1>1, <1>2, <1>3, <1>4, <1>5 DEF PurchasingNext

\* PurchasingInv holds in every state.
THEOREM PurchasingInvHolds == PurchasingSpec => []PurchasingInv
  BY PurchasingInitSafe, PurchasingInductive, PTL DEF PurchasingSpec

\* An order that says "received" was received once and in full, whatever
\* receipts and additions interleave (ReceivePurchaseOrder, AddPOItem).
THEOREM OrdersAreReceivedInFull == PurchasingSpec => []ReceivedInFull
<1>1. PurchasingInv => ReceivedInFull
  BY DEF PurchasingInv
<1> QED
  BY <1>1, PurchasingInvHolds, PTL

-----------------------------------------------------------------------------
(* Import of a goods receipt: the proof                                    *)

ProgressRows ==
  [pc : {"new", "parsed", "rows", "committed", "over"}, next : 1..(MaxRows + 1),
   imported : 0..MaxRows, failed : 0..MaxRows, aborted : BOOLEAN]
JobRows ==
  [status : {"none", "processing", "completed", "failed"}, imported : 0..MaxRows,
   failed : 0..(MaxRows + MaxUnparsed)]

LEMMA ImportShapes ==
  ASSUME ImportInv
  PROVE  /\ file \in [rows : Seq(Rows), unparsed : 0..MaxUnparsed] /\ job \in JobRows
         /\ progress \in ProgressRows
         /\ txItems \subseteq 1..MaxRows /\ stored \subseteq 1..MaxRows /\ reply \in Replies
         /\ file.rows \in Seq(Rows) /\ Len(file.rows) \in Nat /\ Len(file.rows) <= MaxRows
         /\ MaxRows \in Nat /\ MaxUnparsed \in Nat
  BY BatchImportAssumption DEF ImportInv, ImportTypeOK, ImportSilent, ProgressRows, JobRows

\* The rows of a prefix are counted by no more than the rows of the file.
LEMMA RowsCounted ==
  ASSUME NEW n \in Nat, NEW S, S \subseteq 1..n
  PROVE  /\ IsFiniteSet(S) /\ Cardinality(S) \in 0..n
         /\ \A i \in Nat : i > n => Cardinality(S \cup {i}) = Cardinality(S) + 1
<1>1. IsFiniteSet(1..n) /\ Cardinality(1..n) = n
  BY FS_Interval
<1>2. IsFiniteSet(S) /\ Cardinality(S) <= n /\ Cardinality(S) \in Nat
  BY <1>1, FS_Subset, FS_CardinalityType
<1>3. \A i \in Nat : i > n => Cardinality(S \cup {i}) = Cardinality(S) + 1
  <2> SUFFICES ASSUME NEW i \in Nat, i > n PROVE Cardinality(S \cup {i}) = Cardinality(S) + 1
    OBVIOUS
  <2>1. i \notin S
    OBVIOUS
  <2> QED
    BY <1>2, <2>1, FS_AddElement
<1> QED
  BY <1>2, <1>3

LEMMA ImportInitSafe == ImportInit => ImportInv
<1> SUFFICES ASSUME ImportInit PROVE ImportInv
  OBVIOUS
<1>1. /\ file.rows = <<>> /\ file.unparsed = 0 /\ job.status = "none" /\ job.imported = 0
      /\ job.failed = 0 /\ progress.pc = "new" /\ progress.next = 1 /\ progress.imported = 0
      /\ progress.failed = 0 /\ ~progress.aborted /\ txItems = {} /\ stored = {} /\ reply = "none"
  BY DEF ImportInit, NoFile, NoJob, AtStart
<1>2. ImportTypeOK
  BY BatchImportAssumption
  DEF ImportInit, NoFile, NoJob, AtStart, ImportTypeOK, Replies
<1>3. ImportOpens /\ ImportLoops /\ ImportCommitted /\ ImportSilent
  BY <1>1, BatchImportAssumption DEF ImportOpens, ImportLoops, ImportCommitted, ImportSilent
<1>4. ImportReportTrue
  BY <1>1 DEF ImportReportTrue
<1> QED
  BY <1>2, <1>3, <1>4 DEF ImportInv

\* While the file stays, so do the rows that are good in it.
LEMMA GoodRowsStay ==
  ASSUME ImportInv, UNCHANGED file
  PROVE  /\ GoodRows' = GoodRows
         /\ GoodUpTo(Len(file.rows))' = GoodUpTo(Len(file.rows))
         /\ GoodUpTo(Len(file.rows)) = GoodRows
  BY ImportShapes DEF GoodRows, GoodUpTo

\* The import ends before it has a job or rows in the database, or its
\* transaction is rolled back.
LEMMA GiveUpKeeps ==
  ASSUME ImportInv, RefuseFile \/ FailImport \/ CrashImport
  PROVE  ImportInv'
<1>1. /\ progress.pc \in {"new", "parsed", "rows", "committed"}
      /\ progress' = [progress EXCEPT !.pc = "over"]
      /\ UNCHANGED <<file, job, stored>> /\ txItems' \subseteq txItems
      /\ reply' \in {"400", "415", "422", "lost"}
      /\ progress.pc = "committed" => reply' = "lost"
  BY DEF RefuseFile, FailImport, CrashImport
<1>2. progress' \in ProgressRows /\ progress'.pc = "over"
  BY <1>1, ImportShapes DEF ProgressRows
<1>3. ImportTypeOK'
  BY <1>1, <1>2, ImportShapes DEF ImportInv, ImportTypeOK, ProgressRows, Replies
<1>4. ImportOpens' /\ ImportLoops' /\ ImportCommitted' /\ ImportSilent'
  BY <1>1, <1>2, ImportShapes DEF ImportOpens, ImportLoops, ImportCommitted, ImportSilent
<1>5. job.status \in {"none", "processing"}
  BY <1>1 DEF ImportInv, ImportOpens, ImportLoops, ImportCommitted
<1>6. progress.pc # "committed" => stored = {}
  BY <1>1 DEF ImportInv, ImportSilent
<1>7. ImportReportTrue'
  BY <1>1, <1>5, <1>6, GoodRowsStay DEF ImportInv, ImportReportTrue
<1> QED
  BY <1>3, <1>4, <1>7 DEF ImportInv

LEMMA ParseKeeps ==
  ASSUME ImportInv, ImportFromCSV \/ ImportFromJSON
  PROVE  ImportInv'
<1>1. /\ progress.pc = "new" /\ progress' = [progress EXCEPT !.pc = "parsed"]
      /\ UNCHANGED <<job, txItems, stored, reply>>
  BY DEF ImportFromCSV, ImportFromJSON
<1>2a. PICK n \in 0..MaxRows, unparsed \in 0..MaxUnparsed :
         \E rows \in [1..n -> Rows] : file' = [rows |-> rows, unparsed |-> unparsed]
  BY BatchImportAssumption DEF ImportFromCSV, ImportFromJSON
<1>2. PICK rows \in [1..n -> Rows] : file' = [rows |-> rows, unparsed |-> unparsed]
  BY <1>2a
<1>3. rows \in Seq(Rows) /\ Len(rows) = n
  BY <1>2, ImportShapes
<1>4. /\ file' \in [rows : Seq(Rows), unparsed : 0..MaxUnparsed]
      /\ Len(file'.rows) <= MaxRows
  BY <1>2, <1>3, ImportShapes
<1>5. /\ progress' \in ProgressRows /\ progress'.pc = "parsed"
      /\ progress'.next = progress.next /\ progress'.imported = progress.imported
      /\ progress'.failed = progress.failed /\ progress'.aborted = progress.aborted
  BY <1>1, ImportShapes DEF ProgressRows
<1>6. ImportTypeOK'
  BY <1>1, <1>4, <1>5, ImportShapes DEF ImportInv, ImportTypeOK, ProgressRows
<1>7. ImportOpens' /\ ImportLoops' /\ ImportCommitted' /\ ImportSilent'
  BY <1>1, <1>4, <1>5
  DEF ImportInv, ImportOpens, ImportLoops, ImportCommitted, ImportSilent
<1>8. job.status = "none" /\ reply = "none" /\ stored = {}
  BY <1>1 DEF ImportInv, ImportOpens, ImportSilent
<1>9. ImportReportTrue'
  BY <1>1, <1>8 DEF ImportReportTrue
<1> QED
  BY <1>6, <1>7, <1>9 DEF ImportInv

LEMMA CreateJobKeeps ==
  ASSUME ImportInv, CreateJob
  PROVE  ImportInv'
<1>1. /\ progress.pc = "parsed" /\ progress' = [progress EXCEPT !.pc = "rows"]
      /\ job' = [status |-> "processing", imported |-> 0, failed |-> file.unparsed]
      /\ UNCHANGED <<file, txItems, stored, reply>>
  BY DEF CreateJob, NewJob
<1>2. /\ progress' \in ProgressRows /\ progress'.pc = "rows" /\ progress'.next = 1
      /\ progress'.imported = 0 /\ progress'.failed = 0 /\ ~progress'.aborted
  BY <1>1, ImportShapes DEF ProgressRows, ImportInv, ImportOpens
<1>3. job' \in JobRows /\ job'.status = "processing"
  BY <1>1, ImportShapes DEF JobRows
<1>4. ImportTypeOK'
  BY <1>1, <1>2, <1>3, ImportShapes DEF ImportInv, ImportTypeOK, ProgressRows, JobRows
<1>5. /\ txItems = {} /\ stored = {} /\ reply = "none" /\ Len(file.rows) \in Nat
      /\ Cardinality(txItems) = 0 /\ GoodUpTo(0)' = {}
  <2>1. txItems = {} /\ stored = {} /\ reply = "none"
    BY <1>1 DEF ImportInv, ImportSilent
  <2>2. GoodUpTo(0)' = {}
    BY DEF GoodUpTo
  <2> QED
    BY <2>1, <2>2, ImportShapes, FS_EmptySet
<1>6. ImportLoops'
  BY <1>1, <1>2, <1>3, <1>5 DEF ImportLoops
<1>7. ImportOpens' /\ ImportCommitted' /\ ImportSilent'
  BY <1>1, <1>2, <1>5 DEF ImportInv, ImportOpens, ImportCommitted, ImportSilent
<1>8. ImportReportTrue'
  BY <1>1, <1>3, <1>5 DEF ImportReportTrue
<1> QED
  BY <1>4, <1>6, <1>7, <1>8 DEF ImportInv

\* A row is counted once: as imported with its batch item in the transaction,
\* or as failed; a good row fails only where the transaction is then aborted.
LEMMA ProcessRowKeeps ==
  ASSUME ImportInv, ProcessRow
  PROVE  ImportInv'
<1>1. PICK i \in 1..(MaxRows + 1) : progress.next = i
  BY ImportShapes DEF ProgressRows
<1>2. PICK row \in Rows : file.rows[i] = row
  <2>1. i <= Len(file.rows)
    BY <1>1 DEF ProcessRow
  <2> QED
    BY <1>1, <2>1, ImportShapes
<1>3. PICK aborted \in BOOLEAN :
        aborted = (progress.aborted \/ (ValidRow(row) /\ ~InsertBatchItem(row)))
  <2>1. (progress.aborted \/ (ValidRow(row) /\ ~InsertBatchItem(row))) \in BOOLEAN
    OBVIOUS
  <2> QED BY <2>1, Zenon
<1>4. /\ progress.pc = "rows" /\ i <= Len(file.rows) /\ UNCHANGED <<file, job, stored, reply>>
      /\ txItems' = IF RowImported(row) THEN txItems \cup {i} ELSE txItems
      /\ progress' = [progress EXCEPT
           !.next = i + 1,
           !.imported = IF RowImported(row) THEN @ + 1 ELSE @,
           !.failed = IF RowImported(row) THEN @ ELSE @ + 1,
           !.aborted = aborted]
  <2>1. /\ progress.pc = "rows" /\ i <= Len(file.rows) /\ UNCHANGED <<file, job, stored, reply>>
        /\ txItems' = IF RowImported(row) THEN txItems \cup {i} ELSE txItems
    BY <1>1, <1>2 DEF ProcessRow
  <2>2. progress' = [progress EXCEPT
           !.next = i + 1,
           !.imported = IF RowImported(row) THEN @ + 1 ELSE @,
           !.failed = IF RowImported(row) THEN @ ELSE @ + 1,
           !.aborted = @ \/ (ValidRow(row) /\ ~InsertBatchItem(row))]
    BY <1>1, <1>2 DEF ProcessRow
  <2>3. progress' = [progress EXCEPT
           !.next = i + 1,
           !.imported = IF RowImported(row) THEN @ + 1 ELSE @,
           !.failed = IF RowImported(row) THEN @ ELSE @ + 1,
           !.aborted = aborted]
    BY <1>3, <2>2, Zenon
  <2> QED BY <2>1, <2>3
<1>5. /\ progress.imported \in Nat /\ progress.failed \in Nat
      /\ progress.imported + progress.failed = i - 1
      /\ progress.imported = Cardinality(txItems) /\ txItems \subseteq GoodUpTo(i - 1)
      /\ ~progress.aborted => txItems = GoodUpTo(i - 1)
      /\ job.status = "processing" /\ stored = {} /\ reply = "none"
      /\ i <= MaxRows
  BY <1>1, <1>4, ImportShapes DEF ImportInv, ImportLoops, ImportSilent, ProgressRows
<1>6. /\ progress' \in ProgressRows /\ progress'.pc = "rows" /\ progress'.next = i + 1
      /\ RowImported(row) => /\ progress'.imported = progress.imported + 1
                             /\ progress'.failed = progress.failed
      /\ ~RowImported(row) => /\ progress'.imported = progress.imported
                              /\ progress'.failed = progress.failed + 1
      /\ progress'.aborted = aborted
  <2>1. PICK imported \in 0..MaxRows, failed \in 0..MaxRows :
          /\ imported = IF RowImported(row) THEN progress.imported + 1 ELSE progress.imported
          /\ failed = IF RowImported(row) THEN progress.failed ELSE progress.failed + 1
    <3>0. /\ progress.imported \in 0..MaxRows /\ progress.imported + 1 \in 0..MaxRows
          /\ progress.failed \in 0..MaxRows /\ progress.failed + 1 \in 0..MaxRows
      <4>1. i \in Nat /\ MaxRows \in Nat
        BY BatchImportAssumption
      <4>2. /\ progress.imported \in Nat /\ progress.failed \in Nat /\ i <= MaxRows
            /\ progress.imported + progress.failed = i - 1
        BY <1>5
      <4> QED BY <4>1, <4>2
    <3>1. CASE RowImported(row)
      BY <3>0, <3>1
    <3>2. CASE ~RowImported(row)
      BY <3>0, <3>2
    <3> QED BY <3>1, <3>2
  <2>2. progress' = [progress EXCEPT !.next = i + 1, !.imported = imported, !.failed = failed,
                                     !.aborted = aborted]
    BY <1>4, <2>1
  <2>3. /\ progress' \in ProgressRows /\ progress'.pc = "rows" /\ progress'.next = i + 1
        /\ progress'.imported = imported /\ progress'.failed = failed
        /\ progress'.aborted = aborted
    <3>1. PICK next \in 1..(MaxRows + 1) : next = i + 1
      BY <1>5, ImportShapes
    <3>2. progress' = [progress EXCEPT !.next = next, !.imported = imported, !.failed = failed,
                                       !.aborted = aborted]
      BY <2>2, <3>1
    <3> QED
      BY <1>4, <3>1, <3>2, ImportShapes DEF ProgressRows
  <2> QED BY <2>1, <2>3
<1>7. /\ \A n \in Nat : GoodUpTo(n)' = GoodUpTo(n) /\ GoodUpTo(n) \subseteq 1..n
      /\ ValidRow(row) => GoodUpTo(i) = GoodUpTo(i - 1) \cup {i}
      /\ ~ValidRow(row) => GoodUpTo(i) = GoodUpTo(i - 1)
      /\ GoodUpTo(i - 1) \subseteq GoodUpTo(i)
  <2>1. \A n \in Nat : GoodUpTo(n)' = GoodUpTo(n) /\ GoodUpTo(n) \subseteq 1..n
    BY <1>4 DEF GoodUpTo
  <2>2. 1..i = 1..(i - 1) \cup {i}
    OBVIOUS
  <2> QED
    BY <1>2, <2>1, <2>2 DEF GoodUpTo
<1>8. /\ txItems' \subseteq GoodUpTo(i) /\ progress'.imported = Cardinality(txItems')
      /\ progress'.imported + progress'.failed = i
      /\ ~aborted => txItems' = GoodUpTo(i)
  <2>1. CASE RowImported(row)
    <3>1. txItems' = txItems \cup {i} /\ ValidRow(row) /\ ~progress.aborted
      BY <1>4, <2>1 DEF RowImported, InsertBatchItem
    <3>2. i - 1 \in Nat /\ i \in Nat /\ i > i - 1 /\ txItems \subseteq 1..(i - 1)
      BY <1>5, <1>7
    <3>3. Cardinality(txItems \cup {i}) = Cardinality(txItems) + 1
      BY <3>2, RowsCounted
    <3> QED
      BY <1>5, <1>6, <1>7, <2>1, <3>1, <3>3
  <2>2. CASE ~RowImported(row)
    <3>1. txItems' = txItems /\ (~aborted => ~ValidRow(row) /\ ~progress.aborted)
      BY <1>3, <1>4, <2>2 DEF RowImported
    <3> QED
      BY <1>5, <1>6, <1>7, <2>2, <3>1
  <2> QED BY <2>1, <2>2
<1>9. ImportTypeOK'
  <2>1. GoodUpTo(i) \subseteq 1..MaxRows
    BY <1>5, <1>7, ImportShapes
  <2> QED
    BY <1>4, <1>6, <1>8, <2>1, ImportShapes DEF ImportInv, ImportTypeOK, ProgressRows
<1>10. ImportLoops'
  <2>1. progress'.next - 1 = i /\ i \in Nat /\ progress'.next <= Len(file.rows) + 1
    BY <1>4, <1>6, ImportShapes
  <2>2. GoodUpTo(progress.next - 1)' = GoodUpTo(i)
    BY <1>4, <2>1 DEF GoodUpTo
  <2> QED
    BY <1>4, <1>5, <1>6, <1>8, <2>1, <2>2 DEF ImportLoops
<1>11. ImportOpens' /\ ImportCommitted' /\ ImportSilent'
  BY <1>4, <1>5, <1>6, ImportShapes DEF ImportOpens, ImportCommitted, ImportSilent
<1>12. ImportReportTrue'
  BY <1>4, <1>5, GoodRowsStay DEF ImportReportTrue
<1> QED
  BY <1>9, <1>10, <1>11, <1>12 DEF ImportInv

\* A transaction that commits has held every good row, to the last.
LEMMA CommitKeeps ==
  ASSUME ImportInv, Commit
  PROVE  ImportInv'
<1>1. /\ progress.pc = "rows" /\ progress.next > Len(file.rows) /\ UNCHANGED <<file, job>>
      /\ stored' = IF progress.aborted THEN {} ELSE txItems
      /\ txItems' = {}
      /\ progress' = [progress EXCEPT !.pc = IF progress.aborted THEN "over" ELSE "committed"]
      /\ reply' = IF progress.aborted THEN "422" ELSE "none"
  BY DEF Commit, Commits
<1>2. /\ progress.next - 1 = Len(file.rows) /\ job.status = "processing"
      /\ progress.imported = Cardinality(txItems)
      /\ progress.imported + progress.failed = Len(file.rows)
      /\ ~progress.aborted => txItems = GoodUpTo(Len(file.rows))
  <2>1. progress.next \in Nat /\ progress.next <= Len(file.rows) + 1
    BY <1>1, ImportShapes DEF ProgressRows, ImportInv, ImportLoops
  <2>2. progress.next - 1 = Len(file.rows)
    BY <1>1, <2>1, ImportShapes
  <2> QED
    BY <1>1, <2>2 DEF ImportInv, ImportLoops
<1>3. /\ progress' \in ProgressRows
      /\ progress'.pc = IF progress.aborted THEN "over" ELSE "committed"
      /\ progress'.imported = progress.imported /\ progress'.failed = progress.failed
  BY <1>1, ImportShapes DEF ProgressRows
<1>4. ImportTypeOK'
  BY <1>1, <1>3, ImportShapes DEF ImportInv, ImportTypeOK, ProgressRows, Replies
<1>5. GoodUpTo(Len(file.rows))' = GoodUpTo(Len(file.rows))
  BY <1>1 DEF GoodUpTo
<1>6. ImportCommitted'
  BY <1>1, <1>2, <1>3, <1>5 DEF ImportCommitted
<1>7. ImportOpens' /\ ImportLoops' /\ ImportSilent'
  BY <1>1, <1>3, ImportShapes DEF ImportOpens, ImportLoops, ImportSilent
<1>8. ImportReportTrue'
  BY <1>1, <1>2, GoodRowsStay DEF ImportReportTrue
<1> QED
  BY <1>4, <1>6, <1>7, <1>8 DEF ImportInv

\* The reply of a commit that took place is lost: the rows are there, and the
\* job is left as it was when they were read.
LEMMA LoseCommitReplyKeeps ==
  ASSUME ImportInv, LoseCommitReply
  PROVE  ImportInv'
<1>1. /\ progress.pc = "rows" /\ progress.next > Len(file.rows) /\ ~progress.aborted
      /\ UNCHANGED <<file, job>> /\ stored' = txItems /\ txItems' = {} /\ reply' = "422"
      /\ progress' = [progress EXCEPT !.pc = "over"]
  BY DEF LoseCommitReply
<1>2. job.status = "processing" /\ txItems = GoodUpTo(Len(file.rows))
  <2>1. progress.next \in Nat /\ progress.next <= Len(file.rows) + 1
    BY <1>1, ImportShapes DEF ProgressRows, ImportInv, ImportLoops
  <2>2. progress.next - 1 = Len(file.rows)
    BY <1>1, <2>1, ImportShapes
  <2> QED
    BY <1>1, <2>2 DEF ImportInv, ImportLoops
<1>3. progress' \in ProgressRows /\ progress'.pc = "over"
  BY <1>1, ImportShapes DEF ProgressRows
<1>4. ImportTypeOK'
  BY <1>1, <1>3, ImportShapes DEF ImportInv, ImportTypeOK, ProgressRows, Replies
<1>5. ImportOpens' /\ ImportLoops' /\ ImportCommitted' /\ ImportSilent'
  BY <1>1, <1>3, ImportShapes DEF ImportOpens, ImportLoops, ImportCommitted, ImportSilent
<1>6. ImportReportTrue'
  BY <1>1, <1>2, GoodRowsStay DEF ImportReportTrue
<1> QED
  BY <1>4, <1>5, <1>6 DEF ImportInv

\* The answer and the job tell what is committed.
LEMMA FinishImportKeeps ==
  ASSUME ImportInv, FinishImport
  PROVE  ImportInv'
<1>1. /\ progress.pc = "committed" /\ progress' = [progress EXCEPT !.pc = "over"]
      /\ UNCHANGED <<file, txItems, stored>> /\ reply' = ReplyStatus
      /\ job' = FinishedJob \/ job' = job
  BY DEF FinishImport
<1>2. /\ progress.imported \in 0..MaxRows /\ progress.failed \in 0..MaxRows
      /\ stored = GoodUpTo(Len(file.rows)) /\ progress.imported = Cardinality(stored)
      /\ progress.imported + progress.failed = Len(file.rows) /\ job.status = "processing"
  BY <1>1, ImportShapes DEF ImportInv, ImportCommitted, ProgressRows
<1>3. GoodUpTo(Len(file.rows)) = {i \in DOMAIN file.rows : ValidRow(file.rows[i])}
  BY ImportShapes DEF GoodUpTo
<1>4. progress.imported = 0 => stored = {}
  <2>1. Len(file.rows) \in Nat /\ stored \subseteq 1..Len(file.rows)
    BY <1>2, ImportShapes DEF GoodUpTo
  <2>2. IsFiniteSet(stored)
    BY <2>1, RowsCounted
  <2> QED
    BY <1>2, <2>2, FS_EmptySet
<1>5. progress' \in ProgressRows /\ progress'.pc = "over"
  BY <1>1, ImportShapes DEF ProgressRows
<1>6. /\ job' \in JobRows
      /\ job'.status \in {"completed", "failed"} => job'.imported = Cardinality(stored)
      /\ job'.status = "failed" => stored = {}
  <2>1. CASE job' = job
    BY <1>2, <2>1, ImportShapes
  <2>2. CASE job' = FinishedJob
    <3>1. PICK status \in {"completed", "failed"} :
            /\ status = JobStatus /\ (status = "failed" => progress.failed = TotalRows)
      BY DEF JobStatus
    <3>2. job' = [status |-> status, imported |-> progress.imported, failed |-> progress.failed]
      BY <2>2, <3>1 DEF FinishedJob
    <3>3. status = "failed" => progress.imported = 0
      BY <1>2, <3>1, ImportShapes DEF TotalRows
    <3>4. /\ job' \in JobRows /\ job'.status = status
          /\ job'.imported = progress.imported
      BY <1>2, <3>2, ImportShapes DEF JobRows
    <3> QED BY <1>2, <1>4, <3>3, <3>4
  <2> QED BY <1>1, <2>1, <2>2
<1>7. /\ reply' \in {"422", "207", "201"}
      /\ reply' = "422" => progress.imported = 0
  BY <1>1 DEF ReplyStatus
<1>8. ImportTypeOK'
  BY <1>1, <1>5, <1>6, <1>7 DEF ImportInv, ImportTypeOK, ProgressRows, JobRows, Replies
<1>9. ImportOpens' /\ ImportLoops' /\ ImportCommitted' /\ ImportSilent'
  BY <1>1, <1>5, ImportShapes DEF ImportOpens, ImportLoops, ImportCommitted, ImportSilent
<1>10. ImportReportTrue'
  <2>1. \A i \in DOMAIN file.rows : ValidRow(file.rows[i])' <=> ValidRow(file.rows[i])
    BY <1>1 DEF ValidRow
  <2> QED
    BY <1>1, <1>2, <1>3, <1>4, <1>6, <1>7, <2>1, GoodRowsStay DEF ImportReportTrue
<1> QED
  BY <1>8, <1>9, <1>10 DEF ImportInv

\* Every step of an import keeps ImportInv.
THEOREM ImportInductive == ImportInv /\ [ImportNext]_importVars => ImportInv'
<1> SUFFICES ASSUME ImportInv, [ImportNext]_importVars PROVE ImportInv'
  OBVIOUS
<1>1. CASE UNCHANGED importVars
  <2>1. UNCHANGED <<file, job, progress, txItems, stored, reply>>
    BY <1>1 DEF importVars
  <2> QED
    BY <2>1 DEF ImportInv, ImportTypeOK, ImportOpens, ImportLoops, ImportCommitted, ImportSilent,
                ImportReportTrue, GoodUpTo, GoodRows
<1> QED
  BY <1>1, GiveUpKeeps, ParseKeeps, CreateJobKeeps, ProcessRowKeeps, CommitKeeps,
     LoseCommitReplyKeeps, FinishImportKeeps DEF ImportNext

\* ImportInv holds in every state.
THEOREM ImportInvHolds == ImportSpec => []ImportInv
  BY ImportInitSafe, ImportInductive, PTL DEF ImportSpec

\* What the client and the job are told is what was stored, wherever the
\* database aborts, the server stops or the commit's reply is lost; only a 422
\* with a job that is still processing leaves it open (runImport, ImportBatch).
THEOREM ImportsTellTheTruth == ImportSpec => []ImportReportTrue
<1>1. ImportInv => ImportReportTrue
  BY DEF ImportInv
<1> QED
  BY <1>1, ImportInvHolds, PTL

-----------------------------------------------------------------------------
(* Returns: the proof                                                      *)

Lines == [condition : Conditions, qc : Verdicts, cogs : BOOLEAN]
ReturnRows == [status : ReturnStatuses, resolved : BOOLEAN, lines : Seq(Lines)]
PhotoRows ==
  [return : Returns, line : 1..MaxLines, type : PhotoTypes, hash : Hashes, at : Uploads]
ApprovalRows == [pc : {"new", "read", "over"}, return : Returns, costed : BOOLEAN]
UploadRows ==
  [pc : {"new", "inserted", "compared", "over"}, return : Returns, line : 1..MaxLines,
   hash : Hashes \cup {NoHash}, outbound : Hashes \cup {NoHash}]

LEMMA ReturnShapes ==
  ASSUME ReturnsInv
  PROVE  /\ returnRow \in [Returns -> ReturnRows] /\ photo \subseteq PhotoRows
         /\ returnStock \in Nat /\ approval \in [Approvals -> ApprovalRows]
         /\ upload \in [Uploads -> UploadRows] /\ booked \in [Returns -> Nat]
         /\ overlapped \subseteq Returns
  BY DEF ReturnsInv, ReturnsTypeOK, Lines, ReturnRows, PhotoRows, ApprovalRows, UploadRows

LEMMA ReturnsInitSafe == ReturnsInit => ReturnsInv
<1> SUFFICES ASSUME ReturnsInit PROVE ReturnsInv
  OBVIOUS
<1>1. 1 \in Returns /\ 1 \in 1..MaxLines /\ FirstOnHand \in Nat
  BY ReturnsAssumption DEF Returns
<1>2. /\ NoReturn \in ReturnRows /\ NoReturn.lines = <<>>
      /\ NoApproval \in ApprovalRows /\ NoApproval.pc = "new"
      /\ NoUpload \in UploadRows /\ NoUpload.pc = "new"
  BY <1>1 DEF NoReturn, ReturnRows, ReturnStatuses, NoApproval, ApprovalRows, NoUpload, UploadRows
<1>3. ReturnsTypeOK
  BY <1>1, <1>2 DEF ReturnsInit, ReturnsTypeOK, Lines, ReturnRows, ApprovalRows, UploadRows
<1>4. BookedIsClosed /\ BookedOnce
  BY <1>2 DEF ReturnsInit, BookedIsClosed, UnderWay, BookedOnce
<1>5. UploadsGrounded
  BY <1>2 DEF ReturnsInit, UploadsGrounded
<1>6. VerdictGrounded
  BY <1>2 DEF ReturnsInit, VerdictGrounded
<1> QED
  BY <1>3, <1>4, <1>5, <1>6 DEF ReturnsInv

\* Photos stay on file, so what rests on them goes on to.
LEMMA GroundsKept ==
  ASSUME ReturnsInv, photo \subseteq photo'
  PROVE  /\ \A r, i, type : PhotosOf(r, i, type) \subseteq PhotosOf(r, i, type)'
         /\ UNCHANGED upload => UploadsGrounded'
         /\ (\A r \in Returns : \A i \in DOMAIN returnRow'[r].lines :
               \/ returnRow'[r].lines[i].qc = "none"
               \/ /\ i \in DOMAIN returnRow[r].lines
                  /\ returnRow'[r].lines[i].qc = returnRow[r].lines[i].qc)
            => VerdictGrounded'
<1>1. \A r, i, type : PhotosOf(r, i, type) \subseteq PhotosOf(r, i, type)'
  BY DEF PhotosOf
<1>2. UNCHANGED upload => UploadsGrounded'
  BY <1>1 DEF ReturnsInv, UploadsGrounded
<1>3. ASSUME \A r \in Returns : \A i \in DOMAIN returnRow'[r].lines :
               \/ returnRow'[r].lines[i].qc = "none"
               \/ /\ i \in DOMAIN returnRow[r].lines
                  /\ returnRow'[r].lines[i].qc = returnRow[r].lines[i].qc
      PROVE  VerdictGrounded'
  <2> SUFFICES ASSUME NEW r \in Returns, NEW i \in DOMAIN returnRow'[r].lines,
                      returnRow'[r].lines[i].qc # "none"
               PROVE  \E c \in PhotosOf(r, i, "customer_submitted")',
                         o \in PhotosOf(r, i, "outbound_qc")' :
                        (returnRow'[r].lines[i].qc = "passed") <=> (c.hash = o.hash)
    BY DEF VerdictGrounded
  <2>1. /\ i \in DOMAIN returnRow[r].lines
        /\ returnRow'[r].lines[i].qc = returnRow[r].lines[i].qc
    BY <1>3
  <2>2. PICK c \in PhotosOf(r, i, "customer_submitted"), o \in PhotosOf(r, i, "outbound_qc") :
          (returnRow[r].lines[i].qc = "passed") <=> (c.hash = o.hash)
    BY <2>1 DEF ReturnsInv, VerdictGrounded
  <2> QED
    BY <1>1, <2>1, <2>2
<1> QED
  BY <1>1, <1>2, <1>3

\* A return is opened with lines that no verdict is on.
LEMMA CreateReturnKeeps ==
  ASSUME ReturnsInv, NEW r \in Returns, CreateReturn(r)
  PROVE  ReturnsInv'
<1>1. /\ returnRow[r].status = "none"
      /\ UNCHANGED <<photo, returnStock, approval, upload, booked, overlapped>>
  BY DEF CreateReturn
<1>2. PICK n \in 1..MaxLines : \E conditions \in [1..n -> Conditions] :
        returnRow' = InsertReturn(r, InsertReturnItem(conditions))
  BY DEF CreateReturn
<1>3. PICK conditions \in [1..n -> Conditions] :
        returnRow' = InsertReturn(r, InsertReturnItem(conditions))
  BY <1>2
<1> DEFINE lines == [i \in DOMAIN conditions |-> NewLine(conditions[i])]
           row == [status |-> "pending", resolved |-> FALSE, lines |-> lines]
<1>4. /\ lines \in Seq(Lines) /\ \A i \in DOMAIN lines : lines[i].qc = "none"
  <2>1. \A i \in 1..n : NewLine(conditions[i]) \in Lines /\ NewLine(conditions[i]).qc = "none"
    BY DEF NewLine, Lines, Verdicts
  <2>2. n \in Nat /\ DOMAIN conditions = 1..n
    BY ReturnsAssumption
  <2> QED
    BY <2>1, <2>2
<1>5. returnRow' = [returnRow EXCEPT ![r] = row]
  BY <1>3 DEF InsertReturn, InsertReturnItem
<1> HIDE DEF lines
<1>6. row \in ReturnRows /\ row.lines = lines
  BY <1>4 DEF ReturnRows, ReturnStatuses
<1> HIDE DEF row
<1>7. /\ returnRow' \in [Returns -> ReturnRows] /\ returnRow'[r] = row
      /\ \A s \in Returns \ {r} : returnRow'[s] = returnRow[s]
  BY <1>5, <1>6, ReturnShapes
<1>8. ReturnsTypeOK'
  BY <1>1, <1>7, ReturnShapes DEF ReturnsInv, ReturnsTypeOK, ReturnRows, Lines
<1>9. BookedIsClosed' /\ BookedOnce'
  BY <1>1, <1>7 DEF ReturnsInv, BookedIsClosed, BookedOnce, UnderWay
<1>10. UploadsGrounded' /\ VerdictGrounded'
  BY <1>1, <1>4, <1>6, <1>7, GroundsKept
<1> QED
  BY <1>8, <1>9, <1>10 DEF ReturnsInv

\* A return is moved by hand while it is open, or rejected at any time.
LEMMA MoveOrRejectKeeps ==
  ASSUME ReturnsInv, NEW r \in Returns, MoveByHand(r) \/ RejectReturn(r)
  PROVE  ReturnsInv'
<1>1. UNCHANGED <<photo, returnStock, approval, upload, booked, overlapped>>
  BY DEF MoveByHand, RejectReturn
<1>2. PICK status \in {"received", "qc_review", "rejected"}, resolved \in BOOLEAN :
        /\ returnRow' = [returnRow EXCEPT ![r].status = status, ![r].resolved = resolved]
        /\ status # "rejected" => returnRow[r].status \in {"pending", "received"}
  <2>1. returnRow[r].resolved \in BOOLEAN
    BY ReturnShapes DEF ReturnRows
  <2>2. CASE MoveByHand(r)
    <3>1. PICK status \in {"received", "qc_review"} :
            /\ returnRow' = [returnRow EXCEPT ![r].status = status]
            /\ returnRow[r].status \in {"pending", "received"}
      BY <2>2 DEF MoveByHand
    <3>2. returnRow' = [returnRow EXCEPT ![r].status = status,
                                         ![r].resolved = returnRow[r].resolved]
      BY <3>1, ReturnShapes DEF ReturnRows
    <3> QED BY <2>1, <3>1, <3>2
  <2>3. CASE RejectReturn(r)
    <3>1. returnRow' = [returnRow EXCEPT ![r] =
                          [returnRow[r] EXCEPT !.status = "rejected", !.resolved = TRUE]]
      BY <2>3 DEF RejectReturn, UpdateReturnStatus
    <3>2. returnRow' = [returnRow EXCEPT ![r].status = "rejected", ![r].resolved = TRUE]
      BY <3>1, ReturnShapes DEF ReturnRows
    <3> QED BY <3>2
  <2> QED BY <2>2, <2>3
<1>3. /\ returnRow' \in [Returns -> ReturnRows]
      /\ returnRow'[r].status = status /\ returnRow'[r].lines = returnRow[r].lines
      /\ \A s \in Returns \ {r} : returnRow'[s] = returnRow[s]
  BY <1>2, ReturnShapes DEF ReturnRows, ReturnStatuses
<1>4. ReturnsTypeOK'
  BY <1>1, <1>3, ReturnShapes DEF ReturnsInv, ReturnsTypeOK, ReturnRows, Lines
<1>5. BookedIsClosed' /\ BookedOnce'
  BY <1>1, <1>2, <1>3 DEF ReturnsInv, BookedIsClosed, BookedOnce, UnderWay
<1>6. UploadsGrounded' /\ VerdictGrounded'
  BY <1>1, <1>3, GroundsKept
<1> QED
  BY <1>4, <1>5, <1>6 DEF ReturnsInv

\* A photo is put on file, and compared if it is the customer's.
LEMMA InsertPhotoKeeps ==
  ASSUME ReturnsInv, NEW u \in Uploads, NEW r \in Returns, NEW i \in 1..MaxLines,
         NEW type \in PhotoTypes, NEW h \in Hashes, InsertReturnPhoto(u, r, i, type, h)
  PROVE  ReturnsInv'
<1> DEFINE new == [return |-> r, line |-> i, type |-> type, hash |-> h, at |-> u]
<1>1. /\ UNCHANGED <<returnRow, returnStock, approval, booked, overlapped>>
      /\ photo' = photo \cup {new}
  BY DEF InsertReturnPhoto, PhotoRow
<1>2. PICK pc \in {"inserted", "over"} :
        /\ pc = "inserted" => type = "customer_submitted"
        /\ upload' = [upload EXCEPT ![u] = [pc |-> pc, return |-> r, line |-> i, hash |-> h,
                                            outbound |-> NoHash]]
  BY DEF InsertReturnPhoto, ComparesType
<1>3. /\ new \in PhotoRows /\ new.return = r /\ new.line = i /\ new.type = type /\ new.hash = h
  BY DEF PhotoRows
<1> HIDE DEF new
<1>4. /\ upload' \in [Uploads -> UploadRows]
      /\ upload'[u].pc = pc /\ upload'[u].return = r /\ upload'[u].line = i
      /\ upload'[u].hash = h
      /\ \A v \in Uploads \ {u} : upload'[v] = upload[v]
  BY <1>2, ReturnShapes DEF UploadRows
<1>5. ReturnsTypeOK'
  BY <1>1, <1>3, <1>4, ReturnShapes DEF ReturnsInv, ReturnsTypeOK, PhotoRows, UploadRows
<1>6. BookedIsClosed' /\ BookedOnce'
  BY <1>1 DEF ReturnsInv, BookedIsClosed, BookedOnce, UnderWay
<1>7. VerdictGrounded'
  BY <1>1, GroundsKept
<1>8. UploadsGrounded'
  <2> SUFFICES ASSUME NEW v \in Uploads
               PROVE  /\ upload'[v].pc \in {"inserted", "compared"} =>
                           \E c \in photo' :
                             /\ c.return = upload'[v].return /\ c.line = upload'[v].line
                             /\ c.type = "customer_submitted" /\ c.hash = upload'[v].hash
                      /\ upload'[v].pc = "compared" =>
                           \E o \in photo' :
                             /\ o.return = upload'[v].return /\ o.line = upload'[v].line
                             /\ o.type = "outbound_qc" /\ o.hash = upload'[v].outbound
    BY DEF UploadsGrounded, PhotosOf
  <2>1. CASE v = u
    BY <1>1, <1>2, <1>3, <1>4, <2>1
  <2>2. CASE v # u
    BY <1>1, <1>4, <2>2 DEF ReturnsInv, UploadsGrounded, PhotosOf
  <2> QED BY <2>1, <2>2
<1> QED
  BY <1>5, <1>6, <1>7, <1>8 DEF ReturnsInv

\* The newest of some photos is one of them.
LEMMA NewestIsOne ==
  ASSUME NEW P, \A p \in P : p.at \in Uploads, P # {}
  PROVE  (CHOOSE p \in P : \A q \in P : q.at <= p.at) \in P
<1>1. NUploads \in Nat
  BY ReturnsAssumption
<1> DEFINE T == {NUploads - p.at : p \in P}
<1>2. T \subseteq Nat /\ T # {}
  BY <1>1 DEF Uploads
<1>3. PICK x \in T : \A y \in T : ~(y < x)
  BY <1>2, NatMin
<1>4. PICK p \in P : x = NUploads - p.at
  BY <1>3
<1>5. \A q \in P : q.at <= p.at
  <2> SUFFICES ASSUME NEW q \in P PROVE q.at <= p.at
    OBVIOUS
  <2>1. ~(NUploads - q.at < NUploads - p.at)
    BY <1>3, <1>4
  <2>2. q.at \in 1..NUploads /\ p.at \in 1..NUploads
    BY DEF Uploads
  <2> QED
    BY <1>1, <2>1, <2>2
<1> QED
  BY <1>5

\* An upload reads the outbound photo of its line, stores its verdict, or fails.
LEMMA UploadStepKeeps ==
  ASSUME ReturnsInv, NEW u \in Uploads, ReadOutbound(u) \/ FailUpload(u)
  PROVE  ReturnsInv'
<1>1. /\ upload[u].pc \in {"inserted", "compared"}
      /\ UNCHANGED <<returnRow, photo, returnStock, approval, booked, overlapped>>
  BY DEF ReadOutbound, FailUpload
<1>2. PICK r \in Returns, i \in 1..MaxLines : upload[u].return = r /\ upload[u].line = i
  BY ReturnShapes DEF UploadRows
<1>3. /\ upload' \in [Uploads -> UploadRows]
      /\ upload'[u].pc \in {"compared", "over"}
      /\ upload'[u].return = r /\ upload'[u].line = i /\ upload'[u].hash = upload[u].hash
      /\ \A v \in Uploads \ {u} : upload'[v] = upload[v]
      /\ upload'[u].pc = "compared" =>
           \E o \in PhotosOf(r, i, "outbound_qc") : o.hash = upload'[u].outbound
  <2>1. CASE FailUpload(u)
    <3>1. upload' = [upload EXCEPT ![u].pc = "over"]
      BY <2>1 DEF FailUpload
    <3> QED BY <1>2, <3>1, ReturnShapes DEF UploadRows
  <2>2. CASE ReadOutbound(u)
    <3> DEFINE P == PhotosOf(r, i, "outbound_qc")
    <3>1. \A p \in P : p.at \in Uploads /\ p.hash \in Hashes
      BY ReturnShapes DEF PhotosOf, PhotoRows
    <3>2. PICK hash \in Hashes \cup {NoHash} :
            /\ hash = GetOutboundQCHash(r, i)
            /\ hash # NoHash => \E o \in P : o.hash = hash
      <4>1. CASE P = {}
        BY <4>1 DEF GetOutboundQCHash
      <4>2. CASE P # {}
        <5> DEFINE o == CHOOSE p \in P : \A q \in P : q.at <= p.at
        <5>1. o \in P
          BY <3>1, <4>2, NewestIsOne
        <5>2. GetOutboundQCHash(r, i) = o.hash
          BY <4>2 DEF GetOutboundQCHash
        <5> HIDE DEF o, P
        <5> QED BY <3>1, <5>1, <5>2
      <4> QED BY <4>1, <4>2
    <3> HIDE DEF P
    <3>3. PICK pc \in {"compared", "over"} :
            /\ upload' = [upload EXCEPT ![u].outbound = hash, ![u].pc = pc]
            /\ pc = "compared" => hash # NoHash
      BY <1>2, <2>2, <3>2 DEF ReadOutbound
    <3>4. /\ upload' \in [Uploads -> UploadRows]
          /\ upload'[u].pc = pc /\ upload'[u].outbound = hash
          /\ upload'[u].return = r /\ upload'[u].line = i /\ upload'[u].hash = upload[u].hash
          /\ \A v \in Uploads \ {u} : upload'[v] = upload[v]
      BY <1>2, <3>3, ReturnShapes DEF UploadRows
    <3> QED BY <3>2, <3>3, <3>4 DEF P
  <2> QED BY <2>1, <2>2
<1>4. ReturnsTypeOK'
  BY <1>1, <1>3, ReturnShapes DEF ReturnsInv, ReturnsTypeOK, UploadRows
<1>5. BookedIsClosed' /\ BookedOnce'
  BY <1>1 DEF ReturnsInv, BookedIsClosed, BookedOnce, UnderWay
<1>6. VerdictGrounded' /\ \A s, j, t : PhotosOf(s, j, t)' = PhotosOf(s, j, t)
  BY <1>1, GroundsKept DEF PhotosOf
<1>7. UploadsGrounded'
  <2> SUFFICES ASSUME NEW v \in Uploads
               PROVE  /\ upload'[v].pc \in {"inserted", "compared"} =>
                           \E c \in PhotosOf(upload'[v].return, upload'[v].line,
                                             "customer_submitted") :
                             c.hash = upload'[v].hash
                      /\ upload'[v].pc = "compared" =>
                           \E o \in PhotosOf(upload'[v].return, upload'[v].line, "outbound_qc") :
                             o.hash = upload'[v].outbound
    BY <1>1 DEF UploadsGrounded, PhotosOf
  <2>1. CASE v = u
    BY <1>1, <1>2, <1>3, <2>1 DEF ReturnsInv, UploadsGrounded
  <2>2. CASE v # u
    <3>1. upload'[v] = upload[v]
      BY <1>3, <2>2
    <3> QED BY <3>1 DEF ReturnsInv, UploadsGrounded
  <2> QED BY <2>1, <2>2
<1> QED
  BY <1>4, <1>5, <1>6, <1>7 DEF ReturnsInv

\* The verdict that is stored is the one of the two photos that were compared.
LEMMA StoreVerdictKeeps ==
  ASSUME ReturnsInv, NEW u \in Uploads, StoreVerdict(u)
  PROVE  ReturnsInv'
<1>1. /\ upload[u].pc = "compared" /\ upload' = [upload EXCEPT ![u].pc = "over"]
      /\ UNCHANGED <<photo, returnStock, approval, booked, overlapped>>
  BY DEF StoreVerdict
<1>2. PICK r \in Returns, i \in 1..MaxLines : upload[u].return = r /\ upload[u].line = i
  BY ReturnShapes DEF UploadRows
<1>3. PICK verdict \in {"passed", "failed"} :
        /\ verdict = Verdict(u)
        /\ (verdict = "passed") <=> (upload[u].hash = upload[u].outbound)
  BY DEF Verdict
<1>4. returnRow' = [returnRow EXCEPT ![r].lines[i].qc = verdict]
  BY <1>2, <1>3 DEF StoreVerdict, UpdateReturnItemQC
<1>5. PICK lines \in Seq(Lines) : returnRow[r].lines = lines
  BY ReturnShapes DEF ReturnRows
<1> DEFINE judged == [lines EXCEPT ![i].qc = verdict]
<1>6. /\ judged \in Seq(Lines) /\ DOMAIN judged = DOMAIN lines
      /\ \A j \in DOMAIN lines : judged[j].qc = IF j = i THEN verdict ELSE lines[j].qc
  <2>1. Len(lines) \in Nat /\ lines \in [1..Len(lines) -> Lines]
    OBVIOUS
  <2>2. verdict \in Verdicts
    BY DEF Verdicts
  <2>3. judged \in [1..Len(lines) -> Lines]
    BY <2>1, <2>2 DEF Lines
  <2>4. \A j \in DOMAIN lines : judged[j].qc = IF j = i THEN verdict ELSE lines[j].qc
    BY <2>1 DEF Lines
  <2> QED
    BY <2>1, <2>3, <2>4
<1>7. /\ returnRow' \in [Returns -> ReturnRows]
      /\ returnRow'[r].lines = judged /\ returnRow'[r].status = returnRow[r].status
      /\ \A s \in Returns \ {r} : returnRow'[s] = returnRow[s]
  <2>1. returnRow' = [returnRow EXCEPT ![r].lines = judged]
    BY <1>4, <1>5, ReturnShapes DEF ReturnRows
  <2> HIDE DEF judged
  <2> QED
    BY <1>6, <2>1, ReturnShapes DEF ReturnRows
<1> HIDE DEF judged
<1>8. /\ upload' \in [Uploads -> UploadRows] /\ upload'[u].pc = "over"
      /\ \A v \in Uploads \ {u} : upload'[v] = upload[v]
  BY <1>1, ReturnShapes DEF UploadRows
<1>9. ReturnsTypeOK'
  BY <1>1, <1>7, <1>8, ReturnShapes DEF ReturnsInv, ReturnsTypeOK, ReturnRows, Lines, UploadRows
<1>10. BookedIsClosed' /\ BookedOnce'
  BY <1>1, <1>7 DEF ReturnsInv, BookedIsClosed, BookedOnce, UnderWay
<1>11. \A s, j, t : PhotosOf(s, j, t)' = PhotosOf(s, j, t)
  BY <1>1 DEF PhotosOf
<1>12. UploadsGrounded'
  BY <1>8, <1>11 DEF ReturnsInv, UploadsGrounded
<1>13. VerdictGrounded'
  <2> SUFFICES ASSUME NEW s \in Returns, NEW j \in DOMAIN returnRow'[s].lines,
                      returnRow'[s].lines[j].qc # "none"
               PROVE  \E c \in PhotosOf(s, j, "customer_submitted"),
                         o \in PhotosOf(s, j, "outbound_qc") :
                        (returnRow'[s].lines[j].qc = "passed") <=> (c.hash = o.hash)
    BY <1>11 DEF VerdictGrounded
  <2>1. CASE s = r /\ j = i
    <3>1. returnRow'[s].lines[j].qc = verdict
      BY <1>6, <1>7, <2>1
    <3>2. PICK c \in PhotosOf(r, i, "customer_submitted"), o \in PhotosOf(r, i, "outbound_qc") :
            c.hash = upload[u].hash /\ o.hash = upload[u].outbound
      BY <1>1, <1>2 DEF ReturnsInv, UploadsGrounded
    <3> QED BY <1>3, <2>1, <3>1, <3>2
  <2>2. CASE ~(s = r /\ j = i)
    <3>1. j \in DOMAIN returnRow[s].lines /\ returnRow'[s].lines[j].qc = returnRow[s].lines[j].qc
      BY <1>5, <1>6, <1>7, <2>2
    <3> QED BY <3>1 DEF ReturnsInv, VerdictGrounded
  <2> QED BY <2>1, <2>2
<1> QED
  BY <1>9, <1>10, <1>12, <1>13 DEF ReturnsInv

\* An approval reads a return: a second one at once makes it overlap.
LEMMA ApprovalReadKeeps ==
  ASSUME ReturnsInv, NEW a \in Approvals, NEW r \in Returns, NEW costed \in BOOLEAN,
         ReadForApproval(a, r, costed)
  PROVE  ReturnsInv'
<1>1. /\ approval[a].pc = "new" /\ returnRow[r].status \in {"received", "qc_review"}
      /\ approval' = [approval EXCEPT ![a] = [pc |-> "read", return |-> r, costed |-> costed]]
      /\ overlapped' = IF UnderWay(r) = {} THEN overlapped ELSE overlapped \cup {r}
      /\ UNCHANGED <<returnRow, photo, returnStock, upload, booked>>
  BY DEF ReadForApproval, MayApprove
<1>2. /\ approval' \in [Approvals -> ApprovalRows]
      /\ approval'[a].pc = "read" /\ approval'[a].return = r
      /\ \A b \in Approvals \ {a} : approval'[b] = approval[b]
  BY <1>1, ReturnShapes DEF ApprovalRows
<1>3. /\ overlapped \subseteq overlapped' /\ overlapped' \subseteq Returns
      /\ r \notin overlapped' => UnderWay(r) = {}
  BY <1>1, ReturnShapes
<1>4. ReturnsTypeOK'
  BY <1>1, <1>2, <1>3 DEF ReturnsInv, ReturnsTypeOK, ApprovalRows
<1>5. UploadsGrounded' /\ VerdictGrounded'
  BY <1>1, GroundsKept
<1>6. \A s \in Returns : /\ s # r => UnderWay(s)' = UnderWay(s)
                         /\ UnderWay(r)' = UnderWay(r) \cup {a}
  BY <1>1, <1>2 DEF UnderWay
<1>7. BookedIsClosed'
  <2> SUFFICES ASSUME NEW s \in Returns \ overlapped'
               PROVE  /\ \A b, d \in UnderWay(s)' : b = d
                      /\ booked[s] # 0 => /\ UnderWay(s)' = {}
                                          /\ returnRow[s].status \in {"approved", "rejected"}
    BY <1>1 DEF BookedIsClosed
  <2>1. CASE s = r
    BY <1>1, <1>3, <1>6, <2>1 DEF ReturnsInv, BookedIsClosed
  <2>2. CASE s # r
    BY <1>3, <1>6, <2>2 DEF ReturnsInv, BookedIsClosed
  <2> QED BY <2>1, <2>2
<1>8. BookedOnce'
  BY <1>1, <1>3 DEF ReturnsInv, BookedOnce
<1> QED
  BY <1>4, <1>5, <1>7, <1>8 DEF ReturnsInv

\* What lines do to the stock is a number.
LEMMA DeltaIsInt ==
  ASSUME NEW lines, NEW n \in Nat
  PROVE  DeltaTo(lines, n) \in Int /\ DeltaTo(lines, 0) = 0
<1> DEFINE good(k) == {i \in 1..k : lines[i].condition = "good"}
           bad(k) == {i \in 1..k : lines[i].condition # "good"}
<1>1. Cardinality(good(n)) \in Nat /\ Cardinality(bad(n)) \in Nat
  <2>1. good(n) \subseteq 1..n /\ bad(n) \subseteq 1..n
    OBVIOUS
  <2> HIDE DEF good, bad
  <2>2. Cardinality(good(n)) \in 0..n /\ Cardinality(bad(n)) \in 0..n
    BY <2>1, RowsCounted
  <2> QED BY <2>2
<1>2. good(0) = {} /\ bad(0) = {}
  OBVIOUS
<1>3. DeltaTo(lines, n) = Cardinality(good(n)) - Cardinality(bad(n))
      /\ DeltaTo(lines, 0) = Cardinality(good(0)) - Cardinality(bad(0))
  BY DEF DeltaTo
<1> HIDE DEF good, bad
<1> QED
  BY <1>1, <1>2, <1>3, FS_EmptySet

\* The approval that books, or gives up.
LEMMA ApproveKeeps ==
  ASSUME ReturnsInv, NEW a \in Approvals, ApproveReturn(a) \/ FailApproval(a)
  PROVE  ReturnsInv'
<1>1. /\ approval[a].pc = "read" /\ approval' = [approval EXCEPT ![a].pc = "over"]
      /\ UNCHANGED <<photo, upload, overlapped>>
  BY DEF ApproveReturn, FailApproval
<1>2. PICK r \in Returns, costed \in BOOLEAN : approval[a].return = r /\ approval[a].costed = costed
  BY ReturnShapes DEF ApprovalRows
<1>3. /\ approval' \in [Approvals -> ApprovalRows] /\ approval'[a].pc = "over"
      /\ \A b \in Approvals \ {a} : approval'[b] = approval[b]
  BY <1>1, ReturnShapes DEF ApprovalRows
<1>4. /\ a \in UnderWay(r)
      /\ \A s \in Returns : UnderWay(s)' = UnderWay(s) \ {a}
  BY <1>1, <1>2, <1>3 DEF UnderWay
<1>5. CASE FailApproval(a)
  <2>1. UNCHANGED <<returnRow, returnStock, booked>>
    BY <1>5 DEF FailApproval
  <2>2. ReturnsTypeOK'
    BY <1>1, <1>3, <2>1 DEF ReturnsInv, ReturnsTypeOK, ApprovalRows
  <2>3. BookedIsClosed' /\ BookedOnce'
    BY <1>1, <1>4, <2>1 DEF ReturnsInv, BookedIsClosed, BookedOnce
  <2>4. UploadsGrounded' /\ VerdictGrounded'
    BY <1>1, <2>1, GroundsKept
  <2> QED BY <2>2, <2>3, <2>4 DEF ReturnsInv
<1>6. CASE ApproveReturn(a)
  <2>1. PICK lines \in Seq(Lines) : returnRow[r].lines = lines
    BY ReturnShapes DEF ReturnRows
  <2> DEFINE stamped == [i \in DOMAIN lines |-> [lines[i] EXCEPT !.cogs = costed]]
  <2>2. /\ AdjustStock(lines) /\ returnStock' = returnStock + DeltaTo(lines, Len(lines))
        /\ returnRow' = [returnRow EXCEPT ![r] =
             [[returnRow[r] EXCEPT !.lines = stamped]
                EXCEPT !.status = "approved", !.resolved = TRUE]]
        /\ booked' = [booked EXCEPT ![r] = @ + 1]
    <3>1. /\ AdjustStock(lines) /\ returnStock' = returnStock + DeltaTo(lines, Len(lines))
          /\ booked' = [booked EXCEPT ![r] = @ + 1]
      BY <1>2, <1>6, <2>1 DEF ApproveReturn
    <3>2. stamped = SetReturnItemCOGS(lines, costed)
      BY DEF SetReturnItemCOGS
    <3>3. returnRow' = [returnRow EXCEPT ![r] =
             UpdateReturnStatus([returnRow[r] EXCEPT !.lines = stamped], "approved")]
      BY <1>2, <1>6, <2>1, <3>2 DEF ApproveReturn
    <3> QED
      BY <3>1, <3>3 DEF UpdateReturnStatus
  <2>3. /\ stamped \in Seq(Lines) /\ DOMAIN stamped = DOMAIN lines
        /\ \A i \in DOMAIN lines : stamped[i].qc = lines[i].qc
    <3>1. PICK n \in Nat : lines \in [1..n -> Lines]
      OBVIOUS
    <3>2. \A i \in 1..n : /\ [lines[i] EXCEPT !.cogs = costed] \in Lines
                          /\ [lines[i] EXCEPT !.cogs = costed].qc = lines[i].qc
      BY <3>1 DEF Lines
    <3>3. stamped \in [1..n -> Lines] /\ \A i \in 1..n : stamped[i].qc = lines[i].qc
      BY <3>1, <3>2
    <3> HIDE DEF stamped
    <3> QED
      BY <3>1, <3>3
  <2> HIDE DEF stamped
  <2>4. /\ returnRow' \in [Returns -> ReturnRows]
        /\ returnRow'[r].status = "approved" /\ returnRow'[r].lines = stamped
        /\ \A s \in Returns \ {r} : returnRow'[s] = returnRow[s]
    <3> DEFINE closed == [returnRow[r] EXCEPT !.lines = stamped, !.status = "approved", !.resolved = TRUE]
    <3>1. returnRow' = [returnRow EXCEPT ![r].lines = stamped, ![r].status = "approved",
                                         ![r].resolved = TRUE]
      BY <2>2, ReturnShapes DEF ReturnRows
    <3>2. returnRow' = [returnRow EXCEPT ![r] = closed]
      BY <3>1
    <3>3. closed \in ReturnRows /\ closed.status = "approved" /\ closed.lines = stamped
      BY <2>3, ReturnShapes DEF ReturnRows, ReturnStatuses
    <3> HIDE DEF closed
    <3> QED
      BY <3>2, <3>3, ReturnShapes
  <2>5. returnStock' \in Nat
    <3>1. Len(lines) \in Nat /\ DOMAIN lines = 1..Len(lines)
      OBVIOUS
    <3>2. DeltaTo(lines, Len(lines)) \in Int /\ DeltaTo(lines, 0) = 0
      BY <3>1, DeltaIsInt
    <3>3. returnStock + DeltaTo(lines, Len(lines)) >= 0
      <4>1. CASE Len(lines) = 0
        BY <3>2, <4>1, ReturnShapes
      <4>2. CASE Len(lines) # 0
        BY <2>2, <3>1, <4>2 DEF AdjustStock
      <4> QED BY <4>1, <4>2
    <3> QED
      BY <2>2, <3>2, <3>3, ReturnShapes
  <2>6. /\ booked' \in [Returns -> Nat] /\ booked'[r] = booked[r] + 1
        /\ \A s \in Returns \ {r} : booked'[s] = booked[s]
    BY <2>2, ReturnShapes
  <2>7. ReturnsTypeOK'
    BY <1>1, <1>3, <2>4, <2>5, <2>6 DEF ReturnsInv, ReturnsTypeOK, ApprovalRows, ReturnRows, Lines
  <2>8. r \notin overlapped => booked[r] = 0 /\ UnderWay(r) \ {a} = {}
    BY <1>4 DEF ReturnsInv, BookedIsClosed
  <2>9. BookedIsClosed'
    <3> SUFFICES ASSUME NEW s \in Returns \ overlapped
                 PROVE  /\ \A b, d \in UnderWay(s)' : b = d
                        /\ booked'[s] # 0 => /\ UnderWay(s)' = {}
                                             /\ returnRow'[s].status \in {"approved", "rejected"}
      BY <1>1 DEF BookedIsClosed
    <3>1. CASE s = r
      BY <1>4, <2>4, <2>8, <3>1
    <3>2. CASE s # r
      BY <1>4, <2>4, <2>6, <3>2 DEF ReturnsInv, BookedIsClosed
    <3> QED BY <3>1, <3>2
  <2>10. BookedOnce'
    BY <1>1, <2>6, <2>8 DEF ReturnsInv, BookedOnce
  <2>11. UploadsGrounded' /\ VerdictGrounded'
    BY <1>1, <2>1, <2>3, <2>4, GroundsKept
  <2> QED BY <2>7, <2>9, <2>10, <2>11 DEF ReturnsInv
<1> QED BY <1>5, <1>6

\* Every step of the returns, their photos and approvals keeps ReturnsInv.
THEOREM ReturnsInductive == ReturnsInv /\ [ReturnsNext]_returnsVars => ReturnsInv'
<1> SUFFICES ASSUME ReturnsInv, [ReturnsNext]_returnsVars PROVE ReturnsInv'
  OBVIOUS
<1>1. ASSUME NEW r \in Returns, CreateReturn(r) \/ MoveByHand(r) \/ RejectReturn(r)
      PROVE  ReturnsInv'
  BY <1>1, CreateReturnKeeps, MoveOrRejectKeeps
<1>2. ASSUME NEW u \in Uploads, NEW r \in Returns, NEW i \in 1..MaxLines,
             NEW type \in PhotoTypes, NEW h \in Hashes, InsertReturnPhoto(u, r, i, type, h)
      PROVE  ReturnsInv'
  BY <1>2, InsertPhotoKeeps
<1>3. ASSUME NEW u \in Uploads, ReadOutbound(u) \/ StoreVerdict(u) \/ FailUpload(u)
      PROVE  ReturnsInv'
  BY <1>3, UploadStepKeeps, StoreVerdictKeeps
<1>4. ASSUME NEW a \in Approvals, NEW r \in Returns, NEW costed \in BOOLEAN,
             ReadForApproval(a, r, costed)
      PROVE  ReturnsInv'
  BY <1>4, ApprovalReadKeeps
<1>5. ASSUME NEW a \in Approvals, ApproveReturn(a) \/ FailApproval(a) PROVE ReturnsInv'
  BY <1>5, ApproveKeeps
<1>6. CASE UNCHANGED returnsVars
  <2>1. UNCHANGED <<returnRow, photo, returnStock, approval, upload, booked, overlapped>>
    BY <1>6 DEF returnsVars
  <2>2. ReturnsTypeOK'
    BY <2>1 DEF ReturnsInv, ReturnsTypeOK
  <2>3. BookedIsClosed' /\ BookedOnce'
    BY <2>1 DEF ReturnsInv, BookedIsClosed, UnderWay, BookedOnce
  <2>4. UploadsGrounded' /\ VerdictGrounded'
    BY <2>1, GroundsKept
  <2> QED
    BY <2>2, <2>3, <2>4 DEF ReturnsInv
<1> QED
  BY <1>1, <1>2, <1>3, <1>4, <1>5, <1>6 DEF ReturnsNext

\* ReturnsInv holds in every state.
THEOREM ReturnsInvHolds == ReturnsSpec => []ReturnsInv
  BY ReturnsInitSafe, ReturnsInductive, PTL DEF ReturnsSpec

\* A return is booked on the stock once, however its approvals, rejections and
\* moves interleave, unless two approvals of it met (ApproveReturn).
THEOREM ReturnsBookOnce == ReturnsSpec => []BookedOnce
<1>1. ReturnsInv => BookedOnce
  BY DEF ReturnsInv
<1> QED
  BY <1>1, ReturnsInvHolds, PTL

\* A verdict that is stored rests on two photos of its line (runQCComparison).
THEOREM VerdictsAreGrounded == ReturnsSpec => []VerdictGrounded
<1>1. ReturnsInv => VerdictGrounded
  BY DEF ReturnsInv
<1> QED
  BY <1>1, ReturnsInvHolds, PTL

-----------------------------------------------------------------------------
(* Variants: the proof                                                     *)

PriceTables == [Variants -> [Channels -> PriceRows]]

LEMMA VariantShapes ==
  ASSUME VariantsInv
  PROVE  /\ variant \in [Variants -> VariantRows] /\ price \in PriceTables
         /\ quoted \in PriceTables /\ onSale \in [Variants -> SUBSET (0..NVariantEdits)]
         /\ vedit \in [VariantEdits -> VEditRows] /\ wanted \in [Variants -> WantedRows]
         /\ crossing \subseteq Variants
  BY DEF VariantsInv, VariantsTypeOK, EditsOfVariants, VariantRows, PriceTables

\* The shapes are VariantsTypeOK, and what else the rows are.
LEMMA ShapesSuffice ==
  ASSUME variant \in [Variants -> VariantRows], price \in PriceTables, quoted \in PriceTables,
         onSale \in [Variants -> SUBSET (0..NVariantEdits)],
         vedit \in [VariantEdits -> VEditRows], crossing \subseteq Variants
  PROVE  VariantsTypeOK
  BY DEF VariantsTypeOK, VariantRows, PriceTables, VEditRows

LEMMA PriceRowsKept ==
  /\ NoRow \in PriceRows
  /\ \A p \in 0..MaxPrice : FirstPrice(p) \in [Channels -> PriceRows]
  /\ \A rows \in [Channels -> PriceRows], p \in 0..MaxPrice :
       Priced(rows, p) \in [Channels -> PriceRows]
  /\ \A row \in PriceRows : Aged(row) \in PriceRows
  /\ \A row \in PriceRows, p \in 0..MaxPrice, until \in Untils :
       UpsertChannelPrice(row, p, until) \in PriceRows
<1>1. NoRow \in PriceRows
  BY VariantPricesAssumption DEF NoRow, PriceRows, Untils
<1>2. \A p \in 0..MaxPrice : FirstPrice(p) \in [Channels -> PriceRows]
  BY <1>1 DEF FirstPrice, PriceRows, Untils
<1>3. \A rows \in [Channels -> PriceRows], p \in 0..MaxPrice :
        Priced(rows, p) \in [Channels -> PriceRows]
  <2> SUFFICES ASSUME NEW rows \in [Channels -> PriceRows], NEW p \in 0..MaxPrice
               PROVE  Priced(rows, p) \in [Channels -> PriceRows]
    OBVIOUS
  <2>1. \A c \in Channels : [rows[c] EXCEPT !.price = p] \in PriceRows
    BY DEF PriceRows
  <2>2. [c \in Channels |-> IF rows[c] = NoRow THEN NoRow ELSE [rows[c] EXCEPT !.price = p]]
          \in [Channels -> PriceRows]
    BY <1>1, <2>1
  <2> QED
    BY <1>2, <2>2 DEF Priced
<1>4. \A row \in PriceRows : Aged(row) \in PriceRows
  BY DEF Aged, PriceRows, Untils
<1>5. \A row \in PriceRows, p \in 0..MaxPrice, until \in Untils :
        UpsertChannelPrice(row, p, until) \in PriceRows
  BY DEF UpsertChannelPrice, PriceRows
<1> QED
  BY <1>1, <1>2, <1>3, <1>4, <1>5

LEMMA VariantsInitSafe == VariantsInit => VariantsInv
<1> SUFFICES ASSUME VariantsInit PROVE VariantsInv
  OBVIOUS
<1>1. 1 \in Variants /\ 0 \in 0..MaxPrice
  BY VariantPricesAssumption DEF Variants
<1>2. NoVariant \in VariantRows /\ NoVariant.state = "none"
  BY DEF NoVariant, VariantRows
<1>3. NewVEdit \in VEditRows /\ NewVEdit.pc = "new"
  BY <1>1, <1>2 DEF NewVEdit, VEditRows
<1>4. vedit \in [VariantEdits -> VEditRows] /\ wanted \in [Variants -> WantedRows]
  BY <1>3 DEF VariantsInit, WantedRows
<1>5. VariantsTypeOK
  BY <1>2, <1>4, PriceRowsKept, ShapesSuffice DEF VariantsInit, PriceTables
<1>6. \A e \in VariantEdits : ~Writing(e) /\ ~Holding(e) /\ vedit[e].pc = "new"
  BY <1>3 DEF VariantsInit, Writing, Holding
<1>7. EditsOfVariants /\ SalesHeld /\ ReadIsCurrent
  BY <1>4, <1>6 DEF EditsOfVariants, SalesHeld, ReadIsCurrent, VariantsInit
<1>8. EditsSurvive
  BY <1>2 DEF VariantsInit, EditsSurvive, ThereIs
<1> QED
  BY <1>5, <1>7, <1>8 DEF VariantsInv

\* Prices are no part of what the requests and the rows have to keep.
LEMMA PriceStepKeeps ==
  ASSUME VariantsInv, UNCHANGED <<variant, onSale, vedit, wanted, crossing>>,
         price' \in PriceTables, quoted' \in PriceTables
  PROVE  VariantsInv'
<1>1. VariantsTypeOK'
  <2>1. /\ variant' \in [Variants -> VariantRows]
        /\ onSale' \in [Variants -> SUBSET (0..NVariantEdits)]
        /\ vedit' \in [VariantEdits -> VEditRows] /\ crossing' \subseteq Variants
    BY VariantShapes
  <2> QED
    BY <2>1, VariantShapes DEF VariantsInv, VariantsTypeOK, PriceTables
<1>2. EditsOfVariants' /\ SalesHeld'
  BY DEF VariantsInv, EditsOfVariants, SalesHeld, Writing, Holding
<1>3. ReadIsCurrent' /\ EditsSurvive'
  BY DEF VariantsInv, ReadIsCurrent, EditsSurvive, Writing, ThereIs
<1> QED
  BY <1>1, <1>2, <1>3 DEF VariantsInv

LEMMA PricesKeep ==
  ASSUME VariantsInv, PutPrice \/ ExpirePrices
  PROVE  VariantsInv'
<1>1. CASE PutPrice
  <2>1. PICK v \in Variants, c \in Channels, p \in 1..MaxPrice, until \in {"never", "later"} :
          SetPrice(v, c, p, until)
    BY <1>1 DEF PutPrice
  <2>2. p \in 0..MaxPrice /\ until \in Untils
    BY DEF Untils
  <2>3. price[v][c] \in PriceRows
    BY VariantShapes DEF PriceTables
  <2>4. PICK row \in PriceRows : row = UpsertChannelPrice(price[v][c], p, until)
    BY <2>2, <2>3, PriceRowsKept
  <2>5. PICK all \in PriceRows : all = [price |-> p, until |-> until]
    BY <2>2 DEF PriceRows
  <2>6. /\ price' = [price EXCEPT ![v][c] = row] /\ quoted' = [quoted EXCEPT ![v][c] = all]
        /\ UNCHANGED <<variant, onSale, vedit, wanted, crossing>>
    BY <2>1, <2>4, <2>5, VariantShapes DEF SetPrice, PriceTables
  <2>7. price' \in PriceTables /\ quoted' \in PriceTables
    BY <2>4, <2>5, <2>6, VariantShapes DEF PriceTables
  <2> QED
    BY <2>6, <2>7, PriceStepKeeps
<1>2. CASE ExpirePrices
  <2>1. /\ price' = [v \in Variants |-> [c \in Channels |-> Aged(price[v][c])]]
        /\ quoted' = [v \in Variants |-> [c \in Channels |-> Aged(quoted[v][c])]]
        /\ UNCHANGED <<variant, onSale, vedit, wanted, crossing>>
    BY <1>2 DEF ExpirePrices
  <2>2. \A v \in Variants, c \in Channels : /\ Aged(price[v][c]) \in PriceRows
                                            /\ Aged(quoted[v][c]) \in PriceRows
    BY VariantShapes, PriceRowsKept DEF PriceTables
  <2>3. price' \in PriceTables /\ quoted' \in PriceTables
    BY <2>1, <2>2 DEF PriceTables
  <2> QED
    BY <2>1, <2>3, PriceStepKeeps
<1> QED BY <1>1, <1>2

\* A request that reads, waits, switches the sales off or ends without a write.
LEMMA EditStepKeeps ==
  ASSUME VariantsInv, NEW e \in VariantEdits, NEW r \in VEditRows,
         vedit' = [vedit EXCEPT ![e] = r],
         UNCHANGED <<variant, price, onSale, wanted, crossing, quoted>>,
         r.pc \in {"read", "locked", "switched"} =>
           /\ variant[r.id].state # "none" /\ r.row.state = "there"
           /\ r.id \notin crossing /\ ThereIs(r.id) =>
                /\ r.row.color = variant[r.id].color
                /\ variant[r.id].image # Unset => r.row.image = variant[r.id].image,
         r.pc \in {"locked", "switched"} =>
           \A f \in VariantEdits \ {e} : ~(Holding(f) /\ vedit[f].id = r.id),
         r.pc = "switched" /\ r.sale # Omit => r.off = onSale[r.id]
  PROVE  VariantsInv'
<1>1. /\ vedit' \in [VariantEdits -> VEditRows] /\ vedit'[e] = r
      /\ \A f \in VariantEdits \ {e} : vedit'[f] = vedit[f]
  BY VariantShapes
<1>2. VariantsTypeOK'
  BY <1>1, VariantShapes DEF VariantsInv, VariantsTypeOK, VEditRows
<1>3. EditsOfVariants'
  BY <1>1, VariantShapes DEF VariantsInv, EditsOfVariants, Writing
<1>4. SalesHeld'
  <2>1. \A f, g \in VariantEdits :
          Holding(f)' /\ Holding(g)' /\ vedit'[f].id = vedit'[g].id => f = g
    BY <1>1 DEF VariantsInv, SalesHeld, Holding
  <2>2. \A f \in VariantEdits : vedit'[f].pc = "switched" /\ vedit'[f].sale # Omit =>
          vedit'[f].off = onSale[vedit'[f].id]
    BY <1>1 DEF VariantsInv, SalesHeld
  <2>3. \A v \in Variants : \A x, y \in onSale[v] : x = y
    BY DEF VariantsInv, SalesHeld
  <2> QED
    BY <2>1, <2>2, <2>3 DEF SalesHeld
<1>5. ReadIsCurrent'
  <2> SUFFICES ASSUME NEW f \in VariantEdits, vedit'[f].pc \in {"read", "locked", "switched"},
                      vedit'[f].id \notin crossing, variant[vedit'[f].id].state = "there"
               PROVE  /\ vedit'[f].row.color = variant[vedit'[f].id].color
                      /\ variant[vedit'[f].id].image # Unset =>
                           vedit'[f].row.image = variant[vedit'[f].id].image
    BY DEF ReadIsCurrent, Writing, ThereIs
  <2>1. CASE f = e
    BY <1>1, <2>1 DEF ThereIs
  <2>2. CASE f # e
    <3>1. vedit'[f] = vedit[f]
      BY <1>1, <2>2
    <3> QED
      BY <3>1 DEF VariantsInv, ReadIsCurrent, Writing, ThereIs
  <2> QED BY <2>1, <2>2
<1>6. EditsSurvive'
  BY DEF VariantsInv, EditsSurvive, ThereIs
<1> QED
  BY <1>2, <1>3, <1>4, <1>5, <1>6 DEF VariantsInv

\* A request reads the row it will replace, with the first of the media for a
\* missing image, or as it is.
LEMMA BeginKeepsVariants ==
  ASSUME VariantsInv, NEW e \in VariantEdits, PatchVariant(e) \/ PutDefaultVariant(e)
  PROVE  VariantsInv'
<1>1. PICK v, row, in :
        /\ v \in Variants /\ BeginEdit(e, v, row, in)
        /\ row = variant[v] \/ (variant[v].image = Unset /\
                                row = [variant[v] EXCEPT !.image = variant[v].media])
        /\ in.color \in Colors \cup {Omit} /\ in.image \in Urls \cup {Omit}
        /\ in.media \in Urls \cup {Unset, Omit} /\ in.price \in 0..MaxPrice
        /\ in.sale \in {Omit, Clear, Sale}
  <2>1. 0 \in 0..MaxPrice
    BY VariantPricesAssumption
  <2>2. \A in \in ColumnInputs \cup PriceInputs :
          /\ in.color \in Colors \cup {Omit} /\ in.image \in Urls \cup {Omit}
          /\ in.media \in Urls \cup {Unset, Omit} /\ in.price \in 0..MaxPrice
          /\ in.sale \in {Omit, Clear, Sale}
    BY <2>1 DEF ColumnInputs, PriceInputs, Input
  <2>3. CASE PatchVariant(e)
    <3>1. PICK v \in Variants, in \in ColumnInputs \cup PriceInputs :
            BeginEdit(e, v, variant[v], in)
      BY <2>3 DEF PatchVariant, UpdateVariant, GetVariantByID
    <3> QED BY <2>2, <3>1
  <2>4. CASE PutDefaultVariant(e)
    <3>1. PICK v \in Variants, in \in ColumnInputs :
            BeginEdit(e, v, ListVariantsByProduct(v), [in EXCEPT !.price = 0, !.sale = Omit])
      BY <2>4 DEF PutDefaultVariant, UpsertDefaultVariantForProduct
    <3> DEFINE none == [in EXCEPT !.price = 0, !.sale = Omit]
               row == ListVariantsByProduct(v)
    <3>2. /\ none.color \in Colors \cup {Omit} /\ none.image \in Urls \cup {Omit}
          /\ none.media \in Urls \cup {Unset, Omit} /\ none.price \in 0..MaxPrice
          /\ none.sale \in {Omit, Clear, Sale}
      BY <2>1 DEF ColumnInputs, Input
    <3>3. row = variant[v] \/ (variant[v].image = Unset /\
                               row = [variant[v] EXCEPT !.image = variant[v].media])
      BY DEF ListVariantsByProduct
    <3> HIDE DEF none, row
    <3>4. BeginEdit(e, v, row, none)
      BY <3>1 DEF none, row
    <3> QED BY <3>2, <3>3, <3>4
  <2> QED BY <2>3, <2>4
<1>2. /\ vedit[e].pc = "new" /\ variant[v].state = "there"
      /\ UNCHANGED <<variant, price, onSale, wanted, crossing, quoted>>
  BY <1>1 DEF BeginEdit, ThereIs
<1>3. /\ row \in VariantRows /\ row.state = "there" /\ row.color = variant[v].color
      /\ variant[v].image # Unset => row.image = variant[v].image
  BY <1>1, <1>2, VariantShapes DEF VariantRows
<1> DEFINE r == [NewVEdit EXCEPT !.pc = "read", !.id = v, !.row = row, !.color = in.color,
                                 !.image = in.image, !.media = in.media, !.price = in.price,
                                 !.sale = in.sale]
<1>4. r \in VEditRows /\ r.pc = "read" /\ r.id = v /\ r.row = row
  BY <1>1, <1>3 DEF NewVEdit, VEditRows
<1>5. vedit' = [vedit EXCEPT ![e] = r]
  BY <1>1 DEF BeginEdit
<1> HIDE DEF r
<1> QED
  BY <1>2, <1>3, <1>4, <1>5, EditStepKeeps

\* A request gets the lock of its row, sees the sales there are, or fails.
LEMMA WaitKeeps ==
  ASSUME VariantsInv, NEW e \in VariantEdits,
         LockRow(e) \/ DeactivateSales(e) \/ FailVariantEdit(e)
  PROVE  VariantsInv'
<1>1. /\ Writing(e) /\ vedit[e] \in VEditRows
      /\ UNCHANGED <<variant, price, onSale, wanted, crossing, quoted>>
  BY VariantShapes DEF LockRow, DeactivateSales, FailVariantEdit, Writing
<1>2. /\ variant[vedit[e].id].state # "none" /\ vedit[e].row.state = "there"
      /\ vedit[e].id \notin crossing /\ ThereIs(vedit[e].id) =>
           /\ vedit[e].row.color = variant[vedit[e].id].color
           /\ variant[vedit[e].id].image # Unset =>
                vedit[e].row.image = variant[vedit[e].id].image
  BY <1>1 DEF VariantsInv, EditsOfVariants, ReadIsCurrent
<1>3. CASE LockRow(e)
  <2> DEFINE r == [vedit[e] EXCEPT !.pc = "locked"]
  <2>1. r \in VEditRows /\ r.pc = "locked" /\ r.id = vedit[e].id /\ r.row = vedit[e].row
    BY <1>1 DEF VEditRows
  <2>2. vedit' = [vedit EXCEPT ![e] = r]
    BY <1>3, VariantShapes DEF LockRow
  <2>3. \A f \in VariantEdits \ {e} : ~(Holding(f) /\ vedit[f].id = vedit[e].id)
    BY <1>3 DEF LockRow, RowFree, Holding
  <2> HIDE DEF r
  <2> QED
    BY <1>1, <1>2, <2>1, <2>2, <2>3, EditStepKeeps
<1>4. CASE DeactivateSales(e)
  <2> DEFINE off == IF vedit[e].sale = Omit THEN {} ELSE onSale[vedit[e].id]
             r == [vedit[e] EXCEPT !.pc = "switched", !.off = off]
  <2>1. off \in SUBSET (0..NVariantEdits)
    BY <1>1, VariantShapes DEF VEditRows
  <2>2. vedit' = [vedit EXCEPT ![e] = r]
    BY <1>4, VariantShapes DEF DeactivateSales
  <2>3. vedit[e].sale # Omit => off = onSale[vedit[e].id]
    OBVIOUS
  <2> HIDE DEF off
  <2>4. /\ r \in VEditRows /\ r.pc = "switched" /\ r.id = vedit[e].id /\ r.row = vedit[e].row
        /\ r.sale = vedit[e].sale /\ r.off = off
    BY <1>1, <2>1 DEF VEditRows
  <2>5. \A f \in VariantEdits \ {e} : ~(Holding(f) /\ vedit[f].id = vedit[e].id)
    BY <1>4 DEF DeactivateSales, VariantsInv, SalesHeld, Holding
  <2> HIDE DEF r
  <2> QED
    BY <1>1, <1>2, <2>2, <2>3, <2>4, <2>5, EditStepKeeps
<1>5. CASE FailVariantEdit(e)
  <2> DEFINE r == [NewVEdit EXCEPT !.pc = "failed"]
  <2>1. r \in VEditRows /\ r.pc = "failed"
    <3>1. 1 \in Variants /\ 0 \in 0..MaxPrice
      BY VariantPricesAssumption DEF Variants
    <3> QED BY <3>1 DEF NewVEdit, VEditRows, NoVariant, VariantRows
  <2>2. vedit' = [vedit EXCEPT ![e] = r]
    BY <1>5 DEF FailVariantEdit, Answer
  <2> HIDE DEF r
  <2> QED
    BY <1>1, <2>1, <2>2, EditStepKeeps
<1> QED BY <1>3, <1>4, <1>5

\* A variant is made with one sale at most, and no request has read it.
LEMMA CreateVariantKeeps ==
  ASSUME VariantsInv, PostVariant
  PROVE  VariantsInv'
<1>1. PICK v \in Unmade, color \in Colors \cup {Unset}, url \in Urls \cup {Unset},
           p \in 0..MaxPrice, s \in {Omit, Sale} :
        CreateVariantForProduct(v, color, url, p, s)
  BY DEF PostVariant
<1>2. v \in Variants /\ variant[v].state = "none"
  BY DEF Unmade
<1> DEFINE row == [NoVariant EXCEPT !.state = "there", !.color = color, !.media = url]
           wish == [color |-> row.color, image |-> row.image]
           sale == IF s = Sale THEN {AtCreation} ELSE {}
<1>3. /\ row \in VariantRows /\ row.state = "there" /\ wish \in WantedRows
      /\ wish.color = row.color /\ wish.image = row.image
      /\ sale \subseteq 0..NVariantEdits /\ \A x, y \in sale : x = y
  <2>1. /\ row \in VariantRows /\ row.state = "there"
        /\ row.color \in Colors \cup {Unset} /\ row.image \in Urls \cup {Unset}
    BY DEF NoVariant, VariantRows
  <2>2. sale \subseteq 0..NVariantEdits /\ \A x, y \in sale : x = y
    BY VariantPricesAssumption DEF AtCreation
  <2> HIDE DEF row, sale
  <2>3. wish \in WantedRows /\ wish.color = row.color /\ wish.image = row.image
    BY <2>1 DEF WantedRows
  <2> QED BY <2>1, <2>2, <2>3
<1>4. PICK prices \in [Channels -> PriceRows] : prices = FirstPrice(p)
  BY PriceRowsKept
<1>5. /\ variant' = [variant EXCEPT ![v] = row] /\ price' = [price EXCEPT ![v] = prices]
      /\ onSale' = [onSale EXCEPT ![v] = sale] /\ wanted' = [wanted EXCEPT ![v] = wish]
      /\ quoted' = [quoted EXCEPT ![v] = prices] /\ UNCHANGED <<vedit, crossing>>
  BY <1>1, <1>4 DEF CreateVariantForProduct, InsertVariant
<1> HIDE DEF row, wish, sale
<1>6. /\ variant' \in [Variants -> VariantRows] /\ price' \in PriceTables
      /\ quoted' \in PriceTables /\ onSale' \in [Variants -> SUBSET (0..NVariantEdits)]
      /\ wanted' \in [Variants -> WantedRows]
      /\ variant'[v] = row /\ onSale'[v] = sale /\ wanted'[v] = wish
      /\ \A w \in Variants \ {v} : /\ variant'[w] = variant[w] /\ onSale'[w] = onSale[w]
                                   /\ wanted'[w] = wanted[w]
  BY <1>2, <1>3, <1>4, <1>5, VariantShapes DEF PriceTables
<1>7. \A e \in VariantEdits : Writing(e) => vedit[e].id \in Variants \ {v}
  BY <1>2, VariantShapes DEF VariantsInv, EditsOfVariants, VEditRows
<1>8. VariantsTypeOK'
  BY <1>5, <1>6, VariantShapes DEF VariantsInv, VariantsTypeOK, VariantRows, PriceTables
<1>9. EditsOfVariants'
  BY <1>5, <1>6, <1>7 DEF VariantsInv, EditsOfVariants, Writing
<1>10. SalesHeld'
  <2>1. \A e \in VariantEdits : vedit[e].pc = "switched" => Writing(e)
    BY DEF Writing
  <2> QED
    BY <1>3, <1>5, <1>6, <1>7, <2>1 DEF VariantsInv, SalesHeld, Holding
<1>11. ReadIsCurrent'
  BY <1>5, <1>6, <1>7 DEF VariantsInv, ReadIsCurrent, Writing, ThereIs
<1>12. EditsSurvive'
  BY <1>3, <1>5, <1>6 DEF VariantsInv, EditsSurvive, ThereIs
<1> QED
  BY <1>8, <1>9, <1>10, <1>11, <1>12 DEF VariantsInv

\* A variant whose row is locked is not deleted, and one that is gone is not
\* made again.
LEMMA DeleteVariantKeeps ==
  ASSUME VariantsInv, DeleteVariantById
  PROVE  VariantsInv'
<1>1. PICK v \in Variants : DeleteVariant(v)
  BY DEF DeleteVariantById
<1> DEFINE row == [NoVariant EXCEPT !.state = "gone"]
           wish == [color |-> Unset, image |-> Unset]
           prices == [c \in Channels |-> NoRow]
<1>2. /\ row \in VariantRows /\ row.state = "gone" /\ wish \in WantedRows
      /\ prices \in [Channels -> PriceRows]
  BY PriceRowsKept DEF NoVariant, VariantRows, WantedRows
<1>3. /\ variant' = [variant EXCEPT ![v] = row] /\ price' = [price EXCEPT ![v] = prices]
      /\ onSale' = [onSale EXCEPT ![v] = {}] /\ wanted' = [wanted EXCEPT ![v] = wish]
      /\ quoted' = [quoted EXCEPT ![v] = prices] /\ UNCHANGED <<vedit, crossing>>
      /\ RowFree(v)
  BY <1>1 DEF DeleteVariant
<1> HIDE DEF row, wish, prices
<1>4. /\ variant' \in [Variants -> VariantRows] /\ price' \in PriceTables
      /\ quoted' \in PriceTables /\ onSale' \in [Variants -> SUBSET (0..NVariantEdits)]
      /\ wanted' \in [Variants -> WantedRows]
      /\ variant'[v].state = "gone" /\ onSale'[v] = {}
      /\ \A w \in Variants \ {v} : /\ variant'[w] = variant[w] /\ onSale'[w] = onSale[w]
                                   /\ wanted'[w] = wanted[w]
  BY <1>2, <1>3, VariantShapes DEF PriceTables
<1>5. \A e \in VariantEdits : vedit[e].id \in Variants /\ (Holding(e) => vedit[e].id # v)
  BY <1>3, VariantShapes DEF RowFree, Holding, VEditRows
<1>6. VariantsTypeOK'
  BY <1>3, <1>4, VariantShapes DEF VariantsInv, VariantsTypeOK, VariantRows, PriceTables
<1>7. EditsOfVariants'
  BY <1>3, <1>4, <1>5 DEF VariantsInv, EditsOfVariants, Writing
<1>8. SalesHeld'
  <2>1. \A e \in VariantEdits : vedit[e].pc = "switched" => Holding(e)
    BY DEF Holding
  <2> QED
    BY <1>3, <1>4, <1>5, <2>1 DEF VariantsInv, SalesHeld, Holding
<1>9. ReadIsCurrent'
  BY <1>3, <1>4, <1>5 DEF VariantsInv, ReadIsCurrent, Writing, ThereIs
<1>10. EditsSurvive'
  BY <1>3, <1>4 DEF VariantsInv, EditsSurvive, ThereIs
<1> QED
  BY <1>6, <1>7, <1>8, <1>9, <1>10 DEF VariantsInv

\* A request that is over writes no more.
LEMMA AnswerOver ==
  ASSUME NEW pc \in {"done", "failed"}
  PROVE  Answer(pc) \in VEditRows /\ Answer(pc).pc = pc
<1>1. 1 \in Variants /\ 0 \in 0..MaxPrice
  BY VariantPricesAssumption DEF Variants
<1> QED
  BY <1>1 DEF Answer, NewVEdit, VEditRows, NoVariant, VariantRows

\* The commit: the sales it switched off are all there were, so that its own is
\* the only one; what it leaves in a column is what was there or what it names.
LEMMA CommitEditKeeps ==
  ASSUME VariantsInv, NEW e \in VariantEdits, CommitEdit(e)
  PROVE  VariantsInv'
<1>1. PICK r \in VEditRows : vedit[e] = r
  BY VariantShapes
<1>2. PICK v \in Variants : r.id = v
  BY DEF VEditRows
<1>3. r.pc = "switched" /\ Writing(e) /\ Holding(e)
  BY <1>1 DEF CommitEdit, Writing, Holding
<1>4. CASE ~ThereIs(v)
  <2>1. PICK pc \in {"done", "failed"} : vedit' = [vedit EXCEPT ![e] = Answer(pc)]
    BY <1>1, <1>2, <1>4 DEF CommitEdit
  <2>2. PICK row \in VEditRows : row = Answer(pc) /\ row.pc = pc
    BY AnswerOver
  <2>3. UNCHANGED <<variant, price, onSale, wanted, crossing, quoted>>
    BY <1>1, <1>2, <1>4 DEF CommitEdit
  <2> QED
    BY <2>1, <2>2, <2>3, EditStepKeeps
<1>5. CASE ThereIs(v)
  <2> DEFINE merged == Merged(r.row, r)
             sale == IF r.sale = Sale THEN {e} ELSE {}
             want == [color |-> IF r.color = Omit THEN wanted[v].color ELSE r.color,
                      image |-> IF r.image = Omit THEN wanted[v].image ELSE r.image]
             crossed == \E f \in VariantEdits \ {e} :
                          vedit[f].pc \in {"read", "locked", "switched"} /\ vedit[f].id = v
  <2>1. /\ variant' = [variant EXCEPT ![v] = merged]
        /\ price' = [price EXCEPT ![v] = Priced(price[v], r.price)]
        /\ quoted' = [quoted EXCEPT ![v] = Priced(quoted[v], r.price)]
        /\ onSale' = [onSale EXCEPT ![v] = (onSale[v] \ r.off) \cup sale]
        /\ crossing' = IF crossed THEN crossing \cup {v} ELSE crossing
        /\ vedit' = [vedit EXCEPT ![e] = Answer("done")]
    BY <1>1, <1>2, <1>5, VariantShapes DEF CommitEdit, PriceTables
  <2>2. wanted' = [wanted EXCEPT ![v] = want]
    BY <1>1, <1>2, <1>5, VariantShapes DEF CommitEdit
  <2>3. PICK done \in VEditRows : done = Answer("done") /\ done.pc = "done"
    BY AnswerOver
  <2>4. r.row \in VariantRows /\ r.row.state = "there" /\ r.price \in 0..MaxPrice
    BY <1>1, <1>3 DEF VariantsInv, EditsOfVariants, VEditRows
  <2>5. /\ merged \in VariantRows /\ merged.state = "there"
        /\ merged.color = IF r.color = Omit THEN r.row.color ELSE r.color
        /\ merged.image = IF r.image = Omit THEN r.row.image ELSE r.image
    <3>1. /\ r.color \in Colors \cup {Omit} /\ r.image \in Urls \cup {Omit}
          /\ r.media \in Urls \cup {Unset, Omit}
      BY DEF VEditRows
    <3>2. PICK color \in Colors \cup {Unset}, image \in Urls \cup {Unset}, media \in Urls \cup {Unset} :
            /\ color = IF r.color = Omit THEN r.row.color ELSE r.color
            /\ image = IF r.image = Omit THEN r.row.image ELSE r.image
            /\ media = IF r.media = Omit THEN r.row.media ELSE r.media
      BY <2>4, <3>1 DEF VariantRows
    <3>3. merged = [r.row EXCEPT !.color = color, !.image = image, !.media = media]
      BY <3>2 DEF Merged
    <3> QED BY <2>4, <3>2, <3>3 DEF VariantRows
  <2>6. /\ want \in WantedRows
        /\ want.color = IF r.color = Omit THEN wanted[v].color ELSE r.color
        /\ want.image = IF r.image = Omit THEN wanted[v].image ELSE r.image
    BY VariantShapes DEF WantedRows, VEditRows
  <2>7. \A x, y \in (onSale[v] \ r.off) \cup sale : x = y
    <3>1. \A x, y \in onSale[v] : x = y
      BY DEF VariantsInv, SalesHeld
    <3>2. CASE r.sale = Sale
      <4>1. r.sale # Omit
        BY <3>2 DEF Sale, Omit
      <4>2. r.off = onSale[v]
        BY <1>1, <1>2, <1>3, <4>1 DEF VariantsInv, SalesHeld
      <4> QED BY <3>2, <4>2
    <3>3. CASE r.sale # Sale
      BY <3>1, <3>3
    <3> QED BY <3>2, <3>3
  <2>8. (onSale[v] \ r.off) \cup sale \subseteq 0..NVariantEdits
    BY VariantPricesAssumption, VariantShapes DEF VariantEdits
  <2>9. /\ Priced(price[v], r.price) \in [Channels -> PriceRows]
        /\ Priced(quoted[v], r.price) \in [Channels -> PriceRows]
    BY <2>4, PriceRowsKept, VariantShapes DEF PriceTables
  <2> HIDE DEF merged, want
  <2>10. PICK sales \in SUBSET (0..NVariantEdits) :
           sales = (onSale[v] \ r.off) \cup sale /\ \A x, y \in sales : x = y
    BY <2>7, <2>8
  <2> HIDE DEF sale
  <2>11. /\ variant' \in [Variants -> VariantRows] /\ price' \in PriceTables
         /\ quoted' \in PriceTables /\ onSale' \in [Variants -> SUBSET (0..NVariantEdits)]
         /\ wanted' \in [Variants -> WantedRows] /\ vedit' \in [VariantEdits -> VEditRows]
         /\ variant'[v] = merged /\ onSale'[v] = sales /\ wanted'[v] = want
         /\ \A w \in Variants \ {v} : /\ variant'[w] = variant[w] /\ onSale'[w] = onSale[w]
                                      /\ wanted'[w] = wanted[w]
         /\ vedit'[e] = done /\ \A f \in VariantEdits \ {e} : vedit'[f] = vedit[f]
    BY <2>1, <2>2, <2>3, <2>5, <2>6, <2>9, <2>10, VariantShapes DEF PriceTables
  <2>12. /\ crossing \subseteq crossing' /\ crossing' \subseteq Variants
         /\ \A f \in VariantEdits \ {e} : Writing(f) /\ vedit[f].id = v => v \in crossing'
    BY <2>1, VariantShapes DEF Writing
  <2> HIDE DEF crossed
  <2>13. \A f \in VariantEdits : vedit[f].id \in Variants
    BY VariantShapes DEF VEditRows
  <2>14. VariantsTypeOK'
    BY <2>11, <2>12 DEF VariantsTypeOK, VariantRows, PriceTables, VEditRows
  <2>15. EditsOfVariants'
    BY <2>3, <2>5, <2>11, <2>13 DEF VariantsInv, EditsOfVariants, Writing
  <2>16. SalesHeld'
    <3>1. \A f \in VariantEdits \ {e} : vedit[f].pc = "switched" => vedit[f].id # v
      BY <1>1, <1>2, <1>3 DEF VariantsInv, SalesHeld, Holding
    <3>2. \A f, g \in VariantEdits : Holding(f)' /\ Holding(g)' /\ vedit'[f].id = vedit'[g].id => f = g
      BY <2>3, <2>11 DEF VariantsInv, SalesHeld, Holding
    <3>3. \A f \in VariantEdits : vedit'[f].pc = "switched" /\ vedit'[f].sale # Omit =>
            vedit'[f].off = onSale'[vedit'[f].id]
      BY <2>3, <2>11, <2>13, <3>1 DEF VariantsInv, SalesHeld
    <3>4. \A w \in Variants : \A x, y \in onSale'[w] : x = y
      BY <2>10, <2>11 DEF VariantsInv, SalesHeld
    <3> QED
      BY <3>2, <3>3, <3>4 DEF SalesHeld
  <2>17. ReadIsCurrent'
    <3> SUFFICES ASSUME NEW f \in VariantEdits, vedit'[f].pc \in {"read", "locked", "switched"},
                        vedit'[f].id \notin crossing', variant'[vedit'[f].id].state = "there"
                 PROVE  /\ vedit'[f].row.color = variant'[vedit'[f].id].color
                        /\ variant'[vedit'[f].id].image # Unset =>
                             vedit'[f].row.image = variant'[vedit'[f].id].image
      BY DEF ReadIsCurrent, Writing, ThereIs
    <3>1. f # e /\ vedit'[f] = vedit[f]
      BY <2>3, <2>11
    <3>2. vedit[f].id \in Variants \ {v}
      BY <2>12, <2>13, <3>1 DEF Writing
    <3>3. variant'[vedit[f].id] = variant[vedit[f].id] /\ vedit[f].id \notin crossing
      BY <2>11, <2>12, <3>1, <3>2
    <3> QED
      BY <3>1, <3>3 DEF VariantsInv, ReadIsCurrent, Writing, ThereIs
  <2>18. EditsSurvive'
    <3> SUFFICES ASSUME NEW w \in Variants \ crossing', variant'[w].state = "there"
                 PROVE  /\ variant'[w].color = wanted'[w].color
                        /\ wanted'[w].image # Unset => variant'[w].image = wanted'[w].image
      BY DEF EditsSurvive, ThereIs
    <3>1. CASE w = v
      <4>1. v \notin crossing
        BY <2>12, <3>1
      <4>2. /\ r.row.color = variant[v].color
            /\ variant[v].image # Unset => r.row.image = variant[v].image
        BY <1>1, <1>2, <1>3, <1>5, <4>1 DEF VariantsInv, ReadIsCurrent
      <4>3. /\ variant[v].color = wanted[v].color
            /\ wanted[v].image # Unset => variant[v].image = wanted[v].image
        BY <1>5, <4>1 DEF VariantsInv, EditsSurvive
      <4> QED
        BY <2>5, <2>6, <2>11, <3>1, <4>2, <4>3
    <3>2. CASE w # v
      BY <2>11, <2>12, <3>2 DEF VariantsInv, EditsSurvive, ThereIs
    <3> QED BY <3>1, <3>2
  <2> QED
    BY <2>14, <2>15, <2>16, <2>17, <2>18 DEF VariantsInv
<1> QED BY <1>4, <1>5

\* Every step of the variants, their requests and prices keeps VariantsInv.
THEOREM VariantsInductive == VariantsInv /\ [VariantsNext]_variantVars => VariantsInv'
<1> SUFFICES ASSUME VariantsInv, [VariantsNext]_variantVars PROVE VariantsInv'
  OBVIOUS
<1>1. CASE PostVariant \/ DeleteVariantById \/ PutPrice \/ ExpirePrices
  BY <1>1, CreateVariantKeeps, DeleteVariantKeeps, PricesKeep
<1>2. ASSUME NEW e \in VariantEdits,
             \/ PatchVariant(e) \/ PutDefaultVariant(e)
             \/ LockRow(e) \/ DeactivateSales(e) \/ CommitEdit(e) \/ FailVariantEdit(e)
      PROVE  VariantsInv'
  BY <1>2, BeginKeepsVariants, WaitKeeps, CommitEditKeeps
<1>3. CASE UNCHANGED variantVars
  <2>1. UNCHANGED <<variant, price, onSale, vedit, wanted, crossing, quoted>>
    BY <1>3 DEF variantVars
  <2> QED
    BY <2>1, VariantShapes, PriceStepKeeps
<1> QED
  BY <1>1, <1>2, <1>3 DEF VariantsNext

\* VariantsInv holds in every state.
THEOREM VariantsInvHolds == VariantsSpec => []VariantsInv
  BY VariantsInitSafe, VariantsInductive, PTL DEF VariantsSpec

\* However requests interleave, a variant has one active sale price at most
\* (UpdateVariant, which locks the row before it switches the sales off).
THEOREM SalesAreSingle == VariantsSpec => []OneSalePrice
<1>1. VariantsInv => OneSalePrice
  <2> SUFFICES ASSUME VariantsInv, NEW v \in Variants PROVE Cardinality(onSale[v]) <= 1
    BY DEF OneSalePrice
  <2>1. \A x, y \in onSale[v] : x = y
    BY DEF VariantsInv, SalesHeld
  <2>2. Cardinality(onSale[v]) \in {0, 1}
    BY <2>1, OneAtMost
  <2> QED BY <2>2
<1> QED
  BY <1>1, VariantsInvHolds, PTL

\* A column keeps what the last request that named it asked for, unless two
\* requests of one variant crossed (UpdateVariant).
THEOREM AskedIsKept == VariantsSpec => []EditsSurvive
<1>1. VariantsInv => EditsSurvive
  BY DEF VariantsInv
<1> QED
  BY <1>1, VariantsInvHolds, PTL

-----------------------------------------------------------------------------
(* All components side by side                                             *)

\* What a step of the whole is to the components: to each a step of its own, or
\* none.
EachStepsOrStays ==
  /\ ReturnsNext \/ UNCHANGED returnsVars
  /\ PurchasingNext \/ UNCHANGED purchasingVars
  /\ ImportNext \/ UNCHANGED importVars
  /\ LoyaltyNext \/ UNCHANGED loyaltyVars
  /\ AuthNext \/ UNCHANGED authVars
  /\ SessionsNext \/ UNCHANGED sessionsVars
  /\ VariantsNext \/ UNCHANGED variantVars
  /\ ChannelStockNext \/ UNCHANGED channelStockVars
  /\ ChannelOrdersNext \/ UNCHANGED channelOrdersVars
  /\ PosNext \/ UNCHANGED posVars
  /\ CatalogueNext \/ UNCHANGED catalogueVars
  /\ ShippingNext \/ UNCHANGED shippingVars
  /\ InvoicingNext \/ UNCHANGED invoicingVars
  /\ TotalsNext \/ UNCHANGED totalsVars

LEMMA StepsAreOfOne == BackOfficeNext \/ UNCHANGED backOfficeVars => EachStepsOrStays
<1>1. ReturnsRuns => EachStepsOrStays
  BY DEF ReturnsRuns, EachStepsOrStays
<1>2. PurchasingRuns => EachStepsOrStays
  BY DEF PurchasingRuns, EachStepsOrStays
<1>3. BatchImportRuns => EachStepsOrStays
  BY DEF BatchImportRuns, EachStepsOrStays
<1>4. LoyaltyRuns => EachStepsOrStays
  BY DEF LoyaltyRuns, EachStepsOrStays
<1>5. AuthVersionsRuns => EachStepsOrStays
  BY DEF AuthVersionsRuns, EachStepsOrStays
<1>6. SessionsRuns => EachStepsOrStays
  BY DEF SessionsRuns, EachStepsOrStays
<1>7. VariantPricesRuns => EachStepsOrStays
  BY DEF VariantPricesRuns, EachStepsOrStays
<1>8. ChannelStockRuns => EachStepsOrStays
  BY DEF ChannelStockRuns, EachStepsOrStays
<1>9. ChannelOrdersRuns => EachStepsOrStays
  BY DEF ChannelOrdersRuns, EachStepsOrStays
<1>10. PosRuns => EachStepsOrStays
  BY DEF PosRuns, EachStepsOrStays
<1>11. CatalogueRuns => EachStepsOrStays
  BY DEF CatalogueRuns, EachStepsOrStays
<1>12. ShippingRuns => EachStepsOrStays
  BY DEF ShippingRuns, EachStepsOrStays
<1>13. InvoicingRuns => EachStepsOrStays
  BY DEF InvoicingRuns, EachStepsOrStays
<1>14. WarehouseTotalsRuns => EachStepsOrStays
  BY DEF WarehouseTotalsRuns, EachStepsOrStays
<1>15. UNCHANGED backOfficeVars => EachStepsOrStays
  BY DEF backOfficeVars, EachStepsOrStays
<1> QED
  BY <1>1, <1>2, <1>3, <1>4, <1>5, <1>6, <1>7, <1>8, <1>9, <1>10, <1>11, <1>12, <1>13, <1>14, <1>15 DEF BackOfficeNext

\* The components do not disturb each other: what the whole does is, seen from
\* each component, what its own specification allows.
THEOREM EachRunsAlone ==
  BackOfficeSpec =>
    /\ ReturnsSpec /\ PurchasingSpec /\ ImportSpec /\ LoyaltySpec /\ AuthSpec /\ SessionsSpec
    /\ VariantsSpec /\ ChannelStockSpec /\ ChannelOrdersSpec /\ PosSpec /\ CatalogueSpec /\ ShippingSpec
    /\ InvoicingSpec /\ TotalsSpec
<1>1. BackOfficeInit =>
        /\ ReturnsInit /\ PurchasingInit /\ ImportInit /\ LoyaltyInit /\ AuthInit /\ SessionsInit
        /\ VariantsInit /\ ChannelStockInit /\ ChannelOrdersInit /\ PosInit /\ CatalogueInit /\ ShippingInit
        /\ InvoicingInit /\ TotalsInit
  BY DEF BackOfficeInit
<1>2. [BackOfficeNext]_backOfficeVars =>
        /\ [ReturnsNext]_returnsVars /\ [PurchasingNext]_purchasingVars /\ [ImportNext]_importVars
        /\ [LoyaltyNext]_loyaltyVars /\ [AuthNext]_authVars /\ [SessionsNext]_sessionsVars
        /\ [VariantsNext]_variantVars /\ [ChannelStockNext]_channelStockVars
        /\ [ChannelOrdersNext]_channelOrdersVars /\ [PosNext]_posVars
        /\ [CatalogueNext]_catalogueVars /\ [ShippingNext]_shippingVars
        /\ [InvoicingNext]_invoicingVars /\ [TotalsNext]_totalsVars
  BY StepsAreOfOne DEF EachStepsOrStays
<1> QED
  BY <1>1, <1>2, PTL DEF BackOfficeSpec, ReturnsSpec, PurchasingSpec, ImportSpec, LoyaltySpec, AuthSpec,
                         SessionsSpec, VariantsSpec, ChannelStockSpec, ChannelOrdersSpec, PosSpec,
                         CatalogueSpec, ShippingSpec, InvoicingSpec, TotalsSpec

\* The state of every component has the shape its code gives it.
THEOREM BackOfficeTypes == BackOfficeSpec => []BackOfficeTypeOK
<1>1. ReturnsInv /\ PurchasingInv /\ ImportInv => ReturnsTypeOK /\ PurchasingTypeOK /\ ImportTypeOK
  BY DEF ReturnsInv, PurchasingInv, ImportInv
<1>2. LoyaltyInv /\ AuthInv /\ SessionsInv => LoyaltyTypeOK /\ AuthTypeOK /\ SessionsTypeOK
  BY DEF LoyaltyInv, AuthInv, SessionsInv
<1>3. ChannelStockInv /\ ChannelOrdersInv /\ PosInv => ChannelStockTypeOK /\ ChannelOrdersTypeOK /\ PosTypeOK
  BY DEF ChannelStockInv, ChannelOrdersInv, PosInv
<1>4. VariantsInv /\ ShippingInv /\ TotalsInv => VariantsTypeOK /\ ShippingTypeOK /\ TotalsTypeOK
  BY DEF VariantsInv, ShippingInv, TotalsInv
<1>5. /\ ReturnsTypeOK /\ PurchasingTypeOK /\ ImportTypeOK
      /\ LoyaltyTypeOK /\ AuthTypeOK /\ SessionsTypeOK
      /\ ChannelStockTypeOK /\ ChannelOrdersTypeOK /\ PosTypeOK
      /\ InvoicingTypeOK /\ CatalogueTypeOK /\ VariantsTypeOK
      /\ ShippingTypeOK /\ TotalsTypeOK
      => BackOfficeTypeOK
  BY DEF BackOfficeTypeOK
<1> QED
  BY <1>1, <1>2, <1>3, <1>4, <1>5, EachRunsAlone, ReturnsInvHolds, PurchasingInvHolds, ImportInvHolds,
     LoyaltyInvHolds, AuthInvHolds, SessionsInvHolds, ChannelStockInvHolds, ChannelOrdersInvHolds,
     PosInvHolds, InvoicingTypes, CatalogueTypes, VariantsInvHolds, ShippingInvHolds, TotalsInvHolds, PTL

\* Whatever the back office is asked to do, and by how many at a time, each
\* component keeps its properties, with the exceptions they state: returns are
\* booked once and judged on photos, orders are received in full, imports report
\* what they stored, the ledger explains the points and the newest award the
\* tier, tokens tell the roles their user has, sessions rotate and tokens are
\* revoked from the second time on, variants have one sale price, syncs bring
\* the levels of products with an external id, no channel order is missed,
\* change is covered and receipts are stable, slugs are lost to races only,
\* products are in the groups asked for, shipments tell what the carrier did,
\* orders have the invoice of their kind and its document adds up, and the
\* accounts of a variant's units agree until one is written alone.
THEOREM BackOfficeSafe ==
  BackOfficeSpec =>
    /\ [](/\ BookedOnce /\ VerdictGrounded /\ ReceivedInFull /\ ImportReportTrue
          /\ LedgerChains /\ TierFollowsAwards
          /\ CurrentTokensTellRoles /\ OldTokensRefused /\ OneTokenPerSession /\ RevokedStayRefused
          /\ OneSalePrice /\ EditsSurvive)
    /\ [](/\ SyncBrings /\ NoOrderMissed /\ ChangeCovered
          /\ SlugLostToRace /\ MembershipsAsAsked /\ ShipmentTellsCarrier
          /\ OrdersAreInvoiced /\ DocumentAddsUp /\ TotalsAgree)
    /\ ReprintStable
  BY EachRunsAlone, ReturnsBookOnce, VerdictsAreGrounded, OrdersAreReceivedInFull, ImportsTellTheTruth,
     LedgerExplainsBalance, TierIsOfLastAward, TokensTellRoles, OldTokensAreRefused, SessionsRotate,
     RevokedAreRefused, SalesAreSingle, AskedIsKept, SyncsBringLevels, NoOrderFallsBetween,
     ChangeIsCovered, SlugsLostOnlyToRaces, MembershipsFollowRequests, ShipmentsTellCarrier,
     ReprintIsStable, OrdersHaveInvoices, DocumentsAddUp, AccountsAgree, PTL
=============================================================================
