--------------------------------- MODULE Pos ---------------------------------
(***************************************************************************)
(* The point of sale: cashier sessions, the scan of a barcode, orders of   *)
(* the POS channel, their payments and receipts.                           *)
(*                                                                         *)
(* RecordPayment asks nothing of the order's total, of earlier payments or *)
(* of the session.  It stamps the payment, inserts it, and builds the      *)
(* receipt from reads that may fail; the caller then gets an empty answer  *)
(* with status 200, and may well pay again.  Amounts are whole dirhams.    *)
(***************************************************************************)
EXTENDS Integers, Sequences, FiniteSets, FiniteSetsExt, Sums

CONSTANTS
  NPosSessions,   \* cashier sessions
  NPosOrders,     \* orders of the POS channel
  NPayments,      \* RecordPayment requests, numbered by their stamps
  MaxShelfPrice,  \* bound on a price; orders are of one unit
  MaxAmount       \* bound on the amount of a payment

ASSUME PosAssumption ==
  /\ {NPosSessions, NPayments} \subseteq Nat /\ NPosOrders \in Nat \ {0}
  /\ MaxShelfPrice \in Nat \ {0} /\ MaxAmount \in Nat \ {0}

VARIABLES
  posSession,   \* pos_sessions: "none", "open" or "closed"
  shelf,        \* the scanned variant: sold or not, its POS price, its stock
  scanned,      \* the price and stock the last scan has shown
  posOrder,     \* total of each order, 0 while there is none
  payment,      \* the RecordPayment requests and their pos_payments rows
  crowded       \* orders two of whose payments were under way at once

posVars == <<posSession, shelf, scanned, posOrder, payment, crowded>>

PosSessions == 1..NPosSessions
PosOrders   == 1..NPosOrders
Payments    == 1..NPayments

NoPrice    == 0
NewPayment == [pc |-> "new", order |-> 1, amount |-> 0, change |-> 0]

PosInit ==
  /\ posSession = [s \in PosSessions |-> "none"]
  /\ shelf \in [sold : BOOLEAN, price : 0..MaxShelfPrice, stock : 0..1]
  /\ scanned = [price |-> 0, stock |-> 0]
  /\ posOrder = [o \in PosOrders |-> 0]
  /\ payment = [p \in Payments |-> NewPayment]
  /\ crowded = {}

-----------------------------------------------------------------------------
(* Sessions.  A register may have several open ones, and a closed session  *)
(* is closed again, with a new closing time, as often as it is asked for.  *)

InsertSession(s) == [posSession EXCEPT ![s] = "open"]
OpenSession(s) ==
  /\ posSession[s] = "none"
  /\ posSession' = InsertSession(s)
  /\ UNCHANGED <<shelf, scanned, posOrder, payment, crowded>>

\* An update that finds no row is no error.
CloseSession(s) ==
  /\ posSession' = [posSession EXCEPT ![s] = IF @ = "none" THEN @ ELSE "closed"]
  /\ UNCHANGED <<shelf, scanned, posOrder, payment, crowded>>

-----------------------------------------------------------------------------
(* Scan and sale                                                           *)

\* The catalogue changes the price, or takes the variant off the shelf.
ChangeShelf ==
  /\ \/ \E price \in 1..MaxShelfPrice : shelf' = [shelf EXCEPT !.price = price]
     \/ shelf' = [shelf EXCEPT !.sold = ~@]
  /\ UNCHANGED <<posSession, scanned, posOrder, payment, crowded>>

\* The variant is active, and so is its product.
GetVariantByBarcode == shelf.sold

\* No price set is shown as zero.
GetPOSChannelPriceForVariant == shelf.price

GetAvailableStockForVariant == shelf.stock

ScanBarcode ==
  /\ GetVariantByBarcode
  /\ scanned' = [price |-> GetPOSChannelPriceForVariant, stock |-> GetAvailableStockForVariant]
  /\ UNCHANGED <<posSession, shelf, posOrder, payment, crowded>>

\* The order pipeline, which charges the price of its own moment, wants one,
\* and deducts the stock.  (It asks neither product nor variant to be active.)
CreatePOSOrder(o) ==
  /\ posOrder[o] = 0 /\ \A n \in 1..(o - 1) : posOrder[n] # 0
  /\ shelf.price # NoPrice /\ shelf.stock > 0
  /\ posOrder' = [posOrder EXCEPT ![o] = shelf.price]
  /\ shelf' \in {[shelf EXCEPT !.stock = n] : n \in 0..1}
  /\ UNCHANGED <<posSession, scanned, payment, crowded>>

-----------------------------------------------------------------------------
(* Payments                                                                *)

Pending(o) == {p \in Payments : payment[p].pc = "stamped" /\ payment[p].order = o}

\* The handler asks for a well-formed id, the service for a positive amount.
PayOrder(p, o, amount) ==
  /\ payment[p].pc = "new" /\ \A n \in 1..(p - 1) : payment[n].pc # "new"
  /\ amount > 0
  /\ payment' = [payment EXCEPT ![p] =
                   [pc |-> "stamped", order |-> o, amount |-> amount, change |-> 0]]
  /\ crowded' = IF Pending(o) # {} THEN crowded \cup {o} ELSE crowded
  /\ UNCHANGED <<posSession, shelf, scanned, posOrder>>

\* The row refers to an order that is there, or the insertion fails.
InsertPayment(p) ==
  /\ payment[p].pc = "stamped"
  /\ payment' = [payment EXCEPT ![p].pc = IF posOrder[payment[p].order] # 0 THEN "inserted" ELSE "failed"]
  /\ UNCHANGED <<posSession, shelf, scanned, posOrder, crowded>>

FailPayment(p) ==
  /\ payment[p].pc = "stamped"
  /\ payment' = [payment EXCEPT ![p].pc = "failed"]
  /\ UNCHANGED <<posSession, shelf, scanned, posOrder, crowded>>

\* Mutant of ChangeDue: the difference either way.
ChangeEitherWay(o, amount) ==
  IF amount >= posOrder[o] THEN amount - posOrder[o] ELSE posOrder[o] - amount

\* buildReceipt: what this payment alone exceeds the whole total by.
ChangeDue(o, amount) == Max({0, amount - posOrder[o]})

RecordPayment(p) ==
  /\ payment[p].pc = "inserted"
  /\ payment' = [payment EXCEPT ![p].pc = "paid",
                                ![p].change = ChangeDue(payment[p].order, payment[p].amount)]
  /\ UNCHANGED <<posSession, shelf, scanned, posOrder, crowded>>

\* A read of the receipt fails, or the server stops: the row stays.
LoseReceipt(p) ==
  /\ payment[p].pc = "inserted"
  /\ payment' = [payment EXCEPT ![p].pc = "silent"]
  /\ UNCHANGED <<posSession, shelf, scanned, posOrder, crowded>>

GetPaymentsByOrderID(o) ==
  {p \in Payments : payment[p].order = o /\ payment[p].pc \in {"inserted", "paid", "silent"}}

\* Mutant of GetReceiptHTML: the latest payment.
GetLastReceipt(o) == Max(GetPaymentsByOrderID(o))

\* The payment a reprinted receipt shows: the first, by its stamp.
GetReceiptHTML(o) == Min(GetPaymentsByOrderID(o))

-----------------------------------------------------------------------------

PosNext ==
  \/ \E s \in PosSessions : OpenSession(s) \/ CloseSession(s)
  \/ ChangeShelf \/ ScanBarcode
  \/ \E o \in PosOrders : CreatePOSOrder(o)
  \/ \E p \in Payments, o \in PosOrders, amount \in 1..MaxAmount : PayOrder(p, o, amount)
  \/ \E p \in Payments :
       InsertPayment(p) \/ FailPayment(p) \/ RecordPayment(p) \/ LoseReceipt(p)

PosSpec == PosInit /\ [][PosNext]_posVars

PosTypeOK ==
  /\ posSession \in [PosSessions -> {"none", "open", "closed"}]
  /\ shelf \in [sold : BOOLEAN, price : 0..MaxShelfPrice, stock : 0..1]
  /\ scanned \in [price : 0..MaxShelfPrice, stock : 0..1]
  /\ posOrder \in [PosOrders -> 0..MaxShelfPrice]
  /\ payment \in [Payments -> [pc : {"new", "stamped", "inserted", "failed", "paid", "silent"},
                               order : PosOrders, amount : 0..MaxAmount, change : Nat]]
  /\ crowded \in SUBSET PosOrders

\* A column added up over the payments of an order.
OverOrder(column, o) ==
  SumTo([p \in Payments |-> IF p \in GetPaymentsByOrderID(o) THEN column[p] ELSE 0], NPayments)

(* However an order is split over payments, and however often it is paid   *)
(* again after a lost receipt, the change handed out over all of them is   *)
(* no more than what was paid above the total (buildReceipt looks at one   *)
(* payment at a time).                                                     *)
ChangeCovered ==
  \A o \in PosOrders :
    LET paid   == OverOrder([p \in Payments |-> payment[p].amount], o)
        change == OverOrder([p \in Payments |-> payment[p].change], o)
    IN  change <= Max({0, paid - posOrder[o]})

(* A receipt printed again shows the payment it showed before: later       *)
(* payments of the order never take its place, unless two of them were     *)
(* under way at once and reached the table in the other order              *)
(* (GetReceiptHTML, payments[0] by paid_at).                               *)
ReprintStable ==
  [][\A o \in PosOrders \ crowded :
       GetPaymentsByOrderID(o) # {} => GetReceiptHTML(o)' = GetReceiptHTML(o)]_posVars
=============================================================================
