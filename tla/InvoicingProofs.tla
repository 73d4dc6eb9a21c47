--------------------------- MODULE InvoicingProofs ---------------------------
(***************************************************************************)
(* Invoices, for any number of orders, lines, prices and quantities: an    *)
(* order has one invoice row of its kind, and the document in it adds up.  *)
(***************************************************************************)
EXTENDS Invoicing, SumLemmas, FiniteSetTheorems

-----------------------------------------------------------------------------
(* Invoices: the inductive invariant                                       *)

RequestRow(r) == r.trn \in BOOLEAN /\ DOMAIN r = {"pc", "channel", "trn", "vatType", "lines", "number"}
InvoiceColumns == {"order", "number", "type", "status", "xml"}

\* A request that is not over has no order; requests and orders say whether the
\* customer has a TRN.
RequestsSound ==
  /\ DOMAIN invoiceReq = InvoiceOrders /\ DOMAIN invoicedOrder = InvoiceOrders
  /\ \A o \in InvoiceOrders :
       /\ invoiceReq[o].pc # "over" => ~invoicedOrder[o].placed
       /\ invoicedOrder[o].placed \in BOOLEAN
       /\ RequestRow(invoiceReq[o])

\* An invoice row and its order say the same, no two rows are of one order or
\* of one number, and no order is without its row.
RowsOfOrders ==
  /\ \A d \in orderInvoice :
       /\ DOMAIN d = InvoiceColumns /\ d.order \in InvoiceOrders
       /\ invoicedOrder[d.order].placed /\ invoicedOrder[d.order].trn \in BOOLEAN
       /\ d.number = invoicedOrder[d.order].number
       /\ d.xml # <<>> <=> invoicedOrder[d.order].channel = "wholesale" \/ invoicedOrder[d.order].trn
  /\ \A d, e \in orderInvoice : d.order = e.order \/ d.number = e.number => d = e
  /\ \A o \in InvoiceOrders : invoicedOrder[o].placed => \E d \in orderInvoice : d.order = o

InvoicingInv == RequestsSound /\ RowsOfOrders

\* Prices are prices, a line of a request is of natural amounts, ...
LineRows == [price : Nat, quantity : Nat, discount : Nat]
PricedLines(lines) == lines \in Seq(LineRows) /\ lines # <<>>

TariffSound ==
  tariff \in [standard : UnitPrices \cup {NoStandard}, promotions : SUBSET Promotions]

\* ... the sequence has given a number to requests only, each within the limit, ...
NumberedRequests == {o \in InvoiceOrders : invoiceReq[o].pc \in {"numbered", "over"}}
NumbersSound ==
  /\ \A o \in InvoiceOrders :
       /\ invoiceReq[o].pc \in {"new", "priced", "numbered", "over"}
       /\ invoiceReq[o].number < NumberLimit
  /\ invoiceSeq \in Nat /\ invoiceSeq <= Cardinality(NumberedRequests)

\* ... and an order is what was built of its request, its document what is made
\* of the order.
DocumentsSound ==
  /\ \A o \in InvoiceOrders :
       /\ invoiceReq[o].pc \in {"priced", "numbered"} => PricedLines(invoiceReq[o].lines)
       /\ IF invoicedOrder[o].placed
          THEN /\ PricedLines(invoiceReq[o].lines)
               /\ invoicedOrder[o] = BuildOrder(invoiceReq[o], invoiceReq[o].number)
          ELSE invoicedOrder[o] = NoOrder
  /\ \A d \in orderInvoice :
       /\ d.status \in {NotSubmitted, "rejected"}
       /\ d.xml # <<>> => d.xml = <<GenerateXML(invoicedOrder[d.order])>>

BooksInv == TariffSound /\ NumbersSound /\ DocumentsSound

-----------------------------------------------------------------------------
(* Invoices                                                                *)

LEMMA InvoicingInitSafe == InvoicingInit => InvoicingInv
<1> SUFFICES ASSUME InvoicingInit PROVE InvoicingInv
  OBVIOUS
<1>1. RequestRow(NoRequest) /\ NoOrder.placed = FALSE
  BY DEF RequestRow, NoRequest, NoOrder
<1>2. \A o \in InvoiceOrders : invoiceReq[o] = NoRequest /\ invoicedOrder[o] = NoOrder
  BY DEF InvoicingInit
<1>3. DOMAIN invoiceReq = InvoiceOrders /\ DOMAIN invoicedOrder = InvoiceOrders
  BY DEF InvoicingInit
<1>4. RequestsSound
  BY <1>1, <1>2, <1>3 DEF RequestsSound
<1>5. RowsOfOrders
  BY <1>1, <1>2 DEF RowsOfOrders, InvoicingInit
<1> QED BY <1>4, <1>5 DEF InvoicingInv

\* A request moves on without writing an order.
LEMMA RequestMoves ==
  ASSUME InvoicingInv, NEW o \in InvoiceOrders, invoiceReq[o].pc # "over",
         NEW row, RequestRow(row),
         invoiceReq' = [invoiceReq EXCEPT ![o] = row],
         UNCHANGED <<invoicedOrder, orderInvoice>>
  PROVE  InvoicingInv'
<1>1. RequestsSound'
  <2>1. DOMAIN invoiceReq' = InvoiceOrders /\ DOMAIN invoicedOrder' = InvoiceOrders
    BY DEF InvoicingInv, RequestsSound
  <2>2. invoiceReq'[o] = row /\ \A p \in InvoiceOrders : p # o => invoiceReq'[p] = invoiceReq[p]
    BY DEF InvoicingInv, RequestsSound
  <2>3. \A p \in InvoiceOrders : RequestRow(invoiceReq'[p])
    BY <2>2 DEF InvoicingInv, RequestsSound
  <2>4. \A p \in InvoiceOrders : (invoiceReq'[p].pc # "over" => ~invoicedOrder'[p].placed)
                                /\ invoicedOrder'[p].placed \in BOOLEAN
    BY <2>2 DEF InvoicingInv, RequestsSound
  <2> QED BY <2>1, <2>3, <2>4 DEF RequestsSound
<1>2. RowsOfOrders'
  BY DEF InvoicingInv, RowsOfOrders
<1> QED BY <1>1, <1>2 DEF InvoicingInv

\* A request is priced, and is not over by it.
LEMMA PriceOrderKeeps ==
  ASSUME InvoicingInv, NEW o \in InvoiceOrders, PriceOrder(o)
  PROVE  InvoicingInv'
<1>1. PICK sold \in ChannelTypes, trn \in BOOLEAN, vatType \in VatTypes,
           tier \in CustomerTiers \cup {EveryTier} :
        \E price \in Resolve(tier) : \E lines \in OrderLines(price) :
          invoiceReq' = [invoiceReq EXCEPT ![o] =
              [pc |-> "priced", channel |-> sold, trn |-> trn, vatType |-> vatType,
               lines |-> lines, number |-> 0]]
  BY DEF PriceOrder
<1>2. PICK lines : invoiceReq' = [invoiceReq EXCEPT ![o] =
              [pc |-> "priced", channel |-> sold, trn |-> trn, vatType |-> vatType,
               lines |-> lines, number |-> 0]]
  BY <1>1
<1>3. PICK row : row = [pc |-> "priced", channel |-> sold, trn |-> trn, vatType |-> vatType,
                        lines |-> lines, number |-> 0]
  OBVIOUS
<1>4. RequestRow(row) /\ invoiceReq' = [invoiceReq EXCEPT ![o] = row]
  BY <1>2, <1>3 DEF RequestRow
<1>5. invoiceReq[o].pc # "over" /\ UNCHANGED <<invoicedOrder, orderInvoice>>
  BY DEF PriceOrder
<1> QED BY <1>4, <1>5, RequestMoves

\* A request draws its number, or fails with or without one.
LEMMA NumberOrFailKeeps ==
  ASSUME InvoicingInv, NEW o \in InvoiceOrders, NextInvoiceNumber(o) \/ FailInvoice(o)
  PROVE  InvoicingInv'
<1>1. invoiceReq[o].pc # "over" /\ UNCHANGED <<invoicedOrder, orderInvoice>>
  BY DEF NextInvoiceNumber, FailInvoice
<1>2. RequestRow(invoiceReq[o]) /\ DOMAIN invoiceReq = InvoiceOrders
  BY DEF InvoicingInv, RequestsSound
<1>3. CASE NextInvoiceNumber(o)
  <2>1. PICK number : number = Lpad(invoiceSeq + 1)
    OBVIOUS
  <2>2. PICK row : row = [invoiceReq[o] EXCEPT !.pc = "numbered", !.number = number]
    OBVIOUS
  <2>3. invoiceReq' = [invoiceReq EXCEPT ![o] = row]
    BY <1>2, <1>3, <2>1, <2>2 DEF NextInvoiceNumber
  <2>4. RequestRow(row)
    BY <1>2, <2>2 DEF RequestRow
  <2> QED BY <1>1, <2>3, <2>4, RequestMoves
<1>4. CASE FailInvoice(o)
  <2>1. PICK row : row = [invoiceReq[o] EXCEPT !.pc = "over"]
    OBVIOUS
  <2>2. invoiceReq' = [invoiceReq EXCEPT ![o] = row]
    BY <1>2, <1>4, <2>1 DEF FailInvoice
  <2>3. RequestRow(row)
    BY <1>2, <2>1 DEF RequestRow
  <2> QED BY <1>1, <2>2, <2>3, RequestMoves
<1> QED BY <1>3, <1>4

\* The order and its row come in together, with a number no row has.
LEMMA PersistKeeps ==
  ASSUME InvoicingInv, NEW o \in InvoiceOrders, PersistInvoice(o)
  PROVE  InvoicingInv'
<1> USE DEF InvoicingInv
<1>1. PICK order : order = BuildOrder(invoiceReq[o], invoiceReq[o].number)
  OBVIOUS
<1>2. order.placed = TRUE /\ order.channel = invoiceReq[o].channel /\ order.trn = invoiceReq[o].trn
  BY <1>1 DEF BuildOrder
<1>3. PICK xml : xml = IF Evaluate(order.channel, order.trn) = "einvoice_ubl" THEN <<GenerateXML(order)>> ELSE <<>>
  OBVIOUS
<1>4. PICK d : d = [order |-> o, number |-> order.number, type |-> Evaluate(order.channel, order.trn),
                    status |-> NotSubmitted, xml |-> xml]
  OBVIOUS
<1>5. /\ DOMAIN d = InvoiceColumns /\ d.order = o /\ d.number = order.number /\ d.xml = xml
  BY <1>4 DEF InvoiceColumns
<1>6. /\ orderInvoice' = orderInvoice \cup {d}
      /\ invoicedOrder' = [invoicedOrder EXCEPT ![o] = order]
      /\ \A e \in orderInvoice : e.number # order.number
      /\ invoiceReq[o].pc # "over"
  BY <1>1, <1>3, <1>4 DEF PersistInvoice, InsertOrderInvoice, StampInvoiceNumber, NumberTaken
<1>7. invoiceReq' = [invoiceReq EXCEPT ![o].pc = "over"]
  BY DEF PersistInvoice
<1>8. ~invoicedOrder[o].placed /\ invoiceReq[o].trn \in BOOLEAN
  BY <1>6 DEF RequestsSound, RequestRow
<1>9. xml # <<>> <=> order.channel = "wholesale" \/ order.trn
  <2>1. Evaluate(order.channel, order.trn) = "einvoice_ubl" <=> order.channel = "wholesale" \/ order.trn
    BY DEF Evaluate
  <2>2. <<GenerateXML(order)>> # <<>>
    OBVIOUS
  <2> QED BY <1>3, <2>1, <2>2
<1>10. invoicedOrder'[o] = order /\ \A p \in InvoiceOrders : p # o => invoicedOrder'[p] = invoicedOrder[p]
  BY <1>6 DEF RequestsSound
<1>11. RequestsSound'
  <2>1. DOMAIN invoiceReq' = InvoiceOrders /\ DOMAIN invoicedOrder' = InvoiceOrders
    BY <1>6, <1>7 DEF RequestsSound
  <2>2. ASSUME NEW p \in InvoiceOrders
        PROVE  /\ invoiceReq'[p].pc # "over" => ~invoicedOrder'[p].placed
               /\ invoicedOrder'[p].placed \in BOOLEAN
               /\ RequestRow(invoiceReq'[p])
    <3>1. CASE p = o
      BY <1>2, <1>7, <1>10, <3>1 DEF RequestsSound, RequestRow
    <3>2. CASE p # o
      BY <1>7, <1>10, <3>2 DEF RequestsSound
    <3> QED BY <3>1, <3>2
  <2> QED BY <2>1, <2>2 DEF RequestsSound
<1>12. \A e \in orderInvoice : e.order # o
  BY <1>8 DEF RowsOfOrders
<1>13. ASSUME NEW e \in orderInvoice'
       PROVE  /\ DOMAIN e = InvoiceColumns /\ e.order \in InvoiceOrders
              /\ invoicedOrder'[e.order].placed /\ invoicedOrder'[e.order].trn \in BOOLEAN
              /\ e.number = invoicedOrder'[e.order].number
              /\ e.xml # <<>> <=> invoicedOrder'[e.order].channel = "wholesale" \/ invoicedOrder'[e.order].trn
  <2>1. CASE e = d
    BY <1>2, <1>5, <1>8, <1>9, <1>10, <2>1
  <2>2. CASE e \in orderInvoice
    BY <1>10, <1>12, <2>2 DEF RowsOfOrders
  <2> QED BY <1>6, <2>1, <2>2
<1>14. \A e, f \in orderInvoice' : e.order = f.order \/ e.number = f.number => e = f
  BY <1>5, <1>6, <1>12 DEF RowsOfOrders
<1>15. \A p \in InvoiceOrders : invoicedOrder'[p].placed => \E e \in orderInvoice' : e.order = p
  BY <1>5, <1>6, <1>10 DEF RowsOfOrders
<1>16. RowsOfOrders'
  BY <1>13, <1>14, <1>15 DEF RowsOfOrders
<1> QED BY <1>11, <1>16

\* A submission changes the status of a row and nothing that says whose it is.
LEMMA SubmitKeeps ==
  ASSUME InvoicingInv, NEW d \in orderInvoice, SubmitToSandbox(d)
  PROVE  InvoicingInv'
<1> USE DEF InvoicingInv
<1>1. PICK sent : sent = [d EXCEPT !.status = "rejected"]
  OBVIOUS
<1>2. /\ orderInvoice' = (orderInvoice \ {d}) \cup {sent}
      /\ UNCHANGED <<invoiceReq, invoicedOrder>>
  BY <1>1 DEF SubmitToSandbox, UpdateSandboxStatus
<1>3. DOMAIN sent = InvoiceColumns /\ sent.order = d.order /\ sent.number = d.number /\ sent.xml = d.xml
  <2>1. DOMAIN d = InvoiceColumns
    BY DEF RowsOfOrders
  <2> QED BY <1>1, <2>1 DEF InvoiceColumns
<1>4. RequestsSound'
  BY <1>2 DEF RequestsSound
<1>5. ASSUME NEW e \in orderInvoice'
       PROVE  /\ DOMAIN e = InvoiceColumns /\ e.order \in InvoiceOrders
              /\ invoicedOrder'[e.order].placed /\ invoicedOrder'[e.order].trn \in BOOLEAN
              /\ e.number = invoicedOrder'[e.order].number
              /\ e.xml # <<>> <=> invoicedOrder'[e.order].channel = "wholesale" \/ invoicedOrder'[e.order].trn
  <2>1. PICK old \in orderInvoice : DOMAIN e = DOMAIN old /\ e.order = old.order /\ e.number = old.number /\ e.xml = old.xml
    <3>1. CASE e = sent
      BY <1>3, <3>1 DEF RowsOfOrders
    <3>2. CASE e \in orderInvoice
      BY <3>2
    <3> QED BY <1>2, <3>1, <3>2
  <2> QED BY <1>2, <2>1 DEF RowsOfOrders
<1>6. ASSUME NEW e \in orderInvoice', NEW f \in orderInvoice', e.order = f.order \/ e.number = f.number
      PROVE  e = f
  BY <1>2, <1>3, <1>6 DEF RowsOfOrders
<1>7. \A p \in InvoiceOrders : invoicedOrder'[p].placed => \E e \in orderInvoice' : e.order = p
  BY <1>2, <1>3 DEF RowsOfOrders
<1>8. RowsOfOrders'
  BY <1>5, <1>6, <1>7 DEF RowsOfOrders
<1> QED BY <1>4, <1>8

\* Every step of requests and submissions keeps InvoicingInv.
THEOREM InvoicingInductive == InvoicingInv /\ [InvoicingNext]_invoicingVars => InvoicingInv'
<1> SUFFICES ASSUME InvoicingInv, [InvoicingNext]_invoicingVars PROVE InvoicingInv'
  OBVIOUS
<1>1. CASE UNCHANGED invoicingVars
  BY <1>1 DEF invoicingVars, InvoicingInv, RequestsSound, RowsOfOrders
<1> QED
  BY <1>1, PriceOrderKeeps, NumberOrFailKeeps, PersistKeeps, SubmitKeeps DEF InvoicingNext

\* InvoicingInv holds in every state.
THEOREM InvoicingInvHolds == InvoicingSpec => []InvoicingInv
  BY InvoicingInitSafe, InvoicingInductive, PTL DEF InvoicingSpec

\* Every order has one invoice row, of its own number and of the type its
\* channel and customer call for, whatever requests fail (compliance.Execute).
THEOREM OrdersHaveInvoices == InvoicingSpec => []OrdersAreInvoiced
<1>1. InvoicingInv => OrdersAreInvoiced
  <2> SUFFICES ASSUME InvoicingInv PROVE OrdersAreInvoiced
    OBVIOUS
  <2>1. ASSUME NEW o \in InvoiceOrders
        PROVE  Cardinality({d \in orderInvoice : d.order = o}) = IF invoicedOrder[o].placed THEN 1 ELSE 0
    <3> DEFINE rows == {d \in orderInvoice : d.order = o}
    <3>1. CASE invoicedOrder[o].placed
      <4>1. PICK d \in orderInvoice : d.order = o
        BY <3>1 DEF InvoicingInv, RowsOfOrders
      <4>2. rows = {d}
        BY <4>1 DEF InvoicingInv, RowsOfOrders
      <4> QED BY <3>1, <4>2, FS_Singleton
    <3>2. CASE ~invoicedOrder[o].placed
      <4>1. rows = {}
        BY <3>2 DEF InvoicingInv, RowsOfOrders
      <4> QED BY <3>2, <4>1, FS_EmptySet
    <3> QED BY <3>1, <3>2
  <2>2. ASSUME NEW d \in orderInvoice
        PROVE  /\ d.number = invoicedOrder[d.order].number
               /\ (d.xml # <<>>) = (invoicedOrder[d.order].channel = "wholesale" \/ invoicedOrder[d.order].trn)
               /\ \A e \in orderInvoice : e.number = d.number => e = d
    BY DEF InvoicingInv, RowsOfOrders
  <2> QED BY <2>1, <2>2 DEF OrdersAreInvoiced
<1> QED
  BY <1>1, InvoicingInvHolds, PTL

-----------------------------------------------------------------------------
(* The document of an order                                                *)

\* The net and the VAT of a line are integers; the VAT of a line that is not
\* discounted below zero is a whole number of hundredths.
LEMMA LineAmounts ==
  ASSUME NEW l \in LineRows, NEW rate \in Nat
  PROVE  /\ LineNet(l) \in Int /\ LineVat(l, rate) \in Int
         /\ LineNet(l) >= 0 => \E k \in Nat : LineVat(l, rate) = 100 * k
<1>1. \A x, y \in Nat : x * y \in Nat
  OBVIOUS
<1>2. \A x \in Int : x * rate \in Int /\ (x >= 0 => x * rate >= 0)
  OBVIOUS
<1>3. LineNet(l) \in Int
  BY <1>1 DEF LineNet, LineRows
<1>4. \A a \in Int : RoundDiv(a, 10000) \in Int /\ (a >= 0 => RoundDiv(a, 10000) \in Nat)
  BY DEF RoundDiv
<1> QED
  BY <1>2, <1>3, <1>4 DEF LineVat

\* Rounding leaves hundredths alone, wherever they stand in a sum.
LEMMA Rounding ==
  /\ \A a \in Int : Round2(a) \in Int
  /\ \A a, k \in Nat : /\ Round2(100 * k) = 100 * k
                       /\ Round2(a + 100 * k) = Round2(a) + 100 * k
  BY DEF Round2, RoundDiv

\* The taxes of a single subtotal add up to its tax.
LEMMA SumOfOne ==
  ASSUME NEW s, s.tax \in Int
  PROVE  MapThenSumSet(LAMBDA x : x.tax, {s}) = s.tax
<1> DEFINE Totals(f) == f = [t \in SUBSET {s} |->
                               IF t = {} THEN 0
                               ELSE LET x == CHOOSE x \in t : TRUE IN x.tax + f[t \ {x}]]
<1>1. \E f : Totals(f)
  <2>1. PICK f : f = [t \in SUBSET {s} |-> IF t = {} THEN 0 ELSE s.tax]
    OBVIOUS
  <2>2. Totals(f)
    BY <2>1
  <2> QED BY <2>2
<1>2. PICK f : Totals(f) /\ MapThenSumSet(LAMBDA x : x.tax, {s}) = f[{s}]
  BY <1>1 DEF MapThenSumSet, MapThenFoldSet
<1>3. f[{}] = 0 /\ f[{s}] = s.tax + f[{}]
  BY <1>2
<1> QED BY <1>2, <1>3

\* A function on 1..n is a sequence of n.
LEMMA LineSequences ==
  ASSUME NEW n \in Nat, NEW S, NEW lines \in [1..n -> S]
  PROVE  lines \in Seq(S) /\ Len(lines) = n /\ DOMAIN lines = 1..n
  OBVIOUS

NetColumn(order) == [i \in DOMAIN order.lines |-> LineNet(order.lines[i])]
VatColumn(order) == [i \in DOMAIN order.lines |-> LineVat(order.lines[i], VatRate(order.vatType))]

\* The amounts of the lines, and how many there are.
LEMMA Columns ==
  ASSUME NEW order, order.lines \in Seq(LineRows), order.lines # <<>>, NEW n, n = Len(order.lines)
  PROVE  /\ n \in Nat \ {0} /\ DOMAIN order.lines = 1..n
         /\ VatRate(order.vatType) \in Nat
         /\ \A i \in 1..n : /\ order.lines[i] \in LineRows
                            /\ NetColumn(order)[i] = LineNet(order.lines[i])
                            /\ NetColumn(order)[i] \in Int
                            /\ VatColumn(order)[i] = LineVat(order.lines[i], VatRate(order.vatType))
                            /\ VatColumn(order)[i] \in Int
<1>1. n \in Nat \ {0} /\ DOMAIN order.lines = 1..n /\ \A i \in 1..n : order.lines[i] \in LineRows
  OBVIOUS
<1>2. VatRate(order.vatType) \in Nat
  BY InvoicingAssumption DEF VatRate
<1> QED
  BY <1>1, <1>2, LineAmounts DEF NetColumn, VatColumn

\* All lines of an order are of one category and rate: the tax of its document
\* is one subtotal, of the sums of the lines.
OneSubtotal(order) ==
  [category |-> TaxCategoryOf(order.vatType), rate |-> VatRate(order.vatType),
   taxable |-> Round2(SumTo(NetColumn(order), Len(order.lines))),
   tax |-> Round2(SumTo(VatColumn(order), Len(order.lines)))]

\* All lines are of the order's one rate, so its tax total has one subtotal.
LEMMA TaxOfDocument ==
  ASSUME NEW order, order.lines \in Seq(LineRows), order.lines # <<>>
  PROVE  BuildTaxTotal(BuildFromOrder(order)) =
           [amount |-> Round2(order.vat), subtotals |-> {OneSubtotal(order)}]
<1>1. PICK n, inv, rate, cat : /\ n = Len(order.lines) /\ inv = BuildFromOrder(order)
                               /\ rate = VatRate(order.vatType) /\ cat = TaxCategoryOf(order.vatType)
  OBVIOUS
<1>2. n \in Nat \ {0} /\ DOMAIN order.lines = 1..n
  BY <1>1, Columns
<1>3. ASSUME NEW i \in 1..n
      PROVE  /\ inv.lines[i].category = cat /\ inv.lines[i].rate = rate
             /\ inv.lines[i].net = NetColumn(order)[i] /\ inv.lines[i].vat = VatColumn(order)[i]
  <2>1. PICK x, y : x = LineNet(order.lines[i]) /\ y = LineVat(order.lines[i], rate)
    OBVIOUS
  <2>2. inv.lines[i] = [net |-> (x + y) - y, vat |-> y, category |-> cat, rate |-> rate]
    BY <1>1, <1>2, <2>1 DEF BuildFromOrder
  <2>3. x = NetColumn(order)[i] /\ x \in Int /\ y = VatColumn(order)[i] /\ y \in Int
    BY <1>1, <2>1, Columns
  <2>4. (x + y) - y = x
    BY <2>3
  <2> QED BY <2>2, <2>3, <2>4
<1>4. inv.vat = order.vat /\ DOMAIN inv.lines = 1..n
  BY <1>1, <1>2 DEF BuildFromOrder
<1>5. Len(inv.lines) = n
  <2>1. inv.lines = [i \in 1..n |-> inv.lines[i]]
    BY <1>1, <1>2 DEF BuildFromOrder
  <2> QED BY <1>2, <2>1
<1> DEFINE key(l) == <<l.category, l.rate>>
           keys   == {key(inv.lines[i]) : i \in DOMAIN inv.lines}
           net(k) == SumLines(inv.lines, LAMBDA l : IF key(l) = k THEN l.net ELSE 0)
           vat(k) == SumLines(inv.lines, LAMBDA l : IF key(l) = k THEN l.vat ELSE 0)
<1>6. BuildTaxTotal(inv) =
        [amount |-> Round2(inv.vat),
         subtotals |-> {[category |-> k[1], rate |-> k[2], taxable |-> Round2(net(k)),
                         tax |-> Round2(vat(k))] : k \in keys}]
  BY DEF BuildTaxTotal
<1>7. keys = {<<cat, rate>>}
  <2>1. \A i \in 1..n : key(inv.lines[i]) = <<cat, rate>>
    BY <1>3
  <2>2. 1 \in 1..n
    BY <1>2
  <2> HIDE DEF key
  <2> QED BY <1>4, <2>1, <2>2
<1>8. net(<<cat, rate>>) = SumTo(NetColumn(order), n)
  <2>1. PICK h : h = [i \in DOMAIN inv.lines |-> IF key(inv.lines[i]) = <<cat, rate>> THEN inv.lines[i].net ELSE 0]
    OBVIOUS
  <2>2. net(<<cat, rate>>) = SumTo(h, n)
    BY <1>5, <2>1 DEF SumLines
  <2>3. \A i \in 1..n : h[i] = NetColumn(order)[i] /\ NetColumn(order)[i] \in Int
    <3>1. \A i \in 1..n : NetColumn(order)[i] \in Int
      BY <1>1, Columns
    <3> QED BY <1>3, <1>4, <2>1, <3>1
  <2>4. SumTo(h, n) = SumTo(NetColumn(order), n)
    <3>1. PICK g : g = NetColumn(order)
      OBVIOUS
    <3> QED BY <1>2, <2>3, <3>1, SumToSame
  <2> QED BY <2>2, <2>4
<1>9. vat(<<cat, rate>>) = SumTo(VatColumn(order), n)
  <2>1. PICK h : h = [i \in DOMAIN inv.lines |-> IF key(inv.lines[i]) = <<cat, rate>> THEN inv.lines[i].vat ELSE 0]
    OBVIOUS
  <2>2. vat(<<cat, rate>>) = SumTo(h, n)
    BY <1>5, <2>1 DEF SumLines
  <2>3. \A i \in 1..n : h[i] = VatColumn(order)[i] /\ VatColumn(order)[i] \in Int
    <3>1. \A i \in 1..n : VatColumn(order)[i] \in Int
      BY <1>1, Columns
    <3> QED BY <1>3, <1>4, <2>1, <3>1
  <2>4. SumTo(h, n) = SumTo(VatColumn(order), n)
    <3>1. PICK g : g = VatColumn(order)
      OBVIOUS
    <3> QED BY <1>2, <2>3, <3>1, SumToSame
  <2> QED BY <2>2, <2>4
<1> HIDE DEF keys, net, vat
<1>10. PICK k : k = <<cat, rate>>
  OBVIOUS
<1>11. BuildTaxTotal(inv) =
         [amount |-> Round2(inv.vat),
          subtotals |-> {[category |-> k[1], rate |-> k[2], taxable |-> Round2(net(k)), tax |-> Round2(vat(k))]}]
  BY <1>6, <1>7, <1>10
<1>12. k[1] = cat /\ k[2] = rate /\ net(k) = SumTo(NetColumn(order), n) /\ vat(k) = SumTo(VatColumn(order), n)
  BY <1>8, <1>9, <1>10
<1> QED
  BY <1>1, <1>4, <1>11, <1>12 DEF OneSubtotal

\* What ProcessOrder writes of a request: its lines, and their sums.
LEMMA OrderOfRequest ==
  ASSUME NEW q, q.lines \in Seq(LineRows), q.lines # <<>>, NEW number,
         NEW order, order = BuildOrder(q, number)
  PROVE  /\ DOMAIN order = {"placed", "number", "channel", "trn", "vatType", "lines", "subtotal", "vat", "total"}
         /\ order.lines = q.lines /\ order.lines \in Seq(LineRows) /\ order.lines # <<>>
         /\ order.subtotal = SumTo(NetColumn(order), Len(order.lines)) /\ order.subtotal \in Int
         /\ order.vat = SumTo(VatColumn(order), Len(order.lines)) /\ order.vat \in Int
         /\ order.total = order.subtotal + order.vat
<1>1. PICK rate : rate = VatRate(q.vatType)
  OBVIOUS
<1>2. PICK subtotal, vat : /\ subtotal = SumLines(q.lines, LineNet)
                           /\ vat = SumLines(q.lines, LAMBDA l : LineVat(l, rate))
  OBVIOUS
<1>3. order = [placed |-> TRUE, number |-> number, channel |-> q.channel, trn |-> q.trn,
               vatType |-> q.vatType, lines |-> q.lines, subtotal |-> subtotal, vat |-> vat,
               total |-> subtotal + vat]
  BY <1>1, <1>2 DEF BuildOrder
<1>4. order.lines = q.lines /\ order.vatType = q.vatType
  BY <1>3
<1>5. PICK n : n = Len(order.lines)
  OBVIOUS
<1>6. subtotal = SumTo(NetColumn(order), n) /\ vat = SumTo(VatColumn(order), n)
  BY <1>1, <1>2, <1>4, <1>5 DEF SumLines, NetColumn, VatColumn
<1>7. subtotal \in Int /\ vat \in Int
  <2>1. PICK g, h : g = NetColumn(order) /\ h = VatColumn(order)
    OBVIOUS
  <2>2. n \in Nat /\ \A i \in 1..n : g[i] \in Int /\ h[i] \in Int
    BY <1>4, <1>5, <2>1, Columns
  <2>3. SumTo(g, n) \in Int /\ SumTo(h, n) \in Int
    BY <2>2, SumToType
  <2> QED BY <1>6, <2>1, <2>3
<1> QED
  BY <1>3, <1>4, <1>5, <1>6, <1>7

\* The parts of a document.
LEMMA PartsOfDocument ==
  ASSUME NEW order, NEW xml, xml = GenerateXML(order)
  PROVE  /\ xml.tax = BuildTaxTotal(BuildFromOrder(order))
         /\ xml.total = [lineExtension |-> Round2(order.subtotal), taxExclusive |-> Round2(order.subtotal),
                         taxInclusive |-> Round2(order.total), payable |-> Round2(order.total)]
         /\ xml.nets = [i \in DOMAIN order.lines |-> xml.nets[i]]
<1>1. PICK inv : inv = BuildFromOrder(order)
  OBVIOUS
<1>2. PICK tax : tax = BuildTaxTotal(inv)
  OBVIOUS
<1>3. /\ inv.subtotal = order.subtotal /\ inv.total = order.total
      /\ DOMAIN inv.lines = DOMAIN order.lines
  BY <1>1 DEF BuildFromOrder
<1>4. PICK total : total = BuildMonetaryTotal(inv)
  OBVIOUS
<1>5. total = [lineExtension |-> Round2(order.subtotal), taxExclusive |-> Round2(order.subtotal),
               taxInclusive |-> Round2(order.total), payable |-> Round2(order.total)]
  BY <1>3, <1>4 DEF BuildMonetaryTotal
<1>6. PICK lines : lines = [i \in DOMAIN inv.lines |-> BuildLine(inv.lines[i])]
  OBVIOUS
<1>7. PICK ubl : ubl = BuildUBL(inv)
  OBVIOUS
<1>8. ubl.tax = tax /\ ubl.total = total /\ ubl.lines = lines
  BY <1>2, <1>4, <1>6, <1>7 DEF BuildUBL
<1>9. PICK elements, nets : elements = EncodeUBL(ubl) /\ nets = [i \in DOMAIN ubl.lines |-> ubl.lines[i].net]
  OBVIOUS
<1>10. xml = [number |-> ubl.number, tax |-> tax, total |-> total, nets |-> nets, elements |-> elements]
  BY <1>1, <1>7, <1>8, <1>9 DEF GenerateXML, Serialize
<1>11. nets = [i \in DOMAIN order.lines |-> inv.lines[i].net]
  <2>1. \A i \in DOMAIN order.lines : lines[i].net = inv.lines[i].net
    BY <1>3, <1>6 DEF BuildLine
  <2>2. DOMAIN lines = DOMAIN order.lines
    BY <1>3, <1>6
  <2> QED BY <1>8, <1>9, <2>1, <2>2
<1> QED
  BY <1>1, <1>2, <1>5, <1>10, <1>11

\* The net of a line is carried through to the document.
LEMMA NetsOfDocument ==
  ASSUME NEW order, NEW i \in DOMAIN order.lines
  PROVE  GenerateXML(order).nets[i] = BuildFromOrder(order).lines[i].net
<1>1. PICK inv, ubl : inv = BuildFromOrder(order) /\ ubl = BuildUBL(inv)
  OBVIOUS
<1>2. DOMAIN inv.lines = DOMAIN order.lines
  BY <1>1 DEF BuildFromOrder
<1>3. ubl.lines = [j \in DOMAIN inv.lines |-> BuildLine(inv.lines[j])]
  BY <1>1 DEF BuildUBL
<1>4. GenerateXML(order).nets = [j \in DOMAIN ubl.lines |-> ubl.lines[j].net]
  BY <1>1 DEF GenerateXML, Serialize
<1>5. ubl.lines[i].net = inv.lines[i].net
  BY <1>2, <1>3 DEF BuildLine
<1> QED
  BY <1>1, <1>2, <1>3, <1>4, <1>5

\* Where no discount exceeds its line, the net is not negative and the VAT of
\* an order is a whole number of hundredths.
LEMMA ChargedAmounts ==
  ASSUME NEW order, order.lines \in Seq(LineRows), order.lines # <<>>, Charged(order)
  PROVE  /\ SumTo(NetColumn(order), Len(order.lines)) \in Nat
         /\ \E k \in Nat : SumTo(VatColumn(order), Len(order.lines)) = 100 * k
<1>1. PICK n, rate, g, h : /\ n = Len(order.lines) /\ rate = VatRate(order.vatType)
                           /\ g = NetColumn(order) /\ h = VatColumn(order)
  OBVIOUS
<1>2. /\ n \in Nat /\ DOMAIN order.lines = 1..n /\ rate \in Nat
      /\ \A i \in 1..n : order.lines[i] \in LineRows /\ g[i] = LineNet(order.lines[i]) /\ g[i] \in Int
                         /\ h[i] = LineVat(order.lines[i], rate)
  BY <1>1, Columns
<1>3. \A i \in 1..n : g[i] >= 0
  BY <1>2 DEF Charged
<1>4. \A i \in 1..n : g[i] \in Nat
  BY <1>2, <1>3
<1>5. SumTo(g, n) \in Nat
  BY <1>2, <1>4, SumToType
<1>6. ASSUME NEW i \in 1..n PROVE \E k \in Nat : h[i] = 100 * k
  <2>1. PICK l : l = order.lines[i]
    OBVIOUS
  <2>2. l \in LineRows /\ LineNet(l) >= 0 /\ h[i] = LineVat(l, rate)
    BY <1>2, <1>3, <2>1
  <2> QED BY <1>2, <2>2, LineAmounts
<1>7. PICK c : c = [i \in 1..n |-> CHOOSE k \in Nat : h[i] = 100 * k]
  OBVIOUS
<1>8. \A i \in 1..n : c[i] \in Nat /\ h[i] = 100 * c[i]
  BY <1>6, <1>7
<1>9. \A i \in 1..n : c[i] \in Int
  BY <1>8
<1>10. SumTo(c, n) \in Nat /\ SumTo(h, n) = 100 * SumTo(c, n)
  <2>1. SumTo(c, n) \in Nat
    BY <1>2, <1>8, SumToType
  <2>2. 100 \in Int /\ \A i \in 1..n : c[i] \in Int /\ h[i] = 100 * c[i]
    BY <1>8, <1>9
  <2>3. SumTo(h, n) = 100 * SumTo(c, n)
    BY <1>2, <2>2, SumToScale
  <2> QED BY <2>1, <2>3
<1> QED
  BY <1>1, <1>5, <1>10

\* The document of a new order adds up.
LEMMA DocumentAdds ==
  ASSUME NEW q, q.lines \in Seq(LineRows), q.lines # <<>>, NEW number,
         NEW order, order = BuildOrder(q, number), Charged(order),
         NEW xml, xml = GenerateXML(order)
  PROVE  /\ MapThenSumSet(LAMBDA s : s.tax, xml.tax.subtotals) = xml.tax.amount
         /\ xml.total.taxExclusive + xml.tax.amount = xml.total.payable
         /\ Round2(SumLines(xml.nets, LAMBDA net : net)) = xml.total.lineExtension
         /\ xml.total.payable = Round2(order.total)
<1>1. /\ order.lines \in Seq(LineRows) /\ order.lines # <<>>
      /\ order.subtotal = SumTo(NetColumn(order), Len(order.lines)) /\ order.subtotal \in Int
      /\ order.vat = SumTo(VatColumn(order), Len(order.lines)) /\ order.vat \in Int
      /\ order.total = order.subtotal + order.vat
  BY OrderOfRequest
<1>2. order.subtotal \in Nat /\ \E k \in Nat : order.vat = 100 * k
  BY <1>1, ChargedAmounts
<1>3. /\ xml.tax = [amount |-> Round2(order.vat), subtotals |-> {OneSubtotal(order)}]
      /\ xml.total = [lineExtension |-> Round2(order.subtotal), taxExclusive |-> Round2(order.subtotal),
                      taxInclusive |-> Round2(order.total), payable |-> Round2(order.total)]
      /\ xml.nets = [i \in DOMAIN order.lines |-> xml.nets[i]]
  <2>1. BuildTaxTotal(BuildFromOrder(order)) = [amount |-> Round2(order.vat), subtotals |-> {OneSubtotal(order)}]
    BY <1>1, TaxOfDocument
  <2>2. xml.tax = BuildTaxTotal(BuildFromOrder(order))
    BY PartsOfDocument
  <2>3. xml.total = [lineExtension |-> Round2(order.subtotal), taxExclusive |-> Round2(order.subtotal),
                     taxInclusive |-> Round2(order.total), payable |-> Round2(order.total)]
    BY PartsOfDocument
  <2>4. xml.nets = [i \in DOMAIN order.lines |-> xml.nets[i]]
    BY PartsOfDocument
  <2> QED BY <2>1, <2>2, <2>3, <2>4
<1>4. MapThenSumSet(LAMBDA s : s.tax, xml.tax.subtotals) = xml.tax.amount
  <2>1. PICK one : one = OneSubtotal(order)
    OBVIOUS
  <2>2. one.tax = Round2(order.vat) /\ one.tax \in Int
    BY <1>1, <2>1, Rounding DEF OneSubtotal
  <2>3. xml.tax.subtotals = {one} /\ xml.tax.amount = one.tax
    BY <1>3, <2>1, <2>2
  <2> QED BY <2>2, <2>3, SumOfOne
<1>5. xml.total.taxExclusive + xml.tax.amount = xml.total.payable
  <2>1. PICK k \in Nat : order.vat = 100 * k
    BY <1>2
  <2>2. PICK a \in Nat : a = order.subtotal
    BY <1>2
  <2>3. Round2(100 * k) = 100 * k /\ Round2(a + 100 * k) = Round2(a) + 100 * k
    BY Rounding
  <2>4. Round2(order.total) = Round2(order.subtotal) + Round2(order.vat)
    BY <1>1, <2>1, <2>2, <2>3
  <2> QED BY <1>3, <2>4
<1>6. Round2(SumLines(xml.nets, LAMBDA net : net)) = xml.total.lineExtension
  <2>1. PICK n, g, lines : n = Len(order.lines) /\ g = NetColumn(order) /\ lines = order.lines
    OBVIOUS
  <2>2. n \in Nat /\ DOMAIN lines = 1..n /\ \A i \in 1..n : g[i] = LineNet(lines[i]) /\ g[i] \in Int
                  /\ LineVat(lines[i], VatRate(order.vatType)) \in Int
    <3>1. \A i \in 1..n : /\ order.lines[i] \in LineRows /\ NetColumn(order)[i] = LineNet(order.lines[i])
                          /\ NetColumn(order)[i] \in Int
      BY <1>1, <2>1, Columns
    <3>2. n \in Nat /\ DOMAIN order.lines = 1..n /\ VatRate(order.vatType) \in Nat
      BY <1>1, <2>1, Columns
    <3> QED BY <2>1, <3>1, <3>2, LineAmounts
  <2>3. ASSUME NEW i \in 1..n PROVE xml.nets[i] = g[i]
    <3>1. PICK x, y : x = LineNet(lines[i]) /\ y = LineVat(lines[i], VatRate(order.vatType))
      OBVIOUS
    <3>2. BuildFromOrder(order).lines[i].net = (x + y) - y
      BY <2>1, <2>2, <3>1 DEF BuildFromOrder
    <3>3. x = g[i] /\ x \in Int /\ y \in Int
      BY <2>2, <3>1
    <3>4. (x + y) - y = x
      BY <3>3
    <3>5. xml.nets[i] = BuildFromOrder(order).lines[i].net
      <4>1. i \in DOMAIN order.lines
        BY <2>1, <2>2
      <4>2. GenerateXML(order).nets[i] = BuildFromOrder(order).lines[i].net
        BY <4>1, NetsOfDocument
      <4> QED BY <4>2
    <3> QED BY <3>2, <3>3, <3>4, <3>5
  <2>4. PICK nets : nets = xml.nets
    OBVIOUS
  <2>5. DOMAIN nets = 1..n /\ nets \in [1..n -> Int]
    <3>1. DOMAIN nets = 1..n /\ nets = [i \in 1..n |-> nets[i]]
      BY <1>3, <2>1, <2>2, <2>4
    <3> QED BY <2>2, <2>3, <2>4, <3>1
  <2>6. Len(nets) = n
    BY <2>2, <2>5, LineSequences
  <2>7. SumLines(nets, LAMBDA net : net) = SumTo([i \in 1..n |-> nets[i]], n)
    BY <2>5, <2>6 DEF SumLines
  <2>8. PICK h : h = [i \in 1..n |-> nets[i]]
    OBVIOUS
  <2>9. \A i \in 1..n : g[i] \in Int /\ h[i] = g[i]
    BY <2>2, <2>3, <2>4, <2>8
  <2>10. SumTo(h, n) = SumTo(g, n)
    BY <2>2, <2>9, SumToSame
  <2>11. SumLines(nets, LAMBDA net : net) = order.subtotal
    BY <1>1, <2>1, <2>7, <2>8, <2>10
  <2> QED BY <1>3, <2>4, <2>11
<1> QED
  BY <1>3, <1>4, <1>5, <1>6

\* Made anew with its lines in another order, the document has the same tax
\* and the same totals.
WithLines(order, p) == [order EXCEPT !.lines = [i \in DOMAIN order.lines |-> order.lines[p[i]]]]

\* The sums of lines that are permuted are the sums they were.
LEMMA DocumentRemade ==
  ASSUME NEW q, q.lines \in Seq(LineRows), q.lines # <<>>, NEW number,
         NEW order, order = BuildOrder(q, number),
         NEW p \in Bijection(DOMAIN order.lines, DOMAIN order.lines),
         NEW again, again = GenerateXML(WithLines(order, p)),
         NEW xml, xml = GenerateXML(order)
  PROVE  again.tax = xml.tax /\ again.total = xml.total
<1>1. /\ DOMAIN order = {"placed", "number", "channel", "trn", "vatType", "lines", "subtotal", "vat", "total"}
      /\ order.lines \in Seq(LineRows) /\ order.lines # <<>>
  BY OrderOfRequest
<1>2. PICK n, lines, g, h : /\ n = Len(order.lines) /\ lines = [i \in DOMAIN order.lines |-> order.lines[p[i]]]
                            /\ g = NetColumn(order) /\ h = VatColumn(order)
  OBVIOUS
<1>3. /\ n \in Nat \ {0} /\ DOMAIN order.lines = 1..n
      /\ \A i \in 1..n : /\ order.lines[i] \in LineRows
                         /\ g[i] = LineNet(order.lines[i]) /\ g[i] \in Int
                         /\ h[i] = LineVat(order.lines[i], VatRate(order.vatType)) /\ h[i] \in Int
  BY <1>1, <1>2, Columns
<1>4. /\ p \in [1..n -> 1..n]
      /\ \A i, k \in 1..n : p[i] = p[k] => i = k
      /\ \A j \in 1..n : \E i \in 1..n : p[i] = j
  <2>1. p \in Bijection(1..n, 1..n)
    BY <1>3
  <2> QED BY <2>1 DEF Bijection, Injection, Surjection, IsInjective
<1>5. PICK other : other = [order EXCEPT !.lines = lines]
  OBVIOUS
<1>6. /\ other.lines = lines /\ other.subtotal = order.subtotal /\ other.vat = order.vat
      /\ other.total = order.total /\ other.vatType = order.vatType
  BY <1>1, <1>5
<1>7. lines \in [1..n -> LineRows] /\ \A i \in 1..n : lines[i] = order.lines[p[i]]
  BY <1>2, <1>3, <1>4
<1>8. lines \in Seq(LineRows) /\ Len(lines) = n /\ DOMAIN lines = 1..n /\ lines # <<>>
  <2>1. lines \in Seq(LineRows) /\ Len(lines) = n /\ DOMAIN lines = 1..n
    BY <1>3, <1>7, LineSequences
  <2> QED BY <1>3, <2>1
<1>9. PICK u, v : u = NetColumn(other) /\ v = VatColumn(other)
  OBVIOUS
<1>10. \A i \in 1..n : u[i] = LineNet(lines[i]) /\ v[i] = LineVat(lines[i], VatRate(order.vatType))
  BY <1>6, <1>8, <1>9 DEF NetColumn, VatColumn
<1>11. ASSUME NEW i \in 1..n PROVE u[i] = g[p[i]] /\ v[i] = h[p[i]]
  <2>1. PICK j \in 1..n : j = p[i]
    BY <1>4
  <2>2. lines[i] = order.lines[j]
    BY <1>7, <2>1
  <2> QED BY <1>3, <1>10, <2>1, <2>2
<1>12. Rearranged(u, g, n, p) /\ Rearranged(v, h, n, p)
  BY <1>3, <1>4, <1>11 DEF Rearranged
<1>13. SumTo(u, n) = SumTo(g, n) /\ SumTo(v, n) = SumTo(h, n)
  BY <1>3, <1>12, SumToRearranged
<1>14. OneSubtotal(other) = OneSubtotal(order)
  BY <1>2, <1>6, <1>8, <1>9, <1>13 DEF OneSubtotal
<1>15. again = GenerateXML(other)
  BY <1>2, <1>5 DEF WithLines
<1>16. again.tax = xml.tax
  <2>1. xml.tax = [amount |-> Round2(order.vat), subtotals |-> {OneSubtotal(order)}]
    BY <1>1, TaxOfDocument, PartsOfDocument
  <2>2. again.tax = [amount |-> Round2(other.vat), subtotals |-> {OneSubtotal(other)}]
    BY <1>6, <1>8, <1>15, TaxOfDocument, PartsOfDocument
  <2> QED BY <1>6, <1>14, <2>1, <2>2
<1>17. again.total = xml.total
  <2>1. xml.total = [lineExtension |-> Round2(order.subtotal), taxExclusive |-> Round2(order.subtotal),
                     taxInclusive |-> Round2(order.total), payable |-> Round2(order.total)]
    BY PartsOfDocument
  <2>2. again.total = [lineExtension |-> Round2(other.subtotal), taxExclusive |-> Round2(other.subtotal),
                       taxInclusive |-> Round2(other.total), payable |-> Round2(other.total)]
    BY <1>15, PartsOfDocument
  <2> QED BY <1>6, <2>1, <2>2
<1> QED BY <1>16, <1>17

-----------------------------------------------------------------------------
(* Numbers                                                                 *)

\* A digit less leaves a smaller number.
LEMMA CutFacts ==
  \A k \in Nat : k \div NumberBase \in Nat /\ k \div NumberBase <= k /\ (k # 0 => k \div NumberBase < k)
  BY InvoicingAssumption

\* f is what is left of each number up to m when it is cut to the limit.
IsCut(f, m) == f = [k \in 0..m |-> IF k < NumberLimit THEN k ELSE f[k \div NumberBase]]

\* The recursive definition of Lpad has a solution.
LEMMA CutExists ==
  ASSUME NEW n \in Nat
  PROVE  \E f : IsCut(f, n)
<1> DEFINE G == {m \in 0..n : \E f : IsCut(f, m)}
<1>1. 0 \in G
  <2>1. PICK f : f = [k \in 0..0 |-> 0]
    OBVIOUS
  <2>2. \A k \in 0..0 : k = 0 /\ k < NumberLimit
    BY InvoicingAssumption
  <2>3. IsCut(f, 0)
    BY <2>1, <2>2 DEF IsCut
  <2> QED BY <2>3
<1>2. \A m \in 1..n : (m - 1) \in G => m \in G
  <2> SUFFICES ASSUME NEW m \in 1..n, (m - 1) \in G PROVE m \in G
    OBVIOUS
  <2>1. PICK f : IsCut(f, m - 1)
    OBVIOUS
  <2>2. PICK last : last = IF m < NumberLimit THEN m ELSE f[m \div NumberBase]
    OBVIOUS
  <2>3. PICK h : h = [k \in 0..m |-> IF k = m THEN last ELSE f[k]]
    OBVIOUS
  <2>4. ASSUME NEW k \in 0..m
        PROVE  h[k] = IF k < NumberLimit THEN k ELSE h[k \div NumberBase]
    <3>1. CASE k = m
      <4>1. m # 0 /\ m \in Nat
        OBVIOUS
      <4>2. m \div NumberBase \in 0..m /\ m \div NumberBase # m
        BY <4>1, CutFacts
      <4>3. h[m] = last /\ h[m \div NumberBase] = f[m \div NumberBase]
        BY <2>3, <4>2
      <4> QED BY <2>2, <3>1, <4>3
    <3>2. CASE k # m
      <4>1. k \in 0..(m - 1) /\ k \in Nat
        BY <3>2
      <4>2. f[k] = IF k < NumberLimit THEN k ELSE f[k \div NumberBase]
        BY <2>1, <4>1 DEF IsCut
      <4>3. k \div NumberBase \in 0..m /\ k \div NumberBase # m
        BY <4>1, CutFacts
      <4>4. h[k] = f[k] /\ h[k \div NumberBase] = f[k \div NumberBase]
        BY <2>3, <3>2, <4>3
      <4> QED BY <4>2, <4>4
    <3> QED BY <3>1, <3>2
  <2>5. h = [k \in 0..m |-> h[k]]
    BY <2>3
  <2>6. IsCut(h, m)
    BY <2>4, <2>5 DEF IsCut
  <2> QED BY <2>6
<1>3. n \in G
  <2> HIDE DEF G
  <2> QED BY <1>1, <1>2, UpTo
<1> QED BY <1>3

\* A number is within the limit once LPAD has cut it.
LEMMA LpadIsShort ==
  ASSUME NEW n \in Nat
  PROVE  Lpad(n) < NumberLimit
<1>1. PICK f : IsCut(f, n) /\ Lpad(n) = f[n]
  BY CutExists DEF Lpad, IsCut
<1> DEFINE T == {k \in 0..n : ~(f[k] < NumberLimit)}
<1> SUFFICES ASSUME T # {} PROVE FALSE
  BY <1>1
<1>2. PICK x \in T : \A y \in T : ~(y < x)
  <2>1. T \subseteq Nat
    OBVIOUS
  <2> QED BY <2>1, NatMin
<1>3. f[x] = IF x < NumberLimit THEN x ELSE f[x \div NumberBase]
  BY <1>1 DEF IsCut
<1>4. ~(x < NumberLimit) /\ x # 0
  BY <1>3, InvoicingAssumption
<1>5. x \div NumberBase \in 0..n /\ x \div NumberBase < x
  BY <1>4, CutFacts
<1> QED
  BY <1>2, <1>3, <1>4, <1>5

-----------------------------------------------------------------------------
(* The orders and documents that are written                               *)

LEMMA BooksInitSafe == InvoicingInit => BooksInv
<1> SUFFICES ASSUME InvoicingInit PROVE BooksInv
  OBVIOUS
<1>1. TariffSound
  BY DEF InvoicingInit, TariffSound
<1>2. \A o \in InvoiceOrders : invoiceReq[o] = NoRequest /\ invoicedOrder[o] = NoOrder
  BY DEF InvoicingInit
<1>3. NoRequest.pc = "new" /\ NoRequest.number = 0 /\ NoOrder.placed = FALSE
  BY DEF NoRequest, NoOrder
<1>4. NumbersSound
  <2>1. NumberedRequests = {}
    BY <1>2, <1>3 DEF NumberedRequests
  <2>2. invoiceSeq = 0 /\ Cardinality(NumberedRequests) = 0
    BY <2>1, FS_EmptySet DEF InvoicingInit
  <2>3. 0 < NumberLimit
    BY InvoicingAssumption
  <2> QED BY <1>2, <1>3, <2>2, <2>3 DEF NumbersSound
<1>5. DocumentsSound
  BY <1>2, <1>3 DEF DocumentsSound, InvoicingInit
<1> QED BY <1>1, <1>4, <1>5 DEF BooksInv

\* The price of a line is a price.
LEMMA PricesAreNatural ==
  ASSUME TariffSound, NEW tier, NEW price \in Resolve(tier)
  PROVE  price \in Nat
<1>1. UnitPrices \subseteq Nat
  BY InvoicingAssumption
<1>2. tariff.standard \in UnitPrices \cup {NoStandard} /\ tariff.promotions \subseteq Promotions
  BY DEF TariffSound
<1>3. PICK promoted : promoted = {p.price : p \in GetActivePromotion(tier)}
  OBVIOUS
<1>4. promoted \subseteq Nat
  BY <1>1, <1>2, <1>3 DEF GetActivePromotion, Promotions
<1>5. CASE promoted # {}
  <2>1. PICK x \in promoted : \A y \in promoted : ~(y < x)
    BY <1>4, <1>5, NatMin
  <2>2. \A y \in promoted : x <= y
    BY <1>4, <2>1
  <2>3. Min(promoted) \in promoted
    BY <2>2 DEF Min
  <2> QED BY <1>3, <1>4, <1>5, <2>3 DEF Resolve
<1>6. CASE promoted = {}
  BY <1>1, <1>2, <1>3, <1>6 DEF Resolve, GetChannelPrice
<1> QED BY <1>5, <1>6

\* Requests are in a finite table.
LEMMA NumberedAreFinite ==
  IsFiniteSet(NumberedRequests) /\ Cardinality(NumberedRequests) \in Nat
  /\ Cardinality(NumberedRequests) <= NInvoiceOrders
<1>1. IsFiniteSet(InvoiceOrders) /\ Cardinality(InvoiceOrders) = NInvoiceOrders
  BY InvoicingAssumption, FS_Interval DEF InvoiceOrders
<1>2. NumberedRequests \subseteq InvoiceOrders
  BY DEF NumberedRequests
<1> QED BY <1>1, <1>2, FS_Subset, FS_CardinalityType

\* The lines a request is made with.
LEMMA LinesArePriced ==
  ASSUME NEW price \in Nat, NEW lines \in OrderLines(price), ValidateOrderInput(lines)
  PROVE  PricedLines(lines)
<1>1. PICK n \in 0..MaxInvoiceLines :
        lines \in [1..n -> [price : {price}, quantity : 1..MaxQuantity, discount : Discounts]]
  BY DEF OrderLines
<1>2. n \in Nat /\ \A q \in 1..MaxQuantity : q \in Nat
  BY InvoicingAssumption
<1>3. \A l \in [price : {price}, quantity : 1..MaxQuantity, discount : Discounts] : l \in LineRows
  BY <1>2, InvoicingAssumption DEF LineRows
<1>4. lines \in [1..n -> LineRows]
  BY <1>1, <1>3
<1>5. lines \in Seq(LineRows)
  BY <1>2, <1>4, LineSequences
<1> QED BY <1>5 DEF PricedLines, ValidateOrderInput

\* A request that goes on, without an order yet: it may be given a number once.
Advances(o, row) ==
  /\ invoiceReq[o].pc # "over"
  /\ row.pc \in {"priced", "numbered", "over"} /\ row.number < NumberLimit
  /\ row.pc \in {"priced", "numbered"} => PricedLines(row.lines)
  /\ invoiceReq[o].pc = "numbered" => row.pc \in {"numbered", "over"}
  /\ invoiceReq' = [invoiceReq EXCEPT ![o] = row]
  /\ \/ invoiceSeq' = invoiceSeq
     \/ /\ invoiceSeq' = invoiceSeq + 1
        /\ invoiceReq[o].pc = "priced" /\ row.pc = "numbered"
  /\ UNCHANGED <<tariff, invoicedOrder, orderInvoice>>

\* The books stand while a request goes on.
LEMMA RequestGoesOn ==
  ASSUME InvoicingInv, BooksInv, NEW o \in InvoiceOrders, NEW row, Advances(o, row)
  PROVE  BooksInv'
<1> USE DEF BooksInv, Advances
<1>1. DOMAIN invoiceReq = InvoiceOrders /\ ~invoicedOrder[o].placed
  BY DEF InvoicingInv, RequestsSound
<1>2. invoiceReq'[o] = row /\ \A p \in InvoiceOrders : p # o => invoiceReq'[p] = invoiceReq[p]
  BY <1>1
<1>3. TariffSound'
  BY DEF TariffSound
<1>4. NumbersSound'
  <2>1. \A p \in InvoiceOrders : /\ invoiceReq'[p].pc \in {"new", "priced", "numbered", "over"}
                                 /\ invoiceReq'[p].number < NumberLimit
    BY <1>2 DEF NumbersSound
  <2>2. NumberedRequests' = IF row.pc \in {"numbered", "over"} THEN NumberedRequests \cup {o}
                            ELSE NumberedRequests
    BY <1>2 DEF NumberedRequests
  <2>3. PICK old, next : old = NumberedRequests /\ next = NumberedRequests'
    OBVIOUS
  <2>4. IsFiniteSet(old) /\ Cardinality(old) \in Nat /\ invoiceSeq <= Cardinality(old) /\ invoiceSeq \in Nat
    BY <2>3, NumberedAreFinite DEF NumbersSound
  <2>5. next = old \/ next = old \cup {o}
    BY <2>2, <2>3
  <2>6. Cardinality(next) = Cardinality(old) \/ Cardinality(next) = Cardinality(old) + 1
    BY <2>4, <2>5, FS_AddElement
  <2>7. invoiceReq[o].pc = "priced" /\ row.pc = "numbered" => Cardinality(next) = Cardinality(old) + 1
    <3>1. invoiceReq[o].pc = "priced" => o \notin old
      BY <2>3 DEF NumberedRequests
    <3>2. row.pc = "numbered" => next = old \cup {o}
      BY <2>2, <2>3
    <3> QED BY <2>4, <3>1, <3>2, FS_AddElement
  <2>8. invoiceSeq' \in Nat /\ invoiceSeq' <= Cardinality(next)
    BY <2>4, <2>6, <2>7
  <2> QED BY <2>1, <2>3, <2>8 DEF NumbersSound
<1>5. DocumentsSound'
  <2>1. ASSUME NEW p \in InvoiceOrders
        PROVE  /\ invoiceReq'[p].pc \in {"priced", "numbered"} => PricedLines(invoiceReq'[p].lines)
               /\ IF invoicedOrder'[p].placed
                  THEN /\ PricedLines(invoiceReq'[p].lines)
                       /\ invoicedOrder'[p] = BuildOrder(invoiceReq'[p], invoiceReq'[p].number)
                  ELSE invoicedOrder'[p] = NoOrder
    <3>1. CASE p = o
      BY <1>1, <1>2, <3>1 DEF DocumentsSound
    <3>2. CASE p # o
      BY <1>2, <3>2 DEF DocumentsSound
    <3> QED BY <3>1, <3>2
  <2>2. \A d \in orderInvoice' : d.status \in {NotSubmitted, "rejected"}
    BY DEF DocumentsSound
  <2>3. \A d \in orderInvoice' : d.xml # <<>> => d.xml = <<GenerateXML(invoicedOrder'[d.order])>>
    BY DEF DocumentsSound
  <2> QED BY <2>1, <2>2, <2>3 DEF DocumentsSound
<1> QED BY <1>3, <1>4, <1>5

\* A request is priced by the tariff.
LEMMA PriceOrderBooks ==
  ASSUME InvoicingInv, BooksInv, NEW o \in InvoiceOrders, PriceOrder(o)
  PROVE  BooksInv'
<1>1. PICK sold \in ChannelTypes, trn \in BOOLEAN, vatType \in VatTypes,
           tier \in CustomerTiers \cup {EveryTier} :
        \E price \in Resolve(tier) : \E lines \in OrderLines(price) :
          /\ ValidateOrderInput(lines)
          /\ invoiceReq' = [invoiceReq EXCEPT ![o] =
              [pc |-> "priced", channel |-> sold, trn |-> trn, vatType |-> vatType,
               lines |-> lines, number |-> 0]]
  BY DEF PriceOrder
<1>2. PICK price \in Resolve(tier) : \E lines \in OrderLines(price) :
          /\ ValidateOrderInput(lines)
          /\ invoiceReq' = [invoiceReq EXCEPT ![o] =
              [pc |-> "priced", channel |-> sold, trn |-> trn, vatType |-> vatType,
               lines |-> lines, number |-> 0]]
  BY <1>1
<1>3. PICK lines \in OrderLines(price) :
          /\ ValidateOrderInput(lines)
          /\ invoiceReq' = [invoiceReq EXCEPT ![o] =
              [pc |-> "priced", channel |-> sold, trn |-> trn, vatType |-> vatType,
               lines |-> lines, number |-> 0]]
  BY <1>2
<1>4. PricedLines(lines)
  BY <1>3, PricesAreNatural, LinesArePriced DEF BooksInv
<1>5. PICK row : row = [pc |-> "priced", channel |-> sold, trn |-> trn, vatType |-> vatType,
                        lines |-> lines, number |-> 0]
  OBVIOUS
<1>6. row.pc = "priced" /\ row.number = 0 /\ row.lines = lines
  BY <1>5
<1>7. 0 < NumberLimit
  BY InvoicingAssumption
<1>8. invoiceReq' = [invoiceReq EXCEPT ![o] = row]
  BY <1>3, <1>5
<1>9. invoiceReq[o].pc = "new" /\ UNCHANGED <<tariff, invoiceSeq, invoicedOrder, orderInvoice>>
  BY DEF PriceOrder
<1>10. Advances(o, row)
  BY <1>4, <1>6, <1>7, <1>8, <1>9 DEF Advances
<1> QED BY <1>10, RequestGoesOn

\* A number that is drawn is one more than those drawn before.
LEMMA NumberOrFailBooks ==
  ASSUME InvoicingInv, BooksInv, NEW o \in InvoiceOrders, NextInvoiceNumber(o) \/ FailInvoice(o)
  PROVE  BooksInv'
<1>1. RequestRow(invoiceReq[o]) /\ DOMAIN invoiceReq = InvoiceOrders
  BY DEF InvoicingInv, RequestsSound
<1>2. /\ invoiceReq[o].number < NumberLimit /\ invoiceSeq \in Nat
      /\ invoiceReq[o].pc \in {"priced", "numbered"} => PricedLines(invoiceReq[o].lines)
  BY DEF BooksInv, NumbersSound, DocumentsSound
<1>3. CASE NextInvoiceNumber(o)
  <2>1. PICK number : number = Lpad(invoiceSeq + 1)
    OBVIOUS
  <2>2. number < NumberLimit
    BY <1>2, <2>1, LpadIsShort
  <2>3. PICK row : row = [invoiceReq[o] EXCEPT !.pc = "numbered", !.number = number]
    OBVIOUS
  <2>4. row.pc = "numbered" /\ row.number = number /\ row.lines = invoiceReq[o].lines
    BY <1>1, <2>3 DEF RequestRow
  <2>5. /\ invoiceReq[o].pc = "priced" /\ invoiceSeq' = invoiceSeq + 1
        /\ invoiceReq' = [invoiceReq EXCEPT ![o] = row]
        /\ UNCHANGED <<tariff, invoicedOrder, orderInvoice>>
    BY <1>1, <1>3, <2>1, <2>3 DEF NextInvoiceNumber
  <2>6. Advances(o, row)
    BY <1>2, <2>2, <2>4, <2>5 DEF Advances
  <2> QED BY <2>6, RequestGoesOn
<1>4. CASE FailInvoice(o)
  <2>1. PICK row : row = [invoiceReq[o] EXCEPT !.pc = "over"]
    OBVIOUS
  <2>2. row.pc = "over" /\ row.number = invoiceReq[o].number
    BY <1>1, <2>1 DEF RequestRow
  <2>3. /\ invoiceReq[o].pc # "over" /\ invoiceReq' = [invoiceReq EXCEPT ![o] = row]
        /\ UNCHANGED <<tariff, invoiceSeq, invoicedOrder, orderInvoice>>
    BY <1>1, <1>4, <2>1 DEF FailInvoice
  <2>4. Advances(o, row)
    BY <1>2, <2>2, <2>3 DEF Advances
  <2> QED BY <2>4, RequestGoesOn
<1> QED BY <1>3, <1>4

\* The order that is written is built of its request, the document of the order.
LEMMA PersistBooks ==
  ASSUME InvoicingInv, BooksInv, NEW o \in InvoiceOrders, PersistInvoice(o)
  PROVE  BooksInv'
<1> USE DEF BooksInv
<1>1. RequestRow(invoiceReq[o]) /\ DOMAIN invoiceReq = InvoiceOrders /\ DOMAIN invoicedOrder = InvoiceOrders
  BY DEF InvoicingInv, RequestsSound
<1>2. PICK order : order = BuildOrder(invoiceReq[o], invoiceReq[o].number)
  OBVIOUS
<1>3. PICK row : row = [invoiceReq[o] EXCEPT !.pc = "over"]
  OBVIOUS
<1>4. /\ row.pc = "over" /\ row.number = invoiceReq[o].number /\ row.lines = invoiceReq[o].lines
      /\ row.channel = invoiceReq[o].channel /\ row.trn = invoiceReq[o].trn
      /\ row.vatType = invoiceReq[o].vatType
  BY <1>1, <1>3 DEF RequestRow
<1>5. BuildOrder(row, row.number) = order /\ order.placed = TRUE
  BY <1>2, <1>4 DEF BuildOrder
<1>6. PICK xml : xml = IF Evaluate(order.channel, order.trn) = "einvoice_ubl" THEN <<GenerateXML(order)>> ELSE <<>>
  OBVIOUS
<1>7. PICK d : d = [order |-> o, number |-> order.number, type |-> Evaluate(order.channel, order.trn),
                    status |-> NotSubmitted, xml |-> xml]
  OBVIOUS
<1>8. /\ orderInvoice' = orderInvoice \cup {d}
      /\ invoicedOrder' = [invoicedOrder EXCEPT ![o] = order]
      /\ invoiceReq[o].pc = "numbered" /\ UNCHANGED <<tariff, invoiceSeq>>
  BY <1>2, <1>6, <1>7 DEF PersistInvoice, InsertOrderInvoice, StampInvoiceNumber
<1>9. invoiceReq' = [invoiceReq EXCEPT ![o] = row]
  BY <1>1, <1>3 DEF PersistInvoice
<1>10. /\ invoiceReq'[o] = row /\ invoicedOrder'[o] = order
       /\ \A p \in InvoiceOrders : p # o => invoiceReq'[p] = invoiceReq[p] /\ invoicedOrder'[p] = invoicedOrder[p]
  BY <1>1, <1>8, <1>9
<1>11. PricedLines(row.lines)
  BY <1>4, <1>8 DEF DocumentsSound
<1>12. TariffSound'
  BY <1>8 DEF TariffSound
<1>13. NumbersSound'
  <2>1. \A p \in InvoiceOrders : /\ invoiceReq'[p].pc \in {"new", "priced", "numbered", "over"}
                                 /\ invoiceReq'[p].number < NumberLimit
    BY <1>4, <1>10 DEF NumbersSound
  <2>2. NumberedRequests' = NumberedRequests
    BY <1>4, <1>8, <1>10 DEF NumberedRequests
  <2> QED BY <1>8, <2>1, <2>2 DEF NumbersSound
<1>14. DocumentsSound'
  <2>1. ASSUME NEW p \in InvoiceOrders
        PROVE  /\ invoiceReq'[p].pc \in {"priced", "numbered"} => PricedLines(invoiceReq'[p].lines)
               /\ IF invoicedOrder'[p].placed
                  THEN /\ PricedLines(invoiceReq'[p].lines)
                       /\ invoicedOrder'[p] = BuildOrder(invoiceReq'[p], invoiceReq'[p].number)
                  ELSE invoicedOrder'[p] = NoOrder
    <3>1. CASE p = o
      BY <1>4, <1>5, <1>10, <1>11, <3>1
    <3>2. CASE p # o
      BY <1>10, <3>2 DEF DocumentsSound
    <3> QED BY <3>1, <3>2
  <2>2. d.order = o /\ d.status = NotSubmitted /\ d.xml = xml
    BY <1>7
  <2>3. \A e \in orderInvoice : e.order \in InvoiceOrders /\ e.order # o
    <3>1. ~invoicedOrder[o].placed
      BY <1>8 DEF InvoicingInv, RequestsSound
    <3> QED BY <3>1 DEF InvoicingInv, RowsOfOrders
  <2>4. ASSUME NEW e \in orderInvoice'
        PROVE  /\ e.status \in {NotSubmitted, "rejected"}
               /\ e.xml # <<>> => e.xml = <<GenerateXML(invoicedOrder'[e.order])>>
    <3>1. CASE e = d
      BY <1>6, <1>10, <2>2, <3>1
    <3>2. CASE e \in orderInvoice
      <4>1. invoicedOrder'[e.order] = invoicedOrder[e.order]
        BY <1>10, <2>3, <3>2
      <4>2. e.status \in {NotSubmitted, "rejected"}
        BY <3>2 DEF DocumentsSound
      <4>3. e.xml # <<>> => e.xml = <<GenerateXML(invoicedOrder[e.order])>>
        BY <3>2 DEF DocumentsSound
      <4> QED BY <4>1, <4>2, <4>3
    <3> QED BY <1>8, <3>1, <3>2
  <2> QED BY <2>1, <2>4 DEF DocumentsSound
<1> QED BY <1>12, <1>13, <1>14

\* A submission leaves the document as it was made.
LEMMA SubmitBooks ==
  ASSUME InvoicingInv, BooksInv, NEW d \in orderInvoice, SubmitToSandbox(d)
  PROVE  BooksInv'
<1> USE DEF BooksInv
<1>1. PICK sent : sent = [d EXCEPT !.status = "rejected"]
  OBVIOUS
<1>2. /\ orderInvoice' = (orderInvoice \ {d}) \cup {sent}
      /\ UNCHANGED <<tariff, invoiceReq, invoiceSeq, invoicedOrder>>
  BY <1>1 DEF SubmitToSandbox, UpdateSandboxStatus
<1>3. sent.status = "rejected" /\ sent.order = d.order /\ sent.xml = d.xml
  <2>1. DOMAIN d = InvoiceColumns
    BY DEF InvoicingInv, RowsOfOrders
  <2> QED BY <1>1, <2>1 DEF InvoiceColumns
<1>4. TariffSound' /\ NumbersSound'
  BY <1>2 DEF TariffSound, NumbersSound, NumberedRequests
<1>5. ASSUME NEW e \in orderInvoice'
      PROVE  /\ e.status \in {NotSubmitted, "rejected"}
             /\ e.xml # <<>> => e.xml = <<GenerateXML(invoicedOrder'[e.order])>>
  <2>1. PICK old \in orderInvoice : e.order = old.order /\ e.xml = old.xml
    BY <1>2, <1>3
  <2>2. old.xml # <<>> => old.xml = <<GenerateXML(invoicedOrder[old.order])>>
    BY DEF DocumentsSound
  <2>3. e.status \in {NotSubmitted, "rejected"}
    BY <1>2, <1>3 DEF DocumentsSound
  <2> QED BY <1>2, <2>1, <2>2, <2>3
<1>6. DocumentsSound'
  BY <1>2, <1>5 DEF DocumentsSound
<1> QED BY <1>4, <1>6

\* Every step of requests and submissions keeps BooksInv, where InvoicingInv holds.
THEOREM BooksInductive == InvoicingInv /\ BooksInv /\ [InvoicingNext]_invoicingVars => BooksInv'
<1> SUFFICES ASSUME InvoicingInv, BooksInv, [InvoicingNext]_invoicingVars PROVE BooksInv'
  OBVIOUS
<1>1. CASE UNCHANGED invoicingVars
  BY <1>1 DEF invoicingVars, BooksInv, TariffSound, NumbersSound, NumberedRequests, DocumentsSound
<1> QED
  BY <1>1, PriceOrderBooks, NumberOrFailBooks, PersistBooks, SubmitBooks DEF InvoicingNext

\* BooksInv holds in every state.
THEOREM BooksInvHolds == InvoicingSpec => []BooksInv
  BY InvoicingInvHolds, BooksInitSafe, BooksInductive, PTL DEF InvoicingSpec

\* For any tariff, lines and quantities: the document of an order agrees with
\* the order and in itself, unless a discount exceeds its line, and a document
\* made anew says the same whatever order its lines are read in (buildUBL,
\* ProcessOrder).
THEOREM DocumentsAddUp == InvoicingSpec => []DocumentAddsUp
<1>1. InvoicingInv /\ BooksInv => DocumentAddsUp
  <2> SUFFICES ASSUME InvoicingInv, BooksInv,
                      NEW d \in orderInvoice, d.xml # <<>>, Charged(invoicedOrder[d.order])
               PROVE  LET order == invoicedOrder[d.order]
                          xml   == d.xml[1]
                      IN  /\ MapThenSumSet(LAMBDA s : s.tax, xml.tax.subtotals) = xml.tax.amount
                          /\ xml.total.taxExclusive + xml.tax.amount = xml.total.payable
                          /\ Round2(SumLines(xml.nets, LAMBDA net : net)) = xml.total.lineExtension
                          /\ xml.total.payable = Round2(order.total)
                          /\ \A again \in GetInvoiceXML(d.order) :
                               again.tax = xml.tax /\ again.total = xml.total
    BY DEF DocumentAddsUp
  <2>1. PICK o \in InvoiceOrders : o = d.order /\ invoicedOrder[o].placed
    BY DEF InvoicingInv, RowsOfOrders
  <2>2. PICK order, xml, q : order = invoicedOrder[o] /\ xml = d.xml[1] /\ q = invoiceReq[o]
    OBVIOUS
  <2>3. order = BuildOrder(q, q.number) /\ q.lines \in Seq(LineRows) /\ q.lines # <<>>
    BY <2>1, <2>2 DEF BooksInv, DocumentsSound, PricedLines
  <2>4. xml = GenerateXML(order)
    BY <2>1, <2>2 DEF BooksInv, DocumentsSound
  <2>5. Charged(order)
    BY <2>1, <2>2
  <2>6. /\ MapThenSumSet(LAMBDA s : s.tax, xml.tax.subtotals) = xml.tax.amount
        /\ xml.total.taxExclusive + xml.tax.amount = xml.total.payable
        /\ Round2(SumLines(xml.nets, LAMBDA net : net)) = xml.total.lineExtension
        /\ xml.total.payable = Round2(order.total)
    BY <2>3, <2>4, <2>5, DocumentAdds
  <2>7. ASSUME NEW again \in GetInvoiceXML(o)
        PROVE  again.tax = xml.tax /\ again.total = xml.total
    <3>1. PICK p \in Bijection(DOMAIN order.lines, DOMAIN order.lines) :
            again = GenerateXML(WithLines(order, p))
      BY <2>2 DEF GetInvoiceXML, WithLines
    <3> QED BY <2>3, <2>4, <3>1, DocumentRemade
  <2> QED BY <2>1, <2>2, <2>6, <2>7
<1> QED
  BY <1>1, InvoicingInvHolds, BooksInvHolds, PTL

\* Orders, requests and rows have the shapes the code gives them; the sequence
\* has counted no more than there are requests, and a number is within its digits.
THEOREM InvoicingTypes == InvoicingSpec => []InvoicingTypeOK
<1>1. InvoicingInv /\ BooksInv => InvoicingTypeOK
  <2> SUFFICES ASSUME InvoicingInv, BooksInv PROVE InvoicingTypeOK
    OBVIOUS
  <2>1. ASSUME NEW o \in InvoiceOrders
        PROVE  invoicedOrder[o].placed \in BOOLEAN /\ invoicedOrder[o].total \in Int
    <3>1. invoicedOrder[o].placed \in BOOLEAN
      BY DEF InvoicingInv, RequestsSound
    <3>2. CASE invoicedOrder[o].placed
      <4>1. PICK order, q : order = invoicedOrder[o] /\ q = invoiceReq[o]
        OBVIOUS
      <4>2. order = BuildOrder(q, q.number) /\ q.lines \in Seq(LineRows) /\ q.lines # <<>>
        BY <3>2, <4>1 DEF BooksInv, DocumentsSound, PricedLines
      <4>3. order.subtotal \in Int /\ order.vat \in Int /\ order.total = order.subtotal + order.vat
        BY <4>2, OrderOfRequest
      <4> QED BY <3>1, <4>1, <4>3
    <3>3. CASE ~invoicedOrder[o].placed
      BY <3>1, <3>3 DEF BooksInv, DocumentsSound, NoOrder
    <3> QED BY <3>2, <3>3
  <2>2. invoiceSeq \in 0..NInvoiceOrders
    BY NumberedAreFinite, InvoicingAssumption DEF BooksInv, NumbersSound
  <2>3. \A d \in orderInvoice : d.order \in InvoiceOrders /\ d.status \in {NotSubmitted, "rejected"}
    BY DEF InvoicingInv, RowsOfOrders, BooksInv, DocumentsSound
  <2> QED BY <2>1, <2>2, <2>3 DEF InvoicingTypeOK, BooksInv, TariffSound, NumbersSound
<1> QED
  BY <1>1, InvoicingInvHolds, BooksInvHolds, PTL
==============================================================================
