------------------------------ MODULE Invoicing ------------------------------
(***************************************************************************)
(* From an order to its invoice: the price of each line, the totals, the   *)
(* number, the document, and its local validation before submission.       *)
(*                                                                         *)
(* The stock deduction between pricing and persisting is Inventory's.      *)
(* An order, its items and its invoice are written in one transaction at   *)
(* read committed; the number comes from a sequence, which gives none back *)
(* on a rollback.  Amounts are in units of 0.0001 AED, the precision of    *)
(* the columns.  The order's currency is AED whatever the price's is, so   *)
(* the second tax total in AED (BT-111) is never built.                    *)
(***************************************************************************)
EXTENDS Sums, Sequences, FiniteSets, FiniteSetsExt, Functions

CONSTANTS
  NInvoiceOrders,  \* ProcessOrder requests
  MaxInvoiceLines, \* lines of an order; line i is of variant i
  MaxQuantity,     \* bound on the quantity of a line
  CustomerTiers,   \* the tiers promotions are for
  UnitPrices,      \* prices that channel_prices and price_promotions hold
  Discounts,       \* discounts a caller gives a line
  VatPercent,      \* 5
  SellerHasEmail,  \* the one optional field of the profile that adds elements
  NumberBase,      \* 10
  NumberLimit      \* NumberBase ^ 6: the numbers of six digits

ASSUME InvoicingAssumption ==
  /\ NInvoiceOrders \in Nat /\ MaxInvoiceLines \in Nat \ {0} /\ MaxQuantity \in Nat
  /\ UnitPrices \subseteq Nat /\ Discounts \subseteq Nat /\ VatPercent \in Nat /\ SellerHasEmail \in BOOLEAN
  /\ NumberBase \in Nat \ {0, 1} /\ NumberLimit \in Nat \ {0}

VARIABLES
  tariff,        \* standard price and promotions, the same for every variant
  invoiceReq,    \* the ProcessOrder requests
  invoiceSeq,    \* last value of invoice_number_seq
  invoicedOrder, \* orders: none, or the row with its items
  orderInvoice   \* order_invoices

invoicingVars == <<tariff, invoiceReq, invoiceSeq, invoicedOrder, orderInvoice>>

InvoiceOrders  == 1..NInvoiceOrders
ChannelTypes   == {"pos", "wholesale"}   \* "ecommerce" differs from "pos" in a label
VatTypes       == {"standard", "zero_rated"}   \* "exempt" is priced as "zero_rated"
EveryTier      == "every tier"
NoStandard     == -1
NotSubmitted   == "unset"

NoRequest == [pc |-> "new", channel |-> "pos", trn |-> FALSE, vatType |-> "standard",
              lines |-> <<>>, number |-> 0]
NoOrder   == [placed |-> FALSE, number |-> 0, channel |-> "pos", trn |-> FALSE,
              vatType |-> "standard", lines |-> <<>>, subtotal |-> 0, vat |-> 0, total |-> 0]

Promotions == [tier : CustomerTiers \cup {EveryTier}, price : UnitPrices]

InvoicingInit ==
  /\ tariff \in [standard : UnitPrices \cup {NoStandard},
                 promotions : {P \in SUBSET Promotions : Cardinality(P) <= 1}]
  /\ invoiceReq = [o \in InvoiceOrders |-> NoRequest]
  /\ invoiceSeq = 0
  /\ invoicedOrder = [o \in InvoiceOrders |-> NoOrder]
  /\ orderInvoice = {}

-----------------------------------------------------------------------------
(* Prices                                                                  *)

\* A customer may have no tier.  A promotion of the very tier goes before one
\* of every tier, and among equals the lowest price wins.
GetActivePromotion(tier) ==
  LET exact == {p \in tariff.promotions : p.tier = tier}
      wide  == {p \in tariff.promotions : p.tier = EveryTier}
  IN  IF exact # {} THEN exact ELSE wide

GetChannelPrice == {tariff.standard} \ {NoStandard}

\* The prices a line may get: none, or one.
Resolve(tier) ==
  LET promoted == {p.price : p \in GetActivePromotion(tier)}
  IN  IF promoted # {} THEN {Min(promoted)} ELSE GetChannelPrice

\* ResolveZeroRated: the same price, and no VAT.
VatRate(vatType) == IF vatType = "standard" THEN VatPercent ELSE 0

-----------------------------------------------------------------------------
(* Totals                                                                  *)

\* a / b to the nearest integer, halves away from zero (decimal's Round).
RoundDiv(a, b) == IF a >= 0 THEN (2 * a + b) \div (2 * b) ELSE -((b - 2 * a) \div (2 * b))

\* To two decimals.
Round2(amount) == 100 * RoundDiv(amount, 100)

LineNet(l) == l.price * l.quantity - l.discount

\* Mutant of LineVat: the VAT of a line keeps its four decimals.
LineVatUnrounded(l, rate) == RoundDiv(LineNet(l) * rate, 100)

LineVat(l, rate) == 100 * RoundDiv(LineNet(l) * rate, 10000)

SumLines(lines, f(_)) == SumTo([i \in DOMAIN lines |-> f(lines[i])], Len(lines))

\* The order as ProcessOrder builds it.
BuildOrder(q, number) ==
  LET rate     == VatRate(q.vatType)
      subtotal == SumLines(q.lines, LineNet)
      vat      == SumLines(q.lines, LAMBDA l : LineVat(l, rate))
  IN  [placed |-> TRUE, number |-> number, channel |-> q.channel, trn |-> q.trn,
       vatType |-> q.vatType, lines |-> q.lines, subtotal |-> subtotal, vat |-> vat,
       total |-> subtotal + vat]

-----------------------------------------------------------------------------
(* The document                                                            *)

\* Mutant of Evaluate: only the channel decides.
EvaluateChannel(channel, trn) == IF channel = "wholesale" THEN "einvoice_ubl" ELSE "receipt"

Evaluate(channel, trn) ==
  IF channel = "wholesale" \/ trn THEN "einvoice_ubl" ELSE "receipt"

TaxCategoryOf(vatType) == IF vatType = "standard" THEN "S" ELSE "Z"

\* The intermediate invoice: net and VAT of each line from the order's items.
BuildFromOrder(order) ==
  [number |-> order.number, trn |-> order.trn,
   subtotal |-> order.subtotal, vat |-> order.vat, total |-> order.total,
   lines |-> [i \in DOMAIN order.lines |->
     LET rate == VatRate(order.vatType)
         vat  == LineVat(order.lines[i], rate)
     IN  [net |-> (LineNet(order.lines[i]) + vat) - vat, vat |-> vat,
          category |-> TaxCategoryOf(order.vatType), rate |-> rate]]]

BuildLine(l) == [net |-> l.net, category |-> l.category, exempt |-> l.category = "Z"]

\* One subtotal for each category and rate.
BuildTaxTotal(inv) ==
  LET key(l) == <<l.category, l.rate>>
      keys   == {key(inv.lines[i]) : i \in DOMAIN inv.lines}
      net(k) == SumLines(inv.lines, LAMBDA l : IF key(l) = k THEN l.net ELSE 0)
      vat(k) == SumLines(inv.lines, LAMBDA l : IF key(l) = k THEN l.vat ELSE 0)
  IN  [amount |-> Round2(inv.vat),
       subtotals |-> {[category |-> k[1], rate |-> k[2], taxable |-> Round2(net(k)),
                       tax |-> Round2(vat(k))] : k \in keys}]

BuildMonetaryTotal(inv) ==
  [lineExtension |-> Round2(inv.subtotal), taxExclusive |-> Round2(inv.subtotal),
   taxInclusive |-> Round2(inv.total), payable |-> Round2(inv.total)]

BuildUBL(inv) ==
  [number |-> inv.number, trn |-> inv.trn, tax |-> BuildTaxTotal(inv),
   total |-> BuildMonetaryTotal(inv), lines |-> [i \in DOMAIN inv.lines |-> BuildLine(inv.lines[i])]]

\* The encoders, as the sets of the element names they write.  What buildUBL
\* never sets is never written: notes, references, the buyer's endpoint and
\* address, allowances, item identifiers.
EncodeAddress == {"PostalAddress", "StreetName", "CityName", "Country", "IdentificationCode"}

EncodeSupplier ==
  {"AccountingSupplierParty", "Party", "EndpointID", "PartyName", "Name", "PartyTaxScheme",
   "CompanyID", "TaxScheme", "ID", "PartyLegalEntity", "RegistrationName",
   "PartyIdentification"} \cup EncodeAddress
  \cup (IF SellerHasEmail THEN {"Contact", "ElectronicMail"} ELSE {})

EncodeBuyer(trn) ==
  {"AccountingCustomerParty", "Party", "PartyName", "Name", "PartyLegalEntity",
   "RegistrationName"}
  \cup (IF trn THEN {"PartyTaxScheme", "CompanyID", "TaxScheme", "ID"} ELSE {})

EncodeTaxCategory(exempt) ==
  {"TaxCategory", "ID", "Percent", "TaxScheme"}
  \cup (IF exempt THEN {"TaxExemptionReasonCode", "TaxExemptionReason"} ELSE {})

EncodeTaxTotal(tax) ==
  {"TaxTotal", "TaxAmount"}
  \cup UNION {{"TaxSubtotal", "TaxableAmount", "TaxAmount"}
                \cup EncodeTaxCategory(s.category = "Z") : s \in tax.subtotals}

EncodeMonetaryTotal ==
  {"LegalMonetaryTotal", "LineExtensionAmount", "TaxExclusiveAmount", "TaxInclusiveAmount",
   "PayableAmount"}

EncodeInvoiceLine(l) ==
  {"InvoiceLine", "ID", "InvoicedQuantity", "LineExtensionAmount", "Item", "Name", "Price",
   "PriceAmount"} \cup EncodeTaxCategory(l.exempt)

EncodeUBL(ubl) ==
  {"Invoice", "CustomizationID", "ProfileID", "ID", "IssueDate", "InvoiceTypeCode",
   "DocumentCurrencyCode", "TaxCurrencyCode"}
  \cup EncodeSupplier \cup EncodeBuyer(ubl.trn) \cup EncodeTaxTotal(ubl.tax)
  \cup EncodeMonetaryTotal \cup UNION {EncodeInvoiceLine(ubl.lines[i]) : i \in DOMAIN ubl.lines}

\* The values of the document that are checked, and its elements.
Serialize(inv) ==
  LET ubl == BuildUBL(inv)
  IN  [number |-> ubl.number, tax |-> ubl.tax, total |-> ubl.total,
       nets |-> [i \in DOMAIN ubl.lines |-> ubl.lines[i].net], elements |-> EncodeUBL(ubl)]

GenerateXML(order) == Serialize(BuildFromOrder(order))

-----------------------------------------------------------------------------
(* ProcessOrder                                                            *)

\* Lines are asked for, each of a positive quantity, without a variant twice
\* or a negative discount; nothing relates the discount to the price.
ValidateOrderInput(lines) ==
  /\ lines # <<>>
  /\ \A i \in DOMAIN lines : lines[i].quantity > 0 /\ lines[i].discount >= 0

OrderLines(price) ==
  UNION {[1..n -> [price : {price}, quantity : 1..MaxQuantity, discount : Discounts]] :
           n \in 0..MaxInvoiceLines}

\* The request up to the deduction: every line must have a price.
PriceOrder(o) ==
  /\ invoiceReq[o].pc = "new" /\ \A p \in 1..(o - 1) : invoiceReq[p].pc # "new"
  /\ \E channel \in ChannelTypes, trn \in BOOLEAN, vatType \in VatTypes, tier \in CustomerTiers \cup {EveryTier} :
       \E price \in Resolve(tier) : \E lines \in OrderLines(price) :
         /\ ValidateOrderInput(lines)
         /\ invoiceReq' = [invoiceReq EXCEPT ![o] =
              [pc |-> "priced", channel |-> channel, trn |-> trn, vatType |-> vatType,
               lines |-> lines, number |-> 0]]
  /\ UNCHANGED <<tariff, invoiceSeq, invoicedOrder, orderInvoice>>

\* LPAD(n, 6, '0') cuts what is longer: the leading digits stay.
Lpad(n) ==
  LET cut[k \in 0..n] == IF k < NumberLimit THEN k ELSE cut[k \div NumberBase]
  IN  cut[n]

\* The order and its items are in the transaction; the sequence is not.
NextInvoiceNumber(o) ==
  /\ invoiceReq[o].pc = "priced"
  /\ invoiceSeq' = invoiceSeq + 1
  /\ invoiceReq' = [invoiceReq EXCEPT ![o].pc = "numbered", ![o].number = Lpad(invoiceSeq + 1)]
  /\ UNCHANGED <<tariff, invoicedOrder, orderInvoice>>

\* invoice_number is unique in both tables.
NumberTaken(n) == \E d \in orderInvoice : d.number = n

InsertOrderInvoice(order, o) ==
  LET type == Evaluate(order.channel, order.trn)
  IN  orderInvoice \cup {[order |-> o, number |-> order.number, type |-> type, status |-> NotSubmitted,
                          xml |-> IF type = "einvoice_ubl" THEN <<GenerateXML(order)>> ELSE <<>>]}

StampInvoiceNumber(order, o) == [invoicedOrder EXCEPT ![o] = order]

\* compliance.Execute and the commit.
PersistInvoice(o) ==
  LET order == BuildOrder(invoiceReq[o], invoiceReq[o].number)
  IN  /\ invoiceReq[o].pc = "numbered" /\ ~NumberTaken(order.number)
      /\ orderInvoice' = InsertOrderInvoice(order, o)
      /\ invoicedOrder' = StampInvoiceNumber(order, o)
      /\ invoiceReq' = [invoiceReq EXCEPT ![o].pc = "over"]
      /\ UNCHANGED <<tariff, invoiceSeq>>

\* A number taken, or any other failure: the transaction rolls back.
FailInvoice(o) ==
  /\ invoiceReq[o].pc \in {"priced", "numbered"}
  /\ invoiceReq' = [invoiceReq EXCEPT ![o].pc = "over"]
  /\ UNCHANGED <<tariff, invoiceSeq, invoicedOrder, orderInvoice>>

-----------------------------------------------------------------------------
(* Submission to the sandbox of the service provider                       *)

UblRequiredElements ==
  {"ID", "UUID", "IssueDate", "InvoiceTypeCode", "DocumentCurrencyCode", "TaxCurrencyCode",
   "AccountingSupplierParty", "AccountingCustomerParty", "TaxTotal", "LegalMonetaryTotal",
   "InvoiceLine"}

\* The errors, as the elements that are missing.
ValidateUBLLocally(xml) == UblRequiredElements \ xml.elements

UpdateSandboxStatus(d, status) == (orderInvoice \ {d}) \cup {[d EXCEPT !.status = status]}

\* A receipt has no document to submit.  The exchange with the provider would
\* follow a validation without errors; no document passes, since UUID is never
\* written, and the exchange is not modelled.
SubmitToSandbox(d) ==
  /\ d.xml # <<>> /\ ValidateUBLLocally(d.xml[1]) # {}
  /\ orderInvoice' = UpdateSandboxStatus(d, "rejected")
  /\ UNCHANGED <<tariff, invoiceReq, invoiceSeq, invoicedOrder>>

\* The route that makes the document anew from the stored order, whatever its
\* type.  The items of an order carry one created_at, which leaves their order
\* open.
GetInvoiceXML(o) ==
  LET lines == invoicedOrder[o].lines
  IN  {GenerateXML([invoicedOrder[o] EXCEPT !.lines = [i \in DOMAIN lines |-> lines[p[i]]]]) :
         p \in Bijection(DOMAIN lines, DOMAIN lines)}

-----------------------------------------------------------------------------

InvoicingNext ==
  \/ \E o \in InvoiceOrders :
       PriceOrder(o) \/ NextInvoiceNumber(o) \/ PersistInvoice(o) \/ FailInvoice(o)
  \/ \E d \in orderInvoice : SubmitToSandbox(d)

InvoicingSpec == InvoicingInit /\ [][InvoicingNext]_invoicingVars

InvoicingTypeOK ==
  /\ tariff \in [standard : UnitPrices \cup {NoStandard}, promotions : SUBSET Promotions]
  /\ \A o \in InvoiceOrders :
       /\ invoiceReq[o].pc \in {"new", "priced", "numbered", "over"}
       /\ invoiceReq[o].number < NumberLimit
       /\ invoicedOrder[o].placed \in BOOLEAN /\ invoicedOrder[o].total \in Int
  /\ invoiceSeq \in 0..NInvoiceOrders
  /\ \A d \in orderInvoice : d.order \in InvoiceOrders /\ d.status \in {NotSubmitted, "rejected"}

Charged(order) == \A i \in DOMAIN order.lines : LineNet(order.lines[i]) >= 0

(* The document of an order agrees with it, and in itself: the tax         *)
(* subtotals add up to the tax, the net and the tax to the amount payable, *)
(* the lines to the net within the rounding, and the amount payable is     *)
(* what the order charges (buildUBL, ProcessOrder), unless a discount      *)
(* exceeds its line.  A document made anew says the same.                  *)
DocumentAddsUp ==
  \A d \in orderInvoice :
    LET order == invoicedOrder[d.order]
        xml   == d.xml[1]
    IN  d.xml # <<>> /\ Charged(order) =>
          /\ MapThenSumSet(LAMBDA s : s.tax, xml.tax.subtotals) = xml.tax.amount
          /\ xml.total.taxExclusive + xml.tax.amount = xml.total.payable
          /\ Round2(SumLines(xml.nets, LAMBDA net : net)) = xml.total.lineExtension
          /\ xml.total.payable = Round2(order.total)
          /\ \A again \in GetInvoiceXML(d.order) : again.tax = xml.tax /\ again.total = xml.total

(* Every order that is there has one invoice row with a number of its own, *)
(* the one stamped on the order, and the row is an e-invoice exactly when  *)
(* the sale is to a business: a wholesale channel, or a customer with a    *)
(* TRN (compliance.Execute, whatever requests fail or roll back between).  *)
OrdersAreInvoiced ==
  /\ \A o \in InvoiceOrders :
       Cardinality({d \in orderInvoice : d.order = o}) = IF invoicedOrder[o].placed THEN 1 ELSE 0
  /\ \A d \in orderInvoice :
       LET order == invoicedOrder[d.order]
       IN  /\ d.number = order.number
           /\ (d.xml # <<>>) = (order.channel = "wholesale" \/ order.trn)
           /\ \A e \in orderInvoice : e.number = d.number => e = d
=============================================================================
