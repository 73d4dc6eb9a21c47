------------------------------ MODULE BackOffice ------------------------------
(***************************************************************************)
(* The components around the stock, side by side.                          *)
(*                                                                         *)
(* What one of them writes and another reads is an input of the reader's   *)
(* module (the price a sale finds, the change of a stock level that a sync *)
(* pushes, the units an approved return puts back).  An interleaving of    *)
(* two of them therefore shows nothing that each does not show alone, and  *)
(* a behaviour is that of one component, chosen at the start.  The shelf,  *)
(* the tariff and the groups vary at the start of their component only.    *)
(***************************************************************************)
EXTENDS
  Returns, Purchasing, BatchImport, Loyalty, AuthVersions, Sessions, ChannelStock,
  ChannelOrders, Pos, Invoicing, Catalogue, VariantPrices, Shipping, WarehouseTotals

VARIABLE active   \* the component that runs

backOfficeVars ==
  <<active, returnsVars, purchasingVars, importVars, loyaltyVars, authVars, sessionsVars,
    channelStockVars, channelOrdersVars, posVars, invoicingVars, catalogueVars, variantVars, shippingVars,
    totalsVars>>

BackOfficeInit ==
  /\ active \in {"returns", "purchasing", "import", "loyalty", "auth", "sessions", "channel stock",
                 "channel orders", "pos", "invoicing", "catalogue", "variants", "shipping",
                 "warehouse totals"}
  /\ ReturnsInit /\ PurchasingInit /\ ImportInit
  /\ LoyaltyInit /\ AuthInit /\ SessionsInit
  /\ ChannelStockInit /\ ChannelOrdersInit /\ PosInit
  /\ InvoicingInit /\ CatalogueInit /\ VariantsInit
  /\ ShippingInit /\ TotalsInit
  /\ active = "pos" \/ shelf = [sold |-> TRUE, price |-> 0, stock |-> 0]
  /\ active = "invoicing" \/ tariff = [standard |-> NoStandard, promotions |-> {}]
  /\ active = "warehouse totals" \/ (onHand = 0 /\ \A w \in Warehouses : located[w] = NoStockRow)
  /\ active = "catalogue" \/ \A g \in Groups \ ForeignGroups : group[g] = "none"

(* One action for each component: its own step, and nothing else moves.    *)

ReturnsRuns ==
  /\ active = "returns" /\ ReturnsNext
  /\ UNCHANGED <<active, purchasingVars, importVars, loyaltyVars, authVars, sessionsVars, channelStockVars,
                 channelOrdersVars, posVars, invoicingVars, catalogueVars, variantVars, shippingVars,
                 totalsVars>>

PurchasingRuns ==
  /\ active = "purchasing" /\ PurchasingNext
  /\ UNCHANGED <<active, returnsVars, importVars, loyaltyVars, authVars, sessionsVars, channelStockVars,
                 channelOrdersVars, posVars, invoicingVars, catalogueVars, variantVars, shippingVars,
                 totalsVars>>

BatchImportRuns ==
  /\ active = "import" /\ ImportNext
  /\ UNCHANGED <<active, returnsVars, purchasingVars, loyaltyVars, authVars, sessionsVars, channelStockVars,
                 channelOrdersVars, posVars, invoicingVars, catalogueVars, variantVars, shippingVars,
                 totalsVars>>

LoyaltyRuns ==
  /\ active = "loyalty" /\ LoyaltyNext
  /\ UNCHANGED <<active, returnsVars, purchasingVars, importVars, authVars, sessionsVars, channelStockVars,
                 channelOrdersVars, posVars, invoicingVars, catalogueVars, variantVars, shippingVars,
                 totalsVars>>

AuthVersionsRuns ==
  /\ active = "auth" /\ AuthNext
  /\ UNCHANGED <<active, returnsVars, purchasingVars, importVars, loyaltyVars, sessionsVars, channelStockVars,
                 channelOrdersVars, posVars, invoicingVars, catalogueVars, variantVars, shippingVars,
                 totalsVars>>

SessionsRuns ==
  /\ active = "sessions" /\ SessionsNext
  /\ UNCHANGED <<active, returnsVars, purchasingVars, importVars, loyaltyVars, authVars, channelStockVars,
                 channelOrdersVars, posVars, invoicingVars, catalogueVars, variantVars, shippingVars,
                 totalsVars>>

ChannelStockRuns ==
  /\ active = "channel stock" /\ ChannelStockNext
  /\ UNCHANGED <<active, returnsVars, purchasingVars, importVars, loyaltyVars, authVars, sessionsVars,
                 channelOrdersVars, posVars, invoicingVars, catalogueVars, variantVars, shippingVars,
                 totalsVars>>

ChannelOrdersRuns ==
  /\ active = "channel orders" /\ ChannelOrdersNext
  /\ UNCHANGED <<active, returnsVars, purchasingVars, importVars, loyaltyVars, authVars, sessionsVars,
                 channelStockVars, posVars, invoicingVars, catalogueVars, variantVars, shippingVars,
                 totalsVars>>

PosRuns ==
  /\ active = "pos" /\ PosNext
  /\ UNCHANGED <<active, returnsVars, purchasingVars, importVars, loyaltyVars, authVars, sessionsVars,
                 channelStockVars, channelOrdersVars, invoicingVars, catalogueVars, variantVars, shippingVars,
                 totalsVars>>

InvoicingRuns ==
  /\ active = "invoicing" /\ InvoicingNext
  /\ UNCHANGED <<active, returnsVars, purchasingVars, importVars, loyaltyVars, authVars, sessionsVars,
                 channelStockVars, channelOrdersVars, posVars, catalogueVars, variantVars, shippingVars,
                 totalsVars>>

CatalogueRuns ==
  /\ active = "catalogue" /\ CatalogueNext
  /\ UNCHANGED <<active, returnsVars, purchasingVars, importVars, loyaltyVars, authVars, sessionsVars,
                 channelStockVars, channelOrdersVars, posVars, invoicingVars, variantVars, shippingVars,
                 totalsVars>>

VariantPricesRuns ==
  /\ active = "variants" /\ VariantsNext
  /\ UNCHANGED <<active, returnsVars, purchasingVars, importVars, loyaltyVars, authVars, sessionsVars,
                 channelStockVars, channelOrdersVars, posVars, invoicingVars, catalogueVars, shippingVars,
                 totalsVars>>

ShippingRuns ==
  /\ active = "shipping" /\ ShippingNext
  /\ UNCHANGED <<active, returnsVars, purchasingVars, importVars, loyaltyVars, authVars, sessionsVars,
                 channelStockVars, channelOrdersVars, posVars, invoicingVars, catalogueVars, variantVars,
                 totalsVars>>

WarehouseTotalsRuns ==
  /\ active = "warehouse totals" /\ TotalsNext
  /\ UNCHANGED <<active, returnsVars, purchasingVars, importVars, loyaltyVars, authVars, sessionsVars,
                 channelStockVars, channelOrdersVars, posVars, invoicingVars, catalogueVars,
                 variantVars, shippingVars>>

BackOfficeNext ==
  \/ ReturnsRuns \/ PurchasingRuns \/ BatchImportRuns \/ LoyaltyRuns
  \/ AuthVersionsRuns \/ SessionsRuns \/ ChannelStockRuns \/ ChannelOrdersRuns
  \/ PosRuns \/ InvoicingRuns \/ CatalogueRuns \/ VariantPricesRuns
  \/ ShippingRuns \/ WarehouseTotalsRuns

BackOfficeSpec == BackOfficeInit /\ [][BackOfficeNext]_backOfficeVars

\* Every component keeps its rows, requests and counters in the ranges the
\* code and the schema give them, whatever it is asked to do.
BackOfficeTypeOK ==
  /\ ReturnsTypeOK /\ PurchasingTypeOK /\ ImportTypeOK
  /\ LoyaltyTypeOK /\ AuthTypeOK /\ SessionsTypeOK
  /\ ChannelStockTypeOK /\ ChannelOrdersTypeOK /\ PosTypeOK
  /\ InvoicingTypeOK /\ CatalogueTypeOK /\ VariantsTypeOK
  /\ ShippingTypeOK /\ TotalsTypeOK
==============================================================================
