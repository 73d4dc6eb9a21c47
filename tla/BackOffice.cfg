\* Fourteen components side by side, each within bounds of its own.
SPECIFICATION BackOfficeSpec
CHECK_DEADLOCK FALSE
CONSTANTS
  \* Returns
  NReturns = 1  MaxLines = 2  NApprovals = 2  NUploads = 2
  Hashes = {"a", "b"}  FirstOnHand = 1
  \* Purchasing
  NPurchaseOrders = 2  NItems = 2  NReceipts = 2  MaxOrdered = 1
  \* BatchImport
  MaxRows = 3  MaxUnparsed = 1
  \* Loyalty
  NCustomers = 1  NPointRequests = 3  MaxPoints = 2  SilverAt = 1  GoldAt = 2  VipAt = 4
  \* AuthVersions
  Users = {"u"}  Roles = {"r"}  NChanges = 2  NTokens = 1  NRequests = 2
  \* Sessions
  NLogins = 1  NRefreshes = 2  NRevocations = 3  NChecks = 1
  \* ChannelStock
  NAccounts = 1  StockVariants = {"v"}  NSyncs = 2  MaxChanges = 1  MaxListings = 1
  \* ChannelOrders
  NExternalOrders = 2  LookBack = 2  MaxTime = 5  FetchLimit = 1  NImports = 2
  \* Pos
  NPosSessions = 1  NPosOrders = 1  NPayments = 2  MaxShelfPrice = 2  MaxAmount = 2
  \* Invoicing
  NInvoiceOrders = 2  MaxInvoiceLines = 2  MaxQuantity = 1
  CustomerTiers = {"vip"}  UnitPrices = {1000}  Discounts = {70}  VatPercent = 5
  SellerHasEmail = TRUE  NumberBase = 2  NumberLimit = 2
  \* Catalogue
  NProducts = 2  NEdits = 2  NQuickEdits = 1  Names = {"n"}
  Categories = {"c"}  Collections = {"k"}  ForeignGroups = {}
  \* VariantPrices
  NVariants = 1  NVariantEdits = 2  Colors = {"red"}  Urls = {"u"}
  Channels = {1}  FirstChannel = 1  MaxPrice = 1
  \* Shipping
  NShipments = 1  NTrackings = 2  MaxEvents = 2  MaxEventTime = 2
  \* WarehouseTotals
  NWarehouses = 2  Tracking = {TRUE, FALSE}  NWriters = 2  MaxUnits = 1
INVARIANTS
  BackOfficeTypeOK
  BookedOnce VerdictGrounded
  ReceivedInFull
  ImportReportTrue
  LedgerChains TierFollowsAwards
  CurrentTokensTellRoles OldTokensRefused
  OneTokenPerSession RevokedStayRefused
  SyncBrings
  NoOrderMissed
  ChangeCovered
  DocumentAddsUp OrdersAreInvoiced
  SlugLostToRace MembershipsAsAsked
  OneSalePrice EditsSurvive
  ShipmentTellsCarrier
  TotalsAgree
PROPERTIES
  ReprintStable
