---------------------------- MODULE ChannelStock ----------------------------
(***************************************************************************)
(* Products and stock levels on the channels: products are published to    *)
(* an account of a platform and mapped to its listings; a sync reads the   *)
(* mappings of an account, then for each one the stock, which it pushes.   *)
(*                                                                         *)
(* Syncs run in the worker every ten minutes and on request; nothing keeps *)
(* two of them apart.  A level is pushed to the external id of the         *)
(* mapping.  No code of the repository stores one: a publication writes a  *)
(* mapping without, over one that had it, so that ids are those entered in *)
(* platform_products by hand, and what SyncProducts alone has published is *)
(* never brought a level.  Only the connector of Shopify makes calls; the  *)
(* others are stubs, which succeed and do nothing.  The route that syncs   *)
(* products passes none, so products are published by whoever calls the    *)
(* service with some.                                                      *)
(***************************************************************************)
EXTENDS Integers, FiniteSets

CONSTANTS
  NAccounts,   \* accounts are 1..NAccounts
  StockVariants,
  NSyncs,      \* SyncInventory calls, of the worker and of requests
  MaxChanges,  \* bound on the changes of a variant's stock
  MaxListings  \* bound on the listings of a variant on an account

ASSUME ChannelStockAssumption ==
  /\ NAccounts \in Nat \ {0} /\ NSyncs \in Nat
  /\ MaxChanges \in Nat /\ MaxListings \in Nat

VARIABLES
  connector,    \* of each account's platform: "none" until it is connected
  stockVersion, \* the changes of quantity_available of each variant so far:
                \* they stand for the quantity
  mapping,      \* platform_products: sync_status of each variant on each account
  linked,       \* <<account, variant>> whose mapping has an external id
  shown,        \* the level on the platform, -1 before the first push
  listings,     \* the products made on the platform for the variant
  sync,         \* the SyncInventory calls
  unsure        \* <<account, variant>> of which two syncs pushed at once, or
                \* whose stock or push failed

channelStockVars ==
  <<connector, stockVersion, mapping, linked, shown, listings, sync, unsure>>

StockAccounts == 1..NAccounts
Syncs         == 1..NSyncs
NothingShown  == -1
Statuses      == {"none", "pending", "synced", "error"}

ChannelStockInit ==
  /\ connector = [a \in StockAccounts |-> "none"]
  /\ stockVersion = [v \in StockVariants |-> 0]
  /\ mapping = [a \in StockAccounts |-> [v \in StockVariants |-> "none"]]
  /\ linked = {}
  /\ shown = [a \in StockAccounts |-> [v \in StockVariants |-> NothingShown]]
  /\ listings = [a \in StockAccounts |-> [v \in StockVariants |-> 0]]
  /\ sync = [s \in Syncs |-> [pc |-> "new", account |-> 1, todo |-> {}, read |-> NothingShown,
                              at |-> {}, start |-> [v \in StockVariants |-> 0], linked |-> {}]]
  /\ unsure = {}

-----------------------------------------------------------------------------
(* Accounts, stock and products                                            *)

\* ConnectPlatform stores the platform and the account, both active.  Every
\* platform but Shopify has a stub.
ConnectAccount(a) ==
  /\ connector[a] = "none"
  /\ \E kind \in {"shopify", "stub"} : connector' = [connector EXCEPT ![a] = kind]
  /\ UNCHANGED <<stockVersion, mapping, linked, shown, listings, sync, unsure>>

\* A sale, a receipt, a release.
ChangeStock(v) ==
  /\ stockVersion[v] < MaxChanges
  /\ stockVersion' = [stockVersion EXCEPT ![v] = @ + 1]
  /\ UNCHANGED <<connector, mapping, linked, shown, listings, sync, unsure>>

\* Shopify makes a new product each time, whether the variant is mapped or not.
PublishProduct(a, v) ==
  \/ /\ connector[a] = "shopify" /\ listings[a][v] < MaxListings
     /\ listings' = [listings EXCEPT ![a][v] = @ + 1]
  \/ connector[a] = "stub" /\ UNCHANGED listings

\* On conflict of account and variant the status is replaced, and the external
\* ids by the empty ones of the product that SyncProducts passes.
UpsertPlatformProduct(a, v, status) ==
  /\ mapping' = [mapping EXCEPT ![a][v] = status]
  /\ linked' = linked \ {<<a, v>>}

\* SyncProducts, one variant: the errors of the platform, which may have made
\* the product, and of the mapping leave the others to go on.
SyncProduct(a, v) ==
  /\ connector[a] # "none"
  /\ \E status \in {"synced", "error"} :
       /\ status = "synced" => PublishProduct(a, v)
       /\ status = "error" => connector[a] = "shopify"
                               /\ (PublishProduct(a, v) \/ UNCHANGED listings)
       /\ UpsertPlatformProduct(a, v, status) \/ UNCHANGED <<mapping, linked>>
  /\ UNCHANGED <<connector, stockVersion, shown, sync, unsure>>

\* Someone enters the id of a listing in platform_products.
EnterExternalId(a, v) ==
  /\ connector[a] # "none"
  /\ linked' = linked \cup {<<a, v>>}
  /\ mapping' = [mapping EXCEPT ![a][v] = IF @ = "none" THEN "pending" ELSE @]
  /\ UNCHANGED <<connector, stockVersion, shown, listings, sync, unsure>>

-----------------------------------------------------------------------------
(* SyncInventory                                                           *)

\* Mutant of GetMappedProducts: only the products whose last sync succeeded.
GetSyncedProducts(a) == {v \in StockVariants : mapping[a][v] = "synced"}

GetMappedProducts(a) == {v \in StockVariants : mapping[a][v] # "none"}

\* Without a connector nothing is done.  The mappings are read with their ids.
BeginSync(s, a) ==
  /\ sync[s].pc = "new" /\ \A r \in 1..(s - 1) : sync[r].pc # "new"
  /\ connector[a] # "none"
  /\ sync' = [sync EXCEPT ![s] =
       [@ EXCEPT !.pc = "run", !.account = a, !.todo = GetMappedProducts(a),
                 !.start = stockVersion,
                 !.linked = {v \in StockVariants : <<a, v>> \in linked}]]
  /\ UNCHANGED <<connector, stockVersion, mapping, linked, shown, listings, unsure>>

Pushing(a, v) == {s \in Syncs : sync[s].pc = "push" /\ sync[s].account = a /\ v \in sync[s].at}

\* The next mapping: its stock is read.
GetAvailableStock(s, v) ==
  LET a == sync[s].account
  IN  /\ sync[s].pc = "run" /\ v \in sync[s].todo
      /\ sync' = [sync EXCEPT ![s].pc = "push", ![s].at = {v}, ![s].read = stockVersion[v]]
      /\ unsure' = IF Pushing(a, v) = {} THEN unsure ELSE unsure \cup {<<a, v>>}
      /\ UNCHANGED <<connector, stockVersion, mapping, linked, shown, listings>>

\* The level that the platform shows after the push of sync s of variant v: the
\* empty id is that of no listing, and a stub sets nothing.
LevelAfter(s, v) ==
  IF v \in sync[s].linked /\ connector[sync[s].account] = "shopify"
  THEN [shown EXCEPT ![sync[s].account][v] = sync[s].read] ELSE shown

\* What was read is pushed; the error of a push, which may have set the level
\* or not, is logged.
UpdateInventory(s) ==
  LET a == sync[s].account
  IN  /\ sync[s].pc = "push"
      /\ \E v \in sync[s].at :
           /\ \/ shown' = LevelAfter(s, v) /\ UNCHANGED unsure
              \/ /\ connector[a] = "shopify" /\ shown' \in {shown, LevelAfter(s, v)}
                 /\ unsure' = unsure \cup {<<a, v>>}
           /\ sync' = [sync EXCEPT ![s].pc = "run", ![s].at = {}, ![s].todo = @ \ {v}]
      /\ UNCHANGED <<connector, stockVersion, mapping, linked, listings>>

\* The stock could not be read: the loop goes on.
SkipVariant(s, v) ==
  /\ sync[s].pc = "run" /\ v \in sync[s].todo
  /\ sync' = [sync EXCEPT ![s].todo = @ \ {v}]
  /\ unsure' = unsure \cup {<<sync[s].account, v>>}
  /\ UNCHANGED <<connector, stockVersion, mapping, linked, shown, listings>>

EndSync(s) ==
  /\ sync[s].pc = "run" /\ sync[s].todo = {}
  /\ sync' = [sync EXCEPT ![s].pc = "over"]
  /\ UNCHANGED <<connector, stockVersion, mapping, linked, shown, listings, unsure>>

\* The worker's two minutes are over, or the server stops.
AbandonSync(s) ==
  /\ sync[s].pc \in {"run", "push"}
  /\ sync' = [sync EXCEPT ![s].pc = "abandoned", ![s].at = {}]
  /\ UNCHANGED <<connector, stockVersion, mapping, linked, shown, listings, unsure>>

-----------------------------------------------------------------------------

\* The worker syncs every active account; the route the one it names.
SyncAllInventory(s) == \E a \in StockAccounts : BeginSync(s, a)

ChannelStockNext ==
  \/ \E v \in StockVariants : ChangeStock(v)
  \/ \E a \in StockAccounts : ConnectAccount(a)
  \/ \E a \in StockAccounts, v \in StockVariants : SyncProduct(a, v) \/ EnterExternalId(a, v)
  \/ \E s \in Syncs : SyncAllInventory(s) \/ UpdateInventory(s) \/ EndSync(s) \/ AbandonSync(s)
  \/ \E s \in Syncs, v \in StockVariants : GetAvailableStock(s, v) \/ SkipVariant(s, v)

ChannelStockSpec == ChannelStockInit /\ [][ChannelStockNext]_channelStockVars

ChannelStockTypeOK ==
  /\ connector \in [StockAccounts -> {"none", "shopify", "stub"}]
  /\ stockVersion \in [StockVariants -> 0..MaxChanges]
  /\ mapping \in [StockAccounts -> [StockVariants -> Statuses]]
  /\ linked \in SUBSET (StockAccounts \X StockVariants)
  /\ shown \in [StockAccounts -> [StockVariants -> {NothingShown} \cup Nat]]
  /\ listings \in [StockAccounts -> [StockVariants -> 0..MaxListings]]
  /\ sync \in [Syncs -> [pc : {"new", "run", "push", "over", "abandoned"},
                         account : StockAccounts, todo : SUBSET StockVariants,
                         read : {NothingShown} \cup Nat, at : SUBSET StockVariants,
                         start : [StockVariants -> Nat], linked : SUBSET StockVariants]]
  /\ unsure \in SUBSET (StockAccounts \X StockVariants)

(* A sync of a Shopify account that ran to its end has brought every       *)
(* product whose mapping had an external id when it began - also one whose *)
(* publication had failed - to a level at least as new as its beginning,   *)
(* and no other sync took that back, unless a call for the product failed  *)
(* or two syncs pushed it at once.  A mapping without an id, as            *)
(* SyncProducts leaves it, and an account of a stub are brought nothing,   *)
(* though no error says so (SyncInventory).                                *)
SyncBrings ==
  \A s \in Syncs : sync[s].pc = "over" /\ connector[sync[s].account] = "shopify" =>
    \A v \in sync[s].linked :
      <<sync[s].account, v>> \notin unsure => shown[sync[s].account][v] >= sync[s].start[v]
=============================================================================
