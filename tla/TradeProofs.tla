----------------------------- MODULE TradeProofs ------------------------------
(***************************************************************************)
(* The safety of what is sold and shipped, for any number of rows and      *)
(* requests: a sync brings the levels it began with, no channel order is   *)
(* missed, a receipt is stable and its change covered, a shipment tells    *)
(* what its carrier did, a slug is lost only to a race, a product is in    *)
(* the groups it was put in, and the two accounts of a variant's units     *)
(* agree.                                                                  *)
(***************************************************************************)
EXTENDS
  ChannelStock, ChannelOrders, Pos, Shipping, Catalogue, WarehouseTotals,
  SumLemmas, FiniteSetTheorems

-----------------------------------------------------------------------------
(* Push of stock levels: the inductive invariant                           *)

\* The products with an external id that a sync is done with.
Brought(s) == sync[s].linked \ sync[s].todo

OnShopify(s) == connector[sync[s].account] = "shopify"

\* The syncs in the middle of a push to the account of r.
Beside(r, v) == Pushing(sync[r].account, v)

\* What a sync has brought is still shown, and a sync in the middle of a push
\* pushes alone, and nothing older than any sync has brought.
LevelsHold ==
  /\ \A s \in Syncs : OnShopify(s) => \A v \in Brought(s) :
       <<sync[s].account, v>> \notin unsure => shown[sync[s].account][v] >= sync[s].start[v]
  /\ \A r \in Syncs, v \in StockVariants :
       r \in Beside(r, v) /\ <<sync[r].account, v>> \notin unsure =>
         /\ Beside(r, v) = {r}
         /\ sync[r].read >= sync[r].start[v]
         /\ \A s \in Syncs : sync[s].account = sync[r].account /\ v \in Brought(s)
                             => sync[r].read >= sync[s].start[v]

\* No sync began at a stock that is still to come, or for an account that is
\* not connected; one that has ended has nothing left to do; an external id is
\* that of a mapping.
SyncsSound ==
  /\ \A s \in Syncs, v \in StockVariants : sync[s].start[v] <= stockVersion[v]
  /\ \A s \in Syncs : sync[s].pc = "over" => sync[s].todo = {}
  /\ \A s \in Syncs : IF sync[s].pc = "new" THEN sync[s].linked = {}
                       ELSE connector[sync[s].account] # "none"
  /\ \A a \in StockAccounts, v \in StockVariants : <<a, v>> \in linked => mapping[a][v] # "none"

ChannelStockInv == ChannelStockTypeOK /\ SyncsSound /\ LevelsHold

-----------------------------------------------------------------------------
(* Import of a channel's orders: the inductive invariant                   *)

\* An order that was closed is excused; the last answer is not of the future;
\* a run that has not begun has nothing to do.
FetchesSound ==
  /\ \A o \in ExternalOrders : ~externalOrder[o].open => o \in excused
  /\ lastFetch <= now
  /\ \A i \in Imports : import[i].pc = "new" => import[i].todo = {}

ChannelOrdersInv == ChannelOrdersTypeOK /\ FetchesSound /\ NoOrderMissed

-----------------------------------------------------------------------------
(* Point of sale: the inductive invariant                                  *)

\* Requests are stamped in the order of their numbers.
StampsInOrder ==
  \A p, q \in Payments : payment[p].pc = "new" /\ p < q => payment[q].pc = "new"

\* A payment is of an order that is there, and its change what it alone
\* exceeds the total by.
ChangeOf(r) ==
  /\ r.pc \in {"inserted", "paid", "silent"} => posOrder[r.order] # 0
  /\ r.change = IF r.pc = "paid" THEN ChangeDue(r.order, r.amount) ELSE 0
ChangeOfOne == \A p \in Payments : ChangeOf(payment[p])

\* A payment that is under way is alone, and newer than those in the table.
PendingIsLast ==
  \A o \in PosOrders \ crowded : \A p \in Pending(o) :
    Pending(o) = {p} /\ \A q \in GetPaymentsByOrderID(o) : q < p

PosInv == PosTypeOK /\ StampsInOrder /\ ChangeOfOne /\ PendingIsLast

-----------------------------------------------------------------------------
(* Shipping: the inductive invariant                                       *)

Reported(s) == Range(waybill[s].events)
LogSet(s)   == Range(eventLog[s])

\* The calls that have got as far as reading the shipment's row.
CallsOf(s) ==
  {y \in Trackings : tracking[y].shipment = s /\ tracking[y].pc \in {"read", "asked", "over"}}
BusyCalls(s) == {y \in CallsOf(s) : tracking[y].pc \in {"read", "asked"}}

\* What the calls under way are still to insert.
Awaited(s) ==
  {e \in CarrierEvents : \E y \in CallsOf(s) : tracking[y].pc = "asked" /\ e \in tracking[y].todo}

\* The booking goes before the number, the number before the tracking.
BookedFirst ==
  \A s \in Shipments :
    /\ shipment[s].pc \in {"new", "inserted", "booked"} => ~shipment[s].tracked
    /\ shipment[s].pc = "booked" => waybill[s].booked
    /\ CallsOf(s) # {} => shipment[s].tracked

\* The carrier's events are numbered as they come, and the log holds no others.
EventsNumbered ==
  \A s \in Shipments :
    /\ \A i \in DOMAIN waybill[s].events : waybill[s].events[i].no = i
    /\ LogSet(s) \subseteq Reported(s)

\* A call has seen the events that were reported up to some moment.
CallsSeeAll ==
  \A s \in Shipments : \A y \in CallsOf(s) :
    /\ tracking[y].pc # "read" =>
         /\ tracking[y].seen \subseteq Reported(s) /\ tracking[y].todo \subseteq tracking[y].seen
         /\ \A e \in Reported(s), f \in tracking[y].seen : e.no < f.no => e \in tracking[y].seen
    /\ tracking[y].pc = "over" => tracking[y].todo = {}

\* A dated event that was not late is to be found in the log.
ToLog(s, e) == e.time > 0 /\ ~Late(s, e)

\* The newest time a call has read is that of the log.
LatestIs(s, latest) ==
  /\ \A e \in LogSet(s) : e.time <= latest
  /\ latest = 0 \/ \E e \in LogSet(s) : e.time = latest

\* One call at a time; what it has seen and the log lacks it will insert; and
\* no logged event has one before it that is neither logged nor awaited.
CallIsLogged(s, y) ==
  /\ tracking[y].pc = "read" => LatestIs(s, tracking[y].latest)
  /\ tracking[y].pc = "asked" => tracking[y].todo \cap LogSet(s) = {}
  /\ tracking[y].pc # "read" =>
       \A e \in tracking[y].seen : ToLog(s, e) => e \in LogSet(s) \cup tracking[y].todo
LogOf(s) ==
  /\ \A x, y \in BusyCalls(s) : x = y
  /\ \A i, j \in DOMAIN eventLog[s] : eventLog[s][i] = eventLog[s][j] => i = j
  /\ \A y \in CallsOf(s) : CallIsLogged(s, y)
  /\ \A f \in LogSet(s), e \in Reported(s) :
       e.no < f.no /\ ToLog(s, e) => e \in LogSet(s) \cup Awaited(s)

ShippingInv ==
  /\ ShippingTypeOK /\ RowTellsCarrier /\ BookedFirst /\ EventsNumbered /\ CallsSeeAll
  /\ \A s \in Shipments \ muddled : LogOf(s)

-----------------------------------------------------------------------------
(* Catalogue: the inductive invariant                                      *)

NameRows    == [of : {"", "untitled"} \cup Names, copies : Nat]
SlugRows    == [base : NameRows, no : Nat]
ProductRows == [status : {"free", "listed", "archived"}, name : NameRows, slug : SlugRows]

\* A replacement adds pairs of its scope.
Replacements ==
  {r \in [scope : SUBSET MembershipPairs, add : SUBSET MembershipPairs] : r.add \subseteq r.scope}
EditRows ==
  [pc : {"new", "resolved", "syncing", "cleared", "done", "slugTaken", "failed"},
   id : Products, name : NameRows, slug : SlugRows, status : {Keep, "listed"},
   cats : SUBSET Categories, todo : Seq(Replacements), gone : SUBSET MembershipPairs]

\* A request that is replacing has a replacement to do, and deletes within its scope.
RowSound(r) ==
  /\ r.pc \in {"syncing", "cleared"} => r.todo # <<>>
  /\ r.pc = "cleared" => r.gone \subseteq Head(r.todo).scope

CatalogueShapes ==
  /\ product \in [Products -> ProductRows] /\ edit \in [Edits -> EditRows]
  /\ overtaken \subseteq Edits
  /\ \A e \in Edits : RowSound(edit[e])

\* The delete of a replacement has seen every membership of its scope, and no
\* two replacements are about the same pair; the mixed pairs aside.
DeletesSeeAll ==
  /\ \A e \in Edits : Replacing(e) =>
       \A m \in member \cap Due(e).scope : m \in mixed \/ m \in edit[e].gone
  /\ \A e, f \in Edits : e # f /\ Replacing(e) /\ Replacing(f) => Due(e).scope \cap Due(f).scope \subseteq mixed

\* A slug that was found is free until another one is written.
SlugSound(e) ==
  /\ edit[e].pc = "slugTaken" => e \in overtaken
  /\ edit[e].pc = "resolved" =>
       /\ edit[e].slug.base = edit[e].name
       /\ edit[e].name = NoName \/ edit[e].status = Keep => Exists(edit[e].id)
       /\ edit[e].name # NoName /\ e \notin overtaken => ~SlugTaken(edit[e].slug, edit[e].id)

CatalogueInv ==
  /\ CatalogueShapes /\ MembershipsAsAsked /\ DeletesSeeAll
  /\ \A e \in Edits : SlugSound(e)

-----------------------------------------------------------------------------
(* The two accounts of a variant's units: the inductive invariant          *)

\* A row is locked by one writer at a time.
HeldApart ==
  \A r, s \in Writers : r # s => \A x \in writer[r].held : x \notin writer[s].held

\* What a writer is about to write follows from what the rows it holds still
\* say: an adjustment adds one change to both, an update sets both.
Prepared(r) ==
  /\ r.pc \in {"adjusted", "adjust ready"} =>
       r.warehouse \in r.held /\ r.row = Units(r.warehouse) + r.change
  /\ r.pc = "adjust ready" => InventoryRow \in r.held /\ r.total = onHand + r.change
  /\ r.pc \in {"pick", "picked", "update ready"} => InventoryRow \in r.held /\ r.total = r.change
  /\ r.pc = "update ready" => r.warehouse \in r.held /\ r.row = r.change
  /\ r.pc \in {"update", "pick", "picked", "update ready"} => r.change \in 0..MaxUnits

\* The quantity that was copied is that of the rows that will be.
DuplicateSound ==
  duplicate.open /\ ~duplicate.parted => duplicate.total = InWarehouses + inTransit

TotalsInv ==
  /\ TotalsTypeOK /\ HeldApart /\ TotalsAgree /\ DuplicateSound
  /\ \A s \in Writers : Prepared(writer[s])

-----------------------------------------------------------------------------
(* Minima of sets of naturals                                              *)

\* A set of naturals that is not empty holds its minimum.
LEMMA MinIn ==
  ASSUME NEW S, S \subseteq Nat, S # {}
  PROVE  Min(S) \in S
<1>1. PICK m \in S : \A y \in S : ~(y < m)
  BY NatMin
<1>2. \A y \in S : m <= y
  BY <1>1
<1> QED BY <1>2 DEF Min

\* A number below all others of a set is its minimum.
LEMMA MinIs ==
  ASSUME NEW S, S \subseteq Nat, NEW m \in S, \A y \in S : m <= y
  PROVE  Min(S) = m
<1>1. Min(S) \in S /\ \A y \in S : Min(S) <= y
  BY DEF Min
<1>2. Min(S) \in Nat /\ m \in Nat /\ Min(S) <= m /\ m <= Min(S)
  BY <1>1
<1> QED BY <1>2

-----------------------------------------------------------------------------
(* Push of stock levels                                                    *)

SyncRows == [pc : {"new", "run", "push", "over", "abandoned"},
             account : StockAccounts, todo : SUBSET StockVariants,
             read : {NothingShown} \cup Nat, at : SUBSET StockVariants,
             start : [StockVariants -> Nat], linked : SUBSET StockVariants]

\* The fields of the syncs, and numbers.
LEMMA SyncShapes ==
  ASSUME ChannelStockTypeOK
  PROVE  /\ sync \in [Syncs -> SyncRows]
         /\ \A s \in Syncs : sync[s] \in SyncRows
         /\ \A s \in Syncs, v \in StockVariants : sync[s].start[v] \in Nat
         /\ \A s \in Syncs : sync[s].read \in Int
         /\ \A v \in StockVariants : stockVersion[v] \in Nat
         /\ \A a \in StockAccounts, v \in StockVariants : shown[a][v] \in Int
         /\ Syncs \subseteq Nat /\ \A s \in Syncs : sync[s].account \in StockAccounts
<1>1. sync \in [Syncs -> SyncRows]
  BY DEF ChannelStockTypeOK, SyncRows
<1>2. \A s \in Syncs : /\ sync[s] \in SyncRows /\ sync[s].read \in Int
                       /\ sync[s].account \in StockAccounts
                       /\ \A v \in StockVariants : sync[s].start[v] \in Nat
  BY <1>1 DEF SyncRows, NothingShown
<1>3. \A v \in StockVariants : stockVersion[v] \in Nat
  BY ChannelStockAssumption DEF ChannelStockTypeOK
<1>4. \A a \in StockAccounts, v \in StockVariants : shown[a][v] \in Int
  BY DEF ChannelStockTypeOK, NothingShown
<1>5. Syncs \subseteq Nat
  BY ChannelStockAssumption DEF Syncs
<1> QED BY <1>1, <1>2, <1>3, <1>4, <1>5

LEMMA ChannelStockInitSafe == ChannelStockInit => ChannelStockInv
<1> SUFFICES ASSUME ChannelStockInit PROVE ChannelStockInv
  OBVIOUS
<1>1. 1 \in StockAccounts /\ 0 \in 0..MaxChanges /\ 0 \in 0..MaxListings
  BY ChannelStockAssumption DEF StockAccounts
<1>2. ChannelStockTypeOK
  BY <1>1 DEF ChannelStockInit, ChannelStockTypeOK, Statuses
<1>3. SyncsSound
  BY DEF ChannelStockInit, SyncsSound
<1>4. LevelsHold
  BY DEF ChannelStockInit, LevelsHold, Brought, OnShopify, Pushing, Beside
<1> QED BY <1>2, <1>3, <1>4 DEF ChannelStockInv

\* What a sync, in its next row, may claim to have brought: nothing but what it
\* had, or what has become unsure.
Told(s, row) ==
  /\ connector[row.account] # "none"
  /\ \A v \in StockVariants : row.start[v] <= stockVersion[v]
  /\ \A v \in row.linked \ row.todo :
       \/ <<row.account, v>> \in unsure'
       \/ v \in Brought(s) /\ row.account = sync[s].account /\ row.start[v] = sync[s].start[v]

\* A sync that takes a step without pushing keeps what it shows as long as it
\* neither claims more nor enters a push.
LEMMA QuietStepKeeps ==
  ASSUME ChannelStockInv, NEW s \in Syncs, NEW row \in SyncRows,
         sync' = [sync EXCEPT ![s] = row],
         UNCHANGED <<connector, stockVersion, mapping, linked, shown, listings>>,
         unsure \subseteq unsure', unsure' \subseteq StockAccounts \X StockVariants,
         row.pc # "push", row.pc # "new", row.pc = "over" => row.todo = {},
         Told(s, row)
  PROVE  ChannelStockInv'
<1> USE DEF ChannelStockInv, Told
<1>1. sync'[s] = row /\ \A r \in Syncs \ {s} : sync'[r] = sync[r]
  BY SyncShapes
<1>2. ChannelStockTypeOK'
  BY DEF ChannelStockTypeOK, SyncRows
<1>3. SyncsSound'
  BY <1>1 DEF SyncsSound
<1>4. ASSUME NEW r \in Syncs, NEW v \in Brought(r)', <<sync'[r].account, v>> \notin unsure'
      PROVE  /\ v \in Brought(r) /\ <<sync[r].account, v>> \notin unsure
             /\ sync'[r].account = sync[r].account /\ sync'[r].start[v] = sync[r].start[v]
  BY <1>1, <1>4 DEF Brought
<1>5. ASSUME NEW r \in Syncs, NEW v \in StockVariants, r \in Beside(r, v)'
      PROVE  /\ r # s /\ sync'[r] = sync[r] /\ r \in Beside(r, v)
             /\ Beside(r, v)' \subseteq Beside(r, v)
  BY <1>1, <1>5 DEF Pushing, Beside
<1>6. LevelsHold'
  <2>1. \A r \in Syncs : OnShopify(r)' => \A v \in Brought(r)' :
          <<sync'[r].account, v>> \notin unsure' => shown'[sync'[r].account][v] >= sync'[r].start[v]
    <3> SUFFICES ASSUME NEW r \in Syncs, OnShopify(r)', NEW v \in Brought(r)',
                        <<sync'[r].account, v>> \notin unsure'
                 PROVE  shown'[sync'[r].account][v] >= sync'[r].start[v]
      OBVIOUS
    <3>1. /\ v \in Brought(r) /\ <<sync[r].account, v>> \notin unsure
          /\ sync'[r].account = sync[r].account /\ sync'[r].start[v] = sync[r].start[v]
      BY <1>4
    <3>2. OnShopify(r)
      BY <3>1 DEF OnShopify
    <3>3. shown[sync[r].account][v] >= sync[r].start[v]
      BY <3>1, <3>2 DEF LevelsHold
    <3> QED
      BY <3>1, <3>3
  <2>2. ASSUME NEW r \in Syncs, NEW v \in StockVariants,
               r \in Beside(r, v)', <<sync'[r].account, v>> \notin unsure'
        PROVE  /\ Beside(r, v)' = {r}
               /\ sync'[r].read >= sync'[r].start[v]
               /\ \A q \in Syncs : sync'[q].account = sync'[r].account /\ v \in Brought(q)'
                                     => sync'[r].read >= sync'[q].start[v]
    <3>1. /\ sync'[r] = sync[r] /\ r \in Beside(r, v)
          /\ Beside(r, v)' \subseteq Beside(r, v)
          /\ <<sync[r].account, v>> \notin unsure
      BY <1>5, <2>2
    <3>2. /\ Beside(r, v) = {r} /\ sync[r].read >= sync[r].start[v]
          /\ \A q \in Syncs : sync[q].account = sync[r].account /\ v \in Brought(q)
                                => sync[r].read >= sync[q].start[v]
      BY <3>1 DEF LevelsHold
    <3>3. ASSUME NEW q \in Syncs, sync'[q].account = sync'[r].account, v \in Brought(q)'
          PROVE  sync'[r].read >= sync'[q].start[v]
      <4>1. v \in Brought(q) /\ sync'[q].account = sync[q].account /\ sync'[q].start[v] = sync[q].start[v]
        BY <1>4, <2>2, <3>3
      <4> QED BY <3>1, <3>2, <3>3, <4>1
    <3> QED BY <2>2, <3>1, <3>2, <3>3
  <2> QED BY <2>1, <2>2 DEF LevelsHold
<1> QED BY <1>2, <1>3, <1>6

\* A sync begins with all to do, skips a product, ends, or is abandoned.
LEMMA QuietSyncKeeps ==
  ASSUME ChannelStockInv, NEW s \in Syncs,
         \/ SyncAllInventory(s) \/ EndSync(s) \/ AbandonSync(s)
         \/ \E v \in StockVariants : SkipVariant(s, v)
  PROVE  ChannelStockInv'
<1> USE DEF ChannelStockInv
<1>1. ASSUME NEW a \in StockAccounts, BeginSync(s, a) PROVE ChannelStockInv'
  <2> DEFINE ids == {v \in StockVariants : <<a, v>> \in linked}
             row == [sync[s] EXCEPT !.pc = "run", !.account = a, !.todo = GetMappedProducts(a),
                                    !.start = stockVersion, !.linked = ids]
  <2>1. stockVersion \in [StockVariants -> Nat]
    BY ChannelStockAssumption DEF ChannelStockTypeOK
  <2>2. /\ row \in SyncRows /\ row.pc = "run" /\ row.start = stockVersion /\ row.account = a
        /\ row.todo = {v \in StockVariants : mapping[a][v] # "none"} /\ row.linked = ids
    BY <2>1, SyncShapes DEF SyncRows, GetMappedProducts
  <2>3. /\ sync' = [sync EXCEPT ![s] = row] /\ connector[a] # "none"
        /\ UNCHANGED <<connector, stockVersion, mapping, linked, shown, listings, unsure>>
    BY <1>1 DEF BeginSync
  <2> HIDE DEF row
  <2>4. unsure \subseteq unsure' /\ unsure' \subseteq StockAccounts \X StockVariants
    BY <2>3 DEF ChannelStockTypeOK
  <2>5. \A v \in StockVariants : row.start[v] <= stockVersion[v]
    BY <2>2, SyncShapes
  <2>6. row.linked \ row.todo = {}
    BY <2>2 DEF SyncsSound
  <2>7. Told(s, row)
    BY <2>2, <2>3, <2>5, <2>6 DEF Told
  <2> QED
    BY <2>2, <2>3, <2>4, <2>7, QuietStepKeeps
<1>2. CASE EndSync(s)
  <2> DEFINE row == [sync[s] EXCEPT !.pc = "over"]
  <2>1. /\ row \in SyncRows /\ row.pc = "over" /\ row.todo = {} /\ row.linked = sync[s].linked
        /\ row.start = sync[s].start /\ row.account = sync[s].account
    BY <1>2, SyncShapes DEF EndSync, SyncRows
  <2>2. sync' = [sync EXCEPT ![s] = row] /\ UNCHANGED <<connector, stockVersion, mapping, linked, shown, listings, unsure>>
    BY <1>2 DEF EndSync
  <2>3. /\ sync[s].todo = {} /\ sync[s].pc # "new"
        /\ unsure \subseteq unsure' /\ unsure' \subseteq StockAccounts \X StockVariants
    BY <1>2, <2>2 DEF EndSync, ChannelStockTypeOK
  <2> HIDE DEF row
  <2>4. Told(s, row)
    BY <2>1, <2>3 DEF Told, SyncsSound, Brought
  <2> QED
    BY <2>1, <2>2, <2>3, <2>4, QuietStepKeeps
<1>3. CASE AbandonSync(s)
  <2> DEFINE row == [sync[s] EXCEPT !.pc = "abandoned", !.at = {}]
  <2>1. /\ row \in SyncRows /\ row.pc = "abandoned" /\ row.todo = sync[s].todo
        /\ row.linked = sync[s].linked /\ row.start = sync[s].start /\ row.account = sync[s].account
    BY SyncShapes DEF SyncRows
  <2>2. sync' = [sync EXCEPT ![s] = row] /\ UNCHANGED <<connector, stockVersion, mapping, linked, shown, listings, unsure>>
    BY <1>3 DEF AbandonSync
  <2>3. /\ sync[s].pc # "new"
        /\ unsure \subseteq unsure' /\ unsure' \subseteq StockAccounts \X StockVariants
    BY <1>3, <2>2 DEF AbandonSync, ChannelStockTypeOK
  <2> HIDE DEF row
  <2>4. Told(s, row)
    BY <2>1, <2>3 DEF Told, SyncsSound, Brought
  <2> QED
    BY <2>1, <2>2, <2>3, <2>4, QuietStepKeeps
<1>4. ASSUME NEW v \in StockVariants, SkipVariant(s, v) PROVE ChannelStockInv'
  <2> DEFINE row == [sync[s] EXCEPT !.todo = sync[s].todo \ {v}]
  <2>1. /\ row \in SyncRows /\ row.pc = "run" /\ row.todo = sync[s].todo \ {v}
        /\ row.linked = sync[s].linked /\ row.start = sync[s].start /\ row.account = sync[s].account
    <3>1. sync[s] \in SyncRows /\ sync[s].pc = "run"
      BY <1>4, SyncShapes DEF SkipVariant
    <3> QED
      BY <3>1 DEF SyncRows
  <2>2. sync' = [sync EXCEPT ![s] = row] /\ UNCHANGED <<connector, stockVersion, mapping, linked, shown, listings>>
        /\ unsure' = unsure \cup {<<sync[s].account, v>>}
    BY <1>4 DEF SkipVariant
  <2>3. /\ sync[s].pc # "new" /\ unsure \subseteq unsure'
        /\ unsure' \subseteq StockAccounts \X StockVariants
    BY <1>4, <2>2, SyncShapes DEF SkipVariant, ChannelStockTypeOK
  <2> HIDE DEF row
  <2>4. Told(s, row)
    BY <2>1, <2>2, <2>3 DEF Told, SyncsSound, Brought
  <2> QED
    BY <2>1, <2>2, <2>3, <2>4, QuietStepKeeps
<1> QED
  BY <1>1, <1>2, <1>3, <1>4 DEF SyncAllInventory

\* A sync reads the stock, which is as new as the start of any sync.
LEMMA ReadStockKeeps ==
  ASSUME ChannelStockInv, NEW s \in Syncs, NEW v \in StockVariants, GetAvailableStock(s, v)
  PROVE  ChannelStockInv'
<1> USE DEF ChannelStockInv
<1> DEFINE a == sync[s].account
           row == [sync[s] EXCEPT !.pc = "push", !.at = {v}, !.read = stockVersion[v]]
<1>1. /\ row \in SyncRows /\ row.pc = "push" /\ row.at = {v} /\ row.read = stockVersion[v]
      /\ row.todo = sync[s].todo /\ row.linked = sync[s].linked /\ row.start = sync[s].start
      /\ row.account = a
  BY SyncShapes DEF SyncRows
<1>2. /\ sync[s].pc = "run" /\ v \in sync[s].todo
      /\ sync' = [sync EXCEPT ![s] = row]
      /\ unsure' = IF Beside(s, v) = {} THEN unsure ELSE unsure \cup {<<a, v>>}
      /\ UNCHANGED <<connector, stockVersion, mapping, linked, shown, listings>>
  BY DEF GetAvailableStock, Beside
<1> HIDE DEF row
<1>3. sync'[s] = row /\ \A r \in Syncs \ {s} : sync'[r] = sync[r]
  BY <1>2, SyncShapes
<1>4. unsure' \subseteq StockAccounts \X StockVariants /\ unsure \subseteq unsure'
  BY <1>2, SyncShapes DEF ChannelStockTypeOK
<1>5. ChannelStockTypeOK'
  BY <1>1, <1>2, <1>4 DEF ChannelStockTypeOK, SyncRows
<1>6. SyncsSound'
  BY <1>1, <1>2, <1>3 DEF SyncsSound
<1>7. \A r \in Syncs : /\ Brought(r)' = Brought(r) /\ sync'[r].account = sync[r].account
                       /\ sync'[r].start = sync[r].start
  BY <1>1, <1>3 DEF Brought
<1>8. \A r \in Syncs : OnShopify(r)' => \A w \in Brought(r)' :
        <<sync'[r].account, w>> \notin unsure' => shown'[sync'[r].account][w] >= sync'[r].start[w]
  BY <1>2, <1>4, <1>7 DEF LevelsHold, OnShopify
<1>9. ASSUME NEW r \in Syncs, NEW w \in StockVariants,
             r \in Beside(r, w)', <<sync'[r].account, w>> \notin unsure'
      PROVE  /\ Beside(r, w)' = {r}
             /\ sync'[r].read >= sync'[r].start[w]
             /\ \A q \in Syncs : sync'[q].account = sync'[r].account /\ w \in Brought(q)'
                                   => sync'[r].read >= sync'[q].start[w]
  <2>1. CASE r = s
    <3>1. w = v
      BY <1>1, <1>3, <1>9, <2>1 DEF Pushing, Beside
    <3>2. Beside(s, v) = {}
      BY <1>1, <1>2, <1>3, <1>9, <2>1, <3>1
    <3>3. Beside(s, v)' = {s}
      BY <1>1, <1>3, <3>2 DEF Pushing, Beside
    <3>4. \A q \in Syncs : sync'[q].start[v] <= sync'[s].read
      BY <1>1, <1>3, <1>7 DEF SyncsSound
    <3>5. sync'[s].account = a /\ \A q \in Syncs : sync'[s].read >= sync'[q].start[v]
      BY <1>7, <3>4
    <3> QED BY <2>1, <3>1, <3>3, <3>5
  <2>2. CASE r # s
    <3>1. sync'[r] = sync[r] /\ r \in Beside(r, w) /\ <<sync[r].account, w>> \notin unsure
      BY <1>3, <1>4, <1>9, <2>2 DEF Pushing, Beside
    <3>2. ~(sync[r].account = a /\ w = v)
      BY <1>2, <1>3, <1>9, <2>2, <3>1 DEF Beside
    <3>3. Beside(r, w)' = Beside(r, w)
      BY <1>1, <1>2, <1>3, <3>2 DEF Pushing, Beside
    <3> QED BY <1>7, <3>1, <3>3 DEF LevelsHold
  <2> QED BY <2>1, <2>2
<1>10. LevelsHold'
  BY <1>8, <1>9 DEF LevelsHold
<1> QED BY <1>5, <1>6, <1>10

\* What was read is pushed; it is not older than what any sync has brought.
LEMMA PushKeeps ==
  ASSUME ChannelStockInv, NEW s \in Syncs, UpdateInventory(s)
  PROVE  ChannelStockInv'
<1> USE DEF ChannelStockInv
<1> DEFINE a == sync[s].account
<1>1. PICK v \in sync[s].at :
        /\ \/ shown' = LevelAfter(s, v) /\ UNCHANGED unsure
           \/ shown' \in {shown, LevelAfter(s, v)} /\ unsure' = unsure \cup {<<a, v>>}
        /\ sync' = [sync EXCEPT ![s].pc = "run", ![s].at = {}, ![s].todo = @ \ {v}]
  BY DEF UpdateInventory
<1> DEFINE row == [sync[s] EXCEPT !.pc = "run", !.at = {}, !.todo = sync[s].todo \ {v}]
<1>2. /\ row \in SyncRows /\ row.pc = "run" /\ row.at = {} /\ row.todo = sync[s].todo \ {v}
      /\ row.read = sync[s].read /\ row.linked = sync[s].linked /\ row.start = sync[s].start
      /\ row.account = a
  BY SyncShapes DEF SyncRows
<1>3. /\ sync[s].pc = "push" /\ sync' = [sync EXCEPT ![s] = row]
      /\ UNCHANGED <<connector, stockVersion, mapping, linked, listings>>
  <2>1. sync[s].pc = "push" /\ UNCHANGED <<connector, stockVersion, mapping, linked, listings>>
    BY DEF UpdateInventory
  <2>2. sync' = [sync EXCEPT ![s] = row]
    BY <1>1
  <2> QED BY <2>1, <2>2
<1>4. v \in StockVariants /\ a \in StockAccounts /\ s \in Beside(s, v)
  BY <1>3, SyncShapes DEF SyncRows, Pushing, Beside
<1> HIDE DEF row
<1>5. sync'[s] = row /\ \A r \in Syncs \ {s} : sync'[r] = sync[r]
  BY <1>3, SyncShapes
<1>6. unsure' \subseteq StockAccounts \X StockVariants /\ unsure \subseteq unsure'
  BY <1>1, <1>4 DEF ChannelStockTypeOK
<1>7. shown' \in [StockAccounts -> [StockVariants -> {NothingShown} \cup Nat]]
  <2> DEFINE Levels == {NothingShown} \cup Nat
  <2>1. sync[s].read \in Levels
    BY SyncShapes DEF SyncRows
  <2>2. shown \in [StockAccounts -> [StockVariants -> Levels]]
    BY DEF ChannelStockTypeOK
  <2> HIDE DEF Levels
  <2>3. \A b \in StockAccounts, x \in Levels :
          [shown EXCEPT ![b][v] = x] \in [StockAccounts -> [StockVariants -> Levels]]
    BY <1>4, <2>2
  <2>4. shown' \in {shown, [shown EXCEPT ![a][v] = sync[s].read]}
    BY <1>1 DEF LevelAfter
  <2>5. shown' \in [StockAccounts -> [StockVariants -> Levels]]
    BY <1>4, <2>1, <2>2, <2>3, <2>4
  <2> QED BY <2>5 DEF Levels
<1>8. ChannelStockTypeOK'
  BY <1>2, <1>3, <1>6, <1>7 DEF ChannelStockTypeOK, SyncRows
<1>9. SyncsSound'
  BY <1>2, <1>3, <1>5 DEF SyncsSound
<1>10. \A r \in Syncs : /\ sync'[r].account = sync[r].account /\ sync'[r].start = sync[r].start
                        /\ sync'[r].read = sync[r].read
                        /\ \A w \in Brought(r)' : \/ w \in Brought(r)
                                                  \/ r = s /\ w = v /\ v \in sync[s].linked
                        /\ OnShopify(r)' = OnShopify(r)
  BY <1>2, <1>3, <1>5 DEF Brought, OnShopify
<1>11. \A b \in StockAccounts, w \in StockVariants : <<b, w>> # <<a, v>> => shown'[b][w] = shown[b][w]
  BY <1>1, <1>4 DEF ChannelStockTypeOK, LevelAfter
<1>12. <<a, v>> \notin unsure' =>
         shown'[a][v] = IF v \in sync[s].linked /\ OnShopify(s) THEN sync[s].read ELSE shown[a][v]
  BY <1>1, <1>4 DEF ChannelStockTypeOK, LevelAfter, OnShopify
<1>13. <<a, v>> \notin unsure' =>
         /\ Beside(s, v) = {s} /\ sync[s].read >= sync[s].start[v]
         /\ \A q \in Syncs : sync[q].account = a /\ v \in Brought(q) => sync[s].read >= sync[q].start[v]
  BY <1>4, <1>6 DEF LevelsHold
<1>14. ASSUME NEW r \in Syncs, OnShopify(r)', NEW w \in Brought(r)',
              <<sync'[r].account, w>> \notin unsure'
       PROVE  shown'[sync'[r].account][w] >= sync'[r].start[w]
  <2>0. w \in StockVariants
    BY <1>8, SyncShapes, <1>10, <1>4 DEF Brought, SyncRows
  <2>1. CASE <<sync[r].account, w>> = <<a, v>>
    <3>1. /\ OnShopify(r) /\ OnShopify(s) /\ sync[r].account = a /\ w = v
          /\ <<a, v>> \notin unsure /\ <<a, v>> \notin unsure'
      BY <1>6, <1>10, <1>14, <2>1 DEF OnShopify
    <3>2. CASE v \in sync[s].linked
      <4>1. sync[s].read >= sync[r].start[v]
        BY <1>10, <1>13, <1>14, <3>1
      <4> QED BY <1>10, <1>12, <3>1, <3>2, <4>1
    <3>3. CASE v \notin sync[s].linked
      <4>1. v \in Brought(r)
        BY <1>10, <1>14, <3>1, <3>3
      <4>2. shown[a][v] >= sync[r].start[v]
        BY <3>1, <4>1 DEF LevelsHold
      <4> QED BY <1>10, <1>12, <3>1, <3>3, <4>2
    <3> QED BY <3>2, <3>3
  <2>2. CASE <<sync[r].account, w>> # <<a, v>>
    <3>1. w \in Brought(r) /\ <<sync[r].account, w>> \notin unsure /\ OnShopify(r)
      BY <1>6, <1>10, <1>14, <2>2
    <3>2. shown[sync[r].account][w] >= sync[r].start[w]
      BY <3>1 DEF LevelsHold
    <3> QED BY <1>10, <1>11, <2>0, <2>2, <3>2, SyncShapes
  <2> QED BY <2>1, <2>2
<1>15. ASSUME NEW r \in Syncs, NEW w \in StockVariants,
              r \in Beside(r, w)', <<sync'[r].account, w>> \notin unsure'
       PROVE  /\ Beside(r, w)' = {r}
              /\ sync'[r].read >= sync'[r].start[w]
              /\ \A q \in Syncs : sync'[q].account = sync'[r].account /\ w \in Brought(q)'
                                    => sync'[r].read >= sync'[q].start[w]
  <2>1. /\ r # s /\ sync'[r] = sync[r] /\ r \in Beside(r, w)
        /\ <<sync[r].account, w>> \notin unsure
    BY <1>2, <1>5, <1>6, <1>15 DEF Pushing, Beside
  <2>2. Beside(r, w) = {r}
    BY <2>1 DEF LevelsHold
  <2>3. ~(sync[r].account = a /\ w = v)
    BY <1>4, <2>1, <2>2 DEF Beside
  <2>4. Beside(r, w)' = {r}
    BY <1>2, <1>5, <1>15, <2>1, <2>2 DEF Pushing, Beside
  <2>5. ASSUME NEW q \in Syncs, sync'[q].account = sync'[r].account, w \in Brought(q)'
        PROVE  w \in Brought(q) /\ sync[q].account = sync[r].account
    BY <1>10, <2>1, <2>3, <2>5
  <2> QED BY <1>10, <2>1, <2>4, <2>5 DEF LevelsHold
<1>16. LevelsHold'
  BY <1>14, <1>15 DEF LevelsHold
<1> QED BY <1>8, <1>9, <1>16

\* Connections, sales, receipts and publications touch neither syncs nor levels.
LEMMA OthersKeepLevels ==
  ASSUME ChannelStockInv,
         \/ \E v \in StockVariants : ChangeStock(v)
         \/ \E a \in StockAccounts : ConnectAccount(a)
         \/ \E b \in StockAccounts, v \in StockVariants : SyncProduct(b, v) \/ EnterExternalId(b, v)
  PROVE  ChannelStockInv'
<1> USE DEF ChannelStockInv
<1>1. ASSUME NEW v \in StockVariants, ChangeStock(v) PROVE ChannelStockInv'
  <2>1. /\ stockVersion[v] < MaxChanges /\ stockVersion' = [stockVersion EXCEPT ![v] = @ + 1]
        /\ UNCHANGED <<connector, mapping, linked, shown, listings, sync, unsure>>
    BY <1>1 DEF ChangeStock
  <2>2. stockVersion[v] \in 0..MaxChanges /\ stockVersion[v] + 1 \in 0..MaxChanges
    BY <2>1, ChannelStockAssumption DEF ChannelStockTypeOK
  <2>3. ChannelStockTypeOK'
    BY <2>1, <2>2 DEF ChannelStockTypeOK
  <2>4. \A w \in StockVariants : stockVersion[w] <= stockVersion'[w]
    BY <2>1, <2>2, SyncShapes DEF ChannelStockTypeOK
  <2>5. SyncsSound'
    BY <2>1, <2>3, <2>4, SyncShapes DEF SyncsSound, ChannelStockTypeOK
  <2>6. LevelsHold'
    BY <2>1 DEF LevelsHold, Brought, OnShopify, Pushing, Beside
  <2> QED BY <2>3, <2>5, <2>6
<1>2. ASSUME NEW a \in StockAccounts, ConnectAccount(a) PROVE ChannelStockInv'
  <2>1. /\ connector[a] = "none"
        /\ connector' \in {[connector EXCEPT ![a] = "shopify"], [connector EXCEPT ![a] = "stub"]}
        /\ UNCHANGED <<stockVersion, mapping, linked, shown, listings, sync, unsure>>
    BY <1>2 DEF ConnectAccount
  <2>2. /\ connector' \in [StockAccounts -> {"none", "shopify", "stub"}]
        /\ \A b \in StockAccounts : connector[b] # "none" => connector'[b] = connector[b]
    BY <2>1 DEF ChannelStockTypeOK
  <2>3. ChannelStockTypeOK'
    BY <2>1, <2>2 DEF ChannelStockTypeOK
  <2>4. \A s \in Syncs : \/ Brought(s) = {}
                         \/ connector'[sync[s].account] = connector[sync[s].account]
    BY <2>2, SyncShapes DEF SyncsSound, Brought
  <2>5. SyncsSound'
    BY <2>1, <2>2, SyncShapes DEF SyncsSound
  <2>6. LevelsHold'
    BY <2>1, <2>4 DEF LevelsHold, Brought, OnShopify, Pushing, Beside
  <2> QED BY <2>3, <2>5, <2>6
<1>3. ASSUME NEW b \in StockAccounts, NEW v \in StockVariants,
             SyncProduct(b, v) \/ EnterExternalId(b, v)
      PROVE  ChannelStockInv'
  <2>1. UNCHANGED <<connector, stockVersion, shown, sync, unsure>>
    BY <1>3 DEF SyncProduct, EnterExternalId
  <2>2. /\ mapping' \in [StockAccounts -> [StockVariants -> Statuses]]
        /\ linked' \in SUBSET (StockAccounts \X StockVariants)
        /\ \A a \in StockAccounts, w \in StockVariants :
             <<a, w>> \in linked' => mapping'[a][w] # "none"
    <3>1. CASE UNCHANGED <<mapping, linked>>
      BY <3>1 DEF ChannelStockTypeOK, SyncsSound
    <3>2. PICK status \in {"pending", "synced", "error"} :
            \/ UNCHANGED <<mapping, linked>>
            \/ /\ mapping' = [mapping EXCEPT ![b][v] = status]
               /\ linked' \in {linked \ {<<b, v>>}, linked \cup {<<b, v>>}}
      <4>1. CASE SyncProduct(b, v)
        BY <4>1 DEF SyncProduct, UpsertPlatformProduct
      <4>2. CASE EnterExternalId(b, v)
        <5>1. mapping[b][v] \in Statuses
          BY DEF ChannelStockTypeOK
        <5>2. PICK status \in {"pending", "synced", "error"} :
                status = IF mapping[b][v] = "none" THEN "pending" ELSE mapping[b][v]
          BY <5>1 DEF Statuses
        <5> QED BY <4>2, <5>2 DEF EnterExternalId
      <4> QED BY <1>3, <4>1, <4>2
    <3>3. CASE /\ mapping' = [mapping EXCEPT ![b][v] = status]
               /\ linked' \in {linked \ {<<b, v>>}, linked \cup {<<b, v>>}}
      <4>1. /\ mapping' \in [StockAccounts -> [StockVariants -> Statuses]]
            /\ mapping'[b][v] = status
            /\ \A a \in StockAccounts, w \in StockVariants :
                 <<a, w>> # <<b, v>> => mapping'[a][w] = mapping[a][w]
        BY <3>3 DEF ChannelStockTypeOK, Statuses
      <4>2. linked' \in SUBSET (StockAccounts \X StockVariants)
        BY <3>3 DEF ChannelStockTypeOK
      <4> QED BY <3>3, <4>1, <4>2 DEF SyncsSound
    <3> QED BY <3>1, <3>2, <3>3
  <2>3. listings' \in [StockAccounts -> [StockVariants -> 0..MaxListings]]
    <3>1. listings[b][v] \in 0..MaxListings
      BY DEF ChannelStockTypeOK
    <3>2. listings[b][v] < MaxListings => listings[b][v] + 1 \in 0..MaxListings
      BY <3>1, ChannelStockAssumption
    <3>3. listings' = listings \/ PublishProduct(b, v)
      BY <1>3 DEF SyncProduct, EnterExternalId
    <3>4. CASE listings[b][v] < MaxListings /\ listings' = [listings EXCEPT ![b][v] = @ + 1]
      BY <3>2, <3>4 DEF ChannelStockTypeOK
    <3>5. CASE listings' = listings
      BY <3>5 DEF ChannelStockTypeOK
    <3> QED BY <3>3, <3>4, <3>5 DEF PublishProduct
  <2> QED
    BY <2>1, <2>2, <2>3
    DEF ChannelStockTypeOK, SyncsSound, LevelsHold, Brought, OnShopify, Pushing, Beside
<1> QED BY <1>1, <1>2, <1>3

\* Every step of stock, publications and syncs keeps ChannelStockInv.
THEOREM ChannelStockInductive ==
  ChannelStockInv /\ [ChannelStockNext]_channelStockVars => ChannelStockInv'
<1> SUFFICES ASSUME ChannelStockInv, [ChannelStockNext]_channelStockVars PROVE ChannelStockInv'
  OBVIOUS
<1>1. CASE UNCHANGED channelStockVars
  BY <1>1 DEF channelStockVars, ChannelStockInv, ChannelStockTypeOK, SyncsSound, LevelsHold, Brought, OnShopify, Pushing, Beside
<1> QED
  BY <1>1, OthersKeepLevels, QuietSyncKeeps, ReadStockKeeps, PushKeeps DEF ChannelStockNext

\* ChannelStockInv holds in every state.
THEOREM ChannelStockInvHolds == ChannelStockSpec => []ChannelStockInv
  BY ChannelStockInitSafe, ChannelStockInductive, PTL DEF ChannelStockSpec

\* A sync of a Shopify account that ended has brought every product with an
\* external id to a level as new as its start, for any number of accounts,
\* variants and syncs at a time (SyncInventory).
THEOREM SyncsBringLevels == ChannelStockSpec => []SyncBrings
<1>1. ChannelStockInv => SyncBrings
  BY DEF ChannelStockInv, SyncsSound, LevelsHold, Brought, OnShopify, SyncBrings
<1> QED
  BY <1>1, ChannelStockInvHolds, PTL

-----------------------------------------------------------------------------
(* Channel orders                                                          *)

\* The fields of orders and runs.
LEMMA OrderShapes ==
  ASSUME ChannelOrdersTypeOK
  PROVE  /\ \A o \in ExternalOrders : /\ externalOrder[o].placed \in Nat
                                      /\ externalOrder[o].open \in BOOLEAN
         /\ \A i \in Imports : import[i].todo \subseteq ExternalOrders
         /\ now \in Nat /\ lastFetch \in Nat /\ now \in 1..MaxTime
BY ChannelOrdersAssumption DEF ChannelOrdersTypeOK

LEMMA ChannelOrdersInitSafe == ChannelOrdersInit => ChannelOrdersInv
<1> SUFFICES ASSUME ChannelOrdersInit PROVE ChannelOrdersInv
  OBVIOUS
<1>1. ChannelOrdersTypeOK
  BY ChannelOrdersAssumption DEF ChannelOrdersInit, ChannelOrdersTypeOK
<1>2. FetchesSound
  BY DEF ChannelOrdersInit, FetchesSound
<1>3. NoOrderMissed
  BY DEF ChannelOrdersInit, NoOrderMissed
<1> QED BY <1>1, <1>2, <1>3 DEF ChannelOrdersInv

\* The platform: its clock, and orders that are placed and closed on it.
LEMMA PlatformKeeps ==
  ASSUME ChannelOrdersInv,
         ConnectPlatform \/ Tick \/ \E o \in ExternalOrders : PlaceOrder(o) \/ CloseOrder(o)
  PROVE  ChannelOrdersInv'
<1> USE DEF ChannelOrdersInv
<1>1. CASE ConnectPlatform
  <2>1. /\ channel' \in {"platform", "connected"}
        /\ UNCHANGED <<now, externalOrder, platformOrder, import, lastFetch, excused>>
    BY <1>1 DEF ConnectPlatform, InsertPlatform, InsertPlatformAccount
  <2> QED
    BY <2>1 DEF ChannelOrdersTypeOK, FetchesSound, NoOrderMissed
<1>2. CASE Tick
  <2>1. now' = now + 1 /\ now < MaxTime
        /\ UNCHANGED <<channel, externalOrder, platformOrder, import, lastFetch, excused>>
    BY <1>2 DEF Tick
  <2>2. now' \in 1..MaxTime /\ lastFetch' <= now'
    BY <2>1, OrderShapes, ChannelOrdersAssumption DEF FetchesSound
  <2> QED
    BY <2>1, <2>2 DEF ChannelOrdersTypeOK, FetchesSound, NoOrderMissed
<1>3. ASSUME NEW o \in ExternalOrders, PlaceOrder(o) PROVE ChannelOrdersInv'
  <2>1. /\ externalOrder[o].placed = 0
        /\ externalOrder' = [externalOrder EXCEPT ![o].placed = now]
        /\ UNCHANGED <<now, channel, platformOrder, import, lastFetch, excused>>
    BY <1>3 DEF PlaceOrder
  <2>2. ChannelOrdersTypeOK'
    BY <2>1 DEF ChannelOrdersTypeOK
  <2>3. FetchesSound'
    BY <2>1 DEF FetchesSound, ChannelOrdersTypeOK
  <2>4. externalOrder'[o].placed = now /\ \A p \in ExternalOrders \ {o} : externalOrder'[p] = externalOrder[p]
    BY <2>1 DEF ChannelOrdersTypeOK
  <2>5. ~(now \in 1..(lastFetch - 1))
    BY OrderShapes DEF FetchesSound
  <2>6. NoOrderMissed'
    BY <2>1, <2>4, <2>5 DEF NoOrderMissed
  <2> QED BY <2>2, <2>3, <2>6
<1>4. ASSUME NEW o \in ExternalOrders, CloseOrder(o) PROVE ChannelOrdersInv'
  <2>1. /\ externalOrder' = [externalOrder EXCEPT ![o].open = FALSE]
        /\ excused' = excused \cup {o}
        /\ UNCHANGED <<now, channel, platformOrder, import, lastFetch>>
    BY <1>4 DEF CloseOrder
  <2>2. ChannelOrdersTypeOK'
    BY <2>1 DEF ChannelOrdersTypeOK
  <2>3. \A p \in ExternalOrders \ {o} : externalOrder'[p] = externalOrder[p]
    BY <2>1 DEF ChannelOrdersTypeOK
  <2>4. FetchesSound'
    BY <2>1, <2>3 DEF FetchesSound
  <2>5. NoOrderMissed'
    BY <2>1, <2>3 DEF NoOrderMissed
  <2> QED BY <2>2, <2>4, <2>5
<1> QED
  BY <1>1, <1>2, <1>3, <1>4

\* The platform answers.  An order of the window is in the answer or excused;
\* one from before the window was there for the answer before, or is excused.
LEMMA FetchKeeps ==
  ASSUME ChannelOrdersInv, NEW i \in Imports, FetchOrders(i)
  PROVE  ChannelOrdersInv'
<1> USE DEF ChannelOrdersInv
<1>1. /\ import[i].pc = "new" /\ import[i].todo = {}
      /\ UNCHANGED <<now, channel, externalOrder, platformOrder>>
  BY DEF FetchOrders, FetchesSound
<1>2. CASE import' = [import EXCEPT ![i].pc = "over"] /\ UNCHANGED <<lastFetch, excused>>
  <2>1. ChannelOrdersTypeOK'
    BY <1>1, <1>2 DEF ChannelOrdersTypeOK
  <2>2. \A j \in Imports : import'[j].todo = import[j].todo /\ (import'[j].pc = "new" => import[j].pc = "new")
    BY <1>2 DEF ChannelOrdersTypeOK
  <2>3. FetchesSound' /\ NoOrderMissed'
    BY <1>1, <1>2, <2>2 DEF FetchesSound, NoOrderMissed
  <2> QED BY <2>1, <2>3
<1>3. ASSUME NEW orders \in Answers(Since),
             import' = [import EXCEPT ![i] = [pc |-> "fetched", todo |-> orders]],
             lastFetch' = now, excused' = excused \cup MissedInGap \cup (OpenSince(Since) \ orders)
      PROVE  ChannelOrdersInv'
  <2>1. orders \subseteq ExternalOrders
    BY DEF Answers, OpenSince
  <2>2. excused' \subseteq ExternalOrders /\ excused \subseteq excused'
    BY <1>3 DEF MissedInGap, OpenSince, ChannelOrdersTypeOK
  <2>3. lastFetch' \in 0..MaxTime /\ lastFetch' <= now'
    BY <1>1, <1>3, OrderShapes, ChannelOrdersAssumption
  <2>4. ChannelOrdersTypeOK'
    BY <1>1, <1>3, <2>1, <2>2, <2>3 DEF ChannelOrdersTypeOK
  <2>5. /\ import'[i].pc = "fetched" /\ import'[i].todo = orders
        /\ \A j \in Imports \ {i} : import'[j] = import[j]
    BY <1>3 DEF ChannelOrdersTypeOK
  <2>6. FetchesSound'
    BY <1>1, <2>2, <2>3, <2>5 DEF FetchesSound
  <2>7. ASSUME NEW o \in ExternalOrders \ excused', externalOrder[o].placed \in 1..(now - 1)
        PROVE  o \in platformOrder \/ \E j \in Imports : o \in import'[j].todo
    <3>1. externalOrder[o].open /\ o \notin excused
      BY <2>2, <2>7 DEF FetchesSound
    <3>2. externalOrder[o].placed # 0 /\ externalOrder[o].placed \in Nat /\ Since \in Int
      BY <2>7, OrderShapes, ChannelOrdersAssumption DEF Since
    <3>3. CASE externalOrder[o].placed >= Since
      <4>1. o \in OpenSince(Since)
        BY <3>1, <3>2, <3>3 DEF OpenSince
      <4> QED BY <4>1, <2>5, <2>7, <1>3
    <3>4. CASE externalOrder[o].placed < Since
      <4>1. ~(lastFetch = 0 \/ lastFetch < Since)
        BY <1>3, <2>7, <3>2, <3>4 DEF MissedInGap, Since
      <4>2. externalOrder[o].placed \in 1..(lastFetch - 1)
        BY <3>2, <3>4, <4>1, OrderShapes
      <4>3. o \in platformOrder \/ \E j \in Imports : o \in import[j].todo
        BY <3>1, <4>2 DEF NoOrderMissed
      <4> QED BY <4>3, <2>5, <1>1
    <3> QED BY <3>2, <3>3, <3>4
  <2>8. NoOrderMissed'
    BY <1>1, <1>3, <2>7 DEF NoOrderMissed
  <2> QED BY <2>4, <2>6, <2>8
<1> QED
  BY <1>2, <1>3 DEF FetchOrders

\* What a run has to do is done, given up or excused.
LEMMA ImportRunKeeps ==
  ASSUME ChannelOrdersInv, NEW i \in Imports,
         EndImport(i) \/ AbandonImport(i) \/ \E o \in ExternalOrders : ImportOrder(i, o)
  PROVE  ChannelOrdersInv'
<1> USE DEF ChannelOrdersInv
<1> DEFINE Runs == [pc : {"new", "fetched", "over"}, todo : SUBSET ExternalOrders]
<1>1. /\ UNCHANGED <<now, channel, externalOrder, lastFetch>>
      /\ \A o \in import[i].todo : o \in import'[i].todo \cup platformOrder' \cup excused'
      /\ platformOrder \subseteq platformOrder' /\ excused \subseteq excused'
      /\ platformOrder' \subseteq ExternalOrders /\ excused' \subseteq ExternalOrders
      /\ \E run \in Runs : run.pc # "new" /\ import' = [import EXCEPT ![i] = run]
  <2>0. import \in [Imports -> Runs] /\ import[i] \in Runs
    BY DEF ChannelOrdersTypeOK
  <2>1. CASE EndImport(i)
    <3> DEFINE run == [import[i] EXCEPT !.pc = "over"]
    <3>1. run \in Runs /\ run.pc = "over" /\ run.todo = import[i].todo
      BY <2>0
    <3>2. import' = [import EXCEPT ![i] = run]
      BY <2>1 DEF EndImport
    <3> HIDE DEF run
    <3> QED BY <2>0, <2>1, <3>1, <3>2 DEF EndImport, ChannelOrdersTypeOK
  <2>2. CASE AbandonImport(i)
    <3> DEFINE run == [pc |-> "over", todo |-> {}]
    <3>1. run \in Runs /\ run.pc = "over"
      OBVIOUS
    <3>2. import' = [import EXCEPT ![i] = run]
      BY <2>2 DEF AbandonImport
    <3> HIDE DEF run
    <3> QED BY <2>0, <2>2, <3>1, <3>2 DEF AbandonImport, ChannelOrdersTypeOK
  <2>3. ASSUME NEW o \in ExternalOrders, ImportOrder(i, o)
        PROVE  /\ UNCHANGED <<now, channel, externalOrder, lastFetch>>
               /\ \A p \in import[i].todo : p \in import'[i].todo \cup platformOrder' \cup excused'
               /\ platformOrder \subseteq platformOrder' /\ excused \subseteq excused'
               /\ platformOrder' \subseteq ExternalOrders /\ excused' \subseteq ExternalOrders
               /\ \E run \in Runs : run.pc # "new" /\ import' = [import EXCEPT ![i] = run]
    <3> DEFINE run == [import[i] EXCEPT !.todo = import[i].todo \ {o}]
    <3>1. run \in Runs /\ run.pc = "fetched" /\ run.todo = import[i].todo \ {o}
      BY <2>0, <2>3 DEF ImportOrder
    <3>2. /\ UNCHANGED <<now, channel, externalOrder, lastFetch>>
          /\ import' = [import EXCEPT ![i] = run]
          /\ \/ platformOrder' = platformOrder \cup {o} /\ excused' = excused
             \/ platformOrder' = platformOrder /\ excused' = excused \cup {o}
      BY <2>3 DEF ImportOrder, UpsertPlatformOrder
    <3> HIDE DEF run
    <3>3. import'[i] = run
      BY <2>0, <3>2
    <3> QED BY <3>1, <3>2, <3>3 DEF ChannelOrdersTypeOK
  <2> QED BY <2>1, <2>2, <2>3
<1>2. PICK run \in Runs : run.pc # "new" /\ import' = [import EXCEPT ![i] = run]
  BY <1>1
<1>3. ChannelOrdersTypeOK'
  BY <1>1, <1>2 DEF ChannelOrdersTypeOK
<1>4. import'[i].pc # "new" /\ \A j \in Imports \ {i} : import'[j] = import[j]
  BY <1>2 DEF ChannelOrdersTypeOK
<1>5. FetchesSound'
  BY <1>1, <1>4 DEF FetchesSound
<1>6. NoOrderMissed'
  BY <1>1, <1>4 DEF NoOrderMissed
<1> QED BY <1>3, <1>5, <1>6

\* Every step of the platform and the import keeps ChannelOrdersInv.
THEOREM ChannelOrdersInductive ==
  ChannelOrdersInv /\ [ChannelOrdersNext]_channelOrdersVars => ChannelOrdersInv'
<1> SUFFICES ASSUME ChannelOrdersInv, [ChannelOrdersNext]_channelOrdersVars PROVE ChannelOrdersInv'
  OBVIOUS
<1>1. CASE UNCHANGED channelOrdersVars
  BY <1>1 DEF channelOrdersVars, ChannelOrdersInv, ChannelOrdersTypeOK, FetchesSound, NoOrderMissed
<1> QED
  BY <1>1, PlatformKeeps, FetchKeeps, ImportRunKeeps DEF ChannelOrdersNext

\* ChannelOrdersInv holds in every state.
THEOREM ChannelOrdersInvHolds == ChannelOrdersSpec => []ChannelOrdersInv
  BY ChannelOrdersInitSafe, ChannelOrdersInductive, PTL DEF ChannelOrdersSpec

\* No order falls between two runs of the import, for any number of orders and
\* runs, any look-back and any limit (HandleImportChannelOrders, ImportOrders).
THEOREM NoOrderFallsBetween == ChannelOrdersSpec => []NoOrderMissed
<1>1. ChannelOrdersInv => NoOrderMissed
  BY DEF ChannelOrdersInv
<1> QED
  BY <1>1, ChannelOrdersInvHolds, PTL

-----------------------------------------------------------------------------
(* Point of sale                                                           *)

PaymentRows == [pc : {"new", "stamped", "inserted", "failed", "paid", "silent"},
                order : PosOrders, amount : 0..MaxAmount, change : Nat]

LEMMA PosShapes ==
  ASSUME PosTypeOK
  PROVE  /\ payment \in [Payments -> PaymentRows] /\ \A p \in Payments : payment[p] \in PaymentRows
         /\ Payments \subseteq Nat /\ NPayments \in Nat /\ MaxAmount \in Nat /\ MaxShelfPrice \in Nat
         /\ \A o \in PosOrders : posOrder[o] \in Nat
         /\ \A p \in Payments : /\ payment[p].amount \in Nat /\ payment[p].change \in Nat
                                /\ payment[p].order \in PosOrders
<1>1. payment \in [Payments -> PaymentRows]
  BY DEF PosTypeOK, PaymentRows
<1>2. Payments \subseteq Nat /\ NPayments \in Nat /\ MaxAmount \in Nat /\ MaxShelfPrice \in Nat
  BY PosAssumption DEF Payments
<1>3. \A o \in PosOrders : posOrder[o] \in Nat
  BY <1>2 DEF PosTypeOK
<1>4. \A p \in Payments : /\ payment[p] \in PaymentRows /\ payment[p].amount \in Nat
                          /\ payment[p].change \in Nat /\ payment[p].order \in PosOrders
  BY <1>1, <1>2 DEF PaymentRows
<1> QED BY <1>1, <1>2, <1>3, <1>4

\* The change is nothing, or what the amount exceeds the total by.
LEMMA ChangeBounds ==
  ASSUME PosTypeOK, NEW o \in PosOrders, NEW amount \in Nat
  PROVE  /\ ChangeDue(o, amount) \in Nat
         /\ amount <= posOrder[o] => ChangeDue(o, amount) = 0
         /\ amount > posOrder[o] => ChangeDue(o, amount) = amount - posOrder[o]
<1> DEFINE x == amount - posOrder[o]
<1>1. posOrder[o] \in Nat /\ x \in Int
  BY PosShapes
<1>2. (CHOOSE m \in {0, x} : \A y \in {0, x} : y <= m) = IF x > 0 THEN x ELSE 0
  <2>1. CASE x > 0
    <3>1. \A m \in {0, x} : (\A y \in {0, x} : y <= m) <=> m = x
      BY <1>1, <2>1
    <3> HIDE DEF x
    <3> QED BY <2>1, <3>1
  <2>2. CASE ~(x > 0)
    <3>1. \A m \in {0, x} : (\A y \in {0, x} : y <= m) <=> m = 0
      BY <1>1, <2>2
    <3> HIDE DEF x
    <3> QED BY <2>2, <3>1
  <2> QED BY <2>1, <2>2
<1>3. ChangeDue(o, amount) = IF x > 0 THEN x ELSE 0
  BY <1>2 DEF ChangeDue, Max
<1> QED BY <1>1, <1>3

LEMMA PosInitSafe == PosInit => PosInv
<1> SUFFICES ASSUME PosInit PROVE PosInv
  OBVIOUS
<1>1. \A p \in Payments : payment[p].pc = "new" /\ payment[p].change = 0
  BY DEF PosInit, NewPayment
<1>2. PosTypeOK
  <2>1. 1 \in PosOrders /\ MaxAmount \in Nat /\ MaxShelfPrice \in Nat
    BY PosAssumption DEF PosOrders
  <2>2. NewPayment \in PaymentRows
    BY <2>1 DEF NewPayment, PaymentRows
  <2>3. payment \in [Payments -> PaymentRows]
    BY <2>2 DEF PosInit
  <2>4. posOrder \in [PosOrders -> 0..MaxShelfPrice] /\ scanned \in [price : 0..MaxShelfPrice, stock : 0..1]
    BY <2>1 DEF PosInit
  <2> QED BY <2>3, <2>4 DEF PosInit, PosTypeOK, PaymentRows
<1>3. StampsInOrder /\ ChangeOfOne /\ PendingIsLast
  BY <1>1 DEF StampsInOrder, ChangeOfOne, ChangeOf, PendingIsLast, Pending
<1> QED BY <1>2, <1>3 DEF PosInv

\* The payments of an order do not move while no row of theirs does.
LEMMA PaymentSetsKept ==
  ASSUME payment' = payment, NEW o
  PROVE  Pending(o)' = Pending(o) /\ GetPaymentsByOrderID(o)' = GetPaymentsByOrderID(o)
BY DEF Pending, GetPaymentsByOrderID

\* Sessions, the shelf and the scan.
LEMMA ShelfKeeps ==
  ASSUME PosInv, UNCHANGED <<posOrder, payment, crowded>>, PosTypeOK'
  PROVE  PosInv'
<1>1. PendingIsLast'
  BY PaymentSetsKept DEF PosInv, PendingIsLast
<1>2. StampsInOrder'
  BY DEF PosInv, StampsInOrder
<1>3. ChangeOfOne'
  BY DEF PosInv, ChangeOfOne, ChangeOf, ChangeDue
<1> QED BY <1>1, <1>2, <1>3 DEF PosInv

LEMMA CreatePOSOrderKeeps ==
  ASSUME PosInv, NEW o \in PosOrders, CreatePOSOrder(o)
  PROVE  PosInv'
<1> USE DEF PosInv
<1>1. posOrder' = [posOrder EXCEPT ![o] = shelf.price] /\ posOrder[o] = 0
  BY DEF CreatePOSOrder
<1>2. UNCHANGED <<posSession, scanned, payment, crowded>>
  BY DEF CreatePOSOrder
<1>3. shelf.price \in 0..MaxShelfPrice /\ shelf.price # 0
  BY DEF PosTypeOK, CreatePOSOrder, NoPrice
<1>4. posOrder' \in [PosOrders -> 0..MaxShelfPrice]
  BY <1>1, <1>3 DEF PosTypeOK
<1>5. shelf' \in [sold : BOOLEAN, price : 0..MaxShelfPrice, stock : 0..1]
  BY DEF PosTypeOK, CreatePOSOrder
<1>6. PosTypeOK'
  BY <1>2, <1>4, <1>5 DEF PosTypeOK
<1>7. PendingIsLast'
  BY <1>2, PaymentSetsKept DEF PendingIsLast
<1>8. StampsInOrder'
  BY <1>2 DEF StampsInOrder
<1>9. ChangeOfOne'
  <2> SUFFICES ASSUME NEW p \in Payments PROVE ChangeOf(payment[p])'
    BY DEF ChangeOfOne
  <2> DEFINE r == payment[p]
  <2>1. payment'[p] = r /\ r.order \in PosOrders
    BY <1>2, PosShapes
  <2>2. /\ r.pc \in {"inserted", "paid", "silent"} => posOrder[r.order] # 0
        /\ r.change = IF r.pc = "paid" THEN ChangeDue(r.order, r.amount) ELSE 0
    BY DEF ChangeOfOne, ChangeOf
  <2>3. r.order # o => posOrder'[r.order] = posOrder[r.order]
    BY <1>1, <2>1 DEF PosTypeOK
  <2>4. posOrder'[o] # 0
    BY <1>1, <1>3 DEF PosTypeOK
  <2>5. r.pc = "paid" => ChangeDue(r.order, r.amount)' = ChangeDue(r.order, r.amount)
    BY <1>1, <1>2, <2>2, <2>3 DEF ChangeDue
  <2>6. /\ r.pc \in {"inserted", "paid", "silent"} => posOrder'[r.order] # 0
        /\ r.change = IF r.pc = "paid" THEN ChangeDue(r.order, r.amount)' ELSE 0
    <3> HIDE DEF r
    <3> QED BY <2>2, <2>3, <2>4, <2>5
  <2> QED BY <2>1, <2>6 DEF ChangeOf
<1> QED BY <1>6, <1>7, <1>8, <1>9

LEMMA PayOrderKeeps ==
  ASSUME PosInv, NEW p \in Payments, NEW o \in PosOrders, NEW amount \in 1..MaxAmount,
         PayOrder(p, o, amount)
  PROVE  PosInv'
<1> USE DEF PosInv
<1> DEFINE row == [pc |-> "stamped", order |-> o, amount |-> amount, change |-> 0]
<1>1. payment' = [payment EXCEPT ![p] = row]
  BY DEF PayOrder
<1>2. UNCHANGED <<posSession, shelf, scanned, posOrder>>
  BY DEF PayOrder
<1>3. row \in PaymentRows /\ row.pc = "stamped" /\ row.order = o /\ row.change = 0
  BY PosShapes DEF PaymentRows
<1>4. payment[p].pc = "new" /\ \A n \in 1..(p - 1) : payment[n].pc # "new"
  BY DEF PayOrder
<1>5. crowded' = IF Pending(o) # {} THEN crowded \cup {o} ELSE crowded
  BY DEF PayOrder
<1> HIDE DEF row
<1>6. payment'[p] = row /\ \A q \in Payments : q # p => payment'[q] = payment[q]
  BY <1>1, PosShapes
<1>7. PosTypeOK'
  <2>1. payment' \in [Payments -> PaymentRows]
    BY <1>1, <1>3, PosShapes
  <2>2. crowded' \in SUBSET PosOrders
    BY <1>5 DEF PosTypeOK
  <2> QED BY <1>2, <2>1, <2>2 DEF PosTypeOK, PaymentRows
<1>8. StampsInOrder'
  <2> SUFFICES ASSUME NEW m \in Payments, NEW q \in Payments, payment'[m].pc = "new", m < q
               PROVE  payment'[q].pc = "new"
    BY DEF StampsInOrder
  <2>1. m # p /\ payment[m].pc = "new"
    BY <1>3, <1>6
  <2>2. payment[q].pc = "new"
    BY <2>1 DEF StampsInOrder
  <2>3. q # p
    BY <1>4, <2>1 DEF Payments
  <2> QED BY <1>6, <2>2, <2>3
<1>9. ChangeOfOne'
  <2> SUFFICES ASSUME NEW q \in Payments PROVE ChangeOf(payment[q])'
    BY DEF ChangeOfOne
  <2>1. CASE q = p
    BY <1>3, <1>6, <2>1 DEF ChangeOf
  <2>2. CASE q # p
    BY <1>2, <1>6, <2>2 DEF ChangeOfOne, ChangeOf, ChangeDue
  <2> QED BY <2>1, <2>2
<1>10. PendingIsLast'
  <2> SUFFICES ASSUME NEW b \in PosOrders \ crowded', NEW x \in Pending(b)'
               PROVE  Pending(b)' = {x} /\ \A q \in GetPaymentsByOrderID(b)' : q < x
    BY DEF PendingIsLast
  <2>1. GetPaymentsByOrderID(b)' = GetPaymentsByOrderID(b)
    BY <1>3, <1>4, <1>6 DEF GetPaymentsByOrderID
  <2>2. Pending(b)' = Pending(b) \cup (IF b = o THEN {p} ELSE {})
    BY <1>3, <1>4, <1>6 DEF Pending
  <2>3. CASE b = o
    <3>1. Pending(o) = {} /\ Pending(b)' = {p} /\ x = p
      BY <1>5, <2>2, <2>3
    <3>2. \A q \in GetPaymentsByOrderID(b) : q < p
      <4> SUFFICES ASSUME NEW q \in GetPaymentsByOrderID(b) PROVE q < p
        OBVIOUS
      <4>1. q \in Payments /\ payment[q].pc # "new"
        BY DEF GetPaymentsByOrderID
      <4>2. ~(p < q) /\ q # p
        BY <1>4, <4>1 DEF StampsInOrder
      <4> QED BY <4>1, <4>2, PosShapes
    <3> QED BY <2>1, <3>1, <3>2
  <2>4. CASE b # o
    <3>1. b \in PosOrders \ crowded /\ Pending(b)' = Pending(b)
      BY <1>5, <2>2, <2>4
    <3> QED BY <2>1, <3>1 DEF PendingIsLast
  <2> QED BY <2>3, <2>4
<1> QED BY <1>7, <1>8, <1>9, <1>10

\* A request that is under way moves on: inserted, failed, answered or silent.
LEMMA SettlementKeeps ==
  ASSUME PosInv, NEW p \in Payments, NEW row \in PaymentRows,
         payment' = [payment EXCEPT ![p] = row],
         UNCHANGED <<posSession, shelf, scanned, posOrder, crowded>>,
         payment[p].pc \in {"stamped", "inserted"},
         row.pc \in {"inserted", "failed", "paid", "silent"},
         row.order = payment[p].order,
         row.pc \in {"inserted", "paid", "silent"} => posOrder[row.order] # 0,
         row.change = IF row.pc = "paid" THEN ChangeDue(row.order, row.amount) ELSE 0
  PROVE  PosInv'
<1> USE DEF PosInv
<1>1. payment'[p] = row /\ \A q \in Payments : q # p => payment'[q] = payment[q]
  BY PosShapes
<1>2. PosTypeOK'
  <2>1. payment' \in [Payments -> PaymentRows]
    BY PosShapes
  <2> QED BY <2>1 DEF PosTypeOK, PaymentRows
<1>3. StampsInOrder'
  BY <1>1 DEF StampsInOrder
<1>4. ChangeOfOne'
  <2> SUFFICES ASSUME NEW q \in Payments PROVE ChangeOf(payment[q])'
    BY DEF ChangeOfOne
  <2>1. CASE q = p
    BY <1>1, <2>1 DEF ChangeOf, ChangeDue
  <2>2. CASE q # p
    BY <1>1, <2>2 DEF ChangeOfOne, ChangeOf, ChangeDue
  <2> QED BY <2>1, <2>2
<1>5. PendingIsLast'
  <2> SUFFICES ASSUME NEW b \in PosOrders \ crowded, NEW x \in Pending(b)'
               PROVE  Pending(b)' = {x} /\ \A q \in GetPaymentsByOrderID(b)' : q < x
    BY DEF PendingIsLast
  <2>1. x # p /\ x \in Pending(b) /\ Pending(b)' \subseteq Pending(b)
    BY <1>1 DEF Pending
  <2>2. Pending(b) = {x} /\ \A q \in GetPaymentsByOrderID(b) : q < x
    BY <2>1 DEF PendingIsLast
  <2>3. \A q \in GetPaymentsByOrderID(b)' : q \in GetPaymentsByOrderID(b) \cup Pending(b)
    BY <1>1 DEF GetPaymentsByOrderID, Pending
  <2>4. p \notin Pending(b)
    BY <2>1, <2>2
  <2>5. \A q \in GetPaymentsByOrderID(b)' : q # x
    BY <1>1, <2>1 DEF GetPaymentsByOrderID, Pending
  <2> QED BY <2>1, <2>2, <2>3, <2>5
<1> QED BY <1>2, <1>3, <1>4, <1>5

LEMMA InsertPaymentKeeps ==
  ASSUME PosInv, NEW p \in Payments, InsertPayment(p)
  PROVE  PosInv'
<1> DEFINE row == [payment[p] EXCEPT !.pc = IF posOrder[payment[p].order] # 0 THEN "inserted" ELSE "failed"]
<1>1. PosTypeOK /\ payment[p].pc = "stamped" /\ payment[p].change = 0
  BY DEF PosInv, InsertPayment, ChangeOfOne, ChangeOf
<1>2. payment' = [payment EXCEPT ![p] = row]
  BY DEF InsertPayment
<1>3. UNCHANGED <<posSession, shelf, scanned, posOrder, crowded>>
  BY DEF InsertPayment
<1>4. /\ row \in PaymentRows /\ row.order = payment[p].order /\ row.change = 0
      /\ row.pc = IF posOrder[payment[p].order] # 0 THEN "inserted" ELSE "failed"
  BY <1>1, PosShapes DEF PaymentRows
<1> HIDE DEF row
<1> QED BY <1>1, <1>2, <1>3, <1>4, SettlementKeeps

LEMMA FailPaymentKeeps ==
  ASSUME PosInv, NEW p \in Payments, FailPayment(p)
  PROVE  PosInv'
<1> DEFINE row == [payment[p] EXCEPT !.pc = "failed"]
<1>1. PosTypeOK /\ payment[p].pc = "stamped" /\ payment[p].change = 0
  BY DEF PosInv, FailPayment, ChangeOfOne, ChangeOf
<1>2. payment' = [payment EXCEPT ![p] = row]
  BY DEF FailPayment
<1>3. UNCHANGED <<posSession, shelf, scanned, posOrder, crowded>>
  BY DEF FailPayment
<1>4. row \in PaymentRows /\ row.order = payment[p].order /\ row.change = 0 /\ row.pc = "failed"
  BY <1>1, PosShapes DEF PaymentRows
<1> HIDE DEF row
<1> QED BY <1>1, <1>2, <1>3, <1>4, SettlementKeeps

LEMMA RecordPaymentKeeps ==
  ASSUME PosInv, NEW p \in Payments, RecordPayment(p)
  PROVE  PosInv'
<1> DEFINE due == ChangeDue(payment[p].order, payment[p].amount)
           row == [payment[p] EXCEPT !.pc = "paid", !.change = due]
<1>1. PosTypeOK /\ payment[p].pc = "inserted" /\ posOrder[payment[p].order] # 0
  BY DEF PosInv, RecordPayment, ChangeOfOne, ChangeOf
<1>2. payment' = [payment EXCEPT ![p] = row]
  BY DEF RecordPayment
<1>3. UNCHANGED <<posSession, shelf, scanned, posOrder, crowded>>
  BY DEF RecordPayment
<1>4. due \in Nat
  BY <1>1, PosShapes, ChangeBounds
<1>5. /\ row \in PaymentRows /\ row.order = payment[p].order /\ row.amount = payment[p].amount
      /\ row.change = due /\ row.pc = "paid"
  <2> HIDE DEF due
  <2> QED BY <1>1, <1>4, PosShapes DEF PaymentRows
<1>6. row.change = ChangeDue(row.order, row.amount)
  BY <1>5
<1> HIDE DEF row, due
<1> QED BY <1>1, <1>2, <1>3, <1>5, <1>6, SettlementKeeps

LEMMA LoseReceiptKeeps ==
  ASSUME PosInv, NEW p \in Payments, LoseReceipt(p)
  PROVE  PosInv'
<1> DEFINE row == [payment[p] EXCEPT !.pc = "silent"]
<1>1. /\ PosTypeOK /\ payment[p].pc = "inserted" /\ payment[p].change = 0
      /\ posOrder[payment[p].order] # 0
  BY DEF PosInv, LoseReceipt, ChangeOfOne, ChangeOf
<1>2. payment' = [payment EXCEPT ![p] = row]
  BY DEF LoseReceipt
<1>3. UNCHANGED <<posSession, shelf, scanned, posOrder, crowded>>
  BY DEF LoseReceipt
<1>4. row \in PaymentRows /\ row.order = payment[p].order /\ row.change = 0 /\ row.pc = "silent"
  BY <1>1, PosShapes DEF PaymentRows
<1> HIDE DEF row
<1> QED BY <1>1, <1>2, <1>3, <1>4, SettlementKeeps

\* Every step of the point of sale keeps PosInv.
THEOREM PosInductive == PosInv /\ [PosNext]_posVars => PosInv'
<1> SUFFICES ASSUME PosInv, [PosNext]_posVars PROVE PosInv'
  OBVIOUS
<1>1. ASSUME NEW s \in PosSessions, OpenSession(s) PROVE PosInv'
  <2>1. PosTypeOK'
    BY <1>1 DEF PosInv, PosTypeOK, OpenSession, InsertSession
  <2> QED BY <1>1, <2>1, ShelfKeeps DEF OpenSession
<1>2. ASSUME NEW s \in PosSessions, CloseSession(s) PROVE PosInv'
  <2>1. PosTypeOK'
    BY <1>2 DEF PosInv, PosTypeOK, CloseSession
  <2> QED BY <1>2, <2>1, ShelfKeeps DEF CloseSession
<1>3. CASE ChangeShelf
  <2>1. \A tag \in 1..MaxShelfPrice : tag \in 0..MaxShelfPrice
    BY PosAssumption
  <2>2. UNCHANGED <<posSession, scanned, posOrder, payment, crowded>>
    BY <1>3 DEF ChangeShelf
  <2>3. shelf' \in [sold : BOOLEAN, price : 0..MaxShelfPrice, stock : 0..1]
    <3>1. shelf \in [sold : BOOLEAN, price : 0..MaxShelfPrice, stock : 0..1]
      BY DEF PosInv, PosTypeOK
    <3>2. CASE \E price \in 1..MaxShelfPrice : shelf' = [shelf EXCEPT !.price = price]
      BY <2>1, <3>1, <3>2
    <3>3. CASE shelf' = [shelf EXCEPT !.sold = ~@]
      BY <3>1, <3>3
    <3> QED
      BY <1>3, <3>2, <3>3 DEF ChangeShelf
  <2>4. PosTypeOK'
    BY <2>2, <2>3 DEF PosInv, PosTypeOK
  <2> QED BY <1>3, <2>2, <2>4, ShelfKeeps DEF ChangeShelf
<1>4. CASE ScanBarcode
  <2>1. PosTypeOK'
    BY <1>4 DEF PosInv, PosTypeOK, ScanBarcode, GetPOSChannelPriceForVariant, GetAvailableStockForVariant
  <2> QED BY <1>4, <2>1, ShelfKeeps DEF ScanBarcode
<1>5. CASE UNCHANGED posVars
  <2>1. PosTypeOK'
    BY <1>5 DEF PosInv, PosTypeOK, posVars
  <2> QED BY <1>5, <2>1, ShelfKeeps DEF posVars
<1> QED BY <1>1, <1>2, <1>3, <1>4, <1>5, CreatePOSOrderKeeps, PayOrderKeeps, InsertPaymentKeeps,
           FailPaymentKeeps, RecordPaymentKeeps, LoseReceiptKeeps DEF PosNext

\* PosInv holds in every state.
THEOREM PosInvHolds == PosSpec => []PosInv
  BY PosInitSafe, PosInductive, PTL DEF PosSpec

\* However an order is paid, the change handed out stays within what was paid
\* above its total (buildReceipt).
THEOREM ChangeIsCovered == PosSpec => []ChangeCovered
<1>1. PosInv => ChangeCovered
  <2> SUFFICES ASSUME PosInv, NEW o \in PosOrders
               PROVE  OverOrder([p \in Payments |-> payment[p].change], o) <=
                        Max({0, OverOrder([p \in Payments |-> payment[p].amount], o) - posOrder[o]})
    BY DEF ChangeCovered
  <2> USE DEF PosInv
  <2> DEFINE rows == GetPaymentsByOrderID(o)
             g == [p \in Payments |-> IF p \in rows THEN payment[p].amount ELSE 0]
             h == [p \in Payments |-> IF p \in rows THEN payment[p].change ELSE 0]
             total == posOrder[o]
             paid == SumTo(g, NPayments)
             handed == SumTo(h, NPayments)
  <2>1. /\ OverOrder([p \in Payments |-> payment[p].amount], o) = paid
        /\ OverOrder([p \in Payments |-> payment[p].change], o) = handed
    <3>1. /\ [p \in Payments |-> IF p \in rows THEN [q \in Payments |-> payment[q].amount][p] ELSE 0] = g
          /\ [p \in Payments |-> IF p \in rows THEN [q \in Payments |-> payment[q].change][p] ELSE 0] = h
      OBVIOUS
    <3> QED BY <3>1 DEF OverOrder
  <2>2. \A p \in Payments : g[p] \in Nat /\ h[p] \in Nat
    BY PosShapes
  <2>3. NPayments \in Nat /\ Payments = 1..NPayments /\ total \in Nat
    BY PosShapes DEF Payments
  <2>4. \A p \in rows : payment[p].amount \in Nat /\ payment[p].order = o /\ p \in Payments
    BY PosShapes DEF GetPaymentsByOrderID
  <2>5. \A p \in rows : \/ payment[p].change = 0
                        \/ payment[p].change = payment[p].amount - total /\ payment[p].amount > total
    <3> SUFFICES ASSUME NEW p \in rows, payment[p].change # 0
                 PROVE  payment[p].change = payment[p].amount - total /\ payment[p].amount > total
      OBVIOUS
    <3>1. payment[p].change = ChangeDue(o, payment[p].amount)
      BY <2>4 DEF ChangeOfOne, ChangeOf
    <3>2. payment[p].amount \in Nat /\ posOrder[o] \in Nat
      BY <2>3, <2>4
    <3>3. payment[p].amount > posOrder[o]
      BY <3>1, <3>2, ChangeBounds
    <3>4. payment[p].change = payment[p].amount - posOrder[o]
      BY <3>1, <3>2, <3>3, ChangeBounds
    <3> QED BY <3>3, <3>4
  <2>6. \A p \in Payments : h[p] = 0 \/ (h[p] = g[p] - total /\ g[p] > total)
    BY <2>5
  <2>7. paid \in Nat /\ handed \in Nat
    <3> HIDE DEF g, h
    <3> QED BY <2>2, <2>3, SumToType
  <2> HIDE DEF g, h, total
  <2>8. handed <= 0 \/ handed <= paid - total
    <3>1. CASE \A p \in Payments : h[p] = 0
      BY <2>3, <2>7, <3>1, SumToZero
    <3>2. CASE \E k \in Payments : h[k] # 0
      <4>1. PICK k \in Payments : h[k] # 0
        BY <3>2
      <4> DEFINE g2 == [p \in Payments |-> IF p = k THEN h[k] ELSE g[p]]
                 d == [p \in Payments |-> IF p = k THEN total ELSE 0]
      <4>2. h[k] = g[k] - total
        BY <2>6, <4>1
      <4>3. \A p \in Payments : g2[p] \in Int /\ d[p] \in Int /\ g[p] = g2[p] + d[p]
        BY <2>2, <2>3, <4>2
      <4>4. \A p \in Payments : h[p] <= g2[p]
        BY <2>2, <2>3, <2>6
      <4>5. d[k] = total /\ \A p \in Payments : p # k => d[p] = 0
        OBVIOUS
      <4> HIDE DEF g2, d
      <4>6. SumTo(g, NPayments) = SumTo(g2, NPayments) + SumTo(d, NPayments)
        BY <2>3, <4>3, SumToAdd
      <4>7. SumTo(d, NPayments) = total
        BY <2>3, <4>5, SumToOne
      <4>8. handed <= SumTo(g2, NPayments)
        BY <2>2, <2>3, <4>3, <4>4, SumToMonotone
      <4>9. SumTo(g2, NPayments) \in Int
        BY <2>3, <4>3, SumToType
      <4> QED BY <2>3, <2>7, <4>6, <4>7, <4>8, <4>9
    <3> QED BY <3>1, <3>2
  <2> DEFINE x == paid - total
  <2>9. x \in Int
    BY <2>3, <2>7
  <2>10. Max({0, x}) \in Int /\ 0 <= Max({0, x}) /\ x <= Max({0, x})
    <3> HIDE DEF x
    <3>1. PICK m \in {0, x} : \A y \in {0, x} : y <= m
      BY <2>9
    <3>2. Max({0, x}) \in {0, x} /\ \A y \in {0, x} : y <= Max({0, x})
      BY <3>1 DEF Max
    <3> QED BY <2>9, <3>2
  <2>11. handed <= Max({0, x})
    <3>1. handed <= 0 \/ handed <= x
      BY <2>8
    <3>2. handed \in Int
      BY <2>7
    <3> HIDE DEF x, handed
    <3> QED BY <2>9, <2>10, <3>1, <3>2
  <2>12. Max({0, paid - posOrder[o]}) = Max({0, x})
    BY DEF total
  <2> QED BY <2>1, <2>11, <2>12
<1> QED BY <1>1, PosInvHolds, PTL

\* Every step leaves a receipt that can be printed showing what it showed
\* (GetReceiptHTML).
THEOREM ReprintIsStable == PosSpec => ReprintStable
<1>1. ASSUME PosInv, [PosNext]_posVars, NEW o \in PosOrders \ crowded, GetPaymentsByOrderID(o) # {}
      PROVE  GetReceiptHTML(o)' = GetReceiptHTML(o)
  <2> DEFINE rows == GetPaymentsByOrderID(o)
  <2> USE DEF PosInv
  <2>1. SUFFICES rows' = rows \/ \E p \in Payments : rows' = rows \cup {p} /\ p \in Pending(o)
    <3>1. ASSUME NEW p \in Payments, rows' = rows \cup {p}, p \in Pending(o)
          PROVE  GetReceiptHTML(o)' = GetReceiptHTML(o)
      <4>1. rows \subseteq Nat /\ rows # {} /\ p \in Nat
        BY <1>1, PosShapes DEF GetPaymentsByOrderID
      <4>2. \A q \in rows : q < p
        BY <1>1, <3>1 DEF PendingIsLast
      <4>3. PICK m \in rows : \A y \in rows : ~(y < m)
        BY <4>1, NatMin
      <4>4. Min(rows) = m
        BY <4>1, <4>3, MinIs
      <4>5. Min(rows \cup {p}) = m
        BY <4>1, <4>2, <4>3, MinIs
      <4> QED BY <3>1, <4>4, <4>5 DEF GetReceiptHTML
    <3> QED BY <2>1, <3>1 DEF GetReceiptHTML
  <2>2. CASE payment' = payment
    BY <2>2, PaymentSetsKept
  <2>3. ASSUME NEW p \in Payments, NEW b \in PosOrders, NEW amount \in 1..MaxAmount,
               PayOrder(p, b, amount)
        PROVE  rows' = rows
    <3> DEFINE row == [pc |-> "stamped", order |-> b, amount |-> amount, change |-> 0]
    <3>1. payment' = [payment EXCEPT ![p] = row] /\ row.pc = "stamped"
      BY <2>3 DEF PayOrder
    <3> HIDE DEF row
    <3> QED BY <1>1, <2>3, <3>1, PosShapes DEF GetPaymentsByOrderID, PayOrder
  <2>4. ASSUME NEW p \in Payments,
               InsertPayment(p) \/ FailPayment(p) \/ RecordPayment(p) \/ LoseReceipt(p)
        PROVE  rows' = rows \/ (rows' = rows \cup {p} /\ p \in Pending(o))
    <3>1. PICK row : /\ payment' = [payment EXCEPT ![p] = row]
                     /\ row.order = payment[p].order
                     /\ \/ payment[p].pc = "stamped" /\ row.pc \in {"inserted", "failed"}
                        \/ payment[p].pc = "inserted" /\ row.pc \in {"paid", "silent"}
      <4>0. payment[p] \in PaymentRows
        BY <1>1, PosShapes
      <4>1. CASE InsertPayment(p)
        <5> DEFINE r == [payment[p] EXCEPT !.pc = IF posOrder[payment[p].order] # 0 THEN "inserted" ELSE "failed"]
        <5>1. payment' = [payment EXCEPT ![p] = r] /\ payment[p].pc = "stamped"
          BY <4>1 DEF InsertPayment
        <5>2. r.order = payment[p].order /\ r.pc \in {"inserted", "failed"}
          BY <4>0 DEF PaymentRows
        <5> HIDE DEF r
        <5> QED BY <5>1, <5>2
      <4>2. CASE FailPayment(p)
        <5> DEFINE r == [payment[p] EXCEPT !.pc = "failed"]
        <5>1. payment' = [payment EXCEPT ![p] = r] /\ payment[p].pc = "stamped"
          BY <4>2 DEF FailPayment
        <5>2. r.order = payment[p].order /\ r.pc = "failed"
          BY <4>0 DEF PaymentRows
        <5> HIDE DEF r
        <5> QED BY <5>1, <5>2
      <4>3. CASE RecordPayment(p)
        <5> DEFINE r == [payment[p] EXCEPT !.pc = "paid",
                                           !.change = ChangeDue(payment[p].order, payment[p].amount)]
        <5>1. payment' = [payment EXCEPT ![p] = r] /\ payment[p].pc = "inserted"
          BY <4>3 DEF RecordPayment
        <5>2. r.order = payment[p].order /\ r.pc = "paid"
          BY <4>0 DEF PaymentRows
        <5> HIDE DEF r
        <5> QED BY <5>1, <5>2
      <4>4. CASE LoseReceipt(p)
        <5> DEFINE r == [payment[p] EXCEPT !.pc = "silent"]
        <5>1. payment' = [payment EXCEPT ![p] = r] /\ payment[p].pc = "inserted"
          BY <4>4 DEF LoseReceipt
        <5>2. r.order = payment[p].order /\ r.pc = "silent"
          BY <4>0 DEF PaymentRows
        <5> HIDE DEF r
        <5> QED BY <5>1, <5>2
      <4> QED BY <2>4, <4>1, <4>2, <4>3, <4>4
    <3>2. payment'[p] = row /\ \A q \in Payments : q # p => payment'[q] = payment[q]
      BY <1>1, <3>1, PosShapes
    <3>3. CASE payment[p].order # o \/ payment[p].pc = "inserted" \/ row.pc = "failed"
      BY <3>1, <3>2, <3>3 DEF GetPaymentsByOrderID
    <3>4. CASE payment[p].order = o /\ payment[p].pc = "stamped" /\ row.pc = "inserted"
      BY <3>1, <3>2, <3>4 DEF GetPaymentsByOrderID, Pending
    <3> QED BY <3>1, <3>3, <3>4
  <2> QED BY <1>1, <2>2, <2>3, <2>4 DEF PosNext, OpenSession, CloseSession, ChangeShelf, ScanBarcode,
             CreatePOSOrder, posVars
<1>2. PosInv /\ [PosNext]_posVars =>
        [\A o \in PosOrders \ crowded :
           GetPaymentsByOrderID(o) # {} => GetReceiptHTML(o)' = GetReceiptHTML(o)]_posVars
  BY <1>1
<1> QED BY <1>2, PosInvHolds, PTL DEF PosSpec, ReprintStable

-----------------------------------------------------------------------------
(* Shipping                                                                *)

ShipmentRows == [pc : {"new", "inserted", "booked", "over"},
                 status : {"none", "pending", "booked", "delivered"}, tracked : BOOLEAN]
WaybillRows  == [booked : BOOLEAN, events : Seq(CarrierEvents)]
TrackingRows == [pc : {"new", "read", "asked", "over", "failed"}, shipment : Shipments,
                 latest : 0..MaxEventTime, seen : SUBSET CarrierEvents, todo : SUBSET CarrierEvents]

LEMMA ShippingShapes ==
  ASSUME ShippingTypeOK
  PROVE  /\ shipment \in [Shipments -> ShipmentRows] /\ waybill \in [Shipments -> WaybillRows]
         /\ tracking \in [Trackings -> TrackingRows] /\ eventLog \in [Shipments -> Seq(CarrierEvents)]
         /\ \A s \in Shipments : /\ shipment[s] \in ShipmentRows /\ waybill[s] \in WaybillRows
                                 /\ eventLog[s] \in Seq(CarrierEvents)
                                 /\ waybill[s].events \in Seq(CarrierEvents)
                                 /\ Reported(s) \subseteq CarrierEvents /\ LogSet(s) \subseteq CarrierEvents
         /\ \A y \in Trackings : /\ tracking[y] \in TrackingRows /\ tracking[y].shipment \in Shipments
                                 /\ tracking[y].latest \in 0..MaxEventTime
                                 /\ tracking[y].seen \subseteq CarrierEvents
                                 /\ tracking[y].todo \subseteq CarrierEvents
         /\ \A e \in CarrierEvents : e.time \in Nat /\ e.no \in Nat
<1>1. shipment \in [Shipments -> ShipmentRows] /\ waybill \in [Shipments -> WaybillRows]
  BY DEF ShippingTypeOK, ShipmentRows, WaybillRows
<1>2. tracking \in [Trackings -> TrackingRows] /\ eventLog \in [Shipments -> Seq(CarrierEvents)]
  BY DEF ShippingTypeOK, TrackingRows
<1>3. \A y \in Trackings : tracking[y] \in TrackingRows
  BY <1>2
<1>4. \A y \in Trackings : /\ tracking[y].shipment \in Shipments
                           /\ tracking[y].latest \in 0..MaxEventTime
                           /\ tracking[y].seen \subseteq CarrierEvents
                           /\ tracking[y].todo \subseteq CarrierEvents
  BY <1>3 DEF TrackingRows
<1>5. \A s \in Shipments : shipment[s] \in ShipmentRows /\ waybill[s] \in WaybillRows
                           /\ eventLog[s] \in Seq(CarrierEvents)
  BY <1>1, <1>2
<1>6. \A s \in Shipments : waybill[s].events \in Seq(CarrierEvents)
  BY <1>5 DEF WaybillRows
<1>7. \A s \in Shipments : Reported(s) \subseteq CarrierEvents /\ LogSet(s) \subseteq CarrierEvents
  BY <1>5, <1>6 DEF Reported, LogSet, Range
<1>8. \A e \in CarrierEvents : e.time \in Nat /\ e.no \in Nat
  BY ShippingAssumption DEF CarrierEvents
<1> QED BY <1>1, <1>2, <1>3, <1>4, <1>5, <1>6, <1>7, <1>8

\* An entry appended to a list joins its members.
LEMMA RangeOfAppend ==
  ASSUME NEW S, NEW q \in Seq(S), NEW e \in S
  PROVE  /\ Range(Append(q, e)) = Range(q) \cup {e}
         /\ DOMAIN q = 1..Len(q) /\ DOMAIN Append(q, e) = 1..(Len(q) + 1)
         /\ Len(q) \in Nat /\ Append(q, e)[Len(q) + 1] = e
         /\ \A i \in 1..Len(q) : Append(q, e)[i] = q[i]
<1>1. /\ DOMAIN q = 1..Len(q) /\ DOMAIN Append(q, e) = 1..(Len(q) + 1)
      /\ Len(q) \in Nat /\ Append(q, e)[Len(q) + 1] = e
      /\ \A i \in 1..Len(q) : Append(q, e)[i] = q[i]
  OBVIOUS
<1>2. \A i \in 1..(Len(q) + 1) : i \in 1..Len(q) \/ i = Len(q) + 1
  BY <1>1
<1>3. 1..Len(q) \subseteq 1..(Len(q) + 1) /\ Len(q) + 1 \in 1..(Len(q) + 1)
  BY <1>1
<1>4. Range(Append(q, e)) \subseteq Range(q) \cup {e}
  BY <1>1, <1>2 DEF Range
<1>5. Range(q) \cup {e} \subseteq Range(Append(q, e))
  BY <1>1, <1>3 DEF Range
<1> QED BY <1>1, <1>4, <1>5

\* Events are told apart by their numbers.
LEMMA NumberTellsEvent ==
  ASSUME EventsNumbered, ShippingTypeOK, NEW s \in Shipments,
         NEW e \in Reported(s), NEW f \in Reported(s), e.no = f.no
  PROVE  e = f
<1>1. PICK i \in DOMAIN waybill[s].events : waybill[s].events[i] = e
  BY DEF Reported, Range
<1>2. PICK j \in DOMAIN waybill[s].events : waybill[s].events[j] = f
  BY DEF Reported, Range
<1> QED BY <1>1, <1>2 DEF EventsNumbered

\* What the log says of a shipment stands as long as neither its events, nor its
\* log, nor its calls move.
LEMMA LogStands ==
  ASSUME NEW s, LogOf(s),
         eventLog'[s] = eventLog[s], waybill'[s].events = waybill[s].events,
         CallsOf(s)' \subseteq CallsOf(s), \A y \in CallsOf(s)' : tracking'[y] = tracking[y],
         \A y \in CallsOf(s) \ CallsOf(s)' : tracking[y].pc # "asked"
  PROVE  LogOf(s)'
<1>1. Reported(s)' = Reported(s) /\ LogSet(s)' = LogSet(s)
  BY DEF Reported, LogSet
<1>2. \A e : Late(s, e)' = Late(s, e)
  BY <1>1 DEF Late, Reported
<1>3. \A e : ToLog(s, e)' = ToLog(s, e)
  BY <1>2 DEF ToLog
<1>4. Awaited(s)' = Awaited(s)
  BY DEF Awaited
<1>5. BusyCalls(s)' \subseteq BusyCalls(s)
  BY DEF BusyCalls
<1>7. \A x, y \in BusyCalls(s)' : x = y
  BY <1>5 DEF LogOf
<1>8. \A i, j \in DOMAIN eventLog'[s] : eventLog'[s][i] = eventLog'[s][j] => i = j
  BY DEF LogOf
<1>9. ASSUME NEW y \in CallsOf(s)' PROVE CallIsLogged(s, y)'
  <2>1. CallIsLogged(s, y) /\ tracking'[y] = tracking[y]
    BY <1>9 DEF LogOf
  <2> QED BY <1>1, <1>3, <2>1 DEF CallIsLogged, LatestIs
<1>10. \A f \in LogSet(s)', e \in Reported(s)' :
       e.no < f.no /\ ToLog(s, e)' => e \in LogSet(s)' \cup Awaited(s)'
  BY <1>1, <1>3, <1>4 DEF LogOf
<1> QED BY <1>7, <1>8, <1>9, <1>10 DEF LogOf

LEMMA ShippingInitSafe == ShippingInit => ShippingInv
<1> SUFFICES ASSUME ShippingInit PROVE ShippingInv
  OBVIOUS
<1>1. /\ \A s \in Shipments : /\ shipment[s] = NoShipment /\ waybill[s] = NoWaybill
                              /\ eventLog[s] = <<>>
      /\ \A y \in Trackings : tracking[y] = NoTracking
  BY DEF ShippingInit
<1>2. ShippingTypeOK
  <2>1. 1 \in Shipments /\ 0 \in 0..MaxEventTime
    BY ShippingAssumption DEF Shipments
  <2>2. NoTracking \in TrackingRows
    BY <2>1 DEF NoTracking, TrackingRows
  <2>3. NoShipment \in ShipmentRows
    BY DEF NoShipment, ShipmentRows
  <2>4. NoWaybill \in WaybillRows
    BY DEF NoWaybill, WaybillRows
  <2>5. tracking \in [Trackings -> TrackingRows] /\ shipment \in [Shipments -> ShipmentRows]
    BY <2>2, <2>3 DEF ShippingInit
  <2>6. waybill \in [Shipments -> WaybillRows] /\ eventLog \in [Shipments -> Seq(CarrierEvents)]
    BY <2>4 DEF ShippingInit
  <2>7. carrierAccount \in {"none", "", "aramex"} /\ muddled \subseteq Shipments
    BY DEF ShippingInit
  <2> QED BY <2>5, <2>6, <2>7 DEF ShippingTypeOK, TrackingRows, ShipmentRows, WaybillRows
<1>3. \A s \in Shipments : CallsOf(s) = {}
  BY <1>1 DEF CallsOf, NoTracking
<1>4. \A s \in Shipments : Reported(s) = {} /\ LogSet(s) = {}
  BY <1>1 DEF Reported, LogSet, Range, NoWaybill
<1>5. RowTellsCarrier
  <2>1. \A s \in Shipments : shipment[s].tracked = FALSE /\ shipment[s].status = "none"
    BY <1>1 DEF NoShipment
  <2>2. \A y \in Trackings : tracking[y].pc = "new"
    BY <1>1 DEF NoTracking
  <2>3. FALSE = ("none" \in {"booked", "delivered"})
    OBVIOUS
  <2> QED BY <2>1, <2>2, <2>3 DEF RowTellsCarrier
<1>6. BookedFirst /\ CallsSeeAll
  BY <1>1, <1>3 DEF BookedFirst, CallsSeeAll, NoShipment
<1>7. EventsNumbered
  BY <1>1, <1>4 DEF EventsNumbered, NoWaybill
<1>8. \A s \in Shipments : LogOf(s)
  BY <1>1, <1>3, <1>4 DEF LogOf, BusyCalls
<1> QED BY <1>2, <1>5, <1>6, <1>7, <1>8 DEF ShippingInv

\* The sets of a shipment stand when nothing of tracking moves.
LEMMA CallSetsKept ==
  ASSUME tracking' = tracking, NEW s
  PROVE  CallsOf(s)' = CallsOf(s)
BY DEF CallsOf

\* A row that has no number yet moves on, with its waybill.
LEMMA RowMoves ==
  ASSUME ShippingInv, NEW s \in Shipments, NEW row \in ShipmentRows, NEW bill \in WaybillRows,
         shipment[s].pc \in {"new", "inserted", "booked"},
         shipment' = [shipment EXCEPT ![s] = row], waybill' = [waybill EXCEPT ![s] = bill],
         UNCHANGED <<carrierAccount, eventLog, tracking, muddled>>,
         row.status # "delivered", row.tracked = (row.status = "booked"),
         row.pc \in {"new", "inserted", "booked"} => ~row.tracked,
         row.tracked \/ row.pc = "booked" => bill.booked,
         bill.events = waybill[s].events
  PROVE  ShippingInv'
<1> USE DEF ShippingInv
<1>1. /\ shipment'[s] = row /\ waybill'[s] = bill
      /\ \A c \in Shipments : c # s => shipment'[c] = shipment[c] /\ waybill'[c] = waybill[c]
      /\ \A c \in Shipments : waybill'[c].events = waybill[c].events
  BY ShippingShapes
<1>2. ShippingTypeOK'
  <2>1. shipment' \in [Shipments -> ShipmentRows] /\ waybill' \in [Shipments -> WaybillRows]
    BY ShippingShapes
  <2> QED BY <2>1 DEF ShippingTypeOK, ShipmentRows, WaybillRows
<1>3. \A c \in Shipments : CallsOf(c)' = CallsOf(c)
  BY CallSetsKept
<1>4. CallsOf(s) = {}
  BY DEF BookedFirst
<1>5. \A c \in Shipments : Reported(c)' = Reported(c) /\ LogSet(c)' = LogSet(c)
  BY <1>1 DEF Reported, LogSet
<1>6. RowTellsCarrier'
  <2> SUFFICES ASSUME NEW c \in Shipments
      PROVE  /\ shipment'[c].tracked => waybill'[c].booked
             /\ shipment'[c].tracked = (shipment'[c].status \in {"booked", "delivered"})
             /\ shipment'[c].status = "delivered" => \E e \in Range(waybill'[c].events) : e.delivered
             /\ \A y \in Trackings :
                  /\ c \notin muddled' /\ tracking'[y].pc = "over" /\ tracking'[y].shipment = c
                  /\ \E e \in tracking'[y].seen : e.delivered
                  => shipment'[c].status = "delivered"
    BY DEF RowTellsCarrier
  <2>1. CASE c = s
    <3>1. \A y \in Trackings : ~(tracking'[y].pc = "over" /\ tracking'[y].shipment = s)
      BY <1>4 DEF CallsOf
    <3>2. row.tracked \in BOOLEAN
      BY DEF ShipmentRows
    <3>3. row.tracked = (row.status \in {"booked", "delivered"})
      BY <3>2
    <3> QED BY <1>1, <2>1, <3>1, <3>3
  <2>2. CASE c # s
    BY <1>1, <2>2 DEF RowTellsCarrier
  <2> QED BY <2>1, <2>2
<1>7. BookedFirst'
  BY <1>1, <1>3, <1>4 DEF BookedFirst
<1>8. EventsNumbered'
  BY <1>1, <1>5 DEF EventsNumbered
<1>9. CallsSeeAll'
  BY <1>3, <1>5 DEF CallsSeeAll
<1>10. \A c \in Shipments \ muddled' : LogOf(c)'
  BY <1>1, <1>3, LogStands
<1> QED BY <1>2, <1>6, <1>7, <1>8, <1>9, <1>10

LEMMA BookingKeeps ==
  ASSUME ShippingInv, NEW s \in Shipments,
         CreateShipment(s) \/ BookWaybill(s) \/ BookShipment(s) \/ LoseBooking(s)
  PROVE  ShippingInv'
<1>1. /\ shipment[s] \in ShipmentRows /\ waybill[s] \in WaybillRows
      /\ waybill = [waybill EXCEPT ![s] = waybill[s]]
  BY ShippingShapes DEF ShippingInv
<1>2. shipment[s].pc \in {"new", "inserted", "booked"} =>
        ~shipment[s].tracked /\ shipment[s].status \notin {"booked", "delivered"}
  BY DEF ShippingInv, BookedFirst, RowTellsCarrier
<1>3. CASE CreateShipment(s)
  <2> DEFINE row == [shipment[s] EXCEPT !.pc = "inserted", !.status = "pending"]
  <2>1. row \in ShipmentRows /\ row.pc = "inserted" /\ row.status = "pending" /\ row.tracked = shipment[s].tracked
    BY <1>1 DEF ShipmentRows
  <2>2. shipment' = [shipment EXCEPT ![s] = row] /\ shipment[s].pc = "new"
    BY <1>3 DEF CreateShipment, InsertShipment
  <2>3. waybill' = [waybill EXCEPT ![s] = waybill[s]] /\ UNCHANGED <<carrierAccount, eventLog, tracking, muddled>>
    BY <1>1, <1>3 DEF CreateShipment
  <2>4. row.tracked = FALSE
    BY <1>2, <2>1, <2>2 DEF ShipmentRows
  <2> HIDE DEF row
  <2> QED BY <1>1, <2>1, <2>2, <2>3, <2>4, RowMoves
<1>4. ASSUME NEW pc \in {"booked", "over"}, NEW bill \in WaybillRows,
             shipment' = [shipment EXCEPT ![s].pc = pc], waybill' = [waybill EXCEPT ![s] = bill],
             bill.events = waybill[s].events, pc = "booked" => bill.booked,
             shipment[s].pc \in {"inserted", "booked"},
             UNCHANGED <<carrierAccount, eventLog, tracking, muddled>>
      PROVE  ShippingInv'
  <2> DEFINE row == [shipment[s] EXCEPT !.pc = pc]
  <2>1. /\ row \in ShipmentRows /\ row.pc = pc /\ row.status = shipment[s].status
        /\ row.tracked = shipment[s].tracked
    BY <1>1 DEF ShipmentRows
  <2>2. shipment' = [shipment EXCEPT ![s] = row]
    BY <1>4
  <2>3. row.tracked = FALSE
    BY <1>2, <1>4, <2>1 DEF ShipmentRows
  <2>4. row.status # "delivered" /\ row.tracked = (row.status = "booked")
    BY <1>2, <1>4, <2>1, <2>3
  <2> HIDE DEF row
  <2> QED BY <1>4, <2>1, <2>2, <2>3, <2>4, RowMoves
<1>5. CASE BookWaybill(s)
  <2> DEFINE bill == [waybill[s] EXCEPT !.booked = TRUE]
  <2>1. bill \in WaybillRows /\ bill.booked /\ bill.events = waybill[s].events
    BY <1>1 DEF WaybillRows
  <2>2. UNCHANGED <<carrierAccount, eventLog, tracking, muddled>> /\ shipment[s].pc = "inserted"
    BY <1>5 DEF BookWaybill
  <2>3. \/ waybill' = [waybill EXCEPT ![s] = bill]
           /\ \E pc \in {"booked", "over"} : shipment' = [shipment EXCEPT ![s].pc = pc]
        \/ shipment' = [shipment EXCEPT ![s].pc = "over"] /\ UNCHANGED waybill
    BY <1>5 DEF BookWaybill
  <2> HIDE DEF bill
  <2>4. CASE shipment' = [shipment EXCEPT ![s].pc = "over"] /\ UNCHANGED waybill
    <3>1. waybill' = [waybill EXCEPT ![s] = waybill[s]]
      BY <1>1, <2>4
    <3> QED BY <1>1, <1>4, <2>2, <2>4, <3>1
  <2>5. CASE waybill' = [waybill EXCEPT ![s] = bill]
             /\ \E pc \in {"booked", "over"} : shipment' = [shipment EXCEPT ![s].pc = pc]
    BY <1>4, <2>1, <2>2, <2>5
  <2> QED BY <2>3, <2>4, <2>5
<1>6. CASE BookShipment(s)
  <2> DEFINE row == [[shipment[s] EXCEPT !.status = "booked", !.tracked = shipment[s].tracked \/ TRUE] EXCEPT !.pc = "over"]
  <2>1. /\ row \in ShipmentRows /\ row.pc = "over" /\ row.status = "booked" /\ row.tracked = TRUE
    BY <1>1 DEF ShipmentRows
  <2>2. shipment[s].pc = "booked" /\ shipment \in [Shipments -> ShipmentRows]
    BY <1>6, ShippingShapes DEF BookShipment, ShippingInv
  <2>3. shipment' = [shipment EXCEPT ![s] = row]
    <3>1. shipment' = [[shipment EXCEPT ![s].status = "booked", ![s].tracked = @ \/ TRUE] EXCEPT ![s].pc = "over"]
      BY <1>6 DEF BookShipment, UpdateShipmentStatus
    <3> QED BY <2>2, <3>1
  <2>4. waybill' = [waybill EXCEPT ![s] = waybill[s]] /\ UNCHANGED <<carrierAccount, eventLog, tracking, muddled>>
    BY <1>1, <1>6 DEF BookShipment
  <2>5. waybill[s].booked
    BY <2>2 DEF ShippingInv, BookedFirst
  <2> HIDE DEF row
  <2> QED BY <1>1, <2>1, <2>2, <2>3, <2>4, <2>5, RowMoves
<1>7. CASE LoseBooking(s)
  <2>1. waybill' = [waybill EXCEPT ![s] = waybill[s]]
    BY <1>1, <1>7 DEF LoseBooking
  <2> QED BY <1>1, <1>4, <1>7, <2>1 DEF LoseBooking
<1> QED BY <1>3, <1>5, <1>6, <1>7

LEMMA ReportEventKeeps ==
  ASSUME ShippingInv, NEW s \in Shipments, ReportEvent(s)
  PROVE  ShippingInv'
<1> USE DEF ShippingInv
<1> DEFINE events == waybill[s].events
<1>1. PICK time \in 0..MaxEventTime, delivered \in BOOLEAN :
        waybill' = [waybill EXCEPT ![s].events =
          Append(@, [time |-> time, delivered |-> delivered, no |-> Len(events) + 1])]
  BY DEF ReportEvent
<1> DEFINE new == [time |-> time, delivered |-> delivered, no |-> Len(events) + 1]
           bill == [waybill[s] EXCEPT !.events = Append(events, new)]
<1>2. events \in Seq(CarrierEvents) /\ Len(events) < MaxEvents /\ waybill[s] \in WaybillRows
  BY ShippingShapes DEF ReportEvent
<1>3. new \in CarrierEvents /\ new.no = Len(events) + 1
  <2>1. Len(events) + 1 \in 1..MaxEvents
    BY <1>2, ShippingAssumption
  <2> QED BY <2>1 DEF CarrierEvents
<1>4. waybill' = [waybill EXCEPT ![s] = bill]
  BY <1>1
<1> HIDE DEF new
<1>5. bill \in WaybillRows /\ bill.events = Append(events, new) /\ bill.booked = waybill[s].booked
  <2>1. Append(events, new) \in Seq(CarrierEvents)
    <3> HIDE DEF events
    <3> QED BY <1>2, <1>3
  <2>2. waybill[s] \in [booked : BOOLEAN, events : Seq(CarrierEvents)]
    BY <1>2 DEF WaybillRows
  <2> HIDE DEF events
  <2> QED BY <2>1, <2>2 DEF WaybillRows
<1> HIDE DEF bill
<1>6. /\ waybill'[s].events = Append(events, new) /\ waybill'[s].booked = waybill[s].booked
      /\ \A c \in Shipments : c # s => waybill'[c] = waybill[c]
  BY <1>4, <1>5, ShippingShapes
<1>7. UNCHANGED <<carrierAccount, shipment, eventLog, tracking, muddled>>
  BY DEF ReportEvent
<1>8. ShippingTypeOK'
  <2>1. waybill' \in [Shipments -> WaybillRows]
    BY <1>4, <1>5, ShippingShapes
  <2> QED BY <1>7, <2>1 DEF ShippingTypeOK, WaybillRows
<1>9. \A c \in Shipments : CallsOf(c)' = CallsOf(c)
  BY <1>7, CallSetsKept
<1>10. /\ Reported(s)' = Reported(s) \cup {new} /\ Len(events) \in Nat
       /\ DOMAIN events = 1..Len(events) /\ DOMAIN Append(events, new) = 1..(Len(events) + 1)
       /\ Append(events, new)[Len(events) + 1] = new
       /\ \A i \in 1..Len(events) : Append(events, new)[i] = events[i]
  <2> HIDE DEF events
  <2>1. Reported(s) = Range(events) /\ Reported(s)' = Range(Append(events, new))
    BY <1>6 DEF Reported, events
  <2> QED BY <1>2, <1>3, <2>1, RangeOfAppend
<1>11. \A c \in Shipments : LogSet(c)' = LogSet(c) /\ (c # s => Reported(c)' = Reported(c))
  BY <1>6, <1>7 DEF LogSet, Reported
<1>12. \A e \in Reported(s) : e.no \in Nat /\ e.no < new.no
  <2> SUFFICES ASSUME NEW e \in Reported(s) PROVE e.no \in Nat /\ e.no < new.no
    OBVIOUS
  <2>1. PICK i \in DOMAIN events : events[i] = e
    BY DEF Reported, Range
  <2>2. e.no = i /\ i \in 1..Len(events)
    BY <1>10, <2>1 DEF EventsNumbered
  <2> QED BY <1>3, <1>10, <2>2
<1>13. \A e \in Reported(s) : ToLog(s, e)' = ToLog(s, e)
  <2> SUFFICES ASSUME NEW e \in Reported(s) PROVE Late(s, e)' <=> Late(s, e)
    BY DEF ToLog, Late
  <2>1. e.no \in Nat /\ ~(new.no < e.no)
    BY <1>3, <1>10, <1>12
  <2>2. Late(s, e) <=> \E f \in Reported(s) : f.no < e.no /\ f.time >= e.time
    BY DEF Late, Reported
  <2>3. Late(s, e)' <=> \E f \in Reported(s)' : f.no < e.no /\ f.time >= e.time
    BY DEF Late, Reported
  <2> QED BY <1>10, <2>1, <2>2, <2>3
<1> HIDE DEF events
<1>14. RowTellsCarrier'
  <2> SUFFICES ASSUME NEW c \in Shipments
      PROVE  /\ shipment'[c].tracked => waybill'[c].booked
             /\ shipment'[c].tracked = (shipment'[c].status \in {"booked", "delivered"})
             /\ shipment'[c].status = "delivered" => \E e \in Range(waybill'[c].events) : e.delivered
             /\ \A y \in Trackings :
                  /\ c \notin muddled' /\ tracking'[y].pc = "over" /\ tracking'[y].shipment = c
                  /\ \E e \in tracking'[y].seen : e.delivered
                  => shipment'[c].status = "delivered"
    BY DEF RowTellsCarrier
  <2>1. Range(waybill[c].events) \subseteq Range(waybill'[c].events) /\ waybill'[c].booked = waybill[c].booked
    BY <1>6, <1>10, <1>11 DEF Reported
  <2>2. shipment[c].status = "delivered" => \E e \in Range(waybill[c].events) : e.delivered
    BY DEF RowTellsCarrier
  <2>3. shipment'[c].status = "delivered" => \E e \in Range(waybill'[c].events) : e.delivered
    BY <1>7, <2>1, <2>2
  <2>4. /\ shipment'[c].tracked => waybill'[c].booked
        /\ shipment'[c].tracked = (shipment'[c].status \in {"booked", "delivered"})
    BY <1>7, <2>1 DEF RowTellsCarrier
  <2>5. \A y \in Trackings :
          /\ c \notin muddled' /\ tracking'[y].pc = "over" /\ tracking'[y].shipment = c
          /\ \E e \in tracking'[y].seen : e.delivered
          => shipment'[c].status = "delivered"
    BY <1>7 DEF RowTellsCarrier
  <2> QED BY <2>3, <2>4, <2>5
<1>15. BookedFirst'
  BY <1>6, <1>7, <1>9 DEF BookedFirst
<1>16. EventsNumbered'
  <2> SUFFICES ASSUME NEW c \in Shipments
               PROVE  /\ \A i \in DOMAIN waybill'[c].events : waybill'[c].events[i].no = i
                      /\ LogSet(c)' \subseteq Reported(c)'
    BY DEF EventsNumbered
  <2>1. CASE c = s
    <3>1. \A i \in 1..Len(events) : events[i].no = i
      BY <1>10 DEF EventsNumbered, events
    <3>2. \A i \in 1..(Len(events) + 1) : i \in 1..Len(events) \/ i = Len(events) + 1
      BY <1>10
    <3>3. \A i \in DOMAIN waybill'[s].events : waybill'[s].events[i].no = i
      BY <1>3, <1>6, <1>10, <3>1, <3>2
    <3> QED BY <1>10, <1>11, <2>1, <3>3 DEF EventsNumbered
  <2>2. CASE c # s
    BY <1>6, <1>11, <2>2 DEF EventsNumbered
  <2> QED BY <2>1, <2>2
<1>17. CallsSeeAll'
  <2> SUFFICES ASSUME NEW c \in Shipments, NEW y \in CallsOf(c)
      PROVE  /\ tracking[y].pc # "read" =>
                  /\ tracking[y].seen \subseteq Reported(c)' /\ tracking[y].todo \subseteq tracking[y].seen
                  /\ \A e \in Reported(c)', f \in tracking[y].seen : e.no < f.no => e \in tracking[y].seen
             /\ tracking[y].pc = "over" => tracking[y].todo = {}
    BY <1>7, <1>9 DEF CallsSeeAll
  <2>1. /\ tracking[y].pc # "read" =>
             /\ tracking[y].seen \subseteq Reported(c) /\ tracking[y].todo \subseteq tracking[y].seen
             /\ \A e \in Reported(c), f \in tracking[y].seen : e.no < f.no => e \in tracking[y].seen
        /\ tracking[y].pc = "over" => tracking[y].todo = {}
    BY DEF CallsSeeAll
  <2>2. CASE c # s
    BY <1>11, <2>1, <2>2
  <2>3. CASE c = s
    <3>1. \A f \in Reported(s) : ~(new.no < f.no)
      BY <1>3, <1>10, <1>12
    <3> QED BY <1>10, <2>1, <2>3, <3>1
  <2> QED BY <2>2, <2>3
<1>18. ASSUME NEW c \in Shipments \ muddled' PROVE LogOf(c)'
  <2>1. LogOf(c)
    BY <1>7
  <2>2. CASE c # s
    BY <1>6, <1>7, <1>9, <2>1, <2>2, LogStands
  <2>3. CASE c = s
    <3>1. BusyCalls(s)' = BusyCalls(s) /\ Awaited(s)' = Awaited(s)
      BY <1>7, <1>9 DEF BusyCalls, Awaited
    <3>2. ASSUME NEW y \in CallsOf(s) PROVE CallIsLogged(s, y)'
      <4>1. CallIsLogged(s, y) /\ tracking' = tracking
        BY <1>7, <2>1, <2>3 DEF LogOf
      <4>2. tracking[y].pc # "read" => tracking[y].seen \subseteq Reported(s)
        BY DEF CallsSeeAll
      <4> QED BY <1>11, <1>13, <4>1, <4>2 DEF CallIsLogged, LatestIs
    <3>3. LogSet(s) \subseteq Reported(s)
      BY DEF EventsNumbered
    <3>4. \A f \in LogSet(s) : ~(new.no < f.no)
      BY <1>3, <1>10, <1>12, <3>3
    <3>5. \A f \in LogSet(s)', e \in Reported(s)' :
             e.no < f.no /\ ToLog(s, e)' => e \in LogSet(s)' \cup Awaited(s)'
      BY <1>10, <1>11, <1>13, <2>1, <2>3, <3>1, <3>4 DEF LogOf
    <3>6. \A x, y \in BusyCalls(s)' : x = y
      BY <2>1, <2>3, <3>1 DEF LogOf
    <3>7. \A i, j \in DOMAIN eventLog'[s] : eventLog'[s][i] = eventLog'[s][j] => i = j
      BY <1>7, <2>1, <2>3 DEF LogOf
    <3> QED BY <1>9, <2>3, <3>2, <3>5, <3>6, <3>7 DEF LogOf
  <2> QED BY <2>2, <2>3
<1> QED BY <1>8, <1>14, <1>15, <1>16, <1>17, <1>18

\* A call moves on, and stays with its shipment.
CallBecomes(y, row) ==
  /\ row \in TrackingRows /\ tracking' = [tracking EXCEPT ![y] = row]
  /\ tracking[y].pc = "new" \/ tracking[y].shipment = row.shipment

\* The calls of the other shipments stay as they are.
LEMMA CallsElsewhere ==
  ASSUME ShippingTypeOK, NEW y \in Trackings, NEW row, CallBecomes(y, row), NEW c
  PROVE  /\ tracking'[y] = row /\ \A x \in Trackings : x # y => tracking'[x] = tracking[x]
         /\ c # row.shipment => CallsOf(c)' = CallsOf(c) /\ \A x \in CallsOf(c) : tracking'[x] = tracking[x]
         /\ \A x \in Trackings : x # y => (x \in CallsOf(c)' <=> x \in CallsOf(c))
         /\ c = row.shipment => (y \in CallsOf(c)' <=> row.pc \in {"read", "asked", "over"})
<1>1. tracking'[y] = row /\ \A x \in Trackings : x # y => tracking'[x] = tracking[x]
  BY ShippingShapes DEF CallBecomes
<1>2. CallsOf(c) \subseteq Trackings /\ CallsOf(c)' \subseteq Trackings
  BY DEF CallsOf
<1>3. \A x \in Trackings : x # y => (x \in CallsOf(c)' <=> x \in CallsOf(c))
  BY <1>1 DEF CallsOf, CallBecomes
<1>4. c # row.shipment => y \notin CallsOf(c) /\ y \notin CallsOf(c)'
  BY <1>1 DEF CallsOf, CallBecomes
<1>5. c # row.shipment => CallsOf(c)' = CallsOf(c) /\ \A x \in CallsOf(c) : tracking'[x] = tracking[x]
  <2>1. SUFFICES ASSUME c # row.shipment
        PROVE CallsOf(c)' = CallsOf(c) /\ \A x \in CallsOf(c) : tracking'[x] = tracking[x]
    OBVIOUS
  <2>2. \A x \in Trackings : x \in CallsOf(c)' <=> x \in CallsOf(c)
    BY <1>3, <1>4, <2>1
  <2>3. CallsOf(c)' = CallsOf(c)
    BY <1>2, <2>2
  <2> QED BY <1>1, <1>2, <1>4, <2>1, <2>3
<1>6. c = row.shipment => (y \in CallsOf(c)' <=> row.pc \in {"read", "asked", "over"})
  BY <1>1 DEF CallsOf, CallBecomes
<1> QED BY <1>1, <1>3, <1>5, <1>6

\* All of the invariant but what it says of the log of the call's own shipment.
LEMMA CallMoves ==
  ASSUME ShippingInv, NEW y \in Trackings, NEW row, CallBecomes(y, row), NEW b, b = row.shipment,
         UNCHANGED <<carrierAccount, waybill>>,
         \A c \in Shipments : c \in muddled => c \in muddled', muddled' \subseteq Shipments,
         \A c \in Shipments : c # b /\ c \in muddled' => c \in muddled,
         NEW parcel \in ShipmentRows, shipment' = [shipment EXCEPT ![b] = parcel],
         parcel = shipment[b] \/ /\ parcel.pc = shipment[b].pc /\ parcel.tracked = shipment[b].tracked
                                 /\ parcel.status = "delivered"
                                 /\ \E e \in Reported(b) : e.delivered,
         shipment[b].tracked,
         row.pc \in {"asked", "over"} =>
           /\ row.seen \subseteq Reported(b) /\ row.todo \subseteq row.seen
           /\ \A e \in Reported(b), f \in row.seen : e.no < f.no => e \in row.seen,
         row.pc = "over" => /\ row.todo = {}
                            /\ b \notin muddled' /\ (\E e \in row.seen : e.delivered)
                                 => parcel.status = "delivered",
         NEW log \in Seq(CarrierEvents), Range(log) \subseteq Reported(b),
         eventLog' = [eventLog EXCEPT ![b] = log],
         b \notin muddled' => LogOf(b)'
  PROVE  ShippingInv'
<1>t. ShippingTypeOK
  BY DEF ShippingInv
<1>1. /\ tracking'[y] = row /\ \A x \in Trackings : x # y => tracking'[x] = tracking[x]
      /\ \A c \in Shipments : c # b => /\ CallsOf(c)' = CallsOf(c)
                                        /\ \A x \in CallsOf(c) : tracking'[x] = tracking[x]
      /\ \A x \in Trackings : x # y => (x \in CallsOf(b)' <=> x \in CallsOf(b))
      /\ y \in CallsOf(b)' <=> row.pc \in {"read", "asked", "over"}
  <2>1. tracking'[y] = row /\ \A x \in Trackings : x # y => tracking'[x] = tracking[x]
    BY <1>t, CallsElsewhere
  <2>2. \A c \in Shipments : c # b => CallsOf(c)' = CallsOf(c)
    BY <1>t, CallsElsewhere
  <2>3. \A c \in Shipments : c # b => \A x \in CallsOf(c) : tracking'[x] = tracking[x]
    BY <1>t, CallsElsewhere
  <2>4. \A x \in Trackings : x # y => (x \in CallsOf(b)' <=> x \in CallsOf(b))
    BY <1>t, CallsElsewhere
  <2>5. y \in CallsOf(b)' <=> row.pc \in {"read", "asked", "over"}
    BY <1>t, CallsElsewhere
  <2> QED BY <2>1, <2>2, <2>3, <2>4, <2>5
<1> USE DEF ShippingInv
<1>0. b \in Shipments
  BY DEF TrackingRows, CallBecomes
<1>2. /\ shipment'[b] = parcel /\ eventLog'[b] = log
      /\ \A c \in Shipments : c # b => shipment'[c] = shipment[c] /\ eventLog'[c] = eventLog[c]
  BY <1>0, ShippingShapes
<1>3. ShippingTypeOK'
  <2>1. /\ tracking' \in [Trackings -> TrackingRows] /\ shipment' \in [Shipments -> ShipmentRows]
        /\ eventLog' \in [Shipments -> Seq(CarrierEvents)]
    BY <1>0, ShippingShapes DEF CallBecomes
  <2>2. carrierAccount' \in {"none", "", "aramex"} /\ muddled' \subseteq Shipments
    BY <1>0 DEF ShippingTypeOK
  <2>3. waybill' \in [Shipments -> WaybillRows]
    BY ShippingShapes
  <2> QED BY <2>1, <2>2, <2>3 DEF ShippingTypeOK, TrackingRows, ShipmentRows, WaybillRows
<1>4. \A c \in Shipments : Reported(c)' = Reported(c)
  BY DEF Reported
<1>5. LogSet(b)' = Range(log) /\ \A c \in Shipments : c # b => LogSet(c)' = LogSet(c)
  BY <1>2 DEF LogSet
<1>6. RowTellsCarrier'
  <2> SUFFICES ASSUME NEW c \in Shipments
      PROVE  /\ shipment'[c].tracked => waybill'[c].booked
             /\ shipment'[c].tracked = (shipment'[c].status \in {"booked", "delivered"})
             /\ shipment'[c].status = "delivered" => \E e \in Range(waybill'[c].events) : e.delivered
             /\ \A x \in Trackings :
                  /\ c \notin muddled' /\ tracking'[x].pc = "over" /\ tracking'[x].shipment = c
                  /\ \E e \in tracking'[x].seen : e.delivered
                  => shipment'[c].status = "delivered"
    BY DEF RowTellsCarrier
  <2>1. /\ shipment[c].tracked => waybill[c].booked
        /\ shipment[c].tracked = (shipment[c].status \in {"booked", "delivered"})
        /\ shipment[c].status = "delivered" => \E e \in Range(waybill[c].events) : e.delivered
        /\ \A x \in Trackings :
             /\ c \notin muddled /\ tracking[x].pc = "over" /\ tracking[x].shipment = c
             /\ \E e \in tracking[x].seen : e.delivered
             => shipment[c].status = "delivered"
    BY DEF RowTellsCarrier
  <2>2. \/ shipment'[c] = shipment[c]
        \/ /\ c = b /\ shipment'[c].tracked = shipment[c].tracked
           /\ shipment'[c].status = "delivered"
           /\ \E e \in Range(waybill[c].events) : e.delivered
    BY <1>0, <1>2 DEF Reported
  <2>3. shipment'[c].tracked => waybill'[c].booked
    BY <2>1, <2>2
  <2>4. shipment'[c].tracked = (shipment'[c].status \in {"booked", "delivered"})
    <3>1. CASE shipment'[c] = shipment[c]
      BY <2>1, <3>1
    <3>2. CASE c = b /\ shipment'[c].tracked = shipment[c].tracked /\ shipment'[c].status = "delivered"
      <4>1. shipment'[c].tracked \in BOOLEAN /\ shipment'[c].tracked
        BY <1>2, <3>2 DEF ShipmentRows
      <4> QED BY <3>2, <4>1
    <3> QED BY <2>2, <3>1, <3>2
  <2>5. shipment'[c].status = "delivered" => \E e \in Range(waybill'[c].events) : e.delivered
    BY <2>1, <2>2
  <2>6. ASSUME NEW x \in Trackings, c \notin muddled', tracking'[x].pc = "over", tracking'[x].shipment = c,
               \E e \in tracking'[x].seen : e.delivered
        PROVE  shipment'[c].status = "delivered"
    <3>1. CASE x = y
      BY <1>1, <1>2, <2>6, <3>1
    <3>2. CASE x # y
      <4>1. shipment[c].status = "delivered"
        BY <1>1, <2>1, <2>6, <3>2
      <4> QED BY <2>2, <4>1
    <3> QED BY <3>1, <3>2
  <2> QED BY <2>3, <2>4, <2>5, <2>6
<1>7. BookedFirst'
  <2> SUFFICES ASSUME NEW c \in Shipments
      PROVE  /\ shipment'[c].pc \in {"new", "inserted", "booked"} => ~shipment'[c].tracked
             /\ shipment'[c].pc = "booked" => waybill'[c].booked
             /\ CallsOf(c)' # {} => shipment'[c].tracked
    BY DEF BookedFirst
  <2>1. shipment'[c].pc = shipment[c].pc /\ shipment'[c].tracked = shipment[c].tracked
    BY <1>0, <1>2
  <2>2. /\ shipment[c].pc \in {"new", "inserted", "booked"} => ~shipment[c].tracked
        /\ shipment[c].pc = "booked" => waybill[c].booked
        /\ CallsOf(c) # {} => shipment[c].tracked
    BY DEF BookedFirst
  <2>3. CallsOf(c)' # {} => shipment[c].tracked
    BY <1>1, <2>2
  <2> QED BY <2>1, <2>2, <2>3
<1>8. EventsNumbered'
  BY <1>4, <1>5 DEF EventsNumbered
<1>9. CallsSeeAll'
  <2> SUFFICES ASSUME NEW c \in Shipments, NEW x \in CallsOf(c)'
      PROVE  /\ tracking'[x].pc # "read" =>
                  /\ tracking'[x].seen \subseteq Reported(c) /\ tracking'[x].todo \subseteq tracking'[x].seen
                  /\ \A e \in Reported(c), f \in tracking'[x].seen : e.no < f.no => e \in tracking'[x].seen
             /\ tracking'[x].pc = "over" => tracking'[x].todo = {}
    BY <1>4 DEF CallsSeeAll
  <2>1. CASE x # y
    <3>1. x \in CallsOf(c) /\ tracking'[x] = tracking[x]
      BY <1>1, <2>1 DEF CallsOf
    <3> QED BY <3>1 DEF CallsSeeAll
  <2>2. CASE x = y
    <3>1. c = b /\ tracking'[x] = row /\ row.pc \in {"read", "asked", "over"}
      BY <1>1, <2>2 DEF CallsOf
    <3> QED BY <3>1
  <2> QED BY <2>1, <2>2
<1>10. ASSUME NEW c \in Shipments \ muddled' PROVE LogOf(c)'
  <2>1. CASE c = b
    BY <1>10, <2>1
  <2>2. CASE c # b
    <3>1. LogOf(c) /\ CallsOf(c)' = CallsOf(c) /\ eventLog'[c] = eventLog[c]
      BY <1>1, <1>2, <1>10, <2>2
    <3> QED BY <1>1, <2>2, <3>1, LogStands
  <2> QED BY <2>1, <2>2
<1> QED BY <1>3, <1>6, <1>7, <1>8, <1>9, <1>10

\* A call of a shipment whose log does not move.
LEMMA QuietCall ==
  ASSUME ShippingInv, NEW y \in Trackings, NEW row, CallBecomes(y, row), NEW b, b = row.shipment,
         b \in Shipments, eventLog' = eventLog, waybill' = waybill, LogOf(b),
         row.pc \in {"read", "asked"} => \A x \in BusyCalls(b) : x = y,
         tracking[y].pc = "asked" => tracking[y].todo = {},
         row.pc \in {"read", "asked", "over"} => CallIsLogged(b, y)'
  PROVE  LogOf(b)'
<1>1. ShippingTypeOK
  BY DEF ShippingInv
<1>2. /\ tracking'[y] = row /\ \A x \in Trackings : x # y => tracking'[x] = tracking[x]
      /\ \A x \in Trackings : x # y => (x \in CallsOf(b)' <=> x \in CallsOf(b))
      /\ y \in CallsOf(b)' <=> row.pc \in {"read", "asked", "over"}
  <2>1. tracking'[y] = row /\ \A x \in Trackings : x # y => tracking'[x] = tracking[x]
    BY <1>1, CallsElsewhere
  <2>2. \A x \in Trackings : x # y => (x \in CallsOf(b)' <=> x \in CallsOf(b))
    BY <1>1, CallsElsewhere
  <2>3. y \in CallsOf(b)' <=> row.pc \in {"read", "asked", "over"}
    BY <1>1, CallsElsewhere
  <2> QED BY <2>1, <2>2, <2>3
<1>3. Reported(b)' = Reported(b) /\ LogSet(b)' = LogSet(b)
  BY DEF Reported, LogSet
<1>4. \A e : ToLog(b, e)' <=> ToLog(b, e)
  BY <1>3 DEF ToLog, Late, Reported
<1>5. CallsOf(b) \subseteq Trackings /\ CallsOf(b)' \subseteq Trackings
  BY DEF CallsOf
<1>6. \A x \in CallsOf(b)' : CallIsLogged(b, x)'
  <2> SUFFICES ASSUME NEW x \in CallsOf(b)', x # y PROVE CallIsLogged(b, x)'
    BY <1>2
  <2>1. x \in CallsOf(b) /\ tracking'[x] = tracking[x]
    BY <1>2, <1>5
  <2>2. CallIsLogged(b, x)
    BY <2>1 DEF LogOf
  <2> QED BY <1>3, <1>4, <2>1, <2>2 DEF CallIsLogged, LatestIs
<1>7. \A x, z \in BusyCalls(b)' : x = z
  <2> SUFFICES ASSUME NEW x \in BusyCalls(b)', NEW z \in BusyCalls(b)', x # z PROVE FALSE
    OBVIOUS
  <2>1. \A w \in BusyCalls(b)' : w # y => w \in BusyCalls(b)
    BY <1>2, <1>5 DEF BusyCalls
  <2>2. \A w, v \in BusyCalls(b) : w = v
    BY DEF LogOf
  <2>3. y \in BusyCalls(b)' => row.pc \in {"read", "asked"}
    BY <1>2 DEF BusyCalls
  <2> QED BY <2>1, <2>2, <2>3
<1>8. \A e \in Awaited(b) : e \in Awaited(b)'
  <2> SUFFICES ASSUME NEW e \in Awaited(b) PROVE e \in Awaited(b)'
    OBVIOUS
  <2>1. e \in CarrierEvents
    BY DEF Awaited
  <2>2. PICK x \in CallsOf(b) : tracking[x].pc = "asked" /\ e \in tracking[x].todo
    BY DEF Awaited
  <2>3. x # y /\ x \in CallsOf(b)' /\ tracking'[x] = tracking[x]
    BY <1>2, <1>5, <2>2
  <2> QED BY <2>1, <2>2, <2>3 DEF Awaited
<1>9. \A f \in LogSet(b)', e \in Reported(b)' :
        e.no < f.no /\ ToLog(b, e)' => e \in LogSet(b)' \cup Awaited(b)'
  BY <1>3, <1>4, <1>8 DEF LogOf
<1>10. \A i, j \in DOMAIN eventLog'[b] : eventLog'[b][i] = eventLog'[b][j] => i = j
  BY DEF LogOf
<1> QED BY <1>6, <1>7, <1>9, <1>10 DEF LogOf

\* The newest time of a log is a time, and is that of the log.
LEMMA LatestKnownIs ==
  ASSUME ShippingTypeOK, NEW s \in Shipments
  PROVE  LatestKnown(s) \in 0..MaxEventTime /\ LatestIs(s, LatestKnown(s))
<1> DEFINE times == {0} \cup {e.time : e \in LogSet(s)}
           left == {MaxEventTime - t : t \in times}
<1>1. MaxEventTime \in Nat /\ \A e \in LogSet(s) : e.time \in 0..MaxEventTime
  BY ShippingAssumption, ShippingShapes DEF CarrierEvents
<1>2. times \subseteq 0..MaxEventTime /\ 0 \in times
  BY <1>1
<1>3. left \subseteq Nat /\ left # {}
  <2> HIDE DEF times
  <2> QED BY <1>1, <1>2
<1>4. PICK n \in left : \A m \in left : ~(m < n)
  <2> HIDE DEF left
  <2> QED BY <1>3, NatMin
<1>5. PICK t \in times : n = MaxEventTime - t
  BY <1>4
<1>6. \A u \in times : MaxEventTime - u \in left
  OBVIOUS
<1>7. \A u \in times : u <= t
  <2> HIDE DEF times, left
  <2> QED BY <1>1, <1>2, <1>4, <1>5, <1>6
<1>8. LatestKnown(s) = CHOOSE v \in times : \A u \in times : u <= v
  BY DEF LatestKnown, LogSet
<1>9. LatestKnown(s) \in times /\ \A u \in times : u <= LatestKnown(s)
  <2> HIDE DEF times
  <2> QED BY <1>5, <1>7, <1>8
<1>10. \A e \in LogSet(s) : e.time \in times
  OBVIOUS
<1>11. LatestKnown(s) = 0 \/ \E e \in LogSet(s) : e.time = LatestKnown(s)
  BY <1>9
<1> QED BY <1>2, <1>9, <1>10, <1>11 DEF LatestIs

LEMMA GetShipmentByIDKeeps ==
  ASSUME ShippingInv, NEW y \in Trackings, NEW s \in Shipments, GetShipmentByID(y, s)
  PROVE  ShippingInv'
<1>0. PICK row : row = [NoTracking EXCEPT !.pc = "read", !.shipment = s, !.latest = LatestKnown(s)]
  OBVIOUS
<1>1. ShippingTypeOK /\ shipment[s] \in ShipmentRows /\ eventLog[s] \in Seq(CarrierEvents)
  BY ShippingShapes DEF ShippingInv
<1>2. LatestKnown(s) \in 0..MaxEventTime /\ LatestIs(s, LatestKnown(s))
  BY <1>1, LatestKnownIs
<1>3. /\ row \in TrackingRows /\ row.pc = "read" /\ row.shipment = s /\ row.latest = LatestKnown(s)
      /\ row.todo = {}
  BY <1>0, <1>2 DEF NoTracking, TrackingRows
<1>4. tracking' = [tracking EXCEPT ![y] = row] /\ tracking[y].pc = "new" /\ shipment[s].tracked
  BY <1>0 DEF GetShipmentByID
<1>5. UNCHANGED <<carrierAccount, shipment, waybill, eventLog>>
  BY DEF GetShipmentByID
<1>6. muddled' = IF Busy(s) THEN muddled \cup {s} ELSE muddled
  BY DEF GetShipmentByID
<1>7. CallBecomes(y, row)
  BY <1>3, <1>4 DEF CallBecomes
<1>8. ASSUME s \notin muddled' PROVE LogOf(s)'
  <2>1. ~Busy(s) /\ s \notin muddled
    BY <1>6, <1>8
  <2>2. BusyCalls(s) = {}
    BY <2>1 DEF Busy, BusyCalls, CallsOf
  <2>3. LogOf(s)
    BY <2>1 DEF ShippingInv
  <2>4. tracking'[y] = row
    BY <1>1, <1>4, ShippingShapes
  <2>5. CallIsLogged(s, y)'
    <3>1. LatestIs(s, row.latest)'
      BY <1>2, <1>3, <1>5 DEF LatestIs, LogSet
    <3>2. LatestIs(s, tracking[y].latest)'
      BY <2>4, <3>1 DEF LatestIs
    <3> QED BY <1>3, <2>4, <3>2 DEF CallIsLogged
  <2> QED BY <1>3, <1>4, <1>5, <1>7, <2>2, <2>3, <2>5, QuietCall
<1>9. /\ \A c \in Shipments : c \in muddled => c \in muddled'
      /\ muddled' \subseteq Shipments
      /\ \A c \in Shipments : c # s /\ c \in muddled' => c \in muddled
  BY <1>1, <1>6 DEF ShippingTypeOK
<1>10. shipment = [shipment EXCEPT ![s] = shipment[s]] /\ eventLog = [eventLog EXCEPT ![s] = eventLog[s]]
  BY <1>1, ShippingShapes
<1>11. Range(eventLog[s]) \subseteq Reported(s)
  BY DEF ShippingInv, EventsNumbered, LogSet
<1>12. row.pc = "read" /\ row.shipment = s
  BY <1>3
<1> QED BY <1>1, <1>4, <1>5, <1>7, <1>8, <1>9, <1>10, <1>11, <1>12, CallMoves

\* What holds of a call that is under way, and of its shipment.
CallFacts(y, s) ==
  /\ ShippingTypeOK /\ s \in Shipments /\ tracking[y] \in TrackingRows
  /\ y \in CallsOf(s) /\ y \in BusyCalls(s)
  /\ shipment[s].tracked /\ shipment[s] \in ShipmentRows
  /\ shipment = [shipment EXCEPT ![s] = shipment[s]]
  /\ eventLog[s] \in Seq(CarrierEvents) /\ eventLog = [eventLog EXCEPT ![s] = eventLog[s]]
  /\ Range(eventLog[s]) \subseteq Reported(s)
  /\ muddled \subseteq Shipments
  /\ s \notin muddled => /\ LogOf(s) /\ CallIsLogged(s, y)
                         /\ \A x \in BusyCalls(s) : x = y

LEMMA CallUnderWay ==
  ASSUME ShippingInv, NEW y \in Trackings, tracking[y].pc \in {"read", "asked"},
         NEW s, s = tracking[y].shipment
  PROVE  CallFacts(y, s)
<1>1. ShippingTypeOK /\ s \in Shipments /\ tracking[y] \in TrackingRows
  BY ShippingShapes DEF ShippingInv
<1>2. y \in CallsOf(s) /\ y \in BusyCalls(s)
  BY DEF CallsOf, BusyCalls
<1>3. shipment[s].tracked
  BY <1>1, <1>2 DEF ShippingInv, BookedFirst
<1>4. /\ shipment[s] \in ShipmentRows /\ shipment = [shipment EXCEPT ![s] = shipment[s]]
      /\ eventLog[s] \in Seq(CarrierEvents) /\ eventLog = [eventLog EXCEPT ![s] = eventLog[s]]
  BY <1>1, ShippingShapes
<1>5. Range(eventLog[s]) \subseteq Reported(s)
  BY <1>1 DEF ShippingInv, EventsNumbered, LogSet
<1>6. s \notin muddled => LogOf(s)
  BY <1>1 DEF ShippingInv
<1>7. s \notin muddled => CallIsLogged(s, y) /\ \A x \in BusyCalls(s) : x = y
  BY <1>2, <1>6 DEF LogOf
<1>8. muddled \subseteq Shipments
  BY <1>1 DEF ShippingTypeOK
<1> QED BY <1>1, <1>2, <1>3, <1>4, <1>5, <1>6, <1>7, <1>8 DEF CallFacts

LEMMA GetTrackingKeeps ==
  ASSUME ShippingInv, NEW y \in Trackings, GetTracking(y)
  PROVE  ShippingInv'
<1>s. PICK s : s = tracking[y].shipment
  OBVIOUS
<1>n. PICK seen : seen = Reported(s)
  OBVIOUS
<1>d. PICK todo : todo = {e \in seen : IsNew(e, tracking[y].latest)}
  OBVIOUS
<1>r. PICK row : row = [tracking[y] EXCEPT !.pc = "asked", !.seen = seen, !.todo = todo]
  OBVIOUS
<1>1. tracking[y].pc = "read" /\ UNCHANGED <<carrierAccount, shipment, waybill, eventLog, muddled>>
  BY DEF GetTracking
<1>2. CallFacts(y, s)
  BY <1>1, <1>s, CallUnderWay
<1> USE DEF CallFacts
<1>3. tracking' = [tracking EXCEPT ![y] = row]
  BY <1>s, <1>n, <1>d, <1>r DEF GetTracking, Reported
<1>4. seen \subseteq CarrierEvents
  BY <1>2, <1>n, ShippingShapes
<1>5. /\ row \in TrackingRows /\ row.pc = "asked" /\ row.seen = seen /\ row.todo = todo
      /\ row.shipment = s
  <2>1. todo \subseteq CarrierEvents
    BY <1>4, <1>d
  <2> QED BY <1>2, <1>4, <1>s, <1>r, <2>1 DEF TrackingRows
<1>6. CallBecomes(y, row)
  BY <1>3, <1>5, <1>s DEF CallBecomes
<1>7. ASSUME s \notin muddled' PROVE LogOf(s)'
  <2>1. /\ LogOf(s) /\ CallIsLogged(s, y) /\ \A x \in BusyCalls(s) : x = y
    BY <1>1, <1>2, <1>7
  <2>2. LatestIs(s, tracking[y].latest)
    BY <1>1, <2>1 DEF CallIsLogged
  <2> DEFINE latest == tracking[y].latest
  <2>3. latest \in Nat /\ \A e \in seen : e.time \in Nat /\ e.no \in Nat
    BY <1>2, <1>4, ShippingAssumption, ShippingShapes
  <2>4. tracking'[y] = row
    BY <1>2, <1>3, ShippingShapes
  <2>5. LogSet(s) \subseteq seen
    BY <1>2, <1>n DEF LogSet
  <2>6. todo \cap LogSet(s) = {}
    BY <1>d, <2>2, <2>3, <2>5 DEF LatestIs, IsNew
  <2>7. ASSUME NEW e \in seen, ToLog(s, e), e \notin todo PROVE e \in LogSet(s)
    <3>1. e.time > 0 /\ ~(e.time > latest)
      BY <1>d, <2>7 DEF ToLog, IsNew
    <3>2. PICK f \in LogSet(s) : f.time = latest
      BY <2>2, <2>3, <3>1 DEF LatestIs
    <3>3. f \in seen /\ f.time >= e.time
      BY <2>3, <2>5, <3>1, <3>2
    <3>4. ~(f.no < e.no)
      BY <1>n, <2>7, <3>3 DEF ToLog, Late, Reported
    <3>5. CASE f.no = e.no
      <4>1. e = f
        BY <1>2, <1>n, <3>3, <3>5, NumberTellsEvent DEF ShippingInv
      <4> QED BY <3>2, <4>1
    <3>6. CASE e.no < f.no
      <4>1. e \in LogSet(s) \cup Awaited(s)
        BY <1>n, <2>1, <2>7, <3>2, <3>6 DEF LogOf
      <4>2. e \notin Awaited(s)
        BY <1>1, <2>1 DEF Awaited, BusyCalls
      <4> QED BY <4>1, <4>2
    <3> QED BY <2>3, <3>3, <3>4, <3>5, <3>6
  <2>8. LogSet(s)' = LogSet(s) /\ Reported(s)' = Reported(s)
    BY <1>1 DEF LogSet, Reported
  <2>9. \A e : ToLog(s, e)' <=> ToLog(s, e)
    BY <2>8 DEF ToLog, Late, Reported
  <2>10. CallIsLogged(s, y)'
    BY <1>5, <2>4, <2>6, <2>7, <2>8, <2>9 DEF CallIsLogged
  <2> QED BY <1>1, <1>2, <1>5, <1>6, <2>1, <2>10, QuietCall
<1>8. /\ \A c \in Shipments : c \in muddled => c \in muddled'
      /\ muddled' \subseteq Shipments
      /\ \A c \in Shipments : c # s /\ c \in muddled' => c \in muddled
  BY <1>1, <1>2
<1>9. \A e \in Reported(s), f \in row.seen : e.no < f.no => e \in row.seen
  BY <1>5, <1>n
<1>10. row.seen \subseteq Reported(s) /\ row.todo \subseteq row.seen
  BY <1>5, <1>n, <1>d
<1> QED BY <1>1, <1>2, <1>5, <1>6, <1>7, <1>8, <1>9, <1>10, CallMoves

LEMMA FailTrackingKeeps ==
  ASSUME ShippingInv, NEW y \in Trackings, FailTracking(y)
  PROVE  ShippingInv'
<1>s. PICK s : s = tracking[y].shipment
  OBVIOUS
<1>r. PICK row : row = [tracking[y] EXCEPT !.pc = "failed"]
  OBVIOUS
<1>1. tracking[y].pc = "read" /\ UNCHANGED <<carrierAccount, shipment, waybill, eventLog, muddled>>
  BY DEF FailTracking
<1>2. CallFacts(y, s)
  BY <1>1, <1>s, CallUnderWay
<1> USE DEF CallFacts
<1>3. tracking' = [tracking EXCEPT ![y] = row]
  BY <1>r DEF FailTracking
<1>4. row \in TrackingRows /\ row.pc = "failed" /\ row.shipment = s
  BY <1>2, <1>s, <1>r DEF TrackingRows
<1>5. CallBecomes(y, row)
  BY <1>3, <1>4, <1>s DEF CallBecomes
<1>6. ASSUME s \notin muddled' PROVE LogOf(s)'
  <2>1. LogOf(s)
    BY <1>1, <1>2, <1>6
  <2> QED BY <1>1, <1>2, <1>4, <1>5, <2>1, QuietCall
<1>7. /\ \A c \in Shipments : c \in muddled => c \in muddled'
      /\ muddled' \subseteq Shipments
      /\ \A c \in Shipments : c # s /\ c \in muddled' => c \in muddled
  BY <1>1, <1>2
<1> QED BY <1>1, <1>2, <1>4, <1>5, <1>6, <1>7, CallMoves

LEMMA AbandonTrackingKeeps ==
  ASSUME ShippingInv, NEW y \in Trackings, AbandonTracking(y)
  PROVE  ShippingInv'
<1>s. PICK s : s = tracking[y].shipment
  OBVIOUS
<1>r. PICK row : row = [tracking[y] EXCEPT !.pc = "failed", !.todo = {}]
  OBVIOUS
<1>1. tracking[y].pc = "asked" /\ UNCHANGED <<carrierAccount, shipment, waybill, eventLog>>
  BY DEF AbandonTracking
<1>2. CallFacts(y, s)
  BY <1>1, <1>s, CallUnderWay
<1> USE DEF CallFacts
<1>3. tracking' = [tracking EXCEPT ![y] = row] /\ muddled' = muddled \cup {s}
  BY <1>s, <1>r DEF AbandonTracking
<1>4. row \in TrackingRows /\ row.pc = "failed" /\ row.shipment = s
  BY <1>2, <1>s, <1>r DEF TrackingRows
<1>5. CallBecomes(y, row)
  BY <1>3, <1>4, <1>s DEF CallBecomes
<1>6. /\ \A c \in Shipments : c \in muddled => c \in muddled'
      /\ muddled' \subseteq Shipments /\ s \in muddled'
      /\ \A c \in Shipments : c # s /\ c \in muddled' => c \in muddled
  BY <1>2, <1>3
<1> QED BY <1>1, <1>2, <1>4, <1>5, <1>6, CallMoves

LEMMA SyncTrackingKeeps ==
  ASSUME ShippingInv, NEW y \in Trackings, SyncTracking(y)
  PROVE  ShippingInv'
<1>s. PICK s : s = tracking[y].shipment
  OBVIOUS
<1>r. PICK row : row = [tracking[y] EXCEPT !.pc = "over"]
  OBVIOUS
<1>p. PICK parcel : parcel = [shipment[s] EXCEPT !.status = "delivered", !.tracked = shipment[s].tracked \/ FALSE]
  OBVIOUS
<1>1. tracking[y].pc = "asked" /\ tracking[y].todo = {} /\ UNCHANGED <<carrierAccount, waybill, eventLog>>
  BY DEF SyncTracking
<1>2. CallFacts(y, s)
  BY <1>1, <1>s, CallUnderWay
<1> USE DEF CallFacts
<1>3. tracking' = [tracking EXCEPT ![y] = row]
  BY <1>r DEF SyncTracking
<1>4. /\ row \in TrackingRows /\ row.pc = "over" /\ row.shipment = s
      /\ row.seen = tracking[y].seen /\ row.todo = {}
  BY <1>1, <1>2, <1>s, <1>r DEF TrackingRows
<1>5. CallBecomes(y, row)
  BY <1>3, <1>4, <1>s DEF CallBecomes
<1>6. /\ row.seen \subseteq Reported(s) /\ row.todo \subseteq row.seen
      /\ \A e \in Reported(s), f \in row.seen : e.no < f.no => e \in row.seen
  BY <1>1, <1>2, <1>4 DEF ShippingInv, CallsSeeAll
<1>7. ASSUME s \notin muddled, muddled' = muddled PROVE LogOf(s)'
  <2>1. LogOf(s) /\ CallIsLogged(s, y)
    BY <1>2, <1>7
  <2>2. tracking'[y] = row
    BY <1>2, <1>3, ShippingShapes
  <2>3. LogSet(s)' = LogSet(s) /\ Reported(s)' = Reported(s)
    BY <1>1 DEF LogSet, Reported
  <2>4. \A e : ToLog(s, e)' <=> ToLog(s, e)
    BY <2>3 DEF ToLog, Late, Reported
  <2>5. \A e \in tracking[y].seen : ToLog(s, e) => e \in LogSet(s)
    BY <1>1, <2>1 DEF CallIsLogged
  <2>6. CallIsLogged(s, y)'
    BY <1>4, <2>2, <2>3, <2>4, <2>5 DEF CallIsLogged
  <2> QED BY <1>1, <1>2, <1>4, <1>5, <2>1, <2>6, QuietCall
<1>8. CASE \E e \in tracking[y].seen : e.delivered
  <2>1. \/ shipment' = UpdateShipmentStatus(s, "delivered", FALSE) /\ muddled' = muddled
        \/ muddled' = muddled \cup {s} /\ shipment' = shipment
    BY <1>8, <1>s DEF SyncTracking
  <2>2. CASE muddled' = muddled \cup {s} /\ shipment' = shipment
    <3>1. /\ \A c \in Shipments : c \in muddled => c \in muddled'
          /\ muddled' \subseteq Shipments /\ s \in muddled'
          /\ \A c \in Shipments : c # s /\ c \in muddled' => c \in muddled
      BY <1>2, <2>2
    <3> QED BY <1>1, <1>2, <1>4, <1>5, <1>6, <2>2, <3>1, CallMoves
  <2>3. CASE shipment' = UpdateShipmentStatus(s, "delivered", FALSE) /\ muddled' = muddled
    <3>1. shipment' = [shipment EXCEPT ![s] = parcel]
      <4>1. shipment' = [shipment EXCEPT ![s].status = "delivered", ![s].tracked = @ \/ FALSE]
        BY <2>3 DEF UpdateShipmentStatus
      <4>2. s \in DOMAIN shipment
        BY <1>2, ShippingShapes
      <4> QED BY <1>p, <4>1, <4>2
    <3>2. /\ parcel \in ShipmentRows /\ parcel.pc = shipment[s].pc /\ parcel.status = "delivered"
          /\ parcel.tracked = shipment[s].tracked
      BY <1>2, <1>p DEF ShipmentRows
    <3>3. \E e \in Reported(s) : e.delivered
      BY <1>4, <1>6, <1>8
    <3>4. /\ \A c \in Shipments : c \in muddled => c \in muddled'
          /\ muddled' \subseteq Shipments
          /\ \A c \in Shipments : c # s /\ c \in muddled' => c \in muddled
      BY <1>2, <2>3
    <3>5. s \notin muddled' => LogOf(s)'
      BY <1>7, <2>3
    <3> QED BY <1>1, <1>2, <1>4, <1>5, <1>6, <3>1, <3>2, <3>3, <3>4, <3>5, CallMoves
  <2> QED BY <2>1, <2>2, <2>3
<1>9. CASE ~\E e \in tracking[y].seen : e.delivered
  <2>1. muddled' = muddled /\ shipment' = shipment
    BY <1>9 DEF SyncTracking
  <2>2. /\ \A c \in Shipments : c \in muddled => c \in muddled'
        /\ muddled' \subseteq Shipments
        /\ \A c \in Shipments : c # s /\ c \in muddled' => c \in muddled
    BY <1>2, <2>1
  <2>3. s \notin muddled' => LogOf(s)'
    BY <1>7, <2>1
  <2>4. ~\E e \in row.seen : e.delivered
    BY <1>4, <1>9
  <2> QED BY <1>1, <1>2, <1>4, <1>5, <1>6, <2>1, <2>2, <2>3, <2>4, CallMoves
<1> QED BY <1>8, <1>9

LEMMA InsertEventKeeps ==
  ASSUME ShippingInv, NEW y \in Trackings, NEW e \in CarrierEvents, InsertEvent(y, e)
  PROVE  ShippingInv'
<1>s. PICK s : s = tracking[y].shipment
  OBVIOUS
<1>r. PICK row : row = [tracking[y] EXCEPT !.todo = tracking[y].todo \ {e}]
  OBVIOUS
<1>1. tracking[y].pc = "asked" /\ e \in tracking[y].todo /\ UNCHANGED <<carrierAccount, shipment, waybill>>
  BY DEF InsertEvent
<1>2. CallFacts(y, s)
  BY <1>1, <1>s, CallUnderWay
<1> USE DEF CallFacts
<1>3. tracking' = [tracking EXCEPT ![y] = row]
  BY <1>r DEF InsertEvent
<1>4. /\ row \in TrackingRows /\ row.pc = "asked" /\ row.shipment = s
      /\ row.seen = tracking[y].seen /\ row.todo = tracking[y].todo \ {e}
  BY <1>1, <1>2, <1>s, <1>r DEF TrackingRows
<1>5. CallBecomes(y, row)
  BY <1>3, <1>4, <1>s DEF CallBecomes
<1>6. /\ tracking[y].seen \subseteq Reported(s) /\ tracking[y].todo \subseteq tracking[y].seen
      /\ \A g \in Reported(s), f \in tracking[y].seen : g.no < f.no => g \in tracking[y].seen
  BY <1>1, <1>2 DEF ShippingInv, CallsSeeAll
<1>7. /\ row.seen \subseteq Reported(s) /\ row.todo \subseteq row.seen
      /\ \A g \in Reported(s), f \in row.seen : g.no < f.no => g \in row.seen
  BY <1>4, <1>6
<1>8. \/ eventLog' = [eventLog EXCEPT ![s] = Append(@, e)] /\ UNCHANGED muddled
      \/ muddled' = muddled \cup {s} /\ UNCHANGED eventLog
  BY <1>s DEF InsertEvent
<1>9. CASE muddled' = muddled \cup {s} /\ UNCHANGED eventLog
  <2>1. /\ \A c \in Shipments : c \in muddled => c \in muddled'
        /\ muddled' \subseteq Shipments /\ s \in muddled'
        /\ \A c \in Shipments : c # s /\ c \in muddled' => c \in muddled
    BY <1>2, <1>9
  <2> QED BY <1>1, <1>2, <1>4, <1>5, <1>7, <1>9, <2>1, CallMoves
<1>10. CASE eventLog' = [eventLog EXCEPT ![s] = Append(@, e)] /\ UNCHANGED muddled
  <2>0. PICK log : log = Append(eventLog[s], e)
    OBVIOUS
  <2>1. /\ Range(log) = LogSet(s) \cup {e} /\ DOMAIN eventLog[s] = 1..Len(eventLog[s])
        /\ DOMAIN log = 1..(Len(eventLog[s]) + 1) /\ Len(eventLog[s]) \in Nat
        /\ log[Len(eventLog[s]) + 1] = e
        /\ \A i \in 1..Len(eventLog[s]) : log[i] = eventLog[s][i]
    BY <1>2, <2>0, RangeOfAppend DEF LogSet
  <2>2. log \in Seq(CarrierEvents) /\ eventLog' = [eventLog EXCEPT ![s] = log]
    BY <1>2, <1>10, <2>0
  <2>3. Range(log) \subseteq Reported(s)
    BY <1>1, <1>2, <1>6, <2>1 DEF LogSet
  <2>4. eventLog'[s] = log /\ tracking'[y] = row /\ \A x \in Trackings : x # y => tracking'[x] = tracking[x]
    BY <1>2, <1>3, <2>2, ShippingShapes
  <2>5. LogSet(s)' = LogSet(s) \cup {e} /\ Reported(s)' = Reported(s)
    BY <1>1, <2>1, <2>4 DEF LogSet, Reported
  <2>6. ASSUME s \notin muddled' PROVE LogOf(s)'
    <3>1. /\ LogOf(s) /\ CallIsLogged(s, y) /\ \A x \in BusyCalls(s) : x = y
      BY <1>2, <1>10, <2>6
    <3>2. CallsOf(s)' = CallsOf(s) /\ BusyCalls(s)' = BusyCalls(s)
      BY <1>1, <1>4, <1>s, <2>4 DEF CallsOf, BusyCalls
    <3>3. \A g : ToLog(s, g)' <=> ToLog(s, g)
      BY <2>5 DEF ToLog, Late, Reported
    <3>4. tracking[y].todo \cap LogSet(s) = {}
      BY <1>1, <3>1 DEF CallIsLogged
    <3>5. e \notin LogSet(s)
      BY <1>1, <3>4
    <3>6. \A i, j \in DOMAIN eventLog'[s] : eventLog'[s][i] = eventLog'[s][j] => i = j
      <4>1. \A i \in 1..(Len(eventLog[s]) + 1) : i \in 1..Len(eventLog[s]) \/ i = Len(eventLog[s]) + 1
        BY <2>1
      <4>2. \A i \in 1..Len(eventLog[s]) : eventLog[s][i] \in LogSet(s)
        BY <2>1 DEF LogSet, Range
      <4>3. \A i, j \in 1..Len(eventLog[s]) : eventLog[s][i] = eventLog[s][j] => i = j
        BY <2>1, <3>1 DEF LogOf
      <4> QED BY <2>1, <2>4, <3>5, <4>1, <4>2, <4>3
    <3>7. \A g \in tracking[y].seen : ToLog(s, g) => g \in LogSet(s) \cup tracking[y].todo
      BY <1>1, <3>1 DEF CallIsLogged
    <3>8. ASSUME NEW x \in CallsOf(s)' PROVE CallIsLogged(s, x)'
      <4>1. CASE x = y
        <5>1. row.todo \cap LogSet(s)' = {}
          BY <1>4, <2>5, <3>4
        <5>2. \A g \in row.seen : ToLog(s, g) => g \in LogSet(s)' \cup row.todo
          BY <1>4, <2>5, <3>7
        <5> QED BY <1>4, <2>4, <3>3, <4>1, <5>1, <5>2 DEF CallIsLogged
      <4>2. CASE x # y
        <5>1. x \in CallsOf(s) /\ tracking'[x] = tracking[x]
          BY <2>4, <3>2, <4>2 DEF CallsOf
        <5>2. tracking[x].pc = "over"
          BY <3>1, <4>2, <5>1 DEF BusyCalls, CallsOf
        <5>3. CallIsLogged(s, x)
          BY <3>1, <5>1 DEF LogOf
        <5>4. \A g \in tracking[x].seen : ToLog(s, g) => g \in LogSet(s) \cup tracking[x].todo
          BY <5>2, <5>3 DEF CallIsLogged
        <5> QED BY <2>5, <3>3, <5>1, <5>2, <5>4 DEF CallIsLogged
      <4> QED BY <4>1, <4>2
    <3>9. \A g \in tracking[y].todo : g \in LogSet(s)' \cup Awaited(s)'
      <4> SUFFICES ASSUME NEW g \in tracking[y].todo, g # e PROVE g \in Awaited(s)'
        BY <2>5
      <4>1. g \in CarrierEvents /\ g \in row.todo
        BY <1>2, <1>4, ShippingShapes
      <4> QED BY <1>2, <1>4, <2>4, <3>2, <4>1 DEF Awaited
    <3>10. ASSUME NEW f \in LogSet(s)', NEW g \in Reported(s), g.no < f.no, ToLog(s, g)
           PROVE  g \in LogSet(s)' \cup Awaited(s)'
      <4>1. CASE f = e
        <5>1. g \in tracking[y].seen
          BY <1>1, <1>6, <3>10, <4>1
        <5> QED BY <2>5, <3>7, <3>9, <3>10, <5>1
      <4>2. CASE f \in LogSet(s)
        <5>1. g \in LogSet(s) \cup Awaited(s)
          BY <3>1, <3>10, <4>2 DEF LogOf
        <5>2. g \in Awaited(s) => g \in tracking[y].todo
          BY <3>1 DEF Awaited, BusyCalls
        <5> QED BY <2>5, <3>9, <5>1, <5>2
      <4> QED BY <2>5, <4>1, <4>2
    <3>11. \A x, z \in BusyCalls(s)' : x = z
      BY <3>1, <3>2
    <3> QED BY <2>5, <3>3, <3>6, <3>8, <3>10, <3>11 DEF LogOf
  <2>7. /\ \A c \in Shipments : c \in muddled => c \in muddled'
        /\ muddled' \subseteq Shipments
        /\ \A c \in Shipments : c # s /\ c \in muddled' => c \in muddled
    BY <1>2, <1>10
  <2> QED BY <1>1, <1>2, <1>4, <1>5, <1>7, <2>2, <2>3, <2>6, <2>7, CallMoves
<1> QED BY <1>8, <1>9, <1>10

\* Every step of bookings, the carrier and tracking keeps ShippingInv.
THEOREM ShippingInductive == ShippingInv /\ [ShippingNext]_shippingVars => ShippingInv'
<1> SUFFICES ASSUME ShippingInv, [ShippingNext]_shippingVars PROVE ShippingInv'
  OBVIOUS
<1>1. ASSUME UNCHANGED <<shipment, waybill, eventLog, tracking, muddled>>,
             carrierAccount' \in {"none", "", "aramex"}
      PROVE  ShippingInv'
  <2>1. ShippingTypeOK'
    BY <1>1 DEF ShippingInv, ShippingTypeOK
  <2>2. RowTellsCarrier'
    BY <1>1 DEF ShippingInv, RowTellsCarrier
  <2>3. \A s : CallsOf(s)' = CallsOf(s) /\ Reported(s)' = Reported(s) /\ LogSet(s)' = LogSet(s)
    BY <1>1 DEF CallsOf, Reported, LogSet
  <2>4. BookedFirst' /\ EventsNumbered'
    BY <1>1, <2>3 DEF ShippingInv, BookedFirst, EventsNumbered
  <2>5. CallsSeeAll'
    BY <1>1, <2>3 DEF ShippingInv, CallsSeeAll
  <2>6. \A s \in Shipments \ muddled' : LogOf(s)'
    BY <1>1, <2>3, LogStands DEF ShippingInv
  <2> QED BY <2>1, <2>2, <2>4, <2>5, <2>6 DEF ShippingInv
<1>2. ASSUME NEW setting \in {"", "aramex"}, AddAccount(setting) PROVE ShippingInv'
  BY <1>1, <1>2 DEF AddAccount, InsertAccount
<1>3. CASE UNCHANGED shippingVars
  BY <1>1, <1>3 DEF shippingVars, ShippingInv, ShippingTypeOK
<1>4. ASSUME NEW y \in Trackings, ShowTracking(y) PROVE ShippingInv'
  BY <1>4, GetShipmentByIDKeeps DEF ShowTracking
<1> QED BY <1>2, <1>3, <1>4, BookingKeeps, ReportEventKeeps, GetTrackingKeeps, FailTrackingKeeps,
           SyncTrackingKeeps, AbandonTrackingKeeps, InsertEventKeeps DEF ShippingNext

\* ShippingInv holds in every state.
THEOREM ShippingInvHolds == ShippingSpec => []ShippingInv
  BY ShippingInitSafe, ShippingInductive, PTL DEF ShippingSpec

\* The row and the log of a shipment say what the carrier has done, each event
\* once, and after a call that ended all it was shown (SyncTracking).
THEOREM ShipmentsTellCarrier == ShippingSpec => []ShipmentTellsCarrier
<1>1. ShippingInv => ShipmentTellsCarrier
  <2> SUFFICES ASSUME ShippingInv PROVE LogTellsCarrier
    BY DEF ShippingInv, ShipmentTellsCarrier
  <2> SUFFICES ASSUME NEW s \in Shipments \ muddled
      PROVE  /\ \A i, j \in DOMAIN eventLog[s] : eventLog[s][i] = eventLog[s][j] => i = j
             /\ \A y \in Trackings : tracking[y].pc = "over" /\ tracking[y].shipment = s =>
                  \A e \in tracking[y].seen : e.time > 0 /\ ~Late(s, e) => Logged(s, e) = 1
    BY DEF LogTellsCarrier
  <2>1. LogOf(s)
    BY DEF ShippingInv
  <2>2. \A i, j \in DOMAIN eventLog[s] : eventLog[s][i] = eventLog[s][j] => i = j
    BY <2>1 DEF LogOf
  <2>3. ASSUME NEW y \in Trackings, tracking[y].pc = "over", tracking[y].shipment = s,
               NEW e \in tracking[y].seen, e.time > 0, ~Late(s, e)
        PROVE  Logged(s, e) = 1
    <3>1. y \in CallsOf(s)
      BY <2>3 DEF CallsOf
    <3>2. tracking[y].todo = {}
      BY <2>3, <3>1 DEF ShippingInv, CallsSeeAll
    <3>3. CallIsLogged(s, y)
      BY <2>1, <3>1 DEF LogOf
    <3>4. e \in LogSet(s)
      BY <2>3, <3>2, <3>3 DEF CallIsLogged, ToLog
    <3>5. PICK i \in DOMAIN eventLog[s] : eventLog[s][i] = e
      BY <3>4 DEF LogSet, Range
    <3>6. {j \in DOMAIN eventLog[s] : eventLog[s][j] = e} = {i}
      BY <2>2, <3>5
    <3> QED BY <3>6, FS_Singleton DEF Logged
  <2> QED BY <2>2, <2>3
<1> QED BY <1>1, ShippingInvHolds, PTL

-----------------------------------------------------------------------------
(* Catalogue                                                               *)

\* A slug can always be found: N products, of which the one that asks does not
\* count, cannot take N + 1 numbers.
LEMMA SlugIsFound ==
  ASSUME CatalogueShapes, NEW base \in NameRows, NEW p \in Products
  PROVE  LET slug == ResolveUniqueProductSlug(base, p)
         IN  slug \in SlugRows /\ slug.base = base /\ slug.no \in 0..NProducts /\ ~SlugTaken(slug, p)
<1> DEFINE free == {n \in 0..NProducts : ~SlugTaken([base |-> base, no |-> n], p)}
           T == {product[q].slug.no : q \in Products}
           f == [q \in Products |-> product[q].slug.no]
<1>1. NProducts \in Nat
  BY CatalogueAssumption
<1>2. free # {}
  <2> SUFFICES ASSUME free = {} PROVE FALSE
    OBVIOUS
  <2>1. \A n \in 0..NProducts : SlugTaken([base |-> base, no |-> n], p)
    OBVIOUS
  <2>2. 0..NProducts \subseteq T
    <3> SUFFICES ASSUME NEW n \in 0..NProducts PROVE n \in T
      OBVIOUS
    <3>1. PICK q \in Products : product[q].slug = [base |-> base, no |-> n]
      BY <2>1 DEF SlugTaken
    <3>2. product[q].slug.no = n
      BY <3>1
    <3> QED BY <3>2
  <2>3. f \in Surjection(Products, T)
    BY DEF Surjection
  <2>4. IsFiniteSet(Products) /\ Cardinality(Products) = NProducts
    BY <1>1, FS_Interval DEF Products
  <2> HIDE DEF T, f
  <2>5. IsFiniteSet(T) /\ Cardinality(T) <= NProducts
    BY <2>3, <2>4, FS_Surjection
  <2>6. Cardinality(0..NProducts) = NProducts + 1
    BY <1>1, FS_Interval
  <2>7. Cardinality(0..NProducts) <= Cardinality(T)
    BY <2>2, <2>5, FS_Subset
  <2>8. Cardinality(T) \in Nat
    BY <2>5, FS_CardinalityType
  <2> QED BY <1>1, <2>5, <2>6, <2>7, <2>8
<1>3. Min(free) \in free
  <2>1. free \subseteq Nat
    BY <1>1
  <2> HIDE DEF free
  <2> QED BY <1>2, <2>1, MinIn
<1>4. Min(free) \in Nat /\ Min(free) \in 0..NProducts /\ ~SlugTaken([base |-> base, no |-> Min(free)], p)
  BY <1>1, <1>3
<1>5. ResolveUniqueProductSlug(base, p) = [base |-> base, no |-> Min(free)]
  BY DEF ResolveUniqueProductSlug
<1> HIDE DEF free
<1> QED BY <1>4, <1>5 DEF SlugRows

\* The names of products are names, and those of requests and copies not empty.
LEMMA NamesAreRows ==
  /\ NoName \in NameRows /\ NoSlug \in SlugRows
  /\ \A n \in Names : NameOf(n) \in NameRows /\ NameOf(n) # NoName
  /\ \A name \in NameRows : DraftName(name) \in NameRows /\ DraftName(name) # NoName
<1>1. NoName \in NameRows
  BY DEF NoName, NameRows
<1>2. NoSlug \in SlugRows
  BY <1>1 DEF NoSlug, SlugRows
<1>3. ASSUME NEW n \in Names PROVE NameOf(n) \in NameRows /\ NameOf(n) # NoName
  <2>1. n # "" /\ NameOf(n).of = n /\ NoName.of = ""
    BY CatalogueAssumption DEF NameOf, NoName
  <2>2. NameOf(n) # NoName
    BY <2>1
  <2> QED BY <2>2 DEF NameOf, NameRows
<1>4. ASSUME NEW name \in NameRows PROVE DraftName(name) \in NameRows /\ DraftName(name) # NoName
  <2>1. CASE name = NoName
    <3>1. DraftName(name) = [of |-> "untitled", copies |-> 1]
      BY <2>1 DEF DraftName
    <3>2. DraftName(name).copies = 1 /\ NoName.copies = 0
      BY <3>1 DEF NoName
    <3>3. [of |-> "untitled", copies |-> 1] \in NameRows
      BY DEF NameRows
    <3> QED BY <3>1, <3>2, <3>3
  <2>2. CASE name # NoName
    <3> DEFINE copy == [name EXCEPT !.copies = name.copies + 1]
    <3>1. DraftName(name) = copy
      BY <2>2 DEF DraftName
    <3>2. name.of \in {"", "untitled"} \cup Names /\ name.copies \in Nat
      BY DEF NameRows
    <3>3. name = [of |-> name.of, copies |-> name.copies]
      BY DEF NameRows
    <3>4. copy = [of |-> name.of, copies |-> name.copies + 1]
      BY <3>3
    <3>5. name.copies + 1 \in Nat /\ name.copies + 1 # 0
      <4>1. \A k \in Nat : k + 1 \in Nat /\ k + 1 # 0
        OBVIOUS
      <4> QED BY <3>2, <4>1
    <3>6. copy.copies = name.copies + 1 /\ NoName.copies = 0
      BY <3>4 DEF NoName
    <3>7. copy \in NameRows
      BY <3>2, <3>4, <3>5 DEF NameRows
    <3> HIDE DEF copy
    <3> QED BY <3>1, <3>5, <3>6, <3>7
  <2> QED BY <2>1, <2>2
<1> QED BY <1>1, <1>2, <1>3, <1>4

LEMMA NewEditIsRow ==
  /\ NewEdit \in EditRows /\ NewEdit.todo = <<>> /\ NewEdit.pc = "new"
  /\ \A pc \in {"done", "slugTaken", "failed"} :
       Answered(pc) \in EditRows /\ Answered(pc).pc = pc /\ RowSound(Answered(pc))
<1>1. 1 \in Products
  <2>1. NProducts \in Nat \ {0}
    BY CatalogueAssumption
  <2> QED BY <2>1 DEF Products
<1>2. NewEdit \in EditRows /\ NewEdit.todo = <<>> /\ NewEdit.pc = "new"
  BY <1>1, NamesAreRows DEF NewEdit, EditRows, Keep
<1>3. ASSUME NEW pc \in {"done", "slugTaken", "failed"}
      PROVE  Answered(pc) \in EditRows /\ Answered(pc).pc = pc
  BY <1>2 DEF Answered, EditRows
<1> QED BY <1>2, <1>3 DEF RowSound

LEMMA CatalogueInitSafe == CatalogueInit => CatalogueInv
<1> SUFFICES ASSUME CatalogueInit PROVE CatalogueInv
  OBVIOUS
<1>1. /\ \A e \in Edits : edit[e] = NewEdit /\ edit[e].pc = "new"
      /\ edit \in [Edits -> EditRows]
  BY NewEditIsRow DEF CatalogueInit
<1>2. NewProduct \in ProductRows
  BY NamesAreRows DEF NewProduct, ProductRows
<1>3. CatalogueShapes
  BY <1>1, <1>2 DEF CatalogueInit, CatalogueShapes, RowSound
<1>4. MembershipsAsAsked
  BY DEF CatalogueInit, MembershipsAsAsked
<1>5. DeletesSeeAll
  BY <1>1 DEF DeletesSeeAll, Replacing
<1>6. \A e \in Edits : SlugSound(e)
  BY <1>1 DEF SlugSound
<1> QED BY <1>3, <1>4, <1>5, <1>6 DEF CatalogueInv

LEMMA EditIsRow ==
  ASSUME CatalogueShapes, NEW e \in Edits
  PROVE  /\ edit[e] \in EditRows /\ RowSound(edit[e])
         /\ edit[e].id \in Products /\ edit[e].name \in NameRows /\ edit[e].slug \in SlugRows
         /\ edit[e].status \in {Keep, "listed"} /\ edit[e].cats \subseteq Categories
         /\ edit[e].todo \in Seq(Replacements) /\ edit[e].gone \subseteq MembershipPairs
<1>1. edit[e] \in EditRows /\ RowSound(edit[e])
  BY DEF CatalogueShapes
<1> QED BY <1>1 DEF EditRows

\* What a replacement that is under way is about.
LEMMA DueIsReplacement ==
  ASSUME CatalogueShapes, NEW e \in Edits, edit[e].pc \in {"syncing", "cleared"}
  PROVE  /\ Due(e) \in Replacements /\ Due(e).add \subseteq Due(e).scope
         /\ Due(e).scope \subseteq MembershipPairs /\ edit[e].todo # <<>>
         /\ edit[e].pc = "cleared" => edit[e].gone \subseteq Due(e).scope
<1>1. edit[e].todo \in Seq(Replacements) /\ edit[e].todo # <<>>
  BY EditIsRow DEF RowSound
<1>2. Head(edit[e].todo) \in Replacements
  BY <1>1
<1>3. Due(e) \in Replacements
  BY <1>2 DEF Due
<1>4. edit[e].pc = "cleared" => edit[e].gone \subseteq Due(e).scope
  BY EditIsRow DEF RowSound, Due
<1> QED BY <1>1, <1>3, <1>4 DEF Replacements

\* Memberships come in, from a group or a product that is made; requests that
\* go on replacing have them mixed when they are of their scope.
LEMMA MembersJoin ==
  ASSUME MembershipsAsAsked, DeletesSeeAll, NEW pairs,
         \A f \in Edits : Replacing(f)' => Replacing(f) /\ edit'[f] = edit[f],
         member' = member \cup pairs, asked' = asked \cup pairs,
         \A m \in mixed : m \in mixed',
         \A m \in pairs, f \in Edits : Replacing(f) /\ Replacing(f)' /\ m \in Due(f).scope => m \in mixed'
  PROVE  MembershipsAsAsked' /\ DeletesSeeAll'
<1>1. MembershipsAsAsked'
  BY DEF MembershipsAsAsked
<1>2. \A f \in Edits : Replacing(f)' => Due(f)' = Due(f)
  BY DEF Due
<1>3. ASSUME NEW f \in Edits, Replacing(f)', NEW m \in member' \cap Due(f).scope
      PROVE  m \in mixed' \/ m \in edit'[f].gone
  <2>1. Replacing(f) /\ edit'[f] = edit[f]
    BY <1>3
  <2>2. CASE m \in pairs
    BY <1>3, <2>1, <2>2
  <2>3. CASE m \in member
    BY <1>3, <2>1, <2>3 DEF DeletesSeeAll
  <2> QED BY <2>2, <2>3
<1>4. ASSUME NEW f \in Edits, NEW g \in Edits, f # g, Replacing(f)', Replacing(g)'
      PROVE  Due(f).scope \cap Due(g).scope \subseteq mixed'
  <2>1. Replacing(f) /\ Replacing(g)
    BY <1>4
  <2>2. Due(f).scope \cap Due(g).scope \subseteq mixed
    BY <1>4, <2>1 DEF DeletesSeeAll
  <2> QED BY <2>2
<1> QED BY <1>1, <1>2, <1>3, <1>4 DEF DeletesSeeAll

\* What was found out about a slug stands while no other is written.
LEMMA SlugStands ==
  ASSUME NEW f \in Edits, SlugSound(f), edit'[f] = edit[f], edit[f].id \in Products,
         f \in overtaken => f \in overtaken',
         \A p \in Products : Exists(p) => Exists(p)',
         edit[f].pc = "resolved" =>
           \/ f \in overtaken'
           \/ \A q \in Products : product'[q].slug = product[q].slug \/ product'[q].slug = NoSlug
  PROVE  SlugSound(f)'
<1>1. edit[f].pc = "slugTaken" => f \in overtaken'
  BY DEF SlugSound
<1>2. ASSUME edit[f].pc = "resolved"
      PROVE  /\ edit[f].slug.base = edit[f].name
             /\ edit[f].name = NoName \/ edit[f].status = Keep => Exists(edit[f].id)'
  BY <1>2 DEF SlugSound
<1>3. ASSUME edit[f].pc = "resolved", edit[f].name # NoName, f \notin overtaken',
             NEW q \in Products, q # edit[f].id
      PROVE  product'[q].slug # edit[f].slug
  <2>1. product[q].slug # edit[f].slug
    BY <1>3 DEF SlugSound, SlugTaken
  <2>2. NoSlug # edit[f].slug
    BY <1>3 DEF SlugSound, NoSlug
  <2> QED BY <1>3, <2>1, <2>2
<1>4. ASSUME edit[f].pc = "resolved", edit[f].name # NoName, f \notin overtaken'
      PROVE  ~SlugTaken(edit[f].slug, edit[f].id)'
  BY <1>3, <1>4 DEF SlugTaken
<1>5. SlugTaken(edit[f].slug, edit[f].id)' <=> \E q \in Products \ {edit[f].id} : product'[q].slug = edit[f].slug
  BY DEF SlugTaken
<1> QED BY <1>1, <1>2, <1>3, <1>5 DEF SlugSound, SlugTaken, Exists

\* A request moves on, and nothing else does.
LEMMA EditMoves ==
  ASSUME CatalogueInv, NEW e \in Edits, NEW row \in EditRows, RowSound(row), row.pc # "cleared",
         edit' = [edit EXCEPT ![e] = row],
         UNCHANGED <<product, member, asked, mixed, overtaken>>,
         SlugSound(e)'
  PROVE  CatalogueInv'
<1> USE DEF CatalogueInv
<1>1. edit'[e] = row /\ \A f \in Edits : f # e => edit'[f] = edit[f]
  BY DEF CatalogueShapes
<1>2. CatalogueShapes'
  BY <1>1 DEF CatalogueShapes
<1>3. \A f \in Edits : Replacing(f)' => Replacing(f) /\ edit'[f] = edit[f]
  BY <1>1 DEF Replacing
<1>4. PICK pairs : pairs = {}
  OBVIOUS
<1>5. MembershipsAsAsked' /\ DeletesSeeAll'
  <2>1. member' = member \cup pairs /\ asked' = asked \cup pairs
    BY <1>4
  <2>2. \A m \in mixed : m \in mixed'
    OBVIOUS
  <2>3. \A m \in pairs, f \in Edits : Replacing(f) /\ Replacing(f)' /\ m \in Due(f).scope => m \in mixed'
    BY <1>4
  <2>4. MembershipsAsAsked /\ DeletesSeeAll
    OBVIOUS
  <2> QED BY <1>3, <2>1, <2>2, <2>3, <2>4, MembersJoin
<1>6. ASSUME NEW f \in Edits PROVE SlugSound(f)'
  <2>1. CASE f # e
    <3>1. edit'[f] = edit[f] /\ edit[f].id \in Products /\ SlugSound(f)
      BY <1>1, <2>1, EditIsRow
    <3>2. \A p \in Products : Exists(p) => Exists(p)'
      BY DEF Exists
    <3>3. \A q \in Products : product'[q].slug = product[q].slug
      OBVIOUS
    <3> QED BY <3>1, <3>2, <3>3, SlugStands
  <2> QED BY <2>1
<1> QED BY <1>2, <1>5, <1>6

\* A request is over: there is nothing to say of it but that its slug was lost.
LEMMA EditEnds ==
  ASSUME CatalogueInv, NEW e \in Edits, NEW pc \in {"slugTaken", "failed"},
         edit' = [edit EXCEPT ![e] = Answered(pc)],
         UNCHANGED <<product, member, asked, mixed, overtaken>>,
         pc = "slugTaken" => e \in overtaken
  PROVE  CatalogueInv'
<1>1. Answered(pc) \in EditRows /\ Answered(pc).pc = pc /\ RowSound(Answered(pc))
  BY NewEditIsRow
<1>2. edit'[e] = Answered(pc)
  BY DEF CatalogueInv, CatalogueShapes
<1>3. SlugSound(e)'
  BY <1>1, <1>2 DEF SlugSound
<1> QED BY <1>1, <1>3, EditMoves

LEMMA CreateKeeps ==
  ASSUME CatalogueInv, NEW e \in Edits, NEW p \in Products, NEW name \in NameRows, name # NoName,
         NEW cats, cats \subseteq Categories, CreateProductWithVariants(e, p, name, cats)
  PROVE  CatalogueInv'
<1>1. PICK slug : slug = ResolveUniqueProductSlug(name, p)
  OBVIOUS
<1>2. slug \in SlugRows /\ slug.base = name /\ ~SlugTaken(slug, p)
  BY <1>1, SlugIsFound DEF CatalogueInv
<1>3. PICK row : row = [NewEdit EXCEPT !.pc = "resolved", !.id = p, !.name = name, !.status = "listed",
                                       !.slug = slug, !.cats = cats]
  OBVIOUS
<1>4. /\ row \in EditRows /\ row.pc = "resolved" /\ row.id = p /\ row.name = name
      /\ row.status = "listed" /\ row.slug = slug
  BY <1>2, <1>3, NewEditIsRow DEF EditRows
<1>5. /\ edit' = [edit EXCEPT ![e] = row]
      /\ UNCHANGED <<product, member, asked, mixed, overtaken>>
  BY <1>1, <1>3 DEF CreateProductWithVariants
<1>6. edit'[e] = row
  BY <1>5 DEF CatalogueInv, CatalogueShapes
<1>7. ~SlugTaken(row.slug, row.id)'
  BY <1>2, <1>4, <1>5 DEF SlugTaken
<1>8. SlugSound(e)'
  BY <1>2, <1>4, <1>6, <1>7 DEF SlugSound, SlugTaken, Keep
<1> QED BY <1>4, <1>5, <1>8, EditMoves DEF RowSound
LEMMA TwoSyncs ==
  ASSUME NEW S, NEW s \in Seq(S), NEW t \in Seq(S)
  PROVE  s \o t \in Seq(S) /\ (s # <<>> \/ t # <<>> => s \o t # <<>>)
<1>1. s \o t \in Seq(S) /\ Len(s \o t) = Len(s) + Len(t) /\ Len(s) \in Nat /\ Len(t) \in Nat
  OBVIOUS
<1>2. ASSUME s # <<>> \/ t # <<>> PROVE Len(s) # 0 \/ Len(t) # 0
  BY <1>2
<1>3. \A k, l \in Nat : k # 0 \/ l # 0 => k + l # 0
  OBVIOUS
<1>4. Len(<<>>) = 0
  OBVIOUS
<1> QED BY <1>1, <1>2, <1>3, <1>4

LEMMA ReplacementsAreSound ==
  ASSUME NEW scope, NEW add, scope \subseteq MembershipPairs, add \subseteq scope
  PROVE  /\ Replacement(scope, add) \in Replacements
         /\ <<Replacement(scope, add)>> \in Seq(Replacements)
         /\ <<Replacement(scope, add)>> # <<>>
<1>1. Replacement(scope, add) \in Replacements
  BY DEF Replacement, Replacements
<1> HIDE DEF Replacement, Replacements
<1> QED BY <1>1

LEMMA SyncIsSound ==
  ASSUME NEW kind, kind \subseteq Groups, NEW p \in Products,
         NEW groups, groups = {Keep} \/ groups \subseteq kind
  PROVE  /\ SyncOf(kind, p, groups) \in Seq(Replacements)
         /\ groups # {Keep} => SyncOf(kind, p, groups) # <<>>
<1>1. CASE groups = {Keep}
  BY <1>1 DEF SyncOf
<1>2. CASE groups # {Keep}
  <2>1. kind \X {p} \subseteq MembershipPairs
    BY DEF MembershipPairs
  <2>2. groups \X {p} \subseteq kind \X {p}
    BY <1>2
  <2> QED BY <1>2, <2>1, <2>2, ReplacementsAreSound DEF SyncOf
<1> QED BY <1>1, <1>2

LEMMA UpdateKeeps ==
  ASSUME CatalogueInv, NEW e \in Edits, NEW p \in Products, NEW name \in NameRows,
         NEW status \in {Keep, "listed"},
         NEW cols, cols = {Keep} \/ cols \subseteq Collections,
         NEW cats, cats = {Keep} \/ cats \subseteq Categories,
         UpdateProduct(e, p, name, status, cols, cats)
  PROVE  CatalogueInv'
<1>1. PICK todo : todo = SyncOf(Collections, p, cols) \o SyncOf(Categories, p, cats)
  OBVIOUS
<1>2. todo \in Seq(Replacements) /\ (cols # {Keep} \/ cats # {Keep} => todo # <<>>)
  <2>1. Collections \subseteq Groups /\ Categories \subseteq Groups
    BY DEF Groups
  <2>2. /\ SyncOf(Collections, p, cols) \in Seq(Replacements)
        /\ cols # {Keep} => SyncOf(Collections, p, cols) # <<>>
    BY <2>1, SyncIsSound
  <2>3. /\ SyncOf(Categories, p, cats) \in Seq(Replacements)
        /\ cats # {Keep} => SyncOf(Categories, p, cats) # <<>>
    BY <2>1, SyncIsSound
  <2> QED BY <1>1, <2>2, <2>3, TwoSyncs
<1>3. PICK pc : pc = IF name = NoName /\ status = Keep THEN "syncing" ELSE "resolved"
  OBVIOUS
<1>4. PICK slug : slug = IF name = NoName THEN NoSlug ELSE ResolveUniqueProductSlug(name, p)
  OBVIOUS
<1>5. slug \in SlugRows /\ slug.base = name /\ (name # NoName => ~SlugTaken(slug, p))
  <2>1. CASE name = NoName
    BY <1>4, <2>1, NamesAreRows DEF NoSlug
  <2>2. CASE name # NoName
    BY <1>4, <2>2, SlugIsFound DEF CatalogueInv
  <2> QED BY <2>1, <2>2
<1>6. PICK row : row = [NewEdit EXCEPT !.pc = pc, !.id = p, !.name = name, !.status = status,
                                       !.slug = slug, !.todo = todo]
  OBVIOUS
<1>7. /\ row \in EditRows /\ row.pc = pc /\ row.id = p /\ row.name = name /\ row.status = status
      /\ row.slug = slug /\ row.todo = todo
  BY <1>2, <1>3, <1>5, <1>6, NewEditIsRow DEF EditRows
<1>8. /\ edit' = [edit EXCEPT ![e] = row] /\ Exists(p)
      /\ UNCHANGED <<product, member, asked, mixed, overtaken>>
      /\ ~(name = NoName /\ status = Keep /\ cols = {Keep} /\ cats = {Keep})
  BY <1>1, <1>3, <1>4, <1>6 DEF UpdateProduct
<1>9. edit'[e] = row
  BY <1>8 DEF CatalogueInv, CatalogueShapes
<1>10. pc \in {"syncing", "resolved"} /\ (pc = "syncing" => todo # <<>>)
  BY <1>2, <1>3, <1>8
<1>11. RowSound(row) /\ row.pc # "cleared"
  BY <1>7, <1>10 DEF RowSound
<1>12. name # NoName => ~SlugTaken(slug, p)'
  BY <1>5, <1>8 DEF SlugTaken
<1>13. Exists(p)'
  BY <1>8 DEF Exists
<1>14. SlugSound(e)'
  BY <1>5, <1>7, <1>9, <1>10, <1>12, <1>13 DEF SlugSound, SlugTaken, Exists
<1> QED BY <1>7, <1>8, <1>11, <1>14, EditMoves

LEMMA PatchGroupKeeps ==
  ASSUME CatalogueInv, NEW e \in Edits, NEW g \in Groups, NEW ps, ps \subseteq Products,
         PatchGroup(e, g, ps)
  PROVE  CatalogueInv'
<1>1. PICK todo : todo = <<Replacement({g} \X Products, {g} \X ps)>>
  OBVIOUS
<1>2. todo \in Seq(Replacements) /\ todo # <<>>
  <2>1. {g} \X Products \subseteq MembershipPairs /\ {g} \X ps \subseteq {g} \X Products
    BY DEF MembershipPairs
  <2> QED BY <1>1, <2>1, ReplacementsAreSound
<1>3. PICK row : row = [NewEdit EXCEPT !.pc = "syncing", !.todo = todo]
  OBVIOUS
<1>4. row \in EditRows /\ row.pc = "syncing" /\ row.todo = todo
  BY <1>2, <1>3, NewEditIsRow DEF EditRows
<1>5. /\ edit' = [edit EXCEPT ![e] = row]
      /\ UNCHANGED <<product, member, asked, mixed, overtaken>>
  BY <1>1, <1>3 DEF PatchGroup
<1>6. edit'[e] = row
  BY <1>5 DEF CatalogueInv, CatalogueShapes
<1>7. RowSound(row) /\ SlugSound(e)'
  BY <1>2, <1>4, <1>6 DEF RowSound, SlugSound
<1> QED BY <1>4, <1>5, <1>7, EditMoves
LEMMA AfterIsSound ==
  ASSUME NEW r \in EditRows, NEW todo \in Seq(Replacements)
  PROVE  /\ After(r, todo) \in EditRows /\ RowSound(After(r, todo))
         /\ After(r, todo).pc \in {"done", "syncing"}
<1>1. CASE todo = <<>>
  BY <1>1, NewEditIsRow DEF After
<1>2. CASE todo # <<>>
  <2>1. PICK row : row = [r EXCEPT !.pc = "syncing", !.gone = {}, !.todo = todo]
    OBVIOUS
  <2>2. row \in EditRows /\ row.pc = "syncing" /\ row.todo = todo
    BY <2>1 DEF EditRows
  <2>3. After(r, todo) = row
    BY <1>2, <2>1 DEF After
  <2> QED BY <1>2, <2>2, <2>3 DEF RowSound
<1> QED BY <1>1, <1>2

LEMMA MixHolds ==
  ASSUME NEW e, NEW pairs, Mix(e, pairs)
  PROVE  /\ \A m \in mixed : m \in mixed'
         /\ \A m \in pairs, f \in Edits : f # e /\ Replacing(f) /\ m \in Due(f).scope => m \in mixed'
BY DEF Mix

\* A request writes a slug and goes on: all the others that are looking for one
\* are overtaken, and none is replacing that was not.
LEMMA SlugGoesOut ==
  ASSUME CatalogueInv, NEW e \in Edits, NEW row \in EditRows, RowSound(row), row.pc \in {"done", "syncing"},
         edit' = [edit EXCEPT ![e] = row],
         NEW p \in Products, NEW written \in ProductRows, written.status # "free",
         product' = [product EXCEPT ![p] = written], SlugWritten(e)
  PROVE  /\ CatalogueShapes' /\ \A f \in Edits : SlugSound(f)'
         /\ \A f \in Edits : Replacing(f)' => f # e /\ Replacing(f) /\ edit'[f] = edit[f]
<1>1. edit'[e] = row /\ \A f \in Edits : f # e => edit'[f] = edit[f]
  BY DEF CatalogueInv, CatalogueShapes
<1>2. \A q \in Products : Exists(q) => Exists(q)'
  BY DEF CatalogueInv, CatalogueShapes, Exists
<1>3. /\ \A f \in Edits : f \in overtaken => f \in overtaken'
      /\ \A f \in Edits : f # e /\ edit[f].pc = "resolved" => f \in overtaken'
      /\ overtaken' \subseteq Edits
  BY DEF SlugWritten, CatalogueInv, CatalogueShapes
<1>4. CatalogueShapes'
  <2>1. product' \in [Products -> ProductRows]
    BY DEF CatalogueInv, CatalogueShapes
  <2>2. edit' \in [Edits -> EditRows]
    BY DEF CatalogueInv, CatalogueShapes
  <2>3. \A f \in Edits : RowSound(edit'[f])
    BY <1>1 DEF CatalogueInv, CatalogueShapes
  <2> QED BY <1>3, <2>1, <2>2, <2>3 DEF CatalogueShapes
<1>5. ASSUME NEW f \in Edits PROVE SlugSound(f)'
  <2>1. CASE f = e
    BY <1>1, <2>1 DEF SlugSound
  <2>2. CASE f # e
    <3>1. edit'[f] = edit[f] /\ edit[f].id \in Products /\ SlugSound(f)
      BY <1>1, <2>2, EditIsRow DEF CatalogueInv
    <3>2. edit[f].pc = "resolved" => f \in overtaken'
      BY <1>3, <2>2
    <3>3. f \in overtaken => f \in overtaken'
      BY <1>3
    <3> QED BY <1>2, <3>1, <3>2, <3>3, SlugStands
  <2> QED BY <2>1, <2>2
<1>6. \A f \in Edits : Replacing(f)' => f # e /\ Replacing(f) /\ edit'[f] = edit[f]
  BY <1>1 DEF Replacing
<1> QED BY <1>4, <1>5, <1>6

LEMMA FinishCreateKeeps ==
  ASSUME CatalogueInv, NEW e \in Edits, FinishCreate(e)
  PROVE  CatalogueInv'
<1>1. PICK r : r = edit[e]
  OBVIOUS
<1>2. r \in EditRows /\ r.pc = "resolved" /\ ~Exists(r.id) /\ edit[e].pc = "resolved" /\ SlugSound(e)
  BY <1>1, EditIsRow DEF FinishCreate, CatalogueInv
<1>3. CASE SlugTaken(r.slug, r.id) \/ \E c \in r.cats : ~Linkable(c)
  <2>1. PICK pc : pc = IF SlugTaken(r.slug, r.id) THEN "slugTaken" ELSE "failed"
    OBVIOUS
  <2>2. /\ edit' = [edit EXCEPT ![e] = Answered(pc)]
        /\ UNCHANGED <<product, member, asked, mixed, overtaken>>
    BY <1>1, <1>3, <2>1 DEF FinishCreate
  <2>3. r.name # NoName
    BY <1>1, <1>2 DEF SlugSound
  <2>4. pc = "slugTaken" => e \in overtaken
    BY <1>1, <1>2, <2>1, <2>3 DEF SlugSound
  <2>5. pc \in {"slugTaken", "failed"}
    BY <2>1
  <2> QED BY <2>2, <2>4, <2>5, EditEnds
<1>4. CASE ~(SlugTaken(r.slug, r.id) \/ \E c \in r.cats : ~Linkable(c))
  <2>1. PICK written : written = [status |-> r.status, name |-> r.name, slug |-> r.slug]
    OBVIOUS
  <2>2. PICK pairs : pairs = r.cats \X {r.id}
    OBVIOUS
  <2>3. /\ product' = [product EXCEPT ![r.id] = written]
        /\ edit' = [edit EXCEPT ![e] = Answered("done")] /\ SlugWritten(e)
        /\ member' = member \cup pairs /\ asked' = asked \cup pairs
        /\ Mix(e, pairs)
    BY <1>1, <1>4, <2>1, <2>2 DEF FinishCreate, InsertProduct, SetProductCategories
  <2>4. r.id \in Products /\ r.name \in NameRows /\ r.slug \in SlugRows /\ r.status \in {Keep, "listed"}
    BY <1>2 DEF EditRows
  <2>5. r.status = "listed"
    BY <1>1, <1>2, <2>4 DEF SlugSound
  <2>6. written \in ProductRows /\ written.status # "free"
    BY <2>1, <2>4, <2>5 DEF ProductRows
  <2>7. /\ Answered("done") \in EditRows /\ Answered("done").pc = "done" /\ RowSound(Answered("done"))
    BY NewEditIsRow
  <2>8. PICK row : row = Answered("done")
    OBVIOUS
  <2>9. row \in EditRows /\ RowSound(row) /\ row.pc \in {"done", "syncing"} /\ edit' = [edit EXCEPT ![e] = row]
    BY <2>3, <2>7, <2>8
  <2>10. /\ CatalogueShapes' /\ \A f \in Edits : SlugSound(f)'
         /\ \A f \in Edits : Replacing(f)' => f # e /\ Replacing(f) /\ edit'[f] = edit[f]
    BY <2>3, <2>4, <2>6, <2>9, SlugGoesOut
  <2>11. /\ \A m \in mixed : m \in mixed'
         /\ \A m \in pairs, f \in Edits : Replacing(f) /\ Replacing(f)' /\ m \in Due(f).scope => m \in mixed'
    BY <2>3, <2>10, MixHolds
  <2>12. MembershipsAsAsked' /\ DeletesSeeAll'
    <3>1. MembershipsAsAsked /\ DeletesSeeAll
      BY DEF CatalogueInv
    <3> QED BY <2>3, <2>10, <2>11, <3>1, MembersJoin
  <2> QED BY <2>10, <2>12 DEF CatalogueInv
<1> QED BY <1>3, <1>4

LEMMA PatchProductKeeps ==
  ASSUME CatalogueInv, NEW e \in Edits, PatchProduct(e)
  PROVE  CatalogueInv'
<1>1. PICK r : r = edit[e]
  OBVIOUS
<1>2. r \in EditRows /\ r.pc = "resolved" /\ Exists(r.id) /\ edit[e].pc = "resolved" /\ SlugSound(e)
  BY <1>1, EditIsRow DEF PatchProduct, CatalogueInv
<1>3. CASE r.name # NoName /\ SlugTaken(r.slug, r.id)
  <2>1. /\ edit' = [edit EXCEPT ![e] = Answered("slugTaken")]
        /\ UNCHANGED <<product, member, asked, mixed, overtaken>>
    BY <1>1, <1>3 DEF PatchProduct
  <2>2. e \in overtaken
    BY <1>1, <1>2, <1>3 DEF SlugSound
  <2> QED BY <2>1, <2>2, EditEnds
<1>4. CASE ~(r.name # NoName /\ SlugTaken(r.slug, r.id))
  <2>1. PICK written : written = PatchColumns(product[r.id], r)
    OBVIOUS
  <2>2. r.id \in Products /\ r.name \in NameRows /\ r.slug \in SlugRows /\ r.status \in {Keep, "listed"}
        /\ r.todo \in Seq(Replacements)
    BY <1>2 DEF EditRows
  <2>3. product[r.id] \in ProductRows /\ product[r.id].status # "free"
    BY <1>2, <2>2 DEF CatalogueInv, CatalogueShapes, Exists
  <2>4. written \in ProductRows /\ written.status # "free"
    BY <2>1, <2>2, <2>3 DEF PatchColumns, ProductRows
  <2>5. PICK row : row = After(r, r.todo)
    OBVIOUS
  <2>6. row \in EditRows /\ RowSound(row) /\ row.pc \in {"done", "syncing"}
    BY <1>2, <2>2, <2>5, AfterIsSound
  <2>7. /\ product' = [product EXCEPT ![r.id] = written]
        /\ edit' = [edit EXCEPT ![e] = row] /\ SlugWritten(e)
        /\ UNCHANGED <<member, asked, mixed>>
    BY <1>1, <1>4, <2>1, <2>5 DEF PatchProduct
  <2>8. /\ CatalogueShapes' /\ \A f \in Edits : SlugSound(f)'
        /\ \A f \in Edits : Replacing(f)' => f # e /\ Replacing(f) /\ edit'[f] = edit[f]
    BY <2>2, <2>4, <2>6, <2>7, SlugGoesOut
  <2>9. PICK pairs : pairs = {}
    OBVIOUS
  <2>10. MembershipsAsAsked' /\ DeletesSeeAll'
    <3>1. member' = member \cup pairs /\ asked' = asked \cup pairs
      BY <2>7, <2>9
    <3>2. \A m \in mixed : m \in mixed'
      BY <2>7
    <3>3. \A m \in pairs, f \in Edits : Replacing(f) /\ Replacing(f)' /\ m \in Due(f).scope => m \in mixed'
      BY <2>9
    <3>4. MembershipsAsAsked /\ DeletesSeeAll
      BY DEF CatalogueInv
    <3> QED BY <2>8, <3>1, <3>2, <3>3, <3>4, MembersJoin
  <2> QED BY <2>8, <2>10 DEF CatalogueInv
<1> QED BY <1>3, <1>4
\* Where no product is written the answers of the searches stand.
LEMMA AnswersStand ==
  ASSUME CatalogueInv, NEW f \in Edits, edit'[f] = edit[f], UNCHANGED <<product, overtaken>>
  PROVE  SlugSound(f)'
<1>1. edit[f].id \in Products /\ SlugSound(f)
  BY EditIsRow DEF CatalogueInv
<1>2. \A p \in Products : Exists(p) => Exists(p)'
  BY DEF Exists
<1>3. \A q \in Products : product'[q].slug = product[q].slug
  OBVIOUS
<1>4. f \in overtaken => f \in overtaken'
  OBVIOUS
<1> QED BY <1>1, <1>2, <1>3, <1>4, SlugStands

LEMMA BeginReplaceKeeps ==
  ASSUME CatalogueInv, NEW e \in Edits, BeginReplace(e)
  PROVE  CatalogueInv'
<1>1. edit[e].pc = "syncing" /\ UNCHANGED <<product, member, asked, overtaken>>
  BY DEF BeginReplace
<1>2. CASE \A m \in Due(e).add : Linkable(m[1])
  <2>1. PICK gone : gone = member \cap Due(e).scope
    OBVIOUS
  <2>2. PICK row : row = [edit[e] EXCEPT !.pc = "cleared", !.gone = gone]
    OBVIOUS
  <2>3. /\ edit[e] \in EditRows /\ edit[e].todo # <<>>
        /\ Due(e).scope \subseteq MembershipPairs
    BY <1>1, EditIsRow, DueIsReplacement DEF CatalogueInv
  <2>4. row \in EditRows /\ row.pc = "cleared" /\ row.gone = gone /\ row.todo = edit[e].todo
    BY <2>1, <2>2, <2>3 DEF EditRows
  <2>5. RowSound(row)
    BY <2>1, <2>3, <2>4 DEF RowSound, Due
  <2>6. edit' = [edit EXCEPT ![e] = row] /\ Mix(e, Due(e).scope)
    BY <1>2, <2>1, <2>2 DEF BeginReplace, ClearMemberships, CatalogueInv, CatalogueShapes
  <2>7. edit'[e] = row /\ \A f \in Edits : f # e => edit'[f] = edit[f]
    BY <2>6 DEF CatalogueInv, CatalogueShapes
  <2>8. /\ \A m \in mixed : m \in mixed'
        /\ \A m \in Due(e).scope, f \in Edits : f # e /\ Replacing(f) /\ m \in Due(f).scope => m \in mixed'
    BY <2>6, MixHolds
  <2>9. CatalogueShapes'
    <3>1. edit' \in [Edits -> EditRows]
      BY <2>4, <2>6 DEF CatalogueInv, CatalogueShapes
    <3>2. \A f \in Edits : RowSound(edit'[f])
      BY <2>5, <2>7 DEF CatalogueInv, CatalogueShapes
    <3> QED BY <1>1, <3>1, <3>2 DEF CatalogueInv, CatalogueShapes
  <2>10. MembershipsAsAsked'
    BY <1>1, <2>8 DEF CatalogueInv, MembershipsAsAsked
  <2>11. \A f \in Edits : f # e /\ Replacing(f)' => Replacing(f) /\ edit'[f] = edit[f] /\ Due(f)' = Due(f)
    BY <2>7 DEF Replacing, Due
  <2>12. Due(e)' = Due(e) /\ edit'[e].gone = gone
    BY <2>4, <2>7 DEF Due
  <2>13. ASSUME NEW f \in Edits, Replacing(f)', NEW m \in member \cap Due(f)'.scope
         PROVE  m \in mixed' \/ m \in edit'[f].gone
    <3>1. CASE f = e
      BY <2>1, <2>12, <2>13, <3>1
    <3>2. CASE f # e
      <4>1. Replacing(f) /\ edit'[f] = edit[f] /\ m \in member \cap Due(f).scope
        BY <2>11, <2>13, <3>2
      <4>2. m \in mixed \/ m \in edit[f].gone
        BY <4>1 DEF CatalogueInv, DeletesSeeAll
      <4> QED BY <2>8, <4>1, <4>2
    <3> QED BY <3>1, <3>2
  <2>14. ASSUME NEW f \in Edits, NEW g \in Edits, f # g, Replacing(f)', Replacing(g)',
                NEW m \in Due(f)'.scope \cap Due(g)'.scope
         PROVE  m \in mixed'
    <3>1. CASE f = e
      BY <2>8, <2>11, <2>12, <2>14, <3>1
    <3>2. CASE g = e
      BY <2>8, <2>11, <2>12, <2>14, <3>2
    <3>3. CASE f # e /\ g # e
      <4>1. Replacing(f) /\ Replacing(g) /\ m \in Due(f).scope \cap Due(g).scope
        BY <2>11, <2>14, <3>3
      <4>2. m \in mixed
        BY <2>14, <4>1 DEF CatalogueInv, DeletesSeeAll
      <4> QED BY <2>8, <4>2
    <3> QED BY <3>1, <3>2, <3>3
  <2>15. DeletesSeeAll'
    BY <1>1, <2>13, <2>14 DEF DeletesSeeAll
  <2>16. ASSUME NEW f \in Edits PROVE SlugSound(f)'
    <3>1. CASE f = e
      BY <2>4, <2>7, <3>1 DEF SlugSound
    <3>2. CASE f # e
      BY <1>1, <2>7, <3>2, AnswersStand
    <3> QED BY <3>1, <3>2
  <2> QED BY <2>9, <2>10, <2>15, <2>16 DEF CatalogueInv
<1>3. CASE ~(\A m \in Due(e).add : Linkable(m[1]))
  <2>1. PICK pc : pc = "failed"
    OBVIOUS
  <2>2. edit' = [edit EXCEPT ![e] = Answered(pc)] /\ UNCHANGED <<product, member, asked, mixed, overtaken>>
    BY <1>1, <1>3, <2>1 DEF BeginReplace
  <2> QED BY <2>1, <2>2, EditEnds
<1> QED BY <1>2, <1>3

LEMMA EndReplaceKeeps ==
  ASSUME CatalogueInv, NEW e \in Edits, EndReplace(e)
  PROVE  CatalogueInv'
<1>1. Replacing(e) /\ edit[e].pc = "cleared" /\ UNCHANGED <<product, mixed, overtaken>>
  BY DEF EndReplace, Replacing
<1>2. CASE \A m \in Due(e).add : Open(m[1])
  <2>1. PICK due : due = Due(e)
    OBVIOUS
  <2>2. PICK gone : gone = edit[e].gone
    OBVIOUS
  <2>3. PICK row : row = After(edit[e], Tail(edit[e].todo))
    OBVIOUS
  <2>4. /\ edit[e] \in EditRows /\ edit[e].todo \in Seq(Replacements) /\ edit[e].todo # <<>>
        /\ due.add \subseteq due.scope /\ due.scope \subseteq MembershipPairs /\ gone \subseteq due.scope
    BY <1>1, <2>1, <2>2, EditIsRow, DueIsReplacement DEF CatalogueInv
  <2>5. row \in EditRows /\ RowSound(row) /\ row.pc \in {"done", "syncing"}
    <3>1. Tail(edit[e].todo) \in Seq(Replacements)
      BY <2>4
    <3> QED BY <2>3, <2>4, <3>1, AfterIsSound
  <2>6. /\ edit' = [edit EXCEPT ![e] = row]
        /\ member' = (member \ gone) \cup due.add /\ asked' = (asked \ due.scope) \cup due.add
    BY <1>2, <2>1, <2>2, <2>3 DEF EndReplace, CatalogueInv, CatalogueShapes
  <2>7. edit'[e] = row /\ \A f \in Edits : f # e => edit'[f] = edit[f]
    BY <2>6 DEF CatalogueInv, CatalogueShapes
  <2>8. CatalogueShapes'
    <3>1. edit' \in [Edits -> EditRows]
      BY <2>5, <2>6 DEF CatalogueInv, CatalogueShapes
    <3>2. \A f \in Edits : RowSound(edit'[f])
      BY <2>5, <2>7 DEF CatalogueInv, CatalogueShapes
    <3> QED BY <1>1, <3>1, <3>2 DEF CatalogueInv, CatalogueShapes
  <2>9. ASSUME NEW m \in MembershipPairs, m \notin mixed
        PROVE  m \in member' <=> m \in asked'
    <3>1. m \in due.scope /\ m \in member => m \in gone
      BY <1>1, <2>1, <2>2, <2>9 DEF CatalogueInv, DeletesSeeAll
    <3>2. m \in member <=> m \in asked
      BY <2>9 DEF CatalogueInv, MembershipsAsAsked
    <3> QED BY <2>4, <2>6, <3>1, <3>2
  <2>10. MembershipsAsAsked'
    BY <1>1, <2>9 DEF MembershipsAsAsked
  <2>11. \A f \in Edits : Replacing(f)' => f # e /\ Replacing(f) /\ edit'[f] = edit[f] /\ Due(f)' = Due(f)
    BY <2>5, <2>7 DEF Replacing, Due
  <2>12. ASSUME NEW f \in Edits, Replacing(f)', NEW m \in member' \cap Due(f)'.scope
         PROVE  m \in mixed' \/ m \in edit'[f].gone
    <3>1. Replacing(f) /\ f # e /\ edit'[f] = edit[f] /\ m \in Due(f).scope
      BY <2>11, <2>12
    <3>2. CASE m \in due.add
      BY <1>1, <2>1, <2>4, <3>1, <3>2 DEF CatalogueInv, DeletesSeeAll
    <3>3. CASE m \notin due.add
      <4>1. m \in member
        BY <2>6, <2>12, <3>3
      <4> QED BY <1>1, <3>1, <4>1 DEF CatalogueInv, DeletesSeeAll
    <3> QED BY <3>2, <3>3
  <2>13. ASSUME NEW f \in Edits, NEW g \in Edits, f # g, Replacing(f)', Replacing(g)',
                NEW m \in Due(f)'.scope \cap Due(g)'.scope
         PROVE  m \in mixed'
    <3>1. Replacing(f) /\ Replacing(g) /\ m \in Due(f).scope \cap Due(g).scope
      BY <2>11, <2>13
    <3> QED BY <1>1, <2>13, <3>1 DEF CatalogueInv, DeletesSeeAll
  <2>14. DeletesSeeAll'
    BY <2>12, <2>13 DEF DeletesSeeAll
  <2>15. ASSUME NEW f \in Edits PROVE SlugSound(f)'
    <3>1. CASE f = e
      BY <2>5, <2>7, <3>1 DEF SlugSound
    <3>2. CASE f # e
      BY <1>1, <2>7, <3>2, AnswersStand
    <3> QED BY <3>1, <3>2
  <2> QED BY <2>8, <2>10, <2>14, <2>15 DEF CatalogueInv
<1>3. CASE ~(\A m \in Due(e).add : Open(m[1]))
  <2>1. PICK pc : pc = "failed"
    OBVIOUS
  <2>2. edit' = [edit EXCEPT ![e] = Answered(pc)] /\ UNCHANGED <<product, member, asked, mixed, overtaken>>
    BY <1>1, <1>3, <2>1 DEF EndReplace
  <2> QED BY <2>1, <2>2, EditEnds
<1> QED BY <1>2, <1>3
\* A product is made without a slug, or written and keeps its own.
LEMMA ProductWritten ==
  ASSUME CatalogueInv, NEW p \in Products, NEW written \in ProductRows, written.status # "free",
         written.slug = product[p].slug \/ written.slug = NoSlug,
         product' = [product EXCEPT ![p] = written],
         UNCHANGED <<edit, member, asked, mixed, overtaken>>
  PROVE  CatalogueInv'
<1>1. CatalogueShapes'
  BY DEF CatalogueInv, CatalogueShapes
<1>2. MembershipsAsAsked'
  BY DEF CatalogueInv, MembershipsAsAsked
<1>3. DeletesSeeAll'
  BY DEF CatalogueInv, DeletesSeeAll, Replacing, Due
<1>4. ASSUME NEW f \in Edits PROVE SlugSound(f)'
  <2>1. edit'[f] = edit[f] /\ edit[f].id \in Products /\ SlugSound(f)
    BY EditIsRow DEF CatalogueInv
  <2>2. \A q \in Products : Exists(q) => Exists(q)'
    BY DEF CatalogueInv, CatalogueShapes, Exists
  <2>3. \A q \in Products : product'[q].slug = product[q].slug \/ product'[q].slug = NoSlug
    BY DEF CatalogueInv, CatalogueShapes
  <2>4. f \in overtaken => f \in overtaken'
    OBVIOUS
  <2> QED BY <2>1, <2>2, <2>3, <2>4, SlugStands
<1> QED BY <1>1, <1>2, <1>3, <1>4 DEF CatalogueInv

LEMMA CreateDraftKeeps ==
  ASSUME CatalogueInv, NEW p \in Products, CreateDraft(p)
  PROVE  CatalogueInv'
<1>1. PICK written : written = [NewProduct EXCEPT !.status = "listed"]
  OBVIOUS
<1>2. written \in ProductRows /\ written.status # "free" /\ written.slug = NoSlug
  BY <1>1, NamesAreRows DEF NewProduct, ProductRows
<1>3. product' = [product EXCEPT ![p] = written] /\ UNCHANGED <<edit, member, asked, mixed, overtaken>>
  BY <1>1 DEF CreateDraft, InsertDraftProduct, InsertProduct
<1> QED BY <1>2, <1>3, ProductWritten

LEMMA DeleteProductKeeps ==
  ASSUME CatalogueInv, NEW p \in Products, DeleteProduct(p)
  PROVE  CatalogueInv'
<1>1. PICK written : written = PatchColumns(product[p], [NewEdit EXCEPT !.status = "archived"])
  OBVIOUS
<1>2. product[p] \in ProductRows
  BY DEF CatalogueInv, CatalogueShapes
<1>3. written = [status |-> "archived", name |-> product[p].name, slug |-> product[p].slug]
  BY <1>1 DEF PatchColumns, NewEdit, Keep
<1>4. written \in ProductRows /\ written.status # "free" /\ written.slug = product[p].slug
  BY <1>2, <1>3 DEF ProductRows
<1>5. product' = [product EXCEPT ![p] = written] /\ UNCHANGED <<edit, member, asked, mixed, overtaken>>
  BY <1>1 DEF DeleteProduct
<1> QED BY <1>4, <1>5, ProductWritten

LEMMA CreateGroupKeeps ==
  ASSUME CatalogueInv, NEW g, NEW ps, CreateGroup(g, ps)
  PROVE  CatalogueInv'
<1>1. PICK pairs : pairs = {g} \X ps
  OBVIOUS
<1>2. /\ UNCHANGED <<product, edit, overtaken>>
      /\ member' = member \cup pairs /\ asked' = asked \cup pairs /\ Mix(0, pairs)
  BY <1>1 DEF CreateGroup, LinkProducts
<1>3. /\ \A m \in mixed : m \in mixed'
      /\ \A m \in pairs, f \in Edits : f # 0 /\ Replacing(f) /\ m \in Due(f).scope => m \in mixed'
  BY <1>2, MixHolds
<1>4. \A f \in Edits : f # 0
  <2>1. NEdits \in Nat
    BY CatalogueAssumption
  <2>2. \A k \in 1..NEdits : k # 0
    BY <2>1
  <2> QED BY <2>2 DEF Edits
<1>5. \A m \in pairs, f \in Edits : Replacing(f) /\ Replacing(f)' /\ m \in Due(f).scope => m \in mixed'
  BY <1>3, <1>4
<1>6. \A f \in Edits : Replacing(f)' => Replacing(f) /\ edit'[f] = edit[f]
  BY <1>2 DEF Replacing
<1>7. MembershipsAsAsked' /\ DeletesSeeAll'
  <2>1. MembershipsAsAsked /\ DeletesSeeAll /\ \A m \in mixed : m \in mixed'
    BY <1>3 DEF CatalogueInv
  <2> QED BY <1>2, <1>5, <1>6, <2>1, MembersJoin
<1>8. CatalogueShapes'
  BY <1>2 DEF CatalogueInv, CatalogueShapes
<1>9. \A f \in Edits : SlugSound(f)'
  BY <1>2, AnswersStand
<1> QED BY <1>7, <1>8, <1>9 DEF CatalogueInv

LEMMA DeleteGroupKeeps ==
  ASSUME CatalogueInv, NEW g, DeleteGroup(g)
  PROVE  CatalogueInv'
<1>1. PICK pairs : pairs = {g} \X Products
  OBVIOUS
<1>2. /\ UNCHANGED <<product, edit, mixed, overtaken>>
      /\ member' = member \ pairs /\ asked' = asked \ pairs
  BY <1>1 DEF DeleteGroup
<1>3. MembershipsAsAsked'
  BY <1>2 DEF CatalogueInv, MembershipsAsAsked
<1>4. DeletesSeeAll'
  BY <1>2 DEF CatalogueInv, DeletesSeeAll, Replacing, Due
<1>5. CatalogueShapes'
  BY <1>2 DEF CatalogueInv, CatalogueShapes
<1>6. \A f \in Edits : SlugSound(f)'
  BY <1>2, AnswersStand
<1> QED BY <1>3, <1>4, <1>5, <1>6 DEF CatalogueInv

LEMMA FailEditKeeps ==
  ASSUME CatalogueInv, NEW e \in Edits, FailEdit(e)
  PROVE  CatalogueInv'
<1>1. PICK pc : pc = "failed"
  OBVIOUS
<1>2. edit' = [edit EXCEPT ![e] = Answered(pc)] /\ UNCHANGED <<product, member, asked, mixed, overtaken>>
  BY <1>1 DEF FailEdit
<1> QED BY <1>1, <1>2, EditEnds

LEMMA CatalogueStays ==
  ASSUME CatalogueInv, UNCHANGED catalogueVars
  PROVE  CatalogueInv'
<1>1. UNCHANGED <<product, edit, member, asked, mixed, overtaken>>
  BY DEF catalogueVars
<1>2. CatalogueShapes'
  BY <1>1 DEF CatalogueInv, CatalogueShapes
<1>3. MembershipsAsAsked'
  BY <1>1 DEF CatalogueInv, MembershipsAsAsked
<1>4. DeletesSeeAll'
  BY <1>1 DEF CatalogueInv, DeletesSeeAll, Replacing, Due
<1>5. \A f \in Edits : SlugSound(f)'
  BY <1>1, AnswersStand
<1> QED BY <1>2, <1>3, <1>4, <1>5 DEF CatalogueInv

\* Only products that are there are ever listed or asked for.
LEMMA UnusedIsProduct == UnusedProducts # {} => Min(UnusedProducts) \in Products
<1>1. UnusedProducts \subseteq Nat
  <2>1. NProducts \in Nat
    BY CatalogueAssumption
  <2>2. Products \subseteq Nat
    BY <2>1 DEF Products
  <2>3. UnusedProducts \subseteq Products
    BY DEF UnusedProducts
  <2> QED BY <2>2, <2>3
<1>2. UnusedProducts # {} => Min(UnusedProducts) \in UnusedProducts
  BY <1>1, MinIn
<1> QED BY <1>2 DEF UnusedProducts

\* Every step of products, groups and memberships keeps CatalogueInv.
THEOREM CatalogueInductive == CatalogueInv /\ [CatalogueNext]_catalogueVars => CatalogueInv'
<1> SUFFICES ASSUME CatalogueInv, [CatalogueNext]_catalogueVars PROVE CatalogueInv'
  OBVIOUS
<1>1. CASE UNCHANGED catalogueVars
  BY <1>1, CatalogueStays
<1>2. CASE PostDraft
  BY <1>2, UnusedIsProduct, CreateDraftKeeps DEF PostDraft
<1>3. CASE DeleteProductById
  BY <1>3, DeleteProductKeeps DEF DeleteProductById
<1>4. CASE PostCategory
  BY <1>4, CreateGroupKeeps DEF PostCategory, CreateCategory
<1>5. CASE PostCollection
  BY <1>5, CreateGroupKeeps DEF PostCollection, CreateCollection
<1>6. CASE DeleteCategoryById
  BY <1>6, DeleteGroupKeeps DEF DeleteCategoryById, DeleteCategory
<1>7. CASE DeleteCollectionById
  BY <1>7, DeleteGroupKeeps DEF DeleteCollectionById, DeleteCollection
<1>8. ASSUME NEW e \in Edits, PostProduct(e) PROVE CatalogueInv'
  <2>1. PICK n \in Names, cats \in SUBSET Categories :
           UnusedProducts # {} /\ CreateProductWithVariants(e, Min(UnusedProducts), NameOf(n), cats)
    BY <1>8 DEF PostProduct
  <2>2. NameOf(n) \in NameRows /\ NameOf(n) # NoName
    BY NamesAreRows
  <2>3. Min(UnusedProducts) \in Products
    BY <2>1, UnusedIsProduct
  <2> QED BY <2>1, <2>2, <2>3, CreateKeeps
<1>9. ASSUME NEW e \in Edits, PostDuplicate(e) PROVE CatalogueInv'
  <2>1. PICK source \in Products :
           UnusedProducts # {} /\ DuplicateProduct(e, Min(UnusedProducts), source)
    BY <1>9 DEF PostDuplicate
  <2>2. PICK name : name = DraftName(product[source].name)
    OBVIOUS
  <2>3. product[source].name \in NameRows
    BY DEF CatalogueInv, CatalogueShapes, ProductRows
  <2>4. name \in NameRows /\ name # NoName
    BY <2>2, <2>3, NamesAreRows
  <2>5. Min(UnusedProducts) \in Products
    BY <2>1, UnusedIsProduct
  <2>6. PICK cats : cats = {}
    OBVIOUS
  <2>7. cats \subseteq Categories /\ CreateProductWithVariants(e, Min(UnusedProducts), name, cats)
    BY <2>1, <2>2, <2>6 DEF DuplicateProduct
  <2> QED BY <2>4, <2>5, <2>7, CreateKeeps
<1>10. ASSUME NEW e \in Edits, FinishCreate(e) PROVE CatalogueInv'
  BY <1>10, FinishCreateKeeps
<1>11. ASSUME NEW e \in Edits, PatchProductById(e) PROVE CatalogueInv'
  <2>1. PICK p \in Products, n \in {NoName} \cup {NameOf(m) : m \in Names}, st \in {Keep, "listed"},
             cols \in {{Keep}} \cup SUBSET Collections,
             cats \in {{Keep}, {}} \cup {{c} : c \in Categories} :
           UpdateProduct(e, p, n, st, cols, cats)
    BY <1>11 DEF PatchProductById
  <2>2. n \in NameRows
    BY NamesAreRows
  <2>3. (cols = {Keep} \/ cols \subseteq Collections) /\ (cats = {Keep} \/ cats \subseteq Categories)
    OBVIOUS
  <2> QED BY <2>1, <2>2, <2>3, UpdateKeeps
<1>12. ASSUME NEW e \in Edits, PatchProduct(e) PROVE CatalogueInv'
  BY <1>12, PatchProductKeeps
<1>13. ASSUME NEW e \in Edits, PatchCategoryById(e) PROVE CatalogueInv'
  <2>1. PICK c \in Categories, t \in {"manual", "smart"}, ps \in SUBSET Existing : PatchCategory(e, c, t, ps)
    BY <1>13 DEF PatchCategoryById
  <2>2. c \in Groups /\ Listed(t, ps) \subseteq Products
    BY DEF Groups, Listed, Existing
  <2> QED BY <2>1, <2>2, PatchGroupKeeps DEF PatchCategory
<1>14. ASSUME NEW e \in Edits, PatchCollectionById(e) PROVE CatalogueInv'
  <2>1. PICK k \in Collections, ps \in SUBSET Existing : PatchCollection(e, k, ps)
    BY <1>14 DEF PatchCollectionById
  <2>2. k \in Groups /\ ps \subseteq Products
    BY DEF Groups, Existing
  <2> QED BY <2>1, <2>2, PatchGroupKeeps DEF PatchCollection
<1>15. ASSUME NEW e \in Edits, BeginReplace(e) PROVE CatalogueInv'
  BY <1>15, BeginReplaceKeeps
<1>16. ASSUME NEW e \in Edits, EndReplace(e) PROVE CatalogueInv'
  BY <1>16, EndReplaceKeeps
<1>17. ASSUME NEW e \in Edits, FailEdit(e) PROVE CatalogueInv'
  BY <1>17, FailEditKeeps
<1> QED
  BY <1>1, <1>2, <1>3, <1>4, <1>5, <1>6, <1>7, <1>8, <1>9, <1>10, <1>11, <1>12, <1>13, <1>14, <1>15,
     <1>16, <1>17 DEF CatalogueNext

\* CatalogueInv holds in every state.
THEOREM CatalogueInvHolds == CatalogueSpec => []CatalogueInv
  BY CatalogueInitSafe, CatalogueInductive, PTL DEF CatalogueSpec

\* A request loses its slug only to one that wrote a slug while it was looking,
\* for any number of products, names and requests (ResolveUniqueProductSlug).
THEOREM SlugsLostOnlyToRaces == CatalogueSpec => []SlugLostToRace
<1>1. CatalogueInv => SlugLostToRace
  BY DEF CatalogueInv, SlugSound, SlugLostToRace
<1> QED
  BY <1>1, CatalogueInvHolds, PTL

\* A product is in the groups the replacements ask for in the order they were
\* committed, save the pairs two of them were about at a time (UpdateProduct,
\* PatchCategory, PatchCollection).
THEOREM MembershipsFollowRequests == CatalogueSpec => []MembershipsAsAsked
<1>1. CatalogueInv => MembershipsAsAsked
  BY DEF CatalogueInv
<1> QED
  BY <1>1, CatalogueInvHolds, PTL

-----------------------------------------------------------------------------
(* Catalogue: the shapes, and why a name has no more copies than there are *)
(* products                                                                *)

Made == Cardinality(Existing)

\* A slug is made for a name, with a number that one more than the products
\* have.
SlugNamed(r) == r.slug.base = r.name /\ r.slug.no \in 0..NProducts

ProductNamed(p) ==
  SlugNamed(product[p]) /\ (product[p].name.copies = 0 \/ product[p].name.copies < Made)

\* A copy of a copy was asked for when its source was there; no name that is
\* asked for by hand is one of a copy.
EditNamed(e) ==
  /\ SlugNamed(edit[e]) /\ edit[e].name.copies <= Made
  /\ edit[e].pc = "resolved" /\ Exists(edit[e].id) => edit[e].name.copies = 0

\* Two requests make two products.
MakesItsOwn(e) ==
  \A f \in Edits : e # f /\ edit[e].pc = "resolved" /\ edit[f].pc = "resolved" /\ edit[e].id = edit[f].id
    => Exists(edit[e].id)

NamesSound ==
  /\ \A p \in Products : ProductNamed(p)
  /\ \A e \in Edits : EditNamed(e) /\ MakesItsOwn(e)

GroupShapes ==
  /\ group \in [Groups -> {"none", "open", "deleted"}]
  /\ member \subseteq MembershipPairs /\ asked \subseteq MembershipPairs /\ mixed \subseteq MembershipPairs
  /\ quick \in 0..NQuickEdits

\* Some of the products are no more than there are.
LEMMA ProductsCounted ==
  ASSUME NEW S, S \subseteq Products
  PROVE  IsFiniteSet(S) /\ Cardinality(S) \in 0..NProducts /\ Cardinality(S) \in Nat
<1>1. NProducts \in Nat
  BY CatalogueAssumption
<1>2. IsFiniteSet(Products) /\ Cardinality(Products) = NProducts
  BY <1>1, FS_Interval DEF Products
<1>3. IsFiniteSet(S) /\ Cardinality(S) <= NProducts
  BY <1>2, FS_Subset
<1>4. Cardinality(S) \in Nat
  BY <1>3, FS_CardinalityType
<1> QED BY <1>1, <1>3, <1>4

\* Products are never taken out of the table: there are as many as there were.
LEMMA MadeGrows ==
  ASSUME \A q \in Products : Exists(q) => Exists(q)'
  PROVE  /\ Made \in 0..NProducts /\ Made \in Nat /\ Made' \in 0..NProducts /\ Made' \in Nat
         /\ Made <= Made'
<1>1. Existing \subseteq Existing' /\ Existing' \subseteq Products
  BY DEF Existing
<1>2. PICK S, T : S = Existing /\ T = Existing'
  OBVIOUS
<1>3. /\ IsFiniteSet(T)
      /\ Cardinality(S) \in 0..NProducts /\ Cardinality(S) \in Nat
      /\ Cardinality(T) \in 0..NProducts /\ Cardinality(T) \in Nat
  BY <1>1, <1>2, ProductsCounted
<1>4. Cardinality(S) <= Cardinality(T)
  BY <1>1, <1>2, <1>3, FS_Subset
<1> QED BY <1>2, <1>3, <1>4 DEF Made

\* There is one more when one is made.
LEMMA MadeGrowsByOne ==
  ASSUME \A q \in Products : Exists(q) => Exists(q)',
         NEW p \in Products, ~Exists(p), Exists(p)'
  PROVE  Made < Made'
<1>1. PICK S, T : S = Existing /\ T = Existing'
  OBVIOUS
<1>2. S \subseteq Products /\ T \subseteq Products /\ p \notin S /\ S \cup {p} \subseteq T
  BY <1>1 DEF Existing
<1>3. IsFiniteSet(S) /\ IsFiniteSet(T) /\ Cardinality(S) \in Nat /\ Cardinality(T) \in Nat
  BY <1>2, ProductsCounted
<1>4. Cardinality(S \cup {p}) = Cardinality(S) + 1
  BY <1>2, <1>3, FS_AddElement
<1>5. Cardinality(S \cup {p}) <= Cardinality(T)
  BY <1>2, <1>3, FS_Subset
<1>6. Cardinality(S) < Cardinality(T)
  BY <1>3, <1>4, <1>5
<1> QED BY <1>1, <1>6 DEF Made

\* What a request that is over, or is about a group, says of names: nothing.
LEMMA NewEditNamed ==
  /\ SlugNamed(NewEdit) /\ NewEdit.name.copies = 0
  /\ \A pc \in {"done", "slugTaken", "failed"} :
       SlugNamed(Answered(pc)) /\ Answered(pc).name.copies = 0 /\ Answered(pc).pc # "resolved"
<1>1. 0 \in 0..NProducts
  <2>1. NProducts \in Nat
    BY CatalogueAssumption
  <2> QED BY <2>1
<1>2. NewEdit.slug = NoSlug /\ NewEdit.name = NoName /\ NoSlug.base = NoName /\ NoSlug.no = 0
      /\ NoName.copies = 0
  BY DEF NewEdit, NoSlug, NoName
<1>3. \A pc \in {"done", "slugTaken", "failed"} :
        Answered(pc).slug = NoSlug /\ Answered(pc).name = NoName /\ Answered(pc).pc = pc
  BY DEF Answered, NewEdit
<1> QED BY <1>1, <1>2, <1>3 DEF SlugNamed


\* A request that goes on to do with a product, or is over.
EditRowNamed(e, row) ==
  /\ row \in EditRows /\ SlugNamed(row) /\ row.name.copies <= Made
  /\ row.pc = "resolved" =>
       /\ Exists(row.id) => row.name.copies = 0
       /\ \A f \in Edits : f # e /\ edit[f].pc = "resolved" /\ edit[f].id = row.id => Exists(row.id)

\* A request moves on; no product is written.
LEMMA EditMovesOn ==
  ASSUME CatalogueShapes, NamesSound, NEW e \in Edits, NEW row, EditRowNamed(e, row),
         edit' = [edit EXCEPT ![e] = row], product' = product
  PROVE  NamesSound'
<1>1. edit'[e] = row /\ \A f \in Edits : f # e => edit'[f] = edit[f]
  BY DEF CatalogueShapes
<1>2. Made' = Made /\ \A q \in Products : Exists(q)' = Exists(q)
  BY DEF Made, Existing, Exists
<1>3. \A p \in Products : ProductNamed(p)'
  BY <1>2 DEF NamesSound, ProductNamed, SlugNamed
<1>4. row.id \in Products
  BY DEF EditRowNamed, EditRows
<1>5. ASSUME NEW f \in Edits PROVE EditNamed(f)'
  <2>1. edit[f].id \in Products
    BY EditIsRow
  <2>2. CASE f = e
    BY <1>1, <1>2, <1>4, <2>2 DEF EditNamed, EditRowNamed, SlugNamed
  <2>3. CASE f # e
    BY <1>1, <1>2, <2>1, <2>3 DEF NamesSound, EditNamed, SlugNamed
  <2> QED BY <2>2, <2>3
<1>6. ASSUME NEW f \in Edits, NEW g \in Edits, f # g, edit'[f].pc = "resolved", edit'[g].pc = "resolved",
             edit'[f].id = edit'[g].id
      PROVE  product'[edit'[f].id].status # "free"
  <2>1. edit[f].id \in Products /\ edit[g].id \in Products
    BY EditIsRow
  <2>2. CASE f = e
    BY <1>1, <1>2, <1>4, <1>6, <2>2 DEF EditRowNamed, Exists
  <2>3. CASE g = e
    BY <1>1, <1>2, <1>4, <1>6, <2>3 DEF EditRowNamed, Exists
  <2>4. CASE f # e /\ g # e
    <3>1. Exists(edit[f].id)
      BY <1>1, <1>6, <2>4 DEF NamesSound, MakesItsOwn
    <3> QED BY <1>1, <1>2, <2>1, <2>4, <3>1 DEF Exists
  <2> QED BY <2>2, <2>3, <2>4
<1>7. \A f \in Edits : MakesItsOwn(f)'
  BY <1>6 DEF MakesItsOwn, Exists
<1> QED BY <1>3, <1>5, <1>7 DEF NamesSound

\* A request that has done with names moves on: it is over, or does its groups.
LEMMA EditGoesOn ==
  ASSUME CatalogueShapes, NamesSound, NEW e \in Edits, NEW row \in EditRows,
         SlugNamed(row), row.name.copies <= Made, row.pc # "resolved",
         edit' = [edit EXCEPT ![e] = row], product' = product
  PROVE  NamesSound'
<1>1. EditRowNamed(e, row)
  BY DEF EditRowNamed
<1> QED BY <1>1, EditMovesOn

\* A request that is over has no name left.
LEMMA EditIsOver ==
  ASSUME CatalogueShapes, NamesSound, NEW e \in Edits, NEW pc \in {"done", "slugTaken", "failed"},
         edit' = [edit EXCEPT ![e] = Answered(pc)], product' = product
  PROVE  NamesSound'
<1>1. PICK row : row = Answered(pc)
  OBVIOUS
<1>2. /\ row \in EditRows /\ SlugNamed(row) /\ row.name.copies = 0 /\ row.pc # "resolved"
      /\ edit' = [edit EXCEPT ![e] = row]
  BY <1>1, NewEditIsRow, NewEditNamed
<1>3. Made \in Nat
  BY ProductsCounted DEF Made, Existing
<1>4. row.name.copies <= Made
  BY <1>2, <1>3
<1> QED BY <1>2, <1>4, EditGoesOn

\* A product is made or written; the request that did it has done with names,
\* and no other one is about to make this product.
LEMMA NameGoesOut ==
  ASSUME CatalogueShapes, NamesSound, NEW p \in Products, NEW written, written.status # "free",
         SlugNamed(written), product' = [product EXCEPT ![p] = written],
         written.name.copies = 0 \/ written.name.copies < Made',
         \A f \in Edits : \/ edit'[f] = edit[f]
                          \/ /\ SlugNamed(edit'[f]) /\ edit'[f].name.copies \in Nat
                             /\ edit'[f].name.copies <= Made /\ edit'[f].pc # "resolved",
         \A f \in Edits : edit'[f].pc = "resolved" /\ edit'[f].id = p => Exists(p)
  PROVE  NamesSound'
<1>1. product'[p] = written /\ \A q \in Products : q # p => product'[q] = product[q]
  BY DEF CatalogueShapes
<1>2. \A q \in Products : Exists(q) => Exists(q)'
  BY <1>1 DEF Exists
<1>3. \A q \in Products : q # p => Exists(q)' = Exists(q)
  BY <1>1 DEF Exists
<1>4. Made \in Nat /\ Made' \in Nat /\ Made <= Made'
  BY <1>2, MadeGrows
<1>5. ASSUME NEW q \in Products PROVE ProductNamed(q)'
  <2>1. CASE q = p
    BY <1>1, <2>1 DEF ProductNamed, SlugNamed
  <2>2. CASE q # p
    <3>1. product[q].name.copies \in Nat
      BY DEF CatalogueShapes, ProductRows, NameRows
    <3>2. product[q].name.copies = 0 \/ product[q].name.copies < Made
      BY DEF NamesSound, ProductNamed
    <3>3. product[q].name.copies = 0 \/ product[q].name.copies < Made'
      BY <1>4, <3>1, <3>2
    <3> QED BY <1>1, <2>2, <3>3 DEF NamesSound, ProductNamed, SlugNamed
  <2> QED BY <2>1, <2>2
<1>6. ASSUME NEW f \in Edits, edit'[f].pc = "resolved"
      PROVE  /\ edit'[f] = edit[f] /\ edit[f].id \in Products
             /\ Exists(edit[f].id) <=> product'[edit[f].id].status # "free"
  <2>1. edit'[f] = edit[f] /\ edit[f].id \in Products
    BY <1>6, EditIsRow
  <2>2. CASE edit[f].id = p
    BY <1>2, <1>6, <2>1, <2>2 DEF Exists
  <2> QED BY <1>3, <2>1, <2>2 DEF Exists
<1>7. ASSUME NEW f \in Edits PROVE EditNamed(f)'
  <2>1. SlugNamed(edit'[f]) /\ edit'[f].name.copies <= Made
    BY DEF NamesSound, EditNamed
  <2>2. edit'[f].name.copies <= Made'
    <3>1. CASE edit'[f] = edit[f]
      <4>1. edit[f].name.copies \in Nat
        BY EditIsRow DEF NameRows
      <4> QED BY <1>4, <2>1, <3>1, <4>1
    <3>2. CASE edit'[f] # edit[f]
      BY <1>4, <2>1, <3>2
    <3> QED BY <3>1, <3>2
  <2>3. ASSUME edit'[f].pc = "resolved", product'[edit'[f].id].status # "free"
        PROVE  edit'[f].name.copies = 0
    BY <1>6, <2>3 DEF NamesSound, EditNamed, Exists
  <2> QED BY <2>1, <2>2, <2>3 DEF EditNamed, SlugNamed, Exists
<1>8. ASSUME NEW f \in Edits, NEW g \in Edits, f # g, edit'[f].pc = "resolved", edit'[g].pc = "resolved",
             edit'[f].id = edit'[g].id
      PROVE  product'[edit'[f].id].status # "free"
  BY <1>6, <1>8 DEF NamesSound, MakesItsOwn, Exists
<1>9. \A f \in Edits : MakesItsOwn(f)'
  BY <1>8 DEF MakesItsOwn, Exists
<1> QED BY <1>5, <1>7, <1>9 DEF NamesSound

\* Names come with the requests of clients, or are made from those of a product
\* that is there.
LEMMA NamesComeIn ==
  /\ \A n \in Names : NameOf(n).copies = 0
  /\ NoName.copies = 0
  BY DEF NameOf, NoName

\* The copy of a product has one copy more than it, and it is there itself.
LEMMA CopiesCount ==
  ASSUME CatalogueShapes, NamesSound, NEW source \in Products, Exists(source)
  PROVE  DraftName(product[source].name).copies <= Made
<1>1. PICK name : name = product[source].name
  OBVIOUS
<1>2. name \in NameRows /\ name.copies \in Nat
  BY <1>1 DEF CatalogueShapes, ProductRows, NameRows
<1>3. name.copies = 0 \/ name.copies < Made
  BY <1>1 DEF NamesSound, ProductNamed
<1>4. Made \in Nat /\ Made # 0
  <2>1. PICK S : S = Existing
    OBVIOUS
  <2>2. S \subseteq Products /\ S # {}
    BY <2>1 DEF Existing
  <2>3. IsFiniteSet(S) /\ Cardinality(S) \in Nat
    BY <2>2, ProductsCounted
  <2>4. Cardinality(S) # 0
    BY <2>2, <2>3, FS_EmptySet
  <2> QED BY <2>1, <2>3, <2>4 DEF Made
<1>5. name.copies + 1 <= Made
  BY <1>2, <1>3, <1>4
<1>6. CASE name = NoName
  <2>1. DraftName(name).copies = 1
    BY <1>6 DEF DraftName
  <2> QED BY <1>1, <1>4, <2>1
<1>7. CASE name # NoName
  <2>1. PICK k : k = name.copies + 1
    OBVIOUS
  <2>2. DraftName(name) = [name EXCEPT !.copies = k]
    BY <1>7, <2>1 DEF DraftName
  <2>3. DraftName(name).copies = k
    BY <1>2, <2>2 DEF NameRows
  <2> QED BY <1>1, <1>5, <2>1, <2>3
<1> QED BY <1>6, <1>7

\* The product that a request is about to make is nobody's.
LEMMA UnusedIsFree ==
  ASSUME UnusedProducts # {}, NEW p, p = Min(UnusedProducts)
  PROVE  p \in Products /\ ~Exists(p) /\ \A f \in Edits : edit[f].pc = "resolved" => edit[f].id # p
<1>1. UnusedProducts \subseteq Nat
  <2>1. NProducts \in Nat
    BY CatalogueAssumption
  <2>2. Products \subseteq Nat
    BY <2>1 DEF Products
  <2>3. UnusedProducts \subseteq Products
    BY DEF UnusedProducts
  <2> QED BY <2>2, <2>3
<1>2. p \in UnusedProducts
  BY <1>1, MinIn
<1> QED BY <1>2 DEF UnusedProducts

\* A request to make a product comes with a slug of its name.
LEMMA CreateNames ==
  ASSUME CatalogueShapes, NamesSound, NEW e \in Edits, NEW name \in NameRows, name.copies <= Made,
         UnusedProducts # {}, NEW cats, cats \subseteq Categories,
         CreateProductWithVariants(e, Min(UnusedProducts), name, cats)
  PROVE  NamesSound'
<1>1. PICK p : p = Min(UnusedProducts)
  OBVIOUS
<1>2. p \in Products /\ ~Exists(p) /\ \A f \in Edits : edit[f].pc = "resolved" => edit[f].id # p
  BY <1>1, UnusedIsFree
<1>3. PICK slug : slug = ResolveUniqueProductSlug(name, p)
  OBVIOUS
<1>4. slug \in SlugRows /\ slug.base = name /\ slug.no \in 0..NProducts
  BY <1>2, <1>3, SlugIsFound
<1>5. PICK row : row = [NewEdit EXCEPT !.pc = "resolved", !.id = p, !.name = name, !.status = "listed",
                                       !.slug = slug, !.cats = cats]
  OBVIOUS
<1>6. row \in EditRows /\ row.pc = "resolved" /\ row.id = p /\ row.name = name /\ row.slug = slug
  BY <1>2, <1>4, <1>5, NewEditIsRow DEF EditRows
<1>7. edit' = [edit EXCEPT ![e] = row] /\ product' = product
  BY <1>1, <1>3, <1>5 DEF CreateProductWithVariants
<1>8. EditRowNamed(e, row)
  BY <1>2, <1>4, <1>6 DEF EditRowNamed, SlugNamed
<1> QED BY <1>7, <1>8, EditMovesOn

\* A request to rename a product comes with a slug of its name.
LEMMA UpdateNames ==
  ASSUME CatalogueShapes, NamesSound, NEW e \in Edits, NEW p \in Products, NEW name \in NameRows,
         name.copies = 0, NEW status \in {Keep, "listed"},
         NEW cols, cols = {Keep} \/ cols \subseteq Collections,
         NEW cats, cats = {Keep} \/ cats \subseteq Categories,
         UpdateProduct(e, p, name, status, cols, cats)
  PROVE  NamesSound'
<1>1. PICK todo : todo = SyncOf(Collections, p, cols) \o SyncOf(Categories, p, cats)
  OBVIOUS
<1>2. todo \in Seq(Replacements)
  <2>1. Collections \subseteq Groups /\ Categories \subseteq Groups
    BY DEF Groups
  <2>2. SyncOf(Collections, p, cols) \in Seq(Replacements)
    BY <2>1, SyncIsSound
  <2>3. SyncOf(Categories, p, cats) \in Seq(Replacements)
    BY <2>1, SyncIsSound
  <2> QED BY <1>1, <2>2, <2>3, TwoSyncs
<1>3. PICK pc : pc = IF name = NoName /\ status = Keep THEN "syncing" ELSE "resolved"
  OBVIOUS
<1>4. PICK slug : slug = IF name = NoName THEN NoSlug ELSE ResolveUniqueProductSlug(name, p)
  OBVIOUS
<1>5. slug \in SlugRows /\ slug.base = name /\ slug.no \in 0..NProducts
  <2>1. CASE name = NoName
    <3>1. slug \in SlugRows /\ slug.base = name
      BY <1>4, <2>1, NamesAreRows DEF NoSlug
    <3>2. slug = NewEdit.slug /\ SlugNamed(NewEdit)
      BY <1>4, <2>1, NewEditNamed DEF NewEdit
    <3> QED BY <3>1, <3>2 DEF SlugNamed
  <2>2. CASE name # NoName
    BY <1>4, <2>2, SlugIsFound
  <2> QED BY <2>1, <2>2
<1>6. PICK row : row = [NewEdit EXCEPT !.pc = pc, !.id = p, !.name = name, !.status = status,
                                       !.slug = slug, !.todo = todo]
  OBVIOUS
<1>7. row \in EditRows /\ row.pc = pc /\ row.id = p /\ row.name = name /\ row.slug = slug
  BY <1>2, <1>3, <1>5, <1>6, NewEditIsRow DEF EditRows
<1>8. edit' = [edit EXCEPT ![e] = row] /\ Exists(p) /\ product' = product
  BY <1>1, <1>3, <1>4, <1>6 DEF UpdateProduct
<1>9. Made \in Nat
  BY ProductsCounted DEF Made, Existing
<1>10. row.name.copies = 0 /\ row.name.copies <= Made
  BY <1>7, <1>9
<1>11. EditRowNamed(e, row)
  BY <1>5, <1>7, <1>8, <1>10 DEF EditRowNamed, SlugNamed
<1> QED BY <1>8, <1>11, EditMovesOn

\* A request about a group names nothing.
LEMMA PatchGroupNames ==
  ASSUME CatalogueShapes, NamesSound, NEW e \in Edits, NEW g \in Groups, NEW ps, ps \subseteq Products,
         PatchGroup(e, g, ps)
  PROVE  NamesSound'
<1>1. PICK todo : todo = <<Replacement({g} \X Products, {g} \X ps)>>
  OBVIOUS
<1>2. todo \in Seq(Replacements)
  <2>1. {g} \X Products \subseteq MembershipPairs /\ {g} \X ps \subseteq {g} \X Products
    BY DEF MembershipPairs
  <2> QED BY <1>1, <2>1, ReplacementsAreSound
<1>3. PICK row : row = [NewEdit EXCEPT !.pc = "syncing", !.todo = todo]
  OBVIOUS
<1>4. row \in EditRows /\ row.pc = "syncing" /\ row.name = NewEdit.name /\ row.slug = NewEdit.slug
  BY <1>2, <1>3, NewEditIsRow DEF EditRows
<1>5. edit' = [edit EXCEPT ![e] = row] /\ product' = product
  BY <1>1, <1>3 DEF PatchGroup
<1>6. SlugNamed(row) /\ row.name.copies = 0
  BY <1>4, NewEditNamed DEF SlugNamed
<1>7. Made \in Nat
  BY ProductsCounted DEF Made, Existing
<1>8. row.name.copies <= Made
  BY <1>6, <1>7
<1> QED BY <1>4, <1>5, <1>6, <1>8, EditGoesOn

\* Replacements keep the name their request came with.
LEMMA BeginReplaceNames ==
  ASSUME CatalogueShapes, NamesSound, NEW e \in Edits, BeginReplace(e)
  PROVE  NamesSound'
<1>1. edit[e].pc = "syncing" /\ product' = product
  BY DEF BeginReplace
<1>2. CASE \A m \in Due(e).add : Linkable(m[1])
  <2>1. PICK gone : gone = member \cap Due(e).scope
    OBVIOUS
  <2>2. PICK row : row = [edit[e] EXCEPT !.pc = "cleared", !.gone = gone]
    OBVIOUS
  <2>3. edit[e] \in EditRows /\ Due(e).scope \subseteq MembershipPairs
    BY <1>1, EditIsRow, DueIsReplacement
  <2>4. row \in EditRows /\ row.pc = "cleared" /\ row.name = edit[e].name /\ row.slug = edit[e].slug
    BY <2>1, <2>2, <2>3 DEF EditRows
  <2>5. edit' = [edit EXCEPT ![e] = row]
    BY <1>2, <2>1, <2>2 DEF BeginReplace, ClearMemberships, CatalogueShapes
  <2>6. SlugNamed(row) /\ row.name.copies <= Made
    BY <2>4 DEF NamesSound, EditNamed, SlugNamed
  <2> QED BY <1>1, <2>4, <2>5, <2>6, EditGoesOn
<1>3. CASE ~\A m \in Due(e).add : Linkable(m[1])
  <2>1. PICK pc : pc = "failed"
    OBVIOUS
  <2>2. edit' = [edit EXCEPT ![e] = Answered(pc)]
    BY <1>3, <2>1 DEF BeginReplace
  <2> QED BY <1>1, <2>1, <2>2, EditIsOver
<1> QED BY <1>2, <1>3

\* After a replacement or a patch comes the next replacement, or the answer.
LEMMA AfterNamed ==
  ASSUME CatalogueShapes, NamesSound, NEW e \in Edits, NEW todo \in Seq(Replacements),
         NEW row, row = After(edit[e], todo)
  PROVE  /\ row \in EditRows /\ row.pc # "resolved"
         /\ SlugNamed(row) /\ row.name.copies \in Nat /\ row.name.copies <= Made
<1>1. edit[e] \in EditRows
  BY EditIsRow
<1>2. row \in EditRows /\ row.pc # "resolved"
  BY <1>1, AfterIsSound
<1>3. row.name.copies \in Nat
  BY <1>2 DEF EditRows, NameRows
<1>4. CASE todo = <<>>
  <2>1. row = Answered("done")
    BY <1>4 DEF After
  <2>2. SlugNamed(row) /\ row.name.copies = 0
    BY <2>1, NewEditNamed
  <2>3. Made \in Nat
    BY ProductsCounted DEF Made, Existing
  <2>4. row.name.copies <= Made
    BY <2>2, <2>3
  <2> QED BY <1>2, <1>3, <2>2, <2>4
<1>5. CASE todo # <<>>
  <2>1. row = [edit[e] EXCEPT !.pc = "syncing", !.gone = {}, !.todo = todo]
    BY <1>5 DEF After
  <2>2. row.name = edit[e].name /\ row.slug = edit[e].slug
    BY <1>1, <2>1 DEF EditRows
  <2>3. SlugNamed(row) /\ row.name.copies <= Made
    BY <2>2 DEF NamesSound, EditNamed, SlugNamed
  <2> QED BY <1>2, <1>3, <2>3
<1> QED BY <1>4, <1>5

LEMMA EndReplaceNames ==
  ASSUME CatalogueShapes, NamesSound, NEW e \in Edits, EndReplace(e)
  PROVE  NamesSound'
<1>1. edit[e].pc = "cleared" /\ product' = product
  BY DEF EndReplace, Replacing
<1>2. CASE \A m \in Due(e).add : Open(m[1])
  <2>1. PICK todo : todo = Tail(edit[e].todo)
    OBVIOUS
  <2>2. edit[e].todo \in Seq(Replacements) /\ edit[e].todo # <<>>
    BY <1>1, EditIsRow, DueIsReplacement
  <2>3. todo \in Seq(Replacements)
    BY <2>1, <2>2
  <2>4. PICK row : row = After(edit[e], todo)
    OBVIOUS
  <2>5. row \in EditRows /\ row.pc # "resolved" /\ SlugNamed(row) /\ row.name.copies <= Made
    BY <2>3, <2>4, AfterNamed
  <2>6. edit' = [edit EXCEPT ![e] = row]
    BY <1>2, <2>1, <2>4 DEF EndReplace, CatalogueShapes
  <2> QED BY <1>1, <2>5, <2>6, EditGoesOn
<1>3. CASE ~\A m \in Due(e).add : Open(m[1])
  <2>1. PICK pc : pc = "failed"
    OBVIOUS
  <2>2. edit' = [edit EXCEPT ![e] = Answered(pc)]
    BY <1>3, <2>1 DEF EndReplace
  <2> QED BY <1>1, <2>1, <2>2, EditIsOver
<1> QED BY <1>2, <1>3

\* The product that is made is one more, and no other request is to make it.
LEMMA FinishCreateNames ==
  ASSUME CatalogueShapes, NamesSound, NEW e \in Edits, SlugSound(e), FinishCreate(e)
  PROVE  NamesSound'
<1>1. PICK r : r = edit[e]
  OBVIOUS
<1>2. r \in EditRows /\ r.pc = "resolved" /\ ~Exists(r.id)
  BY <1>1, EditIsRow DEF FinishCreate
<1>3. CASE SlugTaken(r.slug, r.id) \/ \E c \in r.cats : ~Linkable(c)
  <2>1. PICK pc : pc = IF SlugTaken(r.slug, r.id) THEN "slugTaken" ELSE "failed"
    OBVIOUS
  <2>2. edit' = [edit EXCEPT ![e] = Answered(pc)] /\ product' = product
    BY <1>1, <1>3, <2>1 DEF FinishCreate
  <2>3. pc \in {"slugTaken", "failed"}
    BY <2>1
  <2> QED BY <2>2, <2>3, EditIsOver
<1>4. CASE ~(SlugTaken(r.slug, r.id) \/ \E c \in r.cats : ~Linkable(c))
  <2>1. PICK written : written = [status |-> r.status, name |-> r.name, slug |-> r.slug]
    OBVIOUS
  <2>2. PICK p \in Products : p = r.id
    BY <1>2 DEF EditRows
  <2>3. PICK row : row = Answered("done")
    OBVIOUS
  <2>4. product' = [product EXCEPT ![p] = written] /\ edit' = [edit EXCEPT ![e] = row]
    BY <1>1, <1>4, <2>1, <2>2, <2>3 DEF FinishCreate, InsertProduct
  <2>5. r.status = "listed" /\ r.name.copies \in Nat
    BY <1>1, <1>2 DEF SlugSound, EditRows, NameRows
  <2>6. written.status # "free" /\ written.name = r.name /\ written.slug = r.slug
    BY <2>1, <2>5
  <2>7. SlugNamed(written) /\ r.name.copies <= Made
    BY <1>1, <2>6 DEF NamesSound, EditNamed, SlugNamed
  <2>8. product'[p] = written /\ \A q \in Products : q # p => product'[q] = product[q]
    BY <2>4 DEF CatalogueShapes
  <2>9. /\ \A q \in Products : Exists(q) => Exists(q)'
        /\ ~Exists(p) /\ Exists(p)'
    BY <1>2, <2>2, <2>6, <2>8 DEF Exists
  <2>10. Made \in Nat /\ Made' \in Nat /\ Made < Made'
    BY <2>9, MadeGrows, MadeGrowsByOne
  <2>11. written.name.copies < Made'
    BY <2>5, <2>6, <2>7, <2>10
  <2>12. edit'[e] = row /\ \A f \in Edits : f # e => edit'[f] = edit[f]
    BY <2>4 DEF CatalogueShapes
  <2>13. SlugNamed(row) /\ row.name.copies \in Nat /\ row.name.copies <= Made /\ row.pc # "resolved"
    <3>1. SlugNamed(row) /\ row.name.copies = 0 /\ row.pc # "resolved"
      BY <2>3, NewEditNamed
    <3> QED BY <2>10, <3>1
  <2>14. \A f \in Edits : \/ edit'[f] = edit[f]
                          \/ /\ SlugNamed(edit'[f]) /\ edit'[f].name.copies \in Nat
                             /\ edit'[f].name.copies <= Made /\ edit'[f].pc # "resolved"
    BY <2>12, <2>13
  <2>15. \A f \in Edits : edit'[f].pc = "resolved" /\ edit'[f].id = p => Exists(p)
    BY <1>1, <1>2, <2>2, <2>12, <2>13 DEF NamesSound, MakesItsOwn
  <2> QED BY <2>4, <2>6, <2>7, <2>11, <2>14, <2>15, NameGoesOut
<1> QED BY <1>3, <1>4

\* A product that is renamed gets a name that is no copy.
LEMMA PatchProductNames ==
  ASSUME CatalogueShapes, NamesSound, NEW e \in Edits, PatchProduct(e)
  PROVE  NamesSound'
<1>1. PICK r : r = edit[e]
  OBVIOUS
<1>2. r \in EditRows /\ r.pc = "resolved" /\ Exists(r.id)
  BY <1>1, EditIsRow DEF PatchProduct
<1>3. CASE r.name # NoName /\ SlugTaken(r.slug, r.id)
  <2>1. PICK pc : pc = "slugTaken"
    OBVIOUS
  <2>2. edit' = [edit EXCEPT ![e] = Answered(pc)] /\ product' = product
    BY <1>1, <1>3, <2>1 DEF PatchProduct
  <2> QED BY <2>1, <2>2, EditIsOver
<1>4. CASE ~(r.name # NoName /\ SlugTaken(r.slug, r.id))
  <2>1. PICK written : written = PatchColumns(product[r.id], r)
    OBVIOUS
  <2>2. PICK p \in Products : p = r.id
    BY <1>2 DEF EditRows
  <2>3. r.status \in {Keep, "listed"} /\ r.todo \in Seq(Replacements)
    BY <1>2 DEF EditRows
  <2>4. product[p] \in ProductRows /\ product[p].status # "free"
    BY <1>2, <2>2 DEF CatalogueShapes, Exists
  <2>5. PICK row : row = After(r, r.todo)
    OBVIOUS
  <2>6. row.pc # "resolved" /\ SlugNamed(row) /\ row.name.copies \in Nat /\ row.name.copies <= Made
    BY <1>1, <2>3, <2>5, AfterNamed
  <2>7. product' = [product EXCEPT ![p] = written] /\ edit' = [edit EXCEPT ![e] = row]
    BY <1>1, <1>4, <2>1, <2>2, <2>5 DEF PatchProduct
  <2>8. written.status # "free"
    BY <2>1, <2>2, <2>3, <2>4 DEF PatchColumns
  <2>9. \/ written.name = r.name /\ written.slug = r.slug
        \/ written.name = product[p].name /\ written.slug = product[p].slug
    BY <2>1, <2>2 DEF PatchColumns
  <2>10. SlugNamed(r) /\ r.name.copies = 0
    BY <1>1, <1>2 DEF NamesSound, EditNamed
  <2>11. SlugNamed(product[p]) /\ (product[p].name.copies = 0 \/ product[p].name.copies < Made)
         /\ product[p].name.copies \in Nat
    BY <2>4 DEF NamesSound, ProductNamed, ProductRows, NameRows
  <2>12. SlugNamed(written)
    BY <2>9, <2>10, <2>11 DEF SlugNamed
  <2>13. product'[p] = written /\ \A q \in Products : q # p => product'[q] = product[q]
    BY <2>7 DEF CatalogueShapes
  <2>14. \A q \in Products : Exists(q) => Exists(q)'
    BY <2>8, <2>13 DEF Exists
  <2>15. Made \in Nat /\ Made' \in Nat /\ Made <= Made'
    BY <2>14, MadeGrows
  <2>16. written.name.copies = 0 \/ written.name.copies < Made'
    BY <2>9, <2>10, <2>11, <2>15
  <2>17. edit'[e] = row /\ \A f \in Edits : f # e => edit'[f] = edit[f]
    BY <2>7 DEF CatalogueShapes
  <2>18. \A f \in Edits : \/ edit'[f] = edit[f]
                          \/ /\ SlugNamed(edit'[f]) /\ edit'[f].name.copies \in Nat
                             /\ edit'[f].name.copies <= Made /\ edit'[f].pc # "resolved"
    BY <2>6, <2>17
  <2>19. \A f \in Edits : edit'[f].pc = "resolved" /\ edit'[f].id = p => Exists(p)
    BY <1>2, <2>2
  <2> QED BY <2>7, <2>8, <2>12, <2>16, <2>18, <2>19, NameGoesOut
<1> QED BY <1>3, <1>4

\* A product is made without a name, or keeps its own.
LEMMA NameStays ==
  ASSUME CatalogueShapes, NamesSound, NEW p \in Products, NEW written, written.status # "free",
         SlugNamed(written), written.name.copies = 0 \/ written.name = product[p].name,
         ~Exists(p) => \A f \in Edits : edit[f].pc = "resolved" => edit[f].id # p,
         product' = [product EXCEPT ![p] = written], edit' = edit
  PROVE  NamesSound'
<1>1. product'[p] = written /\ \A q \in Products : q # p => product'[q] = product[q]
  BY DEF CatalogueShapes
<1>2. \A q \in Products : Exists(q) => Exists(q)'
  BY <1>1 DEF Exists
<1>3. Made \in Nat /\ Made' \in Nat /\ Made <= Made'
  BY <1>2, MadeGrows
<1>4. /\ product[p].name.copies = 0 \/ product[p].name.copies < Made
      /\ product[p].name.copies \in Nat
  BY DEF NamesSound, ProductNamed, CatalogueShapes, ProductRows, NameRows
<1>5. written.name.copies = 0 \/ written.name.copies < Made'
  BY <1>3, <1>4
<1>6. \A f \in Edits : edit'[f] = edit[f]
  OBVIOUS
<1>7. \A f \in Edits : edit'[f].pc = "resolved" /\ edit'[f].id = p => Exists(p)
  BY <1>6
<1> QED BY <1>5, <1>6, <1>7, NameGoesOut

LEMMA CreateDraftNames ==
  ASSUME CatalogueShapes, NamesSound, UnusedProducts # {}, CreateDraft(Min(UnusedProducts))
  PROVE  NamesSound'
<1>1. PICK p : p = Min(UnusedProducts)
  OBVIOUS
<1>2. p \in Products /\ ~Exists(p) /\ \A f \in Edits : edit[f].pc = "resolved" => edit[f].id # p
  BY <1>1, UnusedIsFree
<1>3. PICK written : written = [NewProduct EXCEPT !.status = "listed"]
  OBVIOUS
<1>4. written.status # "free" /\ written.name = NewEdit.name /\ written.slug = NewEdit.slug
  BY <1>3 DEF NewProduct, NewEdit
<1>5. SlugNamed(written) /\ written.name.copies = 0
  BY <1>4, NewEditNamed DEF SlugNamed
<1>6. product' = [product EXCEPT ![p] = written] /\ edit' = edit
  BY <1>1, <1>3 DEF CreateDraft, InsertDraftProduct, InsertProduct
<1> QED BY <1>2, <1>4, <1>5, <1>6, NameStays

LEMMA DeleteProductNames ==
  ASSUME CatalogueShapes, NamesSound, NEW p \in Products, DeleteProduct(p)
  PROVE  NamesSound'
<1>1. PICK written : written = PatchColumns(product[p], [NewEdit EXCEPT !.status = "archived"])
  OBVIOUS
<1>2. written = [status |-> "archived", name |-> product[p].name, slug |-> product[p].slug]
  BY <1>1 DEF PatchColumns, NewEdit, Keep
<1>3. written.status # "free" /\ written.name = product[p].name /\ written.slug = product[p].slug
  BY <1>2
<1>4. SlugNamed(written)
  BY <1>3 DEF NamesSound, ProductNamed, SlugNamed
<1>5. product' = [product EXCEPT ![p] = written] /\ edit' = edit /\ Exists(p)
  BY <1>1 DEF DeleteProduct
<1> QED BY <1>3, <1>4, <1>5, NameStays

\* Groups, and a step that does nothing, leave the names alone.
LEMMA NamesStay ==
  ASSUME CatalogueShapes, NamesSound, UNCHANGED <<product, edit>>
  PROVE  NamesSound'
<1>1. Made' = Made /\ \A q \in Products : Exists(q)' = Exists(q)
  BY DEF Made, Existing, Exists
<1>2. \A p \in Products : ProductNamed(p)'
  BY <1>1 DEF NamesSound, ProductNamed, SlugNamed
<1>3. \A f \in Edits : edit[f].id \in Products
  BY EditIsRow
<1>4. \A f \in Edits : EditNamed(f)'
  BY <1>1, <1>3 DEF NamesSound, EditNamed, SlugNamed
<1>5. \A f \in Edits : MakesItsOwn(f)'
  BY <1>1, <1>3 DEF NamesSound, MakesItsOwn
<1> QED BY <1>2, <1>4, <1>5 DEF NamesSound

LEMMA NamesInitSafe == CatalogueInit => NamesSound
<1> SUFFICES ASSUME CatalogueInit PROVE NamesSound
  OBVIOUS
<1>1. /\ \A e \in Edits : edit[e] = NewEdit
      /\ \A p \in Products : product[p].name = NewEdit.name /\ product[p].slug = NewEdit.slug
  BY DEF CatalogueInit, NewProduct, NewEdit
<1>2. SlugNamed(NewEdit) /\ NewEdit.name.copies = 0 /\ NewEdit.pc = "new"
  BY NewEditNamed DEF NewEdit
<1>3. Made \in Nat
  BY ProductsCounted DEF Made, Existing
<1>4. NewEdit.name.copies <= Made
  BY <1>2, <1>3
<1>5. \A e \in Edits : EditNamed(e)
  BY <1>1, <1>2, <1>4 DEF EditNamed
<1>6. \A p \in Products : ProductNamed(p)
  BY <1>1, <1>2 DEF ProductNamed, SlugNamed
<1>7. \A e \in Edits : MakesItsOwn(e)
  BY <1>1, <1>2 DEF MakesItsOwn
<1> QED BY <1>5, <1>6, <1>7 DEF NamesSound

-----------------------------------------------------------------------------
(* Catalogue: groups and memberships have the shapes the code gives them   *)

\* Two replacements have only pairs of groups and products in common.
LEMMA MixIsOfPairs ==
  ASSUME mixed \subseteq MembershipPairs, NEW e, NEW pairs, pairs \subseteq MembershipPairs, Mix(e, pairs)
  PROVE  mixed' \subseteq MembershipPairs
BY DEF Mix

LEMMA PairsOfGroup ==
  ASSUME NEW g \in Groups, NEW ps, ps \subseteq Products
  PROVE  {g} \X ps \subseteq MembershipPairs
BY DEF MembershipPairs

LEMMA CreateGroupShapes ==
  ASSUME GroupShapes, NEW g \in Groups, NEW ps, ps \subseteq Products, CreateGroup(g, ps)
  PROVE  GroupShapes'
<1>1. PICK pairs : pairs = {g} \X ps
  OBVIOUS
<1>2. pairs \subseteq MembershipPairs
  BY <1>1, PairsOfGroup
<1>3. /\ member' = member \cup pairs /\ asked' = asked \cup pairs /\ Mix(0, pairs)
      /\ group' = [group EXCEPT ![g] = "open"] /\ quick < NQuickEdits /\ quick' = quick + 1
  BY <1>1 DEF CreateGroup, LinkProducts, Quickly
<1>4. mixed' \subseteq MembershipPairs
  BY <1>2, <1>3, MixIsOfPairs DEF GroupShapes
<1>5. quick' \in 0..NQuickEdits
  <2>1. NQuickEdits \in Nat
    BY CatalogueAssumption
  <2> QED BY <1>3, <2>1 DEF GroupShapes
<1>6. group' \in [Groups -> {"none", "open", "deleted"}]
  BY <1>3 DEF GroupShapes
<1>7. member' \subseteq MembershipPairs /\ asked' \subseteq MembershipPairs
  BY <1>2, <1>3 DEF GroupShapes
<1> QED BY <1>4, <1>5, <1>6, <1>7 DEF GroupShapes

LEMMA DeleteGroupShapes ==
  ASSUME GroupShapes, NEW g \in Groups, DeleteGroup(g)
  PROVE  GroupShapes'
<1>1. /\ member' \subseteq member /\ asked' \subseteq asked /\ mixed' = mixed
      /\ group' = [group EXCEPT ![g] = "deleted"] /\ quick < NQuickEdits /\ quick' = quick + 1
  BY DEF DeleteGroup, Quickly
<1>2. quick' \in 0..NQuickEdits
  <2>1. NQuickEdits \in Nat
    BY CatalogueAssumption
  <2> QED BY <1>1, <2>1 DEF GroupShapes
<1>3. group' \in [Groups -> {"none", "open", "deleted"}]
  BY <1>1 DEF GroupShapes
<1> QED BY <1>1, <1>2, <1>3 DEF GroupShapes

LEMMA QuickShapes ==
  ASSUME GroupShapes, Quickly, UNCHANGED <<group, member, asked, mixed>>
  PROVE  GroupShapes'
<1>1. NQuickEdits \in Nat
  BY CatalogueAssumption
<1> QED BY <1>1 DEF GroupShapes, Quickly

LEMMA QuietShapes ==
  ASSUME GroupShapes, UNCHANGED <<group, member, asked, mixed, quick>>
  PROVE  GroupShapes'
BY DEF GroupShapes

LEMMA FinishCreateShapes ==
  ASSUME CatalogueShapes, GroupShapes, NEW e \in Edits, FinishCreate(e)
  PROVE  GroupShapes'
<1>1. PICK pairs : pairs = edit[e].cats \X {edit[e].id}
  OBVIOUS
<1>2. pairs \subseteq MembershipPairs
  BY <1>1, EditIsRow DEF MembershipPairs, Groups
<1>3. /\ UNCHANGED <<group, quick>>
      /\ \/ member' = member \cup pairs /\ asked' = asked \cup pairs /\ Mix(e, pairs)
         \/ UNCHANGED <<member, asked, mixed>>
  BY <1>1 DEF FinishCreate, SetProductCategories
<1>4. mixed' \subseteq MembershipPairs
  BY <1>2, <1>3, MixIsOfPairs DEF GroupShapes
<1> QED BY <1>2, <1>3, <1>4 DEF GroupShapes

LEMMA BeginReplaceShapes ==
  ASSUME CatalogueShapes, GroupShapes, NEW e \in Edits, BeginReplace(e)
  PROVE  GroupShapes'
<1>1. PICK pairs : pairs = Due(e).scope
  OBVIOUS
<1>2. pairs \subseteq MembershipPairs
  BY <1>1, DueIsReplacement DEF BeginReplace
<1>3. UNCHANGED <<group, member, asked, quick>> /\ (Mix(e, pairs) \/ mixed' = mixed)
  BY <1>1 DEF BeginReplace
<1>4. mixed' \subseteq MembershipPairs
  BY <1>2, <1>3, MixIsOfPairs DEF GroupShapes
<1> QED BY <1>3, <1>4 DEF GroupShapes

LEMMA EndReplaceShapes ==
  ASSUME CatalogueShapes, GroupShapes, NEW e \in Edits, EndReplace(e)
  PROVE  GroupShapes'
<1>1. Due(e).add \subseteq MembershipPairs
  BY DueIsReplacement DEF EndReplace, Replacing
<1>2. /\ UNCHANGED <<group, mixed, quick>>
      /\ member' \subseteq member \cup Due(e).add /\ asked' \subseteq asked \cup Due(e).add
  BY DEF EndReplace
<1> QED BY <1>1, <1>2 DEF GroupShapes

LEMMA GroupInitShapes == CatalogueInit => GroupShapes
<1> SUFFICES ASSUME CatalogueInit PROVE GroupShapes
  OBVIOUS
<1>1. 0 \in 0..NQuickEdits
  <2>1. NQuickEdits \in Nat
    BY CatalogueAssumption
  <2> QED BY <2>1
<1>2. group \in [Groups -> {"none", "open", "deleted"}]
  BY DEF CatalogueInit
<1> QED BY <1>1, <1>2 DEF CatalogueInit, GroupShapes

\* Every step keeps the names and the groups sound, in the states CatalogueInv
\* allows: a name with one more copy is given with one more product.
THEOREM NamesInductive ==
  CatalogueInv /\ NamesSound /\ GroupShapes /\ [CatalogueNext]_catalogueVars => NamesSound' /\ GroupShapes'
<1> SUFFICES ASSUME CatalogueShapes, \A e \in Edits : SlugSound(e), NamesSound, GroupShapes,
                    [CatalogueNext]_catalogueVars
             PROVE  NamesSound' /\ GroupShapes'
  BY DEF CatalogueInv
<1>1. CASE UNCHANGED catalogueVars
  BY <1>1, NamesStay, QuietShapes DEF catalogueVars
<1>2. CASE PostDraft
  BY <1>2, CreateDraftNames, QuickShapes DEF PostDraft, CreateDraft
<1>3. CASE DeleteProductById
  BY <1>3, DeleteProductNames, QuickShapes DEF DeleteProductById, DeleteProduct
<1>4. CASE PostCategory \/ PostCollection
  <2>1. PICK g \in Groups, ps \in SUBSET Products : CreateGroup(g, ps)
    BY <1>4 DEF PostCategory, PostCollection, CreateCategory, CreateCollection, Listed, Existing, Groups
  <2>2. UNCHANGED <<product, edit>>
    BY <2>1 DEF CreateGroup
  <2> QED BY <2>1, <2>2, NamesStay, CreateGroupShapes
<1>5. CASE DeleteCategoryById \/ DeleteCollectionById
  <2>1. PICK g \in Groups : DeleteGroup(g)
    BY <1>5 DEF DeleteCategoryById, DeleteCollectionById, DeleteCategory, DeleteCollection, Groups
  <2>2. UNCHANGED <<product, edit>>
    BY <2>1 DEF DeleteGroup
  <2> QED BY <2>1, <2>2, NamesStay, DeleteGroupShapes
<1>6. ASSUME NEW e \in Edits, PostProduct(e) PROVE NamesSound' /\ GroupShapes'
  <2>1. PICK n \in Names, cats \in SUBSET Categories :
           UnusedProducts # {} /\ CreateProductWithVariants(e, Min(UnusedProducts), NameOf(n), cats)
    BY <1>6 DEF PostProduct
  <2>2. PICK name : name = NameOf(n)
    OBVIOUS
  <2>3. name \in NameRows /\ name.copies = 0 /\ Made \in Nat
    BY <2>2, NamesAreRows, NamesComeIn, ProductsCounted DEF Made, Existing
  <2>4. name.copies <= Made
    BY <2>3
  <2>5. UNCHANGED <<group, member, asked, mixed, quick>>
    BY <2>1 DEF CreateProductWithVariants
  <2> QED BY <2>1, <2>2, <2>3, <2>4, <2>5, CreateNames, QuietShapes
<1>7. ASSUME NEW e \in Edits, PostDuplicate(e) PROVE NamesSound' /\ GroupShapes'
  <2>1. PICK source \in Products :
           Exists(source) /\ UnusedProducts # {} /\ DuplicateProduct(e, Min(UnusedProducts), source)
    BY <1>7 DEF PostDuplicate
  <2>2. PICK name : name = DraftName(product[source].name)
    OBVIOUS
  <2>3. product[source].name \in NameRows
    BY DEF CatalogueShapes, ProductRows
  <2>4. name \in NameRows /\ name.copies <= Made
    BY <2>1, <2>2, <2>3, NamesAreRows, CopiesCount
  <2>5. PICK cats : cats = {}
    OBVIOUS
  <2>6. cats \subseteq Categories /\ CreateProductWithVariants(e, Min(UnusedProducts), name, cats)
    BY <2>1, <2>2, <2>5 DEF DuplicateProduct
  <2>7. UNCHANGED <<group, member, asked, mixed, quick>>
    BY <2>6 DEF CreateProductWithVariants
  <2> QED BY <2>1, <2>4, <2>6, <2>7, CreateNames, QuietShapes
<1>8. ASSUME NEW e \in Edits, FinishCreate(e) PROVE NamesSound' /\ GroupShapes'
  BY <1>8, FinishCreateNames, FinishCreateShapes
<1>9. ASSUME NEW e \in Edits, PatchProductById(e) PROVE NamesSound' /\ GroupShapes'
  <2>1. PICK p \in Products, n \in {NoName} \cup {NameOf(m) : m \in Names}, st \in {Keep, "listed"},
             cols \in {{Keep}} \cup SUBSET Collections,
             cats \in {{Keep}, {}} \cup {{c} : c \in Categories} :
           UpdateProduct(e, p, n, st, cols, cats)
    BY <1>9 DEF PatchProductById
  <2>2. n \in NameRows /\ n.copies = 0
    BY NamesAreRows, NamesComeIn
  <2>3. (cols = {Keep} \/ cols \subseteq Collections) /\ (cats = {Keep} \/ cats \subseteq Categories)
    OBVIOUS
  <2>4. UNCHANGED <<group, member, asked, mixed, quick>>
    BY <2>1 DEF UpdateProduct
  <2> QED BY <2>1, <2>2, <2>3, <2>4, UpdateNames, QuietShapes
<1>10. ASSUME NEW e \in Edits, PatchProduct(e) PROVE NamesSound' /\ GroupShapes'
  BY <1>10, PatchProductNames, QuietShapes DEF PatchProduct
<1>11. ASSUME NEW e \in Edits, PatchCategoryById(e) \/ PatchCollectionById(e)
       PROVE  NamesSound' /\ GroupShapes'
  <2>1. PICK g \in Groups, ps \in SUBSET Products : PatchGroup(e, g, ps)
    BY <1>11 DEF PatchCategoryById, PatchCollectionById, PatchCategory, PatchCollection, Listed,
                 Existing, Groups
  <2>2. UNCHANGED <<group, member, asked, mixed, quick>>
    BY <2>1 DEF PatchGroup
  <2> QED BY <2>1, <2>2, PatchGroupNames, QuietShapes
<1>12. ASSUME NEW e \in Edits, BeginReplace(e) PROVE NamesSound' /\ GroupShapes'
  BY <1>12, BeginReplaceNames, BeginReplaceShapes
<1>13. ASSUME NEW e \in Edits, EndReplace(e) PROVE NamesSound' /\ GroupShapes'
  BY <1>13, EndReplaceNames, EndReplaceShapes
<1>14. ASSUME NEW e \in Edits, FailEdit(e) PROVE NamesSound' /\ GroupShapes'
  <2>1. PICK pc : pc = "failed"
    OBVIOUS
  <2>2. /\ edit' = [edit EXCEPT ![e] = Answered(pc)] /\ product' = product
        /\ UNCHANGED <<group, member, asked, mixed, quick>>
    BY <1>14, <2>1 DEF FailEdit
  <2> QED BY <2>1, <2>2, EditIsOver, QuietShapes
<1> QED
  BY <1>1, <1>2, <1>3, <1>4, <1>5, <1>6, <1>7, <1>8, <1>9, <1>10, <1>11, <1>12, <1>13, <1>14
  DEF CatalogueNext

\* The rows, requests and memberships of the catalogue have their shapes in
\* every state; no slug is numbered above the number of products, and no name
\* is a copy more often than there are products (DuplicateProduct).
THEOREM CatalogueTypes == CatalogueSpec => []CatalogueTypeOK
<1>1. CatalogueInit => NamesSound /\ GroupShapes
  BY NamesInitSafe, GroupInitShapes
<1>2. CatalogueInv /\ NamesSound /\ GroupShapes => CatalogueTypeOK
  <2> SUFFICES ASSUME CatalogueShapes, NamesSound, GroupShapes PROVE CatalogueTypeOK
    BY DEF CatalogueInv
  <2>1. Made \in Nat /\ Made <= NProducts /\ NProducts \in Nat
    <3>1. NProducts \in Nat
      BY CatalogueAssumption
    <3>2. Made \in 0..NProducts
      BY ProductsCounted DEF Made, Existing
    <3> QED BY <3>1, <3>2
  <2>2. ASSUME NEW slug \in SlugRows, slug.no \in 0..NProducts, slug.base.copies <= NProducts
        PROVE  slug \in Slugs
    <3>1. /\ slug = [base |-> slug.base, no |-> slug.no]
          /\ slug.base = [of |-> slug.base.of, copies |-> slug.base.copies]
          /\ slug.base.of \in {"", "untitled"} \cup Names /\ slug.base.copies \in Nat
      BY DEF SlugRows, NameRows
    <3>2. slug.base.copies \in 0..NProducts
      <4>1. PICK k \in Nat : k = slug.base.copies
        BY <3>1
      <4>2. k <= NProducts
        BY <2>2, <4>1
      <4>3. k \in 0..NProducts
        BY <2>1, <4>2
      <4> QED BY <4>1, <4>3
    <3>3. slug.base \in [of : {"", "untitled"} \cup Names, copies : 0..NProducts]
      BY <3>1, <3>2
    <3> QED BY <2>2, <3>1, <3>3 DEF Slugs
  <2>3. ASSUME NEW p \in Products
        PROVE  product[p].status \in {"free", "listed", "archived"} /\ product[p].slug \in Slugs
    <3>1. /\ product[p].status \in {"free", "listed", "archived"}
          /\ product[p].slug \in SlugRows /\ product[p].name.copies \in Nat
      BY DEF CatalogueShapes, ProductRows, NameRows
    <3>2. /\ product[p].slug.base = product[p].name /\ product[p].slug.no \in 0..NProducts
          /\ product[p].name.copies = 0 \/ product[p].name.copies < Made
      BY DEF NamesSound, ProductNamed, SlugNamed
    <3>3. product[p].slug.base.copies <= NProducts
      BY <2>1, <3>1, <3>2
    <3> QED BY <2>2, <3>1, <3>2, <3>3
  <2>4. ASSUME NEW e \in Edits
        PROVE  /\ edit[e].pc \in {"new", "resolved", "syncing", "cleared", "done", "slugTaken", "failed"}
               /\ edit[e].id \in Products /\ edit[e].slug \in Slugs
               /\ edit[e].gone \subseteq MembershipPairs
    <3>1. edit[e] \in EditRows /\ edit[e].slug \in SlugRows /\ edit[e].name.copies \in Nat
      BY EditIsRow DEF NameRows
    <3>2. /\ edit[e].slug.base = edit[e].name /\ edit[e].slug.no \in 0..NProducts
          /\ edit[e].name.copies <= Made
      BY DEF NamesSound, EditNamed, SlugNamed
    <3>3. edit[e].slug.base.copies <= NProducts
      BY <2>1, <3>1, <3>2
    <3>4. edit[e].slug \in Slugs
      BY <2>2, <3>1, <3>2, <3>3
    <3> QED BY <3>1, <3>4 DEF EditRows
  <2> QED BY <2>3, <2>4 DEF CatalogueTypeOK, CatalogueShapes, GroupShapes
<1> QED BY <1>1, <1>2, NamesInductive, CatalogueInvHolds, PTL DEF CatalogueSpec

-----------------------------------------------------------------------------
(* The two accounts of a variant's units                                   *)

RowQuantities == {NoStockRow} \cup 0..MaxUnits
WriterRows ==
  [pc : {"new", "adjust", "adjusted", "adjust ready", "update", "pick", "picked",
         "update ready", "over"},
   warehouse : Warehouses, change : Deltas,
   held : SUBSET (StockRows \cup {VariantRow}),
   missed : SUBSET StockRows,
   total : 0..MaxUnits, row : 0..MaxUnits]

LEMMA TotalsShapes ==
  ASSUME TotalsTypeOK
  PROVE  /\ writer \in [Writers -> WriterRows] /\ located \in [Warehouses -> RowQuantities]
         /\ NWarehouses \in Nat /\ MaxUnits \in Nat /\ FirstWarehouse \in Warehouses
         /\ onHand \in Nat /\ inTransit \in Nat /\ \A q \in 0..MaxUnits : q \in Deltas /\ q \in RowQuantities
         /\ \A s \in Writers :
              /\ writer[s] \in WriterRows /\ writer[s].warehouse \in Warehouses
              /\ writer[s].change \in Int /\ writer[s].change \in Deltas
              /\ writer[s].total \in 0..MaxUnits /\ writer[s].row \in 0..MaxUnits
              /\ writer[s].held \subseteq StockRows \cup {VariantRow} /\ writer[s].missed \subseteq StockRows
<1>1. writer \in [Writers -> WriterRows] /\ located \in [Warehouses -> RowQuantities]
  BY DEF TotalsTypeOK, WriterRows, RowQuantities
<1>2. NWarehouses \in Nat /\ NWarehouses # 0 /\ MaxUnits \in Nat
  BY WarehouseTotalsAssumption
<1>3. FirstWarehouse \in Warehouses /\ onHand \in Nat /\ inTransit \in Nat
  <2>1. 1 \in 1..NWarehouses
    BY <1>2
  <2>2. onHand \in 0..MaxUnits /\ inTransit \in 0..MaxUnits
    BY DEF TotalsTypeOK
  <2>3. \A q \in 0..MaxUnits : q \in Nat
    BY <1>2
  <2> QED BY <2>1, <2>2, <2>3 DEF FirstWarehouse, Warehouses
<1>4. \A q \in 0..MaxUnits : q \in Deltas /\ q \in RowQuantities
  BY <1>2 DEF Deltas, RowQuantities
<1>5. \A q \in Deltas : q \in Int
  BY <1>2 DEF Deltas
<1>6. \A s \in Writers : writer[s] \in WriterRows
  BY <1>1
<1>7. ASSUME NEW s \in Writers
      PROVE  /\ writer[s].warehouse \in Warehouses
             /\ writer[s].change \in Int /\ writer[s].change \in Deltas
             /\ writer[s].total \in 0..MaxUnits /\ writer[s].row \in 0..MaxUnits
             /\ writer[s].held \subseteq StockRows \cup {VariantRow} /\ writer[s].missed \subseteq StockRows
  BY <1>5, <1>6 DEF WriterRows
<1> QED BY <1>1, <1>2, <1>3, <1>4, <1>6, <1>7

\* The units of a row, and of all rows.
UnitsIn(q) == IF q = NoStockRow THEN 0 ELSE q
TotalIn(f) == SumTo([w \in Warehouses |-> UnitsIn(f[w])], NWarehouses)

LEMMA UnitsAreIn ==
  /\ InWarehouses = TotalIn(located) /\ \A w : Units(w) = UnitsIn(located[w])
  /\ InWarehouses' = TotalIn(located') /\ \A w : Units(w)' = UnitsIn(located'[w])
BY DEF InWarehouses, TotalIn, Units, UnitsIn

\* A row of f is written, which makes it h.
Written(f, w, q, h) ==
  /\ f \in [Warehouses -> RowQuantities] /\ q \in 0..MaxUnits
  /\ h = [f EXCEPT ![w] = q]
Moved(f, w, q, h) ==
  /\ h \in [Warehouses -> RowQuantities]
  /\ UnitsIn(f[w]) \in Nat /\ TotalIn(f) \in Nat /\ UnitsIn(f[w]) <= TotalIn(f)
  /\ TotalIn(h) = TotalIn(f) - UnitsIn(f[w]) + q

\* A row that is written moves the total by what it moves itself.
LEMMA TotalMoves ==
  ASSUME NEW f, NEW w \in Warehouses, NEW q, NEW h, Written(f, w, q, h)
  PROVE  Moved(f, w, q, h)
<1>0. /\ NWarehouses \in Nat /\ MaxUnits \in Nat
      /\ f \in [Warehouses -> RowQuantities] /\ q \in 0..MaxUnits /\ h = [f EXCEPT ![w] = q]
  BY WarehouseTotalsAssumption DEF Written
<1> DEFINE g == [x \in Warehouses |-> UnitsIn(f[x])]
           k == [x \in Warehouses |-> UnitsIn(h[x])]
<1>1. \A x \in RowQuantities : UnitsIn(x) \in Nat
  BY DEF RowQuantities, UnitsIn
<1>2. q \in RowQuantities /\ UnitsIn(q) = q
  BY <1>0 DEF RowQuantities, UnitsIn, NoStockRow
<1>3. h \in [Warehouses -> RowQuantities] /\ h[w] = q /\ \A x \in Warehouses : x # w => h[x] = f[x]
  BY <1>0, <1>2
<1>4. \A x \in 1..NWarehouses : g[x] \in Nat /\ k[x] \in Nat
  BY <1>0, <1>1, <1>3 DEF Warehouses
<1>5. \A x \in 1..NWarehouses : x # w => k[x] = g[x]
  BY <1>3 DEF Warehouses
<1>6. g[w] = UnitsIn(f[w]) /\ k[w] = q /\ w \in 1..NWarehouses
  BY <1>2, <1>3 DEF Warehouses
<1>7. TotalIn(f) = SumTo(g, NWarehouses) /\ TotalIn(h) = SumTo(k, NWarehouses)
  BY DEF TotalIn
<1> HIDE DEF g, k
<1>8. SumTo(k, NWarehouses) = SumTo(g, NWarehouses) + k[w] - g[w]
  <2>1. \A x \in 1..NWarehouses : g[x] \in Int /\ k[x] \in Int
    BY <1>4
  <2> QED BY <1>0, <1>5, <1>6, <2>1, SumToUpdate
<1>9. SumTo(g, NWarehouses) \in Nat /\ g[w] <= SumTo(g, NWarehouses)
  BY <1>0, <1>4, <1>6, SumToType, SumToMember
<1>10. g[w] \in Nat
  BY <1>4, <1>6
<1>11. \A a, b, c \in Nat : a + c - b = a - b + c
  OBVIOUS
<1>12. q \in Nat
  BY <1>0
<1> QED BY <1>2, <1>3, <1>6, <1>7, <1>8, <1>9, <1>10, <1>11, <1>12 DEF Moved

\* The same of the rows themselves.
LEMMA UnitsMove ==
  ASSUME TotalsTypeOK, NEW w \in Warehouses, NEW q \in 0..MaxUnits,
         located' = [located EXCEPT ![w] = q]
  PROVE  /\ located' \in [Warehouses -> RowQuantities]
         /\ Units(w) \in Nat /\ InWarehouses \in Nat /\ Units(w) <= InWarehouses
         /\ InWarehouses' = InWarehouses - Units(w) + q
<1>1. NWarehouses \in Nat /\ MaxUnits \in Nat /\ located \in [Warehouses -> RowQuantities]
  BY TotalsShapes
<1>2. PICK h : h = [located EXCEPT ![w] = q]
  OBVIOUS
<1>3. /\ h \in [Warehouses -> RowQuantities]
      /\ UnitsIn(located[w]) \in Nat /\ TotalIn(located) \in Nat
      /\ UnitsIn(located[w]) <= TotalIn(located)
      /\ TotalIn(h) = TotalIn(located) - UnitsIn(located[w]) + q
  <2>1. Written(located, w, q, h)
    BY <1>1, <1>2 DEF Written
  <2> QED BY <2>1, TotalMoves DEF Moved
<1>4. located' = h
  BY <1>2
<1>5. TotalIn(located') = TotalIn(h)
  BY <1>4
<1>6. Units(w) = UnitsIn(located[w]) /\ InWarehouses = TotalIn(located) /\ InWarehouses' = TotalIn(located')
  BY UnitsAreIn
<1> QED BY <1>3, <1>4, <1>5, <1>6

LEMMA TotalsInitSafe == TotalsInit => TotalsInv
<1> SUFFICES ASSUME TotalsInit PROVE TotalsInv
  OBVIOUS
<1>1. NWarehouses \in Nat /\ NWarehouses # 0 /\ MaxUnits \in Nat /\ Tracking \subseteq BOOLEAN
  BY WarehouseTotalsAssumption
<1>2. PICK tracked \in Tracking, w \in Warehouses :
        /\ located = [x \in Warehouses |-> IF tracked /\ x = w THEN onHand ELSE NoStockRow]
        /\ parted = (~tracked /\ onHand > 0)
  BY DEF TotalsInit
<1>3. NewWriter \in WriterRows /\ NewWriter.held = {} /\ NewWriter.pc = "new"
  <2>1. FirstWarehouse \in Warehouses /\ 0 \in Deltas /\ 0 \in 0..MaxUnits
    BY <1>1 DEF FirstWarehouse, Warehouses, Deltas
  <2> QED BY <2>1 DEF NewWriter, WriterRows
<1>4. writer \in [Writers -> WriterRows] /\ \A s \in Writers : writer[s] = NewWriter
  BY <1>3 DEF TotalsInit
<1>5. onHand \in 0..MaxUnits /\ inTransit = 0 /\ onHand \in Nat
  BY <1>1 DEF TotalsInit
<1>6. located \in [Warehouses -> RowQuantities] /\ parted \in BOOLEAN
  BY <1>2, <1>5 DEF RowQuantities
<1>7. TotalsTypeOK
  <2>1. inTransit \in 0..MaxUnits
    BY <1>1, <1>5
  <2>2. duplicate \in [open : BOOLEAN, total : 0..MaxUnits, parted : BOOLEAN]
    BY <1>1 DEF TotalsInit, NoDuplicate
  <2> QED BY <1>4, <1>5, <1>6, <2>1, <2>2 DEF TotalsTypeOK, WriterRows, RowQuantities
<1>8. HeldApart /\ \A s \in Writers : Prepared(writer[s])
  BY <1>3, <1>4 DEF HeldApart, Prepared
<1>9. ASSUME ~parted PROVE onHand = InWarehouses + inTransit
  <2> DEFINE g == [x \in Warehouses |-> UnitsIn(located[x])]
  <2>1. InWarehouses = SumTo(g, NWarehouses)
    BY UnitsAreIn DEF TotalIn
  <2>2. w \in 1..NWarehouses /\ Warehouses = 1..NWarehouses
    BY DEF Warehouses
  <2>3. CASE tracked
    <3>1. \A x \in Warehouses : g[x] = IF x = w THEN onHand ELSE 0
      BY <1>2, <1>5, <2>3 DEF UnitsIn, NoStockRow
    <3>2. g[w] \in Int /\ g[w] = onHand /\ \A x \in 1..NWarehouses : x # w => g[x] = 0
      BY <1>5, <2>2, <3>1
    <3> HIDE DEF g
    <3>3. SumTo(g, NWarehouses) = g[w]
      BY <1>1, <2>2, <3>2, SumToOne
    <3> QED BY <1>5, <2>1, <3>2, <3>3
  <2>4. CASE ~tracked
    <3>1. onHand = 0
      <4>1. ~(onHand > 0)
        BY <1>2, <1>9, <2>4, Zenon
      <4> QED BY <1>5, <4>1
    <3>2. \A x \in 1..NWarehouses : g[x] = 0
      BY <1>2, <2>2, <2>4 DEF UnitsIn
    <3> HIDE DEF g
    <3>3. SumTo(g, NWarehouses) = 0
      BY <1>1, <3>2, SumToZero
    <3> QED BY <1>5, <2>1, <3>1, <3>3
  <2> QED BY <2>3, <2>4
<1>10. DuplicateSound
  BY DEF TotalsInit, NoDuplicate, DuplicateSound
<1> QED BY <1>7, <1>8, <1>9, <1>10 DEF TotalsInv, TotalsAgree

-----------------------------------------------------------------------------
\* A writer takes a step in its transaction: nothing is written yet.
LEMMA WriterMoves ==
  ASSUME TotalsInv, NEW s \in Writers, NEW row \in WriterRows,
         writer' = [writer EXCEPT ![s] = row], UNCHANGED <<onHand, located, inTransit, parted, duplicate>>,
         \A x \in row.held : x \in writer[s].held \/ LockFree(x), Prepared(row)
  PROVE  TotalsInv'
<1>1. writer'[s] = row /\ \A r \in Writers : r # s => writer'[r] = writer[r]
  BY TotalsShapes DEF TotalsInv
<1>2. TotalsTypeOK'
  <2>1. writer' \in [Writers -> WriterRows]
    BY TotalsShapes DEF TotalsInv
  <2> QED BY <2>1 DEF TotalsInv, TotalsTypeOK, WriterRows
<1>3. HeldApart'
  <2>1. \A r \in Writers : r # s => \A x \in row.held : x \notin writer[r].held
    BY DEF TotalsInv, HeldApart, LockFree
  <2> QED BY <1>1, <2>1 DEF TotalsInv, HeldApart
<1>4. \A w : Units(w)' = Units(w)
  BY DEF Units
<1>5. ASSUME NEW r \in Writers PROVE Prepared(writer[r])'
  <2>1. Prepared(writer'[r])
    BY <1>1 DEF TotalsInv
  <2> QED BY <1>4, <2>1 DEF Prepared
<1>6. TotalsAgree'
  <2>1. InWarehouses' = InWarehouses
    BY UnitsAreIn
  <2> QED BY <2>1 DEF TotalsInv, TotalsAgree
<1>7. DuplicateSound'
  <2>1. InWarehouses' = InWarehouses
    BY UnitsAreIn
  <2> QED BY <2>1 DEF TotalsInv, DuplicateSound
<1> QED BY <1>2, <1>3, <1>5, <1>6, <1>7 DEF TotalsInv

\* A transaction has ended: nothing is held.
LEMMA OverIsSound ==
  ASSUME MaxUnits \in Nat, NWarehouses \in Nat, FirstWarehouse \in Warehouses,
         NEW row, row = [NewWriter EXCEPT !.pc = "over"]
  PROVE  row \in WriterRows /\ row.pc = "over" /\ row.held = {} /\ Prepared(row)
<1>1. 0 \in Deltas /\ 0 \in 0..MaxUnits
  BY DEF Deltas
<1>2. row \in WriterRows /\ row.pc = "over" /\ row.held = {}
  BY <1>1 DEF NewWriter, WriterRows
<1> QED BY <1>2 DEF Prepared

LEMMA FailWriterKeeps ==
  ASSUME TotalsInv, NEW s \in Writers, FailWriter(s)
  PROVE  TotalsInv'
<1>1. PICK row : row = [NewWriter EXCEPT !.pc = "over"]
  OBVIOUS
<1>2. row \in WriterRows /\ row.held = {} /\ Prepared(row)
  BY <1>1, OverIsSound, TotalsShapes DEF TotalsInv
<1>3. writer' = [writer EXCEPT ![s] = row] /\ UNCHANGED <<onHand, located, inTransit, parted, duplicate>>
  BY <1>1 DEF FailWriter
<1>4. \A x \in row.held : x \in writer[s].held \/ LockFree(x)
  BY <1>2
<1> QED BY <1>2, <1>3, <1>4, WriterMoves
\* A row is locked by a writer that takes a step.
LEMMA LockTaken ==
  ASSUME TotalsTypeOK, NEW s \in Writers, NEW x \in StockRows
  PROVE  writer[s].held \cup {x} \subseteq StockRows \cup {VariantRow}
BY TotalsShapes

LEMMA BeginKeepsTotals ==
  ASSUME TotalsInv, NEW s \in Writers,
         \/ \E w \in Warehouses, delta \in Deltas : BeginAdjust(s, w, delta)
         \/ \E quantity \in 0..MaxUnits : BeginUpdate(s, quantity)
  PROVE  TotalsInv'
<1>0. FirstWarehouse \in Warehouses /\ 0 \in 0..MaxUnits /\ \A q \in 0..MaxUnits : q \in Deltas
  BY TotalsShapes DEF TotalsInv
<1>1. ASSUME NEW w \in Warehouses, NEW delta \in Deltas, BeginAdjust(s, w, delta) PROVE TotalsInv'
  <2>1. PICK row : row = [NewWriter EXCEPT !.pc = "adjust", !.warehouse = w, !.change = delta]
    OBVIOUS
  <2>2. row \in WriterRows /\ row.pc = "adjust" /\ row.held = {}
    BY <1>0, <2>1 DEF NewWriter, WriterRows
  <2>3. writer' = [writer EXCEPT ![s] = row] /\ UNCHANGED <<onHand, located, inTransit, parted, duplicate>>
    BY <1>1, <2>1 DEF BeginAdjust
  <2>4. Prepared(row) /\ \A x \in row.held : x \in writer[s].held \/ LockFree(x)
    BY <2>2 DEF Prepared
  <2> QED BY <2>2, <2>3, <2>4, WriterMoves
<1>2. ASSUME NEW quantity \in 0..MaxUnits, BeginUpdate(s, quantity) PROVE TotalsInv'
  <2>1. PICK row : row = [NewWriter EXCEPT !.pc = "update", !.change = quantity, !.held = {VariantRow}]
    OBVIOUS
  <2>2. row \in WriterRows /\ row.pc = "update" /\ row.held = {VariantRow} /\ row.change = quantity
    BY <1>0, <2>1 DEF NewWriter, WriterRows
  <2>3. writer' = [writer EXCEPT ![s] = row] /\ UNCHANGED <<onHand, located, inTransit, parted, duplicate>>
    BY <1>2, <2>1 DEF BeginUpdate
  <2>4. Prepared(row) /\ \A x \in row.held : x \in writer[s].held \/ LockFree(x)
    BY <1>2, <2>2 DEF Prepared, BeginUpdate
  <2> QED BY <2>2, <2>3, <2>4, WriterMoves
<1> QED BY <1>1, <1>2

LEMMA AdjustKeepsTotals ==
  ASSUME TotalsInv, NEW s \in Writers, AdjustStockTx(s) \/ AdjustGlobalInventoryTx(s)
  PROVE  TotalsInv'
<1>0. /\ writer[s] \in WriterRows /\ writer[s].warehouse \in Warehouses /\ Prepared(writer[s])
      /\ Warehouses \subseteq StockRows /\ InventoryRow \in StockRows
  BY TotalsShapes DEF TotalsInv, StockRows
<1>1. CASE AdjustStockTx(s)
  <2>1. PICK new : new = Units(writer[s].warehouse) + writer[s].change
    OBVIOUS
  <2>2. PICK held : held = writer[s].held \cup {writer[s].warehouse}
    OBVIOUS
  <2>3. PICK row : row = [writer[s] EXCEPT !.pc = "adjusted", !.row = new, !.held = held]
    OBVIOUS
  <2>4. new \in 0..MaxUnits /\ LockFree(writer[s].warehouse)
    BY <1>1, <2>1 DEF AdjustStockTx, MayWrite
  <2>5. held \subseteq StockRows \cup {VariantRow}
    BY <1>0, <2>2, LockTaken DEF TotalsInv
  <2>6. /\ row \in WriterRows /\ row.pc = "adjusted" /\ row.row = new /\ row.held = held
        /\ row.warehouse = writer[s].warehouse /\ row.change = writer[s].change
    BY <1>0, <2>3, <2>4, <2>5 DEF WriterRows
  <2>7. writer' = [writer EXCEPT ![s] = row] /\ UNCHANGED <<onHand, located, inTransit, parted, duplicate>>
    BY <1>1, <2>1, <2>2, <2>3, TotalsShapes DEF AdjustStockTx, TotalsInv
  <2>8. Prepared(row)
    BY <2>1, <2>2, <2>6 DEF Prepared
  <2>9. \A x \in row.held : x \in writer[s].held \/ LockFree(x)
    BY <2>2, <2>4, <2>6
  <2> QED BY <2>6, <2>7, <2>8, <2>9, WriterMoves
<1>2. CASE AdjustGlobalInventoryTx(s)
  <2>1. PICK new : new = onHand + writer[s].change
    OBVIOUS
  <2>2. PICK held : held = writer[s].held \cup {InventoryRow}
    OBVIOUS
  <2>3. PICK row : row = [writer[s] EXCEPT !.pc = "adjust ready", !.total = new, !.held = held]
    OBVIOUS
  <2>4. new \in 0..MaxUnits /\ LockFree(InventoryRow) /\ writer[s].pc = "adjusted"
    BY <1>2, <2>1 DEF AdjustGlobalInventoryTx, MayWrite
  <2>5. held \subseteq StockRows \cup {VariantRow}
    BY <1>0, <2>2, LockTaken DEF TotalsInv
  <2>6. /\ row \in WriterRows /\ row.pc = "adjust ready" /\ row.total = new /\ row.held = held
        /\ row.warehouse = writer[s].warehouse /\ row.change = writer[s].change
        /\ row.row = writer[s].row
    BY <1>0, <2>3, <2>4, <2>5 DEF WriterRows
  <2>7. writer' = [writer EXCEPT ![s] = row] /\ UNCHANGED <<onHand, located, inTransit, parted, duplicate>>
    BY <1>2, <2>1, <2>2, <2>3, TotalsShapes DEF AdjustGlobalInventoryTx, TotalsInv
  <2>8. Prepared(row)
    BY <1>0, <2>1, <2>2, <2>4, <2>6 DEF Prepared
  <2>9. \A x \in row.held : x \in writer[s].held \/ LockFree(x)
    BY <2>2, <2>4, <2>6
  <2> QED BY <2>6, <2>7, <2>8, <2>9, WriterMoves
<1> QED BY <1>1, <1>2

LEMMA UpdateKeepsTotals ==
  ASSUME TotalsInv, NEW s \in Writers, SetGlobal(s) \/ PickWarehouse(s) \/ SyncWarehouseStock(s)
  PROVE  TotalsInv'
<1>0. /\ writer[s] \in WriterRows /\ writer[s].warehouse \in Warehouses /\ Prepared(writer[s])
      /\ Warehouses \subseteq StockRows /\ InventoryRow \in StockRows
  BY TotalsShapes DEF TotalsInv, StockRows
<1>1. CASE SetGlobal(s)
  <2>1. PICK held : held = writer[s].held \cup {InventoryRow}
    OBVIOUS
  <2>2. PICK row : row = [writer[s] EXCEPT !.pc = "pick", !.total = writer[s].change, !.held = held]
    OBVIOUS
  <2>3. LockFree(InventoryRow) /\ writer[s].pc = "update" /\ writer[s].change \in 0..MaxUnits
    BY <1>0, <1>1 DEF SetGlobal, Prepared
  <2>4. held \subseteq StockRows \cup {VariantRow}
    BY <1>0, <2>1, LockTaken DEF TotalsInv
  <2>5. /\ row \in WriterRows /\ row.pc = "pick" /\ row.held = held
        /\ row.change = writer[s].change /\ row.total = writer[s].change
    BY <1>0, <2>2, <2>3, <2>4 DEF WriterRows
  <2>6. writer' = [writer EXCEPT ![s] = row] /\ UNCHANGED <<onHand, located, inTransit, parted, duplicate>>
    BY <1>1, <2>1, <2>2, TotalsShapes DEF SetGlobal, TotalsInv
  <2>7. Prepared(row)
    BY <2>1, <2>3, <2>5 DEF Prepared
  <2>8. \A x \in row.held : x \in writer[s].held \/ LockFree(x)
    BY <2>1, <2>3, <2>5
  <2> QED BY <2>5, <2>6, <2>7, <2>8, WriterMoves
<1>2. CASE PickWarehouse(s)
  <2>1. PICK w \in Warehouses : writer' = [writer EXCEPT ![s].pc = "picked", ![s].warehouse = w]
    <3>1. FirstWarehouse \in Warehouses
      BY TotalsShapes DEF TotalsInv
    <3> QED BY <1>2, <3>1 DEF PickWarehouse
  <2>2. PICK row : row = [writer[s] EXCEPT !.pc = "picked", !.warehouse = w]
    OBVIOUS
  <2>3. /\ row \in WriterRows /\ row.pc = "picked" /\ row.held = writer[s].held
        /\ row.change = writer[s].change /\ row.total = writer[s].total
    BY <1>0, <2>2 DEF WriterRows
  <2>4. writer' = [writer EXCEPT ![s] = row] /\ UNCHANGED <<onHand, located, inTransit, parted, duplicate>>
    BY <1>2, <2>1, <2>2, TotalsShapes DEF PickWarehouse, TotalsInv
  <2>5. Prepared(row)
    BY <1>0, <1>2, <2>3 DEF Prepared, PickWarehouse
  <2>6. \A x \in row.held : x \in writer[s].held \/ LockFree(x)
    BY <2>3
  <2> QED BY <2>3, <2>4, <2>5, <2>6, WriterMoves
<1>3. CASE SyncWarehouseStock(s)
  <2>1. PICK held : held = writer[s].held \cup {writer[s].warehouse}
    OBVIOUS
  <2>2. PICK row : row = [writer[s] EXCEPT !.pc = "update ready", !.row = writer[s].change, !.held = held]
    OBVIOUS
  <2>3. LockFree(writer[s].warehouse) /\ writer[s].pc = "picked" /\ writer[s].change \in 0..MaxUnits
    BY <1>0, <1>3 DEF SyncWarehouseStock, Prepared
  <2>4. held \subseteq StockRows \cup {VariantRow}
    BY <1>0, <2>1, LockTaken DEF TotalsInv
  <2>5. /\ row \in WriterRows /\ row.pc = "update ready" /\ row.held = held
        /\ row.change = writer[s].change /\ row.total = writer[s].total
        /\ row.row = writer[s].change /\ row.warehouse = writer[s].warehouse
    BY <1>0, <2>2, <2>3, <2>4 DEF WriterRows
  <2>6. writer' = [writer EXCEPT ![s] = row] /\ UNCHANGED <<onHand, located, inTransit, parted, duplicate>>
    BY <1>3, <2>1, <2>2, TotalsShapes DEF SyncWarehouseStock, TotalsInv
  <2>7. Prepared(row)
    BY <1>0, <2>1, <2>3, <2>5 DEF Prepared
  <2>8. \A x \in row.held : x \in writer[s].held \/ LockFree(x)
    BY <2>1, <2>3, <2>5
  <2> QED BY <2>5, <2>6, <2>7, <2>8, WriterMoves
<1> QED BY <1>1, <1>2, <1>3

-----------------------------------------------------------------------------
\* A writer for whom others' writes change nothing but what it has missed.
GoesOn(old, new) ==
  /\ new.pc = old.pc /\ new.warehouse = old.warehouse /\ new.change = old.change
  /\ new.held = old.held /\ new.total = old.total /\ new.row = old.row

\* A writer is over, or goes on and the rows it holds were not written.
WriterStands(r) ==
  \/ writer'[r].held = {} /\ writer'[r].pc = "over"
  \/ /\ GoesOn(writer[r], writer'[r])
     /\ InventoryRow \in writer[r].held => onHand' = onHand
     /\ \A w \in Warehouses : w \in writer[r].held => located'[w] = located[w]

LEMMA MissedIsSound ==
  ASSUME TotalsTypeOK, NEW rows, rows \subseteq StockRows, NEW missed, missed = MissedBy(rows)
  PROVE  missed \in [Writers -> WriterRows] /\ \A r \in Writers : GoesOn(writer[r], missed[r])
<1>1. ASSUME NEW r \in Writers PROVE missed[r] \in WriterRows /\ GoesOn(writer[r], missed[r])
  <2>1. writer[r] \in WriterRows /\ writer[r].missed \subseteq StockRows
    BY TotalsShapes
  <2>2. PICK seen : seen = writer[r].missed \cup rows
    OBVIOUS
  <2>3. PICK row : row = [writer[r] EXCEPT !.missed = seen]
    OBVIOUS
  <2>4. seen \subseteq StockRows
    BY <2>1, <2>2
  <2>5. row \in WriterRows /\ GoesOn(writer[r], row)
    BY <2>1, <2>3, <2>4 DEF WriterRows, GoesOn
  <2>6. missed[r] = writer[r] \/ missed[r] = row
    BY <2>1, <2>2, <2>3 DEF MissedBy, WriterRows
  <2> QED BY <2>1, <2>5, <2>6 DEF GoesOn
<1>2. missed = [r \in Writers |-> missed[r]]
  BY DEF MissedBy
<1> QED BY <1>1, <1>2

\* A copy between its statements knows of what has changed the sum since.
CopyStands ==
  \/ /\ duplicate' = duplicate
     /\ InWarehouses' + inTransit' = InWarehouses + inTransit
  \/ duplicate' = CopyParted

LEMMA CopyIsSound ==
  ASSUME TotalsInv, CopyStands
  PROVE  /\ duplicate' \in [open : BOOLEAN, total : 0..MaxUnits, parted : BOOLEAN]
         /\ DuplicateSound'
<1>1. duplicate \in [open : BOOLEAN, total : 0..MaxUnits, parted : BOOLEAN] /\ DuplicateSound
  BY DEF TotalsInv, TotalsTypeOK
<1>2. CASE /\ duplicate' = duplicate
           /\ InWarehouses' + inTransit' = InWarehouses + inTransit
  BY <1>1, <1>2 DEF DuplicateSound
<1>3. CASE duplicate' = CopyParted
  <2>1. PICK sum : sum = (duplicate.parted \/ duplicate.open)
    OBVIOUS
  <2>2. sum \in BOOLEAN
    BY <1>1, <2>1
  <2>3. duplicate' = [duplicate EXCEPT !.parted = sum]
    BY <1>3, <2>1 DEF CopyParted
  <2>4. /\ duplicate' \in [open : BOOLEAN, total : 0..MaxUnits, parted : BOOLEAN]
        /\ duplicate'.open = duplicate.open /\ duplicate'.parted = sum
    BY <1>1, <2>2, <2>3
  <2> QED BY <2>1, <2>4 DEF DuplicateSound
<1> QED BY <1>2, <1>3 DEF CopyStands

\* Rows are written that nobody else has locked.
LEMMA RowsWritten ==
  ASSUME TotalsInv,
         onHand' \in 0..MaxUnits, inTransit' \in 0..MaxUnits, parted' \in BOOLEAN,
         located' \in [Warehouses -> RowQuantities], writer' \in [Writers -> WriterRows],
         \A r \in Writers : WriterStands(r), TotalsAgree', CopyStands
  PROVE  TotalsInv'
<1>0. /\ duplicate' \in [open : BOOLEAN, total : 0..MaxUnits, parted : BOOLEAN]
      /\ DuplicateSound'
  BY CopyIsSound
<1>1. TotalsTypeOK'
  BY <1>0 DEF TotalsTypeOK, WriterRows, RowQuantities
<1>2. \A r \in Writers : writer'[r].held = {} \/ writer'[r].held = writer[r].held
  BY DEF WriterStands, GoesOn
<1>3. HeldApart'
  BY <1>2 DEF TotalsInv, HeldApart
<1>4. ASSUME NEW r \in Writers PROVE Prepared(writer[r])'
  <2>1. CASE writer'[r].held = {} /\ writer'[r].pc = "over"
    BY <2>1 DEF Prepared
  <2>2. CASE /\ GoesOn(writer[r], writer'[r])
             /\ InventoryRow \in writer[r].held => onHand' = onHand
             /\ \A w \in Warehouses : w \in writer[r].held => located'[w] = located[w]
    <3>1. Prepared(writer[r]) /\ writer[r].warehouse \in Warehouses
      BY TotalsShapes DEF TotalsInv
    <3>2. writer[r].warehouse \in writer[r].held => Units(writer[r].warehouse)' = Units(writer[r].warehouse)
      <4>1. \A w \in Warehouses : w \in writer[r].held => Units(w)' = Units(w)
        BY <2>2 DEF Units
      <4>2. PICK w : w = writer[r].warehouse /\ writer'[r].warehouse = w
        BY <2>2 DEF GoesOn
      <4> QED BY <2>2, <3>1 DEF Units, GoesOn
    <3> QED BY <2>2, <3>1, <3>2 DEF Prepared, GoesOn, Units
  <2> QED BY <2>1, <2>2 DEF WriterStands
<1> QED BY <1>0, <1>1, <1>3, <1>4 DEF TotalsInv

LEMMA CommitWriterKeeps ==
  ASSUME TotalsInv, NEW s \in Writers, CommitWriter(s)
  PROVE  TotalsInv'
<1>1. PICK w \in Warehouses : w = writer[s].warehouse
  BY TotalsShapes DEF TotalsInv
<1>2. PICK q : q = writer[s].row
  OBVIOUS
<1>3. PICK rows : rows = {InventoryRow, w}
  OBVIOUS
<1>4. PICK missed : missed = MissedBy(rows)
  OBVIOUS
<1>5. PICK over : over = [NewWriter EXCEPT !.pc = "over"]
  OBVIOUS
<1>6. /\ writer[s].pc \in {"adjust ready", "update ready"}
      /\ onHand' = writer[s].total /\ located' = [located EXCEPT ![w] = q] /\ inTransit' = inTransit
      /\ parted' = IF writer[s].pc = "update ready" THEN Elsewhere(w) > 0 ELSE parted
      /\ writer' = [missed EXCEPT ![s] = over] /\ CopyStands
  BY <1>1, <1>2, <1>3, <1>4, <1>5 DEF CommitWriter, Finished, CopyStands
<1>7. /\ NWarehouses \in Nat /\ MaxUnits \in Nat /\ FirstWarehouse \in Warehouses
      /\ located \in [Warehouses -> RowQuantities] /\ q \in 0..MaxUnits /\ writer[s].total \in 0..MaxUnits
      /\ writer[s].change \in Int /\ onHand \in Nat /\ inTransit \in Nat
  BY <1>2, TotalsShapes DEF TotalsInv
<1>8. missed \in [Writers -> WriterRows] /\ \A r \in Writers : GoesOn(writer[r], missed[r])
  <2>1. rows \subseteq StockRows
    BY <1>3 DEF StockRows
  <2> QED BY <1>4, <2>1, MissedIsSound DEF TotalsInv
<1>9. over \in WriterRows /\ over.pc = "over" /\ over.held = {}
  BY <1>5, <1>7, OverIsSound
<1>10. /\ writer' \in [Writers -> WriterRows] /\ writer'[s] = over
       /\ \A r \in Writers : r # s => writer'[r] = missed[r]
  BY <1>6, <1>8, <1>9
<1>11. /\ w \in writer[s].held /\ InventoryRow \in writer[s].held
       /\ writer[s].pc = "adjust ready" => q = Units(w) + writer[s].change /\ onHand' = onHand + writer[s].change
       /\ writer[s].pc = "update ready" => q = writer[s].change /\ onHand' = writer[s].change
  BY <1>1, <1>2, <1>6 DEF TotalsInv, Prepared
<1>12. ASSUME NEW r \in Writers PROVE WriterStands(r)
  <2>1. CASE r = s
    BY <1>9, <1>10, <2>1 DEF WriterStands
  <2>2. CASE r # s
    <3>1. w \notin writer[r].held /\ InventoryRow \notin writer[r].held
      BY <1>11, <2>2 DEF TotalsInv, HeldApart
    <3>2. \A x \in Warehouses : x \in writer[r].held => located'[x] = located[x]
      BY <1>6, <1>7, <3>1
    <3>3. GoesOn(writer[r], writer'[r])
      BY <1>8, <1>10, <2>2
    <3> QED BY <3>1, <3>2, <3>3 DEF WriterStands
  <2> QED BY <2>1, <2>2
<1>13. /\ located' \in [Warehouses -> RowQuantities]
       /\ Units(w) \in Nat /\ InWarehouses \in Nat /\ Units(w) <= InWarehouses
       /\ InWarehouses' = InWarehouses - Units(w) + q
  BY <1>6, <1>7, UnitsMove DEF TotalsInv
<1>14. TotalsAgree'
  <2> SUFFICES ASSUME ~parted' PROVE onHand' = InWarehouses' + inTransit'
    BY DEF TotalsAgree
  <2>1. CASE writer[s].pc = "adjust ready"
    <3>1. ~parted
      BY <1>6, <2>1
    <3>2. onHand = InWarehouses + inTransit
      BY <3>1 DEF TotalsInv, TotalsAgree
    <3>3. onHand' = onHand + writer[s].change /\ q = Units(w) + writer[s].change
      BY <1>11, <2>1
    <3>4. \A a, b, i \in Nat, c \in Int : (a + i) + c = (a - b + (b + c)) + i
      OBVIOUS
    <3>5. (InWarehouses + inTransit) + writer[s].change =
            (InWarehouses - Units(w) + (Units(w) + writer[s].change)) + inTransit
      BY <1>7, <1>13, <3>4
    <3>6. inTransit' = inTransit
      BY <1>6
    <3> QED BY <1>13, <3>2, <3>3, <3>5, <3>6
  <2>2. CASE writer[s].pc = "update ready"
    <3>1. ~(Elsewhere(w) > 0)
      BY <1>6, <2>2
    <3>2. InWarehouses - Units(w) + inTransit = 0
      <4>1. \A a, b, i \in Nat : b <= a /\ ~(a - b + i > 0) => a - b + i = 0
        OBVIOUS
      <4>2. InWarehouses \in Nat /\ Units(w) \in Nat /\ inTransit \in Nat /\ Units(w) <= InWarehouses
        BY <1>7, <1>13
      <4>3. ~(InWarehouses - Units(w) + inTransit > 0)
        BY <3>1 DEF Elsewhere
      <4> QED BY <4>1, <4>2, <4>3
    <3>3. onHand' = q /\ q \in Nat
      <4>1. q \in Nat
        BY <1>7
      <4>2. q = writer[s].change /\ onHand' = writer[s].change
        BY <1>11, <2>2
      <4> QED BY <4>1, <4>2
    <3>4. \A a, b, i, c \in Nat : a - b + i = 0 => c = (a - b + c) + i
      OBVIOUS
    <3>5. q = (InWarehouses - Units(w) + q) + inTransit
      BY <1>7, <1>13, <3>2, <3>3, <3>4
    <3>6. inTransit' = inTransit
      BY <1>6
    <3> QED BY <1>13, <3>3, <3>5, <3>6
  <2> QED BY <1>6, <2>1, <2>2
<1>15. parted' \in BOOLEAN
  <2>1. CASE writer[s].pc = "update ready"
    <3>1. parted' = (Elsewhere(w) > 0)
      BY <1>6, <2>1
    <3>2. (Elsewhere(w) > 0) \in BOOLEAN
      OBVIOUS
    <3> QED BY <3>1, <3>2, Zenon
  <2>2. CASE writer[s].pc # "update ready"
    <3>1. parted' = parted
      BY <1>6, <2>2
    <3>2. parted \in BOOLEAN
      BY DEF TotalsInv, TotalsTypeOK
    <3> QED BY <3>1, <3>2, Zenon
  <2> QED BY <2>1, <2>2
<1>16. onHand' \in 0..MaxUnits /\ inTransit' \in 0..MaxUnits
  BY <1>6, <1>7 DEF TotalsInv, TotalsTypeOK
<1> QED BY <1>6, <1>10, <1>12, <1>13, <1>14, <1>15, <1>16, RowsWritten

\* Writers go on when what another one writes at once is not locked.
LEMMA WrittenAtOnce ==
  ASSUME TotalsInv, NEW rows, rows \subseteq StockRows, \A x \in rows : LockFree(x),
         writer' = MissedBy(rows),
         InventoryRow \notin rows => onHand' = onHand,
         \A w \in Warehouses : w \notin rows => located'[w] = located[w]
  PROVE  writer' \in [Writers -> WriterRows] /\ \A r \in Writers : WriterStands(r)
<1>1. PICK missed : missed = MissedBy(rows)
  OBVIOUS
<1>2. missed \in [Writers -> WriterRows] /\ \A r \in Writers : GoesOn(writer[r], missed[r])
  BY <1>1, MissedIsSound DEF TotalsInv
<1>3. writer' = missed
  BY <1>1
<1>4. \A x \in rows, r \in Writers : x \notin writer[r].held
  BY DEF LockFree
<1> QED BY <1>2, <1>3, <1>4 DEF WriterStands

LEMMA OneAccountKeeps ==
  ASSUME TotalsInv,
         \/ \E quantity \in 1..MaxUnits : DeductOnHand(quantity) \/ ReturnUnits(quantity)
         \/ \E w \in Warehouses, quantity \in 0..MaxUnits : SetStock(w, quantity)
  PROVE  TotalsInv'
<1>0. /\ NWarehouses \in Nat /\ MaxUnits \in Nat /\ located \in [Warehouses -> RowQuantities]
      /\ onHand \in 0..MaxUnits /\ inTransit \in 0..MaxUnits /\ onHand \in Nat /\ inTransit \in Nat
  BY TotalsShapes DEF TotalsInv, TotalsTypeOK
<1>1. ASSUME NEW delta, MoveGlobal(delta) PROVE TotalsInv'
  <2>1. PICK rows : rows = {InventoryRow}
    OBVIOUS
  <2>2. /\ onHand' \in 0..MaxUnits /\ parted' = TRUE /\ located' = located /\ inTransit' = inTransit
        /\ writer' = MissedBy(rows) /\ LockFree(InventoryRow)
    BY <1>1, <2>1 DEF MoveGlobal
  <2>7. CopyStands
    <3>1. duplicate' = duplicate
      BY <1>1 DEF MoveGlobal
    <3>2. InWarehouses' = InWarehouses
      BY <2>2, UnitsAreIn
    <3> QED BY <2>2, <3>1, <3>2 DEF CopyStands
  <2>3. rows \subseteq StockRows /\ \A x \in rows : LockFree(x)
    BY <2>1, <2>2 DEF StockRows
  <2>4. writer' \in [Writers -> WriterRows] /\ \A r \in Writers : WriterStands(r)
    <3>1. InventoryRow \notin rows => onHand' = onHand
      BY <2>1
    <3>2. \A w \in Warehouses : w \notin rows => located'[w] = located[w]
      BY <2>2
    <3> QED BY <2>2, <2>3, <3>1, <3>2, WrittenAtOnce
  <2>5. TotalsAgree' /\ parted' \in BOOLEAN
    BY <2>2 DEF TotalsAgree
  <2>6. located' \in [Warehouses -> RowQuantities] /\ inTransit' \in 0..MaxUnits
    BY <1>0, <2>2
  <2> QED BY <2>2, <2>4, <2>5, <2>6, <2>7, RowsWritten
<1>2. ASSUME NEW w \in Warehouses, NEW quantity \in 0..MaxUnits, SetStock(w, quantity) PROVE TotalsInv'
  <2>1. PICK rows : rows = {w}
    OBVIOUS
  <2>2. /\ LockFree(w) /\ located' = [located EXCEPT ![w] = quantity]
        /\ parted' = (parted \/ quantity # Units(w))
        /\ onHand' = onHand /\ inTransit' = inTransit /\ writer' = MissedBy(rows)
    BY <1>2, <2>1 DEF SetStock
  <2>3. rows \subseteq StockRows /\ \A x \in rows : LockFree(x)
    BY <2>1, <2>2 DEF StockRows
  <2>4. writer' \in [Writers -> WriterRows] /\ \A r \in Writers : WriterStands(r)
    <3>1. InventoryRow \notin rows => onHand' = onHand
      BY <2>2
    <3>2. \A x \in Warehouses : x \notin rows => located'[x] = located[x]
      BY <1>0, <2>1, <2>2
    <3> QED BY <2>2, <2>3, <3>1, <3>2, WrittenAtOnce
  <2>5. /\ located' \in [Warehouses -> RowQuantities]
        /\ Units(w) \in Nat /\ InWarehouses \in Nat
        /\ InWarehouses' = InWarehouses - Units(w) + quantity
    BY <2>2, UnitsMove DEF TotalsInv
  <2>6. TotalsAgree'
    <3> SUFFICES ASSUME ~parted' PROVE onHand' = InWarehouses' + inTransit'
      BY DEF TotalsAgree
    <3>1. ~parted /\ quantity = Units(w)
      BY <2>2
    <3>2. onHand = InWarehouses + inTransit
      BY <3>1 DEF TotalsInv, TotalsAgree
    <3> QED BY <1>0, <2>2, <2>5, <3>1, <3>2
  <2>7. parted' \in BOOLEAN
    BY <2>2 DEF TotalsInv, TotalsTypeOK
  <2>9. CopyStands
    <3>1. CASE quantity = Units(w)
      <4>1. duplicate' = duplicate
        BY <1>2, <3>1 DEF SetStock
      <4>2. InWarehouses' = InWarehouses
        BY <2>5, <3>1
      <4> QED BY <2>2, <4>1, <4>2 DEF CopyStands
    <3>2. CASE quantity # Units(w)
      BY <1>2, <3>2 DEF SetStock, CopyStands
    <3> QED BY <3>1, <3>2
  <2>8. onHand' \in 0..MaxUnits /\ inTransit' \in 0..MaxUnits
    BY <1>0, <2>2
  <2> QED BY <2>4, <2>5, <2>6, <2>7, <2>8, <2>9, RowsWritten
<1> QED BY <1>1, <1>2 DEF DeductOnHand, ReturnUnits

\* Units that can be taken are there, in a row.
LEMMA TakenUnits ==
  ASSUME TotalsTypeOK, NEW w \in Warehouses, NEW quantity, CanTake(w, quantity)
  PROVE  /\ located[w] = Units(w) /\ Units(w) \in 0..MaxUnits /\ quantity \in Nat
         /\ located[w] - quantity \in 0..MaxUnits
<1>1. located[w] \in RowQuantities /\ MaxUnits \in Nat
  BY TotalsShapes
<1>2. quantity \in 1..Units(w)
  BY DEF CanTake
<1>3. CASE located[w] = NoStockRow
  <2>1. Units(w) = 0
    BY <1>3 DEF Units
  <2>2. 1..0 = {}
    OBVIOUS
  <2> QED BY <1>2, <2>1, <2>2
<1>4. CASE located[w] # NoStockRow
  <2>1. located[w] = Units(w) /\ Units(w) \in 0..MaxUnits
    BY <1>1, <1>4 DEF Units, RowQuantities
  <2>2. \A u \in 0..MaxUnits : \A k \in 1..u : k \in Nat /\ u - k \in 0..MaxUnits
    BY <1>1
  <2> QED BY <1>2, <2>1, <2>2
<1> QED BY <1>3, <1>4

LEMMA MovesKeepTotals ==
  ASSUME TotalsInv, NEW w \in Warehouses, NEW quantity \in 0..MaxUnits,
         \/ Dispatch(w, quantity) \/ Arrive(w, quantity)
         \/ \E x \in Warehouses : Transfer(w, x, quantity)
  PROVE  TotalsInv'
<1>0. /\ NWarehouses \in Nat /\ MaxUnits \in Nat /\ located \in [Warehouses -> RowQuantities]
      /\ onHand \in 0..MaxUnits /\ inTransit \in 0..MaxUnits /\ onHand \in Nat /\ inTransit \in Nat
      /\ quantity \in Nat /\ parted \in BOOLEAN
      /\ ~parted => onHand = InWarehouses + inTransit
  <2>1. TotalsTypeOK /\ TotalsAgree
    BY DEF TotalsInv
  <2>2. /\ NWarehouses \in Nat /\ MaxUnits \in Nat /\ located \in [Warehouses -> RowQuantities]
        /\ onHand \in Nat /\ inTransit \in Nat
    BY <2>1, TotalsShapes
  <2>3. onHand \in 0..MaxUnits /\ inTransit \in 0..MaxUnits /\ parted \in BOOLEAN
    BY <2>1 DEF TotalsTypeOK
  <2>4. quantity \in Nat
    BY <2>2
  <2> QED BY <2>1, <2>2, <2>3, <2>4 DEF TotalsAgree
<1>1. ASSUME NEW x \in Warehouses, NEW q \in 0..MaxUnits, LockFree(x),
             located' = [located EXCEPT ![x] = q], writer' = MissedBy({x}), UNCHANGED <<onHand, parted, duplicate>>,
             inTransit' \in 0..MaxUnits, q + inTransit' = Units(x) + inTransit
      PROVE  TotalsInv'
  <2>1. PICK rows : rows = {x}
    OBVIOUS
  <2>2. rows \subseteq StockRows /\ (\A y \in rows : LockFree(y)) /\ writer' = MissedBy(rows)
    BY <1>1, <2>1 DEF StockRows
  <2>3. writer' \in [Writers -> WriterRows] /\ \A r \in Writers : WriterStands(r)
    <3>1. InventoryRow \notin rows => onHand' = onHand
      BY <1>1
    <3>2. \A y \in Warehouses : y \notin rows => located'[y] = located[y]
      BY <1>0, <1>1, <2>1
    <3> QED BY <2>2, <3>1, <3>2, WrittenAtOnce
  <2>4. /\ located' \in [Warehouses -> RowQuantities]
        /\ Units(x) \in Nat /\ InWarehouses \in Nat
        /\ InWarehouses' = InWarehouses - Units(x) + q
    BY <1>1, UnitsMove DEF TotalsInv
  <2>5. q \in Nat /\ inTransit' \in Nat
    BY <1>0, <1>1
  <2>6. InWarehouses' + inTransit' = InWarehouses + inTransit
    BY <1>0, <1>1, <2>4, <2>5
  <2>7. TotalsAgree'
    BY <1>0, <1>1, <2>6 DEF TotalsAgree
  <2>8. onHand' \in 0..MaxUnits /\ parted' \in BOOLEAN
    BY <1>0, <1>1
  <2>9. CopyStands
    BY <1>1, <2>6 DEF CopyStands
  <2> QED BY <1>1, <2>3, <2>4, <2>7, <2>8, <2>9, RowsWritten
<1>2. CASE Dispatch(w, quantity)
  <2>1. PICK q : q = located[w] - quantity
    OBVIOUS
  <2>2. /\ LockFree(w) /\ CanTake(w, quantity) /\ inTransit + quantity <= MaxUnits
        /\ located' = [located EXCEPT ![w] = q] /\ inTransit' = inTransit + quantity
        /\ writer' = MissedBy({w}) /\ UNCHANGED <<onHand, parted, duplicate>>
    BY <1>2, <2>1 DEF Dispatch
  <2>3. located[w] = Units(w) /\ Units(w) \in 0..MaxUnits /\ q \in 0..MaxUnits
    BY <2>1, <2>2, TakenUnits DEF TotalsInv
  <2>4. inTransit' \in 0..MaxUnits /\ q + inTransit' = Units(w) + inTransit
    BY <1>0, <2>1, <2>2, <2>3
  <2> QED BY <1>1, <2>2, <2>3, <2>4
<1>3. CASE Arrive(w, quantity)
  <2>1. PICK q : q = Units(w) + quantity
    OBVIOUS
  <2>2. /\ LockFree(w) /\ quantity \in 1..inTransit /\ Units(w) + quantity <= MaxUnits
        /\ located' = [located EXCEPT ![w] = q] /\ inTransit' = inTransit - quantity
        /\ writer' = MissedBy({w}) /\ UNCHANGED <<onHand, parted, duplicate>>
    BY <1>3, <2>1 DEF Arrive
  <2>3. Units(w) \in Nat
    <3>1. \A u \in RowQuantities : UnitsIn(u) \in Nat
      BY DEF RowQuantities, UnitsIn
    <3> QED BY <1>0, <3>1, UnitsAreIn
  <2>4. q \in 0..MaxUnits /\ inTransit' \in 0..MaxUnits /\ q + inTransit' = Units(w) + inTransit
    BY <1>0, <2>1, <2>2, <2>3
  <2> QED BY <1>1, <2>2, <2>4
<1>4. ASSUME NEW x \in Warehouses, Transfer(w, x, quantity) PROVE TotalsInv'
  <2>1. PICK p : p = located[w] - quantity
    OBVIOUS
  <2>2. PICK q : q = Units(x) + quantity
    OBVIOUS
  <2>3. PICK rows : rows = {w, x}
    OBVIOUS
  <2>4. PICK between : between = [located EXCEPT ![w] = p]
    OBVIOUS
  <2>5. /\ w # x /\ LockFree(w) /\ LockFree(x) /\ CanTake(w, quantity) /\ Units(x) + quantity <= MaxUnits
        /\ located' = [located EXCEPT ![w] = p, ![x] = q]
        /\ writer' = MissedBy(rows) /\ UNCHANGED <<onHand, inTransit, parted, duplicate>>
    BY <1>4, <2>1, <2>2, <2>3 DEF Transfer
  <2>6. located' = [between EXCEPT ![x] = q]
    BY <2>4, <2>5
  <2>7. located[w] = Units(w) /\ Units(w) \in 0..MaxUnits /\ p \in 0..MaxUnits
    BY <2>1, <2>5, TakenUnits DEF TotalsInv
  <2>8. Units(x) \in Nat
    <3>1. \A u \in RowQuantities : UnitsIn(u) \in Nat
      BY DEF RowQuantities, UnitsIn
    <3> QED BY <1>0, <3>1, UnitsAreIn
  <2>9. q \in 0..MaxUnits
    BY <1>0, <2>2, <2>5, <2>8
  <2>10. /\ between \in [Warehouses -> RowQuantities]
         /\ TotalIn(between) = InWarehouses - Units(w) + p /\ InWarehouses \in Nat
    <3>1. /\ between \in [Warehouses -> RowQuantities] /\ TotalIn(located) \in Nat
          /\ TotalIn(between) = TotalIn(located) - UnitsIn(located[w]) + p
      <4>1. Written(located, w, p, between)
        BY <1>0, <2>4, <2>7 DEF Written
      <4> QED BY <4>1, TotalMoves DEF Moved
    <3>2. Units(w) = UnitsIn(located[w]) /\ InWarehouses = TotalIn(located)
      BY UnitsAreIn
    <3> QED BY <3>1, <3>2
  <2>11. UnitsIn(between[x]) = Units(x)
    BY <1>0, <2>4, <2>5, UnitsAreIn
  <2>12. /\ located' \in [Warehouses -> RowQuantities]
         /\ TotalIn(located') = TotalIn(between) - Units(x) + q
    <3>1. PICK h : h = [between EXCEPT ![x] = q]
      OBVIOUS
    <3>2. /\ h \in [Warehouses -> RowQuantities]
          /\ TotalIn(h) = TotalIn(between) - UnitsIn(between[x]) + q
      <4>1. Written(between, x, q, h)
        BY <2>9, <2>10, <3>1 DEF Written
      <4> QED BY <4>1, TotalMoves DEF Moved
    <3>3. located' = h
      BY <2>6, <3>1
    <3>4. TotalIn(located') = TotalIn(h)
      BY <3>3
    <3> QED BY <2>11, <3>2, <3>3, <3>4
  <2>13. InWarehouses' = InWarehouses
    <3>1. Units(w) \in Nat
      BY <1>0, <2>7
    <3>2. p = Units(w) - quantity /\ q = Units(x) + quantity
      BY <2>1, <2>2, <2>7
    <3>3. InWarehouses' = TotalIn(located')
      BY UnitsAreIn
    <3>4. InWarehouses' = (InWarehouses - Units(w) + p) - Units(x) + q
      BY <2>10, <2>12, <3>3
    <3>5. \A a, b, c, k \in Nat : (a - b + (b - k)) - c + (c + k) = a
      OBVIOUS
    <3> QED BY <1>0, <2>8, <2>10, <3>1, <3>2, <3>4, <3>5
  <2>14. writer' \in [Writers -> WriterRows] /\ \A r \in Writers : WriterStands(r)
    <3>1. rows \subseteq StockRows /\ \A y \in rows : LockFree(y)
      BY <2>3, <2>5 DEF StockRows
    <3>2. InventoryRow \notin rows => onHand' = onHand
      BY <2>5
    <3>3. \A y \in Warehouses : y \notin rows => located'[y] = located[y]
      BY <1>0, <2>3, <2>5
    <3> QED BY <2>5, <3>1, <3>2, <3>3, WrittenAtOnce
  <2>15. TotalsAgree'
    BY <1>0, <2>5, <2>13 DEF TotalsAgree
  <2>16. onHand' \in 0..MaxUnits /\ inTransit' \in 0..MaxUnits /\ parted' \in BOOLEAN
    BY <1>0, <2>5
  <2>17. CopyStands
    BY <2>5, <2>13 DEF CopyStands
  <2> QED BY <2>12, <2>14, <2>15, <2>16, <2>17, RowsWritten
<1> QED BY <1>2, <1>3, <1>4

\* The statements of a copy, and its end: a new variant begins with the accounts
\* that were copied.
LEMMA DuplicateKeepsTotals ==
  ASSUME TotalsInv, CopyInventory \/ CopyWarehouseStock \/ LeaveDuplicate
  PROVE  TotalsInv'
<1>0. /\ NWarehouses \in Nat /\ MaxUnits \in Nat /\ FirstWarehouse \in Warehouses
      /\ located \in [Warehouses -> RowQuantities] /\ writer \in [Writers -> WriterRows]
      /\ onHand \in 0..MaxUnits /\ inTransit \in 0..MaxUnits /\ parted \in BOOLEAN
      /\ onHand \in Nat /\ inTransit \in Nat
  BY TotalsShapes DEF TotalsInv, TotalsTypeOK
<1>1. /\ duplicate \in [open : BOOLEAN, total : 0..MaxUnits, parted : BOOLEAN]
      /\ DuplicateSound
  BY DEF TotalsInv, TotalsTypeOK
<1>2. NoDuplicate \in [open : BOOLEAN, total : 0..MaxUnits, parted : BOOLEAN] /\ ~NoDuplicate.open
  BY <1>0 DEF NoDuplicate
<1>3. CASE CopyInventory \/ LeaveDuplicate
  <2>1. UNCHANGED <<onHand, located, inTransit, writer, parted>>
    BY <1>3 DEF CopyInventory, LeaveDuplicate
  <2>2. InWarehouses' = InWarehouses
    BY <2>1, UnitsAreIn
  <2>3. /\ duplicate' \in [open : BOOLEAN, total : 0..MaxUnits, parted : BOOLEAN]
        /\ DuplicateSound'
    <3>1. CASE CopyInventory
      <4>1. duplicate' = [open |-> TRUE, total |-> onHand, parted |-> parted]
        BY <3>1 DEF CopyInventory
      <4>2. ~parted => onHand = InWarehouses' + inTransit'
        BY <2>1, <2>2 DEF TotalsInv, TotalsAgree
      <4> QED BY <1>0, <4>1, <4>2 DEF DuplicateSound
    <3>2. CASE LeaveDuplicate
      BY <1>2, <3>2 DEF LeaveDuplicate, DuplicateSound
    <3> QED BY <1>3, <3>1, <3>2
  <2>4. TotalsTypeOK' /\ HeldApart'
    BY <2>1, <2>3 DEF TotalsInv, TotalsTypeOK, HeldApart
  <2>5. TotalsAgree'
    BY <2>1, <2>2 DEF TotalsInv, TotalsAgree
  <2>6. \A s \in Writers : Prepared(writer[s])'
    BY <2>1 DEF TotalsInv, Prepared, Units
  <2> QED BY <2>3, <2>4, <2>5, <2>6 DEF TotalsInv
<1>4. CASE CopyWarehouseStock
  <2>1. /\ duplicate.open /\ onHand' = duplicate.total /\ located' = located /\ inTransit' = 0
        /\ parted' = (duplicate.parted \/ inTransit > 0)
        /\ writer' = [s \in Writers |-> NewWriter] /\ duplicate' = NoDuplicate
    BY <1>4 DEF CopyWarehouseStock
  <2>2. NewWriter \in WriterRows /\ NewWriter.held = {} /\ NewWriter.pc = "new"
    <3>1. 0 \in Deltas /\ 0 \in 0..MaxUnits
      BY <1>0 DEF Deltas
    <3> QED BY <1>0, <3>1 DEF NewWriter, WriterRows
  <2>3. writer' \in [Writers -> WriterRows] /\ \A s \in Writers : writer'[s] = NewWriter
    BY <2>1, <2>2
  <2>4. parted' \in BOOLEAN
    <3>1. (duplicate.parted \/ inTransit > 0) \in BOOLEAN
      OBVIOUS
    <3> QED BY <2>1, <3>1, Zenon
  <2>5. TotalsTypeOK'
    <3>1. onHand' \in 0..MaxUnits /\ inTransit' \in 0..MaxUnits
      BY <1>0, <1>1, <2>1
    <3>2. located' \in [Warehouses -> RowQuantities]
      BY <1>0, <2>1
    <3>3. duplicate' \in [open : BOOLEAN, total : 0..MaxUnits, parted : BOOLEAN]
      BY <1>2, <2>1
    <3> QED BY <2>3, <2>4, <3>1, <3>2, <3>3 DEF TotalsTypeOK, WriterRows, RowQuantities
  <2>6. HeldApart' /\ \A s \in Writers : Prepared(writer[s])'
    BY <2>2, <2>3 DEF HeldApart, Prepared
  <2>7. TotalsAgree'
    <3> SUFFICES ASSUME ~parted' PROVE onHand' = InWarehouses' + inTransit'
      BY DEF TotalsAgree
    <3>1. ~duplicate.parted /\ ~(inTransit > 0)
      BY <2>1
    <3>2. duplicate.total = InWarehouses + inTransit /\ inTransit = 0
      BY <1>0, <1>1, <2>1, <3>1 DEF DuplicateSound
    <3>3. InWarehouses' = InWarehouses
      BY <2>1, UnitsAreIn
    <3> QED BY <2>1, <3>2, <3>3
  <2>8. DuplicateSound'
    BY <1>2, <2>1 DEF DuplicateSound
  <2> QED BY <2>5, <2>6, <2>7, <2>8 DEF TotalsInv
<1> QED BY <1>3, <1>4

\* Every step of writers, sales, returns, moves and copies keeps TotalsInv.
THEOREM TotalsInductive == TotalsInv /\ [TotalsNext]_totalsVars => TotalsInv'
<1> SUFFICES ASSUME TotalsInv, [TotalsNext]_totalsVars PROVE TotalsInv'
  OBVIOUS
<1>1. CASE UNCHANGED totalsVars
  <2>1. UNCHANGED <<onHand, located, inTransit, writer, parted, duplicate>>
    BY <1>1 DEF totalsVars
  <2>2. TotalsTypeOK' /\ HeldApart'
    BY <2>1 DEF TotalsInv, TotalsTypeOK, HeldApart
  <2>3. TotalsAgree'
    BY <2>1, UnitsAreIn DEF TotalsInv, TotalsAgree
  <2>4. \A s \in Writers : Prepared(writer[s])'
    BY <2>1 DEF TotalsInv, Prepared, Units
  <2>5. DuplicateSound'
    BY <2>1, UnitsAreIn DEF TotalsInv, DuplicateSound
  <2> QED BY <2>2, <2>3, <2>4, <2>5 DEF TotalsInv
<1>2. ASSUME NEW s \in Writers, WriterStep(s) PROVE TotalsInv'
  BY <1>2, BeginKeepsTotals, AdjustKeepsTotals, UpdateKeepsTotals, CommitWriterKeeps, FailWriterKeeps
     DEF WriterStep
<1> QED BY <1>1, <1>2, OneAccountKeeps, MovesKeepTotals, DuplicateKeepsTotals DEF TotalsNext

\* TotalsInv holds in every state.
THEOREM TotalsInvHolds == TotalsSpec => []TotalsInv
  BY TotalsInitSafe, TotalsInductive, PTL DEF TotalsSpec

\* For any number of warehouses and writers the two accounts agree, also those of
\* a duplicate, until units are written to one of them only, or all to one
\* warehouse with some elsewhere, or a copy leaves out units in transit or meets
\* a commit (AdjustInventory, UpdateVariant, DuplicateProduct).
THEOREM AccountsAgree == TotalsSpec => []TotalsAgree
<1>1. TotalsInv => TotalsAgree
  BY DEF TotalsInv
<1> QED
  BY <1>1, TotalsInvHolds, PTL
===============================================================================
