-------------------------- MODULE TransactionProofs --------------------------
(***************************************************************************)
(* The safety of module StockTransactions for any variants and any number  *)
(* of sessions, batch items and reservations: no unit of a batch item is   *)
(* sold twice, and statement by statement the transactions do what         *)
(* StockContract says a call does in one step.                             *)
(*                                                                         *)
(* The argument is about two sets of tables, the committed ones and those  *)
(* a session sees, so most of it is stated of tables d and t, the rows     *)
(* mine that the session holds and the rows old that others have committed *)
(* since its snapshot.                                                     *)
(***************************************************************************)
EXTENDS StockTransactions, SumLemmas

InventoryRow(v)   == <<"inventory", v>>
ReservationRow(r) == <<"reservation", r>>

\* The units reservation r holds of variant v.
Share(t, r, v) ==
  IF t.resv[r].state = "active" /\ t.resv[r].variant = v THEN t.resv[r].quantity ELSE 0

\* What holds of the committed tables and of those a session sees: the column
\* reserved is what the active reservations hold, and no batch item has sold
\* more than it received.
Sound(t) ==
  /\ t \in Tables
  /\ \A v \in Variants : t.reserved[v] = Held(t, v)
  /\ \A b \in Batches : Deducted(t, b) <= t.batch[b].received

-----------------------------------------------------------------------------
(* The tables t of a session s of some kind, against the committed ones d  *)

\* The receipts it sees are there.
ReceiptsSeen(d, t) ==
  \A b \in Batches : t.batch[b].received > 0 => t.batch[b] = d.batch[b]

\* It sees what other orders took from a batch item, unless the inventory row
\* of its variant has changed since; and it has taken from a batch item itself
\* only if it holds that row.
SalesSeen(s, d, t, mine, old, kind) ==
  /\ \A b \in Batches, o \in Orders \ {s} :
       InventoryRow(d.batch[b].variant) \notin old => t.saleOut[o][b] = d.saleOut[o][b]
  /\ \A b \in Batches :
       InventoryRow(d.batch[b].variant) \notin mine => t.saleOut[s][b] = d.saleOut[s][b]
  /\ kind # "sale" => t.saleOut[s] = d.saleOut[s]
  /\ d.saleOut[s] = NoUnits

\* It sees the reservations that have not changed since, and for a variant
\* whose inventory row has not, what all of them hold of it.
ReservationsSeen(d, t, mine, old, kind) ==
  /\ \A r \in Reservations :
       ReservationRow(r) \notin mine \cup old => t.resv[r] = d.resv[r]
  /\ \A r \in Reservations, v \in Variants :
       /\ ReservationRow(r) \in mine /\ InventoryRow(v) \notin mine
          => Share(t, r, v) = Share(d, r, v)
       /\ ReservationRow(r) \notin mine /\ InventoryRow(v) \notin old
          => Share(t, r, v) = Share(d, r, v)
  /\ kind \notin {"reserve", "release"} =>
       \A r \in Reservations : ReservationRow(r) \notin mine

\* It sees the inventory rows that have not changed since, but for what it did
\* to the rows it holds.
InventorySeen(s, d, t, mine, old, kind) ==
  \A v \in Variants : InventoryRow(v) \notin old =>
    /\ InventoryRow(v) \notin mine =>
         t.onHand[v] = d.onHand[v] /\ t.reserved[v] = d.reserved[v]
    /\ kind \in {"reserve", "release"} => t.onHand[v] = d.onHand[v]
    /\ kind \notin {"reserve", "release"} => t.reserved[v] = d.reserved[v]
    /\ kind = "sale" =>
         /\ t.onHand[v] + UnitsOf(t, t.saleOut[s], v) = d.onHand[v]
         /\ t.onHand[v] < d.onHand[v] => t.reserved[v] <= t.onHand[v]
    /\ kind = "reserve" =>
         /\ d.reserved[v] <= t.reserved[v]
         /\ d.reserved[v] < t.reserved[v] => t.reserved[v] <= t.onHand[v]
    /\ kind = "release" => t.reserved[v] <= d.reserved[v]

\* The rows it holds have not changed since; those of a write session may have.
HeldCurrent(mine, old, kind) == kind # "write" => mine \cap old = {}

Sees(s, d, t, mine, old, kind) ==
  /\ ReceiptsSeen(d, t)
  /\ SalesSeen(s, d, t, mine, old, kind)
  /\ ReservationsSeen(d, t, mine, old, kind)
  /\ InventorySeen(s, d, t, mine, old, kind)
  /\ HeldCurrent(mine, old, kind)

-----------------------------------------------------------------------------
(* The inductive invariant                                                 *)

HeldBy(s) == {row \in Rows : lock[row] = s}

SaleLines    == [variant : Variants, quantity : 1..MaxQty]
ReserveLines == [variant : Variants, quantity : 1..MaxQty, reservation : Reservations]
ReleaseLines == [reservation : Reservations]
WriteLines   == [variant : Variants]
AllLines     == SaleLines \cup ReserveLines \cup ReleaseLines \cup WriteLines

\* A line that is still to be done is of the kind of its session.
Fits(kind, line) ==
  /\ kind = "sale" => line \in SaleLines
  /\ kind = "reserve" => line \in ReserveLines
  /\ kind = "release" => line \in ReleaseLines
  /\ kind \in {"write", "adjust"} => line \in WriteLines

Kinds == {"sale", "reserve", "release", "write", "adjust"}
Pcs   == {"idle", "running", "done", "refused", "conflict", "deadlock", "cancelled"}

\* The rows that a reservation request is to insert are its own, and each is
\* inserted once.
Inserts(s) ==
  \A i \in 1..Len(tx[s].todo) :
    /\ ReservationRow(tx[s].todo[i].reservation) \in HeldBy(s)
    /\ copy[s].resv[tx[s].todo[i].reservation].state = "unused"
    /\ \A j \in 1..Len(tx[s].todo) :
         i # j => tx[s].todo[i].reservation # tx[s].todo[j].reservation

SessionInv(s) ==
  IF Running(s)
  THEN /\ tx[s].kind \in Kinds
       /\ \A i \in 1..Len(tx[s].todo) : Fits(tx[s].kind, tx[s].todo[i])
       /\ tx[s].kind = "reserve" => Inserts(s)
       /\ Sound(copy[s])
       /\ Sees(s, db, copy[s], HeldBy(s), stale[s], tx[s].kind)
  ELSE /\ stale[s] = {} /\ HeldBy(s) = {} /\ copy[s] = NoCopy
       /\ tx[s].pc = "idle" => db.saleOut[s] = NoUnits

Shapes ==
  /\ lock \in [Rows -> Sessions \cup {NoSession}]
  /\ tx \in [Sessions -> [pc : Pcs, kind : Kinds \cup {"none"}, todo : Seq(AllLines)]]
  /\ copy \in [Sessions -> Tables \cup {NoCopy}]
  /\ stale \in [Sessions -> SUBSET Rows]
  /\ written \in [Variants -> Int]

IInv == Shapes /\ Sound(db) /\ \A s \in Sessions : SessionInv(s)

-----------------------------------------------------------------------------
(* Sums over the tables                                                    *)

LEMMA NumbersOfRows ==
  NSessions \in Nat /\ NBatches \in Nat /\ NReservations \in Nat /\ 1 \in Reservations
  BY TransactionsAssumption DEF Reservations

LEMMA TableTypes ==
  ASSUME NEW t \in Tables
  PROVE  /\ t.onHand \in [Variants -> Nat] /\ t.reserved \in [Variants -> Nat]
         /\ t.batch \in [Batches -> [variant : Variants, received : Nat]]
         /\ t.saleOut \in [Orders -> [Batches -> Nat]]
         /\ t.resv \in [Reservations -> [state : {"unused", "active", "released"},
                                         variant : Variants, quantity : Nat]]
         /\ \A b \in Batches : t.batch[b].variant \in Variants /\ t.batch[b].received \in Nat
         /\ \A o \in Orders, b \in Batches : t.saleOut[o][b] \in Nat
         /\ \A r \in Reservations, v \in Variants : Share(t, r, v) \in Nat
  BY DEF Tables, Share

\* What the reservations hold is the sum of their shares ...
LEMMA HeldIsSum ==
  ASSUME NEW t, NEW v
  PROVE  Held(t, v) = SumTo([r \in Reservations |-> Share(t, r, v)], NReservations)
  BY DEF Held, Share

\* ... so it is the same where the shares are,
LEMMA HeldSame ==
  ASSUME NEW t \in Tables, NEW u, NEW v \in Variants,
         \A r \in Reservations : Share(u, r, v) = Share(t, r, v)
  PROVE  Held(u, v) = Held(t, v)
<1> DEFINE g == [r \in Reservations |-> Share(t, r, v)]
           h == [r \in Reservations |-> Share(u, r, v)]
<1>1. \A i \in 1..NReservations : g[i] \in Int /\ h[i] = g[i]
  BY TableTypes DEF Reservations
<1> HIDE DEF g, h
<1>2. SumTo(h, NReservations) = SumTo(g, NReservations)
  BY <1>1, NumbersOfRows, SumToSame
<1> QED
  BY <1>2, HeldIsSum DEF g, h

\* ... changes with the share of one reservation, and is at least that share.
LEMMA HeldChanges ==
  ASSUME NEW t \in Tables, NEW u \in Tables, NEW v \in Variants, NEW k \in Reservations,
         \A r \in Reservations : r # k => Share(u, r, v) = Share(t, r, v)
  PROVE  /\ Held(u, v) = Held(t, v) + Share(u, k, v) - Share(t, k, v)
         /\ Share(t, k, v) <= Held(t, v)
         /\ Held(t, v) \in Nat
<1> DEFINE g == [r \in Reservations |-> Share(t, r, v)]
           h == [r \in Reservations |-> Share(u, r, v)]
<1>1. /\ \A i \in 1..NReservations : g[i] \in Int /\ h[i] \in Int
      /\ \A i \in 1..NReservations : g[i] \in Nat
      /\ \A i \in 1..NReservations : i # k => h[i] = g[i]
      /\ k \in 1..NReservations /\ g[k] = Share(t, k, v) /\ h[k] = Share(u, k, v)
  BY TableTypes DEF Reservations
<1> HIDE DEF g, h
<1>2. /\ SumTo(h, NReservations) = SumTo(g, NReservations) + h[k] - g[k]
      /\ g[k] <= SumTo(g, NReservations)
      /\ SumTo(g, NReservations) \in Nat
  BY ZenonT(40), <1>1, NumbersOfRows, SumToUpdate, SumToMember, SumToType
<1> QED
  BY <1>1, <1>2, HeldIsSum DEF g, h

\* What the orders took from a batch item is the same where each took the same,
LEMMA DeductedSame ==
  ASSUME NEW t \in Tables, NEW u, NEW b \in Batches,
         \A o \in Orders : u.saleOut[o][b] = t.saleOut[o][b]
  PROVE  Deducted(u, b) = Deducted(t, b)
<1> DEFINE g == [o \in Orders |-> t.saleOut[o][b]]
           h == [o \in Orders |-> u.saleOut[o][b]]
<1>1. \A i \in 1..NSessions : g[i] \in Int /\ h[i] = g[i]
  BY TableTypes DEF Orders, Sessions
<1> HIDE DEF g, h
<1>2. SumTo(h, NSessions) = SumTo(g, NSessions)
  BY <1>1, NumbersOfRows, SumToSame
<1> QED
  BY <1>2 DEF g, h, Deducted

\* ... changes with what one of them took, and is at least that.
LEMMA DeductedChanges ==
  ASSUME NEW t \in Tables, NEW u \in Tables, NEW b \in Batches, NEW s \in Orders,
         \A o \in Orders : o # s => u.saleOut[o][b] = t.saleOut[o][b]
  PROVE  /\ Deducted(u, b) = Deducted(t, b) + u.saleOut[s][b] - t.saleOut[s][b]
         /\ t.saleOut[s][b] <= Deducted(t, b)
         /\ Deducted(t, b) \in Nat
<1> DEFINE g == [o \in Orders |-> t.saleOut[o][b]]
           h == [o \in Orders |-> u.saleOut[o][b]]
<1>1. /\ \A i \in 1..NSessions : g[i] \in Int /\ h[i] \in Int
      /\ \A i \in 1..NSessions : g[i] \in Nat
      /\ \A i \in 1..NSessions : i # s => h[i] = g[i]
      /\ s \in 1..NSessions /\ g[s] = t.saleOut[s][b] /\ h[s] = u.saleOut[s][b]
  BY TableTypes DEF Orders, Sessions
<1> HIDE DEF g, h
<1>2. SumTo(h, NSessions) = SumTo(g, NSessions) + h[s] - g[s]
  BY <1>1, NumbersOfRows, SumToUpdate
<1>3. g[s] <= SumTo(g, NSessions)
  BY <1>1, NumbersOfRows, SumToMember
<1>4. SumTo(g, NSessions) \in Nat
  BY <1>1, NumbersOfRows, SumToType
<1> QED
  BY <1>1, <1>2, <1>3, <1>4 DEF g, h, Deducted

LEMMA DeductedType ==
  ASSUME NEW t \in Tables, NEW b \in Batches
  PROVE  Deducted(t, b) \in Nat
<1> DEFINE g == [o \in Orders |-> t.saleOut[o][b]]
<1>1. \A i \in 1..NSessions : g[i] \in Nat
  BY TableTypes DEF Orders, Sessions
<1> HIDE DEF g
<1>2. SumTo(g, NSessions) \in Nat
  BY <1>1, NumbersOfRows, SumToType
<1> QED
  BY <1>2 DEF g, Deducted

\* Nothing was taken from a batch item that has received nothing.
LEMMA NothingTaken ==
  ASSUME NEW t, Sound(t), NEW b \in Batches, t.batch[b].received = 0, NEW o \in Orders
  PROVE  t.saleOut[o][b] = 0
<1>1. t \in Tables /\ Deducted(t, b) <= 0
  BY DEF Sound
<1>2. t.saleOut[o][b] <= Deducted(t, b) /\ Deducted(t, b) \in Nat
  BY <1>1, DeductedChanges
<1> QED
  BY <1>1, <1>2, TableTypes

\* The units of a variant among units taken, where these are the same.
LEMMA UnitsSame ==
  ASSUME NEW t, NEW u, NEW f, NEW g, NEW v \in Variants,
         \A b \in Batches :
           /\ f[b] \in Nat
           /\ (IF u.batch[b].variant = v THEN g[b] ELSE 0)
                = (IF t.batch[b].variant = v THEN f[b] ELSE 0)
  PROVE  UnitsOf(u, g, v) = UnitsOf(t, f, v) /\ UnitsOf(t, f, v) \in Nat
<1> DEFINE x == [b \in Batches |-> IF t.batch[b].variant = v THEN f[b] ELSE 0]
           y == [b \in Batches |-> IF u.batch[b].variant = v THEN g[b] ELSE 0]
<1>1. \A i \in 1..NBatches : x[i] \in Nat /\ x[i] \in Int /\ y[i] = x[i]
  BY DEF Batches
<1> HIDE DEF x, y
<1>2. SumTo(y, NBatches) = SumTo(x, NBatches) /\ SumTo(x, NBatches) \in Nat
  BY <1>1, NumbersOfRows, SumToSame, SumToType
<1> QED
  BY <1>2 DEF x, y, UnitsOf

LEMMA UnitsNone ==
  ASSUME NEW t, NEW f, NEW v \in Variants,
         \A b \in Batches : t.batch[b].variant = v => f[b] = 0
  PROVE  UnitsOf(t, f, v) = 0
<1> DEFINE x == [b \in Batches |-> IF t.batch[b].variant = v THEN f[b] ELSE 0]
<1>1. \A i \in 1..NBatches : x[i] = 0
  BY DEF Batches
<1> HIDE DEF x
<1>2. SumTo(x, NBatches) = 0
  BY <1>1, NumbersOfRows, SumToZero
<1> QED
  BY <1>2 DEF x, UnitsOf

-----------------------------------------------------------------------------
(* What one statement does to the tables its session sees                  *)

LEMMA RowsApart ==
  /\ \A v \in Variants : InventoryRow(v) \in Rows
  /\ \A r \in Reservations : ReservationRow(r) \in Rows
  /\ \A row \in Rows : \/ \E v \in Variants : row = InventoryRow(v)
                       \/ \E r \in Reservations : row = ReservationRow(r)
  /\ \A v, w \in Variants : InventoryRow(v) = InventoryRow(w) => v = w
  /\ \A q, r \in Reservations : ReservationRow(q) = ReservationRow(r) => q = r
  /\ \A v \in Variants, r \in Reservations : InventoryRow(v) # ReservationRow(r)
  BY DEF Rows, InventoryRow, ReservationRow

\* The tables a sale leaves.
SoldTables(s, t, v, q, units) ==
  [t EXCEPT !.onHand[v] = @ - q,
            !.saleOut[s] = [b \in Batches |-> @[b] + units[b]]]

\* Units taken from batch items of the variant, as many as the line asks for
\* and as they have left, keep the tables sound and what is seen true.
LEMMA SaleKeepsView ==
  ASSUME NEW s \in Sessions, NEW d, NEW t, NEW mine, NEW old,
         Sound(d), Sound(t), Sees(s, d, t, mine, old, "sale"),
         NEW v \in Variants, InventoryRow(v) \in mine,
         NEW q \in Nat, q <= Available(t, v),
         Covers(FifoStock(t, v), q, NBatches)
  PROVE  LET u == SoldTables(s, t, v, q, Consumed(FifoStock(t, v), q, NBatches))
         IN  /\ Sound(u)
             /\ Sees(s, d, u, mine, old, "sale")
<1> DEFINE f == FifoStock(t, v)
           units == Consumed(f, q, NBatches)
           u == SoldTables(s, t, v, q, units)
<1>1. /\ t \in Tables /\ d \in Tables
      /\ \A b \in Batches : Deducted(t, b) \in Nat /\ Deducted(t, b) <= t.batch[b].received
      /\ s \in Orders
  BY DeductedType DEF Sound, Orders
<1>2. \A b \in Batches :
        /\ f[b] \in Nat
        /\ f[b] <= t.batch[b].received - Deducted(t, b)
        /\ f[b] > 0 => t.batch[b].variant = v /\ t.batch[b].received > 0
  BY <1>1, TableTypes DEF FifoStock
<1> HIDE DEF f
<1>3. \A b \in Batches : units[b] \in Nat /\ units[b] <= f[b]
  BY <1>2, NumbersOfRows, ConsumedBounds DEF Batches
<1>4. SumTo(units, NBatches) = q
  <2>1. SumTo(units, NBatches) = q - Remaining(f, q, NBatches)[NBatches]
    BY <1>2, NumbersOfRows, ConsumedTotal DEF Batches
  <2> QED
    BY <2>1 DEF Covers, f
<1> HIDE DEF units
<1> DEFINE on   == [t.onHand EXCEPT ![v] = @ - q]
           outs == [t.saleOut EXCEPT ![s] = [b \in Batches |-> @[b] + units[b]]]
<1>5. u = [t EXCEPT !.onHand = on, !.saleOut = outs]
  BY <1>1 DEF SoldTables, Tables
<1>6. /\ u.batch = t.batch /\ u.reserved = t.reserved /\ u.resv = t.resv
      /\ u.onHand = on /\ u.saleOut = outs
      /\ u \in Tables
  <2>1. t.onHand[v] - q \in Nat
    BY <1>1, TableTypes DEF Available
  <2>2. [b \in Batches |-> t.saleOut[s][b] + units[b]] \in [Batches -> Nat]
    BY <1>1, <1>3, TableTypes
  <2>3. on \in [Variants -> Nat] /\ outs \in [Orders -> [Batches -> Nat]]
    BY <1>1, <2>1, <2>2, TableTypes
  <2> HIDE DEF on, outs, u
  <2> QED
    BY <1>1, <1>5, <2>3 DEF Tables
<1> HIDE DEF u
<1>7. \A b \in Batches :
        /\ u.saleOut[s][b] = t.saleOut[s][b] + units[b]
        /\ \A o \in Orders \ {s} : u.saleOut[o][b] = t.saleOut[o][b]
  BY <1>1, <1>6, TableTypes
<1>8. Sound(u)
  <2>1. \A w \in Variants : u.reserved[w] = Held(u, w)
    <3>1. \A w \in Variants, r \in Reservations : Share(u, r, w) = Share(t, r, w)
      BY <1>6 DEF Share
    <3> QED
      BY <1>1, <1>6, <3>1, HeldSame DEF Sound
  <2>2. ASSUME NEW b \in Batches PROVE Deducted(u, b) <= u.batch[b].received
    <3>1. Deducted(u, b) = Deducted(t, b) + u.saleOut[s][b] - t.saleOut[s][b]
      <4>1. \A o \in Orders : o # s => u.saleOut[o][b] = t.saleOut[o][b]
        BY <1>7
      <4>2. t \in Tables /\ u \in Tables /\ s \in Orders
        BY <1>1, <1>6
      <4> QED
        BY <4>1, <4>2, DeductedChanges
    <3>2. /\ units[b] \in Nat /\ units[b] <= f[b] /\ t.saleOut[s][b] \in Nat
          /\ f[b] \in Nat /\ t.batch[b].received \in Nat
          /\ u.saleOut[s][b] = t.saleOut[s][b] + units[b]
      BY <1>1, <1>2, <1>3, <1>7, TableTypes
    <3> QED
      BY <1>1, <1>2, <1>6, <3>1, <3>2
  <2> QED
    BY <1>6, <2>1, <2>2 DEF Sound
<1>9. \A b \in Batches : units[b] > 0 => t.batch[b].variant = v /\ d.batch[b].variant = v
  BY <1>2, <1>3 DEF Sees, ReceiptsSeen
<1>10. SalesSeen(s, d, u, mine, old, "sale")
  <2>1. \A b \in Batches : InventoryRow(d.batch[b].variant) \notin mine => units[b] = 0
    BY <1>3, <1>9
  <2>2. \A b \in Batches : t.saleOut[s][b] \in Nat
    BY <1>1, TableTypes
  <2> QED
    BY <1>7, <2>1, <2>2 DEF Sees, SalesSeen
<1>11. ReservationsSeen(d, u, mine, old, "sale")
  BY <1>6 DEF Sees, ReservationsSeen, Share
<1>12. InventorySeen(s, d, u, mine, old, "sale")
  <2> SUFFICES ASSUME NEW w \in Variants, InventoryRow(w) \notin old
               PROVE  /\ InventoryRow(w) \notin mine =>
                           u.onHand[w] = d.onHand[w] /\ u.reserved[w] = d.reserved[w]
                      /\ u.reserved[w] = d.reserved[w]
                      /\ u.onHand[w] + UnitsOf(u, u.saleOut[s], w) = d.onHand[w]
                      /\ u.onHand[w] < d.onHand[w] => u.reserved[w] <= u.onHand[w]
    BY DEF InventorySeen
  <2>1. /\ InventoryRow(w) \notin mine =>
             t.onHand[w] = d.onHand[w] /\ t.reserved[w] = d.reserved[w]
        /\ t.reserved[w] = d.reserved[w]
        /\ t.onHand[w] + UnitsOf(t, t.saleOut[s], w) = d.onHand[w]
        /\ t.onHand[w] < d.onHand[w] => t.reserved[w] <= t.onHand[w]
    BY DEF Sees, InventorySeen
  <2>2. u.reserved[w] = t.reserved[w]
    BY <1>6
  <2>3. CASE w # v
    <3>1. u.onHand[w] = t.onHand[w]
      BY <1>1, <1>6, <2>3, TableTypes
    <3>2. \A b \in Batches :
            /\ t.saleOut[s][b] \in Nat
            /\ (IF u.batch[b].variant = w THEN u.saleOut[s][b] ELSE 0)
                 = (IF t.batch[b].variant = w THEN t.saleOut[s][b] ELSE 0)
      BY <1>1, <1>3, <1>6, <1>7, <1>9, <2>3, TableTypes
    <3>3. UnitsOf(u, u.saleOut[s], w) = UnitsOf(t, t.saleOut[s], w)
      BY <3>2, UnitsSame
    <3> QED
      BY <2>1, <2>2, <3>1, <3>3
  <2>4. CASE w = v
    <3> DEFINE x == [b \in Batches |-> IF t.batch[b].variant = v THEN t.saleOut[s][b] ELSE 0]
               y == [b \in Batches |-> IF u.batch[b].variant = v THEN u.saleOut[s][b] ELSE 0]
    <3>1. \A i \in 1..NBatches : x[i] \in Int /\ units[i] \in Int /\ y[i] = x[i] + units[i]
      <4>1. \A b \in Batches : units[b] \in Nat /\ (t.batch[b].variant # v => units[b] = 0)
        BY <1>3, <1>9
      <4> QED
        BY SMTT(20), <1>1, <1>6, <1>7, <4>1, TableTypes DEF Batches
    <3>2. \A i \in 1..NBatches : x[i] \in Nat
      BY <1>1, TableTypes DEF Batches
    <3> HIDE DEF x, y
    <3>3. SumTo(y, NBatches) = SumTo(x, NBatches) + SumTo(units, NBatches)
      BY <3>1, NumbersOfRows, SumToAdd
    <3>4. SumTo(x, NBatches) \in Nat
      BY <3>2, NumbersOfRows, SumToType
    <3>5. /\ UnitsOf(u, u.saleOut[s], v) = UnitsOf(t, t.saleOut[s], v) + q
          /\ UnitsOf(t, t.saleOut[s], v) \in Nat
      BY <1>4, <3>3, <3>4 DEF x, y, UnitsOf
    <3>6. /\ u.onHand[v] = t.onHand[v] - q
          /\ t.onHand[v] \in Nat /\ t.reserved[v] \in Nat /\ d.onHand[v] \in Nat
      BY <1>1, <1>6, TableTypes
    <3>7. t.reserved[v] <= u.onHand[v]
      BY <3>6 DEF Available
    <3> QED
      BY <2>1, <2>2, <2>4, <3>5, <3>6, <3>7
  <2> QED BY <2>3, <2>4
<1>13. ReceiptsSeen(d, u) /\ HeldCurrent(mine, old, "sale")
  BY <1>6 DEF Sees, ReceiptsSeen
<1>14. Sound(u) /\ Sees(s, d, u, mine, old, "sale")
  BY <1>8, <1>10, <1>11, <1>12, <1>13 DEF Sees
<1> QED
  BY <1>14 DEF f, units, u

\* The tables a line of a reservation request leaves.
ReservedTables(t, v, q, r) ==
  [t EXCEPT !.reserved[v] = @ + q,
            !.resv[r] = [state |-> "active", variant |-> v, quantity |-> q]]

LEMMA ReserveKeepsView ==
  ASSUME NEW s \in Sessions, NEW d, NEW t, NEW mine, NEW old,
         Sound(d), Sound(t), Sees(s, d, t, mine, old, "reserve"),
         NEW v \in Variants, InventoryRow(v) \in mine,
         NEW r \in Reservations, ReservationRow(r) \in mine, t.resv[r].state = "unused",
         NEW q \in Nat, q <= Available(t, v)
  PROVE  /\ Sound(ReservedTables(t, v, q, r))
         /\ Sees(s, d, ReservedTables(t, v, q, r), mine, old, "reserve")
<1> DEFINE row  == [state |-> "active", variant |-> v, quantity |-> q]
           kept == [t.reserved EXCEPT ![v] = @ + q]
           rows == [t.resv EXCEPT ![r] = row]
           u    == ReservedTables(t, v, q, r)
<1>1. t \in Tables /\ d \in Tables
  BY DEF Sound
<1>2. u = [t EXCEPT !.reserved = kept, !.resv = rows]
  BY <1>1 DEF ReservedTables, Tables
<1>3. /\ kept \in [Variants -> Nat]
      /\ rows \in [Reservations -> [state : {"unused", "active", "released"},
                                    variant : Variants, quantity : Nat]]
      /\ kept[v] = t.reserved[v] + q /\ \A w \in Variants \ {v} : kept[w] = t.reserved[w]
      /\ rows[r] = row /\ \A k \in Reservations \ {r} : rows[k] = t.resv[k]
  BY <1>1, TableTypes
<1> HIDE DEF kept, rows, u
<1>4. /\ u.batch = t.batch /\ u.onHand = t.onHand /\ u.saleOut = t.saleOut
      /\ u.reserved = kept /\ u.resv = rows
      /\ u \in Tables
  BY <1>1, <1>2, <1>3 DEF Tables
<1>5. /\ \A k \in Reservations, w \in Variants :
           k # r \/ w # v => Share(u, k, w) = Share(t, k, w)
      /\ Share(u, r, v) = q /\ Share(t, r, v) = 0
  BY <1>3, <1>4 DEF Share
<1>6. Sound(u)
  <2>1. ASSUME NEW w \in Variants PROVE u.reserved[w] = Held(u, w)
    <3>1. t.reserved[w] = Held(t, w) /\ t.reserved[w] \in Nat
      BY <1>1, TableTypes DEF Sound
    <3>2. CASE w # v
      <4>1. Held(u, w) = Held(t, w)
        BY <1>1, <1>5, <3>2, HeldSame
      <4> QED
        BY <1>3, <1>4, <3>1, <3>2, <4>1
    <3>3. CASE w = v
      <4>1. Held(u, v) = Held(t, v) + Share(u, r, v) - Share(t, r, v)
        BY <1>1, <1>4, <1>5, HeldChanges
      <4> QED
        BY <1>3, <1>4, <1>5, <3>1, <3>3, <4>1
    <3> QED BY <3>2, <3>3
  <2>2. \A b \in Batches : Deducted(u, b) = Deducted(t, b)
    BY <1>1, <1>4, DeductedSame
  <2> QED
    BY <1>4, <2>1, <2>2 DEF Sound
<1>7. SalesSeen(s, d, u, mine, old, "reserve")
  BY <1>4 DEF Sees, SalesSeen
<1>8. ReservationsSeen(d, u, mine, old, "reserve")
  BY <1>3, <1>4, <1>5 DEF Sees, ReservationsSeen
<1>9. InventorySeen(s, d, u, mine, old, "reserve")
  <2>1. ASSUME NEW w \in Variants, InventoryRow(w) \notin old
        PROVE  /\ InventoryRow(w) \notin mine => u.reserved[w] = d.reserved[w]
               /\ u.onHand[w] = d.onHand[w]
               /\ d.reserved[w] <= u.reserved[w]
               /\ d.reserved[w] < u.reserved[w] => u.reserved[w] <= u.onHand[w]
    <3>1. /\ InventoryRow(w) \notin mine => t.reserved[w] = d.reserved[w]
          /\ t.onHand[w] = d.onHand[w]
          /\ d.reserved[w] <= t.reserved[w]
          /\ d.reserved[w] < t.reserved[w] => t.reserved[w] <= t.onHand[w]
      BY <2>1 DEF Sees, InventorySeen
    <3>2. t.reserved[w] \in Nat /\ d.reserved[w] \in Nat /\ t.onHand[w] \in Nat
      BY <1>1, TableTypes
    <3> QED
      BY <1>3, <1>4, <3>1, <3>2 DEF Available
  <2> QED
    BY <2>1 DEF InventorySeen
<1>10. ReceiptsSeen(d, u) /\ HeldCurrent(mine, old, "reserve")
  BY <1>4 DEF Sees, ReceiptsSeen
<1>11. Sound(u) /\ Sees(s, d, u, mine, old, "reserve")
  BY <1>6, <1>7, <1>8, <1>9, <1>10 DEF Sees
<1> QED
  BY <1>11 DEF u

\* The tables a line of a release leaves.
ReleasedTables(t, r, v) ==
  [t EXCEPT !.resv[r].state = "released", !.reserved[v] = @ - t.resv[r].quantity]

LEMMA ReleaseKeepsView ==
  ASSUME NEW s \in Sessions, NEW d, NEW t, NEW mine, NEW old,
         Sound(d), Sound(t), Sees(s, d, t, mine, old, "release"),
         NEW r \in Reservations, ReservationRow(r) \in mine, t.resv[r].state = "active",
         NEW v \in Variants, v = t.resv[r].variant, InventoryRow(v) \in mine
  PROVE  /\ Sound(ReleasedTables(t, r, v))
         /\ Sees(s, d, ReleasedTables(t, r, v), mine, old, "release")
<1> DEFINE q    == t.resv[r].quantity
           row  == [t.resv[r] EXCEPT !.state = "released"]
           kept == [t.reserved EXCEPT ![v] = @ - q]
           rows == [t.resv EXCEPT ![r] = row]
           u    == ReleasedTables(t, r, v)
<1>1. t \in Tables /\ d \in Tables
  BY DEF Sound
<1>2. u = [t EXCEPT !.reserved = kept, !.resv = rows]
  BY <1>1 DEF ReleasedTables, Tables
<1>3. q \in Nat /\ t.reserved[v] \in Nat /\ q <= t.reserved[v]
  <2>1. Share(t, r, v) <= Held(t, v) /\ Share(t, r, v) = q
    BY <1>1, HeldChanges DEF Share
  <2> QED
    BY <1>1, <2>1, TableTypes DEF Sound
<1>4. row.state = "released" /\ row \in [state : {"unused", "active", "released"},
                                         variant : Variants, quantity : Nat]
  <2>1. t.resv[r] \in [state : {"unused", "active", "released"},
                       variant : Variants, quantity : Nat]
    BY <1>1, TableTypes
  <2> QED BY <2>1
<1> HIDE DEF row
<1>5. /\ kept \in [Variants -> Nat]
      /\ rows \in [Reservations -> [state : {"unused", "active", "released"},
                                    variant : Variants, quantity : Nat]]
      /\ kept[v] = t.reserved[v] - q /\ \A w \in Variants \ {v} : kept[w] = t.reserved[w]
      /\ rows[r] = row /\ \A k \in Reservations \ {r} : rows[k] = t.resv[k]
  BY <1>1, <1>3, <1>4, TableTypes
<1> HIDE DEF kept, rows, u
<1>6. /\ u.batch = t.batch /\ u.onHand = t.onHand /\ u.saleOut = t.saleOut
      /\ u.reserved = kept /\ u.resv = rows
      /\ u \in Tables
  BY <1>1, <1>2, <1>5 DEF Tables
<1>7. /\ \A k \in Reservations, w \in Variants :
           k # r \/ w # v => Share(u, k, w) = Share(t, k, w)
      /\ Share(u, r, v) = 0 /\ Share(t, r, v) = q
  BY <1>4, <1>5, <1>6 DEF Share
<1>8. Sound(u)
  <2>1. ASSUME NEW w \in Variants PROVE u.reserved[w] = Held(u, w)
    <3>1. t.reserved[w] = Held(t, w) /\ t.reserved[w] \in Nat
      BY <1>1, TableTypes DEF Sound
    <3>2. CASE w # v
      <4>1. Held(u, w) = Held(t, w)
        BY <1>1, <1>7, <3>2, HeldSame
      <4> QED
        BY <1>5, <1>6, <3>1, <3>2, <4>1
    <3>3. CASE w = v
      <4>1. Held(u, v) = Held(t, v) + Share(u, r, v) - Share(t, r, v)
        BY <1>1, <1>6, <1>7, HeldChanges
      <4> QED
        BY <1>3, <1>5, <1>6, <1>7, <3>1, <3>3, <4>1
    <3> QED BY <3>2, <3>3
  <2>2. \A b \in Batches : Deducted(u, b) = Deducted(t, b)
    BY <1>1, <1>6, DeductedSame
  <2> QED
    BY <1>6, <2>1, <2>2 DEF Sound
<1>9. SalesSeen(s, d, u, mine, old, "release")
  BY <1>6 DEF Sees, SalesSeen
<1>10. ReservationsSeen(d, u, mine, old, "release")
  BY <1>5, <1>6, <1>7 DEF Sees, ReservationsSeen
<1>11. InventorySeen(s, d, u, mine, old, "release")
  <2>1. ASSUME NEW w \in Variants, InventoryRow(w) \notin old
        PROVE  /\ InventoryRow(w) \notin mine => u.reserved[w] = d.reserved[w]
               /\ u.onHand[w] = d.onHand[w]
               /\ u.reserved[w] <= d.reserved[w]
    <3>1. /\ InventoryRow(w) \notin mine => t.reserved[w] = d.reserved[w]
          /\ t.onHand[w] = d.onHand[w]
          /\ t.reserved[w] <= d.reserved[w]
      BY <2>1 DEF Sees, InventorySeen
    <3>2. t.reserved[w] \in Nat /\ d.reserved[w] \in Nat
      BY <1>1, TableTypes
    <3> QED
      BY <1>3, <1>5, <1>6, <3>1, <3>2
  <2> QED
    BY <2>1 DEF InventorySeen
<1>12. ReceiptsSeen(d, u) /\ HeldCurrent(mine, old, "release")
  BY <1>6 DEF Sees, ReceiptsSeen
<1>13. Sound(u) /\ Sees(s, d, u, mine, old, "release")
  BY <1>8, <1>9, <1>10, <1>11, <1>12 DEF Sees
<1> QED
  BY <1>13 DEF u

\* A write of the catalogue or of an adjustment.
LEMMA WriteKeepsView ==
  ASSUME NEW s \in Sessions, NEW d, NEW t, NEW mine, NEW old,
         NEW kind \in {"write", "adjust"},
         Sound(d), Sound(t), Sees(s, d, t, mine, old, kind),
         NEW v \in Variants, InventoryRow(v) \in mine, NEW q \in Nat
  PROVE  /\ Sound([t EXCEPT !.onHand[v] = q])
         /\ Sees(s, d, [t EXCEPT !.onHand[v] = q], mine, old, kind)
<1> DEFINE on == [t.onHand EXCEPT ![v] = q]
           u  == [t EXCEPT !.onHand[v] = q]
<1>1. t \in Tables /\ d \in Tables
  BY DEF Sound
<1>2. u = [t EXCEPT !.onHand = on]
  BY <1>1 DEF Tables
<1>3. on \in [Variants -> Nat] /\ \A w \in Variants \ {v} : on[w] = t.onHand[w]
  BY <1>1, TableTypes
<1> HIDE DEF on, u
<1>4. /\ u.batch = t.batch /\ u.onHand = on /\ u.saleOut = t.saleOut
      /\ u.reserved = t.reserved /\ u.resv = t.resv
      /\ u \in Tables
  BY <1>1, <1>2, <1>3 DEF Tables
<1>5. \A k \in Reservations, w \in Variants : Share(u, k, w) = Share(t, k, w)
  BY <1>4 DEF Share
<1>6. Sound(u)
  <2>1. \A w \in Variants : Held(u, w) = Held(t, w)
    BY <1>1, <1>5, HeldSame
  <2>2. \A b \in Batches : Deducted(u, b) = Deducted(t, b)
    BY <1>1, <1>4, DeductedSame
  <2> QED
    BY <1>4, <2>1, <2>2 DEF Sound
<1>7. SalesSeen(s, d, u, mine, old, kind)
  BY <1>4 DEF Sees, SalesSeen
<1>8. ReservationsSeen(d, u, mine, old, kind)
  BY <1>4, <1>5 DEF Sees, ReservationsSeen
<1>9. InventorySeen(s, d, u, mine, old, kind)
  BY <1>3, <1>4 DEF Sees, InventorySeen
<1>10. ReceiptsSeen(d, u) /\ HeldCurrent(mine, old, kind)
  BY <1>4 DEF Sees, ReceiptsSeen
<1>11. Sound(u) /\ Sees(s, d, u, mine, old, kind)
  BY <1>6, <1>7, <1>8, <1>9, <1>10 DEF Sees
<1> QED
  BY <1>11 DEF u

\* A session that begins sees what is committed.
LEMMA SnapshotSees ==
  ASSUME NEW s \in Sessions, NEW d, Sound(d), d.saleOut[s] = NoUnits,
         NEW mine, NEW kind,
         \A v \in Variants : InventoryRow(v) \notin mine,
         kind # "reserve" => mine = {}
  PROVE  Sees(s, d, d, mine, {}, kind)
<1>1. d \in Tables /\ d \in Tables
  BY DEF Sound
<1>2. SalesSeen(s, d, d, mine, {}, kind)
  BY DEF SalesSeen
<1>3. ReservationsSeen(d, d, mine, {}, kind)
  BY DEF ReservationsSeen
<1>4. InventorySeen(s, d, d, mine, {}, kind)
  <2>1. ASSUME NEW v \in Variants
        PROVE  d.onHand[v] + UnitsOf(d, d.saleOut[s], v) = d.onHand[v]
    <3>1. UnitsOf(d, d.saleOut[s], v) = 0
      BY UnitsNone DEF NoUnits
    <3> QED
      BY <1>1, <3>1, TableTypes
  <2>2. \A v \in Variants : d.reserved[v] \in Nat /\ d.onHand[v] \in Nat
    BY <1>1, TableTypes
  <2> QED
    BY <2>1, <2>2 DEF InventorySeen
<1> QED
  BY <1>2, <1>3, <1>4 DEF Sees, ReceiptsSeen, HeldCurrent

\* A row that a session locks is as it has seen it.
LEMMA LockKeepsView ==
  ASSUME NEW s \in Sessions, NEW d, NEW t, NEW mine, NEW old, NEW kind,
         Sees(s, d, t, mine, old, kind), NEW row \in Rows,
         kind = "write" \/ row \notin old,
         \A r \in Reservations : row = ReservationRow(r) => kind = "release"
  PROVE  Sees(s, d, t, mine \cup {row}, old, kind)
<1>1. SalesSeen(s, d, t, mine \cup {row}, old, kind)
  BY DEF Sees, SalesSeen
<1>2. ReservationsSeen(d, t, mine \cup {row}, old, kind)
  <2>1. \A r \in Reservations :
          ReservationRow(r) \notin (mine \cup {row}) \cup old => t.resv[r] = d.resv[r]
    BY DEF Sees, ReservationsSeen
  <2>2. ASSUME NEW r \in Reservations, NEW v \in Variants
        PROVE  /\ ReservationRow(r) \in mine \cup {row} /\ InventoryRow(v) \notin mine \cup {row}
                  => Share(t, r, v) = Share(d, r, v)
               /\ ReservationRow(r) \notin mine \cup {row} /\ InventoryRow(v) \notin old
                  => Share(t, r, v) = Share(d, r, v)
    <3>1. ASSUME ReservationRow(r) = row, row \notin mine PROVE t.resv[r] = d.resv[r]
      BY <3>1 DEF Sees, ReservationsSeen
    <3> QED
      BY <3>1 DEF Sees, ReservationsSeen, Share
  <2>3. kind \notin {"reserve", "release"} =>
          \A r \in Reservations : ReservationRow(r) \notin mine \cup {row}
    BY DEF Sees, ReservationsSeen
  <2> QED
    BY <2>1, <2>2, <2>3 DEF ReservationsSeen
<1>3. InventorySeen(s, d, t, mine \cup {row}, old, kind)
  BY DEF Sees, InventorySeen
<1>4. HeldCurrent(mine \cup {row}, old, kind)
  BY DEF Sees, HeldCurrent
<1> QED
  BY <1>1, <1>2, <1>3, <1>4 DEF Sees

-----------------------------------------------------------------------------
(* What a commit does to the committed tables and to the others' view      *)

\* The committed tables after the commit of session s.
Published(s, d, t, mine, kind) ==
  [d EXCEPT !.onHand   = [v \in Variants |->
                            IF <<"inventory", v>> \in mine THEN t.onHand[v] ELSE @[v]],
            !.reserved = [v \in Variants |->
                            IF <<"inventory", v>> \in mine /\ kind # "write"
                            THEN t.reserved[v] ELSE @[v]],
            !.resv     = [r \in Reservations |->
                            IF <<"reservation", r>> \in mine THEN t.resv[r] ELSE @[r]],
            !.saleOut[s] = t.saleOut[s]]

LEMMA PublishedTables ==
  ASSUME NEW s \in Sessions, NEW d \in Tables, NEW t \in Tables, NEW mine, NEW kind
  PROVE  LET u == Published(s, d, t, mine, kind)
         IN  /\ u \in Tables
             /\ u.batch = d.batch
             /\ u.saleOut[s] = t.saleOut[s]
             /\ \A o \in Orders \ {s} : u.saleOut[o] = d.saleOut[o]
             /\ \A v \in Variants :
                  /\ u.onHand[v] = IF InventoryRow(v) \in mine THEN t.onHand[v] ELSE d.onHand[v]
                  /\ u.reserved[v] = IF InventoryRow(v) \in mine /\ kind # "write"
                                     THEN t.reserved[v] ELSE d.reserved[v]
             /\ \A r \in Reservations :
                  u.resv[r] = IF ReservationRow(r) \in mine THEN t.resv[r] ELSE d.resv[r]
<1> DEFINE on   == [v \in Variants |->
                      IF InventoryRow(v) \in mine THEN t.onHand[v] ELSE d.onHand[v]]
           kept == [v \in Variants |-> IF InventoryRow(v) \in mine /\ kind # "write"
                                       THEN t.reserved[v] ELSE d.reserved[v]]
           rows == [r \in Reservations |->
                      IF ReservationRow(r) \in mine THEN t.resv[r] ELSE d.resv[r]]
           outs == [d.saleOut EXCEPT ![s] = t.saleOut[s]]
           u    == Published(s, d, t, mine, kind)
<1>1. u = [d EXCEPT !.onHand = on, !.reserved = kept, !.resv = rows, !.saleOut = outs]
  BY DEF Published, Tables, InventoryRow, ReservationRow
<1>2. /\ on \in [Variants -> Nat] /\ kept \in [Variants -> Nat]
      /\ rows \in [Reservations -> [state : {"unused", "active", "released"},
                                    variant : Variants, quantity : Nat]]
      /\ outs \in [Orders -> [Batches -> Nat]]
      /\ outs[s] = t.saleOut[s] /\ \A o \in Orders \ {s} : outs[o] = d.saleOut[o]
  BY TableTypes DEF Orders
<1> HIDE DEF outs, u
<1>3. /\ u.batch = d.batch /\ u.onHand = on /\ u.reserved = kept
      /\ u.resv = rows /\ u.saleOut = outs /\ u \in Tables
  <2> HIDE DEF on, kept, rows
  <2> QED
    BY <1>1, <1>2 DEF Tables
<1>4. /\ u \in Tables
      /\ u.batch = d.batch
      /\ u.saleOut[s] = t.saleOut[s]
      /\ \A o \in Orders \ {s} : u.saleOut[o] = d.saleOut[o]
      /\ \A v \in Variants :
           /\ u.onHand[v] = IF InventoryRow(v) \in mine THEN t.onHand[v] ELSE d.onHand[v]
           /\ u.reserved[v] = IF InventoryRow(v) \in mine /\ kind # "write"
                              THEN t.reserved[v] ELSE d.reserved[v]
      /\ \A r \in Reservations :
           u.resv[r] = IF ReservationRow(r) \in mine THEN t.resv[r] ELSE d.resv[r]
  BY <1>2, <1>3
<1> QED
  BY <1>4 DEF u

\* What is published is sound: the shares of the variants a session holds are
\* as it has seen them, and so is what was taken from their batch items.
LEMMA PublishIsSound ==
  ASSUME NEW s \in Sessions, NEW d, NEW t, NEW mine, NEW old, NEW kind,
         Sound(d), Sound(t), Sees(s, d, t, mine, old, kind)
  PROVE  Sound(Published(s, d, t, mine, kind))
<1> DEFINE u == Published(s, d, t, mine, kind)
<1>1. t \in Tables /\ d \in Tables /\ s \in Orders
  BY DEF Sound, Orders
<1>2. /\ u \in Tables
      /\ u.batch = d.batch
      /\ u.saleOut[s] = t.saleOut[s]
      /\ \A o \in Orders \ {s} : u.saleOut[o] = d.saleOut[o]
      /\ \A v \in Variants :
           /\ u.onHand[v] = IF InventoryRow(v) \in mine THEN t.onHand[v] ELSE d.onHand[v]
           /\ u.reserved[v] = IF InventoryRow(v) \in mine /\ kind # "write"
                              THEN t.reserved[v] ELSE d.reserved[v]
      /\ \A r \in Reservations :
           u.resv[r] = IF ReservationRow(r) \in mine THEN t.resv[r] ELSE d.resv[r]
  BY <1>1, PublishedTables
<1> HIDE DEF u
<1>3. ASSUME NEW v \in Variants PROVE u.reserved[v] = Held(u, v)
  <2>1. CASE InventoryRow(v) \in mine /\ kind # "write"
    <3>1. InventoryRow(v) \notin old
      BY <2>1 DEF Sees, HeldCurrent
    <3>2. \A r \in Reservations : Share(u, r, v) = Share(t, r, v)
      BY <1>2, <3>1 DEF Sees, ReservationsSeen, Share
    <3>3. Held(u, v) = Held(t, v)
      BY <1>1, <3>2, HeldSame
    <3> QED
      BY <1>2, <2>1, <3>3 DEF Sound
  <2>2. CASE ~(InventoryRow(v) \in mine /\ kind # "write")
    <3>1. \A r \in Reservations : Share(u, r, v) = Share(d, r, v)
      BY <1>2, <2>2 DEF Sees, ReservationsSeen, Share
    <3>2. Held(u, v) = Held(d, v)
      BY <1>1, <3>1, HeldSame
    <3> QED
      BY <1>2, <2>2, <3>2 DEF Sound
  <2> QED BY <2>1, <2>2
<1>4. ASSUME NEW b \in Batches PROVE Deducted(u, b) <= u.batch[b].received
  <2> DEFINE v == d.batch[b].variant
  <2>1. v \in Variants /\ d.batch[b].received \in Nat /\ t.batch[b].received \in Nat
    BY <1>1, TableTypes
  <2>2. CASE InventoryRow(v) \in mine /\ kind # "write"
    <3>1. InventoryRow(v) \notin old
      BY <2>2 DEF Sees, HeldCurrent
    <3>2. \A o \in Orders : u.saleOut[o][b] = t.saleOut[o][b]
      BY <1>2, <3>1 DEF Sees, SalesSeen
    <3>3. Deducted(u, b) = Deducted(t, b)
      BY <1>1, <3>2, DeductedSame
    <3>4. Deducted(t, b) <= t.batch[b].received /\ Deducted(t, b) \in Nat
      BY <1>1, DeductedType DEF Sound
    <3>5. t.batch[b].received <= d.batch[b].received
      <4>1. t.batch[b].received > 0 => t.batch[b] = d.batch[b]
        BY DEF Sees, ReceiptsSeen
      <4> QED BY <2>1, <4>1
    <3> QED
      BY <1>2, <2>1, <3>3, <3>4, <3>5
  <2>3. CASE ~(InventoryRow(v) \in mine /\ kind # "write")
    <3>1. u.saleOut[s][b] = d.saleOut[s][b]
      BY <1>2, <2>3 DEF Sees, SalesSeen
    <3>2. \A o \in Orders : u.saleOut[o][b] = d.saleOut[o][b]
      BY <1>2, <3>1
    <3>3. Deducted(u, b) = Deducted(d, b)
      BY <1>1, <3>2, DeductedSame
    <3> QED
      BY <1>2, <3>3 DEF Sound
  <2> QED BY <2>2, <2>3
<1>5. Sound(u)
  BY <1>2, <1>3, <1>4 DEF Sound
<1> QED
  BY <1>5 DEF u

\* Another session sees the tables as they were, and knows which rows are not.
LEMMA PublishKeepsView ==
  ASSUME NEW s \in Sessions, NEW d, NEW t, NEW mine, NEW old, NEW kind,
         Sound(d), Sound(t), Sees(s, d, t, mine, old, kind),
         NEW p \in Sessions \ {s}, NEW tp, NEW minep, NEW oldp, NEW kindp,
         Sees(p, d, tp, minep, oldp, kindp), mine \cap minep = {}
  PROVE  Sees(p, Published(s, d, t, mine, kind), tp, minep, oldp \cup mine, kindp)
<1> DEFINE u == Published(s, d, t, mine, kind)
           oldu == oldp \cup mine
<1>1. t \in Tables /\ d \in Tables /\ s \in Orders /\ p \in Orders \ {s}
  BY DEF Sound, Orders
<1>2. /\ u.batch = d.batch
      /\ u.saleOut[s] = t.saleOut[s]
      /\ \A o \in Orders \ {s} : u.saleOut[o] = d.saleOut[o]
      /\ \A v \in Variants :
           /\ u.onHand[v] = IF InventoryRow(v) \in mine THEN t.onHand[v] ELSE d.onHand[v]
           /\ u.reserved[v] = IF InventoryRow(v) \in mine /\ kind # "write"
                              THEN t.reserved[v] ELSE d.reserved[v]
      /\ \A r \in Reservations :
           u.resv[r] = IF ReservationRow(r) \in mine THEN t.resv[r] ELSE d.resv[r]
  BY <1>1, PublishedTables
<1> HIDE DEF u
<1>3. \A r \in Reservations, v \in Variants :
        InventoryRow(v) \notin mine => Share(u, r, v) = Share(d, r, v)
  BY <1>2 DEF Sees, ReservationsSeen, Share
<1>4. \A b \in Batches, o \in Orders :
        InventoryRow(d.batch[b].variant) \notin mine => u.saleOut[o][b] = d.saleOut[o][b]
  BY <1>2 DEF Sees, SalesSeen
<1>5. SalesSeen(p, u, tp, minep, oldu, kindp)
  BY <1>1, <1>2, <1>4 DEF Sees, SalesSeen
<1>6. ReservationsSeen(u, tp, minep, oldu, kindp)
  <2>1. \A r \in Reservations :
          ReservationRow(r) \notin minep \cup oldu => tp.resv[r] = u.resv[r]
    BY <1>2 DEF Sees, ReservationsSeen
  <2>2. ASSUME NEW r \in Reservations, NEW v \in Variants,
               ReservationRow(r) \in minep, InventoryRow(v) \notin minep
        PROVE  Share(tp, r, v) = Share(u, r, v)
    <3>1. u.resv[r] = d.resv[r]
      BY <1>2, <2>2
    <3> QED
      BY <2>2, <3>1 DEF Sees, ReservationsSeen, Share
  <2>3. ASSUME NEW r \in Reservations, NEW v \in Variants,
               ReservationRow(r) \notin minep, InventoryRow(v) \notin oldu
        PROVE  Share(tp, r, v) = Share(u, r, v)
    BY <1>3, <2>3 DEF Sees, ReservationsSeen
  <2> QED
    BY <2>1, <2>2, <2>3 DEF Sees, ReservationsSeen
<1>7. InventorySeen(p, u, tp, minep, oldu, kindp)
  <2>1. \A v \in Variants : InventoryRow(v) \notin oldu =>
          /\ InventoryRow(v) \notin oldp
          /\ u.onHand[v] = d.onHand[v] /\ u.reserved[v] = d.reserved[v]
    BY <1>2
  <2> QED
    BY <2>1 DEF Sees, InventorySeen
<1>8. ReceiptsSeen(u, tp) /\ HeldCurrent(minep, oldu, kindp)
  BY <1>2 DEF Sees, ReceiptsSeen, HeldCurrent
<1>9. Sees(p, u, tp, minep, oldu, kindp)
  BY <1>5, <1>6, <1>7, <1>8 DEF Sees
<1> QED
  BY <1>9 DEF u

\* The committed tables after a receipt.
Received(d, b, v, q) == [d EXCEPT !.batch[b] = [variant |-> v, received |-> q]]

LEMMA ReceivedTables ==
  ASSUME NEW d \in Tables, NEW b \in Batches, NEW v \in Variants, NEW q \in Nat
  PROVE  LET u == Received(d, b, v, q)
         IN  /\ u \in Tables
             /\ u.onHand = d.onHand /\ u.reserved = d.reserved
             /\ u.saleOut = d.saleOut /\ u.resv = d.resv
             /\ u.batch[b] = [variant |-> v, received |-> q]
             /\ \A c \in Batches \ {b} : u.batch[c] = d.batch[c]
<1> DEFINE items == [d.batch EXCEPT ![b] = [variant |-> v, received |-> q]]
           u == Received(d, b, v, q)
<1>1. u = [d EXCEPT !.batch = items]
  BY DEF Received, Tables
<1>2. /\ items \in [Batches -> [variant : Variants, received : Nat]]
      /\ items[b] = [variant |-> v, received |-> q]
      /\ \A c \in Batches \ {b} : items[c] = d.batch[c]
  BY TableTypes
<1> HIDE DEF items, u
<1>3. /\ u \in Tables
      /\ u.onHand = d.onHand /\ u.reserved = d.reserved
      /\ u.saleOut = d.saleOut /\ u.resv = d.resv /\ u.batch = items
  BY <1>1, <1>2 DEF Tables
<1>4. /\ u \in Tables
      /\ u.onHand = d.onHand /\ u.reserved = d.reserved
      /\ u.saleOut = d.saleOut /\ u.resv = d.resv
      /\ u.batch[b] = [variant |-> v, received |-> q]
      /\ \A c \in Batches \ {b} : u.batch[c] = d.batch[c]
  BY <1>2, <1>3
<1> QED
  BY <1>4 DEF u

\* A receipt leaves the tables sound, and a session sees what it saw: from a
\* batch item without goods neither has anything been taken.
LEMMA ReceiptKeepsView ==
  ASSUME NEW d, Sound(d), NEW b \in Batches, d.batch[b].received = 0,
         NEW v \in Variants, NEW q \in Nat
  PROVE  /\ Sound(Received(d, b, v, q))
         /\ \A s \in Sessions : \A t, mine, old, kind :
              Sound(t) /\ Sees(s, d, t, mine, old, kind)
              => Sees(s, Received(d, b, v, q), t, mine, old, kind)
<1> DEFINE u == Received(d, b, v, q)
<1>1. d \in Tables
  BY DEF Sound
<1>2. /\ u \in Tables
      /\ u.onHand = d.onHand /\ u.reserved = d.reserved
      /\ u.saleOut = d.saleOut /\ u.resv = d.resv
      /\ u.batch[b] = [variant |-> v, received |-> q]
      /\ \A c \in Batches \ {b} : u.batch[c] = d.batch[c]
  BY <1>1, ReceivedTables
<1> HIDE DEF u
<1>3. Sound(u)
  <2>1. \A r \in Reservations, w \in Variants : Share(u, r, w) = Share(d, r, w)
    BY <1>2 DEF Share
  <2>2. \A w \in Variants : Held(u, w) = Held(d, w)
    BY <1>1, <2>1, HeldSame
  <2>3. \A c \in Batches : Deducted(u, c) = Deducted(d, c) /\ Deducted(d, c) \in Nat
    BY <1>1, <1>2, DeductedSame, DeductedType
  <2>4. \A c \in Batches : Deducted(u, c) <= u.batch[c].received
    <3>1. Deducted(d, b) <= 0 /\ \A c \in Batches : Deducted(d, c) <= d.batch[c].received
      BY DEF Sound
    <3>2. u.batch[b].received = q
      BY <1>2
    <3> QED
      BY <1>2, <2>3, <3>1, <3>2
  <2> QED
    BY <1>2, <2>2, <2>4 DEF Sound
<1>4. ASSUME NEW s \in Sessions, NEW t, NEW mine, NEW old, NEW kind,
             Sound(t), Sees(s, d, t, mine, old, kind)
      PROVE  Sees(s, u, t, mine, old, kind)
  <2>1. t.batch[b].received = 0
    <3>1. t.batch[b].received \in Nat
      BY <1>4, TableTypes DEF Sound
    <3>2. t.batch[b].received > 0 => t.batch[b] = d.batch[b]
      BY <1>4 DEF Sees, ReceiptsSeen
    <3> QED BY <3>1, <3>2
  <2>2. \A o \in Orders : t.saleOut[o][b] = d.saleOut[o][b]
    BY <1>4, <2>1, NothingTaken
  <2>3. s \in Orders
    BY DEF Orders
  <2>4. ReceiptsSeen(u, t)
    BY <1>2, <1>4, <2>1 DEF Sees, ReceiptsSeen
  <2>5. SalesSeen(s, u, t, mine, old, kind)
    <3>1. ASSUME NEW c \in Batches, NEW o \in Orders \ {s},
                 InventoryRow(u.batch[c].variant) \notin old
          PROVE  t.saleOut[o][c] = d.saleOut[o][c]
      BY <1>2, <1>4, <2>2, <3>1 DEF Sees, SalesSeen
    <3>2. ASSUME NEW c \in Batches, InventoryRow(u.batch[c].variant) \notin mine
          PROVE  t.saleOut[s][c] = d.saleOut[s][c]
      BY <1>2, <1>4, <2>2, <2>3, <3>2 DEF Sees, SalesSeen
    <3> QED
      BY <1>2, <1>4, <3>1, <3>2 DEF Sees, SalesSeen
  <2>6. ReservationsSeen(u, t, mine, old, kind)
    BY <1>2, <1>4 DEF Sees, ReservationsSeen, Share
  <2>7. InventorySeen(s, u, t, mine, old, kind)
    BY <1>2, <1>4 DEF Sees, InventorySeen
  <2> QED
    BY <1>4, <2>4, <2>5, <2>6, <2>7 DEF Sees
<1> QED
  BY <1>3, <1>4 DEF u

-----------------------------------------------------------------------------
(* Sessions, their lines and their locks                                   *)

LEMMA NoSessionIsNone == NoSession \notin Sessions
  BY DEF NoSession, Sessions

\* A session that nothing happens to keeps its part of the invariant.
LEMMA SessionKept ==
  ASSUME NEW s \in Sessions, SessionInv(s),
         tx'[s] = tx[s], copy'[s] = copy[s], stale'[s] = stale[s],
         HeldBy(s)' = HeldBy(s), db' = db
  PROVE  SessionInv(s)'
<1>1. Running(s)' <=> Running(s)
  BY DEF Running
<1>2. Inserts(s) => Inserts(s)'
  BY DEF Inserts
<1>3. CASE Running(s)
  BY <1>1, <1>2, <1>3 DEF SessionInv
<1>4. CASE ~Running(s)
  BY <1>1, <1>4 DEF SessionInv
<1> QED BY <1>3, <1>4

\* The next line is of the kind of its session, and so are those after it.
LEMMA LinesFit ==
  ASSUME Shapes, NEW s \in Sessions, SessionInv(s), Pending(s)
  PROVE  /\ tx[s].kind \in Kinds /\ Fits(tx[s].kind, Line(s))
         /\ Line(s) = tx[s].todo[1] /\ 1 \in 1..Len(tx[s].todo)
         /\ Tail(tx[s].todo) \in Seq(AllLines)
         /\ Len(Tail(tx[s].todo)) \in Nat
         /\ \A i \in 1..Len(Tail(tx[s].todo)) :
              /\ i + 1 \in 1..Len(tx[s].todo)
              /\ Tail(tx[s].todo)[i] = tx[s].todo[i + 1]
              /\ Fits(tx[s].kind, Tail(tx[s].todo)[i])
<1> DEFINE q == tx[s].todo
<1>1. q \in Seq(AllLines) /\ q # << >> /\ Line(s) = Head(q)
  BY DEF Shapes, Pending, Line
<1>2. tx[s].kind \in Kinds /\ \A i \in 1..Len(q) : Fits(tx[s].kind, q[i])
  BY DEF SessionInv, Pending
<1> HIDE DEF q
<1>3. Len(q) \in Nat /\ Len(q) > 0 /\ Head(q) = q[1]
  BY <1>1
<1>4. /\ Tail(q) \in Seq(AllLines) /\ Len(Tail(q)) = Len(q) - 1
      /\ \A i \in 1..Len(Tail(q)) : Tail(q)[i] = q[i + 1]
  BY <1>1
<1>5. \A i \in 1..Len(Tail(q)) : i + 1 \in 1..Len(q)
  BY <1>3, <1>4
<1> QED
  BY <1>1, <1>2, <1>3, <1>4, <1>5 DEF q

\* The row a session wants.
LEMMA WantsRow ==
  ASSUME Shapes, NEW s \in Sessions, SessionInv(s), Busy(s)
  PROVE  /\ tx[s].kind # "release" =>
              Line(s).variant \in Variants /\ Wants(s) = InventoryRow(Line(s).variant)
         /\ tx[s].kind = "release" =>
              /\ Line(s).reservation \in Reservations
              /\ copy[s].resv[Line(s).reservation].state = "active"
              /\ copy[s].resv[Line(s).reservation].variant \in Variants
              /\ Wants(s) = IF ReservationRow(Line(s).reservation) \in HeldBy(s)
                            THEN InventoryRow(copy[s].resv[Line(s).reservation].variant)
                            ELSE ReservationRow(Line(s).reservation)
         /\ Wants(s) \in Rows
<1>1. Pending(s) /\ Running(s) /\ ~Skips(s)
  BY DEF Busy, Pending
<1>2. tx[s].kind \in Kinds /\ Fits(tx[s].kind, Line(s))
  BY <1>1, LinesFit
<1>3. CASE tx[s].kind # "release"
  <2>1. Line(s).variant \in Variants
    BY <1>2, <1>3 DEF Kinds, Fits, SaleLines, ReserveLines, WriteLines
  <2> QED
    BY <1>3, <2>1, RowsApart DEF Wants, InventoryRow
<1>4. CASE tx[s].kind = "release"
  <2>1. Line(s).reservation \in Reservations
    BY <1>2, <1>4 DEF Fits, ReleaseLines
  <2>2. copy[s] \in Tables
    BY <1>1 DEF SessionInv, Sound
  <2>3. /\ copy[s].resv[Line(s).reservation].state = "active"
        /\ copy[s].resv[Line(s).reservation].variant \in Variants
    BY <1>1, <1>4, <2>1, <2>2, TableTypes DEF Skips
  <2>4. ReservationRow(Line(s).reservation) \in HeldBy(s)
          <=> lock[<<"reservation", Line(s).reservation>>] = s
    BY <2>1, RowsApart DEF HeldBy, ReservationRow
  <2> QED
    BY <1>4, <2>1, <2>3, <2>4, RowsApart DEF Wants, InventoryRow, ReservationRow
<1> QED BY <1>3, <1>4

\* The locks after a session has locked the row it wants.
LEMMA LocksTaken ==
  ASSUME Shapes, NEW s \in Sessions, Granted(s), Wants(s) \in Rows,
         lock' = [lock EXCEPT ![Wants(s)] = s]
  PROVE  /\ lock' \in [Rows -> Sessions \cup {NoSession}]
         /\ HeldBy(s)' = HeldBy(s) \cup {Wants(s)}
         /\ \A p \in Sessions \ {s} : HeldBy(p)' = HeldBy(p)
         /\ tx[s].kind = "write" \/ Wants(s) \notin stale[s]
<1>1. lock[Wants(s)] \in {s, NoSession}
  BY DEF Granted, Blocker
<1>2. tx[s].kind = "write" \/ Wants(s) \notin stale[s]
  BY DEF Granted, Conflicts
<1>3. lock' \in [Rows -> Sessions \cup {NoSession}]
  BY DEF Shapes
<1>4. \A row \in Rows : lock'[row] = IF row = Wants(s) THEN s ELSE lock[row]
  BY DEF Shapes
<1> QED
  BY <1>1, <1>2, <1>3, <1>4, NoSessionIsNone DEF HeldBy

\* The locks after a session has ended.
LEMMA LocksFreed ==
  ASSUME Shapes, NEW s \in Sessions,
         lock' = [row \in Rows |-> IF lock[row] = s THEN NoSession ELSE lock[row]]
  PROVE  /\ lock' \in [Rows -> Sessions \cup {NoSession}]
         /\ HeldBy(s)' = {}
         /\ \A p \in Sessions \ {s} : HeldBy(p)' = HeldBy(p)
<1>1. lock' \in [Rows -> Sessions \cup {NoSession}]
  BY DEF Shapes
<1>2. \A row \in Rows : lock'[row] = IF lock[row] = s THEN NoSession ELSE lock[row]
  BY DEF Shapes
<1> QED
  BY <1>1, <1>2, NoSessionIsNone DEF HeldBy

\* The sessions that are not s go on where a step of s leaves them alone.
LEMMA OthersKept ==
  ASSUME IInv, NEW s \in Sessions, db' = db,
         \A p \in Sessions \ {s} : /\ tx'[p] = tx[p] /\ copy'[p] = copy[p]
                                   /\ stale'[p] = stale[p] /\ HeldBy(p)' = HeldBy(p)
  PROVE  Sound(db)' /\ \A p \in Sessions \ {s} : SessionInv(p)'
<1>1. Sound(db)'
  BY DEF IInv
<1>2. ASSUME NEW p \in Sessions \ {s} PROVE SessionInv(p)'
  <2>1. SessionInv(p)
    BY DEF IInv
  <2> QED
    BY <2>1, SessionKept
<1> QED BY <1>1, <1>2

-----------------------------------------------------------------------------
(* The steps of a session                                                  *)

\* A session that is over, without a commit.
LEMMA RollbackKeeps ==
  ASSUME IInv, NEW s \in Sessions, NEW pc \in Pcs \ {"idle", "running"}, Rollback(s, pc)
  PROVE  IInv'
<1>1. Shapes
  BY DEF IInv
<1>2. /\ tx' = [tx EXCEPT ![s] = [pc |-> pc, kind |-> "none", todo |-> << >>]]
      /\ copy' = [copy EXCEPT ![s] = NoCopy] /\ stale' = [stale EXCEPT ![s] = {}]
      /\ db' = db /\ written' = written
      /\ lock' = [row \in Rows |-> IF lock[row] = s THEN NoSession ELSE lock[row]]
  BY DEF Rollback, End
<1>3. /\ lock' \in [Rows -> Sessions \cup {NoSession}]
      /\ HeldBy(s)' = {}
      /\ \A p \in Sessions \ {s} : HeldBy(p)' = HeldBy(p)
  BY <1>1, <1>2, LocksFreed
<1>4. /\ tx'[s] = [pc |-> pc, kind |-> "none", todo |-> << >>]
      /\ copy'[s] = NoCopy /\ stale'[s] = {}
      /\ \A p \in Sessions \ {s} :
           tx'[p] = tx[p] /\ copy'[p] = copy[p] /\ stale'[p] = stale[p]
  BY <1>1, <1>2 DEF Shapes
<1>5. Shapes'
  <2>1. << >> \in Seq(AllLines)
    OBVIOUS
  <2>2. tx' \in [Sessions -> [pc : Pcs, kind : Kinds \cup {"none"}, todo : Seq(AllLines)]]
    BY <1>1, <1>2, <2>1 DEF Shapes
  <2>3. copy' \in [Sessions -> Tables \cup {NoCopy}] /\ stale' \in [Sessions -> SUBSET Rows]
    BY <1>1, <1>2 DEF Shapes
  <2> QED
    BY <1>1, <1>2, <1>3, <2>2, <2>3 DEF Shapes
<1>6. SessionInv(s)'
  <2>1. ~Running(s)' /\ tx'[s].pc # "idle"
    BY <1>4 DEF Running
  <2> QED
    BY <1>3, <1>4, <2>1 DEF SessionInv
<1>7. Sound(db)' /\ \A p \in Sessions \ {s} : SessionInv(p)'
  BY <1>2, <1>3, <1>4, OthersKept
<1> QED
  BY <1>5, <1>6, <1>7 DEF IInv

\* A statement that leaves tables which are sound and as the session sees them.
LEMMA DoneKeeps ==
  ASSUME IInv, NEW s \in Sessions, Granted(s), NEW u, Done(s, u), Sound(u),
         Sees(s, db, u, HeldBy(s) \cup {Wants(s)}, stale[s], tx[s].kind),
         tx[s].kind = "reserve" =>
           \A r \in Reservations : r # Line(s).reservation => u.resv[r] = copy[s].resv[r]
  PROVE  IInv'
<1>1. Shapes /\ SessionInv(s)
  BY DEF IInv
<1>2. Pending(s) /\ Running(s) /\ Busy(s)
  BY DEF Granted, Busy, Pending
<1>3. /\ tx' = [tx EXCEPT ![s].todo = Tail(@)]
      /\ copy' = [copy EXCEPT ![s] = u]
      /\ lock' = [lock EXCEPT ![Wants(s)] = s]
      /\ db' = db /\ stale' = stale /\ written' = written
  BY DEF Done
<1>4. /\ lock' \in [Rows -> Sessions \cup {NoSession}]
      /\ HeldBy(s)' = HeldBy(s) \cup {Wants(s)}
      /\ \A p \in Sessions \ {s} : HeldBy(p)' = HeldBy(p)
  BY <1>1, <1>2, <1>3, WantsRow, LocksTaken
<1>5. /\ tx'[s] = [tx[s] EXCEPT !.todo = Tail(@)]
      /\ copy'[s] = u
      /\ \A p \in Sessions \ {s} : tx'[p] = tx[p] /\ copy'[p] = copy[p]
  BY <1>1, <1>3 DEF Shapes
<1>6. tx'[s].pc = tx[s].pc /\ tx'[s].kind = tx[s].kind /\ tx'[s].todo = Tail(tx[s].todo)
  BY <1>1, <1>5 DEF Shapes
<1>7. /\ tx[s].kind \in Kinds
      /\ Tail(tx[s].todo) \in Seq(AllLines)
      /\ \A i \in 1..Len(Tail(tx[s].todo)) : Fits(tx[s].kind, Tail(tx[s].todo)[i])
  BY <1>1, <1>2, LinesFit
<1>8. Shapes'
  <2>1. tx' \in [Sessions -> [pc : Pcs, kind : Kinds \cup {"none"}, todo : Seq(AllLines)]]
    BY ZenonT(40), <1>1, <1>3, <1>7 DEF Shapes
  <2>2. copy' \in [Sessions -> Tables \cup {NoCopy}]
    BY <1>1, <1>3 DEF Shapes, Sound
  <2> QED
    BY <1>1, <1>3, <1>4, <2>1, <2>2 DEF Shapes
<1>9. tx[s].kind = "reserve" => Inserts(s)'
  <2> SUFFICES ASSUME tx[s].kind = "reserve" PROVE Inserts(s)'
    OBVIOUS
  <2>1. Inserts(s)
    BY <1>1, <1>2 DEF SessionInv
  <2>2. \A i \in 1..Len(Tail(tx[s].todo)) :
          /\ i + 1 \in 1..Len(tx[s].todo)
          /\ Tail(tx[s].todo)[i] = tx[s].todo[i + 1]
          /\ tx[s].todo[i + 1].reservation \in Reservations
          /\ tx[s].todo[i + 1].reservation # Line(s).reservation
    <3>1. /\ Line(s) = tx[s].todo[1] /\ 1 \in 1..Len(tx[s].todo)
          /\ \A i \in 1..Len(Tail(tx[s].todo)) :
               /\ i + 1 \in 1..Len(tx[s].todo)
               /\ Tail(tx[s].todo)[i] = tx[s].todo[i + 1]
               /\ Fits("reserve", Tail(tx[s].todo)[i])
      BY <1>1, <1>2, LinesFit
    <3>2. \A i \in 1..Len(Tail(tx[s].todo)) : i + 1 # 1
      BY <3>1
    <3> QED
      BY <2>1, <3>1, <3>2 DEF Inserts, Fits, ReserveLines
  <2>3. \A i, j \in 1..Len(Tail(tx[s].todo)) : i # j => i + 1 # j + 1
    OBVIOUS
  <2>4. \A i \in 1..Len(Tail(tx[s].todo)) :
          /\ ReservationRow(tx[s].todo[i + 1].reservation) \in HeldBy(s)'
          /\ u.resv[tx[s].todo[i + 1].reservation].state = "unused"
    BY <1>4, <2>1, <2>2 DEF Inserts
  <2>5. \A i, j \in 1..Len(Tail(tx[s].todo)) : i # j =>
          tx[s].todo[i + 1].reservation # tx[s].todo[j + 1].reservation
    BY <2>1, <2>2, <2>3 DEF Inserts
  <2> QED
    BY <1>5, <1>6, <2>2, <2>4, <2>5 DEF Inserts
<1>10. SessionInv(s)'
  <2>1. Running(s)'
    BY <1>2, <1>6 DEF Running
  <2>2. Sees(s, db, copy[s], HeldBy(s), stale[s], tx[s].kind)'
    BY <1>3, <1>4, <1>5, <1>6
  <2>3. Sound(copy[s])'
    BY <1>5
  <2> QED
    BY <1>6, <1>7, <1>9, <2>1, <2>2, <2>3 DEF SessionInv
<1>11. Sound(db)' /\ \A p \in Sessions \ {s} : SessionInv(p)'
  BY <1>3, <1>4, <1>5, OthersKept
<1> QED
  BY <1>8, <1>10, <1>11 DEF IInv

\* A granted row goes to what the session holds and is as it has seen it.
LEMMA GrantKeepsView ==
  ASSUME IInv, NEW s \in Sessions, Granted(s)
  PROVE  /\ Sound(db) /\ Sound(copy[s]) /\ SessionInv(s) /\ Shapes /\ Running(s)
         /\ Sees(s, db, copy[s], HeldBy(s) \cup {Wants(s)}, stale[s], tx[s].kind)
<1>1. Shapes /\ SessionInv(s) /\ Sound(db)
  BY DEF IInv
<1>2. Pending(s) /\ Running(s) /\ Busy(s)
  BY DEF Granted, Busy, Pending
<1>3. Sound(copy[s]) /\ Sees(s, db, copy[s], HeldBy(s), stale[s], tx[s].kind)
  BY <1>1, <1>2 DEF SessionInv
<1>4. /\ Wants(s) \in Rows
      /\ \A r \in Reservations : Wants(s) = ReservationRow(r) => tx[s].kind = "release"
  BY <1>1, <1>2, WantsRow, RowsApart
<1>5. tx[s].kind = "write" \/ Wants(s) \notin stale[s]
  BY DEF Granted, Conflicts
<1>6. Sees(s, db, copy[s], HeldBy(s) \cup {Wants(s)}, stale[s], tx[s].kind)
  BY <1>3, <1>4, <1>5, LockKeepsView
<1> QED
  BY <1>1, <1>2, <1>3, <1>6

LEMMA SellKeeps ==
  ASSUME IInv, NEW s \in Sessions, SellLine(s)
  PROVE  IInv'
<1> DEFINE v == Line(s).variant
           q == Line(s).quantity
           units == Consumed(FifoStock(copy[s], v), q, NBatches)
           u == SoldTables(s, copy[s], v, q, units)
<1>1. /\ Granted(s) /\ tx[s].kind = "sale" /\ Sellable(s)
      /\ Done(s, u)
  BY DEF SellLine, SoldTables
<1>2. /\ Sound(db) /\ Sound(copy[s]) /\ SessionInv(s) /\ Shapes /\ Pending(s) /\ Busy(s)
      /\ Sees(s, db, copy[s], HeldBy(s) \cup {Wants(s)}, stale[s], "sale")
  BY <1>1, GrantKeepsView DEF Granted, Busy
<1>3. v \in Variants /\ q \in Nat /\ Wants(s) = InventoryRow(v)
  <2>1. Line(s) \in SaleLines
    BY <1>1, <1>2, LinesFit DEF Fits
  <2>2. 1..MaxQty \subseteq Nat
    BY TransactionsAssumption
  <2>3. Wants(s) = InventoryRow(v)
    BY <1>1, <1>2, WantsRow
  <2> QED
    BY <2>1, <2>2, <2>3 DEF SaleLines
<1>4. q <= Available(copy[s], v) /\ Covers(FifoStock(copy[s], v), q, NBatches)
  BY <1>1 DEF Sellable
<1> HIDE DEF v, q
<1>5. /\ Sound(u)
      /\ Sees(s, db, u, HeldBy(s) \cup {Wants(s)}, stale[s], "sale")
  BY <1>2, <1>3, <1>4, SaleKeepsView
<1> HIDE DEF u
<1> QED
  BY <1>1, <1>5, DoneKeeps

LEMMA ReserveKeeps ==
  ASSUME IInv, NEW s \in Sessions, ReserveLine(s)
  PROVE  IInv'
<1> DEFINE v == Line(s).variant
           q == Line(s).quantity
           r == Line(s).reservation
           u == ReservedTables(copy[s], v, q, r)
<1>1. /\ Granted(s) /\ tx[s].kind = "reserve" /\ q <= Available(copy[s], v)
      /\ Done(s, u)
  BY DEF ReserveLine, ReservedTables
<1>2. /\ Sound(db) /\ Sound(copy[s]) /\ SessionInv(s) /\ Shapes
      /\ Pending(s) /\ Busy(s) /\ Running(s)
      /\ Sees(s, db, copy[s], HeldBy(s) \cup {Wants(s)}, stale[s], "reserve")
  BY <1>1, GrantKeepsView DEF Granted, Busy
<1>3. v \in Variants /\ q \in Nat /\ r \in Reservations /\ Wants(s) = InventoryRow(v)
  <2>1. Line(s) \in ReserveLines
    BY <1>1, <1>2, LinesFit DEF Fits
  <2>2. 1..MaxQty \subseteq Nat
    BY TransactionsAssumption
  <2>3. Wants(s) = InventoryRow(v)
    BY <1>1, <1>2, WantsRow
  <2> QED
    BY <2>1, <2>2, <2>3 DEF ReserveLines
<1>4. ReservationRow(r) \in HeldBy(s) /\ copy[s].resv[r].state = "unused"
  <2>1. Line(s) = tx[s].todo[1] /\ 1 \in 1..Len(tx[s].todo)
    BY <1>2, LinesFit
  <2> QED
    BY <1>1, <1>2, <2>1 DEF SessionInv, Inserts
<1> HIDE DEF v, q, r
<1>5. /\ Sound(u)
      /\ Sees(s, db, u, HeldBy(s) \cup {Wants(s)}, stale[s], "reserve")
  BY <1>1, <1>2, <1>3, <1>4, ReserveKeepsView
<1>6. \A k \in Reservations : k # r => u.resv[k] = copy[s].resv[k]
  BY <1>2, <1>3 DEF u, ReservedTables, Sound, Tables
<1> HIDE DEF u
<1> QED
  BY <1>1, <1>5, <1>6, DoneKeeps DEF r

LEMMA ReleaseKeeps ==
  ASSUME IInv, NEW s \in Sessions, ReleaseLine(s)
  PROVE  IInv'
<1> DEFINE r == Line(s).reservation
           v == copy[s].resv[r].variant
           u == ReleasedTables(copy[s], r, v)
<1>1. Granted(s) /\ tx[s].kind = "release" /\ Wants(s)[1] = "inventory"
  BY DEF ReleaseLine
<1>2. /\ Sound(db) /\ Sound(copy[s]) /\ SessionInv(s) /\ Shapes /\ Pending(s) /\ Busy(s)
      /\ Sees(s, db, copy[s], HeldBy(s) \cup {Wants(s)}, stale[s], "release")
  BY <1>1, GrantKeepsView DEF Granted, Busy
<1>3. /\ r \in Reservations /\ v \in Variants /\ copy[s].resv[r].state = "active"
      /\ ReservationRow(r) \in HeldBy(s) /\ Wants(s) = InventoryRow(v) /\ Wants(s)[2] = v
  BY <1>1, <1>2, WantsRow DEF InventoryRow, ReservationRow
<1>4. Done(s, u)
  BY <1>3 DEF ReleaseLine, ReleasedTables
<1> HIDE DEF v, r
<1>5. /\ Sound(u)
      /\ Sees(s, db, u, HeldBy(s) \cup {Wants(s)}, stale[s], "release")
  BY <1>2, <1>3, ReleaseKeepsView DEF v
<1> HIDE DEF u
<1> QED
  BY <1>1, <1>4, <1>5, DoneKeeps

LEMMA WriteKeeps ==
  ASSUME IInv, NEW s \in Sessions, WriteLine(s)
  PROVE  IInv'
<1> DEFINE v == Line(s).variant
<1>1. Granted(s) /\ tx[s].kind \in {"write", "adjust"}
  BY DEF WriteLine, Writes
<1>2. PICK q \in 0..MaxQty : Done(s, [copy[s] EXCEPT !.onHand[v] = q])
  BY DEF WriteLine
<1> DEFINE u == [copy[s] EXCEPT !.onHand[v] = q]
<1>3. /\ Sound(db) /\ Sound(copy[s]) /\ SessionInv(s) /\ Shapes /\ Pending(s) /\ Busy(s)
      /\ Sees(s, db, copy[s], HeldBy(s) \cup {Wants(s)}, stale[s], tx[s].kind)
  BY <1>1, GrantKeepsView DEF Granted, Busy
<1>4. v \in Variants /\ q \in Nat /\ Wants(s) = InventoryRow(v)
  BY <1>1, <1>3, WantsRow, TransactionsAssumption
<1> HIDE DEF v
<1>5. /\ Sound(u)
      /\ Sees(s, db, u, HeldBy(s) \cup {Wants(s)}, stale[s], tx[s].kind)
  BY <1>1, <1>3, <1>4, WriteKeepsView
<1> HIDE DEF u
<1> QED
  BY <1>1, <1>2, <1>5, DoneKeeps DEF u

LEMMA LockKeeps ==
  ASSUME IInv, NEW s \in Sessions, LockReservation(s)
  PROVE  IInv'
<1>1. Granted(s) /\ tx[s].kind = "release" /\ lock' = [lock EXCEPT ![Wants(s)] = s]
      /\ UNCHANGED <<db, tx, copy, stale, written>>
  BY DEF LockReservation
<1>2. /\ Sound(copy[s]) /\ SessionInv(s) /\ Shapes /\ Running(s) /\ Busy(s)
      /\ Sees(s, db, copy[s], HeldBy(s) \cup {Wants(s)}, stale[s], tx[s].kind)
  BY <1>1, GrantKeepsView DEF Granted
<1>3. /\ lock' \in [Rows -> Sessions \cup {NoSession}]
      /\ HeldBy(s)' = HeldBy(s) \cup {Wants(s)}
      /\ \A p \in Sessions \ {s} : HeldBy(p)' = HeldBy(p)
  BY <1>1, <1>2, WantsRow, LocksTaken
<1>4. Shapes'
  BY <1>1, <1>2, <1>3 DEF Shapes
<1>5. SessionInv(s)'
  <2>1. Sees(s, db, copy[s], HeldBy(s), stale[s], tx[s].kind)'
    BY <1>1, <1>2, <1>3
  <2> QED
    BY <1>1, <1>2, <2>1 DEF SessionInv, Running
<1>6. Sound(db)' /\ \A p \in Sessions \ {s} : SessionInv(p)'
  BY <1>1, <1>3, OthersKept
<1> QED
  BY <1>4, <1>5, <1>6 DEF IInv

LEMMA SkipKeeps ==
  ASSUME IInv, NEW s \in Sessions, SkipLine(s)
  PROVE  IInv'
<1>1. Shapes /\ SessionInv(s) /\ Pending(s) /\ Running(s) /\ tx[s].kind = "release"
  BY DEF IInv, SkipLine, Skips, Pending
<1>2. tx' = [tx EXCEPT ![s].todo = Tail(@)] /\ UNCHANGED <<db, lock, copy, stale, written>>
  BY DEF SkipLine
<1>3. /\ Tail(tx[s].todo) \in Seq(AllLines)
      /\ \A i \in 1..Len(Tail(tx[s].todo)) : Fits(tx[s].kind, Tail(tx[s].todo)[i])
  BY <1>1, LinesFit
<1>4. /\ tx'[s].pc = tx[s].pc /\ tx'[s].kind = tx[s].kind /\ tx'[s].todo = Tail(tx[s].todo)
      /\ \A p \in Sessions \ {s} : tx'[p] = tx[p]
  BY <1>1, <1>2 DEF Shapes
<1>5. Shapes'
  <2>1. tx' \in [Sessions -> [pc : Pcs, kind : Kinds \cup {"none"}, todo : Seq(AllLines)]]
    BY <1>1, <1>2, <1>3 DEF Shapes
  <2> QED
    BY <1>1, <1>2, <2>1 DEF Shapes
<1>6. \A p \in Sessions : HeldBy(p)' = HeldBy(p)
  BY <1>2 DEF HeldBy
<1>7. SessionInv(s)'
  <2>1. Sees(s, db, copy[s], HeldBy(s), stale[s], tx[s].kind)'
    BY <1>1, <1>2, <1>4, <1>6 DEF SessionInv
  <2> QED
    BY <1>1, <1>2, <1>3, <1>4, <2>1 DEF SessionInv, Running
<1>8. Sound(db)' /\ \A p \in Sessions \ {s} : SessionInv(p)'
  BY <1>2, <1>4, <1>6, OthersKept
<1> QED
  BY <1>5, <1>7, <1>8 DEF IInv

\* A request begins: its snapshot is what is committed, and the rows that a
\* reservation request is to insert are nobody else's.
LEMMA StartKeeps ==
  ASSUME IInv, NEW s \in Sessions, NEW kind \in Kinds, NEW p \in Seq(AllLines),
         \A i \in 1..Len(p) : Fits(kind, p[i]),
         kind = "reserve" =>
           \A i \in 1..Len(p) :
             /\ db.resv[p[i].reservation].state = "unused"
             /\ lock[ReservationRow(p[i].reservation)] = NoSession
             /\ \A j \in 1..Len(p) : i # j => p[i].reservation # p[j].reservation,
         Start(s, kind, p)
  PROVE  IInv'
<1>1. Shapes /\ Sound(db) /\ SessionInv(s) /\ ~Running(s) /\ DOMAIN p = 1..Len(p)
  BY DEF IInv, Start, Running
<1>2. stale[s] = {} /\ HeldBy(s) = {} /\ db.saleOut[s] = NoUnits
  BY <1>1 DEF SessionInv, Start
<1>3. /\ tx' = [tx EXCEPT ![s] = [pc |-> "running", kind |-> kind, todo |-> p]]
      /\ copy' = [copy EXCEPT ![s] = db]
      /\ lock' = [row \in Rows |->
                    IF kind = "reserve" /\ \E i \in 1..Len(p) : row = ReservationRow(p[i].reservation)
                    THEN s ELSE lock[row]]
      /\ db' = db /\ stale' = stale /\ written' = written
  BY <1>1 DEF Start, ReservationRow
<1>4. /\ tx'[s] = [pc |-> "running", kind |-> kind, todo |-> p]
      /\ copy'[s] = db
      /\ \A q \in Sessions \ {s} : tx'[q] = tx[q] /\ copy'[q] = copy[q]
  BY <1>1, <1>3 DEF Shapes
<1>5. kind = "reserve" =>
        \A i \in 1..Len(p) : p[i].reservation \in Reservations
                             /\ ReservationRow(p[i].reservation) \in Rows
  BY RowsApart DEF Fits, ReserveLines
<1>6. /\ lock' \in [Rows -> Sessions \cup {NoSession}]
      /\ HeldBy(s)' = {row \in Rows : kind = "reserve" /\
                         \E i \in 1..Len(p) : row = ReservationRow(p[i].reservation)}
      /\ \A q \in Sessions \ {s} : HeldBy(q)' = HeldBy(q)
  <2>1. \A row \in Rows :
          lock'[row] = IF kind = "reserve" /\ \E i \in 1..Len(p) : row = ReservationRow(p[i].reservation)
                       THEN s ELSE lock[row]
    BY <1>3
  <2>2. lock' \in [Rows -> Sessions \cup {NoSession}]
    BY <1>1, <1>3 DEF Shapes
  <2>3. \A row \in Rows : lock[row] # s
    BY <1>2 DEF HeldBy
  <2> QED
    BY <2>1, <2>2, <2>3, NoSessionIsNone DEF HeldBy
<1>7. Shapes'
  <2>1. tx' \in [Sessions -> [pc : Pcs, kind : Kinds \cup {"none"}, todo : Seq(AllLines)]]
    BY <1>1, <1>3 DEF Shapes, Pcs
  <2>2. copy' \in [Sessions -> Tables \cup {NoCopy}]
    BY <1>1, <1>3 DEF Shapes, Sound
  <2> QED
    BY <1>1, <1>3, <1>6, <2>1, <2>2 DEF Shapes
<1>8. SessionInv(s)'
  <2>1. Sees(s, db, db, HeldBy(s)', {}, kind)
    <3>1. \A v \in Variants : InventoryRow(v) \notin HeldBy(s)'
      BY <1>5, <1>6, RowsApart
    <3>2. kind # "reserve" => HeldBy(s)' = {}
      BY <1>6
    <3> DEFINE mine == HeldBy(s)'
    <3> HIDE DEF mine
    <3>3. Sees(s, db, db, mine, {}, kind)
      BY <1>1, <1>2, <3>1, <3>2, SnapshotSees DEF mine
    <3> QED BY <3>3 DEF mine
  <2>2. Sees(s, db, copy[s], HeldBy(s), stale[s], tx[s].kind)'
    <3>1. tx'[s].kind = kind /\ stale'[s] = {} /\ copy'[s] = db /\ db' = db
      BY <1>2, <1>3, <1>4
    <3> QED BY <2>1, <3>1
  <2>3. kind = "reserve" => Inserts(s)'
    BY <1>4, <1>5, <1>6 DEF Inserts
  <2>4. Running(s)' /\ Sound(copy[s])'
    BY <1>1, <1>4 DEF Running
  <2> QED
    BY <1>4, <2>2, <2>3, <2>4 DEF SessionInv
<1>9. Sound(db)' /\ \A q \in Sessions \ {s} : SessionInv(q)'
  BY <1>3, <1>4, <1>6, OthersKept
<1> QED
  BY <1>7, <1>8, <1>9 DEF IInv

\* Every request is a list of lines of its kind.
LEMMA PlansFit ==
  ASSUME NEW p
  PROVE  /\ p \in SalePlans => p \in Seq(AllLines) /\ \A i \in 1..Len(p) : Fits("sale", p[i])
         /\ p \in ReservePlans =>
              /\ p \in Seq(AllLines) /\ \A i \in 1..Len(p) : Fits("reserve", p[i])
              /\ \A i \in 1..Len(p) :
                   /\ db.resv[p[i].reservation].state = "unused"
                   /\ lock[ReservationRow(p[i].reservation)] = NoSession
                   /\ \A j \in 1..Len(p) : i # j => p[i].reservation # p[j].reservation
         /\ p \in ReleasePlans =>
              p \in Seq(AllLines) /\ \A i \in 1..Len(p) : Fits("release", p[i])
         /\ p \in WritePlans =>
              /\ p \in Seq(AllLines)
              /\ \A i \in 1..Len(p) : Fits("write", p[i]) /\ Fits("adjust", p[i])
<1>1. ASSUME NEW S, p \in Lists(S), S \subseteq AllLines
      PROVE  p \in Seq(AllLines) /\ DOMAIN p = 1..Len(p) /\ \A i \in 1..Len(p) : p[i] \in S
  <2>1. PICK n \in 1..MaxLines : p \in [1..n -> S]
    BY <1>1 DEF Lists
  <2>2. n \in Nat
    BY TransactionsAssumption
  <2>3. p \in Seq(S) /\ p \in Seq(AllLines)
    BY <1>1, <2>1, <2>2
  <2> QED BY <2>3
<1>2. p \in SalePlans => p \in Seq(AllLines) /\ \A i \in 1..Len(p) : Fits("sale", p[i])
  BY <1>1 DEF SalePlans, SaleLines, AllLines, Fits
<1>3. ASSUME p \in ReservePlans
      PROVE  /\ p \in Seq(AllLines) /\ \A i \in 1..Len(p) : Fits("reserve", p[i])
             /\ \A i \in 1..Len(p) :
                  /\ db.resv[p[i].reservation].state = "unused"
                  /\ lock[ReservationRow(p[i].reservation)] = NoSession
                  /\ \A j \in 1..Len(p) : i # j => p[i].reservation # p[j].reservation
  <2>1. p \in Lists(ReserveLines)
    BY <1>3 DEF ReservePlans, ReserveLines
  <2>2. p \in Seq(AllLines) /\ DOMAIN p = 1..Len(p) /\ \A i \in 1..Len(p) : p[i] \in ReserveLines
    BY <1>1, <2>1 DEF AllLines
  <2>3. \A i, j \in 1..Len(p) : i # j => p[i].reservation # p[j].reservation
    BY <1>3, <2>2 DEF ReservePlans, NoRepeat, ReserveLines
  <2> QED
    BY <1>3, <2>2, <2>3 DEF ReservePlans, Fits, ReservationRow
<1>4. p \in ReleasePlans => p \in Seq(AllLines) /\ \A i \in 1..Len(p) : Fits("release", p[i])
  BY <1>1 DEF ReleasePlans, ReleaseLines, AllLines, Fits
<1>5. p \in WritePlans =>
        /\ p \in Seq(AllLines)
        /\ \A i \in 1..Len(p) : Fits("write", p[i]) /\ Fits("adjust", p[i])
  BY <1>1 DEF WritePlans, WriteLines, AllLines, Fits
<1> QED
  BY <1>2, <1>3, <1>4, <1>5

LEMMA BeginKeeps ==
  ASSUME IInv, NEW s \in Sessions, Begin(s)
  PROVE  IInv'
<1>1. CASE \E p \in SalePlans : Start(s, "sale", p)
  BY <1>1, StartKeeps, PlansFit DEF Kinds
<1>2. CASE \E p \in ReservePlans : Start(s, "reserve", p)
  BY <1>2, StartKeeps, PlansFit DEF Kinds
<1>3. CASE \E p \in ReleasePlans : Start(s, "release", p)
  BY <1>3, StartKeeps, PlansFit DEF Kinds
<1>4. CASE \E p \in WritePlans : Start(s, "write", p)
  BY <1>4, StartKeeps, PlansFit DEF Kinds
<1>5. CASE \E p \in AdjustPlans : Start(s, "adjust", p)
  BY <1>5, StartKeeps, PlansFit DEF Kinds, AdjustPlans
<1> QED
  BY <1>1, <1>2, <1>3, <1>4, <1>5 DEF Begin

\* The commit publishes what the session holds, and tells the others so.
LEMMA CommitKeeps ==
  ASSUME IInv, NEW s \in Sessions, Commit(s)
  PROVE  IInv'
<1> DEFINE t == copy[s]
           mine == HeldBy(s)
           u == Published(s, db, t, mine, tx[s].kind)
<1>1. Shapes /\ Sound(db) /\ SessionInv(s) /\ Running(s)
  BY DEF IInv, Commit
<1>2. Sound(t) /\ Sees(s, db, t, mine, stale[s], tx[s].kind)
  BY <1>1 DEF SessionInv
<1>3. /\ db' = u
      /\ written' = IF Writes(s)
                    THEN [v \in Variants |-> written[v] + db'.onHand[v] - db.onHand[v]]
                    ELSE written
      /\ stale' = [p \in Sessions |-> IF p # s /\ Running(p) THEN stale[p] \cup mine ELSE {}]
      /\ tx' = [tx EXCEPT ![s] = [pc |-> "done", kind |-> "none", todo |-> << >>]]
      /\ copy' = [copy EXCEPT ![s] = NoCopy]
      /\ lock' = [row \in Rows |-> IF lock[row] = s THEN NoSession ELSE lock[row]]
  BY DEF Commit, End, Published, HeldBy
<1>4. /\ lock' \in [Rows -> Sessions \cup {NoSession}]
      /\ HeldBy(s)' = {}
      /\ \A p \in Sessions \ {s} : HeldBy(p)' = HeldBy(p)
  BY <1>1, <1>3, LocksFreed
<1>5. /\ tx'[s] = [pc |-> "done", kind |-> "none", todo |-> << >>]
      /\ copy'[s] = NoCopy /\ stale'[s] = {}
      /\ \A p \in Sessions \ {s} :
           /\ tx'[p] = tx[p] /\ copy'[p] = copy[p]
           /\ stale'[p] = IF Running(p) THEN stale[p] \cup mine ELSE {}
  BY <1>1, <1>3 DEF Shapes
<1>6. Sound(db)'
  <2>1. Sound(u)
    BY <1>1, <1>2, PublishIsSound
  <2> QED BY <1>3, <2>1
<1>7. Shapes'
  <2>1. << >> \in Seq(AllLines)
    OBVIOUS
  <2>2. tx' \in [Sessions -> [pc : Pcs, kind : Kinds \cup {"none"}, todo : Seq(AllLines)]]
    BY <1>1, <1>3, <2>1 DEF Shapes, Pcs
  <2>3. copy' \in [Sessions -> Tables \cup {NoCopy}] /\ stale' \in [Sessions -> SUBSET Rows]
    BY <1>1, <1>3 DEF Shapes, HeldBy
  <2>4. written' \in [Variants -> Int]
    <3>1. \A v \in Variants : db'.onHand[v] \in Int /\ db.onHand[v] \in Int /\ written[v] \in Int
      BY <1>1, <1>6, TableTypes DEF Shapes, Sound
    <3> QED
      BY <1>1, <1>3, <3>1 DEF Shapes
  <2> QED
    BY <1>4, <2>2, <2>3, <2>4 DEF Shapes
<1>8. SessionInv(s)'
  BY <1>4, <1>5 DEF SessionInv, Running
<1>9. ASSUME NEW p \in Sessions \ {s} PROVE SessionInv(p)'
  <2>1. SessionInv(p)
    BY DEF IInv
  <2>2. tx'[p] = tx[p] /\ copy'[p] = copy[p] /\ HeldBy(p)' = HeldBy(p)
    BY <1>4, <1>5
  <2>3. CASE Running(p)
    <3>1. stale'[p] = stale[p] \cup mine
      BY <1>5, <2>3
    <3>2. mine \cap HeldBy(p) = {}
      BY DEF HeldBy
    <3>3. Sees(p, db, copy[p], HeldBy(p), stale[p], tx[p].kind)
      BY <2>1, <2>3 DEF SessionInv
    <3>4. Sees(p, u, copy[p], HeldBy(p), stale[p] \cup mine, tx[p].kind)
      <4> HIDE DEF mine, t
      <4> QED
        BY <1>1, <1>2, <3>2, <3>3, PublishKeepsView
    <3>5. Sees(p, db, copy[p], HeldBy(p), stale[p], tx[p].kind)'
      BY <1>3, <2>2, <3>1, <3>4
    <3>6. Inserts(p) => Inserts(p)'
      BY <2>2 DEF Inserts
    <3> QED
      BY <2>1, <2>2, <2>3, <3>5, <3>6 DEF SessionInv, Running
  <2>4. CASE ~Running(p)
    <3>1. stale'[p] = {} /\ ~Running(p)'
      BY <1>5, <2>2, <2>4 DEF Running
    <3>2. db'.saleOut[p] = db.saleOut[p]
      <4>1. \A o \in Orders \ {s} : u.saleOut[o] = db.saleOut[o]
        BY <1>1, <1>2, PublishedTables DEF Sound
      <4> QED BY <1>3, <4>1 DEF Orders
    <3> QED
      BY <2>1, <2>2, <2>4, <3>1, <3>2 DEF SessionInv
  <2> QED BY <2>3, <2>4
<1> QED
  BY <1>6, <1>7, <1>8, <1>9 DEF IInv

LEMMA ReceiveKeeps ==
  ASSUME IInv, NEW b \in Batches, NEW v \in Variants, NEW q \in 1..MaxQty, Receive(b, v, q)
  PROVE  IInv'
<1>1. q \in Nat /\ db.batch[b].received = 0 /\ db' = Received(db, b, v, q)
      /\ UNCHANGED <<lock, tx, copy, stale, written>>
  BY TransactionsAssumption DEF Receive, Received
<1>2. Sound(db) /\ Shapes
  BY DEF IInv
<1>3. Sound(db)'
  <2>1. Sound(Received(db, b, v, q))
    BY <1>1, <1>2, ReceiptKeepsView
  <2> QED BY <1>1, <2>1
<1>4. Shapes'
  BY <1>1, <1>2 DEF Shapes
<1>5. ASSUME NEW s \in Sessions PROVE SessionInv(s)'
  <2>1. SessionInv(s)
    BY DEF IInv
  <2>2. tx'[s] = tx[s] /\ copy'[s] = copy[s] /\ stale'[s] = stale[s] /\ HeldBy(s)' = HeldBy(s)
    BY <1>1 DEF HeldBy
  <2>3. CASE Running(s)
    <3>1. Sound(copy[s]) /\ Sees(s, db, copy[s], HeldBy(s), stale[s], tx[s].kind)
      BY <2>1, <2>3 DEF SessionInv
    <3> DEFINE u == Received(db, b, v, q)
    <3>2. db' = u /\ Sees(s, u, copy[s], HeldBy(s), stale[s], tx[s].kind)
      BY <1>1, <1>2, <3>1, ReceiptKeepsView
    <3> HIDE DEF u
    <3>3. Sees(s, db, copy[s], HeldBy(s), stale[s], tx[s].kind)'
      BY <2>2, <3>2
    <3>4. Inserts(s) => Inserts(s)'
      BY <2>2 DEF Inserts
    <3> QED
      BY <2>1, <2>2, <2>3, <3>3, <3>4 DEF SessionInv, Running
  <2>4. CASE ~Running(s)
    <3>1. db'.saleOut = db.saleOut
      BY ZenonT(40), <1>1, <1>2, ReceivedTables DEF Sound
    <3> QED
      BY <2>1, <2>2, <2>4, <3>1 DEF SessionInv, Running
  <2> QED BY <2>3, <2>4
<1> QED
  BY <1>3, <1>4, <1>5 DEF IInv

-----------------------------------------------------------------------------
(* The invariant                                                           *)

LEMMA InitSafe == Init => IInv
<1> SUFFICES ASSUME Init PROVE IInv
  OBVIOUS
<1> DEFINE v == CHOOSE u \in Variants : TRUE
<1>1. v \in Variants
  BY TransactionsAssumption
<1>2. PICK on \in [Variants -> 0..MaxQty] :
        /\ db = [onHand   |-> on,
                 reserved |-> [u \in Variants |-> IF u = v THEN 1 ELSE 0],
                 batch    |-> [b \in Batches |-> [variant |-> v, received |-> 0]],
                 saleOut  |-> [o \in Orders |-> NoUnits],
                 resv     |-> [r \in Reservations |->
                                 [state |-> IF r = 1 THEN "active" ELSE "unused",
                                  variant |-> v, quantity |-> IF r = 1 THEN 1 ELSE 0]]]
        /\ written = on
        /\ lock = [row \in Rows |-> NoSession]
        /\ tx = [s \in Sessions |-> [pc |-> "idle", kind |-> "none", todo |-> << >>]]
        /\ copy = [s \in Sessions |-> NoCopy]
        /\ stale = [s \in Sessions |-> {}]
  BY DEF Init
<1> HIDE DEF v
<1>3. on \in [Variants -> Nat] /\ on \in [Variants -> Int]
  BY TransactionsAssumption
<1>4. db \in Tables
  BY <1>1, <1>2, <1>3 DEF Tables, NoUnits
<1>5. Shapes
  <2>1. << >> \in Seq(AllLines)
    OBVIOUS
  <2> QED
    BY <1>2, <1>3, <2>1 DEF Shapes, Pcs
<1>6. Sound(db)
  <2>1. ASSUME NEW w \in Variants PROVE db.reserved[w] = Held(db, w)
    <3> DEFINE g == [r \in Reservations |-> Share(db, r, w)]
    <3>1. /\ g[1] = (IF w = v THEN 1 ELSE 0) /\ 1 \in 1..NReservations
          /\ \A i \in 1..NReservations : i # 1 => g[i] = 0
      BY <1>1, <1>2, NumbersOfRows DEF Reservations, Share
    <3> HIDE DEF g
    <3>2. SumTo(g, NReservations) = g[1]
      BY <3>1, NumbersOfRows, SumToOne
    <3>3. db.reserved[w] = IF w = v THEN 1 ELSE 0
      BY <1>2
    <3> QED
      BY <3>1, <3>2, <3>3, HeldIsSum DEF g
  <2>2. ASSUME NEW b \in Batches PROVE Deducted(db, b) <= db.batch[b].received
    <3> DEFINE g == [o \in Orders |-> db.saleOut[o][b]]
    <3>1. \A i \in 1..NSessions : g[i] = 0
      BY <1>2 DEF Orders, Sessions, NoUnits
    <3> HIDE DEF g
    <3>2. SumTo(g, NSessions) = 0
      BY <3>1, NumbersOfRows, SumToZero
    <3>3. db.batch[b].received = 0
      BY <1>2
    <3> QED
      BY <3>2, <3>3 DEF g, Deducted
  <2> QED
    BY <1>4, <2>1, <2>2 DEF Sound
<1>7. ASSUME NEW s \in Sessions PROVE SessionInv(s)
  BY <1>2, NoSessionIsNone DEF SessionInv, Running, HeldBy, Orders
<1> QED
  BY <1>5, <1>6, <1>7 DEF IInv

\* Every step of a session, and every receipt, keeps the tables sound, the
\* locks apart and what the sessions see of the rows they hold true
\* (deductSingleVariant, ReserveStock, ReleaseReservation, AdjustInventory).
THEOREM Inductive == IInv /\ [Next]_vars => IInv'
<1> SUFFICES ASSUME IInv, [Next]_vars PROVE IInv'
  OBVIOUS
<1>1. ASSUME NEW s \in Sessions, Begin(s) \/ Progress(s) \/ Cancel(s)
      PROVE  IInv'
  <2>1. CASE Begin(s)
    BY <2>1, BeginKeeps
  <2>2. CASE Statement(s)
    <3>1. CASE RefuseLine(s)
      BY <3>1, RollbackKeeps DEF RefuseLine, Pcs
    <3> QED
      BY <2>2, <3>1, SellKeeps, ReserveKeeps, LockKeeps, ReleaseKeeps, SkipKeeps, WriteKeeps
      DEF Statement
  <2>3. CASE Commit(s)
    BY <2>3, CommitKeeps
  <2>4. CASE FailSerialization(s)
    BY <2>4, RollbackKeeps DEF FailSerialization, Pcs
  <2>5. CASE BreakDeadlock(s)
    BY <2>5, RollbackKeeps DEF BreakDeadlock, Pcs
  <2>6. CASE Cancel(s)
    BY <2>6, RollbackKeeps DEF Cancel, Pcs
  <2> QED
    BY <1>1, <2>1, <2>2, <2>3, <2>4, <2>5, <2>6 DEF Progress
<1>2. ASSUME NEW b \in Batches, NEW v \in Variants, NEW q \in 1..MaxQty, Receive(b, v, q)
      PROVE  IInv'
  BY <1>2, ReceiveKeeps
<1>3. CASE UNCHANGED vars
  <2>1. UNCHANGED <<db, lock, tx, copy, stale, written>>
    BY <1>3 DEF vars
  <2>2. \A s \in Sessions : SessionInv(s)'
    BY <2>1, SessionKept DEF IInv, HeldBy
  <2>3. Shapes' /\ Sound(db)'
    BY <2>1 DEF IInv, Shapes
  <2> QED
    BY <2>2, <2>3 DEF IInv
<1> QED
  BY <1>1, <1>2, <1>3 DEF Next

THEOREM InvariantHolds == Spec => []IInv
  BY InitSafe, Inductive, PTL DEF Spec

\* The tables, the locks and the sessions keep their types; a session that is
\* over holds no lock.
THEOREM TypeCorrect == Spec => []TypeOK
<1>1. IInv => TypeOK
  <2> SUFFICES ASSUME IInv PROVE TypeOK
    OBVIOUS
  <2>1. Shapes /\ db \in Tables /\ \A s \in Sessions : SessionInv(s)
    BY DEF IInv, Sound
  <2>2. ASSUME NEW s \in Sessions
        PROVE  /\ tx[s].pc \in Pcs /\ tx[s].kind \in Kinds \cup {"none"}
               /\ copy[s] \in IF Running(s) THEN Tables ELSE {NoCopy}
               /\ stale[s] \subseteq Rows
               /\ ~Running(s) => \A row \in Rows : lock[row] # s
    BY <2>1 DEF Shapes, SessionInv, Sound, HeldBy
  <2> QED
    BY <2>1, <2>2 DEF TypeOK, Shapes, Pcs, Kinds
<1> QED
  BY <1>1, InvariantHolds, PTL

\* No two orders sell the same unit of a batch item (inventory.go:180).
THEOREM NoUnitSoldTwice == Spec => []NoDoubleDeduction
<1>1. IInv => NoDoubleDeduction
  BY DEF IInv, Sound, NoDoubleDeduction
<1> QED
  BY <1>1, InvariantHolds, PTL

-----------------------------------------------------------------------------
(* What the contract sees of the tables                                    *)

SoldUnits(t) == [o \in Orders |-> [v \in Variants |-> UnitsOf(t, t.saleOut[o], v)]]
HeldUnits(t) == [v \in Variants |-> Held(t, v)]

LEMMA HeldIsReserved ==
  ASSUME NEW t, Sound(t)
  PROVE  HeldUnits(t) = t.reserved
<1>1. t.reserved \in [Variants -> Nat]
  BY TableTypes DEF Sound
<1> QED
  BY <1>1 DEF Sound, HeldUnits

\* Where an order took the same from the same batch items it was sold the same.
LEMMA SameSold ==
  ASSUME NEW d \in Tables, NEW u, u.batch = d.batch, NEW o \in Orders,
         u.saleOut[o] = d.saleOut[o], NEW v \in Variants
  PROVE  UnitsOf(u, u.saleOut[o], v) = UnitsOf(d, d.saleOut[o], v)
<1>1. \A b \in Batches :
        /\ d.saleOut[o][b] \in Nat
        /\ (IF u.batch[b].variant = v THEN u.saleOut[o][b] ELSE 0)
             = (IF d.batch[b].variant = v THEN d.saleOut[o][b] ELSE 0)
  BY TableTypes
<1> QED
  BY <1>1, UnitsSame

\* A session that is no sale sells nothing.
LEMMA NothingSold ==
  ASSUME NEW s \in Sessions, NEW d, NEW t, NEW mine, NEW old, NEW kind,
         Sound(d), Sound(t), Sees(s, d, t, mine, old, kind), kind # "sale"
  PROVE  SoldUnits(Published(s, d, t, mine, kind)) = SoldUnits(d)
<1> DEFINE u == Published(s, d, t, mine, kind)
<1>1. d \in Tables /\ t \in Tables /\ s \in Orders
  BY DEF Sound, Orders
<1>2. /\ u.batch = d.batch /\ u.saleOut[s] = t.saleOut[s]
      /\ \A o \in Orders \ {s} : u.saleOut[o] = d.saleOut[o]
  BY <1>1, PublishedTables
<1> HIDE DEF u
<1>3. t.saleOut[s] = d.saleOut[s]
  BY DEF Sees, SalesSeen
<1>4. \A o \in Orders : u.saleOut[o] = d.saleOut[o]
  BY <1>2, <1>3
<1>5. \A o \in Orders, v \in Variants :
        UnitsOf(u, u.saleOut[o], v) = UnitsOf(d, d.saleOut[o], v)
  BY <1>1, <1>2, <1>4, SameSold
<1>6. SoldUnits(u) = SoldUnits(d)
  BY <1>5 DEF SoldUnits
<1> QED
  BY <1>6 DEF u

\* What a sale publishes: the order has the units that have left onHand, and
\* they were available.
LEMMA SalePublished ==
  ASSUME NEW s \in Sessions, NEW d, NEW t, NEW mine, NEW old,
         Sound(d), Sound(t), Sees(s, d, t, mine, old, "sale")
  PROVE  LET u == Published(s, d, t, mine, "sale")
         IN  /\ u.reserved = d.reserved
             /\ \A v \in Variants :
                  /\ 0 <= d.onHand[v] - u.onHand[v]
                  /\ d.onHand[v] - u.onHand[v] > 0
                     => d.onHand[v] - u.onHand[v] <= d.onHand[v] - d.reserved[v]
             /\ \A v \in Variants :
                  UnitsOf(u, u.saleOut[s], v)
                    = UnitsOf(d, d.saleOut[s], v) + (d.onHand[v] - u.onHand[v])
             /\ \A o \in Orders \ {s}, v \in Variants :
                  UnitsOf(u, u.saleOut[o], v) = UnitsOf(d, d.saleOut[o], v)
<1> DEFINE u == Published(s, d, t, mine, "sale")
<1>1. d \in Tables /\ t \in Tables /\ s \in Orders
  BY DEF Sound, Orders
<1>2. /\ u \in Tables
      /\ u.batch = d.batch /\ u.saleOut[s] = t.saleOut[s]
      /\ \A o \in Orders \ {s} : u.saleOut[o] = d.saleOut[o]
      /\ \A v \in Variants :
           /\ u.onHand[v] = IF InventoryRow(v) \in mine THEN t.onHand[v] ELSE d.onHand[v]
           /\ u.reserved[v] = IF InventoryRow(v) \in mine /\ "sale" # "write"
                              THEN t.reserved[v] ELSE d.reserved[v]
  BY <1>1, PublishedTables
<1> HIDE DEF u
<1>3. \A v \in Variants : InventoryRow(v) \in mine =>
        /\ t.reserved[v] = d.reserved[v]
        /\ t.onHand[v] + UnitsOf(t, t.saleOut[s], v) = d.onHand[v]
        /\ t.onHand[v] < d.onHand[v] => t.reserved[v] <= t.onHand[v]
  BY DEF Sees, InventorySeen, HeldCurrent
<1>4. u.reserved = d.reserved
  <2>1. u.reserved \in [Variants -> Nat] /\ d.reserved \in [Variants -> Nat]
    BY <1>1, <1>2, TableTypes
  <2>2. \A v \in Variants : u.reserved[v] = d.reserved[v]
    BY <1>2, <1>3
  <2> QED
    BY <2>1, <2>2
<1>5. ASSUME NEW v \in Variants
      PROVE  /\ UnitsOf(u, u.saleOut[s], v) \in Nat
             /\ InventoryRow(v) \in mine
                => UnitsOf(u, u.saleOut[s], v) = UnitsOf(t, t.saleOut[s], v)
             /\ InventoryRow(v) \notin mine => UnitsOf(u, u.saleOut[s], v) = 0
  <2>1. ASSUME NEW b \in Batches
        PROVE  /\ t.saleOut[s][b] \in Nat
               /\ t.batch[b] # d.batch[b] => t.saleOut[s][b] = 0
    <3>1. t.saleOut[s][b] \in Nat /\ t.batch[b].received \in Nat
      BY <1>1, TableTypes
    <3>2. t.batch[b].received > 0 => t.batch[b] = d.batch[b]
      BY DEF Sees, ReceiptsSeen
    <3> QED
      BY <1>1, <3>1, <3>2, NothingTaken
  <2>2. \A b \in Batches :
          /\ t.saleOut[s][b] \in Nat
          /\ (IF u.batch[b].variant = v THEN u.saleOut[s][b] ELSE 0)
               = (IF t.batch[b].variant = v THEN t.saleOut[s][b] ELSE 0)
    BY <1>2, <2>1
  <2>3. /\ UnitsOf(u, u.saleOut[s], v) = UnitsOf(t, t.saleOut[s], v)
        /\ UnitsOf(t, t.saleOut[s], v) \in Nat
    BY <2>2, UnitsSame
  <2>4. CASE InventoryRow(v) \notin mine
    <3>1. \A b \in Batches : u.batch[b].variant = v => u.saleOut[s][b] = 0
      BY <1>2, <2>4 DEF Sees, SalesSeen, NoUnits
    <3>2. UnitsOf(u, u.saleOut[s], v) = 0
      BY <3>1, UnitsNone
    <3> QED
      BY <2>4, <3>2
  <2> QED
    BY <2>3, <2>4
<1>6. \A v \in Variants : UnitsOf(d, d.saleOut[s], v) = 0
  <2>1. \A b \in Batches : d.saleOut[s][b] = 0
    BY DEF Sees, SalesSeen, NoUnits
  <2> QED
    BY <2>1, UnitsNone
<1>7. ASSUME NEW v \in Variants
      PROVE  /\ 0 <= d.onHand[v] - u.onHand[v]
             /\ d.onHand[v] - u.onHand[v] > 0
                => d.onHand[v] - u.onHand[v] <= d.onHand[v] - d.reserved[v]
             /\ UnitsOf(u, u.saleOut[s], v)
                  = UnitsOf(d, d.saleOut[s], v) + (d.onHand[v] - u.onHand[v])
  <2>1. /\ d.onHand[v] \in Nat /\ t.onHand[v] \in Nat /\ d.reserved[v] \in Nat
        /\ t.reserved[v] \in Nat
    BY <1>1, TableTypes
  <2>2. CASE InventoryRow(v) \in mine
    <3>1. u.onHand[v] = t.onHand[v]
      BY <1>2, <2>2
    <3>2. /\ UnitsOf(u, u.saleOut[s], v) = UnitsOf(t, t.saleOut[s], v)
          /\ UnitsOf(u, u.saleOut[s], v) \in Nat
      BY <1>5, <2>2
    <3> QED
      BY <1>3, <1>6, <2>1, <2>2, <3>1, <3>2
  <2>3. CASE InventoryRow(v) \notin mine
    <3>1. u.onHand[v] = d.onHand[v] /\ UnitsOf(u, u.saleOut[s], v) = 0
      BY <1>2, <1>5, <2>3
    <3> QED
      BY <1>6, <2>1, <3>1
  <2> QED
    BY <2>2, <2>3
<1>8. \A o \in Orders \ {s}, v \in Variants :
        UnitsOf(u, u.saleOut[o], v) = UnitsOf(d, d.saleOut[o], v)
  BY <1>1, <1>2, SameSold
<1>9. /\ u.reserved = d.reserved
      /\ \A v \in Variants :
           /\ 0 <= d.onHand[v] - u.onHand[v]
           /\ d.onHand[v] - u.onHand[v] > 0
              => d.onHand[v] - u.onHand[v] <= d.onHand[v] - d.reserved[v]
      /\ \A v \in Variants :
           UnitsOf(u, u.saleOut[s], v)
             = UnitsOf(d, d.saleOut[s], v) + (d.onHand[v] - u.onHand[v])
      /\ \A o \in Orders \ {s}, v \in Variants :
           UnitsOf(u, u.saleOut[o], v) = UnitsOf(d, d.saleOut[o], v)
  BY <1>4, <1>7, <1>8
<1> QED
  BY <1>9 DEF u

\* What the other sessions publish.
LEMMA OthersPublished ==
  ASSUME NEW s \in Sessions, NEW d, NEW t, NEW mine, NEW old, NEW kind,
         Sound(d), Sound(t), Sees(s, d, t, mine, old, kind)
  PROVE  LET u == Published(s, d, t, mine, kind)
         IN  /\ kind \in {"reserve", "release"} => u.onHand = d.onHand
             /\ kind = "reserve" =>
                  \A v \in Variants :
                    /\ 0 <= u.reserved[v] - d.reserved[v]
                    /\ u.reserved[v] - d.reserved[v] > 0
                       => u.reserved[v] - d.reserved[v] <= d.onHand[v] - d.reserved[v]
             /\ kind = "release" => \A v \in Variants : 0 <= d.reserved[v] - u.reserved[v]
             /\ kind \in {"write", "adjust"} => u.reserved = d.reserved
<1> DEFINE u == Published(s, d, t, mine, kind)
<1>1. d \in Tables /\ t \in Tables
  BY DEF Sound
<1>2. /\ u \in Tables
      /\ \A v \in Variants :
           /\ u.onHand[v] = IF InventoryRow(v) \in mine THEN t.onHand[v] ELSE d.onHand[v]
           /\ u.reserved[v] = IF InventoryRow(v) \in mine /\ kind # "write"
                              THEN t.reserved[v] ELSE d.reserved[v]
  BY <1>1, PublishedTables
<1> HIDE DEF u
<1>3. /\ u.onHand \in [Variants -> Nat] /\ d.onHand \in [Variants -> Nat]
      /\ u.reserved \in [Variants -> Nat] /\ d.reserved \in [Variants -> Nat]
      /\ t.onHand \in [Variants -> Nat] /\ t.reserved \in [Variants -> Nat]
  BY <1>1, <1>2, TableTypes
<1>4. ASSUME NEW v \in Variants, InventoryRow(v) \in mine, kind # "write"
      PROVE  /\ kind \in {"reserve", "release"} => t.onHand[v] = d.onHand[v]
             /\ kind \notin {"reserve", "release"} => t.reserved[v] = d.reserved[v]
             /\ kind = "reserve" =>
                  /\ d.reserved[v] <= t.reserved[v]
                  /\ d.reserved[v] < t.reserved[v] => t.reserved[v] <= t.onHand[v]
             /\ kind = "release" => t.reserved[v] <= d.reserved[v]
  BY <1>4 DEF Sees, InventorySeen, HeldCurrent
<1>5. kind \in {"reserve", "release"} => u.onHand = d.onHand
  <2>1. kind \in {"reserve", "release"} => \A v \in Variants : u.onHand[v] = d.onHand[v]
    BY <1>2, <1>4
  <2> QED
    BY <1>3, <2>1
<1>6. kind \in {"write", "adjust"} => u.reserved = d.reserved
  <2>1. kind \in {"write", "adjust"} => \A v \in Variants : u.reserved[v] = d.reserved[v]
    BY <1>2, <1>4
  <2> QED
    BY <1>3, <2>1
<1>7. ASSUME kind = "reserve", NEW v \in Variants
      PROVE  /\ 0 <= u.reserved[v] - d.reserved[v]
             /\ u.reserved[v] - d.reserved[v] > 0
                => u.reserved[v] - d.reserved[v] <= d.onHand[v] - d.reserved[v]
  <2>1. /\ u.reserved[v] \in Nat /\ d.reserved[v] \in Nat /\ d.onHand[v] \in Nat
        /\ t.reserved[v] \in Nat /\ t.onHand[v] \in Nat
    BY <1>3
  <2> QED
    BY <1>2, <1>4, <1>7, <2>1
<1>8. ASSUME kind = "release", NEW v \in Variants
      PROVE  0 <= d.reserved[v] - u.reserved[v]
  <2>1. u.reserved[v] \in Nat /\ d.reserved[v] \in Nat /\ t.reserved[v] \in Nat
    BY <1>3
  <2> QED
    BY <1>2, <1>4, <1>8, <2>1
<1>9. /\ kind \in {"reserve", "release"} => u.onHand = d.onHand
      /\ kind = "reserve" =>
           \A v \in Variants :
             /\ 0 <= u.reserved[v] - d.reserved[v]
             /\ u.reserved[v] - d.reserved[v] > 0
                => u.reserved[v] - d.reserved[v] <= d.onHand[v] - d.reserved[v]
      /\ kind = "release" => \A v \in Variants : 0 <= d.reserved[v] - u.reserved[v]
      /\ kind \in {"write", "adjust"} => u.reserved = d.reserved
  BY <1>5, <1>6, <1>7, <1>8
<1> QED
  BY <1>9 DEF u

-----------------------------------------------------------------------------
(* The steps, as the contract sees them                                    *)

\* A commit is the sale, the reservation, the release or the write that the
\* session was for, taken at once.
LEMMA CommitMaps ==
  ASSUME IInv, IInv', NEW s \in Sessions, Commit(s)
  PROVE  Contract!Next
<1> DEFINE d == db
           t == copy[s]
           mine == HeldBy(s)
           kind == tx[s].kind
           u == Published(s, d, t, mine, kind)
<1>1. /\ Sound(d) /\ Sound(t) /\ kind \in Kinds
      /\ Sees(s, d, t, mine, stale[s], kind)
  BY DEF IInv, SessionInv, Commit
<1>2. /\ db' = u
      /\ written' = IF Writes(s)
                    THEN [v \in Variants |-> written[v] + db'.onHand[v] - db.onHand[v]]
                    ELSE written
  BY DEF Commit, Published, HeldBy
<1>3. /\ HeldUnits(db) = db.reserved /\ HeldUnits(db') = db'.reserved
      /\ HeldUnits(db)' = HeldUnits(db') /\ SoldUnits(db)' = SoldUnits(db')
      /\ db \in Tables /\ db' \in Tables
  BY HeldIsReserved DEF IInv, Sound, HeldUnits, SoldUnits, Held, UnitsOf
<1>4. /\ db.onHand \in [Variants -> Nat] /\ db.reserved \in [Variants -> Nat]
      /\ db'.onHand \in [Variants -> Nat] /\ db'.reserved \in [Variants -> Nat]
      /\ written \in [Variants -> Int]
      /\ s \in Orders
  BY <1>3, TableTypes DEF IInv, Shapes, Orders
<1> HIDE DEF t, mine, u, kind, d
<1>5. CASE kind = "sale"
  <2>1. /\ db'.reserved = db.reserved
        /\ \A v \in Variants :
             /\ 0 <= db.onHand[v] - db'.onHand[v]
             /\ db.onHand[v] - db'.onHand[v] > 0
                => db.onHand[v] - db'.onHand[v] <= db.onHand[v] - db.reserved[v]
        /\ \A v \in Variants :
             UnitsOf(db', db'.saleOut[s], v)
               = UnitsOf(db, db.saleOut[s], v) + (db.onHand[v] - db'.onHand[v])
        /\ \A o \in Orders \ {s}, v \in Variants :
             UnitsOf(db', db'.saleOut[o], v) = UnitsOf(db, db.saleOut[o], v)
    BY <1>1, <1>2, <1>5, SalePublished DEF d, u
  <2>2. SoldUnits(db') = [SoldUnits(db) EXCEPT ![s] =
                            [v \in Variants |-> @[v] + (db.onHand[v] - db'.onHand[v])]]
    <3> DEFINE f == SoldUnits(db)
               g == [f EXCEPT ![s] =
                            [v \in Variants |-> @[v] + (db.onHand[v] - db'.onHand[v])]]
    <3>1. \A o \in Orders, v \in Variants :
            f[o][v] = UnitsOf(db, db.saleOut[o], v)
      BY DEF SoldUnits
    <3>2. f = [o \in Orders |-> f[o]]
      BY DEF SoldUnits
    <3> HIDE DEF f
    <3>3. ASSUME NEW o \in Orders
          PROVE  g[o] = [v \in Variants |-> UnitsOf(db', db'.saleOut[o], v)]
      <4>1. CASE o = s
        BY <1>4, <2>1, <3>1, <3>2, <4>1
      <4>2. CASE o # s
        <5>1. g[o] = f[o]
          BY <3>2, <4>2
        <5>2. f[o] = [v \in Variants |-> UnitsOf(db, db.saleOut[o], v)]
          BY DEF f, SoldUnits
        <5> QED
          BY <2>1, <4>2, <5>1, <5>2
      <4> QED BY <4>1, <4>2
    <3>4. g = [o \in Orders |-> g[o]]
      BY <3>2
    <3> HIDE DEF g
    <3>5. SoldUnits(db') = g
      BY <3>3, <3>4 DEF SoldUnits
    <3> QED
      BY <3>5 DEF f, g
  <2>3. written' = written
    BY <1>2, <1>5 DEF Writes, kind
  <2>4. Contract!Sale(s)
    <3>1. SoldUnits(db)' = [SoldUnits(db) EXCEPT ![s] =
                            [v \in Variants |-> @[v] + (db.onHand[v] - db'.onHand[v])]]
      BY <1>3, <2>2
    <3>2. HeldUnits(db)' = HeldUnits(db)
      BY <1>3, <2>1
    <3> DEFINE lines == Contract!Change(db.onHand', db.onHand)
    <3>3. \A v \in Variants : lines[v] = db.onHand[v] - db'.onHand[v]
      BY DEF Contract!Change
    <3>4. Contract!Affordable(lines)
      <4> HIDE DEF lines
      <4> QED
        BY <2>1, <3>3 DEF Contract!Affordable, Contract!Available
    <3>5. SoldUnits(db)' = [SoldUnits(db) EXCEPT ![s] = Contract!Plus(@, lines)]
      <4>1. [v \in Variants |-> SoldUnits(db)[s][v] + (db.onHand[v] - db'.onHand[v])]
              = Contract!Plus(SoldUnits(db)[s], lines)
        BY <3>3 DEF Contract!Plus
      <4> HIDE DEF lines
      <4> QED
        BY <3>1, <4>1, <1>4 DEF SoldUnits
    <3> QED
      BY <2>1, <2>3, <3>2, <3>4, <3>5 DEF Contract!Sale, SoldUnits, HeldUnits
  <2> QED
    BY <1>4, <2>4 DEF Contract!Next
<1>6. CASE kind # "sale"
  <2>1. SoldUnits(db)' = SoldUnits(db)
    BY <1>1, <1>2, <1>3, <1>6, NothingSold DEF d, u
  <2>2. /\ kind \in {"reserve", "release"} => db'.onHand = db.onHand
        /\ kind = "reserve" =>
             \A v \in Variants :
               /\ 0 <= db'.reserved[v] - db.reserved[v]
               /\ db'.reserved[v] - db.reserved[v] > 0
                  => db'.reserved[v] - db.reserved[v] <= db.onHand[v] - db.reserved[v]
        /\ kind = "release" => \A v \in Variants : 0 <= db.reserved[v] - db'.reserved[v]
        /\ kind \in {"write", "adjust"} => db'.reserved = db.reserved
    BY <1>1, <1>2, OthersPublished DEF d, u
  <2>3. CASE kind = "reserve"
    <3>1. written' = written
      BY <1>2, <2>3 DEF Writes, kind
    <3>2. HeldUnits(db)' = [v \in Variants |->
                              HeldUnits(db)[v] + (db'.reserved[v] - db.reserved[v])]
      BY <1>3, <1>4
    <3>3. Contract!Reserve
      BY <2>1, <2>2, <2>3, <3>1, <3>2
      DEF Contract!Reserve, Contract!Affordable, Contract!Available, Contract!Change,
          Contract!Plus, SoldUnits, HeldUnits
    <3> QED
      BY <3>3 DEF Contract!Next
  <2>4. CASE kind = "release"
    <3>1. written' = written
      BY <1>2, <2>4 DEF Writes, kind
    <3>2. HeldUnits(db) = [v \in Variants |->
                             HeldUnits(db)'[v] + (db.reserved[v] - db'.reserved[v])]
      BY <1>3, <1>4
    <3>3. Contract!Release
      BY <2>1, <2>2, <2>4, <3>1, <3>2
      DEF Contract!Release, Contract!Change, Contract!Plus, SoldUnits, HeldUnits
    <3> QED
      BY <3>3 DEF Contract!Next
  <2>5. CASE kind \in {"write", "adjust"}
    <3>1. written' = [v \in Variants |-> written[v] + db'.onHand[v] - db.onHand[v]]
      BY <1>2, <2>5 DEF Writes, kind
    <3>2. \A v \in Variants :
            /\ db'.onHand[v] - db.onHand[v] = written'[v] - written[v]
            /\ db'.reserved[v] - db.reserved[v] = 0
      BY <1>4, <2>2, <2>5, <3>1
    <3>3. HeldUnits(db)' = HeldUnits(db)
      BY <1>3, <2>2, <2>5
    <3>4. Contract!Write
      BY <2>1, <3>2, <3>3
      DEF Contract!Write, Contract!Change, SoldUnits, HeldUnits
    <3> QED
      BY <3>4 DEF Contract!Next
  <2> QED
    BY <1>1, <1>6, <2>3, <2>4, <2>5 DEF Kinds
<1> QED
  BY <1>5, <1>6

\* A step that leaves the tables alone is none of the contract.
LEMMA NoStep ==
  ASSUME UNCHANGED <<db, written>>
  PROVE  UNCHANGED Contract!vars
<1>1. UNCHANGED <<db.onHand, db.reserved, SoldUnits(db), HeldUnits(db), written,
                  [v \in Variants |-> 0]>>
  BY DEF SoldUnits, HeldUnits, UnitsOf, Held
<1> QED
  BY <1>1 DEF Contract!vars, SoldUnits, HeldUnits

\* Nor is a receipt: its goods are not on hand yet.
LEMMA ReceiptMaps ==
  ASSUME IInv, IInv', NEW b \in Batches, NEW v \in Variants, NEW q \in 1..MaxQty,
         Receive(b, v, q)
  PROVE  UNCHANGED Contract!vars
<1>0. q \in Nat /\ db \in Tables
  BY TransactionsAssumption DEF IInv, Sound
<1>1. db' = Received(db, b, v, q)
  BY DEF Receive, Received
<1>2. /\ db'.onHand = db.onHand /\ db'.reserved = db.reserved
      /\ db'.saleOut = db.saleOut
      /\ \A c \in Batches \ {b} : db'.batch[c] = db.batch[c]
  <2> DEFINE u == Received(db, b, v, q)
  <2>1. /\ u \in Tables
        /\ u.onHand = db.onHand /\ u.reserved = db.reserved
        /\ u.saleOut = db.saleOut /\ u.resv = db.resv
        /\ u.batch[b] = [variant |-> v, received |-> q]
        /\ \A c \in Batches \ {b} : u.batch[c] = db.batch[c]
    BY <1>0, ReceivedTables
  <2>2. db' = u
    BY <1>1
  <2> HIDE DEF u
  <2> QED
    BY <2>1, <2>2
<1>3. HeldUnits(db)' = HeldUnits(db)
  <2>1. HeldUnits(db) = db.reserved /\ HeldUnits(db') = db'.reserved
    BY HeldIsReserved DEF IInv, Sound, HeldUnits, Held, UnitsOf
  <2>2. HeldUnits(db)' = HeldUnits(db')
    BY DEF HeldUnits, Held
  <2> QED
    BY <1>2, <2>1, <2>2
<1>4. ASSUME NEW o \in Orders, NEW w \in Variants
      PROVE  UnitsOf(db', db'.saleOut[o], w) = UnitsOf(db, db.saleOut[o], w)
  <2>1. db.saleOut[o][b] = 0
    BY NothingTaken DEF IInv, Receive
  <2>2. \A c \in Batches :
          /\ db.saleOut[o][c] \in Nat
          /\ (IF db'.batch[c].variant = w THEN db'.saleOut[o][c] ELSE 0)
               = (IF db.batch[c].variant = w THEN db.saleOut[o][c] ELSE 0)
    BY <1>0, <1>2, <2>1, TableTypes
  <2> QED
    BY <2>2, UnitsSame
<1>5. SoldUnits(db)' = SoldUnits(db)
  BY <1>4 DEF SoldUnits, UnitsOf
<1>6. written' = written
  BY DEF Receive
<1> QED
  BY <1>2, <1>3, <1>5, <1>6 DEF Contract!vars, SoldUnits, HeldUnits

\* The whole next-state relation: only a commit is a step of the contract.
LEMMA StepMaps ==
  ASSUME IInv, IInv', [Next]_vars
  PROVE  [Contract!Next]_Contract!vars
<1>1. ASSUME NEW s \in Sessions, Begin(s) \/ Progress(s) \/ Cancel(s)
      PROVE  Contract!Next \/ UNCHANGED <<db, written>>
  <2>1. CASE Begin(s)
    BY <2>1 DEF Begin, Start
  <2>2. CASE Statement(s)
    BY <2>2 DEF Statement, SellLine, ReserveLine, RefuseLine, LockReservation, ReleaseLine,
                SkipLine, WriteLine, Done, Rollback
  <2>3. CASE Commit(s)
    BY <2>3, CommitMaps
  <2>4. CASE FailSerialization(s) \/ BreakDeadlock(s) \/ Cancel(s)
    BY <2>4 DEF FailSerialization, BreakDeadlock, Cancel, Rollback
  <2> QED
    BY <1>1, <2>1, <2>2, <2>3, <2>4 DEF Progress
<1>2. ASSUME NEW b \in Batches, NEW v \in Variants, NEW q \in 1..MaxQty, Receive(b, v, q)
      PROVE  UNCHANGED Contract!vars
  BY <1>2, ReceiptMaps
<1>3. CASE UNCHANGED vars
  BY <1>3, NoStep DEF vars
<1> QED
  BY <1>1, <1>2, <1>3, NoStep DEF Next

LEMMA InitMaps == Init => Contract!Init
<1> SUFFICES ASSUME Init PROVE Contract!Init
  OBVIOUS
<1>1. IInv
  BY InitSafe
<1>2. /\ written = db.onHand
      /\ \A o \in Orders, b \in Batches : db.saleOut[o][b] = 0
  BY DEF Init, NoUnits
<1>3. /\ db.onHand \in [Variants -> Nat] /\ db.reserved \in [Variants -> Nat]
      /\ HeldUnits(db) = db.reserved
  BY <1>1, TableTypes, HeldIsReserved DEF IInv, Sound
<1>4. \A o \in Orders, v \in Variants : UnitsOf(db, db.saleOut[o], v) = 0
  BY <1>2, UnitsNone
<1>5. SoldUnits(db) = [o \in Orders |-> [v \in Variants |-> 0]]
  BY <1>4 DEF SoldUnits
<1>6. db.reserved = [v \in Variants |-> 0 + HeldUnits(db)[v]]
  BY <1>3
<1> QED
  BY <1>2, <1>3, <1>5, <1>6
  DEF Contract!Init, Contract!None, Contract!Plus, SoldUnits, HeldUnits

\* Whatever the order of their statements, of their locks and of their aborts,
\* the transactions keep the contract: a request takes effect at its commit,
\* all of it and from what is available then, or not at all.
THEOREM KeepsContract == Spec => ImplementsContract
<1>1. Init => Contract!Init
  BY InitMaps
<1>2. IInv /\ IInv' /\ [Next]_vars => [Contract!Next]_Contract!vars
  BY StepMaps
<1> QED
  BY <1>1, <1>2, InvariantHolds, PTL DEF Spec, ImplementsContract, Contract!Spec
=============================================================================
