--------------------------- MODULE InventoryProofs --------------------------
(***************************************************************************)
(* The safety of module Inventory for any number of orders, batch items,   *)
(* reservations and workers, and that it implements StockContract.         *)
(***************************************************************************)
EXTENDS Inventory, SumLemmas, FiniteSetTheorems

\* Every line a request has recorded is covered by sale_out rows.
RequestsHoldStock ==
  \A o \in Orders, v \in Variants : request[o].lines[v] <= UnitsOf(saleOut[o], v)

\* A variant that is not created yet has no quantities.
UncreatedEmpty ==
  \A v \in Variants \ catalog :
    onHand[v] = 0 /\ written[v] = 0 /\ reserved[v] = 0 /\ inherited[v] = 0

\* The inductive invariant: the quantities only stay natural numbers because
\* the totals behind them are right.
IInv ==
  /\ TypeOK
  /\ ReservedAccounted
  /\ BatchNeverOversold
  /\ OnHandReconciles
  /\ RequestsHoldStock
  /\ UncreatedEmpty

-----------------------------------------------------------------------------
(* Facts about the queries                                                 *)

\* The deducted units of a batch item are a natural number.
LEMMA DeductedNat ==
  ASSUME TypeOK, NEW b \in Batches
  PROVE  /\ Deducted(b) \in Nat
         /\ \A o \in Orders : saleOut[o][b] <= Deducted(b)
<1> DEFINE g == [o \in Orders |-> saleOut[o][b]]
<1>1. NOrders \in Nat
  BY InventoryAssumption
<1>2. \A o \in 1..NOrders : g[o] \in Nat
  <2>1. saleOut \in [Orders -> [Batches -> Nat]]
    BY DEF TypeOK
  <2> QED BY <2>1 DEF Orders
<1> HIDE DEF g
<1>3. SumTo(g, NOrders) \in Nat
  BY <1>1, <1>2, SumToType
<1>4. ASSUME NEW o \in 1..NOrders
      PROVE  g[o] <= SumTo(g, NOrders)
  <2> DEFINE h == [i \in 1..NOrders |-> IF i = o THEN g[o] ELSE 0]
  <2>1. \A i \in 1..NOrders : h[i] \in Int /\ g[i] \in Int /\ h[i] <= g[i]
    BY <1>2
  <2>2. h[o] \in Int /\ h[o] = g[o] /\ \A i \in 1..NOrders : i # o => h[i] = 0
    BY <1>2
  <2> HIDE DEF h
  <2>3. SumTo(h, NOrders) = h[o]
    BY <1>1, <2>2, SumToOne
  <2>4. SumTo(h, NOrders) <= SumTo(g, NOrders)
    BY <1>1, <2>1, SumToMonotone
  <2> QED BY <2>2, <2>3, <2>4
<1> QED
  BY <1>3, <1>4 DEF g, Deducted, Orders

\* What the batch items of a variant have left is a natural number.
LEMMA FifoStockNat ==
  ASSUME TypeOK, BatchNeverOversold, NEW v \in Variants
  PROVE  \A b \in 1..NBatches : FifoStock(v)[b] \in Nat
<1>1. \A b \in Batches : /\ Deducted(b) \in Nat
                         /\ batch[b].received \in Nat
                         /\ Deducted(b) <= batch[b].received
  BY DeductedNat DEF TypeOK, BatchNeverOversold
<1> QED
  BY <1>1 DEF FifoStock, Batches

\* The waterfall takes no more than a batch item has.
LEMMA TakenBounds ==
  ASSUME TypeOK, BatchNeverOversold, NEW lines \in Lines, NEW b \in Batches
  PROVE  /\ Taken(lines, b) \in Nat
         /\ Taken(lines, b) <= batch[b].received - Deducted(b)
<1> DEFINE v == batch[b].variant
<1>1. v \in Variants /\ lines[v] \in Nat /\ NBatches \in Nat
  BY InventoryAssumption DEF TypeOK, Lines
<1>2. \A c \in 1..NBatches : FifoStock(v)[c] \in Nat
  BY <1>1, FifoStockNat
<1>3. /\ Consumed(FifoStock(v), lines[v], NBatches)[b] \in Nat
      /\ Consumed(FifoStock(v), lines[v], NBatches)[b] <= FifoStock(v)[b]
  BY <1>1, <1>2, ConsumedBounds DEF Batches
<1>4. FifoStock(v)[b] = batch[b].received - Deducted(b)
  BY DEF FifoStock
<1> QED
  BY <1>3, <1>4 DEF Taken

\* A sale takes from the batch items exactly the units of its lines.
LEMMA TakenTotal ==
  ASSUME TypeOK, BatchNeverOversold, NEW lines \in Lines, CanSubtract(lines),
         NEW v \in Variants
  PROVE  UnitsOf([b \in Batches |-> Taken(lines, b)], v) = lines[v]
<1> DEFINE C == Consumed(FifoStock(v), lines[v], NBatches)
           R == Remaining(FifoStock(v), lines[v], NBatches)
           h == [b \in Batches |->
                   IF batch[b].variant = v
                   THEN [c \in Batches |-> Taken(lines, c)][b] ELSE 0]
<1>1. lines[v] \in Nat /\ NBatches \in Nat
  BY InventoryAssumption DEF Lines
<1>2. \A b \in 1..NBatches : FifoStock(v)[b] \in Nat
  BY FifoStockNat
<1>3. \A b \in 1..NBatches : C[b] \in Nat /\ C[b] <= FifoStock(v)[b]
  BY <1>1, <1>2, ConsumedBounds
<1>4. \A b \in 1..NBatches : batch[b].variant # v => FifoStock(v)[b] = 0
  BY DEF FifoStock, Batches
<1>5. \A b \in 1..NBatches : C[b] \in Int /\ h[b] = C[b]
  <2> SUFFICES ASSUME NEW b \in 1..NBatches PROVE C[b] \in Int /\ h[b] = C[b]
    OBVIOUS
  <2>1. CASE batch[b].variant = v
    <3>1. Taken(lines, b) = C[b]
      BY <2>1 DEF Taken
    <3>2. h[b] = Taken(lines, b)
      BY <2>1 DEF Batches
    <3> QED BY <1>3, <3>1, <3>2
  <2>2. CASE batch[b].variant # v
    <3>1. C[b] = 0
      <4> HIDE DEF C
      <4> QED BY <1>2, <1>3, <1>4, <2>2
    <3>2. h[b] = 0
      BY <2>2 DEF Batches
    <3> QED BY <3>1, <3>2
  <2> QED BY <2>1, <2>2
<1>6. SumTo(h, NBatches) = SumTo(C, NBatches)
  <2> HIDE DEF h, C
  <2> QED BY <1>1, <1>5, SumToSame
<1>7. SumTo(C, NBatches) = lines[v] - R[NBatches]
  BY <1>1, <1>2, ConsumedTotal
<1>8. R[NBatches] = 0
  <2>1. CASE lines[v] > 0
    BY <2>1 DEF CanSubtract, Covers
  <2>2. CASE lines[v] = 0
    <3>1. /\ \A b \in 0..NBatches : R[b] \in Nat
          /\ \A c \in 0..NBatches : \A b \in c..NBatches : R[b] <= R[c]
      BY <1>1, <1>2, RemainingFalls
    <3>2. R[0] = 0
      BY <1>1, <2>2, RemainingStep
    <3> HIDE DEF R
    <3> QED BY <1>1, <3>1, <3>2
  <2> QED BY <1>1, <2>1, <2>2
<1>9. UnitsOf([b \in Batches |-> Taken(lines, b)], v) = SumTo(h, NBatches)
  BY DEF UnitsOf
<1> QED
  <2> HIDE DEF h, C, R
  <2> QED BY <1>1, <1>6, <1>7, <1>8, <1>9

\* The units of a variant are a natural number.
LEMMA UnitsOfNat ==
  ASSUME NEW f, NEW v, \A b \in Batches : f[b] \in Nat
  PROVE  UnitsOf(f, v) \in Nat
<1> DEFINE F == [b \in Batches |-> IF batch[b].variant = v THEN f[b] ELSE 0]
<1>1. NBatches \in Nat
  BY InventoryAssumption
<1>2. \A b \in 1..NBatches : F[b] \in Nat
  BY DEF Batches
<1> HIDE DEF F
<1>3. SumTo(F, NBatches) \in Nat
  BY <1>1, <1>2, SumToType
<1> QED
  BY <1>3 DEF F, UnitsOf

\* The units of a variant add up when quantities are added item by item.
LEMMA UnitsOfAdd ==
  ASSUME NEW f, NEW g, NEW h, NEW v,
         \A b \in Batches : f[b] \in Nat /\ g[b] \in Nat /\ h[b] = f[b] + g[b]
  PROVE  /\ UnitsOf(f, v) \in Nat /\ UnitsOf(g, v) \in Nat
         /\ UnitsOf(h, v) = UnitsOf(f, v) + UnitsOf(g, v)
<1> DEFINE F == [b \in Batches |-> IF batch[b].variant = v THEN f[b] ELSE 0]
           G == [b \in Batches |-> IF batch[b].variant = v THEN g[b] ELSE 0]
           H == [b \in Batches |-> IF batch[b].variant = v THEN h[b] ELSE 0]
<1>1. NBatches \in Nat
  BY InventoryAssumption
<1>2. \A b \in 1..NBatches : F[b] \in Nat /\ G[b] \in Nat /\ H[b] = F[b] + G[b]
  BY DEF Batches
<1>3. /\ UnitsOf(f, v) = SumTo(F, NBatches)
      /\ UnitsOf(g, v) = SumTo(G, NBatches)
      /\ UnitsOf(h, v) = SumTo(H, NBatches)
  BY DEF UnitsOf
<1> HIDE DEF F, G, H
<1>4. SumTo(F, NBatches) \in Nat /\ SumTo(G, NBatches) \in Nat
  BY <1>1, <1>2, SumToType
<1>5. \A b \in 1..NBatches : F[b] \in Int /\ G[b] \in Int /\ H[b] = F[b] + G[b]
  BY <1>2
<1>6. SumTo(H, NBatches) = SumTo(F, NBatches) + SumTo(G, NBatches)
  BY <1>1, <1>5, SumToAdd
<1> QED
  BY <1>3, <1>4, <1>6

\* What reservations hold is a natural number.
LEMMA HeldNat ==
  ASSUME NEW table, NEW D, NEW v,
         \A r \in Reservations \cap D : table[r].quantity \in Nat
  PROVE  Held(table, D, v) \in Nat
<1> DEFINE g == [r \in Reservations |-> IF r \in D /\ table[r].variant = v
                                        THEN table[r].quantity ELSE 0]
<1>1. NReservations \in Nat
  BY InventoryAssumption
<1>2. \A r \in 1..NReservations : g[r] \in Nat
  BY DEF Reservations
<1> HIDE DEF g
<1>3. SumTo(g, NReservations) \in Nat
  BY <1>1, <1>2, SumToType
<1> QED
  BY <1>3 DEF g, Held

\* When the rows in D1 and those in D2 make up, without overlap, the rows of
\* another table in D, what they hold adds up.
LEMMA HeldAdd ==
  ASSUME NEW t1, NEW D1, NEW t2, NEW D2, NEW t, NEW D, NEW v,
         D = D1 \cup D2, D1 \cap D2 = {},
         \A r \in Reservations \cap D1 :
           /\ t1[r].quantity \in Nat
           /\ t[r].variant = t1[r].variant /\ t[r].quantity = t1[r].quantity,
         \A r \in Reservations \cap D2 :
           /\ t2[r].quantity \in Nat
           /\ t[r].variant = t2[r].variant /\ t[r].quantity = t2[r].quantity
  PROVE  Held(t, D, v) = Held(t1, D1, v) + Held(t2, D2, v)
<1> DEFINE F == [r \in Reservations |-> IF r \in D1 /\ t1[r].variant = v
                                        THEN t1[r].quantity ELSE 0]
           G == [r \in Reservations |-> IF r \in D2 /\ t2[r].variant = v
                                        THEN t2[r].quantity ELSE 0]
           H == [r \in Reservations |-> IF r \in D /\ t[r].variant = v
                                        THEN t[r].quantity ELSE 0]
<1>1. NReservations \in Nat
  BY InventoryAssumption
<1>2. \A r \in 1..NReservations :
        F[r] \in Int /\ G[r] \in Int /\ H[r] = F[r] + G[r]
  <2> TAKE r \in 1..NReservations
  <2>1. CASE r \in D1
    BY <2>1 DEF Reservations
  <2>2. CASE r \in D2
    BY <2>2 DEF Reservations
  <2>3. CASE r \notin D
    BY <2>3 DEF Reservations
  <2> QED BY <2>1, <2>2, <2>3
<1>3. /\ Held(t, D, v) = SumTo(H, NReservations)
      /\ Held(t1, D1, v) = SumTo(F, NReservations)
      /\ Held(t2, D2, v) = SumTo(G, NReservations)
  BY DEF Held
<1> HIDE DEF F, G, H
<1>4. SumTo(H, NReservations) = SumTo(F, NReservations) + SumTo(G, NReservations)
  BY <1>1, <1>2, SumToAdd
<1> QED
  BY <1>3, <1>4

-----------------------------------------------------------------------------
(* What the steps do to the totals                                         *)

\* A sale raises what is deducted from each batch item by what it takes.
LEMMA DeductedAfterSale ==
  ASSUME TypeOK, BatchNeverOversold, NEW o \in Orders, NEW lines \in Lines,
         SubtractStock(o, lines), NEW b \in Batches
  PROVE  Deducted(b)' = Deducted(b) + Taken(lines, b)
<1> DEFINE g == [i \in Orders |-> saleOut[i][b]]
           h == [i \in Orders |-> saleOut'[i][b]]
<1>1. NOrders \in Nat /\ Taken(lines, b) \in Nat
  BY InventoryAssumption, TakenBounds
<1>2. saleOut \in [Orders -> [Batches -> Nat]]
  BY DEF TypeOK
<1>3. saleOut' = [saleOut EXCEPT ![o] =
                    [c \in Batches |-> saleOut[o][c] + Taken(lines, c)]]
  BY DEF SubtractStock
<1>4. /\ \A i \in 1..NOrders : g[i] \in Nat /\ (i # o => h[i] = g[i])
      /\ h[o] = g[o] + Taken(lines, b)
  BY <1>2, <1>3 DEF Orders
<1>5. o \in 1..NOrders
  BY DEF Orders
<1>6. \A i \in 1..NOrders : g[i] \in Int /\ h[i] \in Int
  <2> TAKE i \in 1..NOrders
  <2> HIDE DEF g, h
  <2>1. CASE i = o
    BY <1>1, <1>4, <2>1
  <2>2. CASE i # o
    BY <1>4, <2>2
  <2> QED BY <2>1, <2>2
<1>7. Deducted(b) = SumTo(g, NOrders) /\ Deducted(b)' = SumTo(h, NOrders)
  BY DEF Deducted
<1> HIDE DEF g, h
<1>8. SumTo(h, NOrders) = SumTo(g, NOrders) + h[o] - g[o]
  BY <1>1, <1>4, <1>5, <1>6, SumToUpdate
<1>9. SumTo(g, NOrders) \in Nat
  BY <1>1, <1>4, SumToType
<1> QED
  BY <1>1, <1>4, <1>5, <1>7, <1>8, <1>9

\* A sale of stock preserves what the invariant says of stock and ledger.
LEMMA SaleSafe ==
  ASSUME IInv, NEW o \in Orders, NEW lines \in Lines, SubtractStock(o, lines)
  PROVE  /\ onHand' \in [Variants -> Nat]
         /\ saleOut' \in [Orders -> [Batches -> Nat]]
         /\ BatchNeverOversold'
         /\ OnHandReconciles'
         /\ \A v \in Variants : lines[v] <= UnitsOf(saleOut[o], v)'
         /\ \A i \in Orders, v \in Variants :
              UnitsOf(saleOut[i], v) <= UnitsOf(saleOut[i], v)'
<1> USE DEF IInv
<1> DEFINE take == [b \in Batches |-> Taken(lines, b)]
<1>1. \A b \in Batches : /\ Taken(lines, b) \in Nat
                         /\ Taken(lines, b) <= batch[b].received - Deducted(b)
                         /\ Deducted(b) \in Nat
                         /\ Deducted(b)' = Deducted(b) + Taken(lines, b)
  BY TakenBounds, DeductedNat, DeductedAfterSale
<1>2. /\ batch' = batch /\ written' = written
      /\ saleOut' = [saleOut EXCEPT ![o] =
                       [b \in Batches |-> saleOut[o][b] + Taken(lines, b)]]
      /\ onHand' = [v \in Variants |-> onHand[v] - lines[v]]
      /\ CanSubtract(lines)
  BY DEF SubtractStock
<1>3. /\ saleOut \in [Orders -> [Batches -> Nat]]
      /\ onHand \in [Variants -> Nat] /\ reserved \in [Variants -> Nat]
      /\ written \in [Variants -> Int]
      /\ \A b \in Batches : batch[b].received \in Nat
      /\ lines \in [Variants -> Nat]
  BY InventoryAssumption DEF TypeOK, Lines
<1>4. onHand' \in [Variants -> Nat]
  <2>1. ASSUME NEW v \in Variants PROVE onHand[v] - lines[v] \in Nat
    <3>1. lines[v] > 0 => lines[v] <= onHand[v] - reserved[v]
      BY <1>2 DEF CanSubtract, Available
    <3> QED BY <1>3, <3>1
  <2> QED BY <1>2, <2>1
<1>5. saleOut' \in [Orders -> [Batches -> Nat]]
  BY <1>1, <1>2, <1>3
<1>6. BatchNeverOversold'
  BY <1>1, <1>2, <1>3 DEF BatchNeverOversold
<1>7. ASSUME NEW v \in Variants PROVE UnitsOf(take, v) = lines[v]
  BY <1>2, TakenTotal
<1> HIDE DEF take
<1>8. \A v \in Variants : lines[v] \in Nat
  BY <1>3
<1>9. ASSUME NEW v \in Variants
      PROVE  /\ lines[v] <= UnitsOf(saleOut[o], v)'
             /\ UnitsOf(saleOut[o], v) <= UnitsOf(saleOut[o], v)'
  <2>1. UnitsOf(saleOut[o], v)' = UnitsOf(saleOut'[o], v)
    BY <1>2 DEF UnitsOf
  <2>2. \A b \in Batches : /\ saleOut[o][b] \in Nat /\ take[b] \in Nat
                           /\ saleOut'[o][b] = saleOut[o][b] + take[b]
    BY <1>1, <1>2, <1>3 DEF take
  <2>3. /\ UnitsOf(saleOut[o], v) \in Nat
        /\ UnitsOf(saleOut'[o], v) = UnitsOf(saleOut[o], v) + UnitsOf(take, v)
    BY <2>2, UnitsOfAdd
  <2> QED BY <1>7, <1>8, <2>1, <2>3
<1>10. ASSUME NEW i \in Orders, NEW v \in Variants, i # o
       PROVE  UnitsOf(saleOut[i], v) <= UnitsOf(saleOut[i], v)'
  <2>1. UnitsOf(saleOut[i], v)' = UnitsOf(saleOut[i], v)
    BY <1>2, <1>3, <1>10 DEF UnitsOf
  <2>2. UnitsOf(saleOut[i], v) \in Nat
    <3>1. \A b \in Batches : saleOut[i][b] \in Nat
      BY <1>3
    <3> QED BY <3>1, UnitsOfNat
  <2> QED BY <2>1, <2>2
<1>11. OnHandReconciles'
  <2> SUFFICES ASSUME NEW v \in Variants
               PROVE  (onHand[v] = written[v] - Sold(v))'
    BY DEF OnHandReconciles
  <2> DEFINE before == [b \in Batches |-> Deducted(b)]
             after  == [b \in Batches |-> Deducted(b)']
  <2>1. \A b \in Batches : /\ before[b] \in Nat /\ take[b] \in Nat
                           /\ after[b] = before[b] + take[b]
    BY <1>1 DEF take
  <2>2. Sold(v) = UnitsOf(before, v) /\ Sold(v)' = UnitsOf(after, v)
    BY <1>2 DEF Sold, UnitsOf
  <2> HIDE DEF before, after
  <2>3. /\ UnitsOf(before, v) \in Nat
        /\ UnitsOf(after, v) = UnitsOf(before, v) + UnitsOf(take, v)
    BY <2>1, UnitsOfAdd
  <2>4. onHand'[v] = onHand[v] - lines[v] /\ onHand[v] = written[v] - Sold(v)
    BY <1>2 DEF OnHandReconciles
  <2>5. written[v] \in Int /\ onHand[v] \in Nat
    BY <1>3
  <2> QED BY <1>2, <1>7, <1>8, <2>2, <2>3, <2>4, <2>5
<1> QED
  BY <1>4, <1>5, <1>6, <1>9, <1>10, <1>11

\* A step that leaves the batch items and the ledger alone leaves their totals.
LEMMA SameLedger ==
  ASSUME batch' = batch, saleOut' = saleOut
  PROVE  /\ \A b \in Batches : Deducted(b)' = Deducted(b)
         /\ \A v \in Variants : Sold(v)' = Sold(v)
         /\ \A o \in Orders, v \in Variants :
              UnitsOf(saleOut[o], v)' = UnitsOf(saleOut[o], v)
<1>1. \A b \in Batches : Deducted(b)' = Deducted(b)
  BY DEF Deducted
<1>2. ASSUME NEW v \in Variants PROVE Sold(v)' = Sold(v)
  <2>1. [b \in Batches |-> Deducted(b)'] = [b \in Batches |-> Deducted(b)]
    BY <1>1
  <2> QED BY <2>1 DEF Sold, UnitsOf
<1>3. \A o \in Orders, v \in Variants :
        UnitsOf(saleOut[o], v)' = UnitsOf(saleOut[o], v)
  BY DEF UnitsOf
<1> QED
  BY <1>1, <1>2, <1>3

\* A release takes from the active reservations what it takes from reserved.
LEMMA ReleaseSafe ==
  ASSUME IInv, NEW D, Release(D)
  PROVE  /\ reserved' \in [Variants -> Nat]
         /\ resv' \in [Reservations -> [state : {"unused", "active", "released"},
                                        variant : Variants, quantity : Nat,
                                        expires_at : Nat]]
         /\ \A v \in Variants :
              /\ inherited[v] <= reserved'[v] /\ reserved'[v] <= reserved[v]
              /\ reserved'[v] = inherited[v] + Held(resv, Active, v)'
<1> USE DEF IInv
<1> DEFINE E == D \cap Active
<1>1. /\ resv' = [r \in Reservations |->
                    IF r \in E THEN [resv[r] EXCEPT !.state = "released"] ELSE resv[r]]
      /\ reserved' = [v \in Variants |-> reserved[v] - Held(resv, E, v)]
  BY DEF Release
<1>2. resv \in [Reservations -> [state : {"unused", "active", "released"},
                                 variant : Variants, quantity : Nat,
                                 expires_at : Nat]]
  BY DEF TypeOK
<1>3. resv' \in [Reservations -> [state : {"unused", "active", "released"},
                                  variant : Variants, quantity : Nat,
                                  expires_at : Nat]]
  BY <1>1, <1>2
<1>4. Active' = Active \ E
  BY <1>1, <1>2 DEF Active, InState
<1>5. ASSUME NEW v \in Variants
      PROVE  /\ Held(resv, E, v) \in Nat
             /\ Held(resv, Active, v)' \in Nat
             /\ Held(resv, Active, v) = Held(resv, E, v) + Held(resv, Active, v)'
  <2>1. Held(resv, Active, v)' = Held(resv', Active \ E, v)
    BY <1>4 DEF Held
  <2>2. /\ Active = E \cup (Active \ E) /\ E \cap (Active \ E) = {}
        /\ \A r \in Reservations \cap E : resv[r].quantity \in Nat
        /\ \A r \in Reservations \cap (Active \ E) :
             /\ resv'[r].quantity \in Nat
             /\ resv[r].variant = resv'[r].variant
             /\ resv[r].quantity = resv'[r].quantity
    BY <1>1, <1>2
  <2> HIDE DEF E
  <2>3. Held(resv, Active, v) = Held(resv, E, v) + Held(resv', Active \ E, v)
    BY <2>2, HeldAdd
  <2>4. Held(resv, E, v) \in Nat /\ Held(resv', Active \ E, v) \in Nat
    BY <2>2, HeldNat
  <2> QED BY <2>1, <2>3, <2>4
<1> HIDE DEF E
<1>6. ASSUME NEW v \in Variants
      PROVE  /\ reserved'[v] \in Nat
             /\ inherited[v] <= reserved'[v] /\ reserved'[v] <= reserved[v]
             /\ reserved'[v] = inherited[v] + Held(resv, Active, v)'
  <2>1. reserved[v] = inherited[v] + Held(resv, Active, v)
    BY DEF ReservedAccounted
  <2>2. inherited[v] \in Nat /\ reserved[v] \in Nat
    BY DEF TypeOK
  <2>3. reserved'[v] = reserved[v] - Held(resv, E, v)
    BY <1>1
  <2> QED BY <1>5, <2>1, <2>2, <2>3
<1>7. reserved' \in [Variants -> Nat]
  BY <1>1, <1>6
<1> QED
  BY <1>3, <1>6, <1>7

\* New reservations add to the active ones what they add to reserved.
LEMMA ReserveSafe ==
  ASSUME IInv, NEW D \in SUBSET Reservations, NEW rows \in [D -> ResvRows],
         NEW ttl \in TTLs, ReserveStock(D, rows, ttl)
  PROVE  /\ reserved' \in [Variants -> Nat]
         /\ resv' \in [Reservations -> [state : {"unused", "active", "released"},
                                        variant : Variants, quantity : Nat,
                                        expires_at : Nat]]
         /\ \A v \in Variants :
              /\ reserved'[v] = inherited[v] + Held(resv, Active, v)'
              /\ v \notin catalog => reserved'[v] = reserved[v]
<1> USE DEF IInv
<1>1. /\ resv' = [r \in Reservations |->
                    IF r \in D THEN [state |-> "active", variant |-> rows[r].variant,
                                     quantity |-> rows[r].quantity,
                                     expires_at |-> now + ttl]
                    ELSE resv[r]]
      /\ reserved' = [v \in Variants |-> reserved[v] + Held(rows, D, v)]
      /\ \A r \in D : resv[r].state = "unused" /\ rows[r].variant \in catalog
  BY DEF ReserveStock, FirstOf, InState
<1>2. /\ resv \in [Reservations -> [state : {"unused", "active", "released"},
                                    variant : Variants, quantity : Nat,
                                    expires_at : Nat]]
      /\ now \in Nat
  BY DEF TypeOK
<1>3. /\ now + ttl \in Nat
      /\ \A r \in D : rows[r].variant \in Variants /\ rows[r].quantity \in Nat
  BY <1>2, InventoryAssumption DEF ResvRows
<1>4. resv' \in [Reservations -> [state : {"unused", "active", "released"},
                                  variant : Variants, quantity : Nat,
                                  expires_at : Nat]]
  BY <1>1, <1>2, <1>3
<1>5. Active' = Active \cup D /\ Active \cap D = {}
  BY <1>1, <1>2 DEF Active, InState
<1>6. ASSUME NEW v \in Variants
      PROVE  /\ Held(rows, D, v) \in Nat
             /\ Held(resv, Active, v) \in Nat
             /\ Held(resv, Active, v)' = Held(resv, Active, v) + Held(rows, D, v)
  <2>1. Held(resv, Active, v)' = Held(resv', Active \cup D, v)
    BY <1>5 DEF Held
  <2>2. /\ \A r \in Reservations \cap Active :
             /\ resv[r].quantity \in Nat
             /\ resv'[r].variant = resv[r].variant
             /\ resv'[r].quantity = resv[r].quantity
        /\ \A r \in Reservations \cap D :
             /\ rows[r].quantity \in Nat
             /\ resv'[r].variant = rows[r].variant
             /\ resv'[r].quantity = rows[r].quantity
    BY <1>1, <1>2, <1>3, <1>5
  <2>3. Held(resv', Active \cup D, v) = Held(resv, Active, v) + Held(rows, D, v)
    BY <1>5, <2>2, HeldAdd
  <2>4. Held(rows, D, v) \in Nat /\ Held(resv, Active, v) \in Nat
    BY <2>2, HeldNat
  <2> QED BY <2>1, <2>3, <2>4
<1>7. ASSUME NEW v \in Variants \ catalog PROVE Held(rows, D, v) = 0
  <2> DEFINE g == [r \in Reservations |-> IF r \in D /\ rows[r].variant = v
                                          THEN rows[r].quantity ELSE 0]
  <2>1. \A r \in 1..NReservations : g[r] = 0
    BY <1>1 DEF Reservations
  <2> HIDE DEF g
  <2>2. SumTo(g, NReservations) = 0
    BY <2>1, InventoryAssumption, SumToZero
  <2> QED BY <2>2 DEF g, Held
<1>8. ASSUME NEW v \in Variants
      PROVE  /\ reserved'[v] \in Nat
             /\ reserved'[v] = inherited[v] + Held(resv, Active, v)'
             /\ v \notin catalog => reserved'[v] = reserved[v]
  <2>1. reserved[v] = inherited[v] + Held(resv, Active, v)
    BY DEF ReservedAccounted
  <2>2. inherited[v] \in Nat /\ reserved[v] \in Nat
    BY DEF TypeOK
  <2>3. reserved'[v] = reserved[v] + Held(rows, D, v)
    BY <1>1
  <2> QED BY <1>6, <1>7, <2>1, <2>2, <2>3
<1>9. reserved' \in [Variants -> Nat]
  BY <1>1, <1>8
<1> QED
  BY <1>4, <1>8, <1>9

-----------------------------------------------------------------------------
(* The invariant is inductive                                              *)

\* It holds of the empty database.
LEMMA InitSafe == Init => IInv
<1> SUFFICES ASSUME Init PROVE IInv
  OBVIOUS
<1>1. (CHOOSE v \in Variants : TRUE) \in Variants
  BY InventoryAssumption
<1>2. TypeOK
  BY <1>1, InventoryAssumption
  DEF Init, TypeOK, PCs, NoLines, Lines
<1>3. \A b \in Batches : Deducted(b) = 0
  <2> TAKE b \in Batches
  <2> DEFINE g == [o \in Orders |-> saleOut[o][b]]
  <2>1. \A o \in 1..NOrders : g[o] = 0
    BY DEF Init, Orders
  <2> HIDE DEF g
  <2>2. SumTo(g, NOrders) = 0
    BY <2>1, InventoryAssumption, SumToZero
  <2> QED BY <2>2 DEF g, Deducted
<1>4. ASSUME NEW u, NEW v, \A b \in Batches : u[b] = 0
      PROVE  UnitsOf(u, v) = 0
  <2> DEFINE g == [b \in Batches |-> IF batch[b].variant = v THEN u[b] ELSE 0]
  <2>1. \A b \in 1..NBatches : g[b] = 0
    BY <1>4 DEF Batches
  <2> HIDE DEF g
  <2>2. SumTo(g, NBatches) = 0
    BY <2>1, InventoryAssumption, SumToZero
  <2> QED BY <2>2 DEF g, UnitsOf
<1>5. ASSUME NEW v \in Variants PROVE Held(resv, Active, v) = 0
  <2> DEFINE g == [r \in Reservations |-> IF r \in Active /\ resv[r].variant = v
                                          THEN resv[r].quantity ELSE 0]
  <2>1. \A r \in 1..NReservations : g[r] = 0
    BY DEF Init, Active, InState, Reservations
  <2> HIDE DEF g
  <2>2. SumTo(g, NReservations) = 0
    BY <2>1, InventoryAssumption, SumToZero
  <2> QED BY <2>2 DEF g, Held
<1>6. ReservedAccounted
  BY <1>5 DEF Init, ReservedAccounted
<1>7. BatchNeverOversold
  BY <1>3 DEF Init, BatchNeverOversold
<1>8. OnHandReconciles
  <2>1. ASSUME NEW v \in Variants PROVE Sold(v) = 0
    BY <1>3, <1>4 DEF Sold
  <2> QED BY <2>1 DEF Init, OnHandReconciles
<1>9. RequestsHoldStock
  <2>1. ASSUME NEW o \in Orders, NEW v \in Variants
        PROVE  UnitsOf(saleOut[o], v) = 0 /\ request[o].lines[v] = 0
    BY <1>4 DEF Init, NoLines
  <2> QED BY <2>1 DEF RequestsHoldStock
<1>10. UncreatedEmpty
  BY DEF Init, UncreatedEmpty
<1> QED
  BY <1>2, <1>6, <1>7, <1>8, <1>9, <1>10 DEF IInv

\* Steps of requests, the clock and the cleanup's listing: no stock moves.
LEMMA FlowSafe ==
  ASSUME IInv, UNCHANGED <<stock, resv>>, TypeOK',
         \A o \in Orders : request'[o].lines \in {request[o].lines, NoLines}
  PROVE  IInv'
<1> USE DEF IInv
<1>1. /\ batch' = batch /\ saleOut' = saleOut /\ onHand' = onHand
      /\ written' = written /\ reserved' = reserved /\ inherited' = inherited
      /\ catalog' = catalog /\ resv' = resv
  BY DEF stock
<1>2. ReservedAccounted'
  BY <1>1 DEF ReservedAccounted, Held, Active, InState
<1>3. BatchNeverOversold'
  BY <1>1, SameLedger DEF BatchNeverOversold
<1>4. OnHandReconciles'
  BY <1>1, SameLedger DEF OnHandReconciles
<1>5. RequestsHoldStock'
  <2> SUFFICES ASSUME NEW o \in Orders, NEW v \in Variants
               PROVE  (request[o].lines[v] <= UnitsOf(saleOut[o], v))'
    BY DEF RequestsHoldStock
  <2>1. UnitsOf(saleOut[o], v)' = UnitsOf(saleOut[o], v)
    BY <1>1, SameLedger
  <2>2. UnitsOf(saleOut[o], v) \in Nat
    <3>1. \A b \in Batches : saleOut[o][b] \in Nat
      BY DEF TypeOK
    <3> QED BY <3>1, UnitsOfNat
  <2>3. request'[o].lines[v] \in {request[o].lines[v], 0}
    BY DEF NoLines
  <2> QED BY <2>1, <2>2, <2>3 DEF RequestsHoldStock
<1>6. UncreatedEmpty'
  BY <1>1 DEF UncreatedEmpty
<1> QED
  BY <1>2, <1>3, <1>4, <1>5, <1>6

\* Writes of onHand that are accounted for in written: no sale, no reservation.
LEMMA WriteSafe ==
  ASSUME IInv, TypeOK', UNCHANGED <<batch, saleOut, resv, request>>,
         NEW v \in Variants, v \in catalog', catalog \subseteq catalog',
         \A w \in Variants : onHand'[w] - written'[w] = onHand[w] - written[w],
         \A w \in Variants : reserved'[w] - inherited'[w] = reserved[w] - inherited[w],
         \A w \in Variants \ {v} : /\ onHand'[w] = onHand[w]
                                   /\ written'[w] = written[w]
                                   /\ reserved'[w] = reserved[w]
                                   /\ inherited'[w] = inherited[w]
  PROVE  IInv'
<1> USE DEF IInv
<1>1. /\ onHand \in [Variants -> Nat] /\ onHand' \in [Variants -> Nat]
      /\ reserved \in [Variants -> Nat] /\ reserved' \in [Variants -> Nat]
      /\ inherited \in [Variants -> Nat] /\ inherited' \in [Variants -> Nat]
      /\ written \in [Variants -> Int] /\ written' \in [Variants -> Int]
  BY DEF TypeOK
<1>2. ReservedAccounted'
  <2> SUFFICES ASSUME NEW w \in Variants
               PROVE  reserved'[w] = inherited'[w] + Held(resv, Active, w)'
    BY DEF ReservedAccounted
  <2>1. Held(resv, Active, w)' = Held(resv, Active, w)
    BY DEF Held, Active, InState
  <2>2. Held(resv, Active, w) \in Nat
    <3>1. \A r \in Reservations \cap Active : resv[r].quantity \in Nat
      BY DEF TypeOK
    <3> QED BY <3>1, HeldNat
  <2>3. reserved[w] = inherited[w] + Held(resv, Active, w)
    BY DEF ReservedAccounted
  <2> QED BY <1>1, <2>1, <2>2, <2>3
<1>3. BatchNeverOversold'
  BY SameLedger DEF BatchNeverOversold
<1>4. OnHandReconciles'
  <2> SUFFICES ASSUME NEW w \in Variants
               PROVE  onHand'[w] = written'[w] - Sold(w)'
    BY DEF OnHandReconciles
  <2>1. Sold(w)' = Sold(w)
    BY SameLedger
  <2>2. Sold(w) \in Nat
    BY DeductedNat, UnitsOfNat DEF Sold
  <2>3. onHand[w] = written[w] - Sold(w)
    BY DEF OnHandReconciles
  <2> QED BY <1>1, <2>1, <2>2, <2>3
<1>5. RequestsHoldStock'
  BY SameLedger DEF RequestsHoldStock
<1>6. UncreatedEmpty'
  BY DEF UncreatedEmpty
<1> QED
  BY <1>2, <1>3, <1>4, <1>5, <1>6

\* A receipt fills batch items from which nothing can have been sold.
LEMMA ReceiveSafe ==
  ASSUME IInv, NEW D \in SUBSET Batches, NEW rows \in [D -> BatchRows],
         Receive(D, rows)
  PROVE  IInv'
<1> USE DEF IInv
<1>1. /\ batch' = [b \in Batches |-> IF b \in D THEN rows[b] ELSE batch[b]]
      /\ \A b \in D : batch[b].received = 0
      /\ UNCHANGED <<catalog, onHand, reserved, saleOut, written, inherited,
                     resv, now, request, orders, compensated, work, expiredTotal>>
  BY DEF Receive, flow, cleanup
<1>2. /\ saleOut \in [Orders -> [Batches -> Nat]]
      /\ batch \in [Batches -> [variant : Variants, received : Nat]]
  BY DEF TypeOK
<1>3. TypeOK'
  <2>1. \A b \in D : rows[b] \in [variant : Variants, received : Nat]
    BY InventoryAssumption DEF BatchRows
  <2>2. batch' \in [Batches -> [variant : Variants, received : Nat]]
    BY <1>1, <1>2, <2>1
  <2> QED BY <1>1, <2>2 DEF TypeOK
<1>4. \A b \in Batches : Deducted(b)' = Deducted(b)
  BY <1>1 DEF Deducted
<1>5. \A b \in D : Deducted(b) = 0 /\ \A o \in Orders : saleOut[o][b] = 0
  <2> TAKE b \in D
  <2>1. Deducted(b) \in Nat /\ \A o \in Orders : saleOut[o][b] <= Deducted(b)
    BY DeductedNat
  <2>2. Deducted(b) <= 0
    BY <1>1 DEF BatchNeverOversold
  <2>3. Deducted(b) = 0
    BY <2>1, <2>2
  <2>4. \A o \in Orders : saleOut[o][b] \in Nat
    BY <1>2
  <2> QED BY <2>1, <2>3, <2>4
<1>6. ASSUME NEW u, NEW v, \A b \in D : u[b] = 0
      PROVE  SumTo([b \in Batches |-> IF batch'[b].variant = v THEN u[b] ELSE 0],
                   NBatches) = UnitsOf(u, v)
  <2>1. [b \in Batches |-> IF batch'[b].variant = v THEN u[b] ELSE 0]
          = [b \in Batches |-> IF batch[b].variant = v THEN u[b] ELSE 0]
    BY <1>1, <1>6
  <2> QED BY <2>1 DEF UnitsOf
<1>7. ReservedAccounted'
  BY <1>1 DEF ReservedAccounted, Held, Active, InState
<1>8. BatchNeverOversold'
  <2> SUFFICES ASSUME NEW b \in Batches PROVE Deducted(b)' <= batch'[b].received
    BY DEF BatchNeverOversold
  <2>1. CASE b \in D
    <3>1. Deducted(b)' = 0
      BY <1>4, <1>5, <2>1
    <3>2. batch'[b].received \in Nat
      BY <1>3 DEF TypeOK
    <3> QED BY <3>1, <3>2
  <2>2. CASE b \notin D
    BY <1>1, <1>4, <2>2 DEF BatchNeverOversold
  <2> QED BY <2>1, <2>2
<1>9. OnHandReconciles'
  <2> SUFFICES ASSUME NEW v \in Variants PROVE Sold(v)' = Sold(v)
    BY <1>1 DEF OnHandReconciles
  <2> DEFINE u == [b \in Batches |-> Deducted(b)]
  <2>1. [b \in Batches |-> Deducted(b)'] = u
    BY <1>4
  <2>2. \A b \in D : u[b] = 0
    BY <1>5
  <2>3. Sold(v) = UnitsOf(u, v)
    BY DEF Sold
  <2> HIDE DEF u
  <2>4. Sold(v)' = SumTo([b \in Batches |-> IF batch'[b].variant = v
                                            THEN u[b] ELSE 0], NBatches)
    BY <2>1 DEF Sold, UnitsOf
  <2> QED BY <1>6, <2>2, <2>3, <2>4
<1>10. RequestsHoldStock'
  <2> SUFFICES ASSUME NEW o \in Orders, NEW v \in Variants
               PROVE  UnitsOf(saleOut[o], v)' = UnitsOf(saleOut[o], v)
    BY <1>1 DEF RequestsHoldStock
  <2>1. \A b \in D : saleOut[o][b] = 0
    BY <1>5
  <2>2. UnitsOf(saleOut[o], v)'
          = SumTo([b \in Batches |-> IF batch'[b].variant = v
                                     THEN saleOut[o][b] ELSE 0], NBatches)
    BY <1>1 DEF UnitsOf
  <2> QED BY <1>6, <2>1, <2>2
<1>11. UncreatedEmpty'
  BY <1>1 DEF UncreatedEmpty
<1> QED
  BY <1>3, <1>7, <1>8, <1>9, <1>10, <1>11

\* A sale, whoever makes it, with a request that records the lines sold or
\* nothing new.
LEMMA SaleStepSafe ==
  ASSUME IInv, NEW o \in Orders, NEW lines \in Lines, SubtractStock(o, lines),
         resv' = resv, TypeOK',
         \A i \in Orders :
           \/ request'[i].lines = request[i].lines
           \/ i = o /\ request'[i].lines = lines
  PROVE  IInv'
<1> USE DEF IInv
<1>1. /\ BatchNeverOversold' /\ OnHandReconciles'
      /\ \A v \in Variants : lines[v] <= UnitsOf(saleOut[o], v)'
      /\ \A i \in Orders, v \in Variants :
           UnitsOf(saleOut[i], v) <= UnitsOf(saleOut[i], v)'
  BY SaleSafe
<1>2. /\ catalog' = catalog /\ reserved' = reserved /\ written' = written
      /\ inherited' = inherited /\ batch' = batch
      /\ onHand' = [v \in Variants |-> onHand[v] - lines[v]]
      /\ CanSubtract(lines)
  BY DEF SubtractStock
<1>3. ReservedAccounted'
  BY <1>2 DEF ReservedAccounted, Held, Active, InState
<1>4. RequestsHoldStock'
  <2> SUFFICES ASSUME NEW i \in Orders, NEW v \in Variants
               PROVE  request'[i].lines[v] <= UnitsOf(saleOut[i], v)'
    BY DEF RequestsHoldStock
  <2>1. CASE i = o /\ request'[i].lines = lines
    BY <1>1, <2>1
  <2>2. CASE request'[i].lines = request[i].lines
    <3>1. request[i].lines[v] \in Nat
      <4>1. request[i].lines \in Lines
        BY DEF TypeOK
      <4> QED BY <4>1, InventoryAssumption DEF Lines
    <3>2. UnitsOf(saleOut[i], v) \in Nat
      <4>1. \A b \in Batches : saleOut[i][b] \in Nat
        BY DEF TypeOK
      <4> QED BY <4>1, UnitsOfNat
    <3>3. UnitsOf(saleOut[i], v)' \in Nat
      <4>1. \A b \in Batches : saleOut'[i][b] \in Nat
        BY DEF TypeOK
      <4>2. UnitsOf(saleOut[i], v)' = UnitsOf(saleOut'[i], v)
        BY <1>2 DEF UnitsOf
      <4> QED BY <4>1, <4>2, UnitsOfNat
    <3>4. request[i].lines[v] <= UnitsOf(saleOut[i], v)
      BY DEF RequestsHoldStock
    <3> QED BY <1>1, <2>2, <3>1, <3>2, <3>3, <3>4
  <2> QED BY <2>1, <2>2
<1>5. UncreatedEmpty'
  <2> SUFFICES ASSUME NEW v \in Variants \ catalog PROVE onHand'[v] = 0
    BY <1>2 DEF UncreatedEmpty
  <2>1. lines[v] = 0
    <3>1. lines[v] \in Nat /\ ~(lines[v] > 0)
      BY <1>2, InventoryAssumption DEF CanSubtract, Lines
    <3> QED BY <3>1
  <2> QED BY <1>2, <2>1 DEF UncreatedEmpty
<1> QED
  BY <1>1, <1>3, <1>4, <1>5

\* New or released reservations: batch items, ledger and requests stay.
LEMMA ReservationStepSafe ==
  ASSUME IInv, TypeOK',
         UNCHANGED <<catalog, onHand, batch, saleOut, written, inherited, request>>,
         \A v \in Variants :
           /\ reserved'[v] = inherited[v] + Held(resv, Active, v)'
           /\ v \notin catalog => reserved'[v] = 0
  PROVE  IInv'
<1> USE DEF IInv
<1>1. ReservedAccounted'
  BY DEF ReservedAccounted
<1>2. BatchNeverOversold'
  BY SameLedger DEF BatchNeverOversold
<1>3. OnHandReconciles'
  BY SameLedger DEF OnHandReconciles
<1>4. RequestsHoldStock'
  BY SameLedger DEF RequestsHoldStock
<1>5. UncreatedEmpty'
  BY DEF UncreatedEmpty
<1> QED
  BY <1>1, <1>2, <1>3, <1>4, <1>5

-----------------------------------------------------------------------------
(* Every step preserves the invariant                                      *)

\* Catalogue and warehouse writes.
LEMMA CatalogWriteSafe == IInv /\ CatalogWrite => IInv'
<1> SUFFICES ASSUME IInv, CatalogWrite PROVE IInv'
  OBVIOUS
<1> USE DEF IInv, flow, cleanup
<1>1. ASSUME NEW v \in Variants, NEW q \in 0..MaxQty, CreateVariant(v, q)
      PROVE  IInv'
  <2>1. TypeOK'
    BY <1>1, InventoryAssumption DEF TypeOK, CreateVariant
  <2>2. onHand[v] = 0 /\ written[v] = 0
    BY <1>1 DEF UncreatedEmpty, CreateVariant
  <2> QED BY <1>1, <2>1, <2>2, WriteSafe DEF CreateVariant, TypeOK
<1>2. ASSUME NEW v \in Variants, NEW q \in 0..MaxQty, OverwriteOnHand(v, q)
      PROVE  IInv'
  <2>1. TypeOK'
    BY <1>2, InventoryAssumption DEF TypeOK, OverwriteOnHand
  <2> QED BY <1>2, <2>1, WriteSafe DEF OverwriteOnHand, TypeOK
<1>3. ASSUME NEW v \in Variants, NEW src \in Variants, DuplicateVariant(src, v)
      PROVE  IInv'
  <2>1. TypeOK'
    BY <1>3 DEF TypeOK, DuplicateVariant
  <2>2. onHand[v] = 0 /\ written[v] = 0 /\ reserved[v] = 0 /\ inherited[v] = 0
    BY <1>3 DEF UncreatedEmpty, DuplicateVariant
  <2> QED BY <1>3, <2>1, <2>2, WriteSafe DEF DuplicateVariant, TypeOK
<1>4. ASSUME NEW v \in Variants, NEW delta \in Int, AdjustOnHand(v, delta)
      PROVE  IInv'
  <2>1. TypeOK'
    BY <1>4, InventoryAssumption DEF TypeOK, AdjustOnHand
  <2> QED BY <1>4, <2>1, WriteSafe DEF AdjustOnHand, TypeOK
<1>5. -MaxQty..MaxQty \subseteq Int
  BY InventoryAssumption
<1> QED
  BY <1>1, <1>2, <1>3, <1>4, <1>5 DEF CatalogWrite

\* Order calls and the deduction endpoint.
LEMMA OrderStepSafe == IInv /\ OrderStep => IInv'
<1> SUFFICES ASSUME IInv, NEW o \in Orders,
                    \/ \E lines \in Lines : \/ DeductForOrder(o, lines)
                                            \/ LoseDeductReply(o, lines)
                                            \/ RejectOrder(o, lines)
                                            \/ DeductStock(o, lines)
                    \/ FailDeduct(o)
                    \/ PersistOrder(o)
                    \/ FailOrder(o)
                    \/ LoseCommitReply(o)
             PROVE  IInv'
  BY DEF OrderStep
<1> USE DEF cleanup, flow, AtStep, PCs
<1>1. NoLines \in Lines /\ request \in [Orders -> [pc : PCs, lines : Lines]]
  BY InventoryAssumption DEF NoLines, Lines, IInv, TypeOK
<1>2. ASSUME NEW lines \in Lines, DeductForOrder(o, lines) PROVE IInv'
  <2>1. SubtractStock(o, lines) /\ resv' = resv
    BY <1>2 DEF DeductForOrder
  <2>2. TypeOK'
    BY <1>1, <1>2, <2>1, SaleSafe DEF TypeOK, IInv, DeductForOrder, SubtractStock
  <2>3. request' = [request EXCEPT ![o] = [pc |-> "deducted", lines |-> lines]]
    BY <1>2 DEF DeductForOrder
  <2> QED BY <1>1, <2>1, <2>2, <2>3, SaleStepSafe
<1>3. ASSUME NEW lines \in Lines, LoseDeductReply(o, lines) PROVE IInv'
  <2>1. SubtractStock(o, lines) /\ resv' = resv
    BY <1>3 DEF LoseDeductReply
  <2>2. TypeOK'
    BY <1>1, <1>3, <2>1, SaleSafe DEF TypeOK, IInv, LoseDeductReply, SubtractStock
  <2>3. request' = [request EXCEPT ![o] = [pc |-> "unheard", lines |-> lines]]
    BY <1>3 DEF LoseDeductReply
  <2> QED BY <1>1, <2>1, <2>2, <2>3, SaleStepSafe
<1>4. ASSUME NEW lines \in Lines, DeductStock(o, lines) PROVE IInv'
  <2>1. SubtractStock(o, lines) /\ resv' = resv /\ request' = request
    BY <1>4 DEF DeductStock
  <2>2. TypeOK'
    BY <1>4, <2>1, SaleSafe DEF TypeOK, IInv, DeductStock, SubtractStock
  <2> QED BY <2>1, <2>2, SaleStepSafe
<1>5. ASSUME NEW lines \in Lines, RejectOrder(o, lines) PROVE IInv'
  <2>1. TypeOK' /\ UNCHANGED <<stock, resv>>
    BY <1>1, <1>5 DEF TypeOK, IInv, RejectOrder, stock
  <2>2. \A i \in Orders : request'[i].lines \in {request[i].lines, NoLines}
    BY <1>1, <1>5 DEF RejectOrder
  <2> QED BY <2>1, <2>2, FlowSafe
<1>6. ASSUME FailDeduct(o) PROVE IInv'
  <2>1. TypeOK' /\ UNCHANGED <<stock, resv>>
    BY <1>1, <1>6 DEF TypeOK, IInv, FailDeduct, stock
  <2>2. \A i \in Orders : request'[i].lines \in {request[i].lines, NoLines}
    BY <1>1, <1>6 DEF FailDeduct
  <2> QED BY <2>1, <2>2, FlowSafe
<1>7. ASSUME PersistOrder(o) PROVE IInv'
  <2>1. TypeOK' /\ UNCHANGED <<stock, resv>>
    BY <1>1, <1>7 DEF TypeOK, IInv, PersistOrder, stock
  <2>2. \A i \in Orders : request'[i].lines \in {request[i].lines, NoLines}
    BY <1>1, <1>7 DEF PersistOrder
  <2> QED BY <2>1, <2>2, FlowSafe
<1>8. ASSUME FailOrder(o) PROVE IInv'
  <2>1. TypeOK' /\ UNCHANGED <<stock, resv>>
    BY <1>1, <1>8 DEF TypeOK, IInv, FailOrder, stock
  <2>2. \A i \in Orders : request'[i].lines \in {request[i].lines, NoLines}
    BY <1>1, <1>8 DEF FailOrder
  <2> QED BY <2>1, <2>2, FlowSafe
<1>9. ASSUME LoseCommitReply(o) PROVE IInv'
  <2>1. TypeOK' /\ UNCHANGED <<stock, resv>>
    BY <1>1, <1>9 DEF TypeOK, IInv, LoseCommitReply, stock
  <2>2. \A i \in Orders : request'[i].lines \in {request[i].lines, NoLines}
    BY <1>1, <1>9 DEF LoseCommitReply
  <2> QED BY <2>1, <2>2, FlowSafe
<1> QED
  BY <1>2, <1>3, <1>4, <1>5, <1>6, <1>7, <1>8, <1>9

\* The server's crash and the clock.
LEMMA CrashOrTickSafe == IInv /\ (CrashServer \/ Tick) => IInv'
<1> SUFFICES ASSUME IInv, CrashServer \/ Tick PROVE IInv'
  OBVIOUS
<1>1. request \in [Orders -> [pc : PCs, lines : Lines]]
  BY DEF IInv, TypeOK
<1>2. CASE CrashServer
  <2>1. request' = [o \in Orders |-> IF request[o].pc = "deducted"
                                     THEN [request[o] EXCEPT !.pc = "lost"]
                                     ELSE request[o]]
    BY <1>2 DEF CrashServer
  <2>2. request' \in [Orders -> [pc : PCs, lines : Lines]]
    BY <1>1, <2>1 DEF PCs
  <2>3. TypeOK' /\ UNCHANGED <<stock, resv>>
    BY <1>2, <2>2 DEF TypeOK, IInv, CrashServer, stock, cleanup
  <2>4. \A i \in Orders : request'[i].lines \in {request[i].lines, NoLines}
    BY <1>1, <2>1
  <2> QED BY <2>3, <2>4, FlowSafe
<1>3. CASE Tick
  <2>1. TypeOK' /\ UNCHANGED <<stock, resv>> /\ request' = request
    BY <1>3 DEF TypeOK, IInv, Tick, stock, cleanup, flow
  <2> QED BY <2>1, FlowSafe
<1> QED
  BY <1>2, <1>3

\* Reservations and their release by hand.
LEMMA ReservingSafe == IInv /\ Reserving => IInv'
<1> SUFFICES ASSUME IInv, Reserving PROVE IInv'
  OBVIOUS
<1> USE DEF flow, cleanup
<1>1. ASSUME NEW D \in SUBSET Reservations, NEW rows \in [D -> ResvRows],
             NEW ttl \in TTLs, ReserveStock(D, rows, ttl)
      PROVE  IInv'
  <2>1. /\ UNCHANGED <<catalog, onHand, batch, saleOut, written, inherited, request>>
        /\ UNCHANGED <<now, orders, compensated, work, expiredTotal>>
    BY <1>1 DEF ReserveStock
  <2>2. TypeOK'
    BY <1>1, <2>1, ReserveSafe DEF TypeOK, IInv
  <2>3. \A v \in Variants :
          /\ reserved'[v] = inherited[v] + Held(resv, Active, v)'
          /\ v \notin catalog => reserved'[v] = 0
    BY <1>1, ReserveSafe DEF IInv, UncreatedEmpty
  <2> QED BY <2>1, <2>2, <2>3, ReservationStepSafe
<1>2. ASSUME NEW D \in SUBSET Reservations, ReleaseByHand(D)
      PROVE  IInv'
  <2>1. /\ UNCHANGED <<catalog, onHand, batch, saleOut, written, inherited, request>>
        /\ UNCHANGED <<now, orders, compensated, work, expiredTotal>>
        /\ Release(D)
    BY <1>2 DEF ReleaseByHand, Release
  <2>2. TypeOK'
    BY <2>1, ReleaseSafe DEF TypeOK, IInv
  <2>3. \A v \in Variants :
          /\ reserved'[v] = inherited[v] + Held(resv, Active, v)'
          /\ v \notin catalog => reserved'[v] = 0
    <3> TAKE v \in Variants
    <3>1. /\ reserved'[v] = inherited[v] + Held(resv, Active, v)'
          /\ reserved'[v] <= reserved[v] /\ reserved'[v] \in Nat
      BY <2>1, ReleaseSafe
    <3>2. v \notin catalog => reserved[v] = 0
      BY DEF IInv, UncreatedEmpty
    <3> QED BY <3>1, <3>2
  <2> QED BY <2>1, <2>2, <2>3, ReservationStepSafe
<1> QED
  BY <1>1, <1>2 DEF Reserving

\* The cleanup task.
LEMMA CleanupStepSafe == IInv /\ CleanupStep => IInv'
<1> SUFFICES ASSUME IInv, NEW w \in Workers,
                    \/ \E D \in SUBSET Reservations : ListExpired(w, D)
                    \/ ReleaseListed(w)
                    \/ FailCleanup(w)
             PROVE  IInv'
  BY DEF CleanupStep
<1> USE DEF flow
<1>1. work \in [Workers -> SUBSET Reservations]
  BY DEF IInv, TypeOK
<1>2. ASSUME NEW D \in SUBSET Reservations, ListExpired(w, D) PROVE IInv'
  <2>1. TypeOK' /\ UNCHANGED <<stock, resv>> /\ request' = request
    BY <1>2 DEF TypeOK, IInv, ListExpired, stock
  <2> QED BY <2>1, FlowSafe
<1>3. CASE FailCleanup(w)
  <2>1. TypeOK' /\ UNCHANGED <<stock, resv>> /\ request' = request
    BY <1>3 DEF TypeOK, IInv, FailCleanup, stock
  <2> QED BY <2>1, FlowSafe
<1>4. CASE ReleaseListed(w)
  <2>1. /\ UNCHANGED <<catalog, onHand, batch, saleOut, written, inherited, request>>
        /\ UNCHANGED <<now, orders, compensated>>
        /\ Release(work[w])
    BY <1>4 DEF ReleaseListed, Release
  <2>2. expiredTotal' \in Nat /\ work' \in [Workers -> SUBSET Reservations]
    <3>1. IsFiniteSet(Reservations)
      BY InventoryAssumption, FS_Interval DEF Reservations
    <3>2. Cardinality(work[w]) \in Nat
      BY <1>1, <3>1, FS_Subset, FS_CardinalityType
    <3> QED BY <1>1, <1>4, <3>2 DEF ReleaseListed, IInv, TypeOK
  <2>3. TypeOK'
    BY <2>1, <2>2, ReleaseSafe DEF TypeOK, IInv
  <2>4. \A v \in Variants :
          /\ reserved'[v] = inherited[v] + Held(resv, Active, v)'
          /\ v \notin catalog => reserved'[v] = 0
    <3> TAKE v \in Variants
    <3>1. /\ reserved'[v] = inherited[v] + Held(resv, Active, v)'
          /\ reserved'[v] <= reserved[v] /\ reserved'[v] \in Nat
      BY <2>1, ReleaseSafe
    <3>2. v \notin catalog => reserved[v] = 0
      BY DEF IInv, UncreatedEmpty
    <3> QED BY <3>1, <3>2
  <2> QED BY <2>1, <2>3, <2>4, ReservationStepSafe
<1> QED
  BY <1>2, <1>3, <1>4

\* The invariant is inductive: no step of the shop breaks it.
THEOREM Inductive == IInv /\ [Next]_vars => IInv'
<1> SUFFICES ASSUME IInv, [Next]_vars PROVE IInv'
  OBVIOUS
<1>1. CASE CatalogWrite
  BY <1>1, CatalogWriteSafe
<1>2. CASE Receipt
  BY <1>2, ReceiveSafe DEF Receipt
<1>3. CASE OrderStep
  BY <1>3, OrderStepSafe
<1>4. CASE CrashServer \/ Tick
  BY <1>4, CrashOrTickSafe
<1>5. CASE Reserving
  BY <1>5, ReservingSafe
<1>6. CASE CleanupStep
  BY <1>6, CleanupStepSafe
<1>7. CASE UNCHANGED vars
  <2>1. TypeOK' /\ UNCHANGED <<stock, resv>> /\ request' = request
    BY <1>7 DEF vars, stock, flow, cleanup, IInv, TypeOK
  <2> QED BY <2>1, FlowSafe
<1> QED
  BY <1>1, <1>2, <1>3, <1>4, <1>5, <1>6, <1>7 DEF Next

\* The inductive invariant holds in every reachable state.
THEOREM InvariantHolds == Spec => []IInv
<1>1. Init => IInv
  BY InitSafe
<1>2. IInv /\ [Next]_vars => IInv'
  BY Inductive
<1> QED
  BY <1>1, <1>2, PTL DEF Spec

\* Type correctness: no quantity of the pool ever goes below zero.
THEOREM TypeCorrect == Spec => []TypeOK
<1>1. IInv => TypeOK
  BY DEF IInv
<1> QED
  BY <1>1, InvariantHolds, PTL

\* However cleanups, stale lists and releases by hand race, quantity_reserved
\* stays the sum of the active reservations (and what was copied).
THEOREM ReservedIsAccounted == Spec => []ReservedAccounted
<1>1. IInv => ReservedAccounted
  BY DEF IInv
<1> QED
  BY <1>1, InvariantHolds, PTL

\* No batch item sells more than was received in it.
THEOREM NoBatchOversold == Spec => []BatchNeverOversold
<1>1. IInv => BatchNeverOversold
  BY DEF IInv
<1> QED
  BY <1>1, InvariantHolds, PTL

\* On-hand stock and the sale_out ledger agree.
THEOREM LedgerReconciles == Spec => []OnHandReconciles
<1>1. IInv => OnHandReconciles
  BY DEF IInv
<1> QED
  BY <1>1, InvariantHolds, PTL

\* A persisted order has its sale_out rows, for every line in full.
THEOREM OrdersHoldStock == Spec => []PersistedOrdersHoldStock
<1>1. IInv => PersistedOrdersHoldStock
  BY DEF IInv, TypeOK, RequestsHoldStock, PersistedOrdersHoldStock
<1> QED
  BY <1>1, InvariantHolds, PTL

-----------------------------------------------------------------------------
(* Action properties                                                       *)

\* Only a sale adds to the sale_out rows.
LEMMA SaleOrSame ==
  ASSUME [Next]_vars
  PROVE  \/ saleOut' = saleOut
         \/ \E o \in Orders, lines \in Lines : SubtractStock(o, lines)
<1> USE DEF vars, stock
<1>1. CASE CatalogWrite
  BY <1>1 DEF CatalogWrite, CreateVariant, OverwriteOnHand, DuplicateVariant,
              AdjustOnHand
<1>2. CASE Receipt
  BY <1>2 DEF Receipt, Receive
<1>3. CASE OrderStep
  BY <1>3 DEF OrderStep, DeductForOrder, LoseDeductReply, RejectOrder, DeductStock,
              FailDeduct, PersistOrder, FailOrder, LoseCommitReply
<1>4. CASE CrashServer \/ Tick
  BY <1>4 DEF CrashServer, Tick
<1>5. CASE Reserving
  BY <1>5 DEF Reserving, ReserveStock, ReleaseByHand, Release
<1>6. CASE CleanupStep
  BY <1>6 DEF CleanupStep, ListExpired, ReleaseListed, FailCleanup, Release
<1>7. CASE UNCHANGED vars
  BY <1>7
<1> QED
  BY <1>1, <1>2, <1>3, <1>4, <1>5, <1>6, <1>7 DEF Next

\* Sales take the oldest goods first, for any stock and any receipts.
THEOREM SalesTakeOldest == Spec => OldestFirst
<1> DEFINE Oldest == \A b, c \in Batches :
                       (/\ c < b
                        /\ batch[c].variant = batch[b].variant
                        /\ Deducted(b)' > Deducted(b))
                       => Deducted(c)' = batch[c].received
<1>1. ASSUME IInv, [Next]_vars PROVE Oldest
  <2> SUFFICES ASSUME NEW b \in Batches, NEW c \in Batches, c < b,
                      batch[c].variant = batch[b].variant,
                      Deducted(b)' > Deducted(b)
               PROVE  Deducted(c)' = batch[c].received
    OBVIOUS
  <2>1. Deducted(b) \in Nat /\ Deducted(c) \in Nat
    BY <1>1, DeductedNat DEF IInv
  <2>2. CASE saleOut' = saleOut
    <3>1. Deducted(b)' = Deducted(b)
      BY <2>2 DEF Deducted
    <3> QED BY <2>1, <3>1
  <2>3. ASSUME NEW o \in Orders, NEW lines \in Lines, SubtractStock(o, lines)
        PROVE  Deducted(c)' = batch[c].received
    <3> DEFINE v == batch[b].variant
    <3>1. /\ v \in Variants /\ lines[v] \in Nat /\ NBatches \in Nat
          /\ batch[c].received \in Nat
      BY <1>1, InventoryAssumption DEF IInv, TypeOK, Lines
    <3>2. \A i \in 1..NBatches : FifoStock(v)[i] \in Nat
      BY <1>1, <3>1, FifoStockNat DEF IInv
    <3>3. /\ Deducted(b)' = Deducted(b) + Taken(lines, b)
          /\ Deducted(c)' = Deducted(c) + Taken(lines, c)
          /\ Taken(lines, b) \in Nat
      BY <1>1, <2>3, DeductedAfterSale, TakenBounds DEF IInv
    <3>4. /\ Taken(lines, b) = Consumed(FifoStock(v), lines[v], NBatches)[b]
          /\ Taken(lines, c) = Consumed(FifoStock(v), lines[v], NBatches)[c]
      BY DEF Taken
    <3>5. Taken(lines, b) > 0
      BY <2>1, <3>3
    <3>6. Consumed(FifoStock(v), lines[v], NBatches)[c] = FifoStock(v)[c]
      BY <3>1, <3>2, <3>4, <3>5, ConsumedOldestFirst DEF Batches
    <3>7. FifoStock(v)[c] = batch[c].received - Deducted(c)
      BY DEF FifoStock
    <3> QED BY <2>1, <3>1, <3>3, <3>4, <3>6, <3>7
  <2> QED BY <1>1, <2>2, <2>3, SaleOrSame
<1>2. IInv /\ [Next]_vars => [Oldest]_vars
  BY <1>1
<1>3. Spec => [][Oldest]_vars
  BY <1>2, InvariantHolds, PTL DEF Spec
<1> QED
  BY <1>3 DEF OldestFirst

\* No sale, reservation or release oversells, however they interleave.
THEOREM NoOversell == Spec => NeverOversell
<1> DEFINE Kept == \A v \in catalog :
                     (written'[v] = written[v] /\ Available(v)' < Available(v))
                     => Available(v)' >= 0
<1>1. ASSUME IInv, [Next]_vars PROVE Kept
  <2> SUFFICES ASSUME NEW v \in catalog, written'[v] = written[v],
                      onHand'[v] - reserved'[v] < onHand[v] - reserved[v]
               PROVE  onHand'[v] - reserved'[v] >= 0
    BY DEF Available
  <2> USE DEF vars, stock
  <2>1. /\ v \in Variants /\ onHand \in [Variants -> Nat]
        /\ reserved \in [Variants -> Nat] /\ written \in [Variants -> Int]
    BY <1>1 DEF IInv, TypeOK
  <2>2. \A o \in Orders : \A lines \in Lines :
          SubtractStock(o, lines) => onHand'[v] - reserved'[v] >= 0
    <3> SUFFICES ASSUME NEW o \in Orders, NEW lines \in Lines,
                        SubtractStock(o, lines)
                 PROVE  onHand'[v] - reserved'[v] >= 0
      OBVIOUS
    <3>1. lines[v] \in Nat
      BY <2>1, InventoryAssumption DEF Lines
    <3>2. onHand'[v] = onHand[v] - lines[v] /\ reserved'[v] = reserved[v]
      BY <2>1 DEF SubtractStock
    <3>3. lines[v] > 0 => lines[v] <= onHand[v] - reserved[v]
      BY <2>1 DEF SubtractStock, CanSubtract, Available
    <3> QED BY <2>1, <3>1, <3>2, <3>3
  <2>3. ASSUME NEW D, Release(D) PROVE FALSE
    <3>1. reserved'[v] \in Nat /\ reserved'[v] <= reserved[v] /\ onHand'[v] = onHand[v]
      BY <1>1, <2>1, <2>3, ReleaseSafe DEF Release
    <3> QED BY <2>1, <3>1
  <2>4. CASE CatalogWrite
    <3>1. ASSUME NEW w \in Variants, NEW q \in 0..MaxQty,
                 CreateVariant(w, q) \/ OverwriteOnHand(w, q)
          PROVE  FALSE
      BY <2>1, <3>1 DEF CreateVariant, OverwriteOnHand
    <3>2. ASSUME NEW w \in Variants, NEW src \in Variants, DuplicateVariant(src, w)
          PROVE  FALSE
      BY <2>1, <3>2 DEF DuplicateVariant
    <3>3. ASSUME NEW w \in Variants, NEW delta \in Int, AdjustOnHand(w, delta)
          PROVE  FALSE
      BY <2>1, <3>3 DEF AdjustOnHand
    <3>4. -MaxQty..MaxQty \subseteq Int
      BY InventoryAssumption
    <3> QED BY <2>4, <3>1, <3>2, <3>3, <3>4 DEF CatalogWrite
  <2>5. CASE Receipt
    BY <2>1, <2>5 DEF Receipt, Receive
  <2>6. CASE OrderStep
    BY <2>1, <2>2, <2>6
    DEF OrderStep, DeductForOrder, LoseDeductReply, RejectOrder, DeductStock,
        FailDeduct, PersistOrder, FailOrder, LoseCommitReply
  <2>7. CASE CrashServer \/ Tick
    BY <2>1, <2>7 DEF CrashServer, Tick
  <2>8. CASE Reserving
    <3>1. ASSUME NEW D \in SUBSET Reservations, NEW rows \in [D -> ResvRows],
                 NEW ttl \in TTLs, ReserveStock(D, rows, ttl)
          PROVE  onHand'[v] - reserved'[v] >= 0
      <4>1. \A r \in Reservations \cap D : rows[r].quantity \in Nat
        BY InventoryAssumption DEF ResvRows
      <4>2. Held(rows, D, v) \in Nat
        BY <4>1, HeldNat
      <4>3. onHand'[v] = onHand[v] /\ reserved'[v] = reserved[v] + Held(rows, D, v)
        BY <2>1, <3>1 DEF ReserveStock
      <4>4. Held(rows, D, v) > 0 => Held(rows, D, v) <= onHand[v] - reserved[v]
        BY <2>1, <3>1 DEF ReserveStock, Available
      <4> QED BY <2>1, <4>2, <4>3, <4>4
    <3>2. ASSUME NEW D, ReleaseByHand(D) PROVE FALSE
      BY <2>3, <3>2 DEF ReleaseByHand
    <3> QED BY <2>8, <3>1, <3>2 DEF Reserving
  <2>9. CASE CleanupStep
    BY <2>1, <2>3, <2>9 DEF CleanupStep, ListExpired, ReleaseListed, FailCleanup
  <2>10. CASE UNCHANGED vars
    BY <2>1, <2>10
  <2> QED
    BY <1>1, <2>4, <2>5, <2>6, <2>7, <2>8, <2>9, <2>10 DEF Next
<1>2. IInv /\ [Next]_vars => [Kept]_vars
  BY <1>1
<1>3. Spec => [][Kept]_vars
  BY <1>2, InvariantHolds, PTL DEF Spec
<1> QED
  BY <1>3 DEF NeverOversell

-----------------------------------------------------------------------------
(* Module Inventory implements StockContract                               *)


SoldTo(o)    == [v \in Variants |-> UnitsOf(saleOut[o], v)]
HeldUnits    == [v \in Variants |-> Held(resv, Active, v)]
SameContract == /\ UNCHANGED <<onHand, reserved, written, inherited, HeldUnits>>
                /\ \A o \in Orders : SoldTo(o)' = SoldTo(o)

\* The columns of the contract are numbers.
LEMMA ContractTypes ==
  ASSUME IInv
  PROVE  /\ onHand \in [Variants -> Nat] /\ reserved \in [Variants -> Nat]
         /\ written \in [Variants -> Int] /\ inherited \in [Variants -> Nat]
         /\ HeldUnits \in [Variants -> Nat]
         /\ \A o \in Orders : SoldTo(o) \in [Variants -> Nat]
         /\ reserved = [v \in Variants |-> inherited[v] + HeldUnits[v]]
<1>1. /\ onHand \in [Variants -> Nat] /\ reserved \in [Variants -> Nat]
      /\ written \in [Variants -> Int] /\ inherited \in [Variants -> Nat]
  BY DEF IInv, TypeOK
<1>2. ASSUME NEW v \in Variants PROVE Held(resv, Active, v) \in Nat
  <2>1. \A r \in Reservations \cap Active : resv[r].quantity \in Nat
    BY DEF IInv, TypeOK
  <2> QED BY <2>1, HeldNat
<1>3. ASSUME NEW o \in Orders, NEW v \in Variants
      PROVE  UnitsOf(saleOut[o], v) \in Nat
  <2>1. \A b \in Batches : saleOut[o][b] \in Nat
    BY DEF IInv, TypeOK
  <2> QED BY <2>1, UnitsOfNat
<1>4. HeldUnits \in [Variants -> Nat]
  BY <1>2 DEF HeldUnits
<1>5. \A o \in Orders : SoldTo(o) \in [Variants -> Nat]
  BY <1>3 DEF SoldTo
<1>6. reserved = [v \in Variants |-> inherited[v] + HeldUnits[v]]
  BY <1>1 DEF IInv, ReservedAccounted, HeldUnits
<1> QED
  BY <1>1, <1>4, <1>5, <1>6

\* A sale adds its lines to what its order was sold, and to nothing else.
LEMMA SoldAfterSale ==
  ASSUME IInv, NEW o \in Orders, NEW lines \in Lines, SubtractStock(o, lines)
  PROVE  /\ SoldTo(o)' = [v \in Variants |-> SoldTo(o)[v] + lines[v]]
         /\ \A p \in Orders \ {o} : SoldTo(p)' = SoldTo(p)
<1> USE DEF IInv
<1> DEFINE take == [b \in Batches |-> Taken(lines, b)]
<1>1. /\ batch' = batch
      /\ saleOut' = [saleOut EXCEPT ![o] =
                       [b \in Batches |-> saleOut[o][b] + Taken(lines, b)]]
      /\ CanSubtract(lines)
  BY DEF SubtractStock
<1>2. /\ saleOut \in [Orders -> [Batches -> Nat]]
      /\ \A b \in Batches : Taken(lines, b) \in Nat
  BY TakenBounds DEF TypeOK
<1>3. ASSUME NEW v \in Variants
      PROVE  UnitsOf(saleOut[o], v)' = UnitsOf(saleOut[o], v) + lines[v]
  <2>1. UnitsOf(saleOut[o], v)' = UnitsOf(saleOut'[o], v)
    BY <1>1 DEF UnitsOf
  <2>2. \A b \in Batches : /\ saleOut[o][b] \in Nat /\ take[b] \in Nat
                           /\ saleOut'[o][b] = saleOut[o][b] + take[b]
    BY <1>1, <1>2
  <2>3. UnitsOf(take, v) = lines[v]
    BY <1>1, TakenTotal
  <2> HIDE DEF take
  <2>4. UnitsOf(saleOut'[o], v) = UnitsOf(saleOut[o], v) + UnitsOf(take, v)
    BY <2>2, UnitsOfAdd
  <2> QED BY <2>1, <2>3, <2>4
<1>4. ASSUME NEW p \in Orders \ {o}, NEW v \in Variants
      PROVE  UnitsOf(saleOut[p], v)' = UnitsOf(saleOut[p], v)
  BY <1>1, <1>2 DEF UnitsOf
<1>5. SoldTo(o)' = [v \in Variants |-> SoldTo(o)[v] + lines[v]]
  BY <1>3 DEF SoldTo
<1>6. \A p \in Orders \ {o} : SoldTo(p)' = SoldTo(p)
  BY <1>4 DEF SoldTo
<1> QED
  BY <1>5, <1>6

\* A step that leaves stock, ledger and reservations alone is no step of the
\* contract.
LEMMA StutterMaps ==
  ASSUME UNCHANGED <<onHand, reserved, written, inherited, batch, saleOut, resv>>
  PROVE  SameContract
<1>1. HeldUnits' = HeldUnits
  BY DEF HeldUnits, Held, Active, InState
<1>2. \A o \in Orders : SoldTo(o)' = SoldTo(o)
  BY DEF SoldTo, UnitsOf
<1> QED
  BY <1>1, <1>2 DEF SameContract

\* A sale of stock is a sale of the contract.
LEMMA SaleMaps ==
  ASSUME IInv, NEW o \in Orders, NEW lines \in Lines, SubtractStock(o, lines),
         resv' = resv
  PROVE  Contract!Sale(o)
<1> DEFINE change == [v \in Variants |-> onHand[v] - onHand'[v]]
<1>1. /\ onHand' = [v \in Variants |-> onHand[v] - lines[v]]
      /\ UNCHANGED <<reserved, written, inherited>>
      /\ CanSubtract(lines)
  BY DEF SubtractStock
<1>2. lines \in [Variants -> Nat] /\ onHand \in [Variants -> Nat]
  BY InventoryAssumption, ContractTypes DEF Lines
<1>3. change = lines
  BY <1>1, <1>2
<1>4. HeldUnits' = HeldUnits
  BY DEF HeldUnits, Held, Active, InState
<1>5. \A v \in Variants :
        lines[v] >= 0 /\ (lines[v] > 0 => lines[v] <= onHand[v] - reserved[v])
  BY <1>1, <1>2 DEF CanSubtract, Available
<1>6. /\ SoldTo(o)' = [v \in Variants |-> SoldTo(o)[v] + lines[v]]
      /\ \A p \in Orders \ {o} : SoldTo(p)' = SoldTo(p)
  BY SoldAfterSale
<1>7. [p \in Orders |-> SoldTo(p)']
        = [[p \in Orders |-> SoldTo(p)] EXCEPT ![o] =
             [v \in Variants |-> SoldTo(o)[v] + lines[v]]]
  BY <1>6
<1> HIDE DEF change
<1> QED
  BY <1>1, <1>3, <1>4, <1>5, <1>7
  DEF change, Contract!Sale, Contract!Change, Contract!Affordable, Contract!Available,
      Contract!Plus, SoldTo, HeldUnits

\* What changes in reserved, and is not inherited, changes in what is held.
LEMMA HeldFollows ==
  ASSUME IInv, IInv', inherited' = inherited
  PROVE  HeldUnits' = [v \in Variants |-> HeldUnits[v] + (reserved'[v] - reserved[v])]
<1>1. /\ HeldUnits \in [Variants -> Nat] /\ inherited \in [Variants -> Nat]
      /\ reserved = [v \in Variants |-> inherited[v] + HeldUnits[v]]
  BY ContractTypes
<1>2. /\ HeldUnits' \in [Variants -> Nat]
      /\ reserved' = [v \in Variants |-> inherited[v] + HeldUnits'[v]]
  <2>1. \A v \in Variants :
          /\ Held(resv, Active, v)' \in Nat
          /\ reserved'[v] = inherited[v] + Held(resv, Active, v)'
    <3> TAKE v \in Variants
    <3>1. \A r \in Reservations \cap Active' : resv'[r].quantity \in Nat
      BY DEF IInv, TypeOK
    <3>2. Held(resv', Active', v) \in Nat
      BY <3>1, HeldNat
    <3> QED BY <3>2 DEF IInv, ReservedAccounted, Held
  <2>2. reserved' \in [Variants -> Nat]
    BY DEF IInv, TypeOK
  <2> QED BY <2>1, <2>2 DEF HeldUnits
<1> HIDE DEF HeldUnits
<1>3. \A v \in Variants : HeldUnits'[v] = HeldUnits[v] + (reserved'[v] - reserved[v])
  BY <1>1, <1>2
<1> QED
  BY <1>2, <1>3

\* The ledger of an order is the same when batch items and sale_out rows are.
LEMMA SameSold ==
  ASSUME UNCHANGED <<batch, saleOut>>
  PROVE  \A o \in Orders : SoldTo(o)' = SoldTo(o)
BY DEF SoldTo, UnitsOf

\* A reservation request is a reservation of the contract.
LEMMA ReserveMaps ==
  ASSUME IInv, IInv', NEW D \in SUBSET Reservations, NEW rows \in [D -> ResvRows],
         NEW ttl \in TTLs, ReserveStock(D, rows, ttl)
  PROVE  Contract!Reserve
<1> DEFINE units == [v \in Variants |-> reserved'[v] - reserved[v]]
<1>1. /\ UNCHANGED <<onHand, written, inherited, batch, saleOut>>
      /\ reserved' = [v \in Variants |-> reserved[v] + Held(rows, D, v)]
      /\ \A v \in Variants :
           Held(rows, D, v) > 0 => Held(rows, D, v) <= onHand[v] - reserved[v]
  BY DEF ReserveStock, Available
<1>2. \A v \in Variants : Held(rows, D, v) \in Nat
  <2>1. \A r \in Reservations \cap D : rows[r].quantity \in Nat
    BY InventoryAssumption DEF ResvRows
  <2> QED BY <2>1, HeldNat
<1>3. \A v \in Variants : units[v] = Held(rows, D, v)
  BY <1>1, <1>2, ContractTypes
<1>4. HeldUnits' = [v \in Variants |-> HeldUnits[v] + units[v]]
  BY <1>1, HeldFollows
<1>5. [o \in Orders |-> SoldTo(o)'] = [o \in Orders |-> SoldTo(o)]
  BY <1>1, SameSold
<1>6. \A v \in Variants :
        units[v] >= 0 /\ (units[v] > 0 => units[v] <= onHand[v] - reserved[v])
  BY <1>1, <1>2, <1>3
<1> HIDE DEF units
<1> QED
  BY <1>1, <1>4, <1>5, <1>6
  DEF units, Contract!Reserve, Contract!Change, Contract!Affordable,
      Contract!Available, Contract!Plus, SoldTo, HeldUnits

\* A release, stale ids and all, is a release of the contract.
LEMMA ReleaseMaps ==
  ASSUME IInv, IInv', NEW D, Release(D)
  PROVE  Contract!Release
<1> DEFINE units == [v \in Variants |-> reserved[v] - reserved'[v]]
<1>1. UNCHANGED <<onHand, written, inherited, batch, saleOut>>
  BY DEF Release
<1>2. /\ HeldUnits \in [Variants -> Nat] /\ reserved \in [Variants -> Nat]
      /\ HeldUnits' = [v \in Variants |-> HeldUnits[v] + (reserved'[v] - reserved[v])]
      /\ \A v \in Variants : reserved'[v] \in Nat /\ reserved'[v] <= reserved[v]
  BY <1>1, ContractTypes, HeldFollows, ReleaseSafe
<1>3. HeldUnits = [v \in Variants |-> HeldUnits'[v] + units[v]]
  <2> HIDE DEF HeldUnits
  <2>1. \A v \in Variants : HeldUnits[v] = HeldUnits'[v] + units[v]
    BY <1>2
  <2> QED BY <1>2, <2>1
<1>4. [o \in Orders |-> SoldTo(o)'] = [o \in Orders |-> SoldTo(o)]
  BY <1>1, SameSold
<1>5. \A v \in Variants : units[v] >= 0
  BY <1>2
<1> HIDE DEF units
<1> QED
  BY <1>1, <1>3, <1>4, <1>5
  DEF units, Contract!Release, Contract!Change, Contract!Plus, SoldTo, HeldUnits

\* A write that accounts for itself is a write of the contract.
LEMMA WriteMaps ==
  ASSUME UNCHANGED <<batch, saleOut, resv>>,
         \A v \in Variants : /\ onHand'[v] - onHand[v] = written'[v] - written[v]
                             /\ reserved'[v] - reserved[v] = inherited'[v] - inherited[v]
  PROVE  Contract!Write
<1>1. HeldUnits' = HeldUnits
  BY DEF HeldUnits, Held, Active, InState
<1>2. [o \in Orders |-> SoldTo(o)'] = [o \in Orders |-> SoldTo(o)]
  BY SameSold
<1> QED
  BY <1>1, <1>2 DEF Contract!Write, Contract!Change, SoldTo, HeldUnits

-----------------------------------------------------------------------------
(* Every step is a step of the contract or a stutter                       *)

\* Catalogue and warehouse writes.
LEMMA CatalogWriteMaps ==
  ASSUME IInv, CatalogWrite
  PROVE  Contract!Write
<1> USE DEF flow, cleanup
<1>1. /\ onHand \in [Variants -> Nat] /\ reserved \in [Variants -> Nat]
      /\ written \in [Variants -> Int] /\ inherited \in [Variants -> Nat]
  BY ContractTypes
<1>2. \A v \in Variants \ catalog :
        onHand[v] = 0 /\ written[v] = 0 /\ reserved[v] = 0 /\ inherited[v] = 0
  BY DEF IInv, UncreatedEmpty
<1>3. MaxQty \in Nat
  BY InventoryAssumption
<1>4. PICK v \in Variants :
        \/ \E q \in 0..MaxQty : CreateVariant(v, q) \/ OverwriteOnHand(v, q)
        \/ \E src \in Variants : DuplicateVariant(src, v)
        \/ \E delta \in (-MaxQty..MaxQty) \ {0} : AdjustOnHand(v, delta)
  BY DEF CatalogWrite
<1>5. ASSUME NEW q \in 0..MaxQty, CreateVariant(v, q) PROVE Contract!Write
  BY <1>1, <1>2, <1>3, <1>5, WriteMaps DEF CreateVariant
<1>6. ASSUME NEW q \in 0..MaxQty, OverwriteOnHand(v, q) PROVE Contract!Write
  BY <1>1, <1>3, <1>6, WriteMaps DEF OverwriteOnHand
<1>7. ASSUME NEW src \in Variants, DuplicateVariant(src, v) PROVE Contract!Write
  BY <1>1, <1>2, <1>7, WriteMaps DEF DuplicateVariant
<1>8. ASSUME NEW delta \in Int, AdjustOnHand(v, delta) PROVE Contract!Write
  BY <1>1, <1>8, WriteMaps DEF AdjustOnHand
<1>9. -MaxQty..MaxQty \subseteq Int
  BY <1>3
<1> QED
  BY <1>4, <1>5, <1>6, <1>7, <1>8, <1>9

\* A receipt fills batch items of which nothing was sold to any order.
LEMMA ReceiptMaps ==
  ASSUME IInv, Receipt
  PROVE  SameContract
<1>1. PICK D \in SUBSET Batches : \E rows \in [D -> BatchRows] : Receive(D, rows)
  BY DEF Receipt
<1>2. PICK rows \in [D -> BatchRows] : Receive(D, rows)
  BY <1>1
<1>3. /\ batch' = [b \in Batches |-> IF b \in D THEN rows[b] ELSE batch[b]]
      /\ \A b \in D : batch[b].received = 0
      /\ UNCHANGED <<onHand, reserved, saleOut, written, inherited, resv>>
  BY <1>2 DEF Receive
<1>4. \A b \in D, o \in Orders : saleOut[o][b] = 0
  <2> SUFFICES ASSUME NEW b \in D, NEW o \in Orders PROVE saleOut[o][b] = 0
    OBVIOUS
  <2>1. Deducted(b) \in Nat /\ saleOut[o][b] <= Deducted(b)
    BY DeductedNat DEF IInv
  <2>2. Deducted(b) <= 0 /\ saleOut[o][b] \in Nat
    BY <1>3 DEF IInv, TypeOK, BatchNeverOversold
  <2> QED BY <2>1, <2>2
<1>5. ASSUME NEW o \in Orders, NEW v \in Variants
      PROVE  UnitsOf(saleOut[o], v)' = UnitsOf(saleOut[o], v)
  <2>1. [b \in Batches |-> IF batch'[b].variant = v THEN saleOut[o][b] ELSE 0]
          = [b \in Batches |-> IF batch[b].variant = v THEN saleOut[o][b] ELSE 0]
    BY <1>3, <1>4
  <2> QED BY <1>3, <2>1 DEF UnitsOf
<1>6. HeldUnits' = HeldUnits
  BY <1>3 DEF HeldUnits, Held, Active, InState
<1> QED
  BY <1>3, <1>5, <1>6 DEF SameContract, SoldTo

\* The whole next-state relation.
LEMMA StepMaps ==
  ASSUME IInv, IInv', [Next]_vars
  PROVE  [Contract!Next]_Contract!vars
<1> USE DEF vars, stock, flow, cleanup
<1>1. SameContract => UNCHANGED Contract!vars
  BY DEF SameContract, Contract!vars, SoldTo, HeldUnits
<1>2. \A o \in Orders, lines \in Lines :
        SubtractStock(o, lines) /\ resv' = resv => Contract!Next
  BY SaleMaps DEF Contract!Next
<1>3. \A D : Release(D) => Contract!Next
  BY ReleaseMaps DEF Contract!Next
<1>4. CASE CatalogWrite
  BY <1>4, CatalogWriteMaps DEF Contract!Next
<1>5. CASE Receipt
  BY <1>1, <1>5, ReceiptMaps
<1>6. CASE OrderStep
  <2>1. \/ \E o \in Orders, lines \in Lines : SubtractStock(o, lines) /\ resv' = resv
        \/ UNCHANGED <<stock, resv>>
    BY <1>6 DEF OrderStep, DeductForOrder, LoseDeductReply, RejectOrder, DeductStock,
                FailDeduct, PersistOrder, FailOrder, LoseCommitReply
  <2> QED BY <1>1, <1>2, <2>1, StutterMaps
<1>7. CASE CrashServer \/ Tick
  <2>1. UNCHANGED <<stock, resv>>
    BY <1>7 DEF CrashServer, Tick
  <2> QED BY <1>1, <2>1, StutterMaps
<1>8. CASE Reserving
  <2>1. ASSUME NEW D \in SUBSET Reservations, NEW rows \in [D -> ResvRows],
               NEW ttl \in TTLs, ReserveStock(D, rows, ttl)
        PROVE  Contract!Next
    BY <2>1, ReserveMaps DEF Contract!Next
  <2> QED BY <1>3, <1>8, <2>1 DEF Reserving, ReleaseByHand
<1>9. CASE CleanupStep
  <2>1. (\E D : Release(D)) \/ UNCHANGED <<stock, resv>>
    BY <1>9 DEF CleanupStep, ListExpired, ReleaseListed, FailCleanup
  <2> QED BY <1>1, <1>3, <2>1, StutterMaps
<1>10. CASE UNCHANGED vars
  BY <1>1, <1>10, StutterMaps
<1> QED
  BY <1>4, <1>5, <1>6, <1>7, <1>8, <1>9, <1>10 DEF Next

\* The empty database is an initial state of the contract.
LEMMA InitMaps ==
  ASSUME Init
  PROVE  Contract!Init
<1>1. IInv
  BY InitSafe
<1>2. /\ \A v \in Variants : onHand[v] = 0 /\ written[v] = 0 /\ inherited[v] = 0
      /\ written = onHand
      /\ saleOut = [o \in Orders |-> [b \in Batches |-> 0]]
  BY DEF Init
<1>3. ASSUME NEW o \in Orders, NEW v \in Variants PROVE UnitsOf(saleOut[o], v) = 0
  <2> DEFINE g == [b \in Batches |-> IF batch[b].variant = v THEN saleOut[o][b] ELSE 0]
  <2>1. NBatches \in Nat /\ \A b \in 1..NBatches : g[b] = 0
    BY <1>2, InventoryAssumption DEF Batches
  <2>2. UnitsOf(saleOut[o], v) = SumTo(g, NBatches)
    BY DEF UnitsOf
  <2> HIDE DEF g
  <2> QED BY <2>1, <2>2, SumToZero
<1>4. [o \in Orders |-> SoldTo(o)] = [o \in Orders |-> [v \in Variants |-> 0]]
  BY <1>3 DEF SoldTo
<1>5. /\ onHand \in [Variants -> Nat] /\ inherited \in [Variants -> Nat]
      /\ HeldUnits \in [Variants -> Nat]
      /\ reserved = [v \in Variants |-> inherited[v] + HeldUnits[v]]
  BY <1>1, ContractTypes
<1> QED
  BY <1>2, <1>4, <1>5
  DEF Contract!Init, Contract!None, Contract!Plus, SoldTo, HeldUnits

\* The stock pool keeps the contract: each step of each request is a sale, a
\* reservation, a release or a write taken at once, or no step at all.
THEOREM KeepsContract == Spec => ImplementsContract
<1>1. Init => Contract!Init
  BY InitMaps
<1>2. IInv /\ IInv' /\ [Next]_vars => [Contract!Next]_Contract!vars
  BY StepMaps
<1> QED
  BY <1>1, <1>2, InvariantHolds, PTL DEF Spec, ImplementsContract, Contract!Spec
=============================================================================
