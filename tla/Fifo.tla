-------------------------------- MODULE Fifo --------------------------------
(***************************************************************************)
(* The FIFO waterfall of InventoryService.deductSingleVariant: walk the    *)
(* batch items from the oldest to the newest and consume from each as much *)
(* as is still needed.  stock[b] is what batch item b has left.            *)
(***************************************************************************)
EXTENDS Sums

Lesser(i, j) == IF i <= j THEN i ELSE j

\* remaining, before the first batch item and after each of the items 1..n.
Remaining(stock, need, n) ==
  LET remaining[b \in 0..n] ==
        IF b = 0 THEN need
                 ELSE remaining[b - 1] - Lesser(remaining[b - 1], stock[b])
  IN  remaining

\* consume := min(remaining, available), for each batch item.
Consumed(stock, need, n) ==
  [b \in 1..n |-> Lesser(Remaining(stock, need, n)[b - 1], stock[b])]

\* "FIFO batches must fully cover the requested quantity".
Covers(stock, need, n) == Remaining(stock, need, n)[n] = 0
=============================================================================
