------------------------- MODULE MCStockTransactions -------------------------
(* Instances of StockTransactions for TLC.                                  *)
EXTENDS StockTransactions

CONSTANTS va, vb

TwoVariants == {va, vb}
OneVariant  == {va}
=============================================================================
