---------------------------- MODULE MCInventory -----------------------------
(* Instances of Inventory for TLC: variants and workers are model values.   *)
EXTENDS Inventory, TLC

CONSTANTS va, vb, wa, wb

OneVariant  == {va}
TwoVariants == {va, vb}
OneWorker   == {wa}
TwoWorkers  == {wa, wb}
NoWorkers   == {}
=============================================================================
