---------------------------- MODULE MCTransfers -----------------------------
(* Instances of Transfers for TLC.                                          *)
EXTENDS Transfers

CONSTANTS wa, wb, va

TwoWarehouses == {wa, wb}
OneVariant    == {va}
=============================================================================
