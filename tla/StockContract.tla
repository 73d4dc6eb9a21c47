--------------------------- MODULE StockContract ----------------------------
(***************************************************************************)
(* What the stock pool promises to its callers: a sale, a reservation, a   *)
(* release or a write of another part of the shop takes effect in one step *)
(* or not at all, and sales and reservations only take what is available   *)
(* at that step.  Module Inventory and module StockTransactions implement  *)
(* it.                                                                     *)
(***************************************************************************)
EXTENDS Integers

CONSTANTS Variants, Orders

VARIABLES
  onHand, reserved,  \* the inventory row of each variant
  sold,              \* units sold to each order, of each variant
  held,              \* units of the active reservations of each variant
  written,           \* what other writers did to onHand
  inherited          \* what a copied variant was given as reserved

vars == <<onHand, reserved, sold, held, written, inherited>>

Available(v) == onHand[v] - reserved[v]

\* The change of column f in a step.
Change(f, g) == [v \in Variants |-> g[v] - f[v]]
Plus(f, g)   == [v \in Variants |-> f[v] + g[v]]
None         == [v \in Variants |-> 0]

\* Units are only taken from what is available.
Affordable(units) ==
  \A v \in Variants : units[v] >= 0 /\ (units[v] > 0 => units[v] <= Available(v))

Init ==
  /\ onHand \in [Variants -> Nat] /\ written = onHand
  /\ inherited \in [Variants -> Nat] /\ held \in [Variants -> Nat]
  /\ reserved = Plus(inherited, held)
  /\ sold = [o \in Orders |-> None]

\* The lines of one order leave the stock together.
Sale(o) ==
  LET lines == Change(onHand', onHand)
  IN  /\ UNCHANGED <<reserved, written, inherited, held>>
      /\ Affordable(lines)
      /\ sold' = [sold EXCEPT ![o] = Plus(@, lines)]

\* The rows of one reservation request are held together.
Reserve ==
  LET units == Change(reserved, reserved')
  IN  /\ UNCHANGED <<onHand, written, inherited, sold>>
      /\ Affordable(units)
      /\ held' = Plus(held, units)

\* What is given back to the stock is exactly what was held.
Release ==
  LET units == Change(reserved', reserved)
  IN  /\ UNCHANGED <<onHand, written, inherited, sold>>
      /\ \A v \in Variants : units[v] >= 0
      /\ held = Plus(held', units)

\* The catalogue and the warehouse write what they like, and only there.
Write ==
  /\ Change(onHand, onHand') = Change(written, written')
  /\ Change(reserved, reserved') = Change(inherited, inherited')
  /\ UNCHANGED <<sold, held>>

Next == (\E o \in Orders : Sale(o)) \/ Reserve \/ Release \/ Write

Spec == Init /\ [][Next]_vars
=============================================================================
