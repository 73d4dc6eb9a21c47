-------------------------------- MODULE Sums --------------------------------
(***************************************************************************)
(* Totals over table rows.  Rows of a table are numbered 1..n; a column is *)
(* a function on 1..n, and SumTo adds it up the way SQL's SUM does.  It is *)
(* a recursive function, not a RECURSIVE operator or a fold, so that the   *)
(* facts about it can be proved (module SumLemmas).                        *)
(***************************************************************************)
EXTENDS Integers

\* The running totals of column g over the rows 1..n.
RunningTotal(g, n) ==
  LET total[i \in 0..n] == IF i = 0 THEN 0 ELSE total[i - 1] + g[i]
  IN  total

\* The sum of column g over the rows 1..n.
SumTo(g, n) == RunningTotal(g, n)[n]
=============================================================================
