---------------------------- MODULE MCStockListRun ----------------------------
(* A small instance of StockListRun. *)
EXTENDS StockListRun, TLC

CONSTANTS s1, s2, m1, r1, r2, p1, p2, c1, c2

\* Two slots, the second with a manual retry.
OneRetry == [f \in {s1, s2, m1} |-> IF f = s1 THEN r1 ELSE r2]
=============================================================================
