-------------------------- MODULE MCMarketDataRun --------------------------
(* Small instances of MarketDataRun. *)
EXTENDS MarketDataRun

CONSTANTS s1, s2, b1, t1, r1, r2

\* A backfill of the date and a retry of it.
Day == [f \in {b1, t1} |-> r1]

\* Two runs of the same trade date: two executions of a scheduled slot and
\* a backfill.
Dates == [f \in {s1, s2, b1} |-> IF f = b1 THEN r2 ELSE r1]
=============================================================================
