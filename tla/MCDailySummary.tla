--------------------------- MODULE MCDailySummary ---------------------------
(* Small instances of DailySummary. *)
EXTENDS DailySummary, TLC

CONSTANTS d1, d2, r1

SameKind == Permutations({d1, d2})
=============================================================================
