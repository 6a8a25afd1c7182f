---------------------------- MODULE MCWebSession ----------------------------
(* Small instances of WebSession. *)
EXTENDS WebSession, TLC

CONSTANTS t1, t2, u1, u2

Symmetry == Permutations(Tab) \cup Permutations(User)
=============================================================================
