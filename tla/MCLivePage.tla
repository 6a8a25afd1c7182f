------------------------------ MODULE MCLivePage ------------------------------
(* Small instances of LivePage. *)
EXTENDS LivePage

CONSTANT s1
=============================================================================
