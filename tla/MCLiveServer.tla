----------------------------- MODULE MCLiveServer -----------------------------
(* Small instances of LiveServer. *)
EXTENDS LiveServer

CONSTANTS a1, a2, s1
=============================================================================
