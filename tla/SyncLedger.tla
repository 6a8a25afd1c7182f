----------------------------- MODULE SyncLedger -----------------------------
(***************************************************************************)
(* What the synchronisation ledgers of the repository promise about the    *)
(* authoritative run of one business period: attempts at a run follow one  *)
(* another, only the attempt that owns the run decides its result, and a   *)
(* run that has succeeded is closed for good.  Nothing here mentions       *)
(* leases, workers or storage; MarketDataRun is shown to implement it.     *)
(***************************************************************************)
CONSTANTS Run,        \* business identities (run_key)
          Attempt,    \* identities an attempt can have
          NoAttempt   \* "no attempt"

VARIABLES status,     \* [Run -> RunStatus]
          owner,      \* [Run -> Attempt \cup {NoAttempt}], who may decide it
          winner,     \* [Run -> Attempt \cup {NoAttempt}], who made it succeed
          used        \* attempts that have been opened

vars == <<status, owner, winner, used>>

RunStatus == {"ABSENT", "RUNNING", "FAILED", "SUCCEEDED"}

Init ==
    /\ status = [r \in Run |-> "ABSENT"]
    /\ owner = [r \in Run |-> NoAttempt]
    /\ winner = [r \in Run |-> NoAttempt]
    /\ used = {}

\* A fresh attempt becomes the owner, taking the place of any previous one.
Open(r, a) ==
    /\ status[r] # "SUCCEEDED"
    /\ a \notin used
    /\ status' = [status EXCEPT ![r] = "RUNNING"]
    /\ owner' = [owner EXCEPT ![r] = a]
    /\ used' = used \cup {a}
    /\ UNCHANGED winner

\* The owner makes the run succeed.
Succeed(r) ==
    /\ owner[r] # NoAttempt
    /\ status' = [status EXCEPT ![r] = "SUCCEEDED"]
    /\ winner' = [winner EXCEPT ![r] = owner[r]]
    /\ owner' = [owner EXCEPT ![r] = NoAttempt]
    /\ UNCHANGED used

\* The owner gives up.
Fail(r) ==
    /\ owner[r] # NoAttempt
    /\ status' = [status EXCEPT ![r] = "FAILED"]
    /\ owner' = [owner EXCEPT ![r] = NoAttempt]
    /\ UNCHANGED <<winner, used>>

Next ==
    \E r \in Run :
        \/ \E a \in Attempt : Open(r, a)
        \/ Succeed(r)
        \/ Fail(r)

Spec == Init /\ [][Next]_vars
=============================================================================
