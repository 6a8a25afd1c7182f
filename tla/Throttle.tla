------------------------------ MODULE Throttle ------------------------------
(***************************************************************************)
(* What a limiter of provider requests promises its callers: a request is  *)
(* let through no sooner than Interval after the one before it, and no     *)
(* sooner than Window after the one Rate places before it.  Then any span  *)
(* of Window time units holds at most Rate requests.                       *)
(***************************************************************************)
EXTENDS Naturals, Sequences

CONSTANTS
    Rate,      \* rate_per_minute
    Window,    \* window_seconds, in time units
    Interval,  \* min_interval_seconds, in time units
    Time       \* the moments of the clock

VARIABLE
    calls      \* the moments at which requests were let through

Allowed(t) ==
    /\ calls # <<>> => t >= calls[Len(calls)] + Interval
    /\ Len(calls) >= Rate => t >= calls[Len(calls) - Rate + 1] + Window

Init == calls = <<>>

LetThrough(t) ==
    /\ Allowed(t)
    /\ calls' = Append(calls, t)

Next == \E t \in Time : LetThrough(t)

Spec == Init /\ [][Next]_calls

=============================================================================
