-------------------------- MODULE RedisRateLimiter --------------------------
(***************************************************************************)
(* The limiter several flow processes share.  Its window is a sorted set   *)
(* in Redis; a script that Redis runs atomically drops the expired         *)
(* moments, and records the caller's moment or answers how long to wait.   *)
(* The caller reads its clock before the script runs, so scripts run in an *)
(* order other than that of their moments.  A caller whose next sleep      *)
(* would end a whole window after it came is let through at once.  When    *)
(* Redis fails the process uses a limiter of its own from then on.         *)
(*                                                                         *)
(* The processes share one monotonic clock (one host) that starts above 0, *)
(* which the script takes for "no request yet".  The keys of the window    *)
(* and of the last request live longer than Window and Interval.           *)
(***************************************************************************)
EXTENDS Naturals, Sequences, FiniteSets

CONSTANTS
    Process,
    Rate,        \* rate_per_minute
    Window,      \* window_ms
    Interval,    \* min_interval_ms
    RedisFails,  \* whether Redis may be out of reach
    MaxTime,     \* bound on the clock
    MaxCalls     \* bound on the requests let through

ASSUME ConstantsOK ==
    /\ Rate \in Nat \ {0}
    /\ Window \in Nat \ {0}
    /\ Interval \in Nat \ {0}
    /\ RedisFails \in BOOLEAN
    /\ MaxTime \in Nat \ {0}
    /\ MaxCalls \in Nat

VARIABLES
    clock,     \* time.monotonic() * 1000
    window,    \* KEYS[1]: the recorded moments, ascending
    last,      \* KEYS[2]: a sequence of at most one moment
    proc,      \* the memory of each process
    recorded,  \* history: every moment the script recorded
    own,       \* history of each process's fallback limiter
    calls      \* how many requests went out, for the bound

vars == <<clock, window, last, proc, recorded, own, calls>>

Time == 1..MaxTime

Step == {"idle", "looping", "asking", "sleeping", "overdue", "recording",
         "local"}

TypeOK ==
    /\ clock \in Time
    /\ window \in Seq(Time)
    /\ last \in Seq(Time)
    /\ proc \in [Process -> [step : Step, read : Nat, wake : Nat, deadline : Nat,
                             degraded : BOOLEAN]]
    /\ recorded \in Seq(Time)
    /\ own \in [Process -> Seq(Time)]
    /\ calls \in Nat

Idle(degraded) ==
    [step |-> "idle", read |-> 0, wake |-> 0, deadline |-> 0, degraded |-> degraded]

Init ==
    /\ clock = 1
    /\ window = <<>>
    /\ last = <<>>
    /\ proc = [p \in Process |-> Idle(FALSE)]
    /\ recorded = <<>>
    /\ own = [p \in Process |-> <<>>]
    /\ calls = 0

-----------------------------------------------------------------------------
(* _LUA_WINDOW, at the moment now that the caller read *)

\* Fault: a moment is dropped while it still counts.
ExpiredEarly(m, now) == m + Window <= now + 1

Expired(m, now) == m + Window <= now

\* ZREMRANGEBYSCORE: the moments are in ascending order, so the expired ones
\* come first.
Kept(now) ==
    LET k == CHOOSE k \in 0..Len(window) :
                \A i \in DOMAIN window : Expired(window[i], now) <=> i <= k
    IN  SubSeq(window, k + 1, Len(window))

\* Fault: the window may hold one more.
WindowWaitAbove(now) ==
    IF Len(Kept(now)) > Rate THEN Kept(now)[1] + Window - now ELSE 0

WindowWait(now) ==
    IF Len(Kept(now)) >= Rate THEN Kept(now)[1] + Window - now ELSE 0

IntervalWait(now) ==
    IF last # <<>> /\ now < last[1] + Interval THEN last[1] + Interval - now ELSE 0

Wait(now) ==
    IF WindowWait(now) > IntervalWait(now) THEN WindowWait(now) ELSE IntervalWait(now)

\* ZADD and SET, or nothing but the removal of what expired.
Record(now) ==
    /\ Wait(now) = 0
    /\ window' = Append(Kept(now), now)
    /\ last' = <<now>>
    /\ recorded' = Append(recorded, now)

Refuse(now) ==
    /\ Wait(now) > 0
    /\ window' = Kept(now)
    /\ UNCHANGED <<last, recorded>>

-----------------------------------------------------------------------------
(* wait_before_call *)

Begin(p) ==
    /\ proc[p].step = "idle"
    /\ calls < MaxCalls
    /\ proc' = [proc EXCEPT ![p] =
          IF proc[p].degraded THEN [Idle(TRUE) EXCEPT !.step = "local"]
          ELSE [Idle(FALSE) EXCEPT !.step = "looping", !.deadline = clock + Window]]
    /\ UNCHANGED <<clock, window, last, recorded, own, calls>>

ReadClock(p) ==
    /\ \/ proc[p].step \in {"looping", "overdue"}
       \/ proc[p].step = "sleeping" /\ proc[p].wake <= clock
    /\ proc' = [proc EXCEPT ![p].step = IF @ = "overdue" THEN "recording" ELSE "asking",
                            ![p].read = clock]
    /\ UNCHANGED <<clock, window, last, recorded, own, calls>>

\* The script records the moment: the request goes out.
Granted(p) ==
    /\ proc[p].step = "asking"
    /\ Record(proc[p].read)
    /\ proc' = [proc EXCEPT ![p] = Idle(FALSE)]
    /\ calls' = calls + 1
    /\ UNCHANGED <<clock, own>>

\* The script refuses: sleep, or give up waiting if the sleep would last until
\* the deadline.
Refused(p) ==
    LET wake == clock + Wait(proc[p].read) IN
    /\ proc[p].step = "asking"
    /\ Refuse(proc[p].read)
    /\ proc' = [proc EXCEPT ![p].step = IF wake >= proc[p].deadline THEN "overdue" ELSE "sleeping",
                            ![p].wake = wake]
    /\ UNCHANGED <<clock, recorded, own, calls>>

\* _record_now: the script runs once more, whatever it answers, and the
\* request goes out.
LetThroughOverdue(p) ==
    /\ proc[p].step = "recording"
    /\ \/ Record(proc[p].read)
       \/ Refuse(proc[p].read)
       \/ RedisFails /\ UNCHANGED <<window, last, recorded>>
    /\ proc' = [proc EXCEPT ![p] = Idle(FALSE)]
    /\ calls' = calls + 1
    /\ UNCHANGED <<clock, own>>

\* A RedisError: the process is degraded for good, whether the script has run
\* and its answer was lost, or not.
Degrade(p) ==
    /\ RedisFails
    /\ proc[p].step = "asking"
    /\ \/ Record(proc[p].read)
       \/ Refuse(proc[p].read)
       \/ UNCHANGED <<window, last, recorded>>
    /\ proc' = [proc EXCEPT ![p] = [Idle(TRUE) EXCEPT !.step = "local"]]
    /\ UNCHANGED <<clock, own, calls>>

\* The fallback limiter keeps the promise of Throttle for its process.
Fallback(p) == INSTANCE Throttle WITH calls <- own[p]

LetThroughLocal(p) ==
    /\ proc[p].step = "local"
    /\ Fallback(p)!Allowed(clock)
    /\ own' = [own EXCEPT ![p] = Append(own[p], clock)]
    /\ calls' = calls + 1
    /\ proc' = [proc EXCEPT ![p] = Idle(TRUE)]
    /\ UNCHANGED <<clock, window, last, recorded>>

Tick ==
    /\ clock < MaxTime
    /\ clock' = clock + 1
    /\ UNCHANGED <<window, last, proc, recorded, own, calls>>

Next ==
    \/ \E p \in Process :
          \/ Begin(p)
          \/ ReadClock(p)
          \/ Granted(p)
          \/ Refused(p)
          \/ LetThroughOverdue(p)
          \/ Degrade(p)
          \/ LetThroughLocal(p)
    \/ Tick

Spec == Init /\ [][Next]_vars

-----------------------------------------------------------------------------
(* Properties *)

\* What the processes record together keeps the promise of one limiter, in
\* whatever order the scripts run, with moments read long before, after
\* refusals, failures and requests let through overdue.
Shared == INSTANCE Throttle WITH calls <- recorded

RecordedIsThrottle == Shared!Spec

\* The moments in Redis are in the order in which they were recorded, so that
\* the first one is the oldest although callers bring moments they read long
\* ago.
Ascending == \A i, j \in DOMAIN window : i < j => window[i] < window[j]

\* How many recorded moments Redis has forgotten.
Forgotten == Len(recorded) - Len(window)

\* Redis remembers the newest moments, and no request that the interval admits
\* is early enough for a forgotten moment to count: a caller that dropped it
\* with a clock ahead of others was recorded, or refused for the interval.
TailKept ==
    /\ last = IF recorded = <<>> THEN <<>> ELSE <<recorded[Len(recorded)]>>
    /\ Len(window) <= Len(recorded)
    /\ \A i \in DOMAIN window : window[i] = recorded[Forgotten + i]
    /\ \A i \in 1..Forgotten : recorded[i] + Window <= last[1] + Interval

\* Nobody asks with a moment that is still to come.
ReadsPast ==
    \A p \in Process : proc[p].step \in {"asking", "recording"} => proc[p].read \in 1..clock

\* The inductive invariant: the set never outgrows the rate, and what it has
\* forgotten does not matter any more.
IInv ==
    /\ TypeOK
    /\ Len(window) <= Rate
    /\ Ascending /\ TailKept /\ ReadsPast

=============================================================================
