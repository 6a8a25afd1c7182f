----------------------------- MODULE RateLimiter -----------------------------
(***************************************************************************)
(* The limiter of one process.  Its threads queue for a lock; the holder   *)
(* drops the moments that left the window, sleeps for the minimal interval *)
(* and then, if the window is full, until its oldest moment leaves it.     *)
(* The expired moments are dropped once, before both sleeps.               *)
(*                                                                         *)
(* A request counts at the moment its thread is let through.  The sleep    *)
(* lasts at least as long as it was asked to, and the clock never steps    *)
(* back.  Moments are whole time units.                                    *)
(***************************************************************************)
EXTENDS Naturals, Sequences

CONSTANTS
    Thread,
    NoThread,  \* the lock is free
    Rate,      \* rate_per_minute
    Window,    \* window_seconds
    Interval,  \* min_interval_seconds, by default Window / Rate
    MaxTime    \* bound on the clock

ASSUME ConstantsOK ==
    /\ NoThread \notin Thread
    /\ Rate \in Nat \ {0}
    /\ Window \in Nat \ {0}
    /\ Interval \in Nat \ {0}
    /\ MaxTime \in Nat

VARIABLES
    clock,       \* time.monotonic()
    lock,        \* _lock: the thread that holds it
    thread,      \* the memory of each thread: where it is, when its sleep ends
    timestamps,  \* _timestamps
    last,        \* _last_call: a sequence of at most one moment
    calls        \* history: every moment a thread was let through

vars == <<clock, lock, thread, timestamps, last, calls>>

Time == 0..MaxTime

TypeOK ==
    /\ clock \in Time
    /\ lock \in Thread \cup {NoThread}
    /\ thread \in [Thread -> [phase : {"out", "spacing", "waiting"}, wake : Nat]]
    /\ timestamps \in Seq(Time)
    /\ last \in Seq(Time)
    /\ calls \in Seq(Time)

Init ==
    /\ clock = 0
    /\ lock = NoThread
    /\ thread = [t \in Thread |-> [phase |-> "out", wake |-> 0]]
    /\ timestamps = <<>>
    /\ last = <<>>
    /\ calls = <<>>

-----------------------------------------------------------------------------
(* wait_before_call *)

Goto(t, phase, wake) ==
    thread' = [thread EXCEPT ![t] = [phase |-> phase, wake |-> wake]]

OutOfWindow(m) == m + Window <= clock

\* popleft while the oldest moment is out of the window: k moments go.
Dropped(k) ==
    /\ \A i \in 1..k : OutOfWindow(timestamps[i])
    /\ k < Len(timestamps) => ~OutOfWindow(timestamps[k + 1])

\* Fault: the lock is not waited for.
AlwaysFree == TRUE

LockIsFree == lock = NoThread

\* with self._lock: the expired moments go, and the first sleep begins if the
\* last request is too recent.
Enter(t) ==
    /\ thread[t].phase = "out"
    /\ LockIsFree
    /\ lock' = t
    /\ \E k \in 0..Len(timestamps) :
          Dropped(k) /\ timestamps' = SubSeq(timestamps, k + 1, Len(timestamps))
    /\ Goto(t, "spacing", IF last # <<>> THEN last[1] + Interval ELSE clock)
    /\ UNCHANGED <<clock, last, calls>>

\* Fault: the window may hold one more.
FullAboveRate == Len(timestamps) > Rate

Full == Len(timestamps) >= Rate

\* The first sleep is over; the second begins if the window is full.
AwaitWindow(t) ==
    /\ thread[t].phase = "spacing"
    /\ thread[t].wake <= clock
    /\ Goto(t, "waiting", IF Full THEN timestamps[1] + Window ELSE clock)
    /\ UNCHANGED <<clock, lock, timestamps, last, calls>>

\* Fault: the request is recorded at the moment the sleep should have ended.
MomentPlanned(t) == thread[t].wake

Moment(t) == clock

\* The request is let through and the lock released.
LetThrough(t) ==
    /\ thread[t].phase = "waiting"
    /\ thread[t].wake <= clock
    /\ timestamps' = Append(timestamps, Moment(t))
    /\ last' = <<Moment(t)>>
    /\ calls' = Append(calls, clock)
    /\ lock' = NoThread
    /\ Goto(t, "out", 0)
    /\ UNCHANGED clock

\* Time passes, also between any two steps of a thread.
Tick ==
    /\ clock < MaxTime
    /\ clock' = clock + 1
    /\ UNCHANGED <<lock, thread, timestamps, last, calls>>

Next ==
    \/ \E t \in Thread : Enter(t) \/ AwaitWindow(t) \/ LetThrough(t)
    \/ Tick

Spec == Init /\ [][Next]_vars

-----------------------------------------------------------------------------
(* Properties *)

\* Any span of Window time units holds at most Rate requests: the one Rate
\* places later comes a whole window later, although threads sleep twice on
\* moments they read before the first sleep.
WindowKept ==
    \A i \in DOMAIN calls :
        i + Rate \in DOMAIN calls => calls[i] + Window <= calls[i + Rate]

\* The deque never holds more than one moment above the rate, so the limiter
\* does not remember requests that no longer matter.
MemoryBounded == Len(timestamps) <= Rate + 1

\* The deque is the tail of the history, and what it has dropped is out of the
\* window; a sleeping thread has read the moment its sleep depends on.
Forgotten == Len(calls) - Len(timestamps)

Holder(t) == thread[t].phase # "out"

HolderIsAlone == \A t \in Thread : Holder(t) => lock = t

TailKept ==
    /\ Len(timestamps) <= Len(calls)
    /\ \A i \in DOMAIN timestamps : timestamps[i] = calls[Forgotten + i]
    /\ \A i \in 1..Forgotten : calls[i] + Window <= clock
    /\ last = IF calls = <<>> THEN <<>> ELSE <<calls[Len(calls)]>>

Ordered ==
    /\ \A i \in DOMAIN calls : calls[i] <= clock
    /\ \A i \in DOMAIN calls : i + 1 \in DOMAIN calls => calls[i] + Interval <= calls[i + 1]

SleepsFor ==
    \A t \in Thread :
        /\ Holder(t) => Len(timestamps) <= Rate
        /\ thread[t].phase = "spacing" /\ calls # <<>> =>
              calls[Len(calls)] + Interval <= thread[t].wake
        /\ thread[t].phase = "waiting" =>
              /\ calls # <<>> => calls[Len(calls)] + Interval <= clock
              /\ Full => timestamps[1] + Window <= thread[t].wake

IInv ==
    /\ TypeOK
    /\ HolderIsAlone
    /\ TailKept
    /\ Ordered
    /\ SleepsFor
    /\ WindowKept
    /\ MemoryBounded

\* The limiter is a Throttle: rate_limiter.py's protocol of that name.
Promise == INSTANCE Throttle

ImplementsThrottle == Promise!Spec

=============================================================================
