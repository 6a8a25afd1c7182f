------------------------- MODULE RateLimiter_proofs -------------------------
(***************************************************************************)
(* Proofs about RateLimiter: its inductive invariant, the bound on every   *)
(* span of the window, and the refinement of Throttle.                     *)
(***************************************************************************)
EXTENDS RateLimiter, SequenceTheorems, TLAPS

\* The types the leaves below work with.
LEMMA Types ==
    ASSUME IInv
    PROVE  /\ clock \in Nat /\ clock \in Time
           /\ Len(calls) \in Nat /\ Len(timestamps) \in Nat /\ Forgotten \in Nat
           /\ DOMAIN calls = 1..Len(calls) /\ DOMAIN timestamps = 1..Len(timestamps)
           /\ \A i \in 1..Len(calls) : calls[i] \in Nat /\ calls[i] \in Time
           /\ \A i \in 1..Len(timestamps) : timestamps[i] \in Nat /\ timestamps[i] \in Time
           /\ \A t \in Thread : thread[t].wake \in Nat
<1>1. /\ clock \in Time /\ timestamps \in Seq(Time) /\ calls \in Seq(Time)
      /\ \A t \in Thread : thread[t].wake \in Nat
  BY DEF IInv, TypeOK
<1>2. Time \subseteq Nat
  BY ConstantsOK DEF Time
<1>3. /\ Len(calls) \in Nat /\ DOMAIN calls = 1..Len(calls)
      /\ \A i \in 1..Len(calls) : calls[i] \in Time
  BY <1>1, LenProperties, ElementOfSeq
<1>4. /\ Len(timestamps) \in Nat /\ DOMAIN timestamps = 1..Len(timestamps)
      /\ \A i \in 1..Len(timestamps) : timestamps[i] \in Time
  BY <1>1, LenProperties, ElementOfSeq
<1>5. Forgotten \in Nat
  BY <1>3, <1>4 DEF IInv, TailKept, Forgotten
<1>6. QED
  BY <1>1, <1>2, <1>3, <1>4, <1>5

\* What a sequence without its first k elements is.
LEMMA TailOfSeq ==
    ASSUME NEW S, NEW s \in Seq(S), NEW k \in 0..Len(s)
    PROVE  /\ SubSeq(s, k + 1, Len(s)) \in Seq(S)
           /\ Len(SubSeq(s, k + 1, Len(s))) = Len(s) - k
           /\ \A i \in 1..(Len(s) - k) : SubSeq(s, k + 1, Len(s))[i] = s[k + i]
<1> DEFINE d == SubSeq(s, k + 1, Len(s))
<1>1. Len(s) \in Nat /\ \A i \in 1..Len(s) : s[i] \in S
  BY LenProperties, ElementOfSeq
<1>2. k \in Nat /\ k + 1 \in Int /\ Len(s) \in Int /\ \A i \in (k + 1)..Len(s) : s[i] \in S
  BY <1>1
<1>3. /\ d \in Seq(S)
      /\ Len(d) = IF k + 1 <= Len(s) THEN Len(s) - (k + 1) + 1 ELSE 0
      /\ \A i \in 1..(Len(s) - (k + 1) + 1) : d[i] = s[k + 1 + i - 1]
  BY <1>2, SubSeqProperties
<1> HIDE DEF d
<1>4. Len(d) = Len(s) - k
  BY <1>1, <1>2, <1>3
<1>5. ASSUME NEW i \in 1..(Len(s) - k)
      PROVE  d[i] = s[k + i]
  <2>1. i \in 1..(Len(s) - (k + 1) + 1) /\ k + 1 + i - 1 = k + i
    BY <1>1, <1>2
  <2>2. QED
    BY <2>1, <1>3
<1>6. QED
  BY <1>3, <1>4, <1>5 DEF d

\* The deque after the expired moments are dropped: it is still the tail of
\* the history and has at most Rate moments, because the moment Rate places
\* before the newest is out of the window.
LEMMA DropKeepsTail ==
    ASSUME IInv, NEW k \in 0..Len(timestamps), Dropped(k), calls' = calls,
           clock' = clock, last' = last, timestamps' \in Seq(Time),
           Len(timestamps') = Len(timestamps) - k,
           \A i \in 1..(Len(timestamps) - k) : timestamps'[i] = timestamps[k + i]
    PROVE  /\ Len(timestamps') <= Rate
           /\ TailKept'
<1>1. TailKept /\ Ordered /\ WindowKept
  BY DEF IInv
<1>2. Rate \in Nat \ {0} /\ Window \in Nat \ {0}
  BY ConstantsOK
<1>3. /\ clock \in Nat
      /\ Len(calls) \in Nat /\ Len(timestamps) \in Nat /\ Forgotten \in Nat
      /\ DOMAIN calls = 1..Len(calls) /\ DOMAIN timestamps = 1..Len(timestamps)
      /\ \A i \in 1..Len(calls) : calls[i] \in Nat
      /\ \A i \in 1..Len(timestamps) : timestamps[i] \in Time
  BY Types
<1>6. Len(timestamps') = Len(timestamps) - k
  OBVIOUS
<1>7. \A i \in 1..(Len(timestamps) - k) : timestamps'[i] = timestamps[k + i]
  OBVIOUS
<1>8. Forgotten' = Forgotten + k
  BY <1>6, <1>3 DEF Forgotten
<1>9. \A i \in 1..Len(timestamps) : timestamps[i] = calls[Forgotten + i]
  BY <1>1, <1>3 DEF TailKept
<1>10. Len(timestamps) <= Len(calls) /\ Forgotten + Len(timestamps) = Len(calls)
  BY <1>1, <1>3 DEF TailKept, Forgotten
<1>11. TailKept'
  <2>1. Len(timestamps') <= Len(calls')
    BY <1>6, <1>10, <1>3
  <2>2. \A i \in DOMAIN timestamps' : timestamps'[i] = calls'[Forgotten' + i]
    <3>1. DOMAIN timestamps' = 1..(Len(timestamps) - k)
      BY <1>6, LenProperties
    <3>2. SUFFICES ASSUME NEW i \in 1..(Len(timestamps) - k)
                   PROVE  timestamps'[i] = calls[Forgotten + k + i]
      BY <3>1, <1>8
    <3>3. k + i \in 1..Len(timestamps) /\ Forgotten + (k + i) = Forgotten + k + i
      BY <1>3
    <3>4. QED
      BY <3>3, <1>7, <1>9
  <2>3. \A i \in 1..Forgotten' : calls'[i] + Window <= clock'
    <3>1. SUFFICES ASSUME NEW i \in 1..(Forgotten + k)
                   PROVE  calls[i] + Window <= clock
      BY <1>8
    <3>2. CASE i <= Forgotten
      BY <3>2, <1>1, <1>3 DEF TailKept
    <3>3. CASE i > Forgotten
      <4>1. i - Forgotten \in 1..k /\ i - Forgotten \in 1..Len(timestamps)
            /\ Forgotten + (i - Forgotten) = i
        BY <3>3, <1>3
      <4>2. timestamps[i - Forgotten] = calls[i]
        BY <4>1, <1>9
      <4>3. timestamps[i - Forgotten] + Window <= clock
        BY <4>1 DEF Dropped, OutOfWindow
      <4>4. QED
        BY <4>2, <4>3
    <3>4. QED
      BY <3>2, <3>3, <1>3
  <2>4. last' = IF calls' = <<>> THEN <<>> ELSE <<calls'[Len(calls')]>>
    BY <1>1 DEF TailKept
  <2>5. QED
    BY <2>1, <2>2, <2>3, <2>4 DEF TailKept
<1>12. Len(timestamps') <= Rate
  <2>1. SUFFICES ASSUME Len(timestamps) - k > Rate PROVE FALSE
    BY <1>6, <1>2, <1>3
  <2> DEFINE m == Forgotten + k + 1
  <2>2. m \in 1..Len(calls) /\ m + Rate \in 1..Len(calls)
    BY <2>1, <1>10, <1>2, <1>3
  <2>3. calls[m] + Window <= calls[m + Rate]
    BY <2>2, <1>1, <1>3 DEF WindowKept
  <2>4. calls[m + Rate] <= clock
    BY <2>2, <1>1, <1>3 DEF Ordered
  <2>5. calls[m] + Window <= clock
    BY <2>2, <2>3, <2>4, <1>2, <1>3
  <2>6. timestamps[k + 1] = calls[m]
    <3>1. k + 1 \in 1..Len(timestamps) /\ Forgotten + (k + 1) = m
      BY <2>1, <1>2, <1>3
    <3>2. QED
      BY <3>1, <1>9
  <2>7. k < Len(timestamps)
    BY <2>1, <1>2, <1>3
  <2>8. QED
    BY <2>5, <2>6, <2>7 DEF Dropped, OutOfWindow
<1>13. QED
  BY <1>11, <1>12

\* When the second sleep is over the request may be let through.
LEMMA MomentIsAllowed ==
    ASSUME IInv, NEW t \in Thread, thread[t].phase = "waiting", thread[t].wake <= clock
    PROVE  /\ calls # <<>> => calls[Len(calls)] + Interval <= clock
           /\ Len(calls) >= Rate => calls[Len(calls) - Rate + 1] + Window <= clock
           /\ Len(timestamps) <= Rate
<1>1. SleepsFor /\ TailKept
  BY DEF IInv
<1>2. Rate \in Nat \ {0} /\ Window \in Nat \ {0}
  BY ConstantsOK
<1>3. /\ clock \in Nat
      /\ Len(calls) \in Nat /\ Len(timestamps) \in Nat /\ Forgotten \in Nat
      /\ DOMAIN calls = 1..Len(calls) /\ DOMAIN timestamps = 1..Len(timestamps)
      /\ \A i \in 1..Len(calls) : calls[i] \in Nat
      /\ \A i \in 1..Len(timestamps) : timestamps[i] \in Nat
      /\ thread[t].wake \in Nat
  BY Types
<1>4. /\ Len(timestamps) <= Rate
      /\ calls # <<>> => calls[Len(calls)] + Interval <= clock
      /\ Full => timestamps[1] + Window <= thread[t].wake
  BY <1>1 DEF SleepsFor, Holder
<1>5. ASSUME Len(calls) >= Rate
      PROVE  calls[Len(calls) - Rate + 1] + Window <= clock
  <2> DEFINE m == Len(calls) - Rate + 1
  <2>1. m \in 1..Len(calls) /\ Forgotten + Len(timestamps) = Len(calls)
    BY <1>5, <1>2, <1>3 DEF Forgotten
  <2>2. CASE Len(timestamps) = Rate
    <3>1. m = Forgotten + 1 /\ 1 \in 1..Len(timestamps)
      BY <2>1, <2>2, <1>2, <1>3
    <3>2. timestamps[1] = calls[m]
      BY <3>1, <1>1, <1>3 DEF TailKept
    <3>3. timestamps[1] + Window <= thread[t].wake
      BY <2>2, <1>2, <1>4 DEF Full
    <3>4. timestamps[1] \in Nat
      BY <3>1, <1>3
    <3>5. QED
      BY <3>2, <3>3, <3>4, <1>2, <1>3
  <2>3. CASE Len(timestamps) < Rate
    <3>1. m \in 1..Forgotten
      BY <2>1, <2>3, <1>2, <1>3
    <3>2. QED
      BY <3>1, <1>1 DEF TailKept
  <2>4. Len(timestamps) = Rate \/ Len(timestamps) < Rate
    <3>1. Len(timestamps) \in Nat /\ Rate \in Nat
      BY <1>2, <1>3
    <3>2. Len(timestamps) <= Rate
      BY <1>4
    <3>3. QED
      BY <3>1, <3>2
  <2>5. QED
    BY <2>2, <2>3, <2>4
<1>6. QED
  BY <1>4, <1>5

LEMMA InitHolds ==
    ASSUME Init PROVE IInv
<1>1. /\ Len(<<>>) = 0 /\ DOMAIN <<>> = {} /\ <<>> \in Seq(Time)
  BY EmptySeq
<1>2. TypeOK
  BY <1>1, ConstantsOK DEF Init, TypeOK, Time
<1>3. HolderIsAlone /\ TailKept /\ Ordered /\ SleepsFor /\ WindowKept /\ MemoryBounded
  BY <1>1, ConstantsOK
     DEF Init, HolderIsAlone, Holder, TailKept, Forgotten, Ordered, SleepsFor,
         WindowKept, MemoryBounded
<1>4. QED
  BY <1>2, <1>3 DEF IInv

LEMMA EnterKeepsInvariant ==
    ASSUME IInv, NEW t \in Thread, Enter(t)
    PROVE  IInv'
<1>1. TypeOK /\ HolderIsAlone /\ TailKept /\ Ordered /\ SleepsFor /\ WindowKept
  BY DEF IInv
<1>2. Rate \in Nat \ {0} /\ Interval \in Nat \ {0} /\ NoThread \notin Thread
  BY ConstantsOK
<1>3. PICK k \in 0..Len(timestamps) :
        Dropped(k) /\ timestamps' = SubSeq(timestamps, k + 1, Len(timestamps))
  BY DEF Enter
<1>4. clock' = clock /\ last' = last /\ calls' = calls /\ lock' = t /\ lock = NoThread
  BY DEF Enter, LockIsFree
<1>5. timestamps' \in Seq(Time) /\ Len(timestamps') <= Rate /\ TailKept'
  <2>1. timestamps \in Seq(Time)
    BY <1>1 DEF TypeOK
  <2>2. /\ timestamps' \in Seq(Time)
        /\ Len(timestamps') = Len(timestamps) - k
        /\ \A i \in 1..(Len(timestamps) - k) : timestamps'[i] = timestamps[k + i]
    BY <2>1, <1>3, TailOfSeq
  <2>3. QED
    BY <2>2, <1>3, <1>4, DropKeepsTail
<1>6. Len(timestamps') \in Nat
  BY <1>5, LenProperties
<1> DEFINE w == IF last # <<>> THEN last[1] + Interval ELSE clock
<1>7. thread' = [thread EXCEPT ![t] = [phase |-> "spacing", wake |-> w]]
  BY DEF Enter, Goto
<1>8. w \in Nat /\ (calls # <<>> => w = calls[Len(calls)] + Interval)
  <2>1. CASE calls = <<>>
    BY <2>1, <1>1, Types DEF TailKept
  <2>2. CASE calls # <<>>
    <3>1. last = <<calls[Len(calls)]>> /\ last # <<>> /\ last[1] = calls[Len(calls)]
      BY <2>2, <1>1 DEF TailKept
    <3>2. Len(calls) \in 1..Len(calls)
      BY <2>2, <1>1, Types, EmptySeq DEF TypeOK
    <3>3. calls[Len(calls)] \in Nat
      BY <3>2, Types
    <3>4. QED
      BY <3>1, <3>3, <1>2
  <2>3. QED
    BY <2>1, <2>2
<1> HIDE DEF w
<1>9. /\ thread'[t] = [phase |-> "spacing", wake |-> w]
      /\ \A u \in Thread \ {t} : thread'[u] = thread[u]
      /\ thread' \in [Thread -> [phase : {"out", "spacing", "waiting"}, wake : Nat]]
  BY <1>7, <1>8, <1>1 DEF TypeOK
<1>10. \A u \in Thread : u # t => thread[u].phase = "out"
  BY <1>1, <1>2, <1>4 DEF HolderIsAlone, Holder
<1>11. TypeOK'
  BY <1>1, <1>4, <1>5, <1>9 DEF TypeOK
<1>12. HolderIsAlone'
  BY <1>4, <1>9, <1>10 DEF HolderIsAlone, Holder
<1>13. Ordered' /\ WindowKept'
  BY <1>1, <1>4 DEF Ordered, WindowKept
<1>14. SleepsFor'
  <2>1. SUFFICES ASSUME NEW u \in Thread
        PROVE  /\ thread'[u].phase # "out" => Len(timestamps') <= Rate
               /\ thread'[u].phase = "spacing" /\ calls # <<>> =>
                     calls[Len(calls)] + Interval <= thread'[u].wake
               /\ thread'[u].phase # "waiting"
    BY <1>4 DEF SleepsFor, Holder
  <2>2. CASE u = t
    <3>1. calls # <<>> => calls[Len(calls)] + Interval <= w
      BY <1>8
    <3>2. QED
      BY <2>2, <3>1, <1>9, <1>5
  <2>3. CASE u # t
    BY <2>3, <1>9, <1>10
  <2>4. QED
    BY <2>2, <2>3
<1>15. MemoryBounded'
  BY <1>5, <1>6, <1>2 DEF MemoryBounded
<1>16. QED
  BY <1>5, <1>11, <1>12, <1>13, <1>14, <1>15 DEF IInv

LEMMA AwaitKeepsInvariant ==
    ASSUME IInv, NEW t \in Thread, AwaitWindow(t)
    PROVE  IInv'
<1>1. /\ TypeOK /\ HolderIsAlone /\ TailKept /\ Ordered /\ SleepsFor /\ WindowKept
      /\ MemoryBounded
  BY DEF IInv
<1>2. Rate \in Nat \ {0} /\ Interval \in Nat \ {0} /\ Window \in Nat \ {0}
  BY ConstantsOK
<1>3. /\ thread[t].phase = "spacing" /\ thread[t].wake <= clock
      /\ clock' = clock /\ lock' = lock /\ timestamps' = timestamps
      /\ last' = last /\ calls' = calls
  BY DEF AwaitWindow
<1> DEFINE w == IF Full THEN timestamps[1] + Window ELSE clock
<1>4. thread' = [thread EXCEPT ![t] = [phase |-> "waiting", wake |-> w]]
  BY DEF AwaitWindow, Goto
<1>5. w \in Nat
  <2>1. CASE Full
    <3>1. 1 \in 1..Len(timestamps)
      BY <2>1, <1>2, Types DEF Full
    <3>2. timestamps[1] \in Nat
      BY <3>1, Types
    <3>3. QED
      BY <2>1, <3>2, <1>2
  <2>2. CASE ~Full
    BY <2>2, Types
  <2>3. QED
    BY <2>1, <2>2
<1>6. Full => timestamps[1] + Window <= w
  BY <1>5
<1> HIDE DEF w
<1>7. /\ thread'[t] = [phase |-> "waiting", wake |-> w]
      /\ \A u \in Thread \ {t} : thread'[u] = thread[u]
      /\ thread' \in [Thread -> [phase : {"out", "spacing", "waiting"}, wake : Nat]]
  BY <1>4, <1>5, <1>1 DEF TypeOK
<1>8. TypeOK'
  BY <1>1, <1>3, <1>7 DEF TypeOK
<1>9. HolderIsAlone'
  BY <1>1, <1>3, <1>7 DEF HolderIsAlone, Holder
<1>10. TailKept' /\ Ordered' /\ WindowKept' /\ MemoryBounded'
  BY <1>1, <1>3 DEF TailKept, Forgotten, Ordered, WindowKept, MemoryBounded
<1>11. Len(timestamps) <= Rate
  BY <1>1, <1>3 DEF SleepsFor, Holder
<1>12. calls # <<>> => calls[Len(calls)] + Interval <= clock
  <2>1. SUFFICES ASSUME calls # <<>> PROVE calls[Len(calls)] + Interval <= clock
    OBVIOUS
  <2>2. calls[Len(calls)] + Interval <= thread[t].wake
    BY <2>1, <1>1, <1>3 DEF SleepsFor
  <2>3. Len(calls) \in 1..Len(calls)
    BY <2>1, <1>1, Types, EmptySeq DEF TypeOK
  <2>4. calls[Len(calls)] \in Nat /\ thread[t].wake \in Nat /\ clock \in Nat
    BY <2>3, Types
  <2>5. QED
    BY <2>2, <2>4, <1>2, <1>3
<1>13. SleepsFor'
  <2>1. SUFFICES ASSUME NEW u \in Thread
        PROVE  /\ thread'[u].phase # "out" => Len(timestamps) <= Rate
               /\ thread'[u].phase = "spacing" /\ calls # <<>> =>
                     calls[Len(calls)] + Interval <= thread'[u].wake
               /\ thread'[u].phase = "waiting" =>
                     /\ calls # <<>> => calls[Len(calls)] + Interval <= clock
                     /\ Full => timestamps[1] + Window <= thread'[u].wake
    BY <1>3 DEF SleepsFor, Holder, Full
  <2>2. CASE u = t
    BY <2>2, <1>6, <1>7, <1>11, <1>12
  <2>3. CASE u # t
    BY <2>3, <1>7, <1>11, <1>1 DEF SleepsFor
  <2>4. QED
    BY <2>2, <2>3
<1>14. QED
  BY <1>8, <1>9, <1>10, <1>13 DEF IInv

LEMMA LetThroughKeepsInvariant ==
    ASSUME IInv, NEW t \in Thread, LetThrough(t)
    PROVE  IInv'
<1>1. TypeOK /\ HolderIsAlone /\ TailKept /\ Ordered /\ SleepsFor /\ WindowKept
  BY DEF IInv
<1>2. Rate \in Nat \ {0} /\ Interval \in Nat \ {0} /\ Window \in Nat \ {0}
      /\ NoThread \notin Thread
  BY ConstantsOK
<1>3. /\ thread[t].phase = "waiting" /\ thread[t].wake <= clock
      /\ clock' = clock /\ lock' = NoThread
      /\ timestamps' = Append(timestamps, clock)
      /\ last' = <<clock>>
      /\ calls' = Append(calls, clock)
      /\ thread' = [thread EXCEPT ![t] = [phase |-> "out", wake |-> 0]]
  BY DEF LetThrough, Moment, Goto
<1> DEFINE n == Len(calls)
           l == Len(timestamps)
<1>4. /\ clock \in Nat /\ clock \in Time
      /\ n \in Nat /\ l \in Nat /\ Forgotten \in Nat
      /\ DOMAIN calls = 1..n /\ DOMAIN timestamps = 1..l
      /\ \A i \in 1..n : calls[i] \in Nat
  BY Types
<1>5. /\ calls' \in Seq(Time) /\ calls' # <<>> /\ Len(calls') = n + 1
      /\ \A i \in 1..n : calls'[i] = calls[i]
      /\ calls'[n + 1] = clock
  <2>1. calls \in Seq(Time) /\ clock \in Time
    BY <1>1 DEF TypeOK
  <2>2. calls' = Append(calls, clock)
    BY <1>3
  <2>3. /\ Append(calls, clock) \in Seq(Time) /\ Append(calls, clock) # <<>>
        /\ Len(Append(calls, clock)) = Len(calls) + 1
        /\ \A i \in 1..Len(calls) : Append(calls, clock)[i] = calls[i]
        /\ Append(calls, clock)[Len(calls) + 1] = clock
    BY <2>1, AppendProperties
  <2>4. QED
    BY <2>2, <2>3, Zenon
<1>6. /\ timestamps' \in Seq(Time) /\ Len(timestamps') = l + 1
      /\ \A i \in 1..l : timestamps'[i] = timestamps[i]
      /\ timestamps'[l + 1] = clock
  BY <1>1, <1>3, <1>4, AppendProperties DEF TypeOK
<1>7. DOMAIN calls' = 1..(n + 1) /\ DOMAIN timestamps' = 1..(l + 1)
  BY <1>5, <1>6, LenProperties
<1>8. /\ calls # <<>> => calls[n] + Interval <= clock
      /\ n >= Rate => calls[n - Rate + 1] + Window <= clock
      /\ l <= Rate
  BY <1>3, MomentIsAllowed
<1>9. /\ thread'[t] = [phase |-> "out", wake |-> 0]
      /\ \A u \in Thread \ {t} : thread'[u] = thread[u]
      /\ thread' \in [Thread -> [phase : {"out", "spacing", "waiting"}, wake : Nat]]
  BY <1>3, <1>1 DEF TypeOK
<1>10. \A u \in Thread : thread'[u].phase = "out"
  <2>1. lock = t
    BY <1>1, <1>3 DEF HolderIsAlone, Holder
  <2>2. \A u \in Thread : u # t => thread[u].phase = "out"
    BY <2>1, <1>1 DEF HolderIsAlone, Holder
  <2>3. QED
    BY <2>2, <1>9
<1>11. Forgotten' = Forgotten /\ Forgotten + l = n /\ l <= n
  BY <1>1, <1>4, <1>5, <1>6 DEF Forgotten, TailKept
<1> HIDE DEF n, l
<1>12. TypeOK'
  <2>1. <<clock>> \in Seq(Time)
    BY <1>4
  <2>2. QED
    BY <2>1, <1>1, <1>3, <1>5, <1>6, <1>9 DEF TypeOK
<1>13. HolderIsAlone' /\ SleepsFor'
  BY <1>10 DEF HolderIsAlone, SleepsFor, Holder
<1>14. TailKept'
  <2>1. Len(timestamps') <= Len(calls')
    BY <1>4, <1>5, <1>6, <1>11
  <2>2. \A i \in 1..(l + 1) : timestamps'[i] = calls'[Forgotten' + i]
    <3>1. SUFFICES ASSUME NEW i \in 1..(l + 1)
                   PROVE  timestamps'[i] = calls'[Forgotten + i]
      BY <1>11
    <3>2. CASE i \in 1..l
      <4>1. timestamps[i] = calls[Forgotten + i]
        BY <3>2, <1>1, <1>4 DEF TailKept
      <4>2. Forgotten + i \in 1..n
        BY <3>2, <1>4, <1>11
      <4>3. QED
        BY <3>2, <4>1, <4>2, <1>5, <1>6
    <3>3. CASE i = l + 1
      <4>1. Forgotten + i = n + 1
        BY <3>3, <1>4, <1>11
      <4>2. QED
        BY <3>3, <4>1, <1>5, <1>6
    <3>4. QED
      BY <3>2, <3>3, <1>4
  <2>3. \A i \in 1..Forgotten' : calls'[i] + Window <= clock'
    <3>1. SUFFICES ASSUME NEW i \in 1..Forgotten PROVE calls'[i] + Window <= clock
      BY <1>3, <1>11
    <3>2. i \in 1..n
      BY <1>4, <1>11
    <3>3. calls[i] + Window <= clock
      BY <1>1 DEF TailKept
    <3>4. QED
      BY <3>2, <3>3, <1>5
  <2>4. last' = IF calls' = <<>> THEN <<>> ELSE <<calls'[Len(calls')]>>
    BY <1>3, <1>5
  <2>5. QED
    BY <2>1, <2>2, <2>3, <2>4, <1>7 DEF TailKept
<1>15. Ordered'
  <2>1. \A i \in 1..(n + 1) : calls'[i] <= clock
    <3>1. \A i \in 1..n : calls[i] <= clock
      BY <1>1, <1>4 DEF Ordered
    <3>2. \A i \in 1..(n + 1) : i \in 1..n \/ i = n + 1
      BY <1>4
    <3>3. QED
      BY <3>1, <3>2, <1>4, <1>5
  <2>2. ASSUME NEW i \in 1..(n + 1), i + 1 \in 1..(n + 1)
        PROVE  calls'[i] + Interval <= calls'[i + 1]
    <3>1. i \in 1..n /\ calls'[i] = calls[i]
      BY <2>2, <1>4, <1>5
    <3>2. CASE i + 1 \in 1..n
      BY <3>1, <3>2, <1>1, <1>4, <1>5 DEF Ordered
    <3>3. CASE i = n
      <4>1. calls # <<>>
        BY <3>1, <1>4, EmptySeq DEF n
      <4>2. QED
        BY <3>1, <3>3, <4>1, <1>5, <1>8
    <3>4. QED
      BY <3>1, <3>2, <3>3, <2>2, <1>4
  <2>3. QED
    BY <2>1, <2>2, <1>3, <1>7 DEF Ordered
<1>16. WindowKept'
  <2>1. SUFFICES ASSUME NEW i \in 1..(n + 1), i + Rate \in 1..(n + 1)
                 PROVE  calls'[i] + Window <= calls'[i + Rate]
    BY <1>7 DEF WindowKept
  <2>2. i \in 1..n /\ calls'[i] = calls[i]
    <3>1. i \in 1..n
      BY <2>1, <1>2, <1>4
    <3>2. QED
      BY <3>1, <1>5
  <2>3. CASE i + Rate \in 1..n
    BY <2>2, <2>3, <1>1, <1>4, <1>5 DEF WindowKept
  <2>4. CASE i + Rate = n + 1
    <3>1. i = n - Rate + 1 /\ n >= Rate
      BY <2>2, <2>4, <1>2, <1>4
    <3>2. QED
      BY <2>2, <2>4, <3>1, <1>5, <1>8
  <2>5. i + Rate \in 1..n \/ i + Rate = n + 1
    BY <2>1, <1>4, <1>2
  <2>6. QED
    BY <2>3, <2>4, <2>5
<1>17. MemoryBounded'
  BY <1>2, <1>4, <1>6, <1>8 DEF MemoryBounded
<1>18. QED
  BY <1>12, <1>13, <1>14, <1>15, <1>16, <1>17 DEF IInv

LEMMA TickKeepsInvariant ==
    ASSUME IInv, Tick
    PROVE  IInv'
<1>1. /\ TypeOK /\ HolderIsAlone /\ TailKept /\ Ordered /\ SleepsFor /\ WindowKept
      /\ MemoryBounded
  BY DEF IInv
<1>2. /\ clock' = clock + 1 /\ clock < MaxTime
      /\ UNCHANGED <<lock, thread, timestamps, last, calls>>
  BY DEF Tick
<1>3. /\ Window \in Nat /\ Interval \in Nat /\ MaxTime \in Nat /\ clock \in Nat
      /\ Len(calls) \in Nat /\ Forgotten \in Nat /\ DOMAIN calls = 1..Len(calls)
      /\ \A i \in 1..Len(calls) : calls[i] \in Nat
      /\ Len(timestamps) \in Nat
  BY ConstantsOK, Types
<1>4. TypeOK'
  BY <1>1, <1>2, <1>3 DEF TypeOK, Time
<1>5. HolderIsAlone' /\ WindowKept' /\ MemoryBounded'
  BY <1>1, <1>2 DEF HolderIsAlone, Holder, WindowKept, MemoryBounded
<1>6. TailKept'
  <2>1. \A i \in 1..Forgotten : i \in 1..Len(calls)
    BY <1>3 DEF Forgotten
  <2>2. \A i \in 1..Forgotten : calls[i] + Window <= clock + 1
    BY <2>1, <1>1, <1>3 DEF TailKept
  <2>3. QED
    BY <2>2, <1>1, <1>2 DEF TailKept, Forgotten
<1>7. Ordered'
  BY <1>1, <1>2, <1>3 DEF Ordered
<1>8. SleepsFor'
  <2>1. ASSUME calls # <<>>, calls[Len(calls)] + Interval <= clock
        PROVE  calls[Len(calls)] + Interval <= clock + 1
    <3>1. Len(calls) \in 1..Len(calls)
      BY <2>1, <1>1, <1>3, EmptySeq DEF TypeOK
    <3>2. QED
      BY <3>1, <2>1, <1>3
  <2>2. QED
    BY <2>1, <1>1, <1>2 DEF SleepsFor, Holder, Full
<1>9. QED
  BY <1>4, <1>5, <1>6, <1>7, <1>8 DEF IInv

\* Every reachable state of the limiter satisfies IInv: the deque is the tail
\* of the history and what it forgot is out of the window.
THEOREM InvariantHolds == Spec => []IInv
<1>1. Init => IInv
  BY InitHolds
<1>2. IInv /\ [Next]_vars => IInv'
  <2>1. SUFFICES ASSUME IInv, [Next]_vars PROVE IInv'
    OBVIOUS
  <2>2. ASSUME NEW t \in Thread, Enter(t) PROVE IInv'
    BY <2>1, <2>2, EnterKeepsInvariant
  <2>3. ASSUME NEW t \in Thread, AwaitWindow(t) PROVE IInv'
    BY <2>1, <2>3, AwaitKeepsInvariant
  <2>4. ASSUME NEW t \in Thread, LetThrough(t) PROVE IInv'
    BY <2>1, <2>4, LetThroughKeepsInvariant
  <2>5. CASE Tick
    BY <2>1, <2>5, TickKeepsInvariant
  <2>6. CASE UNCHANGED vars
    BY <2>1, <2>6
       DEF vars, IInv, TypeOK, HolderIsAlone, Holder, TailKept, Forgotten, Ordered,
           SleepsFor, Full, WindowKept, MemoryBounded
  <2>7. QED
    BY <2>1, <2>2, <2>3, <2>4, <2>5, <2>6 DEF Next
<1>3. QED
  BY <1>1, <1>2, PTL DEF Spec

\* Any span of Window time units holds at most Rate requests of the process,
\* for every rate, window, interval and number of threads.
THEOREM WindowIsKept == Spec => []WindowKept
<1>1. IInv => WindowKept
  BY DEF IInv
<1>2. QED
  BY <1>1, InvariantHolds, PTL

\* The deque holds at most one moment above the rate.
THEOREM MemoryIsBounded == Spec => []MemoryBounded
<1>1. IInv => MemoryBounded
  BY DEF IInv
<1>2. QED
  BY <1>1, InvariantHolds, PTL

\* Every request the limiter lets through is one its promise allows.
THEOREM LimiterIsThrottle == Spec => ImplementsThrottle
<1>1. Init => Promise!Init
  BY DEF Init, Promise!Init
<1>2. IInv /\ [Next]_vars => [Promise!Next]_calls
  <2>1. SUFFICES ASSUME IInv, [Next]_vars PROVE [Promise!Next]_calls
    OBVIOUS
  <2>2. ASSUME NEW t \in Thread, LetThrough(t) PROVE Promise!Next
    <3>1. /\ thread[t].phase = "waiting" /\ thread[t].wake <= clock
          /\ calls' = Append(calls, clock)
      BY <2>2 DEF LetThrough
    <3>2. /\ calls # <<>> => calls[Len(calls)] + Interval <= clock
          /\ Len(calls) >= Rate => calls[Len(calls) - Rate + 1] + Window <= clock
      BY <3>1, <2>1, MomentIsAllowed
    <3>3. clock \in Time
      BY <2>1, Types
    <3>4. /\ calls # <<>> => clock >= calls[Len(calls)] + Interval
          /\ Len(calls) >= Rate => clock >= calls[Len(calls) - Rate + 1] + Window
      BY <3>2
    <3>5. QED
      BY <3>1, <3>3, <3>4 DEF Promise!Next, Promise!LetThrough, Promise!Allowed
  <2>3. CASE \/ \E t \in Thread : Enter(t) \/ AwaitWindow(t)
             \/ Tick
             \/ UNCHANGED vars
    BY <2>3 DEF Enter, AwaitWindow, Tick, vars
  <2>4. QED
    BY <2>1, <2>2, <2>3 DEF Next
<1>3. QED
  BY <1>1, <1>2, InvariantHolds, PTL DEF Spec, ImplementsThrottle, Promise!Spec

=============================================================================
