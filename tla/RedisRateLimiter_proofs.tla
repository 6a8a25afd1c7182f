----------------------- MODULE RedisRateLimiter_proofs -----------------------
(***************************************************************************)
(* Proofs about RedisRateLimiter: its inductive invariant, and that what   *)
(* the script records keeps the promise of one limiter although scripts    *)
(* run in an order other than that of the moments their callers read.      *)
(***************************************************************************)
EXTENDS RedisRateLimiter, SequenceTheorems, WellFoundedInduction, TLAPS

\* A set of naturals that is not empty has a least element.
LEMMA LeastOfSet ==
    ASSUME NEW T \in SUBSET Nat, T # {}
    PROVE  \E x \in T : \A y \in T : x <= y
<1> DEFINE R == OpToRel(<, Nat)
<1>1. IsWellFoundedOn(R, Nat)
  BY NatLessThanWellFounded
<1> HIDE DEF R
<1>2. PICK x \in T : \A y \in T : ~(<<y, x>> \in R)
  BY <1>1, WFMin
<1>3. \A a, b \in Nat : a < b => <<a, b>> \in R
  BY DEF R, OpToRel
<1>4. \A y \in T : ~(y < x)
  BY <1>2, <1>3, Zenon
<1>5. QED
  BY <1>4

\* What a sequence without its first k elements is.
LEMMA Suffix ==
    ASSUME NEW S, NEW s \in Seq(S), NEW k \in 0..Len(s)
    PROVE  LET d == SubSeq(s, k + 1, Len(s))
           IN  /\ d \in Seq(S) /\ Len(d) = Len(s) - k
               /\ \A i \in 1 .. Len(s) - k : d[i] = s[k + i]
<1> DEFINE d == SubSeq(s, k + 1, Len(s))
<1>1. Len(s) \in Nat /\ \A i \in 1..Len(s) : s[i] \in S
  BY LenProperties, ElementOfSeq
<1>2. k + 1 \in Int /\ Len(s) \in Int /\ \A i \in k + 1 .. Len(s) : s[i] \in S
  BY <1>1
<1>3. /\ d \in Seq(S)
      /\ Len(d) = IF k + 1 <= Len(s) THEN Len(s) - (k + 1) + 1 ELSE 0
      /\ \A i \in 1 .. Len(s) - (k + 1) + 1 : d[i] = s[k + 1 + i - 1]
  BY <1>2, SubSeqProperties
<1> HIDE DEF d
<1>4. Len(d) = Len(s) - k
  BY <1>1, <1>3
<1>5. ASSUME NEW i \in 1 .. Len(s) - k PROVE d[i] = s[k + i]
  <2>1. i \in 1 .. Len(s) - (k + 1) + 1 /\ k + 1 + i - 1 = k + i
    BY <1>1
  <2>2. QED
    BY <2>1, <1>3
<1>6. QED
  BY <1>3, <1>4, <1>5 DEF d

LEMMA Types ==
    ASSUME IInv
    PROVE  /\ clock \in Nat /\ clock \in Time /\ Time \subseteq Nat
           /\ Window \in Nat \ {0} /\ Interval \in Nat \ {0} /\ Rate \in Nat \ {0}
           /\ Len(window) \in Nat /\ Len(recorded) \in Nat /\ Forgotten \in Nat
           /\ Forgotten + Len(window) = Len(recorded)
           /\ DOMAIN window = 1..Len(window) /\ DOMAIN recorded = 1..Len(recorded)
           /\ \A i \in 1..Len(window) : window[i] \in Nat
           /\ \A i \in 1..Len(recorded) : recorded[i] \in Nat
           /\ recorded # <<>> => Len(recorded) \in 1..Len(recorded)
           /\ recorded # <<>> => last # <<>> /\ last[1] = recorded[Len(recorded)]
           /\ recorded = <<>> => last = <<>>
<1>1. clock \in Time /\ window \in Seq(Time) /\ recorded \in Seq(Time)
  BY DEF IInv, TypeOK
<1>2. Time \subseteq Nat
  BY ConstantsOK DEF Time
<1>3. /\ Len(window) \in Nat /\ DOMAIN window = 1..Len(window)
      /\ \A i \in 1..Len(window) : window[i] \in Time
  BY <1>1, LenProperties, ElementOfSeq
<1>4. /\ Len(recorded) \in Nat /\ DOMAIN recorded = 1..Len(recorded)
      /\ \A i \in 1..Len(recorded) : recorded[i] \in Time
  BY <1>1, LenProperties, ElementOfSeq
<1>5. Forgotten \in Nat /\ Forgotten + Len(window) = Len(recorded)
  BY <1>3, <1>4 DEF IInv, TailKept, Forgotten
<1>6. recorded # <<>> => Len(recorded) \in 1..Len(recorded)
  BY <1>1, <1>4, EmptySeq
<1>7. /\ recorded # <<>> => last # <<>> /\ last[1] = recorded[Len(recorded)]
      /\ recorded = <<>> => last = <<>>
  BY DEF IInv, TailKept
<1>8. Window \in Nat \ {0} /\ Interval \in Nat \ {0} /\ Rate \in Nat \ {0}
  BY ConstantsOK
<1>9. clock \in Nat /\ (\A i \in 1..Len(window) : window[i] \in Nat)
      /\ (\A i \in 1..Len(recorded) : recorded[i] \in Nat)
  BY <1>1, <1>2, <1>3, <1>4
<1>10. QED
  BY <1>1, <1>2, <1>3, <1>4, <1>5, <1>6, <1>7, <1>8, <1>9, Zenon

\* The moments that expired come first: the set without them is its tail.
LEMMA KeptIsTail ==
    ASSUME IInv, NEW now \in Nat
    PROVE  \E k \in 0..Len(window) :
              /\ \A i \in 1..Len(window) : Expired(window[i], now) <=> i <= k
              /\ Kept(now) \in Seq(Time) /\ Len(Kept(now)) = Len(window) - k
              /\ \A i \in 1 .. Len(window) - k : Kept(now)[i] = window[k + i]
<1> DEFINE n == Len(window)
           Cut(k) == \A i \in DOMAIN window : Expired(window[i], now) <=> i <= k
           T == {i \in 1..n : ~Expired(window[i], now)}
<1>1. /\ n \in Nat /\ DOMAIN window = 1..n /\ Window \in Nat
      /\ \A i \in 1..n : window[i] \in Nat
  BY Types
<1>2. \A i, j \in 1..n : i < j => window[i] < window[j]
  BY <1>1 DEF IInv, Ascending
<1> HIDE DEF n
<1>3. \E k \in 0..n : Cut(k)
  <2>1. CASE T = {}
    <3>1. n \in 0..n /\ \A i \in 1..n : Expired(window[i], now) /\ i <= n
      BY <2>1, <1>1
    <3>2. QED
      BY <3>1, <1>1
  <2>2. CASE T # {}
    <3>1. T \in SUBSET Nat
      BY <1>1
    <3> HIDE DEF T
    <3>2. PICK m \in T : \A i \in T : m <= i
      BY <3>1, <2>2, LeastOfSet
    <3>3. m \in 1..n /\ ~Expired(window[m], now)
      BY <3>2 DEF T
    <3>4. m - 1 \in 0..n
      BY <3>3, <1>1
    <3>5. ASSUME NEW i \in 1..n PROVE Expired(window[i], now) <=> i <= m - 1
      <4>1. CASE i <= m - 1
        <5>1. i \notin T
          BY <4>1, <3>2, <3>3, <1>1
        <5>2. QED
          BY <5>1, <4>1 DEF T
      <4>2. CASE ~(i <= m - 1)
        <5>1. window[m] <= window[i]
          BY <4>2, <3>3, <1>1, <1>2
        <5>2. QED
          BY <5>1, <4>2, <3>3, <1>1 DEF Expired
      <4>3. QED
        BY <4>1, <4>2
    <3>6. QED
      BY <3>4, <3>5, <1>1
  <2>3. QED
    BY <2>1, <2>2
<1> DEFINE k == CHOOSE k \in 0..n : Cut(k)
<1>4. k \in 0..n /\ Cut(k)
  BY <1>3
<1>5. Kept(now) = SubSeq(window, k + 1, n)
  BY DEF Kept, n
<1> HIDE DEF k
<1>6. window \in Seq(Time)
  BY DEF IInv, TypeOK
<1>7. /\ Kept(now) \in Seq(Time) /\ Len(Kept(now)) = n - k
      /\ \A i \in 1 .. n - k : Kept(now)[i] = window[k + i]
  BY <1>4, <1>5, <1>6, Suffix DEF n
<1>8. QED
  BY <1>1, <1>4, <1>7 DEF n

\* What the answer of the script says: a moment that is recorded respects the
\* interval and finds room; one that is refused comes too soon after the last,
\* or to a window that was full before and in which nothing had expired.
LEMMA WaitMeans ==
    ASSUME IInv, NEW now \in Nat
    PROVE  /\ Wait(now) \in Nat
           /\ Wait(now) = 0 =>
                 /\ Len(Kept(now)) < Rate
                 /\ last # <<>> => last[1] + Interval <= now
           /\ Wait(now) > 0 => \/ last # <<>> /\ now < last[1] + Interval
                               \/ Len(Kept(now)) = Len(window)
<1> DEFINE n == Len(window)
           full == Kept(now)[1] + Window - now
<1>1. PICK k \in 0..n :
         /\ \A i \in 1..n : Expired(window[i], now) <=> i <= k
         /\ Kept(now) \in Seq(Time) /\ Len(Kept(now)) = n - k
         /\ \A i \in 1 .. n - k : Kept(now)[i] = window[k + i]
  BY KeptIsTail
<1>2. /\ n \in Nat /\ n <= Rate /\ Rate \in Nat \ {0} /\ Window \in Nat /\ Interval \in Nat
      /\ \A i \in 1..n : window[i] \in Nat
  BY Types DEF IInv
<1>3. last # <<>> => last[1] \in Nat
  BY Types
<1> HIDE DEF n
<1>4. Len(Kept(now)) >= Rate => full \in Nat \ {0} /\ k = 0
  <2>1. SUFFICES ASSUME n - k >= Rate PROVE full \in Nat \ {0} /\ k = 0
    BY <1>1
  <2>2. 1 \in 1 .. n - k /\ k + 1 \in 1..n /\ k = 0
    BY <2>1, <1>1, <1>2
  <2>3. Kept(now)[1] = window[k + 1] /\ ~Expired(window[k + 1], now)
    BY <2>2, <1>1
  <2>4. QED
    BY <2>2, <2>3, <1>2 DEF Expired
<1>5. /\ WindowWait(now) \in Nat
      /\ WindowWait(now) = 0 <=> Len(Kept(now)) < Rate
  <2>1. Len(Kept(now)) \in Nat
    BY <1>1
  <2> HIDE DEF full
  <2>2. WindowWait(now) = IF Len(Kept(now)) >= Rate THEN full ELSE 0
    BY DEF WindowWait, full
  <2>3. QED
    BY <2>1, <2>2, <1>2, <1>4
<1>6. /\ IntervalWait(now) \in Nat
      /\ IntervalWait(now) = 0 <=> (last # <<>> => last[1] + Interval <= now)
  BY <1>2, <1>3 DEF IntervalWait
<1>7. /\ Wait(now) \in Nat
      /\ Wait(now) = 0 => WindowWait(now) = 0 /\ IntervalWait(now) = 0
      /\ Wait(now) > 0 => WindowWait(now) # 0 \/ IntervalWait(now) # 0
  BY <1>5, <1>6 DEF Wait
<1>8. IntervalWait(now) # 0 => last # <<>> /\ now < last[1] + Interval
  BY <1>2, <1>3 DEF IntervalWait
<1>9. WindowWait(now) # 0 => Len(Kept(now)) = n
  <2>1. WindowWait(now) # 0 => Len(Kept(now)) >= Rate
    BY <1>1, <1>2, <1>5
  <2>2. QED
    BY <2>1, <1>1, <1>2, <1>4
<1>10. QED
  BY <1>5, <1>6, <1>7, <1>8, <1>9 DEF n

-----------------------------------------------------------------------------
(* The script *)

\* The part of the invariant that is about the keys.
KeysOK ==
    /\ window \in Seq(Time) /\ last \in Seq(Time) /\ recorded \in Seq(Time)
    /\ Len(window) <= Rate /\ Ascending /\ TailKept

\* A refusal forgets nothing that still counts: it comes too soon after the
\* last request, so nobody with an older moment is recorded before that
\* interval is over, or it forgets nothing at all.
LEMMA RefuseKeepsKeys ==
    ASSUME IInv, NEW now \in 1..clock, Refuse(now) PROVE KeysOK'
<1> DEFINE n == Len(window)
           N == Len(recorded)
           F == Forgotten
<1>1. /\ n \in Nat /\ N \in Nat /\ F \in Nat /\ F + n = N /\ now \in Nat
      /\ DOMAIN window = 1..n /\ Window \in Nat /\ Interval \in Nat
      /\ \A i \in 1..N : recorded[i] \in Nat
      /\ last # <<>> => last[1] \in Nat
  BY Types
<1>2. PICK k \in 0..n :
         /\ \A i \in 1..n : Expired(window[i], now) <=> i <= k
         /\ Kept(now) \in Seq(Time) /\ Len(Kept(now)) = n - k
         /\ \A i \in 1 .. n - k : Kept(now)[i] = window[k + i]
  BY <1>1, KeptIsTail
<1>3. window' = Kept(now) /\ last' = last /\ recorded' = recorded /\ Wait(now) > 0
  BY DEF Refuse
<1>4. DOMAIN window' = 1 .. n - k /\ Len(window') = n - k
  BY <1>2, <1>3
<1>5. k = 0 \/ (last # <<>> /\ now < last[1] + Interval)
  <2>1. \/ last # <<>> /\ now < last[1] + Interval
        \/ Len(Kept(now)) = n
    BY <1>1, <1>3, WaitMeans
  <2>2. n \in Nat /\ k \in 0..n /\ Len(Kept(now)) = n - k
    BY <1>1, <1>2
  <2> HIDE DEF n
  <2>3. CASE Len(Kept(now)) = n
    BY <2>2, <2>3
  <2>4. QED
    BY <2>1, <2>3
<1>6. /\ \A i \in 1..n : window[i] = recorded[F + i]
      /\ \A i \in 1..F : recorded[i] + Window <= last[1] + Interval
      /\ last = IF recorded = <<>> THEN <<>> ELSE <<recorded[N]>>
      /\ \A i, j \in 1..n : i < j => window[i] < window[j]
      /\ n <= Rate
  BY <1>1 DEF IInv, TailKept, Ascending
<1> HIDE DEF n, N, F
<1>sizes. n \in Nat /\ N \in Nat /\ F \in Nat /\ F + n = N /\ k \in 0..n
  BY <1>1, <1>2
<1>7. Forgotten' = F + k
  <2>1. Forgotten' = N - (n - k)
    BY <1>3, <1>4 DEF Forgotten, N
  <2>2. QED
    BY <2>1, <1>sizes
<1>8. \A i \in 1 .. F + k : recorded[i] + Window <= last[1] + Interval
  <2>1. SUFFICES ASSUME NEW i \in 1 .. F + k, ~(i \in 1..F)
                 PROVE  recorded[i] + Window <= last[1] + Interval
    BY <1>6
  <2>2. i - F \in 1..n /\ i - F <= k /\ F + (i - F) = i /\ i \in 1..N
    BY <2>1, <1>sizes
  <2>3. window[i - F] = recorded[i] /\ Expired(window[i - F], now)
    BY <2>2, <1>2, <1>6
  <2>4. recorded[i] + Window <= now /\ now < last[1] + Interval
    BY <2>2, <2>3, <1>1, <1>5 DEF Expired
  <2>5. QED
    BY <2>2, <2>4, <1>1, <1>5
<1>9. \A i \in 1 .. n - k : window'[i] = recorded[(F + k) + i]
  <2>1. SUFFICES ASSUME NEW i \in 1 .. n - k PROVE window'[i] = recorded[(F + k) + i]
    OBVIOUS
  <2>2. k + i \in 1..n /\ F + (k + i) = (F + k) + i
    BY <1>sizes
  <2>3. QED
    BY <2>2, <1>2, <1>3, <1>6
<1>10. Ascending'
  <2>1. \A i \in 1 .. n - k : k + i \in 1..n /\ window'[i] = window[k + i]
    BY <1>1, <1>2, <1>3
  <2>2. QED
    BY <2>1, <1>1, <1>2, <1>4, <1>6 DEF Ascending
<1>11. Len(window') <= Rate /\ Len(window') <= Len(recorded')
  BY <1>1, <1>2, <1>3, <1>4, <1>6, Types DEF N
<1>12. TailKept'
  BY <1>3, <1>4, <1>6, <1>7, <1>8, <1>9, <1>11 DEF TailKept, N
<1>13. window' \in Seq(Time) /\ last' \in Seq(Time) /\ recorded' \in Seq(Time)
  BY <1>2, <1>3 DEF IInv, TypeOK
<1>14. QED
  BY <1>10, <1>11, <1>12, <1>13 DEF KeysOK

\* A moment is recorded only when every request of the last window is known to
\* the window: what Redis has forgotten does not count any more.
LEMMA RecordIsAllowed ==
    ASSUME IInv, NEW now \in 1..clock, Record(now) PROVE Shared!Allowed(now)
<1> DEFINE n == Len(window)
           N == Len(recorded)
           F == Forgotten
<1>1. /\ n \in Nat /\ N \in Nat /\ F \in Nat /\ F + n = N /\ now \in Nat
      /\ Window \in Nat /\ Interval \in Nat /\ Rate \in Nat \ {0}
      /\ \A i \in 1..N : recorded[i] \in Nat
      /\ recorded # <<>> => last # <<>> /\ last[1] = recorded[N] /\ N \in 1..N
      /\ recorded = <<>> => N = 0
  BY Types
<1>2. PICK k \in 0..n :
         /\ \A i \in 1..n : Expired(window[i], now) <=> i <= k
         /\ Len(Kept(now)) = n - k
  BY <1>1, KeptIsTail
<1>3. Len(Kept(now)) < Rate /\ (last # <<>> => last[1] + Interval <= now)
  BY <1>1, WaitMeans DEF Record
<1>4. /\ \A i \in 1..n : window[i] = recorded[F + i]
      /\ \A i \in 1..F : recorded[i] + Window <= last[1] + Interval
  BY Types DEF IInv, TailKept
<1> HIDE DEF n, N, F
<1>sizes. n \in Nat /\ N \in Nat /\ F \in Nat /\ F + n = N /\ k \in 0..n
  BY <1>1, <1>2
<1>5. recorded # <<>> => now >= recorded[N] + Interval
  BY <1>1, <1>3
<1>6. ASSUME N >= Rate PROVE now >= recorded[N - Rate + 1] + Window
  <2> DEFINE j == N - Rate + 1
  <2>1. j \in 1..N /\ j <= F + k /\ recorded # <<>>
    BY <1>1, <1>2, <1>3, <1>6
  <2> HIDE DEF j
  <2>2. CASE j \in 1..F
    <3>1. recorded[j] + Window <= last[1] + Interval /\ last[1] + Interval <= now
      BY <2>1, <2>2, <1>1, <1>3, <1>4
    <3>2. QED
      BY <3>1, <2>1, <1>1 DEF j
  <2>3. CASE j \notin 1..F
    <3>1. j - F \in 1..n /\ j - F <= k /\ F + (j - F) = j
      BY <2>1, <2>3, <1>sizes
    <3>2. window[j - F] = recorded[j] /\ Expired(window[j - F], now)
      BY <3>1, <1>2, <1>4
    <3>3. QED
      BY <3>2, <2>1, <1>1 DEF Expired, j
  <2>4. QED
    BY <2>2, <2>3
<1>7. QED
  BY <1>5, <1>6 DEF Shared!Allowed, N

LEMMA RecordKeepsKeys ==
    ASSUME IInv, NEW now \in 1..clock, Record(now) PROVE KeysOK'
<1> DEFINE n == Len(window)
           N == Len(recorded)
           F == Forgotten
<1>1. /\ n \in Nat /\ N \in Nat /\ F \in Nat /\ F + n = N /\ now \in Nat
      /\ DOMAIN window = 1..n /\ Window \in Nat /\ Interval \in Nat \ {0}
      /\ Rate \in Nat
      /\ \A i \in 1..N : recorded[i] \in Nat
      /\ recorded # <<>> => last # <<>> /\ last[1] = recorded[N] /\ N \in 1..N
      /\ recorded = <<>> => N = 0
  BY Types
<1>2. PICK k \in 0..n :
         /\ \A i \in 1..n : Expired(window[i], now) <=> i <= k
         /\ Kept(now) \in Seq(Time) /\ Len(Kept(now)) = n - k
         /\ \A i \in 1 .. n - k : Kept(now)[i] = window[k + i]
  BY <1>1, KeptIsTail
<1>3. /\ window' = Append(Kept(now), now) /\ last' = <<now>>
      /\ recorded' = Append(recorded, now)
  BY DEF Record
<1>4. now \in Time /\ recorded \in Seq(Time)
  <2>1. clock \in 1..MaxTime /\ MaxTime \in Nat /\ recorded \in Seq(Time)
    BY ConstantsOK DEF IInv, TypeOK, Time
  <2>2. QED
    BY <2>1, <1>1 DEF Time
<1>5. /\ window' \in Seq(Time) /\ Len(window') = n - k + 1
      /\ DOMAIN window' = 1 .. n - k + 1
      /\ \A i \in 1 .. n - k : window'[i] = window[k + i]
      /\ window'[n - k + 1] = now
  <2>1. /\ window' \in Seq(Time) /\ Len(window') = Len(Kept(now)) + 1
        /\ \A i \in 1..Len(Kept(now)) : window'[i] = Kept(now)[i]
        /\ window'[Len(Kept(now)) + 1] = now
    BY <1>2, <1>3, <1>4, AppendProperties
  <2>2. DOMAIN window' = 1..Len(window')
    BY <2>1, LenProperties
  <2>3. QED
    BY <2>1, <2>2, <1>2
<1>6. /\ recorded' \in Seq(Time) /\ recorded' # <<>> /\ Len(recorded') = N + 1
      /\ \A i \in 1..N : recorded'[i] = recorded[i]
      /\ recorded'[N + 1] = now
  BY <1>3, <1>4, AppendProperties
<1>7. n - k < Rate /\ (last # <<>> => last[1] + Interval <= now)
  BY <1>1, <1>2, WaitMeans DEF Record
<1>8. /\ \A i \in 1..n : window[i] = recorded[F + i]
      /\ \A i \in 1..F : recorded[i] + Window <= last[1] + Interval
      /\ \A i, j \in 1..n : i < j => window[i] < window[j]
  BY <1>1 DEF IInv, TailKept, Ascending
<1> HIDE DEF n, N, F
<1>sizes. n \in Nat /\ N \in Nat /\ F \in Nat /\ F + n = N /\ k \in 0..n
  BY <1>1, <1>2
<1>9. Forgotten' = F + k
  <2>1. Forgotten' = (N + 1) - (n - k + 1)
    BY <1>5, <1>6 DEF Forgotten
  <2>2. QED
    BY <2>1, <1>sizes
<1>10. \A i \in 1..n : window[i] \in Nat /\ window[i] < now
  <2>1. SUFFICES ASSUME NEW i \in 1..n PROVE window[i] \in Nat /\ window[i] < now
    OBVIOUS
  <2>2. /\ n \in 1..n /\ F + n = N /\ N # 0 /\ F + i \in 1..N
        /\ window[n] = recorded[N] /\ recorded # <<>>
    <3>1. n \in 1..n /\ N # 0 /\ F + i \in 1..N
      BY <2>1, <1>sizes
    <3>2. window[n] = recorded[F + n]
      BY <3>1, <1>8
    <3>3. QED
      BY <3>1, <3>2, <1>1
  <2>3. window[i] <= window[n] /\ window[i] \in Nat /\ window[n] \in Nat
    <3>1. i = n \/ window[i] < window[n]
      BY <2>1, <2>2, <1>1, <1>8
    <3>2. window[i] = recorded[F + i] /\ window[n] = recorded[N]
      BY <2>1, <2>2, <1>8
    <3>3. window[i] \in Nat /\ window[n] \in Nat
      BY <3>2, <2>2, <1>1
    <3>4. QED
      BY <3>1, <3>3
  <2>4. window[n] + Interval <= now
    BY <2>2, <1>1, <1>7
  <2>5. QED
    BY <2>3, <2>4, <1>1
<1>11. \A i \in 1 .. F + k : recorded'[i] + Window <= now + Interval
  <2>1. SUFFICES ASSUME NEW i \in 1 .. F + k PROVE recorded[i] + Window <= now + Interval
    BY <1>1, <1>2, <1>6
  <2>2. i \in 1..N /\ recorded # <<>>
    BY <1>1, <1>2
  <2>3. CASE i \in 1..F
    <3>1. recorded[i] + Window <= last[1] + Interval /\ last[1] + Interval <= now
      BY <2>2, <2>3, <1>1, <1>7, <1>8
    <3>2. QED
      BY <3>1, <2>2, <1>1
  <2>4. CASE i \notin 1..F
    <3>1. i - F \in 1..n /\ i - F <= k /\ F + (i - F) = i
      BY <2>4, <1>sizes
    <3>2. window[i - F] = recorded[i] /\ Expired(window[i - F], now)
      BY <3>1, <1>2, <1>8
    <3>3. QED
      BY <3>2, <2>2, <1>1 DEF Expired
  <2>5. QED
    BY <2>3, <2>4
<1>12. \A i \in 1 .. n - k + 1 : window'[i] = recorded'[(F + k) + i]
  <2>1. SUFFICES ASSUME NEW i \in 1 .. n - k + 1 PROVE window'[i] = recorded'[(F + k) + i]
    OBVIOUS
  <2>2. CASE i \in 1 .. n - k
    <3>1. k + i \in 1..n /\ F + (k + i) = (F + k) + i /\ (F + k) + i \in 1..N
      BY <2>2, <1>sizes
    <3>2. QED
      BY <2>2, <3>1, <1>5, <1>6, <1>8
  <2>3. CASE i = n - k + 1
    <3>1. (F + k) + i = N + 1
      BY <2>3, <1>sizes
    <3>2. QED
      BY <2>3, <3>1, <1>5, <1>6
  <2>4. QED
    BY <2>2, <2>3, <1>sizes
<1>13. Ascending'
  <2>1. SUFFICES ASSUME NEW i \in 1 .. n - k + 1, NEW j \in 1 .. n - k + 1, i < j
                 PROVE  window'[i] < window'[j]
    BY <1>5 DEF Ascending
  <2>2. i \in 1 .. n - k /\ k + i \in 1..n /\ window'[i] = window[k + i]
    BY <2>1, <1>1, <1>2, <1>5
  <2>3. CASE j \in 1 .. n - k
    <3>1. k + j \in 1..n /\ window'[j] = window[k + j] /\ k + i < k + j
      BY <2>1, <2>3, <1>1, <1>2, <1>5
    <3>2. QED
      BY <2>2, <3>1, <1>8
  <2>4. CASE j = n - k + 1
    BY <2>2, <2>4, <1>5, <1>10
  <2>5. QED
    BY <2>3, <2>4, <1>sizes
<1>14. Len(window') <= Rate /\ Len(window') <= Len(recorded')
  BY <1>1, <1>2, <1>5, <1>6, <1>7
<1>15. last' = <<recorded'[Len(recorded')]>> /\ last'[1] = now /\ last' \in Seq(Time)
  BY <1>3, <1>4, <1>6
<1>16. TailKept'
  BY <1>5, <1>6, <1>9, <1>11, <1>12, <1>14, <1>15 DEF TailKept
<1>17. QED
  BY <1>5, <1>6, <1>13, <1>14, <1>15, <1>16 DEF KeysOK

-----------------------------------------------------------------------------
(* The steps of a process *)

\* What a process can remember.
Memory ==
    [step : Step, read : Nat, wake : Nat, deadline : Nat, degraded : BOOLEAN]

\* A step that leaves the keys right and lets one process remember something
\* it may remember keeps the invariant.
LEMMA StepKeepsInvariant ==
    ASSUME IInv, KeysOK', NEW p \in Process, NEW e \in Memory,
           proc' = [proc EXCEPT ![p] = e],
           e.step \in {"asking", "recording"} => e.read \in 1..clock,
           clock' = clock, own' \in [Process -> Seq(Time)], calls' \in Nat
    PROVE  IInv'
<1>1. /\ proc' \in [Process -> Memory]
      /\ \A q \in Process : proc'[q] = IF q = p THEN e ELSE proc[q]
  BY DEF IInv, TypeOK, Memory
<1>2. TypeOK'
  BY <1>1 DEF IInv, TypeOK, KeysOK, Memory
<1>3. ReadsPast'
  BY <1>1 DEF IInv, ReadsPast
<1>4. QED
  BY <1>2, <1>3 DEF IInv, KeysOK

LEMMA KeysStay ==
    ASSUME IInv, UNCHANGED <<window, last, recorded>> PROVE KeysOK'
BY DEF IInv, TypeOK, KeysOK, Ascending, TailKept, Forgotten

LEMMA IdleIsMemory ==
    ASSUME NEW b \in BOOLEAN
    PROVE  /\ Idle(b) \in Memory /\ Idle(b).step = "idle"
           /\ [Idle(b) EXCEPT !.step = "local"] \in Memory
           /\ [Idle(b) EXCEPT !.step = "local"].step = "local"
BY DEF Idle, Memory, Step

\* The request goes out: the process is idle again.
LEMMA GoesOut ==
    ASSUME IInv, KeysOK', NEW p \in Process, NEW b \in BOOLEAN,
           proc' = [proc EXCEPT ![p] = Idle(b)], calls' = calls + 1,
           clock' = clock, own' \in [Process -> Seq(Time)]
    PROVE  IInv'
<1>1. calls' \in Nat
  BY DEF IInv, TypeOK
<1>2. Idle(b) \in Memory /\ Idle(b).step \notin {"asking", "recording"}
  BY IdleIsMemory
<1>3. QED
  BY <1>1, <1>2, StepKeepsInvariant

LEMMA AskingReadsPast ==
    ASSUME IInv, NEW p \in Process, proc[p].step \in {"asking", "recording"}
    PROVE  proc[p].read \in 1..clock
BY DEF IInv, ReadsPast

LEMMA LetThroughKeepsInvariant ==
    ASSUME IInv, NEW p \in Process,
           Granted(p) \/ LetThroughOverdue(p) \/ LetThroughLocal(p)
    PROVE  IInv'
<1>1. own \in [Process -> Seq(Time)] /\ clock \in Time /\ clock \in 1..clock
  BY Types DEF IInv, TypeOK, Time
<1>2. CASE Granted(p)
  <2>1. KeysOK'
    BY <1>2, AskingReadsPast, RecordKeepsKeys DEF Granted
  <2>2. QED
    BY <2>1, <1>1, <1>2, GoesOut DEF Granted
<1>3. CASE LetThroughOverdue(p)
  <2>1. KeysOK'
    BY <1>3, AskingReadsPast, RecordKeepsKeys, RefuseKeepsKeys, KeysStay DEF LetThroughOverdue
  <2>2. QED
    BY <2>1, <1>1, <1>3, GoesOut DEF LetThroughOverdue
<1>4. CASE LetThroughLocal(p)
  <2>1. KeysOK'
    BY <1>4, KeysStay DEF LetThroughLocal
  <2>2. own' \in [Process -> Seq(Time)]
    <3>1. Append(own[p], clock) \in Seq(Time)
      BY <1>1, AppendProperties
    <3>2. QED
      BY <3>1, <1>1, <1>4 DEF LetThroughLocal
  <2>3. QED
    BY <2>1, <2>2, <1>4, GoesOut DEF LetThroughLocal
<1>5. QED
  BY <1>2, <1>3, <1>4

LEMMA RefusedKeepsInvariant ==
    ASSUME IInv, NEW p \in Process, Refused(p) PROVE IInv'
<1> DEFINE wake == clock + Wait(proc[p].read)
           e == [proc[p] EXCEPT !.step = IF wake >= proc[p].deadline THEN "overdue" ELSE "sleeping",
                                !.wake = wake]
<1>1. proc[p].read \in 1..clock /\ clock \in Nat
  BY AskingReadsPast, Types DEF Refused
<1>2. wake \in Nat
  <2>1. proc[p].read \in Nat
    BY <1>1
  <2>2. Wait(proc[p].read) \in Nat
    BY <2>1, WaitMeans
  <2>3. QED
    BY <2>2, <1>1
<1>3. /\ KeysOK' /\ proc' = [proc EXCEPT ![p] = e]
      /\ UNCHANGED <<clock, own, calls>>
  BY <1>1, RefuseKeepsKeys DEF Refused
<1>4. proc[p] \in Memory
  BY DEF IInv, TypeOK, Memory
<1> HIDE DEF wake
<1>5. e \in Memory /\ e.step \notin {"asking", "recording"}
  BY <1>2, <1>4 DEF Memory, Step
<1> HIDE DEF e
<1>6. QED
  BY <1>3, <1>5, StepKeepsInvariant DEF IInv, TypeOK

LEMMA OtherStepsKeepInvariant ==
    ASSUME IInv, NEW p \in Process, Begin(p) \/ ReadClock(p) \/ Degrade(p)
    PROVE  IInv'
<1>1. /\ proc[p] \in Memory /\ clock \in Nat /\ clock \in 1..clock /\ Window \in Nat
      /\ own \in [Process -> Seq(Time)] /\ calls \in Nat
  BY Types DEF IInv, TypeOK, Memory, Time
<1>2. KeysOK' /\ UNCHANGED <<clock, own, calls>>
  BY AskingReadsPast, RecordKeepsKeys, RefuseKeepsKeys, KeysStay DEF Begin, ReadClock, Degrade
<1>3. CASE Begin(p) /\ ~proc[p].degraded
  <2> DEFINE e == [Idle(FALSE) EXCEPT !.step = "looping", !.deadline = clock + Window]
  <2>1. e \in Memory /\ e.step = "looping" /\ proc' = [proc EXCEPT ![p] = e]
    <3>1. clock + Window \in Nat
      BY <1>1
    <3>2. Idle(FALSE) \in Memory
      BY IdleIsMemory
    <3>3. e \in Memory /\ e.step = "looping"
      BY <3>1, <3>2 DEF Memory, Step
    <3>4. QED
      BY <3>3, <1>3 DEF Begin
  <2> HIDE DEF e
  <2>2. QED
    BY <2>1, <1>1, <1>2, StepKeepsInvariant
<1>4. CASE ReadClock(p)
  <2> DEFINE e == [proc[p] EXCEPT !.step = IF @ = "overdue" THEN "recording" ELSE "asking",
                                  !.read = clock]
  <2>1. e \in Memory /\ e.read = clock /\ proc' = [proc EXCEPT ![p] = e]
    BY <1>1, <1>4 DEF ReadClock, Memory, Step
  <2> HIDE DEF e
  <2>2. QED
    BY <2>1, <1>1, <1>2, StepKeepsInvariant
<1>5. CASE Degrade(p) \/ (Begin(p) /\ proc[p].degraded)
  <2> DEFINE e == [Idle(TRUE) EXCEPT !.step = "local"]
  <2>1. e \in Memory /\ e.step = "local" /\ proc' = [proc EXCEPT ![p] = e]
    BY <1>5, IdleIsMemory DEF Degrade, Begin
  <2> HIDE DEF e
  <2>2. QED
    BY <2>1, <1>1, <1>2, StepKeepsInvariant
<1>6. QED
  BY <1>3, <1>4, <1>5

-----------------------------------------------------------------------------
(* The theorems *)

\* The window never outgrows the rate, is in order, and has forgotten only
\* what does not count any more, for any processes, rate, window and interval.
THEOREM InvariantHolds == Spec => []IInv
<1>1. Init => IInv
  <2> SUFFICES ASSUME Init PROVE IInv
    OBVIOUS
  <2>1. Len(window) = 0 /\ Len(recorded) = 0 /\ DOMAIN window = {}
    BY DEF Init
  <2>2. clock \in Time
    BY ConstantsOK DEF Init, Time
  <2>3. proc \in [Process -> Memory] /\ \A p \in Process : proc[p].step = "idle"
    BY IdleIsMemory DEF Init
  <2>4. TypeOK
    <3>1. <<>> \in Seq(Time) /\ own \in [Process -> Seq(Time)]
      BY DEF Init
    <3>2. QED
      BY <3>1, <2>2, <2>3 DEF Init, TypeOK, Memory
  <2>5. Len(window) <= Rate /\ Ascending /\ ReadsPast
    BY <2>1, <2>3, ConstantsOK DEF Ascending, ReadsPast
  <2>6. TailKept
    BY <2>1 DEF Init, TailKept, Forgotten
  <2>7. QED
    BY <2>4, <2>5, <2>6 DEF IInv
<1>2. IInv /\ [Next]_vars => IInv'
  <2> SUFFICES ASSUME IInv, [Next]_vars PROVE IInv'
    OBVIOUS
  <2>1. ASSUME NEW p \in Process, Begin(p) \/ ReadClock(p) \/ Degrade(p) PROVE IInv'
    BY <2>1, OtherStepsKeepInvariant
  <2>2. ASSUME NEW p \in Process, Refused(p) PROVE IInv'
    BY <2>2, RefusedKeepsInvariant
  <2>3. ASSUME NEW p \in Process,
               Granted(p) \/ LetThroughOverdue(p) \/ LetThroughLocal(p)
        PROVE  IInv'
    BY <2>3, LetThroughKeepsInvariant
  <2>4. CASE Tick
    <3>1. KeysOK'
      BY <2>4, KeysStay DEF Tick
    <3>2. TypeOK'
      BY <2>4, <3>1, ConstantsOK DEF Tick, IInv, TypeOK, KeysOK, Time
    <3>3. ReadsPast'
      BY <2>4, Types DEF Tick, IInv, ReadsPast
    <3>4. QED
      BY <3>1, <3>2, <3>3 DEF IInv, KeysOK
  <2>5. CASE UNCHANGED vars
    BY <2>5, KeysStay DEF vars, IInv, TypeOK, ReadsPast, KeysOK
  <2>6. QED
    BY <2>1, <2>2, <2>3, <2>4, <2>5 DEF Next
<1>3. QED
  BY <1>1, <1>2, PTL DEF Spec

\* What all processes record together keeps the promise of one limiter.
THEOREM RecordedKeepsPromise == Spec => RecordedIsThrottle
<1>1. Init => Shared!Init
  BY DEF Init, Shared!Init
<1>2. IInv /\ [Next]_vars => [Shared!Next]_recorded
  <2> SUFFICES ASSUME IInv, [Next]_vars, recorded' # recorded PROVE Shared!Next
    OBVIOUS
  <2>1. ASSUME NEW now \in 1..clock, Record(now) PROVE Shared!Next
    <3>1. now \in Time
      <4>1. clock \in 1..MaxTime /\ MaxTime \in Nat
        BY ConstantsOK DEF IInv, TypeOK, Time
      <4>2. QED
        BY <4>1 DEF Time
    <3>2. Shared!Allowed(now) /\ recorded' = Append(recorded, now)
      BY <2>1, RecordIsAllowed DEF Record
    <3>3. QED
      BY <3>1, <3>2 DEF Shared!Next, Shared!LetThrough
  <2>2. ASSUME NEW p \in Process, Granted(p) PROVE Shared!Next
    BY <2>1, <2>2, AskingReadsPast DEF Granted
  <2>3. ASSUME NEW p \in Process, LetThroughOverdue(p) \/ Degrade(p) PROVE Shared!Next
    BY <2>1, <2>3, AskingReadsPast DEF LetThroughOverdue, Degrade, Refuse
  <2>4. QED
    BY <2>2, <2>3 DEF Next, Begin, ReadClock, Refused, Refuse,
       LetThroughLocal, Tick, vars
<1>3. QED
  BY <1>1, <1>2, InvariantHolds, PTL DEF Spec, RecordedIsThrottle, Shared!Spec
=============================================================================
