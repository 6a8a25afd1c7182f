------------------------- MODULE LiveServer_proofs -------------------------
(***************************************************************************)
(* Proofs about LiveServer: its inductive invariant, one worker at a time, *)
(* what the user has ended stays ended, and no decision is lost.           *)
(***************************************************************************)
EXTENDS LiveServer, SequenceTheorems, FiniteSetTheorems, WellFoundedInduction, TLAPS

-----------------------------------------------------------------------------
(* The queue as a sequence *)

\* A set of naturals that is not empty has a least element.
LEMMA LeastOfSet ==
    ASSUME NEW T \in SUBSET Nat, T # {}
    PROVE  \E x \in T : \A y \in T : x <= y
<1> DEFINE R == OpToRel(<, Nat)
<1>1. IsWellFoundedOn(R, Nat)
  BY NatLessThanWellFounded
<1> HIDE DEF R
<1>2. PICK x \in T : \A y \in T : ~(<<y, x>> \in R)
  BY <1>1, WFMin
<1>3. \A a, b \in Nat : a < b => <<a, b>> \in R
  BY DEF R, OpToRel
<1>4. \A y \in T : ~(y < x)
  BY <1>2, <1>3, Zenon
<1>5. QED
  BY <1>4

Ordered(K, f) == f \in SetToSeqs(K) /\ \A i, j \in DOMAIN f : i < j => f[i] < f[j]

\* Adding a place beyond all others.
LEMMA OrderGrows ==
    ASSUME NEW n \in Nat, NEW K \in SUBSET (1..n), NEW g, Ordered(K, g)
    PROVE  \E f : Ordered(K \cup {n + 1}, f)
<1> DEFINE c == Cardinality(K)
           L == K \cup {n + 1}
           f == [i \in 1..c + 1 |-> IF i = c + 1 THEN n + 1 ELSE g[i]]
<1>1. IsFiniteSet(K) /\ c \in Nat
  <2>1. IsFiniteSet(1..n)
    BY FS_Interval
  <2>2. QED
    BY <2>1, FS_Subset, FS_CardinalityType
<1>2. Cardinality(L) = c + 1
  <2>1. n + 1 \notin K
    OBVIOUS
  <2>2. QED
    BY <1>1, <2>1, FS_AddElement
<1>3. g \in [1..c -> K] /\ \A i, j \in 1..c : i # j => g[i] # g[j]
  BY DEF Ordered, SetToSeqs
<1>4. \A i, j \in 1..c : i < j => g[i] < g[j]
  <2>1. DOMAIN g = 1..c
    BY <1>3
  <2>2. QED
    BY <2>1 DEF Ordered
<1> HIDE DEF c
<1>5. \A i \in 1..c : g[i] \in K /\ g[i] \in 1..n
  BY <1>3
<1>6. \A i \in 1..c + 1 : i = c + 1 \/ i \in 1..c
  BY <1>1
<1>7. f \in [1..c + 1 -> L]
  BY <1>5, <1>6
<1>8. ASSUME NEW i \in 1..c + 1, NEW j \in 1..c + 1, i < j
      PROVE  f[i] < f[j] /\ f[i] # f[j]
  <2>1. i \in 1..c /\ g[i] \in 1..n /\ f[i] = g[i]
    BY <1>1, <1>5, <1>8
  <2>2. CASE j = c + 1
    BY <2>1, <2>2
  <2>3. CASE j \in 1..c
    <3>1. f[j] = g[j] /\ g[j] \in 1..n /\ g[i] < g[j]
      BY <2>1, <2>3, <1>1, <1>4, <1>5, <1>8
    <3>2. QED
      BY <2>1, <3>1
  <2>4. QED
    BY <2>2, <2>3, <1>6
<1>9. \A i, j \in 1..c + 1 : i # j => f[i] # f[j]
  <2> SUFFICES ASSUME NEW i \in 1..c + 1, NEW j \in 1..c + 1, i # j
               PROVE  f[i] # f[j]
    OBVIOUS
  <2>1. i < j \/ j < i
    BY <1>1
  <2> HIDE DEF f
  <2>2. QED
    BY <2>1, <1>8
<1>10. DOMAIN f = 1..c + 1
  OBVIOUS
<1> HIDE DEF f, L
<1>11. f \in SetToSeqs(L)
  BY <1>2, <1>7, <1>9 DEF SetToSeqs
<1>12. \A i, j \in DOMAIN f : i < j => f[i] < f[j]
  BY <1>8, <1>10
<1>13. QED
  BY <1>11, <1>12 DEF Ordered, L

\* Any places of a sequence can be put in their order.
LEMMA OrderExists ==
    ASSUME NEW n \in Nat, NEW K \in SUBSET (1..n)
    PROVE  \E f : Ordered(K, f)
<1> DEFINE Fails == {m \in Nat : \E P \in SUBSET (1..m) : ~\E f : Ordered(P, f)}
<1>1. Fails = {}
  <2> SUFFICES ASSUME Fails # {} PROVE FALSE
    OBVIOUS
  <2>1. Fails \in SUBSET Nat
    OBVIOUS
  <2>2. PICK m \in Fails : \A k \in Fails : m <= k
    BY <2>1, LeastOfSet
  <2>3. PICK P \in SUBSET (1..m) : ~\E f : Ordered(P, f)
    BY <2>2
  <2>4. CASE m = 0
    <3>1. P = {}
      BY <2>4
    <3>2. Cardinality(P) = 0
      BY <3>1, FS_EmptySet
    <3>3. Ordered(P, <<>>)
      <4>1. <<>> \in [1..0 -> P] /\ DOMAIN <<>> = {}
        BY <3>1
      <4>2. QED
        BY <3>2, <4>1 DEF Ordered, SetToSeqs
    <3>4. QED
      BY <3>3, <2>3
  <2>5. CASE m # 0
    <3>0. m \in Nat
      BY <2>1, <2>2
    <3>1. m - 1 \in Nat /\ m - 1 + 1 = m /\ m - 1 \notin Fails
      <4>1. m - 1 \in Nat /\ m - 1 + 1 = m /\ ~(m <= m - 1)
        BY <3>0, <2>5
      <4> HIDE DEF Fails
      <4>2. QED
        BY <4>1, <2>2
    <3>2. P \ {m} \in SUBSET (1..m - 1)
      BY <3>1
    <3>3. PICK g : Ordered(P \ {m}, g)
      BY <3>1, <3>2
    <3>4. CASE m \in P
      <4>1. \E f : Ordered((P \ {m}) \cup {m - 1 + 1}, f)
        BY <3>1, <3>2, <3>3, OrderGrows
      <4>2. (P \ {m}) \cup {m - 1 + 1} = P
        BY <3>1, <3>4
      <4>3. QED
        BY <4>1, <4>2, <2>3
    <3>5. CASE m \notin P
      <4>1. P \ {m} = P
        BY <3>5
      <4>2. QED
        BY <4>1, <3>3, <2>3
    <3>6. QED
      BY <3>4, <3>5
  <2>6. QED
    BY <2>4, <2>5
<1>2. n \notin Fails
  BY <1>1
<1>3. QED
  BY <1>2

\* What is kept of a sequence: the entries of these places, each once.
LEMMA KeptProperties ==
    ASSUME NEW S, NEW q \in Seq(S), NEW K \in SUBSET DOMAIN q
    PROVE  /\ Kept(q, K) \in Seq(S)
           /\ \E f \in [DOMAIN Kept(q, K) -> K] :
                /\ \A i \in DOMAIN Kept(q, K) : Kept(q, K)[i] = q[f[i]]
                /\ \A i, j \in DOMAIN Kept(q, K) : f[i] = f[j] => i = j
                /\ \A k \in K : \E i \in DOMAIN Kept(q, K) : f[i] = k
<1> DEFINE f == CHOOSE f \in SetToSeqs(K) : \A i, j \in DOMAIN f : i < j => f[i] < f[j]
           c == Cardinality(K)
<1>1. Len(q) \in Nat /\ DOMAIN q = 1..Len(q) /\ \A i \in 1..Len(q) : q[i] \in S
  BY LenProperties, ElementOfSeq
<1>2. \E g : Ordered(K, g)
  BY <1>1, OrderExists
<1>3. f \in SetToSeqs(K)
  BY <1>2 DEF Ordered
<1>4. IsFiniteSet(K) /\ c \in Nat
  <2>1. IsFiniteSet(1..Len(q))
    BY <1>1, FS_Interval
  <2>2. IsFiniteSet(K)
    BY <1>1, <2>1, FS_Subset
  <2>3. QED
    BY <2>2, FS_CardinalityType
<1>5. Kept(q, K) = [i \in DOMAIN f |-> q[f[i]]]
  BY DEF Kept
<1> HIDE DEF f
<1>6. f \in [1..c -> K] /\ \A i, j \in 1..c : i # j => f[i] # f[j]
  BY <1>3 DEF SetToSeqs
<1> HIDE DEF c
<1>7. DOMAIN f = 1..c
  BY <1>6
<1>8. DOMAIN Kept(q, K) = 1..c /\ \A i \in 1..c : Kept(q, K)[i] = q[f[i]]
  BY <1>5, <1>7
<1>9. Kept(q, K) \in Seq(S)
  <2>1. \A i \in 1..c : q[f[i]] \in S
    BY <1>1, <1>6
  <2>2. Kept(q, K) \in [1..c -> S]
    BY <1>5, <1>7, <2>1
  <2>3. QED
    BY <1>4, <2>2, SeqDef
<1>10. \A k \in K : \E i \in 1..c : f[i] = k
  <2>1. IsFiniteSet(1..c) /\ Cardinality(1..c) = c
    BY <1>4, FS_Interval
  <2>2. f \in Injection(1..c, K)
    BY <1>6 DEF Injection, IsInjective
  <2>3. f \in Surjection(1..c, K)
    BY <1>4, <2>1, <2>2, FS_Injection DEF c
  <2>4. QED
    BY <2>3 DEF Surjection
<1>11. /\ f \in [DOMAIN Kept(q, K) -> K]
       /\ \A i \in DOMAIN Kept(q, K) : Kept(q, K)[i] = q[f[i]]
       /\ \A i, j \in DOMAIN Kept(q, K) : f[i] = f[j] => i = j
       /\ \A k \in K : \E i \in DOMAIN Kept(q, K) : f[i] = k
  BY <1>6, <1>8, <1>10
<1>12. QED
  BY <1>9, <1>11

-----------------------------------------------------------------------------
(* The queue as a set: at most one entry of a session and type *)

IsQueue(q) == q \in Seq(Entry) /\ Keyed(q)

LEMMA QueueDomain ==
    ASSUME NEW q, IsQueue(q)
    PROVE  /\ Len(q) \in Nat /\ DOMAIN q = 1..Len(q)
           /\ \A i \in DOMAIN q : q[i] \in Entry
           /\ \A entry \in ToSet(q) : entry \in Entry
<1>1. Len(q) \in Nat /\ DOMAIN q = 1..Len(q) /\ \A i \in DOMAIN q : q[i] \in Entry
  BY LenProperties, ElementOfSeq DEF IsQueue
<1>2. QED
  BY <1>1 DEF ToSet

\* Two entries of one session and type are one.
LEMMA OneEntry ==
    ASSUME NEW q, IsQueue(q), NEW d \in ToSet(q), NEW e \in ToSet(q),
           d.id = e.id, d.event.type = e.event.type
    PROVE  d = e
BY DEF IsQueue, Keyed, ToSet

LEMMA KeptSet ==
    ASSUME NEW q, IsQueue(q), NEW K \in SUBSET DOMAIN q
    PROVE  IsQueue(Kept(q, K)) /\ ToSet(Kept(q, K)) = {q[i] : i \in K}
<1> DEFINE r == Kept(q, K)
<1>1. /\ r \in Seq(Entry)
      /\ \E f \in [DOMAIN r -> K] :
            /\ \A i \in DOMAIN r : r[i] = q[f[i]]
            /\ \A i, j \in DOMAIN r : f[i] = f[j] => i = j
            /\ \A k \in K : \E i \in DOMAIN r : f[i] = k
  BY KeptProperties DEF IsQueue
<1> HIDE DEF r
<1>2. PICK f \in [DOMAIN r -> K] :
            /\ \A i \in DOMAIN r : r[i] = q[f[i]]
            /\ \A i, j \in DOMAIN r : f[i] = f[j] => i = j
            /\ \A k \in K : \E i \in DOMAIN r : f[i] = k
  BY <1>1
<1>3. Keyed(r)
  BY <1>2 DEF Keyed, IsQueue
<1>4. ToSet(r) = {q[i] : i \in K}
  BY <1>2 DEF ToSet
<1>5. QED
  BY <1>1, <1>3, <1>4 DEF IsQueue, r

LEMMA RetireSet ==
    ASSUME NEW q, IsQueue(q), NEW id
    PROVE  /\ IsQueue(RetireGeneration(q, id))
           /\ ToSet(RetireGeneration(q, id)) = {e \in ToSet(q) : ~SameEvent(e, id, "generate")}
<1> DEFINE K == {i \in DOMAIN q : ~SameEvent(q[i], id, "generate")}
<1>1. RetireGeneration(q, id) = Kept(q, K)
  BY DEF RetireGeneration
<1>2. IsQueue(Kept(q, K)) /\ ToSet(Kept(q, K)) = {q[i] : i \in K}
  BY KeptSet
<1>3. {q[i] : i \in K} = {e \in ToSet(q) : ~SameEvent(e, id, "generate")}
  BY DEF ToSet
<1>4. QED
  BY <1>1, <1>2, <1>3

LEMMA CancelSet ==
    ASSUME NEW q, IsQueue(q)
    PROVE  /\ IsQueue(CancelExits(q))
           /\ ToSet(CancelExits(q)) = {e \in ToSet(q) : e.event # Exit}
<1> DEFINE K == {i \in DOMAIN q : q[i].event # Exit}
<1>1. CancelExits(q) = Kept(q, K)
  BY DEF CancelExits
<1>2. IsQueue(Kept(q, K)) /\ ToSet(Kept(q, K)) = {q[i] : i \in K}
  BY KeptSet
<1>3. {q[i] : i \in K} = {e \in ToSet(q) : e.event # Exit}
  BY DEF ToSet
<1>4. QED
  BY <1>1, <1>2, <1>3

LEMMA RemoveSet ==
    ASSUME NEW q, IsQueue(q), NEW i \in DOMAIN q
    PROVE  IsQueue(RemoveAt(q, i)) /\ ToSet(RemoveAt(q, i)) = ToSet(q) \ {q[i]}
<1> DEFINE n == Len(q)
           r == RemoveAt(q, i)
           a == SubSeq(q, 1, i - 1)
           b == SubSeq(q, i + 1, n)
<1>1. n \in Nat /\ DOMAIN q = 1..n /\ i \in 1..n /\ \A k \in 1..n : q[k] \in Entry
  BY QueueDomain
<1>2. q \in Seq(Entry) /\ r = a \o b
  BY DEF IsQueue, RemoveAt
<1> HIDE DEF n, r
<1>3. a \in Seq(Entry) /\ Len(a) = i - 1 /\ \A k \in 1..i - 1 : a[k] = q[k]
  <2>1. 1 \in Int /\ i - 1 \in Int /\ \A k \in 1..i - 1 : q[k] \in Entry
    BY <1>1
  <2>2. /\ a \in Seq(Entry) /\ Len(a) = IF 1 <= i - 1 THEN i - 1 - 1 + 1 ELSE 0
        /\ \A k \in 1 .. i - 1 - 1 + 1 : a[k] = q[1 + k - 1]
    BY <2>1, SubSeqProperties
  <2> HIDE DEF a
  <2>3. Len(a) = i - 1
    BY <1>1, <2>2
  <2>4. \A k \in 1..i - 1 : k \in 1 .. i - 1 - 1 + 1 /\ 1 + k - 1 = k
    BY <1>1
  <2>5. QED
    BY <2>2, <2>3, <2>4
<1>4. b \in Seq(Entry) /\ Len(b) = n - i /\ \A k \in 1..n - i : b[k] = q[i + k]
  <2>1. i + 1 \in Int /\ n \in Int /\ \A k \in i + 1..n : q[k] \in Entry
    BY <1>1
  <2>2. /\ b \in Seq(Entry) /\ Len(b) = IF i + 1 <= n THEN n - (i + 1) + 1 ELSE 0
        /\ \A k \in 1 .. n - (i + 1) + 1 : b[k] = q[i + 1 + k - 1]
    BY <2>1, SubSeqProperties
  <2> HIDE DEF b
  <2>3. Len(b) = n - i
    BY <1>1, <2>2
  <2>4. \A k \in 1..n - i : k \in 1 .. n - (i + 1) + 1 /\ i + 1 + k - 1 = i + k
    BY <1>1
  <2>5. QED
    BY <2>2, <2>3, <2>4
<1> HIDE DEF a, b
<1> DEFINE At(k) == IF k < i THEN k ELSE k + 1
<1>5. r \in Seq(Entry) /\ Len(r) = n - 1 /\ \A k \in 1..n - 1 : r[k] = q[At(k)]
  <2>1. /\ r \in Seq(Entry) /\ Len(r) = Len(a) + Len(b)
        /\ \A k \in 1 .. Len(a) + Len(b) :
             r[k] = IF k <= Len(a) THEN a[k] ELSE b[k - Len(a)]
    BY <1>2, <1>3, <1>4, ConcatProperties
  <2>2. Len(a) + Len(b) = n - 1
    BY <1>1, <1>3, <1>4
  <2>3. ASSUME NEW k \in 1..n - 1 PROVE r[k] = q[At(k)]
    <3>1. r[k] = IF k <= i - 1 THEN a[k] ELSE b[k - (i - 1)]
      BY <1>3, <2>1, <2>2
    <3>2. CASE k < i
      <4>1. k \in 1..i - 1 /\ k <= i - 1
        BY <1>1, <3>2
      <4>2. QED
        BY <4>1, <3>1, <3>2, <1>3
    <3>3. CASE ~(k < i)
      <4>1. k - (i - 1) \in 1..n - i /\ ~(k <= i - 1) /\ i + (k - (i - 1)) = k + 1
        BY <1>1, <3>3
      <4>2. QED
        BY <4>1, <3>1, <3>3, <1>4
    <3>4. QED
      BY <3>2, <3>3
  <2>4. QED
    BY <2>1, <2>2, <2>3
<1>6. DOMAIN r = 1..n - 1
  BY <1>5, LenProperties
<1>7. \A k \in 1..n - 1 : At(k) \in 1..n /\ At(k) # i
  BY <1>1
<1>8. \A k, l \in 1..n - 1 : At(k) = At(l) => k = l
  BY <1>1
<1>9. \A k \in 1..n : k # i => \E l \in 1..n - 1 : At(l) = k
  <2> SUFFICES ASSUME NEW k \in 1..n, k # i PROVE \E l \in 1..n - 1 : At(l) = k
    OBVIOUS
  <2>1. CASE k < i
    <3>1. k \in 1..n - 1 /\ At(k) = k
      BY <1>1, <2>1
    <3>2. QED
      BY <3>1
  <2>2. CASE ~(k < i)
    <3>1. k - 1 \in 1..n - 1 /\ At(k - 1) = k
      BY <1>1, <2>2
    <3>2. QED
      BY <3>1
  <2>3. QED
    BY <2>1, <2>2
<1> HIDE DEF At
<1>10. \A k, l \in 1..n : q[k].id = q[l].id /\ q[k].event.type = q[l].event.type => k = l
  BY <1>1 DEF IsQueue, Keyed
<1>11. Keyed(r)
  BY <1>5, <1>6, <1>7, <1>8, <1>10 DEF Keyed
<1>12. ToSet(r) = ToSet(q) \ {q[i]}
  <2>1. ASSUME NEW k \in 1..n - 1 PROVE r[k] \in ToSet(q) \ {q[i]}
    <3>1. r[k] = q[At(k)] /\ At(k) \in 1..n /\ At(k) # i
      BY <1>5, <1>7
    <3>2. q[At(k)] # q[i]
      BY <3>1, <1>1, <1>10
    <3>3. QED
      BY <3>1, <3>2, <1>1 DEF ToSet
  <2>2. ASSUME NEW k \in 1..n, k # i PROVE \E l \in 1..n - 1 : r[l] = q[k]
    BY <2>2, <1>5, <1>9
  <2>3. ToSet(r) \subseteq ToSet(q) \ {q[i]}
    BY <1>6, <2>1 DEF ToSet
  <2>4. ASSUME NEW e \in ToSet(q) \ {q[i]} PROVE e \in ToSet(r)
    <3>1. PICK k \in 1..n : e = q[k]
      BY <1>1 DEF ToSet
    <3>2. PICK l \in 1..n - 1 : r[l] = q[k]
      BY <3>1, <2>2
    <3>3. QED
      BY <3>1, <3>2, <1>6 DEF ToSet
  <2>5. QED
    BY <2>3, <2>4
<1>13. QED
  BY <1>5, <1>11, <1>12 DEF IsQueue, r

Fresh(id, event) == [id |-> id, event |-> event, lease |-> Nothing]

\* An exit is only queued when none waits.
LEMMA EnqueueSet ==
    ASSUME NEW q, IsQueue(q), NEW id \in Maybe, NEW event \in Event \cup {Exit},
           id = Nothing => \A e \in ToSet(q) : ~SameEvent(e, id, event.type)
    PROVE  /\ IsQueue(Enqueue(q, id, event))
           /\ ToSet(Enqueue(q, id, event)) =
                IF Queued(q, id, event.type) THEN ToSet(q) ELSE ToSet(q) \cup {Fresh(id, event)}
<1>1. CASE Queued(q, id, event.type)
  <2>1. id # Nothing
    BY <1>1 DEF Queued
  <2>2. QED
    BY <1>1, <2>1 DEF Enqueue
<1>2. CASE ~Queued(q, id, event.type)
  <2> DEFINE r == Append(q, Fresh(id, event))
  <2>1. Enqueue(q, id, event) = r
    BY <1>2 DEF Enqueue, Fresh
  <2>2. q \in Seq(Entry) /\ Fresh(id, event) \in Entry
    BY DEF IsQueue, Fresh, Entry
  <2>3. /\ r \in Seq(Entry) /\ Len(r) = Len(q) + 1
        /\ r[Len(q) + 1] = Fresh(id, event) /\ \A i \in 1..Len(q) : r[i] = q[i]
    BY <2>2, AppendProperties
  <2>4. Len(q) \in Nat /\ DOMAIN q = 1..Len(q)
    BY QueueDomain
  <2>5. DOMAIN r = 1..Len(q) + 1
    BY <2>3, <2>4, LenProperties
  <2> HIDE DEF r
  <2>6. \A i \in 1..Len(q) : ~(q[i].id = id /\ q[i].event.type = event.type)
    BY <1>2, <2>4 DEF Queued, SameEvent, ToSet
  <2>7. Fresh(id, event).id = id /\ Fresh(id, event).event = event
    BY DEF Fresh
  <2>8. ASSUME NEW i \in 1..Len(q) + 1, NEW j \in 1..Len(q) + 1,
               r[i].id = r[j].id, r[i].event.type = r[j].event.type
        PROVE  i = j
    <3>1. (i \in 1..Len(q) \/ i = Len(q) + 1) /\ (j \in 1..Len(q) \/ j = Len(q) + 1)
      BY <2>4
    <3>2. CASE i \in 1..Len(q) /\ j \in 1..Len(q)
      BY <3>2, <2>3, <2>4, <2>8 DEF IsQueue, Keyed
    <3>3. CASE i \in 1..Len(q) /\ j = Len(q) + 1
      BY <3>3, <2>3, <2>6, <2>7, <2>8
    <3>4. CASE i = Len(q) + 1 /\ j \in 1..Len(q)
      BY <3>4, <2>3, <2>6, <2>7, <2>8
    <3>5. QED
      BY <3>1, <3>2, <3>3, <3>4
  <2>9. Keyed(r)
    BY <2>5, <2>8 DEF Keyed
  <2>10. ToSet(r) = ToSet(q) \cup {Fresh(id, event)}
    <3>1. \A i \in 1..Len(q) + 1 : i \in 1..Len(q) \/ i = Len(q) + 1
      BY <2>4
    <3>2. Len(q) + 1 \in 1..Len(q) + 1 /\ \A i \in 1..Len(q) : i \in 1..Len(q) + 1
      BY <2>4
    <3>3. QED
      BY <3>1, <3>2, <2>3, <2>4, <2>5 DEF ToSet
  <2>11. QED
    BY <1>2, <2>1, <2>3, <2>9, <2>10 DEF IsQueue
<1>3. QED
  BY <1>1, <1>2

\* Leases and delivery times do not make another event.
LEMMA UpdateQueue ==
    ASSUME NEW q, IsQueue(q), NEW r \in [DOMAIN q -> Entry],
           \A i \in DOMAIN q : r[i].id = q[i].id /\ r[i].event.type = q[i].event.type
    PROVE  IsQueue(r)
<1>1. Len(q) \in Nat /\ DOMAIN q = 1..Len(q)
  BY QueueDomain
<1>2. r \in Seq(Entry)
  BY <1>1, SeqDef
<1>3. DOMAIN r = DOMAIN q
  OBVIOUS
<1>4. Keyed(r)
  BY <1>3 DEF IsQueue, Keyed
<1>5. QED
  BY <1>2, <1>4 DEF IsQueue

\* The queue of a restarted server.
LEMMA RestoredQueue ==
    ASSUME NEW S \in SUBSET Session, IsFiniteSet(S), NEW event, \A s \in S : event[s] \in Event,
           NEW order \in SetToSeqs(S)
    PROVE  LET q == [i \in DOMAIN order |-> Fresh(order[i], event[order[i]])]
           IN  IsQueue(q) /\ ToSet(q) = {Fresh(s, event[s]) : s \in S}
<1> DEFINE c == Cardinality(S)
           q == [i \in DOMAIN order |-> Fresh(order[i], event[order[i]])]
<1>1. c \in Nat
  BY FS_CardinalityType
<1>2. order \in [1..c -> S] /\ \A i, j \in 1..c : i # j => order[i] # order[j]
  BY DEF SetToSeqs
<1>3. \A s \in S : Fresh(s, event[s]) \in Entry /\ Fresh(s, event[s]).id = s
  BY DEF Fresh, Entry, Maybe
<1>4. order \in Surjection(1..c, S)
  <2>1. IsFiniteSet(1..c) /\ Cardinality(1..c) = c
    BY <1>1, FS_Interval
  <2>2. order \in Injection(1..c, S)
    BY <1>2 DEF Injection, IsInjective
  <2>3. QED
    BY <2>1, <2>2, FS_Injection
<1> HIDE DEF c
<1>5. DOMAIN order = 1..c /\ DOMAIN q = 1..c
  BY <1>2
<1>6. q \in [1..c -> Entry]
  BY <1>2, <1>3, <1>5
<1>7. q \in Seq(Entry)
  BY <1>1, <1>6, SeqDef
<1>8. \A i \in 1..c : order[i] \in S /\ q[i] = Fresh(order[i], event[order[i]]) /\ q[i].id = order[i]
  BY <1>2, <1>3, <1>5
<1> HIDE DEF q
<1>9. Keyed(q)
  BY <1>2, <1>5, <1>8 DEF Keyed
<1>10. ToSet(q) = {Fresh(s, event[s]) : s \in S}
  <2>1. \A s \in S : \E i \in 1..c : order[i] = s
    BY <1>4 DEF Surjection
  <2>2. QED
    BY <2>1, <1>5, <1>8 DEF ToSet
<1>11. QED
  BY <1>7, <1>9, <1>10 DEF IsQueue, q

-----------------------------------------------------------------------------
(* The journal *)

Asked == {"accept_requested", "discard_requested"}

\* What an answer or a checkpoint may do to a session: it opens none the user
\* has ended, and makes no decision of its own.
Advances(snap, next, begun) ==
    /\ next \in Snapshot
    /\ Known(next) <=> Known(snap)
    /\ next.canceled = snap.canceled
    /\ next.completed => snap.completed \/ begun
    /\ next.pending \in {snap.pending, Nothing}
    /\ snap.canceled /\ snap.phase \in Fenced \cup {"agent_error"}
         => next.phase \in Fenced \cup {"agent_error"}
    /\ next.phase \in Asked => next.phase = snap.phase /\ next.pending = snap.pending

LEMMA StaysAdvances ==
    ASSUME NEW snap \in Snapshot, NEW begun
    PROVE  Advances(snap, snap, begun)
BY DEF Advances

LEMMA EndAdvances ==
    ASSUME NEW snap \in Snapshot, Known(snap), NEW begun,
           NEW phase \in Closed \cup {"agent_error"}
    PROVE  Advances(snap, AfterEnd(snap, phase), begun)
<1>1. phase \in Phase
  BY DEF Phase, Fenced
<1>2. /\ AfterEnd(snap, phase).phase = phase
      /\ AfterEnd(snap, phase).canceled = snap.canceled
      /\ AfterEnd(snap, phase).completed = snap.completed
      /\ AfterEnd(snap, phase).pending = Nothing
  BY DEF AfterEnd, Snapshot
<1>3. AfterEnd(snap, phase) \in Snapshot
  BY <1>1 DEF AfterEnd, Snapshot
<1>4. QED
  BY <1>2, <1>3 DEF Advances, Known, Fenced, Closed, Asked

LEMMA CheckpointAdvances ==
    ASSUME NEW snap \in Snapshot, Known(snap), NEW begun
    PROVE  Advances(snap, AfterCheckpoint(snap), begun)
<1>1. CASE Canceled(snap)
  BY <1>1, StaysAdvances DEF AfterCheckpoint
<1>2. CASE ~Canceled(snap)
  <2>1. AfterCheckpoint(snap) = [phase |-> "open", canceled |-> snap.canceled,
                                 completed |-> snap.completed, pending |-> snap.pending]
    BY <1>2 DEF AfterCheckpoint, Snapshot
  <2>2. AfterCheckpoint(snap) \in Snapshot
    BY <2>1 DEF Snapshot, Phase
  <2>3. QED
    BY <1>2, <2>1, <2>2 DEF Advances, Known, Canceled, Asked
<1>3. QED
  BY <1>1, <1>2

LEMMA DoneAdvances ==
    ASSUME NEW snap \in Snapshot, Known(snap), NEW carbonize \in BOOLEAN
    PROVE  Advances(snap, AfterDone(snap, carbonize), TRUE)
<1>1. CASE Canceled(snap) /\ ~(carbonize /\ snap.phase = "accept_requested")
  BY <1>1, StaysAdvances DEF AfterDone
<1>2. CASE ~(Canceled(snap) /\ ~(carbonize /\ snap.phase = "accept_requested"))
  <2> DEFINE phase == IF carbonize THEN "carbonize_required" ELSE "open"
  <2>1. AfterDone(snap, carbonize) = [phase |-> phase, canceled |-> snap.canceled,
                                      completed |-> TRUE, pending |-> Nothing]
    BY <1>2 DEF AfterDone, Snapshot
  <2>2. AfterDone(snap, carbonize) \in Snapshot
    BY <2>1 DEF Snapshot, Phase, Fenced
  <2>3. phase # "new" /\ phase \notin Asked
    BY DEF Asked
  <2>4. snap.canceled => phase \in Fenced
    BY <1>2 DEF Canceled, Fenced
  <2> HIDE DEF phase
  <2>5. QED
    BY <2>1, <2>2, <2>3, <2>4 DEF Advances, Known
<1>3. QED
  BY <1>1, <1>2

\* Late answers of a generation the user has ended are diagnostics only.
LEMMA ReplyAdvances ==
    ASSUME NEW snap \in Snapshot, Known(snap), NEW reply, NEW acked, NEW carbonize \in BOOLEAN
    PROVE  Advances(snap, AfterReply(snap, reply, acked, carbonize), TRUE)
<1>1. CASE reply = "discarded"
  BY <1>1, EndAdvances DEF AfterReply, Closed
<1>2. CASE reply = "complete"
  BY <1>2, EndAdvances DEF AfterReply, Closed
<1>3. CASE reply = "error"
  <2>1. AfterReply(snap, reply, acked, carbonize) = AfterError(snap, acked)
    BY <1>3 DEF AfterReply
  <2>2. AfterError(snap, acked) \in {snap, AfterEnd(snap, "agent_error")}
    BY DEF AfterError
  <2>3. QED
    BY <2>1, <2>2, StaysAdvances, EndAdvances
<1>4. CASE reply \notin {"discarded", "complete", "error"}
  BY <1>4, DoneAdvances DEF AfterReply
<1>5. QED
  BY <1>1, <1>2, <1>3, <1>4

-----------------------------------------------------------------------------
(* Steps *)

\* An agent goes on with what it is at.
Continues(a) ==
    /\ agent[a].doing # "idle"
    /\ agent'[a].id = agent[a].id /\ agent'[a].event = agent[a].event
    /\ agent[a].lapsed => agent'[a].lapsed
    /\ agent'[a].doing \in {"waiting", "working"} => agent'[a].doing = agent[a].doing
    /\ agent[a].doing = "waiting" => agent'[a].doing = "waiting"

\* A step that queues and leases nothing, starts no session and decides nothing.
OnlyAnswers ==
    /\ TypeOK' /\ JobsAgree' /\ ExitIsTimed'
    /\ IsQueue(queue') /\ ToSet(queue') \subseteq ToSet(queue)
    /\ preflight' \subseteq preflight
    /\ \A s \in Session : Advances(store[s], store'[s], Begun(s))
    /\ \A s \in Session : source'[s] \/ receipt'[s] # Nothing => Begun(s)
    /\ \A a \in Agent : agent'[a].doing = "idle" \/ Continues(a)
    /\ \A s \in Session : answered[s] => answered'[s]
    /\ \A s \in Session, type \in Decision :
         Queued(queue, s, type) => Queued(queue', s, type) \/ answered'[s]

LEMMA QueueTyped ==
    ASSUME IInv
    PROVE  /\ IsQueue(queue)
           /\ \A e \in ToSet(queue) :
                /\ e \in Entry /\ e.id \in Maybe /\ e.event \in Event \cup {Exit}
                /\ e.lease \in Agent \cup {Nothing}
                /\ e.event.type \in Decision \cup {"generate"} => e.id \in Session /\ e.event \in Event
<1>1. IsQueue(queue)
  BY DEF IInv, TypeOK, QueueIsKeyed, IsQueue
<1>2. ASSUME NEW e \in ToSet(queue)
      PROVE  /\ e \in Entry /\ e.id \in Maybe /\ e.event \in Event \cup {Exit}
             /\ e.lease \in Agent \cup {Nothing}
             /\ e.event.type \in Decision \cup {"generate"} => e.id \in Session /\ e.event \in Event
  <2>1. e \in Entry
    BY <1>1, QueueDomain
  <2>2. e.id \in Maybe /\ e.event \in Event \cup {Exit} /\ e.lease \in Agent \cup {Nothing}
    BY <2>1 DEF Entry
  <2>3. e.id = Nothing <=> e.event = Exit
    BY DEF IInv, QueueIsKeyed
  <2>4. Exit.type = "exit"
    BY DEF Exit
  <2>5. QED
    BY <2>1, <2>2, <2>3, <2>4 DEF Maybe, Decision
<1>3. QED
  BY <1>1, <1>2

LEMMA OnlyAnswersKeeps ==
    ASSUME IInv, OnlyAnswers
    PROVE  IInv'
<1>1. \A e \in ToSet(queue') : e \in ToSet(queue)
  BY DEF OnlyAnswers
<1>2. QueueIsKeyed'
  BY <1>1 DEF OnlyAnswers, QueueIsKeyed, IsQueue, IInv
<1>3. \A a \in Agent : agent'[a].doing # "idle" =>
        /\ Continues(a)
        /\ Works(a)' => Works(a)
        /\ agent'[a].doing \notin {"idle", "waiting"} => agent[a].doing \notin {"idle", "waiting"}
  <2> SUFFICES ASSUME NEW a \in Agent, agent'[a].doing # "idle"
               PROVE  /\ Continues(a)
                      /\ Works(a)' => Works(a)
                      /\ agent'[a].doing \notin {"idle", "waiting"}
                            => agent[a].doing \notin {"idle", "waiting"}
    OBVIOUS
  <2>1. Continues(a)
    BY DEF OnlyAnswers
  <2>2. agent[a].lapsed \in BOOLEAN /\ agent'[a].lapsed \in BOOLEAN
    BY DEF OnlyAnswers, IInv, TypeOK, Job
  <2>3. QED
    BY <2>1, <2>2 DEF Continues, Works
<1>4. ASSUME NEW s \in Session, Begun(s)' PROVE Begun(s)
  <2>1. CASE source'[s] \/ receipt'[s] # Nothing
    BY <2>1 DEF OnlyAnswers
  <2>2. CASE store'[s].canceled \/ store'[s].completed
    <3>1. Advances(store[s], store'[s], Begun(s))
      BY DEF OnlyAnswers
    <3>2. QED
      BY <2>2, <3>1 DEF Advances, Begun
  <2>3. CASE \E a \in Agent : agent'[a].doing \notin {"idle", "waiting"} /\ agent'[a].id = s
    <3>1. PICK a \in Agent : agent'[a].doing \notin {"idle", "waiting"} /\ agent'[a].id = s
      BY <2>3
    <3>2. agent[a].doing \notin {"idle", "waiting"} /\ agent[a].id = s
      BY <1>3, <3>1 DEF Continues
    <3>3. QED
      BY <3>2 DEF Begun
  <2>4. QED
    BY <1>4, <2>1, <2>2, <2>3 DEF Begun
<1>5. \A s \in Session : Known(store'[s]) <=> Known(store[s])
  BY DEF OnlyAnswers, Advances
<1>6. SessionsKnown'
  <2>1. {s \in Session : Known(store'[s])} = {s \in Session : Known(store[s])}
    BY <1>5
  <2>2. \A a \in Agent : agent'[a].doing # "idle" => agent'[a].id \in Session /\ Known(store[agent'[a].id])
    BY <1>3 DEF Continues, IInv, SessionsKnown, JobsAgree
  <2>3. \A p \in preflight' : p.id \in Session /\ Known(store[p.id])
    BY DEF OnlyAnswers, IInv, SessionsKnown, TypeOK
  <2>4. \A e \in ToSet(queue') : e.id \in Session => Known(store[e.id])
    BY <1>1 DEF IInv, SessionsKnown
  <2>5. \A s \in Session : Begun(s)' => Known(store[s])
    BY <1>4 DEF IInv, SessionsKnown
  <2>6. IsFiniteSet({s \in Session : Known(store'[s])})
    BY <2>1 DEF IInv, SessionsKnown
  <2>7. QED
    BY <1>5, <2>2, <2>3, <2>4, <2>5, <2>6 DEF SessionsKnown
<1>7. PreflightHoldsLease'
  BY <1>1 DEF OnlyAnswers, IInv, PreflightHoldsLease
<1>8. WorkerHoldsLease'
  <2> SUFFICES ASSUME NEW a \in Agent, NEW e \in ToSet(queue'), Works(a)',
                      agent'[a].event.type = "generate", SameEvent(e, agent'[a].id, "generate")
               PROVE  e.lease = a
    BY DEF WorkerHoldsLease
  <2>1. agent'[a].doing # "idle"
    BY DEF Works
  <2>2. Works(a) /\ agent'[a].id = agent[a].id /\ agent'[a].event = agent[a].event
    BY <1>3, <2>1 DEF Continues
  <2>3. QED
    BY <1>1, <2>2 DEF IInv, WorkerHoldsLease
<1>9. WorkedOnce'
  <2>1. \A a \in Agent : Works(a)' =>
          Works(a) /\ agent'[a].id = agent[a].id /\ agent'[a].event = agent[a].event
    BY <1>3 DEF Works, Continues
  <2>2. QED
    BY <2>1 DEF WorkedOnce, IInv
<1>10. BegunIsPrepared'
  <2>1. \A s \in Session : store'[s].pending \in {store[s].pending, Nothing}
    BY DEF OnlyAnswers, Advances
  <2>2. Nothing # Generate(FALSE)
    <3>1. Generate(FALSE) \in Event
      BY DEF Generate, Event
    <3>2. QED
      BY <3>1, ServerOK
  <2>3. ASSUME NEW s \in Session, Begun(s)'
        PROVE  /\ store'[s].pending # Generate(FALSE)
               /\ \A p \in preflight' : p.id # s
               /\ \A e \in ToSet(queue') : e.id = s => e.event # Generate(FALSE)
    <3>1. Begun(s)
      BY <1>4, <2>3
    <3>2. QED
      BY <1>1, <2>1, <2>2, <3>1 DEF IInv, BegunIsPrepared, OnlyAnswers
  <2>4. ASSUME NEW e \in ToSet(queue'), e.event = Generate(TRUE)
        PROVE  store'[e.id].pending # Generate(FALSE)
    <3>1. e \in ToSet(queue) /\ e.id \in Session
      BY <1>1, <2>4, QueueTyped DEF Generate
    <3>2. QED
      BY <2>1, <2>2, <2>4, <3>1 DEF IInv, BegunIsPrepared
  <2>5. QED
    BY <2>3, <2>4 DEF BegunIsPrepared
<1>11. DecisionsCancel'
  <2>1. \A s \in Session : /\ store'[s].pending \in {store[s].pending, Nothing}
                           /\ store'[s].canceled = store[s].canceled
    BY DEF OnlyAnswers, Advances
  <2>2. Nothing \notin Event
    BY ServerOK
  <2>3. \A s \in Session : store'[s].pending \in Event /\ store'[s].pending.type \in Decision
                            => store'[s].canceled
    BY <2>1, <2>2 DEF IInv, DecisionsCancel
  <2>4. ASSUME NEW e \in ToSet(queue'), e.event.type \in Decision
        PROVE  store'[e.id].canceled
    <3>1. e \in ToSet(queue) /\ e.id \in Session
      BY <1>1, <2>4, QueueTyped
    <3>2. QED
      BY <2>1, <2>4, <3>1 DEF IInv, DecisionsCancel
  <2>5. QED
    BY <2>3, <2>4 DEF DecisionsCancel
<1>12. CanceledStaysFenced'
  BY DEF CanceledStaysFenced, IInv, OnlyAnswers, Advances
<1>13. DecisionHeld'
  <2> SUFFICES ASSUME NEW s \in Session, NEW type \in Decision,
                      store'[s].phase = (IF type = "accept" THEN "accept_requested" ELSE "discard_requested")
               PROVE  store'[s].pending = Ask(type) /\ (answered'[s] \/ Queued(queue', s, type))
    BY DEF DecisionHeld
  <2>1. store'[s].phase = store[s].phase /\ store'[s].pending = store[s].pending
    BY DEF OnlyAnswers, Advances, Asked
  <2>2. store[s].pending = Ask(type) /\ (answered[s] \/ Queued(queue, s, type))
    BY <2>1 DEF IInv, DecisionHeld
  <2>3. QED
    BY <2>1, <2>2 DEF OnlyAnswers
<1>14. TypeOK' /\ JobsAgree' /\ ExitIsTimed'
  BY DEF OnlyAnswers
<1>15. QED
  BY <1>2, <1>6, <1>7, <1>8, <1>9, <1>10, <1>11, <1>12, <1>13, <1>14 DEF IInv

-----------------------------------------------------------------------------
(* The agents' steps *)

LEMMA BecomesFacts ==
    ASSUME IInv, NEW a \in Agent, NEW doing, NEW reply \in Reply \cup {Nothing},
           doing \in {"idle", "waiting", "working", "applied", "replying", "cleaning"},
           Becomes(a, doing, reply)
    PROVE  /\ agent' \in [Agent -> Job]
           /\ \A b \in Agent : b # a => agent'[b] = agent[b]
           /\ agent'[a].doing = doing /\ agent'[a].reply = reply
           /\ agent'[a].id = agent[a].id /\ agent'[a].event = agent[a].event
           /\ agent'[a].lapsed = agent[a].lapsed
<1>1. agent \in [Agent -> Job]
  BY DEF IInv, TypeOK
<1>2. QED
  BY <1>1 DEF Becomes, Job

\* A step of one agent, past its scaffolding, that leaves the queue and the journal.
LEMMA AgentGoesOn ==
    ASSUME IInv, NEW a \in Agent, agent[a].doing \notin {"idle", "waiting"},
           NEW doing \in {"applied", "replying"}, NEW reply \in Reply, Becomes(a, doing, reply),
           doing = "applied" => agent[a].event.type \in Decision,
           doing = "replying" /\ agent[a].event.type = "generate" => reply \in {"done", "error"},
           source' \in [Session -> BOOLEAN],
           receipt' \in [Session -> [type : Decision, reply : Reply] \cup {Nothing}],
           \A s \in Session : source'[s] => source[s] \/ s = agent[a].id,
           \A s \in Session : receipt'[s] # Nothing => receipt[s] # Nothing \/ s = agent[a].id,
           UNCHANGED <<store, queue, preflight, connected, exitTimer, faults, answered>>
    PROVE  IInv'
<1>1. /\ agent' \in [Agent -> Job]
      /\ \A b \in Agent : b # a => agent'[b] = agent[b]
      /\ agent'[a].doing = doing /\ agent'[a].reply = reply
      /\ agent'[a].id = agent[a].id /\ agent'[a].event = agent[a].event
      /\ agent'[a].lapsed = agent[a].lapsed
  BY BecomesFacts
<1>2. TypeOK'
  BY <1>1 DEF IInv, TypeOK
<1>3. JobsAgree'
  <2>1. /\ agent[a].id \in Session /\ agent[a].event \in Event
        /\ ~Prepares(agent[a].event)
    BY DEF IInv, JobsAgree
  <2>2. QED
    BY <1>1, <2>1 DEF IInv, JobsAgree
<1>4. ExitIsTimed' /\ IsQueue(queue') /\ ToSet(queue') \subseteq ToSet(queue)
  BY QueueTyped DEF IInv, ExitIsTimed
<1>5. \A s \in Session : Advances(store[s], store'[s], Begun(s))
  BY StaysAdvances DEF IInv, TypeOK
<1>6. \A s \in Session : source'[s] \/ receipt'[s] # Nothing => Begun(s)
  BY DEF Begun
<1>7. \A b \in Agent : agent'[b].doing = "idle" \/ Continues(b)
  BY <1>1 DEF Continues
<1>8. OnlyAnswers
  BY <1>2, <1>3, <1>4, <1>5, <1>6, <1>7 DEF OnlyAnswers
<1>9. QED
  BY <1>8, OnlyAnswersKeeps

LEMMA GeneratesKeeps ==
    ASSUME IInv, NEW a \in Agent, Generates(a)
    PROVE  IInv'
<1>1. agent[a].doing = "working" /\ agent[a].event.type = "generate"
  BY DEF Generates
<1>2. PICK reply \in {"done", "error"} : Becomes(a, "replying", reply)
  BY DEF Generates
<1>3. source' \in {source, [source EXCEPT ![agent[a].id] = TRUE]}
  BY DEF Generates
<1>4. /\ source' \in [Session -> BOOLEAN]
      /\ \A s \in Session : source'[s] => source[s] \/ s = agent[a].id
  BY <1>3 DEF IInv, TypeOK
<1>5. receipt' \in [Session -> [type : Decision, reply : Reply] \cup {Nothing}]
  BY DEF Generates, IInv, TypeOK
<1>6. UNCHANGED <<store, queue, preflight, receipt, connected, exitTimer, faults, answered>>
  BY DEF Generates
<1>7. QED
  BY <1>1, <1>2, <1>4, <1>5, <1>6, AgentGoesOn DEF Reply

LEMMA DecidesKeeps ==
    ASSUME IInv, NEW a \in Agent, Decides(a)
    PROVE  IInv'
<1>1. agent[a].doing = "working" /\ agent[a].event.type \in Decision /\ agent[a].id \in Session
  BY DEF Decides, IInv, JobsAgree
<1>2. PICK doing \in {"applied", "replying"}, reply \in Reply : Becomes(a, doing, reply)
  <2>1. receipt[agent[a].id] # Nothing => receipt[agent[a].id].reply \in Reply
    BY <1>1 DEF IInv, TypeOK
  <2>2. QED
    BY <2>1 DEF Decides, Reply
<1>3. source' \in {source, [source EXCEPT ![agent[a].id] = FALSE]}
  BY DEF Decides
<1>4. /\ source' \in [Session -> BOOLEAN]
      /\ \A s \in Session : source'[s] => source[s]
  BY <1>3 DEF IInv, TypeOK
<1>5. receipt' \in [Session -> [type : Decision, reply : Reply] \cup {Nothing}]
  BY DEF Decides, IInv, TypeOK
<1>6. UNCHANGED <<store, queue, preflight, receipt, connected, exitTimer, faults, answered>>
  BY DEF Decides
<1>7. agent[a].event.type # "generate"
  BY <1>1 DEF Decision
<1>8. QED
  BY <1>1, <1>2, <1>4, <1>5, <1>6, <1>7, AgentGoesOn

LEMMA RecordsKeeps ==
    ASSUME IInv, NEW a \in Agent, Records(a)
    PROVE  IInv'
<1>1. /\ agent[a].doing = "applied" /\ agent[a].event.type \in Decision
      /\ agent[a].id \in Session /\ agent[a].reply \in Reply
  BY DEF Records, IInv, JobsAgree
<1>2. Becomes(a, "replying", agent[a].reply)
  BY DEF Records
<1>3. receipt' = [receipt EXCEPT ![agent[a].id] = [type |-> agent[a].event.type, reply |-> agent[a].reply]]
  BY DEF Records
<1>4. /\ receipt' \in [Session -> [type : Decision, reply : Reply] \cup {Nothing}]
      /\ \A s \in Session : receipt'[s] # Nothing => receipt[s] # Nothing \/ s = agent[a].id
  BY <1>1, <1>3 DEF IInv, TypeOK
<1>5. source' \in [Session -> BOOLEAN] /\ \A s \in Session : source'[s] => source[s]
  BY DEF Records, IInv, TypeOK
<1>6. UNCHANGED <<store, queue, preflight, source, connected, exitTimer, faults, answered>>
  BY DEF Records
<1>7. agent[a].event.type # "generate"
  BY <1>1 DEF Decision
<1>8. QED
  BY <1>1, <1>2, <1>4, <1>5, <1>6, <1>7, AgentGoesOn

\* An answer acknowledges an entry of its session, if there is one.
LEMMA FirstOfFacts ==
    ASSUME IInv, NEW id, NEW types
    PROVE  \/ /\ FirstOf(id, types) = 0
              /\ \A e \in ToSet(queue) : ~(e.id = id /\ e.event.type \in types)
           \/ /\ FirstOf(id, types) \in DOMAIN queue /\ FirstOf(id, types) # 0
              /\ queue[FirstOf(id, types)].id = id
              /\ queue[FirstOf(id, types)].event.type \in types
<1> DEFINE I == {i \in 1..Len(queue) : queue[i].id = id /\ queue[i].event.type \in types}
<1>1. Len(queue) \in Nat /\ DOMAIN queue = 1..Len(queue)
  BY QueueTyped, QueueDomain
<1>2. FirstOf(id, types) = IF I # {} THEN Min(I) ELSE 0
  BY DEF FirstOf, SelectInSeq
<1>3. CASE I = {}
  BY <1>1, <1>2, <1>3 DEF ToSet
<1>4. CASE I # {}
  <2>1. I \in SUBSET Nat
    BY <1>1
  <2> HIDE DEF I
  <2>2. \E x \in I : \A y \in I : x <= y
    BY <2>1, <1>4, LeastOfSet
  <2>3. Min(I) \in I
    BY <2>2 DEF Min
  <2>4. FirstOf(id, types) \in I
    BY <1>2, <1>4, <2>3
  <2>5. QED
    BY <1>1, <2>4 DEF I
<1>5. QED
  BY <1>3, <1>4

LEMMA FirstLeasedFacts ==
    ASSUME IInv, NEW id, FirstLeased(id) # 0
    PROVE  /\ FirstLeased(id) \in DOMAIN queue
           /\ queue[FirstLeased(id)].id = id /\ queue[FirstLeased(id)].lease # Nothing
<1> DEFINE I == {i \in 1..Len(queue) : queue[i].id = id /\ queue[i].lease # Nothing}
<1>1. Len(queue) \in Nat /\ DOMAIN queue = 1..Len(queue)
  BY QueueTyped, QueueDomain
<1>2. FirstLeased(id) = IF I # {} THEN Min(I) ELSE 0
  BY DEF FirstLeased, SelectInSeq
<1>3. I # {}
  BY <1>2
<1>4. I \in SUBSET Nat
  BY <1>1
<1> HIDE DEF I
<1>5. \E x \in I : \A y \in I : x <= y
  BY <1>3, <1>4, LeastOfSet
<1>6. FirstLeased(id) \in I
  BY <1>2, <1>3, <1>5 DEF Min
<1>7. QED
  BY <1>1, <1>6 DEF I

\* What an answer does to the queue and the journal.
LEMMA AnswerFacts ==
    ASSUME IInv, NEW a \in Agent, agent[a].doing \notin {"idle", "waiting"},
           NEW reply, NEW types, Answer(agent[a].id, reply, types)
    PROVE  /\ IsQueue(queue') /\ ToSet(queue') \subseteq ToSet(queue)
           /\ store' \in [Session -> Snapshot] /\ answered' \in [Session -> BOOLEAN]
           /\ \A s \in Session : Advances(store[s], store'[s], Begun(s))
           /\ \A s \in Session : answered[s] => answered'[s]
           /\ \A s \in Session, type \in Decision :
                Queued(queue, s, type) => Queued(queue', s, type) \/ answered'[s]
<1> DEFINE id == agent[a].id
           i == FirstOf(id, types)
           acked == IF i = 0 THEN Nothing ELSE queue[i].event.type
           carbonize == reply = "carbonize"
<1>1. id \in Session /\ Known(store[id]) /\ Begun(id)
  BY DEF IInv, JobsAgree, SessionsKnown, Begun
<1>2. /\ queue' = IF i = 0 THEN queue ELSE RemoveAt(queue, i)
      /\ store' = IF i = 0 /\ store[id].phase \in Closed THEN store
                  ELSE [store EXCEPT ![id] = AfterReply(@, reply, acked, carbonize)]
      /\ answered' = [answered EXCEPT ![id] = @ \/ acked \in Decision]
  BY <1>1 DEF Answer
<1>3. store \in [Session -> Snapshot] /\ answered \in [Session -> BOOLEAN]
  BY DEF IInv, TypeOK
<1>4. \/ i = 0
      \/ i \in DOMAIN queue /\ i # 0 /\ queue[i].id = id /\ queue[i].event.type \in types
  BY FirstOfFacts
<1>5. IsQueue(queue)
  BY QueueTyped
<1> HIDE DEF i, id
<1>6. /\ IsQueue(queue')
      /\ i = 0 => queue' = queue
      /\ i # 0 => ToSet(queue') = ToSet(queue) \ {queue[i]}
  BY <1>2, <1>4, <1>5, RemoveSet
<1>7. Advances(store[id], AfterReply(store[id], reply, acked, carbonize), TRUE)
  <2>1. carbonize \in BOOLEAN /\ store[id] \in Snapshot
    BY <1>1, <1>3
  <2>2. QED
    BY <2>1, <1>1, ReplyAdvances
<1> DEFINE next == AfterReply(store[id], reply, acked, carbonize)
<1>8. next \in Snapshot /\ Advances(store[id], next, TRUE)
  BY <1>7 DEF Advances
<1>9. store' = store \/ store' = [store EXCEPT ![id] = next]
  BY <1>2
<1> HIDE DEF next, acked
<1>10. store' \in [Session -> Snapshot] /\ answered' \in [Session -> BOOLEAN]
  BY <1>2, <1>3, <1>8, <1>9
<1>11. \A s \in Session : Advances(store[s], store'[s], Begun(s))
  <2> SUFFICES ASSUME NEW s \in Session PROVE Advances(store[s], store'[s], Begun(s))
    OBVIOUS
  <2>1. CASE store'[s] = store[s]
    BY <2>1, <1>3, StaysAdvances
  <2>2. CASE s = id /\ store'[s] = next
    BY <2>2, <1>1, <1>8 DEF Advances
  <2>3. QED
    BY <2>1, <2>2, <1>1, <1>3, <1>9
<1>12. \A s \in Session : answered[s] => answered'[s]
  BY <1>2, <1>3
<1>13. \A s \in Session, type \in Decision :
         Queued(queue, s, type) => Queued(queue', s, type) \/ answered'[s]
  <2> SUFFICES ASSUME NEW s \in Session, NEW type \in Decision, Queued(queue, s, type),
                      ~Queued(queue', s, type)
               PROVE  answered'[s]
    OBVIOUS
  <2>1. PICK e \in ToSet(queue) : e.id = s /\ e.event.type = type
    BY DEF Queued, SameEvent
  <2>2. e \notin ToSet(queue')
    BY <2>1 DEF Queued, SameEvent
  <2>3. i # 0 /\ e = queue[i]
    BY <2>1, <2>2, <1>6
  <2>4. s = id /\ acked \in Decision
    BY <2>1, <2>3, <1>4 DEF acked
  <2>5. QED
    BY <2>4, <1>2, <1>3
<1>14. ToSet(queue') \subseteq ToSet(queue)
  BY <1>6
<1>15. QED
  BY <1>6, <1>10, <1>11, <1>12, <1>13, <1>14

LEMMA ExitStays ==
    ASSUME IInv, ToSet(queue') \subseteq ToSet(queue), UNCHANGED <<connected, exitTimer>>
    PROVE  ExitIsTimed'
BY DEF IInv, ExitIsTimed

LEMMA RepliesKeeps ==
    ASSUME IInv, NEW a \in Agent, Replies(a)
    PROVE  IInv'
<1> DEFINE next == IF agent[a].reply \in {"carbonize", "agent_done"}
                   THEN [agent[a] EXCEPT !.doing = "cleaning"] ELSE Idle
<1>1. /\ agent[a].doing = "replying"
      /\ agent' = [agent EXCEPT ![a] = next]
      /\ UNCHANGED <<preflight, source, receipt, connected, exitTimer, faults>>
  BY DEF Replies
<1>2. /\ IsQueue(queue') /\ ToSet(queue') \subseteq ToSet(queue)
      /\ store' \in [Session -> Snapshot] /\ answered' \in [Session -> BOOLEAN]
      /\ \A s \in Session : Advances(store[s], store'[s], Begun(s))
      /\ \A s \in Session : answered[s] => answered'[s]
      /\ \A s \in Session, type \in Decision :
           Queued(queue, s, type) => Queued(queue', s, type) \/ answered'[s]
  <2>1. CASE UNCHANGED <<queue, store, answered>>
    BY <2>1, QueueTyped, StaysAdvances DEF IInv, TypeOK
  <2>2. CASE \E types : Answer(agent[a].id, agent[a].reply, types)
    BY <2>2, <1>1, AnswerFacts
  <2>3. QED
    BY <2>1, <2>2 DEF Replies
<1>3. /\ agent \in [Agent -> Job] /\ Idle \in Job
      /\ agent[a].reply \in {"carbonize", "agent_done"} => agent[a].event.type \in Decision
  <2>1. Idle \in Job
    BY DEF Idle, Job, Maybe
  <2>2. agent[a].event \in Event /\ agent \in [Agent -> Job]
    BY <1>1 DEF IInv, JobsAgree, TypeOK
  <2>3. agent[a].event.type \in Decision \cup {"generate"}
    BY <2>2 DEF Event, Decision
  <2>4. agent[a].event.type = "generate" => agent[a].reply \in {"done", "error"}
    BY <1>1 DEF IInv, JobsAgree
  <2>5. QED
    BY <2>1, <2>2, <2>3, <2>4
<1>4. /\ agent' \in [Agent -> Job]
      /\ \A b \in Agent : b # a => agent'[b] = agent[b]
      /\ agent'[a].doing \in {"idle", "cleaning"}
      /\ agent'[a].doing = "cleaning" =>
           /\ agent[a].event.type \in Decision
           /\ agent'[a].id = agent[a].id /\ agent'[a].event = agent[a].event
           /\ agent'[a].lapsed = agent[a].lapsed
  <2>1. next \in Job
    BY <1>3 DEF Job
  <2>2. CASE agent[a].reply \in {"carbonize", "agent_done"}
    BY <2>1, <2>2, <1>1, <1>3 DEF Job
  <2>3. CASE agent[a].reply \notin {"carbonize", "agent_done"}
    BY <2>1, <2>3, <1>1, <1>3 DEF Idle
  <2>4. QED
    BY <2>2, <2>3
<1> HIDE DEF next
<1>5. TypeOK'
  BY <1>1, <1>2, <1>4 DEF IInv, TypeOK, IsQueue
<1>6. JobsAgree'
  <2>1. agent[a].id \in Session /\ agent[a].event \in Event /\ ~Prepares(agent[a].event)
    BY <1>1 DEF IInv, JobsAgree
  <2>2. QED
    BY <1>1, <1>4, <2>1 DEF IInv, JobsAgree
<1>7. ExitIsTimed'
  BY <1>1, <1>2, ExitStays
<1>8. \A s \in Session : source'[s] \/ receipt'[s] # Nothing => Begun(s)
  BY <1>1 DEF Begun
<1>9. \A b \in Agent : agent'[b].doing = "idle" \/ Continues(b)
  BY <1>1, <1>4 DEF Continues
<1>10. OnlyAnswers
  BY <1>1, <1>2, <1>5, <1>6, <1>7, <1>8, <1>9 DEF OnlyAnswers
<1>11. QED
  BY <1>10, OnlyAnswersKeeps

\* An agent that is done, or dies.
LEMMA AgentStops ==
    ASSUME IInv, NEW a \in Agent, agent' = [agent EXCEPT ![a] = Idle]
    PROVE  /\ agent' \in [Agent -> Job]
           /\ UNCHANGED preflight => JobsAgree'
           /\ \A b \in Agent : agent'[b].doing = "idle" \/ Continues(b)
<1>1. agent \in [Agent -> Job] /\ Idle \in Job /\ Idle.doing = "idle"
  BY DEF IInv, TypeOK, Idle, Job, Maybe
<1>2. agent' \in [Agent -> Job] /\ agent'[a].doing = "idle"
      /\ \A b \in Agent : b # a => agent'[b] = agent[b]
  BY <1>1
<1>3. UNCHANGED preflight => JobsAgree'
  BY <1>2 DEF IInv, JobsAgree
<1>4. QED
  BY <1>2, <1>3 DEF Continues, IInv

LEMMA CompletesKeeps ==
    ASSUME IInv, NEW a \in Agent, Completes(a)
    PROVE  IInv'
<1>1. /\ agent[a].doing = "cleaning"
      /\ agent' = [agent EXCEPT ![a] = Idle]
      /\ UNCHANGED <<preflight, source, receipt, connected, exitTimer, faults>>
  BY DEF Completes
<1>2. /\ IsQueue(queue') /\ ToSet(queue') \subseteq ToSet(queue)
      /\ store' \in [Session -> Snapshot] /\ answered' \in [Session -> BOOLEAN]
      /\ \A s \in Session : Advances(store[s], store'[s], Begun(s))
      /\ \A s \in Session : answered[s] => answered'[s]
      /\ \A s \in Session, type \in Decision :
           Queued(queue, s, type) => Queued(queue', s, type) \/ answered'[s]
  BY <1>1, AnswerFacts DEF Completes
<1>3. TypeOK' /\ JobsAgree' /\ ExitIsTimed'
  BY <1>1, <1>2, AgentStops, ExitStays DEF IInv, TypeOK, IsQueue
<1>4. \A s \in Session : source'[s] \/ receipt'[s] # Nothing => Begun(s)
  BY <1>1 DEF Begun
<1>5. OnlyAnswers
  BY <1>1, <1>2, <1>3, <1>4, AgentStops DEF OnlyAnswers
<1>6. QED
  BY <1>5, OnlyAnswersKeeps

LEMMA AgentDiesKeeps ==
    ASSUME IInv, NEW a \in Agent, AgentDies(a)
    PROVE  IInv'
<1>1. /\ agent' = [agent EXCEPT ![a] = Idle]
      /\ faults' = faults + 1 /\ faults < MaxFaults
      /\ UNCHANGED <<store, queue, preflight, source, receipt, connected, exitTimer, answered>>
  BY DEF AgentDies
<1>2. faults' \in 0..MaxFaults
  BY <1>1, ServerOK DEF IInv, TypeOK
<1>3. IsQueue(queue') /\ ToSet(queue') \subseteq ToSet(queue)
  BY <1>1, QueueTyped
<1>4. TypeOK' /\ JobsAgree' /\ ExitIsTimed'
  BY <1>1, <1>2, <1>3, AgentStops, ExitStays DEF IInv, TypeOK
<1>5. \A s \in Session : source'[s] \/ receipt'[s] # Nothing => Begun(s)
  BY <1>1 DEF Begun
<1>6. \A s \in Session : Advances(store[s], store'[s], Begun(s))
  BY <1>1, StaysAdvances DEF IInv, TypeOK
<1>7. OnlyAnswers
  BY <1>1, <1>3, <1>4, <1>5, <1>6, AgentStops DEF OnlyAnswers
<1>8. QED
  BY <1>7, OnlyAnswersKeeps

-----------------------------------------------------------------------------
(* The page's stream *)

LEMMA AgentsStay ==
    ASSUME IInv, UNCHANGED <<agent, preflight>>
    PROVE  JobsAgree' /\ \A b \in Agent : agent'[b].doing = "idle" \/ Continues(b)
BY DEF IInv, JobsAgree, Continues

\* A step of the page that asks for nothing.
LEMMA PageOnlyTells ==
    ASSUME IInv, UNCHANGED <<preflight, agent, source, receipt, answered>>,
           IsQueue(queue'), \A e \in ToSet(queue') : e \in ToSet(queue),
           \A e \in ToSet(queue) : e.event # Exit => e \in ToSet(queue'),
           \A s \in Session : Advances(store[s], store'[s], Begun(s)),
           store' \in [Session -> Snapshot],
           connected' \in BOOLEAN, exitTimer' \in BOOLEAN, faults' \in 0..MaxFaults,
           ExitIsTimed'
    PROVE  IInv'
<1>1. TypeOK'
  BY DEF IInv, TypeOK, IsQueue
<1>2. \A s \in Session : source'[s] \/ receipt'[s] # Nothing => Begun(s)
  BY DEF Begun
<1>3. \A s \in Session, type \in Decision :
        Queued(queue, s, type) => Queued(queue', s, type)
  BY DEF Queued, SameEvent, Decision, Exit
<1>4. OnlyAnswers
  BY <1>1, <1>2, <1>3, AgentsStay DEF OnlyAnswers
<1>5. QED
  BY <1>4, OnlyAnswersKeeps

LEMMA PageConnectsKeeps ==
    ASSUME IInv, PageConnects
    PROVE  IInv'
<1>1. /\ UNCHANGED <<store, preflight, agent, source, receipt, faults, answered>>
      /\ queue' = CancelExits(queue) /\ connected' = TRUE /\ exitTimer' = FALSE
  BY DEF PageConnects
<1>2. IsQueue(queue') /\ ToSet(queue') = {e \in ToSet(queue) : e.event # Exit}
  BY <1>1, QueueTyped, CancelSet
<1>3. ExitIsTimed'
  BY <1>2 DEF ExitIsTimed
<1>4. /\ store \in [Session -> Snapshot] /\ faults \in 0..MaxFaults
      /\ \A s \in Session : Advances(store[s], store[s], Begun(s))
  BY StaysAdvances DEF IInv, TypeOK
<1>5. QED
  BY <1>1, <1>2, <1>3, <1>4, PageOnlyTells

LEMMA PageDisconnectsKeeps ==
    ASSUME IInv, PageDisconnects
    PROVE  IInv'
<1>1. /\ UNCHANGED <<store, queue, preflight, agent, source, receipt, answered>>
      /\ connected /\ connected' = FALSE /\ exitTimer' = TRUE
      /\ faults < MaxFaults /\ faults' = faults + 1
  BY DEF PageDisconnects
<1>2. ExitIsTimed'
  BY <1>1 DEF IInv, ExitIsTimed
<1>3. faults' \in 0..MaxFaults
  BY <1>1, ServerOK DEF IInv, TypeOK
<1>4. /\ store \in [Session -> Snapshot]
      /\ \A s \in Session : Advances(store[s], store[s], Begun(s))
  BY StaysAdvances DEF IInv, TypeOK
<1>5. IsQueue(queue)
  BY QueueTyped
<1>6. QED
  BY <1>1, <1>2, <1>3, <1>4, <1>5, PageOnlyTells

LEMMA PageReportsKeeps ==
    ASSUME IInv, NEW s \in Session, PageReports(s)
    PROVE  IInv'
<1>1. /\ UNCHANGED <<queue, preflight, agent, source, receipt, connected, exitTimer, faults, answered>>
      /\ Known(store[s])
      /\ store' = [store EXCEPT ![s] = AfterCheckpoint(store[s])]
  BY DEF PageReports
<1>2. /\ store \in [Session -> Snapshot] /\ connected \in BOOLEAN /\ exitTimer \in BOOLEAN
      /\ faults \in 0..MaxFaults
  BY DEF IInv, TypeOK
<1> DEFINE next == AfterCheckpoint(store[s])
<1>3. \A b : Advances(store[s], next, b)
  BY <1>1, <1>2, CheckpointAdvances
<1>4. next \in Snapshot
  BY <1>3 DEF Advances
<1> HIDE DEF next
<1>5. store' \in [Session -> Snapshot]
  BY <1>1, <1>2, <1>4 DEF next
<1>6. \A r \in Session : Advances(store[r], store'[r], Begun(r))
  <2> SUFFICES ASSUME NEW r \in Session PROVE Advances(store[r], store'[r], Begun(r))
    OBVIOUS
  <2>1. CASE r = s
    <3>1. store'[r] = next
      BY <2>1, <1>1, <1>2 DEF next
    <3>2. QED
      BY <3>1, <2>1, <1>3
  <2>2. CASE r # s
    <3>1. store'[r] = store[r]
      BY <2>2, <1>1, <1>2
    <3>2. QED
      BY <3>1, <1>2, StaysAdvances
  <2>3. QED
    BY <2>1, <2>2
<1>7. ExitIsTimed'
  BY <1>1, ExitStays
<1>8. IsQueue(queue)
  BY QueueTyped
<1>9. QED
  BY <1>1, <1>2, <1>5, <1>6, <1>7, <1>8, PageOnlyTells

\* An agent is told to exit.
LEMMA PollExitKeeps ==
    ASSUME IInv, NEW i \in DOMAIN queue, queue[i].event = Exit, queue' = RemoveAt(queue, i),
           UNCHANGED <<store, preflight, agent, source, receipt, connected, exitTimer, faults, answered>>
    PROVE  IInv'
<1>1. IsQueue(queue') /\ ToSet(queue') = ToSet(queue) \ {queue[i]}
  BY QueueTyped, RemoveSet
<1>2. ExitIsTimed'
  BY <1>1, ExitStays
<1>3. /\ store \in [Session -> Snapshot] /\ connected \in BOOLEAN /\ exitTimer \in BOOLEAN
      /\ faults \in 0..MaxFaults
      /\ \A s \in Session : Advances(store[s], store[s], Begun(s))
  BY StaysAdvances DEF IInv, TypeOK
<1>4. QED
  BY <1>1, <1>2, <1>3, PageOnlyTells

-----------------------------------------------------------------------------
(* Leases *)

\* The two kinds of event an agent is asked to work on.
LEMMA EventKinds ==
    ASSUME NEW event \in Event
    PROVE  /\ event # Nothing /\ event # Exit
           /\ event.type = "generate" => event \in {Generate(TRUE), Generate(FALSE)}
           /\ event.type \in Decision \cup {"generate"} /\ ("generate" \notin Decision)
           /\ event.type \in Decision => event = Ask(event.type)
           /\ Prepares(event) <=> event = Generate(FALSE)
<1>1. event # Nothing
  BY ServerOK
<1>2. CASE event \in [type : {"generate"}, ready : BOOLEAN]
  <2>1. event = Generate(TRUE) \/ event = Generate(FALSE)
    BY <1>2 DEF Generate
  <2>2. QED
    BY <1>1, <2>1 DEF Generate, Exit, Decision, Prepares
<1>3. CASE event \in [type : {"accept", "discard"}, ready : {FALSE}]
  <2>1. event = Ask(event.type) /\ event.type \in {"accept", "discard"}
    BY <1>3 DEF Ask
  <2>2. event # Exit
    BY <2>1 DEF Exit
  <2>3. event # Generate(FALSE) /\ ~Prepares(event)
    BY <2>1 DEF Generate, Prepares
  <2>4. QED
    BY <1>1, <2>1, <2>2, <2>3 DEF Decision
<1>4. QED
  BY <1>2, <1>3 DEF Event

LEMMA PollEntryKeeps ==
    ASSUME IInv, NEW a \in Agent, NEW i \in DOMAIN queue,
           agent[a].doing = "idle", queue[i].lease = Nothing, queue[i].event # Exit,
           queue' = [queue EXCEPT ![i].lease = a],
           agent' = [agent EXCEPT ![a] =
             [Idle EXCEPT !.doing = IF Prepares(queue[i].event) THEN "waiting" ELSE "working",
                          !.id = queue[i].id, !.event = queue[i].event]],
           preflight' = IF Prepares(queue[i].event)
                        THEN preflight \cup {[id |-> queue[i].id, by |-> a]} ELSE preflight,
           UNCHANGED <<store, source, receipt, connected, exitTimer, faults, answered>>
    PROVE  IInv'
<1> DEFINE entry == queue[i]
           s == entry.id
           event == entry.event
           leased == [id |-> s, event |-> event, lease |-> a]
<1>1. IsQueue(queue) /\ entry \in ToSet(queue) /\ entry \in Entry
  BY QueueTyped, QueueDomain DEF ToSet
<1>2. s \in Session /\ event \in Event
  BY <1>1, QueueTyped DEF IInv, QueueIsKeyed, Maybe
<1>3. /\ event # Nothing
      /\ event.type = "generate" => event \in {Generate(TRUE), Generate(FALSE)}
      /\ event.type \in Decision \cup {"generate"} /\ "generate" \notin Decision
      /\ Prepares(event) <=> event = Generate(FALSE)
  BY <1>2, EventKinds
<1>4. [queue[i] EXCEPT !.lease = a] = leased /\ leased \in Entry
  BY <1>1 DEF Entry
<1>5. /\ queue' = [j \in DOMAIN queue |-> IF j = i THEN leased ELSE queue[j]]
      /\ queue' \in [DOMAIN queue -> Entry]
  <2>1. queue = [j \in DOMAIN queue |-> queue[j]] /\ \A j \in DOMAIN queue : queue[j] \in Entry
    BY <1>1, QueueDomain DEF IsQueue
  <2>2. QED
    BY <1>4, <2>1
<1>6. leased.id = s /\ leased.event = event /\ leased.lease = a
  OBVIOUS
<1>7. agent \in [Agent -> Job] /\ \A p \in preflight : p.by \in Agent /\ p.id \in Session
  BY DEF IInv, TypeOK
<1>8. /\ agent'[a].doing = (IF Prepares(event) THEN "waiting" ELSE "working")
      /\ agent'[a].id = s /\ agent'[a].event = event
      /\ ~agent'[a].lapsed /\ agent'[a] \in Job
      /\ \A b \in Agent : b # a => agent'[b] = agent[b]
  BY <1>2, <1>7 DEF Idle, Job, Maybe
<1> HIDE DEF leased
<1>9. IsQueue(queue')
  <2>1. \A j \in DOMAIN queue : queue'[j].id = queue[j].id /\ queue'[j].event.type = queue[j].event.type
    BY <1>5, <1>6
  <2>2. QED
    BY <1>1, <1>5, <2>1, UpdateQueue
<1>10. ToSet(queue') = (ToSet(queue) \ {entry}) \cup {leased}
  <2>1. \A j \in DOMAIN queue : j # i => queue[j] # entry
    BY <1>1 DEF IsQueue, Keyed
  <2>2. DOMAIN queue' = DOMAIN queue
    BY <1>5
  <2>3. \A j \in DOMAIN queue : queue'[j] = IF j = i THEN leased ELSE queue[j]
    BY <1>5
  <2> HIDE DEF entry
  <2>4. QED
    BY <2>1, <2>2, <2>3 DEF ToSet, entry
<1>11. \A e \in ToSet(queue) : e # entry => ~(e.id = s /\ e.event.type = event.type)
  BY <1>1, OneEntry
<1>12. a # Nothing /\ \A b \in Agent : b # Nothing
  BY ServerOK
<1>13. ASSUME event.type = "generate"
       PROVE  /\ \A p \in preflight : p.id # s
              /\ \A b \in Agent : ~(Works(b) /\ agent[b].event.type = "generate" /\ agent[b].id = s)
  <2>1. SameEvent(entry, s, "generate")
    BY <1>13 DEF SameEvent
  <2>2. QED
    BY <2>1, <1>1, <1>7, <1>12 DEF IInv, PreflightHoldsLease, WorkerHoldsLease
<1>14. preflight' = IF Prepares(event) THEN preflight \cup {[id |-> s, by |-> a]} ELSE preflight
  OBVIOUS
<1>15. /\ entry.id = s /\ entry.event = event /\ entry.lease = Nothing
       /\ agent[a].doing = "idle" /\ agent' = [agent EXCEPT ![a] = agent'[a]]
  BY <1>7, <1>8
<1> HIDE DEF entry, s, event
<1>16. TypeOK'
  <2>1. agent' \in [Agent -> Job]
    BY <1>7, <1>8, <1>15
  <2>2. preflight' \subseteq [id : Session, by : Agent]
    BY <1>2, <1>14 DEF IInv, TypeOK
  <2>3. QED
    BY <1>9, <2>1, <2>2 DEF IInv, TypeOK, IsQueue
<1>17. QueueIsKeyed'
  BY <1>1, <1>6, <1>9, <1>10, <1>15 DEF IInv, QueueIsKeyed, IsQueue
<1>18. JobsAgree'
  <2> SUFFICES ASSUME NEW b \in Agent, agent'[b].doing # "idle"
               PROVE  LET job == agent'[b] IN
                      /\ job.id \in Session /\ job.event \in Event
                      /\ Prepares(job.event) <=> job.doing = "waiting"
                      /\ job.doing = "waiting" => ~job.lapsed /\ [id |-> job.id, by |-> b] \in preflight'
                      /\ job.doing \in {"applied", "cleaning"} => job.event.type \in Decision
                      /\ job.doing \in {"applied", "replying"} => job.reply \in Reply
                      /\ job.doing = "replying" /\ job.event.type = "generate"
                            => job.reply \in {"done", "error"}
    BY DEF JobsAgree
  <2>1. CASE b = a
    BY <2>1, <1>2, <1>8, <1>14
  <2>2. CASE b # a
    BY <2>2, <1>8, <1>14 DEF IInv, JobsAgree
  <2>3. QED
    BY <2>1, <2>2
<1>19. Known(store[s])
  BY <1>1, <1>2, <1>15 DEF IInv, SessionsKnown
<1>20. ASSUME NEW x \in Session, Begun(x)'
       PROVE  Begun(x) \/ (x = s /\ ~Prepares(event))
  <2>1. CASE source[x] \/ receipt[x] # Nothing \/ store[x].canceled \/ store[x].completed
    BY <2>1 DEF Begun
  <2>2. CASE \E b \in Agent : agent'[b].doing \notin {"idle", "waiting"} /\ agent'[b].id = x
    <3>1. PICK b \in Agent : agent'[b].doing \notin {"idle", "waiting"} /\ agent'[b].id = x
      BY <2>2
    <3>2. QED
      BY <3>1, <1>8 DEF Begun
  <2>3. QED
    BY <1>20, <2>1, <2>2 DEF Begun
<1>21. SessionsKnown'
  <2>1. \A e \in ToSet(queue') : e.id \in Session => Known(store[e.id])
    BY <1>6, <1>10, <1>19 DEF IInv, SessionsKnown
  <2>2. \A p \in preflight' : Known(store[p.id])
    BY <1>14, <1>19 DEF IInv, SessionsKnown
  <2>3. \A b \in Agent : agent'[b].doing # "idle" => Known(store[agent'[b].id])
    BY <1>8, <1>19 DEF IInv, SessionsKnown
  <2>4. \A x \in Session : Begun(x)' => Known(store[x])
    BY <1>19, <1>20 DEF IInv, SessionsKnown
  <2>5. IsFiniteSet({x \in Session : Known(store[x])})
    BY DEF IInv, SessionsKnown
  <2>6. QED
    BY <2>1, <2>2, <2>3, <2>4, <2>5 DEF SessionsKnown
<1>22. PreflightHoldsLease'
  <2>1. ASSUME NEW p \in preflight', NEW e \in ToSet(queue'), SameEvent(e, p.id, "generate")
        PROVE  e.lease = p.by
    <3>1. CASE e = leased
      <4>1. event.type = "generate" /\ p.id = s
        BY <2>1, <3>1, <1>6 DEF SameEvent
      <4>2. p = [id |-> s, by |-> a]
        BY <4>1, <1>13, <1>14
      <4>3. QED
        BY <4>2, <3>1, <1>6
    <3>2. CASE e \in ToSet(queue) /\ e # entry
      <4>1. CASE p \in preflight
        BY <4>1, <3>2, <2>1 DEF IInv, PreflightHoldsLease
      <4>2. CASE p = [id |-> s, by |-> a] /\ Prepares(event)
        BY <4>2, <3>2, <2>1, <1>11 DEF Prepares, SameEvent
      <4>3. QED
        BY <4>1, <4>2, <1>14
    <3>3. QED
      BY <3>1, <3>2, <1>10
  <2>2. \A p, q \in preflight' : p.id = q.id => p = q
    <3>1. \A p, q \in preflight : p.id = q.id => p = q
      BY DEF IInv, PreflightHoldsLease
    <3>2. Prepares(event) => \A p \in preflight : p.id # s
      BY <1>13 DEF Prepares
    <3>3. QED
      BY <3>1, <3>2, <1>14
  <2>3. QED
    BY <2>1, <2>2 DEF PreflightHoldsLease
<1>23. \A b \in Agent : b # a => (Works(b)' <=> Works(b))
  BY <1>8 DEF Works
<1>24. WorkerHoldsLease'
  <2> SUFFICES ASSUME NEW b \in Agent, NEW e \in ToSet(queue'), Works(b)',
                      agent'[b].event.type = "generate", SameEvent(e, agent'[b].id, "generate")
               PROVE  e.lease = b
    BY DEF WorkerHoldsLease
  <2>1. CASE b = a
    <3>1. e.id = s /\ e.event.type = event.type
      BY <2>1, <1>8 DEF SameEvent
    <3>2. e = leased
      BY <3>1, <1>10, <1>11
    <3>3. QED
      BY <3>2, <2>1, <1>6
  <2>2. CASE b # a
    <3>1. Works(b) /\ agent'[b] = agent[b]
      BY <2>2, <1>8, <1>23
    <3>2. CASE e = leased
      BY <3>1, <3>2, <1>6, <1>13 DEF SameEvent
    <3>3. CASE e \in ToSet(queue)
      BY <3>1, <3>3 DEF IInv, WorkerHoldsLease
    <3>4. QED
      BY <3>2, <3>3, <1>10
  <2>3. QED
    BY <2>1, <2>2
<1>25. WorkedOnce'
  <2> SUFFICES ASSUME NEW b \in Agent, NEW c \in Agent, Works(b)', Works(c)',
                      agent'[b].id = agent'[c].id, agent'[b].event.type = "generate",
                      agent'[c].event.type = "generate"
               PROVE  b = c
    BY DEF WorkedOnce
  <2>1. CASE b # a /\ c # a
    BY <2>1, <1>8, <1>23 DEF IInv, WorkedOnce
  <2>2. CASE b = a /\ c # a
    BY <2>2, <1>8, <1>13, <1>23
  <2>3. CASE b # a /\ c = a
    BY <2>3, <1>8, <1>13, <1>23
  <2>4. QED
    BY <2>1, <2>2, <2>3
<1>26. BegunIsPrepared'
  <2>1. ASSUME NEW x \in Session, Begun(x)
        PROVE  /\ store[x].pending # Generate(FALSE)
               /\ \A p \in preflight' : p.id # x
               /\ \A e \in ToSet(queue') : e.id = x => e.event # Generate(FALSE)
    <3>1. /\ store[x].pending # Generate(FALSE)
          /\ \A p \in preflight : p.id # x
          /\ \A e \in ToSet(queue) : e.id = x => e.event # Generate(FALSE)
      BY <2>1 DEF IInv, BegunIsPrepared
    <3>2. s = x => ~Prepares(event)
      BY <3>1, <1>1, <1>3, <1>15
    <3>3. \A p \in preflight' : p.id # x
      BY <3>1, <3>2, <1>14
    <3>4. \A e \in ToSet(queue') : e.id = x => e.event # Generate(FALSE)
      BY <3>1, <3>2, <1>3, <1>6, <1>10
    <3>5. QED
      BY <3>1, <3>3, <3>4
  <2>2. ASSUME ~Prepares(event), ~Begun(s)
        PROVE  /\ store[s].pending # Generate(FALSE)
               /\ \A p \in preflight' : p.id # s
               /\ \A e \in ToSet(queue') : e.id = s => e.event # Generate(FALSE)
    <3>1. ~store[s].canceled
      BY <2>2, <1>2 DEF Begun
    <3>2. event.type \notin Decision
      BY <3>1, <1>1, <1>15 DEF IInv, DecisionsCancel
    <3>3. event = Generate(TRUE) /\ event.type = "generate"
      BY <3>2, <2>2, <1>3
    <3>4. store[s].pending # Generate(FALSE)
      BY <3>3, <1>1, <1>15 DEF IInv, BegunIsPrepared
    <3>5. \A p \in preflight' : p.id # s
      BY <3>3, <2>2, <1>13, <1>14
    <3>6. \A e \in ToSet(queue') : e.id = s => e.event # Generate(FALSE)
      BY <3>3, <1>6, <1>10, <1>11 DEF Generate
    <3>7. QED
      BY <3>4, <3>5, <3>6
  <2>3. \A e \in ToSet(queue') : e.event = Generate(TRUE) => store[e.id].pending # Generate(FALSE)
    <3>1. \A e \in ToSet(queue) : e.event = Generate(TRUE) => store[e.id].pending # Generate(FALSE)
      BY DEF IInv, BegunIsPrepared
    <3>2. event = Generate(TRUE) => store[s].pending # Generate(FALSE)
      BY <3>1, <1>1, <1>15
    <3>3. QED
      BY <3>1, <3>2, <1>6, <1>10
  <2>4. QED
    BY <2>1, <2>2, <2>3, <1>20 DEF BegunIsPrepared
<1>27. DecisionsCancel'
  BY <1>1, <1>6, <1>10, <1>15 DEF IInv, DecisionsCancel
<1>28. CanceledStaysFenced'
  BY DEF IInv, CanceledStaysFenced
<1>29. DecisionHeld'
  <2>1. ASSUME NEW x \in Session, NEW type \in Decision, Queued(queue, x, type)
        PROVE  Queued(queue', x, type)
    <3>1. PICK e \in ToSet(queue) : e.id = x /\ e.event.type = type
      BY <2>1 DEF Queued, SameEvent
    <3>2. CASE e = entry
      BY <3>1, <3>2, <1>6, <1>10, <1>15 DEF Queued, SameEvent
    <3>3. CASE e # entry
      BY <3>1, <3>3, <1>10 DEF Queued, SameEvent
    <3>4. QED
      BY <3>2, <3>3
  <2>2. QED
    BY <2>1 DEF IInv, DecisionHeld
<1>30. ExitIsTimed'
  BY <1>1, <1>6, <1>10, <1>15 DEF IInv, ExitIsTimed
<1>31. QED
  BY <1>16, <1>17, <1>18, <1>21, <1>22, <1>24, <1>25, <1>26, <1>27, <1>28, <1>29, <1>30 DEF IInv

LEMMA PollKeeps ==
    ASSUME IInv, NEW a \in Agent, Poll(a)
    PROVE  IInv'
<1>1. /\ agent[a].doing = "idle"
      /\ UNCHANGED <<store, source, receipt, connected, exitTimer, faults, answered>>
  BY DEF Poll
<1>2. PICK i \in DOMAIN queue :
         LET entry == queue[i] IN
         /\ Selected(i)
         /\ queue' = IF entry.event = Exit THEN RemoveAt(queue, i)
                     ELSE [queue EXCEPT ![i].lease = LeaseNow(a, entry.event)]
         /\ IF entry.event = Exit THEN UNCHANGED <<agent, preflight>>
            ELSE /\ agent' = [agent EXCEPT ![a] =
                      [Idle EXCEPT !.doing = IF Prepares(entry.event) THEN "waiting" ELSE "working",
                                   !.id = entry.id, !.event = entry.event]]
                 /\ preflight' = IF Prepares(entry.event)
                                 THEN preflight \cup {[id |-> entry.id, by |-> a]}
                                 ELSE preflight
  BY DEF Poll
<1>3. CASE queue[i].event = Exit
  BY <1>1, <1>2, <1>3, PollExitKeeps
<1>4. CASE queue[i].event # Exit
  <2>1. queue[i].lease = Nothing
    BY <1>2 DEF Selected
  <2>2. QED
    BY <1>1, <1>2, <1>4, <2>1, PollEntryKeeps DEF LeaseNow
<1>5. QED
  BY <1>3, <1>4

LEMMA GenerateFacts ==
    ASSUME NEW snap \in Snapshot, NEW event \in Event
    PROVE  LET next == AfterGenerate(snap, event) IN
           /\ next \in Snapshot /\ next.phase = "open" /\ next.pending = event
           /\ next.canceled = snap.canceled /\ next.completed = snap.completed
BY DEF AfterGenerate, Snapshot, Phase

LEMMA StartsWork ==
    ASSUME NEW w \in Agent, NEW event \in Event, agent \in [Agent -> Job],
           agent' = [agent EXCEPT ![w].doing = "working", ![w].event = event]
    PROVE  /\ agent' \in [Agent -> Job] /\ \A b \in Agent : b # w => agent'[b] = agent[b]
           /\ agent'[w].doing = "working" /\ agent'[w].event = event
           /\ agent'[w].id = agent[w].id /\ agent'[w].lapsed = agent[w].lapsed
BY DEF Job

LEMMA PreflightDoneKeeps ==
    ASSUME IInv, NEW p \in preflight, PreflightDone(p)
    PROVE  IInv'
<1> DEFINE s == p.id
           w == p.by
           ready == Generate(TRUE)
           leased == [id |-> s, event |-> ready, lease |-> w]
           lives == agent[w].doing = "waiting" /\ agent[w].id = s
<1>1. /\ s \in Session /\ w \in Agent /\ p = [id |-> s, by |-> w]
      /\ store \in [Session -> Snapshot] /\ agent \in [Agent -> Job]
      /\ preflight \subseteq [id : Session, by : Agent]
  BY DEF IInv, TypeOK
<1>2. /\ preflight' = preflight \ {p}
      /\ store' = [store EXCEPT ![s] = AfterGenerate(store[s], ready)]
      /\ queue' = [i \in DOMAIN queue |->
           IF SameEvent(queue[i], s, "generate")
           THEN leased ELSE queue[i]]
      /\ agent' = IF lives THEN [agent EXCEPT ![w].doing = "working", ![w].event = ready] ELSE agent
      /\ UNCHANGED <<source, receipt, connected, exitTimer, faults, answered>>
  BY DEF PreflightDone
<1>3. /\ ready \in Event /\ ready.type = "generate" /\ ready # Exit /\ ready # Generate(FALSE)
      /\ Generate(FALSE) \in Event /\ ~Prepares(ready)
  BY DEF Generate, Event, Exit, Prepares
<1>4. IsQueue(queue) /\ \A e \in ToSet(queue) : e \in Entry
  BY QueueTyped
<1>5. /\ leased.id = s /\ leased.event = ready /\ leased.lease = w
      /\ leased \in Entry
  BY <1>1, <1>3 DEF Entry, Maybe
<1>6. /\ Known(store[s]) /\ ~Begun(s)
      /\ \A q \in preflight : q.id = s => q = p
      /\ \A e \in ToSet(queue) : SameEvent(e, s, "generate") => e.lease = w
  BY <1>1 DEF IInv, SessionsKnown, BegunIsPrepared, PreflightHoldsLease
<1>7. ~store[s].canceled /\ ~store[s].completed /\ ~source[s] /\ receipt[s] = Nothing
  BY <1>6 DEF Begun
<1>8. /\ store' \in [Session -> Snapshot]
      /\ \A x \in Session : x # s => store'[x] = store[x]
      /\ store'[s].phase = "open" /\ store'[s].pending = ready
      /\ ~store'[s].canceled /\ ~store'[s].completed
  <2> DEFINE next == AfterGenerate(store[s], ready)
  <2> HIDE DEF ready
  <2>1. store[s] \in Snapshot
    BY <1>1
  <2>2. /\ next \in Snapshot /\ next.phase = "open" /\ next.pending = ready
        /\ next.canceled = store[s].canceled /\ next.completed = store[s].completed
    BY <2>1, <1>3, GenerateFacts
  <2> HIDE DEF next
  <2>3. store' = [store EXCEPT ![s] = next]
    BY <1>2 DEF next
  <2>4. QED
    BY <2>2, <2>3, <1>1, <1>7
<1>9. \A i \in DOMAIN queue : queue[i] \in Entry
  BY <1>4 DEF ToSet
<1> HIDE DEF leased
<1>10. /\ queue' = [i \in DOMAIN queue |-> IF SameEvent(queue[i], s, "generate") THEN leased ELSE queue[i]]
       /\ queue' \in [DOMAIN queue -> Entry]
  BY <1>2, <1>5, <1>9
<1>11. IsQueue(queue')
  <2>1. \A i \in DOMAIN queue : queue'[i].id = queue[i].id /\ queue'[i].event.type = queue[i].event.type
    BY <1>3, <1>5, <1>10 DEF SameEvent
  <2>2. QED
    BY <1>4, <1>10, <2>1, UpdateQueue
<1>12. \A e \in ToSet(queue') :
         \/ e = leased
         \/ e \in ToSet(queue) /\ ~SameEvent(e, s, "generate")
  BY <1>10 DEF ToSet
<1>13. \A e \in ToSet(queue) : ~SameEvent(e, s, "generate") => e \in ToSet(queue')
  BY <1>10 DEF ToSet
<1>14. leased \in ToSet(queue') => \E e \in ToSet(queue) : SameEvent(e, s, "generate")
  <2>1. ASSUME leased \in ToSet(queue'), leased \notin ToSet(queue)
        PROVE  \E e \in ToSet(queue) : SameEvent(e, s, "generate")
    BY <2>1, <1>10 DEF ToSet
  <2>2. SameEvent(leased, s, "generate")
    BY <1>3, <1>5 DEF SameEvent
  <2>3. QED
    BY <2>1, <2>2
<1> HIDE DEF ready
<1>15. /\ agent' \in [Agent -> Job]
       /\ \A b \in Agent : (b = w /\ lives) \/ agent'[b] = agent[b]
       /\ lives => /\ agent'[w].doing = "working" /\ agent'[w].event = ready
                   /\ agent'[w].id = s /\ agent'[w].lapsed = agent[w].lapsed
                   /\ agent[w].event.type = "generate" /\ agent[w].doing = "waiting" /\ agent[w].id = s
  <2>1. CASE lives
    <3>1. agent[w].event.type = "generate"
      BY <2>1, <1>1 DEF IInv, JobsAgree, Prepares
    <3>2. agent' = [agent EXCEPT ![w].doing = "working", ![w].event = ready]
      BY <2>1, <1>2
    <3>3. /\ agent' \in [Agent -> Job] /\ \A b \in Agent : b # w => agent'[b] = agent[b]
          /\ agent'[w].doing = "working" /\ agent'[w].event = ready
          /\ agent'[w].id = agent[w].id /\ agent'[w].lapsed = agent[w].lapsed
      BY <3>2, <1>1, <1>3, StartsWork
    <3>4. QED
      BY <2>1, <3>1, <3>3
  <2>2. CASE ~lives
    BY <2>2, <1>1, <1>2
  <2>3. QED
    BY <2>1, <2>2
<1>16. \A b \in Agent : /\ Works(b)' <=> Works(b)
                        /\ agent'[b].id = agent[b].id /\ agent'[b].event.type = agent[b].event.type
  BY <1>3, <1>15 DEF Works
<1>17. TypeOK'
  BY <1>2, <1>8, <1>11, <1>15 DEF IInv, TypeOK, IsQueue
<1>18. QueueIsKeyed'
  <2>1. \A e \in ToSet(queue') : e.id = Nothing <=> e.event = Exit
    <3>1. s # Nothing
      BY <1>1, ServerOK
    <3>2. QED
      BY <3>1, <1>3, <1>5, <1>12 DEF IInv, QueueIsKeyed
  <2>2. QED
    BY <2>1, <1>11 DEF QueueIsKeyed, IsQueue
<1>19. JobsAgree'
  <2> SUFFICES ASSUME NEW b \in Agent, agent'[b].doing # "idle"
               PROVE  LET job == agent'[b] IN
                      /\ job.id \in Session /\ job.event \in Event
                      /\ Prepares(job.event) <=> job.doing = "waiting"
                      /\ job.doing = "waiting" => ~job.lapsed /\ [id |-> job.id, by |-> b] \in preflight'
                      /\ job.doing \in {"applied", "cleaning"} => job.event.type \in Decision
                      /\ job.doing \in {"applied", "replying"} => job.reply \in Reply
                      /\ job.doing = "replying" /\ job.event.type = "generate"
                            => job.reply \in {"done", "error"}
    BY DEF JobsAgree
  <2>1. CASE b = w /\ lives
    BY <2>1, <1>1, <1>3, <1>15
  <2>2. CASE ~(b = w /\ lives)
    <3>1. agent'[b] = agent[b]
      BY <2>2, <1>15
    <3>2. agent[b].doing = "waiting" => [id |-> agent[b].id, by |-> b] # p
      BY <2>2, <1>1
    <3>3. agent[b].doing = "waiting" => [id |-> agent[b].id, by |-> b] \in preflight'
      BY <3>1, <3>2, <1>2 DEF IInv, JobsAgree
    <3>4. QED
      BY <3>1, <3>3 DEF IInv, JobsAgree
  <2>3. QED
    BY <2>1, <2>2
<1>20. \A x \in Session : x # s /\ Begun(x)' => Begun(x)
  <2> SUFFICES ASSUME NEW x \in Session, x # s, Begun(x)' PROVE Begun(x)
    OBVIOUS
  <2>1. CASE source[x] \/ receipt[x] # Nothing \/ store'[x].canceled \/ store'[x].completed
    BY <2>1, <1>8 DEF Begun
  <2>2. CASE \E b \in Agent : agent'[b].doing \notin {"idle", "waiting"} /\ agent'[b].id = x
    BY <2>2, <1>15 DEF Begun
  <2>3. QED
    BY <2>1, <2>2, <1>2 DEF Begun
<1>21. \A x \in Session : Known(store'[x]) <=> Known(store[x])
  BY <1>6, <1>8 DEF Known
<1>22. SessionsKnown'
  <2>1. IsFiniteSet({x \in Session : Known(store'[x])})
    <3>1. {x \in Session : Known(store'[x])} = {x \in Session : Known(store[x])}
      BY <1>21
    <3>2. QED
      BY <3>1 DEF IInv, SessionsKnown
  <2>2. \A e \in ToSet(queue') : e.id \in Session => Known(store'[e.id])
    BY <1>5, <1>6, <1>12, <1>21 DEF IInv, SessionsKnown
  <2>3. \A q \in preflight' : Known(store'[q.id])
    BY <1>1, <1>2, <1>21 DEF IInv, SessionsKnown
  <2>4. \A b \in Agent : agent'[b].doing # "idle" => Known(store'[agent'[b].id])
    <3> SUFFICES ASSUME NEW b \in Agent, agent'[b].doing # "idle" PROVE Known(store'[agent'[b].id])
      OBVIOUS
    <3>1. agent[b].doing # "idle" /\ agent'[b].id = agent[b].id
      BY <1>15
    <3>2. QED
      BY <3>1, <1>21 DEF IInv, SessionsKnown, JobsAgree
  <2>5. \A x \in Session : Begun(x)' => Known(store'[x])
    BY <1>6, <1>20, <1>21 DEF IInv, SessionsKnown
  <2>6. QED
    BY <2>1, <2>2, <2>3, <2>4, <2>5 DEF SessionsKnown
<1>23. PreflightHoldsLease'
  <2>1. \A q \in preflight', e \in ToSet(queue') : SameEvent(e, q.id, "generate") => e.lease = q.by
    <3>1. \A q \in preflight' : q \in preflight /\ q.id # s
      BY <1>2, <1>6
    <3>2. QED
      BY <3>1, <1>5, <1>12 DEF SameEvent, IInv, PreflightHoldsLease
  <2>2. QED
    BY <2>1, <1>2 DEF IInv, PreflightHoldsLease
<1>24. WorkerHoldsLease'
  <2> SUFFICES ASSUME NEW b \in Agent, NEW e \in ToSet(queue'), Works(b)',
                      agent'[b].event.type = "generate", SameEvent(e, agent'[b].id, "generate")
               PROVE  e.lease = b
    BY DEF WorkerHoldsLease
  <2>1. Works(b) /\ agent[b].event.type = "generate" /\ SameEvent(e, agent[b].id, "generate")
    BY <1>16
  <2>2. CASE e = leased
    <3>1. PICK d \in ToSet(queue) : SameEvent(d, s, "generate")
      BY <2>2, <1>14
    <3>2. agent[b].id = s
      BY <2>1, <2>2, <1>5 DEF SameEvent
    <3>3. d.lease = b /\ d.lease = w
      BY <2>1, <3>1, <3>2, <1>6 DEF IInv, WorkerHoldsLease
    <3>4. QED
      BY <2>2, <3>3, <1>5
  <2>3. CASE e \in ToSet(queue)
    BY <2>1, <2>3 DEF IInv, WorkerHoldsLease
  <2>4. QED
    BY <2>2, <2>3, <1>12
<1>25. WorkedOnce'
  BY <1>16 DEF IInv, WorkedOnce
<1>26. BegunIsPrepared'
  <2>1. /\ store'[s].pending # Generate(FALSE)
        /\ \A q \in preflight' : q.id # s
        /\ \A e \in ToSet(queue') : e.id = s => e.event # Generate(FALSE)
    <3>1. store'[s].pending # Generate(FALSE)
      BY <1>3, <1>8
    <3>2. \A q \in preflight' : q.id # s
      BY <1>2, <1>6
    <3>3. Generate(FALSE).type = "generate"
      BY DEF Generate
    <3>4. \A e \in ToSet(queue') : e.id = s => e.event # Generate(FALSE)
      BY <3>3, <1>3, <1>5, <1>12 DEF SameEvent
    <3>5. QED
      BY <3>1, <3>2, <3>4
  <2>2. ASSUME NEW x \in Session, x # s, Begun(x)
        PROVE  /\ store'[x].pending # Generate(FALSE)
               /\ \A q \in preflight' : q.id # x
               /\ \A e \in ToSet(queue') : e.id = x => e.event # Generate(FALSE)
    <3>1. /\ store[x].pending # Generate(FALSE)
          /\ \A q \in preflight : q.id # x
          /\ \A e \in ToSet(queue) : e.id = x => e.event # Generate(FALSE)
      BY <2>2 DEF IInv, BegunIsPrepared
    <3>2. QED
      BY <3>1, <2>2, <1>2, <1>5, <1>8, <1>12
  <2>3. ASSUME NEW e \in ToSet(queue'), e.event = Generate(TRUE)
        PROVE  store'[e.id].pending # Generate(FALSE)
    <3>1. CASE e.id = s
      BY <3>1, <2>1
    <3>2. CASE e.id # s
      <4>1. e \in ToSet(queue)
        BY <3>2, <1>5, <1>12
      <4>2. e.id \in Session /\ store[e.id].pending # Generate(FALSE)
        BY <4>1, <2>3, QueueTyped DEF IInv, BegunIsPrepared, Generate
      <4>3. QED
        BY <4>2, <3>2, <1>8
    <3>3. QED
      BY <3>1, <3>2
  <2>4. QED
    BY <2>1, <2>2, <2>3, <1>20 DEF BegunIsPrepared
<1>27. "generate" \notin Decision
  BY DEF Decision
<1>28. DecisionsCancel'
  <2>1. \A x \in Session : store'[x].pending \in Event /\ store'[x].pending.type \in Decision
                            => store'[x].canceled
    BY <1>3, <1>8, <1>27 DEF IInv, DecisionsCancel
  <2>2. ASSUME NEW e \in ToSet(queue'), e.event.type \in Decision
        PROVE  store'[e.id].canceled
    <3>1. e \in ToSet(queue) /\ e.id \in Session /\ store[e.id].canceled
      <4>1. e \in ToSet(queue)
        BY <2>2, <1>3, <1>5, <1>12, <1>27
      <4>2. QED
        BY <4>1, <2>2, QueueTyped DEF IInv, DecisionsCancel
    <3>2. e.id # s
      BY <3>1, <1>7
    <3>3. QED
      BY <3>1, <3>2, <1>8
  <2>3. QED
    BY <2>1, <2>2 DEF DecisionsCancel
<1>29. CanceledStaysFenced'
  BY <1>8 DEF IInv, CanceledStaysFenced
<1>30. DecisionHeld'
  <2>1. \A x \in Session, type \in Decision : Queued(queue, x, type) => Queued(queue', x, type)
    BY <1>13, <1>27 DEF Queued, SameEvent
  <2>2. QED
    BY <2>1, <1>2, <1>8 DEF IInv, DecisionHeld
<1>31. ExitIsTimed'
  BY <1>2, <1>3, <1>5, <1>12 DEF IInv, ExitIsTimed
<1>32. QED
  BY <1>17, <1>18, <1>19, <1>22, <1>23, <1>24, <1>25, <1>26, <1>28, <1>29, <1>30, <1>31 DEF IInv

\* The lease of an agent that awaits its scaffolding does not run out.
LEMMA LeaseExpiresKeeps ==
    ASSUME IInv, NEW i \in DOMAIN queue, LeaseExpires(i)
    PROVE  IInv'
<1> DEFINE entry == queue[i]
           s == entry.id
           event == entry.event
           free == [id |-> s, event |-> event, lease |-> Nothing]
           slow == {a \in Agent : Holds(a, entry)}
<1>1. IsQueue(queue) /\ entry \in ToSet(queue) /\ entry \in Entry
  BY QueueTyped, QueueDomain DEF ToSet
<1>2. /\ entry.lease # Nothing
      /\ [id |-> s, by |-> entry.lease] \notin preflight
      /\ faults' = IF slow = {} THEN faults ELSE faults + 1
      /\ slow = {} \/ faults < MaxFaults
      /\ queue' = [queue EXCEPT ![i].lease = Nothing]
      /\ agent' = [a \in Agent |-> IF a \in slow THEN [agent[a] EXCEPT !.lapsed = TRUE] ELSE agent[a]]
      /\ UNCHANGED <<store, preflight, source, receipt, connected, exitTimer, answered>>
  BY DEF LeaseExpires
<1>3. /\ store \in [Session -> Snapshot] /\ agent \in [Agent -> Job]
      /\ preflight \subseteq [id : Session, by : Agent]
  BY DEF IInv, TypeOK
<1>4. free \in Entry /\ [queue[i] EXCEPT !.lease = Nothing] = free
  BY <1>1 DEF Entry
<1>5. free.id = s /\ free.event = event
  OBVIOUS
<1>6. /\ queue' = [j \in DOMAIN queue |-> IF j = i THEN free ELSE queue[j]]
      /\ queue' \in [DOMAIN queue -> Entry]
  <2>1. queue = [j \in DOMAIN queue |-> queue[j]] /\ \A j \in DOMAIN queue : queue[j] \in Entry
    BY <1>1, QueueDomain DEF IsQueue
  <2>2. QED
    BY <1>2, <1>4, <2>1
<1>7. \A a \in Agent : a \in slow <=> Holds(a, entry)
  OBVIOUS
<1>8. entry.id = s /\ entry.event = event
  OBVIOUS
<1>9. faults' \in 0..MaxFaults
  BY <1>2, ServerOK DEF IInv, TypeOK
<1> HIDE DEF free, slow
<1>10. IsQueue(queue')
  <2>1. \A j \in DOMAIN queue : queue'[j].id = queue[j].id /\ queue'[j].event.type = queue[j].event.type
    BY <1>5, <1>6
  <2>2. QED
    BY <1>1, <1>6, <2>1, UpdateQueue
<1>11. ToSet(queue') = (ToSet(queue) \ {entry}) \cup {free}
  <2>1. \A j \in DOMAIN queue : j # i => queue[j] # entry
    BY <1>1 DEF IsQueue, Keyed
  <2>2. DOMAIN queue' = DOMAIN queue
    BY <1>6
  <2>3. \A j \in DOMAIN queue : queue'[j] = IF j = i THEN free ELSE queue[j]
    BY <1>6
  <2> HIDE DEF entry
  <2>4. QED
    BY <2>1, <2>2, <2>3 DEF ToSet, entry
<1> HIDE DEF entry, s, event
<1>12. /\ agent' \in [Agent -> Job]
       /\ \A a \in Agent :
            /\ agent'[a].doing = agent[a].doing /\ agent'[a].id = agent[a].id
            /\ agent'[a].event = agent[a].event /\ agent'[a].reply = agent[a].reply
            /\ agent'[a].lapsed = IF a \in slow THEN TRUE ELSE agent[a].lapsed
  <2>1. \A a \in Agent : agent[a] \in Job
    BY <1>3
  <2>2. \A job \in Job : LET late == [job EXCEPT !.lapsed = TRUE] IN
          /\ late \in Job /\ late.doing = job.doing /\ late.id = job.id
          /\ late.event = job.event /\ late.reply = job.reply /\ late.lapsed
    BY DEF Job
  <2>3. QED
    BY <2>1, <2>2, <1>2
<1>13. \A e \in ToSet(queue') : \E d \in ToSet(queue) :
         d.id = e.id /\ d.event = e.event /\ (e = d \/ (e = free /\ d = entry))
  <2> SUFFICES ASSUME NEW e \in ToSet(queue')
               PROVE  \E d \in ToSet(queue) :
                        d.id = e.id /\ d.event = e.event /\ (e = d \/ (e = free /\ d = entry))
    OBVIOUS
  <2>1. CASE e = free
    BY <2>1, <1>1, <1>5, <1>8
  <2>2. CASE e \in ToSet(queue)
    BY <2>2
  <2>3. QED
    BY <2>1, <2>2, <1>11
<1>14. \A p \in preflight : ~SameEvent(entry, p.id, "generate")
  <2> SUFFICES ASSUME NEW p \in preflight, SameEvent(entry, p.id, "generate") PROVE FALSE
    OBVIOUS
  <2>1. entry.lease = p.by /\ p.id = s
    BY <1>1, <1>8 DEF IInv, PreflightHoldsLease, SameEvent
  <2>2. p = [id |-> p.id, by |-> p.by]
    BY <1>3
  <2>3. QED
    BY <2>1, <2>2, <1>2
<1>15. \A a \in Agent : agent[a].doing = "waiting" => a \notin slow
  <2> SUFFICES ASSUME NEW a \in Agent, agent[a].doing = "waiting", a \in slow PROVE FALSE
    OBVIOUS
  <2>1. [id |-> agent[a].id, by |-> a] \in preflight /\ agent[a].event.type = "generate"
    BY DEF IInv, JobsAgree, Prepares
  <2>2. SameEvent(entry, agent[a].id, "generate")
    BY <2>1, <1>7 DEF Holds
  <2>3. QED
    BY <2>1, <2>2, <1>14
<1>16. \A a \in Agent : Works(a)' => Works(a) /\ a \notin slow
  BY <1>12 DEF Works
<1>17. TypeOK'
  BY <1>2, <1>9, <1>10, <1>12 DEF IInv, TypeOK, IsQueue
<1>18. QueueIsKeyed'
  BY <1>10, <1>13 DEF IInv, QueueIsKeyed, IsQueue
<1>19. JobsAgree'
  BY <1>2, <1>12, <1>15 DEF IInv, JobsAgree
<1>20. \A x \in Session : Begun(x)' <=> Begun(x)
  BY <1>2, <1>12 DEF Begun
<1>21. SessionsKnown'
  <2>1. \A e \in ToSet(queue') : e.id \in Session => Known(store[e.id])
    BY <1>13 DEF IInv, SessionsKnown
  <2>2. QED
    BY <2>1, <1>2, <1>12, <1>20 DEF IInv, SessionsKnown
<1>22. PreflightHoldsLease'
  <2>1. \A p \in preflight, e \in ToSet(queue') : SameEvent(e, p.id, "generate") => e.lease = p.by
    BY <1>5, <1>8, <1>11, <1>14 DEF SameEvent, IInv, PreflightHoldsLease
  <2>2. QED
    BY <2>1, <1>2 DEF IInv, PreflightHoldsLease
<1>23. WorkerHoldsLease'
  <2> SUFFICES ASSUME NEW b \in Agent, NEW e \in ToSet(queue'), Works(b)',
                      agent'[b].event.type = "generate", SameEvent(e, agent'[b].id, "generate")
               PROVE  e.lease = b
    BY DEF WorkerHoldsLease
  <2>1. /\ Works(b) /\ ~Holds(b, entry) /\ agent[b].event.type = "generate"
        /\ SameEvent(e, agent[b].id, "generate")
    BY <1>7, <1>12, <1>16
  <2>2. e # free
    BY <2>1, <1>5, <1>8 DEF SameEvent, Holds, Works
  <2>3. QED
    BY <2>1, <2>2, <1>11 DEF IInv, WorkerHoldsLease
<1>24. WorkedOnce'
  BY <1>12, <1>16 DEF IInv, WorkedOnce
<1>25. BegunIsPrepared'
  <2>1. \A x \in Session : Begun(x) =>
         /\ store[x].pending # Generate(FALSE)
         /\ \A p \in preflight : p.id # x
         /\ \A e \in ToSet(queue') : e.id = x => e.event # Generate(FALSE)
    BY <1>13 DEF IInv, BegunIsPrepared
  <2>2. \A e \in ToSet(queue') : e.event = Generate(TRUE) => store[e.id].pending # Generate(FALSE)
    <3>1. \A e \in ToSet(queue) : e.event = Generate(TRUE) => store[e.id].pending # Generate(FALSE)
      BY DEF IInv, BegunIsPrepared
    <3> SUFFICES ASSUME NEW e \in ToSet(queue'), e.event = Generate(TRUE)
                 PROVE  store[e.id].pending # Generate(FALSE)
      OBVIOUS
    <3>2. PICK d \in ToSet(queue) : d.id = e.id /\ d.event = e.event
      BY <1>13
    <3>3. d.event = Generate(TRUE)
      BY <3>2
    <3>4. store[d.id].pending # Generate(FALSE)
      BY <3>1, <3>3
    <3>5. QED
      BY <3>2, <3>4
  <2>3. QED
    BY <2>1, <2>2, <1>2, <1>20 DEF BegunIsPrepared
<1>26. DecisionsCancel'
  <2>1. \A e \in ToSet(queue') : e.event.type \in Decision => store[e.id].canceled
    BY <1>13 DEF IInv, DecisionsCancel
  <2>2. QED
    BY <2>1, <1>2 DEF IInv, DecisionsCancel
<1>27. CanceledStaysFenced'
  BY <1>2 DEF IInv, CanceledStaysFenced
<1>28. DecisionHeld'
  <2>1. \A x \in Session, type \in Decision : Queued(queue, x, type) => Queued(queue', x, type)
    BY <1>5, <1>8, <1>11 DEF Queued, SameEvent
  <2>2. QED
    BY <2>1, <1>2 DEF IInv, DecisionHeld
<1>29. ExitIsTimed'
  BY <1>2, <1>13 DEF IInv, ExitIsTimed
<1>30. QED
  BY <1>17, <1>18, <1>19, <1>21, <1>22, <1>23, <1>24, <1>25, <1>26, <1>27, <1>28, <1>29 DEF IInv

-----------------------------------------------------------------------------
(* The server's life *)

LEMMA RestartServerKeeps ==
    ASSUME IInv, RestartServer
    PROVE  IInv'
<1> DEFINE S == {s \in Session : Restored(s)}
           event == [s \in Session |-> store[s].pending]
<1>1. /\ store \in [Session -> Snapshot] /\ agent \in [Agent -> Job]
  BY DEF IInv, TypeOK
<1>2. /\ faults < MaxFaults /\ faults' = faults + 1
      /\ preflight' = {} /\ connected' = FALSE /\ exitTimer' = FALSE
      /\ agent' = [a \in Agent |-> IF agent[a].doing = "waiting" THEN Idle
                                   ELSE IF agent[a].doing = "idle" THEN agent[a]
                                   ELSE [agent[a] EXCEPT !.lapsed = TRUE, !.old = TRUE]]
      /\ UNCHANGED <<store, source, receipt, answered>>
  BY DEF RestartServer
<1>3. PICK order \in SetToSeqs(S) :
         queue' = [i \in DOMAIN order |->
                     [id |-> order[i], event |-> store[order[i]].pending, lease |-> Nothing]]
  BY DEF RestartServer
<1>4. \A s \in S : /\ s \in Session /\ store[s].pending \in Event /\ Known(store[s])
                   /\ event[s] = store[s].pending
  BY <1>1 DEF Snapshot, Restored, Active
<1>5. IsFiniteSet(S)
  <2>1. S \subseteq {s \in Session : Known(store[s])}
    BY <1>4
  <2>2. QED
    BY <2>1, FS_Subset DEF IInv, SessionsKnown
<1>6. \A i \in DOMAIN order : order[i] \in S
  BY DEF SetToSeqs
<1>7. queue' = [i \in DOMAIN order |-> Fresh(order[i], event[order[i]])]
  BY <1>3, <1>4, <1>6 DEF Fresh
<1>8. IsQueue(queue') /\ ToSet(queue') = {Fresh(s, event[s]) : s \in S}
  <2>1. S \in SUBSET Session
    OBVIOUS
  <2>2. \A s \in S : event[s] \in Event
    BY <1>4
  <2> HIDE DEF S, event
  <2>3. QED
    BY <2>1, <2>2, <1>5, <1>7, RestoredQueue
<1> HIDE DEF event
<1>9. \A e \in ToSet(queue') :
        /\ e.id \in Session /\ e.event = store[e.id].pending /\ e.lease = Nothing
        /\ e.event \in Event /\ Known(store[e.id])
  BY <1>4, <1>8 DEF Fresh
<1>10. \A s \in Session : Restored(s) => \E e \in ToSet(queue') : e.id = s /\ e.event = store[s].pending
  <2> SUFFICES ASSUME NEW s \in Session, Restored(s)
               PROVE  \E e \in ToSet(queue') : e.id = s /\ e.event = store[s].pending
    OBVIOUS
  <2>1. s \in S
    OBVIOUS
  <2> HIDE DEF S
  <2>2. Fresh(s, event[s]) \in ToSet(queue')
    BY <2>1, <1>8
  <2>3. Fresh(s, event[s]).id = s /\ Fresh(s, event[s]).event = store[s].pending
    BY <2>1, <1>4 DEF Fresh
  <2>4. QED
    BY <2>2, <2>3
<1> HIDE DEF S
<1>11. /\ agent' \in [Agent -> Job]
       /\ \A a \in Agent : \/ agent'[a].doing = "idle"
                           \/ /\ agent'[a].doing = agent[a].doing /\ agent'[a].id = agent[a].id
                              /\ agent'[a].event = agent[a].event /\ agent'[a].reply = agent[a].reply
                              /\ agent'[a].lapsed /\ agent[a].doing \notin {"waiting", "idle"}
  <2>1. \A a \in Agent : agent[a] \in Job
    BY <1>1
  <2>2. Idle \in Job /\ Idle.doing = "idle"
    BY DEF Idle, Job, Maybe
  <2>3. \A job \in Job : LET late == [job EXCEPT !.lapsed = TRUE, !.old = TRUE] IN
          /\ late \in Job /\ late.doing = job.doing /\ late.id = job.id
          /\ late.event = job.event /\ late.reply = job.reply /\ late.lapsed
    BY DEF Job
  <2>4. QED
    BY <2>1, <2>2, <2>3, <1>2
<1>12. \A a \in Agent : ~Works(a)'
  BY <1>11 DEF Works
<1>13. TypeOK'
  <2>1. faults < MaxFaults /\ faults' = faults + 1 /\ faults \in 0..MaxFaults
    BY <1>2 DEF IInv, TypeOK
  <2>2. faults' \in 0..MaxFaults
    BY <2>1, ServerOK
  <2>3. QED
    BY <2>2, <1>2, <1>8, <1>11 DEF IInv, TypeOK, IsQueue
<1>14. Exit \notin Event /\ Nothing \notin Session /\ Nothing \notin Event
  BY ServerOK, EventKinds
<1>15. QueueIsKeyed'
  BY <1>8, <1>9, <1>14 DEF QueueIsKeyed, IsQueue
<1>16. JobsAgree'
  BY <1>11 DEF IInv, JobsAgree
<1>17. \A s \in Session : Begun(s)' => Begun(s)
  BY <1>2, <1>11 DEF Begun
<1>18. SessionsKnown'
  BY <1>2, <1>9, <1>11, <1>17 DEF IInv, SessionsKnown
<1>19. PreflightHoldsLease' /\ WorkerHoldsLease' /\ WorkedOnce'
  BY <1>2, <1>12 DEF PreflightHoldsLease, WorkerHoldsLease, WorkedOnce
<1>20. BegunIsPrepared'
  <2>1. \A s \in Session : Begun(s)' => store[s].pending # Generate(FALSE)
    BY <1>17 DEF IInv, BegunIsPrepared
  <2>2. Generate(TRUE) # Generate(FALSE)
    BY DEF Generate
  <2>3. QED
    BY <2>1, <2>2, <1>2, <1>9 DEF BegunIsPrepared
<1>21. DecisionsCancel'
  BY <1>2, <1>9 DEF IInv, DecisionsCancel
<1>22. CanceledStaysFenced'
  BY <1>2 DEF IInv, CanceledStaysFenced
<1>23. DecisionHeld'
  <2> SUFFICES ASSUME NEW s \in Session, NEW type \in Decision,
                      store[s].phase = (IF type = "accept" THEN "accept_requested" ELSE "discard_requested")
               PROVE  store[s].pending = Ask(type) /\ Queued(queue', s, type)
    BY <1>2 DEF DecisionHeld
  <2>1. store[s].pending = Ask(type) /\ Ask(type) \in Event /\ Ask(type).type = type
    BY DEF IInv, DecisionHeld, Ask, Event, Decision
  <2>2. Restored(s)
    BY <2>1, <1>14 DEF Restored, Active, Known, Closed
  <2>3. QED
    BY <2>1, <2>2, <1>10 DEF Queued, SameEvent
<1>24. ExitIsTimed'
  BY <1>2 DEF ExitIsTimed
<1>25. QED
  BY <1>13, <1>15, <1>16, <1>18, <1>19, <1>20, <1>21, <1>22, <1>23, <1>24 DEF IInv

-----------------------------------------------------------------------------
(* What the user asks for *)

LEMMA PageGoesKeeps ==
    ASSUME IInv, NEW s \in Session, PageGoes(s)
    PROVE  IInv'
<1> DEFINE event == Generate(FALSE)
           fresh == Fresh(s, event)
           next == AfterGenerate(store[s], event)
<1>1. /\ ~Known(store[s]) /\ store' = [store EXCEPT ![s] = next]
      /\ queue' = Enqueue(queue, s, event)
      /\ UNCHANGED <<preflight, agent, source, receipt, connected, exitTimer, faults, answered>>
  BY DEF PageGoes
<1>2. store \in [Session -> Snapshot]
  BY DEF IInv, TypeOK
<1>3. event \in Event /\ event.type = "generate" /\ event # Exit /\ event # Generate(TRUE)
  BY DEF Event, Generate, Exit
<1>4. /\ next \in Snapshot /\ next.phase = "open" /\ next.pending = event
      /\ next.canceled = store[s].canceled /\ next.completed = store[s].completed
  <2>1. store[s] \in Snapshot
    BY <1>2
  <2> HIDE DEF event
  <2>2. QED
    BY <2>1, <1>3, GenerateFacts
<1> HIDE DEF next
<1>5. /\ store' \in [Session -> Snapshot] /\ store'[s] = next
      /\ \A x \in Session : x # s => store'[x] = store[x]
  BY <1>1, <1>2, <1>4
<1>6. /\ \A e \in ToSet(queue) : e.id # s
      /\ \A p \in preflight : p.id # s
      /\ \A a \in Agent : agent[a].doing # "idle" => agent[a].id # s
      /\ ~Begun(s)
  BY <1>1 DEF IInv, SessionsKnown
<1>7. IsQueue(queue') /\ ToSet(queue') = ToSet(queue) \cup {fresh}
  <2>1. s # Nothing /\ s \in Maybe
    BY ServerOK DEF Maybe
  <2>2. ~Queued(queue, s, event.type)
    BY <1>6 DEF Queued, SameEvent
  <2> HIDE DEF event
  <2>3. QED
    BY <2>1, <2>2, <1>1, <1>3, QueueTyped, EnqueueSet
<1>8. fresh.id = s /\ fresh.event = event /\ fresh.lease = Nothing
  BY DEF Fresh
<1> HIDE DEF fresh
<1>9. TypeOK'
  BY <1>1, <1>5, <1>7 DEF IInv, TypeOK, IsQueue
<1>10. QueueIsKeyed'
  <2>1. s # Nothing
    BY ServerOK
  <2>2. QED
    BY <2>1, <1>3, <1>7, <1>8 DEF IInv, QueueIsKeyed, IsQueue
<1>11. JobsAgree'
  BY <1>1, AgentsStay
<1>12. \A x \in Session : Begun(x)' => Begun(x) /\ x # s
  <2> SUFFICES ASSUME NEW x \in Session, Begun(x)' PROVE Begun(x)
    BY <1>6
  <2>1. store'[x].canceled = store[x].canceled /\ store'[x].completed = store[x].completed
    BY <1>4, <1>5
  <2>2. QED
    BY <2>1, <1>1 DEF Begun
<1>13. Known(store'[s]) /\ \A x \in Session : x # s => (Known(store'[x]) <=> Known(store[x]))
  BY <1>4, <1>5 DEF Known
<1>14. SessionsKnown'
  <2>1. IsFiniteSet({x \in Session : Known(store'[x])})
    <3>1. {x \in Session : Known(store'[x])} = {x \in Session : Known(store[x])} \cup {s}
      BY <1>13
    <3>2. IsFiniteSet({x \in Session : Known(store[x])})
      BY DEF IInv, SessionsKnown
    <3>3. QED
      BY <3>1, <3>2, FS_AddElement
  <2>2. \A e \in ToSet(queue') : e.id \in Session => Known(store'[e.id])
    BY <1>7, <1>8, <1>13 DEF IInv, SessionsKnown
  <2>3. \A p \in preflight : Known(store'[p.id])
    BY <1>6, <1>13 DEF IInv, SessionsKnown, TypeOK
  <2>4. \A a \in Agent : agent[a].doing # "idle" => Known(store'[agent[a].id])
    BY <1>6, <1>13 DEF IInv, SessionsKnown, JobsAgree
  <2>5. \A x \in Session : Begun(x)' => Known(store'[x])
    BY <1>12, <1>13 DEF IInv, SessionsKnown
  <2>6. QED
    BY <2>1, <2>2, <2>3, <2>4, <2>5, <1>1 DEF SessionsKnown
<1>15. PreflightHoldsLease'
  BY <1>1, <1>6, <1>7, <1>8 DEF IInv, PreflightHoldsLease, SameEvent
<1>16. WorkerHoldsLease'
  BY <1>1, <1>6, <1>7, <1>8 DEF IInv, WorkerHoldsLease, SameEvent, Works
<1>17. WorkedOnce'
  BY <1>1 DEF IInv, WorkedOnce, Works
<1>18. BegunIsPrepared'
  <2>1. ASSUME NEW x \in Session, Begun(x)'
        PROVE  /\ store'[x].pending # Generate(FALSE)
               /\ \A p \in preflight : p.id # x
               /\ \A e \in ToSet(queue') : e.id = x => e.event # Generate(FALSE)
    BY <2>1, <1>5, <1>7, <1>8, <1>12 DEF IInv, BegunIsPrepared
  <2>2. ASSUME NEW e \in ToSet(queue'), e.event = Generate(TRUE)
        PROVE  store'[e.id].pending # Generate(FALSE)
    <3>1. e \in ToSet(queue) /\ e.event.type = "generate"
      BY <2>2, <1>3, <1>7, <1>8 DEF Generate
    <3>2. e.id \in Session /\ e.id # s
      BY <3>1, <1>6, QueueTyped
    <3>3. store[e.id].pending # Generate(FALSE)
      BY <3>1, <2>2 DEF IInv, BegunIsPrepared
    <3>4. QED
      BY <3>2, <3>3, <1>5
  <2>3. QED
    BY <2>1, <2>2, <1>1 DEF BegunIsPrepared
<1>19. "generate" \notin Decision
  BY DEF Decision
<1>20. DecisionsCancel'
  <2>1. \A x \in Session : store'[x].pending \in Event /\ store'[x].pending.type \in Decision
                            => store'[x].canceled
    BY <1>3, <1>4, <1>5, <1>19 DEF IInv, DecisionsCancel
  <2>2. ASSUME NEW e \in ToSet(queue'), e.event.type \in Decision
        PROVE  store'[e.id].canceled
    <3>1. e \in ToSet(queue)
      BY <2>2, <1>3, <1>7, <1>8, <1>19
    <3>2. e.id \in Session /\ e.id # s /\ store[e.id].canceled
      BY <3>1, <2>2, <1>6, QueueTyped DEF IInv, DecisionsCancel
    <3>3. QED
      BY <3>2, <1>5
  <2>3. QED
    BY <2>1, <2>2 DEF DecisionsCancel
<1>21. CanceledStaysFenced'
  <2>1. ~store[s].canceled
    BY <1>6 DEF Begun
  <2>2. QED
    BY <2>1, <1>4, <1>5 DEF IInv, CanceledStaysFenced
<1>22. DecisionHeld'
  <2>1. \A x \in Session, type \in Decision : Queued(queue, x, type) => Queued(queue', x, type)
    BY <1>7 DEF Queued
  <2>2. QED
    BY <2>1, <1>1, <1>4, <1>5 DEF IInv, DecisionHeld
<1>23. ExitIsTimed'
  BY <1>1, <1>3, <1>7, <1>8 DEF IInv, ExitIsTimed
<1>24. QED
  BY <1>9, <1>10, <1>11, <1>14, <1>15, <1>16, <1>17, <1>18, <1>20, <1>21, <1>22, <1>23 DEF IInv

\* The user ends the generation of a session: what waits of it is retired.
LEMMA UserEndsKeeps ==
    ASSUME IInv, NEW s \in Session, Begun(s),
           store' \in [Session -> Snapshot], \A x \in Session : x # s => store'[x] = store[x],
           store'[s].canceled, store'[s].phase \in Fenced,
           store'[s].pending \in Event => store'[s].pending.type \in Decision,
           IsQueue(queue'),
           \A e \in ToSet(queue') : \/ e \in ToSet(queue) /\ ~SameEvent(e, s, "generate")
                                    \/ e.id = s /\ e.event \in Event /\ e.event.type \in Decision,
           \A x \in Session, type \in Decision : Queued(queue, x, type) => Queued(queue', x, type),
           \A type \in Decision :
             store'[s].phase = (IF type = "accept" THEN "accept_requested" ELSE "discard_requested")
               => store'[s].pending = Ask(type) /\ Queued(queue', s, type),
           answered' \in [Session -> BOOLEAN], \A x \in Session : x # s => answered'[x] = answered[x],
           UNCHANGED <<preflight, agent, source, receipt, connected, exitTimer, faults>>
    PROVE  IInv'
<1>1. Known(store[s])
  BY DEF IInv, SessionsKnown
<1>2. \A x \in Session : Begun(x)' => Begun(x)
  BY DEF Begun
<1>3. \A x \in Session : Known(store'[x]) <=> Known(store[x])
  BY <1>1 DEF Known, Fenced, Closed
<1>4. "generate" \notin Decision /\ Generate(FALSE) \in Event /\ Generate(FALSE).type = "generate"
  BY DEF Decision, Generate, Event
<1>5. Generate(TRUE).type = "generate"
  BY DEF Generate
<1>6. TypeOK'
  BY DEF IInv, TypeOK, IsQueue
<1>7. QueueIsKeyed'
  <2>1. s # Nothing
    BY ServerOK
  <2>2. \A event \in Event : event # Exit
    BY EventKinds
  <2>3. QED
    BY <2>1, <2>2 DEF IInv, QueueIsKeyed, IsQueue
<1>8. JobsAgree'
  BY AgentsStay
<1>9. SessionsKnown'
  <2>1. IsFiniteSet({x \in Session : Known(store'[x])})
    <3>1. {x \in Session : Known(store'[x])} = {x \in Session : Known(store[x])}
      BY <1>3
    <3>2. QED
      BY <3>1 DEF IInv, SessionsKnown
  <2>2. \A e \in ToSet(queue') : e.id \in Session => Known(store'[e.id])
    BY <1>1, <1>3 DEF IInv, SessionsKnown
  <2>3. \A p \in preflight : Known(store'[p.id])
    BY <1>3 DEF IInv, SessionsKnown, TypeOK
  <2>4. \A a \in Agent : agent[a].doing # "idle" => Known(store'[agent[a].id])
    BY <1>3 DEF IInv, SessionsKnown, JobsAgree
  <2>5. \A x \in Session : Begun(x)' => Known(store'[x])
    BY <1>2, <1>3 DEF IInv, SessionsKnown
  <2>6. QED
    BY <2>1, <2>2, <2>3, <2>4, <2>5 DEF SessionsKnown
<1>10. \A e \in ToSet(queue') : e.event.type = "generate" => e \in ToSet(queue) /\ e.id # s
  BY <1>4 DEF SameEvent
<1>11. PreflightHoldsLease'
  BY <1>10 DEF IInv, PreflightHoldsLease, SameEvent
<1>12. WorkerHoldsLease'
  BY <1>10 DEF IInv, WorkerHoldsLease, SameEvent, Works
<1>13. WorkedOnce'
  BY DEF IInv, WorkedOnce, Works
<1>14. BegunIsPrepared'
  <2>1. store'[s].pending # Generate(FALSE)
    BY <1>4
  <2>2. ASSUME NEW x \in Session, Begun(x)
        PROVE  /\ store'[x].pending # Generate(FALSE)
               /\ \A p \in preflight : p.id # x
               /\ \A e \in ToSet(queue') : e.id = x => e.event # Generate(FALSE)
    BY <2>1, <2>2, <1>4, <1>10 DEF IInv, BegunIsPrepared
  <2>3. ASSUME NEW e \in ToSet(queue'), e.event = Generate(TRUE)
        PROVE  store'[e.id].pending # Generate(FALSE)
    <3>1. e \in ToSet(queue) /\ e.id # s
      BY <2>3, <1>5, <1>10
    <3>2. e.id \in Session /\ store[e.id].pending # Generate(FALSE)
      BY <3>1, <2>3, <1>5, QueueTyped DEF IInv, BegunIsPrepared
    <3>3. QED
      BY <3>1, <3>2
  <2>4. QED
    BY <2>2, <2>3, <1>2 DEF BegunIsPrepared
<1>15. DecisionsCancel'
  <2>1. ASSUME NEW e \in ToSet(queue'), e.event.type \in Decision
        PROVE  store'[e.id].canceled
    <3>1. CASE e \in ToSet(queue)
      <4>1. e.id \in Session /\ store[e.id].canceled
        BY <3>1, <2>1, QueueTyped DEF IInv, DecisionsCancel
      <4>2. QED
        BY <4>1
    <3>2. CASE e.id = s
      BY <3>2
    <3>3. QED
      BY <3>1, <3>2
  <2>2. QED
    BY <2>1 DEF IInv, DecisionsCancel
<1>16. CanceledStaysFenced'
  BY DEF IInv, CanceledStaysFenced
<1>17. DecisionHeld'
  BY DEF IInv, DecisionHeld
<1>18. ExitIsTimed'
  <2>1. \A event \in Event : event # Exit
    BY EventKinds
  <2>2. QED
    BY <2>1 DEF IInv, ExitIsTimed
<1>19. QED
  BY <1>6, <1>7, <1>8, <1>9, <1>11, <1>12, <1>13, <1>14, <1>15, <1>16, <1>17, <1>18 DEF IInv

LEMMA PageDecidesKeeps ==
    ASSUME IInv, NEW s \in Session, NEW type \in Decision, PageDecides(s, type)
    PROVE  IInv'
<1> DEFINE next == AfterDecision(store[s], type)
           kept == RetireGeneration(queue, s)
<1>1. /\ source[s] \/ receipt[s] # Nothing
      /\ store' = [store EXCEPT ![s] = next]
      /\ queue' = Enqueue(kept, s, Ask(type))
      /\ answered' = [answered EXCEPT ![s] = FALSE]
      /\ UNCHANGED <<preflight, agent, source, receipt, connected, exitTimer, faults>>
  BY DEF PageDecides
<1>2. Begun(s) /\ store \in [Session -> Snapshot] /\ answered \in [Session -> BOOLEAN]
  BY <1>1 DEF Begun, IInv, TypeOK
<1>3. /\ Ask(type) \in Event /\ Ask(type).type = type /\ s # Nothing /\ s \in Maybe
      /\ type # "generate"
  BY ServerOK DEF Ask, Event, Decision, Maybe
<1>4. /\ next \in Snapshot /\ next.canceled /\ next.pending = Ask(type)
      /\ next.phase = (IF type = "accept" THEN "accept_requested" ELSE "discard_requested")
  <2>1. store[s] \in Snapshot
    BY <1>2
  <2>2. QED
    BY <2>1, <1>3 DEF AfterDecision, Snapshot, Phase, Fenced
<1> HIDE DEF next
<1>5. /\ store' \in [Session -> Snapshot] /\ store'[s] = next
      /\ \A x \in Session : x # s => store'[x] = store[x]
  BY <1>1, <1>2, <1>4
<1>6. IsQueue(kept) /\ ToSet(kept) = {e \in ToSet(queue) : ~SameEvent(e, s, "generate")}
  BY QueueTyped, RetireSet
<1> HIDE DEF kept
<1>7. /\ IsQueue(queue')
      /\ ToSet(queue') = IF Queued(kept, s, type) THEN ToSet(kept)
                         ELSE ToSet(kept) \cup {Fresh(s, Ask(type))}
  BY <1>1, <1>3, <1>6, EnqueueSet
<1>8. Fresh(s, Ask(type)).id = s /\ Fresh(s, Ask(type)).event = Ask(type)
  BY DEF Fresh
<1>9. \A e \in ToSet(queue') : \/ e \in ToSet(queue) /\ ~SameEvent(e, s, "generate")
                               \/ e.id = s /\ e.event \in Event /\ e.event.type \in Decision
  BY <1>3, <1>6, <1>7, <1>8
<1>10. ToSet(kept) \subseteq ToSet(queue')
  BY <1>7
<1>11. \A x \in Session, t \in Decision : Queued(queue, x, t) => Queued(queue', x, t)
  BY <1>6, <1>10 DEF Queued, SameEvent, Decision
<1>12. Queued(queue', s, type)
  <2>1. CASE Queued(kept, s, type)
    BY <2>1, <1>7 DEF Queued
  <2>2. CASE ~Queued(kept, s, type)
    BY <2>2, <1>3, <1>7, <1>8 DEF Queued, SameEvent
  <2>3. QED
    BY <2>1, <2>2
<1>13. \A t \in Decision :
         store'[s].phase = (IF t = "accept" THEN "accept_requested" ELSE "discard_requested")
           => store'[s].pending = Ask(t) /\ Queued(queue', s, t)
  BY <1>4, <1>5, <1>12 DEF Decision
<1>14. store'[s].canceled /\ store'[s].phase \in Fenced
       /\ (store'[s].pending \in Event => store'[s].pending.type \in Decision)
  BY <1>3, <1>4, <1>5 DEF Fenced
<1>15. answered' \in [Session -> BOOLEAN] /\ \A x \in Session : x # s => answered'[x] = answered[x]
  BY <1>1, <1>2
<1>16. QED
  BY <1>1, <1>2, <1>5, <1>7, <1>9, <1>11, <1>13, <1>14, <1>15, UserEndsKeeps

LEMMA PageLosesWrapperKeeps ==
    ASSUME IInv, NEW s \in Session, PageLosesWrapper(s)
    PROVE  IInv'
<1> DEFINE next == AfterEnd(AfterDecision(store[s], "discard"), "discarded")
<1>1. /\ store[s].completed
      /\ store' = [store EXCEPT ![s] = next]
      /\ queue' = RetireGeneration(queue, s)
      /\ UNCHANGED <<preflight, agent, source, receipt, connected, exitTimer, faults, answered>>
  BY DEF PageLosesWrapper
<1>2. Begun(s) /\ store \in [Session -> Snapshot] /\ answered \in [Session -> BOOLEAN]
  BY <1>1 DEF Begun, IInv, TypeOK
<1>3. /\ next \in Snapshot /\ next.canceled /\ next.pending = Nothing
      /\ next.phase = "discarded"
  <2>1. store[s] \in Snapshot
    BY <1>2
  <2>2. /\ AfterDecision(store[s], "discard") \in Snapshot
        /\ AfterDecision(store[s], "discard").canceled
    BY <2>1 DEF AfterDecision, Snapshot, Phase, Fenced, Ask, Event
  <2>3. QED
    BY <2>2 DEF AfterEnd, Snapshot, Phase, Fenced, Closed
<1> HIDE DEF next
<1>4. /\ store' \in [Session -> Snapshot] /\ store'[s] = next
      /\ \A x \in Session : x # s => store'[x] = store[x]
  BY <1>1, <1>2, <1>3
<1>5. IsQueue(queue') /\ ToSet(queue') = {e \in ToSet(queue) : ~SameEvent(e, s, "generate")}
  BY <1>1, QueueTyped, RetireSet
<1>6. \A x \in Session, t \in Decision : Queued(queue, x, t) => Queued(queue', x, t)
  BY <1>5 DEF Queued, SameEvent, Decision
<1>7. Nothing \notin Event
  BY ServerOK
<1>8. /\ store'[s].canceled /\ store'[s].phase \in Fenced /\ store'[s].pending \notin Event
      /\ store'[s].phase \notin {"accept_requested", "discard_requested"}
  BY <1>3, <1>4, <1>7 DEF Fenced, Closed
<1>9. \A t \in Decision :
        store'[s].phase = (IF t = "accept" THEN "accept_requested" ELSE "discard_requested")
          => store'[s].pending = Ask(t) /\ Queued(queue', s, t)
  BY <1>8
<1>10. QED
  BY <1>1, <1>2, <1>4, <1>5, <1>6, <1>8, <1>9, UserEndsKeeps

\* The timer runs only while no exit is queued.
LEMMA ExitTimerFiresKeeps ==
    ASSUME IInv, ExitTimerFires
    PROVE  IInv'
<1> DEFINE fresh == Fresh(Nothing, Exit)
<1>1. /\ exitTimer /\ ~connected /\ exitTimer' = FALSE
      /\ queue' = Enqueue(queue, Nothing, Exit)
      /\ UNCHANGED <<store, preflight, agent, source, receipt, connected, faults, answered>>
  BY DEF ExitTimerFires
<1>2. \A e \in ToSet(queue) : e.event # Exit /\ e.id # Nothing
  BY <1>1 DEF IInv, ExitIsTimed, QueueIsKeyed
<1>3. ~Queued(queue, Nothing, Exit.type)
  BY <1>2 DEF Queued, SameEvent
<1>4. IsQueue(queue') /\ ToSet(queue') = ToSet(queue) \cup {fresh}
  <2>1. Nothing \in Maybe /\ Exit \in Event \cup {Exit}
    BY DEF Maybe
  <2>2. \A e \in ToSet(queue) : ~SameEvent(e, Nothing, Exit.type)
    BY <1>2 DEF SameEvent
  <2>3. QED
    BY <2>1, <2>2, <1>1, <1>3, QueueTyped, EnqueueSet
<1>5. fresh.id = Nothing /\ fresh.event = Exit
  BY DEF Fresh
<1> HIDE DEF fresh
<1>6. Exit.type = "exit" /\ Exit # Generate(FALSE) /\ Exit # Generate(TRUE) /\ "exit" \notin Decision
  BY DEF Exit, Generate, Decision
<1>7. Nothing \notin Session
  BY ServerOK
<1>8. TypeOK' /\ JobsAgree'
  BY <1>1, <1>4, AgentsStay DEF IInv, TypeOK, IsQueue
<1>9. QueueIsKeyed'
  BY <1>4, <1>5 DEF IInv, QueueIsKeyed, IsQueue
<1>10. \A x \in Session : Begun(x)' <=> Begun(x)
  BY <1>1 DEF Begun
<1>11. SessionsKnown'
  BY <1>1, <1>4, <1>5, <1>7, <1>10 DEF IInv, SessionsKnown
<1>12. PreflightHoldsLease'
  BY <1>1, <1>4, <1>5, <1>6 DEF IInv, PreflightHoldsLease, SameEvent
<1>13. WorkerHoldsLease' /\ WorkedOnce'
  BY <1>1, <1>4, <1>5, <1>6 DEF IInv, WorkerHoldsLease, WorkedOnce, SameEvent, Works
<1>14. BegunIsPrepared'
  BY <1>1, <1>4, <1>5, <1>6, <1>10 DEF IInv, BegunIsPrepared
<1>15. DecisionsCancel'
  BY <1>1, <1>4, <1>5, <1>6 DEF IInv, DecisionsCancel
<1>16. CanceledStaysFenced'
  BY <1>1 DEF IInv, CanceledStaysFenced
<1>17. DecisionHeld'
  BY <1>1, <1>4 DEF IInv, DecisionHeld, Queued
<1>18. ExitIsTimed'
  BY <1>1 DEF ExitIsTimed
<1>19. QED
  BY <1>8, <1>9, <1>11, <1>12, <1>13, <1>14, <1>15, <1>16, <1>17, <1>18 DEF IInv

-----------------------------------------------------------------------------
(* The invariant *)

LEMMA InitHolds == Init => IInv
<1> SUFFICES ASSUME Init PROVE IInv
  OBVIOUS
<1>1. NewSession \in Snapshot /\ ~Known(NewSession)
  BY DEF NewSession, Snapshot, Phase, Known
<1>2. \A s \in Session : store[s] = NewSession /\ source[s] = FALSE /\ receipt[s] = Nothing
  BY DEF Init
<1>3. \A a \in Agent : agent[a].doing = "idle"
  BY DEF Init, Idle
<1>4. queue \in Seq(Entry) /\ DOMAIN queue = {} /\ ToSet(queue) = {}
  BY DEF Init, ToSet
<1>5. TypeOK
  <2>1. Idle \in Job
    BY DEF Idle, Job, Maybe
  <2>2. 0 \in 0..MaxFaults
    BY ServerOK
  <2>3. QED
    BY <2>1, <2>2, <1>1, <1>4 DEF Init, TypeOK
<1>6. \A s \in Session : ~Begun(s)
  BY <1>2, <1>3 DEF Begun, NewSession
<1>7. SessionsKnown
  <2>1. {s \in Session : Known(store[s])} = {}
    BY <1>1, <1>2
  <2>2. IsFiniteSet({s \in Session : Known(store[s])})
    BY <2>1, FS_EmptySet
  <2>3. preflight = {}
    BY DEF Init
  <2>4. QED
    BY <2>2, <2>3, <1>3, <1>4, <1>6 DEF SessionsKnown
<1>8. QueueIsKeyed
  BY <1>4 DEF QueueIsKeyed, Keyed
<1>9. JobsAgree /\ WorkerHoldsLease /\ WorkedOnce
  BY <1>3 DEF JobsAgree, WorkerHoldsLease, WorkedOnce, Works
<1>10. PreflightHoldsLease
  BY DEF Init, PreflightHoldsLease
<1>11. BegunIsPrepared
  BY <1>4, <1>6 DEF BegunIsPrepared
<1>12. DecisionsCancel
  BY <1>2, <1>4, ServerOK DEF DecisionsCancel, NewSession
<1>13. CanceledStaysFenced /\ DecisionHeld
  BY <1>2 DEF CanceledStaysFenced, DecisionHeld, NewSession
<1>14. ExitIsTimed
  BY <1>4 DEF ExitIsTimed
<1>15. QED
  BY <1>5, <1>7, <1>8, <1>9, <1>10, <1>11, <1>12, <1>13, <1>14 DEF IInv

LEMMA Stutters ==
    ASSUME IInv, UNCHANGED vars
    PROVE  IInv'
<1>1. /\ UNCHANGED <<preflight, agent, source, receipt, answered>>
      /\ queue' = queue /\ store' = store /\ connected' = connected /\ exitTimer' = exitTimer
      /\ faults' = faults
  BY DEF vars
<1>2. ExitIsTimed'
  BY <1>1, ExitStays
<1>3. /\ store \in [Session -> Snapshot] /\ connected \in BOOLEAN /\ exitTimer \in BOOLEAN
      /\ faults \in 0..MaxFaults
      /\ \A s \in Session : Advances(store[s], store[s], Begun(s))
  BY StaysAdvances DEF IInv, TypeOK
<1>4. IsQueue(queue)
  BY QueueTyped
<1>5. QED
  BY <1>1, <1>2, <1>3, <1>4, PageOnlyTells

\* The queue, the agents and the journal agree, whatever dies and however late
\* an answer comes.
THEOREM InvariantHolds == Spec => []IInv
<1>1. Init => IInv
  BY InitHolds
<1>2. IInv /\ [Next]_vars => IInv'
  <2> SUFFICES ASSUME IInv, [Next]_vars PROVE IInv'
    OBVIOUS
  <2>1. ASSUME NEW s \in Session, PageGoes(s) PROVE IInv'
    BY <2>1, PageGoesKeeps
  <2>2. ASSUME NEW s \in Session, PageReports(s) PROVE IInv'
    BY <2>2, PageReportsKeeps
  <2>3. ASSUME NEW s \in Session, PageLosesWrapper(s) PROVE IInv'
    BY <2>3, PageLosesWrapperKeeps
  <2>4. ASSUME NEW s \in Session, NEW type \in Decision, PageDecides(s, type) PROVE IInv'
    BY <2>4, PageDecidesKeeps
  <2>5. CASE PageConnects \/ PageDisconnects \/ ExitTimerFires \/ RestartServer
    BY <2>5, PageConnectsKeeps, PageDisconnectsKeeps, ExitTimerFiresKeeps, RestartServerKeeps
  <2>6. ASSUME NEW p \in preflight, PreflightDone(p) PROVE IInv'
    BY <2>6, PreflightDoneKeeps
  <2>7. ASSUME NEW i \in DOMAIN queue, LeaseExpires(i) PROVE IInv'
    BY <2>7, LeaseExpiresKeeps
  <2>8. ASSUME NEW a \in Agent, Poll(a) \/ AgentDies(a) PROVE IInv'
    BY <2>8, PollKeeps, AgentDiesKeeps
  <2>9. ASSUME NEW a \in Agent, Work(a) PROVE IInv'
    BY <2>9, GeneratesKeeps, DecidesKeeps, RecordsKeeps, RepliesKeeps, CompletesKeeps DEF Work
  <2>10. CASE UNCHANGED vars
    BY <2>10, Stutters
  <2>11. QED
    BY <2>1, <2>2, <2>3, <2>4, <2>5, <2>6, <2>7, <2>8, <2>9, <2>10 DEF Next
<1>3. QED
  BY <1>1, <1>2, PTL DEF Spec

\* A generation is in the hands of one agent at a time, unless its lease has
\* run out: the lease is taken before the scaffolding is awaited.
THEOREM OneWorker == Spec => []WorkedOnce
<1>1. IInv => WorkedOnce
  BY DEF IInv
<1>2. QED
  BY <1>1, InvariantHolds, PTL

\* No late answer, checkpoint or error opens a session the user has ended.
THEOREM EndedStaysEnded == Spec => []CanceledStaysFenced
<1>1. IInv => CanceledStaysFenced
  BY DEF IInv
<1>2. QED
  BY <1>1, InvariantHolds, PTL

\* A decision no agent has answered is in the journal and in the queue, also
\* after a restart of the server.
THEOREM NoDecisionLost == Spec => []DecisionHeld
<1>1. IInv => DecisionHeld
  BY DEF IInv
<1>2. QED
  BY <1>1, InvariantHolds, PTL

\* An exit does not wait for the agent while a page is connected.
THEOREM NoExit == Spec => []NoExitWhileConnected
<1>1. IInv => NoExitWhileConnected
  BY DEF IInv, ExitIsTimed, NoExitWhileConnected
<1>2. QED
  BY <1>1, InvariantHolds, PTL

-----------------------------------------------------------------------------
(* What takes a decision from the queue *)

\* Only an answer about the decision itself takes it, or one that ends the
\* session: an error without a type answers what is leased.
LEMMA AnswerSpares ==
    ASSUME IInv, NEW a \in Agent, Replies(a) \/ Completes(a),
           NEW d \in ToSet(queue), d.event.type \in Decision, d.lease = Nothing
    PROVE  \/ Queued(queue', d.id, d.event.type)
           \/ store'[d.id].phase \in Closed
           \/ agent[a].id = d.id /\ agent[a].event = d.event /\ Replies(a)
<1> DEFINE id == agent[a].id
           type == agent[a].event.type
           reply == IF Replies(a) THEN agent[a].reply ELSE "complete"
           types == IF Replies(a) /\ type \in Decision THEN {type} ELSE Inferred(id, reply)
           i == FirstOf(id, types)
           acked == queue[i].event.type
<1>1. CASE UNCHANGED queue
  BY <1>1 DEF Queued, SameEvent
<1>2. CASE ~UNCHANGED queue
  <2>1. Answer(id, reply, types)
    BY <1>2 DEF Replies, Completes
  <2>2. /\ agent[a].doing \in {"replying", "cleaning"}
        /\ Replies(a) => agent[a].doing = "replying"
        /\ id \in Session /\ agent[a].event \in Event
    BY DEF Replies, Completes, IInv, JobsAgree
  <2>3. i # 0 /\ i \in DOMAIN queue /\ queue[i].id = id /\ queue[i].event.type \in types
    <3>1. i # 0
      BY <1>2, <2>1 DEF Answer
    <3>2. QED
      BY <3>1, FirstOfFacts
  <2>4. /\ queue' = RemoveAt(queue, i)
        /\ store' = [store EXCEPT ![id] = AfterReply(store[id], reply, acked, reply = "carbonize")]
    BY <2>1, <2>3 DEF Answer
  <2>5. IsQueue(queue) /\ ToSet(queue') = ToSet(queue) \ {queue[i]} /\ queue[i] \in ToSet(queue)
    <3> HIDE DEF i
    <3>1. IsQueue(queue)
      BY QueueTyped
    <3>2. QED
      BY <3>1, <2>3, <2>4, RemoveSet DEF ToSet
  <2>6. CASE d # queue[i]
    BY <2>5, <2>6 DEF Queued, SameEvent
  <2>7. CASE d = queue[i]
    <3>1. CASE Replies(a) /\ type \in Decision
      <4>1. d.id = id /\ d.event.type = type /\ d.event \in Event
        BY <2>3, <2>5, <2>7, <3>1, QueueTyped
      <4>2. d.event = Ask(d.event.type)
        BY <4>1, EventKinds
      <4>3. agent[a].event = Ask(type)
        BY <2>2, <3>1, EventKinds
      <4>4. QED
        BY <4>1, <4>2, <4>3, <3>1
    <3>2. CASE Replies(a) /\ type \notin Decision
      <4>1. type = "generate" /\ reply \in {"done", "error"} /\ "generate" \notin Decision
        BY <2>2, <3>2, EventKinds DEF IInv, JobsAgree
      <4>2. queue[i].event.type \in Inferred(id, reply) /\ queue[i].event.type # "generate"
        BY <2>3, <2>7, <3>2, <4>1
      <4>3. FirstLeased(id) # 0 /\ queue[i].event.type = queue[FirstLeased(id)].event.type
        <5> HIDE DEF reply, i, id
        <5>1. CASE reply = "done"
          BY <4>2, <5>1 DEF Inferred
        <5>2. CASE reply = "error"
          BY <4>2, <5>2 DEF Inferred
        <5>3. QED
          BY <4>1, <5>1, <5>2
      <4>4. /\ FirstLeased(id) \in DOMAIN queue
            /\ queue[FirstLeased(id)].id = id /\ queue[FirstLeased(id)].lease # Nothing
        BY <4>3, FirstLeasedFacts
      <4>5. queue[FirstLeased(id)] = d
        <5>1. queue[FirstLeased(id)] \in ToSet(queue)
          BY <4>4 DEF ToSet
        <5> HIDE DEF i, id
        <5>2. QED
          BY <5>1, <4>3, <4>4, <2>3, <2>5, <2>7, OneEntry
      <4>6. QED
        BY <4>4, <4>5
    <3>3. CASE ~Replies(a)
      <4>1. reply = "complete"
        BY <3>3
      <4>2. store[id] \in Snapshot /\ store \in [Session -> Snapshot]
        BY <2>2 DEF IInv, TypeOK
      <4> HIDE DEF reply, i, id, acked
      <4>3. store'[id] = AfterEnd(store[id], "completed")
        BY <4>1, <4>2, <2>2, <2>4 DEF AfterReply
      <4>4. store'[id].phase \in Closed
        BY <4>2, <4>3 DEF AfterEnd, Snapshot, Closed
      <4>5. QED
        BY <4>4, <2>3, <2>7
    <3>4. QED
      BY <3>1, <3>2, <3>3
  <2>8. QED
    BY <2>6, <2>7
<1>3. QED
  BY <1>1, <1>2

\* A step that changes what entries say, not which there are.
LEMMA SameEntriesQueued ==
    ASSUME DOMAIN queue' = DOMAIN queue, NEW d \in ToSet(queue),
           \A i \in DOMAIN queue : queue'[i].id = queue[i].id
                                   /\ queue'[i].event.type = queue[i].event.type
    PROVE  Queued(queue', d.id, d.event.type)
BY DEF Queued, SameEvent, ToSet

LEMMA PollSpares ==
    ASSUME IInv, NEW a \in Agent, Poll(a), NEW d \in ToSet(queue), d.event.type \in Decision
    PROVE  Queued(queue', d.id, d.event.type)
<1>1. PICK i \in DOMAIN queue :
         queue' = IF queue[i].event = Exit THEN RemoveAt(queue, i)
                  ELSE [queue EXCEPT ![i].lease = LeaseNow(a, queue[i].event)]
  BY DEF Poll
<1>2. IsQueue(queue)
  BY QueueTyped
<1>3. CASE queue[i].event = Exit
  <2>1. ToSet(queue') = ToSet(queue) \ {queue[i]}
    BY <1>1, <1>2, <1>3, RemoveSet
  <2>2. d # queue[i]
    BY <1>3 DEF Exit, Decision
  <2>3. QED
    BY <2>1, <2>2 DEF Queued, SameEvent
<1>4. CASE queue[i].event # Exit
  <2>1. queue[i] \in Entry
    BY <1>2, QueueDomain
  <2>2. DOMAIN queue' = DOMAIN queue
    BY <1>1, <1>4
  <2>3. \A j \in DOMAIN queue : queue'[j].id = queue[j].id /\ queue'[j].event.type = queue[j].event.type
    BY <1>1, <1>4, <2>1 DEF Entry
  <2>4. QED
    BY <2>2, <2>3, SameEntriesQueued
<1>5. QED
  BY <1>3, <1>4

LEMMA PageSpares ==
    ASSUME IInv, NEW d \in ToSet(queue), d.event.type \in Decision,
           \/ PageConnects \/ ExitTimerFires
           \/ \E s \in Session : PageGoes(s) \/ PageLosesWrapper(s)
           \/ \E s \in Session, type \in Decision : PageDecides(s, type)
    PROVE  Queued(queue', d.id, d.event.type)
<1>1. IsQueue(queue) /\ ~SameEvent(d, d.id, "generate") /\ d.event # Exit
  BY QueueTyped DEF SameEvent, Decision, Exit
<1>2. \A q : d \in ToSet(q) => Queued(q, d.id, d.event.type)
  BY DEF Queued, SameEvent
<1>3. CASE PageConnects
  <2>1. ToSet(queue') = {e \in ToSet(queue) : e.event # Exit}
    BY <1>1, <1>3, CancelSet DEF PageConnects
  <2>2. QED
    BY <2>1, <1>1, <1>2
<1>4. \A s : ToSet(RetireGeneration(queue, s)) = {e \in ToSet(queue) : ~SameEvent(e, s, "generate")}
  BY <1>1, RetireSet
<1>5. \A s : d \in ToSet(RetireGeneration(queue, s))
  BY <1>4 DEF SameEvent, Decision
<1>6. ASSUME NEW q, IsQueue(q), d \in ToSet(q), NEW id, NEW event, queue' = Enqueue(q, id, event)
      PROVE  d \in ToSet(queue')
  <2>1. CASE queue' = q
    BY <2>1, <1>6
  <2>2. CASE queue' = Append(q, Fresh(id, event))
    <3>1. q \in Seq(Entry) /\ Len(q) \in Nat /\ DOMAIN q = 1..Len(q)
      BY <1>6, QueueDomain DEF IsQueue
    <3>2. Len(queue') = Len(q) + 1 /\ DOMAIN queue' = 1..Len(q) + 1 /\ \A i \in 1..Len(q) : queue'[i] = q[i]
      BY <2>2, <3>1
    <3>3. QED
      BY <3>1, <3>2, <1>6 DEF ToSet
  <2>3. QED
    BY <2>1, <2>2, <1>6 DEF Enqueue, Fresh
<1>7. CASE ExitTimerFires \/ \E s \in Session : PageGoes(s)
  BY <1>1, <1>2, <1>6, <1>7 DEF ExitTimerFires, PageGoes
<1>8. CASE \E s \in Session : PageLosesWrapper(s)
  BY <1>2, <1>5, <1>8 DEF PageLosesWrapper
<1>9. CASE \E s \in Session, type \in Decision : PageDecides(s, type)
  <2>1. PICK s \in Session, type \in Decision : PageDecides(s, type)
    BY <1>9
  <2>2. IsQueue(RetireGeneration(queue, s))
    BY <1>1, RetireSet
  <2>3. queue' = Enqueue(RetireGeneration(queue, s), s, Ask(type))
    BY <2>1 DEF PageDecides
  <2>4. QED
    BY <2>2, <2>3, <1>2, <1>5, <1>6
<1>10. QED
  BY <1>3, <1>7, <1>8, <1>9

\* A decision that waits is not taken by the answer to something else.
THEOREM UndeliveredStays == Spec => UndeliveredKept
<1> DEFINE Spared == \A i \in DOMAIN queue :
         queue[i].event.type \in Decision /\ queue[i].lease = Nothing
            => Queued(queue', queue[i].id, queue[i].event.type)
               \/ RestartServer
               \/ store'[queue[i].id].phase \in Closed
               \/ \E a \in Agent : /\ agent[a].id = queue[i].id /\ agent[a].event = queue[i].event
                                   /\ Replies(a)
<1>1. IInv /\ [Next]_vars => [Spared]_vars
  <2> SUFFICES ASSUME IInv, Next, ~RestartServer,
                      NEW i \in DOMAIN queue, queue[i].event.type \in Decision,
                      queue[i].lease = Nothing
               PROVE  \/ Queued(queue', queue[i].id, queue[i].event.type)
                      \/ store'[queue[i].id].phase \in Closed
                      \/ \E a \in Agent : /\ agent[a].id = queue[i].id /\ agent[a].event = queue[i].event
                                          /\ Replies(a)
    OBVIOUS
  <2>1. queue[i] \in ToSet(queue)
    BY DEF ToSet
  <2>2. CASE UNCHANGED queue
    BY <2>1, <2>2 DEF Queued, SameEvent
  <2>3. CASE \/ PageConnects \/ ExitTimerFires
             \/ \E s \in Session : PageGoes(s) \/ PageLosesWrapper(s)
             \/ \E s \in Session, type \in Decision : PageDecides(s, type)
    BY <2>1, <2>3, PageSpares
  <2>4. ASSUME NEW p \in preflight, PreflightDone(p)
        PROVE  Queued(queue', queue[i].id, queue[i].event.type)
    <3>1. DOMAIN queue' = DOMAIN queue
      BY <2>4 DEF PreflightDone
    <3>2. \A j \in DOMAIN queue : queue'[j].id = queue[j].id /\ queue'[j].event.type = queue[j].event.type
      BY <2>4 DEF PreflightDone, SameEvent, Generate
    <3>3. QED
      BY <2>1, <3>1, <3>2, SameEntriesQueued
  <2>5. ASSUME NEW j \in DOMAIN queue, LeaseExpires(j)
        PROVE  Queued(queue', queue[i].id, queue[i].event.type)
    <3>1. queue[j] \in Entry
      BY QueueTyped, QueueDomain
    <3>2. queue' = [queue EXCEPT ![j].lease = Nothing]
      BY <2>5 DEF LeaseExpires
    <3>3. DOMAIN queue' = DOMAIN queue
      BY <3>2
    <3>4. \A k \in DOMAIN queue : queue'[k].id = queue[k].id /\ queue'[k].event.type = queue[k].event.type
      BY <3>1, <3>2 DEF Entry
    <3>5. QED
      BY <2>1, <3>3, <3>4, SameEntriesQueued
  <2>6. ASSUME NEW a \in Agent, Poll(a)
        PROVE  Queued(queue', queue[i].id, queue[i].event.type)
    BY <2>1, <2>6, PollSpares
  <2>7. ASSUME NEW a \in Agent, Replies(a) \/ Completes(a)
        PROVE  \/ Queued(queue', queue[i].id, queue[i].event.type)
               \/ store'[queue[i].id].phase \in Closed
               \/ agent[a].id = queue[i].id /\ agent[a].event = queue[i].event /\ Replies(a)
    BY <2>1, <2>7, AnswerSpares
  <2>8. ASSUME NEW a \in Agent, Generates(a) \/ Decides(a) \/ Records(a) \/ AgentDies(a)
        PROVE  UNCHANGED queue
    BY <2>8 DEF Generates, Decides, Records, AgentDies
  <2>9. ASSUME NEW s \in Session, PageReports(s) PROVE UNCHANGED queue
    BY <2>9 DEF PageReports
  <2>10. CASE PageDisconnects
    BY <2>2, <2>10 DEF PageDisconnects
  <2>11. QED
    BY <2>2, <2>3, <2>4, <2>5, <2>6, <2>7, <2>8, <2>9, <2>10 DEF Next, Work
<1>2. QED
  BY <1>1, InvariantHolds, PTL DEF Spec, UndeliveredKept
=============================================================================
