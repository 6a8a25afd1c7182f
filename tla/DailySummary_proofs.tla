------------------------ MODULE DailySummary_proofs ------------------------
(***************************************************************************)
(* Proofs about DailySummary: its inductive invariant and, from it, that   *)
(* one run sends at a time, that the daily flow does not send again after  *)
(* a delivery, and that the snapshot of the date is frozen.                *)
(***************************************************************************)
EXTENDS DailySummary, SequenceTheorems, TLAPS

\* What a run can remember.
Memory ==
    [step : {"new", "over"} \cup Working, tries : 0..Retries,
     snapshot : Snapshot, no : 0..Len(attempts), answer : Answer]

Attempt == [kind : {"AUTOMATIC", "MANUAL_RETRY"}, status : {"RUNNING", "SUCCEEDED", "FAILED"}]

\* A run that raises or ends holds nothing.
LEMMA AtIsMemory ==
    ASSUME IInv, NEW step \in {"new", "over"}, NEW tries \in 0..Retries
    PROVE  /\ At(step, tries) \in Memory
           /\ At(step, tries).step = step
<1>1. Len(attempts) \in Nat
  BY LenProperties DEF IInv, TypeOK
<1>2. QED
  BY <1>1, ConstantsOK DEF At, Memory, Snapshot, Answer

LEMMA RaisedMemory ==
    ASSUME IInv, NEW f \in Run, Raise(f) \/ End(f)
    PROVE  \E e \in Memory : e.step \in {"new", "over"} /\ flow' = [flow EXCEPT ![f] = e]
<1>1. flow[f].tries \in 0..Retries
  BY DEF IInv, TypeOK
<1>2. CASE End(f)
  <2>1. At("over", 0) \in Memory /\ At("over", 0).step = "over"
    BY AtIsMemory, ConstantsOK
  <2>2. QED
    BY <2>1, <1>2 DEF End
<1>3. CASE Raise(f) /\ flow[f].tries < Retries
  <2>1. flow[f].tries + 1 \in 0..Retries
    BY <1>1, <1>3, ConstantsOK
  <2>2. At("new", flow[f].tries + 1) \in Memory /\ At("new", flow[f].tries + 1).step = "new"
    BY <2>1, AtIsMemory
  <2>3. QED
    BY <2>2, <1>3 DEF Raise
<1>4. QED
  BY <1>2, <1>3 DEF Raise

\* A step that only changes what one run remembers, which does not send.
LEMMA MemoryStep ==
    ASSUME IInv, NEW f \in Run, NEW e \in Memory,
           e.step \notin Sending, e.step = "built" => summary.status # "ABSENT",
           flow' = [flow EXCEPT ![f] = e], UNCHANGED <<tasks, stored, chat>>
    PROVE  IInv'
<1>1. /\ flow' \in [Run -> Memory]
      /\ \A g \in Run : flow'[g] = IF g = f THEN e ELSE flow[g]
  BY DEF IInv, TypeOK, Memory
<1>2. UNCHANGED <<tasks, summary, attempts, chat>>
  BY DEF stored
<1>3. TypeOK'
  BY <1>1, <1>2 DEF IInv, TypeOK, Memory
<1>4. MemoryAgrees'
  BY <1>1, <1>2 DEF IInv, MemoryAgrees, Sending
<1>5. OneSenderAtATime'
  BY <1>1, <1>2 DEF IInv, OneSenderAtATime
<1>6. TablesAgree' /\ NotifiedIsNewestSuccess' /\ AutomaticOnceUnlessReopened'
  BY <1>2 DEF IInv, TablesAgree, NotifiedIsNewestSuccess, AutomaticOnceUnlessReopened
<1>7. QED
  BY <1>3, <1>4, <1>5, <1>6 DEF IInv

\* Raising or ending without a change of the tables.
LEMMA RaiseKeepsInvariant ==
    ASSUME IInv, NEW f \in Run, Raise(f) \/ End(f), UNCHANGED <<tasks, stored, chat>>
    PROVE  IInv'
<1>1. PICK e \in Memory : e.step \in {"new", "over"} /\ flow' = [flow EXCEPT ![f] = e]
  BY RaisedMemory
<1>2. e.step \notin Sending /\ e.step # "built"
  BY <1>1 DEF Sending
<1>3. QED
  BY <1>1, <1>2, MemoryStep

-----------------------------------------------------------------------------
(* The four actions that change the tables or the chat *)

LEMMA InsertKeepsInvariant ==
    ASSUME IInv, NEW f \in Run, InsertSummary(f) PROVE IInv'
<1>1. /\ summary.status = "ABSENT" /\ attempts = <<>> /\ chat = {}
      /\ \A g \in Run : flow[g].step \notin Sending /\ flow[g].no = 0
  <2>1. summary.status = "ABSENT" /\ attempts = <<>>
    BY DEF InsertSummary, RowIsNew, IInv, TablesAgree
  <2>2. Len(attempts) = 0
    BY <2>1
  <2>3. chat \subseteq (1..0) \X Snapshot /\ \A g \in Run : flow[g].no \in 0..0
    BY <2>2 DEF IInv, TypeOK
  <2>4. QED
    BY <2>1, <2>3 DEF IInv, MemoryAgrees
<1>2. /\ summary' = [status |-> "PENDING", snapshot |-> flow[f].snapshot, notified |-> 0]
      /\ flow' = [flow EXCEPT ![f].step = "built"]
      /\ UNCHANGED <<tasks, attempts, chat>>
  BY DEF InsertSummary, Goto
<1>3. /\ flow' \in [Run -> Memory]
      /\ \A g \in Run : flow'[g].step = (IF g = f THEN "built" ELSE flow[g].step)
      /\ flow[f].snapshot \in Snapshot
  BY <1>2 DEF IInv, TypeOK, Memory, Working
<1>4. TypeOK'
  <2>1. summary'.notified \in 0..Len(attempts)
    BY <1>1, <1>2
  <2>2. QED
    BY <1>1, <1>2, <1>3, <2>1 DEF IInv, TypeOK, Memory
<1>5. MemoryAgrees' /\ OneSenderAtATime'
  BY <1>1, <1>2, <1>3 DEF MemoryAgrees, OneSenderAtATime, Sending
<1>6. TablesAgree' /\ NotifiedIsNewestSuccess' /\ AutomaticOnceUnlessReopened'
  BY <1>1, <1>2 DEF TablesAgree, NotifiedIsNewestSuccess, AutomaticOnceUnlessReopened
<1>7. QED
  BY <1>4, <1>5, <1>6 DEF IInv

\* Nobody sends while no attempt is running.
LEMMA NobodySends ==
    ASSUME IInv, NEW f \in Run, ~Blocked(f)
    PROVE  /\ \A i \in 1..Len(attempts) : attempts[i].status # "RUNNING"
           /\ \A g \in Run : flow[g].step \notin Sending
<1>1. attempts \in Seq(Attempt) /\ DOMAIN attempts = 1..Len(attempts)
  BY DEF IInv, TypeOK, Attempt
<1>2. \A i \in 1..Len(attempts) : attempts[i].status # "RUNNING"
  BY <1>1 DEF Blocked
<1>3. ASSUME NEW g \in Run, flow[g].step \in Sending PROVE FALSE
  <2>1. flow[g].no \in 1..Len(attempts)
    BY <1>1, <1>3 DEF IInv, TypeOK, MemoryAgrees
  <2>2. attempts[flow[g].no].status = "RUNNING"
    BY <1>3 DEF IInv, MemoryAgrees
  <2>3. QED
    BY <2>1, <2>2, <1>2
<1>4. QED
  BY <1>2, <1>3

\* A run of the daily flow that may claim finds the last attempt failed, so
\* every earlier delivery has been reopened.
LEMMA ReopenedBeforeClaim ==
    ASSUME IInv, NEW f \in Daily, ~Blocked(f),
           NEW i \in 1..Len(attempts), attempts[i].status = "SUCCEEDED"
    PROVE  \E k \in i + 1 .. Len(attempts) :
              attempts[k] = [kind |-> "MANUAL_RETRY", status |-> "FAILED"]
<1> DEFINE n == Len(attempts)
<1>1. attempts \in Seq(Attempt) /\ DOMAIN attempts = 1..n /\ n \in Nat
  BY DEF IInv, TypeOK, Attempt
<1>2. f \in Run /\ summary.status # "SENT"
  BY DEF Blocked, Run
<1>3. n \in 1..n /\ attempts[n] \in Attempt
  BY <1>1
<1>4. attempts[n].status = "FAILED"
  <2>1. attempts[n].status # "RUNNING"
    BY <1>2, <1>3, NobodySends
  <2>2. attempts[n].status # "SUCCEEDED"
    BY <1>1, <1>2, <1>3 DEF IInv, TablesAgree
  <2>3. QED
    BY <2>1, <2>2, <1>3 DEF Attempt
<1>5. i < n
  BY <1>4, <1>1
<1>6. CASE attempts[n].kind = "MANUAL_RETRY"
  <2>1. attempts[n] = [kind |-> "MANUAL_RETRY", status |-> "FAILED"]
    BY <1>3, <1>4, <1>6 DEF Attempt
  <2>2. n \in i + 1 .. n
    BY <1>1, <1>5
  <2>3. QED
    BY <2>1, <2>2
<1>7. CASE attempts[n].kind = "AUTOMATIC"
  <2>1. PICK k \in i + 1 .. n - 1 : attempts[k] = [kind |-> "MANUAL_RETRY", status |-> "FAILED"]
    BY <1>1, <1>3, <1>5, <1>7 DEF IInv, AutomaticOnceUnlessReopened
  <2>2. QED
    BY <2>1, <1>1
<1>8. QED
  BY <1>3, <1>6, <1>7 DEF Attempt

LEMMA ClaimKeepsInvariant ==
    ASSUME IInv, NEW f \in Run, ClaimAttempt(f) PROVE IInv'
<1> DEFINE n == Len(attempts)
           a == [kind |-> IF f \in Daily THEN "AUTOMATIC" ELSE "MANUAL_RETRY",
                 status |-> "RUNNING"]
           e == [step |-> "claimed", tries |-> flow[f].tries, snapshot |-> summary.snapshot,
                 no |-> n + 1, answer |-> "DELIVERED"]
<1>1. /\ \A i \in 1..n : attempts[i].status # "RUNNING"
      /\ \A g \in Run : flow[g].step \notin Sending
  BY NobodySends DEF ClaimAttempt
<1>2. /\ attempts' = Append(attempts, a)
      /\ summary' = [summary EXCEPT !.status = "SENDING"]
      /\ flow' = [flow EXCEPT ![f] = e]
      /\ UNCHANGED <<tasks, chat>>
  BY DEF ClaimAttempt, Content
<1>3. attempts \in Seq(Attempt) /\ a \in Attempt /\ n \in Nat /\ DOMAIN attempts = 1..n
  BY DEF IInv, TypeOK, Attempt
<1>4. /\ attempts' \in Seq(Attempt) /\ Len(attempts') = n + 1
      /\ DOMAIN attempts' = 1 .. n + 1
      /\ \A i \in 1..n : attempts'[i] = attempts[i]
      /\ attempts'[n + 1] = a
  BY <1>2, <1>3, AppendProperties
<1>5. /\ summary'.status = "SENDING" /\ summary'.snapshot = summary.snapshot
      /\ summary'.notified = summary.notified
      /\ summary.notified \in 0..n /\ summary.snapshot \in Snapshot
  BY <1>2 DEF IInv, TypeOK
<1>6. /\ flow \in [Run -> Memory]
      /\ \A g \in Run : flow'[g] = IF g = f THEN e ELSE flow[g]
  BY <1>2 DEF IInv, TypeOK, Memory
<1> HIDE DEF n
<1>7. TypeOK'
  <2>1. e \in [step : {"new", "over"} \cup Working, tries : 0..Retries,
               snapshot : Snapshot, no : 0 .. n + 1, answer : Answer]
    BY <1>3, <1>5, <1>6 DEF Memory, Working, Sending, Answer
  <2>2. flow' \in [Run -> [step : {"new", "over"} \cup Working, tries : 0..Retries,
                           snapshot : Snapshot, no : 0 .. n + 1, answer : Answer]]
    <3>1. \A g \in Run : flow[g] \in [step : {"new", "over"} \cup Working, tries : 0..Retries,
                              snapshot : Snapshot, no : 0 .. n + 1, answer : Answer]
      BY <1>3, <1>6 DEF Memory, n
    <3> HIDE DEF e
    <3>2. QED
      BY <2>1, <3>1, <1>2, <1>6
  <2>3. chat' \subseteq (1 .. n + 1) \X Snapshot
    BY <1>2, <1>3 DEF IInv, TypeOK, n
  <2>4. tasks' \in Snapshot
    BY <1>2 DEF IInv, TypeOK
  <2>5. summary' \in [status : {"ABSENT", "PENDING", "SENDING", "SENT", "FAILED"},
                      snapshot : Snapshot, notified : 0 .. n + 1]
    <3>1. summary \in [status : {"ABSENT", "PENDING", "SENDING", "SENT", "FAILED"},
                       snapshot : Snapshot, notified : 0..n]
      BY DEF IInv, TypeOK, n
    <3>2. summary.notified \in 0 .. n + 1
      BY <1>3, <1>5
    <3>3. QED
      BY <1>2, <3>1, <3>2
  <2>6. QED
    BY <2>2, <2>3, <2>4, <2>5, <1>4 DEF TypeOK, Attempt
<1>8. MemoryAgrees'
  BY <1>1, <1>3, <1>4, <1>5, <1>6 DEF MemoryAgrees, Sending
<1>9. TablesAgree'
  BY <1>1, <1>2, <1>3, <1>4, <1>5 DEF IInv, TablesAgree
<1>10. OneSenderAtATime'
  <2>1. \A g \in Run : flow'[g].step \in Sending => g = f
    BY <1>1, <1>6
  <2>2. flow'[f].no = n + 1
    BY <1>6
  <2>3. QED
    BY <1>1, <1>3, <1>4, <2>1, <2>2 DEF OneSenderAtATime
<1>11. NotifiedIsNewestSuccess'
  BY <1>1, <1>2, <1>3, <1>4, <1>5 DEF IInv, NotifiedIsNewestSuccess
<1>12. AutomaticOnceUnlessReopened'
  <2>1. SUFFICES ASSUME NEW i \in 1 .. n + 1, NEW j \in 1 .. n + 1, i < j,
                        attempts'[i].status = "SUCCEEDED", attempts'[j].kind = "AUTOMATIC"
                 PROVE  \E k \in i + 1 .. j - 1 :
                           attempts'[k] = [kind |-> "MANUAL_RETRY", status |-> "FAILED"]
    BY <1>4 DEF AutomaticOnceUnlessReopened
  <2>2. i \in 1..n /\ attempts[i].status = "SUCCEEDED"
    BY <2>1, <1>3, <1>4
  <2>3. CASE j \in 1..n
    <3>1. PICK k \in i + 1 .. j - 1 :
             attempts[k] = [kind |-> "MANUAL_RETRY", status |-> "FAILED"]
      BY <1>3, <1>4, <2>1, <2>2, <2>3 DEF IInv, AutomaticOnceUnlessReopened
    <3>2. attempts'[k] = attempts[k]
      BY <1>3, <1>4, <2>2, <2>3
    <3>3. QED
      BY <3>1, <3>2
  <2>4. CASE j = n + 1
    <3>1. f \in Daily /\ ~Blocked(f)
      BY <1>4, <2>1, <2>4 DEF ClaimAttempt
    <3>2. PICK k \in i + 1 .. n : attempts[k] = [kind |-> "MANUAL_RETRY", status |-> "FAILED"]
      BY <3>1, <2>2, ReopenedBeforeClaim DEF n
    <3>3. attempts'[k] = attempts[k] /\ k \in i + 1 .. j - 1
      BY <1>3, <1>4, <2>2, <2>4
    <3>4. QED
      BY <3>2, <3>3
  <2>5. QED
    BY <1>3, <2>1, <2>3, <2>4
<1>13. QED
  BY <1>7, <1>8, <1>9, <1>10, <1>11, <1>12 DEF IInv

\* While f sends, it is the only sender and holds the last attempt.
LEMMA SenderHoldsLast ==
    ASSUME IInv, NEW f \in Run, flow[f].step \in Sending
    PROVE  /\ flow[f].no = Len(attempts) /\ flow[f].no \in 1..Len(attempts)
           /\ attempts[flow[f].no].status = "RUNNING"
           /\ summary.status = "SENDING"
           /\ \A g \in Run : g # f => flow[g].step \notin Sending
<1>1. flow[f].no = Len(attempts) /\ \A g \in Run : g # f => flow[g].step \notin Sending
  BY DEF IInv, OneSenderAtATime
<1>2. flow[f].no \in 1..Len(attempts) /\ attempts[flow[f].no].status = "RUNNING"
  BY DEF IInv, TypeOK, MemoryAgrees
<1>3. summary.status = "SENDING"
  BY <1>1, <1>2 DEF IInv, TypeOK, TablesAgree
<1>4. QED
  BY <1>1, <1>2, <1>3

\* Whatever the webhook answered, the sender has shown at most one message more.
LEMMA SendKeepsInvariant ==
    ASSUME IInv, NEW f \in Run, Send(f) PROVE IInv'
<1> DEFINE sent == <<flow[f].no, flow[f].snapshot>>
<1>1. /\ flow[f].no = Len(attempts) /\ flow[f].no \in 1..Len(attempts)
      /\ attempts[flow[f].no].status = "RUNNING"
      /\ \A g \in Run : g # f => flow[g].step \notin Sending
  BY SenderHoldsLast DEF Send, Sending
<1>2. flow[f].snapshot = summary.snapshot /\ sent \in (1..Len(attempts)) \X Snapshot
  BY <1>1 DEF Send, Sending, IInv, TypeOK, MemoryAgrees
<1>3. PICK delivered \in BOOLEAN :
        /\ chat' = IF delivered THEN chat \cup {sent} ELSE chat
        /\ \/ \E answer \in Reported(delivered) :
                 flow' = [flow EXCEPT ![f].step = "answered", ![f].answer = answer]
           \/ Raise(f)
  BY DEF Send
<1>4. UNCHANGED <<tasks, summary, attempts>> /\ flow[f].step = "claimed"
  BY DEF Send, stored
<1>5. /\ chat \subseteq chat' /\ chat' \subseteq (1..Len(attempts)) \X Snapshot
      /\ \A m \in chat' : m[2] = summary.snapshot
  <2>1. /\ chat \subseteq (1..Len(attempts)) \X Snapshot
        /\ \A m \in chat : m[2] = summary.snapshot
    BY DEF IInv, TypeOK, TablesAgree
  <2>2. sent[2] = summary.snapshot
    BY <1>2
  <2> HIDE DEF sent
  <2>3. QED
    BY <2>1, <2>2, <1>2, <1>3
<1>6. TablesAgree' /\ NotifiedIsNewestSuccess' /\ AutomaticOnceUnlessReopened'
  BY <1>4, <1>5 DEF IInv, TablesAgree, NotifiedIsNewestSuccess, AutomaticOnceUnlessReopened
<1>7. PICK e \in Memory :
        /\ flow' = [flow EXCEPT ![f] = e]
        /\ e.step # "built"
        /\ e.step \in Sending => /\ e.step = "answered" /\ e.no = flow[f].no
                                 /\ e.snapshot = flow[f].snapshot
                                 /\ e.answer = "DELIVERED" => sent \in chat'
  <2>1. CASE Raise(f)
    <3>1. PICK e \in Memory : e.step \in {"new", "over"} /\ flow' = [flow EXCEPT ![f] = e]
      BY <2>1, RaisedMemory
    <3>2. QED
      BY <3>1 DEF Sending
  <2>2. CASE \E answer \in Reported(delivered) :
                flow' = [flow EXCEPT ![f].step = "answered", ![f].answer = answer]
    <3>1. PICK answer \in Reported(delivered) :
             flow' = [flow EXCEPT ![f].step = "answered", ![f].answer = answer]
      BY <2>2
    <3> DEFINE e == [flow[f] EXCEPT !.step = "answered", !.answer = answer]
    <3>2. flow \in [Run -> Memory]
      BY DEF IInv, TypeOK, Memory
    <3>3. flow' = [flow EXCEPT ![f] = e] /\ e \in Memory
      BY <3>1, <3>2 DEF Memory, Working, Sending, Reported, Answer
    <3>4. answer = "DELIVERED" => delivered
      BY <3>1 DEF Reported
    <3>5. /\ e.step = "answered" /\ e.no = flow[f].no /\ e.snapshot = flow[f].snapshot
          /\ e.answer = answer
      BY <3>2 DEF Memory
    <3>6. QED
      BY <3>3, <3>4, <3>5, <1>3
  <2>3. QED
    BY <1>3, <2>1, <2>2
<1>8. \A g \in Run : flow'[g] = IF g = f THEN e ELSE flow[g]
  BY <1>7 DEF IInv, TypeOK
<1>9. TypeOK'
  <2>1. flow' \in [Run -> Memory]
    BY <1>7 DEF IInv, TypeOK, Memory
  <2>2. QED
    BY <2>1, <1>4, <1>5 DEF IInv, TypeOK, Memory
<1>10. MemoryAgrees'
  BY <1>1, <1>2, <1>4, <1>5, <1>7, <1>8 DEF IInv, MemoryAgrees, Sending
<1>11. OneSenderAtATime'
  BY <1>1, <1>4, <1>7, <1>8 DEF IInv, OneSenderAtATime
<1>12. QED
  BY <1>6, <1>9, <1>10, <1>11 DEF IInv

LEMMA CompleteKeepsInvariant ==
    ASSUME IInv, NEW f \in Run, Complete(f) PROVE IInv'
<1> DEFINE n == Len(attempts)
           ok == flow[f].answer = "DELIVERED"
           end == IF ok THEN "SUCCEEDED" ELSE "FAILED"
<1>1. /\ flow[f].no = n /\ n \in 1..n /\ attempts[n].status = "RUNNING"
      /\ summary.status = "SENDING"
      /\ \A g \in Run : g # f => flow[g].step \notin Sending
  BY SenderHoldsLast DEF Complete, Sending
<1>2. attempts \in Seq(Attempt) /\ n \in Nat /\ DOMAIN attempts = 1..n
  BY DEF IInv, TypeOK, Attempt
<1>3. UNCHANGED <<tasks, chat>> /\ flow[f].step = "answered"
  BY DEF Complete
<1>4. /\ attempts' = [attempts EXCEPT ![n] = [attempts[n] EXCEPT !.status = end]]
      /\ [attempts[n] EXCEPT !.status = end] \in Attempt
  <2>1. attempts' = [attempts EXCEPT ![n].status = end]
    BY <1>1 DEF Complete, Closed
  <2>2. attempts[n] \in Attempt /\ end \in {"RUNNING", "SUCCEEDED", "FAILED"}
    BY <1>1, <1>2
  <2> HIDE DEF n, end
  <2>3. [attempts[n] EXCEPT !.status = end] \in Attempt
    BY <2>2 DEF Attempt
  <2>4. QED
    BY <2>1, <2>3
<1>5. /\ attempts' \in Seq(Attempt) /\ Len(attempts') = n /\ DOMAIN attempts' = 1..n
      /\ \A i \in 1..n : i # n => attempts'[i] = attempts[i]
      /\ attempts'[n].status = end /\ attempts'[n].kind = attempts[n].kind
  <2>1. \A i \in 1..n : attempts[i] \in Attempt
    BY <1>2
  <2>2. attempts' \in Seq(Attempt) /\ Len(attempts') = n
    BY <1>1, <1>2, <1>4, ExceptSeq
  <2>3. QED
    BY <1>1, <1>2, <1>4, <2>1, <2>2 DEF Attempt
<1>6. /\ summary'.status = (IF ok THEN "SENT" ELSE "FAILED")
      /\ summary'.notified = (IF ok THEN n ELSE summary.notified)
      /\ summary'.snapshot = summary.snapshot
      /\ summary.notified \in 0..n
      /\ summary' \in [status : {"ABSENT", "PENDING", "SENDING", "SENT", "FAILED"},
                       snapshot : Snapshot, notified : 0..n]
  <2>1. summary \in [status : {"ABSENT", "PENDING", "SENDING", "SENT", "FAILED"},
                     snapshot : Snapshot, notified : 0..n]
    BY DEF IInv, TypeOK
  <2>2. summary' = [summary EXCEPT !.status = IF ok THEN "SENT" ELSE "FAILED",
                                   !.notified = IF ok THEN n ELSE summary.notified]
    BY <1>1 DEF Complete, Notified
  <2>3. n \in 0..n
    BY <1>2
  <2> HIDE DEF n, ok
  <2>4. QED
    BY <2>1, <2>2, <2>3
<1>7. PICK e \in Memory : e.step \in {"new", "over"} /\ flow' = [flow EXCEPT ![f] = e]
  BY RaisedMemory DEF Complete
<1>8. /\ flow' \in [Run -> Memory]
      /\ \A g \in Run : flow'[g] = IF g = f THEN e ELSE flow[g]
      /\ \A g \in Run : flow'[g].step \notin Sending
  BY <1>1, <1>7 DEF IInv, TypeOK, Memory, Sending
<1>9. ok => <<n, summary.snapshot>> \in chat
  BY <1>1, <1>3 DEF IInv, MemoryAgrees
<1> HIDE DEF n, ok
<1>10. TypeOK'
  BY <1>3, <1>5, <1>6, <1>8 DEF IInv, TypeOK, Memory, Attempt, n
<1>11. MemoryAgrees'
  <2>1. summary'.status # "ABSENT"
    BY <1>6
  <2>2. \A g \in Run : flow'[g].step # "answered"
    BY <1>8 DEF Sending
  <2>3. QED
    BY <1>8, <2>1, <2>2 DEF MemoryAgrees
<1>12. TablesAgree'
  BY <1>1, <1>2, <1>3, <1>5, <1>6 DEF IInv, TablesAgree
<1>13. OneSenderAtATime'
  <2>1. \A i \in 1..n : attempts'[i].status # "RUNNING"
    BY <1>1, <1>2, <1>5 DEF IInv, OneSenderAtATime, n
  <2>2. QED
    BY <1>5, <1>8, <2>1 DEF OneSenderAtATime
<1>14. NotifiedIsNewestSuccess'
  BY <1>1, <1>2, <1>3, <1>5, <1>6, <1>9 DEF IInv, NotifiedIsNewestSuccess
<1>15. AutomaticOnceUnlessReopened'
  BY <1>1, <1>2, <1>5 DEF IInv, AutomaticOnceUnlessReopened, Attempt
<1>16. QED
  BY <1>10, <1>11, <1>12, <1>13, <1>14, <1>15 DEF IInv

-----------------------------------------------------------------------------
(* The theorems *)

LEMMA BuildKeepsInvariant ==
    ASSUME IInv, NEW f \in Run, Build(f) PROVE IInv'
<1>1. flow[f] \in Memory /\ tasks \in Snapshot /\ f \in DOMAIN flow
  BY DEF IInv, TypeOK, Memory
<1>2. CASE Observe(f)
  <2>1. [flow[f] EXCEPT !.step = "observed", !.snapshot = tasks] \in Memory
    BY <1>1 DEF Memory, Working
  <2>2. QED
    BY <2>1, <1>1, <1>2, MemoryStep DEF Observe, Memory, Sending
<1>3. CASE FindSummary(f)
  <2>1. [flow[f] EXCEPT !.step = "built"] \in Memory
    BY <1>1 DEF Memory, Working
  <2>2. QED
    BY <2>1, <1>1, <1>3, MemoryStep DEF FindSummary, Goto, Memory, Sending
<1>4. CASE SeeNoSummary(f)
  <2>1. [flow[f] EXCEPT !.step = "inserting"] \in Memory
    BY <1>1 DEF Memory, Working
  <2>2. QED
    BY <2>1, <1>1, <1>4, MemoryStep DEF SeeNoSummary, Goto, Memory, Sending
<1>5. CASE LoseInsert(f)
  <2>1. [flow[f] EXCEPT !.step = "built"] \in Memory
    BY <1>1 DEF Memory, Working
  <2>2. CASE Goto(f, "built")
    BY <2>1, <2>2, <1>1, <1>5, MemoryStep DEF LoseInsert, Goto, Memory, Sending
  <2>3. CASE Raise(f)
    BY <2>3, <1>5, RaiseKeepsInvariant DEF LoseInsert
  <2>4. QED
    BY <2>2, <2>3, <1>5 DEF LoseInsert
<1>6. QED
  BY <1>2, <1>3, <1>4, <1>5, InsertKeepsInvariant DEF Build

\* The invariant of the two flows: types, what the runs remember, what the
\* tables say of each other, and the three safety properties that lean on them.
THEOREM InvariantHolds == Spec => []IInv
<1>1. Init => IInv
  <2> SUFFICES ASSUME Init PROVE IInv
    OBVIOUS
  <2>1. attempts = <<>> /\ Len(attempts) = 0 /\ chat = {} /\ summary.notified = 0
    BY DEF Init
  <2>2. /\ \A f \in Run : flow[f] = At("new", 0)
        /\ At("new", 0) \in Memory /\ At("new", 0).step = "new"
    BY <2>1, ConstantsOK DEF Init, At, Memory, Snapshot, Answer
  <2>3. TypeOK
    BY <2>1, <2>2, ConstantsOK DEF Init, TypeOK, Memory, Snapshot
  <2>4. MemoryAgrees /\ OneSenderAtATime
    BY <2>1, <2>2 DEF MemoryAgrees, OneSenderAtATime, Sending
  <2>5. TablesAgree /\ NotifiedIsNewestSuccess /\ AutomaticOnceUnlessReopened
    BY <2>1 DEF TablesAgree, NotifiedIsNewestSuccess, AutomaticOnceUnlessReopened
  <2>6. QED
    BY <2>3, <2>4, <2>5 DEF IInv
<1>2. IInv /\ [Next]_vars => IInv'
  <2> SUFFICES ASSUME IInv, [Next]_vars PROVE IInv'
    OBVIOUS
  <2>1. ASSUME NEW f \in Run, Build(f) PROVE IInv'
    BY <2>1, BuildKeepsInvariant
  <2>2. ASSUME NEW f \in Run, ClaimNothing(f) PROVE IInv'
    BY <2>2, RaiseKeepsInvariant DEF ClaimNothing
  <2>3. ASSUME NEW f \in Run, ClaimAttempt(f) PROVE IInv'
    BY <2>3, ClaimKeepsInvariant
  <2>4. ASSUME NEW f \in Run, Send(f) PROVE IInv'
    BY <2>4, SendKeepsInvariant
  <2>5. ASSUME NEW f \in Run, Complete(f) PROVE IInv'
    BY <2>5, CompleteKeepsInvariant
  <2>6. ASSUME NEW f \in Run, StepFails(f) \/ Crash(f) PROVE IInv'
    BY <2>6, RaiseKeepsInvariant DEF StepFails, Crash
  <2>7. CASE TasksMove
    <3>1. tasks' \in Snapshot
      BY <2>7, ConstantsOK DEF TasksMove, IInv, TypeOK, Snapshot
    <3>2. QED
      BY <3>1, <2>7 DEF TasksMove, stored, IInv, TypeOK, MemoryAgrees, TablesAgree,
         OneSenderAtATime, NotifiedIsNewestSuccess, AutomaticOnceUnlessReopened
  <2>8. CASE UNCHANGED vars
    BY <2>8 DEF vars, IInv, TypeOK, MemoryAgrees, TablesAgree,
       OneSenderAtATime, NotifiedIsNewestSuccess, AutomaticOnceUnlessReopened
  <2>9. QED
    BY <2>1, <2>2, <2>3, <2>4, <2>5, <2>6, <2>7, <2>8 DEF Next, Notify
<1>3. QED
  BY <1>1, <1>2, PTL DEF Spec

\* However many runs overlap, one at a time is between its claim and its
\* completion, and only the last attempt can be running.
THEOREM OneSender == Spec => []OneSenderAtATime
<1>1. IInv => OneSenderAtATime
  BY DEF IInv
<1>2. QED
  BY <1>1, InvariantHolds, PTL

\* notified_at is never behind a delivery and never names anything else.
THEOREM NotifiedNewest == Spec => []NotifiedIsNewestSuccess
<1>1. IInv => NotifiedIsNewestSuccess
  BY DEF IInv
<1>2. QED
  BY <1>1, InvariantHolds, PTL

\* After a delivery, the daily flow sends again only when a resend failed.
THEOREM AutomaticOnce == Spec => []AutomaticOnceUnlessReopened
<1>1. IInv => AutomaticOnceUnlessReopened
  BY DEF IInv
<1>2. QED
  BY <1>1, InvariantHolds, PTL

\* No step changes the stored snapshot, and every message that is added shows it.
THEOREM SnapshotIsFrozen == Spec => SnapshotFrozen
<1> DEFINE Frozen ==
        /\ summary.status # "ABSENT" => summary'.snapshot = summary.snapshot
        /\ \A m \in chat' : m[2] = summary'.snapshot
<1>1. IInv /\ IInv' /\ [Next]_vars => [Frozen]_vars
  <2> SUFFICES ASSUME IInv, IInv', Next PROVE Frozen
    OBVIOUS
  <2>1. \A m \in chat' : m[2] = summary'.snapshot
    BY DEF IInv, TablesAgree
  <2>2. summary.status # "ABSENT" => summary'.snapshot = summary.snapshot
    <3> SUFFICES ASSUME summary.status # "ABSENT" PROVE summary'.snapshot = summary.snapshot
      OBVIOUS
    <3>1. ASSUME NEW f \in Run, Build(f) PROVE summary' = summary
      BY <3>1 DEF Build, Observe, FindSummary, SeeNoSummary, InsertSummary, RowIsNew,
         LoseInsert, stored
    <3>2. ASSUME NEW f \in Run, ClaimAttempt(f) \/ Complete(f)
          PROVE  summary'.snapshot = summary.snapshot
      BY <3>2 DEF ClaimAttempt, Complete, IInv, TypeOK
    <3>3. ASSUME NEW f \in Run, ClaimNothing(f) \/ Send(f) \/ StepFails(f) \/ Crash(f)
          PROVE  summary' = summary
      BY <3>3 DEF ClaimNothing, Send, StepFails, Crash, stored
    <3>4. CASE TasksMove
      BY <3>4 DEF TasksMove, stored
    <3>5. QED
      BY <3>1, <3>2, <3>3, <3>4 DEF Next, Notify
  <2>3. QED
    BY <2>1, <2>2
<1>2. QED
  BY <1>1, InvariantHolds, PTL DEF Spec, SnapshotFrozen
=============================================================================
