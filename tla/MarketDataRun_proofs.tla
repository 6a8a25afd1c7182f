------------------------ MODULE MarketDataRun_proofs ------------------------
(***************************************************************************)
(* Proofs about MarketDataRun: its inductive invariant IInv, the safety    *)
(* properties that follow from it, and the refinement of SyncLedger.       *)
(***************************************************************************)
EXTENDS MarketDataRun, TLAPS

\* The newest running attempt is every running attempt: the ORDER BY of the
\* claim never leaves one out.
LEMMA ActiveIsRunning ==
    ASSUME TypeOK, RunningAgrees, NEW r \in Run
    PROVE  Active(r) = {a \in FlowRun : Target[a] = r /\ attempt[a].status = "RUNNING"}
<1>1. ASSUME NEW a \in FlowRun, NEW b \in FlowRun, Target[a] = r, Target[b] = r,
             attempt[a].status = "RUNNING", attempt[b].status = "RUNNING"
      PROVE  attempt[b].no <= attempt[a].no
  BY <1>1 DEF RunningAgrees, TypeOK
<1>2. QED
  BY <1>1 DEF Active, AttemptsOf

\* Opening an attempt for a flow_run_id that has none keeps the invariant: the
\* step common to the first claim of a run and to its retries.
LEMMA OpenKeepsInvariant ==
    ASSUME IInv, NEW f \in FlowRun, attempt[f].status = "NONE",
           run[Target[f]].status # "SUCCEEDED", OpenAttempt(f, Target[f])
    PROVE  IInv'
<1> DEFINE r == Target[f]
           n == run[r].count + 1
<1>1. /\ TypeOK /\ ClaimsExist /\ RunningAgrees /\ NumbersInRange
      /\ SuccessAgrees /\ WrittenIsShown
  BY DEF IInv
<1>2. r \in Run /\ n \in Nat \ {0} /\ \A q \in Run : run[q].count \in Nat
  BY <1>1, ConstantsOK DEF TypeOK
<1>3. \A a \in FlowRun : a \in Active(r) <=> Target[a] = r /\ attempt[a].status = "RUNNING"
  BY <1>1, <1>2, ActiveIsRunning
<1>4. /\ attempt'[f] = [status |-> "RUNNING", no |-> n, left |-> Lease]
      /\ \A a \in FlowRun \ {f} :
            attempt'[a] = IF a \in Active(r)
                          THEN Ended(a, "ABANDONED") ELSE attempt[a]
      /\ attempt' \in [FlowRun -> [status : AttemptStatus, no : Nat, left : 0..Lease]]
  <2>1. attempt' = [a \in FlowRun |->
          IF a = f
          THEN [status |-> "RUNNING", no |-> n, left |-> Lease]
          ELSE IF a \in Active(r)
               THEN Ended(a, "ABANDONED") ELSE attempt[a]]
    BY DEF OpenAttempt
  <2>2. [status |-> "RUNNING", no |-> n, left |-> Lease]
           \in [status : AttemptStatus, no : Nat, left : 0..Lease]
    BY <1>2, ConstantsOK DEF AttemptStatus
  <2>3. ASSUME NEW a \in FlowRun
        PROVE  Ended(a, "ABANDONED") \in [status : AttemptStatus, no : Nat, left : 0..Lease]
    BY <1>1, ConstantsOK DEF TypeOK, AttemptStatus, Ended
  <2>4. \A a \in FlowRun : attempt[a] \in [status : AttemptStatus, no : Nat, left : 0..Lease]
    BY <1>1 DEF TypeOK
  <2> HIDE DEF n
  <2>5. QED
    BY <2>1, <2>2, <2>3, <2>4
<1>5. /\ run'[r].status = "RUNNING" /\ run'[r].count = n /\ run'[r].winner = run[r].winner
      /\ \A q \in Run \ {r} : run'[q] = run[q]
      /\ run' \in [Run -> [status : RunStatus, count : Nat, winner : MaybeAttempt]]
  BY <1>1, <1>2 DEF OpenAttempt, TypeOK, RunStatus
<1>6. /\ flow'[f] = At("fetching", f)
      /\ \A g \in FlowRun \ {f} : flow'[g] = flow[g]
      /\ flow' \in [FlowRun -> [step : Step, claim : MaybeAttempt, block : Block]]
  BY <1>1 DEF OpenAttempt, Fetching, TypeOK, At, Step, Block, NoBlock, MaybeAttempt
<1>7. UNCHANGED <<rows, written, starts, stamp, revision>>
  BY DEF OpenAttempt, clickhouse, world
<1>8. TypeOK'
  BY <1>1, <1>4, <1>5, <1>6, <1>7 DEF TypeOK, OpenAttempt, Active, AttemptsOf
<1>9. \A a \in FlowRun \ {f} :
         /\ attempt'[a].no = attempt[a].no
         /\ attempt'[a].status = IF a \in Active(r) THEN "ABANDONED" ELSE attempt[a].status
  BY <1>1, <1>4 DEF TypeOK, Ended
<1>10. ClaimsExist'
  <2>1. \A a \in FlowRun : attempt[a].status # "NONE" => attempt'[a].status # "NONE"
    BY <1>4, <1>9
  <2>2. attempt'[f].status # "NONE"
    BY <1>4
  <2>3. /\ flow'[f].step = "fetching" /\ flow'[f].claim = f
    BY <1>6 DEF At
  <2>4. ASSUME NEW g \in FlowRun \ {f}
        PROVE  IF flow'[g].step \in {"idle", "claiming", "inserting"}
               THEN /\ flow'[g].claim = NoAttempt
                    /\ flow'[g].step = "inserting" => attempt'[g].status = "NONE"
               ELSE /\ flow'[g].claim \in FlowRun
                    /\ attempt'[flow'[g].claim].status # "NONE"
    <3>1. attempt[g].status = "NONE" => attempt'[g].status = "NONE"
      BY <1>3, <1>9
    <3>2. flow'[g] = flow[g]
      BY <1>6
    <3>3. QED
      BY <1>1, <2>1, <3>1, <3>2 DEF ClaimsExist
  <2>5. QED
    BY <2>2, <2>3, <2>4 DEF ClaimsExist
<1>11. RunningAgrees'
  <2>1. ASSUME NEW a \in FlowRun, attempt'[a].status = "RUNNING"
        PROVE  /\ run'[Target[a]].status = "RUNNING"
               /\ attempt'[a].no = run'[Target[a]].count
    <3>1. CASE a = f
      BY <3>1, <1>4, <1>5
    <3>2. CASE a # f
      <4>1. attempt[a].status = "RUNNING" /\ attempt'[a].no = attempt[a].no /\ Target[a] # r
        BY <2>1, <3>2, <1>3, <1>9
      <4>2. Target[a] \in Run
        BY ConstantsOK
      <4>3. QED
        BY <4>1, <4>2, <1>1, <1>5 DEF RunningAgrees
    <3>3. QED
      BY <3>1, <3>2
  <2>2. ASSUME NEW q \in Run, run'[q].status = "RUNNING"
        PROVE  \E a \in FlowRun : Target[a] = q /\ attempt'[a].status = "RUNNING"
    <3>1. CASE q = r
      BY <3>1, <1>4
    <3>2. CASE q # r
      <4>1. PICK a \in FlowRun : Target[a] = q /\ attempt[a].status = "RUNNING"
        BY <2>2, <3>2, <1>1, <1>5 DEF RunningAgrees
      <4>2. QED
        BY <4>1, <3>2, <1>3, <1>9
    <3>3. QED
      BY <3>1, <3>2
  <2>3. QED
    BY <2>1, <2>2 DEF RunningAgrees
<1>12. NumbersInRange'
  <2>1. ASSUME NEW a \in FlowRun, attempt'[a].status # "NONE"
        PROVE  attempt'[a].no \in 1..run'[Target[a]].count
    <3>1. CASE a = f
      BY <3>1, <1>2, <1>4, <1>5
    <3>2. CASE a # f
      <4>1. attempt'[a].no = attempt[a].no /\ attempt[a].status # "NONE"
        BY <2>1, <3>2, <1>9 DEF Active, AttemptsOf
      <4>2. attempt[a].no \in 1..run[Target[a]].count
        BY <4>1, <1>1 DEF NumbersInRange
      <4>3. Target[a] \in Run /\ run[Target[a]].count \in Nat
        BY <1>1, ConstantsOK DEF TypeOK
      <4>4. run'[Target[a]].count \in Nat /\ run'[Target[a]].count >= run[Target[a]].count
        BY <4>3, <1>2, <1>5
      <4>5. QED
        BY <4>1, <4>2, <4>3, <4>4
    <3>3. QED
      BY <3>1, <3>2
  <2>2. ASSUME NEW q \in Run, NEW m \in 1..run'[q].count
        PROVE  \E a \in FlowRun : /\ Target[a] = q
                                  /\ attempt'[a].status # "NONE"
                                  /\ attempt'[a].no = m
    <3>1. CASE q = r /\ m = n
      BY <3>1, <1>4
    <3>2. CASE ~(q = r /\ m = n)
      <4>1. m \in 1..run[q].count
        BY <3>2, <1>2, <1>5
      <4>2. PICK a \in FlowRun : /\ Target[a] = q
                                 /\ attempt[a].status # "NONE"
                                 /\ attempt[a].no = m
        BY <4>1, <1>1 DEF NumbersInRange
      <4>3. a # f
        BY <4>2
      <4>4. attempt'[a].status # "NONE" /\ attempt'[a].no = m
        BY <4>2, <4>3, <1>9
      <4>5. QED
        BY <4>2, <4>4
    <3>3. QED
      BY <3>1, <3>2
  <2>3. \A q \in Run : run'[q].status = "ABSENT" => run'[q].count = 0
    BY <1>1, <1>5 DEF NumbersInRange
  <2>4. ASSUME NEW a \in FlowRun, NEW b \in FlowRun, Target[a] = Target[b],
               attempt'[a].status # "NONE", attempt'[b].status # "NONE",
               attempt'[a].no = attempt'[b].no
        PROVE  a = b
    <3>1. ASSUME NEW c \in FlowRun \ {f}, Target[c] = r, attempt'[c].status # "NONE"
          PROVE  attempt'[c].no # n
      BY <3>1, <1>1, <1>2, <1>3, <1>9 DEF NumbersInRange, TypeOK
    <3>2. CASE a # f /\ b # f
      BY <3>2, <2>4, <1>1, <1>3, <1>9 DEF NumbersInRange
    <3>3. QED
      BY <2>4, <3>1, <3>2, <1>4
  <2>5. QED
    BY <2>1, <2>2, <2>3, <2>4 DEF NumbersInRange
<1>13. SuccessAgrees'
  <2>1. ASSUME NEW a \in FlowRun, attempt'[a].status = "SUCCEEDED"
        PROVE  run'[Target[a]].status = "SUCCEEDED" /\ run'[Target[a]].winner = a
    <3>1. a # f /\ attempt[a].status = "SUCCEEDED"
      BY <2>1, <1>4, <1>9
    <3>2. Target[a] # r /\ Target[a] \in Run
      BY <3>1, <1>1, ConstantsOK DEF SuccessAgrees
    <3>3. QED
      BY <3>1, <3>2, <1>1, <1>5 DEF SuccessAgrees
  <2>2. ASSUME NEW q \in Run
        PROVE  IF run'[q].status = "SUCCEEDED"
               THEN /\ run'[q].winner \in FlowRun
                    /\ Target[run'[q].winner] = q
                    /\ attempt'[run'[q].winner].status = "SUCCEEDED"
               ELSE run'[q].winner = NoAttempt
    <3>1. CASE q = r
      BY <3>1, <1>1, <1>5 DEF SuccessAgrees
    <3>2. CASE q # r
      BY <3>2, <1>1, <1>3, <1>5, <1>9 DEF SuccessAgrees
    <3>3. QED
      BY <3>1, <3>2
  <2>3. QED
    BY <2>1, <2>2 DEF SuccessAgrees
<1>14. WrittenIsShown'
  BY <1>1, <1>3, <1>4, <1>6, <1>7, <1>9 DEF WrittenIsShown, At, NoBlock
<1>15. QED
  BY <1>8, <1>10, <1>11, <1>12, <1>13, <1>14 DEF IInv

\* The numbering only depends on which attempts exist, their numbers and the
\* counts of the runs.
LEMMA NumbersKept ==
    ASSUME NumbersInRange,
           \A a \in FlowRun : /\ attempt'[a].no = attempt[a].no
                              /\ attempt'[a].status # "NONE" <=> attempt[a].status # "NONE",
           \A q \in Run : /\ run'[q].count = run[q].count
                          /\ run'[q].status = "ABSENT" => run[q].status = "ABSENT"
    PROVE  NumbersInRange'
<1>1. \A a \in FlowRun : Target[a] \in Run
  BY ConstantsOK
<1>2. QED
  BY <1>1 DEF NumbersInRange

\* Closing an attempt its owner still holds keeps the invariant, with either
\* outcome: the step common to publish_success and record_failure.
LEMMA CloseKeepsInvariant ==
    ASSUME IInv, NEW f \in FlowRun, flow[f].step \in {"published", "failing"},
           Owns(flow[f].claim), NEW outcome \in {"SUCCEEDED", "FAILED"},
           outcome = "SUCCEEDED" => flow[f].step = "published",
           Close(flow[f].claim, outcome),
           flow' \in {[flow EXCEPT ![f] = Idle],
                      [flow EXCEPT ![f] = At("failing", flow[f].claim)]},
           issues' \in {issues, issues \cup {flow[f].claim}},
           UNCHANGED <<rows, written, starts, stamp, revision>>
    PROVE  IInv'
<1> DEFINE c == flow[f].claim
           r == Target[c]
<1>1. /\ TypeOK /\ ClaimsExist /\ RunningAgrees /\ NumbersInRange
      /\ SuccessAgrees /\ WrittenIsShown
  BY DEF IInv
<1>2. c \in FlowRun /\ r \in Run /\ attempt[c].status = "RUNNING" /\ run[r].status = "RUNNING"
  BY <1>1, ConstantsOK DEF ClaimsExist, Owns
<1>3. /\ attempt'[c] = Ended(c, outcome)
      /\ \A a \in FlowRun \ {c} : attempt'[a] = attempt[a]
      /\ attempt' \in [FlowRun -> [status : AttemptStatus, no : Nat, left : 0..Lease]]
  BY <1>1, <1>2, ConstantsOK DEF Close, Ended, TypeOK, AttemptStatus
<1>4. attempt'[c].status = outcome /\ attempt'[c].no = attempt[c].no
  BY <1>3 DEF Ended
<1>5. /\ run'[r].status = outcome /\ run'[r].count = run[r].count
      /\ run'[r].winner = IF outcome = "SUCCEEDED" THEN c ELSE NoAttempt
      /\ \A q \in Run \ {r} : run'[q] = run[q]
      /\ run' \in [Run -> [status : RunStatus, count : Nat, winner : MaybeAttempt]]
  BY <1>1, <1>2 DEF Close, TypeOK, RunStatus, MaybeAttempt
<1>6. /\ flow'[f] \in {Idle, At("failing", c)}
      /\ \A g \in FlowRun \ {f} : flow'[g] = flow[g]
      /\ flow' \in [FlowRun -> [step : Step, claim : MaybeAttempt, block : Block]]
  <2>1. /\ Idle \in [step : Step, claim : MaybeAttempt, block : Block]
        /\ At("failing", c) \in [step : Step, claim : MaybeAttempt, block : Block]
    BY <1>2 DEF Idle, At, Step, Block, NoBlock, MaybeAttempt
  <2>2. flow \in [FlowRun -> [step : Step, claim : MaybeAttempt, block : Block]]
    BY <1>1 DEF TypeOK
  <2>3. CASE flow' = [flow EXCEPT ![f] = Idle]
    BY <2>1, <2>2, <2>3
  <2>4. CASE flow' = [flow EXCEPT ![f] = At("failing", c)]
    BY <2>1, <2>2, <2>4
  <2>5. QED
    BY <2>3, <2>4
<1>7. \A a \in FlowRun : attempt[a].status = "RUNNING" /\ Target[a] = r => a = c
  BY <1>1, <1>2 DEF RunningAgrees, NumbersInRange
<1>8. TypeOK'
  BY <1>1, <1>2, <1>3, <1>5, <1>6 DEF TypeOK
<1>9. ClaimsExist'
  <2>1. \A a \in FlowRun : attempt'[a].status = "NONE" <=> attempt[a].status = "NONE"
    BY <1>2, <1>3, <1>4
  <2>2. flow'[f].step \in {"idle", "failing"}
    BY <1>6 DEF Idle, At
  <2>3. /\ flow'[f].step = "idle" => flow'[f].claim = NoAttempt
        /\ flow'[f].step = "failing" => flow'[f].claim = c
    BY <1>6 DEF Idle, At
  <2>4. attempt'[c].status # "NONE"
    BY <1>2, <2>1
  <2>5. ASSUME NEW g \in FlowRun \ {f}
        PROVE  IF flow'[g].step \in {"idle", "claiming", "inserting"}
               THEN /\ flow'[g].claim = NoAttempt
                    /\ flow'[g].step = "inserting" => attempt'[g].status = "NONE"
               ELSE /\ flow'[g].claim \in FlowRun
                    /\ attempt'[flow'[g].claim].status # "NONE"
    BY <1>1, <1>6, <2>1 DEF ClaimsExist
  <2> HIDE DEF c
  <2>6. QED
    BY <1>2, <2>2, <2>3, <2>4, <2>5 DEF ClaimsExist
<1>10. RunningAgrees'
  <2>1. ASSUME NEW a \in FlowRun, attempt'[a].status = "RUNNING"
        PROVE  /\ run'[Target[a]].status = "RUNNING"
               /\ attempt'[a].no = run'[Target[a]].count
    <3>1. a # c /\ attempt'[a] = attempt[a]
      BY <2>1, <1>3, <1>4
    <3>2. Target[a] # r /\ Target[a] \in Run
      BY <2>1, <3>1, <1>7, ConstantsOK
    <3>3. QED
      BY <2>1, <3>1, <3>2, <1>1, <1>5 DEF RunningAgrees
  <2>2. ASSUME NEW q \in Run, run'[q].status = "RUNNING"
        PROVE  \E a \in FlowRun : Target[a] = q /\ attempt'[a].status = "RUNNING"
    <3>1. q # r /\ run[q].status = "RUNNING"
      BY <2>2, <1>5
    <3>2. PICK a \in FlowRun : Target[a] = q /\ attempt[a].status = "RUNNING"
      BY <3>1, <1>1 DEF RunningAgrees
    <3>3. QED
      BY <3>1, <3>2, <1>3
  <2>3. QED
    BY <2>1, <2>2 DEF RunningAgrees
<1>11. NumbersInRange'
  <2>1. \A a \in FlowRun : /\ attempt'[a].no = attempt[a].no
                           /\ attempt'[a].status # "NONE" <=> attempt[a].status # "NONE"
    BY <1>2, <1>3, <1>4
  <2>2. \A q \in Run : /\ run'[q].count = run[q].count
                       /\ run'[q].status = "ABSENT" => run[q].status = "ABSENT"
    BY <1>5
  <2>3. QED
    BY <2>1, <2>2, <1>1, NumbersKept
<1>12. SuccessAgrees'
  <2>1. ASSUME NEW a \in FlowRun, attempt'[a].status = "SUCCEEDED"
        PROVE  run'[Target[a]].status = "SUCCEEDED" /\ run'[Target[a]].winner = a
    <3>1. CASE a = c
      BY <2>1, <3>1, <1>4, <1>5
    <3>2. CASE a # c
      <4>1. attempt[a].status = "SUCCEEDED"
        BY <2>1, <3>2, <1>3
      <4>2. Target[a] # r /\ Target[a] \in Run
        BY <4>1, <1>1, <1>2, ConstantsOK DEF SuccessAgrees
      <4>3. QED
        BY <4>1, <4>2, <1>1, <1>5 DEF SuccessAgrees
    <3>3. QED
      BY <3>1, <3>2
  <2>2. ASSUME NEW q \in Run
        PROVE  IF run'[q].status = "SUCCEEDED"
               THEN /\ run'[q].winner \in FlowRun
                    /\ Target[run'[q].winner] = q
                    /\ attempt'[run'[q].winner].status = "SUCCEEDED"
               ELSE run'[q].winner = NoAttempt
    <3>1. CASE q = r
      BY <3>1, <1>2, <1>4, <1>5
    <3>2. CASE q # r
      BY <3>2, <1>1, <1>2, <1>3, <1>5 DEF SuccessAgrees
    <3>3. QED
      BY <3>1, <3>2
  <2>3. QED
    BY <2>1, <2>2 DEF SuccessAgrees
<1>13. WrittenIsShown'
  <2>1. \A a \in FlowRun : attempt'[a].status = "SUCCEEDED" => written[a] # NoBlock
    BY <1>1, <1>3, <1>4 DEF WrittenIsShown
  <2>2. flow'[f].step \notin {"publishing", "published"}
    BY <1>6 DEF Idle, At
  <2>3. QED
    BY <2>1, <2>2, <1>1, <1>6 DEF WrittenIsShown
<1>14. QED
  BY <1>8, <1>9, <1>10, <1>11, <1>12, <1>13 DEF IInv

\* A step that only changes the memory of one process keeps the invariant when
\* what it leaves there is consistent with both stores.
LEMMA MemoryKeepsInvariant ==
    ASSUME IInv, NEW f \in FlowRun,
           NEW p \in [step : Step, claim : MaybeAttempt, block : Block],
           flow' = [flow EXCEPT ![f] = p],
           IF p.step \in {"idle", "claiming", "inserting"}
           THEN /\ p.claim = NoAttempt
                /\ p.step = "inserting" => attempt[f].status = "NONE"
           ELSE p.claim \in FlowRun /\ attempt[p.claim].status # "NONE",
           p.step = "publishing" => p.block.stamp > 0,
           p.step = "published" => written[p.claim] # NoBlock,
           UNCHANGED <<run, attempt, issues, rows, written>>,
           starts' \in [FlowRun -> Nat], stamp' \in Nat, revision' \in Nat
    PROVE  IInv'
<1>1. /\ flow'[f] = p
      /\ \A g \in FlowRun \ {f} : flow'[g] = flow[g]
      /\ flow' \in [FlowRun -> [step : Step, claim : MaybeAttempt, block : Block]]
  BY DEF IInv, TypeOK
<1>2. TypeOK'
  BY <1>1 DEF IInv, TypeOK
<1>3. ClaimsExist'
  BY <1>1 DEF IInv, ClaimsExist
<1>4. RunningAgrees' /\ NumbersInRange' /\ SuccessAgrees'
  BY DEF IInv, RunningAgrees, NumbersInRange, SuccessAgrees
<1>5. WrittenIsShown'
  BY <1>1 DEF IInv, WrittenIsShown
<1>6. QED
  BY <1>2, <1>3, <1>4, <1>5 DEF IInv

\* A block that reaches ClickHouse keeps the invariant, whoever sends it.
LEMMA InsertKeepsInvariant ==
    ASSUME IInv, NEW f \in FlowRun, InsertBlock(f)
    PROVE  IInv'
<1> DEFINE c == flow[f].claim
           b == flow[f].block
<1>1. /\ TypeOK /\ ClaimsExist /\ RunningAgrees /\ NumbersInRange
      /\ SuccessAgrees /\ WrittenIsShown
  BY DEF IInv
<1>2. /\ c \in FlowRun /\ attempt[c].status # "NONE"
      /\ b \in Block /\ b.stamp > 0
      /\ rows \in Block /\ written[c] \in Block
  BY <1>1 DEF InsertBlock, ClaimsExist, WrittenIsShown, TypeOK
<1>3. UNCHANGED <<run, attempt, issues, starts, stamp, revision>>
  BY DEF InsertBlock, ledger, world
<1>4. /\ rows' \in Block
      /\ rows'.stamp >= rows.stamp /\ rows'.stamp >= b.stamp
  BY <1>2 DEF InsertBlock, Newer, Block
<1>5. /\ \A a \in FlowRun \ {c} : written'[a] = written[a]
      /\ written'[c] = Newer(written[c], b)
      /\ written' \in [FlowRun -> Block]
  BY <1>1, <1>2 DEF InsertBlock, Newer, TypeOK
<1>6. written'[c] # NoBlock /\ written'[c].stamp \in {written[c].stamp, b.stamp}
  BY <1>2, <1>5 DEF Newer, Block, NoBlock
<1>7. PICK next \in {"published", "failing"} : flow' = [flow EXCEPT ![f] = At(next, c)]
  BY DEF InsertBlock
<1>8. /\ flow'[f] = At(next, c)
      /\ \A g \in FlowRun \ {f} : flow'[g] = flow[g]
      /\ flow' \in [FlowRun -> [step : Step, claim : MaybeAttempt, block : Block]]
  <2>1. At(next, c) \in [step : Step, claim : MaybeAttempt, block : Block]
    BY <1>2, <1>7 DEF At, Step, Block, NoBlock, MaybeAttempt
  <2>2. QED
    BY <2>1, <1>1, <1>7 DEF TypeOK
<1>9. TypeOK'
  BY <1>1, <1>3, <1>4, <1>5, <1>8 DEF TypeOK
<1>10. ClaimsExist'
  BY <1>1, <1>2, <1>3, <1>7, <1>8 DEF ClaimsExist, At
<1>11. RunningAgrees' /\ NumbersInRange' /\ SuccessAgrees'
  BY <1>1, <1>3 DEF RunningAgrees, NumbersInRange, SuccessAgrees
<1>12. WrittenIsShown'
  <2>1. ASSUME NEW a \in FlowRun
        PROVE  /\ rows'.stamp >= written'[a].stamp
               /\ written[a] # NoBlock => written'[a] # NoBlock
    <3>1. rows.stamp >= written[a].stamp /\ written[a] \in Block
      BY <1>1 DEF WrittenIsShown, TypeOK
    <3>2. CASE a = c
      BY <3>1, <3>2, <1>2, <1>4, <1>6 DEF Block
    <3>3. CASE a # c
      BY <3>1, <3>3, <1>2, <1>4, <1>5 DEF Block
    <3>4. QED
      BY <3>2, <3>3
  <2>2. \A a \in FlowRun : attempt'[a].status = "SUCCEEDED" => written'[a] # NoBlock
    BY <2>1, <1>1, <1>3 DEF WrittenIsShown
  <2>3. ASSUME NEW g \in FlowRun
        PROVE  /\ flow'[g].step = "publishing" => flow'[g].block.stamp > 0
               /\ flow'[g].step = "published" => written'[flow'[g].claim] # NoBlock
    <3>1. CASE g = f
      BY <3>1, <1>6, <1>7, <1>8 DEF At
    <3>2. CASE g # f
      BY <3>2, <2>1, <1>1, <1>8 DEF WrittenIsShown, ClaimsExist
    <3>3. QED
      BY <3>1, <3>2
  <2>4. QED
    BY <2>1, <2>2, <2>3 DEF WrittenIsShown
<1>13. QED
  BY <1>9, <1>10, <1>11, <1>12 DEF IInv

\* Starting an execution keeps the invariant.
LEMMA BeginKeepsInvariant ==
    ASSUME IInv, NEW f \in FlowRun, Begin(f)
    PROVE  IInv'
<1>1. At("claiming", NoAttempt) \in [step : Step, claim : MaybeAttempt, block : Block]
  BY DEF At, Step, Block, NoBlock, MaybeAttempt
<1>2. /\ UNCHANGED <<run, attempt, issues, rows, written, stamp, revision>>
      /\ flow' = [flow EXCEPT ![f] = At("claiming", NoAttempt)]
      /\ starts' \in [FlowRun -> Nat]
  BY DEF Begin, ledger, clickhouse, IInv, TypeOK
<1>3. stamp \in Nat /\ revision \in Nat
  BY DEF IInv, TypeOK
<1>4. QED
  BY <1>1, <1>2, <1>3, MemoryKeepsInvariant DEF At

\* Every way a claim can end keeps the invariant.
LEMMA ClaimKeepsInvariant ==
    ASSUME IInv, NEW f \in FlowRun, Claim(f)
    PROVE  IInv'
<1>1. /\ starts \in [FlowRun -> Nat] /\ stamp \in Nat /\ revision \in Nat
      /\ ClaimsExist
  BY DEF IInv, TypeOK
<1>2. \A step \in {"fetching", "inserting", "idle"}, c \in MaybeAttempt :
         At(step, c) \in [step : Step, claim : MaybeAttempt, block : Block]
  BY DEF At, Step, Block, NoBlock
<1>3. \A c \in FlowRun : c \in MaybeAttempt
  BY DEF MaybeAttempt
<1>4. NoAttempt \in MaybeAttempt
  BY DEF MaybeAttempt
<1>5. CASE ClaimReentry(f)
  <2>1. /\ attempt[f].status # "NONE"
        /\ flow' = [flow EXCEPT ![f] = At("fetching", f)]
        /\ UNCHANGED <<run, attempt, issues, rows, written, starts, stamp, revision>>
    BY <1>5 DEF ClaimReentry, Fetching, ledger, clickhouse, world
  <2>2. QED
    BY <2>1, <1>1, <1>2, <1>3, MemoryKeepsInvariant DEF At
<1>6. CASE ClaimSeesNoRun(f)
  <2>1. /\ attempt[f].status = "NONE"
        /\ flow' = [flow EXCEPT ![f] = At("inserting", NoAttempt)]
        /\ UNCHANGED <<run, attempt, issues, rows, written, starts, stamp, revision>>
    BY <1>6 DEF ClaimSeesNoRun, NoAttemptYet, ledger, clickhouse, world
  <2>2. QED
    BY <2>1, <1>1, <1>2, <1>4, MemoryKeepsInvariant DEF At
<1>7. CASE ClaimInsert(f)
  <2>1. /\ attempt[f].status = "NONE"
        /\ run[Target[f]].status # "SUCCEEDED"
        /\ OpenAttempt(f, Target[f])
    BY <1>7, <1>1 DEF ClaimInsert, ClaimsExist
  <2>2. QED
    BY <2>1, OpenKeepsInvariant
<1>8. CASE ClaimLosesInsert(f)
  <2>1. UNCHANGED <<run, attempt, issues, rows, written, starts, stamp, revision>>
    BY <1>8 DEF ClaimLosesInsert, ledger, clickhouse, world
  <2>2. CASE Stop(f)
    <3>1. flow' = [flow EXCEPT ![f] = At("idle", NoAttempt)]
      BY <2>2 DEF Stop, Idle
    <3>2. QED
      BY <3>1, <2>1, <1>1, <1>2, <1>4, MemoryKeepsInvariant DEF At
  <2>3. CASE \E a \in AttemptsOf(Target[f]) : Fetching(f, a)
    <3>1. PICK a \in FlowRun : /\ attempt[a].status # "NONE"
                               /\ flow' = [flow EXCEPT ![f] = At("fetching", a)]
      BY <2>3 DEF AttemptsOf, Fetching
    <3>2. QED
      BY <3>1, <2>1, <1>1, <1>2, <1>3, MemoryKeepsInvariant DEF At
  <2>4. QED
    BY <1>8, <2>2, <2>3 DEF ClaimLosesInsert
<1>9. CASE ClaimRefused(f)
  <2>1. /\ flow' = [flow EXCEPT ![f] = At("idle", NoAttempt)]
        /\ UNCHANGED <<run, attempt, issues, rows, written, starts, stamp, revision>>
    BY <1>9 DEF ClaimRefused, Stop, Idle, ledger, clickhouse, world
  <2>2. QED
    BY <2>1, <1>1, <1>2, <1>4, MemoryKeepsInvariant DEF At
<1>10. CASE ClaimOpens(f)
  <2>1. /\ attempt[f].status = "NONE"
        /\ run[Target[f]].status # "SUCCEEDED"
        /\ OpenAttempt(f, Target[f])
    BY <1>10 DEF ClaimOpens, NoAttemptYet
  <2>2. QED
    BY <2>1, OpenKeepsInvariant
<1>11. QED
  BY <1>5, <1>6, <1>7, <1>8, <1>9, <1>10 DEF Claim

\* Every step of _run_sync keeps the invariant.
LEMMA RunSyncKeepsInvariant ==
    ASSUME IInv, NEW f \in FlowRun, RunSync(f)
    PROVE  IInv'
<1> DEFINE c == flow[f].claim
<1>1. TypeOK /\ ClaimsExist
  BY DEF IInv
<1>2. starts \in [FlowRun -> Nat] /\ stamp \in Nat /\ revision \in Nat
  BY <1>1 DEF TypeOK
<1>3. ASSUME flow[f].step \notin {"idle", "claiming", "inserting"}
      PROVE  c \in FlowRun /\ c \in MaybeAttempt /\ attempt[c].status # "NONE"
  BY <1>1, <1>3 DEF ClaimsExist, MaybeAttempt
<1>4. CASE Fetch(f)
  <2> DEFINE p == [step |-> "prepared", claim |-> c,
                   block |-> [revision |-> revision, stamp |-> 0]]
  <2>1. /\ flow' = [flow EXCEPT ![f] = p]
        /\ flow[f].step = "fetching"
        /\ UNCHANGED <<run, attempt, issues, rows, written, starts, stamp, revision>>
    BY <1>4 DEF Fetch, ledger, clickhouse, world
  <2>2. p \in [step : Step, claim : MaybeAttempt, block : Block]
    BY <2>1, <1>2, <1>3 DEF Step, Block
  <2>3. p.step = "prepared" /\ p.claim = c
    OBVIOUS
  <2> HIDE DEF p
  <2>4. QED
    BY <2>1, <2>2, <2>3, <1>2, <1>3, MemoryKeepsInvariant
<1>5. CASE StampBatch(f)
  <2> DEFINE p == [step |-> "publishing", claim |-> c,
                   block |-> [revision |-> flow[f].block.revision, stamp |-> stamp + 1]]
  <2>1. /\ flow' = [flow EXCEPT ![f] = p]
        /\ flow[f].step = "prepared"
        /\ stamp' = stamp + 1
        /\ UNCHANGED <<run, attempt, issues, rows, written, starts, revision>>
    BY <1>5 DEF StampBatch, ledger, clickhouse
  <2>2. flow[f].block.revision \in Nat /\ stamp + 1 \in Nat /\ stamp + 1 > 0
    BY <1>1, <1>2 DEF TypeOK, Block
  <2>3. p \in [step : Step, claim : MaybeAttempt, block : Block]
    BY <2>1, <2>2, <1>3 DEF Step, Block
  <2>4. p.step = "publishing" /\ p.claim = c /\ p.block.stamp = stamp + 1
    OBVIOUS
  <2> HIDE DEF p
  <2>5. QED
    BY <2>1, <2>2, <2>3, <2>4, <1>2, <1>3, MemoryKeepsInvariant
<1>6. CASE InsertBlock(f)
  BY <1>6, InsertKeepsInvariant
<1>7. CASE PublishSuccess(f)
  <2>1. /\ flow[f].step = "published" /\ Owns(c) /\ Close(c, "SUCCEEDED")
        /\ issues' \in {issues, issues \cup {c}}
        /\ UNCHANGED <<rows, written, starts, stamp, revision>>
    BY <1>7 DEF PublishSuccess, clickhouse, world
  <2>2. flow' \in {[flow EXCEPT ![f] = Idle], [flow EXCEPT ![f] = At("failing", c)]}
    BY <1>7 DEF PublishSuccess, Stop
  <2>3. QED
    BY <2>1, <2>2, CloseKeepsInvariant
<1>8. CASE StepFails(f)
  <2>1. /\ flow' = [flow EXCEPT ![f] = At("failing", c)]
        /\ flow[f].step \in {"fetching", "prepared", "publishing", "published"}
        /\ UNCHANGED <<run, attempt, issues, rows, written, starts, stamp, revision>>
    BY <1>8 DEF StepFails, ledger, clickhouse, world
  <2>2. At("failing", c) \in [step : Step, claim : MaybeAttempt, block : Block]
    BY <2>1, <1>3 DEF At, Step, Block, NoBlock
  <2>3. QED
    BY <2>1, <2>2, <1>2, <1>3, MemoryKeepsInvariant DEF At
<1>9. CASE RecordFailure(f)
  <2>1. /\ flow[f].step = "failing" /\ Owns(c) /\ Close(c, "FAILED")
        /\ issues' = issues \cup {c}
        /\ flow' = [flow EXCEPT ![f] = Idle]
        /\ UNCHANGED <<rows, written, starts, stamp, revision>>
    BY <1>9 DEF RecordFailure, Stop, clickhouse, world
  <2>2. QED
    BY <2>1, CloseKeepsInvariant
<1>10. QED
  BY <1>4, <1>5, <1>6, <1>7, <1>8, <1>9 DEF RunSync

\* The environment's steps keep the invariant: leases run down, data changes.
LEMMA WorldKeepsInvariant ==
    ASSUME IInv, Tick \/ Revise
    PROVE  IInv'
<1>1. CASE Tick
  <2>1. UNCHANGED <<run, issues, rows, written, flow, starts, stamp, revision>>
    BY <1>1 DEF Tick, clickhouse, world
  <2>2. ASSUME NEW a \in FlowRun
        PROVE  /\ attempt'[a] \in [status : AttemptStatus, no : Nat, left : 0..Lease]
               /\ attempt'[a].status = attempt[a].status /\ attempt'[a].no = attempt[a].no
    <3>1. attempt'[a] = [status |-> attempt[a].status, no |-> attempt[a].no,
                         left |-> Less(attempt[a].left)]
      BY <1>1 DEF Tick
    <3>2. /\ attempt[a].status \in AttemptStatus /\ attempt[a].no \in Nat
          /\ attempt[a].left \in 0..Lease
      BY DEF IInv, TypeOK
    <3>3. Less(attempt[a].left) \in 0..Lease
      BY <3>2, ConstantsOK DEF Less
    <3>4. QED
      BY <3>1, <3>2, <3>3
  <2>3. TypeOK'
    BY <1>1, <2>1, <2>2 DEF Tick, IInv, TypeOK
  <2>4. ClaimsExist' /\ WrittenIsShown'
    BY <2>1, <2>2 DEF IInv, ClaimsExist, WrittenIsShown
  <2>5. RunningAgrees' /\ SuccessAgrees'
    BY <2>1, <2>2 DEF IInv, RunningAgrees, SuccessAgrees
  <2>6. NumbersInRange'
    BY <2>1, <2>2, NumbersKept DEF IInv
  <2>7. QED
    BY <2>3, <2>4, <2>5, <2>6 DEF IInv
<1>2. CASE Revise
  <2>1. UNCHANGED <<run, attempt, issues, rows, written, flow, starts, stamp>>
    BY <1>2 DEF Revise, ledger, clickhouse
  <2>2. revision' \in Nat
    BY <1>2 DEF Revise, IInv, TypeOK
  <2>3. QED
    BY <2>1, <2>2 DEF IInv, TypeOK, ClaimsExist, RunningAgrees, NumbersInRange,
                      SuccessAgrees, WrittenIsShown
<1>3. QED
  BY <1>1, <1>2

\* Memory, ledger and ClickHouse are consistent in every reachable state,
\* whatever crashes, races, expired leases and lost answers there were.
THEOREM InvariantHolds == Spec => []IInv
<1>1. Init => IInv
  <2> SUFFICES ASSUME Init PROVE IInv
    OBVIOUS
  <2>1. TypeOK
    BY ConstantsOK DEF Init, TypeOK, RunStatus, AttemptStatus, MaybeAttempt, Step, Block,
                       NoBlock, Idle, At
  <2>2. ClaimsExist /\ WrittenIsShown
    BY DEF Init, ClaimsExist, WrittenIsShown, Idle, At, NoBlock
  <2>3. RunningAgrees /\ NumbersInRange /\ SuccessAgrees
    BY DEF Init, RunningAgrees, NumbersInRange, SuccessAgrees
  <2>4. QED
    BY <2>1, <2>2, <2>3 DEF IInv
<1>2. IInv /\ [Next]_vars => IInv'
  <2> SUFFICES ASSUME IInv, [Next]_vars PROVE IInv'
    OBVIOUS
  <2>1. ASSUME NEW f \in FlowRun, StartScheduled(f) \/ StartBackfill(f) PROVE IInv'
    BY <2>1, BeginKeepsInvariant DEF StartScheduled, StartBackfill
  <2>2. ASSUME NEW f \in FlowRun, Claim(f) PROVE IInv'
    BY <2>2, ClaimKeepsInvariant
  <2>3. ASSUME NEW f \in FlowRun, RunSync(f) PROVE IInv'
    BY <2>3, RunSyncKeepsInvariant
  <2>4. ASSUME NEW f \in FlowRun, GiveUp(f) PROVE IInv'
    <3>1. /\ flow' = [flow EXCEPT ![f] = At("idle", NoAttempt)]
          /\ UNCHANGED <<run, attempt, issues, rows, written, starts, stamp, revision>>
      BY <2>4 DEF GiveUp, Stop, Idle, ledger, clickhouse, world
    <3>2. At("idle", NoAttempt) \in [step : Step, claim : MaybeAttempt, block : Block]
      BY DEF At, Step, Block, NoBlock, MaybeAttempt
    <3>3. starts \in [FlowRun -> Nat] /\ stamp \in Nat /\ revision \in Nat
      BY DEF IInv, TypeOK
    <3>4. QED
      BY <3>1, <3>2, <3>3, MemoryKeepsInvariant DEF At
  <2>5. CASE Tick \/ Revise
    BY <2>5, WorldKeepsInvariant
  <2>6. CASE UNCHANGED vars
    BY <2>6 DEF vars, IInv, TypeOK, ClaimsExist, RunningAgrees, NumbersInRange,
                SuccessAgrees, WrittenIsShown
  <2>7. QED
    BY <2>1, <2>2, <2>3, <2>4, <2>5, <2>6 DEF Next
<1>3. QED
  BY <1>1, <1>2, PTL DEF Spec

\* Every variable keeps its type.
THEOREM Typed == Spec => []TypeOK
<1>1. IInv => TypeOK
  BY DEF IInv
<1>2. QED
  BY <1>1, InvariantHolds, PTL

\* RUNNING in the run table means exactly one RUNNING attempt, the newest.
THEOREM OneOwner == Spec => []OneOwnerPerRun
<1>1. IInv => OneOwnerPerRun
  <2> SUFFICES ASSUME IInv, NEW r \in Run
               PROVE  LET running == {a \in AttemptsOf(r) : attempt[a].status = "RUNNING"} IN
                      IF run[r].status = "RUNNING"
                      THEN \E a \in AttemptsOf(r) : running = {a} /\ attempt[a].no = run[r].count
                      ELSE running = {}
    BY DEF OneOwnerPerRun
  <2>1. RunningAgrees /\ NumbersInRange
    BY DEF IInv
  <2>2. \A a, b \in AttemptsOf(r) :
           attempt[a].status = "RUNNING" /\ attempt[b].status = "RUNNING" => a = b
    BY <2>1 DEF AttemptsOf, RunningAgrees, NumbersInRange
  <2>3. CASE run[r].status = "RUNNING"
    <3>1. PICK a \in AttemptsOf(r) : attempt[a].status = "RUNNING"
      BY <2>1, <2>3 DEF RunningAgrees, AttemptsOf
    <3>2. attempt[a].no = run[r].count
      BY <2>1, <3>1 DEF RunningAgrees, AttemptsOf
    <3>3. {b \in AttemptsOf(r) : attempt[b].status = "RUNNING"} = {a}
      BY <2>2, <3>1
    <3>4. QED
      BY <2>3, <3>1, <3>2, <3>3
  <2>4. CASE run[r].status # "RUNNING"
    BY <2>1, <2>4 DEF RunningAgrees, AttemptsOf
  <2>5. QED
    BY <2>3, <2>4
<1>2. QED
  BY <1>1, InvariantHolds, PTL

\* attempt_no counts the attempts of a run without gap or repeat.
THEOREM Numbered == Spec => []AttemptsNumbered
<1>1. IInv => AttemptsNumbered
  <2> SUFFICES ASSUME IInv, NEW r \in Run
               PROVE  /\ {attempt[a].no : a \in AttemptsOf(r)} = 1..run[r].count
                      /\ \A a, b \in AttemptsOf(r) : attempt[a].no = attempt[b].no => a = b
    BY DEF AttemptsNumbered
  <2>1. NumbersInRange
    BY DEF IInv
  <2>2. \A a \in AttemptsOf(r) : attempt[a].no \in 1..run[r].count
    BY <2>1 DEF AttemptsOf, NumbersInRange
  <2>3. \A n \in 1..run[r].count : \E a \in AttemptsOf(r) : attempt[a].no = n
    BY <2>1 DEF AttemptsOf, NumbersInRange
  <2>4. \A a, b \in AttemptsOf(r) : attempt[a].no = attempt[b].no => a = b
    BY <2>1 DEF AttemptsOf, NumbersInRange
  <2>5. QED
    BY <2>2, <2>3, <2>4
<1>2. QED
  BY <1>1, InvariantHolds, PTL

\* successful_attempt_id names the one attempt of the run that succeeded.
THEOREM WinnerIsUnique == Spec => []WinnerAgrees
<1>1. IInv => WinnerAgrees
  <2> SUFFICES ASSUME IInv, NEW r \in Run
               PROVE  {a \in AttemptsOf(r) : attempt[a].status = "SUCCEEDED"} =
                         IF run[r].status = "SUCCEEDED" THEN {run[r].winner} ELSE {}
    BY DEF WinnerAgrees
  <2>1. SuccessAgrees
    BY DEF IInv
  <2>2. CASE run[r].status = "SUCCEEDED"
    <3>1. run[r].winner \in AttemptsOf(r) /\ attempt[run[r].winner].status = "SUCCEEDED"
      BY <2>1, <2>2 DEF SuccessAgrees, AttemptsOf
    <3>2. \A a \in AttemptsOf(r) : attempt[a].status = "SUCCEEDED" => a = run[r].winner
      BY <2>1 DEF SuccessAgrees, AttemptsOf
    <3>3. QED
      BY <2>2, <3>1, <3>2
  <2>3. CASE run[r].status # "SUCCEEDED"
    BY <2>1, <2>3 DEF SuccessAgrees, AttemptsOf
  <2>4. QED
    BY <2>2, <2>3
<1>2. QED
  BY <1>1, InvariantHolds, PTL

\* A run the ledger calls SUCCEEDED has its batch, or a newer one, in ClickHouse.
THEOREM SuccessVisible == Spec => []SuccessIsVisible
<1>1. IInv => SuccessIsVisible
  BY DEF IInv, SuccessAgrees, WrittenIsShown, SuccessIsVisible
<1>2. QED
  BY <1>1, InvariantHolds, PTL

-----------------------------------------------------------------------------
(* What a step can do to the ledger *)

\* The ledger is left alone, except that leases run down.
LedgerRests ==
    /\ run' = run
    /\ \A a \in FlowRun : attempt'[a].status = attempt[a].status

\* Flow run f opens its attempt; whom it displaces has an expired lease.
LedgerOpens(f) ==
    /\ attempt[f].status = "NONE"
    /\ run[Target[f]].status # "SUCCEEDED"
    /\ \A a \in Active(Target[f]) : Expired(a)
    /\ OpenAttempt(f, Target[f])

\* The owner c of a run closes it.
LedgerCloses(c, outcome) ==
    /\ Owns(c)
    /\ Close(c, outcome)

\* Every step of the system is one of these three: only opening an attempt and
\* closing the owner's attempt change the two tables.
LEMMA StepsOfTheLedger ==
    ASSUME IInv, [Next]_vars
    PROVE  \/ LedgerRests
           \/ \E f \in FlowRun : LedgerOpens(f)
           \/ \E c \in FlowRun, outcome \in {"SUCCEEDED", "FAILED"} : LedgerCloses(c, outcome)
<1>1. TypeOK /\ ClaimsExist /\ RunningAgrees
  BY DEF IInv
<1>2. ASSUME UNCHANGED <<run, attempt>> PROVE LedgerRests
  BY <1>2 DEF LedgerRests
<1>3. ASSUME NEW f \in FlowRun, StartScheduled(f) \/ StartBackfill(f) PROVE LedgerRests
  BY <1>3, <1>2 DEF StartScheduled, StartBackfill, Begin, ledger
<1>4. ASSUME NEW f \in FlowRun, Claim(f) PROVE LedgerRests \/ LedgerOpens(f)
  <2>1. CASE ClaimInsert(f)
    <3>1. attempt[f].status = "NONE" /\ run[Target[f]].status = "ABSENT"
      BY <2>1, <1>1 DEF ClaimInsert, ClaimsExist
    <3>2. Active(Target[f]) = {}
      BY <3>1, <1>1 DEF Active, AttemptsOf, RunningAgrees
    <3>3. QED
      BY <2>1, <3>1, <3>2 DEF ClaimInsert, LedgerOpens
  <2>2. CASE ClaimOpens(f)
    BY <2>2 DEF ClaimOpens, NoAttemptYet, LedgerOpens
  <2>3. CASE ~ClaimInsert(f) /\ ~ClaimOpens(f)
    BY <1>4, <2>3, <1>2 DEF Claim, ClaimReentry, ClaimSeesNoRun, ClaimLosesInsert,
                            ClaimRefused, ledger
  <2>4. QED
    BY <2>1, <2>2, <2>3
<1>5. ASSUME NEW f \in FlowRun, RunSync(f)
      PROVE  \/ LedgerRests
             \/ \E c \in FlowRun, outcome \in {"SUCCEEDED", "FAILED"} : LedgerCloses(c, outcome)
  <2>1. CASE PublishSuccess(f)
    <3>1. flow[f].claim \in FlowRun
      BY <2>1, <1>1 DEF PublishSuccess, ClaimsExist
    <3>2. LedgerCloses(flow[f].claim, "SUCCEEDED")
      BY <2>1 DEF PublishSuccess, LedgerCloses
    <3>3. QED
      BY <3>1, <3>2
  <2>2. CASE RecordFailure(f)
    <3>1. flow[f].claim \in FlowRun
      BY <2>2, <1>1 DEF RecordFailure, ClaimsExist
    <3>2. LedgerCloses(flow[f].claim, "FAILED")
      BY <2>2 DEF RecordFailure, LedgerCloses
    <3>3. QED
      BY <3>1, <3>2
  <2>3. CASE ~PublishSuccess(f) /\ ~RecordFailure(f)
    BY <1>5, <2>3, <1>2 DEF RunSync, Fetch, StampBatch, InsertBlock, StepFails, ledger
  <2>4. QED
    BY <2>1, <2>2, <2>3
<1>6. ASSUME NEW f \in FlowRun, GiveUp(f) PROVE LedgerRests
  BY <1>6, <1>2 DEF GiveUp, ledger
<1>7. CASE Tick
  BY <1>7 DEF Tick, LedgerRests
<1>8. CASE Revise
  BY <1>8, <1>2 DEF Revise, ledger
<1>9. CASE UNCHANGED vars
  BY <1>9, <1>2 DEF vars
<1>10. QED
  BY <1>3, <1>4, <1>5, <1>6, <1>7, <1>8, <1>9 DEF Next

\* What opening an attempt does to the two tables, row by row.
LEMMA EffectOfOpening ==
    ASSUME IInv, NEW f \in FlowRun, LedgerOpens(f)
    PROVE  /\ attempt'[f].status = "RUNNING"
           /\ attempt'[f].no = run[Target[f]].count + 1
           /\ \A a \in FlowRun \ {f} :
                 attempt'[a].status = IF Target[a] = Target[f] /\ attempt[a].status = "RUNNING"
                                      THEN "ABANDONED" ELSE attempt[a].status
           /\ run'[Target[f]].status = "RUNNING"
           /\ run'[Target[f]].winner = run[Target[f]].winner
           /\ \A q \in Run \ {Target[f]} : run'[q] = run[q]
<1>1. Target[f] \in Run
  BY ConstantsOK
<1>2. \A a \in FlowRun : a \in Active(Target[f]) <=>
                            Target[a] = Target[f] /\ attempt[a].status = "RUNNING"
  BY <1>1, ActiveIsRunning DEF IInv
<1>3. run \in [Run -> [status : RunStatus, count : Nat, winner : MaybeAttempt]]
  BY DEF IInv, TypeOK
<1>4. /\ run'[Target[f]].status = "RUNNING"
      /\ run'[Target[f]].winner = run[Target[f]].winner
      /\ \A q \in Run \ {Target[f]} : run'[q] = run[q]
  BY <1>1, <1>3 DEF LedgerOpens, OpenAttempt
<1>5. /\ attempt'[f].status = "RUNNING"
      /\ attempt'[f].no = run[Target[f]].count + 1
  BY DEF LedgerOpens, OpenAttempt
<1>6. \A a \in FlowRun \ {f} :
         attempt'[a].status = IF a \in Active(Target[f]) THEN "ABANDONED" ELSE attempt[a].status
  BY DEF LedgerOpens, OpenAttempt, Ended
<1>7. QED
  BY <1>2, <1>4, <1>5, <1>6

\* What closing an attempt does to the two tables, row by row.
LEMMA EffectOfClosing ==
    ASSUME IInv, NEW c \in FlowRun, NEW outcome \in {"SUCCEEDED", "FAILED"},
           LedgerCloses(c, outcome)
    PROVE  /\ attempt[c].status = "RUNNING" /\ run[Target[c]].status = "RUNNING"
           /\ attempt'[c].status = outcome
           /\ \A a \in FlowRun \ {c} : attempt'[a] = attempt[a]
           /\ run'[Target[c]].status = outcome
           /\ run'[Target[c]].winner = IF outcome = "SUCCEEDED" THEN c ELSE NoAttempt
           /\ \A q \in Run \ {Target[c]} : run'[q] = run[q]
<1>1. Target[c] \in Run
  BY ConstantsOK
<1>2. /\ run \in [Run -> [status : RunStatus, count : Nat, winner : MaybeAttempt]]
      /\ attempt \in [FlowRun -> [status : AttemptStatus, no : Nat, left : 0..Lease]]
  BY DEF IInv, TypeOK
<1>3. attempt[c].status = "RUNNING" /\ run[Target[c]].status = "RUNNING"
  BY DEF LedgerCloses, Owns
<1>4. /\ attempt'[c].status = outcome
      /\ \A a \in FlowRun \ {c} : attempt'[a] = attempt[a]
  BY <1>2 DEF LedgerCloses, Close, Ended
<1>5. /\ run'[Target[c]].status = outcome
      /\ run'[Target[c]].winner = IF outcome = "SUCCEEDED" THEN c ELSE NoAttempt
      /\ \A q \in Run \ {Target[c]} : run'[q] = run[q]
  BY <1>1, <1>2 DEF LedgerCloses, Close
<1>6. QED
  BY <1>3, <1>4, <1>5

\* No step reopens a terminal attempt or touches a run that has succeeded.
THEOREM SettledForGood == Spec => SettledIsFinal
<1> DEFINE A == /\ \A a \in FlowRun :
                      attempt[a].status \in {"SUCCEEDED", "FAILED", "ABANDONED"} =>
                          attempt'[a].status = attempt[a].status
                /\ \A r \in Run : run[r].status = "SUCCEEDED" => run'[r] = run[r]
<1>1. IInv /\ [Next]_vars => A
  <2> SUFFICES ASSUME IInv, [Next]_vars PROVE A
    OBVIOUS
  <2>1. CASE LedgerRests
    BY <2>1 DEF LedgerRests
  <2>2. ASSUME NEW f \in FlowRun, LedgerOpens(f) PROVE A
    <3>1. attempt[f].status = "NONE" /\ run[Target[f]].status # "SUCCEEDED"
      BY <2>2 DEF LedgerOpens
    <3>2. QED
      BY <2>2, <3>1, EffectOfOpening
  <2>3. ASSUME NEW c \in FlowRun, NEW outcome \in {"SUCCEEDED", "FAILED"},
               LedgerCloses(c, outcome)
        PROVE  A
    BY <2>3, EffectOfClosing
  <2>4. QED
    BY <2>1, <2>2, <2>3, StepsOfTheLedger
<1>2. A => [A]_vars
  OBVIOUS
<1>3. QED
  BY <1>1, InvariantHolds, PTL DEF Spec, SettledIsFinal

\* An attempt is displaced only when its lease is over, by the next attempt of
\* its run, and with an issue row.
THEOREM LeaseProtects == Spec => TakeoverOnlyByLease
<1> DEFINE T(a) == /\ attempt[a].left = 0
                   /\ a \in issues'
                   /\ \E b \in FlowRun : /\ Target[b] = Target[a]
                                         /\ attempt[b].status = "NONE"
                                         /\ attempt'[b].status = "RUNNING"
                                         /\ attempt'[b].no = attempt[a].no + 1
           A == \A a \in FlowRun :
                   attempt[a].status = "RUNNING" /\ attempt'[a].status = "ABANDONED" => T(a)
<1>1. IInv /\ [Next]_vars => A
  <2> SUFFICES ASSUME IInv, [Next]_vars, NEW a \in FlowRun,
                      attempt[a].status = "RUNNING", attempt'[a].status = "ABANDONED"
               PROVE  T(a)
    OBVIOUS
  <2>1. CASE LedgerRests
    BY <2>1 DEF LedgerRests
  <2>2. ASSUME NEW f \in FlowRun, LedgerOpens(f) PROVE T(a)
    <3>1. /\ attempt[f].status = "NONE" /\ attempt'[f].status = "RUNNING"
          /\ attempt'[f].no = run[Target[f]].count + 1
          /\ Target[a] = Target[f]
      BY <2>2, EffectOfOpening DEF LedgerOpens
    <3>2. a \in Active(Target[f])
      BY <3>1, ActiveIsRunning, ConstantsOK DEF IInv
    <3>3. attempt[a].left = 0 /\ a \in issues'
      BY <2>2, <3>2 DEF LedgerOpens, OpenAttempt, Expired
    <3>4. attempt[a].no = run[Target[f]].count
      BY <3>1 DEF IInv, RunningAgrees
    <3>5. QED
      BY <3>1, <3>3, <3>4
  <2>3. ASSUME NEW c \in FlowRun, NEW outcome \in {"SUCCEEDED", "FAILED"},
               LedgerCloses(c, outcome)
        PROVE  T(a)
    BY <2>3, EffectOfClosing
  <2>4. QED
    BY <2>1, <2>2, <2>3, StepsOfTheLedger
<1>2. QED
  BY <1>1, InvariantHolds, PTL DEF Spec, TakeoverOnlyByLease

-----------------------------------------------------------------------------
(* The refinement of SyncLedger *)

\* The abstract owner of a run is its running attempt.
LEMMA OwnerIsRunning ==
    ASSUME RunningAgrees, NumbersInRange, NEW r \in Run
    PROVE  /\ \A a \in FlowRun :
                 Target[a] = r /\ attempt[a].status = "RUNNING" => OwnerOf(r) = a
           /\ run[r].status # "RUNNING" => OwnerOf(r) = NoAttempt
<1>1. ASSUME NEW a \in FlowRun, Target[a] = r, attempt[a].status = "RUNNING"
      PROVE  OwnerOf(r) = a
  <2>1. run[r].status = "RUNNING"
    BY <1>1 DEF RunningAgrees
  <2>2. \A b \in AttemptsOf(r) : attempt[b].status = "RUNNING" <=> b = a
    BY <1>1 DEF AttemptsOf, RunningAgrees, NumbersInRange
  <2>3. a \in AttemptsOf(r)
    BY <1>1 DEF AttemptsOf
  <2>4. QED
    BY <2>1, <2>2, <2>3 DEF OwnerOf
<1>2. run[r].status # "RUNNING" => OwnerOf(r) = NoAttempt
  BY DEF OwnerOf
<1>3. QED
  BY <1>1, <1>2

\* A run whose RUNNING attempts do not change keeps its abstract owner.
LEMMA OwnerKept ==
    ASSUME IInv, IInv', NEW r \in Run, run'[r] = run[r],
           \A a \in FlowRun : Target[a] = r =>
              (attempt'[a].status = "RUNNING" <=> attempt[a].status = "RUNNING")
    PROVE  OwnerOf(r)' = OwnerOf(r)
<1>1. RunningAgrees /\ NumbersInRange
  BY DEF IInv
<1>2. (RunningAgrees /\ NumbersInRange)'
  BY DEF IInv
<1>3. CASE run[r].status = "RUNNING"
  <2>1. PICK a \in FlowRun : Target[a] = r /\ attempt[a].status = "RUNNING"
    BY <1>1, <1>3 DEF RunningAgrees
  <2>2. OwnerOf(r) = a
    BY <2>1, <1>1, OwnerIsRunning
  <2>3. \A b \in FlowRun : Target[b] = r /\ attempt'[b].status = "RUNNING" => b = a
    BY <2>1, <1>1 DEF RunningAgrees, NumbersInRange
  <2>4. OwnerOf(r)' = a
    <3>1. /\ a \in AttemptsOf(r)' /\ attempt'[a].status = "RUNNING"
          /\ \A b \in AttemptsOf(r)' : attempt'[b].status = "RUNNING" => b = a
      BY <2>1, <2>3 DEF AttemptsOf
    <3>2. run'[r].status = "RUNNING"
      BY <1>3
    <3>3. QED
      BY <3>1, <3>2 DEF OwnerOf
  <2>5. QED
    BY <2>2, <2>4
<1>4. CASE run[r].status # "RUNNING"
  BY <1>4 DEF OwnerOf
<1>5. QED
  BY <1>3, <1>4

\* A step that opens an attempt is the abstract Open.
LEMMA OpeningRefines ==
    ASSUME IInv, IInv', NEW f \in FlowRun, LedgerOpens(f)
    PROVE  Ledger!Open(Target[f], f)
<1> DEFINE r == Target[f]
<1>1. r \in Run
  BY ConstantsOK
<1>2. /\ attempt[f].status = "NONE" /\ run[r].status # "SUCCEEDED"
      /\ attempt'[f].status = "RUNNING"
      /\ \A a \in FlowRun \ {f} :
            attempt'[a].status = IF Target[a] = r /\ attempt[a].status = "RUNNING"
                                 THEN "ABANDONED" ELSE attempt[a].status
      /\ run'[r].status = "RUNNING" /\ run'[r].winner = run[r].winner
      /\ \A q \in Run \ {r} : run'[q] = run[q]
  BY EffectOfOpening DEF LedgerOpens
<1>3. OwnerOf(r)' = f
  <2>1. (RunningAgrees /\ NumbersInRange)'
    BY DEF IInv
  <2>2. \A b \in FlowRun : Target[b] = r /\ attempt'[b].status = "RUNNING" => b = f
    BY <1>2
  <2>3. /\ f \in AttemptsOf(r)' /\ attempt'[f].status = "RUNNING"
        /\ \A b \in AttemptsOf(r)' : attempt'[b].status = "RUNNING" => b = f
    BY <1>2, <2>2 DEF AttemptsOf
  <2>4. QED
    BY <2>3, <1>2 DEF OwnerOf
<1>4. ASSUME NEW q \in Run, q # r PROVE OwnerOf(q)' = OwnerOf(q)
  <2>1. \A a \in FlowRun : Target[a] = q =>
           (attempt'[a].status = "RUNNING" <=> attempt[a].status = "RUNNING")
    BY <1>2, <1>4
  <2>2. QED
    BY <1>2, <1>4, <2>1, OwnerKept
<1>5. [q \in Run |-> run'[q].status] =
         [[q \in Run |-> run[q].status] EXCEPT ![r] = "RUNNING"]
  BY <1>1, <1>2
<1>6. [q \in Run |-> OwnerOf(q)'] = [[q \in Run |-> OwnerOf(q)] EXCEPT ![r] = f]
  BY <1>1, <1>3, <1>4
<1>7. [q \in Run |-> run'[q].winner] = [q \in Run |-> run[q].winner]
  BY <1>2
<1>8. {a \in FlowRun : attempt'[a].status # "NONE"} =
         {a \in FlowRun : attempt[a].status # "NONE"} \cup {f}
  BY <1>2
<1>9. QED
  BY <1>1, <1>2, <1>5, <1>6, <1>7, <1>8 DEF Ledger!Open

\* A step that closes the owner's attempt is the abstract Succeed or Fail.
LEMMA ClosingRefines ==
    ASSUME IInv, IInv', NEW c \in FlowRun, NEW outcome \in {"SUCCEEDED", "FAILED"},
           LedgerCloses(c, outcome)
    PROVE  Ledger!Succeed(Target[c]) \/ Ledger!Fail(Target[c])
<1> DEFINE r == Target[c]
<1>1. r \in Run /\ NoAttempt \notin FlowRun
  BY ConstantsOK
<1>2. /\ attempt[c].status = "RUNNING" /\ run[r].status = "RUNNING"
      /\ attempt'[c].status = outcome
      /\ \A a \in FlowRun \ {c} : attempt'[a] = attempt[a]
      /\ run'[r].status = outcome
      /\ run'[r].winner = IF outcome = "SUCCEEDED" THEN c ELSE NoAttempt
      /\ \A q \in Run \ {r} : run'[q] = run[q]
  BY EffectOfClosing
<1>3. OwnerOf(r) = c
  BY <1>1, <1>2, OwnerIsRunning DEF IInv
<1>4. OwnerOf(r)' = NoAttempt
  BY <1>2 DEF OwnerOf
<1>5. ASSUME NEW q \in Run, q # r PROVE OwnerOf(q)' = OwnerOf(q)
  <2>1. \A a \in FlowRun : Target[a] = q =>
           (attempt'[a].status = "RUNNING" <=> attempt[a].status = "RUNNING")
    BY <1>2, <1>5
  <2>2. QED
    BY <1>2, <1>5, <2>1, OwnerKept
<1>6. [q \in Run |-> run'[q].status] =
         [[q \in Run |-> run[q].status] EXCEPT ![r] = outcome]
  BY <1>1, <1>2
<1>7. [q \in Run |-> OwnerOf(q)'] = [[q \in Run |-> OwnerOf(q)] EXCEPT ![r] = NoAttempt]
  BY <1>1, <1>4, <1>5
<1>8. run[r].winner = NoAttempt
  BY <1>1, <1>2 DEF IInv, SuccessAgrees
<1>9. [q \in Run |-> run'[q].winner] =
         [[q \in Run |-> run[q].winner] EXCEPT
             ![r] = IF outcome = "SUCCEEDED" THEN c ELSE NoAttempt]
  BY <1>1, <1>2
<1>10. {a \in FlowRun : attempt'[a].status # "NONE"} =
          {a \in FlowRun : attempt[a].status # "NONE"}
  BY <1>2
<1>11. CASE outcome = "SUCCEEDED"
  <2>1. /\ [q \in Run |-> OwnerOf(q)][r] = c
        /\ c # NoAttempt
    BY <1>1, <1>3
  <2>2. [q \in Run |-> run'[q].winner] =
           [[q \in Run |-> run[q].winner] EXCEPT ![r] = [q \in Run |-> OwnerOf(q)][r]]
    BY <1>9, <1>11, <2>1
  <2>3. [q \in Run |-> run'[q].status] =
           [[q \in Run |-> run[q].status] EXCEPT ![r] = "SUCCEEDED"]
    BY <1>6, <1>11
  <2>4. QED
    BY <1>7, <1>10, <2>1, <2>2, <2>3, Zenon DEF Ledger!Succeed
<1>12. CASE outcome = "FAILED"
  <2>1. [q \in Run |-> run'[q].winner] = [q \in Run |-> run[q].winner]
    BY <1>1, <1>2, <1>8, <1>12
  <2>2. QED
    BY <1>1, <1>3, <1>6, <1>7, <1>10, <1>12, <2>1 DEF Ledger!Fail
<1>13. QED
  BY <1>11, <1>12

\* The two tables, the leases and the workers implement the abstract ledger.
THEOREM RefinesLedger == Spec => ImplementsLedger
<1>1. Init => Ledger!Init
  <2> SUFFICES ASSUME Init PROVE Ledger!Init
    OBVIOUS
  <2>1. \A r \in Run : OwnerOf(r) = NoAttempt
    BY DEF Init, OwnerOf
  <2>2. QED
    BY <2>1 DEF Init, Ledger!Init
<1>2. IInv /\ IInv' /\ [Next]_vars => [Ledger!Next]_(Ledger!vars)
  <2> SUFFICES ASSUME IInv, IInv', [Next]_vars PROVE [Ledger!Next]_(Ledger!vars)
    OBVIOUS
  <2>1. CASE LedgerRests
    <3>1. \A r \in Run : OwnerOf(r)' = OwnerOf(r)
      BY <2>1, OwnerKept DEF LedgerRests
    <3>2. QED
      BY <2>1, <3>1 DEF LedgerRests, Ledger!vars
  <2>2. ASSUME NEW f \in FlowRun, LedgerOpens(f) PROVE Ledger!Next
    <3>1. Target[f] \in Run
      BY ConstantsOK
    <3>2. QED
      BY <2>2, <3>1, OpeningRefines DEF Ledger!Next
  <2>3. ASSUME NEW c \in FlowRun, NEW outcome \in {"SUCCEEDED", "FAILED"},
               LedgerCloses(c, outcome)
        PROVE  Ledger!Next
    <3>1. Target[c] \in Run
      BY ConstantsOK
    <3>2. QED
      BY <2>3, <3>1, ClosingRefines DEF Ledger!Next
  <2>4. QED
    BY <2>1, <2>2, <2>3, StepsOfTheLedger
<1>3. QED
  BY <1>1, <1>2, InvariantHolds, PTL DEF Spec, ImplementsLedger, Ledger!Spec
=============================================================================
