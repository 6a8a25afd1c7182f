------------------------- MODULE StockListRun_proofs -------------------------
(***************************************************************************)
(* Proofs about StockListRun: its inductive invariant, the safety          *)
(* properties that follow from it, and two action properties.              *)
(***************************************************************************)
EXTENDS StockListRun, TLAPS

\* What an execution can remember.
Memory ==
    [step : Step, no : Nat, batch : [Security -> MaybeCode], ids : [Security -> MaybeId]]

\* A row of the ledger.
Row ==
    [status : {"ABSENT", "RUNNING", "SUCCEEDED", "FAILED"},
     holder : FlowRun \cup {NoOne}, count : Nat, left : 0..Lease]

LEMMA AtIsMemory ==
    ASSUME NEW step \in Step, NEW no \in Nat
    PROVE  /\ At(step, no) \in Memory
           /\ At(step, no).step = step /\ At(step, no).no = no
BY DEF At, Memory, Nowhere, MaybeId, MaybeCode

\* A step that only changes what one execution remembers: it starts no work
\* and keeps its attempt, and what it holds is complete.
LEMMA MemoryStep ==
    ASSUME IInv, NEW f \in FlowRun, NEW e \in Memory,
           flow' = [flow EXCEPT ![f] = e], UNCHANGED <<ledger, list>>,
           e.step \in Working => flow[f].step \in Working /\ e.no = flow[f].no,
           e.step \in {"fetched", "checked", "resolved"} =>
              Known(e.batch) # {} /\ Unique(e.batch),
           e.step = "resolved" => Known(e.batch) \subseteq Known(e.ids)
    PROVE  IInv'
<1>1. /\ flow' \in [FlowRun -> Memory]
      /\ \A g \in FlowRun : flow'[g] = IF g = f THEN e ELSE flow[g]
  BY DEF IInv, TypeOK, Memory
<1>2. UNCHANGED <<run, issues, current, mapping, named, published>>
  BY DEF ledger, list
<1>3. TypeOK'
  BY <1>1, <1>2 DEF IInv, TypeOK, Memory
<1>4. BatchesResolved'
  BY <1>1, <1>2 DEF IInv, BatchesResolved, Known, Unique
<1>5. AttemptsDistinct'
  <2>1. \A g \in FlowRun : flow'[g].step \in Working =>
           flow[g].step \in Working /\ flow'[g].no = flow[g].no
    BY <1>1
  <2>2. QED
    BY <1>2, <2>1 DEF IInv, AttemptsDistinct
<1>6. TablesKeyed' /\ MappingAgrees' /\ SuccessIsInTheList'
  BY <1>2 DEF IInv, TablesKeyed, Unique, MappingAgrees, SuccessIsInTheList, InList, Known
<1>7. QED
  BY <1>3, <1>4, <1>5, <1>6 DEF IInv

LEMMA StopKeepsInvariant ==
    ASSUME IInv, NEW f \in FlowRun, Stop(f), UNCHANGED <<ledger, list>>
    PROVE  IInv'
<1>1. At("over", 0) \in Memory /\ At("over", 0).step = "over"
  BY AtIsMemory DEF Step
<1>2. QED
  BY <1>1, MemoryStep DEF Stop, Working

\* Whoever takes a row gets a number above every number in use.
LEMMA TakeKeepsInvariant ==
    ASSUME IInv, NEW f \in FlowRun, Take(f, Target[f]), flow[f].step \notin Working,
           issues' \in SUBSET (Run \X Nat)
    PROVE  IInv'
<1> DEFINE r == Target[f]
           n == run[r].count + 1
<1>1. r \in Run /\ run[r].count \in Nat /\ n \in Nat
  BY ConstantsOK DEF IInv, TypeOK
<1>2. /\ run' = [run EXCEPT ![r] = [status |-> "RUNNING", holder |-> f,
                                    count |-> n, left |-> Lease]]
      /\ flow' = [flow EXCEPT ![f] = At("fetching", n)]
      /\ UNCHANGED <<current, mapping, named, published>>
  BY DEF Take, NextNumber, list
<1> HIDE DEF n
<1>3. /\ At("fetching", n) \in Memory
      /\ At("fetching", n).step = "fetching" /\ At("fetching", n).no = n
  BY <1>1, AtIsMemory DEF Step, Working
<1>4. /\ flow' \in [FlowRun -> Memory]
      /\ flow'[f].step = "fetching" /\ flow'[f].no = n
      /\ \A g \in FlowRun : g # f => flow'[g] = flow[g]
  BY <1>2, <1>3 DEF IInv, TypeOK, Memory
<1>5. /\ run'[r].status = "RUNNING" /\ run'[r].holder = f /\ run'[r].count = n
      /\ \A q \in Run : q # r => run'[q] = run[q]
  BY <1>1, <1>2 DEF IInv, TypeOK
<1>6. TypeOK'
  <2>1. [status |-> "RUNNING", holder |-> f, count |-> n, left |-> Lease]
          \in [status : {"ABSENT", "RUNNING", "SUCCEEDED", "FAILED"},
               holder : FlowRun \cup {NoOne}, count : Nat, left : 0..Lease]
    BY <1>1, ConstantsOK
  <2>2. QED
    BY <2>1, <1>2, <1>4 DEF IInv, TypeOK, Memory
<1>7. BatchesResolved'
  BY <1>4 DEF IInv, BatchesResolved, Known, Unique
<1>8. AttemptsDistinct'
  <2>1. ASSUME NEW g \in FlowRun, g # f, flow[g].step \in Working, Target[g] = r
        PROVE  flow[g].no \in 1 .. n - 1
    BY <2>1, <1>1 DEF IInv, AttemptsDistinct, n
  <2>2. SUFFICES ASSUME NEW g \in FlowRun, flow'[g].step \in Working
        PROVE  /\ flow'[g].no \in 1..run'[Target[g]].count
               /\ flow'[g].no = run'[Target[g]].count <=> run'[Target[g]].holder = g
               /\ \A h \in FlowRun \ {g} :
                     flow'[h].step \in Working /\ Target[h] = Target[g]
                     => flow'[h].no # flow'[g].no
    BY DEF AttemptsDistinct
  <2>3. CASE g = f
    <3>1. n \in 1..n
      BY <1>1 DEF n
    <3>2. QED
      BY <2>1, <2>3, <3>1, <1>1, <1>4, <1>5
  <2>4. CASE g # f /\ Target[g] = r
    <3>1. flow[g].no \in 1 .. n - 1
      BY <2>1, <2>2, <2>4, <1>4
    <3>2. flow[g].no \in 1..n /\ flow[g].no # n
      BY <3>1, <1>1
    <3>3. \A h \in FlowRun \ {g} : h # f /\ flow[h].step \in Working /\ Target[h] = r
             => flow[h].no # flow[g].no
      BY <2>2, <2>4, <1>4 DEF IInv, AttemptsDistinct
    <3>4. QED
      BY <2>4, <3>2, <3>3, <1>4, <1>5
  <2>5. CASE Target[g] # r
    <3>1. Target[g] \in Run /\ g # f
      BY <2>5, ConstantsOK
    <3>2. QED
      BY <2>2, <2>5, <3>1, <1>4, <1>5 DEF IInv, AttemptsDistinct
  <2>6. QED
    BY <2>3, <2>4, <2>5
<1>9. TablesKeyed' /\ MappingAgrees' /\ SuccessIsInTheList'
  BY <1>2, <1>5 DEF IInv, TablesKeyed, Unique, MappingAgrees, SuccessIsInTheList, InList, Known
<1>10. QED
  BY <1>6, <1>7, <1>8, <1>9 DEF IInv

\* A row that is closed with status s.
WithStatus(row, s) == [row EXCEPT !.status = s, !.left = 0]

LEMMA ClosedRow ==
    ASSUME NEW row \in Row, NEW s \in {"SUCCEEDED", "FAILED"}
    PROVE  /\ WithStatus(row, s) \in Row /\ WithStatus(row, s).status = s
           /\ WithStatus(row, s).holder = row.holder
           /\ WithStatus(row, s).count = row.count
<1>1. 0 \in 0..Lease
  BY ConstantsOK
<1>2. QED
  BY <1>1 DEF Row, WithStatus

\* Closing a run leaves holder, count and every other slot as they are.
LEMMA CloseKeepsInvariant ==
    ASSUME IInv, NEW f \in FlowRun, NEW e \in Memory,
           flow[f].step \in Working,
           e.step = "over" \/ (e.step = "failing" /\ e.no = flow[f].no),
           flow' = [flow EXCEPT ![f] = e],
           NEW status \in {"SUCCEEDED", "FAILED"},
           run' = [run EXCEPT ![Target[f]].status = status, ![Target[f]].left = 0],
           UNCHANGED issues,
           current' \in [StockId -> MaybeCode], mapping' \in [Security -> MaybeId],
           named' \in [Security -> MaybeCode], published' \in [Run -> SUBSET Security],
           TablesKeyed', MappingAgrees',
           \A r \in Run \ {Target[f]} : published'[r] = published[r],
           status = "SUCCEEDED" => published'[Target[f]] # {}
    PROVE  IInv'
<1> DEFINE r == Target[f]
<1>1. r \in Run
  BY ConstantsOK
<1>2. /\ flow' \in [FlowRun -> Memory]
      /\ \A g \in FlowRun : flow'[g] = IF g = f THEN e ELSE flow[g]
  BY DEF IInv, TypeOK, Memory
<1>3. /\ run' \in [Run -> Row]
      /\ run'[r].status = status
      /\ \A q \in Run : run'[q].holder = run[q].holder /\ run'[q].count = run[q].count
      /\ \A q \in Run \ {r} : run'[q] = run[q]
  <2> DEFINE row == WithStatus(run[r], status)
  <2>1. run \in [Run -> Row] /\ run[r] \in Row
    BY <1>1 DEF IInv, TypeOK, Row
  <2>2. /\ row \in Row /\ row.status = status
        /\ row.holder = run[r].holder /\ row.count = run[r].count
    BY <2>1, ClosedRow
  <2>3. run' = [run EXCEPT ![r] = row]
    BY <1>1, <2>1 DEF WithStatus
  <2> HIDE DEF row, r
  <2>4. \A q \in Run : run'[q] = IF q = r THEN row ELSE run[q]
    BY <2>1, <2>3
  <2>5. run' \in [Run -> Row]
    BY <2>1, <2>2, <2>3
  <2>6. QED
    BY <1>1, <2>2, <2>4, <2>5
<1>4. TypeOK'
  BY <1>2, <1>3 DEF IInv, TypeOK, Memory, Row
<1>5. BatchesResolved'
  BY <1>2 DEF IInv, BatchesResolved, Known, Unique
<1>6. AttemptsDistinct'
  <2>1. \A g \in FlowRun : flow'[g].step \in Working =>
           flow[g].step \in Working /\ flow'[g].no = flow[g].no
    BY <1>2 DEF Working
  <2>2. \A g \in FlowRun : Target[g] \in Run
    BY ConstantsOK
  <2>3. QED
    BY <1>3, <2>1, <2>2 DEF IInv, AttemptsDistinct
<1>7. \A q \in Run : published'[q] \subseteq InList'
  BY DEF TablesKeyed, MappingAgrees, InList, Known
<1>8. SuccessIsInTheList'
  BY <1>1, <1>3, <1>7 DEF IInv, SuccessIsInTheList
<1>9. QED
  BY <1>4, <1>5, <1>6, <1>8 DEF IInv

\* What a publication makes of the two tables when the mapping keeps its key:
\* the stock of a record gets the record's code, and no stock that stays with
\* its security is touched.
LEMMA PublicationOfRecord ==
    ASSUME IInv, NEW f \in FlowRun, flow[f].step = "resolved", Unique(Mapped(f))
    PROVE  /\ Mapped(f) \in [Security -> MaybeId] /\ Listed(f) \in [StockId -> MaybeCode]
           /\ \A p \in Known(flow[f].batch) : /\ Mapped(f)[p] = flow[f].ids[p]
                                             /\ flow[f].ids[p] \in StockId
                                             /\ Listed(f)[flow[f].ids[p]] = flow[f].batch[p]
           /\ \A p \in Known(mapping) \ Known(flow[f].batch) :
                 Mapped(f)[p] = mapping[p] /\ Listed(f)[mapping[p]] = current[mapping[p]]
<1> DEFINE batch == flow[f].batch
           ids == flow[f].ids
<1>1. /\ batch \in [Security -> MaybeCode] /\ ids \in [Security -> MaybeId]
      /\ mapping \in [Security -> MaybeId] /\ current \in [StockId -> MaybeCode]
  BY DEF IInv, TypeOK
<1>2. \A p \in Known(batch) : p \in Security /\ ids[p] \in StockId
  BY <1>1 DEF IInv, BatchesResolved, Known, MaybeId
<1>3. /\ Mapped(f) \in [Security -> MaybeId]
      /\ \A p \in Security : Mapped(f)[p] = IF p \in Known(batch) THEN ids[p] ELSE mapping[p]
  BY <1>1 DEF Mapped
<1>4. /\ \A s \in StockId : s # NoOne
      /\ DOMAIN Mapped(f) = Security
  BY <1>3, ConstantsOK DEF StockId
<1>5. \A p, q \in Security : Mapped(f)[p] # NoOne /\ Mapped(f)[q] = Mapped(f)[p] => p = q
  BY <1>4 DEF Unique
<1> DEFINE of(s) == CHOOSE p \in Known(batch) : ids[p] = s
<1>6. \A s \in StockId : Listed(f)[s] = IF \E p \in Known(batch) : ids[p] = s
                                      THEN batch[of(s)] ELSE current[s]
  BY DEF Listed
<1>7. ASSUME NEW s \in StockId, \E p \in Known(batch) : ids[p] = s
      PROVE  of(s) \in Known(batch) /\ ids[of(s)] = s
  BY <1>7
<1> HIDE DEF of
<1>8. Listed(f) \in [StockId -> MaybeCode]
  <2>1. \A s \in StockId : Listed(f)[s] \in MaybeCode
    BY <1>1, <1>2, <1>6, <1>7
  <2>2. QED
    BY <2>1 DEF Listed
<1>9. ASSUME NEW p \in Known(batch) PROVE Listed(f)[ids[p]] = batch[p]
  <2>1. of(ids[p]) \in Known(batch) /\ ids[of(ids[p])] = ids[p]
    BY <1>2, <1>7
  <2>2. of(ids[p]) = p
    BY <2>1, <1>2, <1>3, <1>4, <1>5
  <2>3. QED
    BY <2>2, <1>2, <1>6
<1>10. ASSUME NEW p \in Known(mapping) \ Known(batch)
       PROVE  Mapped(f)[p] = mapping[p] /\ Listed(f)[mapping[p]] = current[mapping[p]]
  <2>1. p \in Security /\ mapping[p] \in StockId /\ mapping[p] # NoOne
    BY <1>1, <1>4 DEF Known, MaybeId
  <2>2. Mapped(f)[p] = mapping[p]
    BY <2>1, <1>3
  <2>3. ~ \E q \in Known(batch) : ids[q] = mapping[p]
    BY <2>1, <2>2, <1>2, <1>3, <1>5
  <2>4. QED
    BY <2>1, <2>2, <2>3, <1>6
<1>11. QED
  BY <1>2, <1>3, <1>8, <1>9, <1>10

LEMMA PublishKeepsInvariant ==
    ASSUME IInv, NEW f \in FlowRun, PublishSuccess(f) PROVE IInv'
<1> DEFINE r == Target[f]
           batch == flow[f].batch
           ids == flow[f].ids
<1>1. /\ flow[f].step = "resolved" /\ UniqueKeysHold(f)
      /\ current' = Listed(f) /\ mapping' = Mapped(f)
      /\ named' = [p \in Security |-> IF p \in Known(batch) THEN batch[p] ELSE named[p]]
      /\ run' = [run EXCEPT ![r].status = "SUCCEEDED", ![r].left = 0]
      /\ published' = [published EXCEPT ![r] = @ \cup Known(batch)]
      /\ UNCHANGED issues
  BY DEF PublishSuccess, Publish
<1>2. /\ flow[f] \in Memory /\ r \in Run
      /\ batch \in [Security -> MaybeCode] /\ Known(batch) # {}
      /\ Known(batch) \subseteq Security /\ Known(mapping) \subseteq Security
      /\ published \in [Run -> SUBSET Security] /\ named \in [Security -> MaybeCode]
  BY <1>1, ConstantsOK DEF IInv, TypeOK, Memory, BatchesResolved, Known
<1>3. /\ mapping' \in [Security -> MaybeId] /\ current' \in [StockId -> MaybeCode]
      /\ \A p \in Known(batch) : /\ mapping'[p] = ids[p] /\ ids[p] \in StockId
                                 /\ current'[ids[p]] = batch[p]
      /\ \A p \in Known(mapping) \ Known(batch) :
            mapping'[p] = mapping[p] /\ current'[mapping[p]] = current[mapping[p]]
  BY <1>1, PublicationOfRecord DEF UniqueKeysHold
<1>4. /\ named' \in [Security -> MaybeCode]
      /\ \A p \in Security : named'[p] = IF p \in Known(batch) THEN batch[p] ELSE named[p]
  BY <1>1, <1>2
<1>5. /\ published' \in [Run -> SUBSET Security]
      /\ published'[r] = published[r] \cup Known(batch)
      /\ \A q \in Run \ {r} : published'[q] = published[q]
  BY <1>1, <1>2
<1>6. TablesKeyed' /\ MappingAgrees'
  <2>1. \A p \in Security : p \in Known(mapping') <=> p \in Known(mapping) \cup Known(batch)
    <3>1. \A s \in StockId : s # NoOne
      BY ConstantsOK DEF StockId
    <3>2. \A p \in Known(batch) : mapping'[p] # NoOne
      BY <1>3, <3>1
    <3>3. \A p \in Known(mapping) \ Known(batch) : mapping'[p] # NoOne
      BY <1>3 DEF Known
    <3>4. \A p \in Security : p \notin Known(mapping) \cup Known(batch) => mapping'[p] = NoOne
      BY <1>1 DEF Mapped, Known
    <3>5. \A p \in Security : p \in Known(mapping') <=> mapping'[p] # NoOne
      BY DEF Known
    <3>6. QED
      BY <3>2, <3>3, <3>4, <3>5
  <2>2. \A p \in Security : p \in Known(mapping) => named[p] # NoOne /\ current[mapping[p]] = named[p]
    BY DEF IInv, TablesKeyed, MappingAgrees
  <2>3. \A p \in Known(batch) : batch[p] # NoOne
    BY DEF Known
  <2>4. \A p \in Security : p \in Known(mapping') =>
           named'[p] # NoOne /\ current'[mapping'[p]] = named'[p]
    BY <1>3, <1>4, <2>1, <2>2, <2>3
  <2>5. \A q \in Run : published[q] \subseteq Known(mapping)
    BY DEF IInv, TablesKeyed
  <2>6. \A q \in Run : published'[q] \subseteq Known(mapping')
    BY <1>2, <1>5, <2>1, <2>5
  <2>7. (Unique(mapping) /\ Unique(current))'
    BY <1>1 DEF UniqueKeysHold, Unique
  <2>8. Known(mapping') \subseteq Security
    BY DEF Known
  <2>9. QED
    BY <2>4, <2>6, <2>7, <2>8 DEF TablesKeyed, MappingAgrees
<1>7. PICK e \in Memory :
        /\ flow' = [flow EXCEPT ![f] = e]
        /\ e.step = "over" \/ (e.step = "failing" /\ e.no = flow[f].no)
  <2>1. flow[f].no \in Nat
    BY <1>2 DEF Memory
  <2>2. /\ At("over", 0) \in Memory /\ At("over", 0).step = "over"
        /\ At("failing", flow[f].no) \in Memory
        /\ At("failing", flow[f].no).step = "failing"
        /\ At("failing", flow[f].no).no = flow[f].no
    BY <2>1, AtIsMemory DEF Step, Working
  <2>3. \/ flow' = [flow EXCEPT ![f] = At("over", 0)]
        \/ flow' = [flow EXCEPT ![f] = At("failing", flow[f].no)]
    BY DEF PublishSuccess, Stop
  <2>4. \E e \in {At("over", 0), At("failing", flow[f].no)} : flow' = [flow EXCEPT ![f] = e]
    BY <2>3
  <2>5. \A e \in {At("over", 0), At("failing", flow[f].no)} :
           e \in Memory /\ (e.step = "over" \/ (e.step = "failing" /\ e.no = flow[f].no))
    BY <2>2
  <2>6. QED
    BY <2>4, <2>5
<1>8. flow[f].step \in Working /\ published'[r] # {}
  BY <1>1, <1>2, <1>5 DEF Working
<1> HIDE DEF r, batch, ids
<1>9. QED
  BY <1>1, <1>3, <1>4, <1>5, <1>6, <1>7, <1>8, CloseKeepsInvariant DEF r

LEMMA FailureKeepsInvariant ==
    ASSUME IInv, NEW f \in FlowRun, RecordFailure(f) PROVE IInv'
<1>1. /\ flow[f].step \in Working
      /\ flow' = [flow EXCEPT ![f] = At("over", 0)]
      /\ run' = [run EXCEPT ![Target[f]].status = "FAILED", ![Target[f]].left = 0]
      /\ UNCHANGED <<issues, current, mapping, named, published>>
  BY DEF RecordFailure, Stop, Working, list
<1>2. At("over", 0) \in Memory /\ At("over", 0).step = "over"
  BY AtIsMemory DEF Step
<1>3. /\ current' \in [StockId -> MaybeCode] /\ mapping' \in [Security -> MaybeId]
      /\ named' \in [Security -> MaybeCode] /\ published' \in [Run -> SUBSET Security]
  BY <1>1 DEF IInv, TypeOK
<1>4. /\ TablesKeyed' /\ MappingAgrees'
      /\ \A r \in Run \ {Target[f]} : published'[r] = published[r]
  BY <1>1 DEF IInv, TablesKeyed, MappingAgrees, Unique, Known
<1> DEFINE e == At("over", 0)
           s == "FAILED"
<1>5. /\ UNCHANGED issues /\ e \in Memory /\ e.step = "over" /\ flow' = [flow EXCEPT ![f] = e]
      /\ run' = [run EXCEPT ![Target[f]].status = s, ![Target[f]].left = 0]
      /\ s \in {"SUCCEEDED", "FAILED"} /\ s # "SUCCEEDED"
  BY <1>1, <1>2
<1> HIDE DEF e, s
<1>6. QED
  BY <1>1, <1>3, <1>4, <1>5, CloseKeepsInvariant

\* An id found or drawn for a record is never the null.
LEMMA IdentityIsId ==
    ASSUME IInv, NEW f \in FlowRun, NEW p \in Security
    PROVE  Identity(f, p) \in MaybeId \ {NoOne}
<1>1. <<f, p>> \in StockId /\ NoOne \notin StockId
  BY ConstantsOK DEF StockId
<1>2. mapping[p] \in MaybeId
  BY DEF IInv, TypeOK
<1>3. Keyed(flow[f].batch[p]) \in MaybeId
  BY DEF Keyed, MaybeId
<1>4. QED
  BY <1>1, <1>2, <1>3 DEF Identity, MaybeId

LEMMA SyncKeepsInvariant ==
    ASSUME IInv, NEW f \in FlowRun, Sync(f) PROVE IInv'
<1>1. flow[f] \in Memory /\ flow \in [FlowRun -> Memory]
  BY DEF IInv, TypeOK, Memory
<1>2. CASE Fetch(f)
  <2>1. PICK batch \in [Security -> MaybeCode] :
          /\ Known(batch) # {} /\ Unique(batch)
          /\ flow' = [flow EXCEPT ![f] = [step |-> "fetched", no |-> flow[f].no,
                                          batch |-> batch, ids |-> Nowhere]]
    BY <1>2 DEF Fetch
  <2> DEFINE e == [step |-> "fetched", no |-> flow[f].no, batch |-> batch, ids |-> Nowhere]
  <2>2. /\ e \in Memory /\ e.step = "fetched" /\ e.no = flow[f].no
        /\ Known(e.batch) # {} /\ Unique(e.batch) /\ flow' = [flow EXCEPT ![f] = e]
    <3>1. Nowhere \in [Security -> MaybeId] /\ flow[f].no \in Nat
      BY <1>1 DEF Memory, Nowhere, MaybeId
    <3>2. e \in Memory
      BY <3>1 DEF Memory, Step, Working
    <3>3. e.step = "fetched" /\ e.no = flow[f].no /\ e.batch = batch
      OBVIOUS
    <3>4. QED
      BY <3>2, <3>3, <2>1
  <2>3. flow[f].step \in Working /\ UNCHANGED <<ledger, list>>
    BY <1>2 DEF Fetch, Working
  <2> HIDE DEF e
  <2>4. QED
    BY <2>2, <2>3, MemoryStep
<1>3. CASE CheckBaseline(f)
  <2> DEFINE e == [flow[f] EXCEPT !.step = "checked"]
  <2>1. /\ e \in Memory /\ e.step = "checked" /\ e.no = flow[f].no
        /\ e.batch = flow[f].batch /\ flow' = [flow EXCEPT ![f] = e]
    BY <1>1, <1>3 DEF CheckBaseline, Memory, Step, Working
  <2>2. /\ flow[f].step \in Working /\ UNCHANGED <<ledger, list>>
        /\ Known(flow[f].batch) # {} /\ Unique(flow[f].batch)
    BY <1>3 DEF CheckBaseline, Working, IInv, BatchesResolved
  <2> HIDE DEF e
  <2>3. QED
    BY <2>1, <2>2, MemoryStep
<1>4. CASE Resolve(f)
  <2> DEFINE ids == [p \in Security |-> IF p \in Known(flow[f].batch)
                                      THEN Identity(f, p) ELSE NoOne]
             e == [flow[f] EXCEPT !.step = "resolved", !.ids = ids]
  <2>1. /\ ids \in [Security -> MaybeId]
        /\ \A p \in Security : p \in Known(flow[f].batch) => ids[p] # NoOne
    BY IdentityIsId DEF MaybeId
  <2> HIDE DEF ids
  <2>2. /\ e \in Memory /\ e.step = "resolved" /\ e.no = flow[f].no
        /\ e.batch = flow[f].batch /\ e.ids = ids
    BY <1>1, <2>1 DEF Memory, Step, Working
  <2>3. flow' = [flow EXCEPT ![f] = e] /\ UNCHANGED <<ledger, list>>
    BY <1>4, <1>1 DEF Resolve, ids
  <2>4. /\ flow[f].step \in Working
        /\ Known(flow[f].batch) # {} /\ Unique(flow[f].batch)
    BY <1>4 DEF Resolve, Working, IInv, BatchesResolved
  <2>5. Known(flow[f].batch) \subseteq Known(ids)
    BY <2>1 DEF Known
  <2> HIDE DEF e
  <2>6. QED
    BY <2>1, <2>2, <2>3, <2>4, <2>5, MemoryStep
<1>5. CASE StepFails(f)
  <2>1. /\ At("failing", flow[f].no) \in Memory
        /\ At("failing", flow[f].no).step = "failing"
        /\ At("failing", flow[f].no).no = flow[f].no
    BY <1>1, AtIsMemory DEF Memory, Step, Working
  <2>2. QED
    BY <2>1, <1>5, MemoryStep DEF StepFails
<1>6. QED
  BY <1>2, <1>3, <1>4, <1>5, PublishKeepsInvariant, FailureKeepsInvariant DEF Sync

LEMMA ClaimKeepsInvariant ==
    ASSUME IInv, NEW f \in FlowRun, Claim(f) PROVE IInv'
<1>1. issues \in SUBSET (Run \X Nat) /\ Target[f] \in Run
  BY ConstantsOK DEF IInv, TypeOK
<1>2. CASE ClaimSeesNoRun(f)
  <2>1. At("inserting", 0) \in Memory /\ At("inserting", 0).step = "inserting"
    BY AtIsMemory DEF Step
  <2>2. QED
    BY <2>1, <1>2, MemoryStep DEF ClaimSeesNoRun, Working
<1>3. CASE ClaimLosesInsert(f) \/ ClaimRefused(f)
  BY <1>3, StopKeepsInvariant DEF ClaimLosesInsert, ClaimRefused
<1>4. CASE ClaimInsert(f) \/ ClaimFailed(f)
  BY <1>1, <1>4, TakeKeepsInvariant DEF ClaimInsert, ClaimFailed, Working
<1>5. CASE ClaimExpired(f)
  <2>1. run[Target[f]].count \in Nat
    BY <1>1 DEF IInv, TypeOK
  <2>2. QED
    BY <1>1, <2>1, <1>5, TakeKeepsInvariant DEF ClaimExpired, Working
<1>6. QED
  BY <1>2, <1>3, <1>4, <1>5 DEF Claim

LEMMA TickKeepsInvariant == ASSUME IInv, Tick PROVE IInv'
<1>1. /\ run' = [r \in Run |-> [run[r] EXCEPT !.left = IF @ = 0 THEN 0 ELSE @ - 1]]
      /\ UNCHANGED <<issues, current, mapping, named, published, flow>>
  BY DEF Tick, list
<1>2. /\ run' \in [Run -> Row]
      /\ \A r \in Run : /\ run'[r].status = run[r].status
                        /\ run'[r].holder = run[r].holder /\ run'[r].count = run[r].count
  <2>1. ASSUME NEW r \in Run
        PROVE  LET row == [run[r] EXCEPT !.left = IF @ = 0 THEN 0 ELSE @ - 1]
               IN  /\ row \in Row /\ row.status = run[r].status
                   /\ row.holder = run[r].holder /\ row.count = run[r].count
    <3>1. run[r] \in Row
      BY DEF IInv, TypeOK, Row
    <3>2. (IF run[r].left = 0 THEN 0 ELSE run[r].left - 1) \in 0..Lease
      BY <3>1, ConstantsOK DEF Row
    <3>3. QED
      BY <3>1, <3>2 DEF Row
  <2>2. QED
    BY <1>1, <2>1
<1>3. \A f \in FlowRun : Target[f] \in Run
  BY ConstantsOK
<1>4. TypeOK'
  BY <1>1, <1>2 DEF IInv, TypeOK, Row
<1>5. AttemptsDistinct'
  BY <1>1, <1>2, <1>3 DEF IInv, AttemptsDistinct
<1>6. BatchesResolved' /\ TablesKeyed' /\ MappingAgrees'
  BY <1>1 DEF IInv, BatchesResolved, TablesKeyed, MappingAgrees, Known, Unique
<1>7. InList' = InList
  BY <1>1 DEF InList, Known
<1>8. SuccessIsInTheList'
  BY <1>1, <1>2, <1>7 DEF IInv, SuccessIsInTheList
<1>9. QED
  BY <1>4, <1>5, <1>6, <1>8 DEF IInv

-----------------------------------------------------------------------------
(* The theorems *)

\* The ledger, the list, the mapping and the memory of the executions agree,
\* for any slots, executions, securities and lease.
THEOREM InvariantHolds == Spec => []IInv
<1>1. Init => IInv
  <2> SUFFICES ASSUME Init PROVE IInv
    OBVIOUS
  <2>1. At("new", 0) \in Memory /\ At("new", 0).step = "new"
    BY AtIsMemory DEF Step
  <2>2. flow \in [FlowRun -> Memory] /\ \A f \in FlowRun : flow[f].step = "new"
    BY <2>1 DEF Init
  <2>3. TypeOK
    BY <2>2, ConstantsOK DEF Init, TypeOK, Memory, Nowhere, MaybeId, MaybeCode
  <2>4. BatchesResolved /\ AttemptsDistinct
    BY <2>2 DEF Init, BatchesResolved, AttemptsDistinct, Working
  <2>5. Known(mapping) = {} /\ Unique(mapping) /\ Unique(current)
    BY DEF Init, Known, Unique, Nowhere
  <2>6. TablesKeyed /\ MappingAgrees /\ SuccessIsInTheList
    BY <2>5 DEF Init, TablesKeyed, MappingAgrees, SuccessIsInTheList
  <2>7. QED
    BY <2>3, <2>4, <2>6 DEF IInv
<1>2. IInv /\ [Next]_vars => IInv'
  <2> SUFFICES ASSUME IInv, [Next]_vars PROVE IInv'
    OBVIOUS
  <2>1. ASSUME NEW f \in FlowRun, Claim(f) PROVE IInv'
    BY <2>1, ClaimKeepsInvariant
  <2>2. ASSUME NEW f \in FlowRun, Sync(f) PROVE IInv'
    BY <2>2, SyncKeepsInvariant
  <2>3. ASSUME NEW f \in FlowRun, Crash(f) PROVE IInv'
    BY <2>3, StopKeepsInvariant DEF Crash
  <2>4. CASE Tick
    BY <2>4, TickKeepsInvariant
  <2>5. CASE UNCHANGED vars
    BY <2>5 DEF vars, IInv, TypeOK, BatchesResolved, TablesKeyed, AttemptsDistinct,
       MappingAgrees, SuccessIsInTheList, InList, Known, Unique
  <2>6. QED
    BY <2>1, <2>2, <2>3, <2>4, <2>5 DEF Next
<1>3. QED
  BY <1>1, <1>2, PTL DEF Spec

\* Overlapping executions of a slot have attempt numbers of their own.
THEOREM Distinct == Spec => []AttemptsDistinct
<1>1. IInv => AttemptsDistinct
  BY DEF IInv
<1>2. QED
  BY <1>1, InvariantHolds, PTL

\* Identity and code of a security lead to the same stock, for any number of
\* executions whose lists rename securities and draw ids of their own.
THEOREM MappingIsList == Spec => []MappingAgrees
<1>1. IInv => MappingAgrees
  BY DEF IInv
<1>2. QED
  BY <1>1, InvariantHolds, PTL

\* A succeeded slot has its securities in the list.
THEOREM SuccessInList == Spec => []SuccessIsInTheList
<1>1. IInv => SuccessIsInTheList
  BY DEF IInv
<1>2. QED
  BY <1>1, InvariantHolds, PTL

\* A security leaves its stock only along with a code: whoever drew another id
\* for the code it has by now is stopped by the unique key.
THEOREM IdentityIsStable == Spec => IdentityStable
<1> DEFINE Stable == \A p \in Security : mapping[p] # NoOne /\ mapping'[p] # mapping[p] =>
                        \/ named'[p] # named[p]
                        \/ current'[mapping[p]] # current[mapping[p]]
<1>1. IInv /\ IInv' /\ [Next]_vars => [Stable]_vars
  <2> SUFFICES ASSUME IInv, IInv', Next, NEW p \in Security,
                      mapping[p] # NoOne, mapping'[p] # mapping[p],
                      named'[p] = named[p], current'[mapping[p]] = current[mapping[p]]
               PROVE  FALSE
    OBVIOUS
  <2>1. PICK f \in FlowRun : PublishSuccess(f)
    <3>1. ASSUME NEW f \in FlowRun, Claim(f) PROVE mapping' = mapping
      BY <3>1 DEF Claim, ClaimSeesNoRun, ClaimInsert, ClaimLosesInsert, ClaimRefused,
         ClaimFailed, ClaimExpired, Take, list
    <3>2. ASSUME NEW f \in FlowRun,
                 Fetch(f) \/ CheckBaseline(f) \/ Resolve(f) \/ StepFails(f)
                          \/ RecordFailure(f) \/ Crash(f)
          PROVE  mapping' = mapping
      BY <3>2 DEF Fetch, CheckBaseline, Resolve, StepFails, RecordFailure, Crash, list
    <3>3. Tick => mapping' = mapping
      BY DEF Tick, list
    <3>4. QED
      BY <3>1, <3>2, <3>3 DEF Next, Sync
  <2>2. /\ flow[f].step = "resolved" /\ Unique(Mapped(f)) /\ mapping' = Mapped(f)
        /\ p \in Known(mapping)
    BY <2>1 DEF PublishSuccess, Publish, UniqueKeysHold, Known
  <2>3. p \in Known(flow[f].batch) /\ mapping'[p] = flow[f].ids[p] /\ flow[f].ids[p] \in StockId
    BY <2>2, PublicationOfRecord
  <2>4. mapping'[p] \in StockId /\ mapping[p] \in StockId /\ mapping'[p] # NoOne
    BY <2>3, ConstantsOK DEF IInv, TypeOK, MaybeId, StockId
  <2>5. current[mapping[p]] = named[p] /\ named[p] # NoOne
    BY <2>2 DEF IInv, MappingAgrees, TablesKeyed
  <2>6. current'[mapping'[p]] = named'[p]
    BY <2>4 DEF IInv, MappingAgrees, Known
  <2>7. \A s, t \in StockId : current'[s] # NoOne /\ current'[t] = current'[s] => s = t
    BY DEF IInv, TypeOK, TablesKeyed, Unique
  <2>8. QED
    BY <2>4, <2>5, <2>6, <2>7
<1>2. QED
  BY <1>1, InvariantHolds, PTL DEF Spec, IdentityStable

\* Only a manual retry that finds the lease over takes a running slot, and it
\* files the abandoned attempt in the same step.
THEOREM LeaseProtects == Spec => TakeoverOnlyByLease
<1> DEFINE Protected ==
        \A r \in Run :
           run[r].status = "RUNNING" /\ run'[r].holder # run[r].holder =>
              run[r].left = 0 /\ <<r, run[r].count>> \in issues'
<1>1. IInv /\ [Next]_vars => [Protected]_vars
  <2> SUFFICES ASSUME IInv, Next, NEW r \in Run,
                      run[r].status = "RUNNING", run'[r].holder # run[r].holder
               PROVE  run[r].left = 0 /\ <<r, run[r].count>> \in issues'
    OBVIOUS
  <2>1. ASSUME NEW f \in FlowRun, ClaimInsert(f) \/ ClaimFailed(f) PROVE run'[r] = run[r]
    BY <2>1 DEF ClaimInsert, ClaimFailed, Take, IInv, TypeOK
  <2>2. ASSUME NEW f \in FlowRun, ClaimExpired(f)
        PROVE  run[r].left = 0 /\ <<r, run[r].count>> \in issues'
    <3>1. CASE r = Target[f]
      BY <2>2, <3>1 DEF ClaimExpired, Expired
    <3>2. CASE r # Target[f]
      BY <2>2, <3>2 DEF ClaimExpired, Take, IInv, TypeOK
    <3>3. QED
      BY <3>1, <3>2
  <2>3. ASSUME NEW f \in FlowRun,
               ClaimSeesNoRun(f) \/ ClaimLosesInsert(f) \/ ClaimRefused(f) \/ Fetch(f)
                 \/ CheckBaseline(f) \/ Resolve(f) \/ StepFails(f) \/ Crash(f)
        PROVE  run' = run
    BY <2>3 DEF ClaimSeesNoRun, ClaimLosesInsert, ClaimRefused, Fetch, CheckBaseline,
       Resolve, StepFails, Crash, ledger
  <2>4. ASSUME NEW f \in FlowRun, PublishSuccess(f) \/ RecordFailure(f)
        PROVE  run'[r].holder = run[r].holder
    <3>1. PICK status \in {"SUCCEEDED", "FAILED"} :
             run' = [run EXCEPT ![Target[f]].status = status, ![Target[f]].left = 0]
      BY <2>4 DEF PublishSuccess, RecordFailure
    <3>2. run \in [Run -> Row]
      BY DEF IInv, TypeOK, Row
    <3>3. CASE r = Target[f]
      BY <3>1, <3>2, <3>3 DEF Row
    <3>4. CASE r # Target[f]
      BY <3>1, <3>2, <3>4
    <3>5. QED
      BY <3>3, <3>4
  <2>5. CASE Tick
    BY <2>5 DEF Tick, IInv, TypeOK
  <2>6. QED
    BY <2>1, <2>2, <2>3, <2>4, <2>5 DEF Next, Claim, Sync
<1>2. QED
  BY <1>1, InvariantHolds, PTL DEF Spec, TakeoverOnlyByLease
=============================================================================
