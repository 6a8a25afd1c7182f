---------------------------- MODULE StockListRun ----------------------------
(***************************************************************************)
(* The daily stock-list synchronisation.  One ledger row per scheduled     *)
(* slot carries the status, the executing flow run and the start time that *)
(* serves as its lease; the stock list and the provider mapping are in the *)
(* same database.  An execution claims the row, fetches the list, checks   *)
(* it against the mapping, resolves every security to a stock_id and       *)
(* publishes everything in one transaction.  Claim, baseline check,        *)
(* resolution, publication and failure are five separate transactions, and *)
(* executions of the same or of other slots run in between.                *)
(*                                                                         *)
(* A record of the list has a provider identity, here a Security, and a    *)
(* venue and code, here a Code.  A stock_id is found by either: the        *)
(* mapping has it for the identity, the list itself for the code, and a    *)
(* list may give a known identity another code.  Names, dates and states   *)
(* of a security are left out.                                             *)
(***************************************************************************)
EXTENDS Naturals

CONSTANTS
    Run,          \* run_key values, one per scheduled slot
    Scheduled,    \* executions started by the schedule (a fresh uuid each)
    Manual,       \* executions started with is_manual_retry
    Target,       \* the slot each execution is for
    Security,     \* provider identities (provider_security_id)
    Code,         \* venue and code
    NoOne,        \* null: no execution, no stock_id, no code
    Lease         \* running_lease_seconds, in ticks

FlowRun == Scheduled \cup Manual

ASSUME ConstantsOK ==
    /\ Target \in [FlowRun -> Run]
    /\ Scheduled \cap Manual = {}
    /\ NoOne \notin FlowRun \cup Code \cup (FlowRun \X Security)
    /\ Lease \in Nat

VARIABLES
    run,       \* stock_list_sync_run, by slot
    issues,    \* ABANDONED rows of stock_list_sync_issue: <<slot, attempt_no>>
    current,   \* stock_current: the code of each stock_id
    mapping,   \* stock_provider_mapping: the stock_id of each provider identity
    flow,      \* the memory of each execution
    named,     \* history: the code each security was last published under
    published  \* history: the securities published under each slot

vars == <<run, issues, current, mapping, flow, named, published>>

\* A stock_id is a uuid4 drawn by one execution for one record.
StockId == FlowRun \X Security
MaybeId == StockId \cup {NoOne}
MaybeCode == Code \cup {NoOne}

Working == {"fetching", "fetched", "checked", "resolved", "failing"}
Step == {"new", "inserting", "over"} \cup Working

\* No stock_ids, and a list without records.
Nowhere == [p \in Security |-> NoOne]

\* An execution at a step that holds no data.
At(step, no) == [step |-> step, no |-> no, batch |-> Nowhere, ids |-> Nowhere]

TypeOK ==
    /\ run \in [Run -> [status : {"ABSENT", "RUNNING", "SUCCEEDED", "FAILED"},
                        holder : FlowRun \cup {NoOne}, count : Nat, left : 0..Lease]]
    /\ issues \subseteq Run \X Nat
    /\ current \in [StockId -> MaybeCode]
    /\ mapping \in [Security -> MaybeId]
    /\ flow \in [FlowRun -> [step : Step, no : Nat, batch : [Security -> MaybeCode],
                             ids : [Security -> MaybeId]]]
    /\ named \in [Security -> MaybeCode]
    /\ published \in [Run -> SUBSET Security]

Init ==
    /\ run = [r \in Run |-> [status |-> "ABSENT", holder |-> NoOne, count |-> 0, left |-> 0]]
    /\ issues = {}
    /\ current = [s \in StockId |-> NoOne]
    /\ mapping = Nowhere
    /\ flow = [f \in FlowRun |-> At("new", 0)]
    /\ named = Nowhere
    /\ published = [r \in Run |-> {}]

\* The securities a list or a table has.
Known(table) == {p \in Security : table[p] # NoOne}

\* A unique key: no two rows of the table have the same entry.
Unique(table) == \A x, y \in DOMAIN table : table[x] # NoOne /\ table[y] = table[x] => x = y

ledger == <<run, issues>>
list == <<current, mapping, named, published>>

-----------------------------------------------------------------------------
(* claim_run *)

Stop(f) == flow' = [flow EXCEPT ![f] = At("over", 0)]

\* Fault: a repeated attempt keeps its predecessor's number.
NextNumberKept(r) == IF run[r].count = 0 THEN 1 ELSE run[r].count

NextNumber(r) == run[r].count + 1

\* The row is RUNNING for f, under a new attempt number and a new lease.
Take(f, r) ==
    /\ run' = [run EXCEPT ![r] = [status |-> "RUNNING", holder |-> f,
                                  count |-> NextNumber(r), left |-> Lease]]
    /\ flow' = [flow EXCEPT ![f] = At("fetching", NextNumber(r))]
    /\ UNCHANGED list

\* SELECT ... FOR UPDATE finds no row; the INSERT is still to come.
ClaimSeesNoRun(f) ==
    /\ flow[f].step = "new"
    /\ run[Target[f]].status = "ABSENT"
    /\ flow' = [flow EXCEPT ![f] = At("inserting", 0)]
    /\ UNCHANGED <<ledger, list>>

ClaimInsert(f) ==
    /\ flow[f].step = "inserting"
    /\ run[Target[f]].status = "ABSENT"
    /\ Take(f, Target[f])
    /\ UNCHANGED issues

\* Another execution inserted the row: the error reaches the flow.
ClaimLosesInsert(f) ==
    /\ flow[f].step = "inserting"
    /\ run[Target[f]].status # "ABSENT"
    /\ Stop(f)
    /\ UNCHANGED <<ledger, list>>

\* Faults: the start time is not compared; a running row is never retaken.
ExpiredAlways(r) == TRUE
ExpiredNever(r) == FALSE

Expired(r) == run[r].left = 0

\* should_execute is False: the service reports the row as it stands.
ClaimRefused(f) ==
    LET r == Target[f] IN
    /\ flow[f].step = "new"
    /\ \/ run[r].status = "SUCCEEDED"
       \/ run[r].status = "FAILED" /\ f \notin Manual
       \/ run[r].status = "RUNNING" /\ (f \notin Manual \/ ~Expired(r))
    /\ Stop(f)
    /\ UNCHANGED <<ledger, list>>

ClaimFailed(f) ==
    LET r == Target[f] IN
    /\ flow[f].step = "new"
    /\ f \in Manual
    /\ run[r].status = "FAILED"
    /\ Take(f, r)
    /\ UNCHANGED issues

\* The lease of the running attempt is over: it is recorded as abandoned.
ClaimExpired(f) ==
    LET r == Target[f] IN
    /\ flow[f].step = "new"
    /\ f \in Manual
    /\ run[r].status = "RUNNING" /\ Expired(r)
    /\ issues' = issues \cup {<<r, run[r].count>>}
    /\ Take(f, r)

-----------------------------------------------------------------------------
(* sync, after the claim *)

\* A list that proves its coverage: it is not empty, and neither an identity
\* nor a code is in it twice.
Fetch(f) ==
    /\ flow[f].step = "fetching"
    /\ \E batch \in [Security -> MaybeCode] :
          /\ Known(batch) # {} /\ Unique(batch)
          /\ flow' = [flow EXCEPT ![f] = [step |-> "fetched", no |-> flow[f].no,
                                          batch |-> batch, ids |-> Nowhere]]
    /\ UNCHANGED <<ledger, list>>

\* provider_mappings: every mapped identity must be in the batch.
CheckBaseline(f) ==
    /\ flow[f].step = "fetched"
    /\ Known(mapping) \subseteq Known(flow[f].batch)
    /\ flow' = [flow EXCEPT ![f].step = "checked"]
    /\ UNCHANGED <<ledger, list>>

\* The stock the list has under a code.
Keyed(c) == IF \E s \in StockId : current[s] = c
            THEN CHOOSE s \in StockId : current[s] = c ELSE NoOne

\* The mapped stock, or the stock with the record's code, or a new one.
Identity(f, p) ==
    IF mapping[p] # NoOne THEN mapping[p]
    ELSE IF Keyed(flow[f].batch[p]) # NoOne THEN Keyed(flow[f].batch[p])
    ELSE <<f, p>>

\* Mapping and code lead to different stocks: resolve_records raises.
Conflict(f) ==
    \E p \in Known(flow[f].batch) : /\ mapping[p] # NoOne
                                    /\ Keyed(flow[f].batch[p]) \notin {NoOne, mapping[p]}

\* resolve_records, in a transaction of its own.
Resolve(f) ==
    /\ flow[f].step = "checked"
    /\ ~Conflict(f)
    /\ flow' = [flow EXCEPT ![f].step = "resolved",
                            ![f].ids = [p \in Security |-> IF p \in Known(flow[f].batch)
                                                           THEN Identity(f, p) ELSE NoOne]]
    /\ UNCHANGED <<ledger, list>>

\* The stock of a record is inserted or gets the record's code.
Listed(f) ==
    [s \in StockId |-> IF \E p \in Known(flow[f].batch) : flow[f].ids[p] = s
                       THEN flow[f].batch[CHOOSE p \in Known(flow[f].batch) : flow[f].ids[p] = s]
                       ELSE current[s]]

\* The mapping row of a record is inserted or gets the record's stock.
Mapped(f) ==
    [p \in Security |-> IF p \in Known(flow[f].batch) THEN flow[f].ids[p] ELSE mapping[p]]

\* Faults: the list has no unique key on (market, venue, code); the mapping
\* has none on (provider, stock).
CodeKeyMissing(f) == Unique(Mapped(f))
StockKeyMissing(f) == Unique(Listed(f))

\* uq_stock_provider_mapping_stock and uq_stock_current_identity.
UniqueKeysHold(f) == Unique(Mapped(f)) /\ Unique(Listed(f))

\* Fault: the run is closed without its rows.
KeepList(f) == UNCHANGED <<current, mapping>> /\ UNCHANGED named

Publish(f) ==
    /\ current' = Listed(f)
    /\ mapping' = Mapped(f)
    /\ named' = [p \in Security |-> IF p \in Known(flow[f].batch)
                                    THEN flow[f].batch[p] ELSE named[p]]

\* publish_success: the run must be RUNNING, whoever runs it.  The rows are
\* written one by one, so a key may also refuse a list whose end result would
\* respect it (two stocks that exchange their codes): that is StepFails.
PublishSuccess(f) ==
    LET r == Target[f] IN
    /\ flow[f].step = "resolved"
    /\ run[r].status = "RUNNING"
    /\ UniqueKeysHold(f)
    /\ Publish(f)
    /\ run' = [run EXCEPT ![r].status = "SUCCEEDED", ![r].left = 0]
    /\ published' = [published EXCEPT ![r] = @ \cup Known(flow[f].batch)]
    /\ \/ Stop(f)
       \/ flow' = [flow EXCEPT ![f] = At("failing", flow[f].no)]
    /\ UNCHANGED issues

\* The provider, the checks, a conflict, a unique key, the database or the
\* run's status stop the work.
StepFails(f) ==
    /\ flow[f].step \in Working \ {"failing"}
    /\ flow' = [flow EXCEPT ![f] = At("failing", flow[f].no)]
    /\ UNCHANGED <<ledger, list>>

\* Fault: the run takes the status of the issue it files.
AbandonsRun(f) ==
    /\ flow[f].step = "failing"
    /\ run' = [run EXCEPT ![Target[f]].status = "ABANDONED", ![Target[f]].left = 0]
    /\ Stop(f)
    /\ UNCHANGED <<issues, list>>

\* record_failure: no check at all.
RecordFailure(f) ==
    /\ flow[f].step = "failing"
    /\ run' = [run EXCEPT ![Target[f]].status = "FAILED", ![Target[f]].left = 0]
    /\ Stop(f)
    /\ UNCHANGED <<issues, list>>

\* The process dies.
Crash(f) ==
    /\ flow[f].step \notin {"new", "over"}
    /\ Stop(f)
    /\ UNCHANGED <<ledger, list>>

\* Time passes on the clock the executions read started_at from.
Tick ==
    /\ \E r \in Run : run[r].left > 0
    /\ run' = [r \in Run |-> [run[r] EXCEPT !.left = IF @ = 0 THEN 0 ELSE @ - 1]]
    /\ UNCHANGED <<issues, list, flow>>

Claim(f) ==
    \/ ClaimSeesNoRun(f)
    \/ ClaimInsert(f)
    \/ ClaimLosesInsert(f)
    \/ ClaimRefused(f)
    \/ ClaimFailed(f)
    \/ ClaimExpired(f)

Sync(f) ==
    \/ Fetch(f)
    \/ CheckBaseline(f)
    \/ Resolve(f)
    \/ PublishSuccess(f)
    \/ StepFails(f)
    \/ RecordFailure(f)

Next ==
    \/ \E f \in FlowRun : Claim(f) \/ Sync(f) \/ Crash(f)
    \/ Tick

Spec == Init /\ [][Next]_vars

\* Time passes, and a manual retry that is started once the lease is over claims
\* the row.  Nothing is asked of executions that are at work.
Fairness ==
    /\ WF_vars(Tick)
    /\ \A f \in Manual : WF_vars(ClaimExpired(f))

FairSpec == Spec /\ Fairness

-----------------------------------------------------------------------------
(* Properties *)

\* A publication moves a security to another stock only along with a code:
\* the security has another code than before, or the stock it leaves has.
\* Two executions that see it for the first time each draw their own.
IdentityStable ==
    [][\A p \in Security : mapping[p] # NoOne /\ mapping'[p] # mapping[p] =>
          \/ named'[p] # named[p]
          \/ current'[mapping[p]] # current[mapping[p]]]_vars

\* The mapping leads from a security to the stock that carries the code the
\* security was last published under, so who looks it up by identity and who
\* looks it up by code find the same stock, although the lists of overlapping
\* executions give it different codes and different stocks.
MappingAgrees ==
    \A p \in Known(mapping) : current[mapping[p]] = named[p]

\* Executions of one slot that work at the same time, because a lease ran out
\* or a late failure reopened the row, file their issues under different
\* attempt numbers, and the row's holder is the one with the newest.
AttemptsDistinct ==
    \A f \in FlowRun : flow[f].step \in Working =>
        /\ flow[f].no \in 1..run[Target[f]].count
        /\ flow[f].no = run[Target[f]].count <=> run[Target[f]].holder = f
        /\ \A g \in FlowRun \ {f} :
              /\ flow[g].step \in Working
              /\ Target[g] = Target[f]
              => flow[g].no # flow[f].no

\* A running row changes hands only after its lease, and the abandoned attempt
\* has an issue row.
TakeoverOnlyByLease ==
    [][\A r \in Run :
          run[r].status = "RUNNING" /\ run'[r].holder # run[r].holder =>
             run[r].left = 0 /\ <<r, run[r].count>> \in issues']_vars

\* The securities whose stock is in the stock list.
InList == {p \in Known(mapping) : current[mapping[p]] # NoOne}

\* A slot the ledger calls SUCCEEDED has its securities in the stock list.
SuccessIsInTheList ==
    \A r \in Run : run[r].status = "SUCCEEDED" =>
        published[r] # {} /\ published[r] \subseteq InList

\* What an execution holds: a list that is not empty and, once resolved, a
\* stock_id for every security of it.
BatchesResolved ==
    \A f \in FlowRun :
       /\ flow[f].step \in {"fetched", "checked", "resolved"} =>
             Known(flow[f].batch) # {} /\ Unique(flow[f].batch)
       /\ flow[f].step = "resolved" => Known(flow[f].batch) \subseteq Known(flow[f].ids)

\* Both tables respect their keys, a mapped security was published under a
\* code, and what was published stays mapped, also under a slot that a late
\* failure has reopened.
TablesKeyed ==
    /\ Unique(mapping) /\ Unique(current)
    /\ \A p \in Known(mapping) : named[p] # NoOne
    /\ \A r \in Run : published[r] \subseteq Known(mapping)

\* The inductive invariant.
IInv ==
    /\ TypeOK /\ BatchesResolved /\ TablesKeyed /\ AttemptsDistinct /\ MappingAgrees
    /\ SuccessIsInTheList

\* A slot whose execution died does not stay RUNNING for ever as long as
\* somebody has a manual retry left to start.
Orphaned(r) ==
    /\ run[r].status = "RUNNING"
    /\ \A f \in FlowRun : Target[f] = r => flow[f].step \notin Working
    /\ \E f \in Manual : Target[f] = r /\ flow[f].step = "new"

OrphanTakenOver == \A r \in Run : Orphaned(r) ~> ~Orphaned(r)

=============================================================================
