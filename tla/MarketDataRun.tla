---------------------------- MODULE MarketDataRun ----------------------------
(***************************************************************************)
(* One synchronisation of one target trade date, as the market-data, index *)
(* factor, stock factor and shareholder services run it: a Prefect flow    *)
(* run claims an attempt in the MySQL ledger, fetches the batch from the   *)
(* provider, writes it to ClickHouse in one block and then closes the      *)
(* attempt in the ledger.  The two stores share no transaction; a worker   *)
(* can stop between any two steps.                                         *)
(*                                                                         *)
(* Every action is one database transaction or one external call, which is *)
(* what another worker can observe.  All runs of the model are for the     *)
(* same data kind and trade date, so they write the same ClickHouse rows.  *)
(* An attempt row carries the flow_run_id that opened it under a unique    *)
(* key, so the model names an attempt by its flow_run_id.                  *)
(***************************************************************************)
EXTENDS Naturals

CONSTANTS
    Run,          \* run_key values
    Scheduled,    \* flow_run_ids of scheduled flow runs
    Backfill,     \* flow_run_ids "<flow>:<date>:backfill"
    Retry,        \* flow_run_ids "<flow>:<date>:retry"
    Target,       \* the run each flow_run_id is about
    NoAttempt,    \* null
    Lease,        \* lease_seconds, in ticks
    InsertRace,   \* how MySQL may answer the loser of two first claims
    MaxStarts,    \* bound: executions of one flow_run_id
    MaxRevision   \* bound: revisions of the provider's data

FlowRun == Scheduled \cup Backfill \cup Retry
MaybeAttempt == FlowRun \cup {NoAttempt}

ASSUME ConstantsOK ==
    /\ Target \in [FlowRun -> Run]
    /\ NoAttempt \notin FlowRun
    /\ Scheduled \cap Retry = {} /\ Backfill \cap Retry = {}
    /\ Scheduled \cap Backfill = {}
    /\ \A f \in Scheduled, g \in Backfill \cup Retry : Target[f] # Target[g]
    /\ InsertRace \subseteq {"DEADLOCK", "DUPLICATE_KEY"}
    /\ Lease \in Nat /\ MaxStarts \in Nat /\ MaxRevision \in Nat

VARIABLES
    run,       \* MySQL market_data_sync_run, by run_key
    attempt,   \* MySQL market_data_sync_attempt, by flow_run_id
    issues,    \* attempts that have market_data_sync_issue rows
    rows,      \* the ClickHouse block of the trade date that FINAL shows
    written,   \* history: the newest block inserted under each attempt
    flow,      \* the memory of the process that executes each flow_run_id
    starts,    \* how often each flow_run_id has been executed
    stamp,     \* the last updated_at handed out
    revision   \* the revision of the data the provider serves

vars == <<run, attempt, issues, rows, written, flow, starts, stamp, revision>>

RunStatus == {"ABSENT", "RUNNING", "FAILED", "SUCCEEDED"}
AttemptStatus == {"NONE", "RUNNING", "SUCCEEDED", "FAILED", "ABANDONED"}
Step == {"idle", "claiming", "inserting", "fetching", "prepared",
         "publishing", "published", "failing"}

\* A block of rows: the revision of the data in it and its updated_at.
Block == [revision : Nat, stamp : Nat]
NoBlock == [revision |-> 0, stamp |-> 0]

\* A process that holds no block, at a step of its work.
At(step, claim) == [step |-> step, claim |-> claim, block |-> NoBlock]
Idle == At("idle", NoAttempt)

TypeOK ==
    /\ run \in [Run -> [status : RunStatus, count : Nat, winner : MaybeAttempt]]
    /\ attempt \in [FlowRun -> [status : AttemptStatus, no : Nat, left : 0..Lease]]
    /\ issues \subseteq FlowRun
    /\ rows \in Block
    /\ written \in [FlowRun -> Block]
    /\ flow \in [FlowRun -> [step : Step, claim : MaybeAttempt, block : Block]]
    /\ starts \in [FlowRun -> Nat]
    /\ stamp \in Nat
    /\ revision \in Nat

Init ==
    /\ run = [r \in Run |-> [status |-> "ABSENT", count |-> 0, winner |-> NoAttempt]]
    /\ attempt = [f \in FlowRun |-> [status |-> "NONE", no |-> 0, left |-> 0]]
    /\ issues = {}
    /\ rows = NoBlock
    /\ written = [f \in FlowRun |-> NoBlock]
    /\ flow = [f \in FlowRun |-> Idle]
    /\ starts = [f \in FlowRun |-> 0]
    /\ stamp = 0
    /\ revision = 1

ledger == <<run, attempt, issues>>
clickhouse == <<rows, written>>
world == <<starts, stamp, revision>>

-----------------------------------------------------------------------------
(* Reading the ledger *)

AttemptsOf(r) == {a \in FlowRun : Target[a] = r /\ attempt[a].status # "NONE"}

\* Fault: the claim does not look for a running attempt.
ActiveUnread(r) == {}

\* The newest RUNNING attempt, which is the only one the code looks at.
Active(r) ==
    {a \in AttemptsOf(r) :
        /\ attempt[a].status = "RUNNING"
        /\ \A b \in AttemptsOf(r) :
              attempt[b].status = "RUNNING" => attempt[b].no <= attempt[a].no}

\* Faults: the lease is not compared; an attempt has no lease.
ExpiredAlways(a) == TRUE
ExpiredNever(a) == FALSE

Expired(a) == attempt[a].left = 0

\* resolve_backfill_date
Resolve(r) ==
    CASE run[r].status = "ABSENT" -> "START"
      [] run[r].status = "SUCCEEDED" -> "SKIP_SUCCEEDED"
      [] run[r].status = "FAILED" -> "RETRY"
      [] OTHER -> IF \A a \in Active(r) : Expired(a) THEN "RETRY" ELSE "IN_PROGRESS"

\* Faults: no ownership check; only the run is checked, not the attempt.
OwnsUnchecked(claim) == TRUE
OwnsRunOnly(claim) == run[Target[claim]].status = "RUNNING"

\* _lock_owned_attempt
Owns(claim) ==
    /\ run[Target[claim]].status = "RUNNING"
    /\ attempt[claim].status = "RUNNING"

-----------------------------------------------------------------------------
(* Starting an execution.  Prefect executes a flow run again, under the    *)
(* same id, when an operator retries it.                                   *)

Begin(f) ==
    /\ flow[f].step = "idle"
    /\ starts[f] < MaxStarts
    /\ starts' = [starts EXCEPT ![f] = @ + 1]
    /\ flow' = [flow EXCEPT ![f] = At("claiming", NoAttempt)]
    /\ UNCHANGED <<ledger, clickhouse, stamp, revision>>

StartScheduled(f) ==
    /\ f \in Scheduled
    /\ Begin(f)

\* The backfill flow asks the ledger first and acts on the answer later.
StartBackfill(f) ==
    /\ \/ f \in Backfill /\ Resolve(Target[f]) = "START"
       \/ f \in Retry /\ Resolve(Target[f]) = "RETRY"
    /\ Begin(f)

-----------------------------------------------------------------------------
(* claim_run_and_start_attempt *)

Fetching(f, claim) == flow' = [flow EXCEPT ![f] = At("fetching", claim)]

Stop(f) == flow' = [flow EXCEPT ![f] = Idle]

NoAttemptYet(f) ==
    /\ flow[f].step = "claiming"
    /\ attempt[f].status = "NONE"

\* The flow_run_id already has an attempt: that attempt is the claim, in
\* whatever state it is.
ClaimReentry(f) ==
    /\ flow[f].step = "claiming"
    /\ attempt[f].status # "NONE"
    /\ Fetching(f, f)
    /\ UNCHANGED <<ledger, clickhouse, world>>

\* SELECT ... FOR UPDATE finds no row; the INSERT is still to come.
ClaimSeesNoRun(f) ==
    /\ NoAttemptYet(f)
    /\ f \notin Retry
    /\ run[Target[f]].status = "ABSENT"
    /\ flow' = [flow EXCEPT ![f] = At("inserting", NoAttempt)]
    /\ UNCHANGED <<ledger, clickhouse, world>>

Ended(a, outcome) == [status |-> outcome, no |-> attempt[a].no, left |-> 0]

\* A new attempt f of run r; an expired predecessor is abandoned in the same
\* transaction.
OpenAttempt(f, r) ==
    /\ run' = [run EXCEPT ![r] = [status |-> "RUNNING", count |-> run[r].count + 1,
                                  winner |-> run[r].winner]]
    /\ attempt' = [a \in FlowRun |->
          IF a = f
          THEN [status |-> "RUNNING", no |-> run[r].count + 1, left |-> Lease]
          ELSE IF a \in Active(r) THEN Ended(a, "ABANDONED") ELSE attempt[a]]
    /\ issues' = issues \cup Active(r)
    /\ Fetching(f, f)
    /\ UNCHANGED <<clickhouse, world>>

ClaimInsert(f) ==
    /\ flow[f].step = "inserting"
    /\ run[Target[f]].status = "ABSENT"
    /\ OpenAttempt(f, Target[f])

\* Another worker inserted the run first.  A deadlock victim's error reaches
\* the flow; after a duplicate key the newest attempt is returned as the claim.
ClaimLosesInsert(f) ==
    LET r == Target[f] IN
    /\ flow[f].step = "inserting"
    /\ run[r].status # "ABSENT"
    /\ \/ /\ "DEADLOCK" \in InsertRace
          /\ Stop(f)
       \/ /\ "DUPLICATE_KEY" \in InsertRace
          /\ \E a \in AttemptsOf(r) :
                /\ \A b \in AttemptsOf(r) : attempt[b].no <= attempt[a].no
                /\ Fetching(f, a)
    /\ UNCHANGED <<ledger, clickhouse, world>>

\* The run has succeeded (already_succeeded) or a live attempt holds it
\* (RuntimeError): either way the service does nothing more.
ClaimRefused(f) ==
    LET r == Target[f] IN
    /\ NoAttemptYet(f)
    /\ \/ run[r].status = "SUCCEEDED"
       \/ /\ run[r].status \in {"RUNNING", "FAILED"}
          /\ \E a \in Active(r) : ~Expired(a)
    /\ Stop(f)
    /\ UNCHANGED <<ledger, clickhouse, world>>

ClaimOpens(f) ==
    LET r == Target[f] IN
    /\ NoAttemptYet(f)
    /\ run[r].status \in {"RUNNING", "FAILED"}
    /\ \A a \in Active(r) : Expired(a)
    /\ OpenAttempt(f, r)

-----------------------------------------------------------------------------
(* _run_sync *)

\* A complete, valid batch arrives before the fetch deadline; a deadline that
\* passes first is one of the failures of StepFails.
Fetch(f) ==
    /\ flow[f].step = "fetching"
    /\ flow' = [flow EXCEPT ![f] = [step |-> "prepared", claim |-> flow[f].claim,
                                    block |-> [revision |-> revision, stamp |-> 0]]]
    /\ UNCHANGED <<ledger, clickhouse, world>>

\* Fault: the ledger is closed before the block is inserted.
StampAndPublish(f) ==
    /\ flow[f].step = "prepared"
    /\ stamp' = stamp + 1
    /\ flow' = [flow EXCEPT ![f] = At("published", flow[f].claim)]
    /\ UNCHANGED <<ledger, clickhouse, starts, revision>>

\* The service takes updated_at before publish_batch talks to ClickHouse.
StampBatch(f) ==
    /\ flow[f].step = "prepared"
    /\ stamp' = stamp + 1
    /\ flow' = [flow EXCEPT ![f] =
          [step |-> "publishing", claim |-> flow[f].claim,
           block |-> [revision |-> flow[f].block.revision, stamp |-> stamp + 1]]]
    /\ UNCHANGED <<ledger, clickhouse, starts, revision>>

\* Fault: the table keeps the block that arrives last.
LastArrived(old, new) == new

\* ReplacingMergeTree(updated_at): of two blocks the later stamp shows.
Newer(old, new) == IF old.stamp < new.stamp THEN new ELSE old

\* ClickHouse stores the block; the acknowledgement may be lost.
InsertBlock(f) ==
    /\ flow[f].step = "publishing"
    /\ rows' = Newer(rows, flow[f].block)
    /\ written' = [written EXCEPT ![flow[f].claim] =
                                Newer(written[flow[f].claim], flow[f].block)]
    /\ \E next \in {"published", "failing"} :
          flow' = [flow EXCEPT ![f] = At(next, flow[f].claim)]
    /\ UNCHANGED <<ledger, world>>

\* The attempt and its run reach their outcome in one transaction.
Close(claim, outcome) ==
    /\ attempt' = [attempt EXCEPT ![claim] = Ended(claim, outcome)]
    /\ run' = [run EXCEPT ![Target[claim]] =
          [status |-> outcome, count |-> run[Target[claim]].count,
           winner |-> IF outcome = "SUCCEEDED" THEN claim ELSE NoAttempt]]

\* publish_success.  Isolated rows of the batch become issues of the attempt.
\* When the answer to the commit is lost the service goes on as after a failure.
PublishSuccess(f) ==
    /\ flow[f].step = "published"
    /\ Owns(flow[f].claim)
    /\ Close(flow[f].claim, "SUCCEEDED")
    /\ issues' \in {issues, issues \cup {flow[f].claim}}
    /\ \/ Stop(f)
       \/ flow' = [flow EXCEPT ![f] = At("failing", flow[f].claim)]
    /\ UNCHANGED <<clickhouse, world>>

\* Any step of _run_sync may raise: the provider, the validation, ClickHouse,
\* MySQL, or the ownership check of publish_success.
StepFails(f) ==
    /\ flow[f].step \in {"fetching", "prepared", "publishing", "published"}
    /\ flow' = [flow EXCEPT ![f] = At("failing", flow[f].claim)]
    /\ UNCHANGED <<ledger, clickhouse, world>>

\* record_failure
RecordFailure(f) ==
    /\ flow[f].step = "failing"
    /\ Owns(flow[f].claim)
    /\ Close(flow[f].claim, "FAILED")
    /\ issues' = issues \cup {flow[f].claim}
    /\ Stop(f)
    /\ UNCHANGED <<clickhouse, world>>

\* record_failure raises and the service swallows it; or the process dies.
GiveUp(f) ==
    /\ flow[f].step # "idle"
    /\ Stop(f)
    /\ UNCHANGED <<ledger, clickhouse, world>>

-----------------------------------------------------------------------------
(* The environment *)

Less(n) == IF n = 0 THEN 0 ELSE n - 1

\* The database clock advances.  Nothing reads the lease of an attempt that is
\* no longer RUNNING, so it is kept at 0.
Tick ==
    /\ \E a \in FlowRun : attempt[a].left > 0
    /\ attempt' = [a \in FlowRun |-> [status |-> attempt[a].status, no |-> attempt[a].no,
                                  left |-> Less(attempt[a].left)]]
    /\ UNCHANGED <<run, issues, clickhouse, flow, world>>

\* The provider corrects the data of the trade date.
Revise ==
    /\ revision < MaxRevision
    /\ revision' = revision + 1
    /\ UNCHANGED <<ledger, clickhouse, flow, starts, stamp>>

Claim(f) ==
    \/ ClaimReentry(f)
    \/ ClaimSeesNoRun(f)
    \/ ClaimInsert(f)
    \/ ClaimLosesInsert(f)
    \/ ClaimRefused(f)
    \/ ClaimOpens(f)

RunSync(f) ==
    \/ Fetch(f)
    \/ StampBatch(f)
    \/ InsertBlock(f)
    \/ PublishSuccess(f)
    \/ StepFails(f)
    \/ RecordFailure(f)

Next ==
    \/ \E f \in FlowRun :
          \/ StartScheduled(f)
          \/ StartBackfill(f)
          \/ Claim(f)
          \/ RunSync(f)
          \/ GiveUp(f)
    \/ Tick
    \/ Revise

Spec == Init /\ [][Next]_vars

\* Fairness: time passes, a process that is not killed takes its next step,
\* and the operator keeps submitting the backfill of the date.  Nothing is
\* assumed of crashes, failures or provider corrections.
Fairness ==
    /\ WF_vars(Tick)
    /\ \A f \in FlowRun : WF_vars(StartBackfill(f)) /\ WF_vars(Claim(f)) /\ WF_vars(RunSync(f))

FairSpec == Spec /\ Fairness

-----------------------------------------------------------------------------
(* Safety *)

\* A run is RUNNING exactly when one attempt at it is RUNNING, and that is its
\* newest attempt: resolve_backfill_date, the claim and the ownership check
\* each read only one of the two tables' states and trust the other to agree.
OneOwnerPerRun ==
    \A r \in Run :
        LET running == {a \in AttemptsOf(r) : attempt[a].status = "RUNNING"} IN
        IF run[r].status = "RUNNING"
        THEN \E a \in AttemptsOf(r) : running = {a} /\ attempt[a].no = run[r].count
        ELSE running = {}

\* The attempts of a run are numbered 1..attempt_count without gap or repeat,
\* whatever crashed or lost a race in between (unique key run_id, attempt_no).
AttemptsNumbered ==
    \A r \in Run :
        /\ {attempt[a].no : a \in AttemptsOf(r)} = 1..run[r].count
        /\ \A a, b \in AttemptsOf(r) : attempt[a].no = attempt[b].no => a = b

\* successful_attempt_id is set exactly when the run has succeeded and names
\* the only attempt of the run that did.
WinnerAgrees ==
    \A r \in Run :
        {a \in AttemptsOf(r) : attempt[a].status = "SUCCEEDED"} =
            IF run[r].status = "SUCCEEDED" THEN {run[r].winner} ELSE {}

\* When the ledger says a run succeeded, its batch is in ClickHouse, and what
\* the tables show is at least as new as that batch, whatever stale writers
\* or lost acknowledgements there were.
SuccessIsVisible ==
    \A r \in Run :
        run[r].status = "SUCCEEDED" =>
            /\ written[run[r].winner] # NoBlock
            /\ rows.stamp >= written[run[r].winner].stamp

-----------------------------------------------------------------------------
(* The inductive invariant behind the properties of the ledger *)

\* What a process holds in memory: a claim of its own run, on an attempt that
\* exists, from the moment it starts to fetch.
ClaimsExist ==
    \A f \in FlowRun :
        IF flow[f].step \in {"idle", "claiming", "inserting"}
        THEN /\ flow[f].claim = NoAttempt
             /\ flow[f].step = "inserting" => attempt[f].status = "NONE"
        ELSE /\ flow[f].claim \in FlowRun
             /\ attempt[flow[f].claim].status # "NONE"

\* The two tables agree about who is running.
RunningAgrees ==
    /\ \A a \in FlowRun :
          attempt[a].status = "RUNNING" =>
             /\ run[Target[a]].status = "RUNNING"
             /\ attempt[a].no = run[Target[a]].count
    /\ \A r \in Run :
          run[r].status = "RUNNING" =>
             \E a \in FlowRun : Target[a] = r /\ attempt[a].status = "RUNNING"

\* Attempt numbers count the attempts of their run.
NumbersInRange ==
    /\ \A a \in FlowRun :
          attempt[a].status # "NONE" => attempt[a].no \in 1..run[Target[a]].count
    /\ \A r \in Run :
          /\ \A n \in 1..run[r].count :
                \E a \in FlowRun : /\ Target[a] = r
                                   /\ attempt[a].status # "NONE"
                                   /\ attempt[a].no = n
          /\ run[r].status = "ABSENT" => run[r].count = 0
    /\ \A a, b \in FlowRun :
          /\ Target[a] = Target[b]
          /\ attempt[a].status # "NONE" /\ attempt[b].status # "NONE"
          /\ attempt[a].no = attempt[b].no
          => a = b

\* The two tables agree about who has succeeded.
SuccessAgrees ==
    /\ \A a \in FlowRun :
          attempt[a].status = "SUCCEEDED" =>
             run[Target[a]].status = "SUCCEEDED" /\ run[Target[a]].winner = a
    /\ \A r \in Run :
          IF run[r].status = "SUCCEEDED"
          THEN /\ run[r].winner \in FlowRun
               /\ Target[run[r].winner] = r
               /\ attempt[run[r].winner].status = "SUCCEEDED"
          ELSE run[r].winner = NoAttempt

\* What has been written is shown, or something newer is.
WrittenIsShown ==
    /\ \A a \in FlowRun :
          /\ rows.stamp >= written[a].stamp
          /\ attempt[a].status = "SUCCEEDED" => written[a] # NoBlock
    /\ \A f \in FlowRun :
          /\ flow[f].step = "publishing" => flow[f].block.stamp > 0
          /\ flow[f].step = "published" => written[flow[f].claim] # NoBlock

\* Everything a step of any worker may rely on: memory, ledger and ClickHouse
\* stay consistent with each other (claim, publish_success, record_failure).
IInv ==
    /\ TypeOK
    /\ ClaimsExist
    /\ RunningAgrees
    /\ NumbersInRange
    /\ SuccessAgrees
    /\ WrittenIsShown

-----------------------------------------------------------------------------
(* Steps *)

\* A terminal attempt is never reopened and a succeeded run never changes,
\* however late a worker that still holds a claim comes back.
SettledIsFinal ==
    [][/\ \A a \in FlowRun :
            attempt[a].status \in {"SUCCEEDED", "FAILED", "ABANDONED"} =>
                attempt'[a].status = attempt[a].status
       /\ \A r \in Run : run[r].status = "SUCCEEDED" => run'[r] = run[r]]_vars

\* An attempt loses its run only by its lease, only to a successor that takes
\* over in the same step, and only with an issue row that says so.
TakeoverOnlyByLease ==
    [][\A a \in FlowRun :
          attempt[a].status = "RUNNING" /\ attempt'[a].status = "ABANDONED" =>
             /\ attempt[a].left = 0
             /\ a \in issues'
             /\ \E b \in FlowRun : /\ Target[b] = Target[a]
                                   /\ attempt[b].status = "NONE"
                                   /\ attempt'[b].status = "RUNNING"
                                   /\ attempt'[b].no = attempt[a].no + 1]_vars

-----------------------------------------------------------------------------
(* Refinement *)

OwnerOf(r) ==
    IF run[r].status = "RUNNING"
    THEN CHOOSE a \in AttemptsOf(r) : attempt[a].status = "RUNNING"
    ELSE NoAttempt

Ledger == INSTANCE SyncLedger WITH
    Attempt <- FlowRun,
    status <- [r \in Run |-> run[r].status],
    owner <- [r \in Run |-> OwnerOf(r)],
    winner <- [r \in Run |-> run[r].winner],
    used <- {a \in FlowRun : attempt[a].status # "NONE"}

\* The two tables, the leases and the workers implement the abstract ledger:
\* one owner at a time decides a run, and success is final.
ImplementsLedger == Ledger!Spec

-----------------------------------------------------------------------------
(* Liveness *)

\* Nobody executes under attempt a, yet it blocks its run, and the backfill
\* has a retry left that was never used.
Orphaned(a) ==
    /\ attempt[a].status = "RUNNING"
    /\ \A f \in FlowRun : flow[f].claim # a
    /\ \E f \in Retry : /\ Target[f] = Target[a]
                        /\ attempt[f].status = "NONE"
                        /\ starts[f] < MaxStarts

\* A crashed attempt does not block its run for ever: the lease runs out and a
\* retry takes the run over, unless the crashed flow run itself comes back.
OrphanTakenOver == \A a \in FlowRun : Orphaned(a) ~> ~Orphaned(a)

-----------------------------------------------------------------------------
(* What the documents say of the program *)

\* market-data-service.md 6: after the retries the final rows are those of the
\* successful execution.
RowsAreTheWinners ==
    \A r \in Run :
        /\ run[r].status = "SUCCEEDED"
        /\ \A f \in FlowRun : flow[f].step = "idle"
        => rows.revision = written[run[r].winner].revision

=============================================================================
