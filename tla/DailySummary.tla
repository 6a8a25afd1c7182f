---------------------------- MODULE DailySummary ----------------------------
(***************************************************************************)
(* The task summary of one business date and its notification.             *)
(*                                                                         *)
(* A run of the daily flow observes the task ledgers, stores the first     *)
(* observation of the date as its snapshot and sends it to the chat; a run *)
(* of the resend flow sends the stored snapshot again.  Sending is three   *)
(* steps: a transaction that claims an attempt, the webhook call outside   *)
(* any transaction, a transaction that writes the answer down.  Prefect    *)
(* reruns a flow that raised; a process that dies is not rerun.            *)
(*                                                                         *)
(* The deployments admit one run of each flow at a time, but nothing in    *)
(* the repository relies on it: here all runs may overlap.                 *)
(***************************************************************************)
EXTENDS Naturals, Sequences, FiniteSets

CONSTANTS
    Daily,         \* runs of daily-task-summary
    Resend,        \* runs of resend-daily-task-summary
    Retries,       \* retries of both flows
    InsertRace,    \* what the loser of a race for the summary row gets
    MaxRevision    \* bound on the changes of the task ledgers

Run == Daily \cup Resend

ASSUME ConstantsOK ==
    /\ Daily \cap Resend = {}
    /\ Retries \in Nat
    /\ InsertRace \subseteq {"DEADLOCK", "DUPLICATE_KEY"}
    /\ MaxRevision \in Nat

VARIABLES
    tasks,     \* the state of the task ledgers, a revision number
    summary,   \* daily_task_summary: the row of the date
    attempts,  \* daily_task_notification_attempt, by attempt_no
    chat,      \* messages the chat shows: attempt and snapshot
    flow       \* the memory of each run

vars == <<tasks, summary, attempts, chat, flow>>

Answer == {"DELIVERED", "RETRYABLE_FAILURE", "PERMANENT_FAILURE"}
Snapshot == 0..MaxRevision

Sending == {"claimed", "answered"}
Working == {"observed", "inserting", "built"} \cup Sending

\* A run that holds nothing: it was not started, raised, or ended.
At(step, tries) ==
    [step |-> step, tries |-> tries, snapshot |-> 0, no |-> 0, answer |-> "DELIVERED"]

TypeOK ==
    /\ tasks \in Snapshot
    /\ summary \in [status : {"ABSENT", "PENDING", "SENDING", "SENT", "FAILED"},
                    snapshot : Snapshot, notified : 0..Len(attempts)]
    /\ attempts \in Seq([kind : {"AUTOMATIC", "MANUAL_RETRY"},
                         status : {"RUNNING", "SUCCEEDED", "FAILED"}])
    /\ chat \subseteq (1..Len(attempts)) \X Snapshot
    /\ flow \in [Run -> [step : {"new", "over"} \cup Working, tries : 0..Retries,
                         snapshot : Snapshot, no : 0..Len(attempts), answer : Answer]]

Init ==
    /\ tasks = 0
    /\ summary = [status |-> "ABSENT", snapshot |-> 0, notified |-> 0]
    /\ attempts = <<>>
    /\ chat = {}
    /\ flow = [f \in Run |-> At("new", 0)]

stored == <<summary, attempts>>

\* The flow function returned, or its process died.
End(f) == flow' = [flow EXCEPT ![f] = At("over", 0)]

\* Fault: the retries are not counted.
RaiseForEver(f) == flow' = [flow EXCEPT ![f] = At("new", flow[f].tries)]

\* The flow function raised: it starts again while it has retries left.
Raise(f) ==
    IF flow[f].tries < Retries
    THEN flow' = [flow EXCEPT ![f] = At("new", flow[f].tries + 1)]
    ELSE End(f)

Goto(f, step) == flow' = [flow EXCEPT ![f].step = step]

-----------------------------------------------------------------------------
(* build *)

\* observe_executions and snapshot_from_executions.
Observe(f) ==
    /\ f \in Daily
    /\ flow[f].step = "new"
    /\ flow' = [flow EXCEPT ![f].step = "observed", ![f].snapshot = tasks]
    /\ UNCHANGED <<tasks, stored, chat>>

\* create_or_get finds the row of the date: the observation is dropped.
FindSummary(f) ==
    /\ flow[f].step = "observed"
    /\ summary.status # "ABSENT"
    /\ Goto(f, "built")
    /\ UNCHANGED <<tasks, stored, chat>>

\* There is no row yet: the INSERT is still to come.
SeeNoSummary(f) ==
    /\ flow[f].step = "observed"
    /\ summary.status = "ABSENT"
    /\ Goto(f, "inserting")
    /\ UNCHANGED <<tasks, stored, chat>>

\* Fault: the INSERT replaces the row that came in between.
RowIsReplaced(f) == TRUE

\* business_date is a unique key.
RowIsNew(f) == summary.status = "ABSENT"

InsertSummary(f) ==
    /\ flow[f].step = "inserting"
    /\ RowIsNew(f)
    /\ summary' = [status |-> "PENDING", snapshot |-> flow[f].snapshot, notified |-> 0]
    /\ Goto(f, "built")
    /\ UNCHANGED <<tasks, attempts, chat>>

\* The row came in between: the loser adopts it, or its transaction is the
\* victim of a deadlock.
LoseInsert(f) ==
    /\ flow[f].step = "inserting"
    /\ summary.status # "ABSENT"
    /\ \/ "DUPLICATE_KEY" \in InsertRace /\ Goto(f, "built")
       \/ "DEADLOCK" \in InsertRace /\ Raise(f)
    /\ UNCHANGED <<tasks, stored, chat>>

-----------------------------------------------------------------------------
(* notify *)

\* The step from which a run claims an attempt; resending takes the
\* summary_id of a stored summary.
MayClaim(f) ==
    \/ f \in Daily /\ flow[f].step = "built"
    \/ f \in Resend /\ flow[f].step = "new" /\ summary.status # "ABSENT"

\* Faults: the running attempt is not looked for; SENT is not looked at.
SentOnly(f) == f \in Daily /\ summary.status = "SENT"
RunningOnly(f) == \E i \in DOMAIN attempts : attempts[i].status = "RUNNING"

Blocked(f) ==
    \/ f \in Daily /\ summary.status = "SENT"
    \/ \E i \in DOMAIN attempts : attempts[i].status = "RUNNING"

\* Nothing to send: the daily flow succeeds, the resend flow raises.
ClaimNothing(f) ==
    /\ MayClaim(f)
    /\ Blocked(f)
    /\ IF f \in Daily THEN End(f) ELSE Raise(f)
    /\ UNCHANGED <<tasks, stored, chat>>

\* Fault: a run of the daily flow sends what it observed itself.
OwnObservation(f) == IF f \in Daily THEN flow[f].snapshot ELSE summary.snapshot

\* The claim carries the stored snapshot.
Content(f) == summary.snapshot

ClaimAttempt(f) ==
    /\ MayClaim(f)
    /\ ~Blocked(f)
    /\ attempts' = Append(attempts,
          [kind |-> IF f \in Daily THEN "AUTOMATIC" ELSE "MANUAL_RETRY",
           status |-> "RUNNING"])
    /\ summary' = [summary EXCEPT !.status = "SENDING"]
    /\ flow' = [flow EXCEPT ![f] =
          [step |-> "claimed", tries |-> flow[f].tries, snapshot |-> Content(f),
           no |-> Len(attempts) + 1, answer |-> "DELIVERED"]]
    /\ UNCHANGED <<tasks, chat>>

\* What the sender may report: a success only when the chat took the message,
\* a rejection only when it did not, a temporary failure in both cases.
Reported(delivered) ==
    IF delivered THEN Answer \ {"PERMANENT_FAILURE"} ELSE Answer \ {"DELIVERED"}

\* The webhook call; its answer may be one the sender cannot read.
Send(f) ==
    /\ flow[f].step = "claimed"
    /\ \E delivered \in BOOLEAN :
          /\ chat' = IF delivered THEN chat \cup {<<flow[f].no, flow[f].snapshot>>} ELSE chat
          /\ \/ \E answer \in Reported(delivered) :
                   flow' = [flow EXCEPT ![f].step = "answered", ![f].answer = answer]
             \/ Raise(f)
    /\ UNCHANGED <<tasks, stored>>

\* Fault: a failure clears notified_at.
NotifiedLast(f) == IF flow[f].answer = "DELIVERED" THEN flow[f].no ELSE 0

\* notified_at: the attempt that was delivered last.
Notified(f) == IF flow[f].answer = "DELIVERED" THEN flow[f].no ELSE summary.notified

Closed(f) ==
    [attempts EXCEPT ![flow[f].no].status =
        IF flow[f].answer = "DELIVERED" THEN "SUCCEEDED" ELSE "FAILED"]

\* complete_notification.  The daily flow raises on a temporary failure, the
\* resend flow never; either raises when the commit's answer is lost.
Complete(f) ==
    /\ flow[f].step = "answered"
    /\ attempts' = Closed(f)
    /\ summary' = [summary EXCEPT
          !.status = IF flow[f].answer = "DELIVERED" THEN "SENT" ELSE "FAILED",
          !.notified = Notified(f)]
    /\ \/ Raise(f)
       \/ End(f) /\ ~(f \in Daily /\ flow[f].answer = "RETRYABLE_FAILURE")
    /\ UNCHANGED <<tasks, chat>>

\* A reader, the database or the configuration fails; the transaction of the
\* step is rolled back.
StepFails(f) ==
    /\ flow[f].step # "over"
    /\ Raise(f)
    /\ UNCHANGED <<tasks, stored, chat>>

\* The process dies.
Crash(f) ==
    /\ flow[f].step # "over"
    /\ End(f)
    /\ UNCHANGED <<tasks, stored, chat>>

-----------------------------------------------------------------------------

\* A synchronisation changes a task ledger.
TasksMove ==
    /\ tasks < MaxRevision
    /\ tasks' = tasks + 1
    /\ UNCHANGED <<stored, chat, flow>>

Build(f) ==
    \/ Observe(f)
    \/ FindSummary(f)
    \/ SeeNoSummary(f)
    \/ InsertSummary(f)
    \/ LoseInsert(f)

Notify(f) ==
    \/ ClaimNothing(f)
    \/ ClaimAttempt(f)
    \/ Send(f)
    \/ Complete(f)

Next ==
    \/ \E f \in Run : Build(f) \/ Notify(f) \/ StepFails(f) \/ Crash(f)
    \/ TasksMove

Spec == Init /\ [][Next]_vars

\* A process that lives goes on, and Prefect starts every run of the daily
\* flow; nobody has to resend.
FairSpec == Spec /\ \A f \in Daily : WF_vars(Build(f) \/ Notify(f))

-----------------------------------------------------------------------------
(* Properties *)

\* The runs that overlap send one after the other: at most one run is between
\* its claim and its completion, it holds the last attempt, and that attempt
\* is the only one still RUNNING.
OneSenderAtATime ==
    /\ \A f, g \in Run :
          flow[f].step \in Sending /\ flow[g].step \in Sending => f = g
    /\ \A f \in Run : flow[f].step \in Sending => flow[f].no = Len(attempts)
    /\ \A i \in DOMAIN attempts : attempts[i].status = "RUNNING" => i = Len(attempts)

\* Every message of the date shows the snapshot that was stored first, however
\* often the tasks changed and were observed again before it was sent.
SnapshotFrozen ==
    [][/\ summary.status # "ABSENT" => summary'.snapshot = summary.snapshot
       /\ \A m \in chat' : m[2] = summary'.snapshot]_vars

\* notified_at names the newest delivered attempt, also after a later attempt
\* failed, and what the ledger calls delivered is in the chat.
NotifiedIsNewestSuccess ==
    /\ \A i \in DOMAIN attempts :
          attempts[i].status = "SUCCEEDED" =>
             i <= summary.notified /\ <<i, summary.snapshot>> \in chat
    /\ summary.notified # 0 => attempts[summary.notified].status = "SUCCEEDED"

\* The daily flow does not send again after a delivery, unless a resend that
\* failed has come in between.
AutomaticOnceUnlessReopened ==
    \A i, j \in DOMAIN attempts :
        /\ i < j
        /\ attempts[i].status = "SUCCEEDED"
        /\ attempts[j].kind = "AUTOMATIC"
        => \E k \in i + 1 .. j - 1 :
              attempts[k] = [kind |-> "MANUAL_RETRY", status |-> "FAILED"]

\* What the runs remember agrees with the tables: nothing is sent before there
\* is a summary, a sender holds the running attempt and the stored snapshot,
\* and what it is about to call delivered is in the chat.
MemoryAgrees ==
    /\ \A f \in Run : flow[f].step = "built" => summary.status # "ABSENT"
    /\ \A f \in Run : flow[f].step \in Sending =>
          /\ flow[f].no # 0 /\ attempts[flow[f].no].status = "RUNNING"
          /\ flow[f].snapshot = summary.snapshot
    /\ \A f \in Run : flow[f].step = "answered" /\ flow[f].answer = "DELIVERED"
          => <<flow[f].no, summary.snapshot>> \in chat

\* The summary's status is that of its last attempt, and every message shows
\* its snapshot.
TablesAgree ==
    /\ summary.status = "ABSENT" => attempts = <<>>
    /\ \A i \in DOMAIN attempts : i = Len(attempts) =>
          /\ attempts[i].status = "RUNNING" => summary.status = "SENDING"
          /\ attempts[i].status = "SUCCEEDED" => summary.status = "SENT"
          /\ attempts[i].status = "FAILED" => summary.status = "FAILED"
    /\ \A m \in chat : m[2] = summary.snapshot

\* The inductive invariant.
IInv ==
    /\ TypeOK /\ MemoryAgrees /\ TablesAgree /\ OneSenderAtATime
    /\ NotifiedIsNewestSuccess /\ AutomaticOnceUnlessReopened

\* A run of the daily flow ends, whatever the webhook and the database answer,
\* and whatever other runs left behind.
DailyRunsEnd == \A f \in Daily : <>(flow[f].step = "over")

=============================================================================
