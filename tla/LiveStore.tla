----------------------------- MODULE LiveStore -----------------------------
(***************************************************************************)
(* The durable state of a live session: what applyEvent makes of a         *)
(* snapshot, event by event.  The journal is the list of the events, the   *)
(* snapshot their fold.  A session keeps one pending event, the one a      *)
(* restarted server queues again.  Variants arrive as one batch, and a     *)
(* checkpoint is always the newest; files, parameters, timings and         *)
(* diagnostics are left out, and so are steer sessions, manual edits and   *)
(* the events of component previews.                                       *)
(***************************************************************************)
CONSTANT Nothing   \* null

Closed == {"completed", "discarded"}
Fenced == Closed \cup {"accept_requested", "discard_requested", "carbonize_required"}

\* open: generate_requested, generating, cycling and variants_ready.
Phase == Fenced \cup {"new", "open", "agent_error"}

\* ready: the generate event carries scaffoldAttempted and generationReadyAt.
Event == [type : {"generate"}, ready : BOOLEAN] \cup [type : {"accept", "discard"}, ready : {FALSE}]
Generate(ready) == [type |-> "generate", ready |-> ready]
Ask(type) == [type |-> type, ready |-> FALSE]

\* canceled: generationCanceled; completed: generationCompletedAt is set;
\* pending: the event a restarted server queues again.
Snapshot == [phase : Phase, canceled : BOOLEAN, completed : BOOLEAN,
             pending : Event \cup {Nothing}]

NewSession == [phase |-> "new", canceled |-> FALSE, completed |-> FALSE, pending |-> Nothing]

Known(snap) == snap.phase # "new"
Active(snap) == Known(snap) /\ snap.phase \notin Closed

\* Fault: only the phase is looked at, which an agent's error changes.
CanceledByPhase(snap) == snap.phase \in Fenced

\* Late events of a generation the user has ended are diagnostics only.
Canceled(snap) == snap.canceled \/ snap.phase \in Fenced

AfterGenerate(snap, event) ==
    [snap EXCEPT !.phase = "open", !.pending = event]

AfterDecision(snap, type) ==
    [snap EXCEPT !.phase = IF type = "accept" THEN "accept_requested" ELSE "discard_requested",
                 !.canceled = TRUE, !.pending = Ask(type)]

AfterCheckpoint(snap) == IF Canceled(snap) THEN snap ELSE [snap EXCEPT !.phase = "open"]

AfterDone(snap, carbonize) ==
    IF Canceled(snap) /\ ~(carbonize /\ snap.phase = "accept_requested") THEN snap
    ELSE [snap EXCEPT !.phase = IF carbonize THEN "carbonize_required" ELSE "open",
                      !.completed = TRUE, !.pending = Nothing]

AfterEnd(snap, phase) == [snap EXCEPT !.phase = phase, !.pending = Nothing]

\* type: the type of the event the error answered, if one was queued.
AfterError(snap, type) ==
    IF snap.canceled /\ type = "generate" THEN snap ELSE AfterEnd(snap, "agent_error")

\* The reply of an agent, as the server journals it.
AfterReply(snap, reply, acked, carbonize) ==
    CASE reply = "discarded" -> AfterEnd(snap, "discarded")
      [] reply = "complete" -> AfterEnd(snap, "completed")
      [] reply = "error" -> AfterError(snap, acked)
      [] OTHER -> AfterDone(snap, carbonize)
=============================================================================
