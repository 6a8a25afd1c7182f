----------------------------- MODULE LiveServer -----------------------------
(***************************************************************************)
(* The helper server of live mode and the agents that poll it.  The server *)
(* is one thread: every handler runs to its end, except that leasing a     *)
(* generate event awaits the scaffolding of the source (the preflight),    *)
(* and other handlers run meanwhile.  Queue and leases are in memory, the  *)
(* sessions are durable (LiveStore); a restart rebuilds the queue from     *)
(* them.                                                                   *)
(***************************************************************************)
EXTENDS LiveStore, Naturals, Sequences, SequencesExt

CONSTANTS
    Session,
    Agent,        \* pollers: a foreground task, its stream, background workers
    MaxFaults     \* bound: restarts, dying agents, lost connections, reloads

ASSUME ServerOK == MaxFaults \in Nat /\ Nothing \notin Session \cup Agent \cup Event

VARIABLES
    store,       \* the snapshot of each session
    queue,       \* state.pendingEvents: [id, event, lease]; lease: who holds it
    preflight,   \* the leases that await their scaffolding: [id, by]
    agent,       \* what each agent is at; lapsed: its lease has run out; old: its token has
    source,      \* whether the source holds the session's variants
    receipt,     \* the accept receipt: the operation applied and its reply
    connected,   \* a page's event stream is open
    exitTimer,   \* the last stream closed less than eight seconds ago
    faults,
    answered     \* history: an agent has answered the user's decision

vars == <<store, queue, preflight, agent, source, receipt, connected, exitTimer, faults, answered>>

Idle == [doing |-> "idle", id |-> Nothing, event |-> Nothing, reply |-> Nothing,
         lapsed |-> FALSE, old |-> FALSE]
Exit == [type |-> "exit", ready |-> FALSE]
Decision == {"accept", "discard"}

Maybe == Session \cup {Nothing}

Init ==
    /\ store = [s \in Session |-> NewSession]
    /\ queue = <<>>
    /\ preflight = {}
    /\ agent = [a \in Agent |-> Idle]
    /\ source = [s \in Session |-> FALSE]
    /\ receipt = [s \in Session |-> Nothing]
    /\ connected = FALSE
    /\ exitTimer = FALSE
    /\ faults = 0
    /\ answered = [s \in Session |-> FALSE]

-----------------------------------------------------------------------------
(* The queue *)

SameEvent(entry, id, type) == entry.id = id /\ entry.event.type = type

Queued(q, id, type) == \E entry \in ToSet(q) : SameEvent(entry, id, type)

\* Fault: an event that waits already is queued again.
EnqueueAlways(q, id, event) == Append(q, [id |-> id, event |-> event, lease |-> Nothing])

\* One event per session and type.
Enqueue(q, id, event) ==
    IF id # Nothing /\ Queued(q, id, event.type) THEN q
    ELSE Append(q, [id |-> id, event |-> event, lease |-> Nothing])

\* The entries at these places, in their order.
Kept(q, places) ==
    LET order == CHOOSE f \in SetToSeqs(places) : \A i, j \in DOMAIN f : i < j => f[i] < f[j]
    IN [i \in DOMAIN order |-> q[order[i]]]

RetireGeneration(q, id) == Kept(q, {i \in DOMAIN q : ~SameEvent(q[i], id, "generate")})

\* Fault: a page that comes back leaves the queued exit.
KeepsExits(q) == q

CancelExits(q) == Kept(q, {i \in DOMAIN q : q[i].event # Exit})

Priority(event) == IF event.type = "generate" THEN 2 ELSE 0

\* The entry the next poll gets: free, of the best priority, the oldest.
Selected(i) ==
    /\ queue[i].lease = Nothing
    /\ \A j \in DOMAIN queue : queue[j].lease = Nothing =>
         \/ Priority(queue[i].event) < Priority(queue[j].event)
         \/ Priority(queue[i].event) = Priority(queue[j].event) /\ i <= j

-----------------------------------------------------------------------------
(* Leases *)

Prepares(event) == event.type = "generate" /\ ~event.ready

\* Fault: the lease is stamped when the scaffolding is done, not before it.
LeaseLater(a, event) == IF Prepares(event) THEN Nothing ELSE a

LeaseNow(a, event) == a

\* A poll takes an entry.  An event without id leaves the queue with it.
Poll(a) ==
    /\ agent[a].doing = "idle"
    /\ \E i \in DOMAIN queue :
         LET entry == queue[i] IN
         /\ Selected(i)
         /\ queue' = IF entry.event = Exit THEN RemoveAt(queue, i)
                     ELSE [queue EXCEPT ![i].lease = LeaseNow(a, entry.event)]
         /\ IF entry.event = Exit THEN UNCHANGED <<agent, preflight>>
            ELSE /\ agent' = [agent EXCEPT ![a] =
                      [Idle EXCEPT !.doing = IF Prepares(entry.event) THEN "waiting" ELSE "working",
                                   !.id = entry.id, !.event = entry.event]]
                 /\ preflight' = IF Prepares(entry.event)
                                 THEN preflight \cup {[id |-> entry.id, by |-> a]}
                                 ELSE preflight
    /\ UNCHANGED <<store, source, receipt, connected, exitTimer, faults, answered>>

\* The scaffolding ends: the event is journalled again, with its scaffold and
\* its delivery time, whatever has become of the session and of the entry.
PreflightDone(p) ==
    LET ready == Generate(TRUE)
        lives == agent[p.by].doing = "waiting" /\ agent[p.by].id = p.id
    IN /\ p \in preflight
       /\ preflight' = preflight \ {p}
       /\ store' = [store EXCEPT ![p.id] = AfterGenerate(@, ready)]
       /\ queue' = [i \in DOMAIN queue |->
            IF SameEvent(queue[i], p.id, "generate")
            THEN [id |-> p.id, event |-> ready, lease |-> p.by] ELSE queue[i]]
       /\ agent' = IF lives THEN [agent EXCEPT ![p.by].doing = "working", ![p.by].event = ready]
                   ELSE agent
       /\ UNCHANGED <<source, receipt, connected, exitTimer, faults, answered>>

Holds(a, entry) ==
    agent[a].doing # "idle" /\ ~agent[a].lapsed /\ SameEvent(entry, agent[a].id, agent[a].event.type)

\* A lease runs out: of an agent that is gone, or of a slow one, which does
\* not know.
LeaseExpires(i) ==
    LET entry == queue[i]
        slow == {a \in Agent : Holds(a, entry)}
    IN /\ entry.lease # Nothing
       /\ [id |-> entry.id, by |-> entry.lease] \notin preflight
       /\ slow = {} \/ faults < MaxFaults
       /\ faults' = IF slow = {} THEN faults ELSE faults + 1
       /\ queue' = [queue EXCEPT ![i].lease = Nothing]
       /\ agent' = [a \in Agent |-> IF a \in slow THEN [agent[a] EXCEPT !.lapsed = TRUE] ELSE agent[a]]
       /\ UNCHANGED <<store, preflight, source, receipt, connected, exitTimer, answered>>

-----------------------------------------------------------------------------
(* The answers of agents (POST /poll) *)

\* Fault: an error without a type answers any event of its session.
InferredForAll(id, reply) == IF reply = "done" THEN {"generate"} ELSE {"generate"} \cup Decision

\* The place of the first leased entry of a session, or 0.
FirstLeased(id) == SelectInSeq(queue, LAMBDA entry : entry.id = id /\ entry.lease # Nothing)

\* The types an answer without sourceEventType may acknowledge.
Inferred(id, reply) ==
    CASE reply = "complete" ->
            IF Queued(queue, id, "accept") THEN {"accept"}
            ELSE IF Queued(queue, id, "generate") THEN {"generate"} ELSE {"generate"} \cup Decision
      [] reply = "error" ->
            IF FirstLeased(id) = 0 THEN {"generate"} ELSE {queue[FirstLeased(id)].event.type}
      [] OTHER -> {"generate"}

\* The place of the first entry an answer acknowledges, or 0.
FirstOf(id, types) == SelectInSeq(queue, LAMBDA entry : entry.id = id /\ entry.event.type \in types)

\* The server takes an answer: the first matching entry leaves the queue, the
\* reply is journalled unless the session is over, and the page is told.
Answer(id, reply, types) ==
    LET i == FirstOf(id, types)
        acked == IF i = 0 THEN Nothing ELSE queue[i].event.type
        carbonize == reply = "carbonize"
    IN IF i = 0 /\ ~Known(store[id])
       THEN UNCHANGED <<queue, store, answered>>
       ELSE /\ queue' = IF i = 0 THEN queue ELSE RemoveAt(queue, i)
            /\ store' = IF i = 0 /\ store[id].phase \in Closed THEN store
                        ELSE [store EXCEPT ![id] = AfterReply(@, reply, acked, carbonize)]
            /\ answered' = [answered EXCEPT ![id] = @ \/ acked \in Decision]

-----------------------------------------------------------------------------
(* The agents *)

Becomes(a, doing, reply) ==
    agent' = [agent EXCEPT ![a].doing = doing, ![a].reply = reply]

\* A worker writes variants into the source, or fails before or after it.
Generates(a) ==
    /\ agent[a].doing = "working"
    /\ agent[a].event.type = "generate"
    /\ \/ /\ source' = [source EXCEPT ![agent[a].id] = TRUE]
          /\ \E reply \in {"done", "error"} : Becomes(a, "replying", reply)
       \/ UNCHANGED source /\ Becomes(a, "replying", "error")
    /\ UNCHANGED <<store, queue, preflight, receipt, connected, exitTimer, faults, answered>>

\* The poller runs live-accept before it shows the event to its agent.
\* Nothing to do without variants in the source; the source lock may be taken.
Decides(a) ==
    LET id == agent[a].id
        type == agent[a].event.type
    IN /\ agent[a].doing = "working"
       /\ type \in Decision
       /\ \/ /\ receipt[id] # Nothing
             /\ Becomes(a, "replying", IF receipt[id].type = type THEN receipt[id].reply ELSE "error")
             /\ UNCHANGED source
          \/ /\ receipt[id] = Nothing /\ ~source[id]
             /\ Becomes(a, "replying", IF type = "accept" THEN "agent_done" ELSE "error")
             /\ UNCHANGED source
          \/ /\ receipt[id] = Nothing /\ source[id]
             /\ Becomes(a, "replying", "error")
             /\ UNCHANGED source
          \/ /\ receipt[id] = Nothing /\ source[id]
             /\ source' = [source EXCEPT ![id] = FALSE]
             /\ \E reply \in IF type = "accept" THEN {"complete", "carbonize"} ELSE {"discarded"} :
                   Becomes(a, "applied", reply)
       /\ UNCHANGED <<store, queue, preflight, receipt, connected, exitTimer, faults, answered>>

Records(a) ==
    /\ agent[a].doing = "applied"
    /\ receipt' = [receipt EXCEPT ![agent[a].id] = [type |-> agent[a].event.type, reply |-> agent[a].reply]]
    /\ Becomes(a, "replying", agent[a].reply)
    /\ UNCHANGED <<store, queue, preflight, source, connected, exitTimer, faults, answered>>

\* An accept that needs carbonize, or work by hand, is completed explicitly.
Replies(a) ==
    LET type == agent[a].event.type IN
    /\ agent[a].doing = "replying"
    /\ IF type \in Decision /\ agent[a].old THEN UNCHANGED <<queue, store, answered>>
       ELSE Answer(agent[a].id, agent[a].reply,
                   IF type \in Decision THEN {type} ELSE Inferred(agent[a].id, agent[a].reply))
    /\ agent' = [agent EXCEPT ![a] =
         IF agent[a].reply \in {"carbonize", "agent_done"} THEN [@ EXCEPT !.doing = "cleaning"] ELSE Idle]
    /\ UNCHANGED <<preflight, source, receipt, connected, exitTimer, faults>>

Completes(a) ==
    /\ agent[a].doing = "cleaning"
    /\ Answer(agent[a].id, "complete", Inferred(agent[a].id, "complete"))
    /\ agent' = [agent EXCEPT ![a] = Idle]
    /\ UNCHANGED <<preflight, source, receipt, connected, exitTimer, faults>>

AgentDies(a) ==
    /\ agent[a].doing # "idle" /\ faults < MaxFaults
    /\ faults' = faults + 1
    /\ agent' = [agent EXCEPT ![a] = Idle]
    /\ UNCHANGED <<store, queue, preflight, source, receipt, connected, exitTimer, answered>>

-----------------------------------------------------------------------------
(* The page's stream, and the server's life *)

\* Fault: only generate events are queued again.
RestoredGenerations(s) == store[s].pending # Nothing /\ store[s].pending.type = "generate"

Restored(s) == Active(store[s]) /\ store[s].pending # Nothing

\* The server dies and a new one starts, with another token: streams and
\* polls break, and a poller at work keeps the old token.
RestartServer ==
    /\ faults < MaxFaults
    /\ faults' = faults + 1
    /\ \E order \in SetToSeqs({s \in Session : Restored(s)}) :
         queue' = [i \in DOMAIN order |->
                     [id |-> order[i], event |-> store[order[i]].pending, lease |-> Nothing]]
    /\ preflight' = {}
    /\ agent' = [a \in Agent |-> IF agent[a].doing = "waiting" THEN Idle
                                 ELSE IF agent[a].doing = "idle" THEN agent[a]
                                 ELSE [agent[a] EXCEPT !.lapsed = TRUE, !.old = TRUE]]
    /\ connected' = FALSE /\ exitTimer' = FALSE
    /\ UNCHANGED <<store, source, receipt, answered>>

\* GET /events: the page is back.
PageConnects ==
    /\ ~connected
    /\ connected' = TRUE /\ exitTimer' = FALSE
    /\ queue' = CancelExits(queue)
    /\ UNCHANGED <<store, preflight, agent, source, receipt, faults, answered>>

PageDisconnects ==
    /\ connected /\ faults < MaxFaults
    /\ faults' = faults + 1
    /\ connected' = FALSE /\ exitTimer' = TRUE
    /\ UNCHANGED <<store, queue, preflight, agent, source, receipt, answered>>

\* Eight seconds without a page.
ExitTimerFires ==
    /\ exitTimer /\ ~connected
    /\ exitTimer' = FALSE
    /\ queue' = Enqueue(queue, Nothing, Exit)
    /\ UNCHANGED <<store, preflight, agent, source, receipt, connected, faults, answered>>

-----------------------------------------------------------------------------
(* What a page may post (POST /events), also one whose stream is closed;    *)
(* LivePage has the page itself.                                           *)

\* The user clicks Go: a session of its own.
PageGoes(s) ==
    /\ ~Known(store[s])
    /\ store' = [store EXCEPT ![s] = AfterGenerate(@, Generate(FALSE))]
    /\ queue' = Enqueue(queue, s, Generate(FALSE))
    /\ UNCHANGED <<preflight, agent, source, receipt, connected, exitTimer, faults, answered>>

\* The user decides, once the variants have been seen; a page that was told
\* of a failure, or of nothing, may do it again.
PageDecides(s, type) ==
    /\ source[s] \/ receipt[s] # Nothing
    /\ store' = [store EXCEPT ![s] = AfterDecision(@, type)]
    /\ queue' = Enqueue(RetireGeneration(queue, s), s, Ask(type))
    /\ answered' = [answered EXCEPT ![s] = FALSE]
    /\ UNCHANGED <<preflight, agent, source, receipt, connected, exitTimer, faults>>

\* A checkpoint of a page in this session.
PageReports(s) ==
    /\ Known(store[s])
    /\ store' = [store EXCEPT ![s] = AfterCheckpoint(@)]
    /\ UNCHANGED <<queue, preflight, agent, source, receipt, connected, exitTimer, faults, answered>>

\* The page finds that variants it has seen are gone from the source: an
\* orphaned discard, which no agent is asked to carry out.
PageLosesWrapper(s) ==
    /\ ~source[s] /\ store[s].completed
    /\ store' = [store EXCEPT ![s] = AfterEnd(AfterDecision(@, "discard"), "discarded")]
    /\ queue' = RetireGeneration(queue, s)
    /\ UNCHANGED <<preflight, agent, source, receipt, connected, exitTimer, faults, answered>>

-----------------------------------------------------------------------------
Work(a) == Generates(a) \/ Decides(a) \/ Records(a) \/ Replies(a) \/ Completes(a)

Next ==
    \/ \E s \in Session :
         \/ PageGoes(s) \/ PageReports(s) \/ PageLosesWrapper(s)
         \/ \E type \in Decision : PageDecides(s, type)
    \/ PageConnects \/ PageDisconnects \/ ExitTimerFires
    \/ \E p \in preflight : PreflightDone(p)
    \/ \E i \in DOMAIN queue : LeaseExpires(i)
    \/ \E a \in Agent : Poll(a) \/ Work(a) \/ AgentDies(a)
    \/ RestartServer

Spec == Init /\ [][Next]_vars

\* Scaffolding ends, leases run out, agents go on polling and working; nobody
\* has to click, to connect or to fail.
Fairness ==
    /\ WF_vars(\E p \in preflight : PreflightDone(p))
    /\ WF_vars(\E i \in DOMAIN queue : LeaseExpires(i))
    /\ \A a \in Agent : WF_vars(Poll(a)) /\ WF_vars(Work(a))

FairSpec == Spec /\ Fairness

-----------------------------------------------------------------------------
(* What the server promises *)

Reply == {"done", "error", "agent_done", "complete", "carbonize", "discarded"}

Entry == [id : Maybe, event : Event \cup {Exit}, lease : Agent \cup {Nothing}]

Job == [doing : {"idle", "waiting", "working", "applied", "replying", "cleaning"},
        id : Maybe, event : Event \cup {Nothing}, reply : Reply \cup {Nothing},
        lapsed : BOOLEAN, old : BOOLEAN]

TypeOK ==
    /\ store \in [Session -> Snapshot]
    /\ queue \in Seq(Entry)
    /\ preflight \subseteq [id : Session, by : Agent]
    /\ agent \in [Agent -> Job]
    /\ source \in [Session -> BOOLEAN]
    /\ receipt \in [Session -> [type : Decision, reply : Reply] \cup {Nothing}]
    /\ connected \in BOOLEAN /\ exitTimer \in BOOLEAN
    /\ faults \in 0..MaxFaults
    /\ answered \in [Session -> BOOLEAN]

Works(a) == agent[a].doing \in {"waiting", "working"} /\ ~agent[a].lapsed

\* A generation is in the hands of one agent at a time; only one whose lease
\* has run out may be at work beside its successor.  The lease is taken before
\* the scaffolding is awaited: live-server.mjs, leaseEvent.
WorkedOnce ==
    \A a, b \in Agent :
        Works(a) /\ Works(b) /\ agent[a].id = agent[b].id
           /\ agent[a].event.type = "generate" /\ agent[b].event.type = "generate" => a = b

\* What the user has ended stays ended: no answer of a late worker, no
\* checkpoint and no error answered twice opens the session for generation
\* again.  live/session-store.mjs, generationCanceled and the fenced phases.
CanceledStaysFenced ==
    \A s \in Session : store[s].canceled => store[s].phase \in Fenced \cup {"agent_error"}

\* An exit never waits for the agent while a page is there: a reload is not
\* the end of live mode.  live-server.mjs, cancelQueuedAnonymousExitEvents.
NoExitWhileConnected == connected => \A entry \in ToSet(queue) : entry.event # Exit

\* A decision no agent has answered waits in the queue, and in the journal for
\* the next server: no late answer, no checkpoint, no timer and no restart
\* loses it.  live-server.mjs, restorePendingEventsFromStore.
DecisionHeld ==
    \A s \in Session, type \in Decision :
        store[s].phase = (IF type = "accept" THEN "accept_requested" ELSE "discard_requested")
            => /\ store[s].pending = Ask(type)
               /\ answered[s] \/ Queued(queue, s, type)

\* A decision that waits in the queue is not taken from it by the answer to
\* something else, unless that ends the session; only a restart may lose it.
\* live-server.mjs, inferSourceEventType and acknowledgePendingEvent.
UndeliveredKept ==
    [][\A i \in DOMAIN queue :
         queue[i].event.type \in Decision /\ queue[i].lease = Nothing
            => Queued(queue', queue[i].id, queue[i].event.type)
               \/ RestartServer
               \/ store'[queue[i].id].phase \in Closed
               \/ \E a \in Agent : /\ agent[a].id = queue[i].id /\ agent[a].event = queue[i].event
                                   /\ Replies(a)]_vars

\* The user's decision is answered by an agent, unless the session is over or
\* a failure was reported to the user, in spite of dying agents, slow ones and
\* a server that restarts: the decision is durable and its lease runs out.
DecisionAnswered ==
    \A s \in Session :
        store[s].phase \in {"accept_requested", "discard_requested"}
            ~> answered[s] \/ store[s].phase \in Closed \cup {"agent_error"}

-----------------------------------------------------------------------------
(* The inductive invariant: what the queue, the agents and the journal know *)
(* of each other.                                                           *)

\* enqueueEvent queues one event per session and type; the exit has no session.
Keyed(q) ==
    \A i, j \in DOMAIN q : q[i].id = q[j].id /\ q[i].event.type = q[j].event.type => i = j

QueueIsKeyed ==
    /\ Keyed(queue)
    /\ \A entry \in ToSet(queue) : entry.id = Nothing <=> entry.event = Exit

\* An agent is at what it was given.
JobsAgree ==
    \A a \in Agent :
        LET job == agent[a] IN
        job.doing # "idle" =>
            /\ job.id \in Session /\ job.event \in Event
            /\ Prepares(job.event) <=> job.doing = "waiting"
            /\ job.doing = "waiting" => ~job.lapsed /\ [id |-> job.id, by |-> a] \in preflight
            /\ job.doing \in {"applied", "cleaning"} => job.event.type \in Decision
            /\ job.doing \in {"applied", "replying"} => job.reply \in Reply
            /\ job.doing = "replying" /\ job.event.type = "generate" => job.reply \in {"done", "error"}

\* A session in which variants were written, or the user has decided.
Begun(s) ==
    \/ source[s] \/ receipt[s] # Nothing \/ store[s].canceled \/ store[s].completed
    \/ \E a \in Agent : agent[a].doing \notin {"idle", "waiting"} /\ agent[a].id = s

\* Nothing is at work in a session the journal does not know.
SessionsKnown ==
    /\ IsFiniteSet({s \in Session : Known(store[s])})
    /\ \A entry \in ToSet(queue) : entry.id \in Session => Known(store[entry.id])
    /\ \A p \in preflight : Known(store[p.id])
    /\ \A a \in Agent : agent[a].doing # "idle" => Known(store[agent[a].id])
    /\ \A s \in Session : Begun(s) => Known(store[s])

\* While a scaffolding is awaited its lease stands; there is one a session.
PreflightHoldsLease ==
    /\ \A p \in preflight, entry \in ToSet(queue) :
         SameEvent(entry, p.id, "generate") => entry.lease = p.by
    /\ \A p, q \in preflight : p.id = q.id => p = q

\* A worker whose lease has not run out holds it.
WorkerHoldsLease ==
    \A a \in Agent, entry \in ToSet(queue) :
        Works(a) /\ agent[a].event.type = "generate" /\ SameEvent(entry, agent[a].id, "generate")
            => entry.lease = a

\* Scaffolding is over before there are variants to decide on: no late end of
\* one opens a session the user has ended.
BegunIsPrepared ==
    /\ \A s \in Session : Begun(s) =>
         /\ store[s].pending # Generate(FALSE)
         /\ \A p \in preflight : p.id # s
         /\ \A entry \in ToSet(queue) : entry.id = s => entry.event # Generate(FALSE)
    /\ \A entry \in ToSet(queue) : entry.event = Generate(TRUE)
         => store[entry.id].pending # Generate(FALSE)

\* A decision that is pending or queued is one of the journal's.
DecisionsCancel ==
    /\ \A s \in Session : store[s].pending \in Event /\ store[s].pending.type \in Decision
                            => store[s].canceled
    /\ \A entry \in ToSet(queue) : entry.event.type \in Decision => store[entry.id].canceled

\* The exit is queued by a timer that a page stops.
ExitIsTimed == connected \/ exitTimer => \A entry \in ToSet(queue) : entry.event # Exit

IInv ==
    /\ TypeOK /\ QueueIsKeyed /\ JobsAgree /\ SessionsKnown
    /\ PreflightHoldsLease /\ WorkerHoldsLease /\ WorkedOnce
    /\ BegunIsPrepared /\ DecisionsCancel /\ CanceledStaysFenced /\ DecisionHeld
    /\ ExitIsTimed
=============================================================================
